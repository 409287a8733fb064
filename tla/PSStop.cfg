SPECIFICATION FairSpec
CONSTANTS
  web = web
  worker = worker
  Component <- Two
  Nobody = Nobody
INVARIANTS TypeOK StrangersSpared ForgottenMeansDead
PROPERTY DownEnds
