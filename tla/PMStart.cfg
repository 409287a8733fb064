SPECIFICATION FairSpec
CONSTANTS
  db = db
  api = api
  web = web
  Component = {db, api, web}
  StartedDeps <- CycleStarted
  HealthyDeps <- ForkHealthy
  Checked = {db, api}
  Portless = {}
  Detach = FALSE
  InterruptStart = TRUE
  MayCrash = TRUE
INVARIANTS TypeOK DependencyGate ClearedMeansDead SurvivorsKnown
PROPERTIES SuccessMeansUp StopsInReverse StartSettles InterruptEnds
CHECK_DEADLOCK FALSE
