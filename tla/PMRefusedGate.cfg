SPECIFICATION Spec
CONSTANTS
  db = db
  api = api
  web = web
  Component = {db, api, web}
  StartedDeps <- ForkStarted
  HealthyDeps <- ForkHealthy
  Checked = {api}
  Portless = {}
  Detach = FALSE
  InterruptStart = FALSE
  MayCrash = FALSE
INVARIANT SurvivorsRecorded
CHECK_DEADLOCK FALSE
