SPECIFICATION Spec
CONSTANTS
  db = db
  api = api
  web = web
  Component = {db, api, web}
  StartedDeps <- ForkStarted
  HealthyDeps <- NoDeps
  Checked = {}
  Portless = {}
  Detach = FALSE
  InterruptStart = FALSE
  MayCrash = FALSE
PROPERTY AwaitsLiving
CHECK_DEADLOCK FALSE
