SPECIFICATION Spec
CONSTANTS
  Instances = {a,b}
  Owners = {a,b}
  Executors = {e1}
  Conns = {c1}
  Timers = {t1}
  Sweepers = {}
  Graces = {1}
  LeaseDuration = 2
  MaxRetries = 1
  MayReconnect = FALSE
  MayCrash = TRUE
  PeersJoin = FALSE
  LeftStatuses = {}
  Standalone = FALSE
  TimelyRenewal = TRUE
  StoreFaults = FALSE
  None = None
SYMMETRY Symmetric
PROPERTIES
  LiveNeverDead
  LiveRecordKept
CHECK_DEADLOCK FALSE
