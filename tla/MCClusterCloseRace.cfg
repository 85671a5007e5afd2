SPECIFICATION Spec
CONSTANTS
  Instances = {a}
  Owners = {a}
  Executors = {e1}
  Conns = {c1,c2}
  Timers = {t1}
  Sweepers = {s1}
  Graces = {3}
  LeaseDuration = 2
  MaxRetries = 1
  MayReconnect = TRUE
  MayCrash = FALSE
  PeersJoin = TRUE
  LeftStatuses = {}
  Standalone = FALSE
  TimelyRenewal = TRUE
  StoreFaults = FALSE
  None = None
SYMMETRY Symmetric
PROPERTY LiveNeverDead
CHECK_DEADLOCK FALSE
