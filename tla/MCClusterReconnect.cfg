SPECIFICATION Spec
CONSTANTS
  Instances = {a}
  Owners = {a}
  Executors = {e1}
  Conns = {c1,c2}
  Timers = {t1}
  Sweepers = {}
  Graces = {1}
  LeaseDuration = 1
  MaxRetries = 1
  MayReconnect = TRUE
  MayCrash = TRUE
  PeersJoin = TRUE
  LeftStatuses = {"connected"}
  Standalone = FALSE
  TimelyRenewal = FALSE
  StoreFaults = TRUE
  None = None
SYMMETRY Symmetric
INVARIANTS
  ClusterTypeOK
  RegistryCurrent
CHECK_DEADLOCK FALSE
