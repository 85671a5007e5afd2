SPECIFICATION FairSpec
CONSTANTS
  Instances = {a}
  Owners = {a,x}
  Executors = {e1}
  Conns = {c1}
  Timers = {t1}
  Sweepers = {s1}
  Graces = {1}
  LeaseDuration = 1
  MaxRetries = 1
  MayReconnect = FALSE
  MayCrash = FALSE
  PeersJoin = FALSE
  LeftStatuses = {"connected"}
  Standalone = FALSE
  TimelyRenewal = FALSE
  StoreFaults = FALSE
  None = None

PROPERTY GoneIsRecovered
CHECK_DEADLOCK FALSE
