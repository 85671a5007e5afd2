SPECIFICATION ManagerSpec
CONSTANTS
  Instances = {a}
  Owners = {a, b}
  Executors = {e1}
  Timers = {t1, t2}
  Sweepers = {s1}
  Graces = {1}
  LeaseDuration = 1
  MaxRetries = 1
  StoreFaults = TRUE
  None = None
SYMMETRY Symmetric
INVARIANTS
  ManagerTypeOK
  TimerGuardsDisconnect
PROPERTY FullGracePeriod
CHECK_DEADLOCK FALSE
