SPECIFICATION FairSpec
CONSTANTS
  Calls = {w1, w2}
  Peers = {p1, p2}
  Versions = {v1, v2}
  DeadVersion = v2
  None = None
  AllowVersionMismatch = {w1}
  HasDirectRecovery = {w1}
  LeftPending = {v1, v2}
  RedeployMidCall = FALSE
INVARIANTS
  TypeOK
  DeadVersionRecovered
  DirectLeavesNoWork
 
CHECK_DEADLOCK FALSE
