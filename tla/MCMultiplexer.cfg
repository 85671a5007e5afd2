SPECIFICATION FairSpec
CONSTANTS
  Calls = {c1, c2, c3}
  RequestIDs = {r1, r2}
  None = None
INVARIANTS
  TypeOK
  NoChannelPanic
  NoStrandedWaiter
  PendingOwned
  CancelledOnlyByClose
PROPERTIES
  CallsTerminate
  KeepsPromise
CHECK_DEADLOCK FALSE
