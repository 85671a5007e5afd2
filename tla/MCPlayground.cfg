SPECIFICATION Spec
CONSTANTS
  TokenNames = {"dev"}
  RoleNames = {"viewer", "deploy", "ci"}
  ValidRoleNames = {"viewer", "deploy"}
  Shadowed = {"forky"}
  Users = {"bob", "forky", "eve"}
  Queues = {"vip", "partitioned"}
  MaxRequests = 2
  SeedToken = "dev"
  GlobalRoles = {"viewer"}
  SeedRoles = {"viewer", "deploy"}
  SeedMembers <- MCSeedMembers
  EligibleQueues = {"vip"}
  Numbers = {0, 1, 2}
  Draws <- MCDraws
  Demo = 0
  MaxErrors = 1
  MaxClicks = 3
INVARIANTS
  PlaygroundTypeOK
  RunsWhole
  NoDanglingView
  ConsoleCatchesUp
  DemoAnswered
  AuditReplays
PROPERTY RunsEnd
CHECK_DEADLOCK FALSE
