SPECIFICATION Spec
CONSTANTS
  o1 = o1
  o2 = o2
  a1 = a1
  a2 = a2
  w1 = w1
  Orgs = {o1, o2}
  DefaultOrg = o1
  Directories = {{o1, o2}, {o2}}
  Apps = {a1, a2}
  Registered <- MCRegistered
  Workflows = {w1}
  Owner <- MCOwner
  Visited = {"fleet", "keys", "settings", "audit"}
  StoredOrgs = {None}
  StoredApps = {None}
  StoredKeys = {None}
  Faults = {"noAuth"}
  Uses = {"live", "navigate", "history", "refresh", "select", "otherTab", "signIn", "filter", "operate", "dialog", "tab"}
  MaxTasks = 2
  MaxEvents = 2
  MaxPage = 1
  None = None
INVARIANTS
  ConsoleTypeOK
  ViewMatchesRoute
  OrgIsolated
  ConfirmMatchesDialog
  LiveSourceMatchesMode
PROPERTY SpinnersEnd
CHECK_DEADLOCK FALSE
