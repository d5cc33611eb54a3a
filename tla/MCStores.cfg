CONSTANTS
  None = None
  Torn = Torn
  Absent = Absent
  Name = {"n1", "n2"}
  Hash = {"h1", "h2"}
  Title = {"t1", "t2"}
  MaxObjects = 2
  Budget = 2
  MaxRevision = 4
  MaxFaults = 2
  Fresh = FALSE
  Parts = {"posts", "access", "relations", "log", "setup", "cloud"}
  Importing = FALSE
  EarlyApps = FALSE
  Exported = {"schema", "server", "owner", "member", "app", "status", "key"}
  PowerCuts = 2
  Errors = 1
SPECIFICATION SuiteSpec
INVARIANTS PostsHold AlwaysBoots
PROPERTIES KeyOpens SignedOutStaysOut BlocksEnd KeepsStore StateHolds
CHECK_DEADLOCK FALSE
