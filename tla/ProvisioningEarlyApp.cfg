\* A client may register before the owner has set up; no export, one power cut.
SPECIFICATION SuiteSpec
CONSTANTS
  None = None
  Torn = Torn
  Absent = Absent
  Name = {"n1"}
  Hash = {"h1"}
  Title = {"t1"}
  MaxObjects = 1
  Budget = 1
  MaxRevision = 1
  MaxFaults = 0
  Fresh = FALSE
  Parts = {"setup"}
  Importing = FALSE
  EarlyApps = TRUE
  Exported = {}
  PowerCuts = 1
  Errors = 0
INVARIANT NeverCorrupt
CHECK_DEADLOCK FALSE
