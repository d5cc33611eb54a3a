\* As the one-board run, with writes refused because the flash is full.
SPECIFICATION Spec
CONSTANTS
  Account = {alice}
  Bots = {b1}
  NoBoard = NoBoard
  MaxJobs = 1
  AuthorOf <- MCAuthorOf
  MaxRevision = 1
  MaxEpoch = 0
  MaxTime = 1
  Lead = 1
  Skew = 0
  MaxScheduled = 1
  Capacity = 1
  MaxLate = 0
  MaxFaults = 2
  FullFaults = TRUE
INVARIANT AtMostOnce
