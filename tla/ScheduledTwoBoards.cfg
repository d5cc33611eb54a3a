\* One draft, rescheduled twice, while the admin moves the pairing between two
\* bots boards.
SPECIFICATION Spec
CONSTANTS
  Account = {alice}
  Bots = {b1, b2}
  NoBoard = NoBoard
  MaxJobs = 1
  AuthorOf <- MCAuthorOf
  MaxRevision = 2
  MaxEpoch = 0
  MaxTime = 2
  Lead = 1
  Skew = 0
  MaxScheduled = 1
  Capacity = 1
  MaxLate = 1
  MaxFaults = 1
  FullFaults = FALSE
SYMMETRY BoardSymmetry
INVARIANTS RevisionFixesTime AckedIsHeld
PROPERTY ClosedForGood
