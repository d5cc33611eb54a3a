\* Two drafts through queues of one, a password change, two failures.
SPECIFICATION FairSpec
CONSTANTS
  Account = {alice}
  Bots = {b1}
  NoBoard = NoBoard
  MaxJobs = 2
  AuthorOf <- MCAuthorOf
  MaxRevision = 1
  MaxEpoch = 1
  MaxTime = 1
  Lead = 1
  Skew = 1
  MaxScheduled = 1
  Capacity = 1
  MaxLate = 1
  MaxFaults = 2
  FullFaults = FALSE
INVARIANTS QueuesBoot AtMostOnce
PROPERTIES KeepsPromise EventuallySettled TimersDrain
