\* A steady buyer and one lost answer, save or power cut.
SPECIFICATION SuiteSpec
CONSTANTS
  Parts = {"trader"}
  MaxFaults = 0
  MaxPasses = 0
  KeptFaults = 0
  TraderScenes <- SteadyBuyer
  TraderFaults = 1
  DigestRuns = 1
  DigestChanges = 0
INVARIANT RetryMovesOnce
CHECK_DEADLOCK FALSE
