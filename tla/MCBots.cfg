CONSTANTS
  Parts = {"enrollment", "connections", "trader", "digest", "shoebox", "time"}
  MaxFaults = 5
  MaxPasses = 5
  KeptFaults = 1
  TraderScenes <- AllTraders
  TraderFaults = 1
  DigestRuns = 2
  DigestChanges = 1
SPECIFICATION SuiteSpec
INVARIANTS NeverTwice SetupHolds MoneyRules TurnsHold
PROPERTIES DigestHolds SlotsAgree
CHECK_DEADLOCK FALSE
