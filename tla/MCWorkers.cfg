CONSTANTS
  Parts = {"actions", "mars", "news", "llm", "lost", "site"}
  Windows <- TwoWindows
  Boards = {"b1", "b2"}
  MaxNow = 3
  MaxIds = 2
  MaxFaults = 1
  MaxChanges = 1
SPECIFICATION SuiteSpec
INVARIANTS SaveHolds NewsToldOnce AnsweredInTurn OneClaimant PublishedWasGiven
PROPERTIES OnceEver WorkEnds
CHECK_DEADLOCK FALSE
