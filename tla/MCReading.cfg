CONSTANTS
  Nothing = Nothing
  Parts = {"search", "social", "filters", "timelines", "feeds", "hub"}
  TimelineScenes <- AllScenes
  Servers = {"s1", "s2"}
  Off = "off"
  Keys = {"k"}
  MaxCache = 1
  MaxLogins = 2
  MaxFaults = 1
SPECIFICATION SuiteSpec
INVARIANTS SocialHolds FiltersHold NoneMissed FeedHeld TokenStaysHome NoGap
CHECK_DEADLOCK FALSE
