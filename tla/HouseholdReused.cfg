\* A third account takes the slot of a deleted one.
SPECIFICATION Spec
CONSTANTS
  None = None
  Slots = 2
  MaxAccount = 3
  MaxId = 2
  MaxVersion = 2
  Revisions = 1
  Kinds = {"pin"}
  Features = {"mention", "direct", "reply"}
  MaxStatuses = 2
  MaxHistory = 1
  MaxBoosts = 1
  MaxPins = 1
  MaxFaults = 0
  FullFaults = FALSE
INVARIANT AudienceFixed
CHECK_DEADLOCK FALSE
