\* One status at a time of two members; the slot of one is used again.
SPECIFICATION Spec
CONSTANTS
  None = None
  Slots = 2
  MaxAccount = 3
  MaxId = 2
  MaxVersion = 2
  Revisions = 1
  Kinds = {"favourite", "boost", "pin"}
  Features = {"poll", "direct"}
  MaxStatuses = 1
  MaxHistory = 2
  MaxBoosts = 1
  MaxPins = 1
  MaxFaults = 2
  FullFaults = TRUE
INVARIANTS RecordsHold NothingInherited
PROPERTY EditKeepsOld
CHECK_DEADLOCK FALSE
