SPECIFICATION Spec
CONSTANTS
  NUnits = 8
  Wrap = 64
  MaxSize = 4
  MaxSub = 2
  Names = {"_tmp", "a"}
  Tmp = "_tmp"
  FormatList <- NoParts
  Slots = {1}
  NoName = NoName
  NoHeader = NoHeader
  Closed = Closed
  Calls = {"add", "sub", "remove", "rename"}
  CutWhen = {}
CHECK_DEADLOCK FALSE
INVARIANTS TypeOK WellFormed SubsListed SlotsCurrent
PROPERTIES DeleteKeepsOthers
VIEW LiveView
