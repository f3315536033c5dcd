SPECIFICATION Spec
CONSTANTS
  NUnits = 6
  Wrap = 64
  MaxSize = 4
  MaxSub = 1
  Names = {"_tmp", "a"}
  Tmp = "_tmp"
  FormatList <- SysParts
  Slots = {1}
  NoName = NoName
  NoHeader = NoHeader
  Closed = Closed
  Calls = {"add", "sub", "remove", "swap", "format"}
  CutWhen = {"clean"}
CHECK_DEADLOCK FALSE
INVARIANTS  SubsLive
PROPERTIES LoopsShrink
VIEW LiveView
