SPECIFICATION Spec
CONSTANTS
  Ticks = 6
  Times = {1, 2, 4}
  MaxAlarms = 4
  Word = 3
  MaxSets = 4
  None = None
  MaxLag = 0
  Styles = {"calls"}
  SlowRelease = FALSE
PROPERTIES OnTime
