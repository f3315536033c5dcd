SPECIFICATION FairSpec
CONSTANTS
  Ticks = 4
  Times = {1, 3}
  MaxAlarms = 4
  Word = 3
  MaxSets = 4
  None = None
  MaxLag = 2
  Styles = {"calls", "slow"}
  SlowRelease = FALSE
INVARIANTS TypeOK StatusExact ComparatorArmed HandlerHasAlarm
 
