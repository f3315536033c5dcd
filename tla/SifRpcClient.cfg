SPECIFICATION FairSpec
CONSTANTS
  Threads = {t1, t2}
  NPackets = 3
  MaxPid = 5
  Null = Null
  Faults = {"send", "sema"}
CHECK_DEADLOCK FALSE
INVARIANTS PacketExclusive NoStrayEnd CheckStatExact WakeupExact
PROPERTIES CallReturns
