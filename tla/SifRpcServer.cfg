SPECIFICATION Spec
CONSTANTS
  s1 = s1  s2 = s2  c1 = c1  c2 = c2
  ServerOf <- Own
  Null = Null
  Servers = {s1, s2}
  Clients = {c1, c2}
  Rmode <- Mixed
  Rsize <- WaitersData
  NPackets = 2
  NRing = 2
  Laps = FALSE
  Faults = {"send"}
INVARIANTS TypeOK NoLostWakeup   
CHECK_DEADLOCK FALSE
VIEW LiveView
