SPECIFICATION FairSpec
CONSTANTS
  s1 = s1  s2 = s2  c1 = c1  c2 = c2
  ServerOf <- Own
  Null = Null
  Servers = {s1}
  Clients = {c1}
  Rmode <- Mixed
  Rsize <- WaitersData
  NPackets = 2
  NRing = 2
  Laps = FALSE
  Faults = {}
PROPERTIES CallAnswered
CHECK_DEADLOCK FALSE
