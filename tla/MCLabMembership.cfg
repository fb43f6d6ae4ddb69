CONSTANTS
  a = a
  b = b
  r1 = r1
  Nodes = {a, b}
  Slots = {1, 2}
  Requests = {r1}
  MaxFaults = 2
SPECIFICATION FairSpec
INVARIANTS TypeOK RegistryAgrees NoRequestOutlivesItsLink
CHECK_DEADLOCK FALSE
PROPERTIES RequestEnds Rejoins
