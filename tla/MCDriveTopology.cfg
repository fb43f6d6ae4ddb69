CONSTANTS
  a = a
  b = b
  c = c
  p = p
  q = q
  r1 = r1
  r2 = r2
  Creatures = {a, b, c}
  Callers = {p, q}
  Recoverers = {r1, r2}
  MaxGraphs = 3
  MaxFaults = 3
SPECIFICATION Spec
INVARIANTS TypeOK NoDriveVanishes OneOwner
SYMMETRY Symmetry
CONSTRAINT Tellable
CHECK_DEADLOCK FALSE
