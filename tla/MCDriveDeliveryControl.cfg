CONSTANTS
  c1 = c1
  c2 = c2
  None = None
  Creature <- TwoCreatures
  Autonomy = "generic"
  Budget = 1
  Conditional = TRUE
  MaxAttempts = 1
  MaxConsecutive = 1
  Ops = {"active", "update", "replay", "cancelled", "projection", "waiting", "wake", "unassign", "assign", "sinkError"}
  MaxOps = 2
SYMMETRY Creatures
SPECIFICATION Spec
INVARIANTS TypeOK NoOverlappingTurns
PROPERTY TerminalStays
