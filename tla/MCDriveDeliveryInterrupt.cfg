CONSTANTS
  c1 = c1
  c2 = c2
  None = None
  Creature <- OneCreature
  Autonomy = "auto"
  Budget = 2
  Conditional = FALSE
  MaxAttempts = 2
  MaxConsecutive = 1
  Ops = {"userInterrupt", "turnError", "sinkError"}
  MaxOps = 0
SPECIFICATION Spec
INVARIANT BudgetHolds
PROPERTY UserStopHolds
