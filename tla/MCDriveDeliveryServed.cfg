CONSTANTS
  c1 = c1
  c2 = c2
  None = None
  Creature <- OneCreature
  Autonomy = "generic"
  Budget = 1
  Conditional = FALSE
  MaxAttempts = 2
  MaxConsecutive = 1
  Ops = {"stop"}
  MaxOps = 1
SPECIFICATION FairSpec
PROPERTY DeliveryServed
