CONSTANTS
  c1 = c1
  c2 = c2
  None = None
  Creature <- OneCreature
  Autonomy = "auto"
  Budget = 1
  Conditional = FALSE
  MaxAttempts = 1
  MaxConsecutive = 1
  Ops = {"crash"}
  MaxOps = 3
SPECIFICATION Spec
INVARIANTS OneRecoveryPerEpoch OneCommitmentPerKey
PROPERTY UncertainIsReplaced
