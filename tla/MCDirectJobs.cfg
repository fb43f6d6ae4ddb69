CONSTANTS
  j1 = j1
  j2 = j2
  Jobs = {j1, j2}
  Order <- InSequence
  Tool <- OneTool
  Failures <- AllOrNone
  MaxInputs = 2
  Quiet = {}
  Ops = {"interrupt", "cancel", "promote", "terminate", "stop"}
SPECIFICATION EndingSpec
INVARIANTS TypeOK NotToldTwice WireNotStranded
PROPERTIES NextRoundIsPaired JobHeard
CHECK_DEADLOCK FALSE
