CONSTANTS
  e1 = e1
  e2 = e2
  e3 = e3
  Event = {e1, e2, e3}
  Kind <- Mixed
SPECIFICATION Spec
INVARIANTS TypeOK NoCallerStranded
PROPERTIES RejectedNeverRan CutForItsOwnReason ServesRequests
