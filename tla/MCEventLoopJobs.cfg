CONSTANTS
  e1 = e1
  e2 = e2
  e3 = e3
  Event = {e1, e2, e3}
  Kind <- Jobs
SPECIFICATION FairSpec
PROPERTIES EventServed StopTerminates
