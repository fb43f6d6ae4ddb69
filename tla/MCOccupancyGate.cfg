CONSTANTS
  t1 = t1
  t2 = t2
  t3 = t3
  file = file
  sidecar = sidecar
  Threads = {t1, t2, t3}
  Paths = {file, sidecar}
  Families <- OneAndBoth
SPECIFICATION FairSpec
INVARIANTS TypeOK SoleOccupant CountersExact
PROPERTIES UncertainIsFinal EnrolmentEnds
