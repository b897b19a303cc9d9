CONSTANTS
  p1 = p1
  p2 = p2
  p3 = p3
  NoOwner = NoOwner
  Ghost = Ghost
  Procs = {p1, p2}
  StaleAfter = 2
  Window = 2
  Silence = 1
  MaxFaults = 1
SPECIFICATION Spec
INVARIANTS CoverageIsReal OneCollectorWhileFresh
PROPERTIES TwoCollectorsResolve CollectionResumes
