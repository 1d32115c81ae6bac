SPECIFICATION ProducersSpec
CONSTANTS
  j1 = j1  j2 = j2  k1 = k1  k2 = k2  c1 = c1  c2 = c2
  NoKey = NoKey  NoJob = NoJob
  Jobs = {j1, j2}
  Keys = {k1, k2}
  Callers = {c1, c2}
  Transacting = {c1, c2}
  DedupAttempts = 2
  MaxFaults = 1
INVARIANTS ReturnedJobStarts
PROPERTIES EveryCallEnds
CHECK_DEADLOCK FALSE
