SPECIFICATION Spec
CONSTANTS
  j1 = j1  j2 = j2  c1 = c1  o1 = o1  o2 = o2  t1 = t1  t2 = t2
  NoKey = NoKey  NoJob = NoJob
  Jobs = {j1, j2}
  Keys = {NoKey}
  Callers = {c1}
  Transacting = {}
  DedupAttempts = 1
  MaxFaults = 1
  Operators = {o1, o2}
  Tags = {t1, t2}
  MaxReplays = 1
  Tasks <- TagAndAll
SYMMETRY Symmetry
INVARIANTS TypeOK NoJobOverlooked
PROPERTIES OnlyOverlapLosesTags
CHECK_DEADLOCK FALSE
