SPECIFICATION Spec
CONSTANTS
  j1 = j1  j2 = j2  t1 = t1  t2 = t2  k1 = k1
  NoTask = NoTask  NoJob = NoJob
  Jobs = {j1, j2}
  KeyOf <- OneKey
  Tasks = {t1, t2}
  MaxLives = 2
  MaxAttempts <- Claims2And0
  MaxFaults = 1
SYMMETRY Symmetry
INVARIANTS TypeOK NoJobLost OneHolder OneUntouchedPerKey
CHECK_DEADLOCK FALSE
