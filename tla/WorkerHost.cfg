SPECIFICATION Spec
CONSTANTS
  s1 = s1  s2 = s2  j1 = j1  j2 = j2
  NoJob = NoJob
  Slots = {s1, s2}
  Jobs = {j1, j2}
  SyncJobs = {j1}
  PoolMax = 3
  Headroom = 1
  SyncPool = 1
  MaxAttempts <- TwoAndOne
INVARIANTS TypeOK PermitsMatchThreads ShortRetriesHaveAWaker
PROPERTIES DueJobsAreTaken WaitersAreServed
CHECK_DEADLOCK FALSE
