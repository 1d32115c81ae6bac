SPECIFICATION Spec
CONSTANTS
  w1 = w1  w2 = w2
  s1 = s1  s2 = s2  s3 = s3
  j1 = j1  j2 = j2
  k1 = k1  host = host
  NoWorker = NoWorker  NoKey = NoKey  NoJob = NoJob
  Jobs = {j1, j2}
  Workers = {w1, w2}
  Slots = {s1, s2, s3}
  WorkerOf <- Concurrent
  KeyOf <- OneKey
  AddrOf <- OwnAddr
  SyncJobs = {j2}
  Snoozers = {j1}
  CanStop = {w1}
  CanCrash = {w2}
  CanStall = {w1}
  MaxAttempts = 1
  AttemptCap = 2
  MaxFaults = 1
 
PROPERTIES ImplementsLease
\* Worker ids are used up: the fleet may stop for good.
CHECK_DEADLOCK FALSE
