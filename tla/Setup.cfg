SPECIFICATION Spec
CONSTANTS
  p1 = p1  p2 = p2  c1 = c1  c2 = c2  c3 = c3
  Procs = {p1, p2}
  Calls = {c1, c2, c3}
  HostOf <- TwoOnFirst
  FilesOf <- OldAndNew
  Closers = {c2, c3}
  NoOne = NoOne
  MaxFaults = 1
INVARIANTS TypeOK FilesRunOnceInOrder ReportsHold OnePool
PROPERTIES EveryCallEnds
CHECK_DEADLOCK FALSE
