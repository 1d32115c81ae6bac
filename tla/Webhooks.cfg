SPECIFICATION FairSpec
CONSTANTS
  p1 = p1  p2 = p2  l1 = l1  h1 = h1  d1 = d1  d2 = d2
  Procs = {p1, p2}
  Lanes = {l1}
  Hooks = {h1}
  Deliveries = {d1, d2}
  HookOf <- OneHook
  QueueMax = 1
  MaxAttempts = 2
  Flaky = {d1}
  CanFail = {p1}
  Callers = {p1}
  MaxFaults = 2
  NoHook = NoHook
INVARIANTS TypeOK RecordsAreEarned NothingForgotten
PROPERTIES PendingSettles
CHECK_DEADLOCK FALSE
