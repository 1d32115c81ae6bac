SPECIFICATION Spec
CONSTANTS
  p1 = p1  p2 = p2
  NoProc = NoProc  NoSched = NoSched
  Procs = {p1, p2}
  Defs <- CronAndInterval
  Decorated <- Cron
  Importers = {p1}
  Adders = {p2}
  Pausers = {p2}
  Removers = {p2}
  CanStop = {p2}
  CanCrash = {p2}
  Horizon = 2
  MaxFaults = 1
CONSTRAINT LessTogether
INVARIANTS TypeOK CountsAreRuns SoleProcessInSync
