SPECIFICATION FairSpec
CONSTANTS
  p1 = p1  p2 = p2
  NoProc = NoProc  NoSched = NoSched
  Procs = {p1, p2}
  Defs <- CronOnly
  Decorated <- Cron
  Importers = {p1, p2}
  Adders = {}
  Pausers = {}
  Removers = {}
  CanStop = {p2}
  CanCrash = {p2}
  Horizon = 4
  MaxFaults = 1
INVARIANTS SlotsAdvance
PROPERTIES OneRunPerSlot DueRunsLeave
