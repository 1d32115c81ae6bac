---------------------------- MODULE MCScheduler ----------------------------
(***************************************************************************)
(* Instances of Scheduler for TLC.                                         *)
(***************************************************************************)
EXTENDS Scheduler

CONSTANTS p1, p2

\* Every other instant, up to the first one past the horizon.
EvenTimes == {t \in 1 .. Horizon + 2 : t % 2 = 0}

Cron == [type |-> "cron", times |-> EvenTimes]
Every3 == [type |-> "interval", every |-> 3]

CronOnly == {Cron}
CronAndInterval == {Cron, Every3}

=============================================================================
