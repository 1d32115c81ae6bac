---------------------------- MODULE MCWorkerHost ----------------------------
(***************************************************************************)
(* Instances of WorkerHost for TLC.                                        *)
(***************************************************************************)
EXTENDS WorkerHost, TLC

CONSTANTS s1, s2, j1, j2

TwoAndOne == (j1 :> 2) @@ (j2 :> 1)

=============================================================================
