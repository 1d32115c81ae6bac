------------------------------ MODULE MCSetup -------------------------------
(***************************************************************************)
(* Instances of Setup for TLC.                                             *)
(***************************************************************************)
EXTENDS Setup

CONSTANTS p1, p2, c1, c2, c3

\* Two coroutines in the old release and one in the new, which has a plugin.
TwoOnFirst == [c \in Calls |-> IF c = c3 THEN p2 ELSE p1]
OldAndNew == [p \in Procs |-> IF p = p1 THEN {1, 2} ELSE {1, 2, 3, 100002}]

=============================================================================
