--------------------------- MODULE MCDeadLetters ----------------------------
(***************************************************************************)
(* Instances of DeadLetters for TLC.                                       *)
(***************************************************************************)
EXTENDS DeadLetters, TLC

CONSTANTS j1, j2, c1, o1, o2, t1, t2

\* One operator tags, the other does everything.
TagAndAll == (o1 :> {"tag"}) @@ (o2 :> {"tag", "stats", "replay"})

Symmetry == Permutations(Jobs) \cup Permutations(Tags)

=============================================================================
