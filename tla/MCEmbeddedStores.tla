-------------------------- MODULE MCEmbeddedStores --------------------------
(***************************************************************************)
(* Instances of EmbeddedStores for TLC.                                    *)
(***************************************************************************)
EXTENDS EmbeddedStores, TLC

CONSTANTS j1, j2, t1, t2, k1

OneKey == [j \in Jobs |-> k1]
\* The second job is only created, cancelled and deleted.
Claims2And0 == [j \in Jobs |-> IF j = j1 THEN 2 ELSE 0]
Symmetry == Permutations(Tasks)

=============================================================================
