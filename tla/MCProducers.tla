---------------------------- MODULE MCProducers -----------------------------
(***************************************************************************)
(* Instances of Producers for TLC.                                         *)
(***************************************************************************)
EXTENDS Producers

CONSTANTS j1, j2, k1, k2, c1, c2

=============================================================================
