----------------------------- MODULE MCWebhooks -----------------------------
(***************************************************************************)
(* Instances of Webhooks for TLC.                                          *)
(***************************************************************************)
EXTENDS Webhooks

CONSTANTS p1, p2, l1, h1, d1, d2

\* All deliveries go to one endpoint.
OneHook == [d \in Deliveries |-> h1]

=============================================================================
