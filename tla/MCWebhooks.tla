----------------------------- MODULE MCWebhooks -----------------------------
(***************************************************************************)
(* A small instance of Webhooks: two servers whose sweeps read one due row  *)
(* at a time, of two events for two endpoints.                               *)
(***************************************************************************)
EXTENDS Webhooks, TLC

CONSTANTS e1, e2, d1

FirstApart == [d \in Deliveries |-> IF d = d1 THEN e1 ELSE e2]
=============================================================================
