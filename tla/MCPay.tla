------------------------------- MODULE MCPay -------------------------------
(***************************************************************************)
(* Small instances of Refunds and the checkout it extends.                   *)
(***************************************************************************)
EXTENDS Refunds, TLC

CONSTANT key

HalfEach == [r \in Requests |-> 1]
SameKeys == [r \in Requests |-> key]

\* Refunds of a purchase that was paid for, heard of and provided.
PaidFor ==
    /\ kind \in Kinds
    /\ tx = [status |-> "completed", order |-> TRUE, paid |-> TRUE, prov |-> TRUE]
    /\ captured = TRUE /\ owed = FALSE /\ lock = Free
    /\ tasks = [t \in Tasks |-> Idle]
    /\ granted = 1 /\ active = (IF kind = "wallet_topup" THEN 0 ELSE 1)
    /\ past = [crashes |-> 0, undone |-> FALSE, forfeited |-> FALSE]
    /\ RefundInit

RefundSpec == PaidFor /\ [][Next]_vars /\ Fairness
=============================================================================
