----------------------------- MODULE MCCampaigns -----------------------------
(***************************************************************************)
(* A small instance of Campaigns: a wallet that pays for one message, and    *)
(* for a second one once a recharge request that is being approved is credited, *)
(* for two recipients and one whose conversation lacks a participant.        *)
(***************************************************************************)
EXTENDS Campaigns

OnePayment == [r \in Requests |-> "utr"]

ApprovingInit ==
    /\ wallet = InitWallet
    /\ request = [r \in Requests |-> "approved"]
    /\ filing = {} /\ approving = Requests
    /\ credited = [r \in Requests |-> 0]
    /\ mishaps = [failed |-> 0, unheard |-> 0, dead |-> 0]
    /\ CampaignInit

ApprovingSpec == ApprovingInit /\ [][Next]_vars /\ Fairness
=============================================================================
