------------------------------ MODULE SendOnce ------------------------------
(***************************************************************************)
(* What a campaign promises about its recipients and their money: once it    *)
(* has its recipients they never change, each is sent its message or is      *)
(* passed over, once, only while the campaign is running, a message takes    *)
(* its price out of the wallet in the same step, and a campaign completes    *)
(* only when everyone is settled. Money is lost on those only whose          *)
(* conversation with the business is incomplete, and they are sent nothing.  *)
(***************************************************************************)
EXTENDS Naturals

CONSTANTS Recipients, Incomplete, Price

VARIABLES phase, outcome, wallet

vars == <<phase, outcome, wallet>>

Init ==
    /\ phase = "waiting"
    /\ outcome = [r \in Recipients |-> "none"]
    /\ wallet \in Nat

Recharge ==
    /\ wallet' > wallet
    /\ UNCHANGED <<phase, outcome>>

\* The recipients are drawn up when the campaign is scheduled or started.
DrawUp ==
    \E R \in SUBSET Recipients :
        outcome' = [r \in Recipients |-> IF r \in R THEN "pending" ELSE "none"]

Schedule ==
    /\ phase = "waiting" /\ \A r \in Recipients : outcome[r] = "none"
    /\ DrawUp
    /\ UNCHANGED <<phase, wallet>>

Start ==
    /\ phase = "waiting" /\ phase' = "running"
    /\ \/ UNCHANGED outcome
       \/ (\A r \in Recipients : outcome[r] = "none") /\ DrawUp
    /\ UNCHANGED wallet

CallOff ==
    /\ phase = "waiting" /\ phase' = "called_off"
    /\ UNCHANGED <<outcome, wallet>>

Settle(r, how) ==
    /\ phase = "running" /\ outcome[r] = "pending"
    /\ outcome' = [outcome EXCEPT ![r] = how]
    /\ UNCHANGED phase

Pay == wallet >= Price /\ wallet' = wallet - Price

Send(r) == r \notin Incomplete /\ Settle(r, "sent") /\ Pay
Skip(r) == Settle(r, "skipped") /\ UNCHANGED wallet

\* The message is paid before its conversation turns out to be incomplete,
\* also by a run that comes second to the recipient.
Waste(r) ==
    /\ r \in Incomplete /\ Pay
    /\ \/ Settle(r, "skipped")
       \/ phase \in {"running", "completed"} /\ outcome[r] # "pending"
          /\ UNCHANGED <<phase, outcome>>

Complete ==
    /\ phase = "running" /\ phase' = "completed"
    /\ \A r \in Recipients : outcome[r] # "pending"
    /\ UNCHANGED <<outcome, wallet>>

Next ==
    \/ Recharge \/ Schedule \/ Start \/ CallOff \/ Complete
    \/ \E r \in Recipients : Send(r) \/ Skip(r) \/ Waste(r)

Spec == Init /\ [][Next]_vars
=============================================================================
