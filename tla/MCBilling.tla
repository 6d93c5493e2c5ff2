----------------------------- MODULE MCBilling -----------------------------
(***************************************************************************)
(* Small instances of BillingEngine: amounts in paise, a minute of two       *)
(* seconds, one or two calls on one account.                                 *)
(***************************************************************************)
EXTENDS BillingEngine, TLC

Opening(wallet, free, credits) ==
    [wallet |-> wallet, locked |-> 0, free |-> free, credits |-> credits,
     outst |-> 0, day |-> 0, blocked |-> FALSE]

HybridAccount == Opening(2, 1, 1)
OwingAccount  == [Opening(3, 0, 0) EXCEPT !.outst = 1]

CallSymmetry == Permutations(Calls)

TopUps      == {[type |-> "wallet_credit", amount |-> 2]}
Settlements == {[type |-> "credit_limit_settlement", amount |-> 2]}

\* The arithmetic against its reference: charging a call second by second
\* comes to the price of its length, carried fractions included
\* (shared/billing-math.ts), and a budget covers the seconds it is said to
\* pay for and, when whole minutes are charged, not one more.
ASSUME ChargeIsThePrice ==
    \A n \in 0..12, rate \in 0..9, perSecond \in BOOLEAN :
        SimulateCharge(n, rate, perSecond).total = PriceOf(n, rate, perSecond)

ASSUME BudgetCoversItsSeconds ==
    \A budget \in 0..12, rate \in 1..9, perSecond \in BOOLEAN :
        LET n == BillableSecondsForBudget(budget, rate, perSecond)
        IN  /\ PriceOf(n, rate, perSecond) <= budget
            /\ ~perSecond => PriceOf(n + 1, rate, perSecond) > budget
=============================================================================
