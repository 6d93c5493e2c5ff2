-------------------------- MODULE BillingRuntime --------------------------
(***************************************************************************)
(* CallRuntimeState of billing-engine.ts and the functions that change one  *)
(* in memory: the reservation top-up, the charge for one more second and    *)
(* the authorised duration.  The call has one metered feature at RatePerMinute:  *)
(* the source meters voice, video, translation and recording side by side   *)
(* with the same arithmetic and adds up their charges.                      *)
(*                                                                         *)
(* Fields and the source's names:                                           *)
(*   active   billingActive            waived   chargesWaived                *)
(*   term     terminationRequestedReason                                     *)
(*   free     freeSecondsRemaining     freeUsed includedFreeSecondsUsed       *)
(*   credits  freeCreditsRemainingPaise   creditsUsed                        *)
(*   wallet, locked        this session's copy of the account's balances     *)
(*   pendWallet, pendLocked  changes of them not yet written to the account  *)
(*   total    totalReservedPaise       avail    reservedAvailablePaise        *)
(*   topup    topupLockedPaise         debit    prepaidDebitPaise             *)
(*   outst    outstandingPostpaidPaise accrual  postpaidAccrualPaise          *)
(*   day      currentDayUsageSeconds   dur      durationSeconds               *)
(*   cost     the feature's paise      rem      its remainder                 *)
(*   proc     lastProcessedAtMs and hardStop hardStopAtMs, in whole seconds   *)
(*            since startedAtMs (both are startedAtMs plus a multiple of 1000)*)
(***************************************************************************)
EXTENDS BillingMath

CONSTANTS
    BillingType,      \* "prepaid", "postpaid" or "hybrid", of the account's plan
    RatePerMinute,    \* paise per minute of the call
    PerSecond,        \* the plan's perSecondBilling
    CreditLimit,      \* creditLimitPaise of the account
    DailyLimit,       \* dailyUsageLimit in seconds, 0 for none
    MaxOpenCall       \* MAX_OPEN_CALL_SECONDS, a day in the source

ASSUME RuntimeAssumption ==
    /\ BillingType \in {"prepaid", "postpaid", "hybrid"}
    /\ RatePerMinute \in Nat
    /\ PerSecond \in BOOLEAN
    /\ CreditLimit \in Nat
    /\ DailyLimit \in Nat
    /\ MaxOpenCall \in Nat \ {0}

Reasons == {"INSUFFICIENT_BALANCE", "CREDIT_LIMIT_EXCEEDED",
            "DAILY_USAGE_LIMIT_REACHED", "MAX_DURATION_REACHED"}
NoReason == "none"

Runtime == [active : BOOLEAN, waived : BOOLEAN, term : Reasons \cup {NoReason},
            free : Nat, freeUsed : Nat, credits : Nat, creditsUsed : Nat,
            wallet : Nat, locked : Nat, pendWallet : Int, pendLocked : Int,
            total : Nat, avail : Nat, topup : Nat, debit : Nat,
            outst : Nat, accrual : Nat, day : Nat, dur : Nat,
            cost : Nat, rem : Nat, proc : Nat, hardStop : Nat]

RemainingPostpaidCapacity(rt) == NonNegative(CreditLimit - rt.outst)

\* The seconds this session could still pay for.
MaxDurationSeconds(rt) ==
    IF rt.waived \/ RatePerMinute <= 0 THEN MaxOpenCall
    ELSE LET prepaid  == rt.credits + NonNegative(rt.wallet - rt.locked) + rt.avail
             postpaid == IF BillingType = "prepaid" THEN 0
                         ELSE RemainingPostpaidCapacity(rt)
         IN  rt.free + BillableSecondsForBudget(prepaid + postpaid, RatePerMinute, PerSecond)

\* What startCallSession asks to lock before the call is answered.
InitialReserve(available) ==
    IF BillingType = "postpaid" \/ RatePerMinute <= 0 \/ available <= 0 THEN 0
    ELSE Least(available, Greatest(1, RatePerMinute))

\* A mutant: the extension is not recorded for the ledger.
TopUpReservation_NotRecorded(rt, required) ==
    LET available == NonNegative(rt.wallet - rt.locked)
        amount    == Least(available, Greatest(required, RatePerMinute))
    IN  IF required <= 0 \/ available <= 0 THEN rt
        ELSE [rt EXCEPT !.locked = @ + amount, !.pendLocked = @ + amount,
                        !.total = @ + amount, !.avail = @ + amount]

\* A mutant: the extension is not added to the reserved total.
TopUpReservation_TotalKept(rt, required) ==
    LET available == NonNegative(rt.wallet - rt.locked)
        amount    == Least(available, Greatest(required, RatePerMinute))
    IN  IF required <= 0 \/ available <= 0 THEN rt
        ELSE [rt EXCEPT !.locked = @ + amount, !.pendLocked = @ + amount,
                        !.avail = @ + amount, !.topup = @ + amount]

\* Extends the reservation, out of this session's copy of the balances.
TopUpReservation(rt, required) ==
    LET available == NonNegative(rt.wallet - rt.locked)
        amount    == Least(available, Greatest(required, RatePerMinute))
    IN  IF required <= 0 \/ available <= 0 THEN rt
        ELSE [rt EXCEPT !.locked = @ + amount, !.pendLocked = @ + amount,
                        !.total = @ + amount, !.avail = @ + amount, !.topup = @ + amount]

\* The included credits pay first ...
SpendCredits(rt, due) ==
    LET used == Least(rt.credits, due)
    IN  [rt EXCEPT !.credits = @ - used, !.creditsUsed = @ + used]

\* ... then the reservation, extended when it is short ...
SpendReservation(rt, due) ==
    LET ready == IF rt.avail < due THEN TopUpReservation(rt, due - rt.avail) ELSE rt
        spend == Least(ready.avail, due)
    IN  [ready EXCEPT !.avail = @ - spend, !.debit = @ + spend,
                      !.wallet = NonNegative(@ - spend), !.locked = NonNegative(@ - spend),
                      !.pendWallet = @ - spend, !.pendLocked = @ - spend]

\* ... then the credit line.
AccruePostpaid(rt, due) ==
    [rt EXCEPT !.outst = @ + due, !.accrual = @ + due]

\* The session pays `cost` for the second just metered: what is left unpaid
\* after the credits and the reservation is accrued, or it is an error.  An
\* error is thrown after the changes made before it.
Pay(rt, cost) ==
    LET credited == SpendCredits(rt, cost)
        left     == cost - (credited.creditsUsed - rt.creditsUsed)
        prepaid  == IF BillingType = "postpaid" THEN credited
                    ELSE SpendReservation(credited, left)
        due      == left - (prepaid.debit - credited.debit)
    IN  IF due = 0 THEN [rt |-> prepaid, error |-> NoReason]
        ELSE IF BillingType = "prepaid"
        THEN [rt |-> prepaid, error |-> "INSUFFICIENT_BALANCE"]
        ELSE IF RemainingPostpaidCapacity(prepaid) < due
        THEN [rt |-> prepaid, error |-> "CREDIT_LIMIT_EXCEEDED"]
        ELSE [rt |-> AccruePostpaid(prepaid, due), error |-> NoReason]

CountSecond(rt) == [rt EXCEPT !.day = @ + 1, !.dur = @ + 1]
UseFreeSecond(rt) == [rt EXCEPT !.free = @ - 1, !.freeUsed = @ + 1]

\* The charge for the second just counted.
NextIncrement(rt) ==
    ChargeIncrement(NonNegative(rt.dur - rt.freeUsed), RatePerMinute, rt.rem, PerSecond, 1)
Meter(rt) == [rt EXCEPT !.cost = @ + NextIncrement(rt).delta,
                        !.rem = NextIncrement(rt).remainder]

\* A mutant: waived seconds are charged.
ApplySecond_WaiverIgnored(rt) ==
    LET counted == CountSecond(rt)
    IN  IF DailyLimit > 0 /\ rt.day >= DailyLimit
        THEN [rt |-> rt, error |-> "DAILY_USAGE_LIMIT_REACHED"]
        ELSE IF rt.free > 0 THEN [rt |-> UseFreeSecond(counted), error |-> NoReason]
        ELSE Pay(Meter(counted), NextIncrement(counted).delta)

\* One second of an active call: the new state, and the error that ends it.
ApplySecond(rt) ==
    LET counted == CountSecond(rt)
    IN  IF DailyLimit > 0 /\ rt.day >= DailyLimit
        THEN [rt |-> rt, error |-> "DAILY_USAGE_LIMIT_REACHED"]
        ELSE IF rt.waived THEN [rt |-> counted, error |-> NoReason]
        ELSE IF rt.free > 0 THEN [rt |-> UseFreeSecond(counted), error |-> NoReason]
        ELSE Pay(Meter(counted), NextIncrement(counted).delta)
=============================================================================
