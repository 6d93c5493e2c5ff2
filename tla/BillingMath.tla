---------------------------- MODULE BillingMath ----------------------------
(***************************************************************************)
(* The pure arithmetic of shared/billing-math.ts: what one more second of a *)
(* call costs, and how many seconds a budget pays for.  All amounts are in  *)
(* paise and are natural numbers, so the Math.max(0, Math.floor(x)) that     *)
(* opens each function of the source is the identity on them.               *)
(***************************************************************************)
EXTENDS Integers

CONSTANT SecondsPerMinute    \* 60 in the source; the runs also use small values

ASSUME SecondsPerMinuteAssumption == SecondsPerMinute \in Nat \ {0}

NonNegative(n) == IF n < 0 THEN 0 ELSE n
Least(m, n) == IF m < n THEN m ELSE n
Greatest(m, n) == IF m > n THEN m ELSE n

\* Math.ceil(n / SecondsPerMinute)
MinutesUp(n) == (n + SecondsPerMinute - 1) \div SecondsPerMinute

\* The number of seconds a budget pays for at a rate per minute.
BillableSecondsForBudget(budget, rate, perSecond) ==
    IF budget <= 0 \/ rate <= 0 THEN 0
    ELSE IF perSecond THEN (budget * SecondsPerMinute) \div rate
                      ELSE (budget \div rate) * SecondsPerMinute

\* The charge for the last `seconds` of `elapsed` paid seconds, and the
\* fraction of a paisa (in units of 1/SecondsPerMinute) carried to the next
\* increment.  Per-minute billing charges whole minutes as they begin.
ChargeIncrement(elapsed, rate, remainder, perSecond, seconds) ==
    IF rate <= 0 \/ seconds <= 0 \/ elapsed <= 0
    THEN [delta |-> 0, remainder |-> remainder]
    ELSE IF perSecond
    THEN LET accumulated == remainder + rate * seconds
         IN  [delta     |-> accumulated \div SecondsPerMinute,
              remainder |-> accumulated
                            - (accumulated \div SecondsPerMinute) * SecondsPerMinute]
    ELSE LET before == MinutesUp(NonNegative(elapsed - seconds))
         IN  [delta     |-> NonNegative(MinutesUp(elapsed) - before) * rate,
              remainder |-> 0]

\* Charging a call second by second, as simulateChargeForDuration does.
SimulateCharge(duration, rate, perSecond) ==
    LET run[n \in 0..duration] ==
          IF n = 0 THEN [total |-> 0, remainder |-> 0]
          ELSE LET inc == ChargeIncrement(n, rate, run[n - 1].remainder, perSecond, 1)
               IN  [total     |-> run[n - 1].total + inc.delta,
                    remainder |-> inc.remainder]
    IN  run[duration]

---------------------------------------------------------------------------
\* Reference definition: the price of n seconds, computed in one go.
PriceOf(n, rate, perSecond) ==
    IF perSecond THEN (n * rate) \div SecondsPerMinute
                 ELSE MinutesUp(n) * rate
=============================================================================
