--------------------------- MODULE BillingProofs ---------------------------
(***************************************************************************)
(* Proofs about BillingEngine, for any number of calls, any plan and account: *)
(*                                                                         *)
(*  - what each function of BillingRuntime does to a session, and that every  *)
(*    step keeps the types, through any number of crashes;                   *)
(*  - what is true of each session through any number of crashes: its books,  *)
(*    what Redis may hold of it, and that nothing is charged after a stop;   *)
(*  - what is true of all calls together while no handler has died half way:  *)
(*    the money locked is the money held, an ended call's books balance, no   *)
(*    call costs more than its price, and the engine implements CallLedger;   *)
(*  - what the wallet and the debt come to when calls follow one another.     *)
(***************************************************************************)
EXTENDS BillingEngine, Sums, TLAPS

---------------------------------------------------------------------------
(* The arithmetic *)

\* The floor at zero yields a natural number.
LEMMA NonNegativeInNat == ASSUME NEW n \in Int PROVE NonNegative(n) \in Nat
  BY DEF NonNegative

\* Rounding a number of seconds up to minutes yields a natural number.
LEMMA MinutesUpInNat == ASSUME NEW n \in Nat PROVE MinutesUp(n) \in Nat
  BY SecondsPerMinuteAssumption DEF MinutesUp

\* calculateChargeIncrement charges a natural number of paise and carries a
\* natural remainder.
LEMMA ChargeIncrementType ==
  ASSUME NEW elapsed \in Nat, NEW rate \in Nat, NEW remainder \in Nat,
         NEW perSecond \in BOOLEAN, NEW seconds \in Nat
  PROVE  /\ ChargeIncrement(elapsed, rate, remainder, perSecond, seconds).delta \in Nat
         /\ ChargeIncrement(elapsed, rate, remainder, perSecond, seconds).remainder \in Nat
<1> DEFINE M == SecondsPerMinute
           acc == remainder + rate * seconds
           up == MinutesUp(elapsed)
           before == MinutesUp(NonNegative(elapsed - seconds))
<1>1. acc \in Nat
  OBVIOUS
<1>2. acc \div M \in Nat /\ acc - (acc \div M) * M \in Nat
  BY <1>1, SecondsPerMinuteAssumption
<1>3. up \in Nat /\ before \in Nat
  BY MinutesUpInNat, NonNegativeInNat
<1>4. NonNegative(up - before) * rate \in Nat
  <2>1. NonNegative(up - before) \in Nat
    BY <1>3, NonNegativeInNat
  <2>. HIDE DEF up, before
  <2> QED BY <2>1
<1>. HIDE DEF acc, up, before
<1> QED BY <1>2, <1>4 DEF ChargeIncrement, acc, up, before

\* A budget pays for a natural number of seconds.
LEMMA BillableSecondsType ==
  ASSUME NEW budget \in Nat, NEW rate \in Nat, NEW perSecond \in BOOLEAN
  PROVE  BillableSecondsForBudget(budget, rate, perSecond) \in Nat
<1>1. CASE budget <= 0 \/ rate <= 0
  BY <1>1 DEF BillableSecondsForBudget
<1>2. CASE budget > 0 /\ rate > 0
  <2>1. (budget * SecondsPerMinute) \div rate \in Nat
    <3>1. budget * SecondsPerMinute \in Nat
      BY SecondsPerMinuteAssumption
    <3> QED BY <3>1, <1>2
  <2>2. (budget \div rate) * SecondsPerMinute \in Nat
    <3>1. budget \div rate \in Nat
      BY <1>2
    <3> QED BY <3>1, SecondsPerMinuteAssumption
  <2> QED BY <2>1, <2>2, <1>2 DEF BillableSecondsForBudget
<1> QED BY <1>1, <1>2

---------------------------------------------------------------------------
(* Sessions in memory: each function of BillingRuntime keeps them well formed *)

\* The authorised duration of a session is a natural number of seconds.
LEMMA MaxDurationType ==
  ASSUME NEW rt \in Runtime
  PROVE  MaxDurationSeconds(rt) \in Nat
<1> DEFINE prepaid == rt.credits + NonNegative(rt.wallet - rt.locked) + rt.avail
           postpaid == IF BillingType = "prepaid" THEN 0
                       ELSE RemainingPostpaidCapacity(rt)
           seconds == BillableSecondsForBudget(prepaid + postpaid, RatePerMinute, PerSecond)
<1>1. rt.credits \in Nat /\ rt.avail \in Nat /\ rt.free \in Nat
      /\ rt.wallet - rt.locked \in Int /\ CreditLimit - rt.outst \in Int
  BY RuntimeAssumption DEF Runtime
<1>2. NonNegative(rt.wallet - rt.locked) \in Nat /\ RemainingPostpaidCapacity(rt) \in Nat
  BY <1>1, NonNegativeInNat DEF RemainingPostpaidCapacity
<1>3. prepaid + postpaid \in Nat
  BY <1>1, <1>2
<1>4. seconds \in Nat
  <2> HIDE DEF prepaid, postpaid
  <2> QED BY <1>3, BillableSecondsType, RuntimeAssumption
<1> HIDE DEF seconds
<1>5. rt.free + seconds \in Nat
  BY <1>1, <1>4
<1> QED BY <1>5, RuntimeAssumption DEF MaxDurationSeconds, seconds, prepaid, postpaid

\* A top-up keeps a session well formed.
LEMMA TopUpType ==
  ASSUME NEW rt \in Runtime, NEW required \in Int
  PROVE  TopUpReservation(rt, required) \in Runtime
<1> DEFINE available == NonNegative(rt.wallet - rt.locked)
           amount == Least(available, Greatest(required, RatePerMinute))
           new == [rt EXCEPT !.locked = @ + amount, !.pendLocked = @ + amount,
                        !.total = @ + amount, !.avail = @ + amount, !.topup = @ + amount]
<1>1. available \in Nat
  BY NonNegativeInNat DEF Runtime
<1>2. amount \in Nat
  BY <1>1, RuntimeAssumption DEF Least, Greatest
<1>3. new \in Runtime
  <2> HIDE DEF amount
  <2>1. /\ rt.locked + amount \in Nat /\ rt.pendLocked + amount \in Int
        /\ rt.total + amount \in Nat /\ rt.avail + amount \in Nat
        /\ rt.topup + amount \in Nat
    BY <1>2 DEF Runtime
  <2> QED BY <2>1, Zenon DEF Runtime
<1> HIDE DEF new
<1> QED BY <1>3 DEF TopUpReservation, new

\* Spending included credits keeps a session well formed.
LEMMA SpendCreditsType ==
  ASSUME NEW rt \in Runtime, NEW due \in Nat
  PROVE  SpendCredits(rt, due) \in Runtime
<1> DEFINE used == Least(rt.credits, due)
<1>1. rt.credits - used \in Nat /\ rt.creditsUsed + used \in Nat
  BY DEF Least, Runtime
<1> HIDE DEF used
<1>2. [rt EXCEPT !.credits = @ - used, !.creditsUsed = @ + used] \in Runtime
  BY <1>1, Zenon DEF Runtime
<1> QED BY <1>2 DEF SpendCredits, used

\* Spending the reservation keeps a session well formed.
LEMMA SpendReservationType ==
  ASSUME NEW rt \in Runtime, NEW due \in Nat
  PROVE  SpendReservation(rt, due) \in Runtime
<1> DEFINE ready == IF rt.avail < due THEN TopUpReservation(rt, due - rt.avail) ELSE rt
           spend == Least(ready.avail, due)
           new == [ready EXCEPT !.avail = @ - spend, !.debit = @ + spend,
                      !.wallet = NonNegative(@ - spend), !.locked = NonNegative(@ - spend),
                      !.pendWallet = @ - spend, !.pendLocked = @ - spend]
<1>1. ready \in Runtime
  <2>1. due - rt.avail \in Int
    BY DEF Runtime
  <2> QED BY <2>1, TopUpType
<1> HIDE DEF ready
<1>2. /\ spend \in Nat /\ ready.avail - spend \in Nat /\ ready.debit + spend \in Nat
      /\ ready.wallet - spend \in Int /\ ready.locked - spend \in Int
      /\ ready.pendWallet - spend \in Int /\ ready.pendLocked - spend \in Int
  BY <1>1 DEF Least, Runtime
<1> HIDE DEF spend
<1>3. NonNegative(ready.wallet - spend) \in Nat /\ NonNegative(ready.locked - spend) \in Nat
  BY <1>2, NonNegativeInNat
<1>4. new \in Runtime
  BY <1>1, <1>2, <1>3, Zenon DEF Runtime
<1> QED BY <1>4 DEF SpendReservation, ready, spend

\* Accruing to the credit line keeps a session well formed.
LEMMA AccrueType ==
  ASSUME NEW rt \in Runtime, NEW due \in Nat
  PROVE  AccruePostpaid(rt, due) \in Runtime
<1>1. rt.outst + due \in Nat /\ rt.accrual + due \in Nat
  BY DEF Runtime
<1>2. [rt EXCEPT !.outst = @ + due, !.accrual = @ + due] \in Runtime
  BY <1>1, Zenon DEF Runtime
<1> QED BY <1>2 DEF AccruePostpaid

---------------------------------------------------------------------------
(* What each payment stage pays, and what it leaves alone *)

\* The fields no payment stage touches.
SameCall(a, b) ==
    /\ a.active = b.active /\ a.waived = b.waived /\ a.term = b.term
    /\ a.proc = b.proc /\ a.hardStop = b.hardStop
    /\ a.dur = b.dur /\ a.cost = b.cost
    /\ a.rem = b.rem /\ a.freeUsed = b.freeUsed

\* What a session has paid for its metered cost.
Paid(rt) == rt.creditsUsed + rt.debit + rt.accrual

\* The reservation is what was spent of it and what is left.
Reserved(rt) == rt.total = rt.avail + rt.debit

\* The credits pay part of what is due, and nothing else changes.
LEMMA SpendCreditsEffect ==
  ASSUME NEW rt \in Runtime, NEW due \in Nat,
         NEW new, new = SpendCredits(rt, due)
  PROVE  /\ new.creditsUsed - rt.creditsUsed \in 0..due
         /\ new.debit = rt.debit /\ new.accrual = rt.accrual
         /\ new.total = rt.total /\ new.avail = rt.avail /\ new.topup = rt.topup
         /\ new.pendLocked = rt.pendLocked /\ new.pendWallet = rt.pendWallet
         /\ SameCall(new, rt)
<1> DEFINE used == Least(rt.credits, due)
<1>1. used \in 0..due /\ rt.creditsUsed \in Nat
  BY DEF Least, Runtime
<1> HIDE DEF used
<1>2. new = [rt EXCEPT !.credits = rt.credits - used, !.creditsUsed = rt.creditsUsed + used]
  BY DEF SpendCredits, used
<1>3. new.creditsUsed = rt.creditsUsed + used
  BY <1>2 DEF Runtime
<1>4. /\ new.debit = rt.debit /\ new.accrual = rt.accrual
      /\ new.total = rt.total /\ new.avail = rt.avail /\ new.topup = rt.topup
      /\ new.pendLocked = rt.pendLocked /\ new.pendWallet = rt.pendWallet
      /\ SameCall(new, rt)
  BY <1>2 DEF Runtime, SameCall
<1> QED BY <1>1, <1>3, <1>4

\* A top-up extends the reservation and what is to be locked alike.
LEMMA TopUpEffect ==
  ASSUME NEW rt \in Runtime, NEW required \in Int,
         NEW new, new = TopUpReservation(rt, required)
  PROVE  /\ new.avail - rt.avail \in Nat
         /\ new.total - rt.total = new.avail - rt.avail
         /\ new.topup - rt.topup = new.avail - rt.avail
         /\ new.pendLocked - rt.pendLocked = new.avail - rt.avail
         /\ new.debit = rt.debit /\ new.accrual = rt.accrual
         /\ new.creditsUsed = rt.creditsUsed /\ new.pendWallet = rt.pendWallet
         /\ SameCall(new, rt)
<1> DEFINE available == NonNegative(rt.wallet - rt.locked)
           amount == Least(available, Greatest(required, RatePerMinute))
<1>1. amount \in Nat
  <2>1. available \in Nat
    BY NonNegativeInNat DEF Runtime
  <2> QED BY <2>1, RuntimeAssumption DEF Least, Greatest
<1>2. CASE required <= 0 \/ available <= 0
  <2>1. new = rt
    BY <1>2 DEF TopUpReservation
  <2> QED BY <2>1 DEF SameCall, Runtime
<1>3. CASE ~(required <= 0 \/ available <= 0)
  <2>1. new = [rt EXCEPT !.locked = @ + amount, !.pendLocked = @ + amount,
                  !.total = @ + amount, !.avail = @ + amount, !.topup = @ + amount]
    BY <1>3 DEF TopUpReservation
  <2> HIDE DEF amount, available
  <2>2. /\ new.avail = rt.avail + amount /\ new.total = rt.total + amount
        /\ new.topup = rt.topup + amount /\ new.pendLocked = rt.pendLocked + amount
    BY <2>1 DEF Runtime
  <2>3. /\ new.debit = rt.debit /\ new.accrual = rt.accrual
        /\ new.creditsUsed = rt.creditsUsed /\ new.pendWallet = rt.pendWallet
        /\ SameCall(new, rt)
    BY <2>1 DEF Runtime, SameCall
  <2>4. rt.avail \in Nat /\ rt.total \in Nat /\ rt.topup \in Nat /\ rt.pendLocked \in Int
    BY DEF Runtime
  <2> QED BY <1>1, <2>2, <2>3, <2>4
<1> QED BY <1>2, <1>3

\* The reservation pays part of what is due: what is spent is debited, and
\* leaves the wallet and the locked balance together.
LEMMA SpendReservationEffect ==
  ASSUME NEW rt \in Runtime, NEW due \in Nat,
         NEW new, new = SpendReservation(rt, due)
  PROVE  /\ new.debit - rt.debit \in 0..due
         /\ new.total - rt.total = (new.avail - rt.avail) + (new.debit - rt.debit)
         /\ new.topup - rt.topup = new.total - rt.total /\ new.topup - rt.topup \in Nat
         /\ new.pendWallet = rt.pendWallet - (new.debit - rt.debit)
         /\ new.pendLocked - rt.pendLocked = new.avail - rt.avail
         /\ new.accrual = rt.accrual /\ new.creditsUsed = rt.creditsUsed
         /\ SameCall(new, rt)
<1> DEFINE ready == IF rt.avail < due THEN TopUpReservation(rt, due - rt.avail) ELSE rt
           spend == Least(ready.avail, due)
<1>1. due - rt.avail \in Int
  BY DEF Runtime
<1>2. ready \in Runtime
  BY <1>1, TopUpType
<1>3. /\ ready.total - rt.total = ready.avail - rt.avail
      /\ ready.topup - rt.topup = ready.avail - rt.avail /\ ready.topup - rt.topup \in Nat
      /\ ready.pendLocked - rt.pendLocked = ready.avail - rt.avail
      /\ ready.debit = rt.debit /\ ready.accrual = rt.accrual
      /\ ready.creditsUsed = rt.creditsUsed /\ ready.pendWallet = rt.pendWallet
      /\ SameCall(ready, rt)
  <2>1. CASE rt.avail < due
    <3>1. ready = TopUpReservation(rt, due - rt.avail)
      BY <2>1
    <3> HIDE DEF ready
    <3> QED BY <3>1, <1>1, TopUpEffect
  <2>2. CASE ~(rt.avail < due)
    <3>1. ready = rt
      BY <2>2
    <3> QED BY <3>1 DEF SameCall, Runtime
  <2> QED BY <2>1, <2>2
<1>4. spend \in 0..due
  <2>1. ready.avail \in Nat
    BY <1>2, Zenon DEF Runtime
  <2> QED BY <2>1 DEF Least
<1>5. new = [ready EXCEPT !.avail = @ - spend, !.debit = @ + spend,
                !.wallet = NonNegative(@ - spend), !.locked = NonNegative(@ - spend),
                !.pendWallet = @ - spend, !.pendLocked = @ - spend]
  BY DEF SpendReservation
<1> HIDE DEF spend, ready
<1>6. /\ new.avail = ready.avail - spend /\ new.debit = ready.debit + spend
      /\ new.pendWallet = ready.pendWallet - spend
      /\ new.pendLocked = ready.pendLocked - spend
  BY <1>2, <1>5 DEF Runtime
<1>7. /\ new.total = ready.total /\ new.topup = ready.topup
      /\ new.accrual = ready.accrual /\ new.creditsUsed = ready.creditsUsed
      /\ SameCall(new, ready)
  BY <1>2, <1>5 DEF Runtime, SameCall
<1>8. /\ rt.avail \in Nat /\ rt.debit \in Nat /\ rt.total \in Nat /\ rt.topup \in Nat
      /\ rt.pendLocked \in Int /\ rt.pendWallet \in Int
  BY DEF Runtime
<1>9. /\ ready.avail \in Nat /\ ready.total \in Nat /\ ready.topup \in Nat
      /\ ready.pendLocked \in Int
  BY <1>2 DEF Runtime
<1>10. SameCall(new, rt)
  BY <1>3, <1>7 DEF SameCall
<1> QED BY <1>3, <1>4, <1>6, <1>7, <1>8, <1>9, <1>10

\* Accruing raises the debt and nothing else that the books are made of.
LEMMA AccrueEffect ==
  ASSUME NEW rt \in Runtime, NEW due \in Nat,
         NEW new, new = AccruePostpaid(rt, due)
  PROVE  /\ new.accrual = rt.accrual + due
         /\ new.debit = rt.debit /\ new.creditsUsed = rt.creditsUsed
         /\ new.total = rt.total /\ new.avail = rt.avail /\ new.topup = rt.topup
         /\ new.pendLocked = rt.pendLocked /\ new.pendWallet = rt.pendWallet
         /\ SameCall(new, rt)
<1>1. new = [rt EXCEPT !.outst = rt.outst + due, !.accrual = rt.accrual + due]
  BY DEF AccruePostpaid
<1>2. new.accrual = rt.accrual + due
  BY <1>1 DEF Runtime
<1>3. /\ new.debit = rt.debit /\ new.creditsUsed = rt.creditsUsed
      /\ new.total = rt.total /\ new.avail = rt.avail /\ new.topup = rt.topup
      /\ new.pendLocked = rt.pendLocked /\ new.pendWallet = rt.pendWallet
      /\ SameCall(new, rt)
  BY <1>1 DEF Runtime, SameCall
<1> QED BY <1>2, <1>3

---------------------------------------------------------------------------
(* One second of a call *)

\* The charge for the next second is a natural number of paise.
LEMMA NextIncrementType ==
  ASSUME NEW rt \in Runtime
  PROVE  NextIncrement(rt).delta \in Nat /\ NextIncrement(rt).remainder \in Nat
<1>1. rt.dur - rt.freeUsed \in Int /\ rt.rem \in Nat
  BY DEF Runtime
<1>2. NonNegative(rt.dur - rt.freeUsed) \in Nat
  BY <1>1, NonNegativeInNat
<1> QED BY <1>1, <1>2, ChargeIncrementType, RuntimeAssumption DEF NextIncrement

\* Counting a second changes only the two counters of seconds.
LEMMA CountSecondEffect ==
  ASSUME NEW rt \in Runtime, NEW new, new = CountSecond(rt)
  PROVE  /\ new \in Runtime /\ new.dur = rt.dur + 1
         /\ new.free = rt.free /\ new.cost = rt.cost /\ Paid(new) = Paid(rt)
         /\ new.total = rt.total /\ new.avail = rt.avail /\ new.debit = rt.debit
         /\ new.pendWallet = rt.pendWallet /\ new.pendLocked = rt.pendLocked
         /\ new.active = rt.active /\ new.waived = rt.waived /\ new.term = rt.term
         /\ new.proc = rt.proc /\ new.hardStop = rt.hardStop /\ new.topup = rt.topup
         /\ new.freeUsed = rt.freeUsed /\ new.rem = rt.rem
<1>1. new = [rt EXCEPT !.day = rt.day + 1, !.dur = rt.dur + 1]
  BY DEF CountSecond
<1>2. rt.day + 1 \in Nat /\ rt.dur + 1 \in Nat
  BY DEF Runtime
<1>3. new \in Runtime
  <2> DEFINE dated == [rt EXCEPT !.day = rt.day + 1]
  <2>1. dated \in Runtime
    BY <1>2, ZenonT(30) DEF Runtime
  <2>2. new = [dated EXCEPT !.dur = rt.dur + 1]
    BY <1>1, Zenon DEF Runtime
  <2> HIDE DEF dated
  <2> QED BY <1>2, <2>1, <2>2, ZenonT(30) DEF Runtime
<1>4. new.dur = rt.dur + 1
  BY <1>1 DEF Runtime
<1>5. /\ new.free = rt.free /\ new.cost = rt.cost /\ Paid(new) = Paid(rt)
      /\ new.total = rt.total /\ new.avail = rt.avail /\ new.debit = rt.debit
      /\ new.pendWallet = rt.pendWallet /\ new.pendLocked = rt.pendLocked
      /\ new.active = rt.active /\ new.waived = rt.waived /\ new.term = rt.term
      /\ new.proc = rt.proc /\ new.hardStop = rt.hardStop /\ new.topup = rt.topup
      /\ new.freeUsed = rt.freeUsed /\ new.rem = rt.rem
  BY <1>1 DEF Runtime, Paid
<1> QED BY <1>3, <1>4, <1>5

\* A free second is taken from the included ones, and costs nothing.
LEMMA UseFreeSecondEffect ==
  ASSUME NEW rt \in Runtime, rt.free > 0, NEW new, new = UseFreeSecond(rt)
  PROVE  /\ new \in Runtime /\ new.dur = rt.dur
         /\ new.cost = rt.cost /\ Paid(new) = Paid(rt)
         /\ new.total = rt.total /\ new.avail = rt.avail /\ new.debit = rt.debit
         /\ new.pendWallet = rt.pendWallet /\ new.pendLocked = rt.pendLocked
         /\ new.active = rt.active /\ new.waived = rt.waived /\ new.term = rt.term
         /\ new.proc = rt.proc /\ new.hardStop = rt.hardStop /\ new.topup = rt.topup
         /\ new.freeUsed = rt.freeUsed + 1 /\ new.rem = rt.rem
<1>1. new = [rt EXCEPT !.free = rt.free - 1, !.freeUsed = rt.freeUsed + 1]
  BY DEF UseFreeSecond
<1>2. rt.free - 1 \in Nat /\ rt.freeUsed + 1 \in Nat
  BY DEF Runtime
<1>3. new \in Runtime
  BY <1>1, <1>2, ZenonT(30) DEF Runtime
<1>4. /\ new.cost = rt.cost /\ Paid(new) = Paid(rt) /\ new.dur = rt.dur
      /\ new.total = rt.total /\ new.avail = rt.avail /\ new.debit = rt.debit
      /\ new.pendWallet = rt.pendWallet /\ new.pendLocked = rt.pendLocked
      /\ new.active = rt.active /\ new.waived = rt.waived /\ new.term = rt.term
      /\ new.proc = rt.proc /\ new.hardStop = rt.hardStop /\ new.topup = rt.topup
      /\ new.freeUsed = rt.freeUsed + 1 /\ new.rem = rt.rem
  BY <1>1 DEF Runtime, Paid
<1> QED BY <1>3, <1>4

\* Metering a second raises the cost by its charge, before anything is paid.
LEMMA MeterEffect ==
  ASSUME NEW rt \in Runtime, NEW new, new = Meter(rt)
  PROVE  /\ new \in Runtime /\ new.dur = rt.dur
         /\ new.cost = rt.cost + NextIncrement(rt).delta /\ Paid(new) = Paid(rt)
         /\ new.total = rt.total /\ new.avail = rt.avail /\ new.debit = rt.debit
         /\ new.pendWallet = rt.pendWallet /\ new.pendLocked = rt.pendLocked
         /\ new.active = rt.active /\ new.waived = rt.waived /\ new.term = rt.term
         /\ new.proc = rt.proc /\ new.hardStop = rt.hardStop /\ new.topup = rt.topup
         /\ new.freeUsed = rt.freeUsed /\ new.rem = NextIncrement(rt).remainder
<1> DEFINE delta == NextIncrement(rt).delta
           remainder == NextIncrement(rt).remainder
<1>1. new = [rt EXCEPT !.cost = rt.cost + delta, !.rem = remainder]
  BY DEF Meter
<1>2. rt.cost + delta \in Nat /\ remainder \in Nat
  BY NextIncrementType DEF Runtime
<1> HIDE DEF delta, remainder
<1>3. new \in Runtime
  BY <1>1, <1>2, ZenonT(30) DEF Runtime
<1>4. new.cost = rt.cost + delta
  BY <1>1 DEF Runtime
<1>5. /\ Paid(new) = Paid(rt) /\ new.dur = rt.dur
      /\ new.total = rt.total /\ new.avail = rt.avail /\ new.debit = rt.debit
      /\ new.pendWallet = rt.pendWallet /\ new.pendLocked = rt.pendLocked
      /\ new.active = rt.active /\ new.waived = rt.waived /\ new.term = rt.term
      /\ new.proc = rt.proc /\ new.hardStop = rt.hardStop /\ new.topup = rt.topup
      /\ new.freeUsed = rt.freeUsed /\ new.rem = remainder
  BY <1>1 DEF Runtime, Paid
<1> QED BY <1>3, <1>4, <1>5 DEF delta, remainder

\* A charge is paid in full, or it is an error and less than it is paid; the
\* reservation stays split into what was spent and what is left.
LEMMA PayEffect ==
  ASSUME NEW rt \in Runtime, NEW cost \in Nat, NEW new, new = Pay(rt, cost)
  PROVE  /\ new.rt \in Runtime /\ new.error \in Reasons \cup {NoReason}
         /\ new.error = NoReason => Paid(new.rt) = Paid(rt) + cost
         /\ new.error # NoReason => Paid(new.rt) < Paid(rt) + cost
         /\ Reserved(rt) => Reserved(new.rt)
         /\ SameCall(new.rt, rt)
<1> DEFINE credited == SpendCredits(rt, cost)
           left     == cost - (credited.creditsUsed - rt.creditsUsed)
           prepaid  == IF BillingType = "postpaid" THEN credited
                       ELSE SpendReservation(credited, left)
           due      == left - (prepaid.debit - credited.debit)
           indebted == AccruePostpaid(prepaid, due)
<1>1. /\ credited \in Runtime /\ left \in 0..cost
      /\ Paid(credited) = Paid(rt) + (cost - left)
      /\ Reserved(rt) => Reserved(credited)
      /\ SameCall(credited, rt)
  <2>1. credited \in Runtime
    BY SpendCreditsType
  <2> HIDE DEF credited
  <2>2. /\ credited.creditsUsed - rt.creditsUsed \in 0..cost
        /\ credited.debit = rt.debit /\ credited.accrual = rt.accrual
        /\ credited.total = rt.total /\ credited.avail = rt.avail
        /\ SameCall(credited, rt)
    BY SpendCreditsEffect DEF credited
  <2>3. /\ credited.creditsUsed \in Nat /\ rt.creditsUsed \in Nat
        /\ rt.debit \in Nat /\ rt.accrual \in Nat
    BY <2>1 DEF Runtime
  <2> QED BY <2>1, <2>2, <2>3 DEF Paid, Reserved
<1> HIDE DEF credited, left
<1>2. /\ prepaid \in Runtime /\ due \in 0..left
      /\ Paid(prepaid) = Paid(credited) + (left - due)
      /\ Reserved(credited) => Reserved(prepaid)
      /\ SameCall(prepaid, credited)
  <2>1. CASE BillingType = "postpaid"
    <3>1. prepaid = credited
      BY <2>1
    <3>2. credited.debit \in Nat /\ credited.creditsUsed \in Nat /\ credited.accrual \in Nat
      BY <1>1 DEF Runtime
    <3> QED BY <1>1, <3>1, <3>2 DEF SameCall, Paid
  <2>2. CASE BillingType # "postpaid"
    <3>1. prepaid = SpendReservation(credited, left) /\ left \in Nat
      BY <1>1, <2>2
    <3> HIDE DEF prepaid
    <3>2. prepaid \in Runtime
      BY <1>1, <3>1, SpendReservationType
    <3>3. /\ prepaid.debit - credited.debit \in 0..left
          /\ prepaid.total - credited.total
               = (prepaid.avail - credited.avail) + (prepaid.debit - credited.debit)
          /\ prepaid.accrual = credited.accrual
          /\ prepaid.creditsUsed = credited.creditsUsed
          /\ SameCall(prepaid, credited)
      BY ZenonT(30), <1>1, <3>1, SpendReservationEffect
    <3>4. /\ prepaid.debit \in Nat /\ prepaid.total \in Nat /\ prepaid.avail \in Nat
          /\ credited.debit \in Nat /\ credited.total \in Nat /\ credited.avail \in Nat
          /\ credited.creditsUsed \in Nat /\ credited.accrual \in Nat
      BY <1>1, <3>2 DEF Runtime
    <3> QED BY <3>1, <3>2, <3>3, <3>4 DEF Paid, Reserved
  <2> QED BY <2>1, <2>2
<1>3. new = IF due = 0 THEN [rt |-> prepaid, error |-> NoReason]
            ELSE IF BillingType = "prepaid"
            THEN [rt |-> prepaid, error |-> "INSUFFICIENT_BALANCE"]
            ELSE IF RemainingPostpaidCapacity(prepaid) < due
            THEN [rt |-> prepaid, error |-> "CREDIT_LIMIT_EXCEEDED"]
            ELSE [rt |-> indebted, error |-> NoReason]
  BY DEF Pay, credited, left
<1> HIDE DEF prepaid, due
<1>4. /\ Paid(rt) \in Nat /\ Paid(prepaid) \in Nat
      /\ Paid(prepaid) = Paid(rt) + (cost - due)
      /\ due \in 0..cost
      /\ Reserved(rt) => Reserved(prepaid)
      /\ SameCall(prepaid, rt)
  <2>1. /\ rt.creditsUsed \in Nat /\ rt.debit \in Nat /\ rt.accrual \in Nat
        /\ credited.creditsUsed \in Nat /\ credited.debit \in Nat /\ credited.accrual \in Nat
        /\ prepaid.creditsUsed \in Nat /\ prepaid.debit \in Nat /\ prepaid.accrual \in Nat
    BY <1>1, <1>2 DEF Runtime
  <2>2. Paid(rt) \in Nat /\ Paid(prepaid) \in Nat /\ Paid(credited) \in Nat
    BY <2>1 DEF Paid
  <2>3. SameCall(prepaid, rt)
    BY <1>1, <1>2 DEF SameCall
  <2> QED BY <1>1, <1>2, <2>2, <2>3
<1>5. /\ indebted \in Runtime /\ Paid(indebted) = Paid(prepaid) + due
      /\ Reserved(prepaid) => Reserved(indebted)
      /\ SameCall(indebted, prepaid)
  <2>1. due \in Nat
    BY <1>4
  <2>2. indebted \in Runtime
    BY <1>2, <2>1, AccrueType
  <2> HIDE DEF indebted
  <2>3. /\ indebted.accrual = prepaid.accrual + due
        /\ indebted.debit = prepaid.debit /\ indebted.creditsUsed = prepaid.creditsUsed
        /\ indebted.total = prepaid.total /\ indebted.avail = prepaid.avail
        /\ SameCall(indebted, prepaid)
    BY <1>2, <2>1, AccrueEffect DEF indebted
  <2>4. prepaid.creditsUsed \in Nat /\ prepaid.debit \in Nat /\ prepaid.accrual \in Nat
    BY <1>2 DEF Runtime
  <2> QED BY <2>1, <2>2, <2>3, <2>4 DEF Paid, Reserved
<1> HIDE DEF indebted
<1>6. SameCall(indebted, rt)
  BY <1>4, <1>5 DEF SameCall
<1> QED BY <1>2, <1>3, <1>4, <1>5, <1>6 DEF Reasons, NoReason

\* What of its metered cost a session has not paid.
Unpaid(rt) == rt.cost - Paid(rt)

\* One second keeps the session well formed and its reservation split.  It
\* leaves the unpaid cost alone, unless it fails: then either nothing was
\* counted, or the second was and the unpaid cost grew.  A waived session
\* has no charge to write.
LEMMA ApplySecondEffect ==
  ASSUME NEW rt \in Runtime, NEW new, new = ApplySecond(rt)
  PROVE  /\ new.rt \in Runtime /\ new.error \in Reasons \cup {NoReason}
         /\ Reserved(rt) => Reserved(new.rt)
         /\ new.error = NoReason => /\ new.rt.dur = rt.dur + 1
                                    /\ Unpaid(new.rt) = Unpaid(rt)
         /\ new.error # NoReason =>
              \/ new.rt = rt
              \/ new.rt.dur = rt.dur + 1 /\ Unpaid(new.rt) > Unpaid(rt)
         /\ rt.waived => /\ new.rt.pendWallet = rt.pendWallet
                         /\ new.rt.pendLocked = rt.pendLocked
         /\ new.rt.active = rt.active /\ new.rt.waived = rt.waived
         /\ new.rt.term = rt.term /\ new.rt.proc = rt.proc
         /\ new.rt.hardStop = rt.hardStop
<1> DEFINE counted == CountSecond(rt)
           delta   == NextIncrement(counted).delta
           metered == Meter(counted)
           paid    == Pay(metered, delta)
<1>0. Paid(rt) \in Nat /\ rt.cost \in Nat
  BY DEF Paid, Runtime
<1>1. CASE DailyLimit > 0 /\ rt.day >= DailyLimit
  <2>1. new = [rt |-> rt, error |-> "DAILY_USAGE_LIMIT_REACHED"]
    BY <1>1 DEF ApplySecond
  <2> QED BY <2>1 DEF Reasons, NoReason
<1> HIDE DEF counted
<1>2. /\ counted \in Runtime /\ counted.dur = rt.dur + 1
      /\ counted.free = rt.free /\ counted.cost = rt.cost /\ Paid(counted) = Paid(rt)
      /\ counted.total = rt.total /\ counted.avail = rt.avail /\ counted.debit = rt.debit
      /\ counted.pendWallet = rt.pendWallet /\ counted.pendLocked = rt.pendLocked
      /\ counted.active = rt.active /\ counted.waived = rt.waived
      /\ counted.term = rt.term /\ counted.proc = rt.proc
      /\ counted.hardStop = rt.hardStop
  BY CountSecondEffect DEF counted
<1>3. CASE ~(DailyLimit > 0 /\ rt.day >= DailyLimit) /\ rt.waived
  <2>1. new = [rt |-> counted, error |-> NoReason]
    BY <1>3 DEF ApplySecond, counted
  <2> QED BY <1>2, <2>1 DEF NoReason, Reserved, Unpaid
<1>4. CASE ~(DailyLimit > 0 /\ rt.day >= DailyLimit) /\ ~rt.waived /\ rt.free > 0
  <2>1. new = [rt |-> UseFreeSecond(counted), error |-> NoReason]
    BY <1>4 DEF ApplySecond, counted
  <2>2. PICK freed : freed = UseFreeSecond(counted)
    OBVIOUS
  <2>3. /\ freed \in Runtime /\ freed.dur = counted.dur
        /\ freed.cost = counted.cost /\ Paid(freed) = Paid(counted)
        /\ freed.total = counted.total /\ freed.avail = counted.avail
        /\ freed.debit = counted.debit
        /\ freed.active = counted.active /\ freed.waived = counted.waived
        /\ freed.term = counted.term /\ freed.proc = counted.proc
        /\ freed.hardStop = counted.hardStop
    BY <1>2, <1>4, <2>2, UseFreeSecondEffect
  <2> QED BY <1>2, <1>4, <2>1, <2>2, <2>3 DEF NoReason, Reserved, Unpaid
<1>5. CASE ~(DailyLimit > 0 /\ rt.day >= DailyLimit) /\ ~rt.waived /\ ~(rt.free > 0)
  <2>1. new = paid
    BY <1>5 DEF ApplySecond, counted
  <2>2. delta \in Nat
    BY <1>2, NextIncrementType
  <2> HIDE DEF metered
  <2>3. /\ metered \in Runtime /\ metered.dur = counted.dur
        /\ metered.cost = counted.cost + delta /\ Paid(metered) = Paid(counted)
        /\ metered.total = counted.total /\ metered.avail = counted.avail
        /\ metered.debit = counted.debit
        /\ metered.active = counted.active /\ metered.waived = counted.waived
        /\ metered.term = counted.term /\ metered.proc = counted.proc
        /\ metered.hardStop = counted.hardStop
    BY <1>2, MeterEffect DEF metered
  <2> HIDE DEF delta, paid
  <2>4. /\ paid.rt \in Runtime /\ paid.error \in Reasons \cup {NoReason}
        /\ paid.error = NoReason => Paid(paid.rt) = Paid(metered) + delta
        /\ paid.error # NoReason => Paid(paid.rt) < Paid(metered) + delta
        /\ Reserved(metered) => Reserved(paid.rt)
        /\ SameCall(paid.rt, metered)
    BY <2>2, <2>3, PayEffect DEF paid
  <2>5. Reserved(rt) => Reserved(paid.rt)
    BY <1>2, <2>3, <2>4 DEF Reserved
  <2>6. /\ paid.rt.active = rt.active /\ paid.rt.waived = rt.waived
        /\ paid.rt.term = rt.term /\ paid.rt.proc = rt.proc
        /\ paid.rt.hardStop = rt.hardStop /\ paid.rt.dur = rt.dur + 1
        /\ paid.rt.cost = rt.cost + delta
    BY <1>2, <2>3, <2>4 DEF SameCall
  <2>7. Paid(paid.rt) \in Nat
    BY <2>4 DEF Paid, Runtime
  <2>8. /\ paid.error = NoReason => Unpaid(paid.rt) = Unpaid(rt)
        /\ paid.error # NoReason => Unpaid(paid.rt) > Unpaid(rt)
    <3>1. Paid(metered) = Paid(rt)
      BY <1>2, <2>3
    <3> QED BY <1>0, <2>2, <2>4, <2>6, <2>7, <3>1 DEF Unpaid
  <2> QED BY <1>5, <2>1, <2>4, <2>5, <2>6, <2>8
<1> QED BY <1>1, <1>3, <1>4, <1>5

---------------------------------------------------------------------------
(* Types of the engine's state *)

\* A handler is a record of its step and its local copy.
LEMMA HandlerType ==
  ASSUME NEW op \in Ops, NEW pc \in Steps, NEW rt \in Runtime, NEW todo \in Nat,
         NEW reason \in Reasons \cup {NoReason}, NEW status \in Final \cup {NoStatus}
  PROVE  [op |-> op, pc |-> pc, rt |-> rt, todo |-> todo, reason |-> reason,
          status |-> status] \in Handler
  BY Zenon DEF Handler

\* A flush keeps the account row and the session well formed, and leaves the
\* session with nothing to write; the rest of the session stays.
LEMMA FlushEffect ==
  ASSUME NEW acct \in Account, NEW rt \in Runtime
  PROVE  /\ FlushedAccount(acct, rt) \in Account
         /\ FlushedRuntime(acct, rt) \in Runtime
         /\ FlushedRuntime(acct, rt).pendWallet = 0
         /\ FlushedRuntime(acct, rt).pendLocked = 0
         /\ Paid(FlushedRuntime(acct, rt)) = Paid(rt)
         /\ Reserved(rt) => Reserved(FlushedRuntime(acct, rt))
         /\ FlushedRuntime(acct, rt).cost = rt.cost
         /\ FlushedRuntime(acct, rt).dur = rt.dur
         /\ FlushedRuntime(acct, rt).proc = rt.proc
<1> DEFINE wallet == NonNegative(acct.wallet + rt.pendWallet)
           locked == NonNegative(acct.locked + rt.pendLocked)
           row == [acct EXCEPT !.wallet = wallet, !.locked = locked]
           new == [rt EXCEPT !.wallet = row.wallet, !.locked = row.locked,
                             !.pendWallet = 0, !.pendLocked = 0]
<1>1. wallet \in Nat /\ locked \in Nat
  <2>1. acct.wallet + rt.pendWallet \in Int /\ acct.locked + rt.pendLocked \in Int
    BY DEF Account, Runtime
  <2> QED BY <2>1, NonNegativeInNat
<1> HIDE DEF wallet, locked
<1>2. row \in Account /\ row.wallet = wallet /\ row.locked = locked
  BY <1>1 DEF Account
<1>3. FlushedAccount(acct, rt) = row
  BY DEF FlushedAccount, wallet, locked
<1> HIDE DEF row
<1>4. new \in Runtime
  <2>1. row.wallet \in Nat /\ row.locked \in Nat /\ 0 \in Int
    BY <1>1, <1>2
  <2> QED BY <2>1, Zenon DEF Runtime
<1>5. new.pendWallet = 0 /\ new.pendLocked = 0
  BY DEF Runtime
<1>6. /\ Paid(new) = Paid(rt)
      /\ Reserved(rt) => Reserved(new)
      /\ new.cost = rt.cost /\ new.dur = rt.dur /\ new.proc = rt.proc
  BY DEF Runtime, Paid, Reserved
<1>7. FlushedRuntime(acct, rt) = IF rt.pendWallet = 0 /\ rt.pendLocked = 0 THEN rt ELSE new
  BY <1>3 DEF FlushedRuntime
<1> HIDE DEF new
<1> QED BY <1>2, <1>3, <1>4, <1>5, <1>6, <1>7

\* The absolute write of the session keeps the account row well formed.
LEMMA OverwriteType ==
  ASSUME NEW acct \in Account, NEW rt \in Runtime
  PROVE  OverwrittenAccount(acct, rt) \in Account
<1>1. rt.free \in Nat /\ rt.credits \in Nat /\ rt.outst \in Nat /\ rt.day \in Nat
  BY DEF Runtime
<1> QED BY <1>1 DEF OverwrittenAccount, Account

---------------------------------------------------------------------------
(* Every step keeps the types *)

\* The types, and that a handler in the loop of advanceRuntimeSession has a
\* second left to apply.
TypeInv ==
    /\ TypeOK
    /\ \A s \in Calls : At(s, "apply") => handler[s].todo > 0

\* The handler of a call is well formed.
LEMMA BusyHandler ==
  ASSUME TypeInv, NEW s \in Calls, Busy(s)
  PROVE  /\ handler[s] \in Handler
         /\ handler[s].op \in Ops /\ handler[s].pc \in Steps
         /\ handler[s].rt \in Runtime /\ handler[s].todo \in Nat
         /\ handler[s].reason \in Reasons \cup {NoReason}
         /\ handler[s].status \in Final \cup {NoStatus}
<1>1. handler[s] \in Handler
  BY DEF TypeInv, TypeOK, Busy
<1> QED BY <1>1, Zenon DEF Handler

\* A handler moved on, with its session changed or not, is well formed.
LEMMA MovedHandler ==
  ASSUME NEW h \in Handler, NEW pc \in Steps, NEW rt \in Runtime
  PROVE  /\ [h EXCEPT !.pc = pc] \in Handler
         /\ [h EXCEPT !.pc = pc, !.rt = rt] \in Handler
         /\ [h EXCEPT !.pc = pc].pc = pc /\ [h EXCEPT !.pc = pc, !.rt = rt].pc = pc
  BY Zenon DEF Handler

\* A step that changes only the handler of call s, to one that is well formed
\* and not about to apply a second, keeps the types.
LEMMA HandlerStepType ==
  ASSUME TypeInv, NEW s \in Calls, NEW h \in Handler \cup {Idle},
         h # Idle /\ h.pc = "apply" => h.todo > 0,
         handler' = [handler EXCEPT ![s] = h],
         account' \in Account,
         record' \in [Calls -> {"none", "created", "ringing", "answered", "active"}
                               \cup Final],
         ended' \subseteq Calls,
         ledger' \in [Calls -> [EntryTypes -> Nat]],
         runtime' \in [Calls -> Runtime \cup {NoRuntime}],
         clock' \in [Calls -> Nat], charged' \in [Calls -> Int],
         accrued' \in [Calls -> Nat],
         adjusted' \in [count : Nat, wallet : Int, settled : Nat], crashes' \in Nat
  PROVE  TypeInv'
<1>1. handler' \in [Calls -> Handler \cup {Idle}]
  BY DEF TypeInv, TypeOK
<1>2. \A t \in Calls : At(t, "apply")' => (handler[t].todo > 0)'
  <2> SUFFICES ASSUME NEW t \in Calls, At(t, "apply")' PROVE handler'[t].todo > 0
    OBVIOUS
  <2>1. CASE t = s
    BY <2>1 DEF TypeInv, TypeOK, At, Busy
  <2>2. CASE t # s
    BY <2>2 DEF TypeInv, TypeOK, At, Busy
  <2> QED BY <2>1, <2>2
<1> QED BY <1>1, <1>2 DEF TypeInv, TypeOK

\* The initial state is well typed.
LEMMA InitType == Init => TypeInv
<1> SUFFICES ASSUME Init PROVE TypeInv
  OBVIOUS
<1>1. account \in Account /\ handler \in [Calls -> Handler \cup {Idle}]
  BY EngineAssumption DEF Init
<1>2. /\ record \in [Calls -> {"none", "created", "ringing", "answered", "active"}
                              \cup Final]
      /\ ended \subseteq Calls
      /\ ledger \in [Calls -> [EntryTypes -> Nat]]
      /\ runtime \in [Calls -> Runtime \cup {NoRuntime}]
      /\ clock \in [Calls -> Nat] /\ charged \in [Calls -> Int]
      /\ accrued \in [Calls -> Nat]
  BY DEF Init
<1>3. adjusted \in [count : Nat, wallet : Int, settled : Nat] /\ crashes \in Nat
  BY DEF Init
<1>4. \A s \in Calls : ~Busy(s)
  BY DEF Init, Busy
<1> QED BY <1>1, <1>2, <1>3, <1>4 DEF TypeInv, TypeOK, At

\* startCallSession keeps the types.
LEMMA StartReadType ==
  ASSUME TypeInv, NEW s \in Calls, StartRead(s) PROVE TypeInv'
<1> DEFINE rt == NewRuntime(account)
           h == [op |-> "start", pc |-> "count", rt |-> rt, todo |-> 0,
                 reason |-> NoReason, status |-> NoStatus]
<1>1. rt \in Runtime
  <2>1. /\ account.wallet \in Nat /\ account.locked \in Nat /\ account.free \in Nat
        /\ account.credits \in Nat /\ account.outst \in Nat /\ account.day \in Nat
    BY DEF TypeInv, TypeOK, Account
  <2>2. 0 \in Nat /\ 0 \in Int
    OBVIOUS
  <2> QED BY <2>1, <2>2, Zenon DEF NewRuntime, Runtime
<1> HIDE DEF rt
<1>2. h \in Handler /\ h.pc = "count"
  BY <1>1, HandlerType DEF Ops, Steps
<1>3. handler' = [handler EXCEPT ![s] = h]
  BY DEF StartRead, Hold, rt
<1> HIDE DEF h
<1> QED BY <1>2, <1>3, HandlerStepType DEF StartRead, TypeInv, TypeOK, histories

LEMMA StartCountType ==
  ASSUME TypeInv, NEW s \in Calls, StartCount(s) PROVE TypeInv'
<1> DEFINE rt == handler[s].rt
           reserve == InitialReserve(NonNegative(rt.wallet - rt.locked))
           reserved == [rt EXCEPT !.total = reserve, !.avail = reserve]
           h == [handler[s] EXCEPT !.pc = "reserve", !.rt = reserved]
<1>1. Busy(s) /\ handler[s] \in Handler /\ rt \in Runtime
  BY BusyHandler DEF StartCount, At
<1>2. reserve \in Nat
  <2>1. rt.wallet - rt.locked \in Int
    BY <1>1 DEF Runtime
  <2>2. NonNegative(rt.wallet - rt.locked) \in Nat
    BY <2>1, NonNegativeInNat
  <2> HIDE DEF rt
  <2> QED BY <2>2, RuntimeAssumption DEF InitialReserve, Least, Greatest
<1> HIDE DEF reserve
<1>3. reserved \in Runtime
  <2> HIDE DEF rt
  <2> QED BY <1>1, <1>2, Zenon DEF Runtime
<1>4. handler' = [handler EXCEPT ![s] = Idle] \/ handler' = [handler EXCEPT ![s] = h]
  BY DEF StartCount, reserve
<1> HIDE DEF reserved
<1>5. h \in Handler /\ h.pc = "reserve"
  <2>1. "reserve" \in Steps
    BY DEF Steps
  <2> QED BY <1>1, <1>3, <2>1, MovedHandler, Zenon
<1> HIDE DEF h
<1> QED BY <1>4, <1>5, HandlerStepType DEF StartCount, TypeInv, TypeOK, histories

LEMMA StartReserveType ==
  ASSUME TypeInv, NEW s \in Calls, StartReserve(s) PROVE TypeInv'
<1> DEFINE rt == handler[s].rt
           locked == [rt EXCEPT !.wallet = account.wallet,
                                !.locked = account.locked + rt.total]
           next == IF rt.total > 0 THEN locked ELSE rt
           h == [handler[s] EXCEPT !.pc = "store", !.rt = next]
<1>1. Busy(s) /\ handler[s] \in Handler /\ rt \in Runtime
  BY BusyHandler DEF StartReserve, At
<1>2. account.wallet \in Nat /\ account.locked + rt.total \in Nat /\ rt.total \in Nat
  BY <1>1 DEF TypeInv, TypeOK, Account, Runtime
<1>3. next \in Runtime
  <2> HIDE DEF rt
  <2>1. locked \in Runtime
    BY <1>1, <1>2, Zenon DEF Runtime
  <2> QED BY <1>1, <2>1
<1> HIDE DEF next
<1>4. h \in Handler /\ h.pc = "store"
  <2>1. "store" \in Steps
    BY DEF Steps
  <2> QED BY <1>1, <1>3, <2>1, MovedHandler, ZenonT(30)
<1>5. CASE rt.total > 0 /\ account.locked + rt.total > account.wallet
  <2>1. /\ handler' = [handler EXCEPT ![s] = Idle]
        /\ UNCHANGED <<account, record, ended, ledger, runtime, clock, histories>>
    BY <1>5 DEF StartReserve, Release
  <2> QED BY <2>1, HandlerStepType DEF TypeInv, TypeOK, histories
<1>6. CASE ~(rt.total > 0 /\ account.locked + rt.total > account.wallet)
  <2>1. /\ account' = [account EXCEPT !.locked = @ + rt.total]
        /\ record' = [record EXCEPT ![s] = "created"]
        /\ ledger' = [ledger EXCEPT ![s]["wallet_lock"] = @ + rt.total]
        /\ handler' = [handler EXCEPT ![s].pc = "store", ![s].rt = next]
        /\ UNCHANGED <<ended, runtime, clock, histories>>
    BY <1>6 DEF StartReserve, next
  <2>2. handler' = [handler EXCEPT ![s] = h]
    BY <2>1 DEF TypeInv, TypeOK
  <2>3. account' \in Account
    BY <1>2, <2>1 DEF TypeInv, TypeOK, Account
  <2>4. ledger[s]["wallet_lock"] + rt.total \in Nat
    BY <1>2 DEF TypeInv, TypeOK, EntryTypes
  <2>5. ledger' \in [Calls -> [EntryTypes -> Nat]]
    BY <2>1, <2>4 DEF TypeInv, TypeOK
  <2>6. record' \in [Calls -> {"none", "created", "ringing", "answered", "active"}
                              \cup Final]
    BY <2>1 DEF TypeInv, TypeOK
  <2> HIDE DEF h
  <2> QED BY <1>4, <2>1, <2>2, <2>3, <2>5, <2>6, HandlerStepType
          DEF TypeInv, TypeOK, histories
<1> QED BY <1>5, <1>6

\* The handlers of a live call keep the types.
LEMMA ActivateType ==
  ASSUME TypeInv, NEW s \in Calls, Activate(s) PROVE TypeInv'
<1> DEFINE answered == [runtime[s] EXCEPT !.active = TRUE, !.proc = 0]
           limit == MaxDurationSeconds(answered)
           refused == [answered EXCEPT !.term = "INSUFFICIENT_BALANCE"]
           limited == [answered EXCEPT !.hardStop = limit]
           h(pc, rt) == [op |-> "activate", pc |-> pc, rt |-> rt, todo |-> 0,
                         reason |-> NoReason, status |-> NoStatus]
<1>1. runtime[s] \in Runtime
  BY DEF Activate, Live, TypeInv, TypeOK
<1>2. answered \in Runtime
  BY <1>1, Zenon DEF Runtime
<1>3. limit \in Nat
  BY <1>2, MaxDurationType
<1> HIDE DEF answered, limit
<1>4. refused \in Runtime
  <2>1. "INSUFFICIENT_BALANCE" \in Reasons \cup {NoReason}
    BY DEF Reasons
  <2> QED BY <1>2, <2>1, Zenon DEF Runtime
<1>5. limited \in Runtime
  BY <1>2, <1>3, Zenon DEF Runtime
<1>6. \/ handler' = [handler EXCEPT ![s] = h("overwrite", refused)] /\ record' = record
      \/ /\ handler' = [handler EXCEPT ![s] = h("store", limited)]
         /\ record' = [record EXCEPT ![s] = "active"]
  BY DEF Activate, Hold, answered, limit
<1> HIDE DEF refused, limited
<1>7. h("overwrite", refused) \in Handler /\ h("overwrite", refused).pc = "overwrite"
  BY <1>4, HandlerType DEF Ops, Steps
<1>8. h("store", limited) \in Handler /\ h("store", limited).pc = "store"
  BY <1>5, HandlerType DEF Ops, Steps
<1> HIDE DEF h
<1>9. record' \in [Calls -> {"none", "created", "ringing", "answered", "active"}
                            \cup Final]
  BY <1>6 DEF TypeInv, TypeOK
<1> QED BY <1>6, <1>7, <1>8, <1>9, HandlerStepType DEF Activate, TypeInv, TypeOK, histories

LEMMA AdvanceType ==
  ASSUME TypeInv, NEW s \in Calls, Advance(s) PROVE TypeInv'
<1> DEFINE rt == runtime[s]
           todo == Least(clock[s] - rt.proc, NonNegative(rt.hardStop - rt.proc))
           over == [rt EXCEPT !.term = "MAX_DURATION_REACHED"]
           h == [op |-> "advance", pc |-> "apply", rt |-> rt, todo |-> todo,
                 reason |-> NoReason, status |-> NoStatus]
           g == [op |-> "advance", pc |-> "overwrite", rt |-> over, todo |-> 0,
                 reason |-> NoReason, status |-> NoStatus]
<1>1. rt \in Runtime /\ clock[s] \in Nat
  BY DEF Advance, Live, TypeInv, TypeOK
<1>2. todo \in Int
  <2>1. rt.hardStop - rt.proc \in Int /\ clock[s] - rt.proc \in Int
    BY <1>1 DEF Runtime
  <2> HIDE DEF rt
  <2> QED BY <2>1, NonNegativeInNat DEF Least
<1>3. over \in Runtime
  <2>1. "MAX_DURATION_REACHED" \in Reasons \cup {NoReason}
    BY DEF Reasons
  <2> HIDE DEF rt
  <2> QED BY <1>1, <2>1, Zenon DEF Runtime
<1>4. \/ todo > 0 /\ handler' = [handler EXCEPT ![s] = h]
      \/ handler' = [handler EXCEPT ![s] = g]
  BY DEF Advance, Hold
<1> HIDE DEF rt, todo, over
<1>5. todo > 0 => h \in Handler /\ h.todo > 0
  <2> SUFFICES ASSUME todo > 0 PROVE h \in Handler /\ h.todo > 0
    OBVIOUS
  <2>1. todo \in Nat /\ "advance" \in Ops /\ "apply" \in Steps
        /\ NoReason \in Reasons \cup {NoReason} /\ NoStatus \in Final \cup {NoStatus}
    BY <1>2 DEF Ops, Steps
  <2>2. h \in Handler
    BY <1>1, <2>1, HandlerType, Zenon
  <2> QED BY <2>2
<1>6. g \in Handler /\ g.pc = "overwrite"
  BY <1>3, HandlerType DEF Ops, Steps
<1> HIDE DEF h, g
<1> QED BY <1>4, <1>5, <1>6, HandlerStepType DEF Advance, TypeInv, TypeOK, histories

LEMMA ApplyNextType ==
  ASSUME TypeInv, NEW s \in Calls, ApplyNext(s) PROVE TypeInv'
<1> DEFINE h == handler[s]
           result == ApplySecond(h.rt)
           done == result.error # NoReason \/ h.todo = 1
           rt == IF result.error # NoReason THEN result.rt
                 ELSE [result.rt EXCEPT !.proc = @ + 1]
           reason == IF result.error # NoReason THEN result.error
                     ELSE IF h.todo = 1 /\ MaxDurationSeconds(rt) <= 0
                     THEN "MAX_DURATION_REACHED" ELSE NoReason
           pc == IF done THEN "flush" ELSE "apply"
           new == [h EXCEPT !.rt = rt, !.reason = reason, !.todo = @ - 1, !.pc = pc]
<1>1. /\ Busy(s) /\ h \in Handler /\ h.rt \in Runtime /\ h.todo \in Nat /\ h.todo > 0
  BY BusyHandler DEF ApplyNext, At, TypeInv
<1>2. /\ handler' = [handler EXCEPT ![s] = new]
      /\ UNCHANGED <<account, record, ended, ledger, runtime, clock, histories>>
  BY DEF ApplyNext
<1> HIDE DEF h
<1>3. result.rt \in Runtime /\ result.error \in Reasons \cup {NoReason}
  BY <1>1, ApplySecondEffect
<1> HIDE DEF result
<1>4. rt \in Runtime
  <2>1. result.rt.proc + 1 \in Nat
    BY <1>3 DEF Runtime
  <2>2. [result.rt EXCEPT !.proc = @ + 1] \in Runtime
    BY <1>3, <2>1, Zenon DEF Runtime
  <2>3. PICK next : next = [result.rt EXCEPT !.proc = @ + 1]
    OBVIOUS
  <2>4. rt = result.rt \/ rt = next
    BY <2>3
  <2> HIDE DEF rt
  <2>5. next \in Runtime
    BY <2>2, <2>3, Zenon
  <2> QED BY <1>3, <2>4, <2>5
<1> HIDE DEF rt
<1>5. reason \in Reasons \cup {NoReason}
  BY <1>3 DEF Reasons
<1>6. pc \in Steps /\ h.todo - 1 \in Nat
  BY <1>1 DEF Steps
<1>7. pc = "apply" => h.todo - 1 > 0
  BY <1>1
<1> HIDE DEF reason, pc
<1>8. new \in Handler
  BY <1>1, <1>4, <1>5, <1>6, Zenon DEF Handler
<1>9. new.pc = pc /\ new.todo = h.todo - 1
  BY <1>1 DEF Handler
<1> HIDE DEF new
<1> QED BY <1>2, <1>7, <1>8, <1>9, HandlerStepType DEF TypeInv, TypeOK, histories

LEMMA WaiveType ==
  ASSUME TypeInv, NEW s \in Calls, Waive(s) PROVE TypeInv'
<1> DEFINE rt == [runtime[s] EXCEPT !.waived = TRUE, !.free = @ + runtime[s].freeUsed,
                                    !.freeUsed = 0]
           h == [op |-> "waive", pc |-> "flush", rt |-> rt, todo |-> 0,
                 reason |-> NoReason, status |-> NoStatus]
<1>1. runtime[s] \in Runtime
  BY DEF Waive, Live, TypeInv, TypeOK
<1>2. runtime[s].free + runtime[s].freeUsed \in Nat /\ 0 \in Nat
  BY <1>1 DEF Runtime
<1>3. rt \in Runtime
  BY <1>1, <1>2, Zenon DEF Runtime
<1>4. handler' = [handler EXCEPT ![s] = h]
  BY DEF Waive, Hold
<1> HIDE DEF rt
<1>5. h \in Handler /\ h.pc = "flush"
  BY <1>3, HandlerType DEF Ops, Steps
<1> HIDE DEF h
<1> QED BY <1>4, <1>5, HandlerStepType DEF Waive, TypeInv, TypeOK, histories

LEMMA FinalizeType ==
  ASSUME TypeInv, NEW s \in Calls, NEW status \in Final, Finalize(s, status)
  PROVE  TypeInv'
<1> DEFINE h == [op |-> "finalize", pc |-> "flush", rt |-> runtime[s], todo |-> 0,
                 reason |-> NoReason, status |-> status]
<1>1. runtime[s] \in Runtime
  BY DEF Finalize, Live, TypeInv, TypeOK
<1>2. h \in Handler /\ h.pc = "flush"
  BY <1>1, HandlerType DEF Ops, Steps
<1>3. handler' = [handler EXCEPT ![s] = h]
  BY DEF Finalize
<1> HIDE DEF h
<1> QED BY <1>2, <1>3, HandlerStepType DEF Finalize, TypeInv, TypeOK, histories

\* persistRuntimeState and persistRuntimeSession keep the types.
LEMMA FlushType ==
  ASSUME TypeInv, NEW s \in Calls, Flush(s) PROVE TypeInv'
<1> DEFINE rt == handler[s].rt
           flushed == FlushedRuntime(account, rt)
           h == [handler[s] EXCEPT !.pc = "overwrite", !.rt = flushed]
<1>1. Busy(s) /\ handler[s] \in Handler /\ rt \in Runtime
  BY BusyHandler DEF Flush, At
<1>2. account \in Account
  BY DEF TypeInv, TypeOK
<1>3. flushed \in Runtime /\ account' \in Account
  BY <1>1, <1>2, FlushEffect DEF Flush
<1>4. handler' = [handler EXCEPT ![s] = h]
  BY DEF Flush, TypeInv, TypeOK
<1> HIDE DEF flushed
<1>5. h \in Handler /\ h.pc = "overwrite"
  <2>1. "overwrite" \in Steps
    BY DEF Steps
  <2> QED BY <1>1, <1>3, <2>1, MovedHandler, ZenonT(30)
<1> HIDE DEF h
<1>6. charged' \in [Calls -> Int]
  <2>1. charged[s] - rt.pendWallet \in Int
    BY <1>1 DEF TypeInv, TypeOK, Runtime
  <2> QED BY <2>1 DEF Flush, TypeInv, TypeOK
<1> QED BY <1>3, <1>4, <1>5, <1>6, HandlerStepType DEF Flush, TypeInv, TypeOK

LEMMA OverwriteStepType ==
  ASSUME TypeInv, NEW s \in Calls, Overwrite(s) PROVE TypeInv'
<1> DEFINE rt == handler[s].rt
           pc == IF handler[s].op = "finalize" THEN "settle" ELSE "store"
           h == [handler[s] EXCEPT !.pc = pc]
<1>1. Busy(s) /\ handler[s] \in Handler /\ rt \in Runtime
  BY BusyHandler DEF Overwrite, At
<1>2. account' \in Account
  <2>1. account \in Account
    BY DEF TypeInv, TypeOK
  <2> QED BY <1>1, <2>1, OverwriteType DEF Overwrite
<1>3. handler' = [handler EXCEPT ![s] = h]
  BY DEF Overwrite, Goto, TypeInv, TypeOK
<1>4. pc \in Steps /\ pc # "apply"
  BY DEF Steps
<1> HIDE DEF pc
<1>5. h \in Handler /\ h.pc = pc
  BY <1>1, <1>4, MovedHandler, Zenon
<1> HIDE DEF h
<1>6. accrued' \in [Calls -> Nat]
  <2>1. rt.accrual \in Nat /\ accrued[s] \in Nat
    BY <1>1 DEF Runtime, TypeInv, TypeOK
  <2>2. Greatest(accrued[s], rt.accrual) \in Nat
    BY <2>1 DEF Greatest
  <2> QED BY <2>2 DEF Overwrite, TypeInv, TypeOK
<1> QED BY <1>2, <1>3, <1>4, <1>5, <1>6, HandlerStepType DEF Overwrite, TypeInv, TypeOK

LEMMA StoreType ==
  ASSUME TypeInv, NEW s \in Calls, Store(s) PROVE TypeInv'
<1> DEFINE h == handler[s]
           reason == IF h.reason # NoReason THEN h.reason
                     ELSE IF h.op = "advance" /\ h.rt.term = NoReason
                             /\ clock[s] >= h.rt.hardStop
                     THEN "MAX_DURATION_REACHED" ELSE NoReason
           rt == [h.rt EXCEPT !.term = reason]
           g == [h EXCEPT !.pc = "overwrite", !.rt = rt, !.reason = NoReason]
<1>1. Busy(s) /\ h \in Handler /\ h.rt \in Runtime /\ h.reason \in Reasons \cup {NoReason}
  BY BusyHandler DEF Store, At
<1>2. reason \in Reasons \cup {NoReason}
  <2> HIDE DEF h
  <2> QED BY <1>1 DEF Reasons
<1>3. \/ handler' = [handler EXCEPT ![s] = Idle]
      \/ handler' = [handler EXCEPT ![s] = g]
  BY Zenon DEF Store
<1> HIDE DEF reason
<1>4. rt \in Runtime
  <2> HIDE DEF h
  <2> QED BY <1>1, <1>2, Zenon DEF Runtime
<1> HIDE DEF rt
<1>5. g \in Handler /\ g.pc = "overwrite"
  <2>1. "overwrite" \in Steps /\ NoReason \in Reasons \cup {NoReason}
    BY DEF Steps
  <2> HIDE DEF h
  <2>2. g \in Handler
    BY <1>1, <1>4, <2>1, Zenon DEF Handler
  <2>3. g.pc = "overwrite"
    BY <1>1 DEF Handler
  <2> QED BY <2>2, <2>3
<1> HIDE DEF g
<1>6. runtime' \in [Calls -> Runtime \cup {NoRuntime}]
  BY <1>1 DEF Store, TypeInv, TypeOK
<1> HIDE DEF h
<1> QED BY <1>3, <1>5, <1>6, HandlerStepType DEF Store, TypeInv, TypeOK, histories

\* The release of what is left of the reservation keeps a session well formed.
LEMMA ReleaseType ==
  ASSUME NEW rt \in Runtime
  PROVE  [rt EXCEPT !.locked = NonNegative(@ - rt.avail), !.pendLocked = @ - rt.avail]
           \in Runtime
<1>1. rt.locked - rt.avail \in Int /\ rt.pendLocked - rt.avail \in Int
  BY DEF Runtime
<1>2. NonNegative(rt.locked - rt.avail) \in Nat
  BY <1>1, NonNegativeInNat
<1> QED BY <1>1, <1>2, Zenon DEF Runtime

LEMMA SettleType ==
  ASSUME TypeInv, NEW s \in Calls, Settle(s) PROVE TypeInv'
<1> DEFINE rt == handler[s].rt
           released == [rt EXCEPT !.locked = NonNegative(@ - rt.avail),
                                  !.pendLocked = @ - rt.avail]
           entries == [t \in EntryTypes |->
                       CASE t = "wallet_lock_extension" -> rt.topup
                         [] t = "usage_debit"           -> rt.debit
                         [] t = "wallet_release"        -> rt.avail
                         [] t = "postpaid_accrual"      -> rt.accrual
                         [] OTHER                       -> 0]
           next == IF rt.avail > 0 THEN FlushedRuntime(account, released) ELSE rt
           h == [handler[s] EXCEPT !.pc = "remove", !.rt = next]
<1>1. handler[s] \in Handler /\ rt \in Runtime /\ account \in Account
  BY BusyHandler DEF Settle, At, TypeInv, TypeOK
<1>2. released \in Runtime
  <2> HIDE DEF rt
  <2> QED BY <1>1, ReleaseType
<1>3. /\ account' = IF rt.avail > 0
                    THEN OverwrittenAccount(FlushedAccount(account, released), rt)
                    ELSE account
      /\ record' = [record EXCEPT ![s] = handler[s].status]
      /\ ended' = ended \cup {s}
      /\ ledger' = [ledger EXCEPT ![s] = [t \in EntryTypes |-> @[t] + entries[t]]]
      /\ handler' = [handler EXCEPT ![s].pc = "remove", ![s].rt = next]
      /\ UNCHANGED <<runtime, clock, histories>>
  BY DEF Settle
<1> HIDE DEF released
<1>4. next \in Runtime /\ account' \in Account
  <2>1. FlushedRuntime(account, released) \in Runtime /\ FlushedAccount(account, released) \in Account
    BY <1>1, <1>2, FlushEffect
  <2>2. OverwrittenAccount(FlushedAccount(account, released), rt) \in Account
    BY <1>1, <2>1, OverwriteType
  <2> QED BY <1>1, <1>3, <2>1, <2>2
<1> HIDE DEF next
<1>5. handler' = [handler EXCEPT ![s] = h]
  BY <1>3 DEF TypeInv, TypeOK
<1>6. h \in Handler /\ h.pc = "remove"
  <2>1. "remove" \in Steps
    BY DEF Steps
  <2> QED BY <1>1, <1>4, <2>1, MovedHandler, ZenonT(30)
<1> HIDE DEF h
<1>7. ledger' \in [Calls -> [EntryTypes -> Nat]]
  <2>1. rt.topup \in Nat /\ rt.debit \in Nat /\ rt.avail \in Nat /\ rt.accrual \in Nat
    BY <1>1 DEF Runtime
  <2>2. \A t \in EntryTypes : entries[t] \in Nat
    <3> HIDE DEF rt
    <3> QED BY <2>1
  <2> HIDE DEF entries
  <2>3. [t \in EntryTypes |-> ledger[s][t] + entries[t]] \in [EntryTypes -> Nat]
    BY <2>2 DEF TypeInv, TypeOK
  <2> QED BY <1>3, <2>3 DEF TypeInv, TypeOK
<1>8. record' \in [Calls -> {"none", "created", "ringing", "answered", "active"} \cup Final]
  <2>1. handler[s].status \in Final \cup {NoStatus}
    BY BusyHandler DEF Settle, At
  <2> QED BY <1>3, <2>1 DEF TypeInv, TypeOK, NoStatus
<1>9. ended' \subseteq Calls
  BY <1>3 DEF TypeInv, TypeOK
<1> QED BY <1>3, <1>4, <1>5, <1>6, <1>7, <1>8, <1>9, HandlerStepType DEF TypeInv, TypeOK, histories

LEMMA RemoveType ==
  ASSUME TypeInv, NEW s \in Calls, Remove(s) PROVE TypeInv'
<1>1. runtime' \in [Calls -> Runtime \cup {NoRuntime}]
  BY DEF Remove, TypeInv, TypeOK
<1>2. handler' = [handler EXCEPT ![s] = Idle]
  BY DEF Remove, Release
<1> QED BY <1>1, <1>2, HandlerStepType DEF Remove, TypeInv, TypeOK, histories

LEMMA CrashType ==
  ASSUME TypeInv, NEW s \in Calls, Crash(s) PROVE TypeInv'
<1>1. crashes' \in Nat
  BY DEF Crash, TypeInv, TypeOK
<1>2. handler' = [handler EXCEPT ![s] = Idle]
  BY DEF Crash, Release
<1> QED BY <1>1, <1>2, HandlerStepType DEF Crash, TypeInv, TypeOK

\* The steps that touch no handler keep the types.
LEMMA SetStatusType ==
  ASSUME TypeInv, NEW s \in Calls, NEW status \in Statuses, SetStatus(s, status)
  PROVE  TypeInv'
<1>1. record' \in [Calls -> {"none", "created", "ringing", "answered", "active"} \cup Final]
  BY EngineAssumption DEF SetStatus, TypeInv, TypeOK
<1> QED BY <1>1 DEF SetStatus, TypeInv, TypeOK, histories, At, Busy

LEMMA TickType ==
  ASSUME TypeInv, NEW s \in Calls, Tick(s) PROVE TypeInv'
<1>1. clock' \in [Calls -> Nat]
  BY DEF Tick, TypeInv, TypeOK
<1> QED BY <1>1 DEF Tick, TypeInv, TypeOK, histories, At, Busy

LEMMA AdjustType ==
  ASSUME TypeInv, NEW a \in Adjustments, Adjust(a) PROVE TypeInv'
<1> DEFINE walletDelta == CASE a.type = "wallet_credit" -> a.amount
                            [] a.type = "credit_limit_settlement" -> 0
                            [] OTHER -> 0 - a.amount
           settled == IF a.type = "credit_limit_settlement" THEN a.amount ELSE 0
           next == [account EXCEPT !.wallet = NonNegative(@ + walletDelta),
                                   !.outst = NonNegative(@ - settled)]
<1>1. walletDelta \in Int /\ settled \in Nat
  BY EngineAssumption
<1>2. /\ account' = next
      /\ adjusted' = [count   |-> adjusted.count + 1,
                      wallet  |-> adjusted.wallet + (next.wallet - account.wallet),
                      settled |-> adjusted.settled + (account.outst - next.outst)]
      /\ UNCHANGED <<record, ended, ledger, runtime, handler, clock, charged, accrued,
                     crashes>>
  BY DEF Adjust
<1> HIDE DEF walletDelta, settled
<1>3. account.wallet \in Nat /\ account.outst \in Nat /\ account \in Account
  BY DEF TypeInv, TypeOK, Account
<1>4. /\ NonNegative(account.wallet + walletDelta) \in Nat
      /\ NonNegative(account.outst - settled) \in Nat
      /\ NonNegative(account.outst - settled) <= account.outst
  BY <1>1, <1>3 DEF NonNegative
<1>5. next \in Account /\ next.wallet \in Nat /\ next.outst \in Nat
      /\ next.outst <= account.outst
  BY <1>3, <1>4 DEF Account
<1> HIDE DEF next
<1>6. adjusted.count \in Nat /\ adjusted.wallet \in Int /\ adjusted.settled \in Nat
  BY DEF TypeInv, TypeOK
<1>7. /\ adjusted.count + 1 \in Nat /\ adjusted.wallet + (next.wallet - account.wallet) \in Int
      /\ adjusted.settled + (account.outst - next.outst) \in Nat
  BY <1>3, <1>5, <1>6
<1>8. adjusted' \in [count : Nat, wallet : Int, settled : Nat]
  BY <1>2, <1>7
<1> QED BY <1>2, <1>5, <1>8 DEF TypeInv, TypeOK, At, Busy

LEMMA SetBlockedType ==
  ASSUME TypeInv, SetBlocked PROVE TypeInv'
<1>1. account' \in Account
  BY DEF SetBlocked, TypeInv, TypeOK, Account
<1>2. adjusted' \in [count : Nat, wallet : Int, settled : Nat]
  BY DEF SetBlocked, TypeInv, TypeOK
<1> QED BY <1>1, <1>2 DEF SetBlocked, TypeInv, TypeOK, At, Busy

\* Every step keeps the types.
LEMMA TypeStep == TypeInv /\ [Next]_vars => TypeInv'
<1> SUFFICES ASSUME TypeInv, [Next]_vars PROVE TypeInv'
  OBVIOUS
<1>1. ASSUME NEW s \in Calls, Handle(s) PROVE TypeInv'
  BY <1>1, StartCountType, StartReserveType, ApplyNextType, FlushType,
     OverwriteStepType, StoreType, SettleType, RemoveType DEF Handle
<1>2. ASSUME NEW s \in Calls, StartRead(s) \/ Activate(s) \/ Advance(s) \/ Waive(s)
      PROVE  TypeInv'
  BY <1>2, StartReadType, ActivateType, AdvanceType, WaiveType
<1>3. ASSUME NEW s \in Calls, NEW status \in Final, Finalize(s, status) PROVE TypeInv'
  BY <1>3, FinalizeType
<1>4. ASSUME NEW s \in Calls, NEW status \in Statuses, SetStatus(s, status) PROVE TypeInv'
  BY <1>4, SetStatusType
<1>5. ASSUME NEW s \in Calls, Tick(s) \/ Crash(s) PROVE TypeInv'
  BY <1>5, TickType, CrashType
<1>6. ASSUME NEW a \in Adjustments, Adjust(a) PROVE TypeInv'
  BY <1>6, AdjustType
<1>7. CASE SetBlocked
  BY <1>7, SetBlockedType
<1>8. CASE UNCHANGED vars
  BY <1>8 DEF vars, histories, TypeInv, TypeOK, At, Busy
<1> QED BY <1>1, <1>2, <1>3, <1>4, <1>5, <1>6, <1>7, <1>8 DEF Next

\* The state of the engine is well typed: in particular no balance of the
\* account and no counter of a session is ever negative, whatever the handlers
\* of its calls do at once (the floors at zero of billing-engine.ts).
THEOREM TypeCorrect == Spec => []TypeOK
<1>1. TypeInv => TypeOK
  BY DEF TypeInv
<1> QED BY InitType, TypeStep, <1>1, PTL DEF Spec

---------------------------------------------------------------------------
(* What is true of each session, through any number of crashes: its books,
   what Redis may hold of it, and that nothing is charged once it was told to
   stop.  Each of the three is about the copy in Redis and the copy of the
   handler together, and none is inductive alone: a handler in the middle of a
   sweep holds a change it has not written, which is harmless only because the
   handler flushes it before it stores, and because the sweep began from a
   session that was not told to stop. *)

\* Nothing is left to write to the account.
Flushed(rt) == rt.pendWallet = 0 /\ rt.pendLocked = 0

\* SessionBooks of one copy, with what makes it inductive: the position never
\* passes the seconds counted.
Books(rt) ==
    /\ Reserved(rt)
    /\ rt.dur >= rt.proc
    /\ Unpaid(rt) >= 0
    /\ Unpaid(rt) = 0 \/ rt.dur > rt.proc

\* The session was asked to end, or its charges were waived.
Stopped(r) == r.term # NoReason \/ r.waived

\* What Redis holds of a call, r, and its handler, h, agree.
Agree(r, h) ==
    /\ r # NoRuntime => Flushed(r) /\ Books(r)
    /\ h # Idle => /\ Books(h.rt)
                   /\ h.pc \notin {"apply", "flush"} => Flushed(h.rt)
                   /\ h.pc = "count" => h.rt.debit = 0
                   /\ h.pc \in {"apply", "flush"} =>
                        r # NoRuntime /\ (Stopped(r) => h.rt.pendWallet = 0)
                   /\ h.pc = "apply" => r.term = NoReason /\ h.rt.waived = r.waived

SessionInv == \A s \in Calls : Agree(runtime[s], handler[s])

Inv == TypeInv /\ SessionInv

\* A step that changes nothing of the other calls has only its own call to
\* answer for.
LEMMA OneCall ==
  ASSUME Inv, NEW s \in Calls, NEW r, NEW h,
         runtime' = [runtime EXCEPT ![s] = r], handler' = [handler EXCEPT ![s] = h],
         Agree(r, h)
  PROVE  SessionInv'
<1> SUFFICES ASSUME NEW t \in Calls PROVE Agree(runtime'[t], handler'[t])
  BY DEF SessionInv
<1>1. runtime \in [Calls -> Runtime \cup {NoRuntime}]
      /\ handler \in [Calls -> Handler \cup {Idle}]
  BY DEF Inv, TypeInv, TypeOK
<1>2. CASE t = s
  <2>1. runtime'[t] = r /\ handler'[t] = h
    BY <1>1, <1>2
  <2> QED BY <2>1
<1>3. CASE t # s
  <2>1. runtime'[t] = runtime[t] /\ handler'[t] = handler[t]
    BY <1>1, <1>3
  <2> QED BY <2>1 DEF Inv, SessionInv
<1> QED BY <1>2, <1>3

\* The same, when the runtime in Redis stays.
LEMMA OneHandler ==
  ASSUME Inv, NEW s \in Calls, NEW h,
         runtime' = runtime, handler' = [handler EXCEPT ![s] = h],
         Agree(runtime[s], h)
  PROVE  SessionInv'
<1>1. runtime' = [runtime EXCEPT ![s] = runtime[s]]
  BY DEF Inv, TypeInv, TypeOK
<1> QED BY <1>1, OneCall

\* A call without a handler is consistent if it was.
LEMMA IdleAgrees ==
  ASSUME NEW r, NEW h, Agree(r, h) PROVE Agree(r, Idle)
  BY DEF Agree

\* What a busy handler's call satisfies.
LEMMA BusyAgrees ==
  ASSUME Inv, NEW s \in Calls, Busy(s)
  PROVE  /\ Agree(runtime[s], handler[s])
         /\ handler[s] # Idle /\ handler[s] \in Handler /\ handler[s].rt \in Runtime
         /\ runtime[s] # NoRuntime => runtime[s] \in Runtime
<1>1. Agree(runtime[s], handler[s])
  BY DEF Inv, SessionInv
<1>2. handler[s] \in Handler /\ handler[s].rt \in Runtime
  BY BusyHandler DEF Inv
<1>3. runtime[s] # NoRuntime => runtime[s] \in Runtime
  BY DEF Inv, TypeInv, TypeOK
<1> QED BY <1>1, <1>2, <1>3 DEF Busy

\* A handler about to do something other than bill seconds or flush agrees
\* with Redis as soon as its copy is flushed and its books are right.
LEMMA HandlerAgrees ==
  ASSUME NEW r, NEW h, r # NoRuntime => Flushed(r) /\ Books(r),
         Books(h.rt), Flushed(h.rt), h.pc \notin {"count", "apply", "flush"}
  PROVE  Agree(r, h)
  BY DEF Agree

\* startCallSession: the session begins with nothing spent and nothing to write.
LEMMA StartReadSession ==
  ASSUME Inv, NEW s \in Calls, StartRead(s) PROVE SessionInv'
<1> DEFINE rt == NewRuntime(account)
           h == [op |-> "start", pc |-> "count", rt |-> rt, todo |-> 0,
                 reason |-> NoReason, status |-> NoStatus]
<1>1. Agree(runtime[s], handler[s])
  BY DEF Inv, SessionInv
<1>2. handler' = [handler EXCEPT ![s] = h] /\ runtime' = runtime
  BY DEF StartRead, Hold
<1>3. Flushed(rt) /\ Books(rt) /\ rt.debit = 0
  BY DEF NewRuntime, Flushed, Books, Reserved, Unpaid, Paid
<1> HIDE DEF rt
<1>4. h.rt = rt /\ h.pc = "count"
  OBVIOUS
<1> HIDE DEF h
<1>5. Agree(runtime[s], h)
  BY <1>1, <1>3, <1>4 DEF Agree
<1> QED BY <1>2, <1>5, OneHandler

LEMMA StartCountSession ==
  ASSUME Inv, NEW s \in Calls, StartCount(s) PROVE SessionInv'
<1> DEFINE rt == handler[s].rt
           reserve == InitialReserve(NonNegative(rt.wallet - rt.locked))
           reserved == [rt EXCEPT !.total = reserve, !.avail = reserve]
           h == [handler[s] EXCEPT !.pc = "reserve", !.rt = reserved]
<1>1. Busy(s) /\ handler[s].pc = "count"
  BY DEF StartCount, At
<1>2. /\ Agree(runtime[s], handler[s]) /\ handler[s] # Idle
      /\ handler[s] \in Handler /\ rt \in Runtime
  BY <1>1, BusyAgrees
<1>3. Books(rt) /\ Flushed(rt) /\ rt.debit = 0
  BY <1>1, <1>2 DEF Agree
<1>4. /\ runtime' = runtime
      /\ handler' = [handler EXCEPT ![s] = Idle] \/ handler' = [handler EXCEPT ![s] = h]
  BY DEF StartCount
<1>5. reserve \in Nat
  <2>1. rt.wallet - rt.locked \in Int
    BY <1>2 DEF Runtime
  <2>2. NonNegative(rt.wallet - rt.locked) \in Nat
    BY <2>1, NonNegativeInNat
  <2> HIDE DEF rt
  <2> QED BY <2>2, RuntimeAssumption DEF InitialReserve, Least, Greatest
<1> HIDE DEF reserve
<1>6. Books(reserved) /\ Flushed(reserved)
  <2>1. /\ reserved.total = reserve /\ reserved.avail = reserve
        /\ reserved.debit = rt.debit /\ reserved.cost = rt.cost
        /\ reserved.creditsUsed = rt.creditsUsed /\ reserved.accrual = rt.accrual
        /\ reserved.dur = rt.dur /\ reserved.proc = rt.proc
        /\ reserved.pendWallet = rt.pendWallet /\ reserved.pendLocked = rt.pendLocked
    <3> HIDE DEF rt
    <3> QED BY <1>2 DEF Runtime
  <2> HIDE DEF rt, reserved
  <2> QED BY <1>3, <1>5, <2>1 DEF Books, Flushed, Reserved, Unpaid, Paid
<1>7. h.rt = reserved /\ h.pc = "reserve"
  BY <1>2 DEF Handler
<1> HIDE DEF h, reserved
<1>8. Agree(runtime[s], h)
  BY <1>2, <1>6, <1>7, HandlerAgrees DEF Agree
<1>9. Agree(runtime[s], Idle)
  BY <1>2, IdleAgrees
<1> QED BY <1>4, <1>8, <1>9, OneHandler

LEMMA StartReserveSession ==
  ASSUME Inv, NEW s \in Calls, StartReserve(s) PROVE SessionInv'
<1> DEFINE rt == handler[s].rt
           locked == [rt EXCEPT !.wallet = account.wallet,
                                !.locked = account.locked + rt.total]
           next == IF rt.total > 0 THEN locked ELSE rt
           h == [handler[s] EXCEPT !.pc = "store", !.rt = next]
<1>1. Busy(s) /\ handler[s].pc = "reserve"
  BY DEF StartReserve, At
<1>2. /\ Agree(runtime[s], handler[s]) /\ handler[s] # Idle
      /\ handler[s] \in Handler /\ rt \in Runtime
  BY <1>1, BusyAgrees
<1>3. Books(rt) /\ Flushed(rt)
  BY <1>1, <1>2 DEF Agree
<1>4. /\ runtime' = runtime
      /\ \/ handler' = [handler EXCEPT ![s] = Idle]
         \/ handler' = [handler EXCEPT ![s].pc = "store", ![s].rt = next]
  BY DEF StartReserve, Release
<1>5. Books(next) /\ Flushed(next)
  <2>1. /\ locked.total = rt.total /\ locked.avail = rt.avail
        /\ locked.debit = rt.debit /\ locked.cost = rt.cost
        /\ locked.creditsUsed = rt.creditsUsed /\ locked.accrual = rt.accrual
        /\ locked.dur = rt.dur /\ locked.proc = rt.proc
        /\ locked.pendWallet = rt.pendWallet /\ locked.pendLocked = rt.pendLocked
    <3> HIDE DEF rt
    <3> QED BY <1>2 DEF Runtime
  <2> HIDE DEF rt, locked
  <2>2. Books(locked) /\ Flushed(locked)
    BY <1>3, <2>1 DEF Books, Flushed, Reserved, Unpaid, Paid
  <2> QED BY <1>3, <2>2
<1> HIDE DEF next
<1>6. handler' = [handler EXCEPT ![s] = Idle] \/ handler' = [handler EXCEPT ![s] = h]
  BY <1>4 DEF Inv, TypeInv, TypeOK
<1>7. h.rt = next /\ h.pc = "store"
  BY <1>2 DEF Handler
<1> HIDE DEF h
<1>8. Agree(runtime[s], h)
  BY <1>2, <1>5, <1>7, HandlerAgrees DEF Agree
<1>9. Agree(runtime[s], Idle)
  BY <1>2, IdleAgrees
<1> QED BY <1>4, <1>6, <1>8, <1>9, OneHandler

\* The handlers that read a live session from Redis.
LEMMA ActivateSession ==
  ASSUME Inv, NEW s \in Calls, Activate(s) PROVE SessionInv'
<1> DEFINE r == runtime[s]
           answered == [r EXCEPT !.active = TRUE, !.proc = 0]
           limit == MaxDurationSeconds(answered)
           refused == [answered EXCEPT !.term = "INSUFFICIENT_BALANCE"]
           limited == [answered EXCEPT !.hardStop = limit]
           h(pc, rt) == [op |-> "activate", pc |-> pc, rt |-> rt, todo |-> 0,
                         reason |-> NoReason, status |-> NoStatus]
<1>1. Agree(r, handler[s]) /\ r # NoRuntime /\ r \in Runtime
  BY DEF Activate, Live, Inv, SessionInv, TypeInv, TypeOK
<1>2. Flushed(r) /\ Books(r)
  BY <1>1 DEF Agree
<1>3. /\ runtime' = runtime
      /\ \/ handler' = [handler EXCEPT ![s] = h("overwrite", refused)]
         \/ handler' = [handler EXCEPT ![s] = h("store", limited)]
  BY DEF Activate, Hold
<1> HIDE DEF r, limit
<1>4. Flushed(answered) /\ Books(answered) /\ answered \in Runtime
  <2>1. /\ answered.total = r.total /\ answered.avail = r.avail
        /\ answered.debit = r.debit /\ answered.cost = r.cost
        /\ answered.creditsUsed = r.creditsUsed /\ answered.accrual = r.accrual
        /\ answered.dur = r.dur /\ answered.proc = 0
        /\ answered.pendWallet = r.pendWallet /\ answered.pendLocked = r.pendLocked
    BY <1>1 DEF Runtime
  <2>2. r.dur \in Nat /\ r.proc \in Nat
    BY <1>1 DEF Runtime
  <2>3. answered \in Runtime
    BY <1>1, Zenon DEF Runtime
  <2> HIDE DEF answered
  <2> QED BY <1>2, <2>1, <2>2, <2>3 DEF Books, Flushed, Reserved, Unpaid, Paid
<1> HIDE DEF answered
<1>5. Flushed(refused) /\ Books(refused) /\ Flushed(limited) /\ Books(limited)
  BY <1>4 DEF Runtime, Books, Flushed, Reserved, Unpaid, Paid
<1> HIDE DEF refused, limited
<1>6. Agree(r, h("overwrite", refused)) /\ Agree(r, h("store", limited))
  BY <1>2, <1>5, HandlerAgrees
<1> HIDE DEF h
<1> QED BY <1>3, <1>6, OneHandler DEF r

LEMMA AdvanceSession ==
  ASSUME Inv, NEW s \in Calls, Advance(s) PROVE SessionInv'
<1> DEFINE rt == runtime[s]
           todo == Least(clock[s] - rt.proc, NonNegative(rt.hardStop - rt.proc))
           over == [rt EXCEPT !.term = "MAX_DURATION_REACHED"]
           h == [op |-> "advance", pc |-> "apply", rt |-> rt, todo |-> todo,
                 reason |-> NoReason, status |-> NoStatus]
           g == [op |-> "advance", pc |-> "overwrite", rt |-> over, todo |-> 0,
                 reason |-> NoReason, status |-> NoStatus]
<1>1. /\ Agree(rt, handler[s]) /\ rt # NoRuntime /\ rt \in Runtime /\ rt.term = NoReason
      /\ runtime' = runtime
      /\ handler' = [handler EXCEPT ![s] = h] \/ handler' = [handler EXCEPT ![s] = g]
  BY DEF Advance, Hold, Live, Inv, SessionInv, TypeInv, TypeOK
<1> HIDE DEF rt, todo
<1>2. Flushed(rt) /\ Books(rt)
  BY <1>1 DEF Agree
<1>3. Flushed(over) /\ Books(over)
  BY <1>1, <1>2 DEF Runtime, Books, Flushed, Reserved, Unpaid, Paid
<1> HIDE DEF over
<1>4. Agree(rt, h)
  BY <1>1, <1>2 DEF Agree, Flushed
<1>5. Agree(rt, g)
  BY <1>2, <1>3, HandlerAgrees
<1> HIDE DEF h, g
<1> QED BY <1>1, <1>4, <1>5, OneHandler DEF rt

LEMMA WaiveSession ==
  ASSUME Inv, NEW s \in Calls, Waive(s) PROVE SessionInv'
<1> DEFINE r == runtime[s]
           rt == [r EXCEPT !.waived = TRUE, !.free = @ + r.freeUsed, !.freeUsed = 0]
           h == [op |-> "waive", pc |-> "flush", rt |-> rt, todo |-> 0,
                 reason |-> NoReason, status |-> NoStatus]
<1>1. /\ Agree(r, handler[s]) /\ r # NoRuntime /\ r \in Runtime
      /\ runtime' = runtime /\ handler' = [handler EXCEPT ![s] = h]
  BY DEF Waive, Hold, Live, Inv, SessionInv, TypeInv, TypeOK
<1> HIDE DEF r
<1>2. Flushed(r) /\ Books(r)
  BY <1>1 DEF Agree
<1>3. Flushed(rt) /\ Books(rt)
  BY <1>1, <1>2 DEF Runtime, Books, Flushed, Reserved, Unpaid, Paid
<1> HIDE DEF rt
<1>4. Agree(r, h)
  BY <1>1, <1>2, <1>3 DEF Agree, Flushed
<1> HIDE DEF h
<1> QED BY <1>1, <1>4, OneHandler DEF r

LEMMA FinalizeSession ==
  ASSUME Inv, NEW s \in Calls, NEW status \in Final, Finalize(s, status)
  PROVE  SessionInv'
<1> DEFINE r == runtime[s]
           h == [op |-> "finalize", pc |-> "flush", rt |-> r, todo |-> 0,
                 reason |-> NoReason, status |-> status]
<1>1. /\ Agree(r, handler[s]) /\ r # NoRuntime
      /\ runtime' = runtime /\ handler' = [handler EXCEPT ![s] = h]
  BY DEF Finalize, Live, Inv, SessionInv
<1> HIDE DEF r
<1>2. Agree(r, h)
  BY <1>1 DEF Agree, Flushed
<1> HIDE DEF h
<1> QED BY <1>1, <1>2, OneHandler DEF r

\* One more second: what is not paid of it is a second not processed.
LEMMA ApplyNextSession ==
  ASSUME Inv, NEW s \in Calls, ApplyNext(s) PROVE SessionInv'
<1> DEFINE h == handler[s]
           r == runtime[s]
           result == ApplySecond(h.rt)
           done == result.error # NoReason \/ h.todo = 1
           rt == IF result.error # NoReason THEN result.rt
                 ELSE [result.rt EXCEPT !.proc = @ + 1]
           reason == IF result.error # NoReason THEN result.error
                     ELSE IF h.todo = 1 /\ MaxDurationSeconds(rt) <= 0
                     THEN "MAX_DURATION_REACHED" ELSE NoReason
           pc == IF done THEN "flush" ELSE "apply"
           new == [h EXCEPT !.rt = rt, !.reason = reason, !.todo = @ - 1, !.pc = pc]
<1>1. /\ Busy(s) /\ h.pc = "apply"
      /\ handler' = [handler EXCEPT ![s] = new] /\ runtime' = runtime
  BY DEF ApplyNext, At
<1>2. Agree(r, h) /\ h # Idle /\ h \in Handler /\ h.rt \in Runtime
  BY <1>1, BusyAgrees
<1>3. /\ r # NoRuntime /\ Flushed(r) /\ Books(r) /\ Books(h.rt)
      /\ Stopped(r) => h.rt.pendWallet = 0
      /\ r.term = NoReason /\ h.rt.waived = r.waived
  BY <1>1, <1>2 DEF Agree
<1> HIDE DEF h, r, reason
<1>4. /\ result.rt \in Runtime
      /\ Reserved(h.rt) => Reserved(result.rt)
      /\ result.error = NoReason => /\ result.rt.dur = h.rt.dur + 1
                                    /\ Unpaid(result.rt) = Unpaid(h.rt)
      /\ result.error # NoReason =>
           \/ result.rt = h.rt
           \/ result.rt.dur = h.rt.dur + 1 /\ Unpaid(result.rt) > Unpaid(h.rt)
      /\ h.rt.waived => result.rt.pendWallet = h.rt.pendWallet
      /\ result.rt.waived = h.rt.waived /\ result.rt.proc = h.rt.proc
  BY <1>2, ApplySecondEffect
<1> HIDE DEF result
<1>5. PICK moved : moved = [result.rt EXCEPT !.proc = @ + 1]
  OBVIOUS
<1>6. /\ moved.proc = result.rt.proc + 1 /\ moved.dur = result.rt.dur
      /\ moved.waived = result.rt.waived /\ moved.pendWallet = result.rt.pendWallet
      /\ Unpaid(moved) = Unpaid(result.rt)
      /\ Reserved(moved) <=> Reserved(result.rt)
  BY <1>4, <1>5 DEF Runtime, Unpaid, Paid, Reserved
<1>7. rt = IF result.error # NoReason THEN result.rt ELSE moved
  BY <1>5
<1> HIDE DEF rt
<1>8. /\ h.rt.dur \in Nat /\ h.rt.proc \in Nat /\ Unpaid(h.rt) \in Int
      /\ result.rt.dur \in Nat /\ result.rt.proc \in Nat /\ Unpaid(result.rt) \in Int
  BY <1>2, <1>4 DEF Runtime, Unpaid, Paid
<1>9. Books(rt)
  <2>1. CASE result.error = NoReason
    BY <1>3, <1>4, <1>6, <1>7, <1>8, <2>1 DEF Books
  <2>2. CASE result.error # NoReason
    BY <1>3, <1>4, <1>7, <1>8, <2>2 DEF Books
  <2> QED BY <2>1, <2>2
<1>10. rt.waived = r.waived /\ (Stopped(r) => rt.pendWallet = 0)
  BY <1>3, <1>4, <1>6, <1>7 DEF Stopped
<1>11. new.rt = rt /\ new.pc = pc
  BY <1>2 DEF Handler
<1> HIDE DEF new
<1>12. Agree(r, new)
  BY <1>3, <1>9, <1>10, <1>11 DEF Agree
<1> QED BY <1>1, <1>12, OneHandler DEF r

\* The write of a session to the account, and then to Redis.
LEMMA FlushSession ==
  ASSUME Inv, NEW s \in Calls, Flush(s) PROVE SessionInv'
<1> DEFINE h == handler[s]
           flushed == FlushedRuntime(account, h.rt)
           new == [h EXCEPT !.pc = "overwrite", !.rt = flushed]
<1>1. /\ Busy(s) /\ runtime' = runtime
      /\ handler' = [handler EXCEPT ![s] = new]
  BY DEF Flush, At, Inv, TypeInv, TypeOK
<1>2. Agree(runtime[s], h) /\ h # Idle /\ h \in Handler /\ h.rt \in Runtime
      /\ account \in Account
  BY <1>1, BusyAgrees DEF Inv, TypeInv, TypeOK
<1>3. Books(h.rt) /\ (runtime[s] # NoRuntime => Flushed(runtime[s]) /\ Books(runtime[s]))
  BY <1>2 DEF Agree
<1> HIDE DEF h
<1>4. Flushed(flushed) /\ Books(flushed)
  BY <1>2, <1>3, FlushEffect DEF Flushed, Books, Unpaid
<1> HIDE DEF flushed
<1>5. new.rt = flushed /\ new.pc = "overwrite"
  BY <1>2 DEF Handler
<1> HIDE DEF new
<1>6. Agree(runtime[s], new)
  BY <1>3, <1>4, <1>5, HandlerAgrees
<1> QED BY <1>1, <1>6, OneHandler

LEMMA OverwriteSession ==
  ASSUME Inv, NEW s \in Calls, Overwrite(s) PROVE SessionInv'
<1> DEFINE h == handler[s]
           pc == IF h.op = "finalize" THEN "settle" ELSE "store"
           new == [h EXCEPT !.pc = pc]
<1>1. /\ Busy(s) /\ h.pc = "overwrite" /\ runtime' = runtime
      /\ handler' = [handler EXCEPT ![s] = new]
  BY DEF Overwrite, Goto, At, Inv, TypeInv, TypeOK
<1>2. Agree(runtime[s], h) /\ h # Idle /\ h \in Handler
  BY <1>1, BusyAgrees
<1>3. /\ Books(h.rt) /\ Flushed(h.rt)
      /\ runtime[s] # NoRuntime => Flushed(runtime[s]) /\ Books(runtime[s])
  BY <1>1, <1>2 DEF Agree
<1> HIDE DEF h
<1>4. new.rt = h.rt /\ new.pc \in {"settle", "store"}
  BY <1>2 DEF Handler
<1> HIDE DEF new
<1>5. Agree(runtime[s], new)
  BY <1>3, <1>4, HandlerAgrees
<1> QED BY <1>1, <1>5, OneHandler

LEMMA StoreSession ==
  ASSUME Inv, NEW s \in Calls, Store(s) PROVE SessionInv'
<1> DEFINE h == handler[s]
           reason == IF h.reason # NoReason THEN h.reason
                     ELSE IF h.op = "advance" /\ h.rt.term = NoReason
                             /\ clock[s] >= h.rt.hardStop
                     THEN "MAX_DURATION_REACHED" ELSE NoReason
           rt == [h.rt EXCEPT !.term = reason]
           new == [h EXCEPT !.pc = "overwrite", !.rt = rt, !.reason = NoReason]
<1>1. /\ Busy(s) /\ h.pc = "store" /\ runtime' = [runtime EXCEPT ![s] = h.rt]
      /\ \/ handler' = [handler EXCEPT ![s] = Idle]
         \/ handler' = [handler EXCEPT ![s] = new]
  BY Zenon DEF Store, At
<1>2. Agree(runtime[s], h) /\ h # Idle /\ h \in Handler /\ h.rt \in Runtime
  BY <1>1, BusyAgrees
<1>3. Books(h.rt) /\ Flushed(h.rt)
  BY <1>1, <1>2 DEF Agree
<1> HIDE DEF h, reason
<1>4. Books(rt) /\ Flushed(rt)
  BY <1>2, <1>3 DEF Runtime, Books, Flushed, Reserved, Unpaid, Paid
<1> HIDE DEF rt
<1>5. new.rt = rt /\ new.pc = "overwrite"
  BY <1>2 DEF Handler
<1> HIDE DEF new
<1>6. Agree(h.rt, new)
  BY <1>3, <1>4, <1>5, HandlerAgrees
<1>7. Agree(h.rt, Idle)
  BY <1>6, IdleAgrees
<1> QED BY <1>1, <1>6, <1>7, OneCall

\* The settlement releases what is left of the reservation.
LEMMA SettleSession ==
  ASSUME Inv, NEW s \in Calls, Settle(s) PROVE SessionInv'
<1> DEFINE h == handler[s]
           released == [h.rt EXCEPT !.locked = NonNegative(@ - h.rt.avail),
                                    !.pendLocked = @ - h.rt.avail]
           next == IF h.rt.avail > 0 THEN FlushedRuntime(account, released) ELSE h.rt
           new == [h EXCEPT !.pc = "remove", !.rt = next]
<1>1. /\ Busy(s) /\ h.pc = "settle" /\ runtime' = runtime
      /\ handler' = [handler EXCEPT ![s].pc = "remove", ![s].rt = next]
  BY DEF Settle, At
<1>2. Agree(runtime[s], h) /\ h # Idle /\ h \in Handler /\ h.rt \in Runtime
  BY <1>1, BusyAgrees
<1>3. /\ Books(h.rt) /\ Flushed(h.rt)
      /\ runtime[s] # NoRuntime => Flushed(runtime[s]) /\ Books(runtime[s])
  BY <1>1, <1>2 DEF Agree
<1>4. released \in Runtime
  <2> HIDE DEF h
  <2> QED BY <1>2, ReleaseType
<1>5. Books(released)
  <2> HIDE DEF h
  <2> QED BY <1>2, <1>3 DEF Runtime, Books, Reserved, Unpaid, Paid
<1> HIDE DEF released
<1>6. account \in Account
  BY DEF Inv, TypeInv, TypeOK
<1>7. Flushed(next) /\ Books(next)
  BY <1>3, <1>4, <1>5, <1>6, FlushEffect DEF Flushed, Books, Unpaid
<1> HIDE DEF next
<1>8. handler' = [handler EXCEPT ![s] = new]
  BY <1>1 DEF Inv, TypeInv, TypeOK
<1> HIDE DEF h
<1>9. new.rt = next /\ new.pc = "remove"
  BY <1>2 DEF Handler
<1> HIDE DEF new
<1>10. Agree(runtime[s], new)
  BY <1>3, <1>7, <1>9, HandlerAgrees
<1> QED BY <1>1, <1>8, <1>10, OneHandler

LEMMA RemoveSession ==
  ASSUME Inv, NEW s \in Calls, Remove(s) PROVE SessionInv'
<1>1. /\ runtime' = [runtime EXCEPT ![s] = NoRuntime]
      /\ handler' = [handler EXCEPT ![s] = Idle]
  BY DEF Remove, Release
<1>2. Agree(NoRuntime, Idle)
  BY DEF Agree
<1> QED BY <1>1, <1>2, OneCall

\* A handler that dies leaves Redis as the last store left it.
LEMMA CrashSession ==
  ASSUME Inv, NEW s \in Calls, Crash(s) PROVE SessionInv'
<1>1. runtime' = runtime /\ handler' = [handler EXCEPT ![s] = Idle]
  BY DEF Crash, Release
<1>2. Agree(runtime[s], Idle)
  BY IdleAgrees DEF Inv, SessionInv
<1> QED BY <1>1, <1>2, OneHandler

\* Every step keeps the sessions consistent.
LEMMA SessionStep == Inv /\ [Next]_vars => Inv'
<1> SUFFICES ASSUME Inv, [Next]_vars PROVE SessionInv'
  BY TypeStep DEF Inv
<1>1. ASSUME NEW s \in Calls, Handle(s) PROVE SessionInv'
  BY <1>1, StartCountSession, StartReserveSession, ApplyNextSession, FlushSession,
     OverwriteSession, StoreSession, SettleSession, RemoveSession DEF Handle
<1>2. ASSUME NEW s \in Calls, StartRead(s) \/ Activate(s) \/ Advance(s) \/ Waive(s)
      PROVE  SessionInv'
  BY <1>2, StartReadSession, ActivateSession, AdvanceSession, WaiveSession
<1>3. ASSUME NEW s \in Calls, NEW status \in Final, Finalize(s, status)
      PROVE  SessionInv'
  BY <1>3, FinalizeSession
<1>4. ASSUME NEW s \in Calls, Crash(s) PROVE SessionInv'
  BY <1>4, CrashSession
<1>5. ASSUME UNCHANGED <<runtime, handler>> PROVE SessionInv'
  BY <1>5 DEF Inv, SessionInv
<1>6. ASSUME NEW s \in Calls, NEW status \in Statuses, SetStatus(s, status)
      PROVE  SessionInv'
  BY <1>5, <1>6 DEF SetStatus
<1>7. ASSUME NEW s \in Calls, Tick(s) PROVE SessionInv'
  BY <1>5, <1>7 DEF Tick
<1>8. ASSUME NEW a \in Adjustments, Adjust(a) PROVE SessionInv'
  BY <1>5, <1>8 DEF Adjust
<1>9. CASE SetBlocked \/ UNCHANGED vars
  BY <1>5, <1>9 DEF SetBlocked, vars
<1> QED BY <1>1, <1>2, <1>3, <1>4, <1>6, <1>7, <1>8, <1>9 DEF Next

\* No session exists at the start.
LEMMA InitSession == Init => Inv
<1> SUFFICES ASSUME Init PROVE SessionInv
  BY InitType DEF Inv
<1>1. \A s \in Calls : runtime[s] = NoRuntime /\ handler[s] = Idle
  BY DEF Init
<1> QED BY <1>1 DEF SessionInv, Agree

\* Inv holds in every reachable state.
LEMMA AlwaysInv == Spec => []Inv
  BY InitSession, SessionStep, PTL DEF Spec

---------------------------------------------------------------------------
\* What Redis holds never owes the account an unwritten change, so that any
\* instance may take the session over, however many handlers died before
\* (persistRuntimeState comes before persistRuntimeSession everywhere).
THEOREM RedisIsFlushed == Spec => []StoredRuntimeFlushed
<1>1. Inv => StoredRuntimeFlushed
  BY DEF Inv, SessionInv, Agree, StoredRuntimeFlushed, Live, Flushed
<1> QED BY <1>1, AlwaysInv, PTL

\* In every copy of a session the reservation is what was spent and what is
\* left, and the metered cost is paid in full but for a last second that is
\* not processed (applySecond, topUpReservation, and every write of the session).
THEOREM BooksBalance == Spec => []SessionBooks
<1>1. ASSUME Inv, NEW s \in Calls, NEW rt \in Copies(s)
      PROVE  /\ rt.total = rt.avail + rt.debit
             /\ \/ rt.cost = rt.creditsUsed + rt.debit + rt.accrual
                \/ rt.cost > rt.creditsUsed + rt.debit + rt.accrual /\ rt.dur > rt.proc
  <2>1. Books(rt)
    BY <1>1 DEF Copies, Live, Busy, Inv, SessionInv, Agree
  <2>2. rt \in Runtime
    BY <1>1, BusyHandler DEF Copies, Live, Inv, TypeInv, TypeOK
  <2>3. rt.cost \in Nat /\ rt.creditsUsed \in Nat /\ rt.debit \in Nat /\ rt.accrual \in Nat
    BY <2>2 DEF Runtime
  <2> QED BY <2>1, <2>3 DEF Books, Reserved, Unpaid, Paid
<1>2. Inv => SessionBooks
  BY <1>1 DEF SessionBooks
<1> QED BY <1>2, AlwaysInv, PTL

\* Once Redis says that a session was asked to end, or that its charges were
\* waived, nothing is taken out of the wallet for it any more: the handlers
\* that were under way began before (advanceRuntimeSession returns early,
\* applySecond charges nothing).
THEOREM NothingChargedAfterStop == Spec => NoChargeAfterStop
<1> DEFINE Kept == \A s \in Calls :
                     (Live(s) /\ (runtime[s].term # NoReason \/ runtime[s].waived))
                       => charged'[s] = charged[s]
<1>1. ASSUME Inv, [Next]_vars PROVE [Kept]_vars
  <2>1. ASSUME charged' = charged PROVE Kept
    BY <2>1
  <2>2. ASSUME NEW t \in Calls, Flush(t) PROVE Kept
    <3> SUFFICES ASSUME NEW s \in Calls, Live(s), Stopped(runtime[s])
                 PROVE  charged'[s] = charged[s]
      BY DEF Stopped
    <3>1. /\ charged \in [Calls -> Int]
          /\ charged' = [charged EXCEPT ![t] = @ - handler[t].rt.pendWallet]
      BY <1>1, <2>2 DEF Flush, Inv, TypeInv, TypeOK
    <3>2. s = t => handler[t].rt.pendWallet = 0
      BY <1>1, <2>2 DEF Flush, At, Busy, Live, Inv, SessionInv, Agree
    <3> QED BY <3>1, <3>2
  <2>3. ASSUME NEW t \in Calls, Handle(t) PROVE Kept
    BY <2>1, <2>2, <2>3 DEF Handle, StartCount, StartReserve, ApplyNext, Overwrite,
       Store, Settle, Remove, histories
  <2>4. ASSUME NEW t \in Calls, StartRead(t) \/ Activate(t) \/ Advance(t) \/ Waive(t)
        PROVE  Kept
    BY <2>1, <2>4 DEF StartRead, Activate, Advance, Waive, histories
  <2>5. ASSUME NEW t \in Calls, NEW status \in Final, Finalize(t, status) PROVE Kept
    BY <2>1, <2>5 DEF Finalize, histories
  <2>6. ASSUME NEW t \in Calls, NEW status \in Statuses, SetStatus(t, status) PROVE Kept
    BY <2>1, <2>6 DEF SetStatus, histories
  <2>7. ASSUME NEW t \in Calls, Tick(t) \/ Crash(t) PROVE Kept
    BY <2>1, <2>7 DEF Tick, Crash, histories
  <2>8. ASSUME NEW a \in Adjustments, Adjust(a) PROVE Kept
    BY <2>1, <2>8 DEF Adjust
  <2>9. CASE SetBlocked
    BY <2>1, <2>9 DEF SetBlocked
  <2> QED BY <1>1, <2>3, <2>4, <2>5, <2>6, <2>7, <2>8, <2>9 DEF Next
<1>2. Spec => [][Kept]_vars
  BY <1>1, AlwaysInv, PTL DEF Spec
<1> QED BY <1>2 DEF NoChargeAfterStop

---------------------------------------------------------------------------
(* What is true of all calls together, while no handler has died half way.

   Each call is unopened, opened or closed (Progress); an opened one has
   reserved what Redis and its handler say, counted the seconds of the clock
   and paid for them at the plan's price (Good, Fresh, Priced), and the ledger
   says the same of it (Tally).  A closed one has returned all it held.  Only
   the sum over all calls, Balanced, speaks of the account, and each step
   changes one summand of it.  A handler that dies loses the change it has not
   yet written, so everything here holds while crashes = 0. *)

---------------------------------------------------------------------------
(* The price *)

\* The price of n seconds of the call.
Worth(n) == PriceOf(n, RatePerMinute, PerSecond)

\* The quotient of a division is the one number between the two bounds.
LEMMA QuotientIs ==
  ASSUME NEW n \in Nat, NEW d \in Nat \ {0}, NEW q \in Nat,
         q * d <= n
  PROVE  q <= n \div d
  OBVIOUS

\* A division is monotone.
LEMMA QuotientGrows ==
  ASSUME NEW m \in Nat, NEW n \in Nat, m <= n, NEW d \in Nat \ {0}
  PROVE  m \div d \in Nat /\ n \div d \in Nat /\ m \div d <= n \div d
<1>1. m \div d \in Nat /\ n \div d \in Nat
  OBVIOUS
<1>2. (m \div d) * d <= m
  OBVIOUS
<1> DEFINE q == m \div d
<1>3. q * d <= n
  <2>1. q * d \in Int
    BY <1>1
  <2> QED BY <1>2, <2>1
<1> HIDE DEF q
<1>4. q <= n \div d
  BY <1>1, <1>3, QuotientIs DEF q
<1> QED BY <1>1, <1>4 DEF q

\* A product is monotone.
LEMMA ProductGrows ==
  ASSUME NEW m \in Nat, NEW n \in Nat, m <= n, NEW r \in Nat
  PROVE  m * r \in Nat /\ n * r \in Nat /\ m * r <= n * r
  OBVIOUS

\* Minutes begun: monotone in the seconds.
LEMMA MinutesUpGrows ==
  ASSUME NEW m \in Nat, NEW n \in Nat, m <= n
  PROVE  MinutesUp(m) \in Nat /\ MinutesUp(n) \in Nat /\ MinutesUp(m) <= MinutesUp(n)
<1>1. m + SecondsPerMinute - 1 \in Nat /\ n + SecondsPerMinute - 1 \in Nat
      /\ m + SecondsPerMinute - 1 <= n + SecondsPerMinute - 1
      /\ SecondsPerMinute \in Nat \ {0}
  BY SecondsPerMinuteAssumption
<1> QED BY <1>1, QuotientGrows DEF MinutesUp

\* A longer call costs no less.
LEMMA WorthGrows ==
  ASSUME NEW m \in Nat, NEW n \in Nat, m <= n
  PROVE  Worth(m) \in Nat /\ Worth(n) \in Nat /\ Worth(m) <= Worth(n)
<1>1. RatePerMinute \in Nat /\ SecondsPerMinute \in Nat \ {0}
  BY RuntimeAssumption, SecondsPerMinuteAssumption
<1>2. /\ m * RatePerMinute \in Nat /\ n * RatePerMinute \in Nat
      /\ m * RatePerMinute <= n * RatePerMinute
  BY <1>1, ProductGrows
<1>3. CASE PerSecond
  <2>1. /\ Worth(m) = (m * RatePerMinute) \div SecondsPerMinute
        /\ Worth(n) = (n * RatePerMinute) \div SecondsPerMinute
    BY <1>3 DEF Worth, PriceOf
  <2> QED BY <1>1, <1>2, <2>1, QuotientGrows
<1>4. CASE ~PerSecond
  <2>1. Worth(m) = MinutesUp(m) * RatePerMinute /\ Worth(n) = MinutesUp(n) * RatePerMinute
    BY <1>4 DEF Worth, PriceOf
  <2>2. MinutesUp(m) \in Nat /\ MinutesUp(n) \in Nat /\ MinutesUp(m) <= MinutesUp(n)
    BY MinutesUpGrows
  <2> QED BY <1>1, <2>1, <2>2, ProductGrows
<1> QED BY <1>3, <1>4

\* The metered cost and the carried remainder account for k seconds.
Tally(cost, rem, k) ==
    IF PerSecond
    THEN rem < SecondsPerMinute /\ cost * SecondsPerMinute + rem = k * RatePerMinute
    ELSE cost = MinutesUp(k) * RatePerMinute

\* A tally is the price of its seconds, the fraction left out.
LEMMA TallyWorth ==
  ASSUME NEW k \in Nat, NEW cost \in Nat, NEW rem \in Nat, Tally(cost, rem, k)
  PROVE  cost <= Worth(k)
<1>1. CASE PerSecond
  <2>1. /\ cost * SecondsPerMinute + rem = k * RatePerMinute
        /\ cost * SecondsPerMinute \in Nat /\ k * RatePerMinute \in Nat
    BY <1>1, RuntimeAssumption, SecondsPerMinuteAssumption DEF Tally
  <2>2. cost * SecondsPerMinute <= k * RatePerMinute
    BY <2>1
  <2> QED BY <1>1, <2>1, <2>2, QuotientIs, SecondsPerMinuteAssumption DEF Worth, PriceOf
<1>2. CASE ~PerSecond
  <2>1. cost = Worth(k)
    BY <1>2 DEF Tally, Worth, PriceOf
  <2> QED BY <2>1
<1> QED BY <1>1, <1>2

\* Charging one more second (calculateChargeIncrement) keeps the tally: the
\* remainder carries every fraction of a paisa, a minute is charged as it begins.
LEMMA TallyGrows ==
  ASSUME NEW k \in Nat, NEW cost \in Nat, NEW rem \in Nat, Tally(cost, rem, k),
         NEW inc, inc = ChargeIncrement(k + 1, RatePerMinute, rem, PerSecond, 1)
  PROVE  Tally(cost + inc.delta, inc.remainder, k + 1)
<1>0. RatePerMinute \in Nat /\ SecondsPerMinute \in Nat \ {0}
  BY RuntimeAssumption, SecondsPerMinuteAssumption
<1>1. CASE RatePerMinute = 0
  <2>1. inc.delta = 0 /\ inc.remainder = rem
    BY <1>1 DEF ChargeIncrement
  <2>2. (k + 1) * RatePerMinute = 0 /\ k * RatePerMinute = 0
        /\ MinutesUp(k) * RatePerMinute = 0 /\ MinutesUp(k + 1) * RatePerMinute = 0
    <3>1. MinutesUp(k) \in Nat /\ MinutesUp(k + 1) \in Nat
      BY MinutesUpInNat
    <3> QED BY <1>1, <3>1
  <2> QED BY <2>1, <2>2 DEF Tally
<1>2. CASE RatePerMinute > 0 /\ PerSecond
  <2> DEFINE acc == rem + RatePerMinute
             q == acc \div SecondsPerMinute
  <2>1. inc.delta = q /\ inc.remainder = acc - q * SecondsPerMinute
    <3>1. rem + RatePerMinute * 1 = acc
      BY <1>0
    <3> QED BY <1>0, <1>2, <3>1 DEF ChargeIncrement
  <2>2. rem < SecondsPerMinute /\ cost * SecondsPerMinute + rem = k * RatePerMinute
    BY <1>2 DEF Tally
  <2>3. acc \in Nat /\ q \in Nat /\ q * SecondsPerMinute \in Nat
    BY <1>0
  <2>4. acc - q * SecondsPerMinute < SecondsPerMinute
    <3> HIDE DEF acc
    <3> QED BY <1>0, <2>3
  <2>5. (cost + q) * SecondsPerMinute = cost * SecondsPerMinute + q * SecondsPerMinute
        /\ (k + 1) * RatePerMinute = k * RatePerMinute + RatePerMinute
    <3> HIDE DEF q
    <3> QED BY <1>0, <2>3
  <2> HIDE DEF q
  <2>6. cost * SecondsPerMinute \in Nat /\ k * RatePerMinute \in Nat
    BY <1>0
  <2>7. (cost + q) * SecondsPerMinute + (acc - q * SecondsPerMinute) = (k + 1) * RatePerMinute
    BY <1>0, <2>2, <2>3, <2>5, <2>6
  <2> QED BY <1>2, <2>1, <2>4, <2>7 DEF Tally
<1>3. CASE RatePerMinute > 0 /\ ~PerSecond
  <2> DEFINE up == MinutesUp(k + 1)
             before == MinutesUp(k)
  <2>1. up \in Nat /\ before \in Nat /\ before <= up
    BY MinutesUpGrows
  <2>2. inc.delta = NonNegative(up - before) * RatePerMinute
    <3>1. NonNegative((k + 1) - 1) = k
      BY DEF NonNegative
    <3>2. ~(RatePerMinute <= 0 \/ 1 <= 0 \/ k + 1 <= 0)
      BY <1>0, <1>3
    <3>3. inc = [delta |-> NonNegative(up - MinutesUp(NonNegative((k + 1) - 1))) * RatePerMinute,
                 remainder |-> 0]
      BY <1>3, <3>2 DEF ChargeIncrement
    <3> HIDE DEF up
    <3> QED BY <3>1, <3>3
  <2>3. cost = before * RatePerMinute
    BY <1>3 DEF Tally
  <2> HIDE DEF up, before
  <2>4. NonNegative(up - before) = up - before
    BY <2>1 DEF NonNegative
  <2>5. (up - before) * RatePerMinute = up * RatePerMinute - before * RatePerMinute
        /\ up * RatePerMinute \in Nat /\ before * RatePerMinute \in Nat
    BY <1>0, <2>1
  <2>6. cost + inc.delta = up * RatePerMinute
    BY <2>2, <2>3, <2>4, <2>5
  <2> QED BY <1>3, <2>6 DEF Tally, up
<1> QED BY <1>0, <1>1, <1>2, <1>3

\* The metered cost is the price of the metered seconds, until the charges
\* are waived; then it stays.
Priced(rt) ==
    /\ rt.freeUsed <= rt.dur
    /\ rt.cost <= Worth(rt.dur)
    /\ ~rt.waived => Tally(rt.cost, rt.rem, rt.dur - rt.freeUsed)

---------------------------------------------------------------------------
(* What one second does to a session's reservation and price *)

\* A session moves on: what it holds of the account's locked balance, what
\* was locked for it at the start and what it took from the wallet stay what
\* they were, written or not, and what it owes the wallet does not shrink.
Along(new, old) ==
    /\ new.avail - new.pendLocked = old.avail - old.pendLocked
    /\ new.total - new.topup = old.total - old.topup
    /\ new.debit + new.pendWallet = old.debit + old.pendWallet
    /\ new.pendWallet <= old.pendWallet
    /\ new.pendLocked - new.pendWallet >= old.pendLocked - old.pendWallet

\* The amounts of a session are numbers.
LEMMA Amounts ==
  ASSUME NEW rt \in Runtime
  PROVE  /\ rt.avail \in Nat /\ rt.total \in Nat /\ rt.topup \in Nat /\ rt.debit \in Nat
         /\ rt.pendWallet \in Int /\ rt.pendLocked \in Int
         /\ rt.dur \in Nat /\ rt.freeUsed \in Nat /\ rt.cost \in Nat /\ rt.rem \in Nat
         /\ rt.proc \in Nat /\ rt.accrual \in Nat /\ rt.creditsUsed \in Nat
         /\ rt.locked \in Nat /\ rt.wallet \in Nat
  BY DEF Runtime

LEMMA AlongAlong ==
  ASSUME NEW a \in Runtime, NEW b \in Runtime, NEW c \in Runtime, Along(c, b), Along(b, a)
  PROVE  Along(c, a)
<1>1. /\ a.avail \in Nat /\ a.total \in Nat /\ a.topup \in Nat /\ a.debit \in Nat
      /\ a.pendWallet \in Int /\ a.pendLocked \in Int
  BY Amounts
<1>2. /\ b.avail \in Nat /\ b.total \in Nat /\ b.topup \in Nat /\ b.debit \in Nat
      /\ b.pendWallet \in Int /\ b.pendLocked \in Int
  BY Amounts
<1>3. /\ c.avail \in Nat /\ c.total \in Nat /\ c.topup \in Nat /\ c.debit \in Nat
      /\ c.pendWallet \in Int /\ c.pendLocked \in Int
  BY Amounts
<1> QED BY <1>1, <1>2, <1>3 DEF Along

\* A step that leaves the amounts alone.
LEMMA AlongSame ==
  ASSUME NEW a \in Runtime, NEW b,
         b.avail = a.avail, b.total = a.total, b.topup = a.topup, b.debit = a.debit,
         b.pendWallet = a.pendWallet, b.pendLocked = a.pendLocked
  PROVE  Along(b, a)
<1>1. a.pendWallet \in Int /\ a.pendLocked \in Int
  BY Amounts
<1> QED BY <1>1 DEF Along

\* Paying for a second moves what is paid out of the hold and out of the
\* wallet alike (topUpReservation, applyCharges).
LEMMA PayAlong ==
  ASSUME NEW rt \in Runtime, NEW cost \in Nat, NEW new, new = Pay(rt, cost)
  PROVE  Along(new.rt, rt)
<1> DEFINE credited == SpendCredits(rt, cost)
           left     == cost - (credited.creditsUsed - rt.creditsUsed)
           prepaid  == IF BillingType = "postpaid" THEN credited
                       ELSE SpendReservation(credited, left)
           due      == left - (prepaid.debit - credited.debit)
           indebted == AccruePostpaid(prepaid, due)
<1>1. credited \in Runtime /\ left \in 0..cost /\ Along(credited, rt)
  <2>1. credited \in Runtime
    BY SpendCreditsType
  <2> HIDE DEF credited
  <2>2. /\ credited.creditsUsed - rt.creditsUsed \in 0..cost
        /\ credited.debit = rt.debit /\ credited.topup = rt.topup
        /\ credited.total = rt.total /\ credited.avail = rt.avail
        /\ credited.pendLocked = rt.pendLocked /\ credited.pendWallet = rt.pendWallet
    BY SpendCreditsEffect DEF credited
  <2>3. Along(credited, rt)
    BY <2>2, AlongSame
  <2> QED BY <2>1, <2>2, <2>3
<1> HIDE DEF credited, left
<1>2. prepaid \in Runtime /\ due \in 0..left /\ Along(prepaid, credited)
  <2>1. CASE BillingType = "postpaid"
    <3>1. prepaid = credited
      BY <2>1
    <3>2. credited.debit \in Nat /\ Along(credited, credited)
      BY <1>1, Amounts, AlongSame
    <3> QED BY <1>1, <3>1, <3>2
  <2>2. CASE BillingType # "postpaid"
    <3>1. prepaid = SpendReservation(credited, left) /\ left \in Nat
      BY <1>1, <2>2
    <3> HIDE DEF prepaid
    <3>2. prepaid \in Runtime
      BY <1>1, <3>1, SpendReservationType
    <3>3. /\ prepaid.debit - credited.debit \in 0..left
          /\ prepaid.total - credited.total
               = (prepaid.avail - credited.avail) + (prepaid.debit - credited.debit)
          /\ prepaid.topup - credited.topup = prepaid.total - credited.total
          /\ prepaid.topup - credited.topup \in Nat
          /\ prepaid.pendWallet = credited.pendWallet - (prepaid.debit - credited.debit)
          /\ prepaid.pendLocked - credited.pendLocked = prepaid.avail - credited.avail
      BY ZenonT(30), <1>1, <3>1, SpendReservationEffect
    <3>4. /\ prepaid.debit \in Nat /\ prepaid.total \in Nat /\ prepaid.avail \in Nat
          /\ prepaid.topup \in Nat /\ prepaid.pendWallet \in Int /\ prepaid.pendLocked \in Int
      BY <3>2, Amounts
    <3>5. /\ credited.debit \in Nat /\ credited.total \in Nat /\ credited.avail \in Nat
          /\ credited.topup \in Nat /\ credited.pendWallet \in Int
          /\ credited.pendLocked \in Int
      BY <1>1, Amounts
    <3>6. Along(prepaid, credited)
      BY <3>3, <3>4, <3>5 DEF Along
    <3> QED BY <1>1, <3>2, <3>3, <3>4, <3>5, <3>6
  <2> QED BY <2>1, <2>2
<1>3. new.rt = prepaid \/ new.rt = indebted
  BY DEF Pay, credited, left
<1> HIDE DEF prepaid, due
<1>4. indebted \in Runtime /\ Along(indebted, prepaid)
  <2>1. due \in Nat
    BY <1>1, <1>2
  <2>2. indebted \in Runtime
    BY <1>2, <2>1, AccrueType
  <2> HIDE DEF indebted
  <2>3. /\ indebted.debit = prepaid.debit /\ indebted.topup = prepaid.topup
        /\ indebted.total = prepaid.total /\ indebted.avail = prepaid.avail
        /\ indebted.pendLocked = prepaid.pendLocked
        /\ indebted.pendWallet = prepaid.pendWallet
    BY <1>2, <2>1, AccrueEffect DEF indebted
  <2> QED BY <1>2, <2>2, <2>3, AlongSame
<1> HIDE DEF indebted
<1> QED BY <1>1, <1>2, <1>3, <1>4, AlongAlong

\* One second of a call: the session moves on, its cost stays its price.
LEMMA SecondAlong ==
  ASSUME NEW rt \in Runtime, Priced(rt), NEW new, new = ApplySecond(rt)
  PROVE  /\ Along(new.rt, rt) /\ Priced(new.rt)
         /\ new.rt.dur = rt.dur \/ new.rt.dur = rt.dur + 1
<1> DEFINE counted == CountSecond(rt)
           delta   == NextIncrement(counted).delta
           metered == Meter(counted)
           paid    == Pay(metered, delta)
<1>0. rt.dur \in Nat /\ rt.freeUsed \in Nat /\ rt.cost \in Nat /\ rt.rem \in Nat
  BY Amounts
<1>1. CASE DailyLimit > 0 /\ rt.day >= DailyLimit
  <2>1. new.rt = rt
    BY <1>1 DEF ApplySecond
  <2> QED BY <2>1, AlongSame
<1> HIDE DEF counted
<1>2. /\ counted \in Runtime /\ counted.dur = rt.dur + 1
      /\ counted.free = rt.free /\ counted.cost = rt.cost /\ counted.topup = rt.topup
      /\ counted.total = rt.total /\ counted.avail = rt.avail /\ counted.debit = rt.debit
      /\ counted.pendWallet = rt.pendWallet /\ counted.pendLocked = rt.pendLocked
      /\ counted.waived = rt.waived /\ counted.freeUsed = rt.freeUsed
      /\ counted.rem = rt.rem
  BY CountSecondEffect DEF counted
<1>3. Along(counted, rt)
  BY <1>2, AlongSame
<1>4. /\ Worth(rt.dur) \in Nat /\ Worth(rt.dur + 1) \in Nat
      /\ Worth(rt.dur) <= Worth(rt.dur + 1)
  BY <1>0, WorthGrows
<1>5. rt.freeUsed <= rt.dur /\ rt.cost <= Worth(rt.dur)
      /\ (~rt.waived => Tally(rt.cost, rt.rem, rt.dur - rt.freeUsed))
  BY DEF Priced
<1>6. rt.cost <= Worth(rt.dur + 1) /\ rt.freeUsed <= rt.dur + 1
  BY <1>0, <1>4, <1>5
<1>7. CASE ~(DailyLimit > 0 /\ rt.day >= DailyLimit) /\ rt.waived
  <2>1. new.rt = counted
    BY <1>7 DEF ApplySecond, counted
  <2>2. Priced(counted)
    BY <1>2, <1>6, <1>7 DEF Priced
  <2> QED BY <1>2, <1>3, <2>1, <2>2
<1>8. CASE ~(DailyLimit > 0 /\ rt.day >= DailyLimit) /\ ~rt.waived /\ rt.free > 0
  <2>1. new.rt = UseFreeSecond(counted)
    BY <1>8 DEF ApplySecond, counted
  <2>2. PICK freed : freed = UseFreeSecond(counted)
    OBVIOUS
  <2>3. /\ freed \in Runtime /\ freed.dur = counted.dur /\ freed.topup = counted.topup
        /\ freed.cost = counted.cost /\ freed.rem = counted.rem
        /\ freed.total = counted.total /\ freed.avail = counted.avail
        /\ freed.debit = counted.debit /\ freed.waived = counted.waived
        /\ freed.pendWallet = counted.pendWallet /\ freed.pendLocked = counted.pendLocked
        /\ freed.freeUsed = counted.freeUsed + 1
    BY <1>2, <1>8, <2>2, UseFreeSecondEffect
  <2>4. Along(freed, rt)
    BY <1>2, <2>3, AlongSame
  <2>5. (rt.dur + 1) - (rt.freeUsed + 1) = rt.dur - rt.freeUsed
        /\ rt.freeUsed + 1 <= rt.dur + 1
    BY <1>0, <1>5
  <2>6. Priced(freed)
    BY <1>2, <1>5, <1>6, <1>8, <2>3, <2>5 DEF Priced
  <2> QED BY <1>2, <2>1, <2>2, <2>3, <2>4, <2>6
<1>9. CASE ~(DailyLimit > 0 /\ rt.day >= DailyLimit) /\ ~rt.waived /\ ~(rt.free > 0)
  <2>1. new = paid
    BY <1>9 DEF ApplySecond, counted
  <2>2. delta \in Nat
    BY <1>2, NextIncrementType
  <2> HIDE DEF metered
  <2>3. /\ metered \in Runtime /\ metered.dur = counted.dur /\ metered.topup = counted.topup
        /\ metered.cost = counted.cost + delta
        /\ metered.rem = NextIncrement(counted).remainder
        /\ metered.total = counted.total /\ metered.avail = counted.avail
        /\ metered.debit = counted.debit /\ metered.waived = counted.waived
        /\ metered.pendWallet = counted.pendWallet
        /\ metered.pendLocked = counted.pendLocked
        /\ metered.freeUsed = counted.freeUsed
    BY <1>2, MeterEffect DEF metered
  <2>4. Along(metered, rt)
    BY <1>2, <2>3, AlongSame
  <2>5. Tally(rt.cost + delta, NextIncrement(counted).remainder, (rt.dur - rt.freeUsed) + 1)
    <3>1. PICK k \in Nat : k = rt.dur - rt.freeUsed
      BY <1>0, <1>5
    <3>2. NonNegative(counted.dur - counted.freeUsed) = k + 1
      BY <1>0, <1>2, <3>1 DEF NonNegative
    <3>3. NextIncrement(counted) = ChargeIncrement(k + 1, RatePerMinute, rt.rem, PerSecond, 1)
      BY <1>2, <3>2 DEF NextIncrement
    <3>4. Tally(rt.cost, rt.rem, k)
      BY <1>5, <1>9, <3>1
    <3> QED BY <1>0, <3>1, <3>3, <3>4, TallyGrows
  <2>6. /\ (rt.dur - rt.freeUsed) + 1 \in Nat
        /\ (rt.dur - rt.freeUsed) + 1 <= rt.dur + 1
        /\ (rt.dur - rt.freeUsed) + 1 = (rt.dur + 1) - rt.freeUsed
        /\ rt.cost + delta \in Nat /\ NextIncrement(counted).remainder \in Nat
    BY <1>0, <1>2, <1>5, <2>2, NextIncrementType
  <2>7. rt.cost + delta <= Worth(rt.dur + 1)
    <3> DEFINE k == (rt.dur - rt.freeUsed) + 1
               n == rt.dur + 1
    <3>1. k \in Nat /\ n \in Nat /\ k <= n
      BY <1>0, <2>6
    <3> HIDE DEF k, n
    <3>2. Worth(k) \in Nat /\ Worth(n) \in Nat /\ Worth(k) <= Worth(n)
      BY <3>1, WorthGrows
    <3>3. rt.cost + delta <= Worth(k)
      BY <2>5, <2>6, <3>1, TallyWorth DEF k
    <3>4. rt.cost + delta <= Worth(n)
      BY <2>6, <3>2, <3>3
    <3> QED BY <3>4 DEF n
  <2> HIDE DEF delta, paid
  <2>8. paid.rt \in Runtime /\ SameCall(paid.rt, metered) /\ Along(paid.rt, metered)
    BY <2>2, <2>3, PayEffect, PayAlong DEF paid
  <2>9. Along(paid.rt, rt)
    BY <2>3, <2>4, <2>8, AlongAlong
  <2>10. /\ paid.rt.dur = rt.dur + 1 /\ paid.rt.freeUsed = rt.freeUsed
         /\ paid.rt.cost = rt.cost + delta /\ paid.rt.waived = rt.waived
         /\ paid.rt.rem = NextIncrement(counted).remainder
    BY <1>2, <2>3, <2>8 DEF SameCall
  <2>11. Priced(paid.rt)
    BY <1>6, <2>5, <2>6, <2>7, <2>10 DEF Priced
  <2> QED BY <2>1, <2>9, <2>10, <2>11
<1> QED BY <1>1, <1>7, <1>8, <1>9

---------------------------------------------------------------------------
(* How far each call has come *)

\* What is true of the latest copy of a session: it agrees with the entry
\* that opened the call, lock, with what was charged, chg, and with the
\* seconds since the answer, clk.
Good(rt, lock, chg, clk) ==
    /\ rt.avail - rt.pendLocked >= 0
    /\ rt.total - rt.topup = lock
    /\ rt.debit + rt.pendWallet = chg
    /\ rt.pendWallet <= 0 /\ rt.pendLocked >= rt.pendWallet
    /\ Priced(rt)
    /\ rt.dur <= clk
    /\ rt.active \/ rt.dur = 0

\* Nothing was reserved by a top-up, counted or charged.
Fresh(rt) ==
    /\ rt.total = rt.avail /\ rt.topup = 0 /\ rt.debit = 0
    /\ rt.pendWallet = 0 /\ rt.pendLocked = 0
    /\ rt.dur = 0 /\ rt.proc = 0 /\ rt.freeUsed = 0 /\ rt.cost = 0 /\ rt.rem = 0

Unopened(r, h, led, chg) ==
    /\ r = NoRuntime /\ chg = 0
    /\ \A t \in EntryTypes : led[t] = 0
    /\ h # Idle => h.op = "start" /\ h.pc \in {"count", "reserve"} /\ Fresh(h.rt)

OpenSteps == {"store", "apply", "flush", "overwrite", "settle"}

Opened(r, h, led, chg, clk) ==
    /\ led["wallet_lock_extension"] = 0
    /\ led["usage_debit"] = 0 /\ led["wallet_release"] = 0
    /\ h = Idle => /\ r # NoRuntime
                   /\ Good(r, led["wallet_lock"], chg, clk)
                   /\ r.term = NoReason => r.dur = r.proc
    /\ h # Idle => /\ h.pc \in OpenSteps
                   /\ Good(h.rt, led["wallet_lock"], chg, clk)
                   /\ h.rt.term = NoReason /\ h.reason = NoReason => h.rt.dur = h.rt.proc
                   /\ h.pc = "apply" => /\ h.reason = NoReason /\ h.rt.dur = h.rt.proc
                                        /\ h.rt.proc + h.todo <= clk /\ h.rt.active
                   /\ h.op = "finalize" \/ h.pc = "settle" => h.status \in Final

Closed(r, h, led, chg, clk) ==
    /\ led["wallet_lock"] + led["wallet_lock_extension"]
         = led["usage_debit"] + led["wallet_release"]
    /\ chg <= Worth(clk)
    /\ h = Idle => r = NoRuntime
    /\ h # Idle => h.pc = "remove"

Progress(r, h, phase, led, chg, clk) ==
    IF phase = "unopened" THEN Unopened(r, h, led, chg)
    ELSE IF phase = "closed" THEN Closed(r, h, led, chg, clk)
    ELSE Opened(r, h, led, chg, clk)

CallsInv ==
    \A s \in Calls :
        Progress(runtime[s], handler[s], Phase[s], ledger[s], charged[s], clock[s])

\* What the call holds, read off its runtime and its handler.
HeldBy(r, h) ==
    IF h # Idle /\ h.pc \in OpenSteps THEN h.rt.avail - h.rt.pendLocked
    ELSE IF h = Idle /\ r # NoRuntime THEN r.avail
    ELSE 0

HeldNow == [s \in Calls |-> HeldBy(runtime[s], handler[s])]

\* The account locks what its calls hold.
Balanced == account.locked = SumOver(HeldNow, Calls)

\* A record that has an endedAt is there.
Named == \A s \in ended : record[s] # "none"

Orderly == Inv /\ CallsInv /\ Named /\ Balanced

\* One call's phase, hold and charge move as the abstract ledger allows: from
\* phase p to q, hold g to h, charge c to d.
Moves(p, q, g, h, c, d) ==
    \/ p = "unopened" /\ q = "open" /\ h >= 0 /\ d = c
    \/ p = "open" /\ q = "open" /\ h >= 0 /\ d >= c /\ h + d >= g + c
    \/ p = "open" /\ q = "closed" /\ h = 0 /\ d = c
    \/ q = p /\ h = g /\ d = c

\* A step of call s alone.
Elsewhere(s) ==
    \A t \in Calls : t # s =>
        /\ runtime'[t] = runtime[t] /\ handler'[t] = handler[t]
        /\ Phase'[t] = Phase[t] /\ ledger'[t] = ledger[t]
        /\ charged'[t] = charged[t] /\ clock'[t] = clock[t]

StepOf(s) ==
    /\ Elsewhere(s)
    /\ Progress(runtime'[s], handler'[s], Phase'[s], ledger'[s], charged'[s], clock'[s])
    /\ account'.locked - account.locked
         = HeldBy(runtime'[s], handler'[s]) - HeldBy(runtime[s], handler[s])
    /\ Moves(Phase[s], Phase'[s], HeldBy(runtime[s], handler[s]),
             HeldBy(runtime'[s], handler'[s]), charged[s], charged'[s])

---------------------------------------------------------------------------
(* Facts about one call *)

\* A record of a session is not the absence of one.
LEMMA RuntimeIsOne == ASSUME NEW rt \in Runtime PROVE rt # NoRuntime
<1>1. SUFFICES ASSUME rt = NoRuntime PROVE FALSE
  OBVIOUS
<1>2. DOMAIN rt = {"none"}
  BY <1>1 DEF NoRuntime
<1>3. "avail" \in DOMAIN rt
  BY DEF Runtime
<1> QED BY <1>2, <1>3

LEMMA HandlerIsOne == ASSUME NEW h \in Handler PROVE h # Idle
<1>1. SUFFICES ASSUME h = Idle PROVE FALSE
  OBVIOUS
<1>2. DOMAIN h = {"op"}
  BY <1>1 DEF Idle
<1>3. "pc" \in DOMAIN h
  BY DEF Handler
<1> QED BY <1>2, <1>3

\* The names of the statuses in use.
LEMMA OpenNames ==
  /\ "none" \notin Final /\ "created" \notin Final /\ "active" \notin Final
  /\ \A q \in Statuses : q # "none" /\ q \notin Final
  BY EngineAssumption

\* A new session is priced.
LEMMA FreshPriced ==
  ASSUME NEW rt \in Runtime, Fresh(rt)
  PROVE  Priced(rt)
<1>1. SecondsPerMinute \in Nat \ {0} /\ RatePerMinute \in Nat
  BY SecondsPerMinuteAssumption, RuntimeAssumption
<1>2. MinutesUp(0) = 0
  <2>1. 0 + SecondsPerMinute - 1 \in Nat /\ 0 + SecondsPerMinute - 1 < SecondsPerMinute
    BY <1>1
  <2> QED BY <1>1, <2>1 DEF MinutesUp
<1>3. Tally(0, 0, 0)
  <2>1. 0 * RatePerMinute = 0 /\ 0 * SecondsPerMinute + 0 = 0
    BY <1>1
  <2> QED BY <1>1, <1>2, <2>1 DEF Tally
<1>4. 0 <= Worth(0)
  <2>1. Worth(0) \in Nat
    BY WorthGrows
  <2> QED BY <2>1
<1>5. 0 - 0 = 0
  OBVIOUS
<1> QED BY <1>3, <1>4, <1>5 DEF Priced, Fresh

\* What a call holds is a natural number.
LEMMA HeldByNat ==
  ASSUME NEW r, NEW h, NEW phase, NEW led, NEW chg, NEW clk,
         Progress(r, h, phase, led, chg, clk),
         r # NoRuntime => r \in Runtime, h # Idle => h.rt \in Runtime
  PROVE  HeldBy(r, h) \in Nat
<1>1. CASE h # Idle /\ h.pc \in OpenSteps
  <2>1. Opened(r, h, led, chg, clk)
    BY <1>1 DEF Progress, Unopened, Closed, OpenSteps
  <2>2. h.rt.avail - h.rt.pendLocked >= 0
    BY <1>1, <2>1 DEF Opened, Good
  <2>3. h.rt.avail \in Nat /\ h.rt.pendLocked \in Int
    BY <1>1, Amounts
  <2> QED BY <1>1, <2>2, <2>3 DEF HeldBy
<1>2. CASE h = Idle /\ r # NoRuntime
  <2>1. r.avail \in Nat
    BY <1>2, Amounts
  <2> QED BY <1>2, <2>1 DEF HeldBy
<1>3. CASE ~(h # Idle /\ h.pc \in OpenSteps) /\ ~(h = Idle /\ r # NoRuntime)
  BY <1>3 DEF HeldBy
<1> QED BY <1>1, <1>2, <1>3

LEMMA HeldNat ==
  ASSUME Inv, CallsInv, NEW s \in Calls
  PROVE  HeldBy(runtime[s], handler[s]) \in Nat
<1>1. Progress(runtime[s], handler[s], Phase[s], ledger[s], charged[s], clock[s])
  BY DEF CallsInv
<1>2. runtime[s] # NoRuntime => runtime[s] \in Runtime
  BY DEF Inv, TypeInv, TypeOK
<1>3. handler[s] # Idle => handler[s].rt \in Runtime
  BY BusyHandler DEF Inv, Busy
<1> QED BY <1>1, <1>2, <1>3, HeldByNat

\* The account's locked balance covers what each call holds of it.
LEMMA HeldCovered ==
  ASSUME Orderly, NEW s \in Calls
  PROVE  /\ HeldBy(runtime[s], handler[s]) \in Nat /\ account.locked \in Nat
         /\ HeldBy(runtime[s], handler[s]) <= account.locked
<1>1. \A t \in Calls : HeldBy(runtime[t], handler[t]) \in Nat
  BY HeldNat DEF Orderly
<1>2. \A t \in Calls : HeldNow[t] = HeldBy(runtime[t], handler[t])
  BY DEF HeldNow
<1>3. SumOver(HeldNow, Calls) \in Nat /\ HeldNow[s] <= SumOver(HeldNow, Calls)
  <2> DEFINE f == HeldNow
  <2>1. \A t \in Calls : f[t] \in Nat
    BY <1>1, <1>2
  <2> HIDE DEF f
  <2>2. SumOver(f, Calls) \in Nat /\ f[s] <= SumOver(f, Calls)
    BY <2>1, SumNat, EngineAssumption
  <2> QED BY <2>2 DEF f
<1> QED BY <1>1, <1>2, <1>3 DEF Orderly, Balanced

---------------------------------------------------------------------------
(* One lemma for each action of a call *)

\* What is known of a call before a step of it.
LEMMA CallNow ==
  ASSUME Orderly, NEW s \in Calls
  PROVE  /\ Progress(runtime[s], handler[s], Phase[s], ledger[s], charged[s], clock[s])
         /\ Agree(runtime[s], handler[s])
         /\ runtime[s] # NoRuntime => runtime[s] \in Runtime
         /\ handler[s] # Idle => /\ handler[s] \in Handler /\ handler[s].rt \in Runtime
                                 /\ handler[s].todo \in Nat
                                 /\ handler[s].status \in Final \cup {NoStatus}
         /\ ledger[s] \in [EntryTypes -> Nat] /\ charged[s] \in Int /\ clock[s] \in Nat
         /\ account \in Account
         /\ Phase[s] \in {"unopened", "open", "closed"}
<1>1. Progress(runtime[s], handler[s], Phase[s], ledger[s], charged[s], clock[s])
      /\ Agree(runtime[s], handler[s])
  BY DEF Orderly, CallsInv, Inv, SessionInv
<1>2. handler[s] # Idle => /\ handler[s] \in Handler /\ handler[s].rt \in Runtime
                           /\ handler[s].todo \in Nat
                           /\ handler[s].status \in Final \cup {NoStatus}
  BY BusyHandler DEF Orderly, Inv, Busy
<1>3. /\ runtime[s] # NoRuntime => runtime[s] \in Runtime
      /\ ledger[s] \in [EntryTypes -> Nat] /\ charged[s] \in Int /\ clock[s] \in Nat
      /\ account \in Account
  BY DEF Orderly, Inv, TypeInv, TypeOK
<1>4. Phase[s] \in {"unopened", "open", "closed"}
  BY DEF Phase
<1> QED BY <1>1, <1>2, <1>3, <1>4

\* The variables of the calls are functions on them.
Functions ==
    /\ runtime \in [Calls -> Runtime \cup {NoRuntime}]
    /\ handler \in [Calls -> Handler \cup {Idle}]
    /\ Phase \in [Calls -> {"unopened", "open", "closed"}]
    /\ ledger \in [Calls -> [EntryTypes -> Nat]]
    /\ charged \in [Calls -> Int] /\ clock \in [Calls -> Nat]

LEMMA AreFunctions == ASSUME Orderly PROVE Functions
<1>1. Phase \in [Calls -> {"unopened", "open", "closed"}]
  BY DEF Phase
<1> QED BY <1>1 DEF Functions, Orderly, Inv, TypeInv, TypeOK

\* How the phases follow the records: only a settlement closes a call, and a
\* status opens the one that was not.
LEMMA PhaseKept == ASSUME UNCHANGED <<record, ended>> PROVE Phase' = Phase
  BY DEF Phase

LEMMA PhaseUnopened ==
  ASSUME NEW s \in Calls, record[s] = "none" PROVE Phase[s] = "unopened"
  BY DEF Phase

LEMMA PhaseGoesOn ==
  ASSUME Orderly, NEW s \in Calls, NEW status, status # "none",
         record' = [record EXCEPT ![s] = status], ended' = ended
  PROVE  Phase' = [Phase EXCEPT ![s] = IF Phase[s] = "unopened" THEN "open" ELSE Phase[s]]
<1>1. record \in [Calls -> {"none", "created", "ringing", "answered", "active"} \cup Final]
  BY DEF Orderly, Inv, TypeInv, TypeOK
<1>2. record[s] = "none" => s \notin ended
  BY DEF Orderly, Named
<1> QED BY <1>1, <1>2 DEF Phase

LEMMA PhaseCloses ==
  ASSUME Orderly, NEW s \in Calls, NEW status, status # "none",
         record' = [record EXCEPT ![s] = status], ended' = ended \cup {s}
  PROVE  Phase' = [Phase EXCEPT ![s] = "closed"]
<1>1. record \in [Calls -> {"none", "created", "ringing", "answered", "active"} \cup Final]
  BY DEF Orderly, Inv, TypeInv, TypeOK
<1> QED BY <1>1 DEF Phase

\* A step that writes only a handler.
LEMMA HandlerElsewhere ==
  ASSUME Functions, NEW s \in Calls, NEW h, handler' = [handler EXCEPT ![s] = h],
         UNCHANGED <<runtime, Phase, ledger, charged, clock>>
  PROVE  /\ Elsewhere(s) /\ handler'[s] = h /\ runtime'[s] = runtime[s]
         /\ Phase'[s] = Phase[s] /\ ledger'[s] = ledger[s]
         /\ charged'[s] = charged[s] /\ clock'[s] = clock[s]
  BY DEF Functions, Elsewhere

\* A step that writes only a handler, of a call that holds as much as before.
LEMMA HandlerStep ==
  ASSUME Orderly, NEW s \in Calls, NEW h, handler' = [handler EXCEPT ![s] = h],
         UNCHANGED <<runtime, Phase, ledger, charged, clock>>,
         account'.locked = account.locked,
         Progress(runtime[s], h, Phase[s], ledger[s], charged[s], clock[s]),
         HeldBy(runtime[s], h) = HeldBy(runtime[s], handler[s])
  PROVE  StepOf(s)
<1>1. /\ Elsewhere(s) /\ handler'[s] = h /\ runtime'[s] = runtime[s]
      /\ Phase'[s] = Phase[s] /\ ledger'[s] = ledger[s]
      /\ charged'[s] = charged[s] /\ clock'[s] = clock[s]
  BY AreFunctions, HandlerElsewhere
<1>2. HeldBy(runtime[s], handler[s]) \in Nat /\ account.locked \in Nat
  BY HeldCovered
<1> QED BY <1>1, <1>2 DEF StepOf, Moves

LEMMA StartReadStep ==
  ASSUME Orderly, NEW s \in Calls, StartRead(s) PROVE StepOf(s)
<1> DEFINE rt == NewRuntime(account)
           h == [op |-> "start", pc |-> "count", rt |-> rt, todo |-> 0,
                 reason |-> NoReason, status |-> NoStatus]
<1>1. /\ Phase[s] = "unopened" /\ handler[s] = Idle
      /\ handler' = [handler EXCEPT ![s] = h]
      /\ UNCHANGED <<account, runtime, Phase, ledger, charged, clock>>
  BY PhaseKept, PhaseUnopened DEF StartRead, Hold, Busy, histories
<1>2. Fresh(rt)
  BY DEF NewRuntime, Fresh
<1> HIDE DEF rt
<1>3. h.op = "start" /\ h.pc = "count" /\ h.rt = rt
  OBVIOUS
<1>4. h # Idle
  <2>1. "pc" \in DOMAIN h
    OBVIOUS
  <2> HIDE DEF h
  <2> QED BY <2>1 DEF Idle
<1> HIDE DEF h
<1>5. Unopened(runtime[s], handler[s], ledger[s], charged[s])
  BY <1>1, CallNow DEF Progress
<1>6. Unopened(runtime[s], h, ledger[s], charged[s])
  BY <1>2, <1>3, <1>5 DEF Unopened
<1>7. Progress(runtime[s], h, Phase[s], ledger[s], charged[s], clock[s])
  BY <1>1, <1>6 DEF Progress
<1>8. HeldBy(runtime[s], h) = 0 /\ HeldBy(runtime[s], handler[s]) = 0
  BY <1>1, <1>3, <1>4, <1>5 DEF HeldBy, Unopened, OpenSteps
<1> QED BY <1>1, <1>7, <1>8, HandlerStep

\* A call whose handler counts or reserves was not opened.
LEMMA StartingCall ==
  ASSUME Orderly, NEW s \in Calls, Busy(s), handler[s].pc \in {"count", "reserve"}
  PROVE  /\ Phase[s] = "unopened" /\ handler[s] # Idle
         /\ Unopened(runtime[s], handler[s], ledger[s], charged[s])
         /\ HeldBy(runtime[s], handler[s]) = 0
<1>1. Progress(runtime[s], handler[s], Phase[s], ledger[s], charged[s], clock[s])
      /\ handler[s] # Idle
  BY CallNow DEF Busy
<1>2. Phase[s] = "unopened" /\ Unopened(runtime[s], handler[s], ledger[s], charged[s])
  BY <1>1 DEF Progress, Opened, Closed, OpenSteps
<1> QED BY <1>1, <1>2 DEF HeldBy, OpenSteps

\* A handler gives up: nothing was opened.
LEMMA GiveUpStep ==
  ASSUME Orderly, NEW s \in Calls, Busy(s), handler[s].pc \in {"count", "reserve"},
         handler' = [handler EXCEPT ![s] = Idle],
         UNCHANGED <<account, runtime, Phase, ledger, charged, clock>>
  PROVE  StepOf(s)
<1>1. /\ Phase[s] = "unopened" /\ Unopened(runtime[s], handler[s], ledger[s], charged[s])
      /\ HeldBy(runtime[s], handler[s]) = 0
  BY StartingCall
<1>2. Unopened(runtime[s], Idle, ledger[s], charged[s])
  BY <1>1 DEF Unopened
<1>3. Progress(runtime[s], Idle, Phase[s], ledger[s], charged[s], clock[s])
  BY <1>1, <1>2 DEF Progress
<1>4. HeldBy(runtime[s], Idle) = 0
  BY <1>1 DEF HeldBy, Unopened
<1> QED BY <1>1, <1>3, <1>4, HandlerStep

LEMMA StartCountStep ==
  ASSUME Orderly, NEW s \in Calls, StartCount(s) PROVE StepOf(s)
<1> DEFINE rt == handler[s].rt
           reserve == InitialReserve(NonNegative(rt.wallet - rt.locked))
           reserved == [rt EXCEPT !.total = reserve, !.avail = reserve]
           h == [handler[s] EXCEPT !.pc = "reserve", !.rt = reserved]
<1>1. /\ Busy(s) /\ handler[s].pc = "count"
      /\ UNCHANGED <<account, runtime, Phase, ledger, charged, clock>>
      /\ handler' = [handler EXCEPT ![s] = Idle] \/ handler' = [handler EXCEPT ![s] = h]
  BY PhaseKept DEF StartCount, At, histories
<1>2. /\ Phase[s] = "unopened" /\ handler[s] # Idle
      /\ Unopened(runtime[s], handler[s], ledger[s], charged[s])
      /\ HeldBy(runtime[s], handler[s]) = 0
  BY <1>1, StartingCall
<1>3. handler[s] \in Handler /\ rt \in Runtime
  BY <1>2, CallNow
<1> HIDE DEF reserve
<1>4. Fresh(reserved)
  <2>1. Fresh(rt)
    BY <1>2 DEF Unopened
  <2> HIDE DEF rt
  <2> QED BY <1>3, <2>1 DEF Fresh, Runtime
<1> HIDE DEF reserved
<1>5. h.op = handler[s].op /\ h.pc = "reserve" /\ h.rt = reserved /\ h # Idle
  <2>1. h.op = handler[s].op /\ h.pc = "reserve" /\ h.rt = reserved
    BY <1>3 DEF Handler
  <2>2. "pc" \in DOMAIN h
    BY <1>3 DEF Handler
  <2> HIDE DEF h
  <2> QED BY <2>1, <2>2 DEF Idle
<1> HIDE DEF h
<1>6. Unopened(runtime[s], h, ledger[s], charged[s])
  BY <1>2, <1>4, <1>5 DEF Unopened
<1>7. Progress(runtime[s], h, Phase[s], ledger[s], charged[s], clock[s])
  BY <1>2, <1>6 DEF Progress
<1>8. HeldBy(runtime[s], h) = 0
  BY <1>5 DEF HeldBy, OpenSteps
<1> QED BY <1>1, <1>2, <1>7, <1>8, HandlerStep, GiveUpStep

LEMMA StartReserveStep ==
  ASSUME Orderly, NEW s \in Calls, StartReserve(s) PROVE StepOf(s)
<1> DEFINE rt == handler[s].rt
           locked == [rt EXCEPT !.wallet = account.wallet,
                                !.locked = account.locked + rt.total]
           next == IF rt.total > 0 THEN locked ELSE rt
           h == [handler[s] EXCEPT !.pc = "store", !.rt = next]
<1>1. /\ Busy(s) /\ handler[s].pc = "reserve"
      /\ UNCHANGED <<runtime, clock, charged>>
      /\ \/ /\ handler' = [handler EXCEPT ![s] = Idle]
            /\ UNCHANGED <<account, Phase, ledger>>
         \/ /\ ended' = ended
            /\ account' = [account EXCEPT !.locked = @ + rt.total]
            /\ record' = [record EXCEPT ![s] = "created"]
            /\ ledger' = [ledger EXCEPT ![s]["wallet_lock"] = @ + rt.total]
            /\ handler' = [handler EXCEPT ![s].pc = "store", ![s].rt = next]
  BY PhaseKept DEF StartReserve, At, Release, histories
<1>2. /\ Phase[s] = "unopened" /\ handler[s] # Idle
      /\ Unopened(runtime[s], handler[s], ledger[s], charged[s])
      /\ HeldBy(runtime[s], handler[s]) = 0
  BY <1>1, StartingCall
<1>3. /\ handler[s] \in Handler /\ rt \in Runtime /\ account \in Account
      /\ ledger[s] \in [EntryTypes -> Nat] /\ clock[s] \in Nat
  BY <1>2, CallNow
<1>4. CASE handler' = [handler EXCEPT ![s] = Idle] /\ UNCHANGED <<account, Phase, ledger>>
  BY <1>1, <1>4, GiveUpStep
<1>5. CASE /\ account' = [account EXCEPT !.locked = @ + rt.total] /\ ended' = ended
           /\ record' = [record EXCEPT ![s] = "created"]
           /\ ledger' = [ledger EXCEPT ![s]["wallet_lock"] = @ + rt.total]
           /\ handler' = [handler EXCEPT ![s].pc = "store", ![s].rt = next]
  <2> DEFINE led == [ledger[s] EXCEPT !["wallet_lock"] = @ + rt.total]
  <2>1. ledger' = [ledger EXCEPT ![s] = led] /\ handler' = [handler EXCEPT ![s] = h]
    BY <1>5, AreFunctions DEF Functions
  <2>2. h.op = handler[s].op /\ h.pc = "store" /\ h.rt = next /\ h # Idle
    <3>1. h.op = handler[s].op /\ h.pc = "store" /\ h.rt = next
      BY <1>3 DEF Handler
    <3>2. "pc" \in DOMAIN h
      BY <1>3 DEF Handler
    <3> HIDE DEF h
    <3> QED BY <3>1, <3>2 DEF Idle
  <2>3. Fresh(next) /\ next \in Runtime /\ next.total = rt.total /\ next.waived = rt.waived
    <3>1. Fresh(rt)
      BY <1>2 DEF Unopened
    <3>2. account.wallet \in Nat /\ account.locked + rt.total \in Nat
      BY <1>3, Amounts DEF Account
    <3> HIDE DEF rt
    <3>3. locked \in Runtime
      BY <1>3, <3>2, Zenon DEF Runtime
    <3>4. Fresh(locked) /\ locked.total = rt.total /\ locked.waived = rt.waived
      BY <1>3, <3>1 DEF Runtime, Fresh
    <3> QED BY <1>3, <3>1, <3>3, <3>4
  <2>4. /\ account'.locked = account.locked + rt.total /\ account.locked \in Nat
        /\ rt.total \in Nat
    BY <1>3, <1>5, Amounts DEF Account
  <2>5. /\ Elsewhere(s) /\ handler'[s] = h /\ runtime'[s] = runtime[s]
        /\ Phase'[s] = "open" /\ ledger'[s] = led
        /\ charged'[s] = charged[s] /\ clock'[s] = clock[s]
    <3>1. Phase' = [Phase EXCEPT ![s] = "open"]
      BY <1>2, <1>5, PhaseGoesOn
    <3> QED BY <1>1, <2>1, <3>1, AreFunctions DEF Functions, Elsewhere
  <2>6. /\ led["wallet_lock"] = rt.total /\ led["wallet_lock_extension"] = 0
        /\ led["usage_debit"] = 0 /\ led["wallet_release"] = 0
    <3> HIDE DEF rt
    <3> QED BY <1>2, <1>3, <2>4 DEF Unopened, EntryTypes
  <2> HIDE DEF next, h, led, rt
  <2>7. Good(next, rt.total, 0, clock[s])
    <3>1. Priced(next)
      BY <2>3, FreshPriced
    <3>2. next.avail = rt.total /\ next.avail \in Nat
      BY <2>3, <2>4 DEF Fresh
    <3> QED BY <1>3, <2>3, <2>4, <3>1, <3>2 DEF Good, Fresh
  <2>8. Opened(runtime[s], h, led, charged[s], clock[s])
    <3>1. charged[s] = 0 /\ h.op = "start"
      BY <1>2, <2>2 DEF Unopened
    <3>2. next.dur = next.proc
      BY <2>3 DEF Fresh
    <3> QED BY <2>2, <2>6, <2>7, <3>1, <3>2 DEF Opened, OpenSteps
  <2>9. Progress(runtime[s], h, "open", led, charged[s], clock[s])
    BY <2>8 DEF Progress
  <2>10. HeldBy(runtime[s], h) = rt.total
    <3>1. next.avail = rt.total /\ next.pendLocked = 0
      BY <2>3 DEF Fresh
    <3> QED BY <2>2, <2>4, <3>1 DEF HeldBy, OpenSteps
  <2> QED BY <1>2, <2>4, <2>5, <2>9, <2>10 DEF StepOf, Moves
<1> QED BY <1>1, <1>4, <1>5

---------------------------------------------------------------------------
(* The handlers that read a live session *)

\* The fields the books of a call are made of, without what is not written yet
\* and with it.
SameMeter(b, a) ==
    /\ b.avail = a.avail /\ b.total = a.total /\ b.topup = a.topup /\ b.debit = a.debit
    /\ b.freeUsed = a.freeUsed /\ b.cost = a.cost /\ b.rem = a.rem
    /\ b.waived = a.waived /\ b.dur = a.dur
SameBooks(b, a) ==
    SameMeter(b, a) /\ b.pendWallet = a.pendWallet /\ b.pendLocked = a.pendLocked

LEMMA GoodSame ==
  ASSUME NEW a, NEW b, SameBooks(b, a), b.active \/ b.active = a.active,
         NEW lock, NEW chg, NEW clk, Good(a, lock, chg, clk)
  PROVE  Good(b, lock, chg, clk)
  BY DEF SameBooks, SameMeter, Good, Priced

\* An idle call in Redis is an open one, and nothing of it is unwritten.
LEMMA LiveCall ==
  ASSUME Orderly, NEW s \in Calls, ~Busy(s), Live(s)
  PROVE  /\ Phase[s] = "open"
         /\ handler[s] = Idle /\ runtime[s] # NoRuntime /\ runtime[s] \in Runtime
         /\ Opened(runtime[s], Idle, ledger[s], charged[s], clock[s])
         /\ Flushed(runtime[s]) /\ Books(runtime[s])
         /\ HeldBy(runtime[s], handler[s]) = runtime[s].avail
<1>1. /\ Phase[s] \in {"unopened", "open", "closed"}
      /\ handler[s] = Idle /\ runtime[s] # NoRuntime /\ runtime[s] \in Runtime
      /\ Progress(runtime[s], handler[s], Phase[s], ledger[s], charged[s], clock[s])
      /\ Agree(runtime[s], handler[s])
  BY CallNow DEF Busy, Live
<1>2. /\ Phase[s] = "open"
      /\ Opened(runtime[s], Idle, ledger[s], charged[s], clock[s])
  BY <1>1 DEF Progress, Unopened, Closed
<1>3. Flushed(runtime[s]) /\ Books(runtime[s])
  BY <1>1 DEF Agree
<1>4. HeldBy(runtime[s], handler[s]) = runtime[s].avail
  BY <1>1 DEF HeldBy
<1> QED BY <1>1, <1>2, <1>3, <1>4

\* What a handler that begins with a live session holds of it.
Begun(r, h, clk) ==
    /\ h # Idle /\ h.pc \in OpenSteps /\ SameBooks(h.rt, r)
    /\ h.rt.active \/ h.rt.active = r.active
    /\ h.rt.term = NoReason /\ h.reason = NoReason => h.rt.dur = h.rt.proc
    /\ h.pc = "apply" => /\ h.reason = NoReason /\ h.rt.dur = h.rt.proc
                         /\ h.rt.proc + h.todo <= clk /\ h.rt.active
    /\ h.op = "finalize" \/ h.pc = "settle" => h.status \in Final

LEMMA BegunOpened ==
  ASSUME NEW r \in Runtime, NEW h, NEW led, NEW chg, NEW clk, r # NoRuntime, Flushed(r),
         Opened(r, Idle, led, chg, clk), Begun(r, h, clk)
  PROVE  Opened(r, h, led, chg, clk) /\ HeldBy(r, h) = r.avail
<1>1. Good(r, led["wallet_lock"], chg, clk)
  BY DEF Opened
<1>2. Good(h.rt, led["wallet_lock"], chg, clk)
  BY <1>1, GoodSame DEF Begun
<1>3. h.rt.avail = r.avail /\ h.rt.pendLocked = 0 /\ r.avail \in Nat
  BY Amounts DEF Begun, SameBooks, SameMeter, Flushed
<1> QED BY <1>2, <1>3 DEF Opened, Begun, HeldBy

\* A handler begins, and writes nothing yet but its own copy.
LEMMA BeginStep ==
  ASSUME Orderly, NEW s \in Calls, ~Busy(s), Live(s), NEW h, Begun(runtime[s], h, clock[s]),
         handler' = [handler EXCEPT ![s] = h],
         UNCHANGED <<account, runtime, Phase, ledger, charged, clock>>
  PROVE  StepOf(s)
<1>1. /\ Phase[s] = "open"
      /\ Opened(runtime[s], h, ledger[s], charged[s], clock[s])
      /\ HeldBy(runtime[s], h) = HeldBy(runtime[s], handler[s])
  BY LiveCall, BegunOpened
<1>2. Progress(runtime[s], h, Phase[s], ledger[s], charged[s], clock[s])
  BY <1>1 DEF Progress
<1> QED BY <1>1, <1>2, HandlerStep

LEMMA ActivateStep ==
  ASSUME Orderly, NEW s \in Calls, Activate(s) PROVE StepOf(s)
<1> DEFINE r == runtime[s]
           answered == [r EXCEPT !.active = TRUE, !.proc = 0]
           limit == MaxDurationSeconds(answered)
           refused == [answered EXCEPT !.term = "INSUFFICIENT_BALANCE"]
           limited == [answered EXCEPT !.hardStop = limit]
           h(pc, rt) == [op |-> "activate", pc |-> pc, rt |-> rt, todo |-> 0,
                         reason |-> NoReason, status |-> NoStatus]
<1>1. /\ ~Busy(s) /\ Live(s) /\ ~r.active
      /\ UNCHANGED <<account, runtime, ledger, charged, clock>>
      /\ \/ handler' = [handler EXCEPT ![s] = h("overwrite", refused)] /\ Phase' = Phase
         \/ /\ handler' = [handler EXCEPT ![s] = h("store", limited)]
            /\ record' = [record EXCEPT ![s] = "active"]
      /\ ended' = ended
  BY PhaseKept DEF Activate, Hold, histories
<1>2. /\ Phase[s] = "open" /\ r # NoRuntime
      /\ r \in Runtime /\ Opened(r, Idle, ledger[s], charged[s], clock[s]) /\ Flushed(r)
      /\ HeldBy(r, handler[s]) = r.avail
  BY <1>1, LiveCall
<1>3. r.dur = 0
  BY <1>1, <1>2 DEF Opened, Good
<1>4. runtime[s] = r
  OBVIOUS
<1> HIDE DEF r, limit
<1>5. /\ SameBooks(refused, r) /\ refused.active /\ refused.proc = 0
      /\ SameBooks(limited, r) /\ limited.active /\ limited.proc = 0
  BY <1>2 DEF Runtime, SameBooks, SameMeter
<1> HIDE DEF refused, limited
<1>6. \A pc, rt : /\ h(pc, rt) # Idle /\ h(pc, rt).pc = pc /\ h(pc, rt).rt = rt
                  /\ h(pc, rt).op = "activate"
  <2> SUFFICES ASSUME NEW pc, NEW rt PROVE h(pc, rt) # Idle
    OBVIOUS
  <2>1. "pc" \in DOMAIN h(pc, rt)
    OBVIOUS
  <2> HIDE DEF h
  <2> QED BY <2>1 DEF Idle
<1> HIDE DEF h
<1>7. Begun(r, h("overwrite", refused), clock[s]) /\ Begun(r, h("store", limited), clock[s])
  BY <1>3, <1>5, <1>6 DEF Begun, OpenSteps, SameBooks, SameMeter
<1>8. CASE handler' = [handler EXCEPT ![s] = h("overwrite", refused)] /\ Phase' = Phase
  BY <1>1, <1>4, <1>7, <1>8, BeginStep
<1>9. CASE /\ handler' = [handler EXCEPT ![s] = h("store", limited)]
           /\ record' = [record EXCEPT ![s] = "active"]
  <2> DEFINE g == h("store", limited)
  <2>1. /\ Elsewhere(s) /\ handler'[s] = g /\ runtime'[s] = r
        /\ Phase'[s] = "open" /\ ledger'[s] = ledger[s]
        /\ charged'[s] = charged[s] /\ clock'[s] = clock[s] /\ account' = account
    <3>1. Phase' = [Phase EXCEPT ![s] = "open"]
      BY <1>1, <1>2, <1>9, PhaseGoesOn
    <3> QED BY <1>1, <1>4, <1>9, <3>1, AreFunctions DEF Functions, Elsewhere
  <2>2. Begun(r, g, clock[s])
    BY <1>7
  <2> HIDE DEF g
  <2>3. Opened(r, g, ledger[s], charged[s], clock[s]) /\ HeldBy(r, g) = r.avail
    BY <1>2, <2>2, BegunOpened
  <2>4. Progress(r, g, "open", ledger[s], charged[s], clock[s])
    BY <2>3 DEF Progress
  <2>5. r.avail \in Nat /\ account.locked \in Nat /\ charged[s] \in Int
    BY <1>2, Amounts, CallNow DEF Account
  <2> QED BY <1>2, <1>4, <2>1, <2>3, <2>4, <2>5 DEF StepOf, Moves
<1> QED BY <1>1, <1>8, <1>9

LEMMA AdvanceStep ==
  ASSUME Orderly, NEW s \in Calls, Advance(s) PROVE StepOf(s)
<1> DEFINE rt == runtime[s]
           elapsed == clock[s] - rt.proc
           todo == Least(elapsed, NonNegative(rt.hardStop - rt.proc))
           over == [rt EXCEPT !.term = "MAX_DURATION_REACHED"]
           h == [op |-> "advance", pc |-> "apply", rt |-> rt, todo |-> todo,
                 reason |-> NoReason, status |-> NoStatus]
           g == [op |-> "advance", pc |-> "overwrite", rt |-> over, todo |-> 0,
                 reason |-> NoReason, status |-> NoStatus]
<1>1. /\ ~Busy(s) /\ Live(s) /\ rt.active /\ rt.term = NoReason
      /\ UNCHANGED <<account, runtime, Phase, ledger, charged, clock>>
      /\ handler' = [handler EXCEPT ![s] = h] \/ handler' = [handler EXCEPT ![s] = g]
  BY PhaseKept DEF Advance, Hold, histories
<1>2. rt \in Runtime /\ Opened(rt, Idle, ledger[s], charged[s], clock[s])
  BY <1>1, LiveCall
<1>3. clock[s] \in Nat
  BY CallNow
<1>4. runtime[s] = rt
  OBVIOUS
<1> HIDE DEF rt
<1>5. rt.dur = rt.proc
  BY <1>1, <1>2 DEF Opened
<1>6. rt.proc \in Nat /\ rt.hardStop \in Nat
  BY <1>2 DEF Runtime
<1>7. rt.proc + todo <= clock[s]
  <2>1. NonNegative(rt.hardStop - rt.proc) \in Nat
    BY <1>6, NonNegativeInNat
  <2> QED BY <1>3, <1>6, <2>1 DEF Least
<1> HIDE DEF todo
<1>8. SameBooks(over, rt) /\ over.active = rt.active /\ over.term # NoReason
  BY <1>2 DEF Runtime, SameBooks, SameMeter, NoReason
<1> HIDE DEF over
<1>9. h # Idle /\ g # Idle
  <2>1. "pc" \in DOMAIN h /\ "pc" \in DOMAIN g
    OBVIOUS
  <2> HIDE DEF h, g
  <2> QED BY <2>1 DEF Idle
<1>10. /\ h.op = "advance" /\ h.pc = "apply" /\ h.rt = rt /\ h.todo = todo
       /\ h.reason = NoReason
       /\ g.op = "advance" /\ g.pc = "overwrite" /\ g.rt = over
  OBVIOUS
<1> HIDE DEF h, g
<1>11. Begun(rt, h, clock[s])
  BY <1>1, <1>5, <1>7, <1>9, <1>10 DEF Begun, OpenSteps, SameBooks, SameMeter
<1>12. Begun(rt, g, clock[s])
  BY <1>8, <1>9, <1>10 DEF Begun, OpenSteps
<1> QED BY <1>1, <1>4, <1>11, <1>12, BeginStep

LEMMA FinalizeStep ==
  ASSUME Orderly, NEW s \in Calls, NEW status \in Final, Finalize(s, status)
  PROVE  StepOf(s)
<1> DEFINE rt == runtime[s]
           h == [op |-> "finalize", pc |-> "flush", rt |-> rt, todo |-> 0,
                 reason |-> NoReason, status |-> status]
<1>1. /\ ~Busy(s) /\ Live(s)
      /\ UNCHANGED <<account, runtime, Phase, ledger, charged, clock>>
      /\ handler' = [handler EXCEPT ![s] = h]
  BY PhaseKept DEF Finalize, histories
<1>2. rt \in Runtime /\ Opened(rt, Idle, ledger[s], charged[s], clock[s])
  BY <1>1, LiveCall
<1>3. runtime[s] = rt
  OBVIOUS
<1> HIDE DEF rt
<1>4. h # Idle
  <2>1. "pc" \in DOMAIN h
    OBVIOUS
  <2> HIDE DEF h
  <2> QED BY <2>1 DEF Idle
<1>5. h.op = "finalize" /\ h.pc = "flush" /\ h.rt = rt /\ h.status = status
  OBVIOUS
<1> HIDE DEF h
<1>6. Begun(rt, h, clock[s])
  BY <1>2, <1>4, <1>5 DEF Begun, OpenSteps, SameBooks, SameMeter, Opened
<1> QED BY <1>1, <1>3, <1>6, BeginStep

\* Waiving leaves the amounts alone, and the cost is never metered again.
LEMMA WaiveStep ==
  ASSUME Orderly, NEW s \in Calls, Waive(s) PROVE StepOf(s)
<1> DEFINE r == runtime[s]
           rt == [r EXCEPT !.waived = TRUE, !.free = @ + r.freeUsed, !.freeUsed = 0]
           h == [op |-> "waive", pc |-> "flush", rt |-> rt, todo |-> 0,
                 reason |-> NoReason, status |-> NoStatus]
<1>1. /\ ~Busy(s) /\ Live(s)
      /\ UNCHANGED <<account, runtime, Phase, ledger, charged, clock>>
      /\ handler' = [handler EXCEPT ![s] = h]
  BY PhaseKept DEF Waive, Hold, histories
<1>2. /\ Phase[s] = "open" /\ r # NoRuntime
      /\ r \in Runtime /\ Opened(r, Idle, ledger[s], charged[s], clock[s]) /\ Flushed(r)
      /\ HeldBy(r, handler[s]) = r.avail
  BY <1>1, LiveCall
<1>3. runtime[s] = r
  OBVIOUS
<1> HIDE DEF r
<1>4. /\ rt.avail = r.avail /\ rt.total = r.total /\ rt.topup = r.topup
      /\ rt.debit = r.debit /\ rt.pendWallet = r.pendWallet /\ rt.pendLocked = r.pendLocked
      /\ rt.cost = r.cost /\ rt.dur = r.dur /\ rt.waived = TRUE /\ rt.freeUsed = 0
      /\ rt.active = r.active /\ rt.term = r.term /\ rt.proc = r.proc
  BY <1>2 DEF Runtime
<1> HIDE DEF rt
<1>5. Good(r, ledger[s]["wallet_lock"], charged[s], clock[s])
      /\ (r.term = NoReason => r.dur = r.proc)
  BY <1>2 DEF Opened
<1>6. Good(rt, ledger[s]["wallet_lock"], charged[s], clock[s])
  <2>1. r.dur \in Nat
    BY <1>2, Amounts
  <2> QED BY <1>4, <1>5, <2>1 DEF Good, Priced
<1>7. h # Idle
  <2>1. "pc" \in DOMAIN h
    OBVIOUS
  <2> HIDE DEF h
  <2> QED BY <2>1 DEF Idle
<1>8. h.op = "waive" /\ h.pc = "flush" /\ h.rt = rt
  OBVIOUS
<1> HIDE DEF h
<1>9. Opened(r, h, ledger[s], charged[s], clock[s])
  BY <1>2, <1>4, <1>5, <1>6, <1>7, <1>8 DEF Opened, OpenSteps
<1>10. Progress(r, h, Phase[s], ledger[s], charged[s], clock[s])
  BY <1>2, <1>9 DEF Progress
<1>11. HeldBy(r, h) = r.avail
  <2>1. r.avail \in Nat /\ r.pendLocked = 0
    BY <1>2, Amounts DEF Flushed
  <2> QED BY <1>4, <1>7, <1>8, <2>1 DEF HeldBy, OpenSteps
<1> QED BY <1>1, <1>2, <1>3, <1>10, <1>11, HandlerStep

---------------------------------------------------------------------------
(* The handlers in the middle of their work *)

\* A handler that bills, writes or settles works on an open call.
LEMMA WorkingCall ==
  ASSUME Orderly, NEW s \in Calls, Busy(s), handler[s].pc \in OpenSteps
  PROVE  /\ Phase[s] = "open"
         /\ handler[s] # Idle /\ handler[s] \in Handler /\ handler[s].rt \in Runtime
         /\ Opened(runtime[s], handler[s], ledger[s], charged[s], clock[s])
         /\ Good(handler[s].rt, ledger[s]["wallet_lock"], charged[s], clock[s])
         /\ Books(handler[s].rt)
         /\ handler[s].pc \notin {"apply", "flush"} => Flushed(handler[s].rt)
         /\ HeldBy(runtime[s], handler[s]) = handler[s].rt.avail - handler[s].rt.pendLocked
<1>1. /\ Phase[s] \in {"unopened", "open", "closed"}
      /\ handler[s] # Idle /\ handler[s] \in Handler /\ handler[s].rt \in Runtime
      /\ Progress(runtime[s], handler[s], Phase[s], ledger[s], charged[s], clock[s])
      /\ Agree(runtime[s], handler[s])
  BY CallNow DEF Busy
<1>2. /\ Phase[s] = "open"
      /\ Opened(runtime[s], handler[s], ledger[s], charged[s], clock[s])
  BY <1>1 DEF Progress, Unopened, Closed, OpenSteps
<1>3. Good(handler[s].rt, ledger[s]["wallet_lock"], charged[s], clock[s])
  BY <1>1, <1>2 DEF Opened
<1>4. Books(handler[s].rt) /\ (handler[s].pc \notin {"apply", "flush"} => Flushed(handler[s].rt))
  BY <1>1 DEF Agree
<1>5. HeldBy(runtime[s], handler[s]) = handler[s].rt.avail - handler[s].rt.pendLocked
  BY <1>1 DEF HeldBy
<1> QED BY <1>1, <1>2, <1>3, <1>4, <1>5

LEMMA ApplyNextStep ==
  ASSUME Orderly, NEW s \in Calls, ApplyNext(s) PROVE StepOf(s)
<1> DEFINE h == handler[s]
           result == ApplySecond(h.rt)
           done == result.error # NoReason \/ h.todo = 1
           rt == IF result.error # NoReason THEN result.rt
                 ELSE [result.rt EXCEPT !.proc = @ + 1]
           reason == IF result.error # NoReason THEN result.error
                     ELSE IF h.todo = 1 /\ MaxDurationSeconds(rt) <= 0
                     THEN "MAX_DURATION_REACHED" ELSE NoReason
           pc == IF done THEN "flush" ELSE "apply"
           new == [h EXCEPT !.rt = rt, !.reason = reason, !.todo = @ - 1, !.pc = pc]
<1>1. /\ Busy(s) /\ h.pc = "apply"
      /\ handler' = [handler EXCEPT ![s] = new]
      /\ UNCHANGED <<account, runtime, Phase, ledger, charged, clock>>
  BY PhaseKept DEF ApplyNext, At, histories
<1>2. /\ Phase[s] = "open"
      /\ h # Idle /\ h \in Handler /\ h.rt \in Runtime
      /\ Opened(runtime[s], h, ledger[s], charged[s], clock[s])
      /\ Good(h.rt, ledger[s]["wallet_lock"], charged[s], clock[s])
      /\ HeldBy(runtime[s], h) = h.rt.avail - h.rt.pendLocked
  BY <1>1, WorkingCall DEF OpenSteps
<1>3. h.todo \in Nat /\ h.todo > 0 /\ clock[s] \in Nat /\ charged[s] \in Int
  BY <1>1, CallNow DEF Orderly, Inv, TypeInv, At, Busy
<1>4. /\ h.reason = NoReason /\ h.rt.dur = h.rt.proc
      /\ h.rt.proc + h.todo <= clock[s] /\ h.rt.active
      /\ h.op = "finalize" => h.status \in Final
  BY <1>1, <1>2 DEF Opened
<1>5. handler[s] = h
  OBVIOUS
<1> HIDE DEF h, reason
<1>6. /\ result.rt \in Runtime
      /\ result.error = NoReason => result.rt.dur = h.rt.dur + 1
      /\ result.rt.proc = h.rt.proc /\ result.rt.active = h.rt.active
  BY <1>2, ApplySecondEffect
<1>7. /\ Along(result.rt, h.rt) /\ Priced(result.rt)
      /\ result.rt.dur = h.rt.dur \/ result.rt.dur = h.rt.dur + 1
  BY <1>2, SecondAlong DEF Good
<1> HIDE DEF result
<1>8. h.rt.dur \in Nat /\ h.rt.proc \in Nat
  BY <1>2, Amounts
<1>9. Good(result.rt, ledger[s]["wallet_lock"], charged[s], clock[s])
  <2>1. /\ h.rt.avail \in Nat /\ h.rt.total \in Nat /\ h.rt.topup \in Nat
        /\ h.rt.debit \in Nat /\ h.rt.pendWallet \in Int /\ h.rt.pendLocked \in Int
    BY <1>2, Amounts
  <2>2. /\ result.rt.avail \in Nat /\ result.rt.total \in Nat /\ result.rt.topup \in Nat
        /\ result.rt.debit \in Nat /\ result.rt.pendWallet \in Int
        /\ result.rt.pendLocked \in Int
    BY <1>6, Amounts
  <2>3. /\ h.rt.avail - h.rt.pendLocked >= 0
        /\ h.rt.total - h.rt.topup = ledger[s]["wallet_lock"]
        /\ h.rt.debit + h.rt.pendWallet = charged[s]
        /\ h.rt.pendWallet <= 0 /\ h.rt.pendLocked >= h.rt.pendWallet
    BY <1>2 DEF Good
  <2>4. /\ result.rt.avail - result.rt.pendLocked >= 0
        /\ result.rt.total - result.rt.topup = ledger[s]["wallet_lock"]
        /\ result.rt.debit + result.rt.pendWallet = charged[s]
        /\ result.rt.pendWallet <= 0 /\ result.rt.pendLocked >= result.rt.pendWallet
    BY <1>7, <2>1, <2>2, <2>3 DEF Along
  <2>5. result.rt.dur <= clock[s]
    BY <1>3, <1>4, <1>7, <1>8
  <2> QED BY <1>4, <1>6, <1>7, <2>4, <2>5 DEF Good
<1>10. PICK moved : moved = [result.rt EXCEPT !.proc = @ + 1]
  OBVIOUS
<1>11. /\ moved.proc = result.rt.proc + 1 /\ SameBooks(moved, result.rt)
       /\ moved.active = result.rt.active
  BY <1>6, <1>10 DEF Runtime, SameBooks, SameMeter
<1>12. rt = IF result.error # NoReason THEN result.rt ELSE moved
  BY <1>10
<1> HIDE DEF rt
<1>13. /\ Good(rt, ledger[s]["wallet_lock"], charged[s], clock[s]) /\ rt.active
       /\ rt.avail = result.rt.avail /\ rt.pendLocked = result.rt.pendLocked
       /\ result.error = NoReason => rt.dur = rt.proc /\ rt.proc = h.rt.proc + 1
  BY <1>4, <1>6, <1>8, <1>9, <1>11, <1>12, GoodSame DEF SameBooks, SameMeter
<1>14. /\ new.rt = rt /\ new.pc = pc /\ new.reason = reason /\ new.todo = h.todo - 1
       /\ new.op = h.op /\ new.status = h.status
  BY <1>2 DEF Handler
<1>15. new # Idle
  <2>1. "pc" \in DOMAIN new
    BY <1>2 DEF Handler
  <2> HIDE DEF new
  <2> QED BY <2>1 DEF Idle
<1> HIDE DEF new
<1>16. /\ result.error # NoReason => reason # NoReason
       /\ pc = "apply" => /\ result.error = NoReason /\ h.todo # 1 /\ reason = NoReason
  BY DEF reason
<1>17. pc \in {"apply", "flush"}
  OBVIOUS
<1> HIDE DEF pc
<1>18. pc = "apply" => rt.proc + (h.todo - 1) <= clock[s]
  BY <1>3, <1>4, <1>8, <1>13, <1>16
<1>19. Opened(runtime[s], new, ledger[s], charged[s], clock[s])
  BY <1>2, <1>4, <1>13, <1>14, <1>15, <1>16, <1>17, <1>18 DEF Opened, OpenSteps
<1>20. Progress(runtime[s], new, Phase[s], ledger[s], charged[s], clock[s])
  BY <1>2, <1>19 DEF Progress
<1>21. HeldBy(runtime[s], new) = HeldBy(runtime[s], h)
  <2>1. rt.avail - rt.pendLocked = h.rt.avail - h.rt.pendLocked
    BY <1>7, <1>13 DEF Along
  <2>2. HeldBy(runtime[s], new) = rt.avail - rt.pendLocked
    BY <1>14, <1>15, <1>17 DEF HeldBy, OpenSteps
  <2> QED BY <1>2, <2>1, <2>2
<1> QED BY <1>1, <1>5, <1>20, <1>21, HandlerStep

\* What a flush does to the locked balance and the session's books, when the
\* account locks what the session holds: the floor at zero does not bite.
LEMMA FlushBooks ==
  ASSUME NEW acct \in Account, NEW rt \in Runtime,
         0 <= rt.avail - rt.pendLocked, rt.avail - rt.pendLocked <= acct.locked
  PROVE  /\ FlushedAccount(acct, rt).locked = acct.locked + rt.pendLocked
         /\ FlushedRuntime(acct, rt).pendWallet = 0 /\ FlushedRuntime(acct, rt).pendLocked = 0
         /\ SameMeter(FlushedRuntime(acct, rt), rt)
         /\ FlushedRuntime(acct, rt).active = rt.active
         /\ FlushedRuntime(acct, rt).term = rt.term
         /\ FlushedRuntime(acct, rt).proc = rt.proc
<1> DEFINE wallet == NonNegative(acct.wallet + rt.pendWallet)
           locked == NonNegative(acct.locked + rt.pendLocked)
           row == [acct EXCEPT !.wallet = wallet, !.locked = locked]
           new == [rt EXCEPT !.wallet = row.wallet, !.locked = row.locked,
                             !.pendWallet = 0, !.pendLocked = 0]
<1>1. FlushedAccount(acct, rt) = row
  BY DEF FlushedAccount
<1>2. locked = acct.locked + rt.pendLocked
  <2>1. acct.locked \in Nat /\ rt.avail \in Nat /\ rt.pendLocked \in Int
    BY Amounts DEF Account
  <2>2. acct.locked + rt.pendLocked >= 0
    BY <2>1
  <2> QED BY <2>1, <2>2 DEF NonNegative
<1>3. row.locked = locked
  <2> HIDE DEF wallet, locked
  <2> QED BY DEF Account
<1>4. FlushedRuntime(acct, rt) = IF rt.pendWallet = 0 /\ rt.pendLocked = 0 THEN rt ELSE new
  BY <1>1 DEF FlushedRuntime
<1> HIDE DEF row
<1>5. /\ new.pendWallet = 0 /\ new.pendLocked = 0 /\ new.active = rt.active
      /\ new.term = rt.term /\ new.proc = rt.proc
  BY DEF Runtime
<1>6. SameMeter(new, rt) /\ SameMeter(rt, rt)
  BY DEF Runtime, SameMeter
<1> HIDE DEF new
<1> QED BY <1>1, <1>2, <1>3, <1>4, <1>5, <1>6

\* The pending change reaches the account: the hold keeps its unspent part and
\* the wallet is charged what was spent of it.
LEMMA FlushStep ==
  ASSUME Orderly, NEW s \in Calls, Flush(s) PROVE StepOf(s)
<1> DEFINE h == handler[s]
           flushed == FlushedRuntime(account, h.rt)
           new == [h EXCEPT !.pc = "overwrite", !.rt = flushed]
           chg == charged[s] - h.rt.pendWallet
           lock == ledger[s]["wallet_lock"]
<1>1. /\ Busy(s) /\ h.pc = "flush"
      /\ account' = FlushedAccount(account, h.rt)
      /\ charged' = [charged EXCEPT ![s] = chg]
      /\ handler' = [handler EXCEPT ![s] = new]
      /\ UNCHANGED <<runtime, Phase, ledger, clock>>
  BY AreFunctions, PhaseKept DEF Flush, At, Functions
<1>2. /\ Phase[s] = "open"
      /\ h # Idle /\ h \in Handler /\ h.rt \in Runtime
      /\ Opened(runtime[s], h, ledger[s], charged[s], clock[s])
      /\ Good(h.rt, lock, charged[s], clock[s])
      /\ HeldBy(runtime[s], h) = h.rt.avail - h.rt.pendLocked
  BY <1>1, WorkingCall DEF OpenSteps
<1>3. /\ account \in Account /\ charged[s] \in Int
      /\ h.rt.avail - h.rt.pendLocked \in Nat /\ account.locked \in Nat
      /\ h.rt.avail - h.rt.pendLocked <= account.locked
  BY <1>2, CallNow, HeldCovered
<1>4. /\ Elsewhere(s) /\ handler'[s] = new /\ runtime'[s] = runtime[s]
      /\ Phase'[s] = Phase[s] /\ ledger'[s] = ledger[s]
      /\ charged'[s] = chg /\ clock'[s] = clock[s]
  <2> HIDE DEF new, chg, h
  <2> QED BY <1>1, AreFunctions DEF Functions, Elsewhere
<1>5. handler[s] = h
  OBVIOUS
<1> HIDE DEF h
<1>6. /\ account'.locked = account.locked + h.rt.pendLocked
      /\ flushed.pendWallet = 0 /\ flushed.pendLocked = 0 /\ SameMeter(flushed, h.rt)
      /\ flushed.active = h.rt.active /\ flushed.term = h.rt.term
      /\ flushed.proc = h.rt.proc
  <2>1. 0 <= h.rt.avail - h.rt.pendLocked
    BY <1>3
  <2> QED BY <1>1, <1>2, <1>3, <2>1, FlushBooks
<1> HIDE DEF flushed
<1>7. /\ h.rt.avail \in Nat /\ h.rt.total \in Nat /\ h.rt.topup \in Nat
      /\ h.rt.debit \in Nat /\ h.rt.pendWallet \in Int /\ h.rt.pendLocked \in Int
  BY <1>2, Amounts
<1>8. /\ h.rt.total - h.rt.topup = lock /\ h.rt.debit + h.rt.pendWallet = charged[s]
      /\ h.rt.pendWallet <= 0 /\ h.rt.pendLocked >= h.rt.pendWallet
      /\ Priced(h.rt) /\ h.rt.dur <= clock[s] /\ (h.rt.active \/ h.rt.dur = 0)
  BY <1>2 DEF Good
<1>9. Good(flushed, lock, chg, clock[s])
  <2>1. Priced(flushed)
    BY <1>6, <1>8 DEF Priced, SameMeter
  <2>2. flushed.debit + 0 = chg /\ flushed.avail - 0 >= 0
    BY <1>3, <1>6, <1>7, <1>8 DEF SameMeter
  <2>3. /\ flushed.total - flushed.topup = lock /\ flushed.dur <= clock[s]
        /\ flushed.active \/ flushed.dur = 0
    BY <1>6, <1>8 DEF SameMeter
  <2> HIDE DEF chg, lock
  <2> QED BY <1>6, <2>1, <2>2, <2>3 DEF Good
<1>10. /\ new.rt = flushed /\ new.pc = "overwrite" /\ new.op = h.op
       /\ new.reason = h.reason /\ new.status = h.status
  BY <1>2 DEF Handler
<1>11. new # Idle
  <2>1. "pc" \in DOMAIN new
    BY <1>2 DEF Handler
  <2> HIDE DEF new
  <2> QED BY <2>1 DEF Idle
<1> HIDE DEF new
<1>12. Opened(runtime[s], new, ledger[s], chg, clock[s])
  <2> HIDE DEF chg
  <2>1. flushed.term = NoReason /\ h.reason = NoReason => flushed.dur = flushed.proc
    BY <1>2, <1>6 DEF Opened, SameMeter
  <2>2. /\ ledger[s]["wallet_lock_extension"] = 0 /\ ledger[s]["usage_debit"] = 0
        /\ ledger[s]["wallet_release"] = 0 /\ (h.op = "finalize" => h.status \in Final)
    BY <1>2 DEF Opened
  <2> QED BY <1>9, <1>10, <1>11, <2>1, <2>2 DEF Opened, OpenSteps
<1>13. Progress(runtime[s], new, Phase[s], ledger[s], chg, clock[s])
  BY <1>2, <1>12 DEF Progress
<1>14. HeldBy(runtime[s], new) = h.rt.avail
  BY <1>6, <1>7, <1>10, <1>11 DEF HeldBy, OpenSteps, SameMeter
<1>15. /\ account'.locked - account.locked
            = h.rt.avail - (h.rt.avail - h.rt.pendLocked)
       /\ chg >= charged[s]
       /\ h.rt.avail + chg >= (h.rt.avail - h.rt.pendLocked) + charged[s]
  BY <1>3, <1>6, <1>7, <1>8
<1> HIDE DEF chg
<1>16. Moves(Phase[s], Phase[s], HeldBy(runtime[s], h), HeldBy(runtime[s], new),
             charged[s], chg)
  BY <1>2, <1>7, <1>14, <1>15 DEF Moves
<1> QED BY <1>2, <1>4, <1>5, <1>13, <1>14, <1>15, <1>16 DEF StepOf

LEMMA OverwriteStep ==
  ASSUME Orderly, NEW s \in Calls, Overwrite(s) PROVE StepOf(s)
<1> DEFINE h == handler[s]
           pc == IF h.op = "finalize" THEN "settle" ELSE "store"
           new == [h EXCEPT !.pc = pc]
<1>1. /\ Busy(s) /\ h.pc = "overwrite"
      /\ account' = OverwrittenAccount(account, h.rt)
      /\ handler' = [handler EXCEPT ![s] = new]
      /\ UNCHANGED <<runtime, Phase, ledger, clock, charged>>
  BY AreFunctions, PhaseKept DEF Overwrite, Goto, At, Functions
<1>2. /\ Phase[s] = "open"
      /\ h # Idle /\ h \in Handler /\ h.rt \in Runtime
      /\ Opened(runtime[s], h, ledger[s], charged[s], clock[s])
      /\ HeldBy(runtime[s], h) = h.rt.avail - h.rt.pendLocked
      /\ account \in Account
  BY <1>1, WorkingCall, CallNow DEF OpenSteps
<1>3. account'.locked = account.locked
  BY <1>1, <1>2 DEF OverwrittenAccount, Account
<1>4. handler[s] = h
  OBVIOUS
<1> HIDE DEF h
<1>5. /\ new.rt = h.rt /\ new.pc = pc /\ new.op = h.op
      /\ new.reason = h.reason /\ new.status = h.status
  BY <1>2 DEF Handler
<1>6. new # Idle
  <2>1. "pc" \in DOMAIN new
    BY <1>2 DEF Handler
  <2> HIDE DEF new
  <2> QED BY <2>1 DEF Idle
<1> HIDE DEF new
<1>7. Opened(runtime[s], new, ledger[s], charged[s], clock[s])
  BY <1>2, <1>5, <1>6 DEF Opened, OpenSteps
<1>8. Progress(runtime[s], new, Phase[s], ledger[s], charged[s], clock[s])
  BY <1>2, <1>7 DEF Progress
<1>9. HeldBy(runtime[s], new) = HeldBy(runtime[s], h)
  BY <1>2, <1>5, <1>6 DEF HeldBy, OpenSteps
<1> QED BY <1>1, <1>3, <1>4, <1>8, <1>9, HandlerStep

\* Redis takes the handler's copy, which has nothing unwritten.
LEMMA StoreStep ==
  ASSUME Orderly, NEW s \in Calls, Store(s) PROVE StepOf(s)
<1> DEFINE h == handler[s]
           reason == IF h.reason # NoReason THEN h.reason
                     ELSE IF h.op = "advance" /\ h.rt.term = NoReason
                             /\ clock[s] >= h.rt.hardStop
                     THEN "MAX_DURATION_REACHED" ELSE NoReason
           rt == [h.rt EXCEPT !.term = reason]
           new == [h EXCEPT !.pc = "overwrite", !.rt = rt, !.reason = NoReason]
           next == IF reason = NoReason THEN Idle ELSE new
<1>1. /\ Busy(s) /\ h.pc = "store"
      /\ runtime' = [runtime EXCEPT ![s] = h.rt]
      /\ UNCHANGED <<account, Phase, ledger, clock, charged>>
  BY PhaseKept DEF Store, At, histories
<1>2. handler' = [handler EXCEPT ![s] = next]
  <2>1. handler' = [handler EXCEPT ![s] =
               IF reason = NoReason THEN Idle
               ELSE [h EXCEPT !.pc = "overwrite", !.rt.term = reason, !.reason = NoReason]]
    BY Zenon DEF Store
  <2> QED BY <2>1, Zenon
<1>3. /\ Phase[s] = "open"
      /\ h # Idle /\ h \in Handler /\ h.rt \in Runtime
      /\ Opened(runtime[s], h, ledger[s], charged[s], clock[s])
      /\ Good(h.rt, ledger[s]["wallet_lock"], charged[s], clock[s])
      /\ Flushed(h.rt)
      /\ HeldBy(runtime[s], h) = h.rt.avail - h.rt.pendLocked
      /\ account.locked \in Nat
  BY <1>1, WorkingCall, HeldCovered DEF OpenSteps
<1>4. handler[s] = h
  OBVIOUS
<1> HIDE DEF h
<1>5. reason = NoReason => h.reason = NoReason
  OBVIOUS
<1> HIDE DEF reason
<1>6. SameBooks(rt, h.rt) /\ rt.active = h.rt.active /\ rt.term = reason
  BY <1>3 DEF Runtime, SameBooks, SameMeter
<1> HIDE DEF rt
<1>7. /\ new.rt = rt /\ new.pc = "overwrite" /\ new.op = h.op
      /\ new.status = h.status
  BY <1>3 DEF Handler
<1>8. new # Idle
  <2>1. "pc" \in DOMAIN new
    BY <1>3 DEF Handler
  <2> HIDE DEF new
  <2> QED BY <2>1 DEF Idle
<1> HIDE DEF new
<1>9. /\ Elsewhere(s) /\ handler'[s] = next /\ runtime'[s] = h.rt
      /\ Phase'[s] = Phase[s] /\ ledger'[s] = ledger[s]
      /\ charged'[s] = charged[s] /\ clock'[s] = clock[s] /\ account' = account
  <2> HIDE DEF next
  <2> QED BY <1>1, <1>2, AreFunctions DEF Functions, Elsewhere
<1>10. h.rt # NoRuntime /\ h.rt.avail \in Nat /\ h.rt.pendLocked = 0
  BY <1>3, RuntimeIsOne, Amounts DEF Flushed
<1>11. Opened(h.rt, next, ledger[s], charged[s], clock[s])
  <2>1. /\ ledger[s]["wallet_lock_extension"] = 0 /\ ledger[s]["usage_debit"] = 0
        /\ ledger[s]["wallet_release"] = 0 /\ (h.op = "finalize" => h.status \in Final)
        /\ h.rt.term = NoReason /\ h.reason = NoReason => h.rt.dur = h.rt.proc
    BY <1>3 DEF Opened
  <2>2. CASE reason = NoReason
    BY <1>3, <1>5, <1>10, <2>1, <2>2 DEF Opened
  <2>3. CASE reason # NoReason
    <3>1. Good(rt, ledger[s]["wallet_lock"], charged[s], clock[s])
      BY <1>3, <1>6, GoodSame
    <3> QED BY <1>6, <1>7, <1>8, <2>1, <2>3, <3>1 DEF Opened, OpenSteps
  <2> QED BY <2>2, <2>3
<1>12. HeldBy(h.rt, next) = h.rt.avail
  <2>1. CASE reason = NoReason
    BY <1>10, <2>1 DEF HeldBy
  <2>2. CASE reason # NoReason
    BY <1>6, <1>7, <1>8, <1>10, <2>2 DEF HeldBy, OpenSteps, SameBooks, SameMeter
  <2> QED BY <2>1, <2>2
<1> HIDE DEF next
<1>13. Progress(h.rt, next, Phase[s], ledger[s], charged[s], clock[s])
  BY <1>3, <1>11 DEF Progress
<1>14. HeldBy(runtime[s], h) = h.rt.avail
  BY <1>3, <1>10
<1> QED BY <1>3, <1>4, <1>9, <1>10, <1>12, <1>13, <1>14 DEF StepOf, Moves

\* A session never debits more than its metered cost, which is at most the
\* price of the seconds that passed.
LEMMA DebitWorth ==
  ASSUME NEW rt \in Runtime, Books(rt), NEW lock, NEW chg \in Int, NEW clk \in Nat,
         Good(rt, lock, chg, clk)
  PROVE  chg <= Worth(clk)
<1>1. /\ rt.debit \in Nat /\ rt.creditsUsed \in Nat /\ rt.accrual \in Nat
      /\ rt.cost \in Nat /\ rt.dur \in Nat /\ rt.pendWallet \in Int
  BY Amounts
<1>2. rt.cost - (rt.creditsUsed + rt.debit + rt.accrual) >= 0
  BY DEF Books, Unpaid, Paid
<1>3. rt.debit + rt.pendWallet = chg /\ rt.pendWallet <= 0 /\ rt.dur <= clk
      /\ rt.cost <= Worth(rt.dur)
  BY DEF Good, Priced
<1>4. Worth(rt.dur) \in Nat /\ Worth(clk) \in Nat /\ Worth(rt.dur) <= Worth(clk)
  BY <1>1, <1>3, WorthGrows
<1> QED BY <1>1, <1>2, <1>3, <1>4

\* The settlement gives back what is left of the hold, and closes the books.
LEMMA SettleStep ==
  ASSUME Orderly, NEW s \in Calls, Settle(s) PROVE StepOf(s)
<1> DEFINE h == handler[s]
           released == [h.rt EXCEPT !.locked = NonNegative(@ - h.rt.avail),
                                    !.pendLocked = @ - h.rt.avail]
           entries == [t \in EntryTypes |->
                       CASE t = "wallet_lock_extension" -> h.rt.topup
                         [] t = "usage_debit"           -> h.rt.debit
                         [] t = "wallet_release"        -> h.rt.avail
                         [] t = "postpaid_accrual"      -> h.rt.accrual
                         [] OTHER                       -> 0]
           next == IF h.rt.avail > 0 THEN FlushedRuntime(account, released) ELSE h.rt
           new == [h EXCEPT !.pc = "remove", !.rt = next]
           led == [t \in EntryTypes |-> ledger[s][t] + entries[t]]
           lock == ledger[s]["wallet_lock"]
<1>1. /\ Busy(s) /\ h.pc = "settle"
      /\ account' = IF h.rt.avail > 0
                    THEN OverwrittenAccount(FlushedAccount(account, released), h.rt)
                    ELSE account
      /\ record' = [record EXCEPT ![s] = h.status] /\ ended' = ended \cup {s}
      /\ ledger' = [ledger EXCEPT ![s] = led]
      /\ UNCHANGED <<runtime, clock, charged>>
  BY AreFunctions DEF Settle, At, histories, Functions
<1>2. handler' = [handler EXCEPT ![s] = new]
  <2>1. handler' = [handler EXCEPT ![s].pc = "remove", ![s].rt = next]
    BY DEF Settle
  <2> HIDE DEF next
  <2> QED BY <2>1, AreFunctions DEF Functions
<1>3. /\ Phase[s] = "open"
      /\ h # Idle /\ h \in Handler /\ h.rt \in Runtime
      /\ Opened(runtime[s], h, ledger[s], charged[s], clock[s])
      /\ Good(h.rt, lock, charged[s], clock[s])
      /\ Books(h.rt) /\ Flushed(h.rt)
      /\ HeldBy(runtime[s], h) = h.rt.avail - h.rt.pendLocked
  BY <1>1, WorkingCall DEF OpenSteps
<1>4. /\ account \in Account /\ charged[s] \in Int /\ clock[s] \in Nat
      /\ ledger[s] \in [EntryTypes -> Nat] /\ account.locked \in Nat
      /\ HeldBy(runtime[s], h) <= account.locked
  BY <1>3, CallNow, HeldCovered
<1>5. handler[s] = h
  OBVIOUS
<1>6. /\ led["wallet_lock"] = lock + 0
      /\ led["wallet_lock_extension"] = ledger[s]["wallet_lock_extension"] + h.rt.topup
      /\ led["usage_debit"] = ledger[s]["usage_debit"] + h.rt.debit
      /\ led["wallet_release"] = ledger[s]["wallet_release"] + h.rt.avail
  <2>1. {"wallet_lock", "wallet_lock_extension", "usage_debit", "wallet_release"}
          \subseteq EntryTypes
    BY DEF EntryTypes
  <2>2. /\ entries["wallet_lock"] = 0 /\ entries["wallet_lock_extension"] = h.rt.topup
        /\ entries["usage_debit"] = h.rt.debit /\ entries["wallet_release"] = h.rt.avail
    <3> HIDE DEF h
    <3> QED BY <2>1
  <2> HIDE DEF entries
  <2> QED BY <2>1, <2>2
<1>7. /\ Elsewhere(s) /\ handler'[s] = new /\ runtime'[s] = runtime[s]
      /\ Phase'[s] = "closed" /\ ledger'[s] = led
      /\ charged'[s] = charged[s] /\ clock'[s] = clock[s]
  <2>1. h.status # "none"
    BY <1>1, <1>3, OpenNames DEF Opened
  <2> HIDE DEF new, led, h
  <2>2. Phase' = [Phase EXCEPT ![s] = "closed"]
    BY <1>1, <2>1, PhaseCloses
  <2> QED BY <1>1, <1>2, <2>2, AreFunctions DEF Functions, Elsewhere
<1> HIDE DEF h, entries, led
<1>9. /\ h.rt.avail \in Nat /\ h.rt.total \in Nat /\ h.rt.topup \in Nat
      /\ h.rt.debit \in Nat /\ h.rt.pendLocked = 0 /\ lock \in Nat
  BY <1>3, <1>4, Amounts DEF Flushed, EntryTypes
<1>10. account'.locked - account.locked = 0 - h.rt.avail
  <2>1. CASE h.rt.avail > 0
    <3>1. released \in Runtime
      BY <1>3, ReleaseType
    <3>2. released.avail = h.rt.avail /\ released.pendLocked = 0 - h.rt.avail
      BY <1>3, <1>9 DEF Runtime
    <3> HIDE DEF released
    <3>3. FlushedAccount(account, released).locked
            = NonNegative(account.locked + (0 - h.rt.avail))
      BY <1>4, <3>2 DEF FlushedAccount, Account
    <3>4. h.rt.avail <= account.locked
      BY <1>3, <1>4, <1>9
    <3>5. FlushedAccount(account, released).locked = account.locked - h.rt.avail
      BY <1>4, <1>9, <3>3, <3>4 DEF NonNegative
    <3>6. FlushedAccount(account, released) \in Account
      BY <1>4, <3>1, FlushEffect
    <3>7. account'.locked = FlushedAccount(account, released).locked
      BY <1>1, <2>1, <3>6 DEF OverwrittenAccount, Account
    <3> QED BY <1>4, <1>9, <3>5, <3>7
  <2>2. CASE ~(h.rt.avail > 0)
    BY <1>1, <1>4, <1>9, <2>2
  <2> QED BY <2>1, <2>2
<1> HIDE DEF next
<1>11. new.pc = "remove" /\ new # Idle
  <2>1. new.pc = "remove"
    BY <1>3 DEF Handler
  <2>2. "pc" \in DOMAIN new
    BY <1>3 DEF Handler
  <2> HIDE DEF new
  <2> QED BY <2>1, <2>2 DEF Idle
<1> HIDE DEF new
<1>12. led["wallet_lock"] + led["wallet_lock_extension"]
         = led["usage_debit"] + led["wallet_release"]
  <2>1. /\ ledger[s]["wallet_lock_extension"] = 0 /\ ledger[s]["usage_debit"] = 0
        /\ ledger[s]["wallet_release"] = 0
    BY <1>3 DEF Opened
  <2>2. h.rt.total - h.rt.topup = lock /\ h.rt.total = h.rt.avail + h.rt.debit
    BY <1>3 DEF Good, Books, Reserved
  <2> HIDE DEF lock
  <2> QED BY <1>6, <1>9, <2>1, <2>2
<1>13. charged[s] <= Worth(clock[s])
  BY <1>3, <1>4, DebitWorth
<1>14. Progress(runtime[s], new, "closed", led, charged[s], clock[s])
  BY <1>11, <1>12, <1>13 DEF Progress, Closed
<1>15. HeldBy(runtime[s], new) = 0 /\ HeldBy(runtime[s], h) = h.rt.avail
  BY <1>3, <1>9, <1>11 DEF HeldBy, OpenSteps
<1>16. Moves(Phase[s], "closed", HeldBy(runtime[s], h), HeldBy(runtime[s], new),
             charged[s], charged[s])
  BY <1>3, <1>15 DEF Moves
<1> QED BY <1>5, <1>7, <1>10, <1>14, <1>15, <1>16 DEF StepOf

LEMMA RemoveStep ==
  ASSUME Orderly, NEW s \in Calls, Remove(s) PROVE StepOf(s)
<1>1. /\ Busy(s) /\ handler[s].pc = "remove"
      /\ runtime' = [runtime EXCEPT ![s] = NoRuntime]
      /\ handler' = [handler EXCEPT ![s] = Idle]
      /\ UNCHANGED <<account, Phase, ledger, clock, charged>>
  BY PhaseKept DEF Remove, At, Release, histories
<1>2. /\ handler[s] # Idle /\ account.locked \in Nat
      /\ Progress(runtime[s], handler[s], Phase[s], ledger[s], charged[s], clock[s])
  BY <1>1, CallNow, HeldCovered DEF Busy
<1>3. /\ Phase[s] = "closed"
      /\ Closed(runtime[s], handler[s], ledger[s], charged[s], clock[s])
  BY <1>1, <1>2, OpenNames DEF Progress, Unopened, Opened, OpenSteps
<1>4. /\ Elsewhere(s) /\ handler'[s] = Idle /\ runtime'[s] = NoRuntime
      /\ Phase'[s] = Phase[s] /\ ledger'[s] = ledger[s]
      /\ charged'[s] = charged[s] /\ clock'[s] = clock[s] /\ account' = account
  BY <1>1, AreFunctions DEF Functions, Elsewhere
<1>5. Closed(NoRuntime, Idle, ledger[s], charged[s], clock[s])
  BY <1>3 DEF Closed
<1>6. Progress(NoRuntime, Idle, Phase[s], ledger[s], charged[s], clock[s])
  BY <1>3, <1>5 DEF Progress
<1>7. HeldBy(runtime[s], handler[s]) = 0 /\ HeldBy(NoRuntime, Idle) = 0
  BY <1>1, <1>2 DEF HeldBy, OpenSteps
<1> QED BY <1>2, <1>4, <1>6, <1>7 DEF StepOf, Moves

\* Time passes, and the price of the call with it.
LEMMA TickStep ==
  ASSUME Orderly, NEW s \in Calls, Tick(s) PROVE StepOf(s)
<1> DEFINE clk == clock[s] + 1
<1>1. /\ clock' = [clock EXCEPT ![s] = clk]
      /\ UNCHANGED <<account, runtime, handler, Phase, ledger, charged>>
  BY PhaseKept DEF Tick, histories
<1>2. /\ Progress(runtime[s], handler[s], Phase[s], ledger[s], charged[s], clock[s])
      /\ Phase[s] \in {"unopened", "open", "closed"}
      /\ HeldBy(runtime[s], handler[s]) \in Nat /\ account.locked \in Nat
      /\ charged[s] \in Int /\ clock[s] \in Nat
      /\ runtime[s] # NoRuntime => runtime[s] \in Runtime
      /\ handler[s] # Idle => handler[s].rt \in Runtime /\ handler[s].todo \in Nat
  BY CallNow, HeldCovered
<1>3. /\ Elsewhere(s) /\ handler'[s] = handler[s] /\ runtime'[s] = runtime[s]
      /\ Phase'[s] = Phase[s] /\ ledger'[s] = ledger[s]
      /\ charged'[s] = charged[s] /\ clock'[s] = clk /\ account' = account
  <2> HIDE DEF clk
  <2> QED BY <1>1, AreFunctions DEF Functions, Elsewhere
<1>4. clk \in Nat /\ clk > clock[s]
  BY <1>2
<1> HIDE DEF clk
<1>5. Worth(clock[s]) \in Nat /\ Worth(clk) \in Nat /\ Worth(clock[s]) <= Worth(clk)
  BY <1>2, <1>4, WorthGrows
<1>6. ASSUME NEW rt \in Runtime, NEW lock, Good(rt, lock, charged[s], clock[s])
      PROVE  Good(rt, lock, charged[s], clk)
  <2>1. rt.dur \in Nat
    BY Amounts
  <2> QED BY <1>2, <1>4, <1>6, <2>1 DEF Good
<1>7. Progress(runtime[s], handler[s], Phase[s], ledger[s], charged[s], clk)
  <2>1. CASE Phase[s] = "unopened"
    BY <1>2, <2>1 DEF Progress
  <2>2. CASE Phase[s] = "closed"
    <3>1. charged[s] <= Worth(clk)
      BY <1>2, <1>5, <2>2 DEF Progress, Closed
    <3> QED BY <1>2, <2>2, <3>1 DEF Progress, Closed
  <2>3. CASE Phase[s] = "open"
    <3>1. Opened(runtime[s], handler[s], ledger[s], charged[s], clock[s])
      BY <1>2, <2>3 DEF Progress
    <3>2. handler[s] = Idle => Good(runtime[s], ledger[s]["wallet_lock"], charged[s], clk)
      BY <1>2, <1>6, <3>1 DEF Opened
    <3>3. handler[s] # Idle => Good(handler[s].rt, ledger[s]["wallet_lock"], charged[s], clk)
      BY <1>2, <1>6, <3>1 DEF Opened
    <3>4. handler[s] # Idle /\ handler[s].pc = "apply"
            => handler[s].rt.proc + handler[s].todo <= clk
      <4> SUFFICES ASSUME handler[s] # Idle, handler[s].pc = "apply"
                   PROVE  handler[s].rt.proc + handler[s].todo <= clk
        OBVIOUS
      <4>1. handler[s].rt.proc \in Nat /\ handler[s].todo \in Nat
        BY <1>2, Amounts
      <4>2. handler[s].rt.proc + handler[s].todo <= clock[s]
        BY <3>1 DEF Opened
      <4> QED BY <1>2, <1>4, <4>1, <4>2
    <3>5. Opened(runtime[s], handler[s], ledger[s], charged[s], clk)
      BY <3>1, <3>2, <3>3, <3>4 DEF Opened
    <3> QED BY <2>3, <3>5 DEF Progress
  <2> QED BY <1>2, <2>1, <2>2, <2>3
<1> QED BY <1>2, <1>3, <1>7 DEF StepOf, Moves

---------------------------------------------------------------------------
(* All calls together *)

\* The hold as the engine's property defines it.
LEMMA HeldIsHeldBy ==
  \A s \in Calls : Held(s) = HeldBy(runtime[s], handler[s])
  BY DEF Held, HeldBy, At, Busy, Live, OpenSteps

LEMMA HeldSum == MapThenSumSet(Held, Calls) = SumOver(HeldNow, Calls)
<1> DEFINE P(g) == g = [T \in SUBSET Calls |->
                          IF T = {} THEN 0 ELSE Held(One(T)) + g[Less(T)]]
<1>1. MapThenSumSet(Held, Calls) = (CHOOSE g : P(g))[Calls]
  BY DEF MapThenSumSet, MapThenFoldSet, One, Less
<1>2. ASSUME NEW g PROVE P(g) <=> Adds(HeldNow, Calls, g)
  <2>1. ASSUME NEW T \in SUBSET Calls, T # {} PROVE Held(One(T)) = HeldNow[One(T)]
    <3>1. One(T) \in Calls
      BY <2>1, LessIsLess
    <3> QED BY <3>1, HeldIsHeldBy DEF HeldNow
  <2>2. [T \in SUBSET Calls |-> IF T = {} THEN 0 ELSE Held(One(T)) + g[Less(T)]]
          = [T \in SUBSET Calls |-> IF T = {} THEN 0 ELSE HeldNow[One(T)] + g[Less(T)]]
    BY <2>1
  <2> QED BY <2>2 DEF Adds
<1> HIDE DEF P
<1>3. (CHOOSE g : P(g)) = (CHOOSE g : Adds(HeldNow, Calls, g))
  BY <1>2
<1> QED BY <1>1, <1>3 DEF SumOver

\* A step of one call keeps all of them, and the sum.
LEMMA OrderlyStep ==
  ASSUME Orderly, Inv', NEW s \in Calls, StepOf(s)
  PROVE  CallsInv' /\ Balanced'
<1>1. CallsInv'
  <2> SUFFICES ASSUME NEW t \in Calls
               PROVE  Progress(runtime'[t], handler'[t], Phase'[t], ledger'[t], charged'[t],
                               clock'[t])
    BY DEF CallsInv
  <2>1. CASE t = s
    BY <2>1 DEF StepOf
  <2>2. CASE t # s
    <3>1. Progress(runtime[t], handler[t], Phase[t], ledger[t], charged[t], clock[t])
      BY CallNow
    <3>2. /\ runtime'[t] = runtime[t] /\ handler'[t] = handler[t]
          /\ Phase'[t] = Phase[t] /\ ledger'[t] = ledger[t]
          /\ charged'[t] = charged[t] /\ clock'[t] = clock[t]
      BY <2>2 DEF StepOf, Elsewhere
    <3> QED BY <3>1, <3>2
  <2> QED BY <2>1, <2>2
<1> DEFINE f == [t \in Calls |-> HeldBy(runtime[t], handler[t])]
           g == [t \in Calls |-> HeldBy(runtime'[t], handler'[t])]
<1>2. HeldNow = f /\ HeldNow' = g
  BY DEF HeldNow
<1>3. \A t \in Calls : HeldBy(runtime[t], handler[t]) \in Nat
  BY HeldNat DEF Orderly
<1>4. HeldBy(runtime'[s], handler'[s]) \in Nat
  <2>1. /\ runtime'[s] # NoRuntime => runtime'[s] \in Runtime
        /\ handler'[s] # Idle => handler'[s] \in Handler
    BY DEF Inv, TypeInv, TypeOK
  <2>2. handler'[s] # Idle => handler'[s].rt \in Runtime
    BY <2>1, Zenon DEF Handler
  <2>3. Progress(runtime'[s], handler'[s], Phase'[s], ledger'[s], charged'[s], clock'[s])
    BY DEF StepOf
  <2> QED BY <2>1, <2>2, <2>3, HeldByNat
<1>5. DifferAt(f, g, Calls, s)
  <2>1. \A t \in Calls : t # s => /\ runtime'[t] = runtime[t] /\ handler'[t] = handler[t]
    BY DEF StepOf, Elsewhere
  <2>2. \A t \in Calls : t # s => g[t] = f[t]
    BY <2>1
  <2>3. \A t \in Calls : f[t] \in Int
    BY <1>3
  <2>4. g[s] \in Int
    BY <1>4
  <2> HIDE DEF f, g
  <2> QED BY <2>2, <2>3, <2>4 DEF DifferAt
<1>6. /\ account'.locked - account.locked = g[s] - f[s]
      /\ f[s] \in Nat /\ g[s] \in Nat
  BY <1>3, <1>4 DEF StepOf
<1>7. account'.locked \in Nat /\ account.locked \in Nat
  BY DEF Orderly, Inv, TypeInv, TypeOK, Account
<1>8. account.locked = SumOver(f, Calls)
  BY <1>2 DEF Orderly, Balanced
<1> HIDE DEF f, g
<1>9. /\ SumOver(g, Calls) = SumOver(f, Calls) - f[s] + g[s]
      /\ SumOver(f, Calls) \in Int /\ SumOver(g, Calls) \in Int
  BY <1>5, SumChange, EngineAssumption
<1>10. account'.locked = SumOver(g, Calls)
  BY <1>6, <1>7, <1>8, <1>9
<1> QED BY <1>1, <1>2, <1>10 DEF Balanced

\* A step that leaves the calls and the locked balance alone.
Still == /\ account'.locked = account.locked
         /\ UNCHANGED <<runtime, handler, Phase, ledger, charged, clock>>

\* The router's word about a call that was opened changes no phase of it.
LEMMA SetStatusStill ==
  ASSUME Orderly, NEW s \in Calls, NEW status \in Statuses, SetStatus(s, status)
  PROVE  Still
<1>1. /\ record' = [record EXCEPT ![s] = status] /\ record[s] # "none"
      /\ UNCHANGED <<account, ended, runtime, handler, ledger, clock, charged>>
  BY DEF SetStatus, histories
<1>2. Phase' = [Phase EXCEPT ![s] = IF Phase[s] = "unopened" THEN "open" ELSE Phase[s]]
  BY <1>1, OpenNames, PhaseGoesOn
<1>3. Phase[s] # "unopened"
  BY <1>1 DEF Phase
<1>4. Phase' = Phase
  BY <1>2, <1>3, AreFunctions DEF Functions
<1> QED BY <1>1, <1>4 DEF Still

\* Until a handler dies, a step is one call's, or leaves the calls alone.
LEMMA OneAtATime ==
  ASSUME Orderly, [Next]_vars, crashes' = crashes
  PROVE  (\E s \in Calls : StepOf(s)) \/ Still
<1>1. ASSUME NEW s \in Calls, Handle(s) PROVE StepOf(s)
  BY <1>1, StartCountStep, StartReserveStep, ApplyNextStep, FlushStep, OverwriteStep,
     StoreStep, SettleStep, RemoveStep DEF Handle
<1>2. ASSUME NEW s \in Calls, StartRead(s) \/ Activate(s) \/ Advance(s) \/ Waive(s)
      PROVE  StepOf(s)
  BY <1>2, StartReadStep, ActivateStep, AdvanceStep, WaiveStep
<1>3. ASSUME NEW s \in Calls, NEW status \in Final, Finalize(s, status) PROVE StepOf(s)
  BY <1>3, FinalizeStep
<1>4. ASSUME NEW s \in Calls, NEW status \in Statuses, SetStatus(s, status)
      PROVE  Still
  BY <1>4, SetStatusStill
<1>5. ASSUME NEW s \in Calls, Tick(s) PROVE StepOf(s)
  BY <1>5, TickStep
<1>6. ASSUME NEW s \in Calls PROVE ~Crash(s)
  <2>1. crashes \in Nat
    BY DEF Orderly, Inv, TypeInv, TypeOK
  <2> QED BY <2>1 DEF Crash
<1>7. account \in Account
  BY DEF Orderly, Inv, TypeInv, TypeOK
<1>8. ASSUME NEW a \in Adjustments, Adjust(a) PROVE Still
  <2>1. PICK wallet, outst :
          account' = [account EXCEPT !.wallet = wallet, !.outst = outst]
    BY <1>8 DEF Adjust
  <2>2. account'.locked = account.locked
    BY <1>7, <2>1 DEF Account
  <2> QED BY <1>8, <2>2, PhaseKept DEF Adjust, Still
<1>9. CASE SetBlocked
  <2>1. account'.locked = account.locked
    BY <1>7, <1>9 DEF SetBlocked, Account
  <2> QED BY <1>9, <2>1, PhaseKept DEF SetBlocked, Still
<1>10. CASE UNCHANGED vars
  BY <1>10, PhaseKept DEF vars, Still
<1> QED BY <1>1, <1>2, <1>3, <1>4, <1>5, <1>6, <1>8, <1>9, <1>10 DEF Next

\* A closed call keeps its record, whatever status it is given later.
LEMMA NamedStep ==
  ASSUME Orderly, [Next]_vars, crashes' = crashes
  PROVE  Named'
<1> DEFINE Writes(s, status) == /\ record' = [record EXCEPT ![s] = status]
                                /\ ended' \subseteq ended \cup {s} /\ status # "none"
<1>1. record \in [Calls -> {"none", "created", "ringing", "answered", "active"} \cup Final]
      /\ ended \subseteq Calls /\ Named
  BY DEF Orderly, Inv, TypeInv, TypeOK
<1>2. ASSUME NEW s \in Calls, NEW status, Writes(s, status) PROVE Named'
  BY <1>1, <1>2 DEF Named
<1>3. CASE UNCHANGED <<record, ended>>
  BY <1>1, <1>3 DEF Named
<1>4. ASSUME NEW s \in Calls, Settle(s) PROVE Writes(s, handler[s].status)
  <2>1. Busy(s) /\ handler[s].pc = "settle"
    BY <1>4 DEF Settle, At
  <2>2. handler[s].status # "none"
    BY <2>1, WorkingCall, OpenNames DEF OpenSteps, Opened
  <2> QED BY <1>4, <2>2 DEF Settle
<1>5. ASSUME NEW s \in Calls, StartReserve(s)
      PROVE  UNCHANGED <<record, ended>> \/ Writes(s, "created")
  BY <1>5 DEF StartReserve
<1>6. ASSUME NEW s \in Calls, Activate(s)
      PROVE  UNCHANGED <<record, ended>> \/ Writes(s, "active")
  BY <1>6 DEF Activate
<1>7. ASSUME NEW s \in Calls, NEW status \in Statuses, SetStatus(s, status)
      PROVE  Writes(s, status)
  BY <1>7, OpenNames DEF SetStatus
<1> HIDE DEF Writes
<1>8. ASSUME NEW s \in Calls, Handle(s) PROVE Named'
  BY <1>2, <1>3, <1>4, <1>5, <1>8 DEF Handle, StartCount, ApplyNext, Flush, Overwrite, Store,
     Remove
<1>9. ASSUME NEW s \in Calls, StartRead(s) \/ Activate(s) \/ Advance(s) \/ Waive(s)
      PROVE  Named'
  BY <1>2, <1>3, <1>6, <1>9 DEF StartRead, Advance, Waive
<1>10. ASSUME NEW s \in Calls, NEW status \in Final, Finalize(s, status) PROVE Named'
  BY <1>3, <1>10 DEF Finalize
<1>11. ASSUME NEW s \in Calls, Tick(s) \/ Crash(s) PROVE Named'
  BY <1>3, <1>11 DEF Tick, Crash
<1>12. ASSUME NEW a \in Adjustments, Adjust(a) PROVE Named'
  BY <1>3, <1>12 DEF Adjust
<1>13. CASE SetBlocked \/ UNCHANGED vars
  BY <1>3, <1>13 DEF SetBlocked, vars
<1> QED BY <1>2, <1>7, <1>8, <1>9, <1>10, <1>11, <1>12, <1>13 DEF Next

\* The invariant: until a handler dies, the books of all calls are in order.
Ordered == Inv /\ (crashes = 0 => CallsInv /\ Named /\ Balanced)

LEMMA OrderedInit == Init => Ordered
<1> SUFFICES ASSUME Init PROVE CallsInv /\ Named /\ Balanced
  BY InitSession DEF Ordered
<1>1. \A s \in Calls : /\ runtime[s] = NoRuntime /\ handler[s] = Idle /\ Phase[s] = "unopened"
                       /\ charged[s] = 0 /\ \A t \in EntryTypes : ledger[s][t] = 0
  BY DEF Init, Phase
<1>2. CallsInv
  BY <1>1 DEF CallsInv, Progress, Unopened
<1>3. \A s \in Calls : HeldNow[s] = 0
  BY <1>1 DEF HeldNow, HeldBy
<1>4. SumOver(HeldNow, Calls) = 0
  <2> DEFINE f == HeldNow
  <2>1. \A s \in Calls : f[s] = 0
    BY <1>3
  <2> HIDE DEF f
  <2>2. SumOver(f, Calls) = 0
    BY <2>1, SumZero, EngineAssumption
  <2> QED BY <2>2 DEF f
<1>5. account.locked = 0
  BY EngineAssumption DEF Init
<1> QED BY <1>2, <1>4, <1>5 DEF Balanced, Named, Init

\* Only a handler that dies is counted as one.
LEMMA OnlyCrashes ==
  ASSUME [Next]_vars
  PROVE  crashes' = crashes \/ \E s \in Calls : Crash(s)
<1>1. ASSUME NEW s \in Calls, Handle(s) PROVE crashes' = crashes
  BY <1>1 DEF Handle, StartCount, StartReserve, ApplyNext, Flush, Overwrite, Store,
     Settle, Remove, histories
<1>2. ASSUME NEW s \in Calls, StartRead(s) \/ Activate(s) \/ Advance(s) \/ Waive(s)
      PROVE  crashes' = crashes
  BY <1>2 DEF StartRead, Activate, Advance, Waive, histories
<1>3. ASSUME NEW s \in Calls, NEW status \in Final, Finalize(s, status)
      PROVE  crashes' = crashes
  BY <1>3 DEF Finalize, histories
<1>4. ASSUME NEW s \in Calls, NEW status \in Statuses, SetStatus(s, status)
      PROVE  crashes' = crashes
  BY <1>4 DEF SetStatus, histories
<1>5. ASSUME NEW s \in Calls, Tick(s) PROVE crashes' = crashes
  BY <1>5 DEF Tick, histories
<1>6. ASSUME NEW a \in Adjustments, Adjust(a) PROVE crashes' = crashes
  BY <1>6 DEF Adjust
<1>7. CASE SetBlocked
  BY <1>7 DEF SetBlocked
<1>8. CASE UNCHANGED vars
  BY <1>8 DEF vars
<1> QED BY <1>1, <1>2, <1>3, <1>4, <1>5, <1>6, <1>7, <1>8 DEF Next

\* Nobody undoes a crash.
LEMMA CrashesGrow ==
  ASSUME Inv, [Next]_vars
  PROVE  crashes \in Nat /\ (crashes' = crashes \/ crashes' = crashes + 1)
  BY OnlyCrashes DEF Crash, Inv, TypeInv, TypeOK

LEMMA OrderedStep == Ordered /\ [Next]_vars => Ordered'
<1> SUFFICES ASSUME Ordered, [Next]_vars PROVE Ordered'
  OBVIOUS
<1>1. Inv'
  BY SessionStep DEF Ordered
<1>2. SUFFICES ASSUME crashes' = 0 PROVE CallsInv' /\ Named' /\ Balanced'
  BY <1>1 DEF Ordered
<1>3. crashes = 0 /\ crashes' = crashes
  BY <1>2, CrashesGrow DEF Ordered
<1>4. Orderly
  BY <1>3 DEF Ordered, Orderly
<1>5. Named'
  BY <1>3, <1>4, NamedStep
<1>6. CASE \E s \in Calls : StepOf(s)
  BY <1>1, <1>4, <1>5, <1>6, OrderlyStep
<1>7. CASE Still
  BY <1>4, <1>5, <1>7 DEF Still, Orderly, CallsInv, Balanced, HeldNow
<1> QED BY <1>3, <1>4, <1>6, <1>7, OneAtATime

LEMMA AlwaysOrdered == Spec => []Ordered
  BY OrderedInit, OrderedStep, PTL DEF Spec

---------------------------------------------------------------------------
\* Until a handler dies, the locked balance of the account is what its open
\* calls hold, whatever their handlers do at once: no reservation is lost,
\* duplicated or left behind (reserveWalletAmount, flushAccountBalanceDelta and
\* the release of finalizeCallSession agree with each other).
THEOREM LockedIsHeld == Spec => [](crashes = 0 => LockedBalanceAccounted)
<1>1. Ordered => (crashes = 0 => LockedBalanceAccounted)
  BY HeldSum DEF Ordered, Balanced, LockedBalanceAccounted
<1> QED BY <1>1, AlwaysOrdered, PTL

\* Until a handler dies, the ledger entries of a closed call balance: what was
\* locked for it, at the start and by top-ups, was debited or released
\* (finalizeCallSession).
THEOREM ClosedCallsBalance == Spec => [](crashes = 0 => SettledBooksBalance)
<1>1. ASSUME Orderly PROVE SettledBooksBalance
  <2> SUFFICES ASSUME NEW s \in ended
               PROVE  ledger[s]["wallet_lock"] + ledger[s]["wallet_lock_extension"]
                        = ledger[s]["usage_debit"] + ledger[s]["wallet_release"]
    BY DEF SettledBooksBalance
  <2>2. s \in Calls /\ Phase[s] = "closed"
    BY <1>1 DEF Orderly, Inv, TypeInv, TypeOK, Named, Phase
  <2>1. Progress(runtime[s], handler[s], Phase[s], ledger[s], charged[s], clock[s])
    BY <1>1, <2>2 DEF Orderly, CallsInv
  <2> QED BY <2>1, <2>2 DEF Progress, Closed
<1>2. Ordered => (crashes = 0 => SettledBooksBalance)
  BY <1>1 DEF Ordered, Orderly
<1> QED BY <1>2, AlwaysOrdered, PTL

\* Until a handler dies, the wallet is charged at most the price of the seconds
\* that passed since the answer, however the sweeps batch them
\* (advanceRuntimeSession, applySecond).
THEOREM ChargedThePrice == Spec => [](crashes = 0 => ChargedAtMostThePrice)
<1>1. ASSUME Orderly, NEW s \in Calls PROVE charged[s] <= Worth(clock[s])
  <2>1. /\ Phase[s] \in {"unopened", "open", "closed"}
        /\ Progress(runtime[s], handler[s], Phase[s], ledger[s], charged[s], clock[s])
        /\ Agree(runtime[s], handler[s])
        /\ runtime[s] # NoRuntime => runtime[s] \in Runtime
        /\ handler[s] # Idle => handler[s].rt \in Runtime
        /\ charged[s] \in Int /\ clock[s] \in Nat
    BY <1>1, CallNow
  <2>2. CASE Phase[s] = "unopened"
    <3>1. charged[s] = 0
      BY <2>1, <2>2 DEF Progress, Unopened
    <3>2. Worth(clock[s]) \in Nat
      BY <2>1, WorthGrows
    <3> QED BY <3>1, <3>2
  <2>3. CASE Phase[s] = "closed"
    BY <2>1, <2>3 DEF Progress, Closed
  <2>4. CASE Phase[s] = "open"
    <3>1. PICK rt \in Runtime : Books(rt)
                                /\ Good(rt, ledger[s]["wallet_lock"], charged[s], clock[s])
      <4>1. Opened(runtime[s], handler[s], ledger[s], charged[s], clock[s])
        BY <2>1, <2>4 DEF Progress
      <4>2. CASE handler[s] = Idle
        BY <2>1, <4>1, <4>2 DEF Opened, Agree
      <4>3. CASE handler[s] # Idle
        BY <2>1, <4>1, <4>3 DEF Opened, Agree
      <4> QED BY <4>2, <4>3
    <3> QED BY <2>1, <3>1, DebitWorth
  <2> QED BY <2>1, <2>2, <2>3, <2>4
<1>2. Ordered => (crashes = 0 => ChargedAtMostThePrice)
  BY <1>1 DEF Ordered, Orderly, ChargedAtMostThePrice, Worth
<1> QED BY <1>2, AlwaysOrdered, PTL

---------------------------------------------------------------------------
(* The abstract ledger *)

\* Every step of a call is one of the abstract ledger's, or none.
LEMMA LedgerStep ==
  ASSUME Orderly, Inv', NEW s \in Calls, StepOf(s)
  PROVE  Ledger!Next \/ UNCHANGED Ledger!vars
<1> DEFINE held == [t \in Calls |-> Held(t)]
           phase == Phase
           g == HeldBy(runtime[s], handler[s])
           h == HeldBy(runtime'[s], handler'[s])
<1>1. held = [t \in Calls |-> HeldBy(runtime[t], handler[t])]
      /\ held' = [t \in Calls |-> HeldBy(runtime'[t], handler'[t])]
  <2>1. \A t \in Calls : Held(t) = HeldBy(runtime[t], handler[t])
    BY HeldIsHeldBy
  <2>2. \A t \in Calls : Held(t)' = HeldBy(runtime'[t], handler'[t])
    BY DEF Held, HeldBy, At, Busy, Live, OpenSteps
  <2> QED BY <2>1, <2>2
<1>2. held[s] = g /\ held'[s] = h
  BY <1>1
<1>3. \A t \in Calls : t # s => held'[t] = held[t]
  BY <1>1 DEF StepOf, Elsewhere
<1>4. held' = [held EXCEPT ![s] = held'[s]]
  <2>1. held' = [t \in Calls |-> held'[t]] /\ held = [t \in Calls |-> held[t]]
    BY <1>1
  <2> HIDE DEF held
  <2> QED BY <1>3, <2>1
<1>5. charged' = [charged EXCEPT ![s] = charged'[s]]
  <2>1. charged \in [Calls -> Int] /\ charged' \in [Calls -> Int]
    BY DEF Orderly, Inv, TypeInv, TypeOK
  <2>2. \A t \in Calls : t # s => charged'[t] = charged[t]
    BY DEF StepOf, Elsewhere
  <2> QED BY <2>1, <2>2
<1>6. phase[s] = Phase[s] /\ phase'[s] = Phase'[s]
  OBVIOUS
<1>7. phase' = [phase EXCEPT ![s] = Phase'[s]]
  <2>1. phase' = [t \in Calls |-> phase'[t]] /\ phase = [t \in Calls |-> phase[t]]
    BY DEF Phase
  <2>2. \A t \in Calls : t # s => phase'[t] = phase[t]
    BY DEF StepOf, Elsewhere
  <2> HIDE DEF phase
  <2> QED BY <1>6, <2>1, <2>2
<1>8. Moves(Phase[s], Phase'[s], g, h, charged[s], charged'[s])
  BY DEF StepOf
<1>9. charged[s] \in Int /\ g \in Nat
  BY HeldNat, CallNow DEF Orderly
<1>10. phase = [t \in Calls |-> phase[t]]
  BY DEF Phase
<1> HIDE DEF held, phase, g, h
<1>11. CASE Phase[s] = "unopened" /\ Phase'[s] = "open"
            /\ h >= 0 /\ charged'[s] = charged[s]
  <2>1. Ledger!OnlyCall(s)
    BY <1>2, <1>4, <1>5, <1>9, <1>11 DEF Ledger!OnlyCall, held
  <2>2. phase[s] = "unopened" /\ phase' = [phase EXCEPT ![s] = "open"]
    BY <1>6, <1>7, <1>11
  <2>3. Ledger!Open(s)
    BY <1>11, <2>1, <2>2 DEF Ledger!Open, phase
  <2> QED BY <2>3 DEF Ledger!Next
<1>12. CASE /\ Phase[s] = "open"
            /\ Phase'[s] = "open"
            /\ h >= 0 /\ charged'[s] >= charged[s] /\ h + charged'[s] >= g + charged[s]
  <2>1. Ledger!OnlyCall(s)
    BY <1>2, <1>4, <1>5, <1>9, <1>12 DEF Ledger!OnlyCall, held
  <2>2. phase[s] = "open" /\ phase' = phase
    BY <1>6, <1>7, <1>10, <1>12
  <2>3. Ledger!Use(s)
    BY <1>2, <1>12, <2>1, <2>2 DEF Ledger!Use, phase, held
  <2> QED BY <2>3 DEF Ledger!Next
<1>13. CASE /\ Phase[s] = "open"
            /\ Phase'[s] = "closed"
            /\ h = 0 /\ charged'[s] = charged[s]
  <2>1. Ledger!OnlyCall(s)
    BY <1>2, <1>4, <1>5, <1>9, <1>13 DEF Ledger!OnlyCall, held
  <2>2. phase[s] = "open" /\ phase' = [phase EXCEPT ![s] = "closed"]
    BY <1>6, <1>7, <1>13
  <2>3. Ledger!Close(s)
    BY <1>2, <1>13, <2>1, <2>2 DEF Ledger!Close, phase, held
  <2> QED BY <2>3 DEF Ledger!Next
<1>14. CASE Phase'[s] = Phase[s] /\ h = g /\ charged'[s] = charged[s]
  <2>1. phase' = phase
    BY <1>6, <1>7, <1>10, <1>14
  <2>2. held' = held
    <3>1. held = [t \in Calls |-> held[t]]
      BY DEF held
    <3> QED BY <1>2, <1>4, <1>14, <3>1
  <2>3. charged' = charged
    <3>1. charged = [t \in Calls |-> charged[t]]
      BY DEF Orderly, Inv, TypeInv, TypeOK
    <3> QED BY <1>5, <1>14, <3>1
  <2> QED BY <2>1, <2>2, <2>3 DEF Ledger!vars, phase, held
<1> QED BY <1>8, <1>11, <1>12, <1>13, <1>14 DEF Moves

\* When no handler dies, every call follows the abstract ledger: its hold is
\* opened once, spent or extended while the call is open, never below zero and
\* never taken back, and closed once with nothing left of it.
THEOREM CallsFollowTheLedger ==
  ASSUME MaxCrashes = 0 PROVE Spec => RefinesCallLedger
<1> DEFINE Calm == Ordered /\ crashes = 0
<1>1. Init => Calm
  BY OrderedInit DEF Init
<1>2. ASSUME Calm, [Next]_vars PROVE Calm'
  <2>1. Ordered'
    BY <1>2, OrderedStep
  <2>2. ASSUME NEW s \in Calls PROVE ~Crash(s)
    BY <1>2 DEF Crash
  <2>3. crashes' = 0
    BY <1>2, <2>2, OnlyCrashes
  <2> QED BY <2>1, <2>3
<1>3. Spec => []Calm
  <2> HIDE DEF Calm
  <2> QED BY <1>1, <1>2, PTL DEF Spec
<1>4. Init => Ledger!Init
  <2> SUFFICES ASSUME Init PROVE Ledger!Init
    OBVIOUS
  <2>1. \A s \in Calls : Phase[s] = "unopened" /\ runtime[s] = NoRuntime /\ handler[s] = Idle
    BY DEF Init, Phase
  <2>2. \A s \in Calls : Held(s) = 0
    BY <2>1, HeldIsHeldBy DEF HeldBy
  <2> QED BY <2>1, <2>2 DEF Ledger!Init, Init, Phase
<1>5. ASSUME Calm, Calm', [Next]_vars PROVE [Ledger!Next]_(Ledger!vars)
  <2>1. Orderly /\ Inv' /\ crashes' = crashes
    BY <1>5 DEF Ordered, Orderly
  <2>2. CASE \E s \in Calls : StepOf(s)
    BY <2>1, <2>2, LedgerStep
  <2>3. CASE Still
    <3>1. \A s \in Calls : Held(s)' = Held(s)
      BY <2>3 DEF Still, Held, At, Busy, Live
    <3> QED BY <2>3, <3>1 DEF Still, Ledger!vars
  <2> QED BY <1>5, <2>1, <2>2, <2>3, OneAtATime
<1> HIDE DEF Calm
<1> QED BY <1>3, <1>4, <1>5, PTL DEF RefinesCallLedger, Spec, Ledger!Spec

---------------------------------------------------------------------------
(* One call at a time: the session's copy of the account

   A session works on a copy of the account's wallet and locked balance, made
   when the call began, and a top-up is given out of that copy. While no other
   call of the account is open the copy is not older than what the session itself
   did, and the wallet comes to what the calls took. *)

\* What a session wrote down of the balances agrees with what it did to them:
\* its copy covers the reservation, and moves with the change to be written.
Backed(rt) == rt.avail <= rt.locked /\ rt.avail <= rt.wallet

Faithful(new, old) ==
    /\ Backed(old) => /\ Backed(new)
                      /\ new.wallet - new.pendWallet = old.wallet - old.pendWallet
                      /\ new.locked - new.pendLocked = old.locked - old.pendLocked
    /\ new.outst - new.accrual = old.outst - old.accrual

\* The session's amounts that the account's money depends on.
SameMoney(b, a) ==
    /\ b.avail = a.avail /\ b.wallet = a.wallet /\ b.locked = a.locked
    /\ b.pendWallet = a.pendWallet /\ b.pendLocked = a.pendLocked
    /\ b.outst = a.outst /\ b.accrual = a.accrual

LEMMA Money ==
  ASSUME NEW rt \in Runtime
  PROVE  /\ rt.avail \in Nat /\ rt.wallet \in Nat /\ rt.locked \in Nat
         /\ rt.pendWallet \in Int /\ rt.pendLocked \in Int
         /\ rt.outst \in Nat /\ rt.accrual \in Nat
  BY DEF Runtime

LEMMA FaithfulSame ==
  ASSUME NEW a \in Runtime, NEW b, SameMoney(b, a)
  PROVE  Faithful(b, a)
  BY DEF SameMoney, Faithful, Backed

LEMMA FaithfulOn ==
  ASSUME NEW a \in Runtime, NEW b \in Runtime, NEW c \in Runtime,
         Faithful(c, b), Faithful(b, a)
  PROVE  Faithful(c, a)
<1>1. Backed(a) => /\ Backed(c)
                   /\ c.wallet - c.pendWallet = a.wallet - a.pendWallet
                   /\ c.locked - c.pendLocked = a.locked - a.pendLocked
  BY DEF Faithful
<1>2. c.outst - c.accrual = a.outst - a.accrual
  BY DEF Faithful
<1> QED BY <1>1, <1>2 DEF Faithful

\* The credits pay: no money moves.
LEMMA CreditsFaithful ==
  ASSUME NEW rt \in Runtime, NEW due \in Nat
  PROVE  Faithful(SpendCredits(rt, due), rt)
<1> DEFINE used == Least(rt.credits, due)
<1>1. PICK credits, creditsUsed :
        SpendCredits(rt, due) = [rt EXCEPT !.credits = credits, !.creditsUsed = creditsUsed]
  BY DEF SpendCredits
<1>2. SameMoney([rt EXCEPT !.credits = credits, !.creditsUsed = creditsUsed], rt)
  BY DEF SameMoney, Runtime
<1> QED BY <1>1, <1>2, FaithfulSame

\* A top-up locks no more than the session's copy of the wallet has free.
LEMMA TopUpFaithful ==
  ASSUME NEW rt \in Runtime, NEW required \in Int,
         NEW new, new = TopUpReservation(rt, required)
  PROVE  Faithful(new, rt)
<1> DEFINE available == NonNegative(rt.wallet - rt.locked)
           amount == Least(available, Greatest(required, RatePerMinute))
<1>1. CASE required <= 0 \/ available <= 0
  <2>1. new = rt
    BY <1>1 DEF TopUpReservation
  <2> QED BY <2>1, FaithfulSame DEF SameMoney
<1>2. CASE ~(required <= 0 \/ available <= 0)
  <2>0. /\ rt.avail \in Nat /\ rt.wallet \in Nat /\ rt.locked \in Nat
        /\ rt.pendWallet \in Int /\ rt.pendLocked \in Int
    BY Money
  <2>1. available = rt.wallet - rt.locked
    BY <1>2, <2>0 DEF NonNegative
  <2>2. amount \in Nat /\ amount <= rt.wallet - rt.locked
    BY <1>2, <2>0, <2>1, RuntimeAssumption DEF Least, Greatest
  <2>3. new = [rt EXCEPT !.locked = @ + amount, !.pendLocked = @ + amount,
                  !.total = @ + amount, !.avail = @ + amount, !.topup = @ + amount]
    BY <1>2 DEF TopUpReservation
  <2> HIDE DEF amount, available
  <2>4. /\ new.avail = rt.avail + amount /\ new.locked = rt.locked + amount
        /\ new.pendLocked = rt.pendLocked + amount
    BY <2>3 DEF Runtime
  <2>5. /\ new.wallet = rt.wallet /\ new.pendWallet = rt.pendWallet
        /\ new.outst = rt.outst /\ new.accrual = rt.accrual
    BY <2>3 DEF Runtime
  <2> QED BY <2>0, <2>2, <2>4, <2>5 DEF Faithful, Backed
<1> QED BY <1>1, <1>2

\* What is spent of the reservation leaves the copy and the change alike.
LEMMA ReservationFaithful ==
  ASSUME NEW rt \in Runtime, NEW due \in Nat,
         NEW new, new = SpendReservation(rt, due)
  PROVE  Faithful(new, rt)
<1> DEFINE ready == IF rt.avail < due THEN TopUpReservation(rt, due - rt.avail) ELSE rt
           spend == Least(ready.avail, due)
<1>1. due - rt.avail \in Int
  BY DEF Runtime
<1>2. ready \in Runtime
  BY <1>1, TopUpType
<1>3. Faithful(ready, rt)
  <2>1. CASE rt.avail < due
    BY <1>1, <2>1, TopUpFaithful
  <2>2. CASE ~(rt.avail < due)
    BY <2>2, FaithfulSame DEF SameMoney
  <2> QED BY <2>1, <2>2
<1> HIDE DEF ready
<1>4. /\ ready.avail \in Nat /\ ready.wallet \in Nat /\ ready.locked \in Nat
      /\ ready.pendWallet \in Int /\ ready.pendLocked \in Int
      /\ ready.outst \in Nat /\ ready.accrual \in Nat
  BY <1>2, Money
<1>5. spend \in Nat /\ spend <= ready.avail
  BY <1>4 DEF Least
<1>6. new = [ready EXCEPT !.avail = @ - spend, !.debit = @ + spend,
                !.wallet = NonNegative(@ - spend), !.locked = NonNegative(@ - spend),
                !.pendWallet = @ - spend, !.pendLocked = @ - spend]
  BY DEF SpendReservation, ready
<1> HIDE DEF spend
<1>7. /\ new.avail = ready.avail - spend
      /\ new.wallet = NonNegative(ready.wallet - spend)
      /\ new.locked = NonNegative(ready.locked - spend)
      /\ new.pendWallet = ready.pendWallet - spend
      /\ new.pendLocked = ready.pendLocked - spend
  BY <1>2, <1>6 DEF Runtime
<1>8. new.outst = ready.outst /\ new.accrual = ready.accrual
  BY <1>2, <1>6 DEF Runtime
<1>9. Backed(ready) => new.wallet = ready.wallet - spend /\ new.locked = ready.locked - spend
  BY <1>4, <1>5, <1>7 DEF Backed, NonNegative
<1>10. Faithful(new, ready)
  BY <1>4, <1>5, <1>7, <1>8, <1>9 DEF Faithful, Backed
<1>11. new \in Runtime
  BY SpendReservationType
<1> QED BY <1>2, <1>3, <1>10, <1>11, FaithfulOn

\* What is accrued is added to the copy of the debt.
LEMMA AccrueFaithful ==
  ASSUME NEW rt \in Runtime, NEW due \in Nat,
         NEW new, new = AccruePostpaid(rt, due)
  PROVE  Faithful(new, rt)
<1>1. new = [rt EXCEPT !.outst = rt.outst + due, !.accrual = rt.accrual + due]
  BY DEF AccruePostpaid
<1>2. new.outst = rt.outst + due /\ new.accrual = rt.accrual + due
  BY <1>1 DEF Runtime
<1>3. /\ new.avail = rt.avail /\ new.wallet = rt.wallet /\ new.locked = rt.locked
      /\ new.pendWallet = rt.pendWallet /\ new.pendLocked = rt.pendLocked
  BY <1>1 DEF Runtime
<1> QED BY <1>2, <1>3, Money DEF Faithful, Backed
\* Whatever pays for a second, and also when nothing can.
LEMMA PayFaithful ==
  ASSUME NEW rt \in Runtime, NEW cost \in Nat, NEW new, new = Pay(rt, cost)
  PROVE  Faithful(new.rt, rt)
<1> DEFINE credited == SpendCredits(rt, cost)
           left     == cost - (credited.creditsUsed - rt.creditsUsed)
           prepaid  == IF BillingType = "postpaid" THEN credited
                       ELSE SpendReservation(credited, left)
           due      == left - (prepaid.debit - credited.debit)
           indebted == AccruePostpaid(prepaid, due)
<1>1. credited \in Runtime /\ left \in 0..cost /\ Faithful(credited, rt)
  <2>1. credited \in Runtime /\ Faithful(credited, rt)
    BY SpendCreditsType, CreditsFaithful
  <2>2. credited.creditsUsed - rt.creditsUsed \in 0..cost
    BY SpendCreditsEffect
  <2> HIDE DEF credited
  <2> QED BY <2>1, <2>2
<1> HIDE DEF credited, left
<1>2. prepaid \in Runtime /\ due \in 0..left /\ Faithful(prepaid, credited)
  <2>1. CASE BillingType = "postpaid"
    <3>1. prepaid = credited
      BY <2>1
    <3>2. credited.debit \in Nat
      BY <1>1, Amounts
    <3>3. Faithful(credited, credited)
      BY <1>1, FaithfulSame DEF SameMoney
    <3> QED BY <1>1, <3>1, <3>2, <3>3
  <2>2. CASE BillingType # "postpaid"
    <3>1. prepaid = SpendReservation(credited, left) /\ left \in Nat
      BY <1>1, <2>2
    <3> HIDE DEF prepaid
    <3>2. prepaid \in Runtime /\ Faithful(prepaid, credited)
      BY <1>1, <3>1, SpendReservationType, ReservationFaithful
    <3>3. prepaid.debit - credited.debit \in 0..left
      BY <1>1, <3>1, SpendReservationEffect
    <3> QED BY <1>1, <3>2, <3>3
  <2> QED BY <2>1, <2>2
<1>3. new.rt = prepaid \/ new.rt = indebted
  BY DEF Pay, credited, left
<1> HIDE DEF prepaid, due
<1>4. indebted \in Runtime /\ Faithful(indebted, prepaid)
  BY <1>1, <1>2, AccrueType, AccrueFaithful
<1> HIDE DEF indebted
<1> QED BY <1>1, <1>2, <1>3, <1>4, FaithfulOn

\* One second of a call.
LEMMA SecondFaithful ==
  ASSUME NEW rt \in Runtime, NEW new, new = ApplySecond(rt)
  PROVE  Faithful(new.rt, rt)
<1> DEFINE counted == CountSecond(rt)
           freed   == UseFreeSecond(counted)
           metered == Meter(counted)
           delta   == NextIncrement(counted).delta
           paid    == Pay(metered, delta)
<1>1. counted \in Runtime /\ SameMoney(counted, rt)
  <2>1. counted \in Runtime
    BY CountSecondEffect
  <2> QED BY <2>1 DEF CountSecond, Runtime, SameMoney
<1> HIDE DEF counted
<1>2. SameMoney(freed, counted)
  BY <1>1 DEF UseFreeSecond, Runtime, SameMoney
<1>3. metered \in Runtime /\ SameMoney(metered, counted) /\ delta \in Nat
  <2>1. metered \in Runtime
    BY <1>1, MeterEffect
  <2>2. delta \in Nat
    BY <1>1, NextIncrementType
  <2>3. SameMoney(metered, counted)
    BY <1>1 DEF Meter, Runtime, SameMoney
  <2> QED BY <2>1, <2>2, <2>3
<1> HIDE DEF freed, metered, delta
<1>4. Faithful(paid.rt, metered)
  BY <1>3, PayFaithful
<1>5. paid.rt \in Runtime
  BY <1>3, PayEffect
<1>6. SameMoney(freed, rt) /\ SameMoney(metered, rt)
  BY <1>1, <1>2, <1>3 DEF SameMoney
<1>7. Faithful(rt, rt) /\ Faithful(counted, rt) /\ Faithful(freed, rt) /\ Faithful(metered, rt)
  BY <1>1, <1>6, FaithfulSame DEF SameMoney
<1>8. Faithful(paid.rt, rt)
  BY <1>3, <1>4, <1>5, <1>7, FaithfulOn
<1>9. new.rt = rt \/ new.rt = counted \/ new.rt = freed \/ new.rt = paid.rt
  BY DEF ApplySecond, counted, freed, metered, delta
<1> HIDE DEF paid
<1> QED BY <1>7, <1>8, <1>9
---------------------------------------------------------------------------
(* One call at a time: what each step does to the money *)

\* Redis has the call's session, or a handler works on it.
Going(s) == Busy(s) \/ Live(s)

\* No two calls of the account are open at once.
OneOpen == \A s, t \in Calls : Going(s) /\ Going(t) => s = t

\* A session not yet given its reserve: its copy may miss a credit, no more.
Unreserved(rt, acct) ==
    /\ rt.pendWallet = 0 /\ rt.pendLocked = 0
    /\ rt.wallet <= acct.wallet /\ rt.locked = acct.locked

\* An open session: the account can pay what the session has written down.
Covering(rt, acct) ==
    /\ Backed(rt)
    /\ rt.wallet <= acct.wallet + rt.pendWallet
    /\ rt.locked = acct.locked + rt.pendLocked

Backing(r, h, acct) ==
    /\ h # Idle /\ h.pc \in {"count", "reserve"} => Unreserved(h.rt, acct)
    /\ h # Idle /\ h.pc \in OpenSteps => Covering(h.rt, acct)
    /\ h = Idle /\ r # NoRuntime => Covering(r, acct)

\* A step of call s: what leaves the wallet is charged to it.
WalletKept(s) ==
    Backing(runtime[s], handler[s], account) =>
        /\ Backing(runtime'[s], handler'[s], account')
        /\ account'.wallet + charged'[s] = account.wallet + charged[s]

Pays(s) ==
    /\ StepOf(s) /\ WalletKept(s)
    /\ Going(s) \/ Going(s)'
    /\ adjusted' = adjusted

\* The account's amounts are numbers.
LEMMA Purse ==
  ASSUME Orderly, NEW s \in Calls
  PROVE  /\ account \in Account /\ account.wallet \in Nat /\ account.locked \in Nat
         /\ charged \in [Calls -> Int] /\ charged[s] \in Int
         /\ adjusted.wallet \in Int /\ adjusted.settled \in Nat
  BY DEF Orderly, Inv, TypeInv, TypeOK, Account

\* A step that hands the session on as it is.
LEMMA HandedOn ==
  ASSUME Orderly, NEW s \in Calls, StepOf(s), Going(s),
         UNCHANGED <<account, charged, adjusted>>,
         handler[s] # Idle => handler[s].pc \in OpenSteps,
         NEW a \in Runtime, a = IF handler[s] # Idle THEN handler[s].rt ELSE runtime[s],
         NEW b, b = IF handler'[s] # Idle THEN handler'[s].rt ELSE runtime'[s],
         SameMoney(b, a),
         handler'[s] # Idle => handler'[s].pc \in OpenSteps \ {"settle"}
  PROVE  Pays(s)
<1>1. handler[s] # Idle \/ runtime[s] # NoRuntime
  BY DEF Going, Busy, Live
<1>2. \A pc \in OpenSteps : pc \notin {"count", "reserve"}
  BY DEF OpenSteps
<1>3. Backing(runtime[s], handler[s], account) => Covering(a, account)
  BY <1>1 DEF Backing
<1>4. Covering(a, account) => Covering(b, account)
  BY DEF Covering, Backed, SameMoney
<1>5. Covering(b, account) => Backing(runtime'[s], handler'[s], account)
  BY <1>2 DEF Backing
<1>6. WalletKept(s)
  BY <1>3, <1>4, <1>5 DEF WalletKept
<1> QED BY <1>6 DEF Pays

LEMMA StartReadPays ==
  ASSUME Orderly, NEW s \in Calls, StartRead(s) PROVE Pays(s)
<1> DEFINE rt == NewRuntime(account)
           h == [op |-> "start", pc |-> "count", rt |-> rt, todo |-> 0, reason |-> NoReason,
                 status |-> NoStatus]
<1>1. StepOf(s)
  BY StartReadStep
<1>2. handler' = [handler EXCEPT ![s] = h] /\ handler'[s] = h
  BY AreFunctions DEF StartRead, Hold, Functions
<1>3. /\ rt.wallet = account.wallet /\ rt.locked = account.locked
      /\ rt.pendWallet = 0 /\ rt.pendLocked = 0
  BY DEF NewRuntime
<1> HIDE DEF rt
<1>4. h.pc = "count" /\ h.rt = rt
  OBVIOUS
<1>5. h # Idle
  <2>1. h.op = "start" /\ Idle.op = "idle"
    BY DEF Idle
  <2> QED BY <2>1
<1> HIDE DEF h
<1>6. UNCHANGED <<account, charged, adjusted>>
  BY DEF StartRead, histories
<1>7. Unreserved(rt, account)
  BY <1>3, Purse DEF Unreserved
<1>8. WalletKept(s)
  BY <1>2, <1>4, <1>5, <1>6, <1>7, Purse DEF WalletKept, Backing, OpenSteps
<1> QED BY <1>1, <1>2, <1>5, <1>6, <1>8 DEF Pays, Going, Busy
\* A handler just made is busy, and holds what it was given.
LEMMA MadeHandler ==
  ASSUME NEW op, NEW pc, NEW rt, NEW todo, NEW status
  PROVE  LET h == [op |-> op, pc |-> pc, rt |-> rt, todo |-> todo, reason |-> NoReason,
                   status |-> status]
         IN  h # Idle /\ h.pc = pc /\ h.rt = rt
<1> DEFINE h == [op |-> op, pc |-> pc, rt |-> rt, todo |-> todo, reason |-> NoReason,
                 status |-> status]
<1>1. h.pc = pc /\ h.rt = rt /\ "pc" \in DOMAIN h
  OBVIOUS
<1> HIDE DEF h
<1>2. h # Idle
  BY <1>1 DEF Idle
<1> QED BY <1>1, <1>2 DEF h

LEMMA HandlerThere ==
  ASSUME Orderly, NEW s \in Calls, NEW h, handler' = [handler EXCEPT ![s] = h]
  PROVE  handler'[s] = h
BY AreFunctions DEF Functions

\* A handler begins with the session in Redis, or with the same money.
LEMMA BeginPays ==
  ASSUME Orderly, NEW s \in Calls, StepOf(s), ~Busy(s), Live(s),
         UNCHANGED <<account, charged, adjusted>>,
         NEW h, handler' = [handler EXCEPT ![s] = h], h # Idle, SameMoney(h.rt, runtime[s]),
         h.pc \in {"store", "apply", "flush", "overwrite"}
  PROVE  Pays(s)
<1>1. handler[s] = Idle /\ runtime[s] \in Runtime
  BY LiveCall
<1>2. handler'[s] = h
  BY HandlerThere
<1>3. h.pc \in OpenSteps \ {"settle"}
  BY DEF OpenSteps
<1>4. Going(s)
  BY DEF Going
<1> QED BY <1>1, <1>2, <1>3, <1>4, HandedOn

LEMMA ActivatePays ==
  ASSUME Orderly, NEW s \in Calls, Activate(s) PROVE Pays(s)
<1> DEFINE r == runtime[s]
           answered == [r EXCEPT !.active = TRUE, !.proc = 0]
           limit == MaxDurationSeconds(answered)
           refused == [answered EXCEPT !.term = "INSUFFICIENT_BALANCE"]
           limited == [answered EXCEPT !.hardStop = limit]
           h(pc, rt) == [op |-> "activate", pc |-> pc, rt |-> rt, todo |-> 0,
                         reason |-> NoReason, status |-> NoStatus]
<1>1. /\ ~Busy(s) /\ Live(s) /\ StepOf(s)
      /\ UNCHANGED <<account, charged, adjusted>>
      /\ \/ handler' = [handler EXCEPT ![s] = h("overwrite", refused)]
         \/ handler' = [handler EXCEPT ![s] = h("store", limited)]
  BY ActivateStep DEF Activate, Hold, histories
<1>2. r \in Runtime
  BY <1>1, LiveCall
<1>3. runtime[s] = r
  OBVIOUS
<1> HIDE DEF r, limit
<1>4. SameMoney(refused, r) /\ SameMoney(limited, r)
  BY <1>2 DEF Runtime, SameMoney
<1> HIDE DEF refused, limited
<1>5. \A pc, rt : h(pc, rt) # Idle /\ h(pc, rt).pc = pc /\ h(pc, rt).rt = rt
  BY MadeHandler
<1> HIDE DEF h
<1> QED BY <1>1, <1>3, <1>4, <1>5, BeginPays

LEMMA AdvancePays ==
  ASSUME Orderly, NEW s \in Calls, Advance(s) PROVE Pays(s)
<1> DEFINE rt == runtime[s]
           elapsed == clock[s] - rt.proc
           todo == Least(elapsed, NonNegative(rt.hardStop - rt.proc))
           over == [rt EXCEPT !.term = "MAX_DURATION_REACHED"]
           h(pc, copy, n) == [op |-> "advance", pc |-> pc, rt |-> copy, todo |-> n,
                              reason |-> NoReason, status |-> NoStatus]
<1>1. /\ ~Busy(s) /\ Live(s) /\ StepOf(s)
      /\ UNCHANGED <<account, charged, adjusted>>
      /\ \/ handler' = [handler EXCEPT ![s] = h("apply", rt, todo)]
         \/ handler' = [handler EXCEPT ![s] = h("overwrite", over, 0)]
  BY AdvanceStep DEF Advance, Hold, histories
<1>2. rt \in Runtime
  BY <1>1, LiveCall
<1>3. runtime[s] = rt
  OBVIOUS
<1> HIDE DEF rt, todo
<1>4. SameMoney(over, rt) /\ SameMoney(rt, rt)
  BY <1>2 DEF Runtime, SameMoney
<1> HIDE DEF over
<1>5. \A pc, copy, n : /\ h(pc, copy, n) # Idle
                       /\ h(pc, copy, n).pc = pc /\ h(pc, copy, n).rt = copy
  BY MadeHandler
<1> HIDE DEF h
<1> QED BY <1>1, <1>3, <1>4, <1>5, BeginPays

LEMMA FinalizePays ==
  ASSUME Orderly, NEW s \in Calls, NEW status \in Final, Finalize(s, status) PROVE Pays(s)
<1> DEFINE rt == runtime[s]
           h == [op |-> "finalize", pc |-> "flush", rt |-> rt, todo |-> 0,
                 reason |-> NoReason, status |-> status]
<1>1. /\ ~Busy(s) /\ Live(s) /\ StepOf(s)
      /\ UNCHANGED <<account, charged, adjusted>>
      /\ handler' = [handler EXCEPT ![s] = h]
  BY FinalizeStep DEF Finalize, histories
<1>2. h # Idle /\ h.pc = "flush" /\ h.rt = rt
  BY MadeHandler
<1> HIDE DEF h
<1>3. SameMoney(h.rt, runtime[s])
  BY <1>2 DEF SameMoney
<1> QED BY <1>1, <1>2, <1>3, BeginPays

LEMMA WaivePays ==
  ASSUME Orderly, NEW s \in Calls, Waive(s) PROVE Pays(s)
<1> DEFINE r == runtime[s]
           rt == [r EXCEPT !.waived = TRUE, !.free = @ + r.freeUsed, !.freeUsed = 0]
           h == [op |-> "waive", pc |-> "flush", rt |-> rt, todo |-> 0,
                 reason |-> NoReason, status |-> NoStatus]
<1>1. /\ ~Busy(s) /\ Live(s) /\ StepOf(s)
      /\ UNCHANGED <<account, charged, adjusted>>
      /\ handler' = [handler EXCEPT ![s] = h]
  BY WaiveStep DEF Waive, Hold, histories
<1>2. r \in Runtime
  BY <1>1, LiveCall
<1>3. runtime[s] = r
  OBVIOUS
<1> HIDE DEF r
<1>4. SameMoney(rt, r)
  BY <1>2 DEF Runtime, SameMoney
<1> HIDE DEF rt
<1>5. h # Idle /\ h.pc = "flush" /\ h.rt = rt
  BY MadeHandler
<1> HIDE DEF h
<1> QED BY <1>1, <1>3, <1>4, <1>5, BeginPays
\* A handler that gives up before it reserved: the call is not open any more.
LEMMA GivingUpPays ==
  ASSUME Orderly, NEW s \in Calls, StepOf(s), Busy(s), handler[s].pc \in {"count", "reserve"},
         UNCHANGED <<account, runtime, charged, adjusted>>,
         handler' = [handler EXCEPT ![s] = Idle]
  PROVE  Pays(s)
<1>1. handler'[s] = Idle /\ runtime'[s] = NoRuntime /\ runtime[s] = NoRuntime
  BY HandlerThere, StartingCall DEF Unopened
<1>2. WalletKept(s)
  BY <1>1 DEF WalletKept, Backing
<1> QED BY <1>2 DEF Pays, Going

LEMMA StartCountPays ==
  ASSUME Orderly, NEW s \in Calls, StartCount(s) PROVE Pays(s)
<1> DEFINE rt == handler[s].rt
           reserve == InitialReserve(NonNegative(rt.wallet - rt.locked))
           reserved == [rt EXCEPT !.total = reserve, !.avail = reserve]
           h == [handler[s] EXCEPT !.pc = "reserve", !.rt = reserved]
<1>1. /\ Busy(s) /\ handler[s].pc = "count" /\ StepOf(s)
      /\ UNCHANGED <<account, runtime, charged, adjusted>>
      /\ handler' = [handler EXCEPT ![s] = Idle] \/ handler' = [handler EXCEPT ![s] = h]
  BY StartCountStep DEF StartCount, At, histories
<1>2. CASE handler' = [handler EXCEPT ![s] = Idle]
  BY <1>1, <1>2, GivingUpPays
<1>3. CASE handler' = [handler EXCEPT ![s] = h]
  <2>1. handler[s] # Idle /\ handler[s] \in Handler /\ rt \in Runtime
    BY <1>1, CallNow DEF Busy
  <2> HIDE DEF reserve
  <2>2. h # Idle /\ h.pc = "reserve" /\ h.rt = reserved
    <3>1. h.pc = "reserve" /\ h.rt = reserved /\ "pc" \in DOMAIN h
      <4> HIDE DEF reserved
      <4> QED BY <2>1 DEF Handler
    <3> HIDE DEF h
    <3> QED BY <3>1 DEF Idle
  <2>3. /\ reserved.wallet = rt.wallet /\ reserved.locked = rt.locked
        /\ reserved.pendWallet = rt.pendWallet /\ reserved.pendLocked = rt.pendLocked
    <3> HIDE DEF rt
    <3> QED BY <2>1 DEF Runtime
  <2>4. handler'[s] = h
    BY <1>3, HandlerThere
  <2> HIDE DEF h, reserved
  <2>5. WalletKept(s)
    BY <1>1, <2>1, <2>2, <2>3, <2>4 DEF WalletKept, Backing, Unreserved, OpenSteps
  <2> QED BY <1>1, <2>5 DEF Pays, Going
<1> QED BY <1>1, <1>2, <1>3

\* The reservation is made out of the account as it is by now.
LEMMA StartReservePays ==
  ASSUME Orderly, NEW s \in Calls, StartReserve(s) PROVE Pays(s)
<1> DEFINE rt == handler[s].rt
           reread == [rt EXCEPT !.wallet = account.wallet,
                                !.locked = account.locked + rt.total]
           next == IF rt.total > 0 THEN reread ELSE rt
           h == [handler[s] EXCEPT !.pc = "store", !.rt = next]
<1>1. /\ Busy(s) /\ handler[s].pc = "reserve" /\ StepOf(s)
      /\ UNCHANGED <<runtime, charged, adjusted>>
      /\ \/ /\ handler' = [handler EXCEPT ![s] = Idle]
            /\ account' = account
         \/ /\ ~(rt.total > 0 /\ account.locked + rt.total > account.wallet)
            /\ account' = [account EXCEPT !.locked = @ + rt.total]
            /\ handler' = [handler EXCEPT ![s].pc = "store", ![s].rt = next]
  BY StartReserveStep DEF StartReserve, At, Release, histories
<1>2. CASE handler' = [handler EXCEPT ![s] = Idle] /\ account' = account
  BY <1>1, <1>2, GivingUpPays
<1>3. CASE /\ ~(rt.total > 0 /\ account.locked + rt.total > account.wallet)
           /\ account' = [account EXCEPT !.locked = @ + rt.total]
           /\ handler' = [handler EXCEPT ![s].pc = "store", ![s].rt = next]
  <2>1. /\ handler[s] # Idle /\ handler[s] \in Handler /\ rt \in Runtime
        /\ account \in Account /\ Fresh(rt)
    BY <1>1, CallNow, StartingCall DEF Unopened
  <2>2. /\ rt.avail \in Nat /\ rt.wallet \in Nat /\ rt.locked \in Nat /\ rt.total \in Nat
        /\ account.wallet \in Nat /\ account.locked \in Nat
    BY <2>1, Money, Amounts DEF Account
  <2>3. handler' = [handler EXCEPT ![s] = h]
    BY <1>3, AreFunctions DEF Functions
  <2>4. h # Idle /\ h.pc = "store" /\ h.rt = next
    <3>1. h.pc = "store" /\ h.rt = next /\ "pc" \in DOMAIN h
      <4> HIDE DEF next
      <4> QED BY <2>1 DEF Handler
    <3> HIDE DEF h
    <3> QED BY <3>1 DEF Idle
  <2>5. handler'[s] = h
    BY <2>3, HandlerThere
  <2>6. account'.locked = account.locked + rt.total /\ account'.wallet = account.wallet
    BY <1>3, <2>1 DEF Account
  <2> HIDE DEF h, rt
  <2>7. /\ reread.wallet = account.wallet /\ reread.locked = account.locked + rt.total
        /\ reread.avail = rt.avail
        /\ reread.pendWallet = rt.pendWallet /\ reread.pendLocked = rt.pendLocked
    BY <2>1 DEF Runtime
  <2> HIDE DEF reread
  <2>8. rt.pendWallet = 0 /\ rt.pendLocked = 0 /\ rt.avail = rt.total
    BY <2>1 DEF Fresh
  <2>9. ASSUME Unreserved(rt, account) PROVE Covering(next, account')
    <3>1. CASE rt.total > 0
      <4>1. account.locked + rt.total <= account.wallet
        BY <1>3, <2>2, <3>1
      <4> QED BY <2>2, <2>6, <2>7, <2>8, <3>1, <4>1 DEF Covering, Backed
    <3>2. CASE ~(rt.total > 0)
      BY <2>2, <2>6, <2>8, <2>9, <3>2 DEF Covering, Backed, Unreserved
    <3> QED BY <3>1, <3>2
  <2> HIDE DEF next
  <2>10. WalletKept(s)
    <3>1. Backing(runtime[s], handler[s], account) => Unreserved(rt, account)
      BY <1>1, <2>1 DEF Backing, rt
    <3>2. Covering(next, account') => Backing(runtime'[s], h, account')
      BY <2>4 DEF Backing
    <3> QED BY <1>1, <2>5, <2>6, <2>9, <3>1, <3>2 DEF WalletKept
  <2> QED BY <1>1, <2>10 DEF Pays, Going
<1> QED BY <1>1, <1>2, <1>3

LEMMA ApplyNextPays ==
  ASSUME Orderly, NEW s \in Calls, ApplyNext(s) PROVE Pays(s)
<1> DEFINE h == handler[s]
           result == ApplySecond(h.rt)
           done == result.error # NoReason \/ h.todo = 1
           rt == IF result.error # NoReason THEN result.rt
                 ELSE [result.rt EXCEPT !.proc = @ + 1]
           reason == IF result.error # NoReason THEN result.error
                     ELSE IF h.todo = 1 /\ MaxDurationSeconds(rt) <= 0
                     THEN "MAX_DURATION_REACHED" ELSE NoReason
           pc == IF done THEN "flush" ELSE "apply"
           new == [h EXCEPT !.rt = rt, !.reason = reason, !.todo = @ - 1, !.pc = pc]
<1>1. /\ Busy(s) /\ h.pc = "apply" /\ StepOf(s)
      /\ handler' = [handler EXCEPT ![s] = new]
      /\ UNCHANGED <<account, runtime, charged, adjusted>>
  BY ApplyNextStep DEF ApplyNext, At, histories
<1>2. h # Idle /\ h \in Handler /\ h.rt \in Runtime
  BY <1>1, CallNow DEF Busy
<1>3. handler'[s] = new
  BY <1>1, HandlerThere
<1>4. handler[s] = h
  OBVIOUS
<1> HIDE DEF h, reason
<1>5. Faithful(result.rt, h.rt) /\ result.rt \in Runtime
  BY <1>2, SecondFaithful, ApplySecondEffect
<1> HIDE DEF result
<1>6. SameMoney([result.rt EXCEPT !.proc = @ + 1], result.rt)
  BY <1>5 DEF Runtime, SameMoney
<1>7. SameMoney(rt, result.rt)
  BY <1>6 DEF SameMoney
<1> HIDE DEF rt
<1>8. new.rt = rt /\ new.pc = pc /\ pc \in {"apply", "flush"}
  BY <1>2 DEF Handler
<1>9. new # Idle
  <2>1. "pc" \in DOMAIN new
    BY <1>2 DEF Handler
  <2> HIDE DEF new
  <2> QED BY <2>1 DEF Idle
<1> HIDE DEF new, pc
<1>10. ASSUME Covering(h.rt, account) PROVE Covering(rt, account)
  <2>1. /\ Backed(result.rt)
        /\ result.rt.wallet - result.rt.pendWallet = h.rt.wallet - h.rt.pendWallet
        /\ result.rt.locked - result.rt.pendLocked = h.rt.locked - h.rt.pendLocked
    BY <1>5, <1>10 DEF Faithful, Covering
  <2>2. /\ h.rt.wallet \in Nat /\ h.rt.locked \in Nat
        /\ h.rt.pendWallet \in Int /\ h.rt.pendLocked \in Int
        /\ result.rt.wallet \in Nat /\ result.rt.locked \in Nat
        /\ result.rt.pendWallet \in Int /\ result.rt.pendLocked \in Int
        /\ account.wallet \in Nat /\ account.locked \in Nat
    BY <1>2, <1>5, Money, Purse
  <2>3. /\ h.rt.wallet <= account.wallet + h.rt.pendWallet
        /\ h.rt.locked = account.locked + h.rt.pendLocked
    BY <1>10 DEF Covering
  <2>4. /\ result.rt.wallet <= account.wallet + result.rt.pendWallet
        /\ result.rt.locked = account.locked + result.rt.pendLocked
    BY <2>1, <2>2, <2>3
  <2> QED BY <1>7, <2>1, <2>4 DEF Covering, Backed, SameMoney
<1>11. WalletKept(s)
  BY <1>1, <1>2, <1>3, <1>4, <1>8, <1>9, <1>10 DEF WalletKept, Backing, OpenSteps
<1> QED BY <1>1, <1>11 DEF Pays, Going
\* What a flush of a session that the account covers writes: the change, in full.
LEMMA FlushMoney ==
  ASSUME NEW acct \in Account, NEW rt \in Runtime
  PROVE  LET row == FlushedAccount(acct, rt)
             new == FlushedRuntime(acct, rt)
         IN  /\ row.outst = acct.outst
             /\ new.outst = rt.outst /\ new.accrual = rt.accrual
             /\ Covering(rt, acct) => /\ row.wallet = acct.wallet + rt.pendWallet
                                      /\ Covering(new, row)
<1> DEFINE wallet == NonNegative(acct.wallet + rt.pendWallet)
           locked == NonNegative(acct.locked + rt.pendLocked)
           row == [acct EXCEPT !.wallet = wallet, !.locked = locked]
           new == [rt EXCEPT !.wallet = row.wallet, !.locked = row.locked,
                             !.pendWallet = 0, !.pendLocked = 0]
<1>1. FlushedAccount(acct, rt) = row
  BY DEF FlushedAccount
<1>2. FlushedRuntime(acct, rt) = IF rt.pendWallet = 0 /\ rt.pendLocked = 0 THEN rt ELSE new
  BY <1>1 DEF FlushedRuntime
<1>3. /\ rt.avail \in Nat /\ rt.wallet \in Nat /\ rt.locked \in Nat
      /\ rt.pendWallet \in Int /\ rt.pendLocked \in Int
      /\ acct.wallet \in Nat /\ acct.locked \in Nat
  BY Money DEF Account
<1>4. Covering(rt, acct) => /\ wallet = acct.wallet + rt.pendWallet
                            /\ locked = acct.locked + rt.pendLocked
                            /\ rt.wallet <= wallet /\ rt.locked = locked
  BY <1>3 DEF Covering, NonNegative
<1>5. wallet \in Nat /\ locked \in Nat
  <2>1. acct.wallet + rt.pendWallet \in Int /\ acct.locked + rt.pendLocked \in Int
    BY <1>3
  <2> QED BY <2>1, NonNegativeInNat
<1> HIDE DEF wallet, locked
<1>6. row.wallet = wallet /\ row.locked = locked /\ row.outst = acct.outst
  BY DEF Account
<1> HIDE DEF row
<1>7. /\ new.avail = rt.avail /\ new.wallet = row.wallet /\ new.locked = row.locked
      /\ new.pendWallet = 0 /\ new.pendLocked = 0
      /\ new.outst = rt.outst /\ new.accrual = rt.accrual
  BY DEF Runtime
<1> HIDE DEF new
<1>8. ASSUME Covering(rt, acct), rt.pendWallet = 0, rt.pendLocked = 0 PROVE Covering(rt, row)
  BY <1>3, <1>4, <1>6, <1>8 DEF Covering
<1>9. ASSUME Covering(rt, acct) PROVE Covering(new, row)
  <2>1. rt.avail <= rt.locked /\ rt.avail <= rt.wallet
    BY <1>9 DEF Covering, Backed
  <2>2. rt.avail <= wallet /\ rt.avail <= locked
    BY <1>3, <1>4, <1>5, <1>9, <2>1
  <2> QED BY <1>5, <1>6, <1>7, <2>2 DEF Covering, Backed
<1> QED BY <1>1, <1>2, <1>4, <1>6, <1>7, <1>8, <1>9

LEMMA FlushPays ==
  ASSUME Orderly, NEW s \in Calls, Flush(s) PROVE Pays(s)
<1> DEFINE h == handler[s]
           flushed == FlushedRuntime(account, h.rt)
           new == [h EXCEPT !.pc = "overwrite", !.rt = flushed]
<1>1. /\ Busy(s) /\ h.pc = "flush" /\ StepOf(s)
      /\ account' = FlushedAccount(account, h.rt)
      /\ charged' = [charged EXCEPT ![s] = charged[s] - h.rt.pendWallet]
      /\ handler' = [handler EXCEPT ![s] = new]
      /\ UNCHANGED <<runtime, adjusted>>
  BY FlushStep, AreFunctions DEF Flush, At, Functions
<1>2. h # Idle /\ h \in Handler /\ h.rt \in Runtime /\ account \in Account
  BY <1>1, CallNow DEF Busy
<1>3. handler'[s] = new /\ charged'[s] = charged[s] - h.rt.pendWallet
  <2> HIDE DEF new, h
  <2> QED BY <1>1, HandlerThere, Purse
<1>4. new # Idle /\ new.pc = "overwrite" /\ new.rt = flushed
  <2>1. new.pc = "overwrite" /\ new.rt = flushed /\ "pc" \in DOMAIN new
    <3> HIDE DEF flushed
    <3> QED BY <1>2 DEF Handler
  <2> HIDE DEF new
  <2> QED BY <2>1 DEF Idle
<1>5. handler[s] = h
  OBVIOUS
<1> HIDE DEF new, h
<1>6. Covering(h.rt, account) => /\ account'.wallet = account.wallet + h.rt.pendWallet
                                 /\ Covering(flushed, account')
  BY <1>1, <1>2, FlushMoney
<1> HIDE DEF flushed
<1>7. WalletKept(s)
  <2>1. Backing(runtime[s], handler[s], account) => Covering(h.rt, account)
    BY <1>1, <1>2, <1>5 DEF Backing, OpenSteps
  <2>2. Covering(flushed, account') => Backing(runtime'[s], handler'[s], account')
    BY <1>3, <1>4 DEF Backing
  <2>3. h.rt.pendWallet \in Int /\ account.wallet \in Nat /\ charged[s] \in Int
    BY <1>2, Money, Purse
  <2>4. ASSUME Covering(h.rt, account)
        PROVE  account'.wallet + charged'[s] = account.wallet + charged[s]
    BY <1>3, <1>6, <2>3, <2>4
  <2> QED BY <1>6, <2>1, <2>2, <2>4 DEF WalletKept
<1> QED BY <1>1, <1>7 DEF Pays, Going

LEMMA OverwritePays ==
  ASSUME Orderly, NEW s \in Calls, Overwrite(s) PROVE Pays(s)
<1> DEFINE h == handler[s]
           pc == IF h.op = "finalize" THEN "settle" ELSE "store"
           new == [h EXCEPT !.pc = pc]
<1>1. /\ Busy(s) /\ h.pc = "overwrite" /\ StepOf(s)
      /\ account' = OverwrittenAccount(account, h.rt)
      /\ handler' = [handler EXCEPT ![s] = new]
      /\ UNCHANGED <<runtime, charged, adjusted>>
  BY OverwriteStep, AreFunctions DEF Overwrite, Goto, At, Functions
<1>2. h # Idle /\ h \in Handler /\ h.rt \in Runtime /\ account \in Account
  BY <1>1, CallNow DEF Busy
<1>3. account'.wallet = account.wallet /\ account'.locked = account.locked
  BY <1>1, <1>2 DEF OverwrittenAccount, Account
<1>4. handler'[s] = new
  <2> HIDE DEF new, h
  <2> QED BY <1>1, HandlerThere
<1>5. handler[s] = h
  OBVIOUS
<1> HIDE DEF h
<1>6. new.rt = h.rt /\ new.pc = pc
  BY <1>2 DEF Handler
<1>7. new # Idle
  <2>1. "pc" \in DOMAIN new
    BY <1>2 DEF Handler
  <2> HIDE DEF new
  <2> QED BY <2>1 DEF Idle
<1> HIDE DEF new
<1>8. WalletKept(s)
  BY <1>1, <1>2, <1>3, <1>4, <1>5, <1>6, <1>7 DEF WalletKept, Backing, Covering, OpenSteps
<1> QED BY <1>1, <1>8 DEF Pays, Going

LEMMA StorePays ==
  ASSUME Orderly, NEW s \in Calls, Store(s) PROVE Pays(s)
<1> DEFINE h == handler[s]
           reason == IF h.reason # NoReason THEN h.reason
                     ELSE IF h.op = "advance" /\ h.rt.term = NoReason
                             /\ clock[s] >= h.rt.hardStop
                     THEN "MAX_DURATION_REACHED" ELSE NoReason
           rt == [h.rt EXCEPT !.term = reason]
           new == [h EXCEPT !.pc = "overwrite", !.rt = rt, !.reason = NoReason]
           next == IF reason = NoReason THEN Idle ELSE new
<1>1. /\ Busy(s) /\ h.pc = "store" /\ StepOf(s)
      /\ runtime' = [runtime EXCEPT ![s] = h.rt]
      /\ UNCHANGED <<account, charged, adjusted>>
  BY StoreStep DEF Store, At, histories
<1>2. handler' = [handler EXCEPT ![s] = next]
  <2>1. handler' = [handler EXCEPT ![s] =
               IF reason = NoReason THEN Idle
               ELSE [h EXCEPT !.pc = "overwrite", !.rt.term = reason, !.reason = NoReason]]
    BY Zenon DEF Store
  <2> QED BY <2>1, Zenon
<1>3. h # Idle /\ h \in Handler /\ h.rt \in Runtime
  BY <1>1, CallNow DEF Busy
<1>4. handler[s] = h
  OBVIOUS
<1>5. handler'[s] = next /\ runtime'[s] = h.rt
  <2> HIDE DEF next, h
  <2> QED BY <1>1, <1>2, HandlerThere, AreFunctions DEF Functions
<1> HIDE DEF h, reason
<1>6. SameMoney(rt, h.rt)
  BY <1>3 DEF Runtime, SameMoney
<1> HIDE DEF rt
<1>7. new.rt = rt /\ new.pc = "overwrite"
  BY <1>3 DEF Handler
<1>8. new # Idle
  <2>1. "pc" \in DOMAIN new
    BY <1>3 DEF Handler
  <2> HIDE DEF new
  <2> QED BY <2>1 DEF Idle
<1> HIDE DEF new
<1>9. PICK b : b = IF handler'[s] # Idle THEN handler'[s].rt ELSE runtime'[s]
  OBVIOUS
<1>10. SameMoney(b, h.rt)
  BY <1>5, <1>6, <1>7, <1>8, <1>9 DEF SameMoney
<1>11. handler'[s] # Idle => handler'[s].pc \in OpenSteps \ {"settle"}
  BY <1>5, <1>7 DEF OpenSteps
<1>12. Going(s) /\ h.pc \in OpenSteps
  BY <1>1 DEF Going, OpenSteps
<1> HIDE DEF next
<1>13. h.rt = IF handler[s] # Idle THEN handler[s].rt ELSE runtime[s]
  BY <1>3, <1>4
<1> QED BY <1>1, <1>3, <1>4, <1>9, <1>10, <1>11, <1>12, <1>13, HandedOn
\* The settlement gives the hold back: the wallet was settled before.
LEMMA SettlePays ==
  ASSUME Orderly, NEW s \in Calls, Settle(s) PROVE Pays(s)
<1> DEFINE h == handler[s]
           released == [h.rt EXCEPT !.locked = NonNegative(@ - h.rt.avail),
                                    !.pendLocked = @ - h.rt.avail]
           next == IF h.rt.avail > 0 THEN FlushedRuntime(account, released) ELSE h.rt
           new == [h EXCEPT !.pc = "remove", !.rt = next]
           row == FlushedAccount(account, released)
<1>1. /\ Busy(s) /\ h.pc = "settle" /\ StepOf(s)
      /\ account' = IF h.rt.avail > 0 THEN OverwrittenAccount(row, h.rt) ELSE account
      /\ UNCHANGED <<runtime, charged, adjusted>>
  BY SettleStep DEF Settle, At, histories
<1>2. handler' = [handler EXCEPT ![s] = new]
  <2>1. handler' = [handler EXCEPT ![s].pc = "remove", ![s].rt = next]
    BY DEF Settle
  <2> HIDE DEF next
  <2> QED BY <2>1, AreFunctions DEF Functions
<1>3. /\ h # Idle /\ h \in Handler /\ h.rt \in Runtime /\ Flushed(h.rt)
      /\ account \in Account
  BY <1>1, WorkingCall, CallNow DEF OpenSteps, Opened
<1>4. handler'[s] = new
  <2> HIDE DEF new, h
  <2> QED BY <1>2, HandlerThere
<1>5. new # Idle /\ new.pc = "remove" /\ new.rt = next
  <2>1. new.pc = "remove" /\ new.rt = next /\ "pc" \in DOMAIN new
    <3> HIDE DEF next
    <3> QED BY <1>3 DEF Handler
  <2> HIDE DEF new
  <2> QED BY <2>1 DEF Idle
<1>6. handler[s] = h
  OBVIOUS
<1> HIDE DEF new, h
<1>7. released \in Runtime /\ released.pendWallet = 0
  <2>1. released.pendWallet = h.rt.pendWallet
    BY <1>3 DEF Runtime
  <2>2. released \in Runtime
    BY <1>3, ReleaseType
  <2> HIDE DEF released
  <2> QED BY <1>3, <2>1, <2>2 DEF Flushed
<1> HIDE DEF released
<1>8. row \in Account /\ row.wallet = account.wallet
  <2>1. row = [account EXCEPT !.wallet = NonNegative(@ + released.pendWallet),
                              !.locked = NonNegative(@ + released.pendLocked)]
    BY DEF FlushedAccount
  <2>2. account.wallet \in Nat
    BY <1>3 DEF Account
  <2>3. NonNegative(account.wallet + released.pendWallet) = account.wallet
    BY <1>7, <2>2 DEF NonNegative
  <2>4. row.wallet = NonNegative(account.wallet + released.pendWallet)
    BY <1>3, <2>1 DEF Account
  <2>5. row \in Account
    BY <1>3, <1>7, FlushEffect
  <2> QED BY <2>3, <2>4, <2>5
<1> HIDE DEF next, row
<1>9. account'.wallet = account.wallet
  BY <1>1, <1>3, <1>8 DEF OverwrittenAccount, Account
<1>10. WalletKept(s)
  BY <1>1, <1>4, <1>5, <1>9 DEF WalletKept, Backing, OpenSteps
<1> QED BY <1>1, <1>10 DEF Pays, Going

LEMMA RemovePays ==
  ASSUME Orderly, NEW s \in Calls, Remove(s) PROVE Pays(s)
<1>1. /\ Busy(s) /\ handler[s].pc = "remove" /\ StepOf(s)
      /\ runtime' = [runtime EXCEPT ![s] = NoRuntime]
      /\ handler' = [handler EXCEPT ![s] = Idle]
      /\ UNCHANGED <<account, charged, adjusted>>
  BY RemoveStep DEF Remove, At, Release, histories
<1>2. handler'[s] = Idle /\ runtime'[s] = NoRuntime
  BY <1>1, AreFunctions DEF Functions
<1>3. WalletKept(s)
  BY <1>1, <1>2 DEF WalletKept, Backing
<1> QED BY <1>1, <1>3 DEF Pays, Going

LEMMA TickPays ==
  ASSUME Orderly, NEW s \in Calls, Tick(s) PROVE Pays(s)
<1>1. /\ StepOf(s) /\ Live(s)
      /\ UNCHANGED <<account, runtime, handler, charged, adjusted>>
  BY TickStep DEF Tick, histories
<1>2. WalletKept(s)
  BY <1>1 DEF WalletKept
<1> QED BY <1>1, <1>2 DEF Pays, Going

\* A step of Next that no session makes.
Aside ==
    /\ UNCHANGED <<runtime, handler, charged>>
    /\ \/ \E a \in Adjustments : Adjust(a)
       \/ SetBlocked
       \/ UNCHANGED <<account, adjusted>>

\* Until a handler dies, a step pays for one call, or is nobody's.
LEMMA EachStepPays ==
  ASSUME Orderly, [Next]_vars, crashes' = crashes
  PROVE  (\E s \in Calls : Pays(s)) \/ Aside
<1>1. ASSUME NEW s \in Calls, Handle(s) PROVE Pays(s)
  BY <1>1, StartCountPays, StartReservePays, ApplyNextPays, FlushPays, OverwritePays,
     StorePays, SettlePays, RemovePays DEF Handle
<1>2. ASSUME NEW s \in Calls, StartRead(s) \/ Activate(s) \/ Advance(s) \/ Waive(s)
      PROVE  Pays(s)
  BY <1>2, StartReadPays, ActivatePays, AdvancePays, WaivePays
<1>3. ASSUME NEW s \in Calls, NEW status \in Final, Finalize(s, status) PROVE Pays(s)
  BY <1>3, FinalizePays
<1>4. ASSUME NEW s \in Calls, NEW status \in Statuses, SetStatus(s, status) PROVE Aside
  BY <1>4 DEF SetStatus, histories, Aside
<1>5. ASSUME NEW s \in Calls, Tick(s) PROVE Pays(s)
  BY <1>5, TickPays
<1>6. ASSUME NEW s \in Calls PROVE ~Crash(s)
  <2>1. crashes \in Nat
    BY DEF Orderly, Inv, TypeInv, TypeOK
  <2> QED BY <2>1 DEF Crash
<1>7. ASSUME NEW a \in Adjustments, Adjust(a) PROVE Aside
  BY <1>7 DEF Adjust, Aside
<1>8. CASE SetBlocked
  BY <1>8 DEF SetBlocked, Aside
<1>9. CASE UNCHANGED vars
  BY <1>9 DEF vars, Aside
<1> QED BY <1>1, <1>2, <1>3, <1>4, <1>5, <1>6, <1>7, <1>8, <1>9 DEF Next
---------------------------------------------------------------------------
(* One call at a time: the account adds up *)

WalletInv ==
    /\ account.wallet = InitAccount.wallet + adjusted.wallet - SumOver(charged, Calls)
    /\ \A s \in Calls : Backing(runtime[s], handler[s], account)

\* Only the call that steps is open, before and after.
LEMMA OthersClosed ==
  ASSUME Orderly, NEW s \in Calls, Pays(s), OneOpen, OneOpen', NEW t \in Calls, t # s
  PROVE  runtime'[t] = NoRuntime /\ handler'[t] = Idle
<1>1. runtime'[t] = runtime[t] /\ handler'[t] = handler[t]
  BY DEF Pays, StepOf, Elsewhere
<1>2. Going(t)' = Going(t)
  BY <1>1 DEF Going, Busy, Live
<1>3. ~Going(t)'
  BY <1>2 DEF Pays, OneOpen
<1> QED BY <1>1, <1>3 DEF Going, Busy, Live

\* A sum changes by what one call's part of it changes.
LEMMA OneCallsPart ==
  ASSUME NEW f \in [Calls -> Int], NEW g \in [Calls -> Int], NEW s \in Calls,
         \A t \in Calls : t # s => g[t] = f[t]
  PROVE  /\ SumOver(g, Calls) = SumOver(f, Calls) - f[s] + g[s]
         /\ SumOver(f, Calls) \in Int /\ SumOver(g, Calls) \in Int
<1>1. DifferAt(f, g, Calls, s)
  BY DEF DifferAt
<1> QED BY <1>1, SumChange, EngineAssumption

\* Before any call the sums are zero.
LEMMA SumNone == SumOver([s \in Calls |-> 0], Calls) = 0
<1>1. \A s \in Calls : [t \in Calls |-> 0][s] = 0
  OBVIOUS
<1> QED BY <1>1, SumZero, EngineAssumption

LEMMA Numbers ==
  ASSUME TypeOK
  PROVE  /\ account \in Account /\ account.wallet \in Nat /\ account.outst \in Nat
         /\ account.locked \in Nat
         /\ charged \in [Calls -> Int] /\ accrued \in [Calls -> Nat]
         /\ accrued \in [Calls -> Int]
         /\ adjusted.wallet \in Int /\ adjusted.settled \in Nat
         /\ InitAccount.wallet \in Nat /\ InitAccount.outst \in Nat
         /\ SumOver(charged, Calls) \in Int /\ SumOver(accrued, Calls) \in Int
<1>1. /\ charged \in [Calls -> Int] /\ accrued \in [Calls -> Nat]
      /\ accrued \in [Calls -> Int]
  BY DEF TypeOK
<1>2. SumOver(charged, Calls) \in Int /\ SumOver(accrued, Calls) \in Int
  BY <1>1, SumInt, EngineAssumption
<1> QED BY <1>1, <1>2, EngineAssumption DEF TypeOK, Account

LEMMA WalletCall ==
  ASSUME Orderly, TypeOK', WalletInv, NEW s \in Calls, Pays(s), OneOpen, OneOpen'
  PROVE  WalletInv'
<1>1. /\ Backing(runtime'[s], handler'[s], account')
      /\ account'.wallet + charged'[s] = account.wallet + charged[s]
      /\ adjusted' = adjusted
  BY DEF Pays, WalletKept, WalletInv
<1>2. \A t \in Calls : t # s => Backing(runtime'[t], handler'[t], account')
  BY OthersClosed DEF Backing
<1>3. TypeOK
  BY DEF Orderly, Inv, TypeInv
<1> DEFINE f == charged
           g == charged'
<1>4. f \in [Calls -> Int] /\ g \in [Calls -> Int] /\ \A t \in Calls : t # s => g[t] = f[t]
  BY <1>3 DEF Pays, StepOf, Elsewhere, TypeOK
<1>5. account'.wallet + g[s] = account.wallet + f[s]
  BY <1>1
<1>6. account'.wallet \in Nat
  BY DEF TypeOK, Account
<1>7. account.wallet = InitAccount.wallet + adjusted.wallet - SumOver(f, Calls)
  BY DEF WalletInv
<1>8. /\ account.wallet \in Nat /\ adjusted.wallet \in Int /\ InitAccount.wallet \in Nat
  BY <1>3, Numbers
<1> HIDE DEF f, g
<1>9. /\ SumOver(g, Calls) = SumOver(f, Calls) - f[s] + g[s]
      /\ SumOver(f, Calls) \in Int /\ SumOver(g, Calls) \in Int
  BY <1>4, OneCallsPart
<1>10. account'.wallet = InitAccount.wallet + adjusted.wallet - SumOver(g, Calls)
  BY <1>4, <1>5, <1>6, <1>7, <1>8, <1>9
<1> QED BY <1>1, <1>2, <1>10 DEF WalletInv, g

\* No admin or message takes money out of the wallet.
OnlyCredits ==
    \A a \in Adjustments : a.type \in {"wallet_credit", "credit_limit_settlement"}

\* What an adjustment does to the account.
LEMMA AdjustMoney ==
  ASSUME TypeOK, NEW a \in Adjustments, Adjust(a)
  PROVE  /\ account'.locked = account.locked
         /\ a.type \in {"wallet_credit", "credit_limit_settlement"} =>
              account'.wallet \in Nat /\ account'.wallet >= account.wallet
         /\ account'.outst \in Nat /\ account'.outst <= account.outst
         /\ adjusted'.wallet = adjusted.wallet + (account'.wallet - account.wallet)
<1> DEFINE delta == CASE a.type = "wallet_credit" -> a.amount
                      [] a.type = "credit_limit_settlement" -> 0
                      [] OTHER -> 0 - a.amount
           settled == IF a.type = "credit_limit_settlement" THEN a.amount ELSE 0
           wallet == NonNegative(account.wallet + delta)
           outst == NonNegative(account.outst - settled)
           next == [account EXCEPT !.wallet = wallet, !.outst = outst]
<1>1. /\ account' = next
      /\ adjusted' = [count   |-> adjusted.count + 1,
                      wallet  |-> adjusted.wallet + (next.wallet - account.wallet),
                      settled |-> adjusted.settled + (account.outst - next.outst)]
  BY DEF Adjust
<1>2. account.wallet \in Nat /\ account.outst \in Nat /\ account \in Account
      /\ a.amount \in Nat
  BY Numbers, EngineAssumption
<1>3. a.type \in {"wallet_credit", "credit_limit_settlement"} => delta \in Nat
  BY <1>2
<1>4. settled \in Nat
  BY <1>2
<1> HIDE DEF delta, settled
<1>5. a.type \in {"wallet_credit", "credit_limit_settlement"} =>
        wallet \in Nat /\ wallet >= account.wallet
  BY <1>2, <1>3 DEF NonNegative
<1>6. outst \in Nat /\ outst <= account.outst
  BY <1>2, <1>4 DEF NonNegative
<1> HIDE DEF wallet, outst
<1>7. next.locked = account.locked /\ next.wallet = wallet /\ next.outst = outst
  BY <1>2 DEF Account
<1> HIDE DEF next
<1>8. adjusted'.wallet = adjusted.wallet + (next.wallet - account.wallet)
  BY <1>1
<1> QED BY <1>1, <1>5, <1>6, <1>7, <1>8

\* A credit leaves every session covered.
LEMMA BackingGrows ==
  ASSUME NEW r, NEW h, NEW a, NEW b, Backing(r, h, a), b.locked = a.locked,
         a.wallet \in Nat, b.wallet \in Nat, b.wallet >= a.wallet,
         r # NoRuntime => r \in Runtime, h # Idle => h.rt \in Runtime
  PROVE  Backing(r, h, b)
<1>1. ASSUME NEW rt \in Runtime, Covering(rt, a) PROVE Covering(rt, b)
  BY <1>1, Money DEF Covering
<1>2. ASSUME NEW rt \in Runtime, Unreserved(rt, a) PROVE Unreserved(rt, b)
  BY <1>2, Money DEF Unreserved
<1> QED BY <1>1, <1>2 DEF Backing

LEMMA WalletAside ==
  ASSUME OnlyCredits, Orderly, WalletInv, Aside
  PROVE  WalletInv'
<1>1. TypeOK
  BY DEF Orderly, Inv, TypeInv
<1>2. CASE \E a \in Adjustments : Adjust(a)
  <2>1. /\ account'.locked = account.locked /\ account'.wallet \in Nat
        /\ account'.wallet >= account.wallet
        /\ adjusted'.wallet = adjusted.wallet + (account'.wallet - account.wallet)
    BY <1>1, <1>2, AdjustMoney DEF OnlyCredits
  <2>2. account'.wallet = InitAccount.wallet + adjusted'.wallet - SumOver(charged, Calls)
    BY <1>1, <2>1, Numbers DEF WalletInv
  <2>3. \A s \in Calls : Backing(runtime[s], handler[s], account')
    <3> SUFFICES ASSUME NEW s \in Calls PROVE Backing(runtime[s], handler[s], account')
      OBVIOUS
    <3>1. /\ runtime[s] # NoRuntime => runtime[s] \in Runtime
          /\ handler[s] # Idle => handler[s].rt \in Runtime
      BY CallNow
    <3>2. Backing(runtime[s], handler[s], account) /\ account.wallet \in Nat
      BY <1>1, Numbers DEF WalletInv
    <3> QED BY <2>1, <3>1, <3>2, BackingGrows
  <2> QED BY <2>2, <2>3 DEF Aside, WalletInv
<1>3. CASE SetBlocked
  <2>1. account'.wallet = account.wallet /\ account'.locked = account.locked
    BY <1>1, <1>3 DEF SetBlocked, TypeOK, Account
  <2>2. adjusted'.wallet = adjusted.wallet
    BY <1>1, <1>3 DEF SetBlocked, TypeOK
  <2> QED BY <2>1, <2>2 DEF Aside, WalletInv, Backing, Covering, Unreserved
<1>4. CASE UNCHANGED <<account, adjusted>>
  BY <1>4 DEF Aside, WalletInv
<1> QED BY <1>2, <1>3, <1>4 DEF Aside

LEMMA WalletInit ==
  ASSUME Init PROVE WalletInv
<1>1. /\ account = InitAccount /\ adjusted.wallet = 0 /\ charged = [s \in Calls |-> 0]
      /\ \A s \in Calls : runtime[s] = NoRuntime /\ handler[s] = Idle
  BY DEF Init
<1>2. SumOver(charged, Calls) = 0
  BY <1>1, SumNone
<1>3. InitAccount.wallet \in Nat
  BY EngineAssumption DEF Account
<1> QED BY <1>1, <1>2, <1>3 DEF WalletInv, Backing

\* When the invariants may be used: until a handler dies.
LEMMA StillOrderly ==
  ASSUME Ordered, [Next]_vars, crashes' = 0
  PROVE  Orderly /\ crashes = 0 /\ crashes' = crashes
<1>1. crashes = 0 /\ crashes' = crashes
  BY CrashesGrow DEF Ordered
<1> QED BY <1>1 DEF Ordered, Orderly

---------------------------------------------------------------------------
\* For calls that follow one another, whatever their plan, their length and the
\* credits paid in meanwhile, and until a handler dies, the wallet is what it was,
\* plus the adjustments, less what the calls were charged: the floor at zero of
\* flushAccountBalanceDelta never swallows a debit.
THEOREM WalletAddsUp ==
  ASSUME OnlyCredits
  PROVE  Spec /\ []OneOpen => []WalletAccounted
<1> DEFINE I == crashes = 0 => WalletInv
<1>1. Init => I
  BY WalletInit
<1>2. Ordered /\ Ordered' /\ OneOpen /\ OneOpen' /\ I /\ [Next]_vars => I'
  <2> SUFFICES ASSUME Ordered, Ordered', OneOpen, OneOpen', I, [Next]_vars, crashes' = 0
               PROVE  WalletInv'
    OBVIOUS
  <2>1. Orderly /\ crashes' = crashes /\ WalletInv /\ TypeOK'
    BY StillOrderly DEF Ordered, Inv, TypeInv
  <2>2. CASE \E s \in Calls : Pays(s)
    BY <2>1, <2>2, WalletCall
  <2>3. CASE Aside
    BY <2>1, <2>3, WalletAside
  <2> QED BY <2>1, <2>2, <2>3, EachStepPays
<1>3. I => WalletAccounted
  <2>1. MapThenSumSet(LAMBDA s : charged[s], Calls) = SumOver(charged, Calls)
    BY SumOverIs
  <2> QED BY <2>1 DEF WalletInv, WalletAccounted
<1> QED BY <1>1, <1>2, <1>3, AlwaysOrdered, PTL DEF Spec
---------------------------------------------------------------------------
(* The debt of any number of calls

   Each session writes its own copy of the debt over the account's, so what the
   others accrued or settled meanwhile is forgotten. What is written is still
   never more than all of them accrued: the copy was at most that when the
   session read it, it grew by what the session accrued itself, and what the
   calls accrued only grows. A session that a dead handler left in Redis meters
   its last seconds again, from the accrual that Redis has. *)

\* What a session found owed when it began.
Before(rt) == rt.outst - rt.accrual

\* One call, when the account may owe `room` without it.
Owing(rec, r, h, acc, room) ==
    /\ rec = "none" => /\ acc = 0 /\ r = NoRuntime
                       /\ h # Idle => h.pc \in {"count", "reserve"}
    /\ r # NoRuntime => Before(r) <= room
    /\ h # Idle => /\ Before(h.rt) <= room
                   /\ h.op = "finalize" => h.status # "none"
                   /\ h.pc = "settle" => h.op = "finalize" /\ h.rt.accrual <= acc

Room(s) == InitAccount.outst + SumOver(accrued, Calls) - accrued[s]

DebtInv ==
    /\ account.outst <= InitAccount.outst + SumOver(accrued, Calls)
    /\ \A s \in Calls : Owing(record[s], runtime[s], handler[s], accrued[s], Room(s))

\* A step of call s leaves it, and the account, within what it may owe.
Owes(s) ==
    /\ \A t \in Calls : t # s => /\ record'[t] = record[t] /\ runtime'[t] = runtime[t]
                                 /\ handler'[t] = handler[t] /\ accrued'[t] = accrued[t]
    /\ accrued'[s] >= accrued[s]
    /\ \A room \in Int :
         Owing(record[s], runtime[s], handler[s], accrued[s], room)
           /\ account.outst <= room + accrued[s] =>
         Owing(record'[s], runtime'[s], handler'[s], accrued'[s], room)
           /\ account'.outst <= room + accrued'[s]

LEMMA BeforeInt == ASSUME NEW rt \in Runtime PROVE Before(rt) \in Int
  BY Money DEF Before

\* There is never less room.
LEMMA OwingGrows ==
  ASSUME TypeInv, NEW s \in Calls, NEW room \in Int, NEW more \in Int, more >= room,
         Owing(record[s], runtime[s], handler[s], accrued[s], room)
  PROVE  Owing(record[s], runtime[s], handler[s], accrued[s], more)
<1>1. runtime[s] # NoRuntime => Before(runtime[s]) \in Int
  BY BeforeInt DEF TypeInv, TypeOK
<1>2. handler[s] # Idle => Before(handler[s].rt) \in Int
  BY BusyHandler, BeforeInt DEF Busy
<1> QED BY <1>1, <1>2 DEF Owing

LEMMA DebtStep ==
  ASSUME TypeInv, TypeInv', DebtInv, NEW s \in Calls, Owes(s)
  PROVE  DebtInv'
<1> DEFINE f == accrued
           g == accrued'
           k == InitAccount.outst
<1>1. /\ f \in [Calls -> Int] /\ g \in [Calls -> Int]
      /\ \A t \in Calls : f[t] \in Nat /\ g[t] \in Nat
      /\ \A t \in Calls : t # s => g[t] = f[t]
      /\ g[s] >= f[s] /\ k \in Nat
  BY EngineAssumption DEF Owes, TypeInv, TypeOK, Account
<1>2. /\ account.outst <= k + SumOver(f, Calls)
      /\ \A t \in Calls : Owing(record[t], runtime[t], handler[t], f[t],
                                k + SumOver(f, Calls) - f[t])
      /\ account.outst \in Nat
  BY DEF DebtInv, Room, TypeInv, TypeOK, Account
<1>3. \A room \in Int :
         Owing(record[s], runtime[s], handler[s], f[s], room)
           /\ account.outst <= room + f[s] =>
         Owing(record'[s], runtime'[s], handler'[s], g[s], room)
           /\ account'.outst <= room + g[s]
  BY DEF Owes
<1>4. \A t \in Calls : t # s => /\ record'[t] = record[t] /\ runtime'[t] = runtime[t]
                               /\ handler'[t] = handler[t] /\ g[t] = f[t]
  BY DEF Owes
<1>5. account'.outst <= k + SumOver(g, Calls)
      /\ \A t \in Calls : Owing(record'[t], runtime'[t], handler'[t], g[t],
                                k + SumOver(g, Calls) - g[t])
  <2>1. \A t \in Calls, room \in Int, more \in Int :
          more >= room /\ Owing(record[t], runtime[t], handler[t], f[t], room) =>
            Owing(record[t], runtime[t], handler[t], f[t], more)
    BY OwingGrows
  <2> HIDE DEF f, g, k
  <2>2. /\ SumOver(g, Calls) = SumOver(f, Calls) - f[s] + g[s]
        /\ SumOver(f, Calls) \in Int /\ SumOver(g, Calls) \in Int
    BY <1>1, OneCallsPart
  <2> DEFINE room == k + SumOver(f, Calls) - f[s]
  <2>3. /\ room \in Int /\ room = k + SumOver(g, Calls) - g[s]
        /\ account.outst <= room + f[s]
        /\ Owing(record[s], runtime[s], handler[s], f[s], room)
    BY <1>1, <1>2, <2>2
  <2>4. Owing(record'[s], runtime'[s], handler'[s], g[s], room)
        /\ account'.outst <= room + g[s]
    BY <1>3, <2>3
  <2>5. ASSUME NEW t \in Calls, t # s
        PROVE  Owing(record'[t], runtime'[t], handler'[t], g[t],
                     k + SumOver(g, Calls) - g[t])
    <3>1. /\ k + SumOver(f, Calls) - f[t] \in Int /\ k + SumOver(g, Calls) - g[t] \in Int
          /\ k + SumOver(g, Calls) - g[t] >= k + SumOver(f, Calls) - f[t]
      BY <1>1, <1>4, <2>2, <2>5
    <3>2. Owing(record[t], runtime[t], handler[t], f[t], k + SumOver(g, Calls) - g[t])
      BY <1>2, <2>1, <3>1
    <3> QED BY <1>4, <2>5, <3>2
  <2>6. account'.outst <= k + SumOver(g, Calls)
    BY <1>1, <2>2, <2>3, <2>4
  <2> QED BY <2>3, <2>4, <2>5, <2>6
<1> QED BY <1>5 DEF DebtInv, Room

\* What a step of a call leaves there of it.
Writes(s, rec, r, h, acc) ==
    /\ record' = [record EXCEPT ![s] = rec]
    /\ runtime' = [runtime EXCEPT ![s] = r]
    /\ handler' = [handler EXCEPT ![s] = h]
    /\ accrued' = [accrued EXCEPT ![s] = acc]

LEMMA OwesAs ==
  ASSUME TypeInv, NEW s \in Calls, NEW rec, NEW r, NEW h, NEW acc \in Nat,
         Writes(s, rec, r, h, acc), acc >= accrued[s],
         \A room \in Int :
           Owing(record[s], runtime[s], handler[s], accrued[s], room)
             /\ account.outst <= room + accrued[s] =>
           Owing(rec, r, h, acc, room) /\ account'.outst <= room + acc
  PROVE  Owes(s)
<1>1. record'[s] = rec /\ runtime'[s] = r /\ handler'[s] = h /\ accrued'[s] = acc
  BY DEF Writes, TypeInv, TypeOK
<1>2. \A t \in Calls : t # s => /\ record'[t] = record[t] /\ runtime'[t] = runtime[t]
                               /\ handler'[t] = handler[t] /\ accrued'[t] = accrued[t]
  BY DEF Writes, TypeInv, TypeOK
<1> QED BY <1>1, <1>2 DEF Owes

\* What a step does not write of a call.
LEMMA AsBefore ==
  ASSUME TypeInv, NEW s \in Calls
  PROVE  /\ record = [record EXCEPT ![s] = record[s]]
         /\ runtime = [runtime EXCEPT ![s] = runtime[s]]
         /\ accrued = [accrued EXCEPT ![s] = accrued[s]]
         /\ accrued[s] \in Nat /\ account.outst \in Nat /\ account \in Account
         /\ runtime[s] # NoRuntime => runtime[s] \in Runtime
  BY DEF TypeInv, TypeOK, Account

\* The same, when the debt and the accruals stay.
LEMMA OwesStill ==
  ASSUME TypeInv, NEW s \in Calls, NEW rec, NEW r, NEW h,
         account'.outst = account.outst, Writes(s, rec, r, h, accrued[s]),
         \A room \in Int :
           Owing(record[s], runtime[s], handler[s], accrued[s], room)
             /\ account.outst <= room + accrued[s] =>
           Owing(rec, r, h, accrued[s], room)
  PROVE  Owes(s)
<1>1. accrued[s] \in Nat /\ accrued[s] >= accrued[s]
  BY AsBefore
<1>2. ASSUME NEW room \in Int, Owing(record[s], runtime[s], handler[s], accrued[s], room),
             account.outst <= room + accrued[s]
      PROVE  Owing(rec, r, h, accrued[s], room) /\ account'.outst <= room + accrued[s]
  BY <1>2
<1> QED BY <1>1, <1>2, OwesAs

\* A handler begins with the session in Redis.
LEMMA BeginOwes ==
  ASSUME TypeInv, NEW s \in Calls, Live(s),
         UNCHANGED <<account, runtime, accrued>>,
         record' = record \/ record' = [record EXCEPT ![s] = "active"],
         NEW h, handler' = [handler EXCEPT ![s] = h], SameMoney(h.rt, runtime[s]),
         h.op = "finalize" => h.status # "none", h.pc # "settle"
  PROVE  Owes(s)
<1>1. PICK rec : rec \in {record[s], "active"} /\ record' = [record EXCEPT ![s] = rec]
  BY AsBefore
<1>2. Before(h.rt) = Before(runtime[s]) /\ runtime[s] # NoRuntime
  BY DEF Before, SameMoney, Live
<1>3. ASSUME NEW room \in Int, Owing(record[s], runtime[s], handler[s], accrued[s], room)
      PROVE  Owing(rec, runtime[s], h, accrued[s], room)
  BY <1>1, <1>2, <1>3 DEF Owing
<1>4. Writes(s, rec, runtime[s], h, accrued[s]) /\ account'.outst = account.outst
  BY <1>1, AsBefore DEF Writes
<1> QED BY <1>3, <1>4, OwesStill

\* A handler goes on with the session as it was, stores it, or leaves.
LEMMA MoveOwes ==
  ASSUME TypeInv, NEW s \in Calls, handler[s] # Idle,
         account'.outst = account.outst,
         NEW rec, NEW r, NEW h, Writes(s, rec, r, h, accrued[s]),
         r = runtime[s] \/ (r = handler[s].rt /\ handler[s].pc \notin {"count", "reserve"}),
         h # Idle => /\ Before(h.rt) = Before(handler[s].rt) /\ h.pc # "settle"
                     /\ h.op = handler[s].op /\ h.status = handler[s].status
                     /\ handler[s].pc \in {"count", "reserve"} =>
                          h.pc \in {"count", "reserve"} \/ rec # "none",
         rec = "none" => record[s] = "none"
  PROVE  Owes(s)
<1>1. ASSUME NEW room \in Int, Owing(record[s], runtime[s], handler[s], accrued[s], room)
      PROVE  Owing(rec, r, h, accrued[s], room)
  BY <1>1 DEF Owing
<1> QED BY <1>1, OwesStill

LEMMA StartReadOwes ==
  ASSUME TypeInv, NEW s \in Calls, StartRead(s) PROVE Owes(s)
<1> DEFINE rt == NewRuntime(account)
           h == [op |-> "start", pc |-> "count", rt |-> rt, todo |-> 0, reason |-> NoReason,
                 status |-> NoStatus]
<1>1. /\ record[s] = "none" /\ handler' = [handler EXCEPT ![s] = h]
      /\ UNCHANGED <<account, record, runtime, accrued>>
  BY DEF StartRead, Hold, histories
<1>2. rt.outst = account.outst /\ rt.accrual = 0
  BY DEF NewRuntime
<1> HIDE DEF rt
<1>3. h.op = "start" /\ h.pc = "count" /\ h.rt = rt
  OBVIOUS
<1> HIDE DEF h
<1>4. Before(h.rt) = account.outst /\ account.outst \in Nat
  BY <1>2, <1>3, AsBefore DEF Before
<1>5. ASSUME NEW room \in Int, Owing(record[s], runtime[s], handler[s], accrued[s], room),
             account.outst <= room + accrued[s]
      PROVE  Owing(record[s], runtime[s], h, accrued[s], room)
  BY <1>1, <1>3, <1>4, <1>5 DEF Owing
<1>6. Writes(s, record[s], runtime[s], h, accrued[s]) /\ account'.outst = account.outst
  BY <1>1, AsBefore DEF Writes
<1> QED BY <1>5, <1>6, OwesStill

LEMMA StartCountOwes ==
  ASSUME TypeInv, NEW s \in Calls, StartCount(s) PROVE Owes(s)
<1> DEFINE rt == handler[s].rt
           reserve == InitialReserve(NonNegative(rt.wallet - rt.locked))
           reserved == [rt EXCEPT !.total = reserve, !.avail = reserve]
           h == [handler[s] EXCEPT !.pc = "reserve", !.rt = reserved]
<1>1. /\ Busy(s) /\ handler[s].pc = "count"
      /\ UNCHANGED <<account, runtime, record, accrued>>
      /\ handler' = [handler EXCEPT ![s] = Idle] \/ handler' = [handler EXCEPT ![s] = h]
  BY DEF StartCount, At, histories
<1>2. handler[s] # Idle /\ handler[s] \in Handler /\ rt \in Runtime
  BY <1>1, BusyHandler DEF Busy
<1> HIDE DEF reserve
<1>3. Before(reserved) = Before(rt)
  <2> HIDE DEF rt
  <2> QED BY <1>2 DEF Runtime, Before
<1> HIDE DEF reserved
<1>4. /\ h.pc = "reserve" /\ h.rt = reserved
      /\ h.op = handler[s].op /\ h.status = handler[s].status
  BY <1>2 DEF Handler
<1> HIDE DEF h
<1>5. CASE handler' = [handler EXCEPT ![s] = Idle]
  <2>1. Writes(s, record[s], runtime[s], Idle, accrued[s])
    BY <1>1, <1>5, AsBefore DEF Writes
  <2> QED BY <1>1, <1>2, <2>1, MoveOwes
<1>6. CASE handler' = [handler EXCEPT ![s] = h]
  <2>1. Writes(s, record[s], runtime[s], h, accrued[s])
    BY <1>1, <1>6, AsBefore DEF Writes
  <2> QED BY <1>1, <1>2, <1>3, <1>4, <2>1, MoveOwes
<1> QED BY <1>1, <1>5, <1>6

LEMMA StartReserveOwes ==
  ASSUME TypeInv, NEW s \in Calls, StartReserve(s) PROVE Owes(s)
<1> DEFINE rt == handler[s].rt
           reread == [rt EXCEPT !.wallet = account.wallet,
                                !.locked = account.locked + rt.total]
           next == IF rt.total > 0 THEN reread ELSE rt
           h == [handler[s] EXCEPT !.pc = "store", !.rt = next]
<1>1. /\ Busy(s) /\ handler[s].pc = "reserve" /\ UNCHANGED <<runtime, accrued>>
      /\ \/ /\ handler' = [handler EXCEPT ![s] = Idle]
            /\ UNCHANGED <<account, record>>
         \/ /\ account' = [account EXCEPT !.locked = @ + rt.total]
            /\ record' = [record EXCEPT ![s] = "created"]
            /\ handler' = [handler EXCEPT ![s].pc = "store", ![s].rt = next]
  BY DEF StartReserve, At, Release, histories
<1>2. handler[s] # Idle /\ handler[s] \in Handler /\ rt \in Runtime /\ account \in Account
  BY <1>1, BusyHandler, AsBefore DEF Busy
<1>3. CASE handler' = [handler EXCEPT ![s] = Idle] /\ UNCHANGED <<account, record>>
  <2>1. Writes(s, record[s], runtime[s], Idle, accrued[s])
    BY <1>1, <1>3, AsBefore DEF Writes
  <2> QED BY <1>1, <1>2, <1>3, <2>1, MoveOwes
<1>4. CASE /\ account' = [account EXCEPT !.locked = @ + rt.total]
           /\ record' = [record EXCEPT ![s] = "created"]
           /\ handler' = [handler EXCEPT ![s].pc = "store", ![s].rt = next]
  <2>1. account'.outst = account.outst
    BY <1>2, <1>4 DEF Account
  <2>2. Before(next) = Before(rt)
    <3> HIDE DEF rt
    <3> QED BY <1>2 DEF Runtime, Before
  <2>3. handler' = [handler EXCEPT ![s] = h]
    BY <1>4 DEF TypeInv, TypeOK
  <2> HIDE DEF next
  <2>4. /\ h.pc = "store" /\ h.rt = next
        /\ h.op = handler[s].op /\ h.status = handler[s].status
    BY <1>2 DEF Handler
  <2> HIDE DEF h
  <2>5. Writes(s, "created", runtime[s], h, accrued[s]) /\ "created" # "none"
    BY <1>1, <1>4, <2>3, AsBefore DEF Writes
  <2> QED BY <1>1, <1>2, <2>1, <2>2, <2>4, <2>5, MoveOwes
<1> QED BY <1>1, <1>3, <1>4

LEMMA ActivateOwes ==
  ASSUME TypeInv, NEW s \in Calls, Activate(s) PROVE Owes(s)
<1> DEFINE r == runtime[s]
           answered == [r EXCEPT !.active = TRUE, !.proc = 0]
           limit == MaxDurationSeconds(answered)
           refused == [answered EXCEPT !.term = "INSUFFICIENT_BALANCE"]
           limited == [answered EXCEPT !.hardStop = limit]
           h(pc, rt) == [op |-> "activate", pc |-> pc, rt |-> rt, todo |-> 0,
                         reason |-> NoReason, status |-> NoStatus]
<1>1. /\ Live(s) /\ UNCHANGED <<account, runtime, accrued>>
      /\ \/ handler' = [handler EXCEPT ![s] = h("overwrite", refused)]
         \/ handler' = [handler EXCEPT ![s] = h("store", limited)]
      /\ record' = record \/ record' = [record EXCEPT ![s] = "active"]
  BY DEF Activate, Hold, histories
<1>2. r \in Runtime /\ runtime[s] = r
  BY <1>1, AsBefore DEF Live
<1> HIDE DEF r, limit
<1>3. SameMoney(refused, r) /\ SameMoney(limited, r)
  BY <1>2 DEF Runtime, SameMoney
<1> HIDE DEF refused, limited
<1>4. \A pc, rt : h(pc, rt).op = "activate" /\ h(pc, rt).pc = pc /\ h(pc, rt).rt = rt
  OBVIOUS
<1> HIDE DEF h
<1> QED BY <1>1, <1>2, <1>3, <1>4, BeginOwes

LEMMA AdvanceOwes ==
  ASSUME TypeInv, NEW s \in Calls, Advance(s) PROVE Owes(s)
<1> DEFINE rt == runtime[s]
           elapsed == clock[s] - rt.proc
           todo == Least(elapsed, NonNegative(rt.hardStop - rt.proc))
           over == [rt EXCEPT !.term = "MAX_DURATION_REACHED"]
           h(pc, copy, n) == [op |-> "advance", pc |-> pc, rt |-> copy, todo |-> n,
                              reason |-> NoReason, status |-> NoStatus]
<1>1. /\ Live(s) /\ UNCHANGED <<account, record, runtime, accrued>>
      /\ \/ handler' = [handler EXCEPT ![s] = h("apply", rt, todo)]
         \/ handler' = [handler EXCEPT ![s] = h("overwrite", over, 0)]
  BY DEF Advance, Hold, histories
<1>2. rt \in Runtime /\ runtime[s] = rt
  BY <1>1, AsBefore DEF Live
<1> HIDE DEF rt, todo
<1>3. SameMoney(over, rt) /\ SameMoney(rt, rt)
  BY <1>2 DEF Runtime, SameMoney
<1> HIDE DEF over
<1>4. \A pc, copy, n : /\ h(pc, copy, n).op = "advance"
                       /\ h(pc, copy, n).pc = pc /\ h(pc, copy, n).rt = copy
  OBVIOUS
<1> HIDE DEF h
<1> QED BY <1>1, <1>2, <1>3, <1>4, BeginOwes

LEMMA FinalizeOwes ==
  ASSUME TypeInv, NEW s \in Calls, NEW status \in Final, Finalize(s, status) PROVE Owes(s)
<1> DEFINE rt == runtime[s]
           h == [op |-> "finalize", pc |-> "flush", rt |-> rt, todo |-> 0,
                 reason |-> NoReason, status |-> status]
<1>1. /\ Live(s) /\ UNCHANGED <<account, record, runtime, accrued>>
      /\ handler' = [handler EXCEPT ![s] = h]
  BY DEF Finalize, histories
<1>2. h.pc = "flush" /\ h.rt = rt /\ h.status = status
  OBVIOUS
<1> HIDE DEF h
<1>3. SameMoney(h.rt, runtime[s])
  BY <1>2 DEF SameMoney
<1>4. status # "none"
  BY OpenNames
<1> QED BY <1>1, <1>2, <1>3, <1>4, BeginOwes

LEMMA WaiveOwes ==
  ASSUME TypeInv, NEW s \in Calls, Waive(s) PROVE Owes(s)
<1> DEFINE r == runtime[s]
           rt == [r EXCEPT !.waived = TRUE, !.free = @ + r.freeUsed, !.freeUsed = 0]
           h == [op |-> "waive", pc |-> "flush", rt |-> rt, todo |-> 0,
                 reason |-> NoReason, status |-> NoStatus]
<1>1. /\ Live(s) /\ UNCHANGED <<account, record, runtime, accrued>>
      /\ handler' = [handler EXCEPT ![s] = h]
  BY DEF Waive, Hold, histories
<1>2. r \in Runtime /\ runtime[s] = r
  BY <1>1, AsBefore DEF Live
<1> HIDE DEF r
<1>3. SameMoney(rt, r)
  BY <1>2 DEF Runtime, SameMoney
<1> HIDE DEF rt
<1>4. h.op = "waive" /\ h.pc = "flush" /\ h.rt = rt
  OBVIOUS
<1> HIDE DEF h
<1> QED BY <1>1, <1>2, <1>3, <1>4, BeginOwes

\* A second accrues to the copy what it adds to the debt in it.
LEMMA ApplyNextOwes ==
  ASSUME TypeInv, NEW s \in Calls, ApplyNext(s) PROVE Owes(s)
<1> DEFINE h == handler[s]
           result == ApplySecond(h.rt)
           done == result.error # NoReason \/ h.todo = 1
           rt == IF result.error # NoReason THEN result.rt
                 ELSE [result.rt EXCEPT !.proc = @ + 1]
           reason == IF result.error # NoReason THEN result.error
                     ELSE IF h.todo = 1 /\ MaxDurationSeconds(rt) <= 0
                     THEN "MAX_DURATION_REACHED" ELSE NoReason
           pc == IF done THEN "flush" ELSE "apply"
           new == [h EXCEPT !.rt = rt, !.reason = reason, !.todo = @ - 1, !.pc = pc]
<1>1. /\ Busy(s) /\ h.pc = "apply" /\ handler' = [handler EXCEPT ![s] = new]
      /\ UNCHANGED <<account, runtime, record, accrued>>
  BY DEF ApplyNext, At, histories
<1>2. h # Idle /\ h \in Handler /\ h.rt \in Runtime /\ handler[s] = h
  BY <1>1, BusyHandler DEF Busy
<1> HIDE DEF h, reason
<1>3. Before(result.rt) = Before(h.rt) /\ result.rt \in Runtime
  BY <1>2, SecondFaithful, ApplySecondEffect DEF Faithful, Before
<1> HIDE DEF result
<1>4. Before([result.rt EXCEPT !.proc = @ + 1]) = Before(result.rt)
  BY <1>3 DEF Runtime, Before
<1>5. Before(rt) = Before(h.rt)
  BY <1>3, <1>4
<1> HIDE DEF rt
<1>6. /\ new.rt = rt /\ new.pc = pc /\ pc \in {"apply", "flush"}
      /\ new.op = h.op /\ new.status = h.status
  BY <1>2 DEF Handler
<1> HIDE DEF new, pc
<1>7. Writes(s, record[s], runtime[s], new, accrued[s])
  BY <1>1, AsBefore DEF Writes
<1> QED BY <1>1, <1>2, <1>5, <1>6, <1>7, MoveOwes

LEMMA FlushOwes ==
  ASSUME TypeInv, NEW s \in Calls, Flush(s) PROVE Owes(s)
<1> DEFINE h == handler[s]
           flushed == FlushedRuntime(account, h.rt)
           new == [h EXCEPT !.pc = "overwrite", !.rt = flushed]
<1>1. /\ Busy(s) /\ h.pc = "flush" /\ account' = FlushedAccount(account, h.rt)
      /\ handler' = [handler EXCEPT ![s] = new]
      /\ UNCHANGED <<runtime, record, accrued>>
  BY DEF Flush, At, TypeInv, TypeOK
<1>2. /\ h # Idle /\ h \in Handler /\ h.rt \in Runtime /\ account \in Account
      /\ handler[s] = h
  BY <1>1, BusyHandler, AsBefore DEF Busy
<1> HIDE DEF h
<1>3. account'.outst = account.outst /\ Before(flushed) = Before(h.rt)
  BY <1>1, <1>2, FlushMoney DEF Before
<1> HIDE DEF flushed
<1>4. /\ new.pc = "overwrite" /\ new.rt = flushed
      /\ new.op = h.op /\ new.status = h.status
  BY <1>2 DEF Handler
<1> HIDE DEF new
<1>5. Writes(s, record[s], runtime[s], new, accrued[s])
  BY <1>1, AsBefore DEF Writes
<1> QED BY <1>1, <1>2, <1>3, <1>4, <1>5, MoveOwes

\* What the session had accrued by now is all that its write can add.
LEMMA OverwriteOwes ==
  ASSUME TypeInv, NEW s \in Calls, Overwrite(s) PROVE Owes(s)
<1> DEFINE h == handler[s]
           pc == IF h.op = "finalize" THEN "settle" ELSE "store"
           new == [h EXCEPT !.pc = pc]
           acc == Greatest(accrued[s], h.rt.accrual)
<1>1. /\ Busy(s) /\ h.pc = "overwrite" /\ account' = OverwrittenAccount(account, h.rt)
      /\ handler' = [handler EXCEPT ![s] = new]
      /\ accrued' = [accrued EXCEPT ![s] = acc] /\ UNCHANGED <<runtime, record>>
  BY DEF Overwrite, Goto, At, TypeInv, TypeOK
<1>2. /\ h # Idle /\ h \in Handler /\ h.rt \in Runtime /\ account \in Account
      /\ handler[s] = h
  BY <1>1, BusyHandler, AsBefore DEF Busy
<1> HIDE DEF h
<1>3. /\ h.rt.outst \in Nat /\ h.rt.accrual \in Nat /\ accrued[s] \in Nat
      /\ account'.outst = h.rt.outst
  BY <1>1, <1>2, Money, AsBefore DEF OverwrittenAccount, Account
<1>4. acc \in Nat /\ acc >= accrued[s] /\ acc >= h.rt.accrual
  BY <1>3 DEF Greatest
<1> HIDE DEF acc
<1>5. new.rt = h.rt /\ new.pc = pc /\ new.op = h.op /\ new.status = h.status
  BY <1>2 DEF Handler
<1> HIDE DEF new
<1>6. ASSUME NEW room \in Int, Owing(record[s], runtime[s], handler[s], accrued[s], room)
      PROVE  Owing(record[s], runtime[s], new, acc, room) /\ account'.outst <= room + acc
  <2>1. record[s] # "none" /\ Before(h.rt) <= room
        /\ (h.op = "finalize" => h.status # "none")
    BY <1>1, <1>2, <1>6 DEF Owing
  <2>2. account'.outst <= room + acc
    BY <1>3, <1>4, <2>1 DEF Before
  <2> QED BY <1>4, <1>5, <1>6, <2>1, <2>2 DEF Owing
<1>7. Writes(s, record[s], runtime[s], new, acc)
  BY <1>1, AsBefore DEF Writes
<1> QED BY <1>4, <1>6, <1>7, OwesAs

LEMMA StoreOwes ==
  ASSUME TypeInv, NEW s \in Calls, Store(s) PROVE Owes(s)
<1> DEFINE h == handler[s]
           reason == IF h.reason # NoReason THEN h.reason
                     ELSE IF h.op = "advance" /\ h.rt.term = NoReason
                             /\ clock[s] >= h.rt.hardStop
                     THEN "MAX_DURATION_REACHED" ELSE NoReason
           rt == [h.rt EXCEPT !.term = reason]
           new == [h EXCEPT !.pc = "overwrite", !.rt = rt, !.reason = NoReason]
<1>1. /\ Busy(s) /\ h.pc = "store" /\ runtime' = [runtime EXCEPT ![s] = h.rt]
      /\ UNCHANGED <<account, record, accrued>>
  BY DEF Store, At, histories
<1>2. handler' = [handler EXCEPT ![s] = Idle] \/ handler' = [handler EXCEPT ![s] = new]
  BY Zenon DEF Store
<1>3. h # Idle /\ h \in Handler /\ h.rt \in Runtime /\ handler[s] = h
  BY <1>1, BusyHandler DEF Busy
<1> HIDE DEF h, reason
<1>4. Before(rt) = Before(h.rt)
  BY <1>3 DEF Runtime, Before
<1> HIDE DEF rt
<1>5. /\ new.rt = rt /\ new.pc = "overwrite" /\ new.op = h.op /\ new.status = h.status
  BY <1>3 DEF Handler
<1> HIDE DEF new
<1>6. CASE handler' = [handler EXCEPT ![s] = Idle]
  <2>1. Writes(s, record[s], h.rt, Idle, accrued[s])
    BY <1>1, <1>6, AsBefore DEF Writes
  <2> QED BY <1>1, <1>3, <2>1, MoveOwes
<1>7. CASE handler' = [handler EXCEPT ![s] = new]
  <2>1. Writes(s, record[s], h.rt, new, accrued[s])
    BY <1>1, <1>7, AsBefore DEF Writes
  <2> QED BY <1>1, <1>3, <1>4, <1>5, <2>1, MoveOwes
<1> QED BY <1>2, <1>6, <1>7

\* The settlement may write the session's debt once more: it is the same.
LEMMA SettleOwes ==
  ASSUME TypeInv, NEW s \in Calls, Settle(s) PROVE Owes(s)
<1> DEFINE h == handler[s]
           released == [h.rt EXCEPT !.locked = NonNegative(@ - h.rt.avail),
                                    !.pendLocked = @ - h.rt.avail]
           next == IF h.rt.avail > 0 THEN FlushedRuntime(account, released) ELSE h.rt
           new == [h EXCEPT !.pc = "remove", !.rt = next]
           row == FlushedAccount(account, released)
<1>1. /\ Busy(s) /\ h.pc = "settle"
      /\ account' = IF h.rt.avail > 0 THEN OverwrittenAccount(row, h.rt) ELSE account
      /\ record' = [record EXCEPT ![s] = h.status]
      /\ handler' = [handler EXCEPT ![s].pc = "remove", ![s].rt = next]
      /\ UNCHANGED <<runtime, accrued>>
  BY DEF Settle, At, histories
<1>2. handler' = [handler EXCEPT ![s] = new]
  <2> HIDE DEF next
  <2> QED BY <1>1 DEF TypeInv, TypeOK
<1>3. /\ h # Idle /\ h \in Handler /\ h.rt \in Runtime /\ account \in Account
      /\ handler[s] = h
  BY <1>1, BusyHandler, AsBefore DEF Busy
<1> HIDE DEF h
<1>4. released \in Runtime
  BY <1>3, ReleaseType
<1>5. released.outst = h.rt.outst /\ released.accrual = h.rt.accrual
  BY <1>3 DEF Runtime
<1> HIDE DEF released
<1>6. row \in Account
  BY <1>3, <1>4, FlushEffect
<1>7. Before(next) = Before(h.rt)
  BY <1>3, <1>4, <1>5, FlushMoney DEF Before
<1> HIDE DEF next, row
<1>8. new.pc = "remove" /\ new.rt = next /\ new.op = h.op /\ new.status = h.status
  BY <1>3 DEF Handler
<1> HIDE DEF new
<1>9. account'.outst = h.rt.outst \/ account'.outst = account.outst
  BY <1>1, <1>3, <1>6 DEF OverwrittenAccount, Account
<1>10. h.rt.outst \in Nat /\ h.rt.accrual \in Nat /\ accrued[s] \in Nat
       /\ account.outst \in Nat
  BY <1>3, Money, AsBefore
<1>11. ASSUME NEW room \in Int, Owing(record[s], runtime[s], handler[s], accrued[s], room),
              account.outst <= room + accrued[s]
       PROVE  Owing(h.status, runtime[s], new, accrued[s], room)
              /\ account'.outst <= room + accrued[s]
  <2>1. /\ h.status # "none" /\ h.rt.accrual <= accrued[s] /\ Before(h.rt) <= room
        /\ runtime[s] # NoRuntime => Before(runtime[s]) <= room
    BY <1>1, <1>3, <1>11 DEF Owing
  <2>2. h.rt.outst <= room + accrued[s]
    BY <1>10, <2>1 DEF Before
  <2>3. account'.outst <= room + accrued[s]
    BY <1>9, <1>11, <2>2
  <2>4. Owing(h.status, runtime[s], new, accrued[s], room)
    BY <1>7, <1>8, <2>1 DEF Owing
  <2> QED BY <2>3, <2>4
<1>12. Writes(s, h.status, runtime[s], new, accrued[s])
  <2>1. record' = [record EXCEPT ![s] = h.status] /\ UNCHANGED <<runtime, accrued>>
    BY <1>1
  <2> QED BY <1>2, <2>1, AsBefore DEF Writes
<1>13. accrued[s] >= accrued[s]
  BY <1>10
<1> QED BY <1>10, <1>11, <1>12, <1>13, OwesAs

LEMMA RemoveOwes ==
  ASSUME TypeInv, NEW s \in Calls, Remove(s) PROVE Owes(s)
<1>1. /\ runtime' = [runtime EXCEPT ![s] = NoRuntime]
      /\ handler' = [handler EXCEPT ![s] = Idle]
      /\ UNCHANGED <<account, record, accrued>>
  BY DEF Remove, Release, histories
<1>2. ASSUME NEW room \in Int, Owing(record[s], runtime[s], handler[s], accrued[s], room)
      PROVE  Owing(record[s], NoRuntime, Idle, accrued[s], room)
  BY <1>2 DEF Owing
<1>3. Writes(s, record[s], NoRuntime, Idle, accrued[s]) /\ account'.outst = account.outst
  BY <1>1, AsBefore DEF Writes
<1> QED BY <1>2, <1>3, OwesStill

\* A handler that dies takes with it what it accrued and did not write.
LEMMA CrashOwes ==
  ASSUME TypeInv, NEW s \in Calls, Crash(s) PROVE Owes(s)
<1>1. /\ Busy(s) /\ handler' = [handler EXCEPT ![s] = Idle]
      /\ UNCHANGED <<account, record, runtime, accrued>>
  BY DEF Crash, Release
<1>2. /\ Writes(s, record[s], runtime[s], Idle, accrued[s])
      /\ handler[s] # Idle /\ account'.outst = account.outst
  BY <1>1, AsBefore DEF Writes, Busy
<1> QED BY <1>2, MoveOwes

LEMMA SetStatusOwes ==
  ASSUME TypeInv, NEW s \in Calls, NEW status \in Statuses, SetStatus(s, status)
  PROVE  Owes(s)
<1>1. /\ record[s] # "none" /\ record' = [record EXCEPT ![s] = status]
      /\ UNCHANGED <<account, runtime, handler, accrued>>
  BY DEF SetStatus, histories
<1>2. status # "none"
  BY OpenNames
<1>3. ASSUME NEW room \in Int, Owing(record[s], runtime[s], handler[s], accrued[s], room)
      PROVE  Owing(status, runtime[s], handler[s], accrued[s], room)
  BY <1>1, <1>2, <1>3 DEF Owing
<1>4. handler' = [handler EXCEPT ![s] = handler[s]]
  BY <1>1 DEF TypeInv, TypeOK
<1>5. Writes(s, status, runtime[s], handler[s], accrued[s]) /\ account'.outst = account.outst
  BY <1>1, <1>4, AsBefore DEF Writes
<1> QED BY <1>3, <1>5, OwesStill

\* A step that no call makes settles the debt, or leaves it.
LEMMA DebtAside ==
  ASSUME TypeInv, TypeInv', DebtInv, UNCHANGED <<record, runtime, handler, accrued>>,
         account'.outst <= account.outst
  PROVE  DebtInv'
<1>1. account.outst \in Nat /\ account'.outst \in Nat /\ InitAccount.outst \in Nat
      /\ SumOver(accrued, Calls) \in Int
  BY Numbers, EngineAssumption DEF TypeInv, TypeOK, Account
<1>2. account'.outst <= InitAccount.outst + SumOver(accrued, Calls)
  BY <1>1 DEF DebtInv
<1> QED BY <1>2 DEF DebtInv, Room

LEMMA DebtNext == Inv /\ Inv' /\ DebtInv /\ [Next]_vars => DebtInv'
<1> SUFFICES ASSUME TypeInv, TypeInv', DebtInv, [Next]_vars PROVE DebtInv'
  BY DEF Inv
<1>1. ASSUME NEW s \in Calls, Handle(s) PROVE Owes(s)
  BY <1>1, StartCountOwes, StartReserveOwes, ApplyNextOwes, FlushOwes, OverwriteOwes,
     StoreOwes, SettleOwes, RemoveOwes DEF Handle
<1>2. ASSUME NEW s \in Calls, StartRead(s) \/ Activate(s) \/ Advance(s) \/ Waive(s)
      PROVE  Owes(s)
  BY <1>2, StartReadOwes, ActivateOwes, AdvanceOwes, WaiveOwes
<1>3. ASSUME NEW s \in Calls, NEW status \in Final, Finalize(s, status) PROVE Owes(s)
  BY <1>3, FinalizeOwes
<1>4. ASSUME NEW s \in Calls, NEW status \in Statuses, SetStatus(s, status) PROVE Owes(s)
  BY <1>4, SetStatusOwes
<1>5. ASSUME NEW s \in Calls, Crash(s) PROVE Owes(s)
  BY <1>5, CrashOwes
<1>6. account.outst \in Nat /\ account \in Account
  BY DEF TypeInv, TypeOK, Account
<1>7. ASSUME NEW s \in Calls, Tick(s) PROVE DebtInv'
  BY <1>6, <1>7, DebtAside DEF Tick, histories
<1>8. ASSUME NEW a \in Adjustments, Adjust(a) PROVE DebtInv'
  <2>1. account'.outst <= account.outst
    BY <1>8, AdjustMoney DEF TypeInv
  <2> QED BY <1>8, <2>1, DebtAside DEF Adjust
<1>9. CASE SetBlocked
  <2>1. account'.outst = account.outst
    BY <1>6, <1>9 DEF SetBlocked, Account
  <2> QED BY <1>6, <1>9, <2>1, DebtAside DEF SetBlocked
<1>10. CASE UNCHANGED vars
  BY <1>6, <1>10, DebtAside DEF vars
<1>11. ASSUME NEW s \in Calls, Owes(s) PROVE DebtInv'
  BY <1>11, DebtStep
<1> QED BY <1>1, <1>2, <1>3, <1>4, <1>5, <1>7, <1>8, <1>9, <1>10, <1>11 DEF Next

LEMMA DebtInit == Init => DebtInv
<1> SUFFICES ASSUME Init PROVE DebtInv
  OBVIOUS
<1>1. /\ account = InitAccount /\ accrued = [s \in Calls |-> 0]
      /\ \A s \in Calls : runtime[s] = NoRuntime /\ handler[s] = Idle
  BY DEF Init
<1>2. SumOver(accrued, Calls) = 0
  BY <1>1, SumNone
<1>3. InitAccount.outst \in Nat
  BY EngineAssumption DEF Account
<1> QED BY <1>1, <1>2, <1>3 DEF DebtInv, Owing

---------------------------------------------------------------------------
\* Whatever calls are open at once, whatever is settled meanwhile and however many
\* handlers die, the account never owes more than it owed plus what its calls
\* accrued, although every session writes the debt over from its own copy
\* (persistRuntimeState, finalizeCallSession).
THEOREM NobodyOwesMore == Spec => []DebtIsEarned
<1>1. DebtInv => DebtIsEarned
  <2>1. MapThenSumSet(LAMBDA s : accrued[s], Calls) = SumOver(accrued, Calls)
    BY SumOverIs
  <2> QED BY <2>1 DEF DebtInv, DebtIsEarned
<1> QED BY <1>1, DebtInit, DebtNext, AlwaysInv, PTL DEF Spec
=============================================================================
