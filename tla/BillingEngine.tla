--------------------------- MODULE BillingEngine ---------------------------
(***************************************************************************)
(* The metered calls of one organisation's billing account                  *)
(* (server/billing-engine.ts).  The account row, the call records and the    *)
(* ledger are in Postgres; each call's CallRuntimeState is in Redis; a        *)
(* handler works on a copy of it in its own memory.  A step is the code      *)
(* between two awaits that other handlers can observe: one SQL statement or  *)
(* transaction, or one Redis command.  The handlers of one call exclude       *)
(* each other (withRedisLock); those of different calls interleave freely,   *)
(* and all of them share the account row.                                    *)
(***************************************************************************)
EXTENDS BillingRuntime, FiniteSets, FiniteSetsExt

CONSTANTS
    Calls,            \* session ids
    Final,            \* the final statuses in use, of the four of the source
    InitAccount,      \* the account row at the start
    MaxConcurrent,    \* the account's maxConcurrentCalls, 0 for no limit
    Statuses,         \* non-terminal statuses the call router reports
    Adjustments,      \* [type, amount] records an admin or a webhook may apply
    MaxAdjustments,   \* bound: adjustments and message charges
    MaxClock,         \* bound: seconds a call may last
    MaxCrashes        \* bound: handlers that die half way

VARIABLES
    account,    \* the billing_accounts row
    record,     \* call_billing_records.status of each call
    ended,      \* the calls whose record has an endedAt
    ledger,     \* billing_ledger_entries: totals per call and entry type
    runtime,    \* the call's runtime state in Redis
    handler,    \* the handler working on the call, with its local copy
    clock,      \* seconds since the call was answered
    charged,    \* history: what the call took out of the account's wallet
    accrued,    \* history: the most the call accrued of credit debt
    adjusted,   \* history: adjustments applied [count, wallet, settled]
    crashes     \* history: handlers that died half way

vars == <<account, record, ended, ledger, runtime, handler, clock,
          charged, accrued, adjusted, crashes>>
histories == <<charged, accrued, adjusted, crashes>>

Account == [wallet : Nat, locked : Nat, free : Nat, credits : Nat,
            outst : Nat, day : Nat, blocked : BOOLEAN]

EntryTypes == {"wallet_lock", "wallet_lock_extension", "usage_debit",
               "wallet_release", "postpaid_accrual"}
Ops == {"start", "activate", "advance", "waive", "finalize"}
Steps == {"count", "reserve", "store", "apply", "flush", "overwrite", "settle", "remove"}

NoStatus == "none"
NoRuntime == [none |-> TRUE]
Idle == [op |-> "idle"]
Handler == [op : Ops, pc : Steps, rt : Runtime, todo : Nat,
            reason : Reasons \cup {NoReason}, status : Final \cup {NoStatus}]

ASSUME EngineAssumption ==
    /\ IsFiniteSet(Calls)
    /\ InitAccount \in Account /\ InitAccount.locked = 0
    /\ Final \subseteq {"completed", "ended", "dropped", "failed"}
    /\ MaxConcurrent \in Nat
    /\ Statuses \subseteq {"ringing", "answered", "active"}
    /\ Adjustments \subseteq
         [type : {"wallet_credit", "wallet_debit", "credit_limit_settlement", "message"},
          amount : Nat \ {0}]
    /\ MaxAdjustments \in Nat /\ MaxClock \in Nat /\ MaxCrashes \in Nat

Init ==
    /\ account = InitAccount
    /\ record = [s \in Calls |-> "none"]
    /\ ended = {}
    /\ ledger = [s \in Calls |-> [t \in EntryTypes |-> 0]]
    /\ runtime = [s \in Calls |-> NoRuntime]
    /\ handler = [s \in Calls |-> Idle]
    /\ clock = [s \in Calls |-> 0]
    /\ charged = [s \in Calls |-> 0]
    /\ accrued = [s \in Calls |-> 0]
    /\ adjusted = [count |-> 0, wallet |-> 0, settled |-> 0]
    /\ crashes = 0

---------------------------------------------------------------------------
(* Statements on the account row and on Redis *)

Busy(s) == handler[s] # Idle
At(s, step) == Busy(s) /\ handler[s].pc = step
Live(s) == runtime[s] # NoRuntime
ActiveCallCount == Cardinality({s \in Calls : record[s] = "active"})

Release(s) == handler' = [handler EXCEPT ![s] = Idle]
Goto(s, step) == handler' = [handler EXCEPT ![s].pc = step]
Hold(s, op, step, rt) ==
    handler' = [handler EXCEPT ![s] =
        [op |-> op, pc |-> step, rt |-> rt, todo |-> 0, reason |-> NoReason,
         status |-> NoStatus]]

\* A mutant: the floor at zero is missing.
FlushedAccount_NoFloor(acct, rt) ==
    [acct EXCEPT !.wallet = @ + rt.pendWallet, !.locked = @ + rt.pendLocked]

\* flushAccountBalanceDelta on an account and a runtime.
FlushedAccount(acct, rt) ==
    [acct EXCEPT !.wallet = NonNegative(@ + rt.pendWallet),
                 !.locked = NonNegative(@ + rt.pendLocked)]
\* A mutant: the written change is not cleared.
FlushedRuntime_ChangeKept(acct, rt) ==
    [rt EXCEPT !.wallet = FlushedAccount(acct, rt).wallet,
               !.locked = FlushedAccount(acct, rt).locked]

FlushedRuntime(acct, rt) ==
    IF rt.pendWallet = 0 /\ rt.pendLocked = 0 THEN rt
    ELSE [rt EXCEPT !.wallet = FlushedAccount(acct, rt).wallet,
                    !.locked = FlushedAccount(acct, rt).locked,
                    !.pendWallet = 0, !.pendLocked = 0]

\* A mutant: the session's copy of the locked balance is written as well.
OverwrittenAccount_LockedToo(acct, rt) ==
    [acct EXCEPT !.free = rt.free, !.credits = rt.credits,
                 !.outst = rt.outst, !.day = rt.day, !.locked = rt.locked]

\* A mutant: the accrual is added to the debt on every write.
OverwrittenAccount_AccrualAdded(acct, rt) ==
    [acct EXCEPT !.free = rt.free, !.credits = rt.credits,
                 !.outst = @ + rt.accrual, !.day = rt.day]

\* The second UPDATE of persistRuntimeState, which writes absolute values.
OverwrittenAccount(acct, rt) ==
    [acct EXCEPT !.free = rt.free, !.credits = rt.credits,
                 !.outst = rt.outst, !.day = rt.day]

---------------------------------------------------------------------------
(* startCallSession: activateOnAnswer is true at every call site *)

\* resolveBillingContext reads the account into a fresh runtime.
NewRuntime(acct) ==
    [active |-> FALSE, waived |-> FALSE, term |-> NoReason,
     free |-> acct.free, freeUsed |-> 0, credits |-> acct.credits, creditsUsed |-> 0,
     wallet |-> acct.wallet, locked |-> acct.locked, pendWallet |-> 0, pendLocked |-> 0,
     total |-> 0, avail |-> 0, topup |-> 0, debit |-> 0,
     outst |-> acct.outst, accrual |-> 0, day |-> acct.day, dur |-> 0,
     cost |-> 0, rem |-> 0, proc |-> 0, hardStop |-> 0]

StartRead(s) ==
    /\ record[s] = "none" /\ ~Busy(s)
    /\ ~account.blocked
    /\ Hold(s, "start", "count", NewRuntime(account))
    /\ UNCHANGED <<account, record, ended, ledger, runtime, clock, histories>>

\* getActiveCallCount, then the checks and the reserve computed from the read.
StartCount(s) ==
    LET rt       == handler[s].rt
        reserve  == InitialReserve(NonNegative(rt.wallet - rt.locked))
        reserved == [rt EXCEPT !.total = reserve, !.avail = reserve]
        denied   == \/ MaxConcurrent > 0 /\ ActiveCallCount >= MaxConcurrent
                    \/ DailyLimit > 0 /\ rt.day >= DailyLimit
                    \/ MaxDurationSeconds(reserved) <= 0
    IN  /\ At(s, "count")
        /\ handler' = [handler EXCEPT ![s] =
               IF denied THEN Idle ELSE [@ EXCEPT !.pc = "reserve", !.rt = reserved]]
        /\ UNCHANGED <<account, record, ended, ledger, runtime, clock, histories>>

\* The transaction: reserveWalletAmount, the call record, the lock entry.
StartReserve(s) ==
    LET rt == handler[s].rt
    IN  /\ At(s, "reserve")
        /\ IF rt.total > 0 /\ account.locked + rt.total > account.wallet
           THEN Release(s) /\ UNCHANGED <<account, record, ledger>>
           ELSE /\ account' = [account EXCEPT !.locked = @ + rt.total]
                /\ record' = [record EXCEPT ![s] = "created"]
                /\ ledger' = [ledger EXCEPT ![s]["wallet_lock"] = @ + rt.total]
                /\ handler' = [handler EXCEPT ![s].pc = "store",
                       ![s].rt = IF rt.total > 0
                                 THEN [rt EXCEPT !.wallet = account.wallet,
                                                 !.locked = account.locked + rt.total]
                                 ELSE rt]
        /\ UNCHANGED <<ended, runtime, clock, histories>>

---------------------------------------------------------------------------
(* The handlers that run under the call's lock *)

\* activateCallSession, up to its write of the call record.
Activate(s) ==
    LET answered == [runtime[s] EXCEPT !.active = TRUE, !.proc = 0]
        limit    == MaxDurationSeconds(answered)
    IN  /\ ~Busy(s) /\ Live(s) /\ ~runtime[s].active
        /\ IF limit <= 0
           THEN /\ Hold(s, "activate", "overwrite",
                        [answered EXCEPT !.term = "INSUFFICIENT_BALANCE"])
                /\ UNCHANGED record
           ELSE /\ Hold(s, "activate", "store", [answered EXCEPT !.hardStop = limit])
                /\ record' = [record EXCEPT ![s] = "active"]
        /\ UNCHANGED <<account, ended, ledger, runtime, clock, histories>>

\* A mutant: every sweep bills the time since the answer again.
Advance_FromTheAnswer(s) ==
    LET rt      == runtime[s]
        elapsed == clock[s]
        todo    == Least(elapsed, rt.hardStop)
    IN  /\ ~Busy(s) /\ Live(s) /\ rt.active /\ rt.term = NoReason
        /\ elapsed > 0
        /\ IF todo > 0
           THEN handler' = [handler EXCEPT ![s] =
                    [op |-> "advance", pc |-> "apply", rt |-> rt, todo |-> todo,
                     reason |-> NoReason, status |-> NoStatus]]
           ELSE Hold(s, "advance", "overwrite", [rt EXCEPT !.term = "MAX_DURATION_REACHED"])
        /\ UNCHANGED <<account, record, ended, ledger, runtime, clock, histories>>

\* A mutant: a session with nothing left to bill is left alone.
Advance_StopForgotten(s) ==
    LET rt      == runtime[s]
        elapsed == clock[s] - rt.proc
        todo    == Least(elapsed, NonNegative(rt.hardStop - rt.proc))
    IN  /\ ~Busy(s) /\ Live(s) /\ rt.active /\ rt.term = NoReason
        /\ elapsed > 0 /\ todo > 0
        /\ handler' = [handler EXCEPT ![s] =
               [op |-> "advance", pc |-> "apply", rt |-> rt, todo |-> todo,
                reason |-> NoReason, status |-> NoStatus]]
        /\ UNCHANGED <<account, record, ended, ledger, runtime, clock, histories>>

\* advanceRuntimeSession, up to its first await: the seconds since the last
\* processed one, never past the hard stop.
Advance(s) ==
    LET rt      == runtime[s]
        elapsed == clock[s] - rt.proc
        todo    == Least(elapsed, NonNegative(rt.hardStop - rt.proc))
    IN  /\ ~Busy(s) /\ Live(s) /\ rt.active /\ rt.term = NoReason
        /\ elapsed > 0
        /\ IF todo > 0
           THEN handler' = [handler EXCEPT ![s] =
                    [op |-> "advance", pc |-> "apply", rt |-> rt, todo |-> todo,
                     reason |-> NoReason, status |-> NoStatus]]
           ELSE Hold(s, "advance", "overwrite", [rt EXCEPT !.term = "MAX_DURATION_REACHED"])
        /\ UNCHANGED <<account, record, ended, ledger, runtime, clock, histories>>

\* One turn of the loop over `await applySecond`.
ApplyNext(s) ==
    LET h      == handler[s]
        result == ApplySecond(h.rt)
        done   == result.error # NoReason \/ h.todo = 1
        rt     == IF result.error # NoReason THEN result.rt
                  ELSE [result.rt EXCEPT !.proc = @ + 1]
        reason == IF result.error # NoReason THEN result.error
                  ELSE IF h.todo = 1 /\ MaxDurationSeconds(rt) <= 0
                  THEN "MAX_DURATION_REACHED" ELSE NoReason
    IN  /\ At(s, "apply")
        /\ handler' = [handler EXCEPT ![s] =
               [h EXCEPT !.rt = rt, !.reason = reason, !.todo = @ - 1,
                         !.pc = IF done THEN "flush" ELSE "apply"]]
        /\ UNCHANGED <<account, record, ended, ledger, runtime, clock, histories>>

\* waiveCallSessionCharges
Waive(s) ==
    /\ ~Busy(s) /\ Live(s) /\ ~runtime[s].waived
    /\ Hold(s, "waive", "flush",
            [runtime[s] EXCEPT !.waived = TRUE, !.free = @ + runtime[s].freeUsed,
                               !.freeUsed = 0])
    /\ UNCHANGED <<account, record, ended, ledger, runtime, clock, histories>>

\* finalizeCallSession of a call whose runtime is in Redis.  Without one it
\* reads the call record and changes nothing.
Finalize(s, status) ==
    /\ ~Busy(s) /\ Live(s)
    /\ handler' = [handler EXCEPT ![s] =
           [op |-> "finalize", pc |-> "flush", rt |-> runtime[s], todo |-> 0,
            reason |-> NoReason, status |-> status]]
    /\ UNCHANGED <<account, record, ended, ledger, runtime, clock, histories>>

---------------------------------------------------------------------------
(* persistRuntimeState and persistRuntimeSession *)

Flush(s) ==
    LET rt == handler[s].rt
    IN  /\ At(s, "flush")
        /\ account' = FlushedAccount(account, rt)
        /\ charged' = [charged EXCEPT ![s] = @ - rt.pendWallet]
        /\ handler' = [handler EXCEPT ![s].pc = "overwrite",
                                      ![s].rt = FlushedRuntime(account, rt)]
        /\ UNCHANGED <<record, ended, ledger, runtime, clock, accrued, adjusted, crashes>>

Overwrite(s) ==
    LET rt == handler[s].rt
    IN  /\ At(s, "overwrite")
        /\ account' = OverwrittenAccount(account, rt)
        /\ accrued' = [accrued EXCEPT ![s] = Greatest(@, rt.accrual)]
        /\ Goto(s, IF handler[s].op = "finalize" THEN "settle" ELSE "store")
        /\ UNCHANGED <<record, ended, ledger, runtime, clock, charged, adjusted, crashes>>

\* Redis now has the handler's copy.  A handler that met the end of the
\* budget, or finds the hard stop passed, goes on to markTerminationRequested.
Store(s) ==
    LET h      == handler[s]
        reason == IF h.reason # NoReason THEN h.reason
                  ELSE IF h.op = "advance" /\ h.rt.term = NoReason
                          /\ clock[s] >= h.rt.hardStop
                  THEN "MAX_DURATION_REACHED" ELSE NoReason
    IN  /\ At(s, "store")
        /\ runtime' = [runtime EXCEPT ![s] = h.rt]
        /\ handler' = [handler EXCEPT ![s] =
               IF reason = NoReason THEN Idle
               ELSE [h EXCEPT !.pc = "overwrite", !.rt.term = reason, !.reason = NoReason]]
        /\ UNCHANGED <<account, record, ended, ledger, clock, histories>>

\* The transaction of finalizeCallSession.
Settle(s) ==
    LET h        == handler[s]
        released == [h.rt EXCEPT !.locked = NonNegative(@ - h.rt.avail),
                                 !.pendLocked = @ - h.rt.avail]
        entries  == [t \in EntryTypes |->
                       CASE t = "wallet_lock_extension" -> h.rt.topup
                         [] t = "usage_debit"           -> h.rt.debit
                         [] t = "wallet_release"        -> h.rt.avail
                         [] t = "postpaid_accrual"      -> h.rt.accrual
                         [] OTHER                       -> 0]
    IN  /\ At(s, "settle")
        /\ account' = IF h.rt.avail > 0
                      THEN OverwrittenAccount(FlushedAccount(account, released), h.rt)
                      ELSE account
        /\ record' = [record EXCEPT ![s] = h.status]
        /\ ended' = ended \cup {s}
        /\ ledger' = [ledger EXCEPT ![s] = [t \in EntryTypes |-> @[t] + entries[t]]]
        /\ handler' = [handler EXCEPT ![s].pc = "remove",
               ![s].rt = IF h.rt.avail > 0 THEN FlushedRuntime(account, released) ELSE h.rt]
        /\ UNCHANGED <<runtime, clock, histories>>

\* A mutant: the runtime outlives the settled call.
Remove_RuntimeKept(s) ==
    /\ At(s, "remove")
    /\ Release(s)
    /\ UNCHANGED <<account, record, ended, ledger, runtime, clock, histories>>

\* removeRuntimeSession
Remove(s) ==
    /\ At(s, "remove")
    /\ runtime' = [runtime EXCEPT ![s] = NoRuntime]
    /\ Release(s)
    /\ UNCHANGED <<account, record, ended, ledger, clock, histories>>

---------------------------------------------------------------------------
(* What else changes the account, the records, and time *)

\* setCallSessionStatus, by which the router reports a status some awaits after
\* it read the call: whatever the record says by then, closed or not.
SetStatus(s, status) ==
    /\ record[s] # "none"
    /\ record' = [record EXCEPT ![s] = status]
    /\ UNCHANGED <<account, ended, ledger, runtime, handler, clock, histories>>

\* adjustOrganizationBalance, and chargeMessage of message-billing.ts.
Adjust(a) ==
    /\ adjusted.count < MaxAdjustments
    /\ a.type = "message" => account.wallet >= a.amount
    /\ LET walletDelta == CASE a.type = "wallet_credit" -> a.amount
                            [] a.type = "credit_limit_settlement" -> 0
                            [] OTHER -> 0 - a.amount
           settled == IF a.type = "credit_limit_settlement" THEN a.amount ELSE 0
           next    == [account EXCEPT !.wallet = NonNegative(@ + walletDelta),
                                      !.outst = NonNegative(@ - settled)]
       IN  /\ account' = next
           /\ adjusted' = [count   |-> adjusted.count + 1,
                           wallet  |-> adjusted.wallet + (next.wallet - account.wallet),
                           settled |-> adjusted.settled + (account.outst - next.outst)]
    /\ UNCHANGED <<record, ended, ledger, runtime, handler, clock, charged, accrued, crashes>>

\* setOrganizationBlockStatus
SetBlocked ==
    /\ adjusted.count < MaxAdjustments
    /\ account' = [account EXCEPT !.blocked = ~@]
    /\ adjusted' = [adjusted EXCEPT !.count = @ + 1]
    /\ UNCHANGED <<record, ended, ledger, runtime, handler, clock, charged, accrued, crashes>>

Tick(s) ==
    /\ Live(s) /\ runtime[s].active /\ clock[s] < MaxClock
    /\ clock' = [clock EXCEPT ![s] = @ + 1]
    /\ UNCHANGED <<account, record, ended, ledger, runtime, handler, histories>>

\* The instance running the handler dies, or one of its awaits rejects: its
\* memory is lost and the call's lock is released or expires.
Crash(s) ==
    /\ Busy(s) /\ crashes < MaxCrashes
    /\ Release(s)
    /\ crashes' = crashes + 1
    /\ UNCHANGED <<account, record, ended, ledger, runtime, clock, charged, accrued, adjusted>>

---------------------------------------------------------------------------
Handle(s) ==
    \/ StartCount(s) \/ StartReserve(s)
    \/ ApplyNext(s) \/ Flush(s) \/ Overwrite(s) \/ Store(s)
    \/ Settle(s) \/ Remove(s)

Next ==
    \/ \E s \in Calls :
         \/ StartRead(s) \/ Activate(s) \/ Advance(s) \/ Waive(s)
         \/ \E status \in Final : Finalize(s, status)
         \/ Handle(s)
         \/ \E status \in Statuses : SetStatus(s, status)
         \/ Tick(s) \/ Crash(s)
    \/ \E a \in Adjustments : Adjust(a)
    \/ SetBlocked

Spec == Init /\ [][Next]_vars

\* The supervisor sweeps every active session each second and time passes.
\* A handler that began finishes or dies. That is said of its being busy, not
\* of its steps one by one: a handler is a finite number of awaits, so weak
\* fairness of Handle(s) gives the same.
Fairness ==
    \A s \in Calls : /\ []<>~Busy(s)
                     /\ WF_vars(Advance(s)) /\ WF_vars(Tick(s))

FairSpec == Spec /\ Fairness

---------------------------------------------------------------------------
(* Properties *)

TypeOK ==
    /\ account \in Account
    /\ record \in [Calls -> {"none", "created", "ringing", "answered", "active"} \cup Final]
    /\ ended \subseteq Calls
    /\ ledger \in [Calls -> [EntryTypes -> Nat]]
    /\ runtime \in [Calls -> Runtime \cup {NoRuntime}]
    /\ handler \in [Calls -> Handler \cup {Idle}]
    /\ clock \in [Calls -> Nat]
    /\ charged \in [Calls -> Int]
    /\ accrued \in [Calls -> Nat]
    /\ adjusted \in [count : Nat, wallet : Int, settled : Nat]
    /\ crashes \in Nat

\* A call's runtime states: what Redis holds and what a handler works on.
Copies(s) == (IF Live(s) THEN {runtime[s]} ELSE {})
             \cup (IF Busy(s) THEN {handler[s].rt} ELSE {})

\* What the account's locked balance holds for the call: its unspent
\* reservation, as far as the changes to it have reached the account.
Held(s) ==
    CASE At(s, "count") \/ At(s, "reserve") \/ At(s, "remove") -> 0
      [] Busy(s) /\ handler[s].pc \in {"store", "apply", "flush", "overwrite", "settle"} ->
           handler[s].rt.avail - handler[s].rt.pendLocked
      [] ~Busy(s) /\ Live(s) -> runtime[s].avail
      [] OTHER -> 0

\* A reservation is never lost, duplicated or left behind, whatever the
\* calls of the account do at once: the locked balance is the sum of what
\* the open calls hold (reserveWalletAmount, flushAccountBalanceDelta and
\* the release in finalizeCallSession agree with each other).
LockedBalanceAccounted == account.locked = MapThenSumSet(Held, Calls)

\* The wallet is the opening balance plus the adjustments minus what the
\* calls were charged: no debit is dropped by the floor at zero of
\* flushAccountBalanceDelta. (What a process that dies had charged and not
\* flushed is lost.)
WalletAccounted == crashes = 0 =>
    account.wallet = InitAccount.wallet + adjusted.wallet
                     - MapThenSumSet(LAMBDA s : charged[s], Calls)

\* Nobody is made to owe what no call accrued: however many sessions write
\* their copies of the debt over each other's, with settlements in between and
\* handlers that die after the write and meter the same seconds again, the
\* debt is never more than all calls together accrued (persistRuntimeState,
\* finalizeCallSession). Less it may be: a copy that is written back forgets
\* what others accrued, or settled, since it was read.
DebtIsEarned ==
    account.outst <= InitAccount.outst + MapThenSumSet(LAMBDA s : accrued[s], Calls)

\* In every copy of a session the reservation is split into what was spent
\* and what is left, and the metered cost was paid in full from the included
\* credits, the reservation or the credit line, unless the last second
\* counted is one the payment failed for: then it is not among the processed
\* seconds (applySecond, topUpReservation).
SessionBooks ==
    \A s \in Calls : \A rt \in Copies(s) :
        /\ rt.total = rt.avail + rt.debit
        /\ \/ rt.cost = rt.creditsUsed + rt.debit + rt.accrual
           \/ rt.cost > rt.creditsUsed + rt.debit + rt.accrual /\ rt.dur > rt.proc

\* When a call is closed its ledger entries balance: what was locked, at
\* the start and by top-ups, was either debited or released.
SettledBooksBalance ==
    \A s \in ended :
        ledger[s]["wallet_lock"] + ledger[s]["wallet_lock_extension"]
            = ledger[s]["usage_debit"] + ledger[s]["wallet_release"]

\* A runtime in Redis has no unwritten balance change: each handler flushes
\* before it stores, so a sweep on any instance may pick the session up.
StoredRuntimeFlushed ==
    \A s \in Calls : Live(s) =>
        runtime[s].pendWallet = 0 /\ runtime[s].pendLocked = 0

\* The wallet pays at most the price of the seconds the call lasted, at
\* the rate of the plan, however the sweeps batch them.
ChargedAtMostThePrice ==
    \A s \in Calls : charged[s] <= PriceOf(clock[s], RatePerMinute, PerSecond)

\* Once a session was asked to end, or its charges were waived, and Redis
\* says so, the wallet is not charged for it any more.
NoChargeAfterStop ==
    [][\A s \in Calls :
         (Live(s) /\ (runtime[s].term # NoReason \/ runtime[s].waived))
           => charged'[s] = charged[s]]_vars

\* Every call follows the abstract ledger: its hold is opened once, spent or
\* extended while it is open, and closed once, although a late status may say
\* of a closed call that it is active (startCallSession, persistRuntimeState,
\* finalizeCallSession, setCallSessionStatus).
Phase == [s \in Calls |-> IF record[s] = "none" THEN "unopened"
                          ELSE IF s \in ended THEN "closed" ELSE "open"]

Ledger == INSTANCE CallLedger WITH
    phase <- Phase,
    held  <- [s \in Calls |-> Held(s)],
    spent <- charged

RefinesCallLedger == Ledger!Spec

\* A metered call does not run on for ever: it is closed or, when its time
\* or money is spent, asked to end (the supervisor's sweep and the hard stop).
MeteredCallsEnd ==
    \A s \in Calls :
        (Live(s) /\ runtime[s].active) ~> (~Live(s) \/ runtime[s].term # NoReason)
=============================================================================
