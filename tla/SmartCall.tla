------------------------------ MODULE SmartCall ------------------------------
(***************************************************************************)
(* The life of an app-to-app call (server/modules/calls/smart-router.ts) and *)
(* of a phone call that reaches a user (server/pstn/inbound.ts): the         *)
(* user:active_call locks, the set-up of a call, status updates and provider *)
(* events, endCall, the watchdog and the end asked for by the billing        *)
(* engine.                                                                   *)
(*                                                                           *)
(* A call's record in Redis is read by one await and stored whole by another *)
(* (mutateSmartCall), with no check in between; every handler is a task that *)
(* stops at each await that another handler can notice. The billing engine   *)
(* is reduced to the state of the call's session, which BillingEngine models *)
(* in detail; LiveKit to whether there is anybody in the room.               *)
(***************************************************************************)
EXTENDS Naturals

CONSTANTS
    Users, Calls,
    CallerOf, CalleeOf,   \* the parties of each call, if it is placed in the app
    TargetOf,             \* whom it reaches, if it comes from the phone network
    Tasks,                \* bound: handlers under way at once
    Hasty,                \* whether people act faster than calls are set up
    Rejecting,            \* whether callees use the reject endpoint
    Reasons,              \* why people and the provider say that a call is over
    MaxRequests,          \* bound: requests and media reports after the set-up
    MaxCrashes,           \* bound: handlers that die half way
    Failing               \* what may be tried in vain: "settlement", "row"

VARIABLES
    record,    \* smart_call:{id}: the status and whether billingActivatedAt is set
    listed,    \* smart_call:active_z: the calls the watchdog looks at
    phone,     \* the calls that came from the phone network (joinMethod)
    lock,      \* user:active_call:{user}: the call that holds the user
    meta,      \* call_metadata:{id}:caller and :callee: whether they are set
    billing,   \* the billing session of a call
    occupied,  \* external: the calls with people in their LiveKit room
    cdr,       \* the calls that have a row in bridged_calls
    tasks,     \* the handlers under way
    requests,  \* history: how many requests were made
    crashes,   \* history: how many handlers died
    failed     \* history: the calls whose settlement failed, or the row of their end

vars == <<record, listed, phone, lock, meta, billing, occupied, cdr, tasks, requests,
          crashes, failed>>

NoCall == "no call"
Idle == [kind |-> "idle"]

Active == {"created", "ringing", "answered", "active"}
Terminal == {"ended", "failed", "missed", "busy", "cancelled"}
Statuses == Active \cup Terminal
Record == [status : Statuses \cup {"none"}, activated : BOOLEAN]
NoRecord == [status |-> "none", activated |-> FALSE]

\* The lifecycle: where a call may go from each status.
Transitions ==
    [s \in Statuses |->
        CASE s = "created"  -> {"ringing", "answered"} \cup Terminal
          [] s = "ringing"  -> {"answered", "active"} \cup Terminal
          [] s = "answered" -> {"active", "ended", "failed"}
          [] s = "active"   -> {"ended", "failed"}
          [] OTHER          -> {}]

CanTransition(from, to) == from = to \/ to \in Transitions[from]

Kinds == {"initiate", "inbound", "status", "end", "media"}
Steps == {"lock", "holder", "quiet", "dropLock", "relock", "authorize", "store",
          "look", "find", "free", "forget", "room", "finalize",
          "read", "write", "activate", "rewrite", "busy", "busyMeta", "done",
          "failRead", "failWrite", "clear", "clearMeta", "clearRoom", "failFinalize", "giveUp",
          "mediaRead", "mediaWrite",
          "claim", "claimMeta", "reserve", "register", "save", "drop", "dropMeta"}
Roles == {"caller", "callee"}
Task == [kind : Kinds, pc : Steps, call : Calls,
         to : Statuses,                \* the status to be stored
         snap : Record,                \* the record as it was read and changed
         stored : BOOLEAN,             \* the new status has been stored
         role : Roles,                 \* whose lock is being released
         for : Calls \cup {NoCall}]    \* the call that waits for this one's end

ASSUME SmartCallAssumption ==
    /\ {CallerOf, CalleeOf, TargetOf} \subseteq [Calls -> Users]
    /\ NoCall \notin Calls
    /\ Reasons \subseteq Terminal
    /\ Hasty \in BOOLEAN /\ Rejecting \in BOOLEAN
    /\ MaxRequests \in Nat /\ MaxCrashes \in Nat /\ Failing \subseteq {"settlement", "row"}

Init ==
    /\ record = [c \in Calls |-> NoRecord]
    /\ lock = [u \in Users |-> NoCall]
    /\ meta = [c \in Calls |-> {}]
    /\ billing = [c \in Calls |-> "none"]
    /\ listed = {} /\ phone = {} /\ occupied = {} /\ cdr = {} /\ failed = {}
    /\ tasks = [t \in Tasks |-> Idle]
    /\ requests = 0 /\ crashes = 0

At(t, step) == tasks[t] # Idle /\ tasks[t].pc = step
Live(c) == record[c].status \in Active
WorkOn(c) == {t \in Tasks : tasks[t] # Idle /\ c \in {tasks[t].call, tasks[t].for}}
Party(c, role) ==
    IF role = "caller" THEN CallerOf[c] ELSE IF c \in phone THEN TargetOf[c] ELSE CalleeOf[c]
\* The user who may have no other call: the caller, or whom the phone reaches.
Owner(c) == IF c \in phone THEN TargetOf[c] ELSE CallerOf[c]

Begin(t, kind, step, c, to) ==
    /\ tasks[t] = Idle
    /\ tasks' = [tasks EXCEPT ![t] =
           [kind |-> kind, pc |-> step, call |-> c, to |-> to, snap |-> NoRecord,
            stored |-> FALSE, role |-> "caller", for |-> NoCall]]
Finish(t) == tasks' = [tasks EXCEPT ![t] = Idle]
Goto(t, step) == tasks' = [tasks EXCEPT ![t].pc = step]

\* storeSmartCall: the record and its place in the watchdog's list, in one MULTI.
StoreCall(c, r) ==
    /\ record' = [record EXCEPT ![c] = r]
    /\ listed' = IF r.status \in Active THEN listed \cup {c} ELSE listed \ {c}
\* What the code catches, logs and goes on from.
FailsFor(c, what) == what \in Failing /\ failed' = failed \cup {<<c, what>>}

---------------------------------------------------------------------------
(* initiateCall: the lock *)

SettingUp(u) == \E t \in Tasks : /\ tasks[t].kind \in {"initiate", "inbound"}
                                 /\ \E c \in Calls : t \in WorkOn(c) /\ Owner(c) = u
Untouched(c) == record[c] = NoRecord /\ billing[c] = "none" /\ WorkOn(c) = {} /\ c \notin phone

\* Somebody places a call, perhaps while an earlier attempt is under way.
Initiate(t, c) ==
    /\ Untouched(c)
    /\ lock[CallerOf[c]] # c /\ (SettingUp(CallerOf[c]) => Hasty)
    /\ Begin(t, "initiate", "lock", c, "ringing")
    /\ UNCHANGED <<record, listed, phone, lock, meta, billing, occupied, cdr, requests, crashes, failed>>

\* SET NX, and again once the call that held the lock was given up.
Acquire(t) ==
    LET u == CallerOf[tasks[t].call]
        Failed == IF tasks[t].pc = "lock" THEN Goto(t, "holder") ELSE Finish(t)
    IN  /\ At(t, "lock") \/ At(t, "relock")
        /\ IF lock[u] = NoCall
           THEN lock' = [lock EXCEPT ![u] = tasks[t].call] /\ Goto(t, "authorize")
           ELSE Failed /\ UNCHANGED lock
        /\ UNCHANGED <<record, listed, phone, meta, billing, occupied, cdr, requests, crashes, failed>>

\* Who holds the lock?
Holder(t) ==
    LET held == lock[CallerOf[tasks[t].call]]
    IN  /\ At(t, "holder")
        /\ IF held = NoCall
           THEN Finish(t)
           ELSE tasks' = [tasks EXCEPT ![t].pc = "quiet", ![t].call = held,
                                       ![t].for = tasks[t].call, ![t].to = "ended"]
        /\ UNCHANGED <<record, listed, phone, lock, meta, billing, occupied, cdr, requests, crashes, failed>>

\* isCallAbandoned: over, without a record, or an app call quiet for long
\* enough (which is left open) with nobody in the room.
Abandoned(c, quiet) == Live(c) => quiet /\ c \notin occupied /\ c \notin phone

Quiet(t) ==
    /\ At(t, "quiet")
    /\ \E quiet \in BOOLEAN :
         IF Abandoned(tasks[t].call, quiet) THEN Goto(t, "look") ELSE Finish(t)
    /\ UNCHANGED <<record, listed, phone, lock, meta, billing, occupied, cdr, requests, crashes, failed>>

\* The holder has been ended: its lock is dropped, whoever holds it by now.
DropLock(t) ==
    /\ At(t, "dropLock")
    /\ lock' = [lock EXCEPT ![CallerOf[tasks[t].for]] = NoCall]
    /\ tasks' = [tasks EXCEPT ![t].pc = "relock", ![t].call = tasks[t].for,
                              ![t].for = NoCall, ![t].to = "ringing",
                              ![t].stored = FALSE, ![t].role = "caller"]
    /\ UNCHANGED <<record, listed, phone, meta, billing, occupied, cdr, requests, crashes, failed>>

---------------------------------------------------------------------------
(* initiateCallLocked *)

Authorize(t) ==
    LET c == tasks[t].call
    IN  /\ At(t, "authorize")
        /\ \/ billing' = [billing EXCEPT ![c] = "open"] /\ Goto(t, "store")
           \/ Goto(t, "giveUp") /\ UNCHANGED billing
        /\ UNCHANGED <<record, listed, phone, lock, meta, occupied, cdr, requests, crashes, failed>>

\* The metadata key and the record are written and the callee's phone rings.
Store(t) ==
    LET c == tasks[t].call
    IN  /\ At(t, "store")
        /\ meta' = [meta EXCEPT ![c] = @ \cup {"caller"}]
        /\ StoreCall(c, [status |-> "created", activated |-> FALSE])
        /\ Goto(t, "read")
        /\ UNCHANGED <<phone, lock, billing, occupied, cdr, requests, crashes, failed>>

\* Language tracking, the callee's row or the caller's token cannot be had:
\* the error passes the catch below by, and the session stays open.
SetUpFails(t) ==
    /\ At(t, "store") /\ Goto(t, "giveUp")
    /\ UNCHANGED <<record, listed, phone, lock, meta, billing, occupied, cdr, requests, crashes, failed>>

\* The call could not be moved to ringing: its set-up is undone.
FailRead(t) ==
    /\ At(t, "failRead")
    /\ tasks' = [tasks EXCEPT ![t].pc = "failWrite",
                     ![t].snap = [record[tasks[t].call] EXCEPT !.status = "failed"]]
    /\ UNCHANGED <<record, listed, phone, lock, meta, billing, occupied, cdr, requests, crashes, failed>>

FailWrite(t) ==
    /\ At(t, "failWrite") /\ Goto(t, "clear")
    /\ StoreCall(tasks[t].call, tasks[t].snap)
    /\ UNCHANGED <<phone, lock, meta, billing, occupied, cdr, requests, crashes, failed>>

Clear(t) ==
    /\ At(t, "clear") /\ Goto(t, "clearMeta")
    /\ lock' = [lock EXCEPT ![CallerOf[tasks[t].call]] = NoCall]
    /\ UNCHANGED <<record, listed, phone, meta, billing, occupied, cdr, requests, crashes, failed>>

\* The metadata go, and the call is off the watchdog's list, whatever its record
\* says by now.
ClearMeta(t) ==
    /\ At(t, "clearMeta") /\ Goto(t, "clearRoom")
    /\ meta' = [meta EXCEPT ![tasks[t].call] = @ \ {"caller"}]
    /\ listed' = listed \ {tasks[t].call}
    /\ UNCHANGED <<record, phone, lock, billing, occupied, cdr, requests, crashes, failed>>

\* endCallRoom, whose failure is only logged: LiveKit may not answer.
ClearRoom(t) ==
    /\ \/ At(t, "clearRoom") /\ Goto(t, "failFinalize")
       \/ At(t, "room") /\ Goto(t, "finalize")
    /\ occupied' \in {occupied, occupied \ {tasks[t].call}}
    /\ UNCHANGED <<record, listed, phone, lock, meta, billing, cdr, requests, crashes, failed>>

\* A plausible slip: only a call that was answered has its session closed.
Finalize_MeteredOnly(t) ==
    LET c == tasks[t].call
    IN  /\ \/ At(t, "failFinalize") /\ Goto(t, "giveUp")
           \/ At(t, "finalize") /\ Goto(t, "read")
        /\ billing' = [billing EXCEPT ![c] = IF @ = "metered" THEN "closed" ELSE @]
        /\ UNCHANGED <<record, listed, phone, lock, meta, occupied, cdr, requests, crashes, failed>>

\* finalizeCallSession: a session is closed for good, and closing it again
\* answers with what was charged.
Finalize(t) ==
    LET c == tasks[t].call
    IN  /\ \/ At(t, "failFinalize") /\ Goto(t, "giveUp")
           \/ At(t, "finalize") /\ Goto(t, "read")
        /\ billing' = [billing EXCEPT ![c] = IF @ = "none" THEN @ ELSE "closed"]
        /\ UNCHANGED <<record, listed, phone, lock, meta, occupied, cdr, requests, crashes, failed>>

\* finalizeCallSession throws: the error is caught, the session stays as it is,
\* and the end or the set-up's failure goes on.
FinalizeFails(t) ==
    /\ \/ At(t, "failFinalize") /\ Goto(t, "giveUp")
       \/ At(t, "finalize") /\ Goto(t, "read")
    /\ billing[tasks[t].call] # "none" /\ FailsFor(tasks[t].call, "settlement")
    /\ UNCHANGED <<record, listed, phone, lock, meta, billing, occupied, cdr, requests, crashes>>

\* The error leaves initiateCall, which drops the lock.
GiveUp(t) ==
    /\ At(t, "giveUp") /\ Finish(t)
    /\ lock' = [lock EXCEPT ![CallerOf[tasks[t].call]] = NoCall]
    /\ UNCHANGED <<record, listed, phone, meta, billing, occupied, cdr, requests, crashes, failed>>

---------------------------------------------------------------------------
(* handleInboundCall: a phone call for a user *)

Dial(t, c) ==
    /\ Untouched(c)
    /\ lock[TargetOf[c]] # c /\ (SettingUp(TargetOf[c]) => Hasty)
    /\ phone' = phone \cup {c}
    /\ Begin(t, "inbound", "claim", c, "ringing")
    /\ UNCHANGED <<record, listed, lock, meta, billing, occupied, cdr, requests, crashes, failed>>

\* SET NX on the callee: a callee with a call is busy, and the phone rejected.
ClaimCallee(t) ==
    LET u == TargetOf[tasks[t].call]
    IN  /\ At(t, "claim")
        /\ IF lock[u] = NoCall
           THEN lock' = [lock EXCEPT ![u] = tasks[t].call] /\ Goto(t, "claimMeta")
           ELSE Finish(t) /\ UNCHANGED lock
        /\ UNCHANGED <<record, listed, phone, meta, billing, occupied, cdr, requests, crashes, failed>>

ClaimCalleeMeta(t) ==
    /\ At(t, "claimMeta") /\ Goto(t, "reserve")
    /\ meta' = [meta EXCEPT ![tasks[t].call] = @ \cup {"callee"}]
    /\ UNCHANGED <<record, listed, phone, lock, billing, occupied, cdr, requests, crashes, failed>>

\* The session is opened or refused.
Reserve(t) ==
    /\ At(t, "reserve")
    /\ \/ billing' = [billing EXCEPT ![tasks[t].call] = "open"] /\ Goto(t, "register")
       \/ Goto(t, "drop") /\ UNCHANGED billing
    /\ UNCHANGED <<record, listed, phone, lock, meta, occupied, cdr, requests, crashes, failed>>

\* startCallSession throws, and the call goes on without a session.
ReserveFails(t) ==
    /\ At(t, "reserve") /\ crashes < MaxCrashes
    /\ crashes' = crashes + 1 /\ Goto(t, "register")
    /\ UNCHANGED <<record, listed, phone, lock, meta, billing, occupied, cdr, requests, failed>>

\* createCallRoom, initCallLanguageTracking and registerInboundSmartCall; when
\* one fails the callee is released, and the session stays open.
Register(t) ==
    /\ At(t, "register")
    /\ \/ /\ StoreCall(tasks[t].call, [status |-> "ringing", activated |-> FALSE])
          /\ Goto(t, "save")
       \/ Goto(t, "drop") /\ UNCHANGED <<record, listed>>
    /\ UNCHANGED <<phone, lock, meta, billing, occupied, cdr, requests, crashes, failed>>

\* storeInboundCall, and the call rings.
Save(t) ==
    /\ At(t, "save") /\ Finish(t)
    /\ UNCHANGED <<record, listed, phone, lock, meta, billing, occupied, cdr, requests, crashes, failed>>

\* Redis does not take the record: the callee is released from a call that is
\* registered and rings.
SaveFails(t) ==
    /\ At(t, "save") /\ crashes < MaxCrashes
    /\ crashes' = crashes + 1 /\ Goto(t, "drop")
    /\ UNCHANGED <<record, listed, phone, lock, meta, billing, occupied, cdr, requests, failed>>

\* releaseCalleeLock
DropCallee(t) ==
    /\ At(t, "drop") /\ Goto(t, "dropMeta")
    /\ lock' = [lock EXCEPT ![TargetOf[tasks[t].call]] = NoCall]
    /\ UNCHANGED <<record, listed, phone, meta, billing, occupied, cdr, requests, crashes, failed>>

DropCalleeMeta(t) ==
    /\ At(t, "dropMeta") /\ Finish(t)
    /\ meta' = [meta EXCEPT ![tasks[t].call] = @ \ {"callee"}]
    /\ UNCHANGED <<record, listed, phone, lock, billing, occupied, cdr, requests, crashes, failed>>

---------------------------------------------------------------------------
(* updateSmartCallStatus *)

\* What a handler does when the call has no record, and when the status it
\* wants to store is not allowed: the error undoes a call's own set-up, and is
\* dropped where another call's end was waited for.
Missing(t) == IF tasks[t].for # NoCall THEN Goto(t, "dropLock") ELSE Finish(t)
Refused(t) ==
    IF tasks[t].kind = "initiate" /\ tasks[t].for = NoCall
    THEN Goto(t, "failRead") ELSE Missing(t)

Read(t) ==
    LET now == record[tasks[t].call]
    IN  /\ At(t, "read")
        /\ CASE now.status = "none" -> Missing(t)
             [] now.status # "none" /\ ~CanTransition(now.status, tasks[t].to) -> Refused(t)
             [] OTHER -> tasks' = [tasks EXCEPT ![t].pc = "write",
                                      ![t].snap = [now EXCEPT !.status = tasks[t].to]]
        /\ UNCHANGED <<record, listed, phone, lock, meta, billing, occupied, cdr, requests, crashes, failed>>

\* What follows when a status is stored.
AfterWrite(to) ==
    CASE to \in {"answered", "active"} -> "activate"
      [] to \in Terminal              -> "find"
      [] OTHER                        -> "done"

\* storeSmartCall: the record as it was read, with its new status.
Write(t) ==
    /\ At(t, "write")
    /\ StoreCall(tasks[t].call, tasks[t].snap)
    /\ tasks' = [tasks EXCEPT ![t].stored = TRUE, ![t].role = "caller",
                              ![t].pc = AfterWrite(tasks[t].to)]
    /\ UNCHANGED <<phone, lock, meta, billing, occupied, cdr, requests, crashes, failed>>

\* Where an update to "answered" or "active" goes on after its billing.
AfterBilling(t) ==
    IF tasks[t].to = "answered" /\ tasks[t].call \notin phone THEN "busy" ELSE "done"

\* activateCallSession: the answer starts the meter, once.
Activate(t) ==
    LET c == tasks[t].call
        metered == billing[c] \in {"open", "metered"}
    IN  /\ At(t, "activate")
        /\ billing' = [billing EXCEPT ![c] = IF metered THEN "metered" ELSE @]
        /\ Goto(t, IF metered /\ ~tasks[t].snap.activated THEN "rewrite" ELSE AfterBilling(t))
        /\ UNCHANGED <<record, listed, phone, lock, meta, occupied, cdr, requests, crashes, failed>>

\* The record is stored again with billingActivatedAt, as it was before.
Rewrite(t) ==
    /\ At(t, "rewrite") /\ Goto(t, AfterBilling(t))
    /\ StoreCall(tasks[t].call, [tasks[t].snap EXCEPT !.activated = TRUE])
    /\ UNCHANGED <<phone, lock, meta, billing, occupied, cdr, requests, crashes, failed>>

\* The callee who answered in the app is marked busy, whatever else it is busy with.
MarkBusy(t) ==
    /\ At(t, "busy") /\ Goto(t, "busyMeta")
    /\ lock' = [lock EXCEPT ![CalleeOf[tasks[t].call]] = tasks[t].call]
    /\ UNCHANGED <<record, listed, phone, meta, billing, occupied, cdr, requests, crashes, failed>>

MarkBusyMeta(t) ==
    /\ At(t, "busyMeta") /\ Goto(t, "done")
    /\ meta' = [meta EXCEPT ![tasks[t].call] = @ \cup {"callee"}]
    /\ UNCHANGED <<record, listed, phone, lock, billing, occupied, cdr, requests, crashes, failed>>

\* The handler is through; endCall writes the call's row first.
EndsCall(t) == tasks[t].kind = "end" \/ tasks[t].for # NoCall
Done(t) ==
    /\ At(t, "done") /\ Missing(t)
    /\ cdr' = IF EndsCall(t) THEN cdr \cup {tasks[t].call} ELSE cdr
    /\ UNCHANGED <<record, listed, phone, lock, meta, billing, occupied, requests, crashes, failed>>

\* persistCompletedCall fails: the end goes on without the row.
RowFails(t) ==
    /\ At(t, "done") /\ EndsCall(t) /\ Missing(t)
    /\ FailsFor(tasks[t].call, "row")
    /\ UNCHANGED <<record, listed, phone, lock, meta, billing, occupied, cdr, requests, crashes>>

---------------------------------------------------------------------------
(* The release of the locks, in endCall and again once the status is stored *)

\* A plausible slip: only the caller's lock is released.
NextRole_CallerOnly(t) == Goto(t, IF tasks[t].stored THEN "done" ELSE "room")

\* Where the release goes on once a party's lock has been seen to.
NextRole(t) ==
    IF tasks[t].role = "caller"
    THEN tasks' = [tasks EXCEPT ![t].pc = "find", ![t].role = "callee"]
    ELSE Goto(t, IF tasks[t].stored THEN "done" ELSE "room")

AfterFree(t) == IF tasks[t].stored THEN NextRole(t) ELSE Goto(t, "forget")

\* Does the call's metadata name a party whose lock is to be dropped?
Find(t) ==
    /\ At(t, "find")
    /\ IF tasks[t].role \in meta[tasks[t].call] THEN Goto(t, "free") ELSE AfterFree(t)
    /\ UNCHANGED <<record, listed, phone, lock, meta, billing, occupied, cdr, requests, crashes, failed>>

\* The party's lock is dropped, whichever call holds it.
Free(t) ==
    /\ At(t, "free") /\ AfterFree(t)
    /\ lock' = [lock EXCEPT ![Party(tasks[t].call, tasks[t].role)] = NoCall]
    /\ UNCHANGED <<record, listed, phone, meta, billing, occupied, cdr, requests, crashes, failed>>

Forget(t) ==
    /\ At(t, "forget") /\ NextRole(t)
    /\ meta' = [meta EXCEPT ![tasks[t].call] = @ \ {tasks[t].role}]
    /\ UNCHANGED <<record, listed, phone, lock, billing, occupied, cdr, requests, crashes, failed>>

---------------------------------------------------------------------------
(* endCall *)

\* A plausible slip: a call that rang only is left to its own devices.
Look_AnsweredOnly(t) ==
    /\ At(t, "look")
    /\ IF record[tasks[t].call].status \in {"answered", "active"}
       THEN Goto(t, "find") ELSE Missing(t)
    /\ UNCHANGED <<record, listed, phone, lock, meta, billing, occupied, cdr, requests, crashes, failed>>

\* A call that is over is left alone; one without a record is not.
Look(t) ==
    /\ At(t, "look")
    /\ IF record[tasks[t].call].status \in Terminal THEN Missing(t) ELSE Goto(t, "find")
    /\ UNCHANGED <<record, listed, phone, lock, meta, billing, occupied, cdr, requests, crashes, failed>>

Ask == requests < MaxRequests /\ requests' = requests + 1

\* A party hangs up or gives up, with the reason its app reports.
HangUp(t, c, to) ==
    /\ Live(c)
    /\ Ask /\ Begin(t, "end", "look", c, to)
    /\ UNCHANGED <<record, listed, phone, lock, meta, billing, occupied, cdr, crashes, failed>>

\* The provider reports that the phone call is over (processStatusEvent), once
\* or repeatedly, before its set-up is through if Hasty.
PhoneEnds(t, c, to) ==
    /\ c \in phone
    /\ (\E u \in WorkOn(c) : tasks[u].kind = "inbound") => Hasty
    /\ Ask /\ Begin(t, "end", "look", c, to)
    /\ UNCHANGED <<record, listed, phone, lock, meta, billing, occupied, cdr, crashes, failed>>

\* connect, a provider's event, or a status update to "active"; reject stores
\* "missed" and does nothing else.
Update(t, c, to) ==
    /\ record[c] # NoRecord
    /\ to = "missed" => Rejecting
    /\ Ask /\ Begin(t, "status", "read", c, to)
    /\ UNCHANGED <<record, listed, phone, lock, meta, billing, occupied, cdr, crashes, failed>>

---------------------------------------------------------------------------
(* What happens by itself *)

\* The translator hears a participant (recordSmartCallMediaActivity): the
\* record is read and stored again with the time.
Hear(t, c) ==
    /\ Live(c) /\ c \in occupied
    /\ Ask /\ Begin(t, "media", "mediaRead", c, "active")
    /\ UNCHANGED <<record, listed, phone, lock, meta, billing, occupied, cdr, crashes, failed>>

MediaRead(t) ==
    /\ At(t, "mediaRead")
    /\ tasks' = [tasks EXCEPT ![t].pc = "mediaWrite", ![t].snap = record[tasks[t].call]]
    /\ UNCHANGED <<record, listed, phone, lock, meta, billing, occupied, cdr, requests, crashes, failed>>

MediaWrite(t) ==
    /\ At(t, "mediaWrite") /\ Finish(t)
    /\ StoreCall(tasks[t].call, tasks[t].snap)
    /\ UNCHANGED <<phone, lock, meta, billing, occupied, cdr, requests, crashes, failed>>

\* The slip that was once in the code: app calls stop at "answered".
WatchdogEnds_ActiveOnly(c) == record[c].status = "active" /\ c \notin occupied

\* The watchdog ends an answered app call of its list that went quiet with nobody in the room.
WatchdogEnds(c) == record[c].status \in {"answered", "active"} /\ c \notin occupied

Ending(c) == \E t \in WorkOn(c) : tasks[t].kind = "end" /\ tasks[t].call = c

Watchdog(c) ==
    /\ c \in listed /\ c \notin phone /\ WatchdogEnds(c) /\ ~Ending(c)
    /\ \E t \in Tasks : Begin(t, "end", "look", c, "ended")
    /\ UNCHANGED <<record, listed, phone, lock, meta, billing, occupied, cdr, requests, crashes, failed>>

\* It ends a phone call when neither the provider nor the translator was heard
\* of for long, whoever is in the room.
ProviderTimeout(c) ==
    /\ c \in listed /\ c \in phone /\ Live(c) /\ ~Ending(c)
    /\ \E t \in Tasks : Begin(t, "end", "look", c, "failed")
    /\ UNCHANGED <<record, listed, phone, lock, meta, billing, occupied, cdr, requests, crashes, failed>>

\* The engine asks for the end of a metered call, and once its money or time
\* ran out every sweep asks again.
BillingEnds(c) ==
    /\ billing[c] = "metered" /\ ~Ending(c)
    /\ \E t \in Tasks : Begin(t, "end", "look", c, "ended")
    /\ UNCHANGED <<record, listed, phone, lock, meta, billing, occupied, cdr, requests, crashes, failed>>

\* People join and leave the room as long as their tokens let them.
JoinOrLeave(c) ==
    /\ record[c] # NoRecord
    /\ \/ c \notin occupied /\ Live(c) /\ occupied' = occupied \cup {c}
       \/ c \in occupied /\ occupied' = occupied \ {c}
    /\ UNCHANGED <<record, listed, phone, lock, meta, billing, cdr, tasks, requests, crashes, failed>>

\* The instance dies, or an await of the handler rejects with nobody to catch.
Crash(t) ==
    /\ tasks[t] # Idle /\ crashes < MaxCrashes
    /\ Finish(t) /\ crashes' = crashes + 1
    /\ UNCHANGED <<record, listed, phone, lock, meta, billing, occupied, cdr, requests, failed>>

---------------------------------------------------------------------------
SetUp(t) ==
    \/ Acquire(t) \/ Holder(t) \/ Quiet(t) \/ DropLock(t) \/ Authorize(t) \/ Store(t)
    \/ SetUpFails(t)
    \/ FailRead(t) \/ FailWrite(t) \/ Clear(t) \/ ClearMeta(t) \/ GiveUp(t)
InboundSetUp(t) ==
    \/ ClaimCallee(t) \/ ClaimCalleeMeta(t) \/ Reserve(t) \/ Register(t) \/ Save(t)
    \/ DropCallee(t) \/ DropCalleeMeta(t)
StatusUpdate(t) ==
    \/ Read(t) \/ Write(t) \/ Activate(t) \/ Rewrite(t)
    \/ MarkBusy(t) \/ MarkBusyMeta(t) \/ Done(t) \/ RowFails(t)
TearDown(t) ==
    \/ Look(t) \/ Find(t) \/ Free(t) \/ Forget(t) \/ ClearRoom(t)
    \/ Finalize(t) \/ FinalizeFails(t)
Work(t) ==
    /\ tasks[t] # Idle
    /\ \/ tasks[t].kind = "initiate" /\ SetUp(t)
       \/ tasks[t].kind = "inbound" /\ InboundSetUp(t)
       \/ tasks[t].kind = "media" /\ (MediaRead(t) \/ MediaWrite(t))
       \/ tasks[t].kind # "media" /\ (StatusUpdate(t) \/ TearDown(t))

Next ==
    \/ \E t \in Tasks : Work(t) \/ ReserveFails(t) \/ SaveFails(t) \/ Crash(t)
    \/ \E t \in Tasks, c \in Calls :
         \/ Initiate(t, c) \/ Dial(t, c) \/ Hear(t, c)
         \/ \E to \in Reasons : HangUp(t, c, to) \/ PhoneEnds(t, c, to)
         \/ \E to \in {"answered", "active", "missed"} : Update(t, c, to)
    \/ \E c \in Calls :
         Watchdog(c) \/ ProviderTimeout(c) \/ BillingEnds(c) \/ JoinOrLeave(c)

Spec == Init /\ [][Next]_vars

\* A handler that began goes on. The watchdog and the billing supervisor come
\* back every few seconds, so they find a moment at which a call may be ended
\* when there are infinitely many.
Fairness ==
    /\ \A t \in Tasks : WF_vars(Work(t))
    /\ \A c \in Calls : /\ SF_vars(c \notin occupied /\ (Watchdog(c) \/ ProviderTimeout(c)))
                        /\ SF_vars(BillingEnds(c))

FairSpec == Spec /\ Fairness

---------------------------------------------------------------------------
(* Properties *)

Failures == Calls \X {"settlement", "row"}

TypeOK ==
    /\ record \in [Calls -> Record]
    /\ listed \subseteq Calls /\ phone \subseteq Calls
    /\ lock \in [Users -> Calls \cup {NoCall}]
    /\ meta \in [Calls -> SUBSET Roles]
    /\ billing \in [Calls -> {"none", "open", "metered", "closed"}]
    /\ occupied \subseteq Calls /\ cdr \subseteq Calls
    /\ tasks \in [Tasks -> Task \cup {Idle}]
    /\ requests \in 0..MaxRequests /\ crashes \in 0..MaxCrashes
    /\ failed \subseteq Failures

\* A call that is over, with no handler still at work on it, is settled: its
\* billing session is closed and, unless it could not be set up, it is in the
\* call history (endCall closes the session before it stores the status; the
\* catch of initiateCallLocked closes it afterwards). What failed for this very
\* call is excepted, as is everything once a handler has died: nobody tries again,
\* since endCall leaves a call that is over alone.
SettledWhenOver ==
    \A c \in Calls :
        /\ record[c].status \in Terminal /\ WorkOn(c) = {} /\ crashes = 0
        => /\ <<c, "settlement">> \notin failed => billing[c] \notin {"open", "metered"}
           /\ <<c, "row">> \notin failed => c \in cdr \/ record[c].status = "failed"

\* A call that is over does not keep the user it was placed by, or whom it
\* reached by phone, from the next call, however it ended (endCall, and
\* updateSmartCallStatus for the ends that are only stored).
OwnerIsFree ==
    \A c \in Calls :
        record[c].status \in Terminal /\ WorkOn(c) = {} /\ crashes = 0 => lock[Owner(c)] # c

\* No call on the watchdog's list stays answered with nobody in its room, even
\* when a handler dies half way or an old copy of the record is stored over a
\* newer one (processSmartCallWatchdog). A call whose set-up is undone after an
\* old copy of its record was stored again is off the list, and stays answered.
Forsaken(c) == record[c].status \in {"answered", "active"} /\ c \notin occupied
ForsakenCallsEnd ==
    \A c \in Calls : Forsaken(c) /\ c \in listed ~> ~Forsaken(c) \/ c \notin listed

\* A meter that was started is stopped for good, unless a handler dies or the
\* settlement of this call fails
\* (ensureBillingTerminationBinding, endCall, finalizeCallSession).
MetersStop ==
    \A c \in Calls :
        billing[c] = "metered" ~>
            billing[c] = "closed" \/ crashes > 0 \/ <<c, "settlement">> \in failed
=============================================================================
