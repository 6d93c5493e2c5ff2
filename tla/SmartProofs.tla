---------------------------- MODULE SmartProofs ----------------------------
(***************************************************************************)
(* Proofs about SmartCall, for any number of users, calls and handlers: its  *)
(* state is well typed whoever dies half way, and a call that is over is     *)
(* settled once nobody is at work on it.                                     *)
(*                                                                         *)
(* The invariant says, for each handler, what its step tells of the call it  *)
(* is at work on: who has the call to itself until its record is stored,     *)
(* whose session is closed already, what an old copy of the record may say.  *)
(* StepKeeps reduces a step to what it does to its own handler and its own   *)
(* call; the rest is one lemma per action.                                   *)
(***************************************************************************)
EXTENDS SmartCall, TLAPS

---------------------------------------------------------------------------
(* The invariant *)

Recorded(c) == record[c].status # "none"

\* The call a set-up is for, whichever call it is at work on.
Own(h) == IF h.for = NoCall THEN h.call ELSE h.for
SetsUp(h) == h.kind \in {"initiate", "inbound"}
Ends(h) == h.kind = "end" \/ h.for # NoCall

OwnSteps == {"lock", "holder", "relock", "authorize", "store", "failRead", "failWrite",
             "clear", "clearMeta", "clearRoom", "failFinalize", "giveUp"}
PhoneSteps == {"claim", "claimMeta", "reserve", "register", "save", "drop", "dropMeta"}
EarlySteps == {"lock", "holder", "relock", "authorize", "store",
               "claim", "claimMeta", "reserve", "register"}
HoldingSteps == {"authorize", "store", "giveUp", "claimMeta", "reserve", "register", "drop"}
ClosingSteps == {"clear", "clearMeta", "clearRoom", "failFinalize"}
KnownSteps == {"write", "activate", "rewrite", "busy", "failRead", "failWrite",
               "mediaRead", "mediaWrite"} \cup ClosingSteps

\* Which steps belong to which handler, and what the handler has in hand.
Shape(h) ==
    /\ h.for # NoCall => h.kind = "initiate"
    /\ h.pc \in OwnSteps => h.kind = "initiate" /\ h.for = NoCall
    /\ h.pc \in PhoneSteps => h.kind = "inbound" /\ h.for = NoCall
    /\ h.pc = "dropLock" => h.for # NoCall
    /\ Ends(h) => h.to \in Terminal
    /\ ~Ends(h) => h.to \in {"ringing", "answered", "active"}
    /\ h.pc \in {"lock", "holder"} => ~h.stored
    /\ h.pc \in {"write", "activate", "rewrite"} => h.snap.status = h.to
    /\ h.pc \in {"activate", "rewrite"} => h.to \in {"answered", "active"}
    /\ h.pc = "failWrite" => h.snap.status = "failed"
    /\ h.pc = "mediaWrite" => h.snap.status # "none"

\* The set-up has not stored the record of its call.
Early(h) == h.for # NoCall \/ h.pc \in EarlySteps

Closing(h, c) == h.call = c /\ h.pc \in ClosingSteps
Recording(h, c) == h.call = c /\ Ends(h) /\ h.stored /\ h.pc \in {"find", "free", "done"}
Accounted(c) == billing[c] = "closed" \/ <<c, "settlement">> \in failed
Rowed(c) == c \in cdr \/ <<c, "row">> \in failed
\* The session of a call that is over is closed, or the set-up that failed will
\* close it; and its row is in the history, or the handler that ended it will
\* write it; or this was tried in vain.
Ended(c, status) ==
    /\ Accounted(c) \/ \E t \in Tasks : tasks[t] # Idle /\ Closing(tasks[t], c)
    /\ status = "failed" \/ Rowed(c) \/ \E t \in Tasks : tasks[t] # Idle /\ Recording(tasks[t], c)

\* The set-ups belong to calls of their kind.
Reaches(h) ==
    /\ h.kind = "initiate" => Own(h) \notin phone
    /\ h.kind = "inbound" => Own(h) \in phone

\* Whoever stores a record, or undoes a set-up, has found one.
Known(h) == h.pc \in KnownSteps => Recorded(h.call)

\* Nobody else is at work on a call that has no record yet, and its session is
\* opened just before the record is stored.
Alone(t, c) == \A v \in Tasks : tasks[v] # Idle /\ c \in {tasks[v].call, tasks[v].for} => v = t
Unbegun(t, h) ==
    Early(h) => /\ record[Own(h)] = NoRecord
                /\ billing[Own(h)] = IF h.pc \in {"store", "register"} THEN "open" ELSE "none"
                /\ Alone(t, Own(h))

\* The end of a call closes its session, if it can, before it stores the status.
PastFinal(h) == Ends(h) /\ (h.pc \in {"read", "write"} \/ h.stored)
Final(h) == PastFinal(h) /\ Recorded(h.call) => Accounted(h.call)

\* An old copy of a record tells of an end that was one.
Heard(h) == h.pc = "mediaWrite" /\ h.snap.status \in Terminal => Ended(h.call, h.snap.status)

TaskInv(t) ==
    /\ Shape(tasks[t]) /\ Reaches(tasks[t]) /\ Known(tasks[t]) /\ Unbegun(t, tasks[t])
    /\ Final(tasks[t]) /\ Heard(tasks[t])

CallInv(c) ==
    /\ Recorded(c) => billing[c] # "none"
    /\ record[c].status \in Terminal => Ended(c, record[c].status)

\* A lock names a call that has a record, or one that its owner sets up.
LockInv(u) ==
    lock[u] # NoCall /\ ~Recorded(lock[u]) =>
        /\ Owner(lock[u]) = u
        /\ \E t \in Tasks : tasks[t] # Idle /\ tasks[t].call = lock[u] /\ tasks[t].pc \in HoldingSteps

\* A user sets up one call at a time.
OneSetUp ==
    \A t, v \in Tasks :
        /\ tasks[t] # Idle /\ tasks[v] # Idle /\ SetsUp(tasks[t]) /\ SetsUp(tasks[v])
        /\ Owner(Own(tasks[t])) = Owner(Own(tasks[v]))
        => t = v

CallsInv ==
    /\ \A t \in Tasks : tasks[t] # Idle => TaskInv(t)
    /\ \A c \in Calls : CallInv(c)
    /\ \A u \in Users : LockInv(u)
    /\ OneSetUp

Settled == crashes = 0 => CallsInv

---------------------------------------------------------------------------
(* Handlers at work, as records *)

\* A handler at work has a record, Idle has not its fields.
LEMMA TaskFields ==
  ASSUME NEW h \in Task
  PROVE  /\ h # Idle
         /\ h.kind \in Kinds /\ h.pc \in Steps /\ h.call \in Calls /\ h.to \in Statuses
         /\ h.snap \in Record /\ h.snap.status \in Statuses \cup {"none"}
         /\ h.stored \in BOOLEAN /\ h.role \in Roles /\ h.for \in Calls \cup {NoCall}
<1>1. h.kind \in Kinds /\ h.pc \in Steps /\ h.call \in Calls /\ h.to \in Statuses
      /\ h.snap \in Record
  BY DEF Task
<1>2. h.stored \in BOOLEAN /\ h.role \in Roles /\ h.for \in Calls \cup {NoCall}
  BY DEF Task
<1>3. h.kind # "idle"
  BY <1>1 DEF Kinds
<1>4. h # Idle
  BY <1>3 DEF Idle
<1>5. h.snap.status \in Statuses \cup {"none"}
  BY <1>1 DEF Record
<1> QED BY <1>1, <1>2, <1>4, <1>5

\* What a handler at work is like.
LEMMA AtWork ==
  ASSUME TypeOK, NEW t \in Tasks, tasks[t] # Idle
  PROVE  tasks[t] \in Task
  BY DEF TypeOK

\* h goes on to a step, and all else stays as it was.
Passes(h, w, step) ==
    /\ w \in Task /\ w.pc = step
    /\ w.kind = h.kind /\ w.call = h.call /\ w.to = h.to /\ w.snap = h.snap
    /\ w.stored = h.stored /\ w.role = h.role /\ w.for = h.for

\* Goto changes the step of one handler.
LEMMA GotoPasses ==
  ASSUME TypeOK, NEW t \in Tasks, tasks[t] # Idle, NEW step \in Steps, Goto(t, step)
  PROVE  \E w \in Task : Passes(tasks[t], w, step) /\ tasks' = [tasks EXCEPT ![t] = w]
<1> DEFINE h == tasks[t]
           w == [h EXCEPT !.pc = step]
<1>1. h \in Task
  BY AtWork
<1>2. w \in Task
  BY <1>1 DEF Task
<1>3. Passes(h, w, step)
  BY <1>1, <1>2 DEF Passes, Task
<1>4. tasks' = [tasks EXCEPT ![t] = w]
  BY DEF Goto
<1> QED BY <1>2, <1>3, <1>4

\* The record of a handler that has just begun.
Begun(w, kind, step, c, to) ==
    /\ w \in Task /\ w.kind = kind /\ w.pc = step /\ w.call = c /\ w.to = to
    /\ w.stored = FALSE /\ w.for = NoCall

\* Begin puts such a handler to work.
LEMMA BeginBegins ==
  ASSUME NEW t \in Tasks, NEW kind \in Kinds, NEW step \in Steps, NEW c \in Calls,
         NEW to \in Statuses, Begin(t, kind, step, c, to)
  PROVE  /\ tasks[t] = Idle
         /\ \E w \in Task : Begun(w, kind, step, c, to) /\ tasks' = [tasks EXCEPT ![t] = w]
<1> DEFINE w == [kind |-> kind, pc |-> step, call |-> c, to |-> to, snap |-> NoRecord,
                 stored |-> FALSE, role |-> "caller", for |-> NoCall]
<1>1. NoRecord \in Record
  BY DEF NoRecord, Record
<1>2. w \in Task
  BY <1>1 DEF Task, Roles
<1>3. Begun(w, kind, step, c, to)
  BY <1>2 DEF Begun
<1>4. tasks[t] = Idle /\ tasks' = [tasks EXCEPT ![t] = w]
  BY DEF Begin
<1> QED BY <1>2, <1>3, <1>4

---------------------------------------------------------------------------
(* Types *)

\* A handler drops the lock of the call that waits for it, and there is one.
Doing == {h \in Task : h.pc = "dropLock" => h.for # NoCall}
TypeInv == TypeOK /\ tasks \in [Tasks -> Doing \cup {Idle}]

\* The tasks stay well typed when one of them changes to another handler.
LEMMA TasksTyped ==
  ASSUME TypeInv, NEW t \in Tasks, NEW w \in Doing \cup {Idle}, tasks' = [tasks EXCEPT ![t] = w]
  PROVE  tasks' \in [Tasks -> Task \cup {Idle}] /\ tasks' \in [Tasks -> Doing \cup {Idle}]
<1>1. tasks' \in [Tasks -> Doing \cup {Idle}]
  BY DEF TypeInv
<1>2. Doing \subseteq Task
  BY DEF Doing
<1> QED BY <1>1, <1>2

Typed == tasks' \in [Tasks -> Task \cup {Idle}] /\ tasks' \in [Tasks -> Doing \cup {Idle}]

\* Going on keeps the tasks well typed.
LEMMA GotoTyped ==
  ASSUME TypeInv, NEW t \in Tasks, tasks[t] # Idle, NEW step \in Steps, Goto(t, step),
         step = "dropLock" => tasks[t].for # NoCall
  PROVE  Typed
<1>1. TypeOK
  BY DEF TypeInv
<1>2. PICK w \in Task : Passes(tasks[t], w, step) /\ tasks' = [tasks EXCEPT ![t] = w]
  BY <1>1, GotoPasses
<1>3. w \in Doing
  BY <1>2 DEF Doing, Passes
<1> QED BY <1>2, <1>3, TasksTyped DEF Typed
\* The same for a handler that is through.
LEMMA FinishTyped ==
  ASSUME TypeInv, NEW t \in Tasks, Finish(t)
  PROVE  Typed
  BY TasksTyped DEF Finish, Typed
\* The same for one that finds its call missing.
LEMMA MissingTyped ==
  ASSUME TypeInv, NEW t \in Tasks, tasks[t] # Idle, Missing(t)
  PROVE  Typed
  BY GotoTyped, FinishTyped DEF Missing, Steps
\* The same for one that begins.
LEMMA BeginTyped ==
  ASSUME TypeInv, NEW t \in Tasks, NEW kind \in Kinds, NEW step \in Steps \ {"dropLock"},
         NEW c \in Calls, NEW to \in Statuses, Begin(t, kind, step, c, to)
  PROVE  Typed
<1>1. PICK w \in Task : Begun(w, kind, step, c, to) /\ tasks' = [tasks EXCEPT ![t] = w]
  BY BeginBegins
<1>2. w \in Doing
  BY <1>1 DEF Doing, Begun
<1> QED BY <1>1, <1>2, TasksTyped DEF Typed

\* All of TypeOK but the tasks.
LEMMA TypedStep ==
  ASSUME Typed, record' \in [Calls -> Record], phone' \subseteq Calls,
         lock' \in [Users -> Calls \cup {NoCall}], meta' \in [Calls -> SUBSET Roles],
         billing' \in [Calls -> {"none", "open", "metered", "closed"}],
         listed' \subseteq Calls, occupied' \subseteq Calls, cdr' \subseteq Calls,
         failed' \subseteq Failures, requests' \in 0..MaxRequests, crashes' \in 0..MaxCrashes
  PROVE  TypeInv'
  BY DEF Typed, TypeInv, TypeOK

\* The parties of a call are users.
LEMMA Parties ==
  ASSUME NEW c \in Calls, NEW role \in Roles
  PROVE  CallerOf[c] \in Users /\ CalleeOf[c] \in Users /\ TargetOf[c] \in Users
         /\ Party(c, role) \in Users /\ Owner(c) \in Users
  BY SmartCallAssumption DEF Party, Owner

\* The caller's set-up.
LEMMA SetUpTyped ==
  ASSUME TypeInv, NEW t \in Tasks, tasks[t] # Idle, SetUp(t)
  PROVE  TypeInv'
<1> DEFINE h == tasks[t]
           c == h.call
<1>h. h \in Task /\ c \in Calls /\ h.for \in Calls \cup {NoCall} /\ h.snap \in Record
  BY AtWork, TaskFields DEF TypeInv
<1>d. h.pc = "dropLock" => h.for # NoCall
  BY DEF TypeInv, Doing
<1>u. CallerOf[c] \in Users
  BY <1>h, SmartCallAssumption
<1>y. TypeOK
  BY DEF TypeInv
<1>g. \A step \in Steps \ {"dropLock"} : Goto(t, step) => Typed
  BY GotoTyped
<1>f. Finish(t) => Typed
  BY FinishTyped
<1>0. {"authorize", "holder", "store", "look", "giveUp", "read",
       "clear", "clearMeta", "clearRoom"} \subseteq Steps \ {"dropLock"}
  BY DEF Steps
<1>1. CASE Acquire(t)
  <2>1. Typed
    BY <1>1, <1>g, <1>f, <1>0 DEF Acquire
  <2>2. lock' \in [Users -> Calls \cup {NoCall}]
    BY <1>1, <1>h, <1>y DEF Acquire, TypeOK
  <2> QED BY <1>1, <1>y, <2>1, <2>2, TypedStep DEF Acquire, TypeOK
<1>2. CASE Holder(t)
  <2> DEFINE held == lock[CallerOf[c]]
             w == [h EXCEPT !.pc = "quiet", !.call = held, !.for = c, !.to = "ended"]
  <2>1. CASE held = NoCall
    BY <1>2, <2>1, <1>f, <1>y, TypedStep DEF Holder, TypeOK
  <2>2. CASE held # NoCall
    <3>1. held \in Calls
      BY <2>2, <1>u, <1>y DEF TypeOK
    <3>2. w \in Task
      BY <1>h, <3>1 DEF Task, Steps, Statuses, Terminal
    <3>3. w.pc = "quiet"
      BY <1>h DEF Task
    <3>4. tasks' = [tasks EXCEPT ![t] = w]
      BY <1>2, <2>2 DEF Holder
    <3>5. Typed
      BY <3>2, <3>3, <3>4, TasksTyped DEF Doing, Typed
    <3> QED BY <1>2, <1>y, <3>5, TypedStep DEF Holder, TypeOK
  <2> QED BY <2>1, <2>2
<1>3. CASE Quiet(t)
  <2>1. Typed
    BY <1>3, <1>g, <1>f, <1>0 DEF Quiet
  <2> QED BY <1>3, <2>1, <1>y, TypedStep DEF Quiet, TypeOK
<1>4. CASE DropLock(t)
  <2> DEFINE w == [h EXCEPT !.pc = "relock", !.call = h.for, !.for = NoCall, !.to = "ringing",
                            !.stored = FALSE, !.role = "caller"]
  <2>1. h.for \in Calls
    BY <1>4, <1>h, <1>d DEF DropLock, At
  <2>2. w \in Task
    BY <1>h, <2>1 DEF Task, Steps, Statuses, Active, Roles
  <2>3. w.pc = "relock"
    BY <1>h DEF Task
  <2>4. tasks' = [tasks EXCEPT ![t] = w]
    BY <1>4 DEF DropLock
  <2>5. Typed
    BY <2>2, <2>3, <2>4, TasksTyped DEF Doing, Typed
  <2>6. lock' \in [Users -> Calls \cup {NoCall}]
    BY <1>4, <1>y DEF DropLock, TypeOK
  <2> QED BY <1>4, <1>y, <2>5, <2>6, TypedStep DEF DropLock, TypeOK
<1>5. CASE Authorize(t)
  <2>1. Typed
    BY <1>5, <1>g, <1>0 DEF Authorize
  <2>2. billing' \in [Calls -> {"none", "open", "metered", "closed"}]
    BY <1>5, <1>y DEF Authorize, TypeOK
  <2> QED BY <1>5, <1>y, <2>1, <2>2, TypedStep DEF Authorize, TypeOK
<1>6. CASE Store(t)
  <2>1. Typed
    BY <1>6, <1>g, <1>0 DEF Store
  <2>2. meta' \in [Calls -> SUBSET Roles]
    BY <1>6, <1>y DEF Store, TypeOK, Roles
  <2>3. [status |-> "created", activated |-> FALSE] \in Record
    BY DEF Record, Statuses, Active
  <2>4. record' \in [Calls -> Record]
    BY <1>6, <1>y, <2>3 DEF Store, StoreCall, TypeOK
  <2> QED BY <1>6, <1>y, <2>1, <2>2, <2>4, TypedStep DEF Store, StoreCall, TypeOK
<1>7. CASE SetUpFails(t)
  <2>1. Typed
    BY <1>7, <1>g, <1>0 DEF SetUpFails
  <2> QED BY <1>7, <2>1, <1>y, TypedStep DEF SetUpFails, TypeOK
<1>8. CASE FailRead(t)
  <2> DEFINE snap == [record[c] EXCEPT !.status = "failed"]
             w == [h EXCEPT !.pc = "failWrite", !.snap = snap]
  <2>1. snap \in Record
    BY <1>h, <1>y DEF TypeOK, Record, Statuses, Terminal
  <2>2. w \in Task
    BY <1>h, <2>1 DEF Task, Steps
  <2>3. w.pc = "failWrite"
    BY <1>h DEF Task
  <2>4. tasks' = [tasks EXCEPT ![t] = w]
    BY <1>8 DEF FailRead
  <2>5. Typed
    BY <2>2, <2>3, <2>4, TasksTyped DEF Doing, Typed
  <2> QED BY <1>8, <1>y, <2>5, TypedStep DEF FailRead, TypeOK
<1>9. CASE FailWrite(t)
  <2>1. Typed
    BY <1>9, <1>g, <1>0 DEF FailWrite
  <2>2. record' \in [Calls -> Record]
    BY <1>9, <1>y, <1>h DEF FailWrite, StoreCall, TypeOK
  <2> QED BY <1>9, <1>y, <2>1, <2>2, TypedStep DEF FailWrite, StoreCall, TypeOK
<1>10. CASE Clear(t)
  <2>1. Typed
    BY <1>10, <1>g, <1>0 DEF Clear
  <2>2. lock' \in [Users -> Calls \cup {NoCall}]
    BY <1>10, <1>y DEF Clear, TypeOK
  <2> QED BY <1>10, <1>y, <2>1, <2>2, TypedStep DEF Clear, TypeOK
<1>11. CASE ClearMeta(t)
  <2>1. Typed
    BY <1>11, <1>g, <1>0 DEF ClearMeta
  <2>2. meta' \in [Calls -> SUBSET Roles]
    BY <1>11, <1>h, <1>y DEF ClearMeta, TypeOK
  <2> QED BY <1>11, <1>y, <2>1, <2>2, TypedStep DEF ClearMeta, TypeOK
<1>12. CASE GiveUp(t)
  <2>1. Typed
    BY <1>12, <1>f DEF GiveUp
  <2>2. lock' \in [Users -> Calls \cup {NoCall}]
    BY <1>12, <1>y DEF GiveUp, TypeOK
  <2> QED BY <1>12, <1>y, <2>1, <2>2, TypedStep DEF GiveUp, TypeOK
<1> QED BY <1>1, <1>2, <1>3, <1>4, <1>5, <1>6, <1>7, <1>8, <1>9, <1>10, <1>11, <1>12 DEF SetUp

\* The set-up of a phone call.
LEMMA InboundTyped ==
  ASSUME TypeInv, NEW t \in Tasks, tasks[t] # Idle,
         InboundSetUp(t) \/ ReserveFails(t) \/ SaveFails(t)
  PROVE  TypeInv'
<1> DEFINE h == tasks[t]
           c == h.call
<1>h. h \in Task /\ c \in Calls
  BY AtWork, TaskFields DEF TypeInv
<1>y. TypeOK
  BY DEF TypeInv
<1>g. \A step \in Steps \ {"dropLock"} : Goto(t, step) => Typed
  BY GotoTyped
<1>f. Finish(t) => Typed
  BY FinishTyped
<1>0. {"claimMeta", "reserve", "register", "drop", "save", "dropMeta"} \subseteq Steps \ {"dropLock"}
  BY DEF Steps
<1>1. CASE ClaimCallee(t)
  <2>1. Typed
    BY <1>1, <1>g, <1>f, <1>0 DEF ClaimCallee
  <2>2. lock' \in [Users -> Calls \cup {NoCall}]
    BY <1>1, <1>h, <1>y DEF ClaimCallee, TypeOK
  <2> QED BY <1>1, <1>y, <2>1, <2>2, TypedStep DEF ClaimCallee, TypeOK
<1>2. CASE ClaimCalleeMeta(t)
  <2>1. Typed
    BY <1>2, <1>g, <1>0 DEF ClaimCalleeMeta
  <2>2. meta' \in [Calls -> SUBSET Roles]
    BY <1>2, <1>h, <1>y DEF ClaimCalleeMeta, TypeOK, Roles
  <2> QED BY <1>2, <1>y, <2>1, <2>2, TypedStep DEF ClaimCalleeMeta, TypeOK
<1>3. CASE Reserve(t)
  <2>1. Typed
    BY <1>3, <1>g, <1>0 DEF Reserve
  <2>2. billing' \in [Calls -> {"none", "open", "metered", "closed"}]
    BY <1>3, <1>y DEF Reserve, TypeOK
  <2> QED BY <1>3, <1>y, <2>1, <2>2, TypedStep DEF Reserve, TypeOK
<1>4. CASE ReserveFails(t)
  <2>1. Typed
    BY <1>4, <1>g, <1>0 DEF ReserveFails
  <2>2. crashes' \in 0..MaxCrashes
    BY <1>4, <1>y, SmartCallAssumption DEF ReserveFails, TypeOK
  <2> QED BY <1>4, <1>y, <2>1, <2>2, TypedStep DEF ReserveFails, TypeOK
<1>5. CASE Register(t)
  <2>1. Typed
    BY <1>5, <1>g, <1>0 DEF Register
  <2>2. [status |-> "ringing", activated |-> FALSE] \in Record
    BY DEF Record, Statuses, Active
  <2>3. record' \in [Calls -> Record]
    BY <1>5, <1>y, <2>2 DEF Register, StoreCall, TypeOK
  <2>4. listed' \subseteq Calls
    BY <1>5, <1>h, <1>y DEF Register, StoreCall, TypeOK
  <2>5. UNCHANGED <<phone, lock, meta, billing, occupied, cdr, requests, crashes, failed>>
    BY <1>5 DEF Register
  <2> QED BY <1>y, <2>1, <2>3, <2>4, <2>5, TypedStep DEF TypeOK
<1>6. CASE Save(t)
  <2>1. Typed
    BY <1>6, <1>f DEF Save
  <2> QED BY <1>6, <1>y, <2>1, TypedStep DEF Save, TypeOK
<1>7. CASE SaveFails(t)
  <2>1. Typed
    BY <1>7, <1>g, <1>0 DEF SaveFails
  <2>2. crashes' \in 0..MaxCrashes
    BY <1>7, <1>y, SmartCallAssumption DEF SaveFails, TypeOK
  <2> QED BY <1>7, <1>y, <2>1, <2>2, TypedStep DEF SaveFails, TypeOK
<1>8. CASE DropCallee(t)
  <2>1. Typed
    BY <1>8, <1>g, <1>0 DEF DropCallee
  <2>2. lock' \in [Users -> Calls \cup {NoCall}]
    BY <1>8, <1>y DEF DropCallee, TypeOK
  <2> QED BY <1>8, <1>y, <2>1, <2>2, TypedStep DEF DropCallee, TypeOK
<1>9. CASE DropCalleeMeta(t)
  <2>1. Typed
    BY <1>9, <1>f DEF DropCalleeMeta
  <2>2. meta' \in [Calls -> SUBSET Roles]
    BY <1>9, <1>h, <1>y DEF DropCalleeMeta, TypeOK
  <2> QED BY <1>9, <1>y, <2>1, <2>2, TypedStep DEF DropCalleeMeta, TypeOK
<1> QED BY <1>1, <1>2, <1>3, <1>4, <1>5, <1>6, <1>7, <1>8, <1>9 DEF InboundSetUp

\* The update of a status.
LEMMA StatusTyped ==
  ASSUME TypeInv, NEW t \in Tasks, tasks[t] # Idle, StatusUpdate(t)
  PROVE  TypeInv'
<1> DEFINE h == tasks[t]
           c == h.call
<1>h. h \in Task /\ c \in Calls /\ h.to \in Statuses /\ h.snap \in Record
  BY AtWork, TaskFields DEF TypeInv
<1>y. TypeOK
  BY DEF TypeInv
<1>g. \A step \in Steps \ {"dropLock"} : Goto(t, step) => Typed
  BY GotoTyped
<1>m. Missing(t) => Typed
  BY MissingTyped
<1>0. {"failRead", "rewrite", "busy", "busyMeta", "done"} \subseteq Steps \ {"dropLock"}
  BY DEF Steps
<1>1. CASE Read(t)
  <2> DEFINE snap == [record[c] EXCEPT !.status = h.to]
             w == [h EXCEPT !.pc = "write", !.snap = snap]
  <2>1. \/ Missing(t) \/ Refused(t) \/ tasks' = [tasks EXCEPT ![t] = w]
    BY <1>1 DEF Read
  <2>2. snap \in Record
    BY <1>h, <1>y DEF TypeOK, Record
  <2>3. w \in Task /\ w.pc = "write"
    BY <1>h, <2>2 DEF Task, Steps
  <2>4. Refused(t) => Typed
    BY <1>g, <1>m, <1>0 DEF Refused
  <2>5. Typed
    BY <1>m, <2>1, <2>3, <2>4, TasksTyped DEF Doing, Typed
  <2> QED BY <1>1, <1>y, <2>5, TypedStep DEF Read, TypeOK
<1>2. CASE Write(t)
  <2> DEFINE pc == AfterWrite(h.to)
             w == [h EXCEPT !.stored = TRUE, !.role = "caller", !.pc = pc]
  <2>1. pc \in Steps /\ pc # "dropLock"
    BY DEF Steps, Terminal, AfterWrite
  <2>2. tasks' = [tasks EXCEPT ![t] = w]
    BY <1>2 DEF Write
  <2>3. w \in Task /\ w.pc # "dropLock"
    <3> HIDE DEF pc
    <3> QED BY <1>h, <2>1 DEF Task, Roles
  <2>4. Typed
    BY <2>2, <2>3, TasksTyped DEF Doing, Typed
  <2>5. record' \in [Calls -> Record]
    BY <1>2, <1>y, <1>h DEF Write, StoreCall, TypeOK
  <2> QED BY <1>2, <1>y, <2>4, <2>5, TypedStep DEF Write, StoreCall, TypeOK
<1>a. AfterBilling(t) \in {"busy", "done"}
  BY DEF AfterBilling
<1>3. CASE Activate(t)
  <2>1. Typed
    BY <1>3, <1>g, <1>0, <1>a DEF Activate
  <2>2. billing' \in [Calls -> {"none", "open", "metered", "closed"}]
    BY <1>3, <1>h, <1>y DEF Activate, TypeOK
  <2> QED BY <1>3, <1>y, <2>1, <2>2, TypedStep DEF Activate, TypeOK
<1>4. CASE Rewrite(t)
  <2>1. Typed
    BY <1>4, <1>g, <1>0, <1>a DEF Rewrite
  <2>2. [h.snap EXCEPT !.activated = TRUE] \in Record
    BY <1>h DEF Record
  <2>3. record' \in [Calls -> Record]
    BY <1>4, <1>y, <2>2 DEF Rewrite, StoreCall, TypeOK
  <2> QED BY <1>4, <1>y, <2>1, <2>3, TypedStep DEF Rewrite, StoreCall, TypeOK
<1>5. CASE MarkBusy(t)
  <2>1. Typed
    BY <1>5, <1>g, <1>0 DEF MarkBusy
  <2>2. lock' \in [Users -> Calls \cup {NoCall}]
    BY <1>5, <1>y, <1>h DEF MarkBusy, TypeOK
  <2> QED BY <1>5, <1>y, <2>1, <2>2, TypedStep DEF MarkBusy, TypeOK
<1>6. CASE MarkBusyMeta(t)
  <2>1. Typed
    BY <1>6, <1>g, <1>0 DEF MarkBusyMeta
  <2>2. meta' \in [Calls -> SUBSET Roles]
    BY <1>6, <1>h, <1>y DEF MarkBusyMeta, TypeOK, Roles
  <2> QED BY <1>6, <1>y, <2>1, <2>2, TypedStep DEF MarkBusyMeta, TypeOK
<1>7. CASE Done(t)
  <2>1. cdr' \subseteq Calls
    BY <1>7, <1>h, <1>y DEF Done, TypeOK
  <2> QED BY <1>7, <1>y, <1>m, <2>1, TypedStep DEF Done, TypeOK
<1>8. CASE RowFails(t)
  <2>1. failed' \subseteq Failures
    BY <1>8, <1>h, <1>y DEF RowFails, FailsFor, Failures, TypeOK
  <2> QED BY <1>8, <1>y, <1>m, <2>1, TypedStep DEF RowFails, TypeOK
<1> QED BY <1>1, <1>2, <1>3, <1>4, <1>5, <1>6, <1>7, <1>8 DEF StatusUpdate

\* The end of a call.
LEMMA TearDownTyped ==
  ASSUME TypeInv, NEW t \in Tasks, tasks[t] # Idle, TearDown(t)
  PROVE  TypeInv'
<1> DEFINE h == tasks[t]
           c == h.call
<1>h. h \in Task /\ c \in Calls
  BY AtWork, TaskFields DEF TypeInv
<1>y. TypeOK
  BY DEF TypeInv
<1>g. \A step \in Steps \ {"dropLock"} : Goto(t, step) => Typed
  BY GotoTyped
<1>m. Missing(t) => Typed
  BY MissingTyped
<1>0. {"find", "free", "forget", "room", "done", "finalize", "failFinalize", "giveUp", "read"}
        \subseteq Steps \ {"dropLock"}
  BY DEF Steps
<1>n. NextRole(t) => Typed
  <2> DEFINE w == [h EXCEPT !.pc = "find", !.role = "callee"]
  <2>1. w \in Task /\ w.pc = "find"
    BY <1>h DEF Task, Steps, Roles
  <2>2. w \in Doing
    BY <2>1 DEF Doing
  <2>3. ASSUME NextRole(t) PROVE \/ tasks' = [tasks EXCEPT ![t] = w]
                                 \/ Goto(t, "done") \/ Goto(t, "room")
    BY <2>3 DEF NextRole
  <2> QED BY <1>g, <1>0, <2>2, <2>3, TasksTyped DEF Typed
<1>a. AfterFree(t) => Typed
  BY <1>g, <1>n, <1>0 DEF AfterFree
<1>1. CASE Look(t)
  <2>1. Typed
    BY <1>1, <1>g, <1>m, <1>0 DEF Look
  <2> QED BY <1>1, <1>y, <2>1, TypedStep DEF Look, TypeOK
<1>2. CASE Find(t)
  <2>1. Typed
    BY <1>2, <1>g, <1>a, <1>0 DEF Find
  <2> QED BY <1>2, <1>y, <2>1, TypedStep DEF Find, TypeOK
<1>3. CASE Free(t)
  <2>1. Typed
    BY <1>3, <1>a DEF Free
  <2>2. lock' \in [Users -> Calls \cup {NoCall}]
    BY <1>3, <1>y DEF Free, TypeOK
  <2> QED BY <1>3, <1>y, <2>1, <2>2, TypedStep DEF Free, TypeOK
<1>4. CASE Forget(t)
  <2>1. Typed
    BY <1>4, <1>n DEF Forget
  <2>2. meta' \in [Calls -> SUBSET Roles]
    BY <1>4, <1>h, <1>y DEF Forget, TypeOK
  <2> QED BY <1>4, <1>y, <2>1, <2>2, TypedStep DEF Forget, TypeOK
<1>5. CASE ClearRoom(t)
  <2>1. Typed
    BY <1>5, <1>g, <1>0 DEF ClearRoom
  <2>2. occupied' \subseteq Calls
    BY <1>5, <1>y DEF ClearRoom, TypeOK
  <2> QED BY <1>5, <1>y, <2>1, <2>2, TypedStep DEF ClearRoom, TypeOK
<1>6. CASE Finalize(t)
  <2>1. Typed
    BY <1>6, <1>g, <1>0 DEF Finalize
  <2>2. billing' \in [Calls -> {"none", "open", "metered", "closed"}]
    BY <1>6, <1>h, <1>y DEF Finalize, TypeOK
  <2> QED BY <1>6, <1>y, <2>1, <2>2, TypedStep DEF Finalize, TypeOK
<1>7. CASE FinalizeFails(t)
  <2>1. Typed
    BY <1>7, <1>g, <1>0 DEF FinalizeFails
  <2>2. failed' \subseteq Failures
    BY <1>7, <1>h, <1>y DEF FinalizeFails, FailsFor, Failures, TypeOK
  <2> QED BY <1>7, <1>y, <2>1, <2>2, TypedStep DEF FinalizeFails, TypeOK
<1> QED BY <1>1, <1>2, <1>3, <1>4, <1>5, <1>6, <1>7 DEF TearDown

\* The translator's report.
LEMMA MediaTyped ==
  ASSUME TypeInv, NEW t \in Tasks, tasks[t] # Idle, MediaRead(t) \/ MediaWrite(t)
  PROVE  TypeInv'
<1> DEFINE h == tasks[t]
           c == h.call
<1>h. h \in Task /\ c \in Calls /\ h.snap \in Record
  BY AtWork, TaskFields DEF TypeInv
<1>y. TypeOK
  BY DEF TypeInv
<1>1. CASE MediaRead(t)
  <2> DEFINE w == [h EXCEPT !.pc = "mediaWrite", !.snap = record[c]]
  <2>1. w \in Task /\ w.pc = "mediaWrite"
    BY <1>h, <1>y DEF Task, Steps, TypeOK
  <2>2. tasks' = [tasks EXCEPT ![t] = w]
    BY <1>1 DEF MediaRead
  <2>3. Typed
    BY <2>1, <2>2, TasksTyped DEF Doing, Typed
  <2> QED BY <1>1, <1>y, <2>3, TypedStep DEF MediaRead, TypeOK
<1>2. CASE MediaWrite(t)
  <2>1. Typed
    BY <1>2, FinishTyped DEF MediaWrite
  <2>2. record' \in [Calls -> Record]
    BY <1>2, <1>y, <1>h DEF MediaWrite, StoreCall, TypeOK
  <2> QED BY <1>2, <1>y, <2>1, <2>2, TypedStep DEF MediaWrite, StoreCall, TypeOK
<1> QED BY <1>1, <1>2

\* A handler begins with a call that exists, and asks for what it may ask for.
Starts(t, c) ==
    \/ Initiate(t, c) \/ Dial(t, c) \/ Hear(t, c)
    \/ \E to \in Reasons : HangUp(t, c, to) \/ PhoneEnds(t, c, to)
    \/ \E to \in {"answered", "active", "missed"} : Update(t, c, to)

\* Handlers that begin on somebody's request.
LEMMA StartsTyped ==
  ASSUME TypeInv, NEW t \in Tasks, NEW c \in Calls, Starts(t, c)
  PROVE  TypeInv'
<1>y. TypeOK
  BY DEF TypeInv
<1>r. ASSUME Ask PROVE requests' \in 0..MaxRequests
  BY <1>r, <1>y, SmartCallAssumption DEF Ask, TypeOK
<1>s. Reasons \cup {"answered", "active", "missed", "ringing"} \subseteq Statuses
  BY SmartCallAssumption DEF Statuses, Terminal, Active
<1>b. ASSUME NEW kind \in Kinds, NEW step \in Steps \ {"dropLock"}, NEW to \in Statuses,
             Begin(t, kind, step, c, to)
      PROVE  Typed
  BY <1>b, BeginTyped
<1>k. Kinds = {"initiate", "inbound", "status", "end", "media"}
      /\ {"lock", "claim", "read", "look", "mediaRead"} \subseteq Steps \ {"dropLock"}
  BY DEF Kinds, Steps
<1>1. CASE Initiate(t, c)
  <2>1. Typed
    BY <1>1, <1>b, <1>k, <1>s DEF Initiate
  <2> QED BY <1>1, <1>y, <2>1, TypedStep DEF Initiate, TypeOK
<1>2. CASE Dial(t, c)
  <2>1. Typed
    BY <1>2, <1>b, <1>k, <1>s DEF Dial
  <2>2. phone' \subseteq Calls
    BY <1>2, <1>y DEF Dial, TypeOK
  <2> QED BY <1>2, <1>y, <2>1, <2>2, TypedStep DEF Dial, TypeOK
<1>3. CASE Hear(t, c)
  <2>1. Typed
    BY <1>3, <1>b, <1>k, <1>s DEF Hear
  <2>2. requests' \in 0..MaxRequests
    BY <1>3, <1>r DEF Hear
  <2> QED BY <1>3, <1>y, <2>1, <2>2, TypedStep DEF Hear, TypeOK
<1>4. ASSUME NEW to \in Reasons, HangUp(t, c, to) PROVE TypeInv'
  <2>1. Typed
    BY <1>4, <1>b, <1>k, <1>s DEF HangUp
  <2>2. requests' \in 0..MaxRequests
    BY <1>4, <1>r DEF HangUp
  <2> QED BY <1>4, <1>y, <2>1, <2>2, TypedStep DEF HangUp, TypeOK
<1>5. ASSUME NEW to \in Reasons, PhoneEnds(t, c, to) PROVE TypeInv'
  <2>1. Typed
    BY <1>5, <1>b, <1>k, <1>s DEF PhoneEnds
  <2>2. requests' \in 0..MaxRequests
    BY <1>5, <1>r DEF PhoneEnds
  <2> QED BY <1>5, <1>y, <2>1, <2>2, TypedStep DEF PhoneEnds, TypeOK
<1>6. ASSUME NEW to \in {"answered", "active", "missed"}, Update(t, c, to) PROVE TypeInv'
  <2>1. Typed
    BY <1>6, <1>b, <1>k, <1>s DEF Update
  <2>2. requests' \in 0..MaxRequests
    BY <1>6, <1>r DEF Update
  <2> QED BY <1>6, <1>y, <2>1, <2>2, TypedStep DEF Update, TypeOK
<1> QED BY <1>1, <1>2, <1>3, <1>4, <1>5, <1>6 DEF Starts

\* What happens by itself.
LEMMA ByItselfTyped ==
  ASSUME TypeInv, NEW c \in Calls,
         Watchdog(c) \/ ProviderTimeout(c) \/ BillingEnds(c) \/ JoinOrLeave(c)
  PROVE  TypeInv'
<1>y. TypeOK
  BY DEF TypeInv
<1>b. ASSUME NEW t \in Tasks, NEW to \in {"ended", "failed"}, Begin(t, "end", "look", c, to)
      PROVE  Typed
  BY <1>b, BeginTyped DEF Kinds, Steps, Statuses, Terminal
<1>1. CASE Watchdog(c)
  <2>1. Typed
    BY <1>1, <1>b DEF Watchdog
  <2> QED BY <1>1, <1>y, <2>1, TypedStep DEF Watchdog, TypeOK
<1>2. CASE ProviderTimeout(c)
  <2>1. Typed
    BY <1>2, <1>b DEF ProviderTimeout
  <2> QED BY <1>2, <1>y, <2>1, TypedStep DEF ProviderTimeout, TypeOK
<1>3. CASE BillingEnds(c)
  <2>1. Typed
    BY <1>3, <1>b DEF BillingEnds
  <2> QED BY <1>3, <1>y, <2>1, TypedStep DEF BillingEnds, TypeOK
<1>4. CASE JoinOrLeave(c)
  BY <1>4 DEF JoinOrLeave, TypeInv, TypeOK
<1> QED BY <1>1, <1>2, <1>3, <1>4

\* A handler that dies.
LEMMA CrashTyped ==
  ASSUME TypeInv, NEW t \in Tasks, Crash(t)
  PROVE  TypeInv'
<1>y. TypeOK
  BY DEF TypeInv
<1>1. Typed
  BY FinishTyped DEF Crash
<1>2. crashes' \in 0..MaxCrashes
  BY <1>y, SmartCallAssumption DEF Crash, TypeOK
<1> QED BY <1>1, <1>2, <1>y, TypedStep DEF Crash, TypeOK

\* Every step keeps the types.
LEMMA TypeStep == TypeInv /\ [Next]_vars => TypeInv'
<1> SUFFICES ASSUME TypeInv, [Next]_vars PROVE TypeInv'
  OBVIOUS
<1>1. ASSUME NEW t \in Tasks, Work(t) PROVE TypeInv'
  BY <1>1, SetUpTyped, InboundTyped, MediaTyped, StatusTyped, TearDownTyped DEF Work
<1>2. ASSUME NEW t \in Tasks, ReserveFails(t) \/ SaveFails(t) PROVE TypeInv'
  BY <1>2, InboundTyped DEF ReserveFails, SaveFails, At
<1>3. ASSUME NEW t \in Tasks, Crash(t) PROVE TypeInv'
  BY <1>3, CrashTyped
<1>4. ASSUME NEW t \in Tasks, NEW c \in Calls, Starts(t, c) PROVE TypeInv'
  BY <1>4, StartsTyped
<1>5. ASSUME NEW c \in Calls, Watchdog(c) \/ ProviderTimeout(c) \/ BillingEnds(c) \/ JoinOrLeave(c)
      PROVE TypeInv'
  BY <1>5, ByItselfTyped
<1>6. CASE UNCHANGED vars
  BY <1>6 DEF vars, TypeInv, TypeOK
<1> QED BY <1>1, <1>2, <1>3, <1>4, <1>5, <1>6 DEF Next, Starts

\* The initial states are well typed.
LEMMA TypeInit == Init => TypeInv
<1> SUFFICES ASSUME Init PROVE TypeInv
  OBVIOUS
<1>1. NoRecord \in Record
  BY DEF NoRecord, Record
<1> QED BY <1>1, SmartCallAssumption DEF Init, TypeInv, TypeOK, Doing

\* The records in Redis, the locks, the sessions and the handlers are well
\* typed, whoever dies half way.
THEOREM SmartTypeCorrect == Spec => []TypeOK
<1>1. TypeInv => TypeOK
  BY DEF TypeInv
<1> QED BY <1>1, TypeInit, TypeStep, PTL DEF Spec

---------------------------------------------------------------------------
(* What a step of one handler leaves true of the others *)

\* Handler t becomes w; of the calls, only c changes.
Changes(t, w, c) ==
    /\ tasks' = [tasks EXCEPT ![t] = w]
    /\ \A d \in Calls : d # c => record'[d] = record[d] /\ billing'[d] = billing[d]
    /\ Recorded(c) => Recorded(c)'
    /\ \/ Recorded(c)' => Recorded(c)
       \/ tasks[t] # Idle /\ Early(tasks[t]) /\ Own(tasks[t]) = c
    /\ billing[c] = "closed" => billing'[c] = "closed"
    /\ cdr \subseteq cdr' /\ failed \subseteq failed'

\* Only who is at work on a call changes it.
Touches(t, c) ==
    \/ record' = record /\ billing' = billing
    \/ tasks[t] # Idle /\ tasks[t].call = c

\* The handler joins no set-up of another's.
Joins(t, w) ==
    w # Idle => \A v \in Tasks : v # t /\ tasks[v] # Idle /\ Early(tasks[v])
                                    => Own(tasks[v]) \notin {w.call, w.for}

\* A phone call is new when it is dialed.
Dialed(c) == phone' = phone \/ (phone' = phone \cup {c} /\ WorkOn(c) = {})

\* What the handler was to do for a call that is over, it will do or has done.
Leaves(t, w) ==
    \A d \in Calls : tasks[t] # Idle =>
        /\ Closing(tasks[t], d) => (w # Idle /\ Closing(w, d)) \/ Accounted(d)'
        /\ Recording(tasks[t], d) => (w # Idle /\ Recording(w, d)) \/ Rowed(d)'

StepOf(t, w, c) == Changes(t, w, c) /\ Touches(t, c) /\ Joins(t, w) /\ Dialed(c) /\ Leaves(t, w)

\* The other handlers stay.
LEMMA OthersSame ==
  ASSUME TypeInv, NEW t \in Tasks, NEW w \in Task \cup {Idle}, tasks' = [tasks EXCEPT ![t] = w]
  PROVE  tasks'[t] = w /\ \A v \in Tasks : v # t => tasks'[v] = tasks[v]
  BY DEF TypeInv

\* A call that is over stays settled.
LEMMA EndedKept ==
  ASSUME TypeInv, NEW t \in Tasks, NEW w \in Task \cup {Idle}, NEW c \in Calls, StepOf(t, w, c),
         NEW d \in Calls, NEW s, Ended(d, s)
  PROVE  Ended(d, s)'
<1>1. tasks'[t] = w /\ \A v \in Tasks : v # t => tasks'[v] = tasks[v]
  BY OthersSame DEF StepOf, Changes
<1>2. Accounted(d) => Accounted(d)'
  BY DEF StepOf, Changes, Accounted
<1>3. Rowed(d) => Rowed(d)'
  BY DEF StepOf, Changes, Rowed
<1>4. ASSUME NEW v \in Tasks, tasks[v] # Idle, Closing(tasks[v], d)
      PROVE  Accounted(d)' \/ \E x \in Tasks : tasks'[x] # Idle /\ Closing(tasks'[x], d)
  BY <1>1, <1>4 DEF StepOf, Leaves
<1>5. ASSUME NEW v \in Tasks, tasks[v] # Idle, Recording(tasks[v], d)
      PROVE  Rowed(d)' \/ \E x \in Tasks : tasks'[x] # Idle /\ Recording(tasks'[x], d)
  BY <1>1, <1>5 DEF StepOf, Leaves
<1>6. Accounted(d)' \/ \E x \in Tasks : tasks'[x] # Idle /\ Closing(tasks'[x], d)
  BY <1>2, <1>4 DEF Ended
<1>7. s = "failed" \/ Rowed(d)' \/ \E x \in Tasks : tasks'[x] # Idle /\ Recording(tasks'[x], d)
  BY <1>3, <1>5 DEF Ended
<1> QED BY <1>6, <1>7 DEF Ended

\* The call a set-up is for is a call.
LEMMA OwnCall == ASSUME NEW h \in Task PROVE Own(h) \in Calls /\ Own(h) \in {h.call, h.for}
  BY TaskFields DEF Own

\* The other handlers keep their part of the invariant.
LEMMA OthersKept ==
  ASSUME TypeInv, CallsInv, NEW t \in Tasks, NEW w \in Task \cup {Idle}, NEW c \in Calls,
         StepOf(t, w, c), NEW v \in Tasks, v # t, tasks[v] # Idle
  PROVE  TaskInv(v)'
<1>p. PICK h \in Task : h = tasks[v]
  BY AtWork DEF TypeInv
<1>h. h \in Task /\ h.call \in Calls
  BY TaskFields
<1>o. Own(h) \in Calls /\ Own(h) \in {h.call, h.for}
  BY <1>h, OwnCall
<1>s. tasks'[v] = h /\ tasks'[t] = w /\ \A x \in Tasks : x # t => tasks'[x] = tasks[x]
  BY <1>p, OthersSame DEF StepOf, Changes
<1>i. TaskInv(v)
  BY DEF CallsInv
<1>i1. Shape(h) /\ Reaches(h) /\ Known(h) /\ Unbegun(v, h) /\ Final(h) /\ Heard(h)
  BY <1>i, <1>p DEF TaskInv
<1>r. \A d \in Calls : Recorded(d) => Recorded(d)'
  BY DEF StepOf, Changes, Recorded
<1>1. Reaches(h)'
  <2>1. Own(h) # c \/ phone' = phone
    BY <1>o, <1>h, <1>p DEF StepOf, Dialed, WorkOn
  <2>2. phone \subseteq phone' /\ (phone' = phone \/ phone' = phone \cup {c})
    BY DEF StepOf, Dialed
  <2> QED BY <1>i1, <2>1, <2>2 DEF Reaches
<1>2. Known(h)'
  BY <1>i1, <1>r, <1>h DEF Known
<1>3. Unbegun(v, h)'
  <2>1. SUFFICES ASSUME Early(h) PROVE Unbegun(v, h)'
    BY DEF Unbegun
  <2>2. record[Own(h)] = NoRecord /\ Alone(v, Own(h))
        /\ billing[Own(h)] = IF h.pc \in {"store", "register"} THEN "open" ELSE "none"
    BY <2>1, <1>i1 DEF Unbegun
  <2>3. record'[Own(h)] = record[Own(h)] /\ billing'[Own(h)] = billing[Own(h)]
    <3>1. CASE record' = record /\ billing' = billing
      BY <3>1
    <3>2. CASE tasks[t] # Idle /\ tasks[t].call = c
      <4>1. Own(h) # c
        BY <2>2, <3>2 DEF Alone
      <4> QED BY <4>1, <1>o DEF StepOf, Changes
    <3> QED BY <3>1, <3>2 DEF StepOf, Touches
  <2>4. Alone(v, Own(h))'
    <3>1. w # Idle => Own(h) \notin {w.call, w.for}
      BY <2>1, <1>p DEF StepOf, Joins
    <3> QED BY <1>s, <2>2, <3>1 DEF Alone
  <2> QED BY <2>2, <2>3, <2>4 DEF Unbegun
<1>4. Final(h)'
  <2>1. CASE PastFinal(h) /\ Recorded(h.call)'
    <3>1. Recorded(h.call)
      <4>1. CASE record' = record
        BY <4>1, <2>1 DEF Recorded
      <4>2. CASE h.call # c
        BY <4>2, <2>1, <1>h DEF Recorded, StepOf, Changes
      <4>3. CASE tasks[t] # Idle /\ tasks[t].call = c /\ h.call = c
        <5>1. ASSUME Early(tasks[t]), Own(tasks[t]) = c PROVE FALSE
          <6>1. Alone(t, c)
            BY <4>3, <5>1 DEF CallsInv, TaskInv, Unbegun
          <6> QED BY <4>3, <6>1, <1>p DEF Alone
        <5> QED BY <4>3, <2>1, <5>1 DEF StepOf, Changes
      <4> QED BY <4>1, <4>2, <4>3 DEF StepOf, Touches
    <3>2. Accounted(h.call)
      BY <2>1, <3>1, <1>i1 DEF Final
    <3>3. Accounted(h.call)'
      BY <3>2, <1>h DEF StepOf, Changes, Accounted
    <3> QED BY <3>3 DEF Final
  <2> QED BY <2>1 DEF Final, PastFinal, Ends
<1>5. Heard(h)'
  BY <1>i1, <1>h, EndedKept DEF Heard
<1> QED BY <1>s, <1>i1, <1>1, <1>2, <1>3, <1>4, <1>5 DEF TaskInv

\* The other calls keep their part.
LEMMA CallKept ==
  ASSUME TypeInv, CallsInv, NEW t \in Tasks, NEW w \in Task \cup {Idle}, NEW c \in Calls,
         StepOf(t, w, c), NEW d \in Calls,
         d # c \/ (record' = record /\ billing' = billing)
  PROVE  CallInv(d)'
<1>1. record'[d] = record[d] /\ billing'[d] = billing[d]
  BY DEF StepOf, Changes
<1>2. CallInv(d)
  BY DEF CallsInv
<1>3. Recorded(d)' => billing'[d] # "none"
  BY <1>1, <1>2 DEF CallInv, Recorded
<1>4. ASSUME record'[d].status \in Terminal PROVE Ended(d, record[d].status)'
  <2>0. PICK s \in Terminal : s = record[d].status
    BY <1>1, <1>4
  <2>1. s \in Terminal /\ record'[d].status = s
    BY <1>1, <2>0
  <2>2. Ended(d, s)
    BY <1>2, <2>0 DEF CallInv
  <2>3. Ended(d, s)'
    BY <2>2, EndedKept
  <2>4. Ended(d, s)' => Ended(d, record[d].status)'
    BY <2>1 DEF Ended
  <2> QED BY <2>3, <2>4
<1> QED BY <1>3, <1>4 DEF CallInv

\* The owner of a call is who it was.
LEMMA OwnerKept ==
  ASSUME TypeInv, NEW t \in Tasks, NEW w, NEW c \in Calls, StepOf(t, w, c),
         NEW d \in Calls, WorkOn(d) # {}
  PROVE  Owner(d)' = Owner(d)
  BY DEF StepOf, Dialed, Owner

\* A set-up goes on, or begins when its owner has no other.
Follows(t, w) ==
    w # Idle /\ SetsUp(w) =>
        \/ tasks[t] # Idle /\ SetsUp(tasks[t]) /\ Own(w) = Own(tasks[t])
        \/ \A v \in Tasks : tasks[v] # Idle /\ SetsUp(tasks[v])
                              => Owner(Own(tasks[v])) # Owner(Own(w))'

\* A user still sets up one call at a time.
LEMMA OneSetUpKept ==
  ASSUME TypeInv, CallsInv, NEW t \in Tasks, NEW w \in Task \cup {Idle}, NEW c \in Calls,
         StepOf(t, w, c), Follows(t, w)
  PROVE  OneSetUp'
<1>s. tasks'[t] = w /\ \A v \in Tasks : v # t => tasks'[v] = tasks[v]
  BY OthersSame DEF StepOf, Changes
<1>o. ASSUME NEW v \in Tasks, NEW h, h = tasks[v], h # Idle
      PROVE  Owner(Own(h))' = Owner(Own(h))
  <2>1. h \in Task
    BY <1>o, AtWork DEF TypeInv
  <2>2. Own(h) \in Calls /\ v \in WorkOn(Own(h))
    BY <2>1, <1>o, OwnCall DEF WorkOn
  <2> QED BY <2>2, OwnerKept
<1>n. ASSUME NEW v \in Tasks, v # t, NEW h, h = tasks[v], h # Idle, SetsUp(h),
             w # Idle, SetsUp(w)
      PROVE  Owner(Own(h))' # Owner(Own(w))'
  <2>1. Owner(Own(h))' = Owner(Own(h))
    BY <1>n, <1>o
  <2>2. CASE tasks[t] # Idle /\ SetsUp(tasks[t]) /\ Own(w) = Own(tasks[t])
    <3>1. PICK g : g = tasks[t]
      OBVIOUS
    <3>2. Owner(Own(g))' = Owner(Own(g))
      BY <2>2, <3>1, <1>o
    <3>3. Owner(Own(g)) # Owner(Own(h))
      BY <2>2, <3>1, <1>n DEF CallsInv, OneSetUp
    <3>4. Own(w) = Own(g)
      BY <2>2, <3>1
    <3>5. Owner(Own(w))' = Owner(Own(g))'
      BY <3>4 DEF Owner
    <3> QED BY <2>1, <3>2, <3>3, <3>5
  <2> QED BY <1>n, <2>1, <2>2 DEF Follows
<1>1. SUFFICES ASSUME NEW u \in Tasks, NEW v \in Tasks, u # v,
                      NEW g, g = tasks'[u], NEW h, h = tasks'[v],
                      g # Idle, h # Idle, SetsUp(g), SetsUp(h),
                      Owner(Own(g))' = Owner(Own(h))'
               PROVE  FALSE
  BY DEF OneSetUp, Owner
<1>2. CASE u # t /\ v # t
  <2>1. g = tasks[u] /\ h = tasks[v]
    BY <1>s, <1>1, <1>2
  <2>2. Owner(Own(g))' = Owner(Own(g)) /\ Owner(Own(h))' = Owner(Own(h))
    BY <1>1, <1>o, <2>1
  <2> QED BY <1>1, <2>1, <2>2 DEF CallsInv, OneSetUp
<1>3. CASE u = t
  <2>1. g = w /\ h = tasks[v] /\ v # t
    BY <1>s, <1>1, <1>3
  <2> QED BY <1>1, <1>n, <2>1
<1>4. CASE v = t
  <2>1. h = w /\ g = tasks[u] /\ u # t
    BY <1>s, <1>1, <1>4
  <2> QED BY <1>1, <1>n, <2>1
<1> QED BY <1>2, <1>3, <1>4

\* A lock is left alone or dropped, or it names the call at hand, which its
\* owner sets up or which has a record; and whose set-up no longer holds the
\* lock has dropped it.
Locks(t, w, c) ==
    /\ \A u \in Users :
         \/ lock'[u] \in {lock[u], NoCall}
         \/ /\ lock'[u] = c
            /\ \/ Recorded(c)'
               \/ Owner(c)' = u /\ w # Idle /\ w.call = c /\ w.pc \in HoldingSteps
    /\ tasks[t] # Idle /\ tasks[t].pc \in HoldingSteps =>
         /\ tasks[t].call = c
         /\ \/ w # Idle /\ w.call = c /\ w.pc \in HoldingSteps
            \/ Recorded(c)'
            \/ lock'[Owner(c)] # c

\* A lock still names a recorded call or one that its owner sets up.
LEMMA LocksKept ==
  ASSUME TypeInv, CallsInv, NEW t \in Tasks, NEW w \in Task \cup {Idle}, NEW c \in Calls,
         StepOf(t, w, c), Locks(t, w, c), NEW u \in Users
  PROVE  LockInv(u)'
<1>s. tasks'[t] = w /\ \A v \in Tasks : v # t => tasks'[v] = tasks[v]
  BY OthersSame DEF StepOf, Changes
<1>1. SUFFICES ASSUME NEW d, d = lock'[u], d # NoCall, ~Recorded(d)'
               PROVE  Owner(d)' = u /\ \E v \in Tasks : tasks'[v] # Idle /\ tasks'[v].call = d
                                                        /\ tasks'[v].pc \in HoldingSteps
  BY DEF LockInv, Recorded, Owner
<1>2. CASE d = lock[u]
  <2>1. d \in Calls
    BY <1>1, <1>2 DEF TypeInv, TypeOK
  <2>2. ~Recorded(d)
    BY <1>1, <2>1 DEF StepOf, Changes, Recorded
  <2>3. Owner(d) = u
    BY <1>1, <1>2, <2>2 DEF CallsInv, LockInv
  <2>4. PICK v \in Tasks : tasks[v] # Idle /\ tasks[v].call = d /\ tasks[v].pc \in HoldingSteps
    BY <1>1, <1>2, <2>2 DEF CallsInv, LockInv
  <2>5. Owner(d)' = Owner(d)
    <3>1. WorkOn(d) # {}
      BY <2>4 DEF WorkOn
    <3> QED BY <2>1, <3>1, OwnerKept
  <2>6. CASE v # t
    BY <2>3, <2>4, <2>5, <2>6, <1>s
  <2>7. CASE v = t
    <3>1. w # Idle /\ w.call = d /\ w.pc \in HoldingSteps
      BY <1>1, <1>2, <2>3, <2>4, <2>7 DEF Locks
    <3> QED BY <2>3, <2>5, <3>1, <1>s
  <2> QED BY <2>6, <2>7
<1>3. CASE d # lock[u]
  <2>1. d = c /\ Owner(c)' = u /\ w # Idle /\ w.call = c /\ w.pc \in HoldingSteps
    BY <1>1, <1>3 DEF Locks
  <2> QED BY <2>1, <1>s
<1> QED BY <1>2, <1>3

\* A step of one handler keeps the invariant when it keeps its own part.
LEMMA StepKeeps ==
  ASSUME TypeInv, CallsInv, NEW t \in Tasks, NEW w \in Task \cup {Idle}, NEW c \in Calls,
         StepOf(t, w, c), Follows(t, w), Locks(t, w, c),
         w # Idle => TaskInv(t)',
         (record' = record /\ billing' = billing) \/ CallInv(c)'
  PROVE  CallsInv'
<1>s. tasks'[t] = w
  BY OthersSame DEF StepOf, Changes
<1>o. \A v \in Tasks : v # t => tasks'[v] = tasks[v]
  BY OthersSame DEF StepOf, Changes
<1>1. ASSUME NEW v \in Tasks, tasks'[v] # Idle PROVE TaskInv(v)'
  BY <1>1, <1>s, <1>o, OthersKept
<1>2. ASSUME NEW d \in Calls PROVE CallInv(d)'
  <2>1. CASE d # c
    BY <2>1, CallKept
  <2>2. CASE record' = record /\ billing' = billing
    BY <2>2, CallKept
  <2>3. CASE d = c /\ CallInv(c)'
    BY <2>3 DEF CallInv, Recorded, Ended
  <2> QED BY <2>1, <2>2, <2>3
<1>3. ASSUME NEW u \in Users PROVE LockInv(u)'
  BY <1>3, LocksKept
<1>4. OneSetUp'
  BY OneSetUpKept
<1> QED BY <1>1, <1>2, <1>3, <1>4 DEF CallsInv

---------------------------------------------------------------------------
(* Steps that store no record, open or close no session *)

\* What h and what it becomes, w, have in common.
Keeps(h, w) ==
    /\ w.kind = h.kind /\ Own(w) = Own(h) /\ Shape(w)
    /\ Early(w) => Early(h) /\ (w.pc \in {"store", "register"} <=> h.pc \in {"store", "register"})
    /\ PastFinal(w) => PastFinal(h) /\ w.call = h.call

Settles == record' = record /\ billing' = billing /\ phone' = phone /\ cdr \subseteq cdr'
           /\ failed \subseteq failed'

\* Such a step changes nothing that the others rely on.
LEMMA SettlesStep ==
  ASSUME TypeInv, CallsInv, NEW t \in Tasks, NEW h \in Task, h = tasks[t],
         NEW w \in Task \cup {Idle}, tasks' = [tasks EXCEPT ![t] = w],
         Settles, Joins(t, w), Leaves(t, w)
  PROVE  StepOf(t, w, h.call)
  BY DEF StepOf, Changes, Touches, Dialed, Settles, Recorded

\* A handler that goes on keeps the invariant when it keeps its own part.
LEMMA MoveKeeps ==
  ASSUME TypeInv, CallsInv, NEW t \in Tasks, NEW h \in Task, h = tasks[t],
         NEW w \in Task, tasks' = [tasks EXCEPT ![t] = w],
         Settles, Joins(t, w), Leaves(t, w),
         Keeps(h, w), Known(w), Heard(w), Locks(t, w, h.call)
  PROVE  CallsInv'
<1>h. h # Idle /\ w # Idle /\ h.call \in Calls /\ w.call \in Calls
  BY TaskFields
<1>1. StepOf(t, w, h.call)
  BY SettlesStep
<1>2. Follows(t, w)
  BY <1>h DEF Follows, Keeps, SetsUp
<1>3. Shape(h) /\ Reaches(h) /\ Unbegun(t, h) /\ Final(h)
  BY <1>h DEF CallsInv, TaskInv
<1>s. tasks'[t] = w /\ \A v \in Tasks : v # t => tasks'[v] = tasks[v]
  BY OthersSame
<1>4. Reaches(w)'
  BY <1>3 DEF Reaches, Keeps, Settles
<1>5. Known(w)'
  BY DEF Known, Recorded, Settles
<1>6. Unbegun(t, w)'
  <2>1. SUFFICES ASSUME Early(w) PROVE Unbegun(t, w)'
    BY DEF Unbegun, Early
  <2>2. Early(h) /\ Own(w) = Own(h)
        /\ (w.pc \in {"store", "register"} <=> h.pc \in {"store", "register"})
    BY <2>1 DEF Keeps
  <2>3. record[Own(h)] = NoRecord /\ Alone(t, Own(h))
        /\ billing[Own(h)] = IF h.pc \in {"store", "register"} THEN "open" ELSE "none"
    BY <2>2, <1>3 DEF Unbegun
  <2>4. Alone(t, Own(w))'
    BY <1>s, <2>2, <2>3 DEF Alone
  <2>5. record'[Own(w)] = NoRecord
        /\ billing'[Own(w)] = IF w.pc \in {"store", "register"} THEN "open" ELSE "none"
    BY <2>2, <2>3 DEF Settles
  <2> QED BY <2>4, <2>5 DEF Unbegun
<1>7. Final(w)'
  BY <1>3 DEF Final, Keeps, Recorded, Settles, Accounted
<1>8. Heard(w)'
  <2>1. CASE w.pc = "mediaWrite" /\ w.snap.status \in Terminal
    <3>1. Ended(w.call, w.snap.status)
      BY <2>1 DEF Heard
    <3>2. Ended(w.call, w.snap.status)'
      BY <1>h, <1>1, <3>1, EndedKept
    <3> QED BY <3>2 DEF Heard
  <2> QED BY <2>1 DEF Heard
<1>9. TaskInv(t)'
  BY <1>s, <1>4, <1>5, <1>6, <1>7, <1>8 DEF TaskInv, Keeps
<1> QED BY <1>h, <1>1, <1>2, <1>9, StepKeeps DEF Settles

\* A handler that stays with its calls joins nobody.
LEMMA StaysOn ==
  ASSUME TypeInv, CallsInv, NEW t \in Tasks, NEW h \in Task, h = tasks[t],
         NEW w \in Task, {w.call, w.for} \subseteq {h.call, h.for, NoCall}
  PROVE  Joins(t, w)
<1>1. SUFFICES ASSUME NEW v \in Tasks, v # t, tasks[v] # Idle, Early(tasks[v])
               PROVE  Own(tasks[v]) \notin {w.call, w.for}
  BY DEF Joins
<1>2. Own(tasks[v]) # NoCall
  <2>1. tasks[v] \in Task
    BY <1>1, AtWork DEF TypeInv
  <2> QED BY <2>1, OwnCall, SmartCallAssumption
<1>3. Alone(v, Own(tasks[v]))
  BY <1>1 DEF CallsInv, TaskInv, Unbegun
<1>4. Own(tasks[v]) \notin {h.call, h.for}
  BY <1>1, <1>3, TaskFields DEF Alone
<1> QED BY <1>2, <1>4

\* Going on to a step that fits the handler.
Fits(h, w) ==
    /\ Shape(w)
    /\ w.pc \in KnownSteps => Recorded(h.call)
    /\ w.pc # "mediaWrite"
    /\ w.pc \in EarlySteps => h.pc \in EarlySteps
    /\ w.pc \in EarlySteps \/ h.for # NoCall => {w.pc, h.pc} \cap {"store", "register"} = {}
    /\ w.pc \in {"read", "write"} => ~Ends(h) \/ h.pc \in {"read", "write"} \/ h.stored
    /\ h.pc \in ClosingSteps => w.pc \in ClosingSteps
    /\ Recording(h, h.call) => w.pc \in {"find", "free", "done"} \/ Rowed(h.call)'

\* A handler that goes on to a step that fits it keeps the invariant.
LEMMA PassKeeps ==
  ASSUME TypeInv, CallsInv, NEW t \in Tasks, NEW h \in Task, h = tasks[t],
         NEW w \in Task, NEW step, Passes(h, w, step), tasks' = [tasks EXCEPT ![t] = w],
         Settles, Fits(h, w), Locks(t, w, h.call)
  PROVE  CallsInv'
<1>p. /\ w.pc = step /\ w.kind = h.kind /\ w.call = h.call /\ w.for = h.for
      /\ w.stored = h.stored /\ w.to = h.to
  BY DEF Passes
<1>1. Joins(t, w)
  BY <1>p, StaysOn
<1>2. Leaves(t, w)
  BY <1>p, TaskFields DEF Leaves, Closing, Recording, Fits, Ends
<1>3. Own(w) = Own(h) /\ Ends(w) = Ends(h)
  BY <1>p DEF Own, Ends
<1>4. Keeps(h, w)
  BY <1>p, <1>3 DEF Keeps, Fits, Early, PastFinal
<1>5. Known(w) /\ Heard(w)
  BY <1>p DEF Known, Heard, Fits
<1> QED BY <1>1, <1>2, <1>4, <1>5, MoveKeeps

\* Being through.
LEMMA FinishKeeps ==
  ASSUME TypeInv, CallsInv, NEW t \in Tasks, NEW h \in Task, h = tasks[t],
         Finish(t), Settles, h.pc \notin ClosingSteps,
         Recording(h, h.call) => Rowed(h.call)',
         Locks(t, Idle, h.call)
  PROVE  CallsInv'
<1>1. tasks' = [tasks EXCEPT ![t] = Idle]
  BY DEF Finish
<1>2. Joins(t, Idle) /\ Follows(t, Idle)
  BY DEF Joins, Follows
<1>3. Leaves(t, Idle)
  BY DEF Leaves, Closing, Recording
<1>4. StepOf(t, Idle, h.call)
  BY <1>1, <1>2, <1>3, SettlesStep
<1> QED BY <1>2, <1>4, TaskFields, StepKeeps DEF Settles

\* A lock that is dropped, by a handler that holds none or keeps its own.
LEMMA LocksDropped ==
  ASSUME NEW t \in Tasks, NEW h, h = tasks[t], NEW w, NEW u \in Users,
         lock \in [Users -> Calls \cup {NoCall}],
         lock' = lock \/ lock' = [lock EXCEPT ![u] = NoCall],
         h.pc \in HoldingSteps => w # Idle /\ w.call = h.call /\ w.pc \in HoldingSteps
  PROVE  Locks(t, w, h.call)
  BY DEF Locks

\* What is known of the handler at hand.
LEMMA AtHand ==
  ASSUME TypeInv, CallsInv, NEW t \in Tasks, tasks[t] # Idle
  PROVE  \E h \in Task : /\ h = tasks[t] /\ Shape(h) /\ Reaches(h) /\ Known(h) /\ Unbegun(t, h)
                         /\ Final(h) /\ Heard(h)
  BY AtWork DEF CallsInv, TaskInv, TypeInv

\* Going on by Goto.
LEMMA GotoKeeps ==
  ASSUME TypeInv, CallsInv, NEW t \in Tasks, NEW h \in Task, h = tasks[t],
         NEW step \in Steps, Goto(t, step), Settles,
         \A w \in Task : Passes(h, w, step) => Fits(h, w) /\ Locks(t, w, h.call)
  PROVE  CallsInv'
<1>1. tasks[t] # Idle /\ TypeOK
  BY TaskFields DEF TypeInv
<1>2. PICK w \in Task : Passes(h, w, step) /\ tasks' = [tasks EXCEPT ![t] = w]
  BY <1>1, GotoPasses
<1> QED BY <1>2, PassKeeps

\* A step that fits the handler by its place alone.
MayGo(h, step) ==
    /\ step \in OwnSteps => h.kind = "initiate" /\ h.for = NoCall
    /\ step \in PhoneSteps => h.kind = "inbound" /\ h.for = NoCall
    /\ step = "dropLock" => h.for # NoCall
    /\ step \notin {"lock", "holder", "store", "register", "write", "rewrite", "activate", "failWrite",
                    "mediaWrite"}
    /\ step \in KnownSteps => h.pc \in KnownSteps
    /\ step \in EarlySteps => h.pc \in EarlySteps \ {"store", "register"}
    /\ h.pc \in {"store", "register"} => h.for = NoCall
    /\ step = "read" => ~Ends(h)
    /\ h.pc \in ClosingSteps => step \in ClosingSteps

\* What may go to a step fits it.
LEMMA MayGoFits ==
  ASSUME NEW h \in Task, Shape(h), Known(h), NEW step, MayGo(h, step),
         Recording(h, h.call) => step \in {"find", "free", "done"} \/ Rowed(h.call)',
         NEW w \in Task, Passes(h, w, step)
  PROVE  Fits(h, w)
<1>p. /\ w.pc = step /\ w.kind = h.kind /\ w.call = h.call /\ w.for = h.for
      /\ w.stored = h.stored /\ w.to = h.to
  BY DEF Passes
<1>1. Shape(w)
  BY <1>p DEF Shape, MayGo, Ends
<1>2. w.pc \in KnownSteps => Recorded(h.call)
  BY <1>p DEF MayGo, Known
<1>3. w.pc \in EarlySteps \/ h.for # NoCall => {w.pc, h.pc} \cap {"store", "register"} = {}
  BY <1>p DEF MayGo
<1> QED BY <1>p, <1>1, <1>2, <1>3 DEF Fits, MayGo

\* Going on to such a step, with the locks as they are or one dropped.
LEMMA GoesOn ==
  ASSUME TypeInv, CallsInv, NEW t \in Tasks, NEW h \in Task, h = tasks[t], Shape(h), Known(h),
         NEW step \in Steps, Goto(t, step), Settles, MayGo(h, step),
         Recording(h, h.call) => step \in {"find", "free", "done"} \/ Rowed(h.call)',
         NEW u \in Users, lock' = lock \/ lock' = [lock EXCEPT ![u] = NoCall],
         h.pc \in HoldingSteps => step \in HoldingSteps
  PROVE  CallsInv'
<1>1. lock \in [Users -> Calls \cup {NoCall}]
  BY DEF TypeInv, TypeOK
<1>2. ASSUME NEW w \in Task, Passes(h, w, step) PROVE Fits(h, w) /\ Locks(t, w, h.call)
  <2>1. Fits(h, w)
    BY <1>2, MayGoFits
  <2>2. w # Idle /\ w.pc = step /\ w.call = h.call
    BY <1>2, TaskFields DEF Passes
  <2>3. Locks(t, w, h.call)
    BY <1>1, <2>2, LocksDropped
  <2> QED BY <2>1, <2>3
<1> QED BY <1>2, GotoKeeps

\* The lock is acquired, or somebody else has it.
LEMMA AcquireKeeps ==
  ASSUME TypeInv, CallsInv, NEW t \in Tasks, tasks[t] # Idle, Acquire(t)
  PROVE  CallsInv'
<1>p. PICK h \in Task : h = tasks[t] /\ Shape(h) /\ Reaches(h)
  BY AtHand
<1>h. h.call \in Calls /\ CallerOf[h.call] \in Users
  BY TaskFields, Parties, SmartCallAssumption
<1>0. h.pc \in {"lock", "relock"} /\ h.kind = "initiate" /\ h.for = NoCall /\ h.call \notin phone
  BY <1>p DEF Acquire, At, Shape, OwnSteps, Reaches, Own
<1>1. Settles
  BY DEF Acquire, Settles
<1> DEFINE u == CallerOf[h.call]
<1>2. CASE lock[u] = NoCall
  <2>1. lock' = [lock EXCEPT ![u] = h.call] /\ Goto(t, "authorize")
    BY <1>2, <1>p DEF Acquire
  <2>2. Owner(h.call)' = u
    BY <1>0, <1>1 DEF Owner, Settles
  <2>3. ASSUME NEW w \in Task, Passes(h, w, "authorize") PROVE Fits(h, w) /\ Locks(t, w, h.call)
    <3>1. w.pc = "authorize" /\ w.call = h.call /\ w # Idle
      BY <2>3, TaskFields DEF Passes
    <3>2. \A v \in Users : lock'[v] = lock[v] \/ (v = u /\ lock'[v] = h.call)
      BY <2>1, <1>h DEF TypeInv, TypeOK
    <3>3. Locks(t, w, h.call)
      BY <2>2, <3>1, <3>2, <1>p, <1>0 DEF Locks, HoldingSteps
    <3>4. Fits(h, w)
      BY <2>3, <1>p, <1>0 DEF Fits, Passes, Shape, Ends, OwnSteps, PhoneSteps, KnownSteps, EarlySteps,
                              ClosingSteps, Recording
    <3> QED BY <3>3, <3>4
  <2>4. "authorize" \in Steps
    BY DEF Steps
  <2> QED BY <1>p, <1>1, <2>1, <2>3, <2>4, GotoKeeps
<1>3. CASE lock[u] # NoCall /\ h.pc = "lock"
  <2>1. lock' = lock /\ Goto(t, "holder")
    BY <1>3, <1>p DEF Acquire
  <2>3. ASSUME NEW w \in Task, Passes(h, w, "holder") PROVE Fits(h, w) /\ Locks(t, w, h.call)
    <3>3. Locks(t, w, h.call)
      BY <2>1, <1>3, <1>p DEF Locks, HoldingSteps
    <3>4. Fits(h, w)
      BY <2>3, <1>p, <1>0, <1>3
         DEF Fits, Passes, Shape, Ends, OwnSteps, PhoneSteps, KnownSteps, EarlySteps, ClosingSteps,
             Recording
    <3> QED BY <3>3, <3>4
  <2>4. "holder" \in Steps
    BY DEF Steps
  <2> QED BY <1>p, <1>1, <2>1, <2>3, <2>4, GotoKeeps
<1>4. CASE lock[u] # NoCall /\ h.pc # "lock"
  <2>1. lock' = lock /\ Finish(t)
    BY <1>4, <1>p DEF Acquire
  <2>2. Locks(t, Idle, h.call) /\ h.pc \notin ClosingSteps /\ ~Recording(h, h.call)
    BY <2>1, <1>0, <1>p DEF Locks, HoldingSteps, ClosingSteps, Recording
  <2> QED BY <1>p, <1>1, <2>1, <2>2, FinishKeeps
<1> QED BY <1>2, <1>3, <1>4

\* The handler at hand, and a user.
Handler(t, h) ==
    /\ h = tasks[t] /\ Shape(h) /\ Reaches(h) /\ Known(h) /\ Unbegun(t, h) /\ Final(h) /\ Heard(h)
    /\ h # Idle /\ h.call \in Calls /\ CallerOf[h.call] \in Users

\* A handler at work, by name.
LEMMA PickHandler ==
  ASSUME TypeInv, CallsInv, NEW t \in Tasks, tasks[t] # Idle
  PROVE  \E h \in Task : Handler(t, h)
<1>1. PICK h \in Task : /\ h = tasks[t] /\ Shape(h) /\ Reaches(h) /\ Known(h) /\ Unbegun(t, h)
                        /\ Final(h) /\ Heard(h)
  BY AtHand
<1>2. h # Idle /\ h.call \in Calls /\ CallerOf[h.call] \in Users
  BY TaskFields, SmartCallAssumption
<1> QED BY <1>1, <1>2 DEF Handler

\* Going on with the locks as they are.
LEMMA GoesOnQuietly ==
  ASSUME TypeInv, CallsInv, NEW t \in Tasks, NEW h \in Task, Handler(t, h),
         NEW step \in Steps, Goto(t, step), Settles, lock' = lock, MayGo(h, step),
         Recording(h, h.call) => step \in {"find", "free", "done"} \/ Rowed(h.call)',
         h.pc \in HoldingSteps => step \in HoldingSteps
  PROVE  CallsInv'
<1> DEFINE u == CallerOf[h.call]
<1>1. u \in Users
  BY DEF Handler
<1> HIDE DEF u
<1> QED BY <1>1, GoesOn DEF Handler

\* Being through with the locks as they are.
LEMMA FinishesQuietly ==
  ASSUME TypeInv, CallsInv, NEW t \in Tasks, NEW h \in Task, Handler(t, h),
         Finish(t), Settles, lock' = lock, h.pc \notin ClosingSteps \cup HoldingSteps,
         Recording(h, h.call) => Rowed(h.call)'
  PROVE  CallsInv'
<1>1. Locks(t, Idle, h.call)
  BY DEF Locks, Handler
<1> QED BY <1>1, FinishKeeps DEF Handler

\* Being through, or going back to the call that waits.
LEMMA MissingKeeps ==
  ASSUME TypeInv, CallsInv, NEW t \in Tasks, NEW h \in Task, Handler(t, h),
         Missing(t), Settles, lock' = lock,
         h.pc \notin ClosingSteps \cup HoldingSteps \cup {"store", "register"},
         Recording(h, h.call) => Rowed(h.call)'
  PROVE  CallsInv'
<1>1. CASE h.for = NoCall
  BY <1>1, FinishesQuietly DEF Missing, Handler
<1>2. CASE h.for # NoCall
  <2>1. Goto(t, "dropLock") /\ "dropLock" \in Steps
    BY <1>2 DEF Missing, Handler, Steps
  <2>2. MayGo(h, "dropLock")
    BY <1>2 DEF MayGo, OwnSteps, PhoneSteps, KnownSteps, EarlySteps, ClosingSteps
  <2> QED BY <2>1, <2>2, GoesOnQuietly
<1> QED BY <1>1, <1>2

\* The holder of the lock is quiet or not.
LEMMA QuietKeeps ==
  ASSUME TypeInv, CallsInv, NEW t \in Tasks, tasks[t] # Idle, Quiet(t)
  PROVE  CallsInv'
<1>p. PICK h \in Task : Handler(t, h)
  BY PickHandler
<1>0. h.pc = "quiet"
  BY <1>p DEF Quiet, At, Handler
<1>1. Settles /\ lock' = lock
  BY DEF Quiet, Settles
<1>2. Goto(t, "look") \/ Finish(t)
  BY DEF Quiet
<1>3. MayGo(h, "look") /\ "look" \in Steps /\ h.pc \notin ClosingSteps \cup HoldingSteps
      /\ ~Recording(h, h.call)
  BY <1>0 DEF MayGo, OwnSteps, PhoneSteps, KnownSteps, EarlySteps, ClosingSteps, HoldingSteps, Steps,
              Recording
<1> QED BY <1>p, <1>1, <1>2, <1>3, GoesOnQuietly, FinishesQuietly

\* The set-up fails before the record is stored.
LEMMA SetUpFailsKeeps ==
  ASSUME TypeInv, CallsInv, NEW t \in Tasks, tasks[t] # Idle, SetUpFails(t)
  PROVE  CallsInv'
<1>p. PICK h \in Task : Handler(t, h)
  BY PickHandler
<1>0. h.pc = "store" /\ h.kind = "initiate" /\ h.for = NoCall
  BY <1>p DEF SetUpFails, At, Handler, Shape, OwnSteps
<1>1. Settles /\ lock' = lock /\ Goto(t, "giveUp")
  BY DEF SetUpFails, Settles
<1>3. MayGo(h, "giveUp") /\ "giveUp" \in Steps /\ "giveUp" \in HoldingSteps /\ ~Recording(h, h.call)
  BY <1>0 DEF MayGo, OwnSteps, PhoneSteps, KnownSteps, EarlySteps, ClosingSteps, HoldingSteps, Steps,
              Recording
<1> QED BY <1>p, <1>1, <1>3, GoesOnQuietly

\* The set-up that failed is undone.
LEMMA ClearKeeps ==
  ASSUME TypeInv, CallsInv, NEW t \in Tasks, tasks[t] # Idle, Clear(t) \/ ClearMeta(t) \/ ClearRoom(t)
  PROVE  CallsInv'
<1>p. PICK h \in Task : Handler(t, h)
  BY PickHandler
<1>s. Shape(h) /\ Known(h) /\ h = tasks[t]
  BY <1>p DEF Handler
<1>1. CASE Clear(t)
  <2>0. h.pc = "clear" /\ h.kind = "initiate" /\ h.for = NoCall
    BY <1>1, <1>s DEF Clear, At, Shape, OwnSteps
  <2>1. Settles /\ Goto(t, "clearMeta")
    BY <1>1 DEF Clear, Settles
  <2>2. PICK u \in Users : lock' = [lock EXCEPT ![u] = NoCall]
    BY <1>1, <1>p DEF Clear, Handler
  <2>3. MayGo(h, "clearMeta") /\ "clearMeta" \in Steps /\ h.pc \notin HoldingSteps
        /\ ~Recording(h, h.call)
    BY <2>0 DEF MayGo, OwnSteps, PhoneSteps, KnownSteps, EarlySteps, ClosingSteps, HoldingSteps, Steps,
                Recording
  <2> QED BY <1>s, <2>1, <2>2, <2>3, GoesOn
<1>2. CASE ClearMeta(t)
  <2>0. h.pc = "clearMeta" /\ h.kind = "initiate" /\ h.for = NoCall
    BY <1>2, <1>s DEF ClearMeta, At, Shape, OwnSteps
  <2>1. Settles /\ lock' = lock /\ Goto(t, "clearRoom")
    BY <1>2 DEF ClearMeta, Settles
  <2>3. MayGo(h, "clearRoom") /\ "clearRoom" \in Steps /\ h.pc \notin HoldingSteps
        /\ ~Recording(h, h.call)
    BY <2>0 DEF MayGo, OwnSteps, PhoneSteps, KnownSteps, EarlySteps, ClosingSteps, HoldingSteps, Steps,
                Recording
  <2> QED BY <1>p, <2>1, <2>3, GoesOnQuietly
<1>3. CASE At(t, "clearRoom") /\ ClearRoom(t)
  <2>0. h.pc = "clearRoom" /\ h.kind = "initiate" /\ h.for = NoCall
    BY <1>3, <1>s DEF At, Shape, OwnSteps
  <2>1. Settles /\ lock' = lock /\ Goto(t, "failFinalize")
    BY <1>3 DEF ClearRoom, Settles, At
  <2>3. MayGo(h, "failFinalize") /\ "failFinalize" \in Steps /\ h.pc \notin HoldingSteps
        /\ ~Recording(h, h.call)
    BY <2>0 DEF MayGo, OwnSteps, PhoneSteps, KnownSteps, EarlySteps, ClosingSteps, HoldingSteps, Steps,
                Recording
  <2> QED BY <1>p, <2>1, <2>3, GoesOnQuietly
<1>4. CASE At(t, "room") /\ ClearRoom(t)
  <2>0. h.pc = "room"
    BY <1>4, <1>s DEF At
  <2>1. Settles /\ lock' = lock /\ Goto(t, "finalize")
    BY <1>4 DEF ClearRoom, Settles, At
  <2>3. MayGo(h, "finalize") /\ "finalize" \in Steps /\ h.pc \notin HoldingSteps
        /\ ~Recording(h, h.call)
    BY <2>0 DEF MayGo, OwnSteps, PhoneSteps, KnownSteps, EarlySteps, ClosingSteps, HoldingSteps, Steps,
                Recording
  <2> QED BY <1>p, <2>1, <2>3, GoesOnQuietly
<1> QED BY <1>1, <1>2, <1>3, <1>4 DEF ClearRoom

\* The owner of the call that a set-up holds the lock for.
LEMMA OwnerIs ==
  ASSUME NEW t \in Tasks, NEW h \in Task, Handler(t, h), h.for = NoCall
  PROVE  /\ h.kind = "initiate" => Owner(h.call) = CallerOf[h.call] /\ h.call \notin phone
         /\ h.kind = "inbound" => Owner(h.call) = TargetOf[h.call] /\ h.call \in phone
  BY DEF Handler, Reaches, Own, Owner

\* The set-up is given up with its lock.
LEMMA GiveUpKeeps ==
  ASSUME TypeInv, CallsInv, NEW t \in Tasks, tasks[t] # Idle, GiveUp(t)
  PROVE  CallsInv'
<1>p. PICK h \in Task : Handler(t, h)
  BY PickHandler
<1>0. h.pc = "giveUp" /\ h.kind = "initiate" /\ h.for = NoCall
  BY <1>p DEF GiveUp, At, Handler, Shape, OwnSteps
<1>1. Settles /\ Finish(t)
  BY DEF GiveUp, Settles
<1>2. Owner(h.call) = CallerOf[h.call] /\ h.call \in Calls /\ CallerOf[h.call] \in Users
  BY <1>p, <1>0, OwnerIs DEF Handler
<1>3. lock' = [lock EXCEPT ![Owner(h.call)] = NoCall] /\ lock \in [Users -> Calls \cup {NoCall}]
  BY <1>2, <1>p DEF GiveUp, Handler, TypeInv, TypeOK
<1>4. lock'[Owner(h.call)] # h.call
  BY <1>2, <1>3, SmartCallAssumption
<1>5. Locks(t, Idle, h.call)
  BY <1>2, <1>3, <1>4, <1>p DEF Locks, Handler
<1>6. h.pc \notin ClosingSteps /\ ~Recording(h, h.call)
  BY <1>0 DEF ClosingSteps, Recording
<1> QED BY <1>p, <1>1, <1>5, <1>6, FinishKeeps DEF Handler

\* The callee is claimed for a phone call.
LEMMA ClaimCalleeKeeps ==
  ASSUME TypeInv, CallsInv, NEW t \in Tasks, tasks[t] # Idle, ClaimCallee(t)
  PROVE  CallsInv'
<1>p. PICK h \in Task : Handler(t, h)
  BY PickHandler
<1>0. h.pc = "claim" /\ h.kind = "inbound" /\ h.for = NoCall /\ h.call \in Calls /\ h = tasks[t]
  BY <1>p DEF ClaimCallee, At, Handler, Shape, PhoneSteps
<1>1. Settles
  BY DEF ClaimCallee, Settles
<1> DEFINE u == TargetOf[h.call]
<1>u. u \in Users
  BY <1>0, SmartCallAssumption
<1>2. CASE lock[u] = NoCall
  <2>1. lock' = [lock EXCEPT ![u] = h.call] /\ Goto(t, "claimMeta")
    BY <1>2, <1>0 DEF ClaimCallee
  <2>2. Owner(h.call)' = u
    BY <1>0, <1>1, <1>p, OwnerIs DEF Owner, Settles
  <2>3. ASSUME NEW w \in Task, Passes(h, w, "claimMeta") PROVE Fits(h, w) /\ Locks(t, w, h.call)
    <3>1. w.pc = "claimMeta" /\ w.call = h.call /\ w # Idle
      BY <2>3, TaskFields DEF Passes
    <3>2. \A v \in Users : lock'[v] = lock[v] \/ (v = u /\ lock'[v] = h.call)
      BY <2>1, <1>u DEF TypeInv, TypeOK
    <3>3. Locks(t, w, h.call)
      BY <2>2, <3>1, <3>2, <1>0 DEF Locks, HoldingSteps
    <3>4. MayGo(h, "claimMeta") /\ ~Recording(h, h.call)
      BY <1>0 DEF MayGo, OwnSteps, PhoneSteps, KnownSteps, EarlySteps, ClosingSteps, Recording
    <3>5. Fits(h, w)
      BY <2>3, <1>p, <3>4, MayGoFits DEF Handler
    <3> QED BY <3>3, <3>5
  <2>4. "claimMeta" \in Steps
    BY DEF Steps
  <2> QED BY <1>0, <1>1, <2>1, <2>3, <2>4, GotoKeeps
<1>3. CASE lock[u] # NoCall
  <2>1. lock' = lock /\ Finish(t)
    BY <1>3, <1>0 DEF ClaimCallee
  <2>2. h.pc \notin ClosingSteps \cup HoldingSteps /\ ~Recording(h, h.call)
    BY <1>0 DEF ClosingSteps, HoldingSteps, Recording
  <2> QED BY <1>p, <1>1, <2>1, <2>2, FinishesQuietly
<1> QED BY <1>2, <1>3

\* The callee is named in the metadata.
LEMMA ClaimCalleeMetaKeeps ==
  ASSUME TypeInv, CallsInv, NEW t \in Tasks, tasks[t] # Idle, ClaimCalleeMeta(t)
  PROVE  CallsInv'
<1>p. PICK h \in Task : Handler(t, h)
  BY PickHandler
<1>0. h.pc = "claimMeta" /\ h.kind = "inbound" /\ h.for = NoCall
  BY <1>p DEF ClaimCalleeMeta, At, Handler, Shape, PhoneSteps
<1>1. Settles /\ lock' = lock /\ Goto(t, "reserve")
  BY DEF ClaimCalleeMeta, Settles
<1>3. MayGo(h, "reserve") /\ "reserve" \in Steps /\ "reserve" \in HoldingSteps /\ ~Recording(h, h.call)
  BY <1>0 DEF MayGo, OwnSteps, PhoneSteps, KnownSteps, EarlySteps, ClosingSteps, HoldingSteps, Steps,
              Recording
<1> QED BY <1>p, <1>1, <1>3, GoesOnQuietly

\* The phone call rings, and what rings has no more to do.
LEMMA SaveKeeps ==
  ASSUME TypeInv, CallsInv, NEW t \in Tasks, tasks[t] # Idle, Save(t) \/ DropCalleeMeta(t)
  PROVE  CallsInv'
<1>p. PICK h \in Task : Handler(t, h)
  BY PickHandler
<1>0. h.pc \in {"save", "dropMeta"}
  BY <1>p DEF Save, DropCalleeMeta, At, Handler
<1>1. Settles /\ lock' = lock /\ Finish(t)
  BY DEF Save, DropCalleeMeta, Settles
<1>3. h.pc \notin ClosingSteps \cup HoldingSteps /\ ~Recording(h, h.call)
  BY <1>0 DEF ClosingSteps, HoldingSteps, Recording
<1> QED BY <1>p, <1>1, <1>3, FinishesQuietly

\* The callee is released.
LEMMA DropCalleeKeeps ==
  ASSUME TypeInv, CallsInv, NEW t \in Tasks, tasks[t] # Idle, DropCallee(t)
  PROVE  CallsInv'
<1>p. PICK h \in Task : Handler(t, h)
  BY PickHandler
<1>0. h.pc = "drop" /\ h.kind = "inbound" /\ h.for = NoCall /\ h.call \in Calls /\ h = tasks[t]
  BY <1>p DEF DropCallee, At, Handler, Shape, PhoneSteps
<1>1. Settles /\ Goto(t, "dropMeta") /\ "dropMeta" \in Steps
  BY DEF DropCallee, Settles, Steps
<1>2. Owner(h.call) = TargetOf[h.call] /\ TargetOf[h.call] \in Users
  BY <1>p, <1>0, OwnerIs, SmartCallAssumption
<1>3. lock' = [lock EXCEPT ![Owner(h.call)] = NoCall] /\ lock \in [Users -> Calls \cup {NoCall}]
  BY <1>2, <1>0 DEF DropCallee, TypeInv, TypeOK
<1>4. lock'[Owner(h.call)] # h.call
  BY <1>2, <1>3, <1>0, SmartCallAssumption
<1>5. ASSUME NEW w \in Task, Passes(h, w, "dropMeta") PROVE Fits(h, w) /\ Locks(t, w, h.call)
  <2>1. Locks(t, w, h.call)
    BY <1>2, <1>3, <1>4, <1>0 DEF Locks
  <2>2. MayGo(h, "dropMeta") /\ ~Recording(h, h.call)
    BY <1>0 DEF MayGo, OwnSteps, PhoneSteps, KnownSteps, EarlySteps, ClosingSteps, Recording
  <2>3. Fits(h, w)
    BY <1>5, <1>p, <2>2, MayGoFits DEF Handler
  <2> QED BY <2>1, <2>3
<1> QED BY <1>0, <1>1, <1>5, GotoKeeps

\* The callee is busy with a call that has a record.
LEMMA MarkBusyKeeps ==
  ASSUME TypeInv, CallsInv, NEW t \in Tasks, tasks[t] # Idle, MarkBusy(t)
  PROVE  CallsInv'
<1>p. PICK h \in Task : Handler(t, h)
  BY PickHandler
<1>0. h.pc = "busy" /\ h = tasks[t] /\ h.call \in Calls /\ CalleeOf[h.call] \in Users
  BY <1>p, SmartCallAssumption DEF MarkBusy, At, Handler
<1>1. Settles /\ Goto(t, "busyMeta") /\ "busyMeta" \in Steps
  BY DEF MarkBusy, Settles, Steps
<1>2. Recorded(h.call)'
  <2>1. Recorded(h.call)
    BY <1>0, <1>p DEF Handler, Known, KnownSteps
  <2> QED BY <1>1, <2>1 DEF Recorded, Settles
<1>3. \A v \in Users : lock'[v] = lock[v] \/ lock'[v] = h.call
  BY <1>0 DEF MarkBusy, TypeInv, TypeOK
<1>5. ASSUME NEW w \in Task, Passes(h, w, "busyMeta") PROVE Fits(h, w) /\ Locks(t, w, h.call)
  <2>1. Locks(t, w, h.call)
    BY <1>2, <1>3, <1>0 DEF Locks
  <2>2. MayGo(h, "busyMeta") /\ ~Recording(h, h.call)
    BY <1>0 DEF MayGo, OwnSteps, PhoneSteps, KnownSteps, EarlySteps, ClosingSteps, Recording
  <2>3. Fits(h, w)
    BY <1>5, <1>p, <2>2, MayGoFits DEF Handler
  <2> QED BY <2>1, <2>3
<1> QED BY <1>0, <1>1, <1>5, GotoKeeps

\* The callee who answered is named in the metadata.
LEMMA MarkBusyMetaKeeps ==
  ASSUME TypeInv, CallsInv, NEW t \in Tasks, tasks[t] # Idle, MarkBusyMeta(t)
  PROVE  CallsInv'
<1>p. PICK h \in Task : Handler(t, h)
  BY PickHandler
<1>0. h.pc = "busyMeta"
  BY <1>p DEF MarkBusyMeta, At, Handler
<1>1. Settles /\ lock' = lock /\ Goto(t, "done")
  BY DEF MarkBusyMeta, Settles
<1>3. MayGo(h, "done") /\ "done" \in Steps /\ h.pc \notin HoldingSteps /\ ~Recording(h, h.call)
  BY <1>0 DEF MayGo, OwnSteps, PhoneSteps, KnownSteps, EarlySteps, ClosingSteps, HoldingSteps, Steps,
              Recording
<1> QED BY <1>p, <1>1, <1>3, GoesOnQuietly

\* The row is written by the handler that ended the call.
LEMMA DoneKeeps ==
  ASSUME TypeInv, CallsInv, NEW t \in Tasks, tasks[t] # Idle, Done(t)
  PROVE  CallsInv'
<1>p. PICK h \in Task : Handler(t, h)
  BY PickHandler
<1>0. h.pc = "done" /\ h = tasks[t]
  BY <1>p DEF Done, At, Handler
<1>1. Settles /\ lock' = lock /\ Missing(t)
  BY DEF Done, Settles
<1>2. Recording(h, h.call) => Rowed(h.call)'
  BY <1>0 DEF Done, EndsCall, Recording, Ends, Rowed
<1>3. h.pc \notin ClosingSteps \cup HoldingSteps \cup {"store", "register"}
  BY <1>0 DEF ClosingSteps, HoldingSteps
<1> QED BY <1>p, <1>1, <1>2, <1>3, MissingKeeps

\* The row cannot be written, and the end goes on.
LEMMA RowFailsKeeps ==
  ASSUME TypeInv, CallsInv, NEW t \in Tasks, tasks[t] # Idle, RowFails(t)
  PROVE  CallsInv'
<1>p. PICK h \in Task : Handler(t, h)
  BY PickHandler
<1>0. h.pc = "done" /\ h = tasks[t]
  BY <1>p DEF RowFails, At, Handler
<1>1. Settles /\ lock' = lock /\ Missing(t)
  BY DEF RowFails, FailsFor, Settles
<1>2. Rowed(h.call)'
  BY <1>0 DEF RowFails, FailsFor, Rowed
<1>3. h.pc \notin ClosingSteps \cup HoldingSteps \cup {"store", "register"}
  BY <1>0 DEF ClosingSteps, HoldingSteps
<1> QED BY <1>p, <1>1, <1>2, <1>3, MissingKeeps

\* endCall leaves a call alone that is over.
LEMMA LookKeeps ==
  ASSUME TypeInv, CallsInv, NEW t \in Tasks, tasks[t] # Idle, Look(t)
  PROVE  CallsInv'
<1>p. PICK h \in Task : Handler(t, h)
  BY PickHandler
<1>0. h.pc = "look"
  BY <1>p DEF Look, At, Handler
<1>1. Settles /\ lock' = lock /\ (Missing(t) \/ Goto(t, "find"))
  BY DEF Look, Settles
<1>2. ~Recording(h, h.call) /\ h.pc \notin ClosingSteps \cup HoldingSteps \cup {"store", "register"}
  BY <1>0 DEF ClosingSteps, HoldingSteps, Recording
<1>3. MayGo(h, "find") /\ "find" \in Steps
  BY <1>0 DEF MayGo, OwnSteps, PhoneSteps, KnownSteps, EarlySteps, ClosingSteps, Steps
<1> QED BY <1>p, <1>1, <1>2, <1>3, MissingKeeps, GoesOnQuietly

\* From one party's lock to the other's, and on.
LEMMA NextRoleKeeps ==
  ASSUME TypeInv, CallsInv, NEW t \in Tasks, NEW h \in Task, Handler(t, h),
         h.pc \in {"find", "free", "forget"}, h.pc # "forget" => h.stored,
         Settles, NextRole(t), NEW u \in Users, lock' = lock \/ lock' = [lock EXCEPT ![u] = NoCall]
  PROVE  CallsInv'
<1>h. h = tasks[t] /\ Shape(h) /\ Known(h)
  BY DEF Handler
<1>0. h.pc \notin ClosingSteps \cup HoldingSteps \cup OwnSteps \cup PhoneSteps
  BY DEF ClosingSteps, HoldingSteps, OwnSteps, PhoneSteps
<1>1. CASE h.role = "caller"
  <2> DEFINE w == [h EXCEPT !.pc = "find", !.role = "callee"]
  <2>1. tasks' = [tasks EXCEPT ![t] = w]
    BY <1>1, <1>h DEF NextRole
  <2>2. w \in Task /\ w.pc = "find" /\ w.kind = h.kind /\ w.call = h.call /\ w.for = h.for
        /\ w.stored = h.stored /\ w.to = h.to
    BY DEF Task, Steps, Roles
  <2> HIDE DEF w
  <2>3. Own(w) = Own(h) /\ Ends(w) = Ends(h) /\ w # Idle
    BY <2>2, TaskFields DEF Own, Ends
  <2>4. Shape(w)
    BY <1>h, <2>2, <2>3 DEF Shape, OwnSteps, PhoneSteps
  <2>5. Keeps(h, w)
    BY <2>2, <2>3, <2>4 DEF Keeps, Early, EarlySteps, PastFinal
  <2>6. Known(w) /\ Heard(w)
    BY <2>2 DEF Known, KnownSteps, ClosingSteps, Heard
  <2>7. Joins(t, w)
    BY <1>h, <2>2, StaysOn
  <2>8. Leaves(t, w)
    BY <1>0, <1>h, <2>2, <2>3 DEF Leaves, Closing, Recording
  <2>9. Locks(t, w, h.call)
    <3>1. lock \in [Users -> Calls \cup {NoCall}]
      BY DEF TypeInv, TypeOK
    <3> QED BY <1>0, <1>h, <3>1, LocksDropped
  <2> QED BY <1>h, <2>1, <2>2, <2>5, <2>6, <2>7, <2>8, <2>9, MoveKeeps
<1>2. CASE h.role # "caller" /\ h.stored
  <2>1. Goto(t, "done") /\ "done" \in Steps
    BY <1>2, <1>h DEF NextRole, Steps
  <2>2. MayGo(h, "done")
    BY DEF MayGo, OwnSteps, PhoneSteps, KnownSteps, EarlySteps, ClosingSteps
  <2> QED BY <1>0, <1>h, <2>1, <2>2, GoesOn
<1>3. CASE h.role # "caller" /\ ~h.stored
  <2>1. Goto(t, "room") /\ "room" \in Steps
    BY <1>3, <1>h DEF NextRole, Steps
  <2>2. MayGo(h, "room") /\ ~Recording(h, h.call)
    BY <1>3 DEF MayGo, OwnSteps, PhoneSteps, KnownSteps, EarlySteps, ClosingSteps, Recording
  <2> QED BY <1>0, <1>h, <2>1, <2>2, GoesOn
<1> QED BY <1>1, <1>2, <1>3

\* After a party's lock was seen to.
LEMMA AfterFreeKeeps ==
  ASSUME TypeInv, CallsInv, NEW t \in Tasks, NEW h \in Task, Handler(t, h),
         h.pc \in {"find", "free"},
         Settles, AfterFree(t), NEW u \in Users, lock' = lock \/ lock' = [lock EXCEPT ![u] = NoCall]
  PROVE  CallsInv'
<1>h. h = tasks[t] /\ Shape(h) /\ Known(h)
  BY DEF Handler
<1>1. CASE h.stored
  BY <1>1, <1>h, NextRoleKeeps DEF AfterFree
<1>2. CASE ~h.stored
  <2>1. Goto(t, "forget") /\ "forget" \in Steps
    BY <1>2, <1>h DEF AfterFree, Steps
  <2>2. MayGo(h, "forget") /\ ~Recording(h, h.call) /\ h.pc \notin HoldingSteps
    BY <1>2 DEF MayGo, OwnSteps, PhoneSteps, KnownSteps, EarlySteps, ClosingSteps, Recording,
                HoldingSteps
  <2> QED BY <1>h, <2>1, <2>2, GoesOn
<1> QED BY <1>1, <1>2

\* The locks of the parties are released.
LEMMA ReleaseKeeps ==
  ASSUME TypeInv, CallsInv, NEW t \in Tasks, tasks[t] # Idle, Find(t) \/ Free(t) \/ Forget(t)
  PROVE  CallsInv'
<1>p. PICK h \in Task : Handler(t, h)
  BY PickHandler
<1>h. h = tasks[t] /\ h.call \in Calls /\ h.role \in Roles
  BY <1>p, TaskFields DEF Handler
<1> DEFINE u == Party(h.call, h.role)
<1>u. u \in Users
  BY <1>h, Parties
<1>1. CASE Find(t)
  <2>0. h.pc = "find"
    BY <1>1, <1>h DEF Find, At
  <2>1. Settles /\ lock' = lock /\ (Goto(t, "free") \/ AfterFree(t))
    BY <1>1 DEF Find, Settles
  <2>2. MayGo(h, "free") /\ "free" \in Steps /\ h.pc \notin HoldingSteps
    BY <2>0 DEF MayGo, OwnSteps, PhoneSteps, KnownSteps, EarlySteps, ClosingSteps, Steps, HoldingSteps
  <2> HIDE DEF u
  <2> QED BY <1>p, <1>u, <2>0, <2>1, <2>2, GoesOnQuietly, AfterFreeKeeps
<1>2. CASE Free(t)
  <2>0. h.pc = "free"
    BY <1>2, <1>h DEF Free, At
  <2>1. Settles /\ AfterFree(t) /\ lock' = [lock EXCEPT ![u] = NoCall]
    BY <1>2, <1>h DEF Free, Settles
  <2> HIDE DEF u
  <2> QED BY <1>p, <1>u, <2>0, <2>1, AfterFreeKeeps
<1>3. CASE Forget(t)
  <2>0. h.pc = "forget"
    BY <1>3, <1>h DEF Forget, At
  <2>1. Settles /\ NextRole(t) /\ lock' = lock
    BY <1>3 DEF Forget, Settles
  <2> HIDE DEF u
  <2> QED BY <1>p, <1>u, <2>0, <2>1, NextRoleKeeps
<1> QED BY <1>1, <1>2, <1>3

\* The set-up whose call waited goes on with its own.
LEMMA DropLockKeeps ==
  ASSUME TypeInv, CallsInv, NEW t \in Tasks, tasks[t] # Idle, DropLock(t)
  PROVE  CallsInv'
<1>p. PICK h \in Task : Handler(t, h)
  BY PickHandler
<1>h. h = tasks[t] /\ Shape(h) /\ h \in Task /\ h.call \in Calls /\ Unbegun(t, h)
  BY <1>p DEF Handler
<1>0. h.pc = "dropLock" /\ h.for # NoCall /\ h.kind = "initiate"
  BY <1>h DEF DropLock, At, Shape
<1>f. h.for \in Calls
  BY <1>0, TaskFields
<1> DEFINE w == [h EXCEPT !.pc = "relock", !.call = h.for, !.for = NoCall, !.to = "ringing",
                          !.stored = FALSE, !.role = "caller"]
           u == CallerOf[h.for]
<1>1. tasks' = [tasks EXCEPT ![t] = w] /\ lock' = [lock EXCEPT ![u] = NoCall] /\ Settles
  BY <1>h DEF DropLock, Settles
<1>2. w \in Task /\ w.pc = "relock" /\ w.kind = h.kind /\ w.call = h.for /\ w.for = NoCall
      /\ w.stored = FALSE /\ w.to = "ringing"
  BY <1>f DEF Task, Steps, Roles, Statuses, Active
<1>u. u \in Users
  BY <1>f, SmartCallAssumption
<1> HIDE DEF w, u
<1>3. Own(w) = Own(h) /\ ~Ends(w)
  BY <1>0, <1>2 DEF Own, Ends
<1>4. Shape(w)
  BY <1>0, <1>2, <1>3 DEF Shape, PhoneSteps
<1>5. Keeps(h, w)
  BY <1>0, <1>2, <1>3, <1>4 DEF Keeps, Early, PastFinal
<1>6. Known(w) /\ Heard(w)
  BY <1>2 DEF Known, KnownSteps, ClosingSteps, Heard
<1>7. Joins(t, w)
  BY <1>h, <1>2, StaysOn
<1>8. Leaves(t, w)
  BY <1>0, <1>h DEF Leaves, Closing, ClosingSteps, Recording
<1>9. Locks(t, w, h.call)
  <2>1. h.pc \notin HoldingSteps
    BY <1>0 DEF HoldingSteps
  <2>2. lock \in [Users -> Calls \cup {NoCall}]
    BY DEF TypeInv, TypeOK
  <2> QED BY <1>h, <1>1, <1>u, <2>1, <2>2, LocksDropped
<1> QED BY <1>h, <1>1, <1>2, <1>5, <1>6, <1>7, <1>8, <1>9, MoveKeeps

\* Who holds the lock has a record, or is set up by the very handler that asks.
LEMMA HolderKeeps ==
  ASSUME TypeInv, CallsInv, NEW t \in Tasks, tasks[t] # Idle, Holder(t)
  PROVE  CallsInv'
<1>p. PICK h \in Task : Handler(t, h)
  BY PickHandler
<1>h. h = tasks[t] /\ Shape(h) /\ h.call \in Calls /\ h # Idle
  BY <1>p DEF Handler
<1>0. h.pc = "holder" /\ h.for = NoCall /\ h.kind = "initiate" /\ ~h.stored
  BY <1>h DEF Holder, At, Shape, OwnSteps
<1>1. Settles /\ lock' = lock
  BY DEF Holder, Settles
<1> DEFINE u == CallerOf[h.call]
<1>u. u \in Users /\ Owner(h.call) = u
  BY <1>p, <1>0, OwnerIs, SmartCallAssumption DEF Handler
<1>2. CASE lock[u] = NoCall
  <2>1. Finish(t)
    BY <1>2, <1>h DEF Holder
  <2>2. h.pc \notin ClosingSteps \cup HoldingSteps /\ ~Recording(h, h.call)
    BY <1>0 DEF ClosingSteps, HoldingSteps, Recording
  <2> QED BY <1>p, <1>1, <2>1, <2>2, FinishesQuietly
<1>3. CASE lock[u] # NoCall
  <2>0. PICK held \in Calls : held = lock[u]
    BY <1>3, <1>u DEF TypeInv, TypeOK
  <2> DEFINE w == [h EXCEPT !.pc = "quiet", !.call = held, !.for = h.call, !.to = "ended"]
  <2>1. tasks' = [tasks EXCEPT ![t] = w]
    BY <1>3, <1>h, <2>0 DEF Holder
  <2>2. w \in Task /\ w.pc = "quiet" /\ w.kind = h.kind /\ w.call = held /\ w.for = h.call
        /\ w.stored = h.stored /\ w.to = "ended"
    BY ZenonT(30), <1>h DEF Task, Steps, Statuses, Terminal
  <2> HIDE DEF w, u
  <2>3. h.call # NoCall
    BY <1>h, SmartCallAssumption
  <2>4. Own(w) = h.call /\ Own(h) = h.call /\ Ends(w)
    BY <1>0, <2>2, <2>3 DEF Own, Ends
  <2>5. Shape(w)
    BY <1>0, <2>2, <2>4 DEF Shape, OwnSteps, PhoneSteps, Terminal
  <2>6. Keeps(h, w)
    BY <1>0, <2>2, <2>4, <2>5 DEF Keeps, Early, EarlySteps, PastFinal
  <2>7. Known(w) /\ Heard(w)
    BY <2>2 DEF Known, KnownSteps, ClosingSteps, Heard
  <2>8. Joins(t, w)
    <3>1. SUFFICES ASSUME NEW v \in Tasks, v # t, tasks[v] # Idle, Early(tasks[v]),
                          Own(tasks[v]) \in {held, h.call}
                   PROVE  FALSE
      BY <2>2 DEF Joins
    <3>2. record[Own(tasks[v])] = NoRecord /\ Alone(v, Own(tasks[v]))
      BY <3>1 DEF CallsInv, TaskInv, Unbegun
    <3>3. Own(tasks[v]) # h.call
      BY <1>h, <3>1, <3>2 DEF Alone
    <3>4. Own(tasks[v]) = held /\ ~Recorded(held)
      BY <3>1, <3>2, <3>3 DEF Recorded, NoRecord
    <3>5. LockInv(u) /\ lock[u] # NoCall
      BY <1>u, <1>3 DEF CallsInv
    <3>6. Owner(held) = u
      BY <2>0, <3>4, <3>5 DEF LockInv
    <3>7. PICK x \in Tasks : tasks[x] # Idle /\ tasks[x].call = held /\ tasks[x].pc \in HoldingSteps
      BY <2>0, <3>4, <3>5 DEF LockInv
    <3>8. x = v
      BY <3>2, <3>4, <3>7 DEF Alone
    <3>9. SetsUp(tasks[v])
      <4>1. Shape(tasks[v])
        BY <3>1 DEF CallsInv, TaskInv
      <4> QED BY <3>7, <3>8, <4>1 DEF Shape, HoldingSteps, OwnSteps, PhoneSteps, SetsUp
    <3> QED BY <1>0, <1>h, <1>u, <2>4, <3>1, <3>4, <3>6, <3>9 DEF CallsInv, OneSetUp, SetsUp
  <2>9. Leaves(t, w)
    BY <1>0, <1>h DEF Leaves, Closing, ClosingSteps, Recording
  <2>10. Locks(t, w, h.call)
    BY <1>0, <1>1, <1>h DEF Locks, HoldingSteps
  <2> QED BY <1>h, <1>1, <2>1, <2>2, <2>6, <2>7, <2>8, <2>9, <2>10, MoveKeeps
<1> QED BY <1>2, <1>3

\* A copy of the record is taken in hand.
LEMMA CopyKeeps ==
  ASSUME TypeInv, CallsInv, NEW t \in Tasks, NEW h \in Task, Handler(t, h),
         NEW step \in {"failWrite", "write", "mediaWrite"}, NEW copy \in Record,
         tasks' = [tasks EXCEPT ![t] = [h EXCEPT !.pc = step, !.snap = copy]],
         Settles, lock' = lock, h.pc \in {"failRead", "read", "mediaRead"},
         step = "failWrite" <=> h.pc = "failRead", step = "write" <=> h.pc = "read",
         Recorded(h.call),
         step = "failWrite" => copy.status = "failed",
         step = "write" => copy.status = h.to,
         step = "mediaWrite" => copy = record[h.call]
  PROVE  CallsInv'
<1> DEFINE w == [h EXCEPT !.pc = step, !.snap = copy]
<1>h. h = tasks[t] /\ Shape(h) /\ h.call \in Calls /\ h # Idle
  BY DEF Handler
<1>1. tasks' = [tasks EXCEPT ![t] = w]
  OBVIOUS
<1>2. w \in Task /\ w.pc = step /\ w.kind = h.kind /\ w.call = h.call /\ w.for = h.for
      /\ w.stored = h.stored /\ w.to = h.to /\ w.snap = copy
  BY DEF Task, Steps
<1> HIDE DEF w
<1>3. Own(w) = Own(h) /\ Ends(w) = Ends(h)
  BY <1>2 DEF Own, Ends
<1>4. Shape(w)
  BY <1>h, <1>2, <1>3 DEF Shape, OwnSteps, PhoneSteps, Recorded
<1>5. Keeps(h, w)
  BY <1>2, <1>3, <1>4 DEF Keeps, Early, EarlySteps, PastFinal
<1>6. Known(w)
  BY <1>2 DEF Known
<1>7. Heard(w)
  BY <1>2, <1>h DEF Heard, CallsInv, CallInv
<1>8. Joins(t, w)
  BY <1>h, <1>2, StaysOn
<1>9. Leaves(t, w)
  BY <1>h DEF Leaves, Closing, ClosingSteps, Recording
<1>10. Locks(t, w, h.call)
  BY <1>h DEF Locks, HoldingSteps
<1> QED BY <1>h, <1>1, <1>2, <1>5, <1>6, <1>7, <1>8, <1>9, <1>10, MoveKeeps

\* The record is read to be marked as failed.
LEMMA FailReadKeeps ==
  ASSUME TypeInv, CallsInv, NEW t \in Tasks, tasks[t] # Idle, FailRead(t)
  PROVE  CallsInv'
<1>p. PICK h \in Task : Handler(t, h)
  BY PickHandler
<1>0. h.pc = "failRead" /\ h = tasks[t] /\ h.call \in Calls
  BY <1>p DEF FailRead, At, Handler
<1>1. Recorded(h.call)
  BY <1>0, <1>p DEF Handler, Known, KnownSteps
<1> DEFINE copy == [record[h.call] EXCEPT !.status = "failed"]
<1>2. copy \in Record /\ copy.status = "failed"
  BY <1>0 DEF TypeInv, TypeOK, Record, Statuses, Terminal
<1>3. tasks' = [tasks EXCEPT ![t] = [h EXCEPT !.pc = "failWrite", !.snap = copy]]
  BY <1>0 DEF FailRead
<1>4. Settles /\ lock' = lock
  BY DEF FailRead, Settles
<1> HIDE DEF copy
<1> QED BY <1>p, <1>0, <1>1, <1>2, <1>3, <1>4, CopyKeeps

\* The record is read to be stored again with the time.
LEMMA MediaReadKeeps ==
  ASSUME TypeInv, CallsInv, NEW t \in Tasks, tasks[t] # Idle, MediaRead(t)
  PROVE  CallsInv'
<1>p. PICK h \in Task : Handler(t, h)
  BY PickHandler
<1>0. h.pc = "mediaRead" /\ h = tasks[t] /\ h.call \in Calls
  BY <1>p DEF MediaRead, At, Handler
<1>1. Recorded(h.call)
  BY <1>0, <1>p DEF Handler, Known, KnownSteps
<1>2. record[h.call] \in Record
  BY <1>0 DEF TypeInv, TypeOK
<1>3. tasks' = [tasks EXCEPT ![t] = [h EXCEPT !.pc = "mediaWrite", !.snap = record[h.call]]]
  BY <1>0 DEF MediaRead
<1>4. Settles /\ lock' = lock
  BY DEF MediaRead, Settles
<1> QED BY <1>p, <1>0, <1>1, <1>2, <1>3, <1>4, CopyKeeps

\* The record is read to be changed; what is not allowed undoes a set-up.
LEMMA ReadKeeps ==
  ASSUME TypeInv, CallsInv, NEW t \in Tasks, tasks[t] # Idle, Read(t)
  PROVE  CallsInv'
<1>p. PICK h \in Task : Handler(t, h)
  BY PickHandler
<1>h. h.pc = "read" /\ h = tasks[t] /\ h.call \in Calls /\ Shape(h)
  BY <1>p DEF Read, At, Handler
<1>1. Settles /\ lock' = lock
  BY DEF Read, Settles
<1>2. h.pc \notin ClosingSteps \cup HoldingSteps \cup {"store", "register"} /\ ~Recording(h, h.call)
  BY <1>h DEF ClosingSteps, HoldingSteps, Recording
<1> DEFINE now == record[h.call]
<1>n. now \in Record
  BY <1>h DEF TypeInv, TypeOK
<1>3. CASE Missing(t)
  BY <1>3, <1>p, <1>1, <1>2, MissingKeeps
<1>4. CASE now.status # "none" /\ h.kind = "initiate" /\ h.for = NoCall /\ Goto(t, "failRead")
  <2>1. Recorded(h.call) /\ "failRead" \in Steps
    BY <1>4 DEF Recorded, Steps
  <2>2. ASSUME NEW w \in Task, Passes(h, w, "failRead") PROVE Fits(h, w) /\ Locks(t, w, h.call)
    <3>1. w.pc = "failRead" /\ w.kind = h.kind /\ w.call = h.call /\ w.for = h.for
          /\ w.stored = h.stored /\ w.to = h.to
      BY <2>2 DEF Passes
    <3>2. Shape(w)
      BY <1>h, <1>4, <3>1 DEF Shape, OwnSteps, PhoneSteps, Ends
    <3>3. Fits(h, w)
      BY <1>h, <1>4, <1>2, <2>1, <3>1, <3>2 DEF Fits, EarlySteps, ClosingSteps
    <3>4. Locks(t, w, h.call)
      BY <1>h, <1>1, <1>2 DEF Locks
    <3> QED BY <3>3, <3>4
  <2> QED BY <1>h, <1>1, <1>4, <2>1, <2>2, GotoKeeps
<1>5. CASE now.status # "none"
           /\ tasks' = [tasks EXCEPT ![t] = [h EXCEPT !.pc = "write", !.snap = [now EXCEPT !.status = h.to]]]
  <2> DEFINE copy == [now EXCEPT !.status = h.to]
  <2>1. copy \in Record /\ copy.status = h.to
    BY <1>n, TaskFields DEF Record
  <2>2. Recorded(h.call)
    BY <1>5 DEF Recorded
  <2>3. tasks' = [tasks EXCEPT ![t] = [h EXCEPT !.pc = "write", !.snap = copy]]
    BY <1>5
  <2> HIDE DEF copy
  <2> QED BY <1>p, <1>h, <1>1, <2>1, <2>2, <2>3, CopyKeeps
<1>6. \/ Missing(t)
      \/ now.status # "none" /\ h.kind = "initiate" /\ h.for = NoCall /\ Goto(t, "failRead")
      \/ now.status # "none"
           /\ tasks' = [tasks EXCEPT ![t] = [h EXCEPT !.pc = "write", !.snap = [now EXCEPT !.status = h.to]]]
  BY <1>h DEF Read, Refused
<1> QED BY <1>3, <1>4, <1>5, <1>6

---------------------------------------------------------------------------
(* Steps that store a record, open a session or close one *)

\* Handler h stays with its call c and becomes w; only c changes.
WorksOn(t, h, w) ==
    /\ tasks' = [tasks EXCEPT ![t] = w]
    /\ phone' = phone /\ lock' = lock /\ cdr' = cdr /\ failed \subseteq failed'
    /\ \A d \in Calls : d # h.call => record'[d] = record[d] /\ billing'[d] = billing[d]
    /\ Recorded(h.call) => Recorded(h.call)'
    /\ Recorded(h.call)' => Recorded(h.call) \/ (Early(h) /\ Own(h) = h.call)
    /\ billing[h.call] = "closed" => billing'[h.call] = "closed"
    /\ Recorded(h.call)' => billing'[h.call] # "none"
    /\ ~Recording(h, h.call)

\* What w is like, and what it needs of its call.
Becomes(h, w) ==
    /\ w.kind = h.kind /\ w.call = h.call /\ w.for = h.for /\ Shape(w) /\ w.pc # "mediaWrite"
    /\ w.pc \in KnownSteps => Recorded(h.call)'
    /\ Early(w) => /\ Early(h) /\ record'[Own(h)] = NoRecord
                   /\ billing'[Own(h)] = IF w.pc \in {"store", "register"} THEN "open" ELSE "none"
    /\ PastFinal(w) /\ Recorded(h.call)' => Accounted(h.call)'

\* Such a step keeps the invariant when a call that is over by then is settled.
LEMMA WorkKeeps ==
  ASSUME TypeInv, CallsInv, NEW t \in Tasks, NEW h \in Task, Handler(t, h),
         NEW w \in Task \cup {Idle}, WorksOn(t, h, w),
         w # Idle => Becomes(h, w),
         h.pc \in ClosingSteps => (w # Idle /\ w.pc \in ClosingSteps) \/ Accounted(h.call)',
         h.pc \in HoldingSteps => (w # Idle /\ w.pc \in HoldingSteps) \/ Recorded(h.call)',
         NEW s, s = record'[h.call].status,
         s \in Terminal => s = record[h.call].status \/ Ended(h.call, s) \/ Ended(h.call, s)'
  PROVE  CallsInv'
<1>h. h = tasks[t] /\ h # Idle /\ h.call \in Calls /\ Reaches(h) /\ Unbegun(t, h)
  BY DEF Handler
<1>s. tasks'[t] = w /\ \A v \in Tasks : v # t => tasks'[v] = tasks[v]
  BY OthersSame DEF WorksOn
<1>1. Changes(t, w, h.call) /\ Touches(t, h.call) /\ Dialed(h.call)
  BY <1>h DEF WorksOn, Changes, Touches, Dialed
<1>2. Joins(t, w)
  <2>1. CASE w = Idle
    BY <2>1 DEF Joins
  <2>2. CASE w # Idle
    BY <2>2, <1>h, StaysOn DEF Becomes
  <2> QED BY <2>1, <2>2
<1>3. Leaves(t, w)
  BY <1>h DEF Leaves, WorksOn, Becomes, Closing, Recording
<1>4. StepOf(t, w, h.call)
  BY <1>1, <1>2, <1>3 DEF StepOf
<1>5. Follows(t, w)
  BY <1>h DEF Follows, Becomes, SetsUp, Own
<1>6. Locks(t, w, h.call)
  BY <1>h DEF Locks, WorksOn, Becomes
<1>7. ASSUME w # Idle PROVE TaskInv(t)'
  <2>b. Becomes(h, w)
    BY <1>7
  <2>o. w.kind = h.kind /\ w.call = h.call /\ Own(w) = Own(h)
    BY <2>b DEF Becomes, Own
  <2>1. Shape(w)
    BY <2>b DEF Becomes
  <2>2. Reaches(w)'
    BY <1>h, <2>o DEF Reaches, WorksOn
  <2>3. Known(w)'
    BY <2>b, <2>o DEF Becomes, Known
  <2>4. Unbegun(t, w)'
    <3>1. SUFFICES ASSUME Early(w) PROVE Unbegun(t, w)'
      BY DEF Unbegun, Early
    <3>2. Early(h) /\ record'[Own(w)] = NoRecord
          /\ billing'[Own(w)] = IF w.pc \in {"store", "register"} THEN "open" ELSE "none"
      BY <2>b, <2>o, <3>1 DEF Becomes
    <3>3. Alone(t, Own(w))'
      BY <1>h, <1>s, <2>o, <3>2 DEF Unbegun, Alone
    <3> QED BY <3>2, <3>3 DEF Unbegun
  <2>5. Final(w)'
    BY <2>b, <2>o DEF Becomes, Final
  <2>6. Heard(w)'
    BY <2>b DEF Becomes, Heard
  <2> QED BY <1>s, <2>1, <2>2, <2>3, <2>4, <2>5, <2>6 DEF TaskInv
<1>8. CallInv(h.call)'
  <2>1. ASSUME s \in Terminal PROVE Ended(h.call, s)'
    <3>1. CASE s = record[h.call].status
      <4>1. Ended(h.call, s)
        BY <1>h, <2>1, <3>1 DEF CallsInv, CallInv
      <4> QED BY <1>h, <1>4, <4>1, EndedKept
    <3>2. CASE Ended(h.call, s)
      BY <1>h, <1>4, <3>2, EndedKept
    <3> QED BY <2>1, <3>1, <3>2
  <2>2. s \in Terminal => Ended(h.call, record[h.call].status)'
    BY <2>1 DEF Ended
  <2> QED BY <2>2 DEF CallInv, WorksOn
<1> QED BY <1>h, <1>4, <1>5, <1>6, <1>7, <1>8, StepKeeps

\* The same for a handler that goes on by Goto.
LEMMA GotoWorks ==
  ASSUME TypeInv, CallsInv, NEW t \in Tasks, NEW h \in Task, Handler(t, h),
         NEW step \in Steps, Goto(t, step),
         \A w \in Task : Passes(h, w, step) /\ tasks' = [tasks EXCEPT ![t] = w]
                           => WorksOn(t, h, w) /\ Becomes(h, w),
         h.pc \in ClosingSteps => step \in ClosingSteps \/ Accounted(h.call)',
         h.pc \in HoldingSteps => step \in HoldingSteps \/ Recorded(h.call)',
         NEW s, s = record'[h.call].status,
         s \in Terminal => \/ s = record[h.call].status
                           \/ s = "failed" /\ h.call \in Calls /\ step \in ClosingSteps
  PROVE  CallsInv'
<1>h. h = tasks[t] /\ h # Idle /\ TypeOK
  BY DEF Handler, TypeInv
<1>1. PICK w \in Task : Passes(h, w, step) /\ tasks' = [tasks EXCEPT ![t] = w]
  BY <1>h, GotoPasses
<1>2. WorksOn(t, h, w) /\ Becomes(h, w) /\ w # Idle /\ w.pc = step /\ w.call = h.call
  BY <1>1, TaskFields DEF Passes
<1>3. ASSUME s = "failed", step \in ClosingSteps PROVE Ended(h.call, s)'
  <2>1. tasks'[t] = w
    BY <1>1, OthersSame
  <2>2. tasks'[t] # Idle /\ Closing(tasks'[t], h.call)
    BY <1>2, <1>3, <2>1 DEF Closing
  <2> QED BY <1>3, <2>2 DEF Ended
<1> QED BY <1>2, <1>3, WorkKeeps

\* What passes on to a step is like what it was.
LEMMA PassesOn ==
  ASSUME NEW h \in Task, Shape(h), NEW step, NEW w \in Task, Passes(h, w, step),
         step \in OwnSteps => h.kind = "initiate" /\ h.for = NoCall,
         step \in PhoneSteps => h.kind = "inbound" /\ h.for = NoCall,
         step \notin {"dropLock", "lock", "holder", "write", "failWrite", "mediaWrite"},
         step \in {"activate", "rewrite"} => h.snap.status = h.to,
         step \in {"activate", "rewrite"} => h.to \in {"answered", "active"}
  PROVE  /\ w.kind = h.kind /\ w.call = h.call /\ w.for = h.for /\ w.pc = step
         /\ w.stored = h.stored /\ Ends(w) = Ends(h) /\ Own(w) = Own(h) /\ Shape(w)
<1>1. w.kind = h.kind /\ w.call = h.call /\ w.for = h.for /\ w.pc = step /\ w.snap = h.snap
      /\ w.stored = h.stored /\ w.to = h.to
  BY DEF Passes
<1>2. Ends(w) = Ends(h) /\ Own(w) = Own(h)
  BY <1>1 DEF Ends, Own
<1> QED BY <1>1, <1>2 DEF Shape

\* The session is opened, or the caller may not call.
LEMMA AuthorizeKeeps ==
  ASSUME TypeInv, CallsInv, NEW t \in Tasks, tasks[t] # Idle, Authorize(t)
  PROVE  CallsInv'
<1>p. PICK h \in Task : Handler(t, h)
  BY PickHandler
<1>0. h = tasks[t] /\ h.pc = "authorize" /\ h.kind = "initiate" /\ h.for = NoCall /\ Shape(h)
      /\ h.call \in Calls /\ Unbegun(t, h)
  BY <1>p DEF Authorize, At, Handler, Shape, OwnSteps
<1>1. ~Recording(h, h.call) /\ h.pc \notin ClosingSteps /\ {"store", "giveUp"} \subseteq HoldingSteps
      /\ {"store", "giveUp"} \subseteq Steps
  BY <1>0 DEF Recording, ClosingSteps, HoldingSteps, Steps
<1>2. CASE Goto(t, "giveUp") /\ billing' = billing
  <2>1. Settles /\ lock' = lock
    BY <1>2 DEF Authorize, Settles
  <2>2. MayGo(h, "giveUp")
    BY <1>0 DEF MayGo, OwnSteps, PhoneSteps, KnownSteps, EarlySteps, ClosingSteps
  <2> QED BY <1>p, <1>1, <1>2, <2>1, <2>2, GoesOnQuietly
<1>3. CASE Goto(t, "store") /\ billing' = [billing EXCEPT ![h.call] = "open"]
  <2>1. record' = record /\ phone' = phone /\ lock' = lock /\ cdr' = cdr /\ failed' = failed
    BY DEF Authorize
  <2>2. Own(h) = h.call /\ Early(h)
    BY <1>0 DEF Own, Early, EarlySteps
  <2>3. record[h.call] = NoRecord /\ billing[h.call] = "none"
    BY <1>0, <2>2 DEF Unbegun
  <2>4. billing'[h.call] = "open" /\ \A d \in Calls : d # h.call => billing'[d] = billing[d]
    BY <1>3, <1>0 DEF TypeInv, TypeOK
  <2>5. ~Recorded(h.call) /\ ~Recorded(h.call)'
    BY <2>1, <2>3 DEF Recorded, NoRecord
  <2>6. ASSUME NEW w \in Task, Passes(h, w, "store"), tasks' = [tasks EXCEPT ![t] = w]
        PROVE  WorksOn(t, h, w) /\ Becomes(h, w)
    <3>1. w.kind = h.kind /\ w.call = h.call /\ w.for = h.for /\ w.pc = "store" /\ Shape(w)
      BY <1>0, <2>6, PassesOn DEF PhoneSteps
    <3>2. WorksOn(t, h, w)
      BY <1>1, <2>1, <2>3, <2>4, <2>5, <2>6 DEF WorksOn
    <3>3. Becomes(h, w)
      BY <2>1, <2>2, <2>3, <2>4, <2>5, <3>1 DEF Becomes, KnownSteps, ClosingSteps
    <3> QED BY <3>2, <3>3
  <2>7. record'[h.call].status = record[h.call].status
    BY <2>1
  <2> QED BY <1>p, <1>1, <1>3, <2>6, <2>7, GotoWorks
<1> QED BY <1>0, <1>2, <1>3 DEF Authorize

\* The record is stored.
LEMMA StoreKeeps ==
  ASSUME TypeInv, CallsInv, NEW t \in Tasks, tasks[t] # Idle, Store(t)
  PROVE  CallsInv'
<1>p. PICK h \in Task : Handler(t, h)
  BY PickHandler
<1>0. h = tasks[t] /\ h.pc = "store" /\ h.kind = "initiate" /\ h.for = NoCall /\ Shape(h)
      /\ h.call \in Calls /\ Unbegun(t, h)
  BY <1>p DEF Store, At, Handler, Shape, OwnSteps
<1>1. ~Recording(h, h.call) /\ h.pc \notin ClosingSteps /\ "read" \in Steps
  BY <1>0 DEF Recording, ClosingSteps, Steps
<1>2. billing' = billing /\ phone' = phone /\ lock' = lock /\ cdr' = cdr /\ failed' = failed /\ Goto(t, "read")
  BY DEF Store
<1>3. Own(h) = h.call /\ Early(h) /\ ~Ends(h)
  BY <1>0 DEF Own, Early, EarlySteps, Ends
<1>4. billing[h.call] = "open"
  BY <1>0, <1>3 DEF Unbegun
<1>5. record'[h.call].status = "created" /\ \A d \in Calls : d # h.call => record'[d] = record[d]
  BY <1>0 DEF Store, StoreCall, TypeInv, TypeOK
<1>6. Recorded(h.call)' /\ "created" \notin Terminal
  BY <1>5 DEF Recorded, Terminal
<1>7. ASSUME NEW w \in Task, Passes(h, w, "read"), tasks' = [tasks EXCEPT ![t] = w]
      PROVE  WorksOn(t, h, w) /\ Becomes(h, w)
  <2>1. w.kind = h.kind /\ w.call = h.call /\ w.for = h.for /\ w.pc = "read" /\ Shape(w) /\ ~Ends(w)
    BY <1>0, <1>3, <1>7, PassesOn DEF PhoneSteps, OwnSteps
  <2>2. WorksOn(t, h, w)
    BY <1>1, <1>2, <1>3, <1>4, <1>5, <1>6, <1>7 DEF WorksOn
  <2>3. Becomes(h, w)
    BY <1>0, <2>1 DEF Becomes, KnownSteps, ClosingSteps, Early, EarlySteps, PastFinal
  <2> QED BY <2>2, <2>3
<1> QED BY <1>p, <1>1, <1>2, <1>5, <1>6, <1>7, GotoWorks

\* The call that could not be moved to ringing has failed.
LEMMA FailWriteKeeps ==
  ASSUME TypeInv, CallsInv, NEW t \in Tasks, tasks[t] # Idle, FailWrite(t)
  PROVE  CallsInv'
<1>p. PICK h \in Task : Handler(t, h)
  BY PickHandler
<1>0. h = tasks[t] /\ h.pc = "failWrite" /\ h.kind = "initiate" /\ h.for = NoCall /\ Shape(h)
      /\ h.call \in Calls /\ Known(h) /\ h.snap.status = "failed"
  BY <1>p DEF FailWrite, At, Handler, Shape, OwnSteps
<1>1. ~Recording(h, h.call) /\ h.pc \notin HoldingSteps /\ "clear" \in Steps /\ "clear" \in ClosingSteps
      /\ h.pc \notin ClosingSteps
  BY <1>0 DEF Recording, ClosingSteps, HoldingSteps, Steps
<1>2. billing' = billing /\ phone' = phone /\ lock' = lock /\ cdr' = cdr /\ failed' = failed /\ Goto(t, "clear")
  BY DEF FailWrite
<1>3. Recorded(h.call) /\ billing[h.call] # "none"
  BY <1>0 DEF Known, KnownSteps, CallsInv, CallInv
<1>5. record'[h.call] = h.snap /\ \A d \in Calls : d # h.call => record'[d] = record[d]
  BY <1>0 DEF FailWrite, StoreCall, TypeInv, TypeOK
<1>6. Recorded(h.call)'
  BY <1>0, <1>5 DEF Recorded
<1>7. ASSUME NEW w \in Task, Passes(h, w, "clear"), tasks' = [tasks EXCEPT ![t] = w]
      PROVE  WorksOn(t, h, w) /\ Becomes(h, w)
  <2>1. w.kind = h.kind /\ w.call = h.call /\ w.for = h.for /\ w.pc = "clear" /\ Shape(w)
    BY <1>0, <1>7, PassesOn DEF PhoneSteps
  <2>2. WorksOn(t, h, w)
    BY <1>1, <1>2, <1>3, <1>5, <1>6, <1>7 DEF WorksOn
  <2>3. Becomes(h, w)
    BY <1>0, <1>6, <2>1 DEF Becomes, Early, EarlySteps, PastFinal, Ends
  <2> QED BY <2>2, <2>3
<1> QED BY <1>p, <1>0, <1>1, <1>2, <1>5, <1>7, GotoWorks

\* The session of a phone call is opened or refused.
LEMMA ReserveKeeps ==
  ASSUME TypeInv, CallsInv, NEW t \in Tasks, tasks[t] # Idle, Reserve(t)
  PROVE  CallsInv'
<1>p. PICK h \in Task : Handler(t, h)
  BY PickHandler
<1>0. h = tasks[t] /\ h.pc = "reserve" /\ h.kind = "inbound" /\ h.for = NoCall /\ Shape(h)
      /\ h.call \in Calls /\ Unbegun(t, h)
  BY <1>p DEF Reserve, At, Handler, Shape, PhoneSteps
<1>1. ~Recording(h, h.call) /\ h.pc \notin ClosingSteps /\ {"register", "drop"} \subseteq HoldingSteps
      /\ {"register", "drop"} \subseteq Steps
  BY <1>0 DEF Recording, ClosingSteps, HoldingSteps, Steps
<1>2. CASE Goto(t, "drop") /\ billing' = billing
  <2>1. Settles /\ lock' = lock
    BY <1>2 DEF Reserve, Settles
  <2>2. MayGo(h, "drop")
    BY <1>0 DEF MayGo, OwnSteps, PhoneSteps, KnownSteps, EarlySteps, ClosingSteps
  <2> QED BY <1>p, <1>1, <1>2, <2>1, <2>2, GoesOnQuietly
<1>3. CASE Goto(t, "register") /\ billing' = [billing EXCEPT ![h.call] = "open"]
  <2>1. record' = record /\ phone' = phone /\ lock' = lock /\ cdr' = cdr /\ failed' = failed
    BY DEF Reserve
  <2>2. Own(h) = h.call /\ Early(h)
    BY <1>0 DEF Own, Early, EarlySteps
  <2>3. record[h.call] = NoRecord /\ billing[h.call] = "none"
    BY <1>0, <2>2 DEF Unbegun
  <2>4. billing'[h.call] = "open" /\ \A d \in Calls : d # h.call => billing'[d] = billing[d]
    BY <1>3, <1>0 DEF TypeInv, TypeOK
  <2>5. ~Recorded(h.call) /\ ~Recorded(h.call)'
    BY <2>1, <2>3 DEF Recorded, NoRecord
  <2>6. ASSUME NEW w \in Task, Passes(h, w, "register"), tasks' = [tasks EXCEPT ![t] = w]
        PROVE  WorksOn(t, h, w) /\ Becomes(h, w)
    <3>1. w.kind = h.kind /\ w.call = h.call /\ w.for = h.for /\ w.pc = "register" /\ Shape(w)
      BY <1>0, <2>6, PassesOn DEF OwnSteps
    <3>2. WorksOn(t, h, w)
      BY <1>1, <2>1, <2>3, <2>4, <2>5, <2>6 DEF WorksOn
    <3>3. Becomes(h, w)
      BY <2>1, <2>2, <2>3, <2>4, <2>5, <3>1 DEF Becomes, KnownSteps, ClosingSteps
    <3> QED BY <3>2, <3>3
  <2>7. record'[h.call].status = record[h.call].status
    BY <2>1
  <2> QED BY <1>p, <1>1, <1>3, <2>6, <2>7, GotoWorks
<1> QED BY <1>0, <1>2, <1>3 DEF Reserve

\* The phone call is registered, or the callee is released.
LEMMA RegisterKeeps ==
  ASSUME TypeInv, CallsInv, NEW t \in Tasks, tasks[t] # Idle, Register(t)
  PROVE  CallsInv'
<1>p. PICK h \in Task : Handler(t, h)
  BY PickHandler
<1>0. h = tasks[t] /\ h.pc = "register" /\ h.kind = "inbound" /\ h.for = NoCall /\ Shape(h)
      /\ h.call \in Calls /\ Unbegun(t, h)
  BY <1>p DEF Register, At, Handler, Shape, PhoneSteps
<1>1. ~Recording(h, h.call) /\ h.pc \notin ClosingSteps /\ "drop" \in HoldingSteps
      /\ {"save", "drop"} \subseteq Steps
  BY <1>0 DEF Recording, ClosingSteps, HoldingSteps, Steps
<1>2. CASE Goto(t, "drop") /\ record' = record
  <2>1. Settles /\ lock' = lock
    BY <1>2 DEF Register, Settles
  <2>2. MayGo(h, "drop")
    BY <1>0 DEF MayGo, OwnSteps, PhoneSteps, KnownSteps, EarlySteps, ClosingSteps
  <2> QED BY <1>p, <1>1, <1>2, <2>1, <2>2, GoesOnQuietly
<1>3. CASE /\ Goto(t, "save")
           /\ StoreCall(h.call, [status |-> "ringing", activated |-> FALSE])
  <2>1. billing' = billing /\ phone' = phone /\ lock' = lock /\ cdr' = cdr /\ failed' = failed
    BY DEF Register
  <2>2. Own(h) = h.call /\ Early(h) /\ ~Ends(h)
    BY <1>0 DEF Own, Early, EarlySteps, Ends
  <2>3. billing[h.call] = "open"
    BY <1>0, <2>2 DEF Unbegun
  <2>4. record'[h.call].status = "ringing" /\ \A d \in Calls : d # h.call => record'[d] = record[d]
    BY <1>3, <1>0 DEF StoreCall, TypeInv, TypeOK
  <2>5. Recorded(h.call)' /\ "ringing" \notin Terminal
    BY <2>4 DEF Recorded, Terminal
  <2>6. ASSUME NEW w \in Task, Passes(h, w, "save"), tasks' = [tasks EXCEPT ![t] = w]
        PROVE  WorksOn(t, h, w) /\ Becomes(h, w)
    <3>1. w.kind = h.kind /\ w.call = h.call /\ w.for = h.for /\ w.pc = "save" /\ Shape(w) /\ ~Ends(w)
      BY <1>0, <2>2, <2>6, PassesOn DEF OwnSteps
    <3>2. WorksOn(t, h, w)
      BY <1>1, <2>1, <2>2, <2>3, <2>4, <2>5, <2>6 DEF WorksOn
    <3>3. Becomes(h, w)
      BY <1>0, <3>1 DEF Becomes, KnownSteps, ClosingSteps, Early, EarlySteps, PastFinal
    <3> QED BY <3>2, <3>3
  <2> QED BY <1>p, <1>1, <1>3, <2>4, <2>5, <2>6, GotoWorks
<1> QED BY <1>0, <1>2, <1>3 DEF Register

\* A set-up that waits has a call without a record.
LEMMA WaitsBare ==
  ASSUME NEW t \in Tasks, NEW h \in Task, Handler(t, h), h.for # NoCall,
         h.pc \notin {"store", "register"}
  PROVE  /\ Early(h) /\ Own(h) = h.for /\ h.for \in Calls
         /\ record[h.for] = NoRecord /\ billing[h.for] = "none" /\ ~Recorded(h.for)
<1>1. Early(h) /\ Own(h) = h.for /\ h.for \in Calls
  BY TaskFields DEF Early, Own
<1>2. record[h.for] = NoRecord /\ billing[h.for] = "none"
  BY <1>1 DEF Handler, Unbegun
<1> QED BY <1>1, <1>2 DEF Recorded, NoRecord

\* The status is stored; a call that is over by it has had its session closed.
LEMMA WriteKeeps ==
  ASSUME TypeInv, CallsInv, NEW t \in Tasks, tasks[t] # Idle, Write(t)
  PROVE  CallsInv'
<1>p. PICK h \in Task : Handler(t, h)
  BY PickHandler
<1>0. h = tasks[t] /\ h.pc = "write" /\ Shape(h) /\ h.call \in Calls /\ Known(h) /\ Final(h)
      /\ h.snap.status = h.to /\ h.to \in Statuses
  BY <1>p, TaskFields DEF Write, At, Handler, Shape
<1>1. ~Recording(h, h.call) /\ h.pc \notin ClosingSteps \cup HoldingSteps
  BY <1>0 DEF Recording, ClosingSteps, HoldingSteps
<1>2. billing' = billing /\ phone' = phone /\ lock' = lock /\ cdr' = cdr /\ failed' = failed
  BY DEF Write
<1>3. Recorded(h.call) /\ billing[h.call] # "none"
  BY <1>0 DEF Known, KnownSteps, CallsInv, CallInv
<1>4. record'[h.call].status = h.to /\ \A d \in Calls : d # h.call => record'[d] = record[d]
  BY <1>0 DEF Write, StoreCall, TypeInv, TypeOK
<1>5. Recorded(h.call)'
  <2>1. "none" \notin Statuses
    BY DEF Statuses, Active, Terminal
  <2> QED BY <1>0, <1>4, <2>1 DEF Recorded
<1>6. Ends(h) => Accounted(h.call)
  BY <1>0, <1>3 DEF Final, PastFinal
<1> DEFINE w == [h EXCEPT !.stored = TRUE, !.role = "caller", !.pc = AfterWrite(h.to)]
<1>7. tasks' = [tasks EXCEPT ![t] = w]
  BY <1>0 DEF Write
<1>8. AfterWrite(h.to) \in {"activate", "find", "done"}
      /\ (AfterWrite(h.to) = "activate" => h.to \in {"answered", "active"})
      /\ (h.to \in Terminal => AfterWrite(h.to) = "find")
  BY DEF AfterWrite, Terminal
<1>9. w \in Task /\ w.pc = AfterWrite(h.to) /\ w.kind = h.kind /\ w.call = h.call /\ w.for = h.for
      /\ w.to = h.to /\ w.stored = TRUE /\ w.snap = h.snap
  BY ZenonT(30), <1>8 DEF Task, Steps, Roles
<1> HIDE DEF w
<1>10. Ends(w) = Ends(h) /\ Own(w) = Own(h) /\ w # Idle
  BY <1>9, TaskFields DEF Ends, Own
<1>11. Shape(w)
  BY <1>0, <1>8, <1>9, <1>10 DEF Shape, OwnSteps, PhoneSteps
<1>12. WorksOn(t, h, w)
  BY <1>1, <1>2, <1>3, <1>4, <1>5, <1>7 DEF WorksOn
<1>13. Becomes(h, w)
  <2>1. Early(w) => h.for # NoCall /\ h.pc # "store" /\ w.pc \notin {"store", "register"}
    BY <1>0, <1>8, <1>9 DEF Early, EarlySteps
  <2>2. Early(w) => /\ Early(h) /\ record'[Own(h)] = NoRecord
                    /\ billing'[Own(h)] = IF w.pc \in {"store", "register"} THEN "open" ELSE "none"
    <3>1. SUFFICES ASSUME Early(w)
                   PROVE  Early(h) /\ record'[Own(h)] = NoRecord /\ billing'[Own(h)] = "none"
      BY <2>1
    <3>2. h.for # NoCall
      BY <2>1, <3>1
    <3>3. Early(h) /\ Own(h) = h.for /\ h.for \in Calls
          /\ record[h.for] = NoRecord /\ billing[h.for] = "none" /\ ~Recorded(h.for)
      BY <1>0, <1>p, <3>2, WaitsBare
    <3>4. h.for # h.call
      BY <1>3, <3>3
    <3> QED BY <1>2, <1>4, <3>3, <3>4
  <2>3. PastFinal(w) /\ Recorded(h.call)' => Accounted(h.call)'
    BY <1>2, <1>6, <1>10 DEF PastFinal, Accounted
  <2> QED BY <1>5, <1>9, <1>8, <1>11, <2>2, <2>3 DEF Becomes
<1>14. ASSUME h.to \in Terminal PROVE Ended(h.call, h.to)'
  <2>1. Ends(h)
    BY <1>0, <1>14 DEF Shape, Terminal
  <2>2. tasks'[t] = w
    BY <1>7, <1>9, OthersSame
  <2>3. tasks'[t] # Idle /\ Recording(tasks'[t], h.call)
    BY <1>8, <1>9, <1>10, <1>14, <2>1, <2>2 DEF Recording
  <2>4. Accounted(h.call)'
    BY <1>2, <1>6, <2>1 DEF Accounted
  <2> QED BY <2>3, <2>4 DEF Ended
<1> QED BY <1>p, <1>1, <1>4, <1>9, <1>12, <1>13, <1>14, WorkKeeps

\* Where an update goes on after its billing: no end, no set-up.
LEMMA Answering ==
  ASSUME NEW t \in Tasks, NEW h \in Task, Handler(t, h), h.pc \in {"activate", "rewrite"}
  PROVE  /\ h = tasks[t] /\ Shape(h) /\ h.call \in Calls /\ h.for = NoCall /\ Recorded(h.call)
         /\ h.to \in {"answered", "active"} /\ ~Ends(h) /\ h.to \notin Terminal
         /\ ~Recording(h, h.call) /\ h.pc \notin ClosingSteps \cup HoldingSteps
<1>1. h = tasks[t] /\ Shape(h) /\ h.call \in Calls /\ Known(h)
  BY DEF Handler
<1>2. h.to \in {"answered", "active"} /\ h.to \notin Terminal
  BY <1>1 DEF Shape, Terminal
<1>3. ~Ends(h)
  BY <1>1, <1>2 DEF Shape
<1>4. h.for = NoCall /\ ~Recording(h, h.call)
  BY <1>3 DEF Ends, Recording
<1>5. Recorded(h.call) /\ h.pc \notin ClosingSteps \cup HoldingSteps
  BY <1>1 DEF Known, KnownSteps, ClosingSteps, HoldingSteps
<1> QED BY <1>1, <1>2, <1>3, <1>4, <1>5

\* The answer starts the meter of a call that has a session.
LEMMA ActivateKeeps ==
  ASSUME TypeInv, CallsInv, NEW t \in Tasks, tasks[t] # Idle, Activate(t)
  PROVE  CallsInv'
<1>p. PICK h \in Task : Handler(t, h)
  BY PickHandler
<1>a. h.pc = "activate"
  BY <1>p DEF Activate, At, Handler
<1>0. /\ h = tasks[t] /\ Shape(h) /\ h.call \in Calls /\ h.for = NoCall /\ Recorded(h.call)
      /\ h.to \in {"answered", "active"} /\ ~Ends(h) /\ h.to \notin Terminal
      /\ ~Recording(h, h.call) /\ h.pc \notin ClosingSteps \cup HoldingSteps
  BY <1>p, <1>a, Answering
<1>2. record' = record /\ phone' = phone /\ lock' = lock /\ cdr' = cdr /\ failed' = failed
  BY DEF Activate
<1>3. billing[h.call] # "none"
  BY <1>0 DEF CallsInv, CallInv
<1>4. \A d \in Calls : d # h.call => billing'[d] = billing[d]
  BY <1>0 DEF Activate, TypeInv, TypeOK
<1>5. billing'[h.call] # "none" /\ (billing[h.call] = "closed" => billing'[h.call] = "closed")
  BY <1>0, <1>3 DEF Activate, TypeInv, TypeOK
<1>6. Recorded(h.call)'
  BY <1>0, <1>2 DEF Recorded
<1>7. h.snap.status = h.to
  BY <1>a, <1>0, <1>p DEF Shape
<1>8. PICK step \in {"rewrite", "busy", "done"} : Goto(t, step)
  BY <1>0 DEF Activate, AfterBilling
<1>9. ASSUME NEW w \in Task, Passes(h, w, step), tasks' = [tasks EXCEPT ![t] = w]
      PROVE  WorksOn(t, h, w) /\ Becomes(h, w)
  <2>1. w.kind = h.kind /\ w.call = h.call /\ w.for = h.for /\ w.pc = step /\ Shape(w)
        /\ Ends(w) = Ends(h)
    BY <1>0, <1>7, <1>9, PassesOn DEF PhoneSteps, OwnSteps
  <2>2. WorksOn(t, h, w)
    BY <1>0, <1>2, <1>4, <1>5, <1>6, <1>9 DEF WorksOn
  <2>3. Becomes(h, w)
    BY <1>0, <1>6, <2>1 DEF Becomes, Early, EarlySteps, PastFinal
  <2> QED BY <2>2, <2>3
<1>10. record'[h.call].status = record[h.call].status /\ step \in Steps
  BY <1>2 DEF Steps
<1> QED BY <1>p, <1>0, <1>8, <1>9, <1>10, GotoWorks

\* The record is stored again, as it was when the answer was.
LEMMA RewriteKeeps ==
  ASSUME TypeInv, CallsInv, NEW t \in Tasks, tasks[t] # Idle, Rewrite(t)
  PROVE  CallsInv'
<1>p. PICK h \in Task : Handler(t, h)
  BY PickHandler
<1>a. h.pc = "rewrite"
  BY <1>p DEF Rewrite, At, Handler
<1>0. /\ h = tasks[t] /\ Shape(h) /\ h.call \in Calls /\ h.for = NoCall /\ Recorded(h.call)
      /\ h.to \in {"answered", "active"} /\ ~Ends(h) /\ h.to \notin Terminal
      /\ ~Recording(h, h.call) /\ h.pc \notin ClosingSteps \cup HoldingSteps
  BY <1>p, <1>a, Answering
<1>1. h.snap.status = h.to /\ h.snap \in Record
  BY <1>a, <1>0, TaskFields DEF Shape
<1>2. billing' = billing /\ phone' = phone /\ lock' = lock /\ cdr' = cdr /\ failed' = failed
  BY DEF Rewrite
<1>3. billing[h.call] # "none"
  BY <1>0 DEF CallsInv, CallInv
<1>4. record'[h.call] = [h.snap EXCEPT !.activated = TRUE]
      /\ \A d \in Calls : d # h.call => record'[d] = record[d]
  BY <1>0 DEF Rewrite, StoreCall, TypeInv, TypeOK
<1>5. record'[h.call].status = h.to
  BY <1>1, <1>4 DEF Record
<1>6. Recorded(h.call)'
  BY <1>0, <1>5 DEF Recorded
<1>8. PICK step \in {"busy", "done"} : Goto(t, step)
  BY <1>0 DEF Rewrite, AfterBilling
<1>9. ASSUME NEW w \in Task, Passes(h, w, step), tasks' = [tasks EXCEPT ![t] = w]
      PROVE  WorksOn(t, h, w) /\ Becomes(h, w)
  <2>1. w.kind = h.kind /\ w.call = h.call /\ w.for = h.for /\ w.pc = step /\ Shape(w)
        /\ Ends(w) = Ends(h)
    BY <1>0, <1>9, PassesOn DEF PhoneSteps, OwnSteps
  <2>2. WorksOn(t, h, w)
    BY <1>0, <1>2, <1>3, <1>4, <1>6, <1>9 DEF WorksOn
  <2>3. Becomes(h, w)
    BY <1>0, <1>6, <2>1 DEF Becomes, Early, EarlySteps, PastFinal
  <2> QED BY <2>2, <2>3
<1>10. step \in Steps
  BY DEF Steps
<1> QED BY <1>p, <1>0, <1>5, <1>8, <1>9, <1>10, GotoWorks

\* The session is closed, or it was tried in vain.
LEMMA FinalizeKeeps ==
  ASSUME TypeInv, CallsInv, NEW t \in Tasks, tasks[t] # Idle, Finalize(t) \/ FinalizeFails(t)
  PROVE  CallsInv'
<1>p. PICK h \in Task : Handler(t, h)
  BY PickHandler
<1>0. h = tasks[t] /\ Shape(h) /\ h.call \in Calls /\ Known(h) /\ h.pc \in {"failFinalize", "finalize"}
  BY <1>p DEF Finalize, FinalizeFails, At, Handler
<1>1. ~Recording(h, h.call) /\ h.pc \notin HoldingSteps
  BY <1>0 DEF Recording, HoldingSteps
<1>2. record' = record /\ phone' = phone /\ lock' = lock /\ cdr' = cdr
      /\ failed \subseteq failed'
  BY DEF Finalize, FinalizeFails, FailsFor
<1>4. \A d \in Calls : d # h.call => billing'[d] = billing[d]
  BY <1>0 DEF Finalize, FinalizeFails, TypeInv, TypeOK
<1>5. /\ billing'[h.call] = "none" <=> billing[h.call] = "none"
      /\ billing[h.call] = "closed" => billing'[h.call] = "closed"
      /\ billing[h.call] # "none" => Accounted(h.call)'
  BY <1>0 DEF Finalize, FinalizeFails, FailsFor, Accounted, TypeInv, TypeOK
<1>6. Recorded(h.call)' => Recorded(h.call)
  BY <1>2 DEF Recorded
<1>7. Recorded(h.call) => Recorded(h.call)' /\ Accounted(h.call)' /\ billing'[h.call] # "none"
  BY <1>0, <1>2, <1>5 DEF CallsInv, CallInv, Recorded
<1>8. h.pc = "failFinalize" => Accounted(h.call)'
  BY <1>0, <1>7 DEF Known, KnownSteps, ClosingSteps
<1>9. PICK step \in {"giveUp", "read"} :
        /\ Goto(t, step)
        /\ step = "giveUp" => h.pc = "failFinalize"
  BY <1>0 DEF Finalize, FinalizeFails, At
<1>10. ASSUME NEW w \in Task, Passes(h, w, step), tasks' = [tasks EXCEPT ![t] = w]
       PROVE  WorksOn(t, h, w) /\ Becomes(h, w)
  <2>1. w.kind = h.kind /\ w.call = h.call /\ w.for = h.for /\ w.pc = step /\ Shape(w)
        /\ Ends(w) = Ends(h)
    BY <1>0, <1>9, <1>10, PassesOn DEF PhoneSteps, OwnSteps, Shape
  <2>2. WorksOn(t, h, w)
    BY <1>0, <1>1, <1>2, <1>4, <1>5, <1>6, <1>7, <1>10 DEF WorksOn
  <2>3. Early(w) => /\ Early(h) /\ record'[Own(h)] = NoRecord
                    /\ billing'[Own(h)] = IF w.pc \in {"store", "register"} THEN "open" ELSE "none"
    <3>1. SUFFICES ASSUME Early(w)
                   PROVE  Early(h) /\ record'[Own(h)] = NoRecord /\ billing'[Own(h)] = "none"
      BY <2>1
    <3>2. h.for # NoCall
      BY <2>1, <3>1 DEF Early, EarlySteps
    <3>3. Early(h) /\ Own(h) = h.for /\ h.for \in Calls
          /\ record[h.for] = NoRecord /\ billing[h.for] = "none"
      BY <1>0, <1>p, <3>2, WaitsBare
    <3> QED BY <1>2, <1>4, <1>5, <3>3
  <2>4. PastFinal(w) /\ Recorded(h.call)' => Accounted(h.call)'
    BY <1>6, <1>7
  <2>5. Becomes(h, w)
    BY <2>1, <2>3, <2>4 DEF Becomes, KnownSteps, ClosingSteps
  <2> QED BY <2>2, <2>5
<1>11. record'[h.call].status = record[h.call].status /\ step \in Steps
  BY <1>2 DEF Steps
<1>12. h.pc \in ClosingSteps => Accounted(h.call)'
  BY <1>0, <1>8 DEF ClosingSteps
<1> QED BY <1>p, <1>1, <1>9, <1>10, <1>11, <1>12, GotoWorks

\* The old copy with the time is stored; if it tells of an end, that end has
\* been accounted for.
LEMMA MediaWriteKeeps ==
  ASSUME TypeInv, CallsInv, NEW t \in Tasks, tasks[t] # Idle, MediaWrite(t)
  PROVE  CallsInv'
<1>p. PICK h \in Task : Handler(t, h)
  BY PickHandler
<1>0. h = tasks[t] /\ Shape(h) /\ h.call \in Calls /\ Known(h) /\ h.pc = "mediaWrite" /\ Heard(h)
  BY <1>p DEF MediaWrite, At, Handler
<1>1. ~Recording(h, h.call) /\ h.pc \notin HoldingSteps /\ h.pc \notin ClosingSteps
      /\ h.snap.status # "none"
  BY <1>0 DEF Recording, HoldingSteps, ClosingSteps, Shape
<1>2. billing' = billing /\ phone' = phone /\ lock' = lock /\ cdr' = cdr /\ failed' = failed
      /\ tasks' = [tasks EXCEPT ![t] = Idle]
  BY DEF MediaWrite, Finish
<1>3. Recorded(h.call) /\ billing[h.call] # "none"
  BY <1>0 DEF Known, KnownSteps, CallsInv, CallInv
<1>4. record'[h.call] = h.snap /\ \A d \in Calls : d # h.call => record'[d] = record[d]
  BY <1>0 DEF MediaWrite, StoreCall, TypeInv, TypeOK
<1>5. Recorded(h.call)'
  BY <1>1, <1>4 DEF Recorded
<1>6. WorksOn(t, h, Idle)
  BY <1>1, <1>2, <1>3, <1>4, <1>5 DEF WorksOn
<1>7. h.snap.status \in Terminal => Ended(h.call, h.snap.status)
  BY <1>0 DEF Heard
<1>8. h.snap.status = record'[h.call].status
  BY <1>4
<1> QED BY <1>p, <1>1, <1>6, <1>7, <1>8, WorkKeeps

\* Every step of a handler at work keeps the invariant.
LEMMA WorkSettles ==
  ASSUME TypeInv, CallsInv, NEW t \in Tasks, Work(t)
  PROVE  CallsInv'
<1>0. tasks[t] # Idle
  BY DEF Work
<1>1. CASE SetUp(t)
  BY <1>0, <1>1, AcquireKeeps, HolderKeeps, QuietKeeps, DropLockKeeps, AuthorizeKeeps, StoreKeeps,
     SetUpFailsKeeps, FailReadKeeps, FailWriteKeeps, ClearKeeps, GiveUpKeeps DEF SetUp
<1>2. CASE InboundSetUp(t)
  BY <1>0, <1>2, ClaimCalleeKeeps, ClaimCalleeMetaKeeps, ReserveKeeps, RegisterKeeps, SaveKeeps,
     DropCalleeKeeps DEF InboundSetUp
<1>3. CASE MediaRead(t) \/ MediaWrite(t)
  BY <1>0, <1>3, MediaReadKeeps, MediaWriteKeeps
<1>4. CASE StatusUpdate(t)
  BY <1>0, <1>4, ReadKeeps, WriteKeeps, ActivateKeeps, RewriteKeeps, MarkBusyKeeps,
     MarkBusyMetaKeeps, DoneKeeps, RowFailsKeeps DEF StatusUpdate
<1>5. CASE TearDown(t)
  BY <1>0, <1>5, LookKeeps, ReleaseKeeps, ClearKeeps, FinalizeKeeps DEF TearDown
<1> QED BY <1>1, <1>2, <1>3, <1>4, <1>5 DEF Work

---------------------------------------------------------------------------
(* Handlers that begin *)

Quietly == record' = record /\ billing' = billing /\ lock' = lock /\ cdr' = cdr /\ failed' = failed

\* A handler that begins keeps the invariant when it joins no set-up, begins
\* one only for a user who has none, and has what its first step needs.
LEMMA BeginKeeps ==
  ASSUME TypeInv, CallsInv, NEW t \in Tasks, tasks[t] = Idle, NEW c \in Calls,
         NEW kind, NEW step, NEW to, NEW w \in Task,
         Begun(w, kind, step, c, to), tasks' = [tasks EXCEPT ![t] = w],
         Quietly, Dialed(c), Shape(w), Joins(t, w), Follows(t, w), Reaches(w)',
         step \in KnownSteps => Recorded(c), step # "mediaWrite",
         step \in EarlySteps => /\ step \notin {"store", "register"} /\ record[c] = NoRecord
                                /\ billing[c] = "none" /\ WorkOn(c) = {},
         kind = "end" => step \notin {"read", "write"}
  PROVE  CallsInv'
<1>w. w.kind = kind /\ w.pc = step /\ w.call = c /\ w.to = to /\ ~w.stored /\ w.for = NoCall
  BY DEF Begun
<1>s. tasks'[t] = w /\ \A v \in Tasks : v # t => tasks'[v] = tasks[v]
  BY OthersSame
<1>1. StepOf(t, w, c)
  BY DEF StepOf, Changes, Touches, Leaves, Quietly, Recorded
<1>2. Locks(t, w, c)
  BY DEF Locks, Quietly
<1>3. Known(w)'
  BY <1>w DEF Known, Quietly, Recorded
<1>4. Unbegun(t, w)'
  <2>1. SUFFICES ASSUME Early(w) PROVE Unbegun(t, w)'
    BY DEF Unbegun, Early
  <2>2. step \in EarlySteps /\ Own(w) = c
    BY <1>w, <2>1 DEF Early, Own
  <2>3. Alone(t, c)'
    BY <1>s, <2>2 DEF Alone, WorkOn
  <2> QED BY <1>w, <2>2, <2>3 DEF Unbegun, Quietly, Alone
<1>5. Final(w)'
  BY <1>w DEF Final, PastFinal, Ends
<1>6. Heard(w)'
  BY <1>w DEF Heard
<1>7. TaskInv(t)'
  BY <1>s, <1>3, <1>4, <1>5, <1>6 DEF TaskInv
<1> QED BY <1>1, <1>2, <1>7, StepKeeps DEF Quietly

\* Whoever is early sets up a call of the right kind.
LEMMA EarlyOnes ==
  ASSUME TypeInv, CallsInv, NEW v \in Tasks, tasks[v] # Idle, Early(tasks[v])
  PROVE  /\ Own(tasks[v]) \in Calls /\ v \in WorkOn(Own(tasks[v])) /\ Own(tasks[v]) # NoCall
         /\ record[Own(tasks[v])] = NoRecord /\ ~Recorded(Own(tasks[v]))
         /\ billing[Own(tasks[v])] \in {"none", "open"}
         /\ \/ tasks[v].kind = "initiate" /\ Own(tasks[v]) \notin phone
            \/ tasks[v].kind = "inbound" /\ Own(tasks[v]) \in phone
<1>p. PICK h \in Task : Handler(v, h)
  BY PickHandler
<1>1. h = tasks[v] /\ Shape(h) /\ Reaches(h) /\ Unbegun(v, h) /\ Early(h)
  BY <1>p DEF Handler
<1>2. Own(h) \in Calls /\ Own(h) \in {h.call, h.for} /\ Own(h) # NoCall
  BY OwnCall, SmartCallAssumption
<1>3. v \in WorkOn(Own(h))
  BY <1>1, <1>2 DEF WorkOn
<1>4. record[Own(h)] = NoRecord /\ ~Recorded(Own(h)) /\ billing[Own(h)] \in {"none", "open"}
  BY <1>1 DEF Unbegun, Recorded, NoRecord
<1>5. h.kind \in {"initiate", "inbound"}
  BY <1>1 DEF Early, Shape, EarlySteps, OwnSteps, PhoneSteps
<1> QED BY <1>1, <1>2, <1>3, <1>4, <1>5 DEF Reaches

\* An end, an update or a report begins on a call that nobody sets up.
LEMMA RequestKeeps ==
  ASSUME TypeInv, CallsInv, NEW t \in Tasks, NEW c \in Calls, NEW to \in Statuses,
         NEW kind, NEW step, <<kind, step>> \in {<<"end", "look">>, <<"status", "read">>,
                                                 <<"media", "mediaRead">>},
         Begin(t, kind, step, c, to), Quietly, phone' = phone,
         kind = "end" => to \in Terminal,
         kind # "end" => to \in {"answered", "active"},
         kind = "media" => Recorded(c),
         \A v \in Tasks : tasks[v] # Idle /\ Early(tasks[v]) => Own(tasks[v]) # c
  PROVE  CallsInv'
<1>0. /\ kind \in {"end", "status", "media"} /\ step \in {"look", "read", "mediaRead"}
      /\ (kind = "end" <=> step = "look") /\ (step = "mediaRead" => kind = "media")
  OBVIOUS
<1>1. kind \in Kinds /\ step \in Steps
  BY <1>0 DEF Kinds, Steps
<1>i. tasks[t] = Idle
  BY DEF Begin
<1>2. PICK w \in Task : Begun(w, kind, step, c, to) /\ tasks' = [tasks EXCEPT ![t] = w]
  BY <1>1, BeginBegins
<1>w. w.kind = kind /\ w.pc = step /\ w.call = c /\ w.to = to /\ ~w.stored /\ w.for = NoCall
  BY <1>2 DEF Begun
<1>3. Shape(w)
  BY <1>0, <1>w DEF Shape, OwnSteps, PhoneSteps, Ends
<1>4. Joins(t, w)
  BY <1>w, EarlyOnes DEF Joins
<1>5. Follows(t, w) /\ Reaches(w)'
  BY <1>0, <1>w DEF Follows, SetsUp, Reaches
<1>6. step \in KnownSteps => Recorded(c)
  BY <1>0 DEF KnownSteps, ClosingSteps
<1>7. step \notin EarlySteps /\ step # "mediaWrite"
  BY <1>0 DEF EarlySteps
<1>8. kind = "end" => step \notin {"read", "write"}
  BY <1>0
<1>9. Dialed(c)
  BY DEF Dialed
<1> QED BY <1>i, <1>2, <1>3, <1>4, <1>5, <1>6, <1>7, <1>8, <1>9, BeginKeeps

\* A call is placed or dialed for a user who sets up no other.
LEMMA SetUpBegins ==
  ASSUME TypeInv, CallsInv, NEW t \in Tasks, NEW c \in Calls, Untouched(c), NEW u \in Users,
         NEW kind, NEW step, <<kind, step>> \in {<<"initiate", "lock">>, <<"inbound", "claim">>},
         Begin(t, kind, step, c, "ringing"), Quietly,
         phone' = IF kind = "inbound" THEN phone \cup {c} ELSE phone,
         u = IF kind = "inbound" THEN TargetOf[c] ELSE CallerOf[c],
         ~SettingUp(u)
  PROVE  CallsInv'
<1>0. kind \in {"initiate", "inbound"} /\ step \in {"lock", "claim"} /\ (kind = "inbound" <=> step = "claim")
  OBVIOUS
<1>1. kind \in Kinds /\ step \in Steps /\ "ringing" \in Statuses
  BY <1>0 DEF Kinds, Steps, Statuses, Active
<1>c. record[c] = NoRecord /\ billing[c] = "none" /\ WorkOn(c) = {} /\ c \notin phone
  BY DEF Untouched
<1>i. tasks[t] = Idle
  BY DEF Begin
<1>2. PICK w \in Task : Begun(w, kind, step, c, "ringing") /\ tasks' = [tasks EXCEPT ![t] = w]
  BY <1>1, BeginBegins
<1>w. w.kind = kind /\ w.pc = step /\ w.call = c /\ w.to = "ringing" /\ ~w.stored /\ w.for = NoCall
  BY <1>2 DEF Begun
<1>o. Own(w) = c
  BY <1>w DEF Own
<1>3. Shape(w)
  BY <1>0, <1>w DEF Shape, OwnSteps, PhoneSteps, Ends
<1>4. Joins(t, w)
  BY <1>c, <1>w, EarlyOnes DEF Joins
<1>5. Owner(c)' = u
  BY <1>0, <1>c DEF Owner
<1>6. ASSUME NEW v \in Tasks, tasks[v] # Idle, SetsUp(tasks[v]) PROVE Owner(Own(tasks[v])) # u
  <2>1. tasks[v] \in Task
    BY <1>6, AtWork DEF TypeInv
  <2>2. Own(tasks[v]) \in Calls /\ v \in WorkOn(Own(tasks[v]))
    BY <1>6, <2>1, OwnCall DEF WorkOn
  <2> QED BY <1>6, <2>2 DEF SettingUp, SetsUp
<1>7. Follows(t, w)
  BY <1>o, <1>5, <1>6 DEF Follows
<1>8. Reaches(w)'
  BY <1>0, <1>c, <1>w, <1>o DEF Reaches
<1>9. Dialed(c)
  BY <1>c DEF Dialed
<1>10. step \notin KnownSteps /\ step \notin {"mediaWrite", "store", "register"} /\ kind # "end"
  BY <1>0 DEF KnownSteps, ClosingSteps
<1> QED BY <1>i, <1>c, <1>2, <1>3, <1>4, <1>7, <1>8, <1>9, <1>10, BeginKeeps

\* A call with a record, or with a running meter, is not being set up.
LEMMA NotSetUp ==
  ASSUME TypeInv, CallsInv, NEW c \in Calls, Recorded(c) \/ billing[c] = "metered"
  PROVE  \A v \in Tasks : tasks[v] # Idle /\ Early(tasks[v]) => Own(tasks[v]) # c
  BY EarlyOnes

\* Who is Live has a record.
LEMMA LiveRecorded == ASSUME NEW c, Live(c) PROVE Recorded(c)
  BY DEF Live, Recorded, Active

\* What begins keeps the invariant, if people do not act faster than calls are
\* set up and callees do not use the reject endpoint.
LEMMA StartsKeep ==
  ASSUME TypeInv, CallsInv, ~Hasty, ~Rejecting, NEW t \in Tasks, NEW c \in Calls, Starts(t, c)
  PROVE  CallsInv'
<1>r. Reasons \subseteq Terminal /\ Terminal \subseteq Statuses
  BY SmartCallAssumption DEF Statuses
<1>1. CASE Initiate(t, c)
  <2>1. /\ Untouched(c) /\ Begin(t, "initiate", "lock", c, "ringing") /\ Quietly /\ phone' = phone
        /\ ~SettingUp(CallerOf[c])
    BY <1>1 DEF Initiate, Quietly
  <2>2. CallerOf[c] \in Users
    BY SmartCallAssumption
  <2>3. "initiate" # "inbound"
    OBVIOUS
  <2> QED BY <2>1, <2>2, <2>3, SetUpBegins
<1>2. CASE Dial(t, c)
  <2>1. /\ Untouched(c) /\ Begin(t, "inbound", "claim", c, "ringing") /\ Quietly
        /\ phone' = phone \cup {c} /\ ~SettingUp(TargetOf[c])
    BY <1>2 DEF Dial, Quietly
  <2>2. TargetOf[c] \in Users
    BY SmartCallAssumption
  <2> QED BY <2>1, <2>2, SetUpBegins
<1>3. CASE Hear(t, c)
  <2>1. Live(c) /\ Begin(t, "media", "mediaRead", c, "active") /\ Quietly /\ phone' = phone
    BY <1>3 DEF Hear, Quietly
  <2>2. Recorded(c) /\ "active" \in Statuses
    BY <2>1, LiveRecorded DEF Statuses, Active
  <2> QED BY <2>1, <2>2, NotSetUp, RequestKeeps
<1>4. ASSUME NEW to \in Reasons, HangUp(t, c, to) PROVE CallsInv'
  <2>1. Live(c) /\ Begin(t, "end", "look", c, to) /\ Quietly /\ phone' = phone
    BY <1>4 DEF HangUp, Quietly
  <2>2. Recorded(c)
    BY <2>1, LiveRecorded
  <2> QED BY <1>r, <2>1, <2>2, NotSetUp, RequestKeeps
<1>5. ASSUME NEW to \in Reasons, PhoneEnds(t, c, to) PROVE CallsInv'
  <2>1. c \in phone /\ Begin(t, "end", "look", c, to) /\ Quietly /\ phone' = phone
        /\ \A v \in WorkOn(c) : tasks[v].kind # "inbound"
    BY <1>5 DEF PhoneEnds, Quietly
  <2>2. \A v \in Tasks : tasks[v] # Idle /\ Early(tasks[v]) => Own(tasks[v]) # c
    BY <2>1, EarlyOnes
  <2> QED BY <1>r, <2>1, <2>2, RequestKeeps
<1>6. ASSUME NEW to \in {"answered", "active", "missed"}, Update(t, c, to) PROVE CallsInv'
  <2>1. record[c] # NoRecord /\ Begin(t, "status", "read", c, to) /\ Quietly /\ phone' = phone
        /\ to \in {"answered", "active"}
    BY <1>6 DEF Update, Quietly
  <2>2. \A v \in Tasks : tasks[v] # Idle /\ Early(tasks[v]) => Own(tasks[v]) # c
    BY <2>1, EarlyOnes
  <2> QED BY <2>1, <2>2, RequestKeeps DEF Statuses, Active
<1> QED BY <1>1, <1>2, <1>3, <1>4, <1>5, <1>6 DEF Starts

\* The variables of the invariant.
LEMMA SameKeeps ==
  ASSUME CallsInv, tasks' = tasks, record' = record, billing' = billing, phone' = phone,
         lock' = lock, cdr' = cdr, failed' = failed
  PROVE  CallsInv'
<1>1. \A t \in Tasks : tasks[t] # Idle => TaskInv(t)'
  BY DEF CallsInv, TaskInv, Shape, Reaches, Known, Unbegun, Final, Heard, Early, Alone, Own, Recorded,
         PastFinal, Ends, Ended, Accounted, Rowed, Closing, Recording
<1>2. \A c \in Calls : CallInv(c)'
  BY DEF CallsInv, CallInv, Recorded, Ended, Accounted, Rowed, Closing, Recording, Ends
<1>3. \A u \in Users : LockInv(u)'
  BY DEF CallsInv, LockInv, Recorded, Owner
<1>4. OneSetUp'
  BY DEF CallsInv, OneSetUp, SetsUp, Own, Owner
<1> QED BY <1>1, <1>2, <1>3, <1>4 DEF CallsInv

\* The ends that come by themselves.
LEMMA ByItselfKeeps ==
  ASSUME TypeInv, CallsInv, NEW c \in Calls,
         Watchdog(c) \/ ProviderTimeout(c) \/ BillingEnds(c) \/ JoinOrLeave(c)
  PROVE  CallsInv'
<1>t. {"ended", "failed"} \subseteq Terminal /\ Terminal \subseteq Statuses
  BY DEF Terminal, Statuses
<1>b. ASSUME NEW t \in Tasks, NEW to \in {"ended", "failed"}, Begin(t, "end", "look", c, to),
             Quietly, phone' = phone, Recorded(c) \/ billing[c] = "metered"
      PROVE  CallsInv'
  BY <1>b, <1>t, NotSetUp, RequestKeeps
<1>1. CASE Watchdog(c)
  <2>1. Recorded(c) /\ Quietly /\ phone' = phone
    BY <1>1 DEF Watchdog, WatchdogEnds, Recorded, Quietly
  <2> QED BY <1>1, <1>b, <2>1 DEF Watchdog
<1>2. CASE ProviderTimeout(c)
  <2>1. Recorded(c) /\ Quietly /\ phone' = phone
    BY <1>2, LiveRecorded DEF ProviderTimeout, Quietly
  <2> QED BY <1>2, <1>b, <2>1 DEF ProviderTimeout
<1>3. CASE BillingEnds(c)
  <2>1. billing[c] = "metered" /\ Quietly /\ phone' = phone
    BY <1>3 DEF BillingEnds, Quietly
  <2> QED BY <1>3, <1>b, <2>1 DEF BillingEnds
<1>4. CASE JoinOrLeave(c)
  BY <1>4, SameKeeps DEF JoinOrLeave
<1> QED BY <1>1, <1>2, <1>3, <1>4

\* No step but a crash disturbs the invariant.
LEMMA SettledStep ==
  ASSUME TypeInv, Settled, ~Hasty, ~Rejecting, [Next]_vars
  PROVE  Settled'
<1>1. SUFFICES ASSUME crashes' = 0 PROVE CallsInv'
  BY DEF Settled
<1>c. crashes \in Nat
  BY SmartCallAssumption DEF TypeInv, TypeOK
<1>n. crashes' # crashes + 1
  BY <1>1, <1>c
<1>2. ASSUME NEW t \in Tasks, Work(t) PROVE CallsInv'
  <2>1. crashes' = crashes
    BY <1>2 DEF Work, SetUp, InboundSetUp, StatusUpdate, TearDown, Acquire, Holder, Quiet, DropLock,
                Authorize, Store, SetUpFails, FailRead, FailWrite, Clear, ClearMeta, GiveUp,
                ClaimCallee, ClaimCalleeMeta, Reserve, Register, Save, DropCallee, DropCalleeMeta,
                MediaRead, MediaWrite, Read, Write, Activate, Rewrite, MarkBusy, MarkBusyMeta, Done, RowFails,
                Look, Find, Free, Forget, ClearRoom, Finalize, FinalizeFails
  <2> QED BY <1>1, <1>2, <2>1, WorkSettles DEF Settled
<1>3. ASSUME NEW t \in Tasks, ReserveFails(t) \/ SaveFails(t) \/ Crash(t) PROVE CallsInv'
  BY <1>n, <1>3 DEF ReserveFails, SaveFails, Crash
<1>4. ASSUME NEW t \in Tasks, NEW c \in Calls, Starts(t, c) PROVE CallsInv'
  <2>1. crashes' = crashes
    BY <1>4 DEF Starts, Initiate, Dial, Hear, HangUp, PhoneEnds, Update
  <2> QED BY <1>1, <1>4, <2>1, StartsKeep DEF Settled
<1>5. ASSUME NEW c \in Calls, Watchdog(c) \/ ProviderTimeout(c) \/ BillingEnds(c) \/ JoinOrLeave(c)
      PROVE CallsInv'
  <2>1. crashes' = crashes
    BY <1>5 DEF Watchdog, ProviderTimeout, BillingEnds, JoinOrLeave
  <2> QED BY <1>1, <1>5, <2>1, ByItselfKeeps DEF Settled
<1>6. CASE UNCHANGED vars
  BY <1>1, <1>6, SameKeeps DEF vars, Settled
<1> QED BY <1>2, <1>3, <1>4, <1>5, <1>6 DEF Next, Starts

\* At first nobody is at work and no lock is taken.
LEMMA SettledInit == Init => Settled
<1> SUFFICES ASSUME Init PROVE CallsInv
  BY DEF Settled
<1>1. \A t \in Tasks : tasks[t] = Idle
  BY DEF Init
<1>2. \A c \in Calls : CallInv(c)
  BY DEF Init, CallInv, Recorded, NoRecord, Terminal
<1>3. \A u \in Users : LockInv(u)
  BY DEF Init, LockInv
<1>4. OneSetUp
  BY <1>1 DEF OneSetUp
<1> QED BY <1>1, <1>2, <1>3, <1>4 DEF CallsInv

\* A call that is over, with no handler at work on it, is settled: its session
\* is closed, and it is in the history unless it could not be set up; however
\* many calls, users and handlers there are, and whatever old copies of the
\* record the translator's reports store over newer ones; what failed for the
\* call itself is excepted. It takes that no
\* handler dies, that people do not act faster than calls are set up, and that
\* no callee uses the reject endpoint.
THEOREM OverIsSettled ==
  ASSUME ~Hasty, ~Rejecting
  PROVE  Spec => []SettledWhenOver
<1>1. Init => TypeInv /\ Settled
  BY TypeInit, SettledInit
<1>2. TypeInv /\ Settled /\ [Next]_vars => TypeInv' /\ Settled'
  BY TypeStep, SettledStep
<1>3. Settled => SettledWhenOver
  <2>1. SUFFICES ASSUME Settled, NEW c \in Calls, record[c].status \in Terminal, WorkOn(c) = {},
                        crashes = 0
                 PROVE  /\ <<c, "settlement">> \notin failed => billing[c] \notin {"open", "metered"}
                        /\ <<c, "row">> \notin failed => c \in cdr \/ record[c].status = "failed"
    BY DEF SettledWhenOver
  <2>2. Ended(c, record[c].status)
    BY <2>1 DEF Settled, CallsInv, CallInv
  <2>3. \A t \in Tasks : tasks[t] # Idle => tasks[t].call # c
    BY <2>1 DEF WorkOn
  <2> QED BY <2>2, <2>3 DEF Ended, Accounted, Rowed, Closing, Recording
<1> QED BY <1>1, <1>2, <1>3, PTL DEF Spec

=============================================================================
