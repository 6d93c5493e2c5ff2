------------------------------ MODULE AcdQueue ------------------------------
(***************************************************************************)
(* The wait queues of a company's support lines                              *)
(* (server/modules/calls/queue-service.ts, queue-controller.ts) and the      *)
(* presence of its agents (server/modules/enterprise-admin/routes.ts).       *)
(*                                                                         *)
(* A call that joins a queue has a row in Postgres, whose status is the truth,*)
(* and an entry in the queue's sorted set in Redis, which gives the order.   *)
(* Assignment runs, supervisors, callers who give up and the timeout sweep     *)
(* all work on both stores, one await at a time and with no lock: each such    *)
(* piece of work is a task, and a step of the model is one await of a task.   *)
(***************************************************************************)
EXTENDS Integers, FiniteSets

CONSTANTS
    Agents, Calls, Queues,
    QueueOf,          \* the queue each call joins
    Skilled,          \* pairs <<agent, call>>: the agent has the skills required
    MaxQueueSize,     \* of every queue
    Forwarding,       \* afterQueueAction is "forward", to a user of the app
    Tasks,            \* bound: pieces of work under way at once
    MaxUpdates,       \* bound: presence updates
    MaxSupervisions,  \* bound: assignments made by hand
    MaxHangUps,       \* bound: calls ended by other means than the queue
    MaxToggles,       \* bound: activations and deactivations of a queue
    MaxCrashes        \* bound: tasks and joins that die half way

VARIABLES
    row,        \* queued_calls: status and assignedAgentUserId
    line,       \* the calls in the queues' sorted sets in Redis
    ticket,     \* the score of a call in its sorted set: the order of arrival
    joiner,     \* where the join of each call is
    live,       \* external: the call is not over
    late,       \* the call has waited for longer than maxWaitSeconds
    presence,   \* agent_presence: status and currentCallId
    active,     \* call_queues.isActive
    tasks,      \* the work under way
    handed,     \* history: the calls each agent was sent, with a token to join
    count       \* history: how often each of the bounded things happened

vars == <<row, line, ticket, joiner, live, late, presence, active, tasks, handed, count>>

NoAgent == "nobody"
NoCall == "no call"
Idle == [kind |-> "idle"]

Statuses == {"none", "waiting", "assigned", "abandoned", "timed_out"}
Kinds == {"assign", "supervise", "abandon", "sweep"}
Steps == {"claim", "scan", "take", "remove", "read", "room", "mark", "busy", "notify",
          "release", "close", "end"}
Task == [kind : Kinds, pc : Steps, agent : Agents \cup {NoAgent},
         call : Calls \cup {NoCall},
         queues : SUBSET Queues,    \* the queues still to be searched
         list : SUBSET Calls]       \* the calls read, still to be worked on

ASSUME AcdAssumption ==
    /\ QueueOf \in [Calls -> Queues]
    /\ Skilled \subseteq Agents \X Calls
    /\ MaxQueueSize \in Nat /\ Forwarding \in BOOLEAN
    /\ NoCall \notin Calls /\ NoAgent \notin Agents
    /\ IsFiniteSet(Tasks)
    /\ MaxUpdates \in Nat /\ MaxSupervisions \in Nat
    /\ MaxHangUps \in Nat /\ MaxToggles \in Nat /\ MaxCrashes \in Nat

Init ==
    /\ row = [c \in Calls |-> [status |-> "none", agent |-> NoAgent]]
    /\ line = {}
    /\ ticket = [c \in Calls |-> 0]
    /\ joiner = [c \in Calls |-> "out"]
    /\ live = [c \in Calls |-> FALSE]
    /\ late = [c \in Calls |-> FALSE]
    /\ presence = [a \in Agents |-> [status |-> "offline", call |-> NoCall]]
    /\ active = [q \in Queues |-> TRUE]
    /\ tasks = [t \in Tasks |-> Idle]
    /\ handed = [a \in Agents |-> {}]
    /\ count = [updates |-> [a \in Agents |-> 0], supervisions |-> 0, hangups |-> 0,
                toggles |-> 0, crashes |-> 0]

Busy(t) == tasks[t] # Idle
At(t, step) == Busy(t) /\ tasks[t].pc = step
Waiting(c) == row[c].status = "waiting"
InQueue(q) == {c \in line : QueueOf[c] = q}

Begin(t, task) == ~Busy(t) /\ tasks' = [tasks EXCEPT ![t] = task]
Finish(t) == tasks' = [tasks EXCEPT ![t] = Idle]
Goto(t, step) == tasks' = [tasks EXCEPT ![t].pc = step]

---------------------------------------------------------------------------
(* joinQueue and enqueueCall *)

\* The room is made, the queue is read and its size checked; the arrival time
\* is taken before anything is written.
JoinCheck(c) ==
    /\ joiner[c] = "out"
    /\ live' = [live EXCEPT ![c] = TRUE]
    /\ IF active[QueueOf[c]] /\ Cardinality(InQueue(QueueOf[c])) < MaxQueueSize
       THEN /\ joiner' = [joiner EXCEPT ![c] = "insert"]
            /\ ticket' = [ticket EXCEPT ![c] =
                   1 + Cardinality({d \in Calls : ticket[d] > 0})]
       ELSE /\ joiner' = [joiner EXCEPT ![c] = "reject"]
            /\ UNCHANGED ticket
    /\ UNCHANGED <<row, line, late, presence, active, tasks, handed, count>>

\* A full or inactive queue: the room is torn down.
JoinReject(c) ==
    /\ joiner[c] = "reject"
    /\ joiner' = [joiner EXCEPT ![c] = "done"]
    /\ live' = [live EXCEPT ![c] = FALSE]
    /\ UNCHANGED <<row, line, ticket, late, presence, active, tasks, handed, count>>

JoinInsert(c) ==
    /\ joiner[c] = "insert"
    /\ joiner' = [joiner EXCEPT ![c] = "add"]
    /\ row' = [row EXCEPT ![c].status = "waiting"]
    /\ UNCHANGED <<line, ticket, live, late, presence, active, tasks, handed, count>>

JoinAdd(c) ==
    /\ joiner[c] = "add"
    /\ joiner' = [joiner EXCEPT ![c] = "done"]
    /\ line' = line \cup {c}
    /\ UNCHANGED <<row, ticket, live, late, presence, active, tasks, handed, count>>

---------------------------------------------------------------------------
(* updateMyPresence and tryAssignQueuedCallToAgent *)

\* An agent reports a status; "available" starts an assignment run. "away"
\* stands for every other status but "busy", which agents leave to the queues.
SetPresence(a, status) ==
    /\ count.updates[a] < MaxUpdates
    /\ presence' = [presence EXCEPT ![a].status = status]
    /\ IF status = "available"
       THEN /\ \E t \in Tasks :
                 Begin(t, [kind |-> "assign", pc |-> "claim", agent |-> a,
                           call |-> NoCall, queues |-> {}, list |-> {}])
            /\ count' = [count EXCEPT !.updates[a] = @ + 1]
       ELSE UNCHANGED <<tasks, count>>
    /\ UNCHANGED <<row, line, ticket, joiner, live, late, active, handed>>

\* The claim, which only an available agent's run wins; then the agent's
\* skills and the active queues are read.
Claim(t) ==
    LET a == tasks[t].agent
    IN  /\ At(t, "claim")
        /\ IF presence[a].status = "available"
           THEN /\ presence' = [presence EXCEPT ![a].status = "busy"]
                /\ tasks' = [tasks EXCEPT ![t] =
                       [tasks[t] EXCEPT !.pc = "scan", !.queues = {q \in Queues : active[q]}]]
           ELSE Finish(t) /\ UNCHANGED presence
        /\ UNCHANGED <<row, line, ticket, joiner, live, late, active, handed, count>>

\* dequeueOldestMatchingCall reads the next queue's line; with no queue left
\* the claim is given back.
Scan(t) ==
    /\ At(t, "scan")
    /\ IF tasks[t].queues = {} THEN Goto(t, "release")
       ELSE \E q \in tasks[t].queues :
              LET list == {c \in InQueue(q) : <<tasks[t].agent, c>> \in Skilled}
              IN  tasks' = [tasks EXCEPT ![t] =
                     [tasks[t] EXCEPT !.queues = @ \ {q}, !.list = list,
                                      !.pc = IF list = {} THEN "scan" ELSE "take"]]
    /\ UNCHANGED <<row, line, ticket, joiner, live, late, presence, active, handed, count>>

Oldest(set) == CHOOSE c \in set : \A d \in set : ticket[c] <= ticket[d]

\* The oldest call of the list, if this run is the one to remove it.
Take(t) ==
    LET c    == Oldest(tasks[t].list)
        rest == tasks[t].list \ {c}
    IN  /\ At(t, "take")
        /\ line' = line \ {c}
        /\ tasks' = [tasks EXCEPT ![t] =
               IF c \in line
               THEN [tasks[t] EXCEPT !.list = {}, !.pc = "read", !.call = c]
               ELSE [tasks[t] EXCEPT !.list = rest,
                                     !.pc = IF rest = {} THEN "scan" ELSE "take"]]
        /\ UNCHANGED <<row, ticket, joiner, live, late, presence, active, handed, count>>

\* A mutant: the claim is kept.
Release_ClaimKept(t) ==
    /\ At(t, "release")
    /\ Finish(t)
    /\ UNCHANGED <<row, line, ticket, joiner, live, late, presence, active, handed, count>>

\* Nothing was found: whoever made the agent busy, the agent is available.
Release(t) ==
    LET a == tasks[t].agent
    IN  /\ At(t, "release")
        /\ presence' = IF presence[a].status = "busy"
                       THEN [presence EXCEPT ![a].status = "available"] ELSE presence
        /\ Finish(t)
        /\ UNCHANGED <<row, line, ticket, joiner, live, late, active, handed, count>>

---------------------------------------------------------------------------
(* assignCallToAgent, called by the run and by assignQueuedCallToAgent *)

\* The assignment failed: the run goes on to its next queue.
GiveUp(t) == IF tasks[t].kind = "assign" THEN Goto(t, "scan") ELSE Finish(t)

ReadRow(t) ==
    /\ At(t, "read")
    /\ IF Waiting(tasks[t].call) THEN Goto(t, "room") ELSE GiveUp(t)
    /\ UNCHANGED <<row, line, ticket, joiner, live, late, presence, active, handed, count>>

\* getSmartCall finds the record of the call, ended or not.
RoomFound(t) ==
    /\ At(t, "room")
    /\ Goto(t, "mark")
    /\ UNCHANGED <<row, line, ticket, joiner, live, late, presence, active, handed, count>>

\* Redis does not answer: getSmartCall returns null and the entry is closed.
RoomLost(t) ==
    /\ At(t, "room") /\ count.crashes < MaxCrashes
    /\ row' = [row EXCEPT ![tasks[t].call].status = "timed_out"]
    /\ count' = [count EXCEPT !.crashes = @ + 1]
    /\ GiveUp(t)
    /\ UNCHANGED <<line, ticket, joiner, live, late, presence, active, handed>>

\* A mutant: the update does not ask that the row is still waiting.
Mark_Unconditional(t) ==
    LET c == tasks[t].call
    IN  /\ At(t, "mark")
        /\ row' = [row EXCEPT ![c] = [status |-> "assigned", agent |-> tasks[t].agent]]
        /\ Goto(t, "busy")
        /\ UNCHANGED <<line, ticket, joiner, live, late, presence, active, handed, count>>

\* The conditional update that makes the call the agent's.
Mark(t) ==
    LET c == tasks[t].call
    IN  /\ At(t, "mark")
        /\ IF Waiting(c)
           THEN /\ row' = [row EXCEPT ![c] = [status |-> "assigned",
                                              agent |-> tasks[t].agent]]
                /\ Goto(t, "busy")
           ELSE GiveUp(t) /\ UNCHANGED row
        /\ UNCHANGED <<line, ticket, joiner, live, late, presence, active, handed, count>>

SetBusy(t) ==
    /\ At(t, "busy")
    /\ presence' = [presence EXCEPT ![tasks[t].agent] =
                        [status |-> "busy", call |-> tasks[t].call]]
    /\ Goto(t, "notify")
    /\ UNCHANGED <<row, line, ticket, joiner, live, late, active, handed, count>>

\* A mutant: the run goes on after a call was handed over.
Notify_RunGoesOn(t) ==
    /\ At(t, "notify")
    /\ handed' = [handed EXCEPT ![tasks[t].agent] = @ \cup {tasks[t].call}]
    /\ IF tasks[t].kind = "assign" THEN Goto(t, "scan") ELSE Finish(t)
    /\ UNCHANGED <<row, line, ticket, joiner, live, late, presence, active, count>>

\* queueIncomingCall sends the agent a token to join the room.
Notify(t) ==
    /\ At(t, "notify")
    /\ handed' = [handed EXCEPT ![tasks[t].agent] = @ \cup {tasks[t].call}]
    /\ Finish(t)
    /\ UNCHANGED <<row, line, ticket, joiner, live, late, presence, active, count>>

---------------------------------------------------------------------------
(* The work that begins with a waiting row: assignQueuedCallToAgent,         *)
(* abandonQueuedCall and sweepTimedOutQueueEntries                            *)

WorkOn(t, kind, c, a, list) ==
    Begin(t, [kind |-> kind, pc |-> "remove", agent |-> a, call |-> c,
              queues |-> {}, list |-> list])

\* A supervisor gives the call to an agent, whatever the agent is doing.
Supervise(t, c, a) ==
    /\ Waiting(c) /\ count.supervisions < MaxSupervisions
    /\ WorkOn(t, "supervise", c, a, {})
    /\ count' = [count EXCEPT !.supervisions = @ + 1]
    /\ UNCHANGED <<row, line, ticket, joiner, live, late, presence, active, handed>>

\* The caller gives up.
Abandon(t, c) ==
    /\ Waiting(c)
    /\ WorkOn(t, "abandon", c, NoAgent, {})
    /\ UNCHANGED <<row, line, ticket, joiner, live, late, presence, active, handed, count>>

Expired(q) == {c \in Calls : QueueOf[c] = q /\ Waiting(c) /\ late[c]}

\* The sweep of an active queue reads its expired entries, then closes each.
Sweep(t, q) ==
    /\ active[q]
    /\ \E c \in Expired(q) : WorkOn(t, "sweep", c, NoAgent, Expired(q) \ {c})
    /\ UNCHANGED <<row, line, ticket, joiner, live, late, presence, active, handed, count>>

\* removeFromRedisByCallId
RemoveEntry(t) ==
    /\ At(t, "remove")
    /\ line' = line \ {tasks[t].call}
    /\ Goto(t, IF tasks[t].kind = "supervise" THEN "read" ELSE "close")
    /\ UNCHANGED <<row, ticket, joiner, live, late, presence, active, handed, count>>

\* A mutant: the row is left as it is.
Close_RowKept(t) ==
    /\ At(t, "close")
    /\ Goto(t, "end")
    /\ UNCHANGED <<row, line, ticket, joiner, live, late, presence, active, handed, count>>

\* The update of the row, by its id alone.
Close(t) ==
    /\ At(t, "close")
    /\ row' = [row EXCEPT ![tasks[t].call].status =
                   IF tasks[t].kind = "sweep" THEN "timed_out" ELSE "abandoned"]
    /\ Goto(t, "end")
    /\ UNCHANGED <<line, ticket, joiner, live, late, presence, active, handed, count>>

NextEntry(t) ==
    IF tasks[t].list = {} THEN Finish(t)
    ELSE \E c \in tasks[t].list :
           tasks' = [tasks EXCEPT ![t] =
                      [tasks[t] EXCEPT !.call = c, !.list = @ \ {c}, !.pc = "remove"]]

\* A mutant: the call is not ended.
End_CallKept(t) ==
    /\ At(t, "end")
    /\ NextEntry(t)
    /\ UNCHANGED <<row, line, ticket, joiner, live, late, presence, active, handed, count>>

\* To forward a call is to start a second one for the same caller before the
\* first is ended. While the caller is in the room of the first, that one holds
\* the caller's lock, initiateCall throws, and the error is caught and logged.
ForwardRefused(t) == Forwarding /\ tasks[t].kind = "sweep" /\ live[tasks[t].call]

\* applyAfterQueueAction, or the handler of abandon, ends the call; a caller
\* found to have left the room does not keep the lock.
End(t) ==
    LET ended == [live EXCEPT ![tasks[t].call] = FALSE]
    IN  /\ At(t, "end")
        /\ live' \in IF ForwardRefused(t) THEN {live, ended} ELSE {ended}
        /\ NextEntry(t)
        /\ UNCHANGED <<row, line, ticket, joiner, late, presence, active, handed, count>>

---------------------------------------------------------------------------
(* The surroundings *)

\* The caller has waited for maxWaitSeconds.
Age(c) ==
    /\ Waiting(c) /\ ~late[c]
    /\ late' = [late EXCEPT ![c] = TRUE]
    /\ UNCHANGED <<row, line, ticket, joiner, live, presence, active, tasks, handed, count>>

\* The call ends by other means than the queue: the caller or the agent hangs up.
HangUp(c) ==
    /\ live[c] /\ joiner[c] = "done" /\ count.hangups < MaxHangUps
    /\ live' = [live EXCEPT ![c] = FALSE]
    /\ count' = [count EXCEPT !.hangups = @ + 1]
    /\ UNCHANGED <<row, line, ticket, joiner, late, presence, active, tasks, handed>>

\* updateCallQueue
SetActive(q) ==
    /\ count.toggles < MaxToggles
    /\ active' = [active EXCEPT ![q] = ~@]
    /\ count' = [count EXCEPT !.toggles = @ + 1]
    /\ UNCHANGED <<row, line, ticket, joiner, live, late, presence, tasks, handed>>

\* The instance dies, or an await of the task or of the join rejects.
Crash ==
    /\ count.crashes < MaxCrashes
    /\ \/ \E t \in Tasks : Busy(t) /\ Finish(t) /\ UNCHANGED joiner
       \/ \E c \in Calls : /\ joiner[c] \in {"insert", "add", "reject"}
                           /\ joiner' = [joiner EXCEPT ![c] = "done"]
                           /\ UNCHANGED tasks
    /\ count' = [count EXCEPT !.crashes = @ + 1]
    /\ UNCHANGED <<row, line, ticket, live, late, presence, active, handed>>

---------------------------------------------------------------------------
Join(c) == JoinCheck(c) \/ JoinReject(c) \/ JoinInsert(c) \/ JoinAdd(c)

Work(t) ==
    \/ Claim(t) \/ Scan(t) \/ Take(t) \/ Release(t)
    \/ ReadRow(t) \/ RoomFound(t) \/ Mark(t) \/ SetBusy(t) \/ Notify(t)
    \/ RemoveEntry(t) \/ Close(t) \/ End(t)

Next ==
    \/ \E c \in Calls : Join(c) \/ Age(c) \/ HangUp(c)
    \/ \E a \in Agents, status \in {"available", "away"} : SetPresence(a, status)
    \/ \E t \in Tasks :
         \/ Work(t) \/ RoomLost(t)
         \/ \E c \in Calls, a \in Agents : Supervise(t, c, a)
         \/ \E c \in Calls : Abandon(t, c)
         \/ \E q \in Queues : Sweep(t, q)
    \/ \E q \in Queues : SetActive(q)
    \/ Crash

Spec == Init /\ [][Next]_vars

\* A task or a join that began goes on, time passes, and the sweep runs every
\* 30 seconds (startAcdQueueTimeoutScheduler), in its own timer: it never
\* waits for other work.
Fairness ==
    /\ \A t \in Tasks : WF_vars(Work(t))
    /\ \A c \in Calls : WF_vars(JoinReject(c) \/ JoinInsert(c) \/ JoinAdd(c))
    /\ \A c \in Calls : WF_vars(Age(c))
    /\ \A q \in Queues : WF_vars(\E t \in Tasks : Sweep(t, q))

FairSpec == Spec /\ Fairness

---------------------------------------------------------------------------
(* Properties *)

TypeOK ==
    /\ row \in [Calls -> [status : Statuses, agent : Agents \cup {NoAgent}]]
    /\ line \subseteq Calls
    /\ ticket \in [Calls -> 0..Cardinality(Calls)]
    /\ joiner \in [Calls -> {"out", "reject", "insert", "add", "done"}]
    /\ live \in [Calls -> BOOLEAN] /\ late \in [Calls -> BOOLEAN]
    /\ presence \in [Agents -> [status : {"offline", "available", "busy", "away"},
                                call : Calls \cup {NoCall}]]
    /\ active \in [Queues -> BOOLEAN]
    /\ tasks \in [Tasks -> Task \cup {Idle}]
    /\ handed \in [Agents -> SUBSET Calls]
    /\ count \in [updates : [Agents -> Nat], supervisions : Nat, hangups : Nat,
                  toggles : Nat, crashes : Nat]

\* A call handed to an agent is that agent's in the row, for good: however
\* runs and supervisors race, no call is handed to two agents (the conditional
\* update of assignCallToAgent).
HandedCallsRecorded ==
    \A a \in Agents : \A c \in handed[a] : row[c].agent = a

\* The runs of an agent that hold a claim on it.
Claims(a) == {t \in Tasks : /\ Busy(t) /\ tasks[t].kind = "assign"
                            /\ tasks[t].agent = a /\ tasks[t].pc # "claim"}

\* Reporting "available" once brings an agent at most one call from the
\* queues, counting the runs that may still bring one; the other calls an
\* agent has were given to it by hand. A report that is repeated does bring a
\* second call, because it overwrites the "busy" of the first (updateMyPresence).
OneCallPerAvailability ==
    \A a \in Agents : Cardinality(handed[a]) + Cardinality(Claims(a))
                        <= count.updates[a] + count.supervisions

\* A waiting call is in line, about to be, or being worked on: Redis and
\* Postgres never disagree so that nobody would find the call.
NoLostWaiter ==
    \A c \in Calls : Waiting(c) =>
        \/ c \in line \/ joiner[c] = "add"
        \/ \E t \in Tasks : Busy(t) /\ tasks[t].call = c

\* An agent made busy by a claim has a call, or a run that will bring one or
\* give the claim back (tryAssignQueuedCallToAgent releases what it claimed).
NoStuckClaim ==
    \A a \in Agents :
        presence[a].status = "busy" =>
            presence[a].call # NoCall \/ Claims(a) # {}

\* A waiting call does not wait for ever: it is assigned, abandoned or timed
\* out, whatever died on the way, unless its queue was switched off.
WaitingCallsResolve ==
    \A c \in Calls : Waiting(c) ~> (~Waiting(c) \/ ~active[QueueOf[c]])

\* A call whose entry was closed is ended, unless an instance died or Redis
\* failed on the way: no caller stays in a room nobody will join
\* (applyAfterQueueAction, abandon).
ClosedCallsEnd ==
    \A c \in Calls : row[c].status \in {"abandoned", "timed_out"}
                        ~> (~live[c] \/ count.crashes > 0)
=============================================================================
