----------------------------- MODULE AcdProofs -----------------------------
(***************************************************************************)
(* What TLAPS proves of the wait queues, for any number of agents, calls,    *)
(* queues and pieces of work: a call is handed to one agent; and, while      *)
(* nothing dies half way, no waiting call is lost between Postgres and       *)
(* Redis, and no agent stays claimed for nothing.  Reporting "available" once *)
(* brings an agent at most one call, whatever dies.                           *)
(***************************************************************************)
EXTENDS AcdQueue, FiniteSetTheorems, TLAPS

---------------------------------------------------------------------------
(* What becomes of a task *)

LEMMA IdleIsNoTask == \A w \in Task : w # Idle
BY DEF Task, Idle

\* The task t becomes w.
Becomes(t, w) == tasks' = [tasks EXCEPT ![t] = w]

LEMMA Writing ==
    ASSUME NEW u \in Task, NEW pc \in Steps
    PROVE  LET w == [u EXCEPT !.pc = pc]
           IN  /\ w \in Task /\ w.pc = pc /\ w.kind = u.kind /\ w.agent = u.agent
               /\ w.call = u.call /\ w.list = u.list
BY DEF Task

LEMMA Going ==
    ASSUME NEW t \in Tasks, tasks[t] \in Task, NEW pc \in Steps, Goto(t, pc)
    PROVE  \E w \in Task :
               /\ Becomes(t, w) /\ w.pc = pc /\ w.kind = tasks[t].kind
               /\ w.agent = tasks[t].agent /\ w.call = tasks[t].call /\ w.list = tasks[t].list
<1> DEFINE w == [tasks[t] EXCEPT !.pc = pc]
<1>1. /\ w \in Task /\ w.pc = pc /\ w.kind = tasks[t].kind /\ w.agent = tasks[t].agent
      /\ w.call = tasks[t].call /\ w.list = tasks[t].list
  BY Writing
<1>2. tasks' = [tasks EXCEPT ![t] = w]
  BY DEF Goto
<1> HIDE DEF w
<1> QED BY <1>1, <1>2 DEF Becomes

LEMMA GivingUp ==
    ASSUME NEW t \in Tasks, tasks[t] \in Task, GiveUp(t)
    PROVE  \/ Becomes(t, Idle) /\ tasks[t].kind # "assign"
           \/ \E w \in Task :
                 /\ Becomes(t, w) /\ w.pc = "scan" /\ w.kind = "assign"
                 /\ w.agent = tasks[t].agent /\ w.call = tasks[t].call
                 /\ w.list = tasks[t].list
<1>1. CASE tasks[t].kind = "assign"
  <2>1. Goto(t, "scan") /\ "scan" \in Steps
    BY <1>1 DEF GiveUp, Steps
  <2> QED BY <1>1, <2>1, Going
<1>2. CASE tasks[t].kind # "assign"
  BY <1>2 DEF GiveUp, Finish, Becomes
<1> QED BY <1>1, <1>2

LEMMA Claiming ==
    ASSUME NEW u \in Task, NEW queues \in SUBSET Queues
    PROVE  LET w == [u EXCEPT !.pc = "scan", !.queues = queues]
           IN  /\ w \in Task /\ w.pc = "scan" /\ w.kind = u.kind /\ w.agent = u.agent
               /\ w.call = u.call /\ w.list = u.list
BY DEF Task, Steps

LEMMA Taking ==
    ASSUME NEW u \in Task, NEW c \in Calls
    PROVE  LET w == [u EXCEPT !.list = {}, !.pc = "read", !.call = c]
           IN  /\ w \in Task /\ w.pc = "read" /\ w.kind = u.kind /\ w.agent = u.agent
               /\ w.call = c /\ w.list = {}
BY DEF Task, Steps

LEMMA Proceeding ==
    ASSUME NEW u \in Task, NEW c \in u.list
    PROVE  /\ c \in Calls
           /\ LET w == [u EXCEPT !.call = c, !.list = @ \ {c}, !.pc = "remove"]
              IN  /\ w \in Task /\ w.pc = "remove" /\ w.kind = u.kind
                  /\ w.agent = u.agent /\ w.call = c /\ w.list = u.list \ {c}
<1>1. c \in Calls /\ u.list \ {c} \in SUBSET Calls
  BY DEF Task
<1> QED BY <1>1 DEF Task, Steps

---------------------------------------------------------------------------
(* The inductive invariant *)

Counts == [updates : [Agents -> Nat], supervisions : Nat, hangups : Nat, toggles : Nat,
           crashes : Nat]

Typed ==
    /\ row \in [Calls -> [status : Statuses, agent : Agents \cup {NoAgent}]]
    /\ line \subseteq Calls
    /\ joiner \in [Calls -> {"out", "reject", "insert", "add", "done"}]
    /\ presence \in [Agents -> [status : {"offline", "available", "busy", "away"},
                                call : Calls \cup {NoCall}]]
    /\ tasks \in [Tasks -> Task \cup {Idle}]
    /\ handed \in [Agents -> SUBSET Calls]
    /\ count \in Counts

\* The row of the call was inserted, or the join died before that.
Joined(c) == joiner[c] \in {"add", "done"}
Settled(c) == row[c].status \notin {"none", "waiting"}

\* A task works on calls that joined, and between the update of the row and
\* the message to the agent the row names its agent.
TaskOK(u) ==
    /\ u.pc = "claim" => u.kind = "assign"
    /\ u.pc \in {"remove", "close", "end"} => u.kind # "assign"
    /\ u.pc \in {"read", "room", "mark", "busy", "notify", "remove", "close", "end"} =>
         u.call \in Calls
    /\ u.call \in Calls => Joined(u.call)
    /\ \A c \in u.list : Joined(c)
    /\ u.pc \in {"busy", "notify"} => Settled(u.call) /\ row[u.call].agent = u.agent

QueueInv ==
    /\ Typed
    /\ \A c \in Calls : ~Joined(c) => row[c].status = "none" /\ c \notin line
    /\ \A t \in Tasks : Busy(t) => TaskOK(tasks[t])
    /\ \A a \in Agents : \A c \in handed[a] : Settled(c) /\ row[c].agent = a

\* No row is taken back from where it was.
RowsOnward ==
    \A c \in Calls :
        /\ Joined(c) => Joined(c)'
        /\ ~Joined(c)' => row'[c].status = "none" /\ c \notin line'
        /\ Settled(c) => Settled(c)' /\ row'[c].agent = row[c].agent
        /\ (Joined(c) /\ ~Waiting(c)) => ~Waiting(c)'

LEMMA RowsSame ==
    ASSUME QueueInv, row' = row, joiner' = joiner, line' \subseteq line
    PROVE  RowsOnward
BY DEF QueueInv, RowsOnward, Joined, Settled, Waiting

\* The row of a call that joined is settled.
LEMMA RowSettles ==
    ASSUME QueueInv, NEW c \in Calls, Joined(c),
           NEW new \in [status : Statuses, agent : Agents \cup {NoAgent}],
           new.status \notin {"none", "waiting"}, Settled(c) => new.agent = row[c].agent,
           row' = [row EXCEPT ![c] = new], joiner' = joiner, line' = line
    PROVE  /\ row' \in [Calls -> [status : Statuses, agent : Agents \cup {NoAgent}]]
           /\ RowsOnward /\ row'[c] = new
<1>1. row \in [Calls -> [status : Statuses, agent : Agents \cup {NoAgent}]]
  BY DEF QueueInv, Typed
<1>2. /\ row' \in [Calls -> [status : Statuses, agent : Agents \cup {NoAgent}]]
      /\ row'[c] = new /\ \A d \in Calls : d # c => row'[d] = row[d]
  BY <1>1
<1>3. RowsOnward
  BY <1>2 DEF QueueInv, RowsOnward, Joined, Settled, Waiting
<1> QED BY <1>2, <1>3

LEMMA StatusSet ==
    ASSUME NEW r \in [status : Statuses, agent : Agents \cup {NoAgent}],
           NEW status \in Statuses
    PROVE  LET new == [r EXCEPT !.status = status]
           IN  /\ new \in [status : Statuses, agent : Agents \cup {NoAgent}]
               /\ new.status = status /\ new.agent = r.agent
OBVIOUS

LEMMA HandedKept ==
    ASSUME QueueInv, RowsOnward, NEW a \in Agents, NEW c \in handed[a]
    PROVE  Settled(c)' /\ row'[c].agent = a
<1>1. c \in Calls
  BY DEF QueueInv, Typed
<1> QED BY <1>1 DEF QueueInv, RowsOnward

\* The task t becomes w, idle or not.
LEMMA QueueKept ==
    ASSUME QueueInv, RowsOnward, Typed', NEW t \in Tasks, NEW w, Becomes(t, w),
           w # Idle =>
              /\ w.pc = "claim" => w.kind = "assign"
              /\ w.pc \in {"remove", "close", "end"} => w.kind # "assign"
              /\ w.pc \in {"read", "room", "mark", "busy", "notify", "remove", "close", "end"}
                    => w.call \in Calls
              /\ w.call \in Calls => Joined(w.call) \/ joiner'[w.call] \in {"add", "done"}
              /\ \A c \in w.list : c \in Calls /\ Joined(c)
              /\ w.pc \in {"busy", "notify"} =>
                    /\ row'[w.call].status \notin {"none", "waiting"}
                    /\ row'[w.call].agent = w.agent,
           \A a \in Agents : \A c \in handed'[a] :
              c \in handed[a] \/ (/\ row'[c].status \notin {"none", "waiting"}
                                  /\ row'[c].agent = a)
    PROVE  QueueInv'
<1>1. tasks'[t] = w /\ \A u \in Tasks : u # t => tasks'[u] = tasks[u]
  BY DEF Becomes, QueueInv, Typed
<1>2. \A c \in Calls : ~Joined(c)' => row'[c].status = "none" /\ c \notin line'
  BY DEF RowsOnward
<1>3. ASSUME NEW u \in Tasks, Busy(u)'
      PROVE  TaskOK(tasks[u])'
  <2>1. CASE u = t
    <3>1. tasks'[u] = w /\ w # Idle
      BY <1>1, <1>3, <2>1 DEF Busy
    <3> QED BY <3>1 DEF TaskOK, Joined, Settled, RowsOnward
  <2>2. CASE u # t
    <3>1. tasks'[u] = tasks[u] /\ TaskOK(tasks[u]) /\ tasks[u] \in Task
      BY <1>1, <1>3, <2>2 DEF Busy, QueueInv, Typed
    <3>2. tasks[u].list \subseteq Calls
      BY <3>1 DEF Task
    <3>3. /\ tasks[u].call \in Calls => Joined(tasks[u].call)'
          /\ \A c \in tasks[u].list : Joined(c)'
      BY <3>1, <3>2 DEF TaskOK, RowsOnward, Joined
    <3>4. tasks[u].pc \in {"busy", "notify"} =>
            /\ row'[tasks[u].call].status \notin {"none", "waiting"}
            /\ row'[tasks[u].call].agent = tasks[u].agent
      BY <3>1 DEF TaskOK, RowsOnward, Settled
    <3> QED BY <3>1, <3>3, <3>4 DEF TaskOK, Joined, Settled
  <2> QED BY <2>1, <2>2
<1>4. ASSUME NEW a \in Agents, NEW c \in handed'[a]
      PROVE  Settled(c)' /\ row'[c].agent = a
  BY <1>4, HandedKept DEF Settled
<1> QED BY <1>2, <1>3, <1>4 DEF QueueInv

\* No task moves and no call is handed over.
LEMMA QueueStays ==
    ASSUME QueueInv, RowsOnward, Typed', UNCHANGED <<tasks, handed>>
    PROVE  QueueInv'
<1>1. \A c \in Calls : ~Joined(c)' => row'[c].status = "none" /\ c \notin line'
  BY DEF RowsOnward
<1>2. ASSUME NEW u \in Tasks, Busy(u)'
      PROVE  TaskOK(tasks[u])'
  <2>1. tasks'[u] = tasks[u] /\ TaskOK(tasks[u]) /\ tasks[u] \in Task
    BY <1>2 DEF Busy, QueueInv, Typed
  <2>2. tasks[u].list \subseteq Calls
    BY <2>1 DEF Task
  <2>3. /\ tasks[u].call \in Calls => Joined(tasks[u].call)'
        /\ \A c \in tasks[u].list : Joined(c)'
    BY <2>1, <2>2 DEF TaskOK, RowsOnward, Joined
  <2>4. tasks[u].pc \in {"busy", "notify"} =>
          /\ row'[tasks[u].call].status \notin {"none", "waiting"}
          /\ row'[tasks[u].call].agent = tasks[u].agent
    BY <2>1 DEF TaskOK, RowsOnward, Settled
  <2> QED BY <2>1, <2>3, <2>4 DEF TaskOK, Joined, Settled
<1>3. ASSUME NEW a \in Agents, NEW c \in handed'[a]
      PROVE  Settled(c)' /\ row'[c].agent = a
  BY <1>3, HandedKept
<1> QED BY <1>1, <1>2, <1>3 DEF QueueInv

---------------------------------------------------------------------------
(* While nothing dies half way *)

\* A task that moves on without its call leaves one that no longer waits.
WaiterInv ==
    /\ NoLostWaiter
    /\ \A t \in Tasks :
         (/\ Busy(t) /\ tasks[t].pc \in {"claim", "scan", "take", "release", "end"}
          /\ tasks[t].call \in Calls) => ~Waiting(tasks[t].call)

\* An agent about to be told of a call was given it.
ClaimInv ==
    /\ NoStuckClaim
    /\ \A t \in Tasks :
         (Busy(t) /\ tasks[t].pc = "notify" /\ tasks[t].agent \in Agents)
            => presence[tasks[t].agent].call # NoCall

LEMMA WaiterKept ==
    ASSUME QueueInv, WaiterInv, RowsOnward, joiner' = joiner,
           NEW t \in Tasks, NEW w, Becomes(t, w),
           (/\ w # Idle /\ w.pc \in {"claim", "scan", "take", "release", "end"}
            /\ w.call \in Calls) => row'[w.call].status # "waiting",
           \A c \in Calls : c \in line =>
              c \in line' \/ (w # Idle /\ w.call = c) \/ row'[c].status # "waiting",
           (Busy(t) /\ tasks[t].call \in Calls) =>
              \/ w # Idle /\ w.call = tasks[t].call
              \/ row'[tasks[t].call].status # "waiting"
    PROVE  WaiterInv'
<1>1. tasks'[t] = w /\ \A u \in Tasks : u # t => tasks'[u] = tasks[u]
  BY DEF Becomes, QueueInv, Typed
<1>2. ASSUME NEW c \in Calls, Waiting(c)'
      PROVE  c \in line' \/ joiner'[c] = "add" \/ \E u \in Tasks : Busy(u)' /\ tasks'[u].call = c
  <2>1. row[c].status = "waiting"
    BY <1>2 DEF RowsOnward, Joined, Waiting
  <2>2. CASE c \in line
    BY <1>1, <1>2, <2>2 DEF Waiting, Busy
  <2>3. CASE joiner[c] = "add"
    BY <2>3
  <2>4. CASE \E u \in Tasks : Busy(u) /\ tasks[u].call = c
    <3>1. PICK u \in Tasks : Busy(u) /\ tasks[u].call = c
      BY <2>4
    <3>2. CASE u = t
      BY <1>1, <1>2, <3>1, <3>2 DEF Waiting, Busy
    <3>3. CASE u # t
      BY <1>1, <3>1, <3>3 DEF Busy
    <3> QED BY <3>2, <3>3
  <2> QED BY <2>1, <2>2, <2>3, <2>4 DEF WaiterInv, NoLostWaiter, Waiting
<1>3. ASSUME NEW u \in Tasks, Busy(u)', tasks'[u].call \in Calls,
             tasks'[u].pc \in {"claim", "scan", "take", "release", "end"}
      PROVE  ~Waiting(tasks[u].call)'
  <2>1. CASE u = t
    BY <1>1, <1>3, <2>1 DEF Busy, Waiting
  <2>2. CASE u # t
    <3>1. tasks'[u] = tasks[u] /\ Busy(u) /\ tasks[u].call \in Calls /\ ~Waiting(tasks[u].call)
      BY <1>1, <1>3, <2>2 DEF Busy, WaiterInv
    <3>2. Joined(tasks[u].call)
      BY <3>1 DEF QueueInv, TaskOK
    <3> QED BY <3>1, <3>2 DEF RowsOnward, Waiting
  <2> QED BY <2>1, <2>2
<1> QED BY <1>2, <1>3 DEF WaiterInv, NoLostWaiter

LEMMA WaiterStays ==
    ASSUME QueueInv, WaiterInv, RowsOnward, tasks' = tasks,
           \A c \in Calls : row'[c].status = "waiting" =>
              \/ joiner'[c] = "add"
              \/ /\ row[c].status = "waiting"
                 /\ c \in line => c \in line'
                 /\ joiner[c] = "add" => c \in line'
    PROVE  WaiterInv'
<1>1. ASSUME NEW c \in Calls, Waiting(c)'
      PROVE  c \in line' \/ joiner'[c] = "add" \/ \E u \in Tasks : Busy(u)' /\ tasks'[u].call = c
  BY <1>1 DEF Waiting, Busy, WaiterInv, NoLostWaiter
<1>2. ASSUME NEW u \in Tasks, Busy(u)', tasks'[u].call \in Calls,
             tasks'[u].pc \in {"claim", "scan", "take", "release", "end"}
      PROVE  ~Waiting(tasks[u].call)'
  <2>1. Busy(u) /\ tasks[u].call \in Calls /\ ~Waiting(tasks[u].call)
    BY <1>2 DEF Busy, WaiterInv
  <2>2. Joined(tasks[u].call)
    BY <2>1 DEF QueueInv, TaskOK
  <2> QED BY <2>1, <2>2 DEF RowsOnward, Waiting
<1> QED BY <1>1, <1>2 DEF WaiterInv, NoLostWaiter

\* The run u holds a claim on the agent a.
ClaimOf(u, a) == u # Idle /\ u.kind = "assign" /\ u.agent = a /\ u.pc # "claim"

LEMMA ClaimKept ==
    ASSUME QueueInv, ClaimInv, NEW t \in Tasks, NEW w, Becomes(t, w),
           \A a \in Agents : (presence'[a].status = "busy" /\ presence'[a].call = NoCall) =>
              \/ ClaimOf(w, a)
              \/ /\ presence[a].status = "busy" /\ presence[a].call = NoCall
                 /\ ~ClaimOf(tasks[t], a),
           \A a \in Agents : presence[a].call # NoCall => presence'[a].call # NoCall,
           (w # Idle /\ w.pc = "notify" /\ w.agent \in Agents) =>
              presence'[w.agent].call # NoCall
    PROVE  ClaimInv'
<1>1. tasks'[t] = w /\ \A u \in Tasks : u # t => tasks'[u] = tasks[u]
  BY DEF Becomes, QueueInv, Typed
<1>2. ASSUME NEW a \in Agents, presence'[a].status = "busy", presence'[a].call = NoCall
      PROVE  \E u \in Tasks : ClaimOf(tasks'[u], a)
  <2>1. CASE ClaimOf(w, a)
    BY <1>1, <2>1
  <2>2. CASE ~ClaimOf(w, a)
    <3>1. /\ presence[a].status = "busy" /\ presence[a].call = NoCall
          /\ ~ClaimOf(tasks[t], a)
      BY <1>2, <2>2
    <3>2. PICK u \in Tasks : ClaimOf(tasks[u], a)
      BY <3>1 DEF ClaimInv, NoStuckClaim, Claims, ClaimOf, Busy
    <3> QED BY <1>1, <3>1, <3>2
  <2> QED BY <2>1, <2>2
<1>3. ASSUME NEW u \in Tasks, Busy(u)', tasks'[u].pc = "notify", tasks'[u].agent \in Agents
      PROVE  presence'[tasks'[u].agent].call # NoCall
  <2>1. CASE u = t
    BY <1>1, <1>3, <2>1 DEF Busy
  <2>2. CASE u # t
    BY <1>1, <1>3, <2>2 DEF Busy, ClaimInv
  <2> QED BY <2>1, <2>2
<1>4. ASSUME NEW a \in Agents, presence'[a].status = "busy"
      PROVE  presence'[a].call # NoCall \/ (Claims(a) # {})'
  BY <1>2, <1>4 DEF ClaimOf, Claims, Busy
<1> QED BY <1>3, <1>4 DEF ClaimInv, NoStuckClaim

LEMMA ClaimStays ==
    ASSUME QueueInv, ClaimInv, tasks' = tasks,
           \A a \in Agents : /\ presence'[a].call = presence[a].call
                             /\ presence'[a].status = "busy" => presence[a].status = "busy"
    PROVE  ClaimInv'
BY DEF ClaimInv, NoStuckClaim, Claims, Busy

---------------------------------------------------------------------------
(* The steps *)

Quiet == WaiterInv /\ ClaimInv

Availability == [status : {"offline", "available", "busy", "away"}, call : Calls \cup {NoCall}]

LEMMA Presenting ==
    ASSUME presence \in [Agents -> Availability], NEW a,
           NEW status \in {"available", "busy", "away"},
           presence' = [presence EXCEPT ![a].status = status]
    PROVE  /\ presence' \in [Agents -> Availability]
           /\ \A b \in Agents : /\ presence'[b].call = presence[b].call
                                /\ b # a => presence'[b] = presence[b]
                                /\ b = a => presence'[b].status = status
BY DEF Availability

LEMMA TasksTyped ==
    ASSUME QueueInv, NEW t \in Tasks, NEW w \in Task \cup {Idle}, Becomes(t, w)
    PROVE  tasks' \in [Tasks -> Task \cup {Idle}]
BY DEF QueueInv, Typed, Becomes

LEMMA AtTask ==
    ASSUME QueueInv, NEW t \in Tasks, Busy(t)
    PROVE  /\ tasks[t] \in Task /\ TaskOK(tasks[t]) /\ tasks[t].list \subseteq Calls
           /\ tasks[t].queues \subseteq Queues /\ tasks[t].agent \in Agents \cup {NoAgent}
           /\ tasks[t].call \in Calls \cup {NoCall} /\ tasks[t].kind \in Kinds
<1>1. tasks[t] \in Task /\ TaskOK(tasks[t])
  BY DEF QueueInv, Typed, Busy
<1> QED BY <1>1 DEF Task

LEMMA ClaimStep ==
    ASSUME QueueInv, NEW t \in Tasks, Claim(t)
    PROVE  QueueInv' /\ (Quiet => Quiet')
<1>0. Typed /\ tasks[t] \in Task /\ TaskOK(tasks[t]) /\ tasks[t].pc = "claim" /\ Busy(t)
      /\ tasks[t] # Idle /\ tasks[t].list \subseteq Calls
  BY AtTask DEF Claim, At, Busy, QueueInv
<1>1. RowsOnward
  BY RowsSame DEF Claim
<1>2. PICK w \in Task \cup {Idle} :
        /\ Becomes(t, w) /\ presence' \in [Agents -> Availability]
        /\ w # Idle => /\ w.pc = "scan" /\ w.kind = tasks[t].kind /\ w.agent = tasks[t].agent
                       /\ w.call = tasks[t].call /\ w.list = tasks[t].list
        /\ \A a \in Agents :
             /\ presence'[a].call = presence[a].call
             /\ \/ presence'[a] = presence[a]
                \/ w # Idle /\ a = tasks[t].agent
  <2>0. presence \in [Agents -> Availability]
    BY <1>0 DEF Typed, Availability
  <2>1. CASE presence[tasks[t].agent].status = "available"
    <3> DEFINE w == [tasks[t] EXCEPT !.pc = "scan", !.queues = {q \in Queues : active[q]}]
    <3>1. /\ w \in Task /\ w.pc = "scan" /\ w.kind = tasks[t].kind
          /\ w.agent = tasks[t].agent /\ w.call = tasks[t].call /\ w.list = tasks[t].list
      BY <1>0, Claiming
    <3>2. /\ tasks' = [tasks EXCEPT ![t] = w]
          /\ presence' = [presence EXCEPT ![tasks[t].agent].status = "busy"]
      BY <2>1 DEF Claim
    <3> HIDE DEF w
    <3>3. w # Idle
      BY <3>1, IdleIsNoTask
    <3>4. /\ presence' \in [Agents -> Availability]
          /\ \A a \in Agents : /\ presence'[a].call = presence[a].call
                               /\ a # tasks[t].agent => presence'[a] = presence[a]
      BY <2>0, <3>2, Presenting
    <3>5. Becomes(t, w)
      BY <3>2 DEF Becomes
    <3> QED BY <3>1, <3>3, <3>4, <3>5
  <2>2. CASE presence[tasks[t].agent].status # "available"
    BY <2>0, <2>2 DEF Claim, Finish, Becomes
  <2> QED BY <2>1, <2>2
<1>3. UNCHANGED <<row, line, joiner, handed, count>>
  BY DEF Claim
<1>4. Typed'
  BY <1>0, <1>2, <1>3, TasksTyped DEF Typed, Availability
<1>5. QueueInv'
  BY <1>0, <1>1, <1>2, <1>3, <1>4, QueueKept DEF TaskOK
<1>6. ASSUME Quiet PROVE WaiterInv'
  <2>1. tasks[t].call \in Calls => row[tasks[t].call].status # "waiting"
    BY <1>0, <1>6 DEF Quiet, WaiterInv, Waiting
  <2> QED BY <1>1, <1>2, <1>3, <1>6, <2>1, WaiterKept DEF Quiet
<1>7. ASSUME Quiet PROVE ClaimInv'
  <2>1. \A a \in Agents : ~ClaimOf(tasks[t], a)
    BY <1>0 DEF ClaimOf
  <2>2. w # Idle => ClaimOf(w, tasks[t].agent)
    BY <1>0, <1>2 DEF ClaimOf, TaskOK
  <2> QED BY <1>2, <1>7, <2>1, <2>2, ClaimKept DEF Quiet
<1> QED BY <1>5, <1>6, <1>7 DEF Quiet

Working == {"read", "room", "mark", "busy", "notify", "remove", "close", "end"}

\* A step that writes at most the line.
LEMMA LineStep ==
    ASSUME QueueInv, NEW t \in Tasks, NEW w \in Task \cup {Idle}, Becomes(t, w),
           UNCHANGED <<row, joiner, presence, handed>>, line' \subseteq line,
           count' = count \/ count' \in Counts,
           w # Idle =>
              /\ w.pc \notin {"claim", "busy", "notify"}
              /\ w.pc \in {"remove", "close", "end"} => w.kind # "assign"
              /\ w.pc \in Working => w.call \in Calls
              /\ w.call \in Calls => Joined(w.call)
              /\ \A c \in w.list : c \in Calls /\ Joined(c),
           Quiet =>
              /\ (w # Idle /\ w.pc \in {"scan", "take", "release", "end"} /\ w.call \in Calls)
                    => ~Waiting(w.call)
              /\ \A c \in line : c \in line' \/ (w # Idle /\ w.call = c) \/ ~Waiting(c)
              /\ (Busy(t) /\ tasks[t].call \in Calls) =>
                    (w # Idle /\ w.call = tasks[t].call) \/ ~Waiting(tasks[t].call)
              /\ \A a \in Agents : ClaimOf(tasks[t], a) => ClaimOf(w, a)
    PROVE  QueueInv' /\ (Quiet => Quiet')
<1>1. RowsOnward
  BY RowsSame
<1>2. Typed'
  <2>1. tasks' \in [Tasks -> Task \cup {Idle}]
    BY TasksTyped
  <2> QED BY <2>1 DEF QueueInv, Typed
<1>3. QueueInv'
  BY <1>1, <1>2, QueueKept DEF Working
<1>4. ASSUME Quiet PROVE WaiterInv'
  BY <1>1, <1>4, WaiterKept DEF Quiet, Waiting
<1>5. ASSUME Quiet PROVE ClaimInv'
  BY <1>5, ClaimKept DEF Quiet
<1> QED BY <1>3, <1>4, <1>5 DEF Quiet

LEMMA ScanStep ==
    ASSUME QueueInv, NEW t \in Tasks, Scan(t)
    PROVE  QueueInv' /\ (Quiet => Quiet')
<1>0. /\ tasks[t] \in Task /\ TaskOK(tasks[t]) /\ tasks[t].pc = "scan" /\ Busy(t)
      /\ tasks[t].list \subseteq Calls /\ tasks[t].call \in Calls \cup {NoCall}
  BY AtTask DEF Scan, At
<1>1. Quiet => (tasks[t].call \in Calls => ~Waiting(tasks[t].call))
  BY <1>0 DEF Quiet, WaiterInv
<1>2. UNCHANGED <<row, joiner, presence, handed, count>> /\ line' \subseteq line /\ line' = line
  BY DEF Scan
<1>3. CASE tasks[t].queues = {}
  <2>1. Goto(t, "release") /\ "release" \in Steps
    BY <1>3 DEF Scan, Steps
  <2>2. PICK w \in Task :
          /\ Becomes(t, w) /\ w.pc = "release" /\ w.kind = tasks[t].kind
          /\ w.agent = tasks[t].agent /\ w.call = tasks[t].call /\ w.list = tasks[t].list
    BY <1>0, <2>1, Going
  <2>3. w # Idle /\ \A a \in Agents : ClaimOf(tasks[t], a) => ClaimOf(w, a)
    BY <2>2, IdleIsNoTask DEF ClaimOf
  <2> QED BY <1>0, <1>1, <1>2, <2>2, <2>3, LineStep DEF TaskOK, Working
<1>4. CASE tasks[t].queues # {}
  <2>1. PICK q \in tasks[t].queues :
          LET list == {c \in InQueue(q) : <<tasks[t].agent, c>> \in Skilled}
          IN  tasks' = [tasks EXCEPT ![t] =
                 [tasks[t] EXCEPT !.queues = @ \ {q}, !.list = list,
                                  !.pc = IF list = {} THEN "scan" ELSE "take"]]
    BY <1>4 DEF Scan
  <2> DEFINE list == {c \in InQueue(q) : <<tasks[t].agent, c>> \in Skilled}
             pc == IF list = {} THEN "scan" ELSE "take"
             w == [tasks[t] EXCEPT !.queues = @ \ {q}, !.list = list, !.pc = pc]
  <2>2. list \in SUBSET Calls /\ \A c \in list : c \in Calls /\ Joined(c)
    BY DEF InQueue, QueueInv, Typed
  <2>3. pc \in {"scan", "take"}
    OBVIOUS
  <2>4. tasks' = [tasks EXCEPT ![t] = w]
    BY <2>1
  <2> HIDE DEF list, pc
  <2>5. /\ w \in Task /\ w.pc = pc /\ w.kind = tasks[t].kind /\ w.agent = tasks[t].agent
        /\ w.call = tasks[t].call /\ w.list = list
    BY <1>0, <2>2, <2>3 DEF Task, Steps
  <2> HIDE DEF w
  <2>6. Becomes(t, w)
    BY <2>4 DEF Becomes
  <2>7. w # Idle /\ \A a \in Agents : ClaimOf(tasks[t], a) => ClaimOf(w, a)
    BY <2>3, <2>5, IdleIsNoTask DEF ClaimOf
  <2> QED BY <1>0, <1>1, <1>2, <2>2, <2>3, <2>5, <2>6, <2>7, LineStep DEF TaskOK, Working
<1> QED BY <1>3, <1>4

LEMMA TakeStep ==
    ASSUME QueueInv, NEW t \in Tasks, Take(t)
    PROVE  QueueInv' /\ (Quiet => Quiet')
<1>0. /\ tasks[t] \in Task /\ TaskOK(tasks[t]) /\ tasks[t].pc = "take" /\ Busy(t)
      /\ tasks[t].list \subseteq Calls /\ tasks[t].call \in Calls \cup {NoCall}
  BY AtTask DEF Take, At
<1>1. Quiet => (tasks[t].call \in Calls => ~Waiting(tasks[t].call))
  BY <1>0 DEF Quiet, WaiterInv
<1> DEFINE c == Oldest(tasks[t].list)
           rest == tasks[t].list \ {c}
           pc == IF rest = {} THEN "scan" ELSE "take"
<1>2. UNCHANGED <<row, joiner, presence, handed, count>> /\ line' = line \ {c}
  BY DEF Take
<1>3. rest \in SUBSET Calls /\ rest \subseteq tasks[t].list /\ pc \in {"scan", "take"}
  BY <1>0
<1>4. CASE c \in line
  <2> DEFINE w == [tasks[t] EXCEPT !.list = {}, !.pc = "read", !.call = c]
  <2>1. tasks' = [tasks EXCEPT ![t] = w]
    BY <1>4 DEF Take
  <2> HIDE DEF c, rest, pc
  <2>2. c \in Calls /\ Joined(c)
    BY <1>4 DEF QueueInv, Typed
  <2>3. /\ w \in Task /\ w.pc = "read" /\ w.kind = tasks[t].kind /\ w.agent = tasks[t].agent
        /\ w.call = c /\ w.list = {}
    BY <1>0, <2>2, Taking
  <2> HIDE DEF w
  <2>4. Becomes(t, w)
    BY <2>1 DEF Becomes
  <2>5. w # Idle /\ \A a \in Agents : ClaimOf(tasks[t], a) => ClaimOf(w, a)
    BY <2>3, IdleIsNoTask DEF ClaimOf
  <2> QED BY <1>0, <1>1, <1>2, <2>2, <2>3, <2>4, <2>5, LineStep
<1>5. CASE c \notin line
  <2> DEFINE w == [tasks[t] EXCEPT !.list = rest, !.pc = pc]
  <2>1. tasks' = [tasks EXCEPT ![t] = w]
    BY <1>5 DEF Take
  <2> HIDE DEF c, rest, pc
  <2>2. line' = line
    BY <1>2, <1>5
  <2>3. /\ w \in Task /\ w.pc = pc /\ w.kind = tasks[t].kind /\ w.agent = tasks[t].agent
        /\ w.call = tasks[t].call /\ w.list = rest
    BY <1>0, <1>3 DEF Task, Steps
  <2> HIDE DEF w
  <2>4. Becomes(t, w)
    BY <2>1 DEF Becomes
  <2>5. w # Idle /\ \A a \in Agents : ClaimOf(tasks[t], a) => ClaimOf(w, a)
    BY <1>3, <2>3, IdleIsNoTask DEF ClaimOf
  <2>6. \A d \in w.list : d \in Calls /\ Joined(d)
    BY <1>0, <1>3, <2>3 DEF TaskOK
  <2> QED BY <1>0, <1>1, <1>2, <1>3, <2>2, <2>3, <2>4, <2>5, <2>6, LineStep DEF TaskOK, Working
<1> QED BY <1>4, <1>5

LEMMA ReadStep ==
    ASSUME QueueInv, NEW t \in Tasks, ReadRow(t) \/ RoomFound(t)
    PROVE  QueueInv' /\ (Quiet => Quiet')
<1>0. /\ tasks[t] \in Task /\ TaskOK(tasks[t]) /\ tasks[t].pc \in {"read", "room"} /\ Busy(t)
      /\ tasks[t].list \subseteq Calls /\ tasks[t].call \in Calls /\ Joined(tasks[t].call)
      /\ \A c \in tasks[t].list : Joined(c)
  BY AtTask DEF ReadRow, RoomFound, At, TaskOK
<1>1. UNCHANGED <<row, joiner, presence, handed, count>> /\ line' = line
  BY DEF ReadRow, RoomFound
<1>2. CASE \/ Goto(t, "room") \/ Goto(t, "mark")
  <2>1. PICK pc \in {"room", "mark"} : Goto(t, pc) /\ pc \in Steps
    BY <1>2 DEF Steps
  <2>2. PICK w \in Task :
          /\ Becomes(t, w) /\ w.pc = pc /\ w.kind = tasks[t].kind
          /\ w.agent = tasks[t].agent /\ w.call = tasks[t].call /\ w.list = tasks[t].list
    BY <1>0, <2>1, Going
  <2>3. w # Idle /\ \A a \in Agents : ClaimOf(tasks[t], a) => ClaimOf(w, a)
    BY <2>1, <2>2, IdleIsNoTask DEF ClaimOf
  <2> QED BY <1>0, <1>1, <2>1, <2>2, <2>3, LineStep
<1>3. CASE ~Waiting(tasks[t].call) /\ GiveUp(t)
  <2>1. CASE Becomes(t, Idle) /\ tasks[t].kind # "assign"
    BY <1>0, <1>1, <1>3, <2>1, LineStep DEF ClaimOf
  <2>2. CASE \E w \in Task :
               /\ Becomes(t, w) /\ w.pc = "scan" /\ w.kind = "assign"
               /\ w.agent = tasks[t].agent /\ w.call = tasks[t].call
               /\ w.list = tasks[t].list
    <3>1. PICK w \in Task :
             /\ Becomes(t, w) /\ w.pc = "scan" /\ w.kind = "assign"
             /\ w.agent = tasks[t].agent /\ w.call = tasks[t].call
             /\ w.list = tasks[t].list
      BY <2>2
    <3>2. w # Idle /\ \A a \in Agents : ClaimOf(tasks[t], a) => ClaimOf(w, a)
      BY <3>1, IdleIsNoTask DEF ClaimOf
    <3> QED BY <1>0, <1>1, <1>3, <3>1, <3>2, LineStep
  <2> QED BY <1>0, <1>3, <2>1, <2>2, GivingUp
<1> QED BY <1>2, <1>3 DEF ReadRow, RoomFound

LEMMA RemoveStep ==
    ASSUME QueueInv, NEW t \in Tasks, RemoveEntry(t)
    PROVE  QueueInv' /\ (Quiet => Quiet')
<1>0. /\ tasks[t] \in Task /\ TaskOK(tasks[t]) /\ tasks[t].pc = "remove" /\ Busy(t)
      /\ tasks[t].list \subseteq Calls /\ tasks[t].call \in Calls /\ Joined(tasks[t].call)
      /\ tasks[t].kind # "assign" /\ \A c \in tasks[t].list : Joined(c)
  BY AtTask DEF RemoveEntry, At, TaskOK
<1>1. UNCHANGED <<row, joiner, presence, handed, count>> /\ line' = line \ {tasks[t].call}
  BY DEF RemoveEntry
<1>2. PICK pc \in {"read", "close"} : Goto(t, pc) /\ pc \in Steps
  BY DEF RemoveEntry, Steps
<1>3. PICK w \in Task :
        /\ Becomes(t, w) /\ w.pc = pc /\ w.kind = tasks[t].kind
        /\ w.agent = tasks[t].agent /\ w.call = tasks[t].call /\ w.list = tasks[t].list
  BY <1>0, <1>2, Going
<1>4. w # Idle /\ \A a \in Agents : ClaimOf(tasks[t], a) => ClaimOf(w, a)
  BY <1>2, <1>3, IdleIsNoTask DEF ClaimOf
<1> QED BY <1>0, <1>1, <1>2, <1>3, <1>4, LineStep

LEMMA EndStep ==
    ASSUME QueueInv, NEW t \in Tasks, End(t)
    PROVE  QueueInv' /\ (Quiet => Quiet')
<1>0. /\ tasks[t] \in Task /\ TaskOK(tasks[t]) /\ tasks[t].pc = "end" /\ Busy(t)
      /\ tasks[t].list \subseteq Calls /\ tasks[t].call \in Calls
      /\ tasks[t].kind # "assign" /\ \A c \in tasks[t].list : Joined(c)
  BY AtTask DEF End, At, TaskOK
<1>1. UNCHANGED <<row, joiner, presence, handed, count>> /\ line' = line
  BY DEF End
<1>2. Quiet => ~Waiting(tasks[t].call)
  BY <1>0 DEF Quiet, WaiterInv
<1>3. \A a \in Agents : ~ClaimOf(tasks[t], a)
  BY <1>0 DEF ClaimOf
<1>4. CASE tasks[t].list = {}
  <2>1. Becomes(t, Idle)
    BY <1>4 DEF End, NextEntry, Finish, Becomes
  <2> QED BY <1>1, <1>2, <1>3, <2>1, LineStep
<1>5. CASE tasks[t].list # {}
  <2>1. PICK c \in tasks[t].list :
          tasks' = [tasks EXCEPT ![t] =
                     [tasks[t] EXCEPT !.call = c, !.list = @ \ {c}, !.pc = "remove"]]
    BY <1>5 DEF End, NextEntry
  <2> DEFINE w == [tasks[t] EXCEPT !.call = c, !.list = @ \ {c}, !.pc = "remove"]
  <2>2. c \in Calls /\ Joined(c)
    BY <1>0
  <2>3. /\ w \in Task /\ w.pc = "remove" /\ w.kind = tasks[t].kind
        /\ w.call = c /\ w.list = tasks[t].list \ {c}
    BY <1>0, <2>2 DEF Task, Steps
  <2>4. tasks' = [tasks EXCEPT ![t] = w]
    BY <2>1
  <2> HIDE DEF w
  <2>5. Becomes(t, w) /\ w # Idle
    BY <2>3, <2>4, IdleIsNoTask DEF Becomes
  <2> QED BY <1>0, <1>1, <1>2, <1>3, <2>2, <2>3, <2>5, LineStep
<1> QED BY <1>4, <1>5

\* Work that begins with a waiting row.
LEMMA BeginStep ==
    ASSUME QueueInv, NEW t \in Tasks, NEW c \in Calls, Waiting(c),
           NEW kind \in Kinds \ {"assign"}, NEW a \in Agents \cup {NoAgent},
           NEW list \in SUBSET {d \in Calls : Waiting(d)}, WorkOn(t, kind, c, a, list),
           UNCHANGED <<row, line, joiner, presence, handed>>,
           count' = count \/ count' \in Counts
    PROVE  QueueInv' /\ (Quiet => Quiet')
<1> DEFINE w == [kind |-> kind, pc |-> "remove", agent |-> a, call |-> c,
                 queues |-> {}, list |-> list]
<1>1. w \in Task
  BY DEF Task, Steps
<1>2. /\ w.pc = "remove" /\ w.kind = kind /\ w.call = c /\ w.list = list
  OBVIOUS
<1>3. ~Busy(t) /\ tasks' = [tasks EXCEPT ![t] = w]
  BY DEF WorkOn, Begin
<1> HIDE DEF w
<1>4. Becomes(t, w) /\ w # Idle
  BY <1>1, <1>3, IdleIsNoTask DEF Becomes
<1>5. \A d \in Calls : Waiting(d) => Joined(d)
  BY DEF QueueInv, Waiting
<1>6. \A b \in Agents : ~ClaimOf(tasks[t], b)
  BY <1>3 DEF ClaimOf, Busy
<1> QED BY <1>1, <1>2, <1>3, <1>4, <1>5, <1>6, LineStep

LEMMA WaitingStep ==
    ASSUME QueueInv, NEW t \in Tasks,
           \/ \E c \in Calls, a \in Agents : Supervise(t, c, a)
           \/ \E c \in Calls : Abandon(t, c)
           \/ \E q \in Queues : Sweep(t, q)
    PROVE  QueueInv' /\ (Quiet => Quiet')
<1>1. ASSUME NEW c \in Calls, NEW a \in Agents, Supervise(t, c, a)
      PROVE  QueueInv' /\ (Quiet => Quiet')
  <2>1. count' \in Counts
    BY <1>1 DEF Supervise, QueueInv, Typed, Counts
  <2> QED BY <1>1, <2>1, BeginStep DEF Supervise, Kinds
<1>2. ASSUME NEW c \in Calls, Abandon(t, c)
      PROVE  QueueInv' /\ (Quiet => Quiet')
  BY <1>2, BeginStep DEF Abandon, Kinds
<1>3. ASSUME NEW q \in Queues, Sweep(t, q)
      PROVE  QueueInv' /\ (Quiet => Quiet')
  <2>1. PICK c \in Expired(q) : WorkOn(t, "sweep", c, NoAgent, Expired(q) \ {c})
    BY <1>3 DEF Sweep
  <2>2. /\ c \in Calls /\ Waiting(c)
        /\ Expired(q) \ {c} \in SUBSET {d \in Calls : Waiting(d)}
    BY DEF Expired
  <2>3. UNCHANGED <<row, line, joiner, presence, handed, count>> /\ "sweep" \in Kinds \ {"assign"}
    BY <1>3 DEF Sweep, Kinds
  <2> QED BY <2>1, <2>2, <2>3, BeginStep
<1> QED BY <1>1, <1>2, <1>3

---------------------------------------------------------------------------
(* The steps that write presence *)

LEMMA ReleaseStep ==
    ASSUME QueueInv, NEW t \in Tasks, Release(t)
    PROVE  QueueInv' /\ (Quiet => Quiet')
<1>0. Typed /\ tasks[t] \in Task /\ TaskOK(tasks[t]) /\ tasks[t].pc = "release" /\ Busy(t)
  BY AtTask DEF Release, At, QueueInv
<1>1. UNCHANGED <<row, joiner, line, handed, count>> /\ Becomes(t, Idle)
  BY DEF Release, Finish, Becomes
<1>2. RowsOnward
  BY <1>1, RowsSame
<1>3. /\ presence' \in [Agents -> Availability]
      /\ \A a \in Agents :
           /\ presence'[a].call = presence[a].call
           /\ presence'[a].status = "busy" => /\ presence[a].status = "busy"
                                              /\ a # tasks[t].agent
  <2>0. presence \in [Agents -> Availability]
    BY <1>0 DEF Typed, Availability
  <2>1. CASE presence[tasks[t].agent].status = "busy"
    <3>1. presence' = [presence EXCEPT ![tasks[t].agent].status = "available"]
      BY <2>1 DEF Release
    <3> DEFINE b == tasks[t].agent
    <3>2. presence' = [presence EXCEPT ![b].status = "available"] /\ b = tasks[t].agent
      BY <3>1
    <3> HIDE DEF b
    <3>3. /\ presence' \in [Agents -> Availability]
          /\ \A a \in Agents : /\ presence'[a].call = presence[a].call
                               /\ a # b => presence'[a] = presence[a]
                               /\ a = b => presence'[a].status = "available"
      BY <2>0, <3>2, Presenting
    <3> QED BY <3>2, <3>3
  <2>2. CASE presence[tasks[t].agent].status # "busy"
    BY <2>0, <2>2 DEF Release
  <2> QED BY <2>1, <2>2
<1>4. Typed'
  BY <1>0, <1>1, <1>3, TasksTyped DEF Typed, Availability
<1>5. QueueInv'
  BY <1>1, <1>2, <1>4, QueueKept
<1>6. ASSUME Quiet PROVE WaiterInv'
  <2>1. tasks[t].call \in Calls => row[tasks[t].call].status # "waiting"
    BY <1>0, <1>6 DEF Quiet, WaiterInv, Waiting
  <2> QED BY <1>1, <1>2, <1>6, <2>1, WaiterKept DEF Quiet
<1>7. ASSUME Quiet PROVE ClaimInv'
  BY <1>1, <1>3, <1>7, ClaimKept DEF Quiet, ClaimOf
<1> QED BY <1>5, <1>6, <1>7 DEF Quiet

LEMMA SetBusyStep ==
    ASSUME QueueInv, NEW t \in Tasks, SetBusy(t)
    PROVE  QueueInv' /\ (Quiet => Quiet')
<1>0. /\ Typed /\ tasks[t] \in Task /\ TaskOK(tasks[t]) /\ tasks[t].pc = "busy" /\ Busy(t)
      /\ tasks[t].list \subseteq Calls /\ tasks[t].call \in Calls /\ Joined(tasks[t].call)
      /\ \A c \in tasks[t].list : Joined(c)
      /\ Settled(tasks[t].call) /\ row[tasks[t].call].agent = tasks[t].agent
  BY AtTask DEF SetBusy, At, QueueInv, TaskOK
<1>1. UNCHANGED <<row, joiner, line, handed, count>> /\ Goto(t, "notify") /\ "notify" \in Steps
  BY DEF SetBusy, Steps
<1>2. RowsOnward
  BY <1>1, RowsSame
<1>3. PICK w \in Task :
        /\ Becomes(t, w) /\ w.pc = "notify" /\ w.kind = tasks[t].kind
        /\ w.agent = tasks[t].agent /\ w.call = tasks[t].call /\ w.list = tasks[t].list
  BY <1>0, <1>1, Going
<1>4. /\ presence' \in [Agents -> Availability]
      /\ \A a \in Agents :
           IF a = tasks[t].agent THEN presence'[a].call = tasks[t].call
                                 ELSE presence'[a] = presence[a]
  BY <1>0 DEF SetBusy, Typed, Availability
<1>5. Typed'
  BY <1>0, <1>1, <1>3, <1>4, TasksTyped DEF Typed, Availability
<1>6. QueueInv'
  BY <1>0, <1>1, <1>2, <1>3, <1>5, QueueKept DEF Settled
<1>7. ASSUME Quiet PROVE WaiterInv'
  BY <1>1, <1>2, <1>3, <1>7, IdleIsNoTask, WaiterKept DEF Quiet
<1>8. ASSUME Quiet PROVE ClaimInv'
  <2>1. tasks[t].call # NoCall
    BY <1>0, AcdAssumption
  <2> QED BY <1>3, <1>4, <1>8, <2>1, ClaimKept DEF Quiet, ClaimOf
<1> QED BY <1>6, <1>7, <1>8 DEF Quiet

---------------------------------------------------------------------------
(* The steps that write the row *)

Row == [status : Statuses, agent : Agents \cup {NoAgent}]

\* The row of the task's call is settled, and the task moves on.
LEMMA SettleStep ==
    ASSUME QueueInv, NEW t \in Tasks, Busy(t), tasks[t].call \in Calls,
           NEW new \in Row, new.status \notin {"none", "waiting"},
           Settled(tasks[t].call) => new.agent = row[tasks[t].call].agent,
           row' = [row EXCEPT ![tasks[t].call] = new],
           UNCHANGED <<line, joiner, presence, handed>>,
           count' = count \/ count' \in Counts,
           NEW w \in Task \cup {Idle}, Becomes(t, w),
           w # Idle =>
              /\ w.pc \in {"scan", "busy", "end"} /\ w.call = tasks[t].call
              /\ w.list = tasks[t].list /\ w.agent = tasks[t].agent
              /\ w.kind = tasks[t].kind
              /\ w.pc = "end" => w.kind # "assign"
              /\ w.pc = "busy" => new.agent = w.agent,
           w = Idle => tasks[t].kind # "assign"
    PROVE  QueueInv' /\ (Quiet => Quiet')
<1>0. /\ Typed /\ Joined(tasks[t].call) /\ tasks[t].list \subseteq Calls
      /\ \A c \in tasks[t].list : Joined(c)
  BY AtTask DEF QueueInv, TaskOK
<1>1. row' \in [Calls -> Row] /\ RowsOnward /\ row'[tasks[t].call] = new
  BY <1>0, RowSettles DEF Row
<1>2. Typed'
  <2>1. tasks' \in [Tasks -> Task \cup {Idle}]
    BY TasksTyped
  <2> QED BY <1>0, <1>1, <2>1 DEF Typed, Row
<1>3. QueueInv'
  BY <1>0, <1>1, <1>2, QueueKept
<1>4. ASSUME Quiet PROVE WaiterInv'
  BY <1>1, <1>4, WaiterKept DEF Quiet
<1>5. ASSUME Quiet PROVE ClaimInv'
  BY <1>5, ClaimKept DEF Quiet, ClaimOf
<1> QED BY <1>3, <1>4, <1>5 DEF Quiet

LEMMA MarkStep ==
    ASSUME QueueInv, NEW t \in Tasks, Mark(t)
    PROVE  QueueInv' /\ (Quiet => Quiet')
<1>0. /\ tasks[t] \in Task /\ TaskOK(tasks[t]) /\ tasks[t].pc = "mark" /\ Busy(t)
      /\ tasks[t].list \subseteq Calls /\ tasks[t].call \in Calls /\ Joined(tasks[t].call)
      /\ \A c \in tasks[t].list : Joined(c)
      /\ tasks[t].agent \in Agents \cup {NoAgent}
  BY AtTask DEF Mark, At, TaskOK
<1>1. UNCHANGED <<line, joiner, presence, handed, count>>
  BY DEF Mark
<1>2. CASE Waiting(tasks[t].call)
  <2> DEFINE new == [status |-> "assigned", agent |-> tasks[t].agent]
  <2>1. /\ row' = [row EXCEPT ![tasks[t].call] = new]
        /\ Goto(t, "busy") /\ "busy" \in Steps
    BY <1>2 DEF Mark, Steps
  <2>2. new \in Row /\ new.status = "assigned" /\ new.agent = tasks[t].agent
    BY <1>0 DEF Row, Statuses
  <2> HIDE DEF new
  <2>3. PICK w \in Task :
          /\ Becomes(t, w) /\ w.pc = "busy" /\ w.kind = tasks[t].kind
          /\ w.agent = tasks[t].agent /\ w.call = tasks[t].call /\ w.list = tasks[t].list
    BY <1>0, <2>1, Going
  <2>4. ~Settled(tasks[t].call) /\ w # Idle
    BY <1>2, IdleIsNoTask DEF Settled, Waiting
  <2> QED BY <1>0, <1>1, <2>1, <2>2, <2>3, <2>4, SettleStep
<1>3. CASE ~Waiting(tasks[t].call)
  <2>0. GiveUp(t) /\ row' = row /\ line' \subseteq line
    BY <1>1, <1>3 DEF Mark
  <2>1. CASE Becomes(t, Idle) /\ tasks[t].kind # "assign"
    BY <1>0, <1>1, <1>3, <2>0, <2>1, LineStep DEF ClaimOf
  <2>2. CASE \E w \in Task :
               /\ Becomes(t, w) /\ w.pc = "scan" /\ w.kind = "assign"
               /\ w.agent = tasks[t].agent /\ w.call = tasks[t].call
               /\ w.list = tasks[t].list
    <3>1. PICK w \in Task :
             /\ Becomes(t, w) /\ w.pc = "scan" /\ w.kind = "assign"
             /\ w.agent = tasks[t].agent /\ w.call = tasks[t].call
             /\ w.list = tasks[t].list
      BY <2>2
    <3>2. w # Idle /\ \A a \in Agents : ClaimOf(tasks[t], a) => ClaimOf(w, a)
      BY <3>1, IdleIsNoTask DEF ClaimOf
    <3> QED BY <1>0, <1>1, <1>3, <2>0, <3>1, <3>2, LineStep
  <2> QED BY <1>0, <2>0, <2>1, <2>2, GivingUp
<1> QED BY <1>2, <1>3

LEMMA RoomLostStep ==
    ASSUME QueueInv, NEW t \in Tasks, RoomLost(t)
    PROVE  QueueInv' /\ MaxCrashes # 0
<1>0. /\ Typed /\ tasks[t] \in Task /\ TaskOK(tasks[t]) /\ Busy(t) /\ tasks[t].call \in Calls
      /\ row[tasks[t].call] \in Row
  BY AtTask DEF RoomLost, At, TaskOK, QueueInv, Typed, Row
<1> DEFINE new == [row[tasks[t].call] EXCEPT !.status = "timed_out"]
<1>1. new \in Row /\ new.status = "timed_out" /\ new.agent = row[tasks[t].call].agent
  BY <1>0 DEF Row, Statuses
<1>2. row' = [row EXCEPT ![tasks[t].call] = new]
  BY DEF RoomLost
<1> HIDE DEF new
<1>3. UNCHANGED <<line, joiner, presence, handed>> /\ count' \in Counts /\ GiveUp(t)
  BY <1>0 DEF RoomLost, Typed, Counts
<1>4. MaxCrashes # 0
  BY <1>0 DEF RoomLost, Typed, Counts
<1>5. CASE Becomes(t, Idle) /\ tasks[t].kind # "assign"
  BY <1>0, <1>1, <1>2, <1>3, <1>4, <1>5, SettleStep
<1>6. CASE \E w \in Task :
             /\ Becomes(t, w) /\ w.pc = "scan" /\ w.kind = "assign"
             /\ w.agent = tasks[t].agent /\ w.call = tasks[t].call /\ w.list = tasks[t].list
  <2>1. PICK w \in Task :
           /\ Becomes(t, w) /\ w.pc = "scan" /\ w.kind = "assign"
           /\ w.agent = tasks[t].agent /\ w.call = tasks[t].call /\ w.list = tasks[t].list
    BY <1>6
  <2>2. tasks[t].kind = "assign" /\ w # Idle
    BY <1>3, <2>1, IdleIsNoTask, <1>0 DEF GiveUp, Finish, Becomes, Typed
  <2> QED BY <1>0, <1>1, <1>2, <1>3, <1>4, <2>1, <2>2, SettleStep
<1> QED BY <1>0, <1>3, <1>5, <1>6, GivingUp

LEMMA CloseStep ==
    ASSUME QueueInv, NEW t \in Tasks, Close(t)
    PROVE  QueueInv' /\ (Quiet => Quiet')
<1>0. /\ tasks[t] \in Task /\ TaskOK(tasks[t]) /\ tasks[t].pc = "close" /\ Busy(t)
      /\ tasks[t].call \in Calls /\ tasks[t].kind # "assign" /\ row[tasks[t].call] \in Row
  BY AtTask DEF Close, At, TaskOK, QueueInv, Typed, Row
<1> DEFINE status == IF tasks[t].kind = "sweep" THEN "timed_out" ELSE "abandoned"
           new == [row[tasks[t].call] EXCEPT !.status = status]
<1>1. /\ new \in Row /\ new.status \notin {"none", "waiting"}
      /\ new.agent = row[tasks[t].call].agent
  BY <1>0 DEF Row, Statuses
<1>2. row' = [row EXCEPT ![tasks[t].call] = new]
  BY DEF Close
<1> HIDE DEF new
<1>3. UNCHANGED <<line, joiner, presence, handed, count>> /\ Goto(t, "end") /\ "end" \in Steps
  BY DEF Close, Steps
<1>4. PICK w \in Task :
        /\ Becomes(t, w) /\ w.pc = "end" /\ w.kind = tasks[t].kind
        /\ w.agent = tasks[t].agent /\ w.call = tasks[t].call /\ w.list = tasks[t].list
  BY <1>0, <1>3, Going
<1>5. w # Idle
  BY IdleIsNoTask
<1> QED BY <1>0, <1>1, <1>2, <1>3, <1>4, <1>5, SettleStep

LEMMA NotifyStep ==
    ASSUME QueueInv, NEW t \in Tasks, Notify(t)
    PROVE  QueueInv' /\ (Quiet => Quiet')
<1>0. /\ Typed /\ tasks[t] \in Task /\ TaskOK(tasks[t]) /\ tasks[t].pc = "notify" /\ Busy(t)
      /\ tasks[t].call \in Calls
      /\ Settled(tasks[t].call) /\ row[tasks[t].call].agent = tasks[t].agent
  BY AtTask DEF Notify, At, QueueInv, TaskOK
<1>1. UNCHANGED <<row, joiner, line, presence, count>> /\ Becomes(t, Idle)
  BY DEF Notify, Finish, Becomes
<1>2. RowsOnward
  BY <1>1, RowsSame
<1>3. /\ handed' \in [Agents -> SUBSET Calls]
      /\ \A a \in Agents : \A c \in handed'[a] :
           c \in handed[a] \/ (c = tasks[t].call /\ a = tasks[t].agent)
  BY <1>0 DEF Notify, Typed
<1>4. Typed'
  BY <1>0, <1>1, <1>3, TasksTyped DEF Typed
<1>5. QueueInv'
  BY <1>0, <1>1, <1>2, <1>3, <1>4, QueueKept DEF Settled
<1>6. ASSUME Quiet PROVE WaiterInv'
  <2>1. row[tasks[t].call].status # "waiting"
    BY <1>0 DEF Settled
  <2> QED BY <1>1, <1>2, <1>6, <2>1, WaiterKept DEF Quiet
<1>7. ASSUME Quiet PROVE ClaimInv'
  <2>1. \A a \in Agents : ClaimOf(tasks[t], a) => presence[a].call # NoCall
    BY <1>0, <1>7 DEF Quiet, ClaimInv, ClaimOf
  <2> QED BY <1>1, <1>7, <2>1, ClaimKept DEF Quiet
<1> QED BY <1>5, <1>6, <1>7 DEF Quiet

LEMMA WorkStep ==
    ASSUME QueueInv, NEW t \in Tasks, Work(t)
    PROVE  QueueInv' /\ (Quiet => Quiet')
BY ClaimStep, ScanStep, TakeStep, ReleaseStep, ReadStep, MarkStep, SetBusyStep, NotifyStep,
   RemoveStep, CloseStep, EndStep DEF Work

---------------------------------------------------------------------------
(* The surroundings *)

LEMMA JoinStep ==
    ASSUME QueueInv, NEW c \in Calls, Join(c)
    PROVE  QueueInv' /\ (Quiet => Quiet')
<1>0. Typed /\ (~Joined(c) => row[c].status = "none" /\ c \notin line)
  BY DEF QueueInv
<1>1. UNCHANGED <<tasks, handed, presence, count>>
  BY DEF Join, JoinCheck, JoinReject, JoinInsert, JoinAdd
<1>2. /\ joiner' \in [Calls -> {"out", "reject", "insert", "add", "done"}]
      /\ \A d \in Calls : d # c => joiner'[d] = joiner[d] /\ row'[d] = row[d]
      /\ row' \in [Calls -> Row] /\ line' \subseteq Calls /\ row'[c].agent = row[c].agent
      /\ line \subseteq line' /\ line' \subseteq line \cup {c}
      /\ \/ /\ joiner[c] \in {"out", "reject"} /\ joiner'[c] \in {"insert", "reject", "done"}
            /\ row' = row /\ line' = line
         \/ /\ joiner[c] = "insert" /\ joiner'[c] = "add" /\ line' = line
            /\ row'[c].status = "waiting"
         \/ joiner[c] = "add" /\ joiner'[c] = "done" /\ row' = row /\ c \in line'
  <2>1. CASE JoinCheck(c) \/ JoinReject(c)
    BY <1>0, <2>1 DEF JoinCheck, JoinReject, Typed, Row
  <2>2. CASE JoinInsert(c)
    BY <1>0, <2>2 DEF JoinInsert, Typed, Row, Statuses
  <2>3. CASE JoinAdd(c)
    BY <1>0, <2>3 DEF JoinAdd, Typed, Row
  <2> QED BY <2>1, <2>2, <2>3 DEF Join
<1>3. RowsOnward
  BY <1>0, <1>2 DEF QueueInv, RowsOnward, Joined, Settled, Waiting
<1>4. Typed'
  BY <1>0, <1>1, <1>2 DEF Typed, Row
<1>5. QueueInv'
  BY <1>1, <1>3, <1>4, QueueStays
<1>6. ASSUME Quiet PROVE WaiterInv'
  <2>1. \A d \in Calls : row'[d].status = "waiting" =>
           \/ joiner'[d] = "add"
           \/ /\ row[d].status = "waiting"
              /\ d \in line => d \in line'
              /\ joiner[d] = "add" => d \in line'
    <3>1. ASSUME NEW d \in Calls, d # c, row'[d].status = "waiting"
          PROVE  \/ joiner'[d] = "add"
                 \/ /\ row[d].status = "waiting"
                    /\ d \in line => d \in line'
                    /\ joiner[d] = "add" => d \in line'
      BY <1>2, <3>1
    <3>2. row'[c].status = "waiting" =>
            \/ joiner'[c] = "add"
            \/ /\ row[c].status = "waiting"
               /\ c \in line => c \in line'
               /\ joiner[c] = "add" => c \in line'
      BY <1>2
    <3> QED BY <3>1, <3>2
  <2> QED BY <1>1, <1>3, <1>6, <2>1, WaiterStays DEF Quiet
<1>7. ASSUME Quiet PROVE ClaimInv'
  BY <1>1, <1>7, ClaimStays DEF Quiet
<1> QED BY <1>5, <1>6, <1>7 DEF Quiet

LEMMA UpdateCounted ==
    ASSUME count \in Counts, NEW a \in Agents
    PROVE  [count EXCEPT !.updates[a] = @ + 1] \in Counts
<1> DEFINE updates == [count.updates EXCEPT ![a] = @ + 1]
<1>1. updates \in [Agents -> Nat]
  BY DEF Counts
<1>2. [count EXCEPT !.updates[a] = @ + 1] = [count EXCEPT !.updates = updates]
  BY DEF Counts
<1> HIDE DEF updates
<1> QED BY <1>1, <1>2 DEF Counts

LEMMA PresenceStep ==
    ASSUME QueueInv, NEW a \in Agents, NEW status \in {"available", "away"},
           SetPresence(a, status)
    PROVE  QueueInv' /\ (Quiet => Quiet')
<1>0. Typed /\ presence \in [Agents -> Availability]
  BY DEF QueueInv, Typed, Availability
<1>1. UNCHANGED <<row, joiner, line, handed>> /\ count' \in Counts
  BY <1>0, UpdateCounted DEF SetPresence, Typed
<1>2. RowsOnward
  BY <1>1, RowsSame
<1>3. /\ presence' \in [Agents -> Availability]
      /\ \A b \in Agents : /\ presence'[b].call = presence[b].call
                           /\ presence'[b].status = "busy" => presence[b].status = "busy"
  <2>1. presence' = [presence EXCEPT ![a].status = status]
    BY DEF SetPresence
  <2> QED BY <1>0, <2>1, Presenting
<1>4. CASE status # "available"
  <2>1. tasks' = tasks
    BY <1>4 DEF SetPresence
  <2>2. Typed'
    BY <1>0, <1>1, <1>3, <2>1 DEF Typed, Availability
  <2> QED BY <1>1, <1>2, <1>3, <2>1, <2>2, QueueStays, WaiterStays, ClaimStays DEF Quiet
<1>5. CASE status = "available"
  <2> DEFINE w == [kind |-> "assign", pc |-> "claim", agent |-> a,
                   call |-> NoCall, queues |-> {}, list |-> {}]
  <2>1. /\ w \in Task /\ w.pc = "claim" /\ w.kind = "assign" /\ w.call = NoCall /\ w.list = {}
    BY DEF Task, Steps, Kinds
  <2>2. PICK t \in Tasks : ~Busy(t) /\ tasks' = [tasks EXCEPT ![t] = w]
    BY <1>5 DEF SetPresence, Begin
  <2> HIDE DEF w
  <2>3. Becomes(t, w) /\ w # Idle /\ w.call \notin Calls
    BY <2>1, <2>2, IdleIsNoTask, AcdAssumption DEF Becomes
  <2>4. Typed'
    BY <1>0, <1>1, <1>3, <2>1, <2>3, TasksTyped DEF Typed, Availability
  <2>5. QueueInv'
    BY <1>1, <1>2, <2>1, <2>3, <2>4, QueueKept
  <2>6. ASSUME Quiet PROVE WaiterInv'
    BY <1>1, <1>2, <2>2, <2>3, <2>6, WaiterKept DEF Quiet
  <2>7. ASSUME Quiet PROVE ClaimInv'
    <3>1. \A b \in Agents : ~ClaimOf(tasks[t], b)
      BY <2>2 DEF ClaimOf, Busy
    <3> QED BY <1>3, <2>1, <2>3, <2>7, <3>1, ClaimKept DEF Quiet
  <2> QED BY <2>5, <2>6, <2>7 DEF Quiet
<1> QED BY <1>4, <1>5

\* Steps that leave the rows, the line, the joins, presence and tasks alone.
LEMMA OtherStep ==
    ASSUME QueueInv, UNCHANGED <<row, line, joiner, presence, tasks, handed>>,
           count' = count \/ count' \in Counts
    PROVE  QueueInv' /\ (Quiet => Quiet')
<1>1. RowsOnward
  BY RowsSame
<1>2. Typed'
  BY DEF QueueInv, Typed
<1> QED BY <1>1, <1>2, QueueStays, WaiterStays, ClaimStays DEF Quiet

LEMMA SurroundingStep ==
    ASSUME QueueInv, \/ \E c \in Calls : Age(c) \/ HangUp(c)
                     \/ \E q \in Queues : SetActive(q)
                     \/ UNCHANGED vars
    PROVE  QueueInv' /\ (Quiet => Quiet')
<1>1. UNCHANGED <<row, line, joiner, presence, tasks, handed>>
  BY DEF Age, HangUp, SetActive, vars
<1>2. count' = count \/ count' \in Counts
  <2>1. /\ [count EXCEPT !.hangups = @ + 1] \in Counts
        /\ [count EXCEPT !.toggles = @ + 1] \in Counts
    BY DEF QueueInv, Typed, Counts
  <2> QED BY <2>1 DEF Age, HangUp, SetActive, vars
<1> QED BY <1>1, <1>2, OtherStep

LEMMA CrashStep ==
    ASSUME QueueInv, Crash
    PROVE  QueueInv' /\ MaxCrashes # 0
<1>0. /\ Typed /\ UNCHANGED <<row, line, presence, handed>> /\ count' \in Counts
      /\ MaxCrashes # 0
  BY DEF Crash, QueueInv, Typed, Counts
<1>1. CASE \E t \in Tasks : Busy(t) /\ Finish(t) /\ UNCHANGED joiner
  <2>1. PICK t \in Tasks : Becomes(t, Idle) /\ joiner' = joiner
    BY <1>1 DEF Finish, Becomes
  <2>2. RowsOnward
    BY <1>0, <2>1, RowsSame
  <2>3. Typed'
    BY <1>0, <2>1, TasksTyped DEF Typed
  <2> QED BY <1>0, <2>1, <2>2, <2>3, QueueKept
<1>2. CASE \E c \in Calls : /\ joiner[c] \in {"insert", "add", "reject"}
                            /\ joiner' = [joiner EXCEPT ![c] = "done"]
                            /\ UNCHANGED tasks
  <2>1. PICK c \in Calls : /\ joiner' = [joiner EXCEPT ![c] = "done"]
                           /\ tasks' = tasks
    BY <1>2
  <2>2. RowsOnward
    BY <1>0, <2>1 DEF QueueInv, Typed, RowsOnward, Joined, Settled, Waiting
  <2>3. Typed'
    BY <1>0, <2>1 DEF Typed
  <2> QED BY <1>0, <2>1, <2>2, <2>3, QueueStays
<1> QED BY <1>1, <1>2 DEF Crash

---------------------------------------------------------------------------
(* What an agent may still be brought: calls handed over and the work that    *)
(* may hand over one more are paid for by the agent's updates and the          *)
(* assignments made by hand.                                                  *)

\* The piece of work u may hand a call to a.
Brings(u, a) == u # Idle /\ u.agent = a
Owners(a) == {t \in Tasks : Brings(tasks[t], a)}

Budgeted(a) ==
    /\ IsFiniteSet(handed[a])
    /\ Cardinality(handed[a]) + Cardinality(Owners(a))
         <= count.updates[a] + count.supervisions

Budget == \A a \in Agents : Budgeted(a)

LEMMA OneMore ==
    ASSUME NEW S, IsFiniteSet(S), NEW x
    PROVE  /\ IsFiniteSet(S \cup {x})
           /\ Cardinality(S) \in Nat /\ Cardinality(S \cup {x}) \in Nat
           /\ Cardinality(S \cup {x}) <= Cardinality(S) + 1
<1>1. IsFiniteSet(S \cup {x}) /\ Cardinality(S) \in Nat
  BY FS_AddElement, FS_CardinalityType
<1>2. Cardinality(S \cup {x}) = Cardinality(S) \/ Cardinality(S \cup {x}) = Cardinality(S) + 1
  BY FS_AddElement
<1> QED BY <1>1, <1>2

LEMMA OwnersFinite ==
    ASSUME NEW a
    PROVE  IsFiniteSet(Owners(a)) /\ Cardinality(Owners(a)) \in Nat
<1>1. Owners(a) \in SUBSET Tasks
  BY DEF Owners
<1>2. IsFiniteSet(Owners(a))
  BY <1>1, FS_Subset, AcdAssumption
<1> QED BY <1>2, FS_CardinalityType

\* No new work for a, and no call handed to a.
LEMMA BudgetStays ==
    ASSUME NEW a \in Agents, Typed, Typed', Budgeted(a), handed'[a] = handed[a],
           \A t \in Tasks : Brings(tasks'[t], a) => Brings(tasks[t], a),
           count'.updates[a] >= count.updates[a], count'.supervisions >= count.supervisions
    PROVE  Budgeted(a)'
<1>1. Owners(a)' \in SUBSET Owners(a)
  BY DEF Owners, Brings
<1>2. IsFiniteSet(Owners(a)')
  BY <1>1, OwnersFinite, FS_Subset
<1>3. Cardinality(Owners(a)') <= Cardinality(Owners(a))
  BY <1>1, OwnersFinite, FS_Subset
<1>4. /\ Cardinality(Owners(a)') \in Nat /\ Cardinality(Owners(a)) \in Nat
      /\ Cardinality(handed[a]) \in Nat
  BY <1>2, OwnersFinite, FS_CardinalityType DEF Budgeted
<1>5. /\ count.updates[a] \in Nat /\ count.supervisions \in Nat
      /\ count'.updates[a] \in Nat /\ count'.supervisions \in Nat
  BY DEF Typed, Counts
<1> QED BY <1>3, <1>4, <1>5 DEF Budgeted

\* One piece of work begins for a, which one update or assignment pays for.
LEMMA BudgetBegins ==
    ASSUME NEW a \in Agents, Typed, Typed', Budgeted(a), handed'[a] = handed[a],
           NEW t \in Tasks,
           \A u \in Tasks : u # t /\ Brings(tasks'[u], a) => Brings(tasks[u], a),
           count'.updates[a] + count'.supervisions
             >= count.updates[a] + count.supervisions + 1
    PROVE  Budgeted(a)'
<1>1. Owners(a)' \in SUBSET (Owners(a) \cup {t})
  BY DEF Owners, Brings
<1>2. /\ IsFiniteSet(Owners(a) \cup {t})
      /\ Cardinality(Owners(a) \cup {t}) <= Cardinality(Owners(a)) + 1
      /\ Cardinality(Owners(a) \cup {t}) \in Nat
  BY OwnersFinite, OneMore
<1>3. /\ IsFiniteSet(Owners(a)')
      /\ Cardinality(Owners(a)') <= Cardinality(Owners(a) \cup {t})
  BY <1>1, <1>2, FS_Subset
<1>4. /\ Cardinality(Owners(a)') \in Nat /\ Cardinality(Owners(a)) \in Nat
      /\ Cardinality(handed[a]) \in Nat
  BY <1>3, OwnersFinite, FS_CardinalityType DEF Budgeted
<1>5. /\ count.updates[a] \in Nat /\ count.supervisions \in Nat
      /\ count'.updates[a] \in Nat /\ count'.supervisions \in Nat
  BY DEF Typed, Counts
<1> QED BY <1>2, <1>3, <1>4, <1>5 DEF Budgeted

\* The work that hands a call to a is over.
LEMMA BudgetSpent ==
    ASSUME NEW a \in Agents, Typed, Typed', Budgeted(a), count' = count,
           NEW t \in Tasks, Brings(tasks[t], a), tasks'[t] = Idle,
           \A u \in Tasks : u # t => tasks'[u] = tasks[u],
           NEW c, handed'[a] = handed[a] \cup {c}
    PROVE  Budgeted(a)'
<1>1. Owners(a)' = Owners(a) \ {t} /\ t \in Owners(a)
  BY DEF Owners, Brings
<1>2. Cardinality(Owners(a)') = Cardinality(Owners(a)) - 1 /\ Cardinality(Owners(a)) \in Nat
  BY <1>1, OwnersFinite, FS_RemoveElement
<1>3. /\ IsFiniteSet(handed'[a]) /\ Cardinality(handed[a]) \in Nat
      /\ Cardinality(handed'[a]) \in Nat
      /\ Cardinality(handed'[a]) <= Cardinality(handed[a]) + 1
  <2> DEFINE H == handed[a]
  <2>1. IsFiniteSet(H)
    BY DEF Budgeted
  <2> HIDE DEF H
  <2>2. /\ IsFiniteSet(H \cup {c}) /\ Cardinality(H \cup {c}) <= Cardinality(H) + 1
        /\ Cardinality(H) \in Nat /\ Cardinality(H \cup {c}) \in Nat
    BY <2>1, OneMore, FS_CardinalityType
  <2> QED BY <2>2 DEF H
<1>4. count.updates[a] \in Nat /\ count.supervisions \in Nat
  BY DEF Typed, Counts
<1> QED BY <1>2, <1>3, <1>4 DEF Budgeted

\* What a step of the work t does to t, except that of handing a call over.
LEMMA WorkKeepsOwner ==
    ASSUME QueueInv, NEW t \in Tasks, Work(t) \/ RoomLost(t), ~Notify(t)
    PROVE  /\ handed' = handed /\ count'.updates = count.updates
           /\ count'.supervisions = count.supervisions
           /\ \A u \in Tasks, a \in Agents : Brings(tasks'[u], a) => Brings(tasks[u], a)
<1>0. Typed /\ (Busy(t) => tasks[t] \in Task)
  BY DEF QueueInv, Typed, Busy
<1>1. /\ handed' = handed /\ count'.updates = count.updates
      /\ count'.supervisions = count.supervisions
  BY <1>0 DEF Work, Claim, Scan, Take, Release, ReadRow, RoomFound, RoomLost, Mark, SetBusy,
     RemoveEntry, Close, End, Typed, Counts
<1>2. /\ Busy(t)
      /\ \/ tasks' = [tasks EXCEPT ![t] = Idle]
         \/ \E w \in Task : /\ tasks' = [tasks EXCEPT ![t] = w]
                            /\ w.kind = tasks[t].kind /\ w.agent = tasks[t].agent
  <2>1. CASE Claim(t)
    <3>1. Busy(t) /\ {q \in Queues : active[q]} \in SUBSET Queues
      BY <2>1 DEF Claim, At
    <3>2. CASE presence[tasks[t].agent].status = "available"
      <4> DEFINE w == [tasks[t] EXCEPT !.pc = "scan", !.queues = {q \in Queues : active[q]}]
      <4>1. w \in Task /\ w.kind = tasks[t].kind /\ w.agent = tasks[t].agent
        BY <1>0, <3>1, Claiming
      <4>2. tasks' = [tasks EXCEPT ![t] = w]
        BY <2>1, <3>2 DEF Claim
      <4> HIDE DEF w
      <4> QED BY <3>1, <4>1, <4>2
    <3>3. CASE presence[tasks[t].agent].status # "available"
      BY <2>1, <3>1, <3>3 DEF Claim, Finish
    <3> QED BY <3>2, <3>3
  <2>2. CASE Scan(t)
    <3>1. Busy(t)
      BY <2>2 DEF Scan, At
    <3>2. CASE tasks[t].queues = {}
      <4>1. Goto(t, "release") /\ "release" \in Steps
        BY <2>2, <3>2 DEF Scan, Steps
      <4> QED BY <1>0, <3>1, <4>1, Going DEF Becomes
    <3>3. CASE tasks[t].queues # {}
      <4>1. PICK q \in tasks[t].queues :
              LET list == {c \in InQueue(q) : <<tasks[t].agent, c>> \in Skilled}
              IN  tasks' = [tasks EXCEPT ![t] =
                     [tasks[t] EXCEPT !.queues = @ \ {q}, !.list = list,
                                      !.pc = IF list = {} THEN "scan" ELSE "take"]]
        BY <2>2, <3>3 DEF Scan
      <4> DEFINE list == {c \in InQueue(q) : <<tasks[t].agent, c>> \in Skilled}
                 pc == IF list = {} THEN "scan" ELSE "take"
      <4>2. list \in SUBSET Calls /\ pc \in Steps /\ tasks[t].queues \ {q} \in SUBSET Queues
        BY <1>0, <3>1 DEF InQueue, Typed, Steps, Task
      <4>3. tasks' = [tasks EXCEPT ![t] = [tasks[t] EXCEPT !.queues = @ \ {q}, !.list = list,
                                                           !.pc = pc]]
        BY <4>1
      <4> HIDE DEF list, pc
      <4>4. LET w == [tasks[t] EXCEPT !.queues = @ \ {q}, !.list = list, !.pc = pc]
            IN  w \in Task /\ w.kind = tasks[t].kind /\ w.agent = tasks[t].agent
        BY <1>0, <3>1, <4>2 DEF Task
      <4> QED BY <3>1, <4>3, <4>4
    <3> QED BY <3>2, <3>3
  <2>3. CASE Take(t)
    <3>1. Busy(t) /\ tasks[t] \in Task
      BY <1>0, <2>3 DEF Take, At
    <3> DEFINE c == Oldest(tasks[t].list)
               rest == tasks[t].list \ {c}
               pc == IF rest = {} THEN "scan" ELSE "take"
    <3>2. rest \in SUBSET Calls /\ pc \in Steps
      BY <3>1 DEF Task, Steps
    <3>3. tasks' = [tasks EXCEPT ![t] =
               IF c \in line
               THEN [tasks[t] EXCEPT !.list = {}, !.pc = "read", !.call = c]
               ELSE [tasks[t] EXCEPT !.list = rest, !.pc = pc]]
      BY <2>3 DEF Take
    <3> HIDE DEF c, rest, pc
    <3>4. CASE c \in line
      <4>1. c \in Calls
        BY <1>0, <3>4 DEF Typed
      <4> DEFINE w == [tasks[t] EXCEPT !.list = {}, !.pc = "read", !.call = c]
      <4>2. w \in Task /\ w.kind = tasks[t].kind /\ w.agent = tasks[t].agent
        BY <3>1, <4>1, Taking
      <4>3. tasks' = [tasks EXCEPT ![t] = w]
        BY <3>3, <3>4
      <4> HIDE DEF w
      <4> QED BY <3>1, <4>2, <4>3
    <3>5. CASE c \notin line
      <4>1. LET w == [tasks[t] EXCEPT !.list = rest, !.pc = pc]
            IN  w \in Task /\ w.kind = tasks[t].kind /\ w.agent = tasks[t].agent
        BY <3>1, <3>2 DEF Task
      <4> QED BY <3>1, <3>3, <3>5, <4>1
    <3> QED BY <3>4, <3>5
  <2>4. CASE Release(t)
    BY <2>4 DEF Release, At, Finish
  <2>5. CASE ReadRow(t) \/ RoomLost(t) \/ Mark(t)
    <3>1. Busy(t) /\ (GiveUp(t) \/ Goto(t, "room") \/ Goto(t, "busy"))
      BY <2>5 DEF ReadRow, RoomLost, Mark, At
    <3>2. "room" \in Steps /\ "busy" \in Steps
      BY DEF Steps
    <3>3. CASE GiveUp(t)
      <4>1. \/ Becomes(t, Idle)
            \/ \E w \in Task : /\ Becomes(t, w) /\ w.agent = tasks[t].agent
                               /\ w.kind = "assign" /\ tasks[t].kind = "assign"
        BY <1>0, <3>1, <3>3, GivingUp, IdleIsNoTask DEF GiveUp, Finish, Becomes, Typed
      <4> QED BY <3>1, <4>1 DEF Becomes
    <3>4. CASE Goto(t, "room") \/ Goto(t, "busy")
      BY <1>0, <3>1, <3>2, <3>4, Going DEF Becomes
    <3> QED BY <3>1, <3>3, <3>4
  <2>6. CASE RoomFound(t) \/ SetBusy(t) \/ RemoveEntry(t) \/ Close(t)
    <3>1. Busy(t) /\ \E pc \in {"mark", "notify", "read", "close", "end"} : Goto(t, pc)
      BY <2>6 DEF RoomFound, SetBusy, RemoveEntry, Close, At
    <3>2. {"mark", "notify", "read", "close", "end"} \subseteq Steps
      BY DEF Steps
    <3> QED BY <1>0, <3>1, <3>2, Going DEF Becomes
  <2>7. CASE End(t)
    <3>1. Busy(t) /\ NextEntry(t)
      BY <2>7 DEF End, At
    <3>2. CASE tasks[t].list = {}
      BY <3>1, <3>2 DEF NextEntry, Finish
    <3>3. CASE tasks[t].list # {}
      <4>1. PICK c \in tasks[t].list :
              tasks' = [tasks EXCEPT ![t] =
                         [tasks[t] EXCEPT !.call = c, !.list = @ \ {c}, !.pc = "remove"]]
        BY <3>1, <3>3 DEF NextEntry
      <4> DEFINE w == [tasks[t] EXCEPT !.call = c, !.list = @ \ {c}, !.pc = "remove"]
      <4>2. w \in Task /\ w.kind = tasks[t].kind /\ w.agent = tasks[t].agent
        BY <1>0, <3>1, Proceeding
      <4>3. tasks' = [tasks EXCEPT ![t] = w]
        BY <4>1
      <4> HIDE DEF w
      <4> QED BY <3>1, <4>2, <4>3
    <3> QED BY <3>2, <3>3
  <2> QED BY <2>1, <2>2, <2>3, <2>4, <2>5, <2>6, <2>7 DEF Work
<1>3. \A u \in Tasks, a \in Agents : Brings(tasks'[u], a) => Brings(tasks[u], a)
  BY <1>0, <1>2 DEF Brings, Busy, Typed
<1> QED BY <1>1, <1>3

LEMMA BudgetNext ==
    ASSUME QueueInv, QueueInv', Budget, [Next]_vars
    PROVE  Budget'
<1>0. Typed /\ Typed'
  BY DEF QueueInv
<1> SUFFICES ASSUME NEW a \in Agents PROVE Budgeted(a)'
  BY DEF Budget
<1>1. Budgeted(a) /\ handed \in [Agents -> SUBSET Calls]
  BY <1>0 DEF Budget, Typed
<1>2. /\ count.updates[a] \in Nat /\ count.supervisions \in Nat
  BY <1>0 DEF Typed, Counts
<1>3. ASSUME NEW t \in Tasks, Work(t) \/ RoomLost(t)
      PROVE  Budgeted(a)'
  <2>1. CASE ~Notify(t)
    BY <1>0, <1>1, <1>2, <1>3, <2>1, WorkKeepsOwner, BudgetStays
  <2>2. CASE Notify(t)
    <3>1. /\ tasks' = [tasks EXCEPT ![t] = Idle] /\ count' = count /\ Busy(t)
          /\ handed' = [handed EXCEPT ![tasks[t].agent] = @ \cup {tasks[t].call}]
          /\ tasks[t].pc = "notify"
      BY <2>2 DEF Notify, Finish, At
    <3>2. tasks'[t] = Idle /\ \A u \in Tasks : u # t => tasks'[u] = tasks[u]
      BY <1>0, <3>1 DEF Typed
    <3>3. CASE tasks[t].agent # a
      <4>1. handed'[a] = handed[a]
        BY <1>1, <3>1, <3>3
      <4>2. \A u \in Tasks : Brings(tasks'[u], a) => Brings(tasks[u], a)
        BY <3>2 DEF Brings
      <4> QED BY <1>0, <1>1, <1>2, <3>1, <4>1, <4>2, BudgetStays
    <3>4. CASE tasks[t].agent = a
      <4>1. handed'[a] = handed[a] \cup {tasks[t].call}
        BY <1>1, <3>1, <3>4
      <4>2. Brings(tasks[t], a)
        BY <3>1, <3>4 DEF Brings, Busy
      <4> QED BY <1>0, <1>1, <3>1, <3>2, <4>1, <4>2, BudgetSpent
    <3> QED BY <3>3, <3>4
  <2> QED BY <2>1, <2>2
<1>4. ASSUME NEW t \in Tasks, NEW c \in Calls, NEW b \in Agents, Supervise(t, c, b)
      PROVE  Budgeted(a)'
  <2>1. /\ \A u \in Tasks : u # t => tasks'[u] = tasks[u]
        /\ tasks'[t].agent = b /\ handed' = handed
        /\ count'.updates = count.updates /\ count'.supervisions = count.supervisions + 1
    BY <1>0, <1>4 DEF Supervise, WorkOn, Begin, Typed, Counts
  <2> QED BY <1>0, <1>1, <1>2, <2>1, BudgetBegins
<1>5. ASSUME NEW t \in Tasks, \/ \E c \in Calls : Abandon(t, c)
                              \/ \E q \in Queues : Sweep(t, q)
      PROVE  Budgeted(a)'
  <2>1. /\ \A u \in Tasks : u # t => tasks'[u] = tasks[u]
        /\ tasks'[t].agent = NoAgent /\ handed' = handed /\ count' = count
    BY <1>0, <1>5 DEF Abandon, Sweep, WorkOn, Begin, Typed
  <2>2. \A u \in Tasks : Brings(tasks'[u], a) => Brings(tasks[u], a)
    BY <2>1, AcdAssumption DEF Brings
  <2> QED BY <1>0, <1>1, <1>2, <2>1, <2>2, BudgetStays
<1>6. ASSUME NEW b \in Agents, NEW status \in {"available", "away"}, SetPresence(b, status)
      PROVE  Budgeted(a)'
  <2>1. CASE status # "available"
    <3>1. UNCHANGED <<tasks, count, handed>>
      BY <1>6, <2>1 DEF SetPresence
    <3> QED BY <1>0, <1>1, <1>2, <3>1, BudgetStays
  <2>2. CASE status = "available"
    <3>1. PICK t \in Tasks : /\ \A u \in Tasks : u # t => tasks'[u] = tasks[u]
                             /\ tasks'[t].agent = b
      BY <1>0, <1>6, <2>2 DEF SetPresence, Begin, Typed
    <3>2. /\ handed' = handed /\ count'.supervisions = count.supervisions
          /\ count'.updates = [count.updates EXCEPT ![b] = @ + 1]
          /\ count.updates \in [Agents -> Nat]
      BY <1>0, <1>6, <2>2 DEF SetPresence, Typed, Counts
    <3>3. CASE b = a
      <4>1. count'.updates[a] = count.updates[a] + 1
        BY <3>2, <3>3
      <4> QED BY <1>0, <1>1, <1>2, <3>1, <3>2, <4>1, BudgetBegins
    <3>4. CASE b # a
      <4>1. count'.updates[a] = count.updates[a]
        BY <3>2, <3>4
      <4>2. \A u \in Tasks : Brings(tasks'[u], a) => Brings(tasks[u], a)
        BY <3>1, <3>4 DEF Brings
      <4> QED BY <1>0, <1>1, <1>2, <3>2, <4>1, <4>2, BudgetStays
    <3> QED BY <3>3, <3>4
  <2> QED BY <2>1, <2>2
<1>7. CASE \/ \E c \in Calls : Join(c) \/ Age(c) \/ HangUp(c)
           \/ \E q \in Queues : SetActive(q)
           \/ UNCHANGED vars
  <2>1. /\ tasks' = tasks /\ handed' = handed /\ count'.updates = count.updates
        /\ count'.supervisions = count.supervisions
    BY <1>0, <1>7 DEF Join, JoinCheck, JoinReject, JoinInsert, JoinAdd, Age, HangUp,
       SetActive, vars, Typed, Counts
  <2> QED BY <1>0, <1>1, <1>2, <2>1, BudgetStays
<1>8. CASE Crash
  <2>1. /\ \A u \in Tasks : tasks'[u] = Idle \/ tasks'[u] = tasks[u]
        /\ handed' = handed /\ count'.updates = count.updates
        /\ count'.supervisions = count.supervisions
    BY <1>0, <1>8 DEF Crash, Finish, Typed, Counts
  <2>2. \A u \in Tasks : Brings(tasks'[u], a) => Brings(tasks[u], a)
    BY <2>1 DEF Brings
  <2> QED BY <1>0, <1>1, <1>2, <2>1, <2>2, BudgetStays
<1> QED BY <1>3, <1>4, <1>5, <1>6, <1>7, <1>8 DEF Next

LEMMA BudgetInit == Init => Budget
<1> SUFFICES ASSUME Init, NEW a \in Agents PROVE Budgeted(a)
  BY DEF Budget
<1>1. handed[a] = {} /\ Owners(a) = {}
  BY DEF Init, Owners, Brings
<1>2. count.updates[a] = 0 /\ count.supervisions = 0
  BY DEF Init
<1> QED BY <1>1, <1>2, FS_EmptySet DEF Budgeted

LEMMA BudgetEnough ==
    ASSUME QueueInv, Budget
    PROVE  OneCallPerAvailability
<1> SUFFICES ASSUME NEW a \in Agents
             PROVE  Cardinality(handed[a]) + Cardinality(Claims(a))
                      <= count.updates[a] + count.supervisions
  BY DEF OneCallPerAvailability
<1>1. Claims(a) \in SUBSET Owners(a)
  BY DEF Claims, Owners, Brings, Busy
<1>2. /\ Cardinality(Claims(a)) <= Cardinality(Owners(a))
      /\ Cardinality(Claims(a)) \in Nat /\ Cardinality(Owners(a)) \in Nat
  BY <1>1, OwnersFinite, FS_Subset, FS_CardinalityType
<1>3. /\ Cardinality(handed[a]) \in Nat
      /\ Cardinality(handed[a]) + Cardinality(Owners(a))
           <= count.updates[a] + count.supervisions
  BY FS_CardinalityType DEF Budget, Budgeted
<1>4. count.updates[a] \in Nat /\ count.supervisions \in Nat
  BY DEF QueueInv, Typed, Counts
<1> QED BY <1>2, <1>3, <1>4

---------------------------------------------------------------------------
(* The theorems *)

LEMMA QueueInit == Init => QueueInv /\ Quiet
<1> SUFFICES ASSUME Init PROVE QueueInv /\ Quiet
  OBVIOUS
<1>1. Typed
  BY DEF Init, Typed, Counts, Statuses
<1>2. QueueInv
  BY <1>1 DEF Init, QueueInv, Busy, Joined
<1>3. Quiet
  BY DEF Init, Quiet, WaiterInv, ClaimInv, NoLostWaiter, NoStuckClaim, Waiting, Busy
<1> QED BY <1>2, <1>3

LEMMA QueueNext ==
    ASSUME QueueInv, [Next]_vars
    PROVE  QueueInv' /\ (MaxCrashes = 0 /\ Quiet => Quiet')
<1>1. ASSUME NEW t \in Tasks,
             \/ Work(t) \/ RoomLost(t)
             \/ \E c \in Calls, a \in Agents : Supervise(t, c, a)
             \/ \E c \in Calls : Abandon(t, c)
             \/ \E q \in Queues : Sweep(t, q)
      PROVE  QueueInv' /\ (MaxCrashes = 0 /\ Quiet => Quiet')
  <2>1. CASE Work(t)
    BY <2>1, WorkStep
  <2>2. CASE RoomLost(t)
    BY <2>2, RoomLostStep
  <2> QED BY <1>1, <2>1, <2>2, WaitingStep
<1>2. CASE \E c \in Calls : Join(c)
  BY <1>2, JoinStep
<1>3. CASE \E a \in Agents, status \in {"available", "away"} : SetPresence(a, status)
  BY <1>3, PresenceStep
<1>4. CASE \/ \E c \in Calls : Age(c) \/ HangUp(c)
           \/ \E q \in Queues : SetActive(q)
           \/ UNCHANGED vars
  BY <1>4, SurroundingStep
<1>5. CASE Crash
  BY <1>5, CrashStep
<1> QED BY <1>1, <1>2, <1>3, <1>4, <1>5 DEF Next

\* A call handed to an agent is that agent's in the row, for good: however runs
\* and supervisors race and whatever dies, no call is handed to two agents
\* (the conditional update of assignCallToAgent).
THEOREM HandedToOne == Spec => []HandedCallsRecorded
<1>1. Init => QueueInv
  BY QueueInit
<1>2. QueueInv /\ [Next]_vars => QueueInv'
  BY QueueNext
<1>3. QueueInv => HandedCallsRecorded
  BY DEF QueueInv, HandedCallsRecorded
<1> QED BY <1>1, <1>2, <1>3, PTL DEF Spec

\* While nothing dies half way, every waiting call can be found: in the line, in
\* a join that will add it, or in the hands of the work that removed it.
THEOREM NoWaiterIsLost ==
    ASSUME MaxCrashes = 0
    PROVE  Spec => []NoLostWaiter
<1>1. Init => QueueInv /\ Quiet
  BY QueueInit
<1>2. (QueueInv /\ Quiet) /\ [Next]_vars => (QueueInv /\ Quiet)'
  BY QueueNext
<1>3. QueueInv /\ Quiet => NoLostWaiter
  BY DEF Quiet, WaiterInv
<1> QED BY <1>1, <1>2, <1>3, PTL DEF Spec

\* While nothing dies half way, an agent the queues made busy has a call, or a
\* run that will bring one or give the claim back.
THEOREM NoClaimIsStuck ==
    ASSUME MaxCrashes = 0
    PROVE  Spec => []NoStuckClaim
<1>1. Init => QueueInv /\ Quiet
  BY QueueInit
<1>2. (QueueInv /\ Quiet) /\ [Next]_vars => (QueueInv /\ Quiet)'
  BY QueueNext
<1>3. QueueInv /\ Quiet => NoStuckClaim
  BY DEF Quiet, ClaimInv
<1> QED BY <1>1, <1>2, <1>3, PTL DEF Spec

\* However assignment runs and supervisors race, and whatever dies, reporting
\* "available" once brings an agent at most one call (tryAssignQueuedCallToAgent).
THEOREM OneCallPerUpdate == Spec => []OneCallPerAvailability
<1>1. Init => QueueInv /\ Budget
  BY QueueInit, BudgetInit
<1>2. (QueueInv /\ Budget) /\ [Next]_vars => (QueueInv /\ Budget)'
  BY QueueNext, BudgetNext
<1>3. QueueInv /\ Budget => OneCallPerAvailability
  BY BudgetEnough
<1> QED BY <1>1, <1>2, <1>3, PTL DEF Spec
=============================================================================
