--------------------------- MODULE CheckoutProofs ---------------------------
(***************************************************************************)
(* What TLAPS proves of a purchase and its refunds, for any number of        *)
(* handlers, requests and crashes: what is marked as provided was provided;  *)
(* if all instances reach the same Redis, a top-up is credited once unless    *)
(* both a handler died and a completed status was overwritten; and the same   *)
(* idempotency key moves money once, as long as the gateway's answers arrive. *)
(***************************************************************************)
EXTENDS Refunds, Sums, TLAPS

\* A refund touches the checkout in two ways: it sets the transaction's
\* status, or its handler dies.
RefundsStatus ==
    /\ \E status \in {"refunded", "partially_refunded"} : SetStatus(status)
    /\ UNCHANGED <<kind, captured, owed, lock, tasks, granted, active>>

LEMMA StepOfCheckout ==
    ASSUME [Next]_vars
    PROVE  CheckoutNext \/ RefundsStatus \/ CountCrash \/ UNCHANGED checkout
<1>1. \A total : StatusFor(total) \in {"refunded", "partially_refunded"}
  BY DEF StatusFor
<1>2. CASE \E r \in Requests : SetRefunded(r)
  BY <1>1, <1>2 DEF SetRefunded, RefundsStatus
<1>3. CASE \E g \in Refs : Acknowledge(g)
  BY <1>1, <1>3 DEF Acknowledge, RefundsStatus
<1>4. CASE \E r \in Requests : Read(r) \/ Sum(r) \/ InsertRow(r) \/ Refused(r) \/ Record(r)
                               \/ Fail(r) \/ Break(r) \/ \E g \in Refs : Refund(r, g)
  BY <1>4 DEF Read, Sum, InsertRow, Refund, Refused, Record, Fail, Break
<1>5. CASE \E g \in Refs : RefundOutside(g) \/ Find(g) \/ Write(g) \/ Total(g)
  BY <1>5 DEF RefundOutside, Find, Write, Total
<1>6. CASE \/ \E r \in Requests : Die(r)
           \/ \E g \in Refs : DieHearing(g)
  BY <1>6 DEF Die, DieHearing
<1> QED
  BY <1>2, <1>3, <1>4, <1>5, <1>6 DEF Next, vars, Go, Hear

---------------------------------------------------------------------------
(* The state is well formed *)

LEMMA TaskRecord ==
    ASSUME NEW op \in {"verify", "captured"}, NEW pc \in Steps, NEW copy \in Transaction
    PROVE  [op |-> op, pc |-> pc, copy |-> copy] \in Task
<1>1. [op |-> op, pc |-> pc, copy |-> copy] \in
        [op : {"verify", "captured"}, pc : Steps, copy : Transaction]
  OBVIOUS
<1> QED BY <1>1 DEF Task

LEMMA TaskSet ==
    ASSUME CheckoutTypeOK, NEW t \in Tasks, NEW new \in Task,
           tasks' = [tasks EXCEPT ![t] = new]
    PROVE  /\ tasks' \in [Tasks -> Task]
           /\ tasks'[t] = new
           /\ \A u \in Tasks : u # t => tasks'[u] = tasks[u]
<1>1. tasks \in [Tasks -> Task]
  BY DEF CheckoutTypeOK
<1> QED BY <1>1

\* What Begin, Continue and Return do to the tasks.
LEMMA Begins ==
    ASSUME CheckoutTypeOK, NEW t \in Tasks, NEW op \in {"verify", "captured"},
           NEW pc \in Steps, Begin(t, op, pc)
    PROVE  /\ tasks[t] = Idle
           /\ tasks' \in [Tasks -> Task]
           /\ tasks'[t] # Idle /\ tasks'[t].pc = pc /\ tasks'[t].copy = tx
           /\ \A u \in Tasks : u # t => tasks'[u] = tasks[u]
<1> DEFINE new == [op |-> op, pc |-> pc, copy |-> tx]
<1>1. tx \in Transaction
  BY DEF CheckoutTypeOK
<1>2. new \in Task
  BY <1>1, TaskRecord
<1>3. new # Idle
  BY DEF Idle
<1>4. new.pc = pc /\ new.copy = tx
  OBVIOUS
<1>5. tasks[t] = Idle /\ tasks' = [tasks EXCEPT ![t] = new]
  BY DEF Begin
<1> HIDE DEF new
<1>6. /\ tasks' \in [Tasks -> Task]
      /\ tasks'[t] = new
      /\ \A u \in Tasks : u # t => tasks'[u] = tasks[u]
  BY <1>2, <1>5, TaskSet
<1> QED BY <1>3, <1>4, <1>5, <1>6

LEMMA Continues ==
    ASSUME CheckoutTypeOK, NEW t \in Tasks, tasks[t] # Idle, NEW pc \in Steps,
           NEW copy \in Transaction, Continue(t, pc, copy)
    PROVE  /\ tasks' \in [Tasks -> Task]
           /\ tasks'[t] # Idle /\ tasks'[t].pc = pc /\ tasks'[t].copy = copy
           /\ \A u \in Tasks : u # t => tasks'[u] = tasks[u]
<1> DEFINE new == [op |-> tasks[t].op, pc |-> pc, copy |-> copy]
<1>1. tasks[t] \in [op : {"verify", "captured"}, pc : Steps, copy : Transaction]
  BY DEF CheckoutTypeOK, Task
<1>2. tasks[t].op \in {"verify", "captured"}
  BY <1>1
<1>3. new \in Task
  BY <1>2, TaskRecord
<1>4. new # Idle
  BY DEF Idle
<1>5. new.pc = pc /\ new.copy = copy
  OBVIOUS
<1>6. tasks' = [tasks EXCEPT ![t] = new]
  BY DEF Continue
<1> HIDE DEF new
<1>7. /\ tasks' \in [Tasks -> Task]
      /\ tasks'[t] = new
      /\ \A u \in Tasks : u # t => tasks'[u] = tasks[u]
  BY <1>3, <1>6, TaskSet
<1> QED BY <1>4, <1>5, <1>7

\* A handler ends.
LEMMA Ends ==
    ASSUME CheckoutTypeOK, NEW t \in Tasks, tasks' = [tasks EXCEPT ![t] = Idle]
    PROVE  /\ tasks' \in [Tasks -> Task]
           /\ tasks'[t] = Idle
           /\ \A u \in Tasks : u # t => tasks'[u] = tasks[u]
<1>1. Idle \in Task
  BY DEF Task
<1> QED BY <1>1, TaskSet

\* What a handler that is not idle holds.
LEMMA Copies ==
    ASSUME CheckoutTypeOK, NEW t \in Tasks, tasks[t] # Idle
    PROVE  tasks[t].copy \in Transaction /\ tasks[t].pc \in Steps
<1>1. tasks[t] \in [op : {"verify", "captured"}, pc : Steps, copy : Transaction]
  BY DEF CheckoutTypeOK, Task
<1> QED BY <1>1

\* What a write to the transaction leaves of it.
LEMMA Fields ==
    ASSUME NEW c \in Transaction
    PROVE  c.status \in Statuses /\ c.paid \in BOOLEAN /\ c.prov \in BOOLEAN
BY DEF Transaction

LEMMA StatusWritten ==
    ASSUME NEW c \in Transaction, NEW status \in Statuses
    PROVE  LET d == [c EXCEPT !.status = status]
           IN  d \in Transaction /\ d.status = status /\ d.paid = c.paid /\ d.prov = c.prov
BY DEF Transaction

LEMMA ProvWritten ==
    ASSUME NEW c \in Transaction
    PROVE  LET d == [c EXCEPT !.prov = TRUE]
           IN  d \in Transaction /\ d.status = c.status /\ d.paid = c.paid /\ d.prov = TRUE
BY DEF Transaction

LEMMA Completing ==
    ASSUME NEW c \in Transaction, NEW prov \in BOOLEAN
    PROVE  LET d == [c EXCEPT !.status = "completed", !.paid = TRUE, !.prov = prov]
           IN  /\ d \in Transaction /\ d.status = "completed" /\ d.paid = TRUE
               /\ d.prov = prov
BY DEF Transaction, Statuses

LEMMA Placing ==
    ASSUME NEW c \in Transaction, NEW placed \in BOOLEAN
    PROVE  LET d == [c EXCEPT !.status = "pending", !.order = placed]
           IN  d \in Transaction /\ d.status = "pending" /\ d.paid = c.paid /\ d.prov = c.prov
BY DEF Transaction, Statuses

\* Only the handler t moves.
Moves(t) ==
    /\ tasks' \in [Tasks -> Task]
    /\ \A u \in Tasks : u # t => tasks'[u] = tasks[u]
    /\ lock' \in Tasks \cup {Free, Orphan}
    /\ owed' \in BOOLEAN

LEMMA Returns ==
    ASSUME CheckoutTypeOK, NEW t \in Tasks, Return(t)
    PROVE  Moves(t) /\ tasks'[t] = Idle
<1>1. tasks' = [tasks EXCEPT ![t] = Idle]
  BY DEF Return
<1>2. lock' \in Tasks \cup {Free, Orphan}
  BY DEF Return, CheckoutTypeOK
<1>3. owed' \in BOOLEAN
  BY DEF Return, CheckoutTypeOK
<1> QED BY <1>1, <1>2, <1>3, Ends DEF Moves

LEMMA Provisions ==
    ASSUME CheckoutTypeOK, NEW t \in Tasks, tasks[t] # Idle, NEW copy \in Transaction,
           Provision(t, copy)
    PROVE  /\ Moves(t)
           /\ \/ Return(t) /\ tasks'[t] = Idle
              \/ /\ ~copy.prov /\ UNCHANGED lock
                 /\ tasks'[t] # Idle /\ tasks'[t].pc = FirstStep /\ tasks'[t].copy = copy
<1>1. CASE copy.prov
  <2>1. Return(t)
    BY <1>1 DEF Provision
  <2> QED BY <2>1, Returns
<1>2. CASE ~copy.prov
  <2>1. Continue(t, FirstStep, copy) /\ UNCHANGED <<lock, owed>>
    BY <1>2 DEF Provision
  <2>2. FirstStep \in Steps
    BY DEF FirstStep, Steps
  <2>3. lock' \in Tasks \cup {Free, Orphan} /\ owed' \in BOOLEAN
    BY <2>1 DEF CheckoutTypeOK
  <2> QED BY <1>2, <2>1, <2>2, <2>3, Continues DEF Moves
<1> QED BY <1>1, <1>2

LEMMA Counting ==
    ASSUME NEW p \in Past
    PROVE  /\ p.crashes \in Nat /\ p.undone \in BOOLEAN /\ p.forfeited \in BOOLEAN
           /\ LET d == [p EXCEPT !.crashes = @ + 1]
              IN  /\ d \in Past /\ d.crashes = p.crashes + 1
                  /\ d.undone = p.undone /\ d.forfeited = p.forfeited
BY DEF Past

LEMMA Forfeiting ==
    ASSUME NEW p \in Past, NEW forfeited \in BOOLEAN
    PROVE  LET d == [p EXCEPT !.crashes = @ + 1, !.forfeited = forfeited]
           IN  /\ d \in Past /\ d.crashes = p.crashes + 1
               /\ d.undone = p.undone /\ d.forfeited = forfeited
<1> DEFINE counted == [p EXCEPT !.crashes = p.crashes + 1]
           d == [counted EXCEPT !.forfeited = forfeited]
<1>1. /\ counted \in Past /\ counted.crashes = p.crashes + 1
      /\ counted.undone = p.undone
  BY Counting
<1>2. d = [p EXCEPT !.crashes = @ + 1, !.forfeited = forfeited]
  BY DEF Past
<1> HIDE DEF counted
<1>3. /\ d \in Past /\ d.crashes = counted.crashes
      /\ d.undone = counted.undone /\ d.forfeited = forfeited
  BY <1>1 DEF Past
<1> QED BY <1>1, <1>2, <1>3

\* A change of the status that is no provisioning.
LEMMA Statused ==
    ASSUME CheckoutTypeOK, NEW status \in Statuses, SetStatus(status)
    PROVE  /\ tx' \in Transaction /\ past' \in Past
           /\ tx'.status = status /\ tx'.paid = tx.paid /\ tx'.prov = tx.prov
           /\ past'.undone = (past.undone \/ tx.paid)
           /\ past'.crashes = past.crashes /\ past'.forfeited = past.forfeited
<1>1. tx \in Transaction /\ past \in Past
  BY DEF CheckoutTypeOK
<1>2. tx' = [tx EXCEPT !.status = status]
  BY DEF SetStatus
<1>3. tx.paid \in BOOLEAN /\ past.undone \in BOOLEAN
  BY <1>1 DEF Transaction, Past
<1>4. (past.undone \/ tx.paid) \in BOOLEAN
  BY <1>3
<1>5. past' = [past EXCEPT !.undone = past.undone \/ tx.paid]
  BY DEF SetStatus
<1>6. /\ past' \in Past
      /\ past'.undone = (past.undone \/ tx.paid)
      /\ past'.crashes = past.crashes /\ past'.forfeited = past.forfeited
  BY <1>1, <1>4, <1>5 DEF Past
<1>7. tx' \in Transaction /\ tx'.status = status /\ tx'.paid = tx.paid /\ tx'.prov = tx.prov
  BY <1>1, <1>2, StatusWritten
<1> QED BY <1>6, <1>7

LEMMA Stays ==
    ASSUME CheckoutTypeOK, UNCHANGED checkout
    PROVE  CheckoutTypeOK'
BY DEF CheckoutTypeOK, checkout, At

LEMMA TypeInit == ASSUME CheckoutInit PROVE CheckoutTypeOK
<1>1. tx \in Transaction
  BY DEF CheckoutInit, Transaction, Statuses
<1>2. tasks \in [Tasks -> Task]
  BY DEF CheckoutInit, Task
<1>3. past \in Past
  BY DEF CheckoutInit, Past
<1> QED BY <1>1, <1>2, <1>3 DEF CheckoutInit, CheckoutTypeOK

LEMMA TypeHandle ==
    ASSUME CheckoutTypeOK, NEW t \in Tasks, Handle(t)
    PROVE  CheckoutTypeOK' /\ Moves(t)
<1>0. /\ kind \in Kinds /\ tx \in Transaction /\ captured \in BOOLEAN /\ owed \in BOOLEAN
      /\ lock \in Tasks \cup {Free, Orphan} /\ tasks \in [Tasks -> Task]
      /\ granted \in Nat /\ active \in Nat /\ past \in Past
  BY DEF CheckoutTypeOK
<1> {"reject", "lock", "fresh", "complete", "claim", "credit", "cancel", "insert", "mark"}
      \subseteq Steps
  BY DEF Steps
<1> {"failed", "completed"} \subseteq Statuses
  BY DEF Statuses
<1> SUFFICES /\ Moves(t) /\ tx' \in Transaction /\ past' \in Past
             /\ granted' \in Nat /\ active' \in Nat
             /\ UNCHANGED <<kind, captured>>
  BY <1>0 DEF CheckoutTypeOK, Moves
<1>1. CASE Reject(t)
  BY <1>0, <1>1, Returns, Statused DEF Reject
<1>2. CASE TakeLock(t)
  <2>1. Continue(t, "fresh", tasks[t].copy) /\ tasks[t] # Idle
    BY <1>2 DEF TakeLock, At
  <2>2. lock' \in Tasks \cup {Free, Orphan} /\ owed' \in BOOLEAN
    BY <1>0, <1>2 DEF TakeLock
  <2>3. Moves(t)
    BY <2>1, <2>2, Copies, Continues DEF Moves
  <2> QED BY <1>0, <1>2, <2>3 DEF TakeLock
<1>3. CASE LockBusy(t)
  <2>1. Moves(t)
    BY <1>0, <1>3, Ends DEF LockBusy, Moves
  <2> QED BY <1>0, <1>3, <2>1 DEF LockBusy
<1>4. CASE Fresh(t)
  <2>1. CASE tx.status = "completed"
    BY <1>0, <1>4, <2>1, Provisions DEF Fresh, At
  <2>2. CASE tx.status # "completed"
    <3>1. Continue(t, "complete", tx) /\ tasks[t] # Idle /\ UNCHANGED <<lock, owed>>
      BY <1>4, <2>2 DEF Fresh, At
    <3>2. Moves(t)
      BY <1>0, <3>1, Continues DEF Moves
    <3> QED BY <1>0, <1>4, <3>2 DEF Fresh
  <2> QED BY <2>1, <2>2
<1>5. CASE Complete(t)
  <2>1. tasks[t] # Idle /\ tasks[t].copy \in Transaction
    BY <1>5, Copies DEF Complete, At
  <2>2. tx' \in Transaction
    BY <1>0, <1>5, <2>1, Fields, Completing DEF Complete
  <2>3. Moves(t)
    BY <1>5, <2>1, <2>2, Provisions DEF Complete
  <2> QED BY <1>0, <1>5, <2>2, <2>3 DEF Complete
<1>6. CASE Claim(t)
  <2>1. CASE tx.prov
    BY <1>0, <1>6, <2>1, Returns DEF Claim
  <2>2. CASE ~tx.prov
    <3>1. tx' \in Transaction
      BY <1>0, <1>6, <2>2, ProvWritten DEF Claim
    <3>2. Continue(t, "credit", tx') /\ tasks[t] # Idle /\ UNCHANGED <<lock, owed>>
      BY <1>6, <2>2 DEF Claim, At
    <3>3. Moves(t)
      BY <1>0, <3>1, <3>2, Continues DEF Moves
    <3> QED BY <1>0, <1>6, <3>1, <3>3 DEF Claim
  <2> QED BY <2>1, <2>2
<1>7. CASE Credit(t)
  BY <1>0, <1>7, Returns DEF Credit
<1>8. CASE Cancel(t)
  <2>1. Continue(t, "insert", tasks[t].copy) /\ tasks[t] # Idle /\ UNCHANGED <<lock, owed>>
    BY <1>8 DEF Cancel, At
  <2>2. Moves(t)
    BY <1>0, <2>1, Copies, Continues DEF Moves
  <2> QED BY <1>0, <1>8, <2>2 DEF Cancel
<1>9. CASE Insert(t)
  <2>1. Continue(t, "mark", tasks[t].copy) /\ tasks[t] # Idle /\ UNCHANGED <<lock, owed>>
    BY <1>9 DEF Insert, At
  <2>2. Moves(t)
    BY <1>0, <2>1, Copies, Continues DEF Moves
  <2> QED BY <1>0, <1>9, <2>2 DEF Insert
<1>10. CASE Mark(t)
  BY <1>0, <1>10, Returns, ProvWritten DEF Mark
<1> QED BY <1>1, <1>2, <1>3, <1>4, <1>5, <1>6, <1>7, <1>8, <1>9, <1>10 DEF Handle

LEMMA TypeCheckout ==
    ASSUME CheckoutTypeOK, CheckoutNext
    PROVE  CheckoutTypeOK'
<1>0. /\ kind \in Kinds /\ tx \in Transaction /\ captured \in BOOLEAN /\ owed \in BOOLEAN
      /\ lock \in Tasks \cup {Free, Orphan} /\ tasks \in [Tasks -> Task]
      /\ granted \in Nat /\ active \in Nat /\ past \in Past
  BY DEF CheckoutTypeOK
<1>1. CASE \E placed \in BOOLEAN : CreateOrder(placed)
  <2>1. PICK placed \in BOOLEAN : CreateOrder(placed)
    BY <1>1
  <2>2. tx' \in Transaction
    BY <1>0, <2>1, Placing DEF CreateOrder
  <2> QED BY <1>0, <2>1, <2>2 DEF CreateOrder, CheckoutTypeOK
<1>2. CASE Pay
  BY <1>0, <1>2 DEF Pay, CheckoutTypeOK
<1>3. CASE Failed
  <2>1. SetStatus("failed") /\ "failed" \in Statuses
    BY <1>3 DEF Failed, Statuses
  <2>2. tx' \in Transaction /\ past' \in Past
    BY <2>1, Statused
  <2> QED BY <1>0, <1>3, <2>2 DEF Failed, CheckoutTypeOK
<1>4. CASE Expire
  BY <1>0, <1>4 DEF Expire, CheckoutTypeOK
<1>5. CASE \E t \in Tasks : Handle(t)
  BY <1>5, TypeHandle
<1>6. CASE \E t \in Tasks : Crash(t)
  <2>1. PICK t \in Tasks : Crash(t)
    BY <1>6
  <2>2. At(t, "credit") \in BOOLEAN
    BY DEF At
  <2>3. (past.forfeited \/ At(t, "credit")) \in BOOLEAN
    BY <1>0, <2>2, Counting
  <2>4. past' \in Past
    BY <1>0, <2>1, <2>3, Forfeiting DEF Crash
  <2>5. tasks' \in [Tasks -> Task]
    BY <2>1, Ends DEF Crash
  <2> QED BY <1>0, <2>1, <2>4, <2>5 DEF Crash, CheckoutTypeOK
<1>7. CASE \E t \in Tasks : Captured(t) \/ \E good \in BOOLEAN : Verify(t, good)
  <2>1. PICK t \in Tasks : Captured(t) \/ \E good \in BOOLEAN : Verify(t, good)
    BY <1>7
  <2>2. {"lock", "reject", FirstStep} \subseteq Steps
    BY DEF FirstStep, Steps
  <2>3. tasks' \in [Tasks -> Task]
    BY <2>1, <2>2, Begins DEF Captured, Verify
  <2> QED BY <1>0, <2>1, <2>3 DEF Captured, Verify, CheckoutTypeOK
<1> QED BY <1>1, <1>2, <1>3, <1>4, <1>5, <1>6, <1>7 DEF CheckoutNext

LEMMA TypeStep ==
    ASSUME CheckoutTypeOK, [Next]_vars
    PROVE  CheckoutTypeOK'
<1>1. CASE CheckoutNext
  BY <1>1, TypeCheckout
<1>2. CASE RefundsStatus
  <2>1. PICK status \in {"refunded", "partially_refunded"} : SetStatus(status)
    BY <1>2 DEF RefundsStatus
  <2>2. status \in Statuses
    BY DEF Statuses
  <2>3. tx' \in Transaction /\ past' \in Past
    BY <2>1, <2>2, Statused
  <2> QED BY <1>2, <2>3 DEF RefundsStatus, CheckoutTypeOK
<1>3. CASE CountCrash
  <2>1. past' \in Past
    BY <1>3, Counting DEF CountCrash, CheckoutTypeOK
  <2> QED BY <1>3, <2>1 DEF CountCrash, CheckoutTypeOK
<1>4. CASE UNCHANGED checkout
  BY <1>4, Stays
<1> QED BY <1>1, <1>2, <1>3, <1>4, StepOfCheckout

\* The state of a purchase is well formed, whatever its refunds do.
THEOREM PurchaseTypeCorrect == Spec => []CheckoutTypeOK
<1>1. Init => CheckoutTypeOK
  BY TypeInit DEF Init
<1>2. CheckoutTypeOK /\ [Next]_vars => CheckoutTypeOK'
  BY TypeStep
<1> QED BY <1>1, <1>2, PTL DEF Spec

---------------------------------------------------------------------------
(* What is marked was provided *)

Provided ==
    \/ granted > 0 \/ past.forfeited
    \/ \E t \in Tasks : At(t, "credit")

\* The inductive invariant: a handler's copy says no more than the
\* transaction may, for it will be written back.
Marked ==
    /\ tx.prov => Provided
    /\ \A t \in Tasks : (tasks[t] # Idle /\ tasks[t].copy.prov) => Provided
    /\ \A t \in Tasks : At(t, "mark") => granted > 0

\* A step of the handler t that takes nothing back.
Keeps(t) ==
    /\ granted' \in Nat /\ granted' >= granted
    /\ past.forfeited => past'.forfeited
    /\ At(t, "credit") => (granted' > 0 \/ past'.forfeited)

LEMMA ProvidedStays ==
    ASSUME CheckoutTypeOK, NEW t \in Tasks, Keeps(t), Provided,
           \A u \in Tasks : u # t => tasks'[u] = tasks[u]
    PROVE  Provided'
<1>1. granted \in Nat
  BY DEF CheckoutTypeOK
<1>2. CASE granted > 0
  BY <1>1, <1>2 DEF Provided, Keeps
<1>3. CASE past.forfeited
  BY <1>3 DEF Provided, Keeps
<1>4. CASE \E u \in Tasks : At(u, "credit")
  <2>1. PICK u \in Tasks : At(u, "credit")
    BY <1>4
  <2>2. CASE u = t
    BY <2>1, <2>2 DEF Keeps, Provided
  <2>3. CASE u # t
    BY <2>1, <2>3 DEF Provided, At
  <2> QED BY <2>2, <2>3
<1> QED BY <1>2, <1>3, <1>4 DEF Provided

LEMMA MarkedKept ==
    ASSUME CheckoutTypeOK, Marked, NEW t \in Tasks, Keeps(t),
           \A u \in Tasks : u # t => tasks'[u] = tasks[u],
           tx'.prov => tx.prov \/ Provided',
           (tasks'[t] # Idle /\ tasks'[t].copy.prov) =>
               tx.prov \/ (tasks[t] # Idle /\ tasks[t].copy.prov) \/ Provided',
           (tasks'[t] # Idle /\ tasks'[t].pc = "mark") => granted' > 0
    PROVE  Marked'
<1>1. Provided => Provided'
  BY ProvidedStays
<1>2. tx'.prov => Provided'
  BY <1>1 DEF Marked
<1>3. ASSUME NEW u \in Tasks, tasks'[u] # Idle, tasks'[u].copy.prov
      PROVE  Provided'
  BY <1>1, <1>3 DEF Marked
<1>4. ASSUME NEW u \in Tasks, tasks'[u] # Idle, tasks'[u].pc = "mark"
      PROVE  granted' > 0
  <2>1. granted \in Nat
    BY DEF CheckoutTypeOK
  <2>2. CASE u = t
    BY <1>4, <2>2
  <2>3. CASE u # t
    <3>1. granted > 0
      BY <1>4, <2>3 DEF Marked, At
    <3> QED BY <2>1, <3>1 DEF Keeps
  <2> QED BY <2>2, <2>3
<1> QED BY <1>2, <1>3, <1>4 DEF Marked, At

\* The steps that no handler of the purchase takes.
LEMMA MarkedStays ==
    ASSUME Marked, tx'.prov = tx.prov, past'.forfeited = past.forfeited,
           UNCHANGED <<tasks, granted>>
    PROVE  Marked'
BY DEF Marked, Provided, At

LEMMA MarkedHandle ==
    ASSUME CheckoutTypeOK, Marked, NEW t \in Tasks, Handle(t)
    PROVE  Marked'
<1>0. /\ tx \in Transaction /\ granted \in Nat /\ past \in Past
      /\ Moves(t) /\ CheckoutTypeOK'
  BY TypeHandle DEF CheckoutTypeOK
<1>a. \A u \in Tasks : u # t => tasks'[u] = tasks[u]
  BY <1>0 DEF Moves
<1> {"failed"} \subseteq Statuses
  BY DEF Statuses
<1>1. CASE Reject(t)
  <2>1. Keeps(t)
    BY <1>0, <1>1, Statused DEF Reject, Keeps, At
  <2>2. tx'.prov = tx.prov /\ tasks'[t] = Idle
    BY <1>1, Statused, Returns DEF Reject
  <2> QED BY <1>a, <2>1, <2>2, MarkedKept
<1>2. CASE TakeLock(t)
  <2>1. Keeps(t) /\ tx' = tx
    BY <1>0, <1>2 DEF TakeLock, Keeps, At
  <2>2. Continue(t, "fresh", tasks[t].copy) /\ tasks[t] # Idle /\ "fresh" \in Steps
    BY <1>2 DEF TakeLock, At, Steps
  <2>3. tasks'[t].pc = "fresh" /\ tasks'[t].copy = tasks[t].copy
    BY <2>2, Copies, Continues
  <2> QED BY <1>a, <2>1, <2>2, <2>3, MarkedKept
<1>3. CASE LockBusy(t)
  <2>1. Keeps(t) /\ tx' = tx
    BY <1>0, <1>3 DEF LockBusy, Keeps, At
  <2>2. tasks'[t] = Idle
    BY <1>3, Ends DEF LockBusy
  <2> QED BY <1>a, <2>1, <2>2, MarkedKept
<1>4. CASE Fresh(t)
  <2>1. Keeps(t) /\ tx' = tx /\ tasks[t] # Idle
    BY <1>0, <1>4 DEF Fresh, Keeps, At
  <2>2. \/ tasks'[t] = Idle
        \/ tasks'[t].pc \in {FirstStep, "complete"} /\ tasks'[t].copy = tx
    <3>1. CASE tx.status = "completed"
      BY <1>0, <1>4, <2>1, <3>1, Provisions DEF Fresh
    <3>2. CASE tx.status # "completed"
      <4>1. Continue(t, "complete", tx) /\ "complete" \in Steps
        BY <1>4, <3>2 DEF Fresh, Steps
      <4> QED BY <1>0, <2>1, <4>1, Continues
    <3> QED BY <3>1, <3>2
  <2>3. "mark" \notin {FirstStep, "complete"}
    BY DEF FirstStep
  <2> QED BY <1>a, <2>1, <2>2, <2>3, MarkedKept
<1>5. CASE Complete(t)
  <2>1. Keeps(t) /\ tasks[t] # Idle /\ tasks[t].copy \in Transaction
    BY <1>0, <1>5, Copies DEF Complete, Keeps, At
  <2>2. tx' \in Transaction /\ tx'.prov = tasks[t].copy.prov
    BY <1>0, <1>5, <2>1, Fields, Completing DEF Complete
  <2>3. \/ tasks'[t] = Idle
        \/ tasks'[t].pc = FirstStep /\ tasks'[t].copy = tx'
    BY <1>5, <2>1, <2>2, Provisions DEF Complete
  <2>4. tx'.prov => Provided'
    BY <1>a, <2>1, <2>2, ProvidedStays DEF Marked
  <2>5. "mark" # FirstStep
    BY DEF FirstStep
  <2> QED BY <1>a, <2>1, <2>3, <2>4, <2>5, MarkedKept
<1>6. CASE Claim(t)
  <2>1. Keeps(t) /\ tasks[t] # Idle
    BY <1>0, <1>6 DEF Claim, Keeps, At
  <2>2. CASE tx.prov
    <3>1. tx' = tx /\ tasks'[t] = Idle
      BY <1>6, <2>2, Returns DEF Claim
    <3> QED BY <1>a, <2>1, <3>1, MarkedKept
  <2>3. CASE ~tx.prov
    <3>1. tx' \in Transaction
      BY <1>0, <1>6, <2>3, ProvWritten DEF Claim
    <3>2. Continue(t, "credit", tx') /\ "credit" \in Steps
      BY <1>6, <2>3 DEF Claim, Steps
    <3>3. tasks'[t] # Idle /\ tasks'[t].pc = "credit"
      BY <2>1, <3>1, <3>2, Continues
    <3>4. Provided'
      BY <3>3 DEF Provided, At
    <3> QED BY <1>a, <2>1, <3>3, <3>4, MarkedKept
  <2> QED BY <2>2, <2>3
<1>7. CASE Credit(t)
  <2>1. Keeps(t) /\ tx' = tx
    BY <1>0, <1>7 DEF Credit, Keeps
  <2>2. tasks'[t] = Idle
    BY <1>7, Returns DEF Credit
  <2> QED BY <1>a, <2>1, <2>2, MarkedKept
<1>8. CASE Cancel(t)
  <2>1. Keeps(t) /\ tx' = tx
    BY <1>0, <1>8 DEF Cancel, Keeps, At
  <2>2. Continue(t, "insert", tasks[t].copy) /\ tasks[t] # Idle /\ "insert" \in Steps
    BY <1>8 DEF Cancel, At, Steps
  <2>3. tasks'[t].pc = "insert" /\ tasks'[t].copy = tasks[t].copy
    BY <2>2, Copies, Continues
  <2> QED BY <1>a, <2>1, <2>2, <2>3, MarkedKept
<1>9. CASE Insert(t)
  <2>1. Keeps(t) /\ tx' = tx /\ granted' > 0
    BY <1>0, <1>9 DEF Insert, Keeps
  <2>2. Continue(t, "mark", tasks[t].copy) /\ tasks[t] # Idle /\ "mark" \in Steps
    BY <1>9 DEF Insert, At, Steps
  <2>3. tasks'[t].copy = tasks[t].copy
    BY <2>2, Copies, Continues
  <2> QED BY <1>a, <2>1, <2>2, <2>3, MarkedKept
<1>10. CASE Mark(t)
  <2>1. Keeps(t) /\ At(t, "mark") /\ granted' = granted
    BY <1>0, <1>10 DEF Mark, Keeps, At
  <2>2. tasks'[t] = Idle
    BY <1>10, Returns DEF Mark
  <2>3. Provided'
    BY <2>1 DEF Marked, Provided
  <2> QED BY <1>a, <2>1, <2>2, <2>3, MarkedKept
<1> QED BY <1>1, <1>2, <1>3, <1>4, <1>5, <1>6, <1>7, <1>8, <1>9, <1>10 DEF Handle

LEMMA MarkedCheckout ==
    ASSUME CheckoutTypeOK, Marked, CheckoutNext
    PROVE  Marked'
<1>0. tx \in Transaction /\ granted \in Nat /\ past \in Past
  BY DEF CheckoutTypeOK
<1>1. CASE \E placed \in BOOLEAN : CreateOrder(placed)
  <2>1. PICK placed \in BOOLEAN : CreateOrder(placed)
    BY <1>1
  <2>2. tx'.prov = tx.prov
    BY <1>0, <2>1, Placing DEF CreateOrder
  <2> QED BY <2>1, <2>2, MarkedStays DEF CreateOrder
<1>2. CASE Pay
  BY <1>2, MarkedStays DEF Pay
<1>3. CASE Failed
  <2>1. SetStatus("failed") /\ "failed" \in Statuses
    BY <1>3 DEF Failed, Statuses
  <2> QED BY <1>3, <2>1, Statused, MarkedStays DEF Failed
<1>4. CASE Expire
  BY <1>4, MarkedStays DEF Expire
<1>5. CASE \E t \in Tasks : Handle(t)
  BY <1>5, MarkedHandle
<1>6. CASE \E t \in Tasks : Crash(t)
  <2>1. PICK t \in Tasks : Crash(t)
    BY <1>6
  <2>2. At(t, "credit") \in BOOLEAN
    BY DEF At
  <2>3. (past.forfeited \/ At(t, "credit")) \in BOOLEAN
    BY <1>0, <2>2, Counting
  <2>4. past'.forfeited = (past.forfeited \/ At(t, "credit"))
    BY <1>0, <2>1, <2>3, Forfeiting DEF Crash
  <2>5. /\ past.forfeited => past'.forfeited
        /\ At(t, "credit") => past'.forfeited
    BY <2>4
  <2>6. tx' = tx /\ granted' = granted
    BY <2>1 DEF Crash
  <2>7. Keeps(t)
    BY <1>0, <2>5, <2>6 DEF Keeps
  <2>8. tasks'[t] = Idle /\ \A u \in Tasks : u # t => tasks'[u] = tasks[u]
    BY <2>1, Ends DEF Crash
  <2> QED BY <2>6, <2>7, <2>8, MarkedKept
<1>7. CASE \E t \in Tasks : Captured(t) \/ \E good \in BOOLEAN : Verify(t, good)
  <2>1. PICK t \in Tasks : Captured(t) \/ \E good \in BOOLEAN : Verify(t, good)
    BY <1>7
  <2>2. {"lock", "reject", FirstStep} \subseteq Steps /\ "mark" \notin {"lock", "reject", FirstStep}
    BY DEF FirstStep, Steps
  <2>3. /\ tasks[t] = Idle
        /\ tasks'[t] # Idle /\ tasks'[t].pc \in {"lock", "reject", FirstStep}
        /\ tasks'[t].copy = tx
        /\ \A u \in Tasks : u # t => tasks'[u] = tasks[u]
    BY <2>1, <2>2, Begins DEF Captured, Verify
  <2>4. tx' = tx /\ granted' = granted /\ past' = past
    BY <2>1 DEF Captured, Verify
  <2>5. Keeps(t)
    BY <1>0, <2>3, <2>4 DEF Keeps, At
  <2> QED BY <2>2, <2>3, <2>4, <2>5, MarkedKept
<1> QED BY <1>1, <1>2, <1>3, <1>4, <1>5, <1>6, <1>7 DEF CheckoutNext

LEMMA MarkedStep ==
    ASSUME CheckoutTypeOK, Marked, [Next]_vars
    PROVE  Marked'
<1>1. CASE CheckoutNext
  BY <1>1, MarkedCheckout
<1>2. CASE RefundsStatus
  <2>1. PICK status \in {"refunded", "partially_refunded"} : SetStatus(status)
    BY <1>2 DEF RefundsStatus
  <2>2. status \in Statuses
    BY DEF Statuses
  <2> QED BY <1>2, <2>1, <2>2, Statused, MarkedStays DEF RefundsStatus
<1>3. CASE CountCrash
  <2>1. past'.forfeited = past.forfeited
    BY <1>3, Counting DEF CountCrash, CheckoutTypeOK
  <2> QED BY <1>3, <2>1, MarkedStays DEF CountCrash
<1>4. CASE UNCHANGED checkout
  BY <1>4, MarkedStays DEF checkout
<1> QED BY <1>1, <1>2, <1>3, <1>4, StepOfCheckout

\* A transaction that says it is provisioned had its effect, whatever the
\* customer, the gateway and the refunds do in whatever order and however
\* many handlers die, with or without a shared Redis; only a top-up whose
\* handler died between claim and credit is lost.
THEOREM MarkedWasGranted == Spec => []MarkedIsGranted
<1>1. ASSUME Init PROVE CheckoutTypeOK /\ Marked
  <2>1. tx.prov = FALSE /\ \A t \in Tasks : tasks[t] = Idle
    BY <1>1 DEF Init, CheckoutInit
  <2> QED BY <1>1, <2>1, TypeInit DEF Init, Marked, At
<1>2. CheckoutTypeOK /\ Marked /\ [Next]_vars => (CheckoutTypeOK /\ Marked)'
  BY TypeStep, MarkedStep
<1>3. CheckoutTypeOK /\ Marked => MarkedIsGranted
  BY DEF Marked, Provided, MarkedIsGranted
<1> QED BY <1>1, <1>2, <1>3, PTL DEF Spec

---------------------------------------------------------------------------
(* A top-up is credited once *)

\* The lock is held from the second look at the transaction on.
LockHeld == \A t \in Tasks : (At(t, "fresh") \/ At(t, "complete")) => lock = t

\* A handler about to complete the transaction is the first, or the status
\* was overwritten since.
FirstToComplete == \A t \in Tasks : At(t, "complete") => tx.status # "completed"

PaidFirst ==
    /\ tx.status = "completed" => tx.paid
    /\ ~tx.paid => granted = 0 /\ \A t \in Tasks : ~At(t, "claim") /\ ~At(t, "credit")

NoPlan == \A t \in Tasks : ~At(t, "cancel") /\ ~At(t, "insert") /\ ~At(t, "mark")

StaysCompleted == (tx.paid /\ ~past.undone) => tx.status = "completed"

\* As long as no handler died, whoever completed the transaction still holds
\* the lock until the claim, so that no stale copy is written back.
ClaimFollows ==
    (past.crashes = 0 /\ tx.paid /\ ~tx.prov) => \E t \in Tasks : lock = t /\ At(t, "claim")

CopyIsFresh ==
    past.crashes = 0 => \A t \in Tasks : At(t, "complete") => tasks[t].copy.prov = tx.prov

Harmless == ~(past.crashes > 0 /\ past.undone)

OneCredit ==
    /\ granted > 0 => tx.prov
    /\ granted <= 1
    /\ \A t \in Tasks : At(t, "credit") => tx.prov /\ granted = 0
    /\ \A t, u \in Tasks : (At(t, "credit") /\ At(u, "credit")) => t = u

\* The inductive invariant.
TopUpInv ==
    /\ LockHeld /\ FirstToComplete /\ PaidFirst /\ NoPlan
    /\ StaysCompleted /\ ClaimFollows /\ CopyIsFresh
    /\ Harmless => OneCredit

\* What only ever grows.
Onwards ==
    /\ past.crashes \in Nat /\ past'.crashes \in Nat /\ past'.crashes >= past.crashes
    /\ past.undone => past'.undone
    /\ (tx.paid /\ tx'.status # tx.status) => past'.undone

LEMMA HarmlessBefore == ASSUME Onwards, Harmless' PROVE Harmless
BY DEF Onwards, Harmless

\* A step of no handler of the purchase.
LEMMA TopUpStays ==
    ASSUME CheckoutTypeOK, TopUpInv, Onwards, UNCHANGED <<tasks, granted>>,
           lock' = lock \/ lock = Orphan, tx'.paid = tx.paid, tx'.prov = tx.prov,
           tx'.status = tx.status \/ tx'.status # "completed"
    PROVE  TopUpInv'
<1>1. Orphan \notin Tasks
  BY CheckoutAssumption DEF Orphan
<1>2. LockHeld' /\ FirstToComplete' /\ PaidFirst' /\ NoPlan'
  BY <1>1 DEF TopUpInv, LockHeld, FirstToComplete, PaidFirst, NoPlan, At
<1>3. StaysCompleted' /\ ClaimFollows' /\ CopyIsFresh'
  BY <1>1 DEF TopUpInv, Onwards, StaysCompleted, ClaimFollows, CopyIsFresh, At
<1>4. Harmless' => OneCredit'
  BY HarmlessBefore DEF TopUpInv, OneCredit, At
<1> QED BY <1>2, <1>3, <1>4 DEF TopUpInv

\* A step of the handler t that neither completes, claims nor credits.
LEMMA TopUpKept ==
    ASSUME CheckoutTypeOK, TopUpInv, Onwards, NEW t \in Tasks,
           \A u \in Tasks : u # t => tasks'[u] = tasks[u],
           granted' = granted, tx'.paid = tx.paid, tx'.prov = tx.prov,
           tx'.status = tx.status \/ tx'.status # "completed",
           lock' = lock \/ (lock = t /\ lock' \in {Free, Orphan}) \/ (lock = Free /\ lock' = t),
           tasks'[t] # Idle => tasks'[t].pc \in {"reject", "lock", "fresh", "complete", "claim"},
           (tasks'[t] # Idle /\ tasks'[t].pc \in {"fresh", "complete"}) => lock' = t,
           (tasks'[t] # Idle /\ tasks'[t].pc = "complete") =>
               tx'.status # "completed" /\ tasks'[t].copy.prov = tx.prov,
           (tasks'[t] # Idle /\ tasks'[t].pc = "claim") => tx.paid,
           At(t, "claim") => tx.prov \/ past'.crashes > 0
    PROVE  TopUpInv'
<1>1. {Free, Orphan} \cap Tasks = {}
  BY CheckoutAssumption DEF Free, Orphan
<1>2. LockHeld'
  BY <1>1 DEF TopUpInv, LockHeld, At
<1>3. FirstToComplete'
  BY DEF TopUpInv, FirstToComplete, At
<1>4. PaidFirst' /\ NoPlan'
  BY DEF TopUpInv, PaidFirst, NoPlan, At
<1>5. StaysCompleted'
  BY DEF TopUpInv, Onwards, StaysCompleted
<1>6. ClaimFollows'
  BY <1>1 DEF TopUpInv, Onwards, ClaimFollows, At
<1>7. CopyIsFresh'
  BY DEF TopUpInv, Onwards, CopyIsFresh, At
<1>8. Harmless' => OneCredit'
  BY HarmlessBefore DEF TopUpInv, OneCredit, At
<1> QED BY <1>2, <1>3, <1>4, <1>5, <1>6, <1>7, <1>8 DEF TopUpInv

LEMMA OnwardsSame ==
    ASSUME CheckoutTypeOK, past' = past, tx'.status = tx.status \/ ~tx.paid
    PROVE  Onwards
<1>1. past.crashes \in Nat
  BY Counting DEF CheckoutTypeOK
<1> QED BY <1>1 DEF Onwards

LEMMA OnwardsStatus ==
    ASSUME CheckoutTypeOK, NEW status \in Statuses, SetStatus(status)
    PROVE  Onwards
<1>1. past.crashes \in Nat
  BY Counting DEF CheckoutTypeOK
<1>2. past'.crashes = past.crashes /\ past'.undone = (past.undone \/ tx.paid)
  BY Statused
<1>3. (past.undone => past'.undone) /\ (tx.paid => past'.undone)
  BY <1>2
<1> QED BY <1>1, <1>2, <1>3 DEF Onwards

LEMMA TopUpHandle ==
    ASSUME CheckoutTypeOK, TopUpInv, SharedLock, kind = "wallet_topup",
           NEW t \in Tasks, Handle(t)
    PROVE  TopUpInv'
<1>0. /\ tx \in Transaction /\ granted \in Nat /\ past \in Past /\ past.crashes \in Nat
      /\ Moves(t) /\ {Free, Orphan} \cap Tasks = {} /\ FirstStep = "claim"
  BY TypeHandle, CheckoutAssumption, Counting DEF CheckoutTypeOK, Free, Orphan, FirstStep
<1>a. \A u \in Tasks : u # t => tasks'[u] = tasks[u]
  BY <1>0 DEF Moves
<1>b. Return(t) => lock' = lock \/ (lock = t /\ lock' = Free)
  BY DEF Return
<1>1. CASE Reject(t)
  <2>1. SetStatus("failed") /\ "failed" \in Statuses /\ At(t, "reject")
    BY <1>1 DEF Reject, Statuses
  <2>2. Onwards /\ tx'.status = "failed" /\ tx'.paid = tx.paid /\ tx'.prov = tx.prov
    BY <2>1, Statused, OnwardsStatus
  <2>3. Return(t) /\ tasks'[t] = Idle /\ granted' = granted
    BY <1>1, Returns DEF Reject
  <2>4. ~At(t, "claim")
    BY <2>1 DEF At
  <2> QED BY <1>a, <1>b, <2>2, <2>3, <2>4, TopUpKept
<1>2. CASE TakeLock(t)
  <2>1. Onwards /\ tx' = tx /\ granted' = granted /\ lock = Free /\ lock' = t
    BY <1>2, OnwardsSame DEF TakeLock
  <2>2. Continue(t, "fresh", tasks[t].copy) /\ tasks[t] # Idle /\ "fresh" \in Steps
    BY <1>2 DEF TakeLock, At, Steps
  <2>3. tasks'[t].pc = "fresh"
    BY <2>2, Copies, Continues
  <2>4. ~At(t, "claim")
    BY <1>2 DEF TakeLock, At
  <2> QED BY <1>a, <2>1, <2>3, <2>4, TopUpKept
<1>3. CASE LockBusy(t)
  <2>1. Onwards /\ tx' = tx /\ granted' = granted /\ lock' = lock
    BY <1>3, OnwardsSame DEF LockBusy
  <2>2. tasks'[t] = Idle
    BY <1>3, Ends DEF LockBusy
  <2>3. ~At(t, "claim")
    BY <1>3 DEF LockBusy, At
  <2> QED BY <1>a, <2>1, <2>2, <2>3, TopUpKept
<1>4. CASE Fresh(t)
  <2>1. Onwards /\ tx' = tx /\ granted' = granted
    BY <1>4, OnwardsSame DEF Fresh
  <2>2. At(t, "fresh") /\ tasks[t] # Idle /\ ~At(t, "claim")
    BY <1>4 DEF Fresh, At
  <2>3. lock = t
    BY <2>2 DEF TopUpInv, LockHeld
  <2>4. CASE tx.status = "completed"
    <3>1. \/ Return(t) /\ tasks'[t] = Idle
          \/ UNCHANGED lock /\ tasks'[t].pc = "claim"
      BY <1>0, <1>4, <2>2, <2>4, Provisions DEF Fresh
    <3>2. tx.paid
      BY <2>4 DEF TopUpInv, PaidFirst
    <3> QED BY <1>a, <1>b, <2>1, <2>2, <3>1, <3>2, TopUpKept
  <2>5. CASE tx.status # "completed"
    <3>1. Continue(t, "complete", tx) /\ "complete" \in Steps /\ lock' = lock
      BY <1>4, <2>5 DEF Fresh, Steps
    <3>2. tasks'[t].pc = "complete" /\ tasks'[t].copy = tx
      BY <1>0, <2>2, <3>1, Continues
    <3> QED BY <1>a, <2>1, <2>2, <2>3, <2>5, <3>1, <3>2, TopUpKept
  <2> QED BY <2>4, <2>5
<1>5. CASE Complete(t)
  <2>1. /\ At(t, "complete") /\ tasks[t] # Idle /\ tasks[t].copy \in Transaction
        /\ past' = past /\ granted' = granted
    BY <1>5, Copies DEF Complete, At
  <2>2. /\ tx' \in Transaction /\ tx'.status = "completed" /\ tx'.paid = TRUE
        /\ tx'.prov = tasks[t].copy.prov
    BY <1>0, <1>5, <2>1, Fields, Completing DEF Complete
  <2>3. \/ tx'.prov /\ tasks'[t] = Idle /\ (lock' = lock \/ (lock = t /\ lock' = Free))
        \/ ~tx'.prov /\ lock' = lock /\ tasks'[t] # Idle /\ tasks'[t].pc = "claim"
    <3>1. CASE tx'.prov
      <4>1. Return(t)
        BY <1>5, <3>1 DEF Complete, Provision
      <4> QED BY <1>b, <3>1, <4>1, Returns
    <3>2. CASE ~tx'.prov
      <4>1. Continue(t, "claim", tx') /\ lock' = lock /\ "claim" \in Steps
        BY <1>0, <1>5, <3>2 DEF Complete, Provision, Steps
      <4> QED BY <2>1, <2>2, <3>2, <4>1, Continues
    <3> QED BY <3>1, <3>2
  <2>4. lock = t /\ tx.status # "completed" /\ \A u \in Tasks : At(u, "complete") => u = t
    BY <2>1 DEF TopUpInv, LockHeld, FirstToComplete
  <2>5. LockHeld' /\ FirstToComplete' /\ CopyIsFresh'
    BY <1>0, <1>a, <2>3, <2>4 DEF TopUpInv, LockHeld, FirstToComplete, CopyIsFresh, At
  <2>6. PaidFirst' /\ NoPlan' /\ StaysCompleted'
    BY <1>a, <2>2, <2>3 DEF TopUpInv, PaidFirst, NoPlan, StaysCompleted, At
  <2>7. ClaimFollows'
    BY <2>3, <2>4 DEF ClaimFollows, At
  <2>8. ASSUME Harmless' PROVE OneCredit'
    <3>1. Harmless /\ past.crashes \in Nat
      BY <1>0, <2>1, <2>8 DEF Harmless
    <3>2. OneCredit
      BY <3>1 DEF TopUpInv
    <3>3. CASE past.crashes = 0
      <4>1. tx'.prov = tx.prov
        BY <2>1, <2>2, <3>3 DEF TopUpInv, CopyIsFresh
      <4> QED BY <1>a, <2>1, <2>3, <3>2, <4>1 DEF OneCredit, At
    <3>4. CASE ~past.undone
      <4>1. granted = 0 /\ \A u \in Tasks : ~At(u, "credit")
        BY <2>4, <3>4 DEF TopUpInv, StaysCompleted, PaidFirst
      <4> QED BY <1>a, <2>1, <2>3, <4>1 DEF OneCredit, At
    <3> QED BY <3>1, <3>3, <3>4 DEF Harmless
  <2> QED BY <2>5, <2>6, <2>7, <2>8 DEF TopUpInv
<1>6. CASE Claim(t)
  <2>1. At(t, "claim") /\ tasks[t] # Idle /\ past' = past /\ granted' = granted
    BY <1>6 DEF Claim, At
  <2>2. CASE tx.prov
    <3>1. tx' = tx /\ Return(t) /\ tasks'[t] = Idle
      BY <1>6, <2>2, Returns DEF Claim
    <3>2. Onwards
      BY <2>1, <3>1, OnwardsSame
    <3> QED BY <1>a, <1>b, <2>1, <2>2, <3>1, <3>2, TopUpKept
  <2>3. CASE ~tx.prov
    <3>1. /\ tx' \in Transaction /\ tx'.status = tx.status
          /\ tx'.paid = tx.paid /\ tx'.prov = TRUE
      BY <1>0, <1>6, <2>3, ProvWritten DEF Claim
    <3>2. Continue(t, "credit", tx') /\ "credit" \in Steps /\ lock' = lock
      BY <1>6, <2>3 DEF Claim, Steps
    <3>3. tasks'[t] # Idle /\ tasks'[t].pc = "credit"
      BY <2>1, <3>1, <3>2, Continues
    <3>4. tx.paid
      BY <2>1 DEF TopUpInv, PaidFirst
    <3>5. LockHeld' /\ FirstToComplete' /\ PaidFirst' /\ NoPlan' /\ StaysCompleted'
      BY <1>a, <2>1, <3>1, <3>2, <3>3, <3>4
      DEF TopUpInv, LockHeld, FirstToComplete, PaidFirst, NoPlan, StaysCompleted, At
    <3>6. ClaimFollows'
      BY <3>1 DEF ClaimFollows
    <3>7. CopyIsFresh'
      <4>1. ASSUME past.crashes = 0, NEW u \in Tasks, u # t, At(u, "complete")
            PROVE  FALSE
        <5>1. lock = u
          BY <4>1 DEF TopUpInv, LockHeld
        <5>2. \E v \in Tasks : lock = v /\ At(v, "claim")
          BY <2>3, <3>4, <4>1 DEF TopUpInv, ClaimFollows
        <5> QED BY <4>1, <5>1, <5>2 DEF At
      <4> QED BY <1>a, <2>1, <3>3, <4>1 DEF CopyIsFresh, At
    <3>8. ASSUME Harmless' PROVE OneCredit'
      <4>1. OneCredit
        BY <2>1, <3>8 DEF TopUpInv, Harmless
      <4>2. granted = 0 /\ \A u \in Tasks : ~At(u, "credit")
        BY <1>0, <2>3, <4>1 DEF OneCredit
      <4> QED BY <1>a, <2>1, <3>1, <3>3, <4>2 DEF OneCredit, At
    <3> QED BY <3>5, <3>6, <3>7, <3>8 DEF TopUpInv
  <2> QED BY <2>2, <2>3
<1>7. CASE Credit(t)
  <2>1. /\ At(t, "credit") /\ past' = past /\ granted' = granted + 1 /\ tx' = tx
        /\ Return(t) /\ tasks'[t] = Idle
    BY <1>7, Returns DEF Credit
  <2>2. tx.paid
    BY <2>1 DEF TopUpInv, PaidFirst
  <2>3. LockHeld' /\ FirstToComplete' /\ PaidFirst' /\ NoPlan' /\ StaysCompleted'
    BY <1>0, <1>a, <1>b, <2>1, <2>2
    DEF TopUpInv, LockHeld, FirstToComplete, PaidFirst, NoPlan, StaysCompleted, At
  <2>4. ClaimFollows'
    BY <1>0, <1>a, <1>b, <2>1 DEF TopUpInv, ClaimFollows, At
  <2>5. CopyIsFresh'
    BY <1>a, <2>1 DEF TopUpInv, CopyIsFresh, At
  <2>6. ASSUME Harmless' PROVE OneCredit'
    <3>1. OneCredit
      BY <2>1, <2>6 DEF TopUpInv, Harmless
    <3>2. tx.prov /\ granted = 0 /\ \A u \in Tasks : At(u, "credit") => u = t
      BY <2>1, <3>1 DEF OneCredit
    <3> QED BY <1>a, <2>1, <3>2 DEF OneCredit, At
  <2> QED BY <2>3, <2>4, <2>5, <2>6 DEF TopUpInv
<1>8. CASE Cancel(t) \/ Insert(t) \/ Mark(t)
  BY <1>8 DEF Cancel, Insert, Mark, TopUpInv, NoPlan
<1> QED BY <1>1, <1>2, <1>3, <1>4, <1>5, <1>6, <1>7, <1>8 DEF Handle

LEMMA TopUpCheckout ==
    ASSUME CheckoutTypeOK, TopUpInv, SharedLock, kind = "wallet_topup", CheckoutNext
    PROVE  TopUpInv'
<1>0. /\ tx \in Transaction /\ granted \in Nat /\ past \in Past /\ past.crashes \in Nat
      /\ FirstStep = "claim"
  BY Counting DEF CheckoutTypeOK, FirstStep
<1>1. CASE \E placed \in BOOLEAN : CreateOrder(placed)
  <2>1. PICK placed \in BOOLEAN : CreateOrder(placed)
    BY <1>1
  <2>2. /\ tx'.status = "pending" /\ tx'.paid = tx.paid /\ tx'.prov = tx.prov
        /\ past' = past
    BY <1>0, <2>1, Placing DEF CreateOrder
  <2>3. Onwards
    <3>1. tx.status = "none"
      BY <2>1 DEF CreateOrder
    <3>2. tx.paid => past.undone
      BY <3>1 DEF TopUpInv, StaysCompleted
    <3> QED BY <1>0, <2>2, <3>2 DEF Onwards
  <2> QED BY <2>1, <2>2, <2>3, TopUpStays DEF CreateOrder
<1>2. CASE Pay
  BY <1>2, OnwardsSame, TopUpStays DEF Pay
<1>3. CASE Failed
  <2>1. SetStatus("failed") /\ "failed" \in Statuses
    BY <1>3 DEF Failed, Statuses
  <2>2. Onwards /\ tx'.status = "failed" /\ tx'.paid = tx.paid /\ tx'.prov = tx.prov
    BY <2>1, Statused, OnwardsStatus
  <2> QED BY <1>3, <2>2, TopUpStays DEF Failed
<1>4. CASE Expire
  BY <1>4, OnwardsSame, TopUpStays DEF Expire
<1>5. CASE \E t \in Tasks : Handle(t)
  BY <1>5, TopUpHandle
<1>6. CASE \E t \in Tasks : Crash(t)
  <2>1. PICK t \in Tasks : Crash(t)
    BY <1>6
  <2>2. At(t, "credit") \in BOOLEAN
    BY DEF At
  <2>3. (past.forfeited \/ At(t, "credit")) \in BOOLEAN
    BY <1>0, <2>2, Counting
  <2>4. past'.crashes = past.crashes + 1 /\ past'.undone = past.undone
    BY <1>0, <2>1, <2>3, Forfeiting DEF Crash
  <2>5. tx' = tx /\ granted' = granted /\ (lock' = lock \/ (lock = t /\ lock' = Orphan))
    BY <2>1 DEF Crash
  <2>6. Onwards /\ past'.crashes > 0
    BY <1>0, <2>4, <2>5 DEF Onwards
  <2>7. tasks'[t] = Idle /\ \A u \in Tasks : u # t => tasks'[u] = tasks[u]
    BY <2>1, Ends DEF Crash
  <2> QED BY <2>5, <2>6, <2>7, TopUpKept
<1>7. CASE \E t \in Tasks : Captured(t) \/ \E good \in BOOLEAN : Verify(t, good)
  <2>1. PICK t \in Tasks : Captured(t) \/ \E good \in BOOLEAN : Verify(t, good)
    BY <1>7
  <2>2. {"lock", "reject", "claim"} \subseteq Steps
    BY DEF Steps
  <2>3. tx.status = "completed" => tx.paid
    BY DEF TopUpInv, PaidFirst
  <2>4. /\ tasks[t] = Idle /\ tasks'[t].pc \in {"lock", "reject", "claim"}
        /\ tasks'[t].pc = "claim" => tx.paid
        /\ \A u \in Tasks : u # t => tasks'[u] = tasks[u]
    <3>1. CASE Captured(t)
      BY <2>2, <3>1, Begins DEF Captured
    <3>2. CASE \E good \in BOOLEAN : Verify(t, good)
      BY <1>0, <2>2, <2>3, <3>2, Begins DEF Verify
    <3> QED BY <2>1, <3>1, <3>2
  <2>5. tx' = tx /\ granted' = granted /\ past' = past /\ lock' = lock
    BY <2>1 DEF Captured, Verify
  <2>6. Onwards /\ ~At(t, "claim")
    BY <2>4, <2>5, OnwardsSame DEF At
  <2> QED BY <2>4, <2>5, <2>6, TopUpKept
<1> QED BY <1>1, <1>2, <1>3, <1>4, <1>5, <1>6, <1>7 DEF CheckoutNext

LEMMA KindStays ==
    ASSUME [Next]_vars
    PROVE  kind' = kind
<1>1. CheckoutNext => kind' = kind
  BY DEF CheckoutNext, CreateOrder, Pay, Failed, Expire, Verify, Captured, Handle, Reject,
         TakeLock, LockBusy, Fresh, Complete, Claim, Credit, Cancel, Insert, Mark, Crash
<1> QED BY <1>1, StepOfCheckout DEF RefundsStatus, CountCrash, checkout

LEMMA TopUpStep ==
    ASSUME CheckoutTypeOK, TopUpInv, SharedLock, kind = "wallet_topup", [Next]_vars
    PROVE  TopUpInv'
<1>1. CASE CheckoutNext
  BY <1>1, TopUpCheckout
<1>2. CASE RefundsStatus
  <2>1. PICK status \in {"refunded", "partially_refunded"} : SetStatus(status)
    BY <1>2 DEF RefundsStatus
  <2>2. status \in Statuses /\ status # "completed"
    BY DEF Statuses
  <2>3. Onwards /\ tx'.status = status /\ tx'.paid = tx.paid /\ tx'.prov = tx.prov
    BY <2>1, <2>2, Statused, OnwardsStatus
  <2> QED BY <1>2, <2>2, <2>3, TopUpStays DEF RefundsStatus
<1>3. CASE CountCrash
  <2>1. past'.crashes = past.crashes + 1 /\ past'.undone = past.undone /\ past.crashes \in Nat
    BY <1>3, Counting DEF CountCrash, CheckoutTypeOK
  <2>2. Onwards
    BY <1>3, <2>1 DEF CountCrash, Onwards
  <2> QED BY <1>3, <2>2, TopUpStays DEF CountCrash
<1>4. CASE UNCHANGED checkout
  BY <1>4, OnwardsSame, TopUpStays DEF checkout
<1> QED BY <1>1, <1>2, <1>3, <1>4, StepOfCheckout

\* If all instances reach the same Redis, a top-up is credited once, however
\* many handlers hear of the payment, whatever refunds and late failures do
\* to its status, and however many handlers die, unless both happen.
THEOREM TopUpCreditedOnce ==
    ASSUME SharedLock
    PROVE  Spec => []CreditedOnce
<1> DEFINE Inv == CheckoutTypeOK /\ (kind = "wallet_topup" => TopUpInv)
<1>1. ASSUME Init PROVE Inv
  <2>1. /\ tx.prov = FALSE /\ tx.paid = FALSE /\ tx.status = "none" /\ granted = 0
        /\ \A t \in Tasks : tasks[t] = Idle
    BY <1>1 DEF Init, CheckoutInit
  <2>2. TopUpInv
    BY <2>1 DEF TopUpInv, LockHeld, FirstToComplete, PaidFirst, NoPlan, StaysCompleted,
                ClaimFollows, CopyIsFresh, OneCredit, At
  <2> QED BY <1>1, <2>2, TypeInit DEF Init
<1>2. Inv /\ [Next]_vars => Inv'
  BY TypeStep, TopUpStep, KindStays
<1>3. Inv => CreditedOnce
  BY DEF TopUpInv, Harmless, OneCredit, CreditedOnce
<1> HIDE DEF Inv
<1> QED BY <1>1, <1>2, <1>3, PTL DEF Spec

---------------------------------------------------------------------------
(* The refunds are well formed *)

RefundsTypeOK ==
    /\ rows \in [Requests \cup Refs -> Row]
    /\ asks \in [Requests -> Ask]
    /\ gateway \in [Refs -> [by : Requests \cup {NoRef, Outside}, amount : Nat]]
    /\ unheard \subseteq Refs
    /\ hooks \in [Refs -> Hook]
    /\ faults \in [lost : Nat, broken : Nat, outside : Nat]

LEMMA AskFields ==
    ASSUME NEW a \in Ask
    PROVE  /\ a.pc \in AskSteps /\ a.sum \in Nat /\ a.amount \in Nat
           /\ a.ref \in Refs \cup {NoRef}
           /\ \A pc \in AskSteps : /\ [a EXCEPT !.pc = pc] \in Ask
                                   /\ [a EXCEPT !.pc = pc].pc = pc
BY DEF Ask

LEMMA AskAnswered ==
    ASSUME NEW a \in Ask, NEW ref \in Refs
    PROVE  LET b == [a EXCEPT !.pc = "record", !.ref = ref]
           IN  b \in Ask /\ b.pc = "record"
BY DEF Ask, AskSteps

LEMMA RowFields ==
    ASSUME NEW row \in Row
    PROVE  /\ row.status \in {"none", "processing", "completed", "failed"}
           /\ row.ref \in Refs \cup {NoRef} /\ row.amount \in Nat
BY DEF Row

LEMMA RowCompleted ==
    ASSUME NEW row \in Row, NEW ref \in Refs \cup {NoRef}
    PROVE  LET new == [row EXCEPT !.status = "completed", !.ref = ref]
           IN  new \in Row /\ new.status = "completed" /\ new.ref = ref
BY DEF Row

LEMMA RowFailed ==
    ASSUME NEW row \in Row
    PROVE  LET new == [row EXCEPT !.status = "failed"]
           IN  new \in Row /\ new.status = "failed"
BY DEF Row

LEMMA RowRecord ==
    ASSUME NEW status \in {"processing", "completed"}, NEW ref \in Refs \cup {NoRef},
           NEW amount \in Nat
    PROVE  [status |-> status, ref |-> ref, amount |-> amount] \in Row
BY DEF Row

\* Only the request r changes, and is now at the step to.
Asked(r, to) ==
    /\ asks' \in [Requests -> Ask]
    /\ asks'[r].pc = to
    /\ \A q \in Requests : q # r => asks'[q] = asks[q]

LEMMA AskSet ==
    ASSUME RefundsTypeOK, NEW r \in Requests, NEW a \in Ask, asks' = [asks EXCEPT ![r] = a]
    PROVE  Asked(r, a.pc)
BY DEF RefundsTypeOK, Asked

LEMMA AskMoves ==
    ASSUME RefundsTypeOK, NEW r \in Requests, NEW from, NEW to \in AskSteps, Step(r, from, to)
    PROVE  asks[r].pc = from /\ Asked(r, to)
<1> DEFINE a == [asks[r] EXCEPT !.pc = to]
<1>1. asks[r] \in Ask
  BY DEF RefundsTypeOK
<1>2. a \in Ask /\ a.pc = to
  BY <1>1, AskFields
<1>3. asks[r].pc = from /\ asks' = [asks EXCEPT ![r] = a]
  BY DEF Step
<1> HIDE DEF a
<1> QED BY <1>2, <1>3, AskSet

\* Only the row q changes.
Filed(q, row) ==
    /\ rows' \in [Requests \cup Refs -> Row]
    /\ rows'[q] = row
    /\ \A p \in Requests \cup Refs : p # q => rows'[p] = rows[p]

LEMMA RowSet ==
    ASSUME RefundsTypeOK, NEW q \in Requests \cup Refs, NEW row \in Row,
           rows' = [rows EXCEPT ![q] = row]
    PROVE  Filed(q, row)
BY DEF RefundsTypeOK, Filed

LEMMA HookRecord ==
    ASSUME NEW h \in Hook, NEW pc \in {"idle", "write", "total", "status"},
           NEW row \in Requests \cup Refs, NEW total \in Nat
    PROVE  /\ [h EXCEPT !.pc = pc] \in Hook /\ [h EXCEPT !.pc = pc].pc = pc
           /\ [h EXCEPT !.pc = pc, !.row = row] \in Hook
           /\ [h EXCEPT !.pc = pc, !.row = row].row = row
           /\ [h EXCEPT !.pc = pc, !.total = total] \in Hook
           /\ [h EXCEPT !.pc = pc, !.total = total].pc = pc
BY DEF Hook

\* What the rows say was refunded, as a sum.
LEMMA RefundedSumIs ==
    ASSUME RefundsTypeOK
    PROVE  RefundedSum = SumOver([q \in Requests \cup Refs |-> rows[q].amount], Completed)
<1> DEFINE amounts == [q \in Requests \cup Refs |-> rows[q].amount]
           P(g) == g = [T \in SUBSET Completed |->
                          IF T = {} THEN 0 ELSE rows[One(T)].amount + g[Less(T)]]
<1>1. \A q \in Completed : amounts[q] = rows[q].amount
  BY DEF RefundsTypeOK, Completed
<1>2. RefundedSum = (CHOOSE g : P(g))[Completed]
  BY DEF RefundedSum, MapThenSumSet, MapThenFoldSet, One, Less
<1> HIDE DEF amounts
<1>3. \A g : P(g) <=> Adds(amounts, Completed, g)
  <2>1. \A T \in SUBSET Completed : T # {} => amounts[One(T)] = rows[One(T)].amount
    BY <1>1, LessIsLess
  <2> QED BY <2>1 DEF Adds
<1>4. (CHOOSE g : P(g)) = (CHOOSE g : Adds(amounts, Completed, g))
  <2> HIDE DEF P
  <2> QED BY <1>3
<1>5. RefundedSum = SumOver(amounts, Completed)
  BY <1>2, <1>4 DEF SumOver
<1> QED BY <1>5 DEF amounts

LEMMA RefundedSumType ==
    ASSUME RefundsTypeOK
    PROVE  RefundedSum \in Nat
<1> DEFINE amounts == [q \in Requests \cup Refs |-> rows[q].amount]
<1>1. Completed \subseteq Requests \cup Refs
  BY DEF RefundsTypeOK, Completed
<1>2. \A q \in Completed : amounts[q] \in Nat
  BY <1>1, RowFields DEF RefundsTypeOK
<1>3. IsFiniteSet(Completed)
  BY <1>1, FS_Union, FS_Subset, RefundsAssumption
<1> HIDE DEF amounts
<1>4. SumOver(amounts, Completed) \in Nat
  BY <1>2, <1>3, SumNat
<1> QED BY <1>4, RefundedSumIs DEF amounts

LEMMA RefundsTypeInit == ASSUME RefundInit PROVE RefundsTypeOK
<1>1. NoRow \in Row
  BY DEF NoRow, Row
<1>2. [pc |-> "idle", sum |-> 0, amount |-> 0, ref |-> NoRef] \in Ask
  BY DEF Ask, AskSteps
<1>3. \A g \in Refs : NoHook(g) \in Hook
  BY DEF NoHook, Hook
<1> QED BY <1>1, <1>2, <1>3 DEF RefundInit, RefundsTypeOK

\* What the gateway does to its own state.
LEMMA GatewayType ==
    ASSUME RefundsTypeOK, NEW g \in Refs, NEW by \in Requests \cup {Outside},
           NEW amount \in Nat, GatewayRefunds(g, by, amount)
    PROVE  /\ gateway' \in [Refs -> [by : Requests \cup {NoRef, Outside}, amount : Nat]]
           /\ unheard' \subseteq Refs
           /\ gateway[g].by = NoRef /\ gateway'[g].by = by
           /\ \A h \in Refs : h # g => gateway'[h] = gateway[h]
BY DEF RefundsTypeOK, GatewayRefunds

\* A step of the request r but for the refund itself: where it stands then,
\* and what became of its row.
LEMMA AskStep ==
    ASSUME RefundsTypeOK, NEW r \in Requests,
           Read(r) \/ Sum(r) \/ InsertRow(r) \/ Refused(r) \/ Record(r) \/ SetRefunded(r)
              \/ Fail(r) \/ Break(r) \/ Die(r)
    PROVE  /\ RefundsTypeOK'
           /\ UNCHANGED <<gateway, hooks>> /\ faults'.lost = faults.lost
           /\ \E to \in AskSteps : Asked(r, to)
           /\ asks[r].pc \notin {"idle", "sum", "insert", "refund"} =>
                asks'[r].pc \notin {"idle", "sum", "insert", "refund"}
           /\ asks'[r].pc \in {"refund", "record", "status", "fail"} =>
                \/ asks[r].pc \in {"refund", "record", "status", "fail"}
                \/ rows'[r].status # "none"
           /\ \/ rows' = rows
              \/ Filed(r, rows'[r]) /\ rows'[r].status # "none"
                 /\ (asks[r].pc = "insert" => SameKey(r) = {})
                 /\ asks[r].pc \in {"insert", "record", "fail"}
<1> DEFINE Early == {"idle", "sum", "insert", "refund"}
           Late == {"refund", "record", "status", "fail"}
<1>0. /\ rows \in [Requests \cup Refs -> Row] /\ asks \in [Requests -> Ask]
      /\ asks[r] \in Ask /\ rows[r] \in Row
      /\ faults \in [lost : Nat, broken : Nat, outside : Nat]
      /\ AskSteps = {"idle", "sum", "insert", "refund", "record", "status", "fail", "over",
                     "dead"}
  BY DEF RefundsTypeOK, AskSteps
<1>a. ASSUME NEW to \in AskSteps, Asked(r, to), rows' = rows, UNCHANGED <<gateway, hooks, unheard>>,
             faults' \in [lost : Nat, broken : Nat, outside : Nat]
      PROVE  RefundsTypeOK'
  BY <1>a DEF RefundsTypeOK, Asked
<1>b. ASSUME NEW to \in AskSteps, Asked(r, to), UNCHANGED <<gateway, hooks, unheard, faults>>,
             Filed(r, rows'[r])
      PROVE  RefundsTypeOK'
  BY <1>b DEF RefundsTypeOK, Asked, Filed
<1>1. CASE Read(r)
  <2>1. asks[r].pc = "idle" /\ Asked(r, "sum")
    BY <1>0, <1>1, AskMoves DEF Read
  <2> QED BY <1>0, <1>1, <1>a, <2>1 DEF Read, Asked
<1>2. CASE Sum(r)
  <2> DEFINE left == IF RefundedSum > Price THEN 0 ELSE Price - RefundedSum
             amount == IF AmountOf[r] = 0 THEN left ELSE AmountOf[r]
             to == IF left > 0 /\ amount <= left THEN "insert" ELSE "over"
             sum == RefundedSum
             a == [asks[r] EXCEPT !.pc = to, !.sum = sum, !.amount = amount]
  <2>0. RefundedSum \in Nat /\ Price \in Nat /\ AmountOf[r] \in Nat
    BY RefundedSumType, RefundsAssumption
  <2>1. left \in Nat
    BY <2>0
  <2>2. amount \in Nat /\ to \in {"insert", "over"} /\ to \in AskSteps
    BY <1>0, <2>0, <2>1
  <2>3. asks' = [asks EXCEPT ![r] = a] /\ asks[r].pc = "sum"
    BY <1>2 DEF Sum
  <2> HIDE DEF to, amount, left
  <2>4. a \in Ask /\ a.pc = to
    <3>1. sum \in Nat
      BY <2>0
    <3> HIDE DEF sum
    <3> QED BY <1>0, <2>2, <3>1 DEF Ask
  <2> HIDE DEF a
  <2>5. Asked(r, to)
    BY <2>3, <2>4, AskSet
  <2> QED BY <1>0, <1>2, <1>a, <2>2, <2>3, <2>5 DEF Sum, Asked
<1>3. CASE InsertRow(r)
  <2>1. asks[r].pc = "insert"
    BY <1>3 DEF InsertRow
  <2>2. CASE SameKey(r) # {}
    <3>1. Step(r, "insert", "over") /\ rows' = rows
      BY <1>3, <2>2 DEF InsertRow, Step
    <3>2. Asked(r, "over")
      BY <1>0, <3>1, AskMoves
    <3> QED BY <1>0, <1>3, <1>a, <2>1, <3>1, <3>2 DEF InsertRow, Asked
  <2>3. CASE SameKey(r) = {}
    <3> DEFINE row == [status |-> "processing", ref |-> NoRef, amount |-> asks[r].amount]
    <3>1. Step(r, "insert", "refund") /\ rows' = [rows EXCEPT ![r] = row]
      BY <1>3, <2>3 DEF InsertRow, Step
    <3>2. asks[r].amount \in Nat
      BY <1>0, AskFields
    <3>3. row \in Row /\ row.status = "processing"
      BY <3>2, RowRecord
    <3> HIDE DEF row
    <3>4. Asked(r, "refund") /\ Filed(r, row)
      BY <1>0, <3>1, <3>3, AskMoves, RowSet
    <3>5. rows'[r] = row
      BY <3>4 DEF Filed
    <3> QED BY <1>0, <1>3, <1>b, <2>1, <2>3, <3>3, <3>4, <3>5 DEF InsertRow, Asked
  <2> QED BY <2>2, <2>3
<1>4. CASE Refused(r)
  <2>1. asks[r].pc = "refund" /\ Asked(r, "fail")
    BY <1>0, <1>4, AskMoves DEF Refused
  <2> QED BY <1>0, <1>4, <1>a, <2>1 DEF Refused, Asked
<1>5. CASE Record(r)
  <2> DEFINE row == [rows[r] EXCEPT !.status = "completed", !.ref = asks[r].ref]
  <2>1. asks[r].pc = "record" /\ Asked(r, "status")
    BY <1>0, <1>5, AskMoves DEF Record
  <2>0. asks[r].ref \in Refs \cup {NoRef}
    BY <1>0, AskFields
  <2>2. row \in Row /\ row.status = "completed"
    BY <1>0, <2>0, RowCompleted
  <2>3. rows' = [rows EXCEPT ![r] = row]
    BY <1>5 DEF Record
  <2> HIDE DEF row
  <2>4. Filed(r, row) /\ rows'[r] = row
    BY <2>2, <2>3, RowSet DEF Filed
  <2> QED BY <1>0, <1>5, <1>b, <2>1, <2>2, <2>4 DEF Record, Asked
<1>6. CASE SetRefunded(r)
  <2>1. asks[r].pc = "status" /\ Asked(r, "over")
    BY <1>0, <1>6, AskMoves DEF SetRefunded
  <2> QED BY <1>0, <1>6, <1>a, <2>1 DEF SetRefunded, Asked
<1>7. CASE Fail(r)
  <2> DEFINE row == [rows[r] EXCEPT !.status = "failed"]
  <2>1. asks[r].pc = "fail" /\ Asked(r, "over")
    BY <1>0, <1>7, AskMoves DEF Fail
  <2>2. row \in Row /\ row.status = "failed"
    BY <1>0, RowFailed
  <2>3. rows' = [rows EXCEPT ![r] = row]
    BY <1>7 DEF Fail
  <2> HIDE DEF row
  <2>4. Filed(r, row) /\ rows'[r] = row
    BY <2>2, <2>3, RowSet DEF Filed
  <2> QED BY <1>0, <1>7, <1>b, <2>1, <2>2, <2>4 DEF Fail, Asked
<1>8. CASE Break(r)
  <2>1. asks[r].pc \in {"record", "status"} /\ Asked(r, "fail")
    BY <1>0, <1>8, AskMoves DEF Break
  <2>2. /\ faults' \in [lost : Nat, broken : Nat, outside : Nat]
        /\ faults'.lost = faults.lost
    BY <1>0, <1>8 DEF Break
  <2> QED BY <1>0, <1>8, <1>a, <2>1, <2>2 DEF Break, Asked
<1>9. CASE Die(r)
  <2>1. Step(r, asks[r].pc, "dead") /\ asks[r].pc # "idle"
    BY <1>9 DEF Die, Step
  <2>2. Asked(r, "dead")
    BY <1>0, <2>1, AskMoves
  <2> QED BY <1>0, <1>9, <1>a, <2>1, <2>2 DEF Die, Asked
<1> QED BY <1>1, <1>2, <1>3, <1>4, <1>5, <1>6, <1>7, <1>8, <1>9

\* The gateway is asked, and answers or not.
LEMMA RefundStep ==
    ASSUME RefundsTypeOK, NEW r \in Requests, NEW g \in Refs, Refund(r, g)
    PROVE  /\ RefundsTypeOK'
           /\ UNCHANGED <<rows, hooks>>
           /\ asks[r].pc = "refund"
           /\ gateway[g].by = NoRef /\ gateway'[g].by = r
           /\ \A h \in Refs : h # g => gateway'[h] = gateway[h]
           /\ \/ Asked(r, "record") /\ faults' = faults
              \/ asks' = asks /\ faults'.lost = faults.lost + 1
<1>0. /\ asks[r] \in Ask /\ asks \in [Requests -> Ask]
      /\ rows \in [Requests \cup Refs -> Row] /\ hooks \in [Refs -> Hook]
      /\ faults \in [lost : Nat, broken : Nat, outside : Nat]
  BY DEF RefundsTypeOK
<1>1. asks[r].amount \in Nat
  BY <1>0, AskFields
<1>2. GatewayRefunds(g, r, asks[r].amount) /\ asks[r].pc = "refund" /\ UNCHANGED <<rows, hooks>>
  BY DEF Refund
<1>3. /\ gateway' \in [Refs -> [by : Requests \cup {NoRef, Outside}, amount : Nat]]
      /\ unheard' \subseteq Refs
      /\ gateway[g].by = NoRef /\ gateway'[g].by = r
      /\ \A h \in Refs : h # g => gateway'[h] = gateway[h]
  BY <1>1, <1>2, GatewayType
<1>4. CASE asks' = [asks EXCEPT ![r].pc = "record", ![r].ref = g] /\ UNCHANGED faults
  <2> DEFINE a == [asks[r] EXCEPT !.pc = "record", !.ref = g]
  <2>1. a \in Ask /\ a.pc = "record"
    BY <1>0, AskAnswered
  <2>2. asks' = [asks EXCEPT ![r] = a]
    BY <1>4
  <2> HIDE DEF a
  <2>3. Asked(r, "record")
    BY <2>1, <2>2, AskSet
  <2> QED BY <1>0, <1>2, <1>3, <1>4, <2>3 DEF RefundsTypeOK, Asked
<1>5. CASE faults' = [faults EXCEPT !.lost = @ + 1] /\ UNCHANGED asks
  <2>1. /\ faults' \in [lost : Nat, broken : Nat, outside : Nat]
        /\ faults'.lost = faults.lost + 1
    BY <1>0, <1>5
  <2> QED BY <1>0, <1>2, <1>3, <1>5, <2>1 DEF RefundsTypeOK
<1> QED BY <1>4, <1>5 DEF Refund

LEMMA OutsideStep ==
    ASSUME RefundsTypeOK, NEW g \in Refs, RefundOutside(g)
    PROVE  /\ RefundsTypeOK'
           /\ UNCHANGED <<rows, asks, hooks>> /\ faults'.lost = faults.lost
           /\ gateway[g].by = NoRef /\ gateway'[g].by = Outside
           /\ \A h \in Refs : h # g => gateway'[h] = gateway[h]
<1>1. PICK amount \in 1..Price : GatewayRefunds(g, Outside, amount)
  BY DEF RefundOutside
<1>2. amount \in Nat
  <2>1. Price \in Nat
    BY RefundsAssumption
  <2> QED BY <2>1
<1>3. /\ faults' \in [lost : Nat, broken : Nat, outside : Nat]
      /\ faults'.lost = faults.lost /\ UNCHANGED <<rows, asks, hooks>>
  BY DEF RefundOutside, RefundsTypeOK
<1> QED BY <1>1, <1>2, <1>3, GatewayType DEF RefundsTypeOK

\* What hears of the refund g: which row it may take up, and what it writes.
LEMMA HookStep ==
    ASSUME RefundsTypeOK, NEW g \in Refs, Hear(g) \/ DieHearing(g)
    PROVE  /\ RefundsTypeOK'
           /\ UNCHANGED <<asks, gateway, faults>>
           /\ \A h \in Refs : h # g => hooks'[h] = hooks[h]
           /\ hooks'[g].pc = "write" =>
                \/ hooks'[g] = hooks[g]
                \/ hooks'[g].row \in Matching(g)
           /\ \/ rows' = rows
              \/ /\ hooks[g].pc = "write" /\ rows'[hooks[g].row].status = "completed"
                 /\ Filed(hooks[g].row, rows'[hooks[g].row])
<1>0. /\ asks \in [Requests -> Ask] /\ hooks[g] \in Hook
      /\ rows \in [Requests \cup Refs -> Row] /\ hooks \in [Refs -> Hook]
      /\ gateway \in [Refs -> [by : Requests \cup {NoRef, Outside}, amount : Nat]]
      /\ faults \in [lost : Nat, broken : Nat, outside : Nat] /\ unheard \subseteq Refs
      /\ NoHook(g) \in Hook /\ NoHook(g).pc = "idle"
  BY DEF RefundsTypeOK, NoHook, Hook
<1>a. ASSUME NEW h \in Hook, hooks' = [hooks EXCEPT ![g] = h]
      PROVE  /\ hooks' \in [Refs -> Hook] /\ hooks'[g] = h
             /\ \A i \in Refs : i # g => hooks'[i] = hooks[i]
  BY <1>0, <1>a
<1>1. CASE Find(g)
  <2>1. PICK r \in Matching(g) :
          IF rows[r].status = "completed"
          THEN unheard' = unheard \ {g} /\ UNCHANGED hooks
          ELSE /\ hooks' = [hooks EXCEPT ![g] = [@ EXCEPT !.pc = "write", !.row = r]]
               /\ UNCHANGED unheard
    BY <1>1 DEF Find
  <2>2. /\ UNCHANGED <<rows, asks, gateway, faults>> /\ unheard' \subseteq Refs
    BY <1>0, <1>1, <2>1 DEF Find
  <2>3. CASE UNCHANGED hooks
    BY <1>0, <2>2, <2>3 DEF RefundsTypeOK
  <2>4. CASE hooks' = [hooks EXCEPT ![g] = [@ EXCEPT !.pc = "write", !.row = r]]
    <3> DEFINE h == [hooks[g] EXCEPT !.pc = "write", !.row = r]
    <3>1. r \in Requests \cup Refs
      BY <1>0 DEF Matching
    <3>2. h \in Hook /\ h.row = r
      BY <1>0, <3>1 DEF Hook
    <3>3. hooks' = [hooks EXCEPT ![g] = h]
      BY <2>4
    <3> HIDE DEF h
    <3>4. /\ hooks' \in [Refs -> Hook] /\ hooks'[g] = h
          /\ \A i \in Refs : i # g => hooks'[i] = hooks[i]
      BY <1>a, <3>2, <3>3
    <3> QED BY <1>0, <2>2, <3>2, <3>4 DEF RefundsTypeOK
  <2> QED BY <2>1, <2>3, <2>4
<1>2. CASE Write(g)
  <2> DEFINE q == hooks[g].row
             row == [status |-> "completed", ref |-> g,
                     amount |-> IF q = g THEN gateway[g].amount ELSE rows[q].amount]
             h == [hooks[g] EXCEPT !.pc = "total"]
  <2>1. q \in Requests \cup Refs /\ h \in Hook /\ h.pc = "total"
    BY <1>0 DEF Hook
  <2>2. rows[q].amount \in Nat /\ gateway[g].amount \in Nat
    BY <1>0, <2>1, RowFields
  <2>3. row \in Row /\ row.status = "completed"
    BY <2>2 DEF Row
  <2>4. /\ rows' = [rows EXCEPT ![q] = row] /\ hooks' = [hooks EXCEPT ![g] = h]
        /\ hooks[g].pc = "write" /\ UNCHANGED <<asks, gateway, unheard, faults>>
    BY <1>2 DEF Write
  <2> HIDE DEF row, h
  <2>5. Filed(q, row) /\ rows'[q] = row
    BY <2>1, <2>3, <2>4, RowSet DEF Filed
  <2>6. /\ hooks' \in [Refs -> Hook] /\ hooks'[g] = h
        /\ \A i \in Refs : i # g => hooks'[i] = hooks[i]
    BY <1>a, <2>1, <2>4
  <2>7. RefundsTypeOK'
    BY <1>0, <2>4, <2>5, <2>6 DEF RefundsTypeOK, Filed
  <2> QED BY <2>1, <2>3, <2>4, <2>5, <2>6, <2>7
<1>3. CASE Total(g)
  <2> DEFINE sum == RefundedSum
             h == [hooks[g] EXCEPT !.pc = "status", !.total = sum]
  <2>1. sum \in Nat
    BY RefundedSumType
  <2>2. hooks' = [hooks EXCEPT ![g] = h] /\ UNCHANGED <<rows, asks, gateway, unheard, faults>>
    BY <1>3 DEF Total
  <2> HIDE DEF sum
  <2>3. h \in Hook /\ h.pc = "status"
    BY <1>0, <2>1 DEF Hook
  <2> HIDE DEF h
  <2>4. /\ hooks' \in [Refs -> Hook] /\ hooks'[g] = h
        /\ \A i \in Refs : i # g => hooks'[i] = hooks[i]
    BY <1>a, <2>2, <2>3
  <2> QED BY <1>0, <2>2, <2>3, <2>4 DEF RefundsTypeOK
<1>4. CASE Acknowledge(g) \/ DieHearing(g)
  <2>1. /\ hooks' = [hooks EXCEPT ![g] = NoHook(g)] /\ unheard' \subseteq unheard
        /\ UNCHANGED <<rows, asks, gateway, faults>>
    BY <1>4 DEF Acknowledge, DieHearing
  <2>2. /\ hooks' \in [Refs -> Hook] /\ hooks'[g] = NoHook(g)
        /\ \A i \in Refs : i # g => hooks'[i] = hooks[i]
    BY <1>0, <1>a, <2>1
  <2> QED BY <1>0, <2>1, <2>2 DEF RefundsTypeOK
<1> QED BY <1>1, <1>2, <1>3, <1>4 DEF Hear

LEMMA StepOfRefunds ==
    ASSUME [Next]_vars
    PROVE  \/ UNCHANGED refunds
           \/ \E r \in Requests : Read(r) \/ Sum(r) \/ InsertRow(r) \/ Refused(r) \/ Record(r)
                                   \/ SetRefunded(r) \/ Fail(r) \/ Break(r) \/ Die(r)
           \/ \E r \in Requests, g \in Refs : Refund(r, g)
           \/ \E g \in Refs : RefundOutside(g)
           \/ \E g \in Refs : Hear(g) \/ DieHearing(g)
BY DEF Next, Go, vars

LEMMA RefundsTypeStep == RefundsTypeOK /\ [Next]_vars => RefundsTypeOK'
<1> SUFFICES ASSUME RefundsTypeOK, [Next]_vars PROVE RefundsTypeOK'
  OBVIOUS
<1>1. CASE UNCHANGED refunds
  BY <1>1 DEF refunds, RefundsTypeOK
<1> QED BY <1>1, StepOfRefunds, AskStep, RefundStep, OutsideStep, HookStep

\* The whole state is well formed.
THEOREM RefundsTypeCorrect == Spec => []TypeOK
<1>1. Init => RefundsTypeOK
  BY RefundsTypeInit DEF Init
<1>2. CheckoutTypeOK /\ RefundsTypeOK => TypeOK
  BY DEF RefundsTypeOK, TypeOK
<1> QED BY <1>1, <1>2, RefundsTypeStep, PurchaseTypeCorrect, PTL DEF Spec

---------------------------------------------------------------------------
(* One key, one refund *)

\* The refunds the gateway made for the request r.
By(r) == {g \in Refs : gateway[g].by = r}

Early == {"idle", "sum", "insert", "refund"}
Late == {"refund", "record", "status", "fail"}
Answers(r) == IF asks[r].pc \in Early THEN 0 ELSE 1

HasRow(r) == rows[r].status # "none"

\* The inductive invariant. Rows are never removed, so the unique index
\* leaves a key one request that may ask the gateway; that request asks again
\* only if an answer was lost; and refund.processed takes up no request that
\* has no row.
KeyInv ==
    /\ \A q, r \in Requests :
         (HasRow(q) /\ HasRow(r) /\ KeyOf[q] = KeyOf[r] /\ KeyOf[r] # NoKey) => q = r
    /\ \A r \in Requests : asks[r].pc \in Late => HasRow(r)
    /\ \A r \in Requests : rows[r].ref # NoRef => HasRow(r)
    /\ \A g \in Refs : (hooks[g].pc = "write" /\ hooks[g].row \in Requests)
                          => HasRow(hooks[g].row)
    /\ \A g \in Refs : gateway[g].by \in Requests => HasRow(gateway[g].by)
    /\ \A r \in Requests : Cardinality(By(r)) <= faults.lost + Answers(r)

LEMMA Sizes ==
    ASSUME NEW r \in Requests
    PROVE  /\ IsFiniteSet(By(r)) /\ Cardinality(By(r)) \in Nat
           /\ RefundsTypeOK => faults.lost \in Nat /\ Answers(r) \in {0, 1}
<1>1. By(r) \subseteq Refs
  BY DEF By
<1> QED BY <1>1, FS_Subset, FS_CardinalityType, RefundsAssumption DEF RefundsTypeOK, Answers

LEMMA KeyInit == ASSUME Init PROVE KeyInv
<1>1. /\ \A r \in Requests : rows[r] = NoRow /\ asks[r].pc = "idle"
      /\ \A g \in Refs : hooks[g].pc = "idle" /\ gateway[g].by = NoRef
      /\ faults.lost = 0
  BY DEF Init, RefundInit, NoHook
<1>2. NoRef \notin Requests
  BY RefundsAssumption DEF NoRef
<1>3. \A r \in Requests : By(r) = {}
  BY <1>1, <1>2 DEF By
<1>4. \A r \in Requests : Cardinality(By(r)) = 0
  BY <1>3, FS_EmptySet
<1> QED BY <1>1, <1>2, <1>4 DEF KeyInv, HasRow, NoRow, Late, Early, Answers

\* What is left to show of a step that moves no money.
LEMMA KeyKept ==
    ASSUME RefundsTypeOK, KeyInv, UNCHANGED gateway, faults'.lost = faults.lost,
           \A r \in Requests : HasRow(r) => HasRow(r)',
           \A r \in Requests : asks[r].pc \notin Early => asks'[r].pc \notin Early,
           \A r \in Requests : asks'[r].pc \in Late => asks[r].pc \in Late \/ HasRow(r)',
           \A r \in Requests : rows'[r].ref # NoRef => rows[r].ref # NoRef \/ HasRow(r)',
           \A g \in Refs : (hooks'[g].pc = "write" /\ hooks'[g].row \in Requests)
                              => hooks'[g] = hooks[g] \/ rows'[hooks'[g].row].status # "none",
           \A q, r \in Requests :
             (HasRow(q)' /\ HasRow(r)' /\ KeyOf[q] = KeyOf[r] /\ KeyOf[r] # NoKey)
                => q = r \/ (HasRow(q) /\ HasRow(r))
    PROVE  KeyInv'
<1>1. \A r \in Requests : By(r)' = By(r)
  BY DEF By
<1>2. ASSUME NEW r \in Requests
      PROVE  (Cardinality(By(r)) <= faults.lost + Answers(r))'
  <2>1. /\ Cardinality(By(r)) <= faults.lost + Answers(r)
        /\ Cardinality(By(r)) \in Nat /\ faults.lost \in Nat
    BY Sizes DEF KeyInv
  <2>2. Cardinality(By(r))' = Cardinality(By(r))
    BY <1>1
  <2>3. Answers(r) = 1 => Answers(r)' = 1
    BY DEF Answers
  <2>4. Answers(r) \in {0, 1} /\ Answers(r)' \in {0, 1}
    BY DEF Answers
  <2> QED BY <2>1, <2>2, <2>3, <2>4
<1>3. \A g \in Refs : gateway'[g].by \in Requests => rows'[gateway'[g].by].status # "none"
  BY DEF KeyInv, HasRow
<1>4. \A r \in Requests : asks'[r].pc \in Late => HasRow(r)'
  BY DEF KeyInv
<1>5. \A r \in Requests : rows'[r].ref # NoRef => HasRow(r)'
  BY DEF KeyInv
<1>6. \A g \in Refs : (hooks'[g].pc = "write" /\ hooks'[g].row \in Requests)
                          => rows'[hooks'[g].row].status # "none"
  BY DEF KeyInv, HasRow
<1>7. \A q, r \in Requests :
        (HasRow(q)' /\ HasRow(r)' /\ KeyOf[q] = KeyOf[r] /\ KeyOf[r] # NoKey) => q = r
  BY DEF KeyInv
<1> QED BY <1>2, <1>3, <1>4, <1>5, <1>6, <1>7 DEF KeyInv, HasRow

LEMMA KeyAsk ==
    ASSUME RefundsTypeOK, KeyInv, NEW r \in Requests,
           Read(r) \/ Sum(r) \/ InsertRow(r) \/ Refused(r) \/ Record(r) \/ SetRefunded(r)
              \/ Fail(r) \/ Break(r) \/ Die(r)
    PROVE  KeyInv'
<1>1. /\ UNCHANGED <<gateway, hooks>> /\ faults'.lost = faults.lost
      /\ \A q \in Requests : q # r => asks'[q] = asks[q]
      /\ asks[r].pc \notin Early => asks'[r].pc \notin Early
      /\ asks'[r].pc \in Late => asks[r].pc \in Late \/ HasRow(r)'
  BY AskStep DEF Asked, Early, Late, HasRow
<1>2. \/ rows' = rows
      \/ /\ \A q \in Requests : q # r => rows'[q] = rows[q]
         /\ HasRow(r)'
         /\ asks[r].pc = "insert" => SameKey(r) = {}
         /\ asks[r].pc \in {"insert", "record", "fail"}
  BY AskStep DEF Filed, HasRow
<1>3. /\ \A q \in Requests : HasRow(q) => HasRow(q)'
      /\ \A q \in Requests : rows'[q].ref # NoRef => rows[q].ref # NoRef \/ HasRow(q)'
  BY <1>2 DEF HasRow
<1>4. ASSUME NEW p \in Requests, NEW q \in Requests, HasRow(p)', HasRow(q)',
             KeyOf[p] = KeyOf[q], KeyOf[q] # NoKey
      PROVE  p = q \/ (HasRow(p) /\ HasRow(q))
  <2>1. CASE rows' = rows
    BY <1>4, <2>1 DEF HasRow
  <2>2. CASE HasRow(r)
    BY <1>2, <1>4, <2>2 DEF HasRow
  <2>3. CASE asks[r].pc \in {"record", "fail"}
    BY <1>2, <1>4, <2>3 DEF HasRow, KeyInv, Late
  <2>4. CASE rows' # rows /\ asks[r].pc = "insert"
    <3>1. \A s \in Requests : (KeyOf[s] = KeyOf[r] /\ KeyOf[r] # NoKey) => ~HasRow(s)
      BY <1>2, <2>4 DEF SameKey, HasRow
    <3>2. \A s \in Requests : (s # r /\ HasRow(s)') => HasRow(s)
      BY <1>2 DEF HasRow
    <3> QED BY <1>4, <3>1, <3>2
  <2> QED BY <1>2, <2>1, <2>2, <2>3, <2>4
<1>5. \A q \in Requests : asks[q].pc \notin Early => asks'[q].pc \notin Early
  BY <1>1
<1>6. \A q \in Requests : asks'[q].pc \in Late => asks[q].pc \in Late \/ HasRow(q)'
  BY <1>1
<1> QED BY <1>1, <1>3, <1>4, <1>5, <1>6, KeyKept

LEMMA KeyHook ==
    ASSUME RefundsTypeOK, KeyInv, NEW g \in Refs, Hear(g) \/ DieHearing(g)
    PROVE  KeyInv'
<1>1. /\ UNCHANGED <<asks, gateway, faults>>
      /\ \A h \in Refs : h # g => hooks'[h] = hooks[h]
      /\ hooks'[g].pc = "write" => hooks'[g] = hooks[g] \/ hooks'[g].row \in Matching(g)
      /\ \/ rows' = rows
         \/ /\ hooks[g].pc = "write" /\ rows'[hooks[g].row].status = "completed"
            /\ \A q \in Requests : q # hooks[g].row => rows'[q] = rows[q]
  BY HookStep DEF Filed
<1>2. \A q \in Requests : HasRow(q)' = HasRow(q)
  BY <1>1 DEF KeyInv, HasRow
<1>3. \A q \in Requests : rows'[q].ref # NoRef => rows[q].ref # NoRef \/ HasRow(q)'
  BY <1>1 DEF HasRow
<1>4. ASSUME NEW h \in Refs, hooks'[h].pc = "write", hooks'[h].row \in Requests
      PROVE  hooks'[h] = hooks[h] \/ rows'[hooks'[h].row].status # "none"
  <2>1. CASE h # g \/ hooks'[g] = hooks[g]
    BY <1>1, <2>1
  <2>2. CASE h = g /\ hooks'[g].row \in Matching(g)
    <3> DEFINE q == hooks'[g].row
    <3>1. q \in Requests /\ g \notin Requests /\ g # NoRef
      BY <1>4, <2>2, RefundsAssumption DEF NoRef
    <3>2. rows[q].ref = g \/ rows[q].status = "processing"
      BY <2>2, <3>1 DEF Matching
    <3>3. HasRow(q)
      BY <3>1, <3>2 DEF KeyInv, HasRow
    <3>4. rows'[q].status # "none"
      BY <1>2, <3>1, <3>3 DEF HasRow
    <3> QED BY <2>2, <3>4
  <2> QED BY <1>1, <1>4, <2>1, <2>2
<1> QED BY <1>1, <1>2, <1>3, <1>4, KeyKept

\* A refund is the request's first, or an answer to it was lost.
LEMMA KeyRefund ==
    ASSUME RefundsTypeOK, KeyInv, NEW r \in Requests, NEW g \in Refs, Refund(r, g)
    PROVE  KeyInv'
<1>1. /\ UNCHANGED <<rows, hooks>> /\ asks[r].pc = "refund"
      /\ gateway[g].by = NoRef /\ gateway'[g].by = r
      /\ \A h \in Refs : h # g => gateway'[h] = gateway[h]
      /\ \/ Asked(r, "record") /\ faults' = faults
         \/ asks' = asks /\ faults'.lost = faults.lost + 1
  BY RefundStep
<1>2. NoRef \notin Requests
  BY RefundsAssumption DEF NoRef
<1>3. By(r)' = By(r) \cup {g} /\ g \notin By(r)
  BY <1>1, <1>2 DEF By
<1>4. \A q \in Requests : q # r => By(q)' = By(q)
  BY <1>1, <1>2 DEF By
<1>5. HasRow(r)
  BY <1>1 DEF KeyInv, Late
<1>6. \A q \in Requests : asks'[q].pc \in Late => HasRow(q)
  BY <1>1, <1>5 DEF KeyInv, Asked
<1>7. \A h \in Refs : gateway'[h].by \in Requests => HasRow(gateway'[h].by)
  BY <1>1, <1>5 DEF KeyInv
<1>8. faults.lost \in Nat /\ (faults'.lost = faults.lost \/ faults'.lost = faults.lost + 1)
  BY <1>1, Sizes
<1>9. ASSUME NEW q \in Requests
      PROVE  (Cardinality(By(q)) <= faults.lost + Answers(q))'
  <2>1. /\ Cardinality(By(q)) <= faults.lost + Answers(q)
        /\ Cardinality(By(q)) \in Nat /\ IsFiniteSet(By(q))
    BY Sizes DEF KeyInv
  <2>2. Answers(q) \in {0, 1} /\ Answers(q)' \in {0, 1}
    BY DEF Answers
  <2>3. CASE q # r
    <3>1. Cardinality(By(q))' = Cardinality(By(q))
      BY <1>4, <2>3
    <3>2. Answers(q)' = Answers(q)
      BY <1>1, <2>3 DEF Answers, Asked
    <3> QED BY <1>8, <2>1, <2>2, <3>1, <3>2
  <2>4. CASE q = r
    <3> DEFINE B == By(r)
    <3>1. IsFiniteSet(B) /\ g \notin B
      BY <1>3, <2>1, <2>4
    <3> HIDE DEF B
    <3>2. Cardinality(B \cup {g}) = Cardinality(B) + 1
      BY <3>1, FS_AddElement
    <3>3. Cardinality(By(r))' = Cardinality(By(r)) + 1
      BY <1>3, <3>2 DEF B
    <3>4. Answers(r) = 0
      BY <1>1 DEF Answers, Early
    <3>5. CASE Asked(r, "record") /\ faults' = faults
      <4>1. Answers(r)' = 1
        BY <3>5 DEF Asked, Answers, Early
      <4> QED BY <1>8, <2>1, <2>4, <3>3, <3>4, <3>5, <4>1
    <3>6. CASE asks' = asks /\ faults'.lost = faults.lost + 1
      <4>1. Answers(r)' = 0
        BY <3>4, <3>6 DEF Answers
      <4> QED BY <1>8, <2>1, <2>4, <3>3, <3>4, <3>6, <4>1
    <3> QED BY <1>1, <3>5, <3>6
  <2> QED BY <2>3, <2>4
<1> QED BY <1>1, <1>6, <1>7, <1>9 DEF KeyInv, HasRow

LEMMA KeyOutside ==
    ASSUME RefundsTypeOK, KeyInv, NEW g \in Refs, RefundOutside(g)
    PROVE  KeyInv'
<1>1. /\ UNCHANGED <<rows, asks, hooks>> /\ faults'.lost = faults.lost
      /\ gateway[g].by = NoRef /\ gateway'[g].by = Outside
      /\ \A h \in Refs : h # g => gateway'[h] = gateway[h]
  BY OutsideStep
<1>2. NoRef \notin Requests /\ Outside \notin Requests
  BY RefundsAssumption DEF NoRef, Outside
<1>3. \A r \in Requests : By(r)' = By(r)
  BY <1>1, <1>2 DEF By
<1>4. \A h \in Refs : gateway'[h].by \in Requests => gateway'[h] = gateway[h]
  BY <1>1, <1>2
<1>5. \A r \in Requests : Cardinality(By(r))' = Cardinality(By(r)) /\ Answers(r)' = Answers(r)
  BY <1>1, <1>3 DEF Answers
<1> QED BY <1>1, <1>4, <1>5 DEF KeyInv, HasRow

LEMMA KeyStep == RefundsTypeOK /\ KeyInv /\ [Next]_vars => KeyInv'
<1> SUFFICES ASSUME RefundsTypeOK, KeyInv, [Next]_vars PROVE KeyInv'
  OBVIOUS
<1>1. CASE UNCHANGED refunds
  BY <1>1 DEF refunds, KeyInv, HasRow, By, Answers
<1> QED BY <1>1, StepOfRefunds, KeyAsk, KeyRefund, KeyOutside, KeyHook

\* Of any number of requests that carry one idempotency key, at once or later,
\* one alone moves money, whatever is lost, fails or dies, and it does so once as
\* long as the gateway's answers arrive (the unique index on the key). After a
\* lost answer it does refund again (withGatewayRetry).
THEOREM RefundedOncePerKey == Spec => []KeyRefundedOnce
<1>1. Init => RefundsTypeOK /\ KeyInv
  BY RefundsTypeInit, KeyInit DEF Init
<1>2. ASSUME RefundsTypeOK, KeyInv PROVE KeyRefundedOnce
  <2> SUFFICES ASSUME NEW r \in Requests, KeyOf[r] # NoKey
               PROVE  /\ \A g, h \in RefundsFor(r) : gateway[g].by = gateway[h].by
                      /\ faults.lost = 0 => Cardinality(RefundsFor(r)) <= 1
    BY DEF KeyRefundedOnce
  <2>1. \A g, h \in RefundsFor(r) : gateway[g].by = gateway[h].by
    BY <1>2 DEF KeyInv, RefundsFor
  <2>2. CASE RefundsFor(r) = {}
    BY <2>1, <2>2, FS_EmptySet
  <2>3. CASE RefundsFor(r) # {}
    <3>1. PICK g \in RefundsFor(r) : TRUE
      BY <2>3
    <3> DEFINE q == gateway[g].by
    <3>2. q \in Requests /\ KeyOf[q] = KeyOf[r]
      BY <3>1 DEF RefundsFor
    <3>3. RefundsFor(r) = By(q)
      BY <2>1, <3>1, <3>2 DEF By, RefundsFor
    <3>4. /\ Cardinality(By(q)) <= faults.lost + Answers(q)
          /\ Cardinality(By(q)) \in Nat /\ Answers(q) \in {0, 1}
      BY <1>2, <3>2, Sizes DEF KeyInv
    <3>5. faults.lost = 0 => Cardinality(By(q)) <= 1
      BY <3>4
    <3> QED BY <2>1, <3>3, <3>5
  <2> QED BY <2>2, <2>3
<1> QED BY <1>1, <1>2, RefundsTypeStep, KeyStep, PTL DEF Spec
---------------------------------------------------------------------------
(* The ledger of the refunds, while nothing goes wrong *)

\* The requests repeat one refund under one idempotency key.
OneKey == \A q, r \in Requests : KeyOf[q] = KeyOf[r] /\ KeyOf[r] # NoKey

\* The refund g that the request r got out of the gateway: the request has
\* moved on from asking, its row says the same amount and is completed as soon
\* as the request or the event is through, and the event is about that row.
Refunding(r, g) ==
    /\ gateway[g].amount = rows[r].amount
    /\ rows[r].status \in {"processing", "completed"}
    /\ asks[r].pc \in {"record", "status", "over", "dead"}
    /\ asks[r].pc = "record" => asks[r].ref = g
    /\ asks[r].pc \in {"status", "over"} => rows[r].status = "completed"
    /\ g \notin unheard => rows[r].status = "completed" /\ hooks[g].pc = "idle"
    /\ hooks[g].pc # "idle" => hooks[g].row = r
    /\ hooks[g].pc \in {"total", "status"} => rows[r].status = "completed"

\* What a request's row says without regard to where the event is.
Asking(r) ==
    /\ asks[r].pc = "refund" => rows[r].amount = asks[r].amount
                                /\ rows[r].status = "processing"
    /\ asks[r].pc \in {"record", "status"} => \E g \in Refs : gateway[g].by = r
    /\ rows[r].status = "completed" => \E g \in Refs : gateway[g].by = r /\ rows[r].ref = g
    /\ \A g \in Refs : rows[r].ref = g => gateway[g].by = r /\ rows[r].status = "completed"

\* No event is without its refund, and none makes a row of its own.
Gateway(g) ==
    /\ rows[g] = NoRow
    /\ gateway[g].by # Outside
    /\ gateway[g].by = NoRef => gateway[g].amount = 0 /\ g \notin unheard /\ hooks[g].pc = "idle"

LedgerInv ==
    /\ \A g \in Refs : Gateway(g)
    /\ \A g, h \in Refs : gateway[g].by # NoRef /\ gateway[h].by # NoRef => g = h
    /\ \A r \in Requests : Asking(r)
    /\ \A r \in Requests, g \in Refs : gateway[g].by = r => Refunding(r, g)

LEMMA LedgerInit == ASSUME Init PROVE LedgerInv
<1>1. /\ \A r \in Requests \cup Refs : rows[r] = NoRow
      /\ \A r \in Requests : asks[r].pc = "idle"
      /\ \A g \in Refs : gateway[g] = [by |-> NoRef, amount |-> 0] /\ hooks[g].pc = "idle"
      /\ unheard = {}
  BY DEF Init, RefundInit, NoHook
<1>2. NoRef \notin Requests /\ NoRef \notin Refs /\ NoRef # Outside
  BY RefundsAssumption DEF NoRef, Outside
<1>3. \A g \in Refs : gateway[g].by = NoRef /\ gateway[g].amount = 0
  BY <1>1
<1>4. \A r \in Requests \cup Refs : rows[r].status = "none" /\ rows[r].ref = NoRef
  BY <1>1 DEF NoRow
<1> QED BY <1>1, <1>2, <1>3, <1>4 DEF LedgerInv, Gateway, Asking, Refunding

\* What went wrong stays so.
LEMMA FaultsStay ==
    ASSUME RefundsTypeOK, [Next]_vars, Regular'
    PROVE  Regular /\ faults' = faults
<1>1. /\ faults \in [lost : Nat, broken : Nat, outside : Nat]
      /\ faults' = [lost |-> 0, broken |-> 0, outside |-> 0]
  BY DEF RefundsTypeOK, Regular
<1>2. \/ faults' = faults
      \/ faults' = [faults EXCEPT !.lost = @ + 1]
      \/ faults' = [faults EXCEPT !.broken = @ + 1]
      \/ faults' = [faults EXCEPT !.outside = @ + 1]
  BY DEF Next, Go, Hear, vars, refunds, Read, Sum, InsertRow, Refused, Record, SetRefunded,
         Fail, Break, Die, Refund, RefundOutside, Find, Write, Total, Acknowledge, DieHearing
<1>3. faults.lost \in Nat /\ faults.broken \in Nat /\ faults.outside \in Nat
  BY <1>1
<1>4. faults' # [faults EXCEPT !.lost = @ + 1]
  BY <1>1, <1>3
<1>5. faults' # [faults EXCEPT !.broken = @ + 1]
  BY <1>1, <1>3
<1>6. faults' # [faults EXCEPT !.outside = @ + 1]
  BY <1>1, <1>3
<1> QED BY <1>1, <1>2, <1>4, <1>5, <1>6 DEF Regular

\* The names of requests and refunds are apart.
LEMMA Apart ==
    /\ NoRef \notin Requests /\ NoRef \notin Refs /\ NoRef # Outside /\ Outside \notin Requests
    /\ \A r \in Requests, g \in Refs : r # g
BY RefundsAssumption DEF NoRef, Outside

\* What is left to show of a step of the request r.
LEMMA LedgerAsk ==
    ASSUME LedgerInv, NEW r \in Requests, UNCHANGED <<gateway, unheard, hooks>>,
           \A q \in Requests : q # r => asks'[q] = asks[q],
           \A q \in Requests \cup Refs : q # r => rows'[q] = rows[q],
           Asking(r)', \A g \in Refs : gateway[g].by = r => Refunding(r, g)'
    PROVE  LedgerInv'
<1>1. \A g \in Refs : Gateway(g)'
  BY Apart DEF LedgerInv, Gateway
<1>2. \A q \in Requests : Asking(q)'
  BY DEF LedgerInv, Asking
<1>3. \A q \in Requests, g \in Refs : gateway'[g].by = q => Refunding(q, g)'
  BY DEF LedgerInv, Refunding
<1> QED BY <1>1, <1>2, <1>3 DEF LedgerInv

LEMMA LedgerRequest ==
    ASSUME RefundsTypeOK, LedgerInv, faults' = faults, NEW r \in Requests,
           Read(r) \/ Sum(r) \/ InsertRow(r) \/ Refused(r) \/ Record(r) \/ SetRefunded(r)
              \/ Fail(r) \/ Break(r) \/ Die(r)
    PROVE  LedgerInv'
<1>0. /\ asks \in [Requests -> Ask] /\ rows \in [Requests \cup Refs -> Row]
      /\ faults \in [lost : Nat, broken : Nat, outside : Nat]
      /\ rows[r].ref \in Refs \cup {NoRef}
  BY RowFields DEF RefundsTypeOK
<1>1. /\ Asking(r) /\ \A g \in Refs : gateway[g].by = r => Refunding(r, g)
      /\ UNCHANGED <<gateway, unheard, hooks>>
      /\ \A q \in Requests : q # r => asks'[q] = asks[q]
  BY <1>0 DEF LedgerInv, Read, Sum, InsertRow, Refused, Record, SetRefunded, Fail, Break, Die, Step
<1>2. CASE /\ rows' = rows /\ asks[r].pc \in {"idle", "sum", "insert"}
           /\ asks'[r].pc \in {"sum", "insert", "over"}
  <2>1. \A g \in Refs : gateway[g].by # r
    BY <1>1, <1>2 DEF Refunding
  <2> QED BY <1>1, <1>2, <2>1, LedgerAsk DEF Asking
<1>3. CASE Read(r) \/ Sum(r)
  <2>1. asks[r] \in Ask
    BY <1>0
  <2>2. rows' = rows /\ asks[r].pc \in {"idle", "sum"}
    BY <1>3 DEF Read, Sum, Step
  <2>3. asks'[r].pc \in {"sum", "insert", "over"}
    BY <1>0, <1>3, <2>1 DEF Read, Sum, Step, Ask
  <2> QED BY <1>2, <2>2, <2>3
<1>4. CASE InsertRow(r)
  <2>1. asks[r].pc = "insert" /\ asks[r] \in Ask
    BY <1>0, <1>4 DEF InsertRow
  <2>2. CASE rows' = rows /\ asks' = [asks EXCEPT ![r].pc = "over"]
    <3>1. asks'[r].pc = "over"
      BY <1>0, <2>1, <2>2 DEF Ask
    <3> QED BY <1>2, <2>1, <2>2, <3>1
  <2>3. CASE /\ rows' = [rows EXCEPT ![r] = [status |-> "processing", ref |-> NoRef,
                                             amount |-> asks[r].amount]]
             /\ asks' = [asks EXCEPT ![r].pc = "refund"]
    <3>1. \A g \in Refs : gateway[g].by # r
      BY <1>1, <2>1 DEF Refunding
    <3>2. asks'[r].pc = "refund" /\ asks'[r].amount = asks[r].amount
      BY <1>0, <2>1, <2>3 DEF Ask
    <3>3. /\ rows'[r].status = "processing" /\ rows'[r].ref = NoRef
          /\ rows'[r].amount = asks[r].amount
          /\ \A q \in Requests \cup Refs : q # r => rows'[q] = rows[q]
      BY <1>0, <2>3
    <3>4. Asking(r)'
      BY <3>2, <3>3, Apart DEF Asking
    <3> QED BY <1>1, <3>1, <3>3, <3>4, LedgerAsk
  <2> QED BY <1>4, <2>2, <2>3 DEF InsertRow
<1>5. CASE Refused(r)
  <2>1. asks[r].pc = "refund" /\ asks'[r].pc = "fail" /\ rows' = rows
    BY <1>0, <1>5 DEF Refused, Step, Ask
  <2>2. \A g \in Refs : gateway[g].by # r
    BY <1>1, <2>1 DEF Refunding
  <2> QED BY <1>1, <2>1, <2>2, LedgerAsk DEF Asking
<1>6. CASE Record(r)
  <2>1. asks[r].pc = "record" /\ asks'[r].pc = "status"
    BY <1>0, <1>6 DEF Record, Step, Ask
  <2>2. PICK g \in Refs : gateway[g].by = r
    BY <1>1, <2>1 DEF Asking
  <2>3. asks[r].ref = g /\ \A h \in Refs : gateway[h].by = r => h = g
    BY <1>1, <2>1, <2>2, Apart DEF LedgerInv, Refunding
  <2>4. rows[r] \in Row
    BY <1>0
  <2>5. /\ rows'[r].status = "completed" /\ rows'[r].ref = g
        /\ rows'[r].amount = rows[r].amount
        /\ \A q \in Requests \cup Refs : q # r => rows'[q] = rows[q]
    BY <1>0, <1>6, <2>3, <2>4 DEF Record, Row
  <2>6. Asking(r)'
    BY <1>1, <2>1, <2>2, <2>5 DEF Asking
  <2>7. \A h \in Refs : gateway[h].by = r => Refunding(r, h)'
    BY <1>1, <2>1, <2>5 DEF Refunding
  <2> QED BY <1>1, <2>5, <2>6, <2>7, LedgerAsk
<1>7. CASE SetRefunded(r)
  <2>1. asks[r].pc = "status" /\ asks'[r].pc = "over" /\ rows' = rows
    BY <1>0, <1>7 DEF SetRefunded, Step, Ask
  <2>2. Asking(r)' /\ \A g \in Refs : gateway[g].by = r => Refunding(r, g)'
    BY <1>1, <2>1 DEF Asking, Refunding
  <2> QED BY <1>1, <2>1, <2>2, LedgerAsk
<1>8. CASE Fail(r)
  <2>1. asks[r].pc = "fail" /\ asks'[r].pc = "over"
    BY <1>0, <1>8 DEF Fail, Step, Ask
  <2>2. \A g \in Refs : gateway[g].by # r
    BY <1>1, <2>1 DEF Refunding
  <2>3. rows[r] \in Row
    BY <1>0
  <2>4. /\ rows'[r].status = "failed" /\ rows'[r].ref = rows[r].ref
        /\ \A q \in Requests \cup Refs : q # r => rows'[q] = rows[q]
    BY <1>0, <1>8, <2>3 DEF Fail, Row
  <2> QED BY <1>1, <2>1, <2>2, <2>4, LedgerAsk DEF Asking
<1>9. CASE Break(r)
  <2>1. faults' = [faults EXCEPT !.broken = @ + 1] /\ faults.broken \in Nat
    BY <1>0, <1>9 DEF Break
  <2>2. faults'.broken = faults.broken + 1
    BY <1>0, <2>1
  <2> QED BY <2>1, <2>2
<1>10. CASE Die(r)
  <2>1. asks'[r].pc = "dead" /\ rows' = rows
    BY <1>0, <1>10 DEF Die, Ask
  <2>2. Asking(r)' /\ \A g \in Refs : gateway[g].by = r => Refunding(r, g)'
    BY <1>1, <2>1 DEF Asking, Refunding
  <2> QED BY <1>1, <2>1, <2>2, LedgerAsk
<1> QED BY <1>3, <1>4, <1>5, <1>6, <1>7, <1>8, <1>9, <1>10

\* Under one key one request asks the gateway, so that its refund is the only.
LEMMA LedgerRefund ==
    ASSUME RefundsTypeOK, KeyInv, LedgerInv, OneKey, faults' = faults,
           NEW r \in Requests, NEW g \in Refs, Refund(r, g)
    PROVE  LedgerInv'
<1>0. /\ asks \in [Requests -> Ask] /\ asks[r] \in Ask /\ rows \in [Requests \cup Refs -> Row]
      /\ gateway \in [Refs -> [by : Requests \cup {NoRef, Outside}, amount : Nat]]
      /\ faults \in [lost : Nat, broken : Nat, outside : Nat]
      /\ rows[r].ref \in Refs \cup {NoRef}
  BY RowFields DEF RefundsTypeOK
<1>1. asks' # asks
  <2>1. faults.lost \in Nat /\ [faults EXCEPT !.lost = @ + 1].lost = faults.lost + 1
    BY <1>0
  <2> DEFINE more == [faults EXCEPT !.lost = @ + 1]
  <2>2. faults' # more
    <3>1. more.lost # faults.lost
      BY <2>1
    <3> HIDE DEF more
    <3> QED BY <3>1
  <2>3. asks' = [asks EXCEPT ![r].pc = "record", ![r].ref = g] /\ asks[r].pc = "refund"
    BY <2>2 DEF Refund
  <2>4. asks'[r].pc = "record"
    BY <1>0, <2>3 DEF Ask
  <2> QED BY <2>3, <2>4
<1>2. asks' = [asks EXCEPT ![r].pc = "record", ![r].ref = g] /\ asks[r].pc = "refund"
  BY <1>1 DEF Refund
<1>3. /\ asks'[r].pc = "record" /\ asks'[r].ref = g
      /\ \A q \in Requests : q # r => asks'[q] = asks[q]
  BY <1>0, <1>2 DEF Ask
<1>4. /\ UNCHANGED <<rows, hooks>> /\ unheard' = unheard \cup {g}
      /\ gateway[g].by = NoRef /\ gateway' = [gateway EXCEPT ![g] = [by |-> r, amount |-> asks[r].amount]]
  BY DEF Refund, GatewayRefunds
<1>5. /\ gateway'[g].by = r /\ gateway'[g].amount = asks[r].amount
      /\ \A h \in Refs : h # g => gateway'[h] = gateway[h]
  BY <1>0, <1>4
<1>6. \A h \in Refs : gateway[h].by = NoRef
  <2> SUFFICES ASSUME NEW h \in Refs, gateway[h].by # NoRef PROVE FALSE
    OBVIOUS
  <2>1. gateway[h].by \in Requests
    BY <1>0 DEF LedgerInv, Gateway
  <2>2. HasRow(gateway[h].by) /\ HasRow(r)
    BY <1>2, <2>1 DEF KeyInv, Late
  <2>3. gateway[h].by = r
    BY <2>1, <2>2 DEF KeyInv, OneKey
  <2> QED BY <1>2, <2>3 DEF LedgerInv, Refunding
<1>7. hooks[g].pc = "idle" /\ rows[r].amount = asks[r].amount /\ rows[r].status = "processing"
  BY <1>2, <1>4 DEF LedgerInv, Gateway, Asking
<1>8. \A h \in Refs : Gateway(h)'
  BY <1>4, <1>5, Apart DEF LedgerInv, Gateway
<1>9. \A h, i \in Refs : gateway'[h].by # NoRef /\ gateway'[i].by # NoRef => h = i
  BY <1>5, <1>6
<1>10. \A q \in Requests : Asking(q)'
  <2>1. \A q \in Requests : rows[q].status # "completed" /\ \A h \in Refs : rows[q].ref # h
    BY <1>6, Apart DEF LedgerInv, Asking
  <2>2. \A q \in Requests : asks[q].pc \notin {"record", "status"}
    BY <1>6, Apart DEF LedgerInv, Asking
  <2>3. \A q \in Requests : asks[q].pc = "refund" => rows[q].amount = asks[q].amount
                                                      /\ rows[q].status = "processing"
    BY DEF LedgerInv, Asking
  <2> QED BY <1>3, <1>4, <1>5, <2>1, <2>2, <2>3 DEF Asking
<1>11. ASSUME NEW q \in Requests, NEW h \in Refs, gateway'[h].by = q
       PROVE  Refunding(q, h)'
  <2>1. h = g /\ q = r
    BY <1>5, <1>6, <1>11, Apart
  <2> QED BY <1>3, <1>4, <1>5, <1>7, <2>1 DEF Refunding
<1> QED BY <1>8, <1>9, <1>10, <1>11 DEF LedgerInv

\* The event takes up the row of the request that was refunded, and no other.
LEMMA Matched ==
    ASSUME RefundsTypeOK, KeyInv, LedgerInv, OneKey, NEW r \in Requests, NEW g \in Refs,
           gateway[g].by = r
    PROVE  Matching(g) = {r}
<1>0. DOMAIN rows = Requests \cup Refs
  BY DEF RefundsTypeOK
<1>1. HasRow(r) /\ Refunding(r, g) /\ Asking(r)
  BY DEF KeyInv, LedgerInv
<1>2. \A q \in Requests : HasRow(q) => q = r
  BY <1>1 DEF KeyInv, OneKey
<1>3. \A q \in Requests : rows[q].ref = g => q = r
  BY DEF LedgerInv, Asking
<1>4. \A h \in Refs : rows[h].ref = NoRef /\ rows[h].status = "none"
  BY DEF LedgerInv, Gateway, NoRow
<1>5. {q \in DOMAIN rows : rows[q].ref = g} \subseteq {r}
  BY <1>0, <1>3, <1>4, Apart
<1>6. {q \in DOMAIN rows : rows[q].status = "processing"} \subseteq {r}
  BY <1>0, <1>2, <1>4 DEF HasRow
<1>7. rows[r].ref = g \/ rows[r].status = "processing"
  BY <1>1, Apart DEF Refunding, Asking, LedgerInv
<1> QED BY <1>0, <1>5, <1>6, <1>7 DEF Matching

LEMMA LedgerHook ==
    ASSUME RefundsTypeOK, KeyInv, LedgerInv, OneKey, NEW g \in Refs, Hear(g) \/ DieHearing(g)
    PROVE  LedgerInv'
<1>0. /\ rows \in [Requests \cup Refs -> Row] /\ hooks \in [Refs -> Hook] /\ hooks[g] \in Hook
      /\ gateway \in [Refs -> [by : Requests \cup {NoRef, Outside}, amount : Nat]]
  BY DEF RefundsTypeOK
<1>1. /\ UNCHANGED <<asks, gateway>> /\ unheard' \in {unheard, unheard \ {g}}
      /\ \A h \in Refs : h # g => hooks'[h] = hooks[h]
      /\ g \in unheard \/ hooks[g].pc # "idle"
  BY <1>0 DEF Hear, Find, Write, Total, Acknowledge, DieHearing
<1>2. PICK r \in Requests : gateway[g].by = r
  BY <1>0, <1>1 DEF LedgerInv, Gateway
<1>3. Refunding(r, g) /\ Asking(r) /\ Matching(g) = {r}
  BY <1>2, Matched DEF LedgerInv
<1>4. \A h \in Refs : h # g => gateway[h].by = NoRef
  BY <1>2, Apart DEF LedgerInv
<1>5. ASSUME Refunding(r, g)', Asking(r)',
             \A q \in Requests \cup Refs : q # r => rows'[q] = rows[q]
      PROVE  LedgerInv'
  <2>1. \A h \in Refs : Gateway(h)'
    BY <1>1, <1>2, <1>5, Apart DEF LedgerInv, Gateway
  <2>2. \A q \in Requests : Asking(q)'
    BY <1>1, <1>5 DEF LedgerInv, Asking
  <2>3. ASSUME NEW q \in Requests, NEW h \in Refs, gateway'[h].by = q
        PROVE  Refunding(q, h)'
    <3>1. q = r /\ h = g
      BY <1>1, <1>2, <1>4, <2>3, Apart
    <3> QED BY <1>5, <3>1
  <2> QED BY <1>1, <2>1, <2>2, <2>3 DEF LedgerInv
<1>6. CASE Find(g)
  <2>1. /\ g \in unheard /\ hooks[g].pc = "idle" /\ rows' = rows
        /\ IF rows[r].status = "completed"
           THEN unheard' = unheard \ {g} /\ UNCHANGED hooks
           ELSE /\ hooks' = [hooks EXCEPT ![g] = [@ EXCEPT !.pc = "write", !.row = r]]
                /\ UNCHANGED unheard
    BY <1>3, <1>6 DEF Find
  <2>2. Asking(r)'
    BY <1>1, <1>3, <2>1 DEF Asking
  <2>3. CASE rows[r].status = "completed"
    BY <1>1, <1>3, <1>5, <2>1, <2>2, <2>3 DEF Refunding
  <2>4. CASE rows[r].status # "completed"
    <3> DEFINE h == [hooks[g] EXCEPT !.pc = "write", !.row = r]
    <3>a. h.pc = "write" /\ h.row = r
      BY <1>0 DEF Hook
    <3>b. hooks' = [hooks EXCEPT ![g] = h]
      BY <2>1, <2>4
    <3> HIDE DEF h
    <3>1. hooks'[g].pc = "write" /\ hooks'[g].row = r
      BY <1>0, <3>a, <3>b
    <3>2. Refunding(r, g)'
      BY <1>1, <1>3, <2>1, <2>4, <3>1 DEF Refunding
    <3> QED BY <1>5, <2>1, <2>2, <3>2
  <2> QED BY <2>3, <2>4
<1>7. CASE Write(g)
  <2>1. hooks[g].pc = "write" /\ hooks[g].row = r /\ unheard' = unheard
    BY <1>3, <1>7 DEF Write, Refunding
  <2>2. rows' = [rows EXCEPT ![r] = [status |-> "completed", ref |-> g,
                                     amount |-> rows[r].amount]]
    BY <1>2, <1>7, <2>1, Apart DEF Write
  <2>3. /\ rows'[r].status = "completed" /\ rows'[r].ref = g
        /\ rows'[r].amount = rows[r].amount
        /\ \A q \in Requests \cup Refs : q # r => rows'[q] = rows[q]
    BY <1>0, <1>2, <2>2
  <2>4. hooks'[g].pc = "total" /\ hooks'[g].row = r
    BY <1>0, <1>7, <2>1 DEF Write, Hook
  <2>5. Refunding(r, g)'
    BY <1>1, <1>3, <2>1, <2>3, <2>4 DEF Refunding
  <2>6. Asking(r)'
    BY <1>1, <1>2, <1>3, <2>3 DEF Asking, Refunding
  <2> QED BY <1>5, <2>3, <2>5, <2>6
<1>8. CASE Total(g)
  <2>1. /\ hooks[g].pc = "total" /\ rows' = rows /\ unheard' = unheard
        /\ hooks' = [hooks EXCEPT ![g] = [@ EXCEPT !.pc = "status", !.total = RefundedSum]]
    BY <1>8 DEF Total
  <2>2. hooks'[g].pc = "status" /\ hooks'[g].row = hooks[g].row
    BY <1>0, <2>1 DEF Hook
  <2>3. Refunding(r, g)' /\ Asking(r)'
    BY <1>1, <1>3, <2>1, <2>2 DEF Refunding, Asking
  <2> QED BY <1>5, <2>1, <2>3
<1>9. CASE Acknowledge(g) \/ DieHearing(g)
  <2>1. /\ rows' = rows /\ hooks' = [hooks EXCEPT ![g] = NoHook(g)]
        /\ unheard' = unheard \/ hooks[g].pc = "status"
    BY <1>9 DEF Acknowledge, DieHearing
  <2>2. hooks'[g].pc = "idle"
    BY <1>0, <2>1 DEF NoHook
  <2>3. Refunding(r, g)' /\ Asking(r)'
    BY <1>1, <1>3, <2>1, <2>2 DEF Refunding, Asking
  <2> QED BY <1>5, <2>1, <2>3
<1> QED BY <1>6, <1>7, <1>8, <1>9 DEF Hear

\* The ledger holds its invariant until something goes wrong.
Tidy == RefundsTypeOK /\ KeyInv /\ (Regular => LedgerInv)

LEMMA TidyStep == ASSUME OneKey PROVE Tidy /\ [Next]_vars => Tidy'
<1> SUFFICES ASSUME Tidy, [Next]_vars PROVE Tidy'
  OBVIOUS
<1>1. RefundsTypeOK' /\ KeyInv'
  BY RefundsTypeStep, KeyStep DEF Tidy
<1>2. ASSUME Regular' PROVE LedgerInv'
  <2>1. faults' = faults /\ LedgerInv /\ RefundsTypeOK /\ KeyInv
    BY <1>2, FaultsStay DEF Tidy
  <2>2. CASE UNCHANGED refunds
    BY <2>1, <2>2 DEF refunds, LedgerInv, Gateway, Asking, Refunding
  <2>3. ASSUME NEW g \in Refs, RefundOutside(g) PROVE FALSE
    <3>1. /\ faults \in [lost : Nat, broken : Nat, outside : Nat]
          /\ faults' = [faults EXCEPT !.outside = @ + 1]
      BY <2>1, <2>3 DEF RefundsTypeOK, RefundOutside
    <3>2. faults'.outside = faults.outside + 1 /\ faults.outside \in Nat
      BY <3>1
    <3> QED BY <2>1, <3>2
  <2> QED BY <2>1, <2>2, <2>3, StepOfRefunds, LedgerRequest, LedgerRefund, LedgerHook
<1> QED BY <1>1, <1>2 DEF Tidy

\* What the gateway gave back, as a sum.
LEMMA GatewaySumIs ==
    ASSUME RefundsTypeOK
    PROVE  GatewaySum = SumOver([g \in Refs |-> gateway[g].amount], Refs)
<1> DEFINE amounts == [g \in Refs |-> gateway[g].amount]
           P(f) == f = [T \in SUBSET Refs |->
                          IF T = {} THEN 0 ELSE gateway[One(T)].amount + f[Less(T)]]
<1>1. GatewaySum = (CHOOSE f : P(f))[Refs]
  BY DEF GatewaySum, MapThenSumSet, MapThenFoldSet, One, Less
<1>2. \A f : P(f) <=> Adds(amounts, Refs, f)
  <2>1. \A T \in SUBSET Refs : T # {} => amounts[One(T)] = gateway[One(T)].amount
    BY LessIsLess
  <2> HIDE DEF amounts
  <2> QED BY <2>1 DEF Adds
<1>3. (CHOOSE f : P(f)) = (CHOOSE f : Adds(amounts, Refs, f))
  <2> HIDE DEF P, amounts
  <2> QED BY <1>2
<1> HIDE DEF amounts, P
<1>4. GatewaySum = SumOver(amounts, Refs)
  BY <1>1, <1>3 DEF SumOver
<1> QED BY <1>4 DEF amounts

\* As long as no answer is lost, no write fails and nobody refunds in the
\* dashboard, one refund that is asked for under one key is in the ledger as it
\* is at the gateway, once its event was heard: although handlers die, and
\* whichever of the answer and the event comes first.
THEOREM OneKeyLedgerAgrees ==
    ASSUME OneKey
    PROVE  Spec => []LedgerAgrees
<1>1. Init => Tidy
  BY RefundsTypeInit, KeyInit, LedgerInit DEF Init, Tidy
<1>2. ASSUME Tidy, Regular, Resting PROVE RefundedSum = GatewaySum
  <2> DEFINE paid == [q \in Requests \cup Refs |-> rows[q].amount]
             given == [g \in Refs |-> gateway[g].amount]
  <2>0. /\ RefundsTypeOK /\ KeyInv /\ LedgerInv
        /\ gateway \in [Refs -> [by : Requests \cup {NoRef, Outside}, amount : Nat]]
        /\ rows \in [Requests \cup Refs -> Row] /\ IsFiniteSet(Refs)
    BY <1>2, RefundsAssumption DEF Tidy, RefundsTypeOK
  <2>1. RefundedSum = SumOver(paid, Completed) /\ GatewaySum = SumOver(given, Refs)
    BY <2>0, RefundedSumIs, GatewaySumIs
  <2>2. CASE \A g \in Refs : gateway[g].by = NoRef
    <3>1. \A g \in Refs : given[g] = 0
      BY <2>0, <2>2 DEF LedgerInv, Gateway
    <3>2. Completed = {}
      BY <2>0, <2>2, Apart DEF Completed, LedgerInv, Gateway, Asking, NoRow
    <3> QED BY <2>0, <2>1, <3>1, <3>2, SumEmpty, SumZero
  <2>3. ASSUME NEW g \in Refs, gateway[g].by # NoRef
        PROVE  RefundedSum = GatewaySum
    <3> DEFINE r == gateway[g].by
    <3>1. r \in Requests
      BY <2>0, <2>3 DEF LedgerInv, Gateway
    <3>2. Refunding(r, g) /\ g \notin unheard
      BY <1>2, <2>0, <3>1 DEF LedgerInv, Resting
    <3>3. rows[r].status = "completed" /\ gateway[g].amount = rows[r].amount
      BY <3>2 DEF Refunding
    <3>4. Completed = {r}
      <4>1. \A q \in Requests : rows[q].status = "completed" => q = r
        BY <2>0, <3>1, <3>3 DEF KeyInv, OneKey, HasRow
      <4>2. \A h \in Refs : rows[h].status # "completed"
        BY <2>0 DEF LedgerInv, Gateway, NoRow
      <4> QED BY <2>0, <3>1, <3>3, <4>1, <4>2 DEF Completed
    <3>5. paid[r] \in Int /\ paid[r] = gateway[g].amount /\ \A h \in Refs : given[h] \in Int
      BY <2>0, <3>1, <3>3
    <3>6. \A h \in Refs \ {g} : given[h] = 0
      BY <2>0, <2>3 DEF LedgerInv, Gateway
    <3> HIDE DEF paid, given, r
    <3>7. SumOver(given, Refs) = given[g] + SumOver(given, Refs \ {g})
      BY <2>0, <3>5, SumTakeOne
    <3>8. SumOver(given, Refs \ {g}) = 0
      BY <2>0, <3>6, FS_RemoveElement, SumZero
    <3>9. SumOver(paid, {r}) = paid[r] + SumOver(paid, {r} \ {r})
      BY <3>5, FS_Singleton, SumTakeOne
    <3>10. SumOver(paid, {r} \ {r}) = 0
      <4>1. {r} \ {r} = {}
        OBVIOUS
      <4> QED BY <4>1, SumEmpty
    <3>11. given[g] = gateway[g].amount
      BY DEF given
    <3> QED BY <2>1, <3>4, <3>5, <3>7, <3>8, <3>9, <3>10, <3>11
  <2> QED BY <2>2, <2>3
<1>3. Tidy => LedgerAgrees
  BY <1>2 DEF LedgerAgrees
<1> QED BY <1>1, <1>3, TidyStep, PTL DEF Spec
=============================================================================
