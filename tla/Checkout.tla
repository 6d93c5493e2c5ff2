------------------------------ MODULE Checkout ------------------------------
(***************************************************************************)
(* One purchase through the payment gateway (server/payment-service.ts):     *)
(* the order, the customer's verification, the gateway's payment.captured    *)
(* and payment.failed events, and the provisioning of what was bought, a     *)
(* wallet top-up or a subscription.                                          *)
(*                                                                           *)
(* A handler is a task that stops at each await another handler can notice.  *)
(* It works on the copy of the transaction it read, and writes the metadata  *)
(* back whole from that copy (mergeTransactionMetadata). Refunds, which      *)
(* change the status of the same transaction, are in Refunds.                *)
(***************************************************************************)
EXTENDS Naturals, FiniteSets

CONSTANTS
    Tasks,         \* bound: payment handlers under way at once
    SharedLock,    \* whether all instances reach the same Redis
    Kinds,         \* what is sold
    MaxCrashes     \* bound: handlers that die or fail half way

ASSUME CheckoutAssumption ==
    /\ SharedLock \in BOOLEAN
    /\ Kinds \subseteq {"wallet_topup", "subscription"}
    /\ MaxCrashes \in Nat
    /\ {"free", "orphan"} \cap Tasks = {}

VARIABLES
    kind,      \* metadata.kind
    tx,        \* the payment_transactions row
    captured,  \* external: whether the gateway holds the customer's money
    owed,      \* external: payment.captured is not acknowledged yet
    lock,      \* payment-provision:{id} in Redis
    tasks,     \* the handlers under way
    granted,   \* history: how often the wallet was credited or a plan begun
    active,    \* the customer's active subscriptions
    past       \* history: what went wrong

checkout == <<kind, tx, captured, owed, lock, tasks, granted, active, past>>

Free == "free"
Orphan == "orphan"     \* held by a handler that died, until it expires
Idle == [op |-> "idle"]

Statuses == {"none", "pending", "completed", "failed", "refunded", "partially_refunded"}

\* paid says that gatewayPaymentId is set, prov that metadata.provisionedAt is.
Transaction == [status : Statuses, order : BOOLEAN, paid : BOOLEAN, prov : BOOLEAN]

Steps == {"reject", "lock", "fresh", "complete", "claim", "credit", "cancel", "insert", "mark"}
Task == [op : {"verify", "captured"}, pc : Steps, copy : Transaction] \cup {Idle}

\* crashes: handlers that died; undone: a completed status was overwritten;
\* forfeited: a top-up died between its claim and its credit.
Past == [crashes : Nat, undone : BOOLEAN, forfeited : BOOLEAN]

CheckoutInit ==
    /\ kind \in Kinds
    /\ tx = [status |-> "none", order |-> FALSE, paid |-> FALSE, prov |-> FALSE]
    /\ captured = FALSE /\ owed = FALSE
    /\ lock = Free
    /\ tasks = [t \in Tasks |-> Idle]
    /\ granted = 0 /\ active = 0
    /\ past = [crashes |-> 0, undone |-> FALSE, forfeited |-> FALSE]

---------------------------------------------------------------------------
At(t, pc) == tasks[t] # Idle /\ tasks[t].pc = pc

Begin(t, op, pc) ==
    /\ tasks[t] = Idle
    /\ tasks' = [tasks EXCEPT ![t] = [op |-> op, pc |-> pc, copy |-> tx]]

Continue(t, pc, copy) ==
    tasks' = [tasks EXCEPT ![t] = [op |-> tasks[t].op, pc |-> pc, copy |-> copy]]

\* The handler returns: the lock is given back (finally in withRedisLock)
\* and the gateway's event is answered with 200.
Return(t) ==
    /\ tasks' = [tasks EXCEPT ![t] = Idle]
    /\ lock' = IF lock = t THEN Free ELSE lock
    /\ owed' = (owed /\ tasks[t].op # "captured")

SetStatus(status) ==
    /\ tx' = [tx EXCEPT !.status = status]
    /\ past' = [past EXCEPT !.undone = @ \/ tx.paid]

\* provisionCompletedTransaction, entered with a copy that is completed.
FirstStep == IF kind = "wallet_topup" THEN "claim" ELSE "cancel"

Provision(t, copy) ==
    IF copy.prov THEN Return(t)
    ELSE Continue(t, FirstStep, copy) /\ UNCHANGED <<lock, owed>>

---------------------------------------------------------------------------
\* createCheckoutOrder: the customer is told of the order once it is stored;
\* if the gateway fails the row stays pending without one.
CreateOrder(placed) ==
    /\ tx.status = "none"
    /\ tx' = [tx EXCEPT !.status = "pending", !.order = placed]
    /\ UNCHANGED <<kind, captured, owed, lock, tasks, granted, active, past>>

\* The customer pays at the gateway, which will report it until it is heard.
Pay ==
    /\ tx.order /\ ~captured
    /\ captured' = TRUE /\ owed' = TRUE
    /\ UNCHANGED <<kind, tx, lock, tasks, granted, active, past>>

\* confirmCheckoutPayment: a completed transaction is provisioned at once,
\* without the lock; else the signature decides.
Verify(t, good) ==
    /\ tx.order /\ (good => captured)
    /\ IF tx.status = "completed"
       THEN ~tx.prov /\ Begin(t, "verify", FirstStep)
       ELSE Begin(t, "verify", IF good THEN "lock" ELSE "reject")
    /\ UNCHANGED <<kind, tx, captured, owed, lock, granted, active, past>>

Reject(t) ==
    /\ At(t, "reject")
    /\ SetStatus("failed")
    /\ Return(t)
    /\ UNCHANGED <<kind, captured, granted, active>>

\* payment.captured, delivered at least once.
Captured(t) ==
    /\ captured
    /\ Begin(t, "captured", "lock")
    /\ UNCHANGED <<kind, tx, captured, owed, lock, granted, active, past>>

\* payment.failed, of an earlier attempt at the order: it may come late.
Failed ==
    /\ tx.order
    /\ SetStatus("failed")
    /\ UNCHANGED <<kind, captured, owed, lock, tasks, granted, active>>

---------------------------------------------------------------------------
\* finalizeTransactionSuccess. Without a shared Redis the lock of one
\* instance is nothing to the next.
TakeLock(t) ==
    /\ At(t, "lock")
    /\ SharedLock => lock = Free
    /\ lock' = IF SharedLock THEN t ELSE lock
    /\ Continue(t, "fresh", tasks[t].copy)
    /\ UNCHANGED <<kind, tx, captured, owed, granted, active, past>>

LockBusy_Swallowed(t) ==
    /\ At(t, "lock")
    /\ SharedLock /\ lock # Free
    /\ Return(t)
    /\ UNCHANGED <<kind, tx, captured, granted, active, past>>

\* Three tries: the handler throws, and the gateway will call again.
LockBusy(t) ==
    /\ At(t, "lock")
    /\ SharedLock /\ lock # Free
    /\ tasks' = [tasks EXCEPT ![t] = Idle]
    /\ UNCHANGED <<kind, tx, captured, owed, lock, granted, active, past>>

Fresh(t) ==
    /\ At(t, "fresh")
    /\ IF tx.status = "completed" THEN Provision(t, tx)
       ELSE Continue(t, "complete", tx) /\ UNCHANGED <<lock, owed>>
    /\ UNCHANGED <<kind, tx, captured, granted, active, past>>

Complete_MarksFirst(t) ==
    /\ At(t, "complete")
    /\ tx' = [tx EXCEPT !.status = "completed", !.paid = TRUE, !.prov = TRUE]
    /\ Provision(t, tasks[t].copy)
    /\ UNCHANGED <<kind, captured, granted, active, past>>

\* The metadata is written whole, as it was read.
Complete(t) ==
    /\ At(t, "complete")
    /\ tx' = [tx EXCEPT !.status = "completed", !.paid = TRUE,
                        !.prov = tasks[t].copy.prov]
    /\ Provision(t, tx')
    /\ UNCHANGED <<kind, captured, granted, active, past>>

\* provisionWalletTopupTransaction: UPDATE ... WHERE provisionedAt IS NULL.
Claim_Unchecked(t) ==
    /\ At(t, "claim")
    /\ tx' = [tx EXCEPT !.prov = TRUE]
    /\ Continue(t, "credit", tx')
    /\ UNCHANGED <<kind, captured, owed, lock, granted, active, past>>

Claim(t) ==
    /\ At(t, "claim")
    /\ IF tx.prov
       THEN Return(t) /\ UNCHANGED tx
       ELSE /\ tx' = [tx EXCEPT !.prov = TRUE]
            /\ Continue(t, "credit", tx')
            /\ UNCHANGED <<lock, owed>>
    /\ UNCHANGED <<kind, captured, granted, active, past>>

\* BillingEngine.adjustOrganizationBalance
Credit(t) ==
    /\ At(t, "credit")
    /\ granted' = granted + 1
    /\ Return(t)
    /\ UNCHANGED <<kind, tx, captured, active, past>>

\* provisionSubscriptionTransaction: the plan that runs is cancelled, the new
\* one begun and invoiced, and only then is the transaction marked.
Cancel(t) ==
    /\ At(t, "cancel")
    /\ active' = 0
    /\ Continue(t, "insert", tasks[t].copy)
    /\ UNCHANGED <<kind, tx, captured, owed, lock, granted, past>>

Insert(t) ==
    /\ At(t, "insert")
    /\ active' = active + 1 /\ granted' = granted + 1
    /\ Continue(t, "mark", tasks[t].copy)
    /\ UNCHANGED <<kind, tx, captured, owed, lock, past>>

Mark(t) ==
    /\ At(t, "mark")
    /\ tx' = [tx EXCEPT !.prov = TRUE]
    /\ Return(t)
    /\ UNCHANGED <<kind, captured, granted, active, past>>

\* The instance dies or an await rejects. Its lock goes with its 60 seconds,
\* which a handler that lives never needs.
Crash(t) ==
    /\ tasks[t] # Idle /\ past.crashes < MaxCrashes
    /\ tasks' = [tasks EXCEPT ![t] = Idle]
    /\ lock' = IF lock = t THEN Orphan ELSE lock
    /\ past' = [past EXCEPT !.crashes = @ + 1,
                            !.forfeited = @ \/ At(t, "credit")]
    /\ UNCHANGED <<kind, tx, captured, owed, granted, active>>

Expire ==
    /\ lock = Orphan
    /\ lock' = Free
    /\ UNCHANGED <<kind, tx, captured, owed, tasks, granted, active, past>>

---------------------------------------------------------------------------
Handle(t) ==
    \/ Reject(t) \/ TakeLock(t) \/ LockBusy(t) \/ Fresh(t) \/ Complete(t)
    \/ Claim(t) \/ Credit(t) \/ Cancel(t) \/ Insert(t) \/ Mark(t)

CheckoutNext ==
    \/ \E placed \in BOOLEAN : CreateOrder(placed)
    \/ Pay \/ Failed \/ Expire
    \/ \E t \in Tasks :
         \/ \E good \in BOOLEAN : Verify(t, good)
         \/ Captured(t) \/ Handle(t) \/ Crash(t)

\* The gateway repeats payment.captured until it is answered with 200, a
\* handler finishes or dies, and a lock expires. The first is strong fairness
\* because Tasks bounds the handlers of the model, not those of the server:
\* the event may find every task taken again and again.
CheckoutFairness ==
    /\ SF_checkout(owed /\ \E t \in Tasks : Captured(t))
    /\ \A t \in Tasks : WF_checkout(Handle(t))
    /\ WF_checkout(Expire)

---------------------------------------------------------------------------
(* Properties *)

CheckoutTypeOK ==
    /\ kind \in Kinds
    /\ tx \in Transaction
    /\ captured \in BOOLEAN /\ owed \in BOOLEAN
    /\ lock \in Tasks \cup {Free, Orphan}
    /\ tasks \in [Tasks -> Task]
    /\ granted \in Nat /\ active \in Nat
    /\ past \in Past

\* A top-up is credited once, however often the customer and the gateway
\* report the payment, on however many instances, unless both a handler died
\* half way and a completed status was overwritten (finalizeTransactionSuccess
\* and the claim in provisionWalletTopupTransaction together).
CreditedOnce ==
    (kind = "wallet_topup" /\ ~(past.crashes > 0 /\ past.undone)) => granted <= 1

\* What was paid for is provided once nobody works on it: a transaction that
\* says it is provisioned had its effect, but for the top-up whose handler
\* died between the claim and the credit.
MarkedIsGranted ==
    (tx.prov /\ ~past.forfeited /\ \A t \in Tasks : ~At(t, "credit")) => granted > 0

\* A payment the gateway captured is provided sooner or later, whatever
\* becomes of the customer's own verification.
PaidIsGranted == captured ~> (granted > 0 \/ past.forfeited)
=============================================================================
