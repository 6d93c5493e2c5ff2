------------------------------ MODULE Refunds ------------------------------
(***************************************************************************)
(* The refunds of a purchase (initiateRefund and the gateway's               *)
(* refund.processed event, server/payment-service.ts) beside its checkout.   *)
(*                                                                           *)
(* A request has one row in payment_refunds. The gateway may refund and lose *)
(* its answer (withGatewayRetry then asks again), may be asked from its own  *)
(* dashboard, and reports every refund until it is heard.                    *)
(***************************************************************************)
EXTENDS Checkout, FiniteSetsExt

CONSTANTS
    Price,         \* transaction.amount
    Requests,      \* calls of initiateRefund, each the key of its row
    AmountOf,      \* what a request asks for, 0 for all that remains
    KeyOf,         \* its idempotency key, or NoKey
    NoKey,
    Refs,          \* bound: refunds at the gateway, by their id
    MaxLost,       \* bound: answers of the gateway that are lost
    MaxBroken,     \* bound: writes that fail after the gateway refunded
    MaxOutside     \* bound: refunds made in the gateway's dashboard

ASSUME RefundsAssumption ==
    /\ Price \in Nat /\ AmountOf \in [Requests -> Nat]
    /\ IsFiniteSet(Requests) /\ IsFiniteSet(Refs) /\ Requests \cap Refs = {}
    /\ {"no refund", "outside"} \cap (Requests \cup Refs) = {}

VARIABLES
    rows,      \* payment_refunds, by the request or, for one from outside, the refund
    asks,      \* the initiateRefund handlers
    gateway,   \* external: what was refunded, and at whose request
    unheard,   \* external: refund.processed events not acknowledged
    hooks,     \* the refund.processed handlers
    faults     \* history: answers lost, writes failed, refunds from outside

refunds == <<rows, asks, gateway, unheard, hooks, faults>>
vars == <<checkout, refunds>>

NoRef == "no refund"
Outside == "outside"
NoRow == [status |-> "none", ref |-> NoRef, amount |-> 0]
Row == [status : {"none", "processing", "completed", "failed"},
        ref : Refs \cup {NoRef}, amount : Nat]
AskSteps == {"idle", "sum", "insert", "refund", "record", "status", "fail", "over", "dead"}
Ask == [pc : AskSteps, sum : Nat, amount : Nat, ref : Refs \cup {NoRef}]
Hook == [pc : {"idle", "write", "total", "status"},
         row : Requests \cup Refs, total : Nat]
NoHook(g) == [pc |-> "idle", row |-> g, total |-> 0]

RefundInit ==
    /\ rows = [r \in Requests \cup Refs |-> NoRow]
    /\ asks = [r \in Requests |-> [pc |-> "idle", sum |-> 0, amount |-> 0, ref |-> NoRef]]
    /\ gateway = [g \in Refs |-> [by |-> NoRef, amount |-> 0]]
    /\ unheard = {}
    /\ hooks = [g \in Refs |-> NoHook(g)]
    /\ faults = [lost |-> 0, broken |-> 0, outside |-> 0]

Init == CheckoutInit /\ RefundInit

---------------------------------------------------------------------------
Completed == {r \in DOMAIN rows : rows[r].status = "completed"}
RefundedSum == MapThenSumSet(LAMBDA r : rows[r].amount, Completed)
GatewaySum == MapThenSumSet(LAMBDA g : gateway[g].amount, Refs)

\* The rows stored with the idempotency key of request r.
SameKey(r) ==
    {q \in Requests : KeyOf[q] = KeyOf[r] /\ KeyOf[r] # NoKey /\ rows[q].status # "none"}

StatusFor(total) == IF total >= Price THEN "refunded" ELSE "partially_refunded"

Step(r, from, to) ==
    /\ asks[r].pc = from
    /\ asks' = [asks EXCEPT ![r].pc = to]

\* The gateway never gives back more than it took.
GatewayRefunds(g, by, amount) ==
    /\ gateway[g].by = NoRef /\ amount > 0
    /\ GatewaySum + amount <= Price
    /\ gateway' = [gateway EXCEPT ![g] = [by |-> by, amount |-> amount]]
    /\ unheard' = unheard \cup {g}

---------------------------------------------------------------------------
\* initiateRefund, up to its look for a refund in progress. A request whose
\* key is known is answered with what became of the first.
Read(r) ==
    /\ tx.status \in {"completed", "partially_refunded"} /\ tx.paid
    /\ SameKey(r) = {}
    /\ \A q \in DOMAIN rows : rows[q].status # "processing"
    /\ Step(r, "idle", "sum")
    /\ UNCHANGED <<checkout, rows, gateway, unheard, hooks, faults>>

\* What was refunded already, and whether what is asked for is left.
Sum(r) ==
    /\ asks[r].pc = "sum"
    /\ LET left   == IF RefundedSum > Price THEN 0 ELSE Price - RefundedSum
           amount == IF AmountOf[r] = 0 THEN left ELSE AmountOf[r]
       IN  asks' = [asks EXCEPT ![r].pc = IF left > 0 /\ amount <= left THEN "insert" ELSE "over",
                                ![r].sum = RefundedSum, ![r].amount = amount]
    /\ UNCHANGED <<checkout, rows, gateway, unheard, hooks, faults>>

\* The row, unless the unique index on the idempotency key forbids it.
InsertRow_NotUnique(r) ==
    /\ asks[r].pc = "insert"
    /\ rows' = [rows EXCEPT ![r] = [status |-> "processing", ref |-> NoRef,
                                    amount |-> asks[r].amount]]
    /\ asks' = [asks EXCEPT ![r].pc = "refund"]
    /\ UNCHANGED <<checkout, gateway, unheard, hooks, faults>>

InsertRow(r) ==
    /\ asks[r].pc = "insert"
    /\ IF SameKey(r) # {}
       THEN asks' = [asks EXCEPT ![r].pc = "over"] /\ UNCHANGED rows
       ELSE /\ rows' = [rows EXCEPT ![r] = [status |-> "processing", ref |-> NoRef,
                                            amount |-> asks[r].amount]]
            /\ asks' = [asks EXCEPT ![r].pc = "refund"]
    /\ UNCHANGED <<checkout, gateway, unheard, hooks, faults>>

\* razorpay.payments.refund succeeds, and its answer comes or is lost. After
\* a lost answer withGatewayRetry asks once more, or gives up.
Refund(r, g) ==
    /\ GatewayRefunds(g, r, asks[r].amount)
    /\ asks[r].pc = "refund"
    /\ \/ asks' = [asks EXCEPT ![r].pc = "record", ![r].ref = g] /\ UNCHANGED faults
       \/ /\ faults.lost < MaxLost
          /\ faults' = [faults EXCEPT !.lost = @ + 1]
          /\ UNCHANGED asks
    /\ UNCHANGED <<checkout, rows, hooks>>

\* The gateway refuses, or cannot be reached, or is not configured.
Refused(r) ==
    /\ Step(r, "refund", "fail")
    /\ UNCHANGED <<checkout, rows, gateway, unheard, hooks, faults>>

Record(r) ==
    /\ Step(r, "record", "status")
    /\ rows' = [rows EXCEPT ![r].status = "completed", ![r].ref = asks[r].ref]
    /\ UNCHANGED <<checkout, gateway, unheard, hooks, faults>>

\* The transaction's status, from the sum read before the gateway was asked.
SetRefunded(r) ==
    /\ Step(r, "status", "over")
    /\ SetStatus(StatusFor(asks[r].sum + asks[r].amount))
    /\ UNCHANGED <<kind, captured, owed, lock, tasks, granted, active>>
    /\ UNCHANGED <<rows, gateway, unheard, hooks, faults>>

\* One of the two writes fails: the catch marks the refund failed.
Break(r) ==
    /\ Step(r, "record", "fail") \/ Step(r, "status", "fail")
    /\ faults.broken < MaxBroken
    /\ faults' = [faults EXCEPT !.broken = @ + 1]
    /\ UNCHANGED <<checkout, rows, gateway, unheard, hooks>>

Fail_RowKept(r) ==
    /\ Step(r, "fail", "over")
    /\ UNCHANGED <<checkout, rows, gateway, unheard, hooks, faults>>

Fail(r) ==
    /\ Step(r, "fail", "over")
    /\ rows' = [rows EXCEPT ![r].status = "failed"]
    /\ UNCHANGED <<checkout, gateway, unheard, hooks, faults>>

CountCrash ==
    /\ past.crashes < MaxCrashes
    /\ past' = [past EXCEPT !.crashes = @ + 1]
    /\ UNCHANGED <<kind, tx, captured, owed, lock, tasks, granted, active>>

Die(r) ==
    /\ asks[r].pc \notin {"idle", "over", "dead"}
    /\ asks' = [asks EXCEPT ![r].pc = "dead"]
    /\ CountCrash
    /\ UNCHANGED <<rows, gateway, unheard, hooks, faults>>

\* Somebody refunds in the gateway's dashboard.
RefundOutside(g) ==
    /\ captured /\ faults.outside < MaxOutside
    /\ \E amount \in 1..Price : GatewayRefunds(g, Outside, amount)
    /\ faults' = [faults EXCEPT !.outside = @ + 1]
    /\ UNCHANGED <<checkout, rows, asks, hooks>>

---------------------------------------------------------------------------
Matching_ByIdOnly(g) ==
    LET known == {r \in DOMAIN rows : rows[r].ref = g}
    IN  IF known # {} THEN known ELSE {g}

\* refund.processed: the row with the gateway's id, else any in progress,
\* else a new one. A row that is completed needs nothing.
Matching(g) ==
    LET known == {r \in DOMAIN rows : rows[r].ref = g}
        open  == {r \in DOMAIN rows : rows[r].status = "processing"}
    IN  IF known # {} THEN known ELSE IF open # {} THEN open ELSE {g}

Find(g) ==
    /\ g \in unheard /\ hooks[g].pc = "idle" /\ tx.paid
    /\ \E r \in Matching(g) :
         IF rows[r].status = "completed"
         THEN unheard' = unheard \ {g} /\ UNCHANGED hooks
         ELSE /\ hooks' = [hooks EXCEPT ![g] = [@ EXCEPT !.pc = "write", !.row = r]]
              /\ UNCHANGED unheard
    /\ UNCHANGED <<checkout, rows, asks, gateway, faults>>

Write(g) ==
    /\ hooks[g].pc = "write"
    /\ LET r == hooks[g].row
       IN  rows' = [rows EXCEPT ![r] =
                      [status |-> "completed", ref |-> g,
                       amount |-> IF r = g THEN gateway[g].amount ELSE @.amount]]
    /\ hooks' = [hooks EXCEPT ![g].pc = "total"]
    /\ UNCHANGED <<checkout, asks, gateway, unheard, faults>>

Total(g) ==
    /\ hooks[g].pc = "total"
    /\ hooks' = [hooks EXCEPT ![g] = [@ EXCEPT !.pc = "status", !.total = RefundedSum]]
    /\ UNCHANGED <<checkout, rows, asks, gateway, unheard, faults>>

Acknowledge(g) ==
    /\ hooks[g].pc = "status"
    /\ SetStatus(StatusFor(hooks[g].total))
    /\ hooks' = [hooks EXCEPT ![g] = NoHook(g)]
    /\ unheard' = unheard \ {g}
    /\ UNCHANGED <<kind, captured, owed, lock, tasks, granted, active>>
    /\ UNCHANGED <<rows, asks, gateway, faults>>

DieHearing(g) ==
    /\ hooks[g].pc # "idle"
    /\ hooks' = [hooks EXCEPT ![g] = NoHook(g)]
    /\ CountCrash
    /\ UNCHANGED <<rows, asks, gateway, unheard, faults>>

---------------------------------------------------------------------------
Go(r) ==
    \/ Sum(r) \/ InsertRow(r) \/ Refused(r) \/ Record(r) \/ SetRefunded(r) \/ Fail(r)
    \/ \E g \in Refs : Refund(r, g)

Hear(g) == Find(g) \/ Write(g) \/ Total(g) \/ Acknowledge(g)

Next ==
    \/ CheckoutNext /\ UNCHANGED refunds
    \/ \E r \in Requests : Read(r) \/ Go(r) \/ Break(r) \/ Die(r)
    \/ \E g \in Refs : RefundOutside(g) \/ Hear(g) \/ DieHearing(g)

Spec == Init /\ [][Next]_vars

\* Beside the checkout's: a handler goes on, and the gateway repeats its
\* event until it is heard.
Fairness ==
    /\ CheckoutFairness
    /\ \A r \in Requests : WF_vars(Go(r))
    /\ \A g \in Refs : WF_vars(Hear(g))

FairSpec == Spec /\ Fairness

---------------------------------------------------------------------------
(* Properties *)

TypeOK ==
    /\ CheckoutTypeOK
    /\ rows \in [Requests \cup Refs -> Row]
    /\ asks \in [Requests -> Ask]
    /\ gateway \in [Refs -> [by : Requests \cup {NoRef, Outside}, amount : Nat]]
    /\ unheard \subseteq Refs
    /\ hooks \in [Refs -> Hook]
    /\ faults \in [lost : Nat, broken : Nat, outside : Nat]

\* What the gateway gave back for the requests that carry the key of r.
RefundsFor(r) == {g \in Refs : gateway[g].by \in Requests /\ KeyOf[gateway[g].by] = KeyOf[r]}

\* Of the requests that carry one idempotency key, made at once or later, one
\* moves money, whatever is lost, fails or dies (the unique index on the key,
\* initiateRefund), and it does so once as long as the gateway's answers arrive.
\* After a lost answer it refunds again, against the comment on the key:
\* withGatewayRetry repeats the call, which names no key to the gateway.
KeyRefundedOnce ==
    \A r \in Requests : KeyOf[r] # NoKey =>
        /\ \A g, h \in RefundsFor(r) : gateway[g].by = gateway[h].by
        /\ faults.lost = 0 => Cardinality(RefundsFor(r)) <= 1

Regular == faults = [lost |-> 0, broken |-> 0, outside |-> 0]

Resting ==
    /\ unheard = {}
    /\ \A r \in Requests : asks[r].pc \in {"idle", "over", "dead"}

\* When every event was heard and no request is under way, the ledger of
\* refunds says what the gateway gave back, whether the answer to a request
\* or the event came first and although a handler died (refund.processed
\* and initiateRefund agree).
LedgerAgrees == (Regular /\ Resting) => RefundedSum = GatewaySum

\* A refund does not stay in progress, which would stop every later one,
\* unless its handler died before the gateway was asked.
RefundsResolve ==
    \A r \in Requests :
        (rows[r].status = "processing" /\ asks[r].pc # "dead")
            ~> (\/ rows[r].status # "processing"
                \/ asks[r].pc = "dead" /\ \A g \in Refs : gateway[g].by # r)
=============================================================================
