--------------------------- MODULE MessageCredits ---------------------------
(***************************************************************************)
(* The wallet a business pays its messages from: recharge requests, which    *)
(* an owner files with the reference of a bank payment and an administrator  *)
(* approves or rejects (server/modules/billing/message-credits.ts), and the  *)
(* charge of a message (server/modules/billing/message-billing.ts).          *)
(***************************************************************************)
EXTENDS Naturals, FiniteSets

CONSTANTS
    Requests,       \* the recharge requests that may be filed
    References,     \* payment references (UTR)
    RefOf,          \* the payment reference each request names
    Credit,         \* credit_paise of a request
    InitWallet,     \* the wallet at the start
    Price,          \* costPaise of a message
    MaxPending,     \* MAX_PENDING_REQUESTS
    MaxMishaps      \* bound: approvals that fail or die half way

ASSUME CreditsAssumption ==
    /\ IsFiniteSet(Requests) /\ RefOf \in [Requests -> References]
    /\ {Credit, InitWallet, Price, MaxMishaps} \subseteq Nat
    /\ MaxPending \in Nat \ {0}

VARIABLES
    wallet,     \* billing_accounts.wallet_balance_paise
    request,    \* status of each row of business_recharge_requests
    filing,     \* requests between the count and the insert
    approving,  \* requests claimed by an approval that has not credited them
    credited,   \* history: how often each request was credited
    mishaps     \* history: failed, unheard and dead approvals

credits == <<wallet, request, filing, approving, credited, mishaps>>

Decided == {"approved", "rejected", "cancelled"}

\* failed: the transaction was rolled back; unheard: it was committed and the
\* answer lost; dead: the approval ended without crediting or putting back.
Mishaps == [failed : Nat, unheard : Nat, dead : Nat]
Mishap(m) ==
    /\ mishaps.failed + mishaps.unheard + mishaps.dead < MaxMishaps
    /\ mishaps' = [mishaps EXCEPT ![m] = @ + 1]

CreditsInit ==
    /\ wallet = InitWallet
    /\ request = [r \in Requests |-> "none"]
    /\ filing = {} /\ approving = {}
    /\ credited = [r \in Requests |-> 0]
    /\ mishaps = [failed |-> 0, unheard |-> 0, dead |-> 0]

Pending == {r \in Requests : request[r] = "pending"}
Decide(r, status) == request' = [request EXCEPT ![r] = status]

\* The owner's limit is counted before the row is inserted.
CountPending(r) ==
    /\ request[r] = "none" /\ r \notin filing
    /\ Cardinality(Pending) < MaxPending
    /\ filing' = filing \cup {r}
    /\ UNCHANGED <<wallet, request, approving, credited, mishaps>>

\* The unique index business_recharge_requests_ref_once: a reference is free
\* again once its request was rejected or cancelled.
RefTaken_PendingOnly(r) == \E q \in Requests : RefOf[q] = RefOf[r] /\ request[q] = "pending"
RefTaken(r) == \E q \in Requests : RefOf[q] = RefOf[r] /\ request[q] \in {"pending", "approved"}

InsertRequest(r) ==
    /\ r \in filing
    /\ filing' = filing \ {r}
    /\ IF RefTaken(r) THEN UNCHANGED request ELSE Decide(r, "pending")
    /\ UNCHANGED <<wallet, approving, credited, mishaps>>

\* The owner cancels, or an administrator rejects: one conditional update.
Withdraw(r) ==
    /\ request[r] = "pending"
    /\ \E status \in {"cancelled", "rejected"} : Decide(r, status)
    /\ UNCHANGED <<wallet, filing, approving, credited, mishaps>>

\* An approval claims the request before it credits the wallet.
ClaimRequest(r) ==
    /\ request[r] = "pending"
    /\ Decide(r, "approved")
    /\ approving' = approving \cup {r}
    /\ UNCHANGED <<wallet, filing, credited, mishaps>>

Pay(r) ==
    /\ wallet' = wallet + Credit
    /\ credited' = [credited EXCEPT ![r] = @ + 1]

\* adjustOrganizationBalance commits the wallet and its ledger entry together.
AddCredit(r) ==
    /\ r \in approving
    /\ Pay(r)
    /\ approving' = approving \ {r}
    /\ UNCHANGED <<request, filing, mishaps>>

PutBack_Claimed(r) ==
    /\ r \in approving
    /\ approving' = approving \ {r}
    /\ UNCHANGED <<request, filing>>
\* After an error the request is put back, whether or not the transaction
\* was committed; the administrator is told that nothing was changed.
PutBack(r) ==
    /\ r \in approving
    /\ Decide(r, "pending")
    /\ approving' = approving \ {r}
    /\ UNCHANGED filing

CreditFails(r) ==
    /\ PutBack(r)
    /\ Mishap("failed")
    /\ UNCHANGED <<wallet, credited>>

CreditUnheard(r) ==
    /\ PutBack(r)
    /\ Pay(r)
    /\ Mishap("unheard")

\* The instance dies, or the put-back fails too: nothing resumes an approval.
ApprovalDies(r) ==
    /\ r \in approving
    /\ approving' = approving \ {r}
    /\ Mishap("dead")
    /\ UNCHANGED <<wallet, request, filing, credited>>

CreditsNext ==
    \E r \in Requests :
        \/ CountPending(r) \/ InsertRequest(r) \/ Withdraw(r)
        \/ ClaimRequest(r) \/ AddCredit(r)
        \/ CreditFails(r) \/ CreditUnheard(r) \/ ApprovalDies(r)

\* chargeMessage: one conditional update, in the caller's transaction.
Affordable == wallet >= Price
Charge == Affordable /\ wallet' = wallet - Price

---------------------------------------------------------------------------
\* The state is well formed; a wallet never goes below zero.
CreditsTypeOK ==
    /\ wallet \in Nat
    /\ request \in [Requests -> {"none", "pending"} \cup Decided]
    /\ filing \subseteq Requests /\ approving \subseteq Requests
    /\ credited \in [Requests -> Nat]
    /\ mishaps \in Mishaps

\* A payment reference buys its credit once, however often it is filed,
\* withdrawn, filed again and approved by several administrators, unless the
\* answer of a committed credit was lost.
PaymentCreditedOnce ==
    mishaps.unheard = 0 =>
        \A q, r \in Requests :
            RefOf[q] = RefOf[r] =>
                credited[q] + (IF q = r THEN 0 ELSE credited[r]) <= 1

\* Only an approved request was credited, and an approved one was, or is
\* about to be: what the owner sees in the list agrees with the wallet. Two
\* things are excepted. After a commit that was not heard of (decideRecharge puts
\* a credited request back to pending) nothing is claimed; and an approval whose
\* process died leaves a request approved that was never credited.
DecisionsAgree ==
    mishaps.unheard = 0 =>
        \A r \in Requests :
            /\ credited[r] > 0 => request[r] = "approved"
            /\ request[r] = "approved" =>
                 credited[r] = 1 \/ r \in approving \/ mishaps.dead > 0
=============================================================================
