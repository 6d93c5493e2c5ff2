--------------------------- MODULE ChallengeProofs ---------------------------
(***************************************************************************)
(* What TLAPS proves of the recharge requests and the one-time codes, for    *)
(* any number of them and any number of handlers: one bank payment buys its  *)
(* credit once, the decisions shown agree with the wallet, one code can be   *)
(* used, and the wallet is what the credits and the issued codes make it.    *)
(***************************************************************************)
EXTENDS Challenges, Sums, TLAPS

(***************************************************************************)
(* The recharge requests.                                                    *)
(***************************************************************************)

\* The requests that keep their payment reference taken.
Holds(r) == request[r] \in {"pending", "approved"}

\* What a step of any handler must preserve of one request: it is credited
\* only while approved and no longer claimed.
RequestOK(r) ==
    /\ credited[r] \in {0, 1}
    /\ credited[r] = 1 => request[r] = "approved" /\ r \notin approving
    /\ r \in approving => request[r] = "approved"
    /\ request[r] = "approved" => credited[r] = 1 \/ r \in approving \/ mishaps.dead > 0

\* Two requests never hold one reference.
ReferencesOK ==
    \A q, r \in Requests : RefOf[q] = RefOf[r] /\ Holds(q) /\ Holds(r) => q = r

RequestsOK == mishaps.unheard = 0 => ReferencesOK /\ \A r \in Requests : RequestOK(r)

\* The requests are well formed, as far as the proof needs it.
RequestTypeOK ==
    /\ request \in [Requests -> {"none", "pending"} \cup Decided]
    /\ credited \in [Requests -> Nat]
    /\ approving \subseteq Requests
    /\ mishaps \in Mishaps

RequestInv == RequestTypeOK /\ RequestsOK

requests == <<request, filing, approving, credited, mishaps>>

LEMMA RequestInvInit == ASSUME CreditsInit PROVE RequestInv
BY SMT DEF CreditsInit, RequestInv, RequestTypeOK, RequestsOK, ReferencesOK, RequestOK, Holds,
           Mishaps, Decided

LEMMA RequestTypeStep ==
    ASSUME RequestTypeOK, CreditsNext
    PROVE  RequestTypeOK'
<1>1. PICK r \in Requests :
          \/ CountPending(r) \/ InsertRequest(r) \/ Withdraw(r)
          \/ ClaimRequest(r) \/ AddCredit(r)
          \/ CreditFails(r) \/ CreditUnheard(r) \/ ApprovalDies(r)
  BY DEF CreditsNext
<1>2. request' \in [Requests -> {"none", "pending"} \cup Decided]
  BY <1>1 DEF RequestTypeOK, CountPending, InsertRequest, Withdraw, ClaimRequest, AddCredit,
              CreditFails, CreditUnheard, ApprovalDies, PutBack, Decide, Decided
<1>3. credited' \in [Requests -> Nat]
  BY <1>1 DEF RequestTypeOK, CountPending, InsertRequest, Withdraw, ClaimRequest, AddCredit,
              CreditFails, CreditUnheard, ApprovalDies, Pay
<1>4. approving' \subseteq Requests
  BY <1>1 DEF RequestTypeOK, CountPending, InsertRequest, Withdraw, ClaimRequest, AddCredit,
              CreditFails, CreditUnheard, ApprovalDies, PutBack
<1>5. mishaps' \in Mishaps
  BY <1>1 DEF RequestTypeOK, CountPending, InsertRequest, Withdraw, ClaimRequest, AddCredit,
              CreditFails, CreditUnheard, ApprovalDies, Mishap, Mishaps
<1> QED BY <1>2, <1>3, <1>4, <1>5 DEF RequestTypeOK

\* One fact per action; the reference of a request is taken from its insertion
\* until it is rejected or cancelled, and its credit lies in between.
LEMMA RequestsStep ==
    ASSUME RequestInv, CreditsNext
    PROVE  RequestsOK'
<1> SUFFICES ASSUME mishaps'.unheard = 0
             PROVE  ReferencesOK' /\ \A q \in Requests : RequestOK(q)'
  BY DEF RequestsOK
<1> USE CreditsAssumption
<1>1. PICK r \in Requests :
          \/ CountPending(r) \/ InsertRequest(r) \/ Withdraw(r)
          \/ ClaimRequest(r) \/ AddCredit(r)
          \/ CreditFails(r) \/ CreditUnheard(r) \/ ApprovalDies(r)
  BY DEF CreditsNext
<1>2. ~CreditUnheard(r)
  BY DEF CreditUnheard, Mishap, Mishaps, RequestInv, RequestTypeOK
<1>3. mishaps.unheard = 0
  BY <1>1, <1>2 DEF CountPending, InsertRequest, Withdraw, ClaimRequest, AddCredit,
       CreditFails, ApprovalDies, Mishap, Mishaps, RequestInv, RequestTypeOK
<1>4. ReferencesOK /\ \A q \in Requests : RequestOK(q)
  BY <1>3 DEF RequestInv, RequestsOK
<1>5. RequestTypeOK
  BY DEF RequestInv
<1>6. CASE CountPending(r)
  BY <1>4, <1>6 DEF CountPending, ReferencesOK, RequestOK, Holds
<1>7. CASE InsertRequest(r)
  <2>1. CASE RefTaken(r)
    BY <1>4, <1>7, <2>1 DEF InsertRequest, ReferencesOK, RequestOK, Holds
  <2>2. CASE ~RefTaken(r)
    <3>1. request' = [request EXCEPT ![r] = "pending"]
      BY <1>7, <2>2 DEF InsertRequest, Decide
    <3>2. \A q \in Requests : RefOf[q] = RefOf[r] => ~Holds(q)
      BY <2>2 DEF RefTaken, Holds
    <3>3. ReferencesOK'
      BY <1>4, <1>5, <3>1, <3>2 DEF ReferencesOK, Holds, RequestTypeOK
    <3>4. \A q \in Requests : RequestOK(q)'
      BY <1>4, <1>5, <1>7, <3>1, <3>2 DEF RequestOK, Holds, RequestTypeOK, InsertRequest
    <3> QED BY <3>3, <3>4
  <2> QED BY <2>1, <2>2
<1>8. CASE Withdraw(r)
  <2>1. PICK status \in {"cancelled", "rejected"} : request' = [request EXCEPT ![r] = status]
    BY <1>8 DEF Withdraw, Decide
  <2>2. ReferencesOK'
    BY <1>4, <1>5, <2>1 DEF ReferencesOK, Holds, RequestTypeOK
  <2>3. \A q \in Requests : RequestOK(q)'
    BY <1>4, <1>5, <1>8, <2>1 DEF Withdraw, RequestOK, RequestTypeOK
  <2> QED BY <2>2, <2>3
<1>9. CASE ClaimRequest(r)
  <2>1. ReferencesOK'
    BY <1>4, <1>5, <1>9 DEF ClaimRequest, Decide, ReferencesOK, Holds, RequestTypeOK
  <2>2. \A q \in Requests : RequestOK(q)'
    BY <1>4, <1>5, <1>9 DEF ClaimRequest, Decide, RequestOK, RequestTypeOK
  <2> QED BY <2>1, <2>2
<1>10. CASE AddCredit(r)
  <2>1. ReferencesOK'
    BY <1>4, <1>10 DEF AddCredit, ReferencesOK, Holds
  <2>2. credited[r] = 0
    BY <1>4, <1>10 DEF AddCredit, RequestOK
  <2>3. \A q \in Requests : RequestOK(q)'
    BY <1>4, <1>5, <1>10, <2>2 DEF AddCredit, Pay, RequestOK, RequestTypeOK
  <2> QED BY <2>1, <2>3
<1>11. CASE CreditFails(r)
  <2>1. ReferencesOK'
    BY <1>4, <1>5, <1>11 
     DEF CreditFails, PutBack, Decide, ReferencesOK, Holds, RequestOK, RequestTypeOK
  <2>2. mishaps'.dead = mishaps.dead
    BY <1>5, <1>11 DEF CreditFails, Mishap, Mishaps, RequestTypeOK
  <2>3. \A q \in Requests : RequestOK(q)'
    BY <1>4, <1>5, <1>11, <2>2 DEF CreditFails, PutBack, Decide, RequestOK, RequestTypeOK
  <2> QED BY <2>1, <2>3
<1>12. CASE ApprovalDies(r)
  <2>1. ReferencesOK'
    BY <1>4, <1>12 DEF ApprovalDies, ReferencesOK, Holds
  <2>2. mishaps'.dead > 0
    BY <1>5, <1>12 DEF ApprovalDies, Mishap, Mishaps, RequestTypeOK
  <2>3. \A q \in Requests : RequestOK(q)'
    BY <1>4, <1>5, <1>12, <2>2 DEF ApprovalDies, RequestOK, RequestTypeOK
  <2> QED BY <2>1, <2>3
<1> QED BY <1>1, <1>2, <1>6, <1>7, <1>8, <1>9, <1>10, <1>11, <1>12

LEMMA RequestsAlone ==
    ASSUME RequestInv, UNCHANGED requests
    PROVE  RequestInv'
BY DEF requests, RequestInv, RequestTypeOK, RequestsOK, ReferencesOK, RequestOK, Holds

\* A step of a code's handler leaves the requests alone.
LEMMA StepOfRequests ==
    ASSUME [Next]_vars
    PROVE  CreditsNext \/ UNCHANGED requests
BY DEF Next, vars, credits, codes, requests, OnlyCharge, BeginCreate, Create, BeginResend,
       Resend, BeginVerify, Verified, WrongCode, FoundExpired, RolledBack, RunOut, Unlock,
       ForgetFailures

\* The inductive invariant of the recharge requests holds, whatever the codes
\* paid from the same wallet do.
THEOREM RequestsInvariant == Spec => []RequestInv
<1>1. Init => RequestInv
  BY RequestInvInit DEF Init
<1>2. RequestInv /\ [Next]_vars => RequestInv'
  <2> SUFFICES ASSUME RequestInv, [Next]_vars
               PROVE  RequestInv'
    OBVIOUS
  <2>1. CASE CreditsNext
    BY <2>1, RequestTypeStep, RequestsStep DEF RequestInv
  <2>2. CASE UNCHANGED requests
    BY <2>2, RequestsAlone
  <2> QED BY <2>1, <2>2, StepOfRequests
<1> QED BY <1>1, <1>2, PTL DEF Spec

\* One bank payment buys its credit once (business_recharge_requests_ref_once
\* and the claim of an approval).
THEOREM OnePaymentOneCredit == Spec => []PaymentCreditedOnce
<1>1. RequestInv => PaymentCreditedOnce
  <2> SUFFICES ASSUME RequestInv, mishaps.unheard = 0,
                      NEW q \in Requests, NEW r \in Requests, RefOf[q] = RefOf[r]
               PROVE  credited[q] + (IF q = r THEN 0 ELSE credited[r]) <= 1
    BY DEF PaymentCreditedOnce
  <2>1. RequestOK(q) /\ RequestOK(r) /\ ReferencesOK
    BY DEF RequestInv, RequestsOK
  <2>2. CASE q = r
    BY <2>1, <2>2 DEF RequestOK
  <2>3. CASE q # r
    <3>1. ~(Holds(q) /\ Holds(r))
      BY <2>1, <2>3 DEF ReferencesOK
    <3>2. credited[q] = 0 \/ credited[r] = 0
      BY <2>1, <3>1 DEF RequestOK, Holds
    <3> QED BY <2>1, <2>3, <3>2 DEF RequestOK
  <2> QED BY <2>2, <2>3
<1> QED BY <1>1, RequestsInvariant, PTL

\* The decision shown in the list agrees with the wallet, but for a commit that
\* went unheard and an approval that died.
THEOREM DecisionsAgreeAlways == Spec => []DecisionsAgree
<1>1. RequestInv => DecisionsAgree
  BY DEF RequestInv, RequestsOK, RequestOK, DecisionsAgree
<1> QED BY <1>1, RequestsInvariant, PTL
---------------------------------------------------------------------------
(***************************************************************************)
(* The one-time codes.                                                       *)
(***************************************************************************)

CodeTypeOK ==
    /\ challenge \in [Challenges -> Challenge]
    /\ task \in [Tasks -> Task]

\* A code nobody issued superseded none: what is issued anew is the only
\* successor of its code.
UnusedOK == \A c \in Unused : challenge[c].supersedes = "none"

\* A handler that sends a code again found one that was issued and could be.
ResendsOK ==
    \A t \in Tasks : Doing(t, "resend") =>
        task[t].of \in Issued /\ challenge[task[t].of].resends < MaxResends

\* What a step never does to a code that was issued.
IssuedKept ==
    \A c \in Issued : c \in Issued' /\ challenge'[c].resends = challenge[c].resends

\* The history of verifications, as far as the proof needs its type.
RedemptionsOK == redeemed \in [Challenges -> Nat] /\ RedeemedOnce

CodeInv == CodeTypeOK /\ UnusedOK /\ OneLiveCode /\ ResendsOK /\ RedemptionsOK

\* The tasks stay well formed, whatever the step.
LEMMA TaskType ==
    ASSUME CodeTypeOK, [Next]_vars
    PROVE  task' \in [Tasks -> Task]
<1>1. CASE UNCHANGED task
  BY <1>1 DEF CodeTypeOK
<1>2. CASE \E t \in Tasks : End(t)
  BY <1>2 DEF CodeTypeOK, End, Task
<1>3. CASE \E t \in Tasks : BeginCreate(t)
  BY <1>3 DEF CodeTypeOK, BeginCreate, Begin, Task
<1>4. CASE \E t \in Tasks, c \in Challenges : BeginResend(t, c)
  BY <1>4 DEF CodeTypeOK, BeginResend, Begin, Task
<1>5. CASE \E t \in Tasks, c \in Challenges, right \in BOOLEAN : BeginVerify(t, c, right)
  BY <1>5 DEF CodeTypeOK, BeginVerify, Begin, Task
<1> QED
  BY <1>1, <1>2, <1>3, <1>4, <1>5
  DEF Next, vars, codes, Create, Resend, Verified, WrongCode, FoundExpired, RolledBack,
      RunOut, Unlock, ForgetFailures

\* Issuing a code when rows has no pending one.
LEMMA IssueStep ==
    ASSUME NEW rows \in [Challenges -> Challenge], NEW resends \in 0..MaxResends,
           NEW supersedes \in Challenges \cup {"none"},
           \A c \in Unused : rows[c] = challenge[c],
           Issue(rows, resends, supersedes)
    PROVE  \E new \in Unused :
             /\ challenge' = [rows EXCEPT ![new] =
                  [status |-> "pending", resends |-> resends,
                   supersedes |-> supersedes, over |-> FALSE]]
             /\ challenge' \in [Challenges -> Challenge]
             /\ \A c \in Challenges : rows[c].status # "pending"
<1>1. PICK new \in Unused : challenge' = [rows EXCEPT ![new] =
         [status |-> "pending", resends |-> resends, supersedes |-> supersedes, over |-> FALSE]]
  BY DEF Issue
<1>2. [status |-> "pending", resends |-> resends,
       supersedes |-> supersedes, over |-> FALSE] \in Challenge
  BY DEF Challenge
<1>3. challenge' \in [Challenges -> Challenge]
  BY <1>1, <1>2
<1> QED BY <1>1, <1>3 DEF Issue

LEMMA CreateStep ==
    ASSUME CodeInv, NEW t \in Tasks, Create(t)
    PROVE  challenge' \in [Challenges -> Challenge] /\ (UnusedOK /\ OneLiveCode)' /\ IssuedKept
<1>1. 0 \in 0..MaxResends
  BY ChallengesAssumption
<1>2. PICK new \in Unused :
         /\ challenge' = [challenge EXCEPT ![new] =
              [status |-> "pending", resends |-> 0, supersedes |-> "none", over |-> FALSE]]
         /\ challenge' \in [Challenges -> Challenge]
         /\ \A c \in Challenges : challenge[c].status # "pending"
  BY <1>1, IssueStep DEF Create, CodeInv, CodeTypeOK
<1>3. \A c \in Challenges :
        challenge'[c] = IF c = new
                        THEN [status |-> "pending", resends |-> 0, supersedes |-> "none",
                              over |-> FALSE]
                        ELSE challenge[c]
  BY <1>2 DEF CodeInv, CodeTypeOK
<1>4. UnusedOK'
  BY <1>3 DEF CodeInv, UnusedOK, Unused, Is
<1>5. OneLiveCode'
  BY <1>2, <1>3, ChallengesAssumption
  DEF CodeInv, CodeTypeOK, Challenge, UnusedOK, Unused, OneLiveCode, Live, Is
<1>6. IssuedKept
  BY <1>3 DEF IssuedKept, Issued, Unused, Is
<1> QED BY <1>2, <1>4, <1>5, <1>6

\* A challenge whose status alone is set stays well formed.
WithStatus(c, status) == [challenge EXCEPT ![c].status = status]

LEMMA StatusSet ==
    ASSUME CodeTypeOK, NEW c \in Challenges, NEW status \in {"verified", "superseded"}
    PROVE  /\ WithStatus(c, status) \in [Challenges -> Challenge]
           /\ WithStatus(c, status)[c].status = status
           /\ WithStatus(c, status)[c].supersedes = challenge[c].supersedes
           /\ WithStatus(c, status)[c].resends = challenge[c].resends
           /\ \A d \in Challenges \ {c} : WithStatus(c, status)[d] = challenge[d]
<1>1. challenge[c] \in Challenge /\ challenge \in [Challenges -> Challenge]
  BY DEF CodeTypeOK
<1>2. WithStatus(c, status)[c] = [challenge[c] EXCEPT !.status = status]
  BY <1>1 DEF WithStatus
<1>3. WithStatus(c, status)[c] \in Challenge
  BY <1>1, <1>2 DEF Challenge
<1>4. \A d \in Challenges \ {c} : WithStatus(c, status)[d] = challenge[d]
  BY <1>1 DEF WithStatus
<1>5. WithStatus(c, status) = [d \in Challenges |-> WithStatus(c, status)[d]]
  BY <1>1 DEF WithStatus
<1>6. WithStatus(c, status) \in [Challenges -> Challenge]
  BY <1>1, <1>3, <1>4, <1>5
<1> QED BY <1>1, <1>2, <1>4, <1>6 DEF Challenge

LEMMA ResendStep ==
    ASSUME CodeInv, NEW t \in Tasks, Resend(t)
    PROVE  challenge' \in [Challenges -> Challenge] /\ (UnusedOK /\ OneLiveCode)' /\ IssuedKept
<1> DEFINE old  == task[t].of
           rows == WithStatus(old, "superseded")
           resends == challenge[old].resends + 1
<1>1. old \in Challenges
  BY DEF CodeInv, CodeTypeOK, Resend, Doing, Task, Idle
<1>2. challenge[old].status = "pending" /\ Issue(rows, resends, old)
  BY DEF Resend, Is, WithStatus
<1>3. resends \in 0..MaxResends
  <2>1. challenge[old] \in Challenge /\ challenge[old].resends < MaxResends
    BY <1>1 DEF CodeInv, CodeTypeOK, ResendsOK, Resend
  <2> QED BY <2>1, ChallengesAssumption DEF Challenge
<1> HIDE DEF old, resends
<1>4. /\ rows \in [Challenges -> Challenge]
      /\ rows[old].status = "superseded"
      /\ rows[old].supersedes = challenge[old].supersedes
      /\ rows[old].resends = challenge[old].resends
      /\ \A d \in Challenges \ {old} : rows[d] = challenge[d]
  BY <1>1, StatusSet DEF CodeInv
<1> HIDE DEF rows
<1>5. PICK new \in Unused :
         /\ challenge' = [rows EXCEPT ![new] =
              [status |-> "pending", resends |-> resends, supersedes |-> old, over |-> FALSE]]
         /\ challenge' \in [Challenges -> Challenge]
         /\ \A c \in Challenges : rows[c].status # "pending"
  <2>1. \A c \in Unused : rows[c] = challenge[c]
    BY <1>2, <1>4 DEF Unused, Is
  <2> QED BY <1>1, <1>2, <1>3, <1>4, <2>1, IssueStep
<1>6. new \in Challenges /\ new # old /\ challenge[new].supersedes = "none"
  BY <1>2 DEF CodeInv, UnusedOK, Unused, Is
<1>7. /\ challenge'[new].status = "pending" /\ challenge'[new].supersedes = old
      /\ challenge'[old].status = "superseded"
      /\ challenge'[old].supersedes = challenge[old].supersedes
      /\ challenge'[old].resends = challenge[old].resends
      /\ \A d \in Challenges \ {old, new} : challenge'[d] = challenge[d]
  BY <1>1, <1>4, <1>5, <1>6
<1>8. UnusedOK'
  BY <1>1, <1>6, <1>7 DEF CodeInv, UnusedOK, Unused, Is
<1>9. OneLiveCode'
  <2>1. \A c \in Challenges : Is(c, "pending")' => c = new
    BY <1>4, <1>5, <1>6, <1>7 DEF Is
  <2>2. \A c \in Challenges : challenge[c].supersedes # old
    BY <1>1, <1>2, ChallengesAssumption DEF CodeInv, OneLiveCode, Is
  <2>3. \A c \in Challenges : challenge[c].supersedes \in Challenges \cup {"none"}
    BY DEF CodeInv, CodeTypeOK, Challenge
  <2>4. ASSUME NEW c \in Challenges, challenge'[c].supersedes # "none"
        PROVE  /\ challenge'[challenge'[c].supersedes].status = "superseded"
               /\ \A d \in Challenges \ {c} : challenge'[d].supersedes # challenge'[c].supersedes
    <3>1. CASE c = new
      BY <1>1, <1>6, <1>7, <2>2, <3>1
    <3>2. CASE c # new
      <4>1. challenge'[c].supersedes = challenge[c].supersedes
        BY <1>7, <3>2
      <4>2. /\ challenge[challenge[c].supersedes].status = "superseded"
            /\ \A d \in Challenges \ {c} : challenge[d].supersedes # challenge[c].supersedes
        BY <2>4, <4>1 DEF CodeInv, OneLiveCode, Is
      <4>3. challenge[c].supersedes \in Challenges /\ challenge[c].supersedes # old
        BY <2>2, <2>3, <2>4, <4>1
      <4>4. challenge[c].supersedes # new
        BY <4>2, <1>5 DEF Unused, Is
      <4>5. challenge'[challenge[c].supersedes].status = "superseded"
        BY <1>7, <4>2, <4>3, <4>4
      <4>6. \A d \in Challenges \ {c} : challenge'[d].supersedes # challenge[c].supersedes
        BY <1>7, <4>2, <4>3
      <4> QED BY <4>1, <4>5, <4>6
    <3> QED BY <3>1, <3>2
  <2>5. \A c, d \in Live' : c = d
    BY <2>1 DEF Live, Is
  <2> QED BY <2>4, <2>5 DEF OneLiveCode, Is
<1>10. IssuedKept
  BY <1>1, <1>6, <1>7 DEF IssuedKept, Issued, Unused, Is
<1> QED BY <1>5, <1>8, <1>9, <1>10

\* A challenge is verified: none superseded it, for it is pending.
LEMMA VerifiedStep ==
    ASSUME CodeInv, NEW t \in Tasks, Verified(t)
    PROVE  challenge' \in [Challenges -> Challenge] /\ (UnusedOK /\ OneLiveCode)' /\ IssuedKept
<1> DEFINE of == task[t].of
<1>1. of \in Challenges
  BY DEF CodeInv, CodeTypeOK, Verified, Doing, Task, Idle
<1>2. challenge[of].status = "pending" /\ challenge' = WithStatus(of, "verified")
  BY DEF Verified, Is, WithStatus
<1> HIDE DEF of
<1>3. /\ challenge' \in [Challenges -> Challenge]
      /\ challenge'[of].status = "verified"
      /\ challenge'[of].supersedes = challenge[of].supersedes
      /\ challenge'[of].resends = challenge[of].resends
      /\ \A d \in Challenges \ {of} : challenge'[d] = challenge[d]
  BY <1>1, <1>2, StatusSet DEF CodeInv
<1>4. \A c \in Challenges : challenge'[c].supersedes = challenge[c].supersedes
  BY <1>3
<1>5. UnusedOK'
  BY <1>3 DEF CodeInv, UnusedOK, Unused, Is
<1>6. \A c \in Challenges : challenge[c].supersedes \in Challenges \cup {"none"}
  BY DEF CodeInv, CodeTypeOK, Challenge
<1>7. OneLiveCode'
  BY <1>2, <1>3, <1>4, <1>6 DEF CodeInv, OneLiveCode, Live, Is
<1>8. IssuedKept
  BY <1>3 DEF IssuedKept, Issued, Unused, Is
<1> QED BY <1>3, <1>5, <1>7, <1>8

\* The time of a challenge runs out: its status stays.
LEMMA RunOutStep ==
    ASSUME CodeInv, NEW c \in Challenges, RunOut(c)
    PROVE  challenge' \in [Challenges -> Challenge] /\ (UnusedOK /\ OneLiveCode)' /\ IssuedKept
<1>1. challenge[c] \in Challenge /\ challenge \in [Challenges -> Challenge]
  BY DEF CodeInv, CodeTypeOK
<1>2. challenge' = [challenge EXCEPT ![c] = [challenge[c] EXCEPT !.over = TRUE]]
  BY DEF RunOut
<1>3. [challenge[c] EXCEPT !.over = TRUE] \in Challenge
  BY <1>1 DEF Challenge
<1>4. challenge' \in [Challenges -> Challenge]
  BY <1>1, <1>2, <1>3
<1>5. \A d \in Challenges : /\ challenge'[d].status = challenge[d].status
                             /\ challenge'[d].supersedes = challenge[d].supersedes
                             /\ challenge'[d].resends = challenge[d].resends
  BY <1>1, <1>2 DEF Challenge
<1>6. \A d \in Challenges : challenge[d].supersedes \in Challenges \cup {"none"}
  BY <1>1 DEF Challenge
<1>7. UnusedOK'
  BY <1>5 DEF CodeInv, UnusedOK, Unused, Is
<1>8. OneLiveCode'
  BY <1>5, <1>6 DEF CodeInv, OneLiveCode, Live, Is
<1>9. IssuedKept
  BY <1>5 DEF IssuedKept, Issued, Unused, Is
<1> QED BY <1>4, <1>7, <1>8, <1>9

\* Every other step leaves the challenges alone.
LEMMA ChallengeStep ==
    ASSUME CodeInv, [Next]_vars
    PROVE  challenge' \in [Challenges -> Challenge] /\ (UnusedOK /\ OneLiveCode)' /\ IssuedKept
<1>1. CASE UNCHANGED challenge
  BY <1>1 DEF CodeInv, CodeTypeOK, UnusedOK, IssuedKept, Issued, Unused, OneLiveCode, Live, Is
<1>2. CASE \E t \in Tasks : Create(t) \/ Resend(t) \/ Verified(t)
  BY <1>2, CreateStep, ResendStep, VerifiedStep
<1>3. CASE \E c \in Challenges : RunOut(c)
  BY <1>3, RunOutStep
<1> QED
  BY <1>1, <1>2, <1>3
  DEF Next, vars, codes, BeginCreate, BeginResend, BeginVerify, WrongCode, FoundExpired,
      RolledBack, Unlock, ForgetFailures

LEMMA ResendsStep ==
    ASSUME CodeInv, [Next]_vars, IssuedKept, challenge' \in [Challenges -> Challenge]
    PROVE  ResendsOK'
<1> SUFFICES ASSUME NEW t \in Tasks, Doing(t, "resend")'
             PROVE  task'[t].of \in Issued' /\ challenge'[task'[t].of].resends < MaxResends
  BY DEF ResendsOK
<1>1. CASE task'[t] = task[t]
  BY <1>1 DEF CodeInv, ResendsOK, IssuedKept, Doing
<1>2. CASE task'[t] # task[t]
  <2>1. PICK c \in Challenges : BeginResend(t, c)
    <3>1. PICK u \in Tasks :
             \/ End(u)
             \/ Begin(u, [op |-> "create"])
             \/ \E c \in Challenges : BeginResend(u, c)
             \/ \E c \in Challenges, right \in BOOLEAN :
                  Begin(u, [op |-> "verify", of |-> c, right |-> right])
      BY <1>2
      DEF Next, vars, codes, BeginCreate, Create, Resend, BeginVerify, Verified, WrongCode,
          FoundExpired, RolledBack, RunOut, Unlock, ForgetFailures
    <3>2. u = t
      BY <1>2, <3>1 DEF CodeInv, CodeTypeOK, End, Begin, BeginResend
    <3> QED BY <3>1, <3>2 DEF CodeInv, CodeTypeOK, End, Begin, Doing, Idle
  <2>2. task'[t].of = c /\ challenge' = challenge
    BY <2>1 DEF BeginResend, Begin, CodeInv, CodeTypeOK
  <2> QED BY <2>1, <2>2 DEF BeginResend, Issued, Unused, Is
<1> QED BY <1>1, <1>2

\* A verification is counted when its conditional update finds the row pending,
\* which is the last time it can.
LEMMA RedemptionsStep ==
    ASSUME CodeInv, [Next]_vars
    PROVE  RedemptionsOK'
<1>1. CASE \E t \in Tasks : Verified(t)
  <2>1. PICK t \in Tasks : Verified(t)
    BY <1>1
  <2> DEFINE of == task[t].of
  <2>2. of \in Challenges
    BY <2>1 DEF CodeInv, CodeTypeOK, Verified, Doing, Task, Idle
  <2>3. /\ challenge[of].status = "pending" /\ challenge' = WithStatus(of, "verified")
        /\ redeemed' = [redeemed EXCEPT ![of] = @ + 1]
    BY <2>1 DEF Verified, Is, WithStatus
  <2> HIDE DEF of
  <2>4. /\ challenge'[of].status = "verified"
        /\ \A d \in Challenges \ {of} : challenge'[d] = challenge[d]
    BY <2>2, <2>3, StatusSet DEF CodeInv
  <2> QED BY <2>2, <2>3, <2>4 DEF CodeInv, RedemptionsOK, RedeemedOnce, Is
<1>2. CASE UNCHANGED redeemed
           /\ \A c \in Challenges : Is(c, "verified")' = Is(c, "verified")
  BY <1>2 DEF CodeInv, RedemptionsOK, RedeemedOnce
<1>3. ASSUME UNCHANGED challenge PROVE \A c \in Challenges : Is(c, "verified")' = Is(c, "verified")
  BY <1>3 DEF Is
<1>4. ASSUME NEW t \in Tasks, Create(t)
      PROVE  \A c \in Challenges : Is(c, "verified")' = Is(c, "verified")
  <2>1. PICK new \in Unused : challenge' = [challenge EXCEPT ![new] =
           [status |-> "pending", resends |-> 0, supersedes |-> "none", over |-> FALSE]]
    BY <1>4 DEF Create, Issue
  <2> QED BY <2>1 DEF CodeInv, CodeTypeOK, Unused, Is
<1>5. ASSUME NEW t \in Tasks, Resend(t)
      PROVE  \A c \in Challenges : Is(c, "verified")' = Is(c, "verified")
  <2> DEFINE old  == task[t].of
             rows == WithStatus(old, "superseded")
             again == [status |-> "pending", resends |-> challenge[old].resends + 1,
                       supersedes |-> old, over |-> FALSE]
  <2>1. old \in Challenges
    BY <1>5 DEF CodeInv, CodeTypeOK, Resend, Doing, Task, Idle
  <2>2. PICK new \in Unused : challenge' = [rows EXCEPT ![new] = again]
    BY <1>5 DEF Resend, Issue, WithStatus
  <2>3. challenge[old].status = "pending" /\ again.status = "pending"
    BY <1>5 DEF Resend, Is
  <2> HIDE DEF old, again
  <2>4. /\ rows \in [Challenges -> Challenge] /\ rows[old].status = "superseded"
        /\ \A d \in Challenges \ {old} : rows[d] = challenge[d]
    BY <2>1, StatusSet DEF CodeInv
  <2> HIDE DEF rows
  <2> QED BY <2>1, <2>2, <2>3, <2>4 DEF Unused, Is
<1>6. ASSUME NEW d \in Challenges, RunOut(d)
      PROVE  \A c \in Challenges : Is(c, "verified")' = Is(c, "verified")
  <2>1. challenge \in [Challenges -> Challenge]
    BY DEF CodeInv, CodeTypeOK
  <2> QED BY <1>6, <2>1 DEF RunOut, Is, Challenge
<1> QED
  BY <1>1, <1>2, <1>3, <1>4, <1>5, <1>6
  DEF Next, vars, codes, BeginCreate, Create, BeginResend, Resend, BeginVerify, WrongCode,
      FoundExpired, RolledBack, RunOut, Unlock, ForgetFailures

LEMMA CodeInvInit == ASSUME Init PROVE CodeInv
<1>1. CodeTypeOK
  BY ChallengesAssumption
  DEF Init, CodeTypeOK, Challenge, NoChallenge, Task, Idle
<1> QED
  BY <1>1
  DEF Init, CodeInv, NoChallenge, Idle, UnusedOK, Unused, OneLiveCode, Live, Is, ResendsOK,
      Doing, RedemptionsOK, RedeemedOnce

\* The inductive invariant of the codes holds, whatever the recharge requests do.
THEOREM CodesInvariant == Spec => []CodeInv
<1>1. Init => CodeInv
  BY CodeInvInit
<1>2. CodeInv /\ [Next]_vars => CodeInv'
  BY TaskType, ChallengeStep, ResendsStep, RedemptionsStep DEF CodeInv, CodeTypeOK
<1> QED BY <1>1, <1>2, PTL DEF Spec

\* One code can be used at a time, one that was sent again never, and each is
\* redeemed at most once, however many resends and verifications race for it
\* (the conditional updates of resendChallenge and verifyChallenge).
THEOREM OneCodeUsable == Spec => []OneUsableCode
<1>1. CodeInv => OneUsableCode
  BY DEF CodeInv, RedemptionsOK, OneUsableCode
<1> QED BY <1>1, CodesInvariant, PTL

---------------------------------------------------------------------------
\* The wallet: a charge is conditional, so it is never below zero.
LEMMA WalletStep ==
    ASSUME wallet \in Nat, [Next]_vars
    PROVE  wallet' \in Nat
<1> USE CreditsAssumption
<1>1. CASE CreditsNext
  BY <1>1 DEF CreditsNext, CountPending, InsertRequest, Withdraw, ClaimRequest, AddCredit,
              CreditFails, CreditUnheard, ApprovalDies, Pay
<1>2. CASE UNCHANGED credits
  BY <1>2 DEF credits
<1>3. CASE Charge
  BY <1>3 DEF Charge, Affordable
<1> QED
  BY <1>1, <1>2, <1>3
  DEF Next, vars, BeginCreate, Create, BeginResend, Resend, Issue, BeginVerify, Verified,
      WrongCode, FoundExpired, RolledBack, RunOut, Unlock, ForgetFailures

LEMMA FilingStep ==
    ASSUME filing \subseteq Requests, [Next]_vars
    PROVE  filing' \subseteq Requests
<1>1. CASE CreditsNext
  BY <1>1 DEF CreditsNext, CountPending, InsertRequest, Withdraw, ClaimRequest, AddCredit,
              CreditFails, CreditUnheard, ApprovalDies, PutBack
<1>2. CASE UNCHANGED requests
  BY <1>2 DEF requests
<1> QED BY <1>1, <1>2, StepOfRequests

LEMMA LimitsStep ==
    ASSUME failures \in 0..MaxFailures - 1, locked \in BOOLEAN, [Next]_vars
    PROVE  failures' \in 0..MaxFailures - 1 /\ locked' \in BOOLEAN
<1> USE ChallengesAssumption
<1>1. CASE UNCHANGED limits
  BY <1>1 DEF limits
<1>2. CASE failures' = 0 /\ locked' \in BOOLEAN
  BY <1>2
<1>3. CASE failures + 1 < MaxFailures /\ failures' = failures + 1 /\ UNCHANGED locked
  BY <1>3
<1> QED
  BY <1>1, <1>2, <1>3
  DEF Next, vars, codes, BeginCreate, Create, BeginResend, Resend, BeginVerify,
      Verified, WrongCode, FoundExpired, RolledBack, RunOut, Unlock, ForgetFailures, limits

\* The state is well formed, and the wallet never below zero (the conditional
\* update of chargeMessage).
THEOREM CodesTypeCorrect == Spec => []TypeOK
<1> DEFINE Rest == /\ wallet \in Nat /\ filing \subseteq Requests
                   /\ failures \in 0..MaxFailures - 1 /\ locked \in BOOLEAN
<1>1. Init => Rest
  <2> SUFFICES ASSUME Init
               PROVE  Rest
    OBVIOUS
  <2>1. wallet \in Nat
    BY CreditsAssumption DEF Init, CreditsInit
  <2>2. filing \subseteq Requests /\ locked \in BOOLEAN
    BY DEF Init, CreditsInit
  <2>3. failures \in 0..MaxFailures - 1
    BY ChallengesAssumption DEF Init
  <2> QED BY <2>1, <2>2, <2>3
<1>2. Rest /\ [Next]_vars => Rest'
  BY WalletStep, FilingStep, LimitsStep
<1>3. RequestInv /\ CodeInv /\ Rest => TypeOK
  BY DEF RequestInv, RequestTypeOK, CodeInv, CodeTypeOK, RedemptionsOK, TypeOK, CreditsTypeOK
<1> QED BY <1>1, <1>2, <1>3, RequestsInvariant, CodesInvariant, PTL DEF Spec

---------------------------------------------------------------------------
(* The wallet, to the paisa *)

Balanced ==
    wallet + Price * Cardinality(Issued) = InitWallet + Credit * SumOver(credited, Requests)

LEMMA PaidAndCredited ==
    ASSUME CodeInv, RequestInv
    PROVE  /\ IsFiniteSet(Issued) /\ Cardinality(Issued) \in Nat
           /\ \A r \in Requests : credited[r] \in Int
           /\ SumOver(credited, Requests) \in Int
<1>1. Issued \in SUBSET Challenges
  BY DEF Issued
<1>2. IsFiniteSet(Issued) /\ Cardinality(Issued) \in Nat
  BY <1>1, FS_Subset, FS_CardinalityType, ChallengesAssumption
<1>3. \A r \in Requests : credited[r] \in Int
  BY DEF RequestInv, RequestTypeOK
<1> QED BY <1>2, <1>3, SumInt, CreditsAssumption

\* A credit is counted once, whether or not its approval heard of it.
LEMMA PayBalances ==
    ASSUME CodeInv, RequestInv, wallet \in Nat, Balanced, NEW r \in Requests, Pay(r),
           challenge' = challenge
    PROVE  Balanced'
<1>1. credited \in [Requests -> Nat] /\ credited' = [credited EXCEPT ![r] = @ + 1]
  BY DEF RequestInv, RequestTypeOK, Pay
<1>2. /\ \A s \in Requests : credited[s] \in Int /\ credited'[s] \in Int
      /\ \A s \in Requests \ {r} : credited[s] = credited'[s]
      /\ credited'[r] = credited[r] + 1
  BY <1>1
<1>3. /\ SumOver(credited', Requests) = SumOver(credited, Requests) - credited[r] + credited'[r]
      /\ SumOver(credited, Requests) \in Int
  <2>1. IsFiniteSet(Requests)
    BY CreditsAssumption
  <2>2. DifferAt(credited, credited', Requests, r)
    BY <1>2 DEF DifferAt
  <2> QED BY <2>1, <2>2, SumChange
<1>4. SumOver(credited', Requests) = SumOver(credited, Requests) + 1
  BY <1>2, <1>3
<1>5. Credit \in Nat /\ Price \in Nat /\ InitWallet \in Nat
  BY CreditsAssumption
<1>6. Credit * SumOver(credited', Requests) = Credit * SumOver(credited, Requests) + Credit
  BY <1>3, <1>4, <1>5
<1>7. /\ Credit * SumOver(credited, Requests) \in Int
      /\ Price * Cardinality(Issued) \in Int
  BY <1>3, <1>5, PaidAndCredited
<1>8. Issued' = Issued /\ wallet' = wallet + Credit
  BY DEF Issued, Unused, Is, Pay
<1> QED BY <1>5, <1>6, <1>7, <1>8 DEF Balanced

\* A code is issued: the row is new and the price taken, in one transaction.
LEMMA IssueBalances ==
    ASSUME CodeInv, RequestInv, wallet \in Nat, Balanced, NEW c \in Unused,
           Issued' = Issued \cup {c}, Charge, credited' = credited
    PROVE  Balanced'
<1>1. /\ IsFiniteSet(Issued) /\ Cardinality(Issued) \in Nat
      /\ SumOver(credited, Requests) \in Int
  BY PaidAndCredited
<1>2. Cardinality(Issued') = Cardinality(Issued) + 1
  BY <1>1, FS_AddElement DEF Issued
<1>3. Price \in Nat /\ Credit \in Nat /\ InitWallet \in Nat
  BY CreditsAssumption
<1>4. Price * Cardinality(Issued') = Price * Cardinality(Issued) + Price
  BY <1>1, <1>2, <1>3
<1>5. /\ Price * Cardinality(Issued) \in Int
      /\ Credit * SumOver(credited, Requests) \in Int
  BY <1>1, <1>3
<1>6. wallet' = wallet - Price
  BY DEF Charge
<1> QED BY <1>3, <1>4, <1>5, <1>6 DEF Balanced

LEMMA BalanceStep ==
    ASSUME CodeInv, RequestInv, wallet \in Nat, Balanced, [Next]_vars
    PROVE  Balanced'
<1>1. CASE CreditsNext /\ UNCHANGED codes
  <2>1. challenge' = challenge
    BY <1>1 DEF codes
  <2>2. \/ wallet' = wallet /\ credited' = credited
        \/ \E r \in Requests : Pay(r)
    BY <1>1 DEF CreditsNext, CountPending, InsertRequest, Withdraw, ClaimRequest, AddCredit,
                CreditFails, CreditUnheard, ApprovalDies
  <2> QED BY <2>1, <2>2, PayBalances DEF Balanced, Issued, Unused, Is
<1>2. CASE \E t \in Tasks : Create(t)
  <2>1. PICK t \in Tasks : Create(t)
    BY <1>2
  <2>2. 0 \in 0..MaxResends /\ Charge /\ credited' = credited
    BY <2>1, ChallengesAssumption DEF Create, Issue, OnlyCharge
  <2>3. PICK new \in Unused :
          challenge' = [challenge EXCEPT ![new] =
             [status |-> "pending", resends |-> 0, supersedes |-> "none", over |-> FALSE]]
    BY <2>1, <2>2, IssueStep DEF Create, CodeInv, CodeTypeOK
  <2>4. Issued' = Issued \cup {new}
    BY <2>3 DEF CodeInv, CodeTypeOK, Issued, Unused, Is
  <2> QED BY <2>2, <2>4, IssueBalances
<1>3. CASE \E t \in Tasks : Resend(t)
  <2>1. PICK t \in Tasks : Resend(t)
    BY <1>3
  <2> DEFINE old == task[t].of
  <2>2. /\ old \in Challenges /\ Is(old, "pending") /\ credited' = credited /\ Charge
        /\ Issue(WithStatus(old, "superseded"), challenge[old].resends + 1, old)
    BY SMTT(30), <2>1 DEF CodeInv, CodeTypeOK, Resend, Issue, Doing, Task, Idle, OnlyCharge, WithStatus
  <2> HIDE DEF old
  <2>3. PICK new \in Unused :
          challenge' = [WithStatus(old, "superseded") EXCEPT ![new] =
             [status |-> "pending", resends |-> challenge[old].resends + 1,
              supersedes |-> old, over |-> FALSE]]
    BY <2>2 DEF Issue
  <2>4. /\ WithStatus(old, "superseded") \in [Challenges -> Challenge]
        /\ WithStatus(old, "superseded")[old].status = "superseded"
        /\ \A d \in Challenges \ {old} : WithStatus(old, "superseded")[d] = challenge[d]
    BY <2>2, StatusSet DEF CodeInv
  <2>5. /\ \A d \in Challenges \ {old, new} : challenge'[d] = challenge[d]
        /\ new # old => challenge'[old].status = "superseded"
        /\ challenge'[new].status = "pending" /\ new \in Challenges /\ new # old
    BY <2>2, <2>3, <2>4 DEF Unused, Is
  <2>6. Issued' = Issued \cup {new}
    BY <2>2, <2>5 DEF Issued, Unused, Is
  <2> QED BY <2>2, <2>6, IssueBalances
<1>4. CASE \/ \E t \in Tasks : Verified(t)
           \/ \E c \in Challenges : RunOut(c)
  <2>1. wallet' = wallet /\ credited' = credited
    BY <1>4 DEF Verified, RunOut, credits
  <2>2. Issued' = Issued
    <3>1. CASE \E t \in Tasks : Verified(t)
      <4>1. PICK t \in Tasks : Verified(t)
        BY <3>1
      <4> DEFINE c == task[t].of
      <4>2. c \in Challenges
        BY <4>1 DEF CodeInv, CodeTypeOK, Verified, Doing, Task, Idle
      <4>3. Is(c, "pending") /\ challenge' = WithStatus(c, "verified")
        BY <4>1 DEF Verified, Is, WithStatus
      <4> HIDE DEF c
      <4>4. /\ challenge'[c].status = "verified"
            /\ \A d \in Challenges \ {c} : challenge'[d] = challenge[d]
        BY <4>2, <4>3, StatusSet DEF CodeInv
      <4> QED BY <4>2, <4>3, <4>4 DEF Issued, Unused, Is
    <3>2. CASE \E c \in Challenges : RunOut(c)
      <4>1. \A d \in Challenges : challenge'[d].status = challenge[d].status
        BY <3>2 DEF CodeInv, CodeTypeOK, RunOut, Challenge
      <4> QED BY <4>1 DEF Issued, Unused, Is
    <3> QED BY <1>4, <3>1, <3>2
  <2> QED BY <2>1, <2>2 DEF Balanced
<1>5. CASE UNCHANGED <<wallet, credited, challenge>>
  BY <1>5 DEF Balanced, Issued, Unused, Is
<1>6. \/ CreditsNext /\ UNCHANGED codes
      \/ \E t \in Tasks : Create(t) \/ Resend(t) \/ Verified(t)
      \/ \E c \in Challenges : RunOut(c)
      \/ UNCHANGED <<wallet, credited, challenge>>
  BY DEF Next, vars, credits, codes, BeginCreate, BeginResend, BeginVerify, WrongCode,
         FoundExpired, RolledBack, Unlock, ForgetFailures
<1> QED BY <1>1, <1>2, <1>3, <1>4, <1>5, <1>6

\* Whichever steps fail, are rolled back or race, the wallet is what it was,
\* with the credit of every approved recharge, heard of or not, and without the
\* price of every code that was issued, and of no other (chargeOtpMessage within
\* the transaction of issueChallenge, adjustOrganizationBalance).
THEOREM CodesArePaid == Spec => []ChallengesPaid
<1>1. Init => wallet \in Nat /\ Balanced
  <2> SUFFICES ASSUME Init PROVE wallet \in Nat /\ Balanced
    OBVIOUS
  <2>1. wallet = InitWallet /\ InitWallet \in Nat /\ Price \in Nat /\ Credit \in Nat
    BY CreditsAssumption DEF Init, CreditsInit
  <2>2. Issued = {}
    BY DEF Init, Issued, Unused, Is, NoChallenge
  <2>3. Cardinality(Issued) = 0
    BY <2>2, FS_EmptySet
  <2>4. SumOver(credited, Requests) = 0
    BY SumZero, CreditsAssumption DEF Init, CreditsInit
  <2> QED BY <2>1, <2>3, <2>4 DEF Balanced
<1>2. RequestInv /\ CodeInv /\ (wallet \in Nat /\ Balanced) /\ [Next]_vars
         => (wallet \in Nat /\ Balanced)'
  BY WalletStep, BalanceStep
<1>3. Balanced => ChallengesPaid
  BY SumOverIs DEF Balanced, ChallengesPaid
<1> QED BY <1>1, <1>2, <1>3, RequestsInvariant, CodesInvariant, PTL DEF Spec
=============================================================================
