----------------------------- MODULE Challenges -----------------------------
(***************************************************************************)
(* The one-time codes a business sends one of its customers for one purpose  *)
(* (server/modules/otp/service.ts): a challenge is created, sent again with  *)
(* a new code that supersedes the old one, verified, or runs out. Each code  *)
(* is paid from the wallet of MessageCredits.                                *)
(*                                                                           *)
(* A handler reads, and then decides in one transaction: a task stands       *)
(* between the two. What a transaction wrote before it throws is taken back. *)
(***************************************************************************)
EXTENDS MessageCredits, FiniteSetsExt

CONSTANTS
    Challenges,    \* bound: the rows of business_otp_challenges
    Tasks,         \* bound: handlers under way at once
    MaxResends,    \* MAX_RESENDS
    MaxFailures    \* OTP_FAIL_MAX, wrong codes until the destination is locked

ASSUME ChallengesAssumption ==
    /\ IsFiniteSet(Challenges) /\ "none" \notin Challenges
    /\ MaxResends \in Nat /\ MaxFailures \in Nat \ {0}

VARIABLES
    challenge,    \* business_otp_challenges
    task,         \* the handlers between their read and their transaction
    failures,     \* Redis: wrong codes at this destination
    locked,       \* Redis: the destination's lockout
    redeemed      \* history: verifications of each challenge that committed

limits == <<failures, locked>>
codes == <<challenge, task, limits, redeemed>>
vars == <<credits, codes>>

Idle == [op |-> "idle"]
NoChallenge == [status |-> "none", resends |-> 0, supersedes |-> "none", over |-> FALSE]

\* over says that expiresAt has passed.
Challenge == [status : {"none", "pending", "verified", "superseded"}, resends : 0..MaxResends,
              supersedes : Challenges \cup {"none"}, over : BOOLEAN]
Task == [op : {"create"}]
        \cup [op : {"resend"}, of : Challenges]
        \cup [op : {"verify"}, of : Challenges, right : BOOLEAN]
        \cup {Idle}

Init ==
    /\ CreditsInit
    /\ challenge = [c \in Challenges |-> NoChallenge]
    /\ task = [t \in Tasks |-> Idle]
    /\ failures = 0 /\ locked = FALSE
    /\ redeemed = [c \in Challenges |-> 0]

Is(c, status) == challenge[c].status = status
Live == {c \in Challenges : Is(c, "pending")}
Unused == {c \in Challenges : Is(c, "none")}
Issued == Challenges \ Unused

Doing(t, op) == task[t].op = op
Begin(t, work) == task[t] = Idle /\ task' = [task EXCEPT ![t] = work]
End(t) == task' = [task EXCEPT ![t] = Idle]

OnlyCharge == UNCHANGED <<request, filing, approving, credited, mishaps>>

---------------------------------------------------------------------------
\* issueChallenge: the charge and the row with its new code. The partial
\* unique index allows one pending challenge.
Issue(rows, resends, supersedes) ==
    /\ Charge
    /\ \A c \in Challenges : rows[c].status # "pending"
    /\ \E new \in Unused :
         challenge' = [rows EXCEPT ![new] = [status |-> "pending", resends |-> resends,
                                             supersedes |-> supersedes, over |-> FALSE]]

\* createChallenge, if it sees no pending challenge.
BeginCreate(t) ==
    /\ Live = {}
    /\ Begin(t, [op |-> "create"])
    /\ UNCHANGED <<credits, challenge, limits, redeemed>>

\* A mutant: the charge is kept when the code is not issued.
Create_ChargeKept(t) ==
    /\ Doing(t, "create")
    /\ Charge
    /\ IF Live = {} /\ Unused # {} THEN Issue(challenge, 0, "none") ELSE UNCHANGED challenge
    /\ End(t)
    /\ OnlyCharge /\ UNCHANGED <<limits, redeemed>>

Create(t) ==
    /\ Doing(t, "create")
    /\ Issue(challenge, 0, "none")
    /\ End(t)
    /\ OnlyCharge /\ UNCHANGED <<limits, redeemed>>

\* resendChallenge. Whether the old code has run out is not asked.
BeginResend(t, c) ==
    /\ Is(c, "pending") /\ challenge[c].resends < MaxResends
    /\ Begin(t, [op |-> "resend", of |-> c])
    /\ UNCHANGED <<credits, challenge, limits, redeemed>>

Resend(t) ==
    /\ Doing(t, "resend")
    /\ LET old == task[t].of
       IN  /\ Is(old, "pending")
           /\ Issue([challenge EXCEPT ![old].status = "superseded"],
                    challenge[old].resends + 1, old)
    /\ End(t)
    /\ OnlyCharge /\ UNCHANGED <<limits, redeemed>>

---------------------------------------------------------------------------
\* verifyChallenge, if the destination is not locked and the challenge
\* pending.
BeginVerify(t, c, right) ==
    /\ ~locked
    /\ Is(c, "pending")
    /\ Begin(t, [op |-> "verify", of |-> c, right |-> right])
    /\ UNCHANGED <<credits, challenge, limits, redeemed>>

\* A mutant: whether the challenge is still pending is not asked again.
Verified_Unconditional(t) ==
    /\ Doing(t, "verify") /\ task[t].right
    /\ ~challenge[task[t].of].over
    /\ challenge' = [challenge EXCEPT ![task[t].of].status = "verified"]
    /\ redeemed' = [redeemed EXCEPT ![task[t].of] = @ + 1]
    /\ failures' = 0
    /\ End(t)
    /\ UNCHANGED <<credits, locked>>

Verified(t) ==
    /\ Doing(t, "verify") /\ task[t].right
    /\ ~challenge[task[t].of].over
    /\ Is(task[t].of, "pending")
    /\ challenge' = [challenge EXCEPT ![task[t].of].status = "verified"]
    /\ redeemed' = [redeemed EXCEPT ![task[t].of] = @ + 1]
    /\ failures' = 0
    /\ End(t)
    /\ UNCHANGED <<credits, locked>>

\* The attempt is counted, and after the last one the challenge failed, in a
\* transaction that then throws: only the count in Redis remains.
WrongCode(t) ==
    /\ Doing(t, "verify") /\ ~task[t].right
    /\ ~challenge[task[t].of].over
    /\ Is(task[t].of, "pending")
    /\ IF failures + 1 < MaxFailures
       THEN failures' = failures + 1 /\ UNCHANGED locked
       ELSE failures' = 0 /\ locked' = TRUE
    /\ End(t)
    /\ UNCHANGED <<credits, challenge, redeemed>>

\* The status EXPIRED is taken back in the same way: the row stays pending.
FoundExpired(t) ==
    /\ Doing(t, "verify")
    /\ challenge[task[t].of].over
    /\ End(t)
    /\ UNCHANGED <<credits, challenge, limits, redeemed>>

\* Somebody resolved the challenge first, the wallet is short, the template is
\* gone, or the database fails.
RolledBack(t) ==
    /\ task[t] # Idle
    /\ End(t)
    /\ UNCHANGED <<credits, challenge, limits, redeemed>>

\* expiresAt passes, or one of the two times to live in Redis does.
RunOut(c) ==
    /\ Is(c, "pending") /\ ~challenge[c].over
    /\ challenge' = [challenge EXCEPT ![c].over = TRUE]
    /\ UNCHANGED <<credits, task, limits, redeemed>>

Unlock ==
    /\ locked /\ locked' = FALSE
    /\ UNCHANGED <<credits, challenge, task, failures, redeemed>>

ForgetFailures ==
    /\ failures > 0 /\ failures' = 0
    /\ UNCHANGED <<credits, challenge, task, locked, redeemed>>

---------------------------------------------------------------------------
Next ==
    \/ CreditsNext /\ UNCHANGED codes
    \/ \E t \in Tasks :
         \/ BeginCreate(t) \/ Create(t) \/ Resend(t)
         \/ Verified(t) \/ WrongCode(t) \/ FoundExpired(t) \/ RolledBack(t)
         \/ \E c \in Challenges :
              \/ BeginResend(t, c)
              \/ \E right \in BOOLEAN : BeginVerify(t, c, right)
    \/ \E c \in Challenges : RunOut(c)
    \/ Unlock \/ ForgetFailures

Spec == Init /\ [][Next]_vars

---------------------------------------------------------------------------
(* Properties *)

TypeOK ==
    /\ CreditsTypeOK
    /\ challenge \in [Challenges -> Challenge]
    /\ task \in [Tasks -> Task]
    /\ failures \in 0..MaxFailures - 1
    /\ locked \in BOOLEAN
    /\ redeemed \in [Challenges -> Nat]

\* The wallet is what it was, with the credit of every recharge that was
\* approved and without the price of every code that was issued, and of no
\* other: a code that was not issued was not paid, whichever step failed
\* (chargeOtpMessage within the transaction of issueChallenge).
ChallengesPaid ==
    wallet + Price * Cardinality(Issued)
        = InitWallet + Credit * MapThenSumSet(LAMBDA r : credited[r], Requests)

\* One code can be verified at a time, and one that was sent again gave way to
\* a single successor.
OneLiveCode ==
    /\ \A c, d \in Live : c = d
    /\ \A c \in Challenges :
         challenge[c].supersedes # "none" =>
             /\ Is(challenge[c].supersedes, "superseded")
             /\ \A d \in Challenges \ {c} : challenge[d].supersedes # challenge[c].supersedes

\* A code was redeemed once if its row says so, and otherwise never: not twice,
\* and not when another code has taken its place.
RedeemedOnce ==
    \A c \in Challenges : redeemed[c] = IF Is(c, "verified") THEN 1 ELSE 0

\* Of the resends and verifications that race for a challenge one succeeds (the
\* conditional updates of resendChallenge and verifyChallenge): two
\* verifications of one code never both do, and a code that was sent again is
\* not redeemed, before or after.
OneUsableCode == OneLiveCode /\ RedeemedOnce
=============================================================================
