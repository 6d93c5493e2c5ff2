----------------------------- MODULE Campaigns -----------------------------
(***************************************************************************)
(* One campaign of a business (server/modules/campaigns/service.ts): it is   *)
(* drafted, approved, scheduled or run at once, and its recipients are       *)
(* worked off by execute calls, from the scheduler of every instance and     *)
(* from people, which may overlap. Each message is paid from the wallet of   *)
(* MessageCredits.                                                           *)
(*                                                                           *)
(* A run is an execute call. It stops at the awaits another run can notice;  *)
(* what a transaction does after it took its first row lock is one step.     *)
(***************************************************************************)
EXTENDS MessageCredits, FiniteSetsExt

CONSTANTS
    Recipients,      \* members of the audience
    Willing,         \* recipients that are eligible for the campaign's category
    Incomplete,      \* recipients whose conversation with the business lacks a participant
    Runs,            \* bound: execute calls under way at once
    Categories,      \* what the campaign may be, marketing or utility
    BatchSize,       \* MAX_RECIPIENTS_PER_EXECUTE_CALL
    ThroughputCap,   \* the business's marketing messages an hour
    DailyLimit,      \* customers a day the business's account health allows
    MaxEvents        \* bound: runs that die, daily gates that cannot be read, archived templates

ASSUME CampaignsAssumption ==
    /\ IsFiniteSet(Recipients) /\ IsFiniteSet(Runs)
    /\ Willing \subseteq Recipients /\ Incomplete \subseteq Recipients
    /\ Categories \subseteq {"marketing", "utility"}
    /\ BatchSize \in Nat \ {0}
    /\ {ThroughputCap, DailyLimit, MaxEvents} \subseteq Nat

VARIABLES
    campaign,    \* the campaigns row: status, category, whether approvedAt is set
    template,    \* whether the bound template version is APPROVED and the audience active
    recipient,   \* status of each row of campaign_recipients
    slots,       \* business_marketing_throughput.sent_count of this hour
    run,         \* the execute calls under way
    delivered,   \* recipients whose message went to their inbox
    past         \* history

campaigns == <<campaign, template, recipient, slots, run, delivered, past>>
vars == <<credits, campaigns>>

Idle == [pc |-> "idle"]
Nobody == "nobody"

Campaign == [status : {"draft", "scheduled", "running", "completed", "cancelled", "failed"},
             category : {"marketing", "utility"}, approved : BOOLEAN]

\* overlapped: two runs were working off recipients at once; unread: runs
\* without a daily gate; crashes: runs that died; lost: recipients whose
\* message was sent and whose delivery failed, or was never tried.
Past == [unread : Nat, crashes : Nat, overlapped : BOOLEAN, lost : SUBSET Recipients]

CampaignInit ==
    /\ campaign \in [status : {"draft"}, category : Categories, approved : {FALSE}]
    /\ template = TRUE
    /\ recipient = [r \in Recipients |-> "none"]
    /\ slots = 0
    /\ run = [x \in Runs |-> Idle]
    /\ delivered = {}
    /\ past = [unread |-> 0, crashes |-> 0, overlapped |-> FALSE, lost |-> {}]

Init == CreditsInit /\ CampaignInit

Events == past.unread + past.crashes + (IF template THEN 0 ELSE 1)

Is(status) == {r \in Recipients : recipient[r] = status}
Sent == Is("sent")

---------------------------------------------------------------------------
(* The draft is approved, scheduled or cancelled.                            *)
---------------------------------------------------------------------------
OnlyCampaign == UNCHANGED <<credits, template, recipient, slots, run, delivered, past>>

\* The Approval Center's decision (markCampaignApproved).
Approve ==
    /\ ~campaign.approved
    /\ campaign' = [campaign EXCEPT !.approved = TRUE]
    /\ OnlyCampaign

\* External to the module: the template version or the audience is archived.
Archive ==
    /\ Events < MaxEvents
    /\ template /\ template' = FALSE
    /\ UNCHANGED <<credits, campaign, recipient, slots, run, delivered, past>>

\* assertReadyToGoLive
Ready == campaign.approved /\ template

\* snapshotRecipientsIfNeeded: once there are recipients they stay.
SnapshotRecipients ==
    recipient' = IF Is("none") = Recipients
                 THEN [r \in Recipients |-> "pending"] ELSE recipient

Schedule ==
    /\ campaign.status = "draft" /\ Ready
    /\ campaign' = [campaign EXCEPT !.status = "scheduled"]
    /\ SnapshotRecipients
    /\ UNCHANGED <<credits, template, slots, run, delivered, past>>

Cancellable == {"draft", "scheduled"}

\* The status is read and compared in the update, in one transaction.
Cancel ==
    /\ campaign.status \in Cancellable
    /\ campaign' = [campaign EXCEPT !.status = "cancelled"]
    /\ OnlyCampaign

---------------------------------------------------------------------------
(* An execute call, first part: the campaign goes live, or the call joins    *)
(* the runs that are working it off.                                         *)
---------------------------------------------------------------------------
At(x, pc) == run[x].pc = pc
Stop(x) == run' = [run EXCEPT ![x] = Idle]
Go(x, pc) == run' = [run EXCEPT ![x].pc = pc]

OnlyRun == UNCHANGED <<credits, template, recipient, slots, delivered>>
ListNext(x) == run' = [run EXCEPT ![x] = [pc |-> "list"]]

Execute(x) ==
    /\ At(x, "idle")
    /\ \/ /\ campaign.status \in {"draft", "scheduled"}
          /\ run' = [run EXCEPT ![x] = [pc |-> "live", from |-> campaign.status]]
       \/ campaign.status = "running" /\ ListNext(x)
    /\ OnlyRun /\ UNCHANGED <<campaign, past>>

GoLive(x) ==
    /\ At(x, "live") /\ campaign.status = run[x].from /\ Ready
    /\ campaign' = [campaign EXCEPT !.status = "running"]
    /\ SnapshotRecipients
    /\ ListNext(x)
    /\ UNCHANGED <<credits, template, slots, delivered, past>>

NotReady(x) ==
    /\ At(x, "live") /\ campaign.status = run[x].from /\ ~Ready
    /\ Go(x, "fail")
    /\ OnlyRun /\ UNCHANGED <<campaign, past>>

Fail_NotRecorded(x) ==
    /\ At(x, "fail")
    /\ Stop(x)
    /\ OnlyRun /\ UNCHANGED <<campaign, past>>
\* Only the status the call began with becomes FAILED.
Fail(x) ==
    /\ At(x, "fail")
    /\ campaign' = IF campaign.status = run[x].from
                   THEN [campaign EXCEPT !.status = "failed"] ELSE campaign
    /\ Stop(x)
    /\ OnlyRun /\ UNCHANGED past

\* The race for the status was lost: join if somebody started the campaign.
LoseRace(x) ==
    /\ At(x, "live") /\ campaign.status # run[x].from
    /\ Go(x, "lost")
    /\ OnlyRun /\ UNCHANGED <<campaign, past>>

Join(x) ==
    /\ At(x, "lost")
    /\ IF campaign.status = "running" THEN ListNext(x) ELSE Stop(x)
    /\ OnlyRun /\ UNCHANGED <<campaign, past>>

---------------------------------------------------------------------------
(* Second part: a batch of pending recipients, in no particular order, the   *)
(* template version and the daily gate are read once.                        *)
---------------------------------------------------------------------------
Batches_OffByOne ==
    IF Cardinality(Is("pending")) < BatchSize THEN {Is("pending")}
    ELSE kSubset(BatchSize - 1, Is("pending"))
Batches ==
    IF Cardinality(Is("pending")) <= BatchSize THEN {Is("pending")}
    ELSE kSubset(BatchSize, Is("pending"))

Working == {x \in Runs : run[x].pc \in {"gate", "pick", "send", "deliver"}}

List(x) ==
    /\ At(x, "list")
    /\ \E B \in Batches :
         run' = [run EXCEPT ![x] =
                   [pc |-> IF B = {} THEN "pick" ELSE "gate", batch |-> B,
                    usable |-> template, gated |-> FALSE,
                    reached |-> {}, who |-> Nobody]]
    /\ past' = [past EXCEPT !.overlapped = @ \/ Working # {}]
    /\ OnlyRun /\ UNCHANGED campaign

Reached_None == {}
Reached == Sent

\* createDailyMessagingGate: whom the business reached today is remembered
\* for the length of the run.
OpenGate(x) ==
    /\ At(x, "gate")
    /\ run' = [run EXCEPT ![x].pc = "pick", ![x].gated = TRUE, ![x].reached = Reached]
    /\ OnlyRun /\ UNCHANGED <<campaign, past>>

\* The account health cannot be read: the run goes on without a gate.
GateUnread(x) ==
    /\ At(x, "gate") /\ Events < MaxEvents
    /\ Go(x, "pick")
    /\ past' = [past EXCEPT !.unread = @ + 1]
    /\ OnlyRun /\ UNCHANGED campaign

\* The next recipient of the batch, unless somebody settled it meanwhile.
Pick(x) ==
    /\ At(x, "pick")
    /\ \E r \in run[x].batch :
         \/ /\ recipient[r] = "pending"
            /\ run' = [run EXCEPT ![x] =
                         [run[x] EXCEPT !.batch = @ \ {r}, !.who = r, !.pc = "send"]]
         \/ /\ recipient[r] # "pending"
            /\ run' = [run EXCEPT ![x] = [run[x] EXCEPT !.batch = @ \ {r}]]
    /\ OnlyRun /\ UNCHANGED <<campaign, past>>

---------------------------------------------------------------------------
(* One recipient, in one transaction. It takes the business's throughput     *)
(* row or its account row first, so of two runs that reach this point with   *)
(* one recipient the second sees what the first committed.                   *)
---------------------------------------------------------------------------
Eligible(x) == run[x].who \in Willing /\ run[x].usable

Allows(x) ==
    \/ ~run[x].gated
    \/ run[x].who \in run[x].reached
    \/ Cardinality(run[x].reached) < DailyLimit

Remembered(x) == IF run[x].gated THEN run[x].reached \cup {run[x].who} ELSE {}

Marketing == campaign.category = "marketing"

SlotFree_OffByOne == ~Marketing \/ slots <= ThroughputCap
SlotFree == ~Marketing \/ slots < ThroughputCap

TakeSlot == slots' = IF Marketing THEN slots + 1 ELSE slots

Mark_Unconditional(r, status) == recipient' = [recipient EXCEPT ![r] = status]
\* The last update of the transaction, on a row that is still pending.
Mark(r, status) == recipient' = [recipient EXCEPT ![r] = IF @ = "pending" THEN status ELSE @]

\* The run goes on with the next recipient.
GoOn(x, reached) ==
    run' = [run EXCEPT ![x] =
              [run[x] EXCEPT !.pc = "pick", !.who = Nobody, !.reached = reached]]

OnlySend == UNCHANGED <<campaign, template, delivered, past>>
OnlyCharge == UNCHANGED <<request, filing, approving, credited, mishaps>>

\* Passed over before anything was reserved.
SkipFirst(x) ==
    /\ At(x, "send")
    /\ ~Eligible(x) \/ ~Allows(x) \/ ~SlotFree
    /\ Mark(run[x].who, "skipped")
    /\ GoOn(x, IF Eligible(x) /\ Allows(x) THEN Remembered(x) ELSE run[x].reached)
    /\ OnlySend /\ UNCHANGED <<credits, slots>>

\* Passed over because the template does not render, or the account is short,
\* blocked or missing: the slot stays taken, also when somebody else has
\* settled the recipient.
SkipUnpaid(x) ==
    /\ At(x, "send")
    /\ Eligible(x) /\ Allows(x) /\ SlotFree
    /\ TakeSlot
    /\ Mark(run[x].who, "skipped")
    /\ GoOn(x, Remembered(x))
    /\ OnlySend /\ UNCHANGED credits

\* Passed over after the charge: the slot and the charge are committed.
SkipPaid(x) ==
    /\ At(x, "send")
    /\ Eligible(x) /\ Allows(x) /\ SlotFree
    /\ run[x].who \in Incomplete
    /\ TakeSlot /\ Charge
    /\ Mark(run[x].who, "skipped")
    /\ GoOn(x, Remembered(x))
    /\ OnlySend /\ OnlyCharge

SendOne(x) ==
    /\ At(x, "send")
    /\ Eligible(x) /\ Allows(x) /\ SlotFree
    /\ run[x].who \notin Incomplete /\ recipient[run[x].who] = "pending"
    /\ TakeSlot
    /\ Charge
    /\ Mark(run[x].who, "sent")
    /\ run' = [run EXCEPT ![x].pc = "deliver", ![x].reached = Remembered(x)]
    /\ OnlySend /\ OnlyCharge

RaceLost_ChargeKept(x) ==
    /\ At(x, "send")
    /\ Eligible(x) /\ Allows(x) /\ SlotFree
    /\ run[x].who \notin Incomplete /\ recipient[run[x].who] # "pending"
    /\ Charge
    /\ GoOn(x, Remembered(x))
    /\ OnlySend /\ OnlyCharge /\ UNCHANGED <<recipient, slots>>
\* RACE_LOST rolls everything back but the gate, which is in memory.
RaceLost(x) ==
    /\ At(x, "send")
    /\ Eligible(x) /\ Allows(x) /\ SlotFree /\ Affordable
    /\ run[x].who \notin Incomplete /\ recipient[run[x].who] # "pending"
    /\ GoOn(x, Remembered(x))
    /\ OnlySend /\ UNCHANGED <<credits, recipient, slots>>

\* deliverCommittedMessage, after the commit.
Deliver(x) ==
    /\ At(x, "deliver")
    /\ delivered' = delivered \cup {run[x].who}
    /\ GoOn(x, run[x].reached)
    /\ UNCHANGED <<credits, campaign, template, recipient, slots, past>>

\* The delivery is marked FAILED because the customer blocked the business or
\* has no account any more, or an error leaves it queued; nobody tries again.
DeliveryFails(x) ==
    /\ At(x, "deliver")
    /\ past' = [past EXCEPT !.lost = @ \cup {run[x].who}]
    /\ GoOn(x, run[x].reached)
    /\ UNCHANGED <<credits, campaign, template, recipient, slots, delivered>>

\* No recipient becomes pending once the campaign runs, so the look and the
\* conditional update that follows it are one step.
Finish(x) ==
    /\ At(x, "pick") /\ run[x].batch = {}
    /\ campaign' = IF Is("pending") = {} /\ campaign.status = "running"
                   THEN [campaign EXCEPT !.status = "completed"] ELSE campaign
    /\ Stop(x)
    /\ OnlyRun /\ UNCHANGED past

\* The instance dies, or a database error ends the call: no step is resumed.
Crash(x) ==
    /\ run[x] # Idle /\ Events < MaxEvents
    /\ Stop(x)
    /\ past' = [past EXCEPT !.crashes = @ + 1,
                           !.lost = IF At(x, "deliver") THEN @ \cup {run[x].who} ELSE @]
    /\ OnlyRun /\ UNCHANGED campaign

---------------------------------------------------------------------------
Step(x) ==
    \/ GoLive(x) \/ NotReady(x) \/ Fail(x) \/ LoseRace(x) \/ Join(x)
    \/ List(x) \/ OpenGate(x) \/ GateUnread(x) \/ Pick(x)
    \/ SkipFirst(x) \/ SkipUnpaid(x) \/ SkipPaid(x) \/ SendOne(x) \/ RaceLost(x)
    \/ Deliver(x) \/ DeliveryFails(x) \/ Finish(x)

Next ==
    \/ CreditsNext /\ UNCHANGED campaigns
    \/ Approve \/ Archive \/ Schedule \/ Cancel
    \/ \E x \in Runs : Execute(x) \/ Step(x) \/ Crash(x)

Spec == Init /\ [][Next]_vars

\* runDueCampaigns: every minute the scheduler executes what is scheduled. It
\* never takes up a campaign that is already running.
Scheduler == campaign.status = "scheduled" /\ \E x \in Runs : Execute(x)

Fairness == WF_vars(Scheduler) /\ \A x \in Runs : WF_vars(Step(x))
FairSpec == Spec /\ Fairness

---------------------------------------------------------------------------
Run == [pc : {"live", "lost", "fail"}, from : {"draft", "scheduled"}]
       \cup [pc : {"list"}] \cup {Idle}
       \cup [pc : {"gate", "pick", "send", "deliver"}, batch : SUBSET Recipients,
             usable : BOOLEAN, gated : BOOLEAN, reached : SUBSET Recipients,
             who : Recipients \cup {Nobody}]

\* The state is well formed; no wallet goes below zero.
TypeOK ==
    /\ CreditsTypeOK
    /\ campaign \in Campaign
    /\ template \in BOOLEAN
    /\ recipient \in [Recipients -> {"none", "pending", "sent", "skipped"}]
    /\ slots \in Nat
    /\ run \in [Runs -> Run]
    /\ delivered \subseteq Recipients
    /\ past \in Past

\* However many runs overlap, a marketing campaign sends no more messages in
\* an hour than the business's throughput allows.
ThroughputKept == Marketing => Cardinality(Sent) <= ThroughputCap

\* The daily limit holds over any number of runs, also after a crash, as long
\* as they do not overlap: the gate that keeps it is in each run's memory.
DailyLimitKept ==
    ~past.overlapped /\ past.unread = 0 => Cardinality(Sent) <= DailyLimit

\* Every message that was sent and paid is given to delivery once, by the run
\* that sent it: it has arrived, or its run is about to deliver it, or it was
\* lost with that delivery; nothing arrives that was not sent, and nothing
\* that was lost arrives after all.
Delivering == {x \in Runs : At(x, "deliver")}
InHand == {run[x].who : x \in Delivering}

SentIsDelivered ==
    /\ Sent = delivered \cup past.lost \cup InHand
    /\ delivered \cap past.lost = {} /\ InHand \cap (delivered \cup past.lost) = {}
    /\ \A x, y \in Delivering : run[x].who = run[y].who => x = y

\* The campaign keeps the promises of SendOnce.
Phase ==
    CASE campaign.status \in {"draft", "scheduled"} -> "waiting"
      [] campaign.status \in {"cancelled", "failed"} -> "called_off"
      [] OTHER -> campaign.status
Promise == INSTANCE SendOnce WITH phase <- Phase, outcome <- recipient
RefinesSendOnce == Promise!Spec

\* A scheduled campaign does not wait for ever: it is run, called off or
\* found not ready.
ScheduledCampaignsStart ==
    campaign.status = "scheduled" ~> campaign.status # "scheduled" \/ past.crashes > 0

\* A run that begins with no more recipients left than fit its batch completes
\* the campaign, whoever else works it off, unless a run dies.
RunsComplete ==
    \A x \in Runs :
        At(x, "list") /\ Cardinality(Is("pending")) <= BatchSize
            ~> campaign.status = "completed" \/ past.crashes > 0
=============================================================================
