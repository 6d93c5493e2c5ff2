--------------------------- MODULE CampaignProofs ---------------------------
(***************************************************************************)
(* What TLAPS proves of a campaign, for any audience and any number of       *)
(* overlapping runs: it keeps the promises of SendOnce, it sends no more     *)
(* marketing messages than the business's throughput allows, it gives what    *)
(* was paid for to delivery once, and it keeps the daily limit.               *)
(***************************************************************************)
EXTENDS Campaigns, FiniteSetTheorems, TLAPS

Early == [pc : {"live", "lost", "fail"}, from : {"draft", "scheduled"}]
Busy == [pc : {"gate", "pick", "send", "deliver"}, batch : SUBSET Recipients,
         usable : BOOLEAN, gated : BOOLEAN, reached : SUBSET Recipients,
         who : Recipients \cup {Nobody}]

\* A run that works the campaign off found it running, and one that is about
\* to settle a recipient knows which.
Founded(w) ==
    /\ w \in Run
    /\ w.pc \in {"list", "gate", "pick", "send", "deliver"} =>
         campaign.status \in {"running", "completed"}
    /\ w.pc \in {"send", "deliver"} => w.who \in Recipients

\* The inductive invariant of the refinement.
PromiseInv ==
    /\ wallet \in Nat /\ template \in BOOLEAN
    /\ campaign \in Campaign
    /\ recipient \in [Recipients -> {"none", "pending", "sent", "skipped"}]
    /\ run \in [Runs -> Run]
    /\ \A x \in Runs : Founded(run[x])
    /\ campaign.status = "completed" => \A r \in Recipients : recipient[r] # "pending"

---------------------------------------------------------------------------
(* The shapes of a run *)

LEMMA EarlyRun ==
    ASSUME NEW w \in Run, w.pc \in {"live", "lost", "fail"}
    PROVE  w \in Early
BY DEF Run, Early, Idle

LEMMA BusyRun ==
    ASSUME NEW w \in Run, w.pc \in {"gate", "pick", "send", "deliver"}
    PROVE  w \in Busy
BY DEF Run, Busy, Idle

LEMMA EarlyGoes ==
    ASSUME NEW w \in Early, NEW pc \in {"live", "lost", "fail"}
    PROVE  LET v == [w EXCEPT !.pc = pc]
           IN  v \in Run /\ v.pc = pc
<1> DEFINE v == [w EXCEPT !.pc = pc]
<1>1. v \in Early /\ v.pc = pc
  BY DEF Early
<1>2. Early \subseteq Run
  BY DEF Early, Run
<1> QED BY <1>1, <1>2

LEMMA BusyIsRun == Busy \subseteq Run
BY DEF Busy, Run

LEMMA BusyGoes ==
    ASSUME NEW w \in Busy, NEW pc \in {"gate", "pick", "send", "deliver"}
    PROVE  LET v == [w EXCEPT !.pc = pc]
           IN  /\ v \in Busy /\ v.pc = pc /\ v.who = w.who
               /\ v.batch = w.batch /\ v.gated = w.gated /\ v.reached = w.reached
BY DEF Busy

LEMMA BusyReaches ==
    ASSUME NEW w \in Busy, NEW reached \in SUBSET Recipients
    PROVE  LET v == [w EXCEPT !.pc = "pick", !.gated = TRUE, !.reached = reached]
           IN  v \in Busy /\ v.pc = "pick" /\ v.gated /\ v.reached = reached
BY DEF Busy

LEMMA BusyPasses ==
    ASSUME NEW w \in Busy, NEW r \in w.batch
    PROVE  LET v == [w EXCEPT !.batch = @ \ {r}]
           IN  v \in Busy /\ v.pc = w.pc /\ v.gated = w.gated /\ v.reached = w.reached
<1>1. r \in Recipients /\ w.batch \ {r} \in SUBSET Recipients
  BY DEF Busy
<1> QED BY <1>1 DEF Busy

LEMMA BusyPicks ==
    ASSUME NEW w \in Busy, NEW r \in w.batch
    PROVE  LET v == [w EXCEPT !.batch = @ \ {r}, !.who = r, !.pc = "send"]
           IN  /\ v \in Busy /\ v.pc = "send" /\ v.who = r /\ r \in Recipients
               /\ v.gated = w.gated /\ v.reached = w.reached
<1>1. r \in Recipients /\ w.batch \ {r} \in SUBSET Recipients
  BY DEF Busy
<1> QED BY <1>1 DEF Busy

LEMMA BusyGoesOn ==
    ASSUME NEW w \in Busy, NEW reached \in SUBSET Recipients
    PROVE  LET v == [w EXCEPT !.pc = "pick", !.who = Nobody, !.reached = reached]
           IN  v \in Busy /\ v.pc = "pick" /\ v.gated = w.gated /\ v.reached = reached
BY DEF Busy

LEMMA BusyDelivers ==
    ASSUME NEW w \in Busy, NEW reached \in SUBSET Recipients
    PROVE  LET v == [w EXCEPT !.pc = "deliver", !.reached = reached]
           IN  /\ v \in Busy /\ v.pc = "deliver" /\ v.who = w.who
               /\ v.gated = w.gated /\ v.reached = reached
BY DEF Busy

---------------------------------------------------------------------------
(* What the steps preserve *)

LEMMA WalletStep ==
    ASSUME wallet \in Nat, CreditsNext
    PROVE  wallet' \in Nat /\ (wallet' = wallet \/ wallet' > wallet)
<1>1. wallet + Credit \in Nat /\ (wallet + Credit = wallet \/ wallet + Credit > wallet)
  BY CreditsAssumption
<1> QED
  BY <1>1 DEF CreditsNext, CountPending, InsertRequest, Withdraw, ClaimRequest, AddCredit,
              CreditFails, CreditUnheard, ApprovalDies, Pay

LEMMA Campaigning ==
    ASSUME NEW c \in Campaign
    PROVE  /\ LET d == [c EXCEPT !.approved = TRUE]
              IN  d \in Campaign /\ d.status = c.status /\ d.category = c.category
           /\ \A status \in {"scheduled", "cancelled", "running", "failed", "completed"} :
                LET d == [c EXCEPT !.status = status]
                IN  d \in Campaign /\ d.status = status /\ d.category = c.category
BY DEF Campaign

LEMMA Snapshot ==
    ASSUME recipient \in [Recipients -> {"none", "pending", "sent", "skipped"}],
           SnapshotRecipients
    PROVE  /\ recipient' \in [Recipients -> {"none", "pending", "sent", "skipped"}]
           /\ \/ recipient' = recipient
              \/ /\ \A r \in Recipients : recipient[r] = "none"
                 /\ recipient' = [r \in Recipients |-> "pending"]
BY DEF SnapshotRecipients, Is

\* A step of the run x, which becomes w.
LEMMA RunKept ==
    ASSUME PromiseInv, NEW x \in Runs, NEW w \in Run, run' = [run EXCEPT ![x] = w],
           wallet' \in Nat, template' \in BOOLEAN, campaign' \in Campaign,
           recipient' \in [Recipients -> {"none", "pending", "sent", "skipped"}],
           campaign.status \in {"running", "completed"} =>
               campaign'.status \in {"running", "completed"},
           w.pc \in {"list", "gate", "pick", "send", "deliver"} =>
               campaign'.status \in {"running", "completed"},
           w.pc \in {"send", "deliver"} => w.who \in Recipients,
           campaign'.status = "completed" => \A r \in Recipients : recipient'[r] # "pending"
    PROVE  PromiseInv'
<1>1. run \in [Runs -> Run]
  BY DEF PromiseInv
<1>2. run' \in [Runs -> Run] /\ run'[x] = w /\ \A y \in Runs : y # x => run'[y] = run[y]
  BY <1>1
<1>3. ASSUME NEW y \in Runs PROVE Founded(run[y])'
  <2>1. CASE y = x
    BY <1>2, <2>1 DEF Founded
  <2>2. CASE y # x
    BY <1>2, <2>2 DEF PromiseInv, Founded
  <2> QED BY <2>1, <2>2
<1> QED BY <1>2, <1>3 DEF PromiseInv

LEMMA RunsStay ==
    ASSUME PromiseInv, run' = run, wallet' \in Nat, template' \in BOOLEAN, campaign' \in Campaign,
           recipient' \in [Recipients -> {"none", "pending", "sent", "skipped"}],
           campaign.status \in {"running", "completed"} => campaign'.status = campaign.status,
           campaign'.status = "completed" => \A r \in Recipients : recipient'[r] # "pending"
    PROVE  PromiseInv'
BY DEF PromiseInv, Founded

LEMMA PlainRuns ==
    /\ Idle \in Run /\ Idle.pc = "idle"
    /\ [pc |-> "list"] \in Run /\ [pc |-> "list"].pc = "list"
BY DEF Run, Idle

\* A run is at a step it knows the shape of.
LEMMA AtWork ==
    ASSUME PromiseInv, NEW x \in Runs,
           run[x].pc \in {"gate", "pick", "send", "deliver"}
    PROVE  /\ run[x] \in Busy /\ campaign.status \in {"running", "completed"}
           /\ run[x].pc \in {"send", "deliver"} => run[x].who \in Recipients
           /\ run[x].batch \in SUBSET Recipients /\ run[x].reached \in SUBSET Recipients
           /\ run[x].gated \in BOOLEAN
<1>1. Founded(run[x]) /\ run[x] \in Run
  BY DEF PromiseInv
<1>2. run[x] \in Busy
  BY <1>1, BusyRun
<1>3. run[x].batch \in SUBSET Recipients /\ run[x].reached \in SUBSET Recipients
  BY <1>2 DEF Busy
<1>4. run[x].gated \in BOOLEAN
  BY <1>2 DEF Busy
<1> QED BY <1>1, <1>2, <1>3, <1>4 DEF Founded

LEMMA Marking ==
    ASSUME recipient \in [Recipients -> {"none", "pending", "sent", "skipped"}],
           NEW r \in Recipients, NEW status \in {"sent", "skipped"}, Mark(r, status)
    PROVE  /\ recipient' \in [Recipients -> {"none", "pending", "sent", "skipped"}]
           /\ \A q \in Recipients : recipient'[q] = "pending" => recipient[q] = "pending"
           /\ recipient[r] # "pending" => recipient' = recipient
           /\ recipient[r] = "pending" => recipient' = [recipient EXCEPT ![r] = status]
BY DEF Mark

LEMMA StartInv ==
    ASSUME PromiseInv, NEW x \in Runs,
           \/ Execute(x) \/ GoLive(x) \/ NotReady(x) \/ Fail(x) \/ LoseRace(x) \/ Join(x)
    PROVE  PromiseInv'
<1>0. /\ wallet \in Nat /\ template \in BOOLEAN /\ campaign \in Campaign /\ run \in [Runs -> Run]
      /\ recipient \in [Recipients -> {"none", "pending", "sent", "skipped"}]
      /\ campaign.status = "completed" => \A r \in Recipients : recipient[r] # "pending"
  BY DEF PromiseInv
<1>1. CASE Execute(x)
  <2>1. CASE campaign.status \in {"draft", "scheduled"}
                /\ run' = [run EXCEPT ![x] = [pc |-> "live", from |-> campaign.status]]
    <3> DEFINE w == [pc |-> "live", from |-> campaign.status]
    <3>1. w \in Early /\ w.pc = "live"
      BY <2>1 DEF Early
    <3>2. w \in Run
      BY <3>1 DEF Early, Run
    <3> HIDE DEF w
    <3>3. run' = [run EXCEPT ![x] = w]
      BY <2>1 DEF w
    <3>4. UNCHANGED <<wallet, template, campaign, recipient>>
      BY <1>1 DEF Execute, OnlyRun, credits
    <3> QED BY <1>0, <3>1, <3>2, <3>3, <3>4, RunKept
  <2>2. CASE campaign.status = "running" /\ ListNext(x)
    <3>1. UNCHANGED <<wallet, template, campaign, recipient>>
      BY <1>1 DEF Execute, OnlyRun, credits
    <3> QED BY <1>0, <2>2, <3>1, PlainRuns, RunKept DEF ListNext
  <2> QED BY <1>1, <2>1, <2>2 DEF Execute
<1>2. CASE GoLive(x)
  <2>1. /\ campaign' \in Campaign /\ campaign'.status = "running"
        /\ UNCHANGED <<wallet, template>> /\ run' = [run EXCEPT ![x] = [pc |-> "list"]]
    BY <1>0, <1>2, Campaigning DEF GoLive, ListNext, credits
  <2>2. recipient' \in [Recipients -> {"none", "pending", "sent", "skipped"}]
    BY <1>0, <1>2, Snapshot DEF GoLive
  <2> QED BY <1>0, <2>1, <2>2, PlainRuns, RunKept
<1>3. CASE NotReady(x) \/ LoseRace(x)
  <2>1. PICK pc \in {"lost", "fail"} : Go(x, pc) /\ run[x].pc = "live"
    BY <1>3 DEF NotReady, LoseRace, At
  <2> DEFINE w == [run[x] EXCEPT !.pc = pc]
  <2>2. w \in Run /\ w.pc = pc
    BY <1>0, <2>1, EarlyRun, EarlyGoes
  <2>3. run' = [run EXCEPT ![x] = w]
    BY <2>1 DEF Go
  <2>4. UNCHANGED <<wallet, template, campaign, recipient>>
    BY <1>3 DEF NotReady, LoseRace, OnlyRun, credits
  <2> HIDE DEF w
  <2> QED BY <1>0, <2>2, <2>3, <2>4, RunKept
<1>4. CASE Fail(x)
  <2>1. run[x] \in Early
    BY <1>0, <1>4, EarlyRun DEF Fail, At
  <2>2. run[x].from \in {"draft", "scheduled"}
    BY <2>1 DEF Early
  <2>a. LET d == [campaign EXCEPT !.status = "failed"]
        IN  d \in Campaign /\ d.status = "failed"
    BY <1>0, Campaigning
  <2>3. /\ campaign' \in Campaign
        /\ \/ campaign' = campaign
           \/ campaign.status \in {"draft", "scheduled"} /\ campaign'.status = "failed"
    <3>1. CASE campaign.status = run[x].from
      BY <1>4, <2>2, <2>a, <3>1 DEF Fail
    <3>2. CASE campaign.status # run[x].from
      BY <1>0, <1>4, <3>2 DEF Fail
    <3> QED BY <3>1, <3>2
  <2>4. run' = [run EXCEPT ![x] = Idle] /\ UNCHANGED <<wallet, template, recipient>>
    BY <1>4 DEF Fail, Stop, OnlyRun, credits
  <2> QED BY <1>0, <2>3, <2>4, PlainRuns, RunKept
<1>5. CASE Join(x)
  <2>1. UNCHANGED <<wallet, template, campaign, recipient>>
    BY <1>5 DEF Join, OnlyRun, credits
  <2>2. CASE campaign.status = "running"
    BY <1>0, <1>5, <2>1, <2>2, PlainRuns, RunKept DEF Join, ListNext
  <2>3. CASE campaign.status # "running"
    BY <1>0, <1>5, <2>1, <2>3, PlainRuns, RunKept DEF Join, Stop
  <2> QED BY <2>2, <2>3
<1> QED BY <1>1, <1>2, <1>3, <1>4, <1>5

LEMMA BatchOfPending == \A B \in Batches : B \subseteq Is("pending")
BY DEF Batches, kSubset

LEMMA BatchInv ==
    ASSUME PromiseInv, NEW x \in Runs,
           List(x) \/ OpenGate(x) \/ GateUnread(x) \/ Pick(x)
    PROVE  PromiseInv'
<1>0. /\ wallet \in Nat /\ template \in BOOLEAN /\ campaign \in Campaign /\ run \in [Runs -> Run]
      /\ recipient \in [Recipients -> {"none", "pending", "sent", "skipped"}]
      /\ campaign.status = "completed" => \A r \in Recipients : recipient[r] # "pending"
  BY DEF PromiseInv
<1>a. UNCHANGED <<wallet, template, campaign, recipient>>
  BY DEF List, OpenGate, GateUnread, Pick, OnlyRun, credits
<1>1. CASE List(x)
  <2>1. PICK B \in Batches :
          run' = [run EXCEPT ![x] =
                    [pc |-> IF B = {} THEN "pick" ELSE "gate", batch |-> B,
                     usable |-> template, gated |-> FALSE,
                     reached |-> {}, who |-> Nobody]]
    BY <1>1 DEF List
  <2>2. B \subseteq Recipients
    BY BatchOfPending DEF Is
  <2>3. template \in BOOLEAN
    BY DEF PromiseInv
  <2> DEFINE w == [pc |-> IF B = {} THEN "pick" ELSE "gate", batch |-> B,
                   usable |-> template, gated |-> FALSE, reached |-> {}, who |-> Nobody]
  <2>4. w \in Busy /\ w.pc \in {"pick", "gate"}
    BY <2>2, <2>3 DEF Busy
  <2>5. run' = [run EXCEPT ![x] = w]
    BY <2>1
  <2>6. campaign.status \in {"running", "completed"}
    BY <1>1 DEF List, At, PromiseInv, Founded
  <2> HIDE DEF w
  <2> QED BY <1>0, <1>a, <2>4, <2>5, <2>6, BusyIsRun, RunKept
<1>2. CASE OpenGate(x)
  <2> DEFINE w == [run[x] EXCEPT !.pc = "pick", !.gated = TRUE, !.reached = Reached]
  <2>1. Reached \in SUBSET Recipients
    BY DEF Reached, Sent, Is
  <2>2. run[x] \in Busy /\ campaign.status \in {"running", "completed"}
    BY <1>2, AtWork DEF OpenGate, At
  <2>3. w \in Busy /\ w.pc = "pick"
    BY <2>1, <2>2, BusyReaches
  <2>4. run' = [run EXCEPT ![x] = w]
    BY <1>2 DEF OpenGate
  <2> HIDE DEF w
  <2> QED BY <1>0, <1>a, <2>2, <2>3, <2>4, BusyIsRun, RunKept
<1>3. CASE GateUnread(x)
  <2> DEFINE w == [run[x] EXCEPT !.pc = "pick"]
  <2>1. run[x] \in Busy /\ campaign.status \in {"running", "completed"}
    BY <1>3, AtWork DEF GateUnread, At
  <2>2. w \in Busy /\ w.pc = "pick"
    BY <2>1, BusyGoes
  <2>3. run' = [run EXCEPT ![x] = w]
    BY <1>3 DEF GateUnread, Go
  <2> HIDE DEF w
  <2> QED BY <1>0, <1>a, <2>1, <2>2, <2>3, BusyIsRun, RunKept
<1>4. CASE Pick(x)
  <2>1. run[x] \in Busy /\ campaign.status \in {"running", "completed"} /\ run[x].pc = "pick"
    BY <1>4, AtWork DEF Pick, At
  <2>2. CASE \E r \in run[x].batch :
               run' = [run EXCEPT ![x] =
                         [run[x] EXCEPT !.batch = @ \ {r}, !.who = r, !.pc = "send"]]
    <3>1. PICK r \in run[x].batch :
            run' = [run EXCEPT ![x] =
                      [run[x] EXCEPT !.batch = @ \ {r}, !.who = r, !.pc = "send"]]
      BY <2>2
    <3> DEFINE w == [run[x] EXCEPT !.batch = @ \ {r}, !.who = r, !.pc = "send"]
    <3>2. r \in Recipients /\ w \in Busy /\ w.pc = "send" /\ w.who = r
      BY <2>1, BusyPicks
    <3>3. run' = [run EXCEPT ![x] = w]
      BY <3>1
    <3> HIDE DEF w
    <3> QED BY <1>0, <1>a, <2>1, <3>2, <3>3, BusyIsRun, RunKept
  <2>3. CASE \E r \in run[x].batch :
               run' = [run EXCEPT ![x] = [run[x] EXCEPT !.batch = @ \ {r}]]
    <3>1. PICK r \in run[x].batch :
            run' = [run EXCEPT ![x] = [run[x] EXCEPT !.batch = @ \ {r}]]
      BY <2>3
    <3> DEFINE w == [run[x] EXCEPT !.batch = @ \ {r}]
    <3>2. w \in Busy /\ w.pc = "pick"
      BY <2>1, BusyPasses
    <3>3. run' = [run EXCEPT ![x] = w]
      BY <3>1
    <3> HIDE DEF w
    <3> QED BY <1>0, <1>a, <2>1, <3>2, <3>3, BusyIsRun, RunKept
  <2> QED BY <1>4, <2>2, <2>3 DEF Pick
<1> QED BY <1>1, <1>2, <1>3, <1>4

LEMMA Remembering ==
    ASSUME PromiseInv, NEW x \in Runs, At(x, "send")
    PROVE  Remembered(x) \in SUBSET Recipients /\ run[x].reached \in SUBSET Recipients
<1>1. run[x].reached \in SUBSET Recipients /\ run[x].who \in Recipients
  BY AtWork DEF At
<1> QED BY <1>1 DEF Remembered

\* The run goes on, or goes to deliver what it sent.
LEMMA GoesOn ==
    ASSUME PromiseInv, NEW x \in Runs, run[x].pc \in {"send", "deliver"},
           NEW reached \in SUBSET Recipients,
           \/ GoOn(x, reached)
           \/ run' = [run EXCEPT ![x].pc = "deliver", ![x].reached = reached]
    PROVE  \E w \in Run : /\ run' = [run EXCEPT ![x] = w]
                          /\ w.pc = "pick" \/ (w.pc = "deliver" /\ w.who \in Recipients)
<1>1. run[x] \in Busy /\ run[x].who \in Recipients
  BY AtWork
<1>2. CASE GoOn(x, reached)
  <2> DEFINE w == [run[x] EXCEPT !.pc = "pick", !.who = Nobody, !.reached = reached]
  <2>1. w \in Busy /\ w.pc = "pick"
    BY <1>1, BusyGoesOn
  <2>2. run' = [run EXCEPT ![x] = w]
    BY <1>2 DEF GoOn
  <2> HIDE DEF w
  <2> QED BY <2>1, <2>2, BusyIsRun
<1>3. CASE run' = [run EXCEPT ![x].pc = "deliver", ![x].reached = reached]
  <2> DEFINE w == [run[x] EXCEPT !.pc = "deliver", !.reached = reached]
  <2>1. w \in Busy /\ w.pc = "deliver" /\ w.who = run[x].who
    BY <1>1, BusyDelivers
  <2>2. run' = [run EXCEPT ![x] = w]
    BY <1>3
  <2> HIDE DEF w
  <2> QED BY <1>1, <2>1, <2>2, BusyIsRun
<1> QED BY <1>2, <1>3

LEMMA SettleInv ==
    ASSUME PromiseInv, NEW x \in Runs,
           SkipFirst(x) \/ SkipUnpaid(x) \/ SkipPaid(x) \/ SendOne(x) \/ RaceLost(x)
    PROVE  PromiseInv'
<1>0. /\ wallet \in Nat /\ template \in BOOLEAN /\ campaign \in Campaign
      /\ recipient \in [Recipients -> {"none", "pending", "sent", "skipped"}]
      /\ campaign.status = "completed" => \A r \in Recipients : recipient[r] # "pending"
  BY DEF PromiseInv
<1>1. At(x, "send") /\ run[x].pc = "send"
  BY DEF SkipFirst, SkipUnpaid, SkipPaid, SendOne, RaceLost, At
<1>2. campaign.status \in {"running", "completed"} /\ run[x].who \in Recipients
  BY <1>1, AtWork
<1>3. template' = template /\ campaign' = campaign
  BY DEF SkipFirst, SkipUnpaid, SkipPaid, SendOne, RaceLost, OnlySend
<1>4. wallet' \in Nat
  <2>1. CASE SendOne(x) \/ SkipPaid(x)
    <3>1. wallet >= Price /\ wallet' = wallet - Price
      BY <2>1 DEF SendOne, SkipPaid, Charge, Affordable
    <3> QED BY <1>0, <3>1, CreditsAssumption
  <2>2. CASE SkipFirst(x) \/ SkipUnpaid(x) \/ RaceLost(x)
    BY <1>0, <2>2 DEF SkipFirst, SkipUnpaid, RaceLost, credits
  <2> QED BY <2>1, <2>2
<1>5. /\ recipient' \in [Recipients -> {"none", "pending", "sent", "skipped"}]
      /\ \A q \in Recipients : recipient'[q] = "pending" => recipient[q] = "pending"
  <2>1. CASE RaceLost(x)
    BY <1>0, <2>1 DEF RaceLost
  <2>2. CASE SkipFirst(x) \/ SkipUnpaid(x) \/ SkipPaid(x)
    <3>1. Mark(run[x].who, "skipped")
      BY <2>2 DEF SkipFirst, SkipUnpaid, SkipPaid
    <3> QED BY <1>0, <1>2, <3>1, Marking
  <2>3. CASE SendOne(x)
    <3>1. Mark(run[x].who, "sent")
      BY <2>3 DEF SendOne
    <3> QED BY <1>0, <1>2, <3>1, Marking
  <2> QED BY <2>1, <2>2, <2>3
<1>6. PICK w \in Run : /\ run' = [run EXCEPT ![x] = w]
                       /\ w.pc = "pick" \/ (w.pc = "deliver" /\ w.who \in Recipients)
  <2>1. Remembered(x) \in SUBSET Recipients /\ run[x].reached \in SUBSET Recipients
    BY <1>1, Remembering
  <2>2. \/ GoOn(x, Remembered(x)) \/ GoOn(x, run[x].reached)
        \/ run' = [run EXCEPT ![x].pc = "deliver", ![x].reached = Remembered(x)]
    BY DEF SkipFirst, SkipUnpaid, SkipPaid, SendOne, RaceLost
  <2> QED BY <1>1, <2>1, <2>2, GoesOn
<1> QED BY <1>0, <1>2, <1>3, <1>4, <1>5, <1>6, RunKept

LEMMA EndInv ==
    ASSUME PromiseInv, NEW x \in Runs, Deliver(x) \/ DeliveryFails(x) \/ Finish(x) \/ Crash(x)
    PROVE  PromiseInv'
<1>0. /\ wallet \in Nat /\ template \in BOOLEAN /\ campaign \in Campaign
      /\ recipient \in [Recipients -> {"none", "pending", "sent", "skipped"}]
      /\ campaign.status = "completed" => \A r \in Recipients : recipient[r] # "pending"
  BY DEF PromiseInv
<1>a. UNCHANGED <<wallet, template, recipient>>
  BY DEF Deliver, DeliveryFails, Finish, Crash, OnlyRun, credits
<1>1. CASE Deliver(x) \/ DeliveryFails(x)
  <2>1. run[x].pc = "deliver" /\ GoOn(x, run[x].reached) /\ campaign' = campaign
    BY <1>1 DEF Deliver, DeliveryFails, At
  <2>2. run[x].reached \in SUBSET Recipients /\ campaign.status \in {"running", "completed"}
    BY <2>1, AtWork
  <2>3. PICK w \in Run : /\ run' = [run EXCEPT ![x] = w]
                         /\ w.pc = "pick" \/ (w.pc = "deliver" /\ w.who \in Recipients)
    BY <2>1, <2>2, GoesOn
  <2> QED BY <1>0, <1>a, <2>1, <2>2, <2>3, RunKept
<1>2. CASE Finish(x)
  <2>1. LET d == [campaign EXCEPT !.status = "completed"]
        IN  d \in Campaign /\ d.status = "completed"
    BY <1>0, Campaigning
  <2>2. /\ campaign' \in Campaign
        /\ \/ campaign' = campaign
           \/ /\ campaign'.status = "completed"
              /\ \A r \in Recipients : recipient[r] # "pending"
    <3>1. CASE Is("pending") = {} /\ campaign.status = "running"
      BY <1>2, <2>1, <3>1 DEF Finish, Is
    <3>2. CASE ~(Is("pending") = {} /\ campaign.status = "running")
      BY <1>0, <1>2, <3>2 DEF Finish
    <3> QED BY <3>1, <3>2
  <2>3. run' = [run EXCEPT ![x] = Idle]
    BY <1>2 DEF Finish, Stop
  <2> QED BY <1>0, <1>a, <2>2, <2>3, PlainRuns, RunKept
<1>3. CASE Crash(x)
  <2>1. run' = [run EXCEPT ![x] = Idle] /\ campaign' = campaign
    BY <1>3 DEF Crash, Stop
  <2> QED BY <1>0, <1>a, <2>1, PlainRuns, RunKept
<1> QED BY <1>1, <1>2, <1>3

LEMMA InvInit == ASSUME Init PROVE PromiseInv
<1>1. wallet \in Nat
  BY CreditsAssumption DEF Init, CreditsInit
<1>2. campaign \in Campaign /\ campaign.status = "draft"
  BY CampaignsAssumption DEF Init, CampaignInit, Campaign
<1>3. run \in [Runs -> Run] /\ \A x \in Runs : run[x] = Idle
  BY PlainRuns DEF Init, CampaignInit
<1>4. \A x \in Runs : Founded(run[x])
  BY <1>3, PlainRuns DEF Founded
<1>5. recipient \in [Recipients -> {"none", "pending", "sent", "skipped"}] /\ template = TRUE
  BY DEF Init, CampaignInit
<1> QED BY <1>1, <1>2, <1>3, <1>4, <1>5 DEF PromiseInv

LEMMA InvStep ==
    ASSUME PromiseInv, [Next]_vars
    PROVE  PromiseInv'
<1>0. /\ wallet \in Nat /\ template \in BOOLEAN /\ campaign \in Campaign
      /\ recipient \in [Recipients -> {"none", "pending", "sent", "skipped"}]
      /\ campaign.status = "completed" => \A r \in Recipients : recipient[r] # "pending"
  BY DEF PromiseInv
<1>1. CASE CreditsNext /\ UNCHANGED campaigns
  BY <1>0, <1>1, WalletStep, RunsStay DEF campaigns
<1>2. CASE Approve
  BY <1>0, <1>2, Campaigning, RunsStay DEF Approve, OnlyCampaign, credits
<1>3. CASE Archive
  BY <1>0, <1>3, RunsStay DEF Archive, credits
<1>4. CASE Schedule
  <2>1. campaign.status = "draft" /\ UNCHANGED <<wallet, template, run>>
    BY <1>4 DEF Schedule, credits
  <2>2. campaign' \in Campaign /\ campaign'.status = "scheduled"
    BY <1>0, <1>4, Campaigning DEF Schedule
  <2>3. recipient' \in [Recipients -> {"none", "pending", "sent", "skipped"}]
    BY <1>0, <1>4, Snapshot DEF Schedule
  <2> QED BY <1>0, <2>1, <2>2, <2>3, RunsStay
<1>5. CASE Cancel
  <2>1. /\ campaign.status \in {"draft", "scheduled"}
        /\ UNCHANGED <<wallet, template, run, recipient>>
    BY <1>5 DEF Cancel, Cancellable, OnlyCampaign, credits
  <2>2. campaign' \in Campaign /\ campaign'.status = "cancelled"
    BY <1>0, <1>5, Campaigning DEF Cancel
  <2> QED BY <1>0, <2>1, <2>2, RunsStay
<1>6. CASE \E x \in Runs : Execute(x) \/ Step(x) \/ Crash(x)
  BY <1>6, StartInv, BatchInv, SettleInv, EndInv DEF Step
<1>7. CASE UNCHANGED vars
  BY <1>0, <1>7, RunsStay DEF vars, campaigns, credits
<1> QED BY <1>1, <1>2, <1>3, <1>4, <1>5, <1>6, <1>7 DEF Next

---------------------------------------------------------------------------
(* A campaign keeps the promises of SendOnce *)

PhaseOf(status) ==
    CASE status \in {"draft", "scheduled"} -> "waiting"
      [] status \in {"cancelled", "failed"} -> "called_off"
      [] OTHER -> status

LEMMA PhaseIs == Phase = PhaseOf(campaign.status) /\ Phase' = PhaseOf(campaign'.status)
BY DEF Phase, PhaseOf

LEMMA PhasesAre ==
    /\ PhaseOf("draft") = "waiting" /\ PhaseOf("scheduled") = "waiting"
    /\ PhaseOf("cancelled") = "called_off" /\ PhaseOf("failed") = "called_off"
    /\ PhaseOf("running") = "running" /\ PhaseOf("completed") = "completed"
BY DEF PhaseOf

\* Nothing the promise speaks of changes.
LEMMA Stutter ==
    ASSUME campaign'.status = campaign.status, recipient' = recipient, wallet' = wallet
    PROVE  UNCHANGED Promise!vars
BY PhaseIs DEF Promise!vars

LEMMA SnapshotPromised ==
    ASSUME PromiseInv, SnapshotRecipients
    PROVE  \/ recipient' = recipient
           \/ (\A r \in Recipients : recipient[r] = "none") /\ Promise!DrawUp
<1>1. CASE recipient' = recipient
  BY <1>1
<1>2. CASE /\ \A r \in Recipients : recipient[r] = "none"
           /\ recipient' = [r \in Recipients |-> "pending"]
  <2>1. recipient' = [r \in Recipients |-> IF r \in Recipients THEN "pending" ELSE "none"]
    BY <1>2
  <2> QED BY <1>2, <2>1 DEF Promise!DrawUp
<1> QED BY <1>1, <1>2, Snapshot DEF PromiseInv

\* A recipient that is settled was pending, in a campaign that is running.
LEMMA SettlePromised ==
    ASSUME PromiseInv, NEW x \in Runs, At(x, "send"), recipient[run[x].who] = "pending",
           NEW status \in {"sent", "skipped"}, Mark(run[x].who, status), campaign' = campaign
    PROVE  Promise!Settle(run[x].who, status)
<1>1. campaign.status \in {"running", "completed"} /\ run[x].who \in Recipients
  BY AtWork DEF At
<1>2. campaign.status = "running"
  BY <1>1 DEF PromiseInv
<1>3. recipient' = [recipient EXCEPT ![run[x].who] = status]
  BY <1>1, Marking DEF PromiseInv
<1> QED BY <1>2, <1>3, PhaseIs, PhasesAre DEF Promise!Settle

LEMMA RunPromised ==
    ASSUME PromiseInv, NEW x \in Runs, Step(x)
    PROVE  [Promise!Next]_(Promise!vars)
<1>1. CASE GoLive(x)
  <2>1. campaign.status \in {"draft", "scheduled"}
    <3>1. run[x] \in Early
      BY <1>1, EarlyRun DEF GoLive, At, PromiseInv
    <3> QED BY <1>1, <3>1 DEF GoLive, Early
  <2>2. campaign'.status = "running" /\ wallet' = wallet /\ SnapshotRecipients
    BY <1>1, Campaigning DEF GoLive, PromiseInv, credits
  <2>3. Phase = "waiting" /\ Phase' = "running"
    BY <2>1, <2>2, PhaseIs, PhasesAre
  <2>4. Promise!Start
    BY <2>2, <2>3, SnapshotPromised DEF Promise!Start
  <2> QED BY <2>4 DEF Promise!Next
<1>2. CASE Fail(x)
  <2>1. wallet' = wallet /\ recipient' = recipient
    BY <1>2 DEF Fail, OnlyRun, credits
  <2>2. CASE campaign.status = run[x].from
    <3>1. run[x] \in Early
      BY <1>2, EarlyRun DEF Fail, At, PromiseInv
    <3>2. campaign.status \in {"draft", "scheduled"}
      BY <2>2, <3>1 DEF Early
    <3>3. campaign'.status = "failed"
      BY <1>2, <2>2, Campaigning DEF Fail, PromiseInv
    <3>4. Phase = "waiting" /\ Phase' = "called_off"
      BY <3>2, <3>3, PhaseIs, PhasesAre
    <3>5. Promise!CallOff
      BY <2>1, <3>4 DEF Promise!CallOff
    <3> QED BY <3>5 DEF Promise!Next
  <2>3. CASE campaign.status # run[x].from
    BY <1>2, <2>1, <2>3, Stutter DEF Fail
  <2> QED BY <2>2, <2>3
<1>3. CASE NotReady(x) \/ LoseRace(x) \/ Join(x) \/ List(x) \/ OpenGate(x)
           \/ GateUnread(x) \/ Pick(x) \/ RaceLost(x) \/ Deliver(x) \/ DeliveryFails(x)
  <2>1. campaign' = campaign /\ recipient' = recipient /\ wallet' = wallet
    BY <1>3 DEF NotReady, LoseRace, Join, List, OpenGate, GateUnread, Pick, RaceLost, Deliver,
                DeliveryFails, OnlyRun, OnlySend, credits
  <2> QED BY <2>1, Stutter
<1>4. CASE SkipFirst(x) \/ SkipUnpaid(x) \/ SkipPaid(x) \/ SendOne(x)
  <2> DEFINE r == run[x].who
  <2>1. At(x, "send") /\ campaign' = campaign /\ r \in Recipients
    BY <1>4, AtWork DEF SkipFirst, SkipUnpaid, SkipPaid, SendOne, OnlySend, At
  <2>2. CASE SendOne(x)
    <3>1. Promise!Settle(r, "sent")
      BY <2>1, <2>2, SettlePromised DEF SendOne
    <3>2. wallet >= Price /\ wallet' = wallet - Price
      BY <2>2 DEF SendOne, Charge, Affordable
    <3>3. Promise!Send(r)
      BY <2>2, <3>1, <3>2 DEF Promise!Send, Promise!Pay, SendOne
    <3> QED BY <2>1, <3>3 DEF Promise!Next
  <2>3. CASE SkipFirst(x) \/ SkipUnpaid(x)
    <3>1. Mark(r, "skipped") /\ wallet' = wallet
      BY <2>3 DEF SkipFirst, SkipUnpaid, credits
    <3>2. CASE recipient[r] = "pending"
      <4>1. Promise!Skip(r)
        BY <2>1, <3>1, <3>2, SettlePromised DEF Promise!Skip
      <4> QED BY <2>1, <4>1 DEF Promise!Next
    <3>3. CASE recipient[r] # "pending"
      BY <2>1, <3>1, <3>3, Marking, Stutter DEF PromiseInv
    <3> QED BY <3>2, <3>3
  <2>4. CASE SkipPaid(x)
    <3>1. Mark(r, "skipped") /\ r \in Incomplete /\ wallet >= Price /\ wallet' = wallet - Price
      BY <2>4 DEF SkipPaid, Charge, Affordable
    <3>2. CASE recipient[r] = "pending"
      <4>1. Promise!Settle(r, "skipped")
        BY <2>1, <3>1, <3>2, SettlePromised
      <4> QED BY <2>1, <3>1, <4>1 DEF Promise!Waste, Promise!Pay, Promise!Next
    <3>3. CASE recipient[r] # "pending"
      <4>1. recipient' = recipient
        BY <2>1, <3>1, <3>3, Marking DEF PromiseInv
      <4>2. Phase \in {"running", "completed"} /\ Phase' = Phase
        <5>1. campaign.status \in {"running", "completed"}
          BY <2>1, AtWork DEF At
        <5> QED BY <2>1, <5>1, PhaseIs, PhasesAre
      <4>3. Promise!Waste(r)
        BY <3>1, <3>3, <4>1, <4>2 DEF Promise!Waste, Promise!Pay
      <4> QED BY <2>1, <4>3 DEF Promise!Next
    <3> QED BY <3>2, <3>3
  <2> QED BY <1>4, <2>2, <2>3, <2>4
<1>5. CASE Finish(x)
  <2>1. wallet' = wallet /\ recipient' = recipient
    BY <1>5 DEF Finish, OnlyRun, credits
  <2>2. CASE Is("pending") = {} /\ campaign.status = "running"
    <3>1. campaign'.status = "completed"
      BY <1>5, <2>2, Campaigning DEF Finish, PromiseInv
    <3>2. \A r \in Recipients : recipient[r] # "pending"
      BY <2>2 DEF Is
    <3>3. Promise!Complete
      BY <2>1, <2>2, <3>1, <3>2, PhaseIs, PhasesAre DEF Promise!Complete
    <3> QED BY <3>3 DEF Promise!Next
  <2>3. CASE ~(Is("pending") = {} /\ campaign.status = "running")
    BY <1>5, <2>1, <2>3, Stutter DEF Finish
  <2> QED BY <2>2, <2>3
<1> QED BY <1>1, <1>2, <1>3, <1>4, <1>5 DEF Step

LEMMA StepPromised ==
    ASSUME PromiseInv, [Next]_vars
    PROVE  [Promise!Next]_(Promise!vars)
<1>1. CASE CreditsNext /\ UNCHANGED campaigns
  <2>1. wallet' = wallet \/ wallet' > wallet
    BY <1>1, WalletStep DEF PromiseInv
  <2>2. campaign' = campaign /\ recipient' = recipient
    BY <1>1 DEF campaigns
  <2>3. CASE wallet' = wallet
    BY <2>2, <2>3, Stutter
  <2>4. CASE wallet' > wallet
    BY <2>2, <2>4, PhaseIs DEF Promise!Recharge, Promise!Next
  <2> QED BY <2>1, <2>3, <2>4
<1>2. CASE Approve \/ Archive
  <2>1. campaign'.status = campaign.status
    <3>1. CASE Approve
      BY <3>1, Campaigning DEF Approve, PromiseInv
    <3>2. CASE Archive
      BY <3>2 DEF Archive
    <3> QED BY <1>2, <3>1, <3>2
  <2>2. recipient' = recipient /\ wallet' = wallet
    BY <1>2 DEF Approve, Archive, OnlyCampaign, credits
  <2> QED BY <2>1, <2>2, Stutter
<1>3. CASE Schedule
  <2>1. campaign.status = "draft" /\ campaign'.status = "scheduled"
    BY <1>3, Campaigning DEF Schedule, PromiseInv
  <2>2. wallet' = wallet /\ SnapshotRecipients
    BY <1>3 DEF Schedule, credits
  <2>3. Phase = "waiting" /\ Phase' = "waiting"
    BY <2>1, PhaseIs, PhasesAre
  <2>4. CASE recipient' = recipient
    BY <2>2, <2>3, <2>4 DEF Promise!vars
  <2>5. CASE (\A r \in Recipients : recipient[r] = "none") /\ Promise!DrawUp
    BY <2>2, <2>3, <2>5 DEF Promise!Schedule, Promise!Next
  <2> QED BY <2>2, <2>4, <2>5, SnapshotPromised
<1>4. CASE Cancel
  <2>1. campaign.status \in {"draft", "scheduled"} /\ campaign'.status = "cancelled"
    BY <1>4, Campaigning DEF Cancel, Cancellable, PromiseInv
  <2>2. recipient' = recipient /\ wallet' = wallet
    BY <1>4 DEF Cancel, OnlyCampaign, credits
  <2>3. Phase = "waiting" /\ Phase' = "called_off"
    BY <2>1, PhaseIs, PhasesAre
  <2> QED BY <2>2, <2>3 DEF Promise!CallOff, Promise!Next
<1>5. CASE \E x \in Runs : Execute(x) \/ Crash(x)
  <2>1. campaign' = campaign /\ recipient' = recipient /\ wallet' = wallet
    BY <1>5 DEF Execute, Crash, OnlyRun, credits
  <2> QED BY <2>1, Stutter
<1>6. CASE \E x \in Runs : Step(x)
  BY <1>6, RunPromised
<1>7. CASE UNCHANGED vars
  BY <1>7, Stutter DEF vars, campaigns, credits
<1> QED BY <1>1, <1>2, <1>3, <1>4, <1>5, <1>6, <1>7 DEF Next

\* However many execute calls overlap, die or find the template archived, a
\* campaign settles each recipient once, only while it runs, takes the price
\* of a message in the step that sends it, loses money only on a recipient
\* whose conversation is incomplete, and completes with nobody waiting.
THEOREM CampaignKeepsPromise == Spec => RefinesSendOnce
<1>1. ASSUME Init PROVE Promise!Init
  <2>1. campaign.status = "draft"
    BY <1>1 DEF Init, CampaignInit
  <2>2. Phase = "waiting"
    BY <2>1, PhaseIs, PhasesAre
  <2>3. wallet \in Nat /\ recipient = [r \in Recipients |-> "none"]
    BY <1>1, CreditsAssumption DEF Init, CreditsInit, CampaignInit
  <2> QED BY <2>2, <2>3 DEF Promise!Init
<1>2. Init => PromiseInv
  BY InvInit
<1>3. PromiseInv /\ [Next]_vars => PromiseInv'
  BY InvStep
<1>4. PromiseInv /\ [Next]_vars => [Promise!Next]_(Promise!vars)
  BY StepPromised
<1> QED BY <1>1, <1>2, <1>3, <1>4, PTL DEF Spec, RefinesSendOnce, Promise!Spec

---------------------------------------------------------------------------
(* The throughput of the business *)

\* Every marketing message that was sent took one of the hour's slots.
SlotsInv ==
    /\ slots \in Nat
    /\ Marketing => Cardinality(Sent) <= slots /\ slots <= ThroughputCap

LEMMA SlotsKept ==
    ASSUME SlotsInv, Sent' = Sent, campaign'.category = campaign.category,
           \/ slots' = slots
           \/ TakeSlot /\ SlotFree
    PROVE  SlotsInv'
<1>1. slots \in Nat /\ ThroughputCap \in Nat
  BY CampaignsAssumption DEF SlotsInv
<1>2. Marketing' = Marketing
  BY DEF Marketing
<1>3. CASE slots' = slots
  BY <1>1, <1>2, <1>3 DEF SlotsInv
<1>4. CASE TakeSlot /\ SlotFree
  <2>1. CASE Marketing
    <3>1. slots' = slots + 1 /\ slots < ThroughputCap
      BY <1>4, <2>1 DEF TakeSlot, SlotFree
    <3>2. Cardinality(Sent) <= slots /\ Cardinality(Sent) \in Nat
      BY <2>1, FS_CardinalityType, FS_Subset, CampaignsAssumption DEF SlotsInv, Sent, Is
    <3> QED BY <1>1, <1>2, <3>1, <3>2 DEF SlotsInv
  <2>2. CASE ~Marketing
    BY <1>1, <1>2, <1>4, <2>2 DEF SlotsInv, TakeSlot
  <2> QED BY <2>1, <2>2
<1> QED BY <1>3, <1>4

LEMMA SlotsRun ==
    ASSUME PromiseInv, SlotsInv, NEW x \in Runs, Step(x)
    PROVE  SlotsInv'
<1>0. /\ campaign \in Campaign
      /\ recipient \in [Recipients -> {"none", "pending", "sent", "skipped"}]
  BY DEF PromiseInv
<1>1. CASE GoLive(x)
  <2>1. Sent' = Sent
    BY <1>0, <1>1, Snapshot DEF GoLive, Sent, Is
  <2>2. campaign'.category = campaign.category
    BY <1>0, <1>1, Campaigning DEF GoLive
  <2> QED BY <1>1, <2>1, <2>2, SlotsKept DEF GoLive
<1>2. CASE Fail(x) \/ Finish(x)
  <2>1. recipient' = recipient /\ slots' = slots
    BY <1>2 DEF Fail, Finish, OnlyRun
  <2>2. campaign'.category = campaign.category
    <3>1. CASE Fail(x)
      BY <1>0, <3>1, Campaigning DEF Fail
    <3>2. CASE Finish(x)
      BY <1>0, <3>2, Campaigning DEF Finish
    <3> QED BY <1>2, <3>1, <3>2
  <2> QED BY <2>1, <2>2, SlotsKept DEF Sent, Is
<1>3. CASE NotReady(x) \/ LoseRace(x) \/ Join(x) \/ List(x) \/ OpenGate(x)
           \/ GateUnread(x) \/ Pick(x) \/ RaceLost(x) \/ Deliver(x) \/ DeliveryFails(x)
  <2>1. campaign' = campaign /\ recipient' = recipient /\ slots' = slots
    BY <1>3 DEF NotReady, LoseRace, Join, List, OpenGate, GateUnread, Pick, RaceLost, Deliver,
                DeliveryFails, OnlyRun, OnlySend
  <2> QED BY <2>1, SlotsKept DEF Sent, Is
<1>4. CASE SkipFirst(x) \/ SkipUnpaid(x) \/ SkipPaid(x)
  <2>1. /\ run[x].who \in Recipients /\ Mark(run[x].who, "skipped") /\ campaign' = campaign
        /\ slots' = slots \/ (TakeSlot /\ SlotFree)
    BY <1>4, AtWork DEF SkipFirst, SkipUnpaid, SkipPaid, OnlySend, At
  <2>2. Sent' = Sent
    BY <1>0, <2>1, Marking DEF Sent, Is
  <2> QED BY <2>1, <2>2, SlotsKept
<1>5. CASE SendOne(x)
  <2> DEFINE r == run[x].who
  <2>1. /\ r \in Recipients /\ Mark(r, "sent") /\ recipient[r] = "pending"
        /\ campaign' = campaign /\ TakeSlot /\ SlotFree
    BY <1>5, AtWork DEF SendOne, OnlySend, At
  <2>2. Sent' = Sent \cup {r} /\ r \notin Sent
    BY <1>0, <2>1, Marking DEF Sent, Is
  <2>3. IsFiniteSet(Sent)
    BY FS_Subset, CampaignsAssumption DEF Sent, Is
  <2>4. Cardinality(Sent') = Cardinality(Sent) + 1 /\ Cardinality(Sent) \in Nat
    BY <2>2, <2>3, FS_AddElement, FS_CardinalityType
  <2>5. slots \in Nat /\ ThroughputCap \in Nat /\ Marketing' = Marketing
    BY <2>1, CampaignsAssumption DEF SlotsInv, Marketing
  <2>6. CASE Marketing
    BY <2>1, <2>4, <2>5, <2>6 DEF SlotsInv, TakeSlot, SlotFree
  <2>7. CASE ~Marketing
    BY <2>1, <2>5, <2>7 DEF SlotsInv, TakeSlot
  <2> QED BY <2>6, <2>7
<1> QED BY <1>1, <1>2, <1>3, <1>4, <1>5 DEF Step

LEMMA SlotsStep ==
    ASSUME PromiseInv, SlotsInv, [Next]_vars
    PROVE  SlotsInv'
<1>1. CASE CreditsNext /\ UNCHANGED campaigns
  BY <1>1, SlotsKept DEF campaigns, Sent, Is
<1>2. CASE Approve \/ Cancel
  <2>1. campaign'.category = campaign.category
    <3>1. CASE Approve
      BY <3>1, Campaigning DEF Approve, PromiseInv
    <3>2. CASE Cancel
      BY <3>2, Campaigning DEF Cancel, PromiseInv
    <3> QED BY <1>2, <3>1, <3>2
  <2> QED BY <1>2, <2>1, SlotsKept DEF Approve, Cancel, OnlyCampaign, Sent, Is
<1>3. CASE Archive
  BY <1>3, SlotsKept DEF Archive, Sent, Is
<1>4. CASE Schedule
  <2>1. campaign'.category = campaign.category
    BY <1>4, Campaigning DEF Schedule, PromiseInv
  <2>2. Sent' = Sent
    BY <1>4, Snapshot DEF Schedule, PromiseInv, Sent, Is
  <2> QED BY <1>4, <2>1, <2>2, SlotsKept DEF Schedule
<1>5. CASE \E x \in Runs : Execute(x) \/ Crash(x)
  BY <1>5, SlotsKept DEF Execute, Crash, OnlyRun, Sent, Is
<1>6. CASE \E x \in Runs : Step(x)
  BY <1>6, SlotsRun
<1>7. CASE UNCHANGED vars
  BY <1>7, SlotsKept DEF vars, campaigns, Sent, Is
<1> QED BY <1>1, <1>2, <1>3, <1>4, <1>5, <1>6, <1>7 DEF Next

\* Any number of overlapping runs together send no more marketing messages
\* than the hour has slots.
THEOREM ThroughputIsKept == Spec => []ThroughputKept
<1>1. ASSUME Init PROVE PromiseInv /\ SlotsInv
  <2>1. Sent = {} /\ slots = 0
    BY <1>1 DEF Init, CampaignInit, Sent, Is
  <2>2. Cardinality(Sent) = 0 /\ ThroughputCap \in Nat
    BY <2>1, FS_EmptySet, CampaignsAssumption
  <2> QED BY <1>1, <2>1, <2>2, InvInit DEF SlotsInv
<1>2. PromiseInv /\ SlotsInv /\ [Next]_vars => (PromiseInv /\ SlotsInv)'
  BY InvStep, SlotsStep
<1>3. SlotsInv => ThroughputKept
  <2>1. Cardinality(Sent) \in Nat /\ ThroughputCap \in Nat
    BY FS_CardinalityType, FS_Subset, CampaignsAssumption DEF Sent, Is
  <2> QED BY <2>1 DEF SlotsInv, ThroughputKept
<1> QED BY <1>1, <1>2, <1>3, PTL DEF Spec

---------------------------------------------------------------------------
(* What was sent is delivered, and the daily limit *)

Working_pc == {"gate", "pick", "send", "deliver"}

\* Before a run works a recipient off it has a gate, whose memory covers what
\* was sent, and that memory stays within the limit.
Gated(w) ==
    /\ w.pc \in {"send", "deliver"} \/ (w.pc = "pick" /\ w.batch # {}) => w.gated
    /\ w.gated => Sent \subseteq w.reached /\ Cardinality(w.reached) <= DailyLimit

Trusted == ~past.overlapped /\ past.unread = 0

\* While runs do not overlap, and every gate can be read, one run works at a time.
LimitInv ==
    Trusted => /\ Cardinality(Sent) <= DailyLimit
               /\ \A x, y \in Working : x = y
               /\ \A x \in Working : Gated(run[x])

SendInv == PromiseInv /\ past \in Past /\ SentIsDelivered /\ LimitInv

LEMMA Finite ==
    ASSUME NEW S, S \subseteq Recipients \/ S \subseteq Runs
    PROVE  IsFiniteSet(S) /\ Cardinality(S) \in Nat
BY FS_Subset, FS_CardinalityType, CampaignsAssumption

\* The past of a run that loses no message.
Onward(p, q) ==
    /\ q \in Past /\ q.lost = p.lost /\ q.unread >= p.unread
    /\ p.overlapped => q.overlapped

LEMMA Overlapping ==
    ASSUME NEW p \in Past
    PROVE  LET q == [p EXCEPT !.overlapped = @ \/ Working # {}]
           IN  /\ q \in Past /\ q.unread = p.unread /\ q.lost = p.lost
               /\ q.overlapped = (p.overlapped \/ Working # {})
<1> DEFINE o == p.overlapped \/ Working # {}
<1>1. o \in BOOLEAN
  OBVIOUS
<1> HIDE DEF o
<1>2. LET q == [p EXCEPT !.overlapped = o]
      IN  q \in Past /\ q.unread = p.unread /\ q.lost = p.lost /\ q.overlapped = o
  BY <1>1 DEF Past
<1> QED BY <1>2 DEF o

\* The run x becomes w, which sends and delivers nothing.
Plainly(x, w) ==
    /\ w \in Run /\ w.pc # "deliver" /\ run[x].pc # "deliver"
    /\ run' = [run EXCEPT ![x] = w]
    /\ Sent' = Sent /\ delivered' = delivered /\ Onward(past, past')
    /\ (Trusted' /\ w.pc \in Working_pc) =>
          /\ x \in Working \/ Working = {}
          /\ Gated(w)

LEMMA PlainRunKept ==
    ASSUME SendInv, PromiseInv', NEW x \in Runs, NEW w, Plainly(x, w)
    PROVE  SendInv'
<1>1. run'[x] = w /\ \A y \in Runs : y # x => run'[y] = run[y]
  BY DEF SendInv, PromiseInv, Plainly
<1>2. Delivering' = Delivering
  BY <1>1 DEF Delivering, At, Plainly
<1>3. past' \in Past /\ past'.lost = past.lost /\ (Trusted' => Trusted)
  BY DEF Plainly, Onward, Trusted, SendInv, Past
<1>4. SentIsDelivered'
  <2>1. \A y \in Delivering : run'[y] = run[y]
    BY <1>1 DEF Delivering, At, Plainly
  <2>2. InHand' = InHand
    BY <1>2, <2>1 DEF InHand
  <2> QED BY <1>2, <1>3, <2>1, <2>2 DEF SendInv, SentIsDelivered, Plainly
<1>5. LimitInv'
  <2> SUFFICES ASSUME Trusted' PROVE /\ Cardinality(Sent') <= DailyLimit
                                     /\ \A y, z \in Working' : y = z
                                     /\ \A y \in Working' : Gated(run[y])'
    BY DEF LimitInv
  <2>1. Cardinality(Sent') <= DailyLimit
    BY <1>3 DEF SendInv, LimitInv, Plainly
  <2>2. \A y \in Working' : y # x => y \in Working
    BY <1>1 DEF Working
  <2>3. x \in Working' => /\ x \in Working \/ Working = {}
                          /\ Gated(w)
    BY <1>1 DEF Working, Plainly, Working_pc
  <2>4. \A y, z \in Working' : y = z
    BY <1>3, <2>2, <2>3 DEF SendInv, LimitInv
  <2>5. ASSUME NEW y \in Working' PROVE Gated(run[y])'
    <3>1. y \in Runs
      BY DEF Working
    <3>2. CASE y = x
      BY <1>1, <2>3, <3>2 DEF Gated, Plainly
    <3>3. CASE y # x
      <4>1. run'[y] = run[y] /\ Gated(run[y])
        BY <1>1, <1>3, <2>2, <3>1, <3>3 DEF SendInv, LimitInv
      <4> QED BY <4>1 DEF Gated, Plainly
    <3> QED BY <3>2, <3>3
  <2> QED BY <2>1, <2>4, <2>5
<1> QED BY <1>3, <1>4, <1>5 DEF SendInv

LEMMA EarlySends ==
    ASSUME SendInv, NEW x \in Runs,
           \/ Execute(x) \/ GoLive(x) \/ NotReady(x) \/ Fail(x) \/ LoseRace(x) \/ Join(x)
    PROVE  \E w : Plainly(x, w)
<1>0. PromiseInv /\ past \in Past
  BY DEF SendInv
<1>1. Sent' = Sent
  <2>1. CASE GoLive(x)
    BY <1>0, <2>1, Snapshot DEF GoLive, Sent, Is, PromiseInv
  <2>2. CASE ~GoLive(x)
    BY <2>2 DEF Execute, NotReady, Fail, LoseRace, Join, OnlyRun, Sent, Is
  <2> QED BY <2>1, <2>2
<1>2. delivered' = delivered /\ past' = past
  BY DEF Execute, GoLive, NotReady, Fail, LoseRace, Join, OnlyRun
<1>3. Onward(past, past')
  BY <1>0, <1>2 DEF Onward, Past
<1>4. PICK w \in Run : /\ run' = [run EXCEPT ![x] = w]
                       /\ w.pc \in {"live", "list", "lost", "fail", "idle"}
  <2>1. CASE run' = [run EXCEPT ![x] = [pc |-> "live", from |-> campaign.status]]
             /\ campaign.status \in {"draft", "scheduled"}
    <3>1. [pc |-> "live", from |-> campaign.status] \in Early
      BY <2>1 DEF Early
    <3> QED BY <2>1, <3>1 DEF Early, Run
  <2>2. CASE ListNext(x) \/ Stop(x)
    BY <2>2, PlainRuns DEF ListNext, Stop
  <2>3. CASE NotReady(x) \/ LoseRace(x)
    <3>1. PICK pc \in {"lost", "fail"} : Go(x, pc) /\ run[x].pc = "live"
      BY <2>3 DEF NotReady, LoseRace, At
    <3> DEFINE w == [run[x] EXCEPT !.pc = pc]
    <3>2. w \in Run /\ w.pc = pc
      BY <1>0, <3>1, EarlyRun, EarlyGoes DEF PromiseInv
    <3>3. run' = [run EXCEPT ![x] = w]
      BY <3>1 DEF Go
    <3> HIDE DEF w
    <3> QED BY <3>2, <3>3
  <2> QED BY <2>1, <2>2, <2>3 DEF Execute, GoLive, Fail, Join
<1>5. run[x].pc # "deliver"
  BY PlainRuns DEF Execute, GoLive, NotReady, Fail, LoseRace, Join, At
<1> QED BY <1>1, <1>2, <1>3, <1>4, <1>5 DEF Plainly, Working_pc

LEMMA BatchSends ==
    ASSUME SendInv, NEW x \in Runs, List(x) \/ OpenGate(x) \/ GateUnread(x) \/ Pick(x)
    PROVE  \E w : Plainly(x, w)
<1>0. PromiseInv /\ past \in Past
  BY DEF SendInv
<1>a. Sent' = Sent /\ delivered' = delivered /\ campaign' = campaign
  BY DEF List, OpenGate, GateUnread, Pick, OnlyRun, Sent, Is
<1>1. CASE List(x)
  <2>1. PICK B \in Batches :
          run' = [run EXCEPT ![x] =
                    [pc |-> IF B = {} THEN "pick" ELSE "gate", batch |-> B,
                     usable |-> template, gated |-> FALSE,
                     reached |-> {}, who |-> Nobody]]
    BY <1>1 DEF List
  <2> DEFINE w == [pc |-> IF B = {} THEN "pick" ELSE "gate", batch |-> B,
                   usable |-> template, gated |-> FALSE, reached |-> {}, who |-> Nobody]
  <2>2. B \subseteq Recipients /\ template \in BOOLEAN
    BY <1>0, BatchOfPending DEF Is, PromiseInv
  <2>3. /\ w \in Busy /\ w.pc \in {"pick", "gate"} /\ ~w.gated
        /\ w.pc = "pick" => w.batch = {}
    BY <2>2 DEF Busy
  <2>4. run' = [run EXCEPT ![x] = w]
    BY <2>1
  <2> HIDE DEF w
  <2>5. past' = [past EXCEPT !.overlapped = @ \/ Working # {}] /\ run[x].pc = "list"
    BY <1>1 DEF List, At
  <2>6. Onward(past, past') /\ (Trusted' => Working = {})
    <3>1. past.unread \in Nat /\ past.overlapped \in BOOLEAN
      BY <1>0 DEF Past
    <3>2. /\ past'.unread = past.unread /\ past'.lost = past.lost
          /\ past'.overlapped = (past.overlapped \/ Working # {})
          /\ past' \in Past
      BY <1>0, <2>5, Overlapping
    <3>3. past'.unread >= past.unread
      BY <3>1, <3>2
    <3>4. /\ past.overlapped => past'.overlapped
          /\ ~past'.overlapped => Working = {}
      BY <3>2, Zenon
    <3> QED BY <3>2, <3>3, <3>4, Zenon DEF Onward, Trusted
  <2>7. w \in Run /\ Gated(w) /\ w.pc # "deliver"
    BY <2>3, BusyIsRun DEF Gated
  <2> QED BY <1>a, <2>4, <2>5, <2>6, <2>7 DEF Plainly
<1>2. CASE OpenGate(x)
  <2> DEFINE w == [run[x] EXCEPT !.pc = "pick", !.gated = TRUE, !.reached = Reached]
  <2>1. Reached = Sent /\ Reached \in SUBSET Recipients
    BY DEF Reached, Sent, Is
  <2>2. run[x] \in Busy /\ run[x].pc = "gate"
    BY <1>0, <1>2, AtWork DEF OpenGate, At
  <2>3. w \in Busy /\ w.pc = "pick" /\ w.gated /\ w.reached = Reached
    BY <2>1, <2>2, BusyReaches
  <2>4. run' = [run EXCEPT ![x] = w] /\ past' = past
    BY <1>2 DEF OpenGate
  <2> HIDE DEF w
  <2>5. Onward(past, past') /\ x \in Working
    BY <1>0, <2>2, <2>4 DEF Onward, Past, Working
  <2>6. Trusted' => Gated(w)
    BY <2>1, <2>3, <2>4 DEF SendInv, LimitInv, Gated, Trusted
  <2> QED BY <1>a, <2>2, <2>3, <2>4, <2>5, <2>6, BusyIsRun DEF Plainly
<1>3. CASE GateUnread(x)
  <2> DEFINE w == [run[x] EXCEPT !.pc = "pick"]
  <2>1. run[x] \in Busy /\ run[x].pc = "gate"
    BY <1>0, <1>3, AtWork DEF GateUnread, At
  <2>2. w \in Busy /\ w.pc = "pick"
    BY <2>1, BusyGoes
  <2>3. run' = [run EXCEPT ![x] = w] /\ past' = [past EXCEPT !.unread = @ + 1]
    BY <1>3 DEF GateUnread, Go
  <2> HIDE DEF w
  <2>4. Onward(past, past') /\ ~Trusted'
    BY <1>0, <2>3 DEF Onward, Past, Trusted
  <2> QED BY <1>a, <2>1, <2>2, <2>3, <2>4, BusyIsRun DEF Plainly
<1>4. CASE Pick(x)
  <2>1. /\ run[x] \in Busy /\ run[x].pc = "pick" /\ past' = past
        /\ x \in Working
    BY <1>0, <1>4, AtWork DEF Pick, At, Working
  <2>2. Onward(past, past') /\ (Trusted' => Trusted)
    BY <1>0, <2>1 DEF Onward, Past, Trusted
  <2>3. PICK r \in run[x].batch :
          \/ run' = [run EXCEPT ![x] =
                       [run[x] EXCEPT !.batch = @ \ {r}, !.who = r, !.pc = "send"]]
          \/ run' = [run EXCEPT ![x] = [run[x] EXCEPT !.batch = @ \ {r}]]
    BY <1>4 DEF Pick
  <2>4. Trusted' => /\ run[x].gated
                    /\ Sent \subseteq run[x].reached
                    /\ Cardinality(run[x].reached) <= DailyLimit
    BY <2>1, <2>2, <2>3 DEF SendInv, LimitInv, Gated
  <2>5. CASE run' = [run EXCEPT ![x] =
                       [run[x] EXCEPT !.batch = @ \ {r}, !.who = r, !.pc = "send"]]
    <3> DEFINE w == [run[x] EXCEPT !.batch = @ \ {r}, !.who = r, !.pc = "send"]
    <3>1. /\ w \in Busy /\ w.pc = "send" /\ w.gated = run[x].gated
          /\ w.reached = run[x].reached
      BY <2>1, BusyPicks
    <3>2. run' = [run EXCEPT ![x] = w]
      BY <2>5
    <3> HIDE DEF w
    <3> QED BY <1>a, <2>1, <2>2, <2>4, <3>1, <3>2, BusyIsRun DEF Plainly, Gated
  <2>6. CASE run' = [run EXCEPT ![x] = [run[x] EXCEPT !.batch = @ \ {r}]]
    <3> DEFINE w == [run[x] EXCEPT !.batch = @ \ {r}]
    <3>1. /\ w \in Busy /\ w.pc = "pick" /\ w.gated = run[x].gated
          /\ w.reached = run[x].reached
      BY <2>1, BusyPasses
    <3>2. run' = [run EXCEPT ![x] = w]
      BY <2>6
    <3> HIDE DEF w
    <3> QED BY <1>a, <2>1, <2>2, <2>4, <3>1, <3>2, BusyIsRun DEF Plainly, Gated
  <2> QED BY <2>3, <2>5, <2>6
<1> QED BY <1>1, <1>2, <1>3, <1>4

\* What a run remembers of a recipient its gate let through stays within the limit.
LEMMA MemoryKept ==
    ASSUME SendInv, NEW x \in Runs, At(x, "send"), Trusted
    PROVE  /\ x \in Working /\ run[x].gated /\ Sent \subseteq run[x].reached
           /\ Cardinality(run[x].reached) <= DailyLimit
           /\ Allows(x) => /\ Sent \cup {run[x].who} \subseteq Remembered(x)
                           /\ Cardinality(Remembered(x)) <= DailyLimit
<1>1. /\ run[x] \in Busy /\ run[x].reached \in SUBSET Recipients
      /\ run[x].who \in Recipients
  BY AtWork DEF SendInv, At
<1>2. x \in Working
  BY DEF Working, At
<1>3. run[x].gated /\ Sent \subseteq run[x].reached /\ Cardinality(run[x].reached) <= DailyLimit
  BY <1>2 DEF SendInv, LimitInv, Gated, At
<1>4. ASSUME Allows(x)
      PROVE  /\ Sent \cup {run[x].who} \subseteq Remembered(x)
             /\ Cardinality(Remembered(x)) <= DailyLimit
  <2>1. Remembered(x) = run[x].reached \cup {run[x].who}
    BY <1>3 DEF Remembered
  <2>2. CASE run[x].who \in run[x].reached
    <3>1. Remembered(x) = run[x].reached
      BY <2>1, <2>2
    <3> QED BY <1>3, <2>2, <3>1
  <2>3. CASE run[x].who \notin run[x].reached
    <3>1. Cardinality(run[x].reached) < DailyLimit
      BY <1>3, <1>4, <2>3 DEF Allows
    <3>2. Cardinality(Remembered(x)) = Cardinality(run[x].reached) + 1
      BY <1>1, <2>1, <2>3, Finite, FS_AddElement
    <3>3. Cardinality(run[x].reached) \in Nat /\ DailyLimit \in Nat
      BY <1>1, Finite, CampaignsAssumption
    <3> QED BY <1>3, <2>1, <3>1, <3>2, <3>3
  <2> QED BY <2>2, <2>3
<1> QED BY <1>2, <1>3, <1>4

LEMMA GoingOn ==
    ASSUME PromiseInv, NEW x \in Runs, run[x].pc \in {"send", "deliver"},
           NEW reached \in SUBSET Recipients, GoOn(x, reached)
    PROVE  \E w \in Busy : /\ run' = [run EXCEPT ![x] = w] /\ w.pc = "pick"
                           /\ w.gated = run[x].gated /\ w.reached = reached
<1> DEFINE w == [run[x] EXCEPT !.pc = "pick", !.who = Nobody, !.reached = reached]
<1>1. w \in Busy /\ w.pc = "pick" /\ w.gated = run[x].gated /\ w.reached = reached
  BY ZenonT(30), AtWork, BusyGoesOn
<1>2. run' = [run EXCEPT ![x] = w]
  BY DEF GoOn
<1> HIDE DEF w
<1> QED BY <1>1, <1>2

LEMMA SkipSends ==
    ASSUME SendInv, NEW x \in Runs, SkipFirst(x) \/ SkipUnpaid(x) \/ SkipPaid(x) \/ RaceLost(x)
    PROVE  \E w : Plainly(x, w)
<1>0. PromiseInv /\ past \in Past /\ At(x, "send") /\ run[x].pc = "send"
  BY DEF SendInv, SkipFirst, SkipUnpaid, SkipPaid, RaceLost, At
<1>1. delivered' = delivered /\ past' = past
  BY DEF SkipFirst, SkipUnpaid, SkipPaid, RaceLost, OnlySend
<1>2. Onward(past, past') /\ (Trusted' => Trusted)
  BY <1>0, <1>1 DEF Onward, Past, Trusted
<1>3. Sent' = Sent
  <2>1. CASE RaceLost(x)
    BY <2>1 DEF RaceLost, Sent, Is
  <2>2. CASE SkipFirst(x) \/ SkipUnpaid(x) \/ SkipPaid(x)
    <3>1. Mark(run[x].who, "skipped") /\ run[x].who \in Recipients
      BY <1>0, <2>2, AtWork DEF SkipFirst, SkipUnpaid, SkipPaid
    <3> QED BY <1>0, <3>1, Marking DEF Sent, Is, PromiseInv
  <2> QED BY <2>1, <2>2
<1>4. PICK reached \in {run[x].reached, Remembered(x)} :
         /\ GoOn(x, reached)
         /\ reached = run[x].reached \/ Allows(x)
  BY DEF SkipFirst, SkipUnpaid, SkipPaid, RaceLost
<1>5. reached \in SUBSET Recipients
  BY <1>0, Remembering
<1>6. PICK w \in Busy : /\ run' = [run EXCEPT ![x] = w] /\ w.pc = "pick"
                        /\ w.gated = run[x].gated /\ w.reached = reached
  BY <1>0, <1>4, <1>5, GoingOn
<1>7. Trusted' => x \in Working /\ Gated(w)
  <2> SUFFICES ASSUME Trusted PROVE x \in Working /\ Gated(w)
    BY <1>2
  <2>1. /\ x \in Working /\ run[x].gated /\ Sent \subseteq reached
        /\ Cardinality(reached) <= DailyLimit
    BY <1>0, <1>4, MemoryKept
  <2> QED BY <1>6, <2>1 DEF Gated
<1> QED BY <1>0, <1>1, <1>2, <1>3, <1>6, <1>7, BusyIsRun DEF Plainly

LEMMA FinishSends ==
    ASSUME SendInv, NEW x \in Runs, Finish(x)
    PROVE  \E w : Plainly(x, w)
<1>1. /\ run' = [run EXCEPT ![x] = Idle] /\ past' = past /\ Sent' = Sent
      /\ delivered' = delivered /\ run[x].pc = "pick"
  BY DEF Finish, Stop, OnlyRun, Sent, Is, At
<1>2. Onward(past, past')
  BY <1>1 DEF Onward, Past, SendInv
<1> QED BY <1>1, <1>2, PlainRuns DEF Plainly, Working_pc

LEMMA SendSends ==
    ASSUME SendInv, PromiseInv', NEW x \in Runs, SendOne(x)
    PROVE  SendInv'
<1> DEFINE r == run[x].who
<1>0. /\ PromiseInv /\ past \in Past /\ At(x, "send") /\ r \in Recipients
      /\ run[x] \in Busy /\ past' = past /\ delivered' = delivered
      /\ recipient[r] = "pending" /\ Allows(x)
  BY AtWork DEF SendInv, SendOne, At, OnlySend
<1>1. Sent' = Sent \cup {r} /\ r \notin Sent
  <2>1. Mark(r, "sent")
    BY DEF SendOne
  <2> QED BY <1>0, <2>1, Marking DEF Sent, Is, PromiseInv
<1> DEFINE w == [run[x] EXCEPT !.pc = "deliver", !.reached = Remembered(x)]
<1>2. Remembered(x) \in SUBSET Recipients
  BY <1>0, Remembering
<1>3. /\ w \in Busy /\ w.pc = "deliver" /\ w.who = r /\ w.gated = run[x].gated
      /\ w.reached = Remembered(x)
  BY <1>0, <1>2, BusyDelivers
<1>4. run' = [run EXCEPT ![x] = w]
  BY DEF SendOne
<1> HIDE DEF w
<1>5. run'[x] = w /\ \A y \in Runs : y # x => run'[y] = run[y]
  BY <1>0, <1>4 DEF PromiseInv
<1>6. Delivering' = Delivering \cup {x} /\ x \notin Delivering
  BY <1>0, <1>3, <1>5 DEF Delivering, At
<1>7. SentIsDelivered'
  <2>1. \A y \in Delivering : y # x /\ run'[y] = run[y]
    BY <1>5, <1>6 DEF Delivering
  <2>2. InHand' = InHand \cup {r}
    BY <1>3, <1>5, <1>6, <2>1 DEF InHand
  <2>3. r \notin delivered /\ r \notin past.lost /\ r \notin InHand
    BY <1>1 DEF SendInv, SentIsDelivered
  <2>4. \A y \in Delivering : run'[y].who # r
    BY <2>1, <2>3 DEF InHand
  <2>5. \A y, z \in Delivering' : run'[y].who = run'[z].who => y = z
    BY <1>3, <1>5, <1>6, <2>1, <2>4 DEF SendInv, SentIsDelivered
  <2> QED BY <1>0, <1>1, <2>2, <2>3, <2>5 DEF SendInv, SentIsDelivered
<1>8. LimitInv'
  <2> SUFFICES ASSUME Trusted' PROVE /\ Cardinality(Sent') <= DailyLimit
                                     /\ \A y, z \in Working' : y = z
                                     /\ \A y \in Working' : Gated(run[y])'
    BY DEF LimitInv
  <2>1. Trusted
    BY <1>0 DEF Trusted
  <2>2. /\ x \in Working /\ run[x].gated /\ Sent' \subseteq w.reached
        /\ Cardinality(w.reached) <= DailyLimit
    BY <1>0, <1>1, <1>3, <2>1, MemoryKept
  <2>3. Working' \subseteq {x}
    <3>1. \A y \in Working' : y # x => y \in Working
      BY <1>5 DEF Working
    <3> QED BY <2>1, <2>2, <3>1 DEF SendInv, LimitInv
  <2>4. Cardinality(Sent') <= DailyLimit
    <3>1. IsFiniteSet(w.reached) /\ Cardinality(w.reached) \in Nat
      BY <1>2, <1>3, Finite
    <3>2. Cardinality(Sent') <= Cardinality(w.reached) /\ Cardinality(Sent') \in Nat
      BY <2>2, <3>1, FS_Subset, FS_CardinalityType
    <3> QED BY <2>2, <3>1, <3>2, CampaignsAssumption
  <2>5. Gated(run[x])'
    BY <1>3, <1>5, <2>2 DEF Gated
  <2> QED BY <2>3, <2>4, <2>5
<1> QED BY <1>0, <1>7, <1>8 DEF SendInv

\* The run x stops, and what it was about to deliver arrived or is lost.
LEMMA DeliverySettled ==
    ASSUME SendInv, PromiseInv', NEW x \in Runs, NEW w \in Run, run' = [run EXCEPT ![x] = w],
           w.pc \in {"pick", "idle"}, Sent' = Sent, past' \in Past,
           past'.unread = past.unread, past'.overlapped = past.overlapped,
           w.pc = "pick" => /\ x \in Working
                            /\ w.gated = run[x].gated /\ w.reached = run[x].reached
                            /\ run[x].pc = "deliver",
           \/ run[x].pc # "deliver" /\ delivered' = delivered /\ past'.lost = past.lost
           \/ /\ run[x].pc = "deliver" /\ delivered' = delivered \cup {run[x].who}
              /\ past'.lost = past.lost
           \/ /\ run[x].pc = "deliver" /\ delivered' = delivered
              /\ past'.lost = past.lost \cup {run[x].who}
    PROVE  SendInv'
<1>1. run'[x] = w /\ \A y \in Runs : y # x => run'[y] = run[y]
  BY DEF SendInv, PromiseInv
<1>2. Delivering' = Delivering \ {x}
  BY <1>1 DEF Delivering, At
<1>a. run[x].pc = "deliver" <=> x \in Delivering
  BY DEF Delivering, At
<1>3. SentIsDelivered'
  <2>1. \A y \in Delivering' : y \in Delivering /\ y # x /\ run'[y] = run[y]
    BY <1>1, <1>2 DEF Delivering
  <2>2. \A y, z \in Delivering' : run'[y].who = run'[z].who => y = z
    BY <2>1 DEF SendInv, SentIsDelivered
  <2>3. CASE x \notin Delivering
    <3>1. Delivering' = Delivering
      BY <1>2, <2>3
    <3>2. InHand' = InHand
      BY <2>1, <3>1 DEF InHand
    <3> QED BY <1>a, <2>2, <2>3, <3>2 DEF SendInv, SentIsDelivered
  <2>4. CASE x \in Delivering
    <3>1. InHand' = InHand \ {run[x].who}
      <4>1. \A y \in Delivering' : run[y].who # run[x].who
        BY <2>1, <2>4 DEF SendInv, SentIsDelivered
      <4> QED BY <1>2, <2>1, <4>1 DEF InHand
    <3>2. run[x].who \in InHand
      BY <2>4 DEF InHand
    <3> QED BY <1>a, <2>2, <2>4, <3>1, <3>2 DEF SendInv, SentIsDelivered
  <2> QED BY <2>3, <2>4
<1>4. LimitInv'
  <2> SUFFICES ASSUME Trusted' PROVE /\ Cardinality(Sent') <= DailyLimit
                                     /\ \A y, z \in Working' : y = z
                                     /\ \A y \in Working' : Gated(run[y])'
    BY DEF LimitInv
  <2>1. Trusted
    BY DEF Trusted
  <2>2. Working' \subseteq Working
    BY <1>1 DEF Working
  <2>3. ASSUME NEW y \in Working' PROVE Gated(run[y])'
    <3>1. y \in Runs /\ Gated(run[y])
      BY <2>1, <2>2 DEF Working, SendInv, LimitInv
    <3>2. CASE y = x
      <4>1. run'[y] = w /\ w.pc = "pick"
        BY <1>1, <3>2 DEF Working
      <4> QED BY <3>1, <3>2, <4>1 DEF Gated
    <3>3. CASE y # x
      BY <1>1, <3>1, <3>3 DEF Gated
    <3> QED BY <3>2, <3>3
  <2> QED BY <2>1, <2>2, <2>3 DEF SendInv, LimitInv
<1> QED BY <1>3, <1>4 DEF SendInv

LEMMA DeliverSends ==
    ASSUME SendInv, PromiseInv', NEW x \in Runs, Deliver(x) \/ DeliveryFails(x)
    PROVE  SendInv'
<1>1. /\ PromiseInv /\ run[x].pc = "deliver" /\ GoOn(x, run[x].reached)
      /\ Sent' = Sent /\ past \in Past /\ x \in Working
  BY DEF SendInv, Deliver, DeliveryFails, At, Sent, Is, Working
<1>2. run[x].reached \in SUBSET Recipients /\ run[x].who \in Recipients
  BY <1>1, AtWork
<1>3. PICK w \in Busy : /\ run' = [run EXCEPT ![x] = w] /\ w.pc = "pick"
                        /\ w.gated = run[x].gated /\ w.reached = run[x].reached
  BY <1>1, <1>2, GoingOn
<1>4. /\ past' \in Past /\ past'.unread = past.unread /\ past'.overlapped = past.overlapped
      /\ \/ delivered' = delivered \cup {run[x].who} /\ past'.lost = past.lost
         \/ delivered' = delivered /\ past'.lost = past.lost \cup {run[x].who}
  <2>1. CASE Deliver(x)
    BY <1>1, <2>1 DEF Deliver
  <2>2. CASE DeliveryFails(x)
    BY <1>1, <1>2, <2>2 DEF DeliveryFails, Past
  <2> QED BY <2>1, <2>2
<1>5. w \in Run
  BY BusyIsRun
<1> QED BY <1>1, <1>3, <1>4, <1>5, DeliverySettled

LEMMA Dying ==
    ASSUME NEW p \in Past, NEW lost \in SUBSET Recipients
    PROVE  LET q == [p EXCEPT !.crashes = @ + 1, !.lost = lost]
           IN  /\ q \in Past /\ q.unread = p.unread /\ q.overlapped = p.overlapped
               /\ q.lost = lost
<1> DEFINE crashes == p.crashes + 1
<1>1. crashes \in Nat
  BY DEF Past
<1> HIDE DEF crashes
<1>2. LET q == [p EXCEPT !.crashes = crashes, !.lost = lost]
      IN  /\ q \in Past /\ q.unread = p.unread /\ q.overlapped = p.overlapped
          /\ q.lost = lost
  BY <1>1 DEF Past
<1> QED BY <1>2 DEF crashes

LEMMA CrashSends ==
    ASSUME SendInv, PromiseInv', NEW x \in Runs, Crash(x)
    PROVE  SendInv'
<1>1. /\ PromiseInv /\ run' = [run EXCEPT ![x] = Idle] /\ past \in Past
      /\ delivered' = delivered /\ Sent' = Sent
  BY DEF SendInv, Crash, Stop, OnlyRun, Sent, Is
<1> DEFINE lost == IF At(x, "deliver") THEN past.lost \cup {run[x].who} ELSE past.lost
<1>2. lost \in SUBSET Recipients
  BY <1>1, AtWork DEF At, Past
<1>3. past' = [past EXCEPT !.crashes = @ + 1, !.lost = lost]
  BY DEF Crash
<1> HIDE DEF lost
<1>4. /\ past' \in Past /\ past'.unread = past.unread /\ past'.overlapped = past.overlapped
      /\ past'.lost = lost
  BY <1>1, <1>2, <1>3, Dying
<1>5. Idle \in Run /\ Idle.pc = "idle"
  BY PlainRuns
<1>6. CASE At(x, "deliver")
  BY <1>1, <1>4, <1>5, <1>6, DeliverySettled DEF At, lost
<1>7. CASE ~At(x, "deliver")
  BY <1>1, <1>4, <1>5, <1>7, DeliverySettled DEF At, lost
<1> QED BY <1>6, <1>7

\* No run moves and nothing is sent.
LEMMA SendStays ==
    ASSUME SendInv, PromiseInv', UNCHANGED <<run, delivered, past>>, Sent' = Sent
    PROVE  SendInv'
<1>1. Delivering' = Delivering /\ Working' = Working /\ InHand' = InHand
  BY DEF Delivering, At, Working, InHand
<1>2. SentIsDelivered'
  BY <1>1 DEF SendInv, SentIsDelivered
<1>3. LimitInv'
  BY <1>1 DEF SendInv, LimitInv, Trusted, Gated
<1> QED BY <1>2, <1>3 DEF SendInv

LEMMA SendStep ==
    ASSUME SendInv, [Next]_vars
    PROVE  SendInv'
<1>0. PromiseInv /\ PromiseInv'
  BY InvStep DEF SendInv
<1>1. CASE \/ CreditsNext /\ UNCHANGED campaigns
           \/ Approve \/ Archive \/ Schedule \/ Cancel \/ UNCHANGED vars
  <2>1. UNCHANGED <<run, delivered, past>>
    BY <1>1 DEF campaigns, Approve, Archive, Schedule, Cancel, OnlyCampaign, vars
  <2>2. Sent' = Sent
    <3>1. CASE Schedule
      BY <1>0, <3>1, Snapshot DEF Schedule, PromiseInv, Sent, Is
    <3>2. CASE ~Schedule
      BY <1>1, <3>2 DEF campaigns, Approve, Archive, Cancel, OnlyCampaign, vars, Sent, Is
    <3> QED BY <3>1, <3>2
  <2> QED BY <1>0, <2>1, <2>2, SendStays
<1>2. ASSUME NEW x \in Runs, Execute(x) \/ Step(x) \/ Crash(x)
      PROVE  SendInv'
  <2>1. CASE \E w : Plainly(x, w)
    BY <1>0, <2>1, PlainRunKept
  <2> QED BY <1>0, <1>2, <2>1, EarlySends, BatchSends, SkipSends, FinishSends, SendSends,
             DeliverSends, CrashSends DEF Step
<1> QED BY <1>1, <1>2 DEF Next

LEMMA SendInit == ASSUME Init PROVE SendInv
<1>1. PromiseInv
  BY InvInit
<1>2. /\ Sent = {} /\ delivered = {} /\ \A x \in Runs : run[x].pc = "idle"
      /\ past \in Past /\ past.lost = {}
  BY DEF Init, CampaignInit, Sent, Is, Idle, Past
<1>3. Delivering = {} /\ Working = {} /\ InHand = {}
  BY <1>2 DEF Delivering, Working, At, InHand
<1>4. SentIsDelivered
  BY <1>2, <1>3 DEF SentIsDelivered
<1>5. LimitInv
  BY <1>2, <1>3, FS_EmptySet, CampaignsAssumption DEF LimitInv
<1> QED BY <1>1, <1>2, <1>4, <1>5 DEF SendInv

\* However runs overlap, die and fail to deliver, every message that was sent
\* and paid is given to delivery once: it arrived, its run is about to deliver
\* it, or it was lost with its delivery (deliverCommittedMessage, after the
\* commit); nothing else arrives.
THEOREM SentMessagesArrive == Spec => []SentIsDelivered
<1>1. SendInv => SentIsDelivered
  BY DEF SendInv
<1> QED BY <1>1, SendInit, SendStep, PTL DEF Spec

\* Over any number of runs, and after crashes, as long as no two work recipients
\* off at once and each reads its gate, the day's limit holds
\* (createDailyMessagingGate: the gate is in the memory of a run).
THEOREM DailyLimitIsKept == Spec => []DailyLimitKept
<1>1. SendInv => DailyLimitKept
  BY DEF SendInv, LimitInv, DailyLimitKept, Trusted
<1> QED BY <1>1, SendInit, SendStep, PTL DEF Spec
=============================================================================
