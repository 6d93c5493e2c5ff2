# NeuraTalk: specifications of calls, queues, money and deliveries

TLA+ models of the parts of NeuraTalk that decide who is in a call, what it
costs and who answers it, who has paid and what for, and which messages, codes
and events go out and are paid once, with the TLC configurations that check them and
proofs, checked by TLAPS, of what holds for every value of the constants.
Paths are relative to the repository; `server/modules/calls` is shortened to
`calls`.

Several instances of the server share a Postgres database and a Redis. Nearly
everything is an `async` handler that reads one of the two, awaits, and writes
one of the two, so the interesting question is nearly always the same: what
may another handler, on this instance or another, have done at the await, and
what is left if the instance dies there? The models are cut along that
question: **a step of a model is the code between two awaits that others can
notice** (one SQL statement or transaction, one Redis command or `MULTI`).

## 1. The system's parts

### Modelled

**Billing engine** (`server/billing-engine.ts`, `shared/billing-math.ts`).
State: the account row (wallet, locked balance, included seconds and credits,
credit debt, the day's usage), a billing record and ledger entries per call,
and a runtime state per call in Redis, of which a handler works on a copy.
Operations: `startCallSession` authorises a call and reserves money,
`activateCallSession` starts the meter at the answer, a supervisor calls
`advanceRuntimeSession` every second, which charges the seconds that passed and
extends the reservation, `waiveCallSessionCharges`, `finalizeCallSession`;
beside them `adjustOrganizationBalance`, message charges, blocking. It tells the
call router by an event that a call must end. Hard: all calls of an account
share one row without a lock; deltas and absolute values are written to it from
cached copies; the account and Redis are written one after the other, and an
instance may die in between. Right when: reservations are neither lost nor
duplicated, what a call spends is exactly what it is metered, a closed call
balances, nobody pays twice, and a metered call ends.

**ACD queues** (`calls/queue-service.ts`, `calls/queue-controller.ts`, presence
and queues in `server/modules/enterprise-admin/routes.ts`). State: a row per
queued call in Postgres (the truth), an entry in a Redis sorted set (the
order), the presence row of each agent. Operations: join, assignment run (an
agent became available), assignment by a supervisor, abandon, timeout sweep,
after-queue action. Hard: they all work on both stores without a lock; claims are
compare-and-set in some places and plain updates in others. Right when: a call
goes to one agent and stays there, nobody waits where nobody looks, an agent
who is claimed gets a call or the claim back.

**Smart call router and inbound phone calls** (`calls/smart-router.ts`,
`calls/lifecycle.ts`, `server/pstn/inbound.ts`, `server/pstn/routes.ts`). State:
a record per call in Redis with its lifecycle status, `user:active_call:{id}`
as a lock on a user, `call_metadata` keys that say whose locks a call holds,
the rows of the call history. Operations: `initiateCall`, `handleInboundCall`,
`updateSmartCallStatus`, `endCall`, media reports, the provider's events, the
watchdog, the end asked for by the billing engine. Hard: a record is read,
changed and stored whole with nothing to notice another writer; locks are
deleted by name whoever holds them; there are five independent ways to end a
call. Right when: a call that is over is billed and in the history, one user is
in one call, no call stays up with nobody in it, no meter runs for ever.

**Payments** (`server/payment-service.ts`). State: a transaction with a status
and metadata that is written back whole, a provision lock in Redis, the wallet
or the subscriptions, refund rows. Operations: the order, the customer's
verification, the gateway's `payment.captured`, `payment.failed` and
`refund.processed`, provisioning, refund requests. Hard: the customer and the
gateway report one payment at once and repeatedly, failures of an earlier
attempt come late, the gateway acts and its answer is lost. Right when: what was
paid for is provided, once, and the refund ledger says what the gateway did.

**Webhook delivery** (`server/modules/webhooks/service.ts`). State: the endpoint
and a delivery row with its attempts and next time. Operations: dispatch, an
attempt, the sweep of each server that repeats what failed, switching the
endpoint. Hard: sweeps of two servers overlap and store their outcomes by the
row's id. Right when: an event is delivered or given up after all its attempts,
and what was delivered stays so.

**Message credits** (`server/modules/billing`). State: the wallet, recharge
requests that name a bank payment. Operations: file, cancel, reject, approve
with a credit that may fail and be put back; the charge of a message. Right
when: a payment buys its credit once.

**Campaigns** (`server/modules/campaigns`). State: the campaign, its recipients'
rows, the hour's count, the wallet. Operations: approve, schedule, cancel,
execute, from the scheduler of every instance and from people. Hard: runs
overlap, die between payment and delivery, and find the wallet empty or the
template archived. Right when: each recipient is settled once, a message goes out
and is paid in one step, the caps hold, and the campaign completes.

**Business OTP** (`server/modules/otp/service.ts`). State: challenge rows with at
most one pending by a partial index, counters in Redis, the wallet. Operations:
create, send again, verify, run out. Right when: one code can be used, and every
code issued was paid for.

How they meet: messages, campaigns and codes are paid from one wallet, which
recharge requests fill (`Campaigns` and `Challenges` extend `MessageCredits`);
refunds change the transaction a checkout finalises (`Refunds` extends
`Checkout`). The router opens, activates and closes billing sessions and
listens to `session.termination_requested`; a queue creates a conference
through the router before it queues it and ends it when the wait is over; the
supervisor of billing and the watchdog of the router both call `endCall`. A phone
call takes the same lock of its callee as the callee's own calls.

### Not modelled

| Part | State and operations | Why it is left out, and what would make it right |
|---|---|---|
| Call controller, incoming-call queue (`calls/controller.ts`, `calls/service.ts`) | HTTP handlers; a 45 s queue of ringing calls per user, in Redis with an in-memory copy | The handlers start the tasks of `SmartCall`. The queue is a read-once list with a fallback; a call should ring once and not after it is over. Next in the plan. |
| Outbound phone legs (rest of `server/pstn`) | dialling out, the fallback of an app call to the phone network, number ownership | Each leg is another call of `updateSmartCallStatus` and `endCall`, which are modelled; the fallback changes how a call joins half way. Next in the plan. |
| Conferences, hold, transfer (`calls/conference-service.ts`, `calls/smart-router.ts`) | participants of a room | Many routes over LiveKit's own participant state, which is external. |
| Translator bot (`server/translator-bot.ts`) | one bot per call, started with a deadline and one retry | Its start could be modelled beside `SmartCall`; the audio pipeline is streaming through vendors. |
| Language runtime (`server/universal-language-runtime.ts`) | per-call language state under the Redis lock | Reaches the modelled part only as the waiver of charges, which is an action there. |
| Signaling server (`server/signaling-server.ts`) | WebSocket clients and calls in one process's memory | The older call path, one process, independent of the router. |
| Organisation lifecycle, subscriptions (`server/modules/b2b-admin`, `server/billing-scheduler.ts`) | status columns | Reaches the models as the account's block. |
| Communication API, realtime, media relay, AI pipelines | streaming through vendors | Vendor APIs and signal processing. |
| Messaging, chat, login, access control, dashboards, web and mobile clients, SDKs | single writes, request checks, user interface | Little shared state that interleaving could hurt; most of the repository's lines are here. |

## 2. The modules

| Module | Models |
|---|---|
| `BillingMath` | `shared/billing-math.ts`: the charge of a second, the seconds a budget pays for; a reference price |
| `BillingRuntime` | the runtime state of a session and what `applySecond` does to it: included seconds, the meter, credits, reservation and top-up, credit line |
| `BillingEngine` | the account, all sessions and their handlers: one action per step of each operation, plus crashes and time |
| `CallLedger` | abstract: each call opens with a hold, spends out of it, closes once and gives the rest back |
| `AcdQueue` | the queues, the agents' presence and every piece of work on them |
| `SmartCall` | the life of app-to-app calls and of phone calls that reach a user |
| `Checkout` | one purchase, a top-up or a plan, from the order to its provisioning |
| `Refunds` | extends `Checkout` by refund requests, the gateway's refunds and their events |
| `Webhooks` | deliveries, their attempts and the sweeps of several servers |
| `MessageCredits` | the messages' wallet: recharge requests and the charge |
| `SendOnce` | abstract: what a campaign promises about its recipients and their money |
| `Campaigns` | extends `MessageCredits` by one campaign and the runs that work it off |
| `Challenges` | extends `MessageCredits` by the one-time codes of a customer and purpose |
| `MCBilling`, `MCAcd`, `MCSmart`, `MCPay`, `MCWebhooks`, `MCCampaigns`, `MCOtp` | small instances; `MCBilling` also compares the arithmetic with its reference |
| `Sums` | facts about sums over finite sets, as the community modules compute them |
| `BillingProofs` | the arithmetic of one session, type correctness, the session invariants, all calls of the account together, the refinement of `CallLedger` |
| `SmartProofs` | type correctness and the settlement of `SmartCall` |
| `AcdProofs`, `CheckoutProofs`, `WebhookProofs`, `CampaignProofs`, `ChallengeProofs` | the theorems about the other components |

### How state and actions correspond to the code

*BillingEngine.* `account` is the `billing_accounts` row, `record` and `ledger`
the status and the totals of a call's billing record and ledger entries,
`runtime[s]` what Redis holds of session `s`, `handler[s]` the handler that has
the session's Redis lock, with its copy and where it stands. The steps of
`startCallSession` are `StartRead`, `StartCount`, `StartReserve`, `Store`; of a
sweep `Advance`, `ApplyNext` (a second), `Flush` and `Overwrite`
(the two UPDATEs of `persistRuntimeState`), `Store`; of the settlement
`Finalize`, `Flush`, `Overwrite`, `Settle`, `Remove`. `SetStatus` writes any
status over any record, as the UPDATE does; `ended` remembers the calls that were
closed, and `Phase` is a call's place in `CallLedger`. `charged`, `accrued` (the most
a session has accrued in a debt it wrote) and
`adjusted` are histories. Fractions of a paisa are carried in units of one
`SecondsPerMinute`-th, as the remainder of the source is.

*AcdQueue.* `row` is `queued_calls`, `line` and `ticket` the sorted sets,
`presence` the presence rows, and `tasks` the pieces of work under way, each at
one of its awaits. A task of kind "assign" is an assignment run (`Claim`, `Scan`,
`Take`, `ReadRow`, `RoomFound`/`RoomLost`, `Mark`, `SetBusy`, `Notify`, or
`Release`), "supervise" enters it at the row, "abandon" and "sweep" close rows
(`RemoveEntry`, `Close`) and end calls (`End`). Skills are a relation. The
after-queue action hangs up, or, if the constant `Forwarding` says so, tries to
forward first; where a forwarded call leads is left out.

*SmartCall.* `record`, `lock` and `meta` are the Redis keys, `listed` the set
`smart_call:active_z` of calls the watchdog looks at, `tasks` the handlers, `phone`
the calls that came from the phone network. Every write of a record lists its call
(`StoreCall`), and `clearProvisionedCall` takes it off (`ClearMeta`). The settlement and
the history row may fail and are caught, if `Failing` says so; `failed` remembers of
which call. `updateSmartCallStatus` is
`Read`, `Write`, then by the new status `Activate` and `Rewrite`, the release of
the locks, or `MarkBusy` and `MarkBusyMeta`; `endCall` is `Look`, the release
(`Find`, `Free`, `Forget` for each party), `ClearRoom`, `Finalize` and then
`updateSmartCallStatus`. `handleInboundCall` is `Dial`, `ClaimCallee`,
`ClaimCalleeMeta`, `Reserve`, `Register`, `Save`, with `DropCallee` and
`DropCalleeMeta` when it is refused or fails; its provider's events are `Update`
and `PhoneEnds`. The billing engine is reduced to the state of the call's session,
LiveKit to whether anybody is in the room. How long a call has been quiet is left
open wherever the code compares it with a limit.

*Checkout, Refunds.* `tx` is the transaction row, `lock` the provision lock,
`tasks` the verifications and captured events between their awaits
(`finalizeTransactionSuccess` is the steps lock, fresh, complete, and the
provisioning claim, credit or cancel, insert, mark). `captured`, `owed`,
`gateway` and `unheard` are the gateway's side. `asks` are the `initiateRefund`
handlers (sum, insert, refund, record, status, or fail), `hooks` the
`refund.processed` ones. `past` and `faults` record what went wrong, so that a
property can say when it is stated.

*Webhooks.* `delivery` and `endpoint` are the rows, of as many events and endpoints
as the constants say, `attempts[i][d]` the attempt a
server has under way with the counter it read. A sweep reads any `BatchLimit` of the
rows that are due and passes over those of an inactive endpoint. `BecomeDue` stands
for the time until the next attempt.

*MessageCredits, Campaigns, Challenges.* `request` is the status of the recharge
rows, `approving` the requests an approval has claimed and not yet credited.
`run[x]` is an execute call: `Execute`, the batch, and for each recipient one
transaction that charges, sends or skips, before or after the slot and the charge
(one action, as its row locks order it), then the delivery, which arrives or fails.
`challenge` is the code's row and `task` a handler between its read and its
transaction; what a transaction wrote before it throws is taken
back, so a wrong or expired code changes nothing in the row.

## 3. The runs

All amounts are a few paise and a minute has two seconds, so that carried
fractions, minute boundaries, empty wallets and exhausted credit lines all come
up within a few seconds of a call. Two calls are the fewest that can
contend for an account, an agent or a lock, two tasks the fewest that can race.
Deadlock is not checked: every bound on time, requests or crashes lets the
system stop.

| Run | Question | Instance |
|---|---|---|
| `billing_two` | Do reservations add up, do closed calls balance, is no second paid twice, does nobody come to owe more than the calls accrued although each session writes its own copy of the debt over the account's, and does each call follow `CallLedger`, when two calls of one account interleave at every await? | 2 hybrid calls, 2 s, a wallet of 3 paise and a credit line, an opening debt and its settlement, "active" written at any time; 1.4 million states |
| `billing_hybrid` | Is every metered paisa paid from somewhere, is the wallet the sum of what happened to it, is what Redis holds always flushed, and does a metered call end? | 1 hybrid call by started minutes, 5 s, included second and credit, credit line, daily limit, a top-up, a crash, all final statuses |
| `acd_assign` | Is every waiting call found by somebody, does a claim on an agent end, and does each report of "available" bring at most one call, whatever races? | 2 calls in 2 queues, 2 agents, 2 reports, so that an agent may report twice, 2 tasks; 3 million states |
| `acd_live` | Is a call handed to one agent, does every waiting call resolve and every closed entry's call end? | 1 call, 2 agents, 2 tasks, a supervisor, a crash, a hang-up, a queue switched off and on; 0.52 million states |
| `smart_calls` | Is a call that is over settled and recorded, placed in the app or reached by phone, and does its owner have his lock back? | 2 calls of one user, each app or phone, 2 tasks, 2 requests, history rows that may fail; 3 million states |
| `smart_live` | Do forsaken calls end and meters stop, although a handler dies, a settlement fails and stale records are stored? | 1 call, app or phone, 2 tasks, 2 requests, 1 crash; 0.45 million states |
| `smart_rejected` | *(violated)* A rejected call is settled | 1 call |
| `payments` | Is a top-up credited once, is what is marked as provided provided, and is what was paid for provided in the end? | a top-up or a plan, 2 handlers, a refund, a crash; 0.73 million states |
| `refunds` | Does one request of those under a key refund, once as long as its answer arrives, does the ledger agree with the gateway, does no refund stay in progress? | a provided purchase, 2 requests under one key, a lost answer, a failed write, a refund from outside, a crash; 0.37 million states |
| `webhooks` | Is an event given up only after all its attempts, does a delivery stay made, and is every delivery settled, also when two endpoints share a batch? | 2 events, 2 endpoints, 2 servers, batches of 1, 1 retry, 2 toggles, a lost answer, a crash; 0.33 million states |
| `campaigns` | Does the campaign implement `SendOnce`, is money lost only on an incomplete conversation, do the caps hold, is a paid message given to delivery once, and do scheduled and running campaigns come to an end? | 3 recipients in batches of 2, one of them incomplete, 2 overlapping runs, a wallet for one message and a recharge being credited, marketing or utility, one mishap; 0.34 million states |
| `otp` | Is one code usable, are the codes issued the codes paid for, does a payment buy its credit once, although approvals fail or go unheard? | 3 codes, 2 handlers, 2 recharge requests of one payment, 2 mishaps |

Symmetry (of calls, agents, tasks, rows) is used in safety runs only. `MCBilling`
also evaluates, for lengths up to 12 seconds and rates up to 9 paise, that
charging second by second comes to the price computed in one go, and that the
seconds a budget is said to pay for cost no more than it.

### The violated run

`smart_rejected` checks what `pstn/routes.ts:79` says of terminal statuses, and
fails: `reject` (`calls/controller.ts:910`) stores a terminal status without
`endCall`, and `endCall` returns at once for a call that is terminal: the session
stays open, its reservation locked, and the call has no history row.

### What the properties except, and why

A property that the code breaks in a known circumstance is stated without that
circumstance, by a constant or a history variable, and the circumstance is listed
here; where the code contradicts a comment the comment's line is named. Line numbers
are of the file named first in each paragraph.

*Billing* (`billing-engine.ts`). `topUpReservation` computes an extension from
cached balances and flushes it as an unconditional delta (749-766): two sessions
extend into the same free money, which the floor at zero then hides;
`tests/integration/billing-wallet-race-condition.test.ts:153` exercises only the
conditional initial reservation. `ChargedAtMostThePrice` is checked with
`MaxCrashes = 0`: the account is written before Redis (1278-1279) and a death in
between bills the same seconds again. Active calls are counted before the session
is reserved (943). The debt and the credits are written back from a session's copy
(717): a settlement during a call is undone by it, and what another session accrued
meanwhile is lost, which `docs/operations/P0_EMERGENCY_SPRINT_REPORT.md:116` knows of.
`DebtIsEarned` bounds the debt from above only. `setCallSessionStatus` writes
without a condition (1359-1366): an "active" that comes late opens the record of a
closed call again, and the call then counts among the active ones of its account
(`getActiveCallCount`) for good; `SettledBooksBalance` and `CallLedger` show that its
money stays as it was. A start that dies between its transaction and Redis (1147)
leaves its reservation locked. The session lock of `redis.ts:435` expires after five
seconds whether or not its handler is through.

*ACD* (`calls/queue-service.ts`). The sweep closes rows by id (335) that it read as
waiting several awaits ago, and may take an assigned call from its agent.
`applyAfterQueueAction` starts the forwarded call (373) while the caller's lock still
belongs to the queued one; `initiateCall` refuses, and the call is never ended
(`Forwarding = FALSE` in the runs). A join that dies between the insert and the
ZADD (81) leaves a caller no agent is offered until the sweep. Joins at the last
place overfill a queue (66). Two runs may read one entry of the line (239). Only
the queues that are switched on are swept (319). Every "available" overwrites
"busy" and brings one more call (`enterprise-admin/routes.ts:432`), against the
comments at 182-186 and 274-280; `OneCallPerAvailability` is what holds of it.

*Smart calls* (`calls/smart-router.ts`). `finalizeCallSession` may fail, which
`endCall` logs (1966-1969) before it stores the terminal status; from then on it
returns at 1911, so the call is over and nobody settles it or stops its meter.
Likewise nobody writes a history row that failed. `SettledWhenOver` and `MetersStop`
except the call whose own settlement or row failed (`failed`); a run checks the one with
rows that fail and the other with settlements that fail, and `OverIsSettled` is proved for both. `Hasty = FALSE` in
the runs. A call that holds its caller's lock and has no record yet counts as
abandoned (595), so a second tap ends it in vain, takes the lock, and the first
attempt goes on regardless: the two concurrent calls that the comment at 1186-1191
says cannot both proceed. Besides, a phone that hangs up before the set-up is through frees the callee's lock, and the set-up then registers a call that rings
without it, and an end in the middle of a set-up looks before the session is opened,
and stores "ended" over it. A status update that read the record before a failed set-up may
store "answered" over "failed", and the set-up then takes the call off the watchdog's
list (497): it stays answered for ever, its session closed. `ForsakenCallsEnd` is
about the calls on the list. The end of one call frees its party's lock by name
(1933): when two ends of one call overlap, the second may free the lock of a call
set up in between, which lets in a third; a user who answers an app call during
another call loses the lock to it (960). Neither is excluded by a property: both
need three calls, and the locks are checked for being released (`OwnerIsFree`). A
set-up that fails between authorisation and the record (1380), or a phone
call that cannot be registered, leaves its session open. A phone call whose set-up
fails after it was registered (`pstn/inbound.ts:265`) rings on with its lock
released (counted as a crash, `SaveFails`), and a repeated `participant_joined`
(`pstn/livekit-sip.ts:145`) finds the lock taken by its own call and removes the
phone from the room.

*Payments* (`payment-service.ts`). Without a Redis that all instances share
(`SharedLock = FALSE`) a wallet is credited twice, which the comment at 466-468
rules out. A verification that finds the transaction completed provisions it
outside the lock (812): a plan is begun twice, against the comment at 801-803. A
handler that dies between claim and credit forfeits the top-up for good (482); one
that dies after it completed the transaction, a verification outside the lock and
a late `payment.failed` together credit twice. Two refunds asked for at once
without idempotency keys, a lost answer, a failed write or a refund from the
dashboard leave the ledger wrong until the event is heard. The gateway is asked up to
three times within one refund (246-260, 1015), and an answer that is lost is taken
for a refund that was not made: one key refunds twice, against the comments at
907-910 and `shared/schema.ts:1846-1847`; `KeyRefundedOnce` says once
as long as no answer is lost. A captured event that is repeated after a refund sets the transaction to completed again.
The models assume that a live handler does not outlive the 60 s provision lock.

*Webhooks* (`webhooks/service.ts`). Overlapping sweeps turn a delivered event into
a failed one, against the comment at 426-428. A delivery that
is pending because its first attempt died is never retried (300). The sweep reads
100 due rows in no order (431-436) and passes over those whose endpoint is inactive
(446), which stay failed and due: a hundred of them can fill every batch and keep
the deliveries of other customers from being retried until the endpoint is
switched on again or deleted (`Crowded`).

*Campaigns* (`campaigns/service.ts`). A running campaign whose run died, or that is
larger than one batch, is not resumed by the scheduler, against the comment at
73-76. `updateCampaign` checks for a draft and then writes by id alone, and keeps
the approval of an edited draft. The daily limit is kept per run, in memory (429).
A skip that lost its update commits the slot it reserved although the comment at
486 says it is rolled back. A recipient whose conversation lacks a participant is
passed over after the charge, which is then committed (550): `SendOnce` allows for
it in `Waste`. No code of the repository makes such a conversation
(`createBusinessConversationTx` inserts both participants), so the runs suppose one
with the constant `Incomplete`. A delivery never throws: it ends early, marks the row
FAILED for a customer who blocked the business or left NeuraTalk, or logs its error
(`messaging/delivery.ts:98-231`), and the paid message is lost (`past.lost`).

*Message credits* (`billing/message-credits.ts`). The limit on pending requests is
counted before the insert; an approval that dies leaves the request approved and
not credited; one whose commit goes unheard is put back (286) and credited twice.

*Business OTP* (`otp/service.ts`). Every failing path of `verifyChallenge` throws
inside its transaction, so EXPIRED (387-390), the count of attempts and FAILED
(395-409) are taken back, and the comments at 354 and 428-429 do not hold: an
expired code stays pending and keeps the next one from being created, for good
once it was sent again as often as allowed. `issueChallenge` stores the
template's id as its version's (229), which a resend then looks up.

### Fairness

* Billing: the supervisor is a timer that sweeps every active session
  (`startRuntimeSupervisor`), hence weak fairness of `Advance(s)`, and time
  passes (`Tick`). A handler is a finite number of awaits, so a session is not
  busy for ever. The end itself is the router's: `MeteredCallsEnd` asks that the
  call is closed or *asked* to end, and `SmartCall` takes it from there.
* ACD: a task that began goes on (weak fairness of its steps) and the sweep is a
  timer of its own (`startAcdQueueTimeoutScheduler`). Nothing is assumed of agents, supervisors or callers.
* SmartCall: handlers go on; the watchdog and the billing supervisor are timers
  that re-arm themselves, hence strong fairness of the watchdog's ends and of
  `BillingEnds(c)`: another task may hold the only free slot of the bounded
  model for a while. The provider's timeout is fair only while the room is empty:
  a phone call that somebody is heard in may last. That the engine asks again and
  again for the end of a metered call, until it has ended, is what
  `MeteredCallsEnd` shows of `BillingEngine`. Nothing is assumed of users, nor that
  a call is answered.
* Payments: handlers go on, the gateway repeats an event until it is acknowledged
  (strong fairness, for the same reason), and an orphaned lock expires. Nothing
  is assumed of the customer.
* Webhooks: every server's sweep is an interval timer, an attempt has a deadline,
  and the time of the next attempt comes.
* Campaigns: the scheduler is a timer and a run goes on. `RunsComplete` asks only
  for what a run does by itself, because nothing resumes a campaign otherwise.

A crash is allowed at every await in the liveness runs; the properties that
give up after one (`ClosedCallsEnd`, `MetersStop`) say so, because the code has
nothing that would finish the work of a dead handler there.

## 4. What is proved

For every value of the constants, from the assumptions named in the modules:
amounts and bounds are natural numbers, a minute has a second, sets are what they
index, and where something is summed or counted (the calls of an account, the
tasks of the queues, recipients and runs, requests, refunds, challenges) the set is
finite, however large.

| Theorem | Module | Says |
|---|---|---|
| `TypeCorrect` | `BillingProofs` | no balance, reservation, counter or ledger total is ever negative, and every handler is well formed |
| `RedisIsFlushed` | `BillingProofs` | what Redis holds of a session never owes the account an unwritten change |
| `BooksBalance` | `BillingProofs` | in every copy of a session, the reservation is what was spent plus what is left, and the cost is paid in full but for a last second that failed |
| `NothingChargedAfterStop` | `BillingProofs` | a session that was told to stop, or waived, takes nothing more out of the wallet |
| `LockedIsHeld` | `BillingProofs` | until a handler dies, the locked balance of the account is the sum of what its calls hold, for any number of calls |
| `ClosedCallsBalance` | `BillingProofs` | until a handler dies, what was locked for a closed call was debited or released |
| `ChargedThePrice` | `BillingProofs` | until a handler dies, no call charges more than the price of the seconds that passed |
| `WalletAddsUp` | `BillingProofs` | for calls that follow one another, whatever credits are paid in meanwhile and until a handler dies, the wallet is what was put in less what the calls were charged |
| `NobodyOwesMore` | `BillingProofs` | whatever calls are open at once, whatever is settled and whoever dies, the account owes at most its opening debt and what its calls accrued |
| `CallsFollowTheLedger` | `BillingProofs` | with `MaxCrashes = 0`, every call implements `CallLedger`, whatever status is written to its record and however late |
| `HandedToOne` | `AcdProofs` | a call handed to an agent is that agent's in its row for good, whatever races and dies |
| `NoWaiterIsLost`, `NoClaimIsStuck` | `AcdProofs` | while nothing dies half way (`MaxCrashes = 0`), every waiting call is in the line or in somebody's hands, and an agent made busy has a call or a run that will bring one or give the claim back |
| `OneCallPerUpdate` | `AcdProofs` | each report of "available" brings an agent at most one call, a supervisor one more each, whatever races and dies; a repeated report is a second one |
| `SmartTypeCorrect` | `SmartProofs` | the records, locks and handlers of app and phone calls are well formed, of any number of users and tasks |
| `OverIsSettled` | `SmartProofs` | with `Hasty` and `Rejecting` off, a call that is over and in nobody's hands is settled and recorded, unless its own settlement or row failed, until a handler dies |
| `TopUpCreditedOnce` | `CheckoutProofs` | if the instances share the provision lock, a top-up is credited once, unless a handler died *and* a completed status was overwritten |
| `MarkedWasGranted` | `CheckoutProofs` | what is marked as provided was, but for a top-up that died between claim and credit |
| `PurchaseTypeCorrect`, `RefundsTypeCorrect` | `CheckoutProofs` | a purchase is well formed, whatever its refunds do, and so are the refunds |
| `RefundedOncePerKey` | `CheckoutProofs` | of the requests under one idempotency key one alone makes the gateway refund, once as long as no answer is lost |
| `OneKeyLedgerAgrees` | `CheckoutProofs` | if all requests carry one idempotency key, the ledger shows what the gateway refunded once its event was heard, unless an answer or a write was lost or somebody refunded by hand |
| `DeliveredStays` | `WebhookProofs` | a delivered event is neither attempted nor failed again, unless two attempts at it overlapped |
| `GivenUpAfterAllAttempts` | `WebhookProofs` | an event is given up only after all its attempts |
| `CampaignKeepsPromise` | `CampaignProofs` | `Campaigns` implements `SendOnce`, for any audience, any incomplete conversations and any number of overlapping and dying runs |
| `ThroughputIsKept` | `CampaignProofs` | the runs together send no more than the hour's slots |
| `SentMessagesArrive` | `CampaignProofs` | every message that was sent and paid is given to delivery once: it arrived, its run is about to deliver it, or it was lost with that delivery; nothing else arrives |
| `DailyLimitIsKept` | `CampaignProofs` | while no two runs work recipients off at once, and each read its gate, the day's limit holds |
| `OneCodeUsable` | `ChallengeProofs` | one code can be used, none that was sent again was or can be redeemed, and none is redeemed twice |
| `OnePaymentOneCredit`, `DecisionsAgreeAlways` | `ChallengeProofs` | a bank payment buys its credit once, and the decision shown agrees with the wallet, as long as no committed credit goes unheard (and but for an approval that died) |
| `CodesArePaid` | `ChallengeProofs` | the wallet is what it was, with the credit of the approved recharges and without the price of the codes issued |

*Sums.* The induction theorems of the library take an operator as a parameter and
cannot be used. `Sums` gets by without: the strict subsets of a finite set are
well founded, a set of subsets on which a claim fails has a smallest member, and
taking one element out of that refutes it. From this follow that the recursion
behind `MapThenSumSet` has a solution, that it does not matter in which order
elements are added, and what a sum becomes when one value changes, which is all
that an action does to it.

*Billing.* `TypeInv` adds to the types that a handler in the loop of the sweep has a
second left to apply, without which the loop's counter would not stay natural.
`BillingProofs` first shows, function by function, what one second does to a
session, and then has one lemma per action. The theorems about a session follow
from `SessionInv`, which relates the copy in Redis and the copy of the
handler (`Agree`). None of them is inductive alone: during a sweep the handler's
copy *does* owe the account a change, and *may* charge a session; what makes it
harmless is that the handler got its copy from a session in Redis that was not
told to stop, that the lock keeps everybody else from changing that meanwhile,
and that the only way to Redis leads through the flush. `Agree` says for each
position of a handler which of these holds.

The four theorems about all calls add `CallsInv` and `Balanced` (`Orderly`).
`Progress` says of each call whether it is not yet opened, open or closed, what
its ledger entries are then, what the account has locked for it (`HeldBy`, which
lags behind the copy of the handler until it flushes), and, through `Tally`,
that the cost metered and the fraction carried are the price of the seconds
applied. `Balanced` is the sum of what they hold. Each action changes
what one call holds and the locked balance by the same amount, which is where
`Sums` enters. A death ends this: the account is written before Redis, so the
next handler starts from a copy that owes again what was written. The invariant
is therefore `Ordered`, which promises the rest while `crashes = 0`. For the
refinement each step is mapped to opening, spending, extending or closing one
call, or a stutter (`Moves`).

`WalletAddsUp` is about the account as calls leave it, and assumes
`OneOpen`: no two calls of the account are in progress at once. The next call may
open as soon as one is over, any number of them, and the sweeps, ends, status
writes and repeated answers of one call still race. A session tops its
reservation up out of the copy of the wallet it made when the call began.
`Backing` says what that copy is worth:
until the reserve is locked the copy may miss a credit and no more; after it,
what the session has left is within its copy, and the copy within the account
plus the change to be flushed, which is why no debit meets the floor at zero.
The hypothesis `OnlyCredits` (nobody takes money out of the
wallet during a call) is needed: TLC finds the copy spending what a debit took
without it.

`NobodyOwesMore` needs neither hypothesis, and holds through deaths. What the debt
ought to be cannot be an invariant, because a session writes its copy over whatever
the others wrote; what it can be at most is. `Owing` says it of one call: what the
session found owed when it began (its copy less its own accrual) is no more than the
opening debt and what the *other* calls accrued. That bound only ever grows, so a
copy stays within it however old it is, and a session that is metered again after a
death starts from an accrual that Redis has. Each action moves the debt and one
call's accrual together (`Owes`), and `Sums` carries that over to the others.

*ACD.* `HandedCallsRecorded` needs to know what each task carries: `QueueInv` says
for every step what its task may carry (`TaskOK`), that calls which did not join
are in neither store, and that a row handed over is settled with its agent. The
two theorems without crashes add `WaiterInv`, that a task which goes on without its
call leaves one that no longer waits, and `ClaimInv`, that an agent about to be
told of a call was given it; a crash breaks exactly these, which is why they are
separate. `OneCallPerAvailability` compares two counters that different steps
advance; `Budget` counts in the tasks between them: calls handed to an agent, and
runs that hold its claim, are together no more than its updates and supervisions.

*SmartCall.* A call that is over is settled because the task that ended it finalises
the session before it stores the terminal status, and because a set-up that comes
late finds that status. The invariant (`CallsInv`) has a part for each task
(`TaskInv`: what it carries by its position, what its copy of the record can have
been, what it heard of the session), one for each call (`CallInv`, with `Ended`
for the calls that are over: who still has to settle, or that it is settled), one
for the locks, and that a call has one set-up (`OneSetUp`). `StepKeeps` goes
through the positions of a task. The two hypotheses are needed: with `Rejecting` the theorem is
false (`smart_rejected`); with `Hasty` an end in the middle of a set-up looks before
the session is opened, and stores "ended" over it. A failure is only ever one of the call
whose handler met it (`Accounted`, `Rowed`), so it excuses no other call.

*Checkout and Refunds.* `CreditedOnce` is not inductive because the metadata is
written back from copies. `TopUpInv` says who may be between claim and credit (the holder of
the lock, or a verification of a completed transaction), that the first to
complete wrote the claim, and that a copy taken under the lock is fresh; its last conjunct, `OneCredit`,
holds only while not both mishaps happened (`Harmless`). Refunds
enter through one lemma, `StepOfCheckout`: a refund's step is for the purchase a
change of status or a death. `KeyInv` is about the other half: of the requests
under one key one has a row, as the unique index says, only that one reaches the
gateway, and what the gateway refunded for it is at most the answer it got and
those that were lost. `LedgerInv` goes on from there when there is one key
(`OneKey`): the gateway's one refund belongs to the request that has the row, the
row carries its amount and is in progress or completed, and the event finds that
row, by the gateway's id or because it is the one in progress, whichever of
answer and event comes first.

*Webhooks.* The counter in a row never runs ahead of the attempts made (`CountsOK`),
and an attempt at a delivered event exists only if it overlapped the one that
delivered it (`AloneOK`).

*Campaigns.* `PromiseInv` keeps that a run at work on the recipients found the
campaign running, which it then stays or has completed (`Founded`), and that a
completed campaign has nobody pending. Each action is then mapped to a step of `SendOnce` or a
stutter. `SlotsInv` counts, with the cardinality theorems of the library, that the
messages sent in the hour are among the slots reserved. `SentIsDelivered` is inductive
with `PromiseInv`: a run about to deliver has a recipient no other run has.
`LimitInv` is about the
memory of the one run at work: what it counted covers everything that was sent
today, which a second run at the same time would not see.

*Challenges.* The partial unique index and the conditional updates give `CodeInv`: a
superseded code has one successor, and the pending one none. A request's status,
its approval under way and the history of credits agree case by case
(`RequestInv`); the codes' steps touch none of them (`StepOfRequests`).
`ChallengesPaid` is inductive with the types; its proof is the change of two sums.

Proving was also a check of the model. `OverIsSettled` failed at first at a set-up that
waits for another call's end to fail: the code goes on there
(`smart-router.ts:1201`), and the model did not.

Every safety invariant and action property of the passing runs has a theorem, but for
`OwnerIsFree`, which is only model-checked. Where one is false in general its theorem
names the hypothesis: no deaths (`MaxCrashes = 0`) for the queues and `CallLedger`, `OneOpen`
and `OnlyCredits` for `WalletAccounted`, `SharedLock` for `CreditedOnce`, `OneKey` for
`LedgerAgrees`, `Hasty` and `Rejecting` off for `SettledWhenOver`; what a property
excepts by itself is in the list of section 3. Out of the provers' reach are liveness
under fairness, `ENABLED`, and what a recursive operator computes for every input
(`SimulateCharge`); these stay with TLC.

## 5. Bounds and abstractions

* Time is a clock per call that ticks while the call is metered; the sweep
  charges what passed since the last one. The hard stop, the daily limit and
  the maximal duration are compared with it as in the code; the change of the
  day is left out.
* One account. Calls billed to a user instead of an organisation have no
  account row and are not modelled.
* A session's lock in Redis is exclusive. The real one expires after five
  seconds; what two handlers of one session would do is not modelled.
* Feature surcharges (recording, translation) are part of the one rate.
* `assignPlanToOrganization` is not an action: the plan is a constant.
* A failed Redis or Postgres command is a crash of its handler, except where
  the code catches it, which the models follow (`RoomLost`, `ClearRoom`).
* A purchase is one transaction, a campaign one campaign of a business, a
  challenge the codes of one customer and purpose: rows of different owners share
  nothing but the wallet. The roll-over of the hour and of the day, which only
  adds slots, is left out of `Campaigns`.
* Amounts in `Refunds`, prices of messages and credits are one or two units: what
  matters is whether a sum is reached.
* In the runs of `SmartCall` people and the provider end a call with
  "cancelled"; "ended" comes from the watchdog, the billing engine and the next
  call, "failed" from the provider's timeout and a failed set-up. The other
  terminal statuses have the transitions of "cancelled".
* `MaxClock`, `MaxAdjustments`, `MaxCrashes`, `MaxUpdates`, `MaxSupervisions`,
  `MaxHangUps`, `MaxToggles`, `MaxRequests`, `MaxLost`, `MaxBroken`, `MaxOutside`,
  `MaxMishaps`, `MaxEvents`, `Tasks`, `Runs`, `Refs` and `Challenges` bound what
  happens in a run; the actions' guards and the task slots are the only places
  they appear. Two handlers are the fewest that race, and the hazards in `PROJECT.json`
  need two handlers and at most two faults, but for the lock deleted by name, which
  takes a third call and is listed among the exceptions.
* `BatchLimit` is the sweep's 100 rows, one in the run; `Failing` and
  `Incomplete` switch on, or name, the failures that the code catches (a settlement
  or history row, a conversation without its participants).

## 6. Plan

Done: billing with its abstract ledger, queues, app and inbound phone calls,
payments and refunds, webhooks, message credits, campaigns with their abstract
promise, business OTP, and the proofs above. What would come next, in this order:

1. `IncomingCalls`: the 45 s queue of ringing calls with its copy in memory,
   composed with `SmartCall`.
2. Outbound phone legs, the fallback from app to phone and conferences in
   `SmartCall`; an abstract call lifecycle that it implements.
3. The translator bot's start, retry and watchdog.

To run: `tlc -config billing_two.cfg MCBilling`, and `tlapm BillingProofs.tla`.
