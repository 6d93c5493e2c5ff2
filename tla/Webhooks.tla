------------------------------ MODULE Webhooks ------------------------------
(***************************************************************************)
(* The delivery of an organisation's events to its webhook endpoints         *)
(* (server/modules/webhooks/service.ts): the first attempt when an event is  *)
(* dispatched, and the sweep that each instance of the server runs every     *)
(* five minutes to repeat the attempts that failed.                          *)
(*                                                                           *)
(* An attempt works on the copy of the delivery its sweep read, counts from  *)
(* the copy's counter, and stores its outcome by the delivery's id alone.    *)
(***************************************************************************)
EXTENDS Naturals, FiniteSets

CONSTANTS
    Endpoints,     \* bound: the rows of webhook_endpoints
    Deliveries,    \* the deliveries of events
    EndpointOf,    \* the endpoint each is for
    Instances,     \* the servers that dispatch and sweep
    Retries,       \* Len(RETRY_DELAYS_MS): attempts after the first
    BatchLimit,    \* the rows one sweep reads, 100 in the code
    MaxToggles,    \* bound: times an endpoint is switched off or on or deleted
    MaxLost,       \* bound: answers of the endpoint that are lost or cannot be stored
    MaxCrashes     \* bound: instances that die

ASSUME WebhookAssumption ==
    /\ EndpointOf \in [Deliveries -> Endpoints]
    /\ Retries \in Nat /\ BatchLimit \in Nat \ {0}
    /\ MaxToggles \in Nat /\ MaxLost \in Nat /\ MaxCrashes \in Nat

VARIABLES
    endpoint,    \* webhook_endpoints: whether each exists and is active
    delivery,    \* webhook_deliveries
    attempts,    \* the attempts under way, by instance and delivery
    accepted,    \* external: how often the endpoint accepted the event
    tried,       \* history: how many attempts were made
    overlapped,  \* history: the deliveries attempted twice at once
    toggles, lost, crashes     \* histories

histories == <<toggles, lost, crashes>>
vars == <<endpoint, delivery, attempts, accepted, tried, overlapped, histories>>

Idle == [pc |-> "idle"]
NoDelivery == [status |-> "none", attempts |-> 0, due |-> TRUE]

\* due says that nextRetryAt is null or has passed.
Delivery == [status : {"none", "pending", "failed", "delivered", "exhausted", "deleted"},
             attempts : Nat, due : BOOLEAN]
Attempt == [pc : {"endpoint", "post", "delivered", "failed"}, attempts : Nat] \cup {Idle}

Init ==
    /\ endpoint = [e \in Endpoints |-> "active"]
    /\ delivery = [d \in Deliveries |-> NoDelivery]
    /\ attempts = [i \in Instances |-> [d \in Deliveries |-> Idle]]
    /\ accepted = [d \in Deliveries |-> 0]
    /\ tried = [d \in Deliveries |-> 0]
    /\ overlapped = {}
    /\ toggles = 0 /\ lost = 0 /\ crashes = 0

---------------------------------------------------------------------------
Attempting(d) == {i \in Instances : attempts[i][d] # Idle}
At(i, d, pc) == attempts[i][d].pc = pc

Active(d) == endpoint[EndpointOf[d]] = "active"

Go(i, d, pc) == attempts' = [attempts EXCEPT ![i][d].pc = pc]
Stop(i, d) == attempts' = [attempts EXCEPT ![i][d] = Idle]

\* dispatchEvent: the row, and at once the first attempt.
Dispatch(i, d) ==
    /\ Active(d) /\ delivery[d].status = "none"
    /\ delivery' = [delivery EXCEPT ![d].status = "pending"]
    /\ attempts' = [attempts EXCEPT ![i][d] = [pc |-> "post", attempts |-> 1]]
    /\ UNCHANGED <<endpoint, accepted, tried, overlapped, histories>>

Due_AnyStatus == {d \in Deliveries : delivery[d].due /\ delivery[d].status # "none"}
Due == {d \in Deliveries : delivery[d].due /\ delivery[d].status = "failed"}

\* The query has a limit and no order: any rows that are due, those of an
\* inactive endpoint among them.
Batches ==
    {b \in SUBSET Due : Cardinality(b) = IF Cardinality(Due) < BatchLimit THEN Cardinality(Due)
                                         ELSE BatchLimit}

\* retryDueWebhookDeliveries reads what is due. An attempt takes ten seconds
\* at most, so a server has finished one sweep when it begins the next.
Sweep(i) ==
    /\ \A d \in Deliveries : attempts[i][d] = Idle
    /\ Due # {}
    /\ \E batch \in Batches :
         /\ attempts' = [attempts EXCEPT ![i] =
              [d \in Deliveries |-> IF d \in batch
                                    THEN [pc |-> "endpoint", attempts |-> delivery[d].attempts + 1]
                                    ELSE Idle]]
         /\ overlapped' = overlapped \cup {d \in batch : Attempting(d) # {}}
    /\ UNCHANGED <<endpoint, delivery, accepted, tried, histories>>

\* It reads the endpoints, and leaves those alone that are gone or inactive.
ReadEndpoints(i) ==
    /\ \E d \in Deliveries : At(i, d, "endpoint")
    /\ attempts' = [attempts EXCEPT ![i] =
         [d \in Deliveries |-> IF @[d].pc # "endpoint" THEN @[d]
                               ELSE IF Active(d) THEN [@[d] EXCEPT !.pc = "post"]
                               ELSE Idle]]
    /\ UNCHANGED <<endpoint, delivery, accepted, tried, overlapped, histories>>

\* attemptDelivery: the endpoint accepts the event; or it refuses, cannot be
\* reached or is not a safe target; or it accepts and the answer comes too
\* late, or cannot be stored.
Post(i, d) ==
    /\ At(i, d, "post")
    /\ tried' = [tried EXCEPT ![d] = @ + 1]
    /\ \/ /\ Go(i, d, "delivered")
          /\ accepted' = [accepted EXCEPT ![d] = @ + 1]
          /\ UNCHANGED lost
       \/ /\ Go(i, d, "failed")
          /\ UNCHANGED <<accepted, lost>>
       \/ /\ Go(i, d, "failed")
          /\ lost < MaxLost /\ lost' = lost + 1
          /\ accepted' = [accepted EXCEPT ![d] = @ + 1]
    /\ UNCHANGED <<endpoint, delivery, overlapped, toggles, crashes>>

\* A row that was deleted with its endpoint is not there to be updated.
Store(d, status, n, due) ==
    delivery' = IF delivery[d].status = "deleted" THEN delivery
                ELSE [delivery EXCEPT ![d] = [status |-> status, attempts |-> n, due |-> due]]

RecordDelivered(i, d) ==
    /\ At(i, d, "delivered")
    /\ Store(d, "delivered", attempts[i][d].attempts, delivery[d].due)
    /\ Stop(i, d)
    /\ UNCHANGED <<endpoint, accepted, tried, overlapped, histories>>

StatusAfter_Early(n) == IF n >= Retries THEN "exhausted" ELSE "failed"
StatusAfter_Pending(n) == IF n > Retries THEN "exhausted" ELSE "pending"
StatusAfter(n) == IF n > Retries THEN "exhausted" ELSE "failed"

\* recordFailedAttempt
RecordFailed(i, d) ==
    /\ At(i, d, "failed")
    /\ LET n == attempts[i][d].attempts
       IN  Store(d, StatusAfter(n), n, n > Retries)
    /\ Stop(i, d)
    /\ UNCHANGED <<endpoint, accepted, tried, overlapped, histories>>

\* nextRetryAt passes.
BecomeDue(d) ==
    /\ delivery[d].status = "failed" /\ ~delivery[d].due
    /\ delivery' = [delivery EXCEPT ![d].due = TRUE]
    /\ UNCHANGED <<endpoint, attempts, accepted, tried, overlapped, histories>>

\* setWebhookEndpointActive
Toggle(e) ==
    /\ endpoint[e] # "deleted" /\ toggles < MaxToggles
    /\ endpoint' = [endpoint EXCEPT ![e] = IF @ = "active" THEN "inactive" ELSE "active"]
    /\ toggles' = toggles + 1
    /\ UNCHANGED <<delivery, attempts, accepted, tried, overlapped, lost, crashes>>

\* deleteWebhookEndpoint: its deliveries go with it (ON DELETE CASCADE).
Delete(e) ==
    /\ endpoint[e] # "deleted" /\ toggles < MaxToggles
    /\ endpoint' = [endpoint EXCEPT ![e] = "deleted"]
    /\ delivery' = [d \in Deliveries |->
                       IF EndpointOf[d] # e \/ delivery[d].status = "none" THEN delivery[d]
                       ELSE [NoDelivery EXCEPT !.status = "deleted"]]
    /\ toggles' = toggles + 1
    /\ UNCHANGED <<attempts, accepted, tried, overlapped, lost, crashes>>

Crash(i) ==
    /\ crashes < MaxCrashes
    /\ \E d \in Deliveries : attempts[i][d] # Idle
    /\ attempts' = [attempts EXCEPT ![i] = [d \in Deliveries |-> Idle]]
    /\ crashes' = crashes + 1
    /\ UNCHANGED <<endpoint, delivery, accepted, tried, overlapped, toggles, lost>>

---------------------------------------------------------------------------
Attend(i) ==
    \/ ReadEndpoints(i)
    \/ \E d \in Deliveries : Post(i, d) \/ RecordDelivered(i, d) \/ RecordFailed(i, d)

Next ==
    \/ \E i \in Instances :
         \/ Sweep(i) \/ Attend(i) \/ Crash(i)
         \/ \E d \in Deliveries : Dispatch(i, d)
    \/ \E d \in Deliveries : BecomeDue(d)
    \/ \E e \in Endpoints : Toggle(e) \/ Delete(e)

Spec == Init /\ [][Next]_vars

\* Time passes, the scheduler of every instance sweeps every five minutes,
\* and an attempt ends, by its timeout if nothing else.
Fairness ==
    /\ \A d \in Deliveries : WF_vars(BecomeDue(d))
    /\ \A i \in Instances : WF_vars(Sweep(i)) /\ WF_vars(Attend(i))

FairSpec == Spec /\ Fairness

---------------------------------------------------------------------------
(* Properties *)

TypeOK ==
    /\ endpoint \in [Endpoints -> {"active", "inactive", "deleted"}]
    /\ delivery \in [Deliveries -> Delivery]
    /\ attempts \in [Instances -> [Deliveries -> Attempt]]
    /\ accepted \in [Deliveries -> Nat]
    /\ tried \in [Deliveries -> Nat]
    /\ overlapped \subseteq Deliveries
    /\ toggles \in Nat /\ lost \in Nat /\ crashes \in Nat

\* A delivery is given up only after every attempt it is due was made,
\* whatever sweeps overlapped and whichever instance died (RETRY_DELAYS_MS,
\* recordFailedAttempt).
ExhaustedAfterAllAttempts ==
    \A d \in Deliveries :
        delivery[d].status = "exhausted" => tried[d] >= Retries + 1

\* A delivery that was made is never made again or called failed, if no two
\* attempts at it overlapped (attemptDelivery, retryDueWebhookDeliveries).
DeliveredIsFinal ==
    [][\A d \in Deliveries : (delivery[d].status = "delivered" /\ d \notin overlapped')
         => delivery'[d].status \in {"delivered", "deleted"} /\ tried'[d] = tried[d]]_vars

\* Nobody attempts a delivery that is pending: its first attempt died.
Stranded(d) == crashes > 0 /\ delivery[d].status = "pending" /\ Attempting(d) = {}

\* The due deliveries of inactive endpoints, which no sweep attempts or settles,
\* can fill the whole of every batch.
Crowded ==
    Cardinality({d \in Due : endpoint[EndpointOf[d]] = "inactive"}) >= BatchLimit

\* Every event is delivered or given up, unless from some time on its endpoint
\* stays switched off or deleted, the delivery's first attempt has died, or
\* others that nobody will make crowd it out of the sweep's batch.
DeliveriesResolve ==
    \A d \in Deliveries :
        delivery[d].status \in {"pending", "failed"} ~>
            (\/ delivery[d].status \in {"delivered", "exhausted"}
             \/ [](~Active(d) \/ Stranded(d) \/ Crowded))
=============================================================================
