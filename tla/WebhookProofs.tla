---------------------------- MODULE WebhookProofs ----------------------------
(***************************************************************************)
(* What TLAPS proves of the webhook deliveries, for any number of events,    *)
(* servers and retries: an event is given up only after all its attempts,    *)
(* and a delivery that was made stays made unless two attempts overlapped.   *)
(***************************************************************************)
EXTENDS Webhooks, TLAPS

\* The counters never run ahead of the attempts that were made.
CountsOK ==
    \A d \in Deliveries :
        /\ delivery[d].attempts <= tried[d]
        /\ delivery[d].status = "exhausted" => delivery[d].attempts > Retries
        /\ \A i \in Instances :
             /\ attempts[i][d].pc \in {"endpoint", "post"} =>
                  attempts[i][d].attempts <= tried[d] + 1
             /\ attempts[i][d].pc \in {"delivered", "failed"} =>
                  attempts[i][d].attempts <= tried[d]

\* A delivery is attempted by one server unless the history says otherwise,
\* and by none before it was dispatched and once it was made.
AloneOK ==
    \A d \in Deliveries :
        /\ delivery[d].status = "none" => \A i \in Instances : attempts[i][d] = Idle
        /\ d \notin overlapped =>
             /\ delivery[d].status = "delivered" => \A i \in Instances : attempts[i][d] = Idle
             /\ \A i, j \in Instances : attempts[i][d] # Idle /\ attempts[j][d] # Idle => i = j

Inv == TypeOK /\ CountsOK /\ AloneOK

---------------------------------------------------------------------------
(* The components of the state, one at a time *)

LEMMA InitInv == ASSUME Init PROVE Inv
<1>1. TypeOK
  BY DEF Init, TypeOK, NoDelivery, Delivery, Attempt, Idle
<1>2. CountsOK
  BY WebhookAssumption DEF Init, CountsOK, NoDelivery, Idle
<1>3. AloneOK
  BY DEF Init, AloneOK, NoDelivery, Idle
<1> QED BY <1>1, <1>2, <1>3 DEF Inv

LEMMA AttemptRecord ==
    ASSUME NEW pc \in {"endpoint", "post", "delivered", "failed"}, NEW n \in Nat
    PROVE  [pc |-> pc, attempts |-> n] \in Attempt
<1>1. [pc |-> pc, attempts |-> n] \in [pc : {"endpoint", "post", "delivered", "failed"},
                                       attempts : Nat]
  OBVIOUS
<1> QED BY <1>1 DEF Attempt

\* What Go and Stop do to the attempts, and Store to a delivery.
WithAttempt(i, d, new) == [attempts EXCEPT ![i][d] = new]
WithDelivery(d, new) == [delivery EXCEPT ![d] = new]

LEMMA AttemptSet ==
    ASSUME TypeOK, NEW i \in Instances, NEW d \in Deliveries, NEW new \in Attempt
    PROVE  /\ WithAttempt(i, d, new) \in [Instances -> [Deliveries -> Attempt]]
           /\ WithAttempt(i, d, new)[i][d] = new
           /\ \A j \in Instances, e \in Deliveries :
                (j # i \/ e # d) => WithAttempt(i, d, new)[j][e] = attempts[j][e]
BY DEF TypeOK, WithAttempt

LEMMA AttemptGoes ==
    ASSUME TypeOK, NEW i \in Instances, NEW d \in Deliveries,
           NEW pc \in {"post", "delivered", "failed"}, attempts[i][d] # Idle, Go(i, d, pc)
    PROVE  /\ [pc |-> pc, attempts |-> attempts[i][d].attempts] \in Attempt
           /\ attempts' = WithAttempt(i, d, [pc |-> pc, attempts |-> attempts[i][d].attempts])
<1>1. attempts[i][d] \in [pc : {"endpoint", "post", "delivered", "failed"}, attempts : Nat]
  BY DEF TypeOK, Attempt
<1>2. PICK p \in {"endpoint", "post", "delivered", "failed"}, n \in Nat :
         attempts[i][d] = [pc |-> p, attempts |-> n]
  BY <1>1
<1>3. attempts[i][d].attempts = n
  BY <1>2
<1>4. [attempts[i][d] EXCEPT !.pc = pc] = [pc |-> pc, attempts |-> n]
  BY <1>2
<1>5. [pc |-> pc, attempts |-> n] \in Attempt
  BY AttemptRecord
<1>6. attempts' = [attempts EXCEPT ![i] = [attempts[i] EXCEPT ![d] =
                     [attempts[i][d] EXCEPT !.pc = pc]]]
  BY DEF Go
<1>7. attempts' = WithAttempt(i, d, [pc |-> pc, attempts |-> n])
  BY <1>4, <1>6 DEF WithAttempt
<1> QED BY <1>3, <1>5, <1>7

LEMMA DeliverySet ==
    ASSUME TypeOK, NEW d \in Deliveries, NEW new \in Delivery
    PROVE  /\ WithDelivery(d, new) \in [Deliveries -> Delivery]
           /\ WithDelivery(d, new)[d] = new
           /\ \A e \in Deliveries : e # d => WithDelivery(d, new)[e] = delivery[e]
BY DEF TypeOK, WithDelivery

---------------------------------------------------------------------------
(* One lemma per action *)

LEMMA DispatchStep ==
    ASSUME Inv, NEW i \in Instances, NEW d \in Deliveries, Dispatch(i, d)
    PROVE  Inv'
<1>1. TypeOK /\ delivery[d] \in Delivery /\ tried[d] \in Nat
  BY DEF Inv, TypeOK
<1>2. /\ delivery' \in [Deliveries -> Delivery]
      /\ delivery'[d].status = "pending" /\ delivery'[d].attempts = delivery[d].attempts
      /\ \A e \in Deliveries : e # d => delivery'[e] = delivery[e]
  <2>1. [delivery[d] EXCEPT !.status = "pending"] \in Delivery
    BY <1>1 DEF Delivery
  <2>2. delivery' = WithDelivery(d, [delivery[d] EXCEPT !.status = "pending"])
    BY DEF Dispatch, WithDelivery
  <2>3. /\ [delivery[d] EXCEPT !.status = "pending"].status = "pending"
        /\ [delivery[d] EXCEPT !.status = "pending"].attempts = delivery[d].attempts
    BY <1>1 DEF Delivery
  <2> QED BY ZenonT(30), <1>1, <2>1, <2>2, <2>3, DeliverySet
<1>3. /\ attempts' \in [Instances -> [Deliveries -> Attempt]]
      /\ attempts'[i][d] = [pc |-> "post", attempts |-> 1]
      /\ \A j \in Instances, e \in Deliveries :
           (j # i \/ e # d) => attempts'[j][e] = attempts[j][e]
  <2>1. [pc |-> "post", attempts |-> 1] \in Attempt
    BY AttemptRecord
  <2>2. attempts' = WithAttempt(i, d, [pc |-> "post", attempts |-> 1])
    BY DEF Dispatch, WithAttempt
  <2> QED BY <1>1, <2>1, <2>2, AttemptSet
<1>4. TypeOK'
  BY <1>1, <1>2, <1>3 DEF TypeOK, Dispatch, histories
<1>5. CountsOK'
  BY <1>1, <1>2, <1>3 DEF Inv, CountsOK, Dispatch
<1>6. AloneOK'
  BY <1>2, <1>3 DEF Inv, AloneOK, Dispatch
<1> QED BY <1>4, <1>5, <1>6 DEF Inv

\* A sweep attempts what has failed, and the history keeps what another
\* server was attempting.
LEMMA SweepStep ==
    ASSUME Inv, NEW i \in Instances, Sweep(i)
    PROVE  Inv'
<1>1. TypeOK /\ \A d \in Deliveries : delivery[d] \in Delivery /\ tried[d] \in Nat
  BY DEF Inv, TypeOK
<1> PICK batch \in Batches :
         /\ attempts' = [attempts EXCEPT ![i] =
              [d \in Deliveries |-> IF d \in batch
                                    THEN [pc |-> "endpoint", attempts |-> delivery[d].attempts + 1]
                                    ELSE Idle]]
         /\ overlapped' = overlapped \cup {d \in batch : Attempting(d) # {}}
  BY DEF Sweep
<1>0. batch \subseteq Due
  BY DEF Batches
<1> DEFINE mine == [d \in Deliveries |-> IF d \in batch
                      THEN [pc |-> "endpoint", attempts |-> delivery[d].attempts + 1] ELSE Idle]
<1>2. mine \in [Deliveries -> Attempt]
  <2>1. ASSUME NEW d \in Deliveries
        PROVE  [pc |-> "endpoint", attempts |-> delivery[d].attempts + 1] \in Attempt
    <3>1. delivery[d].attempts + 1 \in Nat
      BY <1>1 DEF Delivery
    <3> QED BY <3>1, AttemptRecord
  <2>2. Idle \in Attempt
    BY DEF Attempt
  <2> QED BY <2>1, <2>2
<1>3. /\ attempts' \in [Instances -> [Deliveries -> Attempt]]
      /\ attempts'[i] = mine
      /\ \A j \in Instances : j # i => attempts'[j] = attempts[j]
  <2> HIDE DEF mine
  <2>1. attempts' = [attempts EXCEPT ![i] = mine]
    BY DEF mine
  <2> QED BY <1>1, <1>2, <2>1 DEF TypeOK
<1>4. UNCHANGED <<delivery, tried>>
  BY DEF Sweep
<1>5. TypeOK'
  BY <1>0, <1>1, <1>3 DEF TypeOK, Sweep, histories, Due
<1>6. \A d \in Deliveries :
        IF d \in batch THEN attempts'[i][d] = [pc |-> "endpoint", attempts |-> delivery[d].attempts + 1]
                     ELSE attempts'[i][d] = Idle
  BY <1>3
<1>7. CountsOK'
  <2> SUFFICES ASSUME NEW d \in Deliveries, NEW j \in Instances
               PROVE  /\ attempts'[j][d].pc \in {"endpoint", "post"} =>
                           attempts'[j][d].attempts <= tried[d] + 1
                      /\ attempts'[j][d].pc \in {"delivered", "failed"} =>
                           attempts'[j][d].attempts <= tried[d]
    BY <1>4 DEF Inv, CountsOK
  <2>1. CASE j # i
    BY <1>3, <2>1 DEF Inv, CountsOK
  <2>2. CASE j = i /\ d \in batch
    <3>1. delivery[d].attempts <= tried[d] /\ delivery[d].attempts \in Nat
      BY <1>1 DEF Inv, CountsOK, Delivery
    <3>2. attempts'[j][d] = [pc |-> "endpoint", attempts |-> delivery[d].attempts + 1]
      BY <1>6, <2>2
    <3> QED BY <1>1, <3>1, <3>2
  <2>3. CASE j = i /\ d \notin batch
    <3>1. attempts'[j][d] = [pc |-> "idle"]
      BY <1>6, <2>3 DEF Idle
    <3> QED BY <3>1
  <2> QED BY <2>1, <2>2, <2>3
<1>8. AloneOK'
  <2> SUFFICES ASSUME NEW d \in Deliveries
               PROVE  /\ delivery[d].status = "none" => \A j \in Instances : attempts'[j][d] = Idle
                      /\ d \notin overlapped' =>
                           /\ delivery[d].status = "delivered" => \A j \in Instances : attempts'[j][d] = Idle
                           /\ \A j, k \in Instances :
                                attempts'[j][d] # Idle /\ attempts'[k][d] # Idle => j = k
    BY <1>4 DEF AloneOK
  <2>1. CASE d \in batch
    <3>1. delivery[d].status = "failed"
      BY <1>0, <2>1 DEF Due
    <3>2. d \notin overlapped' => \A j \in Instances : attempts[j][d] = Idle
      BY <2>1 DEF Attempting
    <3> QED BY <1>3, <3>1, <3>2
  <2>2. CASE d \notin batch
    BY <1>3, <1>6, <2>2 DEF Inv, AloneOK
  <2> QED BY <2>1, <2>2
<1> QED BY <1>5, <1>7, <1>8 DEF Inv

\* An attempt that is not Idle, and what Idle is not.
LEMMA AttemptFields ==
    ASSUME TypeOK, NEW i \in Instances, NEW d \in Deliveries, NEW pc,
           pc \in {"endpoint", "post", "delivered", "failed"}, At(i, d, pc)
    PROVE  attempts[i][d] # Idle /\ attempts[i][d].attempts \in Nat
BY DEF TypeOK, Attempt, At, Idle

LEMMA ReadEndpointsStep ==
    ASSUME Inv, NEW i \in Instances, ReadEndpoints(i)
    PROVE  Inv'
<1>1. TypeOK /\ \A d \in Deliveries : tried[d] \in Nat
  BY DEF Inv, TypeOK
<1> DEFINE next(d) == IF attempts[i][d].pc # "endpoint" THEN attempts[i][d]
                      ELSE IF Active(d) THEN [attempts[i][d] EXCEPT !.pc = "post"]
                      ELSE Idle
<1>2. ASSUME NEW d \in Deliveries, attempts[i][d].pc = "endpoint"
      PROVE  /\ attempts[i][d] # Idle /\ attempts[i][d].attempts \in Nat
             /\ [attempts[i][d] EXCEPT !.pc = "post"] =
                  [pc |-> "post", attempts |-> attempts[i][d].attempts]
             /\ [pc |-> "post", attempts |-> attempts[i][d].attempts] \in Attempt
  <2>1. attempts[i][d] \in [pc : {"endpoint", "post", "delivered", "failed"}, attempts : Nat]
    BY <1>1, <1>2 DEF TypeOK, Attempt, Idle
  <2>2. attempts[i][d] # Idle /\ attempts[i][d].attempts \in Nat
    BY <1>1, <1>2, AttemptFields DEF At
  <2>3. PICK p \in {"endpoint", "post", "delivered", "failed"}, n \in Nat :
           attempts[i][d] = [pc |-> p, attempts |-> n]
    BY <2>1
  <2>4. [attempts[i][d] EXCEPT !.pc = "post"] = [pc |-> "post", attempts |-> n]
    BY <2>3
  <2> QED BY <2>2, <2>3, <2>4, AttemptRecord
<1>3. ASSUME NEW d \in Deliveries
      PROVE  next(d) \in Attempt
  <2>1. attempts[i][d] \in Attempt /\ Idle \in Attempt
    BY <1>1 DEF TypeOK, Attempt
  <2>2. CASE attempts[i][d].pc = "endpoint"
    BY <1>2, <2>1, <2>2
  <2>3. CASE attempts[i][d].pc # "endpoint"
    BY <2>1, <2>3
  <2> QED BY <2>2, <2>3
<1>4. /\ attempts' \in [Instances -> [Deliveries -> Attempt]]
      /\ \A d \in Deliveries : attempts'[i][d] = next(d)
      /\ \A j \in Instances : j # i => attempts'[j] = attempts[j]
  <2>1. attempts' = [attempts EXCEPT ![i] = [d \in Deliveries |-> next(d)]]
    BY DEF ReadEndpoints
  <2> HIDE DEF next
  <2> QED BY <1>1, <1>3, <2>1 DEF TypeOK
<1>5. UNCHANGED <<delivery, tried, overlapped>>
  BY DEF ReadEndpoints
<1>6. TypeOK'
  BY <1>1, <1>4 DEF TypeOK, ReadEndpoints, histories
<1>7. ASSUME NEW d \in Deliveries
      PROVE  \/ attempts'[i][d] = attempts[i][d]
             \/ attempts'[i][d] = Idle
             \/ /\ attempts[i][d] # Idle /\ attempts[i][d].pc = "endpoint"
                /\ attempts'[i][d] = [pc |-> "post", attempts |-> attempts[i][d].attempts]
  BY <1>2, <1>4
<1>8. CountsOK'
  <2> SUFFICES ASSUME NEW d \in Deliveries, NEW j \in Instances
               PROVE  /\ attempts'[j][d].pc \in {"endpoint", "post"} =>
                           attempts'[j][d].attempts <= tried[d] + 1
                      /\ attempts'[j][d].pc \in {"delivered", "failed"} =>
                           attempts'[j][d].attempts <= tried[d]
    BY <1>5 DEF Inv, CountsOK
  <2>1. CASE attempts'[j][d] = attempts[j][d]
    BY <2>1 DEF Inv, CountsOK
  <2>2. CASE attempts'[j][d] = Idle
    BY <2>2 DEF Idle
  <2>3. CASE /\ attempts[i][d].pc = "endpoint" /\ j = i
             /\ attempts'[j][d] = [pc |-> "post", attempts |-> attempts[i][d].attempts]
    <3>1. attempts[i][d].attempts <= tried[d] + 1
      BY <2>3 DEF Inv, CountsOK
    <3> QED BY <2>3, <3>1
  <2> QED BY <1>4, <1>7, <2>1, <2>2, <2>3
<1>9. AloneOK'
  <2>1. \A j \in Instances, d \in Deliveries : attempts'[j][d] # Idle => attempts[j][d] # Idle
    BY <1>4, <1>7
  <2> QED BY <1>5, <2>1 DEF Inv, AloneOK
<1> QED BY <1>6, <1>8, <1>9 DEF Inv

LEMMA PostStep ==
    ASSUME Inv, NEW i \in Instances, NEW d \in Deliveries, Post(i, d)
    PROVE  Inv'
<1>1. TypeOK /\ attempts[i][d] # Idle /\ attempts[i][d].attempts \in Nat /\ tried[d] \in Nat
  BY AttemptFields DEF Inv, Post, TypeOK
<1>2. PICK pc \in {"delivered", "failed"} : Go(i, d, pc)
  BY DEF Post
<1>3. /\ attempts' \in [Instances -> [Deliveries -> Attempt]]
      /\ attempts'[i][d] = [pc |-> pc, attempts |-> attempts[i][d].attempts]
      /\ \A j \in Instances, e \in Deliveries :
           (j # i \/ e # d) => attempts'[j][e] = attempts[j][e]
  <2> DEFINE new == [pc |-> pc, attempts |-> attempts[i][d].attempts]
  <2>1. new \in Attempt /\ attempts' = WithAttempt(i, d, new)
    BY <1>1, <1>2, AttemptGoes
  <2> HIDE DEF new
  <2>2. /\ attempts' \in [Instances -> [Deliveries -> Attempt]]
        /\ attempts'[i][d] = new
        /\ \A j \in Instances, e \in Deliveries :
             (j # i \/ e # d) => attempts'[j][e] = attempts[j][e]
    BY <1>1, <2>1, AttemptSet
  <2> QED BY <2>2 DEF new
<1>4. UNCHANGED <<delivery, overlapped>>
  BY DEF Post
<1>5. /\ tried' \in [Deliveries -> Nat] /\ tried'[d] = tried[d] + 1
      /\ \A e \in Deliveries : e # d => tried'[e] = tried[e]
  BY <1>1 DEF Post, TypeOK
<1>6. TypeOK'
  <2>1. accepted' \in [Deliveries -> Nat]
    BY <1>1 DEF Post, TypeOK
  <2>2. lost' \in Nat
    BY <1>1 DEF Post, TypeOK
  <2> QED BY <1>1, <1>3, <1>5, <2>1, <2>2 DEF Post, TypeOK
<1>7. CountsOK'
  <2>1. attempts[i][d].attempts <= tried[d] + 1
    BY DEF Inv, CountsOK, Post, At
  <2>2. \A e \in Deliveries : tried'[e] \in Nat /\ tried[e] \in Nat /\ tried[e] <= tried'[e]
    BY <1>1, <1>5 DEF TypeOK
  <2>3. \A e \in Deliveries : delivery[e].attempts \in Nat
    BY <1>1 DEF TypeOK, Delivery
  <2>4. ASSUME NEW e \in Deliveries, NEW j \in Instances
        PROVE  /\ attempts'[j][e].pc \in {"endpoint", "post"} =>
                    attempts'[j][e].attempts <= tried'[e] + 1
               /\ attempts'[j][e].pc \in {"delivered", "failed"} =>
                    attempts'[j][e].attempts <= tried'[e]
    <3>1. CASE j = i /\ e = d
      BY <1>1, <1>3, <1>5, <2>1, <3>1
    <3>2. CASE j # i \/ e # d
      <4>1. /\ attempts[j][e].pc \in {"endpoint", "post"} =>
                 attempts[j][e].attempts \in Nat /\ attempts[j][e].attempts <= tried[e] + 1
            /\ attempts[j][e].pc \in {"delivered", "failed"} =>
                 attempts[j][e].attempts \in Nat /\ attempts[j][e].attempts <= tried[e]
        BY <1>1, AttemptFields DEF Inv, CountsOK, At
      <4> QED BY <1>3, <2>2, <3>2, <4>1
    <3> QED BY <3>1, <3>2
  <2> QED BY <1>4, <2>2, <2>3, <2>4 DEF Inv, CountsOK
<1>8. AloneOK'
  BY <1>1, <1>3, <1>4 DEF Inv, AloneOK
<1> QED BY <1>6, <1>7, <1>8 DEF Inv

\* An attempt ends and stores what it counted, unless the row is gone.
LEMMA RecordStep ==
    ASSUME Inv, NEW i \in Instances, NEW d \in Deliveries,
           NEW status \in {"failed", "delivered", "exhausted"}, NEW due \in BOOLEAN,
           attempts[i][d] # Idle, attempts[i][d].pc \in {"delivered", "failed"},
           attempts[i][d].attempts \in Nat,
           status = "exhausted" => attempts[i][d].attempts > Retries,
           Store(d, status, attempts[i][d].attempts, due), Stop(i, d),
           UNCHANGED <<endpoint, accepted, tried, overlapped, histories>>
    PROVE  Inv'
<1> DEFINE n == attempts[i][d].attempts
           new == [status |-> status, attempts |-> n, due |-> due]
<1>1. TypeOK /\ n \in Nat
  BY DEF Inv
<1>2. n <= tried[d]
  BY DEF Inv, CountsOK
<1>3. /\ attempts' \in [Instances -> [Deliveries -> Attempt]]
      /\ attempts'[i][d] = Idle
      /\ \A j \in Instances, e \in Deliveries :
           (j # i \/ e # d) => attempts'[j][e] = attempts[j][e]
  <2>1. attempts' = WithAttempt(i, d, Idle)
    BY DEF Stop, WithAttempt
  <2>2. Idle \in Attempt
    BY DEF Attempt
  <2> QED BY <1>1, <2>1, <2>2, AttemptSet
<1> HIDE DEF n
<1>4. /\ delivery' \in [Deliveries -> Delivery]
      /\ \/ delivery'[d] = delivery[d] /\ delivery[d].status = "deleted"
         \/ delivery'[d] = new
      /\ \A e \in Deliveries : e # d => delivery'[e] = delivery[e]
  <2>1. CASE delivery[d].status = "deleted"
    <3>1. delivery' = delivery
      BY <2>1 DEF Store
    <3> QED BY <1>1, <2>1, <3>1 DEF TypeOK
  <2>2. CASE delivery[d].status # "deleted"
    <3>1. delivery' = WithDelivery(d, new)
      BY <2>2 DEF Store, WithDelivery, n
    <3>2. new \in Delivery
      BY <1>1 DEF Delivery
    <3> HIDE DEF new
    <3> QED BY <1>1, <3>1, <3>2, DeliverySet
  <2> QED BY <2>1, <2>2
<1>5. TypeOK'
  BY <1>1, <1>3, <1>4 DEF TypeOK, histories
<1>6. CountsOK'
  <2> SUFFICES ASSUME NEW e \in Deliveries
               PROVE  /\ delivery'[e].attempts <= tried[e]
                      /\ delivery'[e].status = "exhausted" => delivery'[e].attempts > Retries
                      /\ \A j \in Instances :
                           /\ attempts'[j][e].pc \in {"endpoint", "post"} =>
                                attempts'[j][e].attempts <= tried[e] + 1
                           /\ attempts'[j][e].pc \in {"delivered", "failed"} =>
                                attempts'[j][e].attempts <= tried[e]
    BY DEF CountsOK
  <2>1. delivery'[e].attempts <= tried[e]
    BY <1>2, <1>4 DEF Inv, CountsOK
  <2>2. delivery'[e].status = "exhausted" => delivery'[e].attempts > Retries
    BY <1>4 DEF Inv, CountsOK, n
  <2>3. ASSUME NEW j \in Instances
        PROVE  /\ attempts'[j][e].pc \in {"endpoint", "post"} =>
                    attempts'[j][e].attempts <= tried[e] + 1
               /\ attempts'[j][e].pc \in {"delivered", "failed"} =>
                    attempts'[j][e].attempts <= tried[e]
    <3>1. CASE j = i /\ e = d
      BY <1>3, <3>1 DEF Idle
    <3>2. CASE j # i \/ e # d
      BY <1>3, <3>2 DEF Inv, CountsOK
    <3> QED BY <3>1, <3>2
  <2> QED BY <2>1, <2>2, <2>3
<1>7. AloneOK'
  <2>1. \A j \in Instances, e \in Deliveries : attempts'[j][e] # Idle => attempts[j][e] # Idle
    BY <1>3
  <2>2. \A e \in Deliveries : delivery'[e].status = "none" => delivery[e].status = "none"
    BY <1>4
  <2>3. d \notin overlapped => \A j \in Instances : attempts'[j][d] = Idle
    BY <1>3 DEF Inv, AloneOK
  <2> QED BY <1>4, <2>1, <2>2, <2>3 DEF Inv, AloneOK
<1> QED BY <1>5, <1>6, <1>7 DEF Inv

LEMMA RecordDeliveredStep ==
    ASSUME Inv, NEW i \in Instances, NEW d \in Deliveries, RecordDelivered(i, d)
    PROVE  Inv'
<1>1. attempts[i][d] # Idle /\ attempts[i][d].attempts \in Nat
  BY AttemptFields DEF Inv, RecordDelivered
<1>2. delivery[d].due \in BOOLEAN
  BY DEF Inv, TypeOK, Delivery
<1> QED BY <1>1, <1>2, RecordStep DEF RecordDelivered, At

LEMMA RecordFailedStep ==
    ASSUME Inv, NEW i \in Instances, NEW d \in Deliveries, RecordFailed(i, d)
    PROVE  Inv'
<1> DEFINE n == attempts[i][d].attempts
<1>1. attempts[i][d] # Idle /\ n \in Nat
  BY AttemptFields DEF Inv, RecordFailed
<1>2. /\ StatusAfter(n) \in {"failed", "delivered", "exhausted"}
      /\ StatusAfter(n) = "exhausted" => n > Retries
      /\ (n > Retries) \in BOOLEAN
  BY DEF StatusAfter
<1> QED BY <1>1, <1>2, RecordStep DEF RecordFailed, At

LEMMA BecomeDueStep ==
    ASSUME Inv, NEW d \in Deliveries, BecomeDue(d)
    PROVE  Inv'
<1>1. TypeOK /\ delivery[d] \in Delivery
  BY DEF Inv, TypeOK
<1>2. /\ delivery' \in [Deliveries -> Delivery]
      /\ delivery'[d].status = delivery[d].status
      /\ delivery'[d].attempts = delivery[d].attempts
      /\ \A e \in Deliveries : e # d => delivery'[e] = delivery[e]
  <2> DEFINE new == [delivery[d] EXCEPT !.due = TRUE]
  <2>1. /\ new \in Delivery /\ new.status = delivery[d].status
        /\ new.attempts = delivery[d].attempts
    BY <1>1 DEF Delivery
  <2>2. delivery' = WithDelivery(d, new)
    BY DEF BecomeDue, WithDelivery
  <2> HIDE DEF new
  <2> QED BY <1>1, <2>1, <2>2, DeliverySet
<1>3. UNCHANGED <<attempts, tried, overlapped>>
  BY DEF BecomeDue
<1>4. TypeOK'
  BY <1>1, <1>2 DEF TypeOK, BecomeDue, histories
<1>5. \A e \in Deliveries : /\ delivery'[e].status = delivery[e].status
                             /\ delivery'[e].attempts = delivery[e].attempts
  BY <1>2
<1>6. CountsOK'
  BY <1>3, <1>5 DEF Inv, CountsOK
<1>7. AloneOK'
  BY <1>3, <1>5 DEF Inv, AloneOK
<1> QED BY <1>4, <1>6, <1>7 DEF Inv

LEMMA ToggleStep == ASSUME Inv, NEW e \in Endpoints, Toggle(e) PROVE Inv'
<1>1. TypeOK'
  BY DEF Inv, TypeOK, Toggle
<1> QED BY <1>1 DEF Inv, CountsOK, AloneOK, Toggle

LEMMA DeleteStep == ASSUME Inv, NEW e \in Endpoints, Delete(e) PROVE Inv'
<1>1. TypeOK
  BY DEF Inv
<1> DEFINE gone == [NoDelivery EXCEPT !.status = "deleted"]
<1>2. gone.status = "deleted" /\ gone.attempts = 0
  BY DEF NoDelivery
<1>3. gone \in Delivery
  <2>1. NoDelivery \in Delivery
    BY DEF NoDelivery, Delivery
  <2> QED BY <2>1 DEF Delivery
<1>4. \A d \in Deliveries :
        \/ delivery'[d] = delivery[d]
        \/ delivery'[d] = gone /\ delivery[d].status # "none"
  BY DEF Delete
<1> HIDE DEF gone
<1>5. delivery' \in [Deliveries -> Delivery]
  <2>1. delivery' = [d \in Deliveries |-> delivery'[d]]
    BY DEF Delete
  <2> QED BY <1>1, <1>3, <1>4, <2>1 DEF TypeOK
<1>6. UNCHANGED <<attempts, tried, overlapped>>
  BY DEF Delete
<1>7. TypeOK'
  <2>1. endpoint' \in [Endpoints -> {"active", "inactive", "deleted"}]
    BY <1>1 DEF TypeOK, Delete
  <2>2. toggles' \in Nat /\ UNCHANGED <<accepted, lost, crashes>>
    BY <1>1 DEF TypeOK, Delete
  <2> QED BY <1>1, <1>5, <1>6, <2>1, <2>2 DEF TypeOK
<1>8. CountsOK'
  <2>1. \A d \in Deliveries : tried[d] \in Nat
    BY <1>1 DEF TypeOK
  <2> QED BY <1>2, <1>4, <1>6, <2>1 DEF Inv, CountsOK
<1>9. AloneOK'
  BY <1>2, <1>4, <1>6 DEF Inv, AloneOK
<1> QED BY <1>7, <1>8, <1>9 DEF Inv

LEMMA CrashStep == ASSUME Inv, NEW i \in Instances, Crash(i) PROVE Inv'
<1>1. TypeOK
  BY DEF Inv
<1>2. Idle \in Attempt
  BY DEF Attempt
<1>3. /\ attempts' \in [Instances -> [Deliveries -> Attempt]]
      /\ \A j \in Instances, d \in Deliveries :
           attempts'[j][d] = Idle \/ attempts'[j][d] = attempts[j][d]
  BY <1>1, <1>2 DEF TypeOK, Crash
<1>4. UNCHANGED <<delivery, tried, overlapped>>
  BY DEF Crash
<1>5. TypeOK'
  BY <1>1, <1>3 DEF TypeOK, Crash
<1>6. CountsOK'
  BY <1>3, <1>4 DEF Inv, CountsOK, Idle
<1>7. AloneOK'
  BY <1>3, <1>4 DEF Inv, AloneOK
<1> QED BY <1>5, <1>6, <1>7 DEF Inv

---------------------------------------------------------------------------
(* The theorems *)

\* The inductive invariant of the deliveries holds.
THEOREM Invariant == Spec => []Inv
<1>1. Init => Inv
  BY InitInv
<1>2. Inv /\ [Next]_vars => Inv'
  <2> SUFFICES ASSUME Inv, [Next]_vars
               PROVE  Inv'
    OBVIOUS
  <2>1. CASE UNCHANGED vars
    BY <2>1 DEF vars, histories, Inv, TypeOK, CountsOK, AloneOK
  <2>2. CASE Next
    BY <2>2, DispatchStep, SweepStep, ReadEndpointsStep, PostStep, RecordDeliveredStep,
       RecordFailedStep, BecomeDueStep, ToggleStep, DeleteStep, CrashStep
    DEF Next, Attend
  <2> QED BY <2>1, <2>2
<1> QED BY <1>1, <1>2, PTL DEF Spec

\* The state of the deliveries and of every attempt under way is well formed.
THEOREM WebhooksTypeCorrect == Spec => []TypeOK
<1>1. Inv => TypeOK
  BY DEF Inv
<1> QED BY <1>1, Invariant, PTL

\* An event is given up only after every attempt it is due was made
\* (RETRY_DELAYS_MS, recordFailedAttempt).
THEOREM GivenUpAfterAllAttempts == Spec => []ExhaustedAfterAllAttempts
<1>1. Inv => ExhaustedAfterAllAttempts
  <2> SUFFICES ASSUME Inv, NEW d \in Deliveries, delivery[d].status = "exhausted"
               PROVE  tried[d] >= Retries + 1
    BY DEF ExhaustedAfterAllAttempts
  <2>1. delivery[d].attempts \in Nat /\ tried[d] \in Nat
    BY DEF Inv, TypeOK, Delivery
  <2> QED BY <2>1, WebhookAssumption DEF Inv, CountsOK
<1> QED BY <1>1, Invariant, PTL

\* A delivery that was made and is attempted by nobody is left alone.
LEMMA LeftAlone ==
    ASSUME Inv, Next, NEW d \in Deliveries,
           delivery[d].status = "delivered", \A i \in Instances : attempts[i][d] = Idle
    PROVE  delivery'[d].status \in {"delivered", "deleted"} /\ tried'[d] = tried[d]
<1>1. TypeOK
  BY DEF Inv
<1>2. CASE \E i \in Instances, e \in Deliveries : Post(i, e)
  <2>1. PICK i \in Instances, e \in Deliveries : Post(i, e)
    BY <1>2
  <2>2. e # d
    BY <2>1 DEF Post, At, Idle
  <2> QED BY <1>1, <2>1, <2>2 DEF Post, TypeOK
<1>3. CASE \E i \in Instances, e \in Deliveries : RecordDelivered(i, e) \/ RecordFailed(i, e)
  <2>1. PICK i \in Instances, e \in Deliveries : RecordDelivered(i, e) \/ RecordFailed(i, e)
    BY <1>3
  <2>2. e # d
    BY <2>1 DEF RecordDelivered, RecordFailed, At, Idle
  <2> QED BY <1>1, <2>1, <2>2 DEF RecordDelivered, RecordFailed, Store, TypeOK
<1>4. CASE \E e \in Deliveries : BecomeDue(e)
  <2>1. PICK e \in Deliveries : BecomeDue(e)
    BY <1>4
  <2>2. e # d
    BY <2>1 DEF BecomeDue
  <2> QED BY <1>1, <2>1, <2>2 DEF BecomeDue, TypeOK
<1>5. CASE \E e \in Endpoints : Delete(e)
  BY <1>5 DEF Delete, NoDelivery
<1>6. CASE \E i \in Instances, e \in Deliveries : Dispatch(i, e)
  <2>1. PICK i \in Instances, e \in Deliveries : Dispatch(i, e)
    BY <1>6
  <2>2. e # d
    BY <2>1 DEF Dispatch
  <2> QED BY <1>1, <2>1, <2>2 DEF Dispatch, TypeOK
<1>7. CASE UNCHANGED <<delivery, tried>>
  BY <1>7
<1> QED
  BY <1>2, <1>3, <1>4, <1>5, <1>6, <1>7 DEF Next, Attend, Sweep, ReadEndpoints, Toggle, Crash

LEMMA OverlappedGrows == ASSUME Next PROVE overlapped \subseteq overlapped'
BY DEF Next, Attend, Sweep, ReadEndpoints, Post, RecordDelivered, RecordFailed, Dispatch,
       BecomeDue, Toggle, Delete, Crash

\* A delivery that was made is neither made again nor called failed, if no two
\* attempts at it overlapped (retryDueWebhookDeliveries).
THEOREM DeliveredStays == Spec => DeliveredIsFinal
<1> DEFINE Final == \A d \in Deliveries : (delivery[d].status = "delivered" /\ d \notin overlapped')
                      => delivery'[d].status \in {"delivered", "deleted"} /\ tried'[d] = tried[d]
<1>1. Inv /\ [Next]_vars => [Final]_vars
  <2> SUFFICES ASSUME Inv, Next, NEW d \in Deliveries,
                      delivery[d].status = "delivered", d \notin overlapped'
               PROVE  delivery'[d].status \in {"delivered", "deleted"} /\ tried'[d] = tried[d]
    OBVIOUS
  <2>1. \A i \in Instances : attempts[i][d] = Idle
    BY OverlappedGrows DEF Inv, AloneOK
  <2> QED BY <2>1, LeftAlone
<1> QED BY <1>1, Invariant, PTL DEF Spec, DeliveredIsFinal
=============================================================================
