----------------------------- MODULE Nats_proofs -----------------------------
(***************************************************************************)
(* Proofs about the NATS components.  NatsConsumer, for any number of      *)
(* instances, messages and deliveries and any set of options.  NatsBus,    *)
(* for any number of calls and faults: the key-value store loses no        *)
(* confirmed write, provisioned subjects stay captured, and a scheduled    *)
(* message fires at most once for each duplicate window.                   *)
(***************************************************************************)
EXTENDS NatsConsumer, NatsBus, FiniteSetTheorems, TLAPS

-----------------------------------------------------------------------------
(* The consumer. *)

(* What a record of options holds. *)
LEMMA OptionFields ==
    ASSUME NEW o \in Options
    PROVE  /\ o.handler \in Handlers
           /\ o.maxRetries \in Int /\ o.maxRetries >= -1
           /\ o.dlq \in BOOLEAN /\ o.stopOnError \in BOOLEAN
BY OptionsAssumption DEF NoPolicy, RetryPolicy, ConsumerOptions

(* TypeOK bounds retryCount by FetchMaxRetries; that is inductive only with *)
(* the fact that a running loop is still below the limit.                   *)
LimitInv == \A i \in Instances :
    loop[i] \in {"select", "process"} => retryCount[i] < FetchMaxRetries

(* The deliveries a durable counts are the last ones of the message, and    *)
(* the last one carries the count in its metadata.                          *)
HandedInv == \A m \in Msgs :
    /\ numDelivered[m] <= handed[m]
    /\ numDelivered[m] > 0 => attempt[<<m, handed[m]>>] = numDelivered[m]

CountInv == LimitInv /\ HandedInv

(* What an instance asks for as MaxAckPending. *)
LEMMA MaxAckPendingNat ==
    ASSUME batchSize \in [Instances -> BatchSizes], NEW i \in Instances
    PROVE  MaxAckPending(i) \in Nat \ {0}
<1>1. batchSize[i] \in Nat \ {0}
  BY BoundsAssumption
<1>2. QED
  BY <1>1, BoundsAssumption DEF MaxAckPending

(* The counts of a message. *)
LEMMA CountsAreNumbers ==
    ASSUME TypeOK, HandedInv, NEW m \in Msgs
    PROVE  /\ numDelivered[m] \in 0 .. MaxDeliveries /\ handed[m] \in 0 .. MaxDeliveries
           /\ numDelivered[m] <= handed[m]
<1>1. numDelivered[m] \in 0 .. MaxDeliveries /\ handed[m] \in 0 .. MaxDeliveries
  BY DEF TypeOK
<1>2. QED
  BY <1>1 DEF HandedInv

(* The initial state is well typed. *)
LEMMA InitType == Init => TypeOK
<1> SUFFICES ASSUME Init PROVE TypeOK
  OBVIOUS
<1>1. maxDeliver \in {Absent, Unlimited} \cup Nat
  BY PriorAssumption DEF Init
<1>2. batchSize \in [Instances -> BatchSizes]
  BY DEF Init
<1>3. ackPending \in Nat
  BY <1>2, MaxAckPendingNat DEF Init
<1>4. QED
  BY <1>1, <1>2, <1>3, BoundsAssumption DEF Init, TypeOK, Settled, Finished, InBatch, None

(* Every step keeps the types. *)
LEMMA NextType == TypeOK /\ CountInv /\ [Next]_vars => TypeOK'
<1> SUFFICES ASSUME TypeOK, CountInv, [Next]_vars PROVE TypeOK'
  OBVIOUS
<1> USE BoundsAssumption DEF configVars, durableVars, countVars, deliveryVars
<1>1. ASSUME NEW m \in Msgs, NEW i \in Instances, Deliver(i, m) PROVE TypeOK'
  <2> DEFINE d == <<m, handed[m] + 1>>
  <2>1. /\ handed[m] < MaxDeliveries /\ owner' = [owner EXCEPT ![d] = i]
        /\ attempt' = [attempt EXCEPT ![d] = numDelivered[m] + 1]
        /\ state' = [state EXCEPT ![d] = "prefetch"]
        /\ numDelivered' = [numDelivered EXCEPT ![m] = @ + 1]
        /\ handed' = [handed EXCEPT ![m] = @ + 1]
        /\ server' = [server EXCEPT ![m] = "pending"]
        /\ UNCHANGED <<configVars, durableVars, loopVars, verdict, dlq, faultVars>>
    BY <1>1 DEF Deliver, CanDeliver
  <2>2. numDelivered[m] + 1 \in 0 .. MaxDeliveries /\ handed[m] + 1 \in 0 .. MaxDeliveries
    BY <2>1, CountsAreNumbers DEF CountInv
  <2>3. /\ numDelivered' \in [Msgs -> 0 .. MaxDeliveries]
        /\ handed' \in [Msgs -> 0 .. MaxDeliveries]
        /\ server' \in [Msgs -> {"ready", "pending"} \cup Settled]
    BY <2>1, <2>2 DEF TypeOK
  <2>4. /\ owner' \in [Delivery -> Instances \cup {None}]
        /\ attempt' \in [Delivery -> 0 .. MaxDeliveries]
        /\ state' \in [Delivery -> {None, "prefetch"} \cup InBatch \cup Finished]
    BY <2>1, <2>2 DEF TypeOK
  <2>5. QED
    BY <2>1, <2>3, <2>4 DEF TypeOK, loopVars, faultVars
<1>2. ASSUME NEW m \in Msgs, AckWaitExpires(m) \/ GiveUp(m) PROVE TypeOK'
  BY <1>2 DEF AckWaitExpires, GiveUp, TypeOK, loopVars, taskVars, faultVars, Settled
<1>3. ASSUME NEW i \in Instances, StartConsumer(i) PROVE TypeOK'
  <2>1. maxDeliver' \in {Absent, Unlimited} \cup Nat
    BY <1>3, OptionFields DEF TypeOK, StartConsumer, CreateOrGetConsumer, GetMaxDeliver
  <2>2. ackPending' \in Nat
    BY <1>3, MaxAckPendingNat DEF TypeOK, StartConsumer, CreateOrGetConsumer
  <2>3. QED
    BY <1>3, <2>1, <2>2 DEF StartConsumer, TypeOK, taskVars, faultVars
<1>12. ASSUME NEW i \in Instances, DeleteDurable(i) PROVE TypeOK'
  BY <1>12 DEF DeleteDurable, TypeOK, loopVars, taskVars, faultVars, Absent
<1>4. ASSUME NEW i \in Instances, FetchReturns(i) \/ FetchFails(i) PROVE TypeOK'
  BY <1>4 DEF FetchReturns, FetchFails, TypeOK, serverVars, taskVars, faultVars
<1>5. ASSUME NEW i \in Instances, TakeBatch(i) \/ TakeEmpty(i) \/ TakeNoMessages(i)
                                    \/ TakeStop(i) \/ EndBatch(i)
      PROVE TypeOK'
  BY <1>5 DEF TakeBatch, TakeEmpty, TakeNoMessages, TakeStop, EndBatch, ReceiveResult,
              TypeOK, serverVars,
              taskVars, faultVars, InBatch
<1>6. ASSUME NEW i \in Instances, TakeError(i) PROVE TypeOK'
  <2>1. retryCount' \in [Instances -> 0 .. FetchMaxRetries]
    BY <1>6 DEF TakeError, ReceiveResult, TypeOK, CountInv, LimitInv
  <2>2. stopped' \in [Instances -> BOOLEAN]
    <3>1. options.stopOnError \in BOOLEAN
      BY OptionFields DEF TypeOK
    <3>2. QED
      BY <1>6, <3>1, Zenon DEF TakeError, TypeOK
  <2>3. QED
    BY <1>6, <2>1, <2>2 DEF TakeError, ReceiveResult, TypeOK, serverVars, faultVars, Finished
<1>7. ASSUME NEW i \in Instances, Stop(i) \/ Crash(i) PROVE TypeOK'
  <2>1. CASE Stop(i)
    BY <2>1 DEF Stop, TypeOK, serverVars, taskVars, faultVars
  <2>2. CASE Crash(i)
    <3>1. crashes' \in Nat
      BY <2>2 DEF Crash, TypeOK
    <3>2. state' \in [Delivery -> {None, "prefetch"} \cup InBatch \cup Finished]
      BY <2>2 DEF Crash, TypeOK, Finished
    <3>3. QED
      BY <2>2, <3>1, <3>2 DEF Crash, TypeOK, serverVars
  <2>3. QED
    BY <1>7, <2>1, <2>2
<1>8. ASSUME NEW i \in Instances, Bulk(i) PROVE TypeOK'
  BY <1>8 DEF Bulk, BulkReturns, TypeOK, loopVars, faultVars, Finished, Settled
<1>9. ASSUME NEW d \in Delivery, NEW lost \in BOOLEAN, Handle(d, lost) PROVE TypeOK'
  <2> d[1] \in Msgs
    BY DEF Delivery
  <2>1. CASE Ack(d, lost) \/ Term(d, lost)
    BY <2>1 DEF Ack, Term, Decide, Settle, TypeOK, loopVars, faultVars, Settled, Finished
  <2>2. CASE NackRetry(d, lost) \/ WrapFails(d, lost) \/ HandlerForgets(d)
    BY <2>2 DEF NackRetry, WrapFails, HandlerForgets, Decide, Nak, TypeOK, loopVars,
                faultVars, Finished
  <2>3. CASE NackExceeded(d, lost) \/ Reject(d, lost)
    BY <2>3 DEF NackExceeded, Reject, SendToDLQ, DiscardWithoutDLQ, BeginDLQ, Decide, Settle,
                TypeOK, loopVars, faultVars, Settled, Finished, InBatch
  <2>4. CASE DLQPublished(d)
    BY <2>4 DEF DLQPublished, TypeOK, serverVars, loopVars, faultVars, InBatch
  <2>5. CASE DLQAck(d, lost)
    BY <2>5 DEF DLQAck, Settle, TypeOK, loopVars, faultVars, Finished, Settled
  <2>6. CASE \E stored \in BOOLEAN : DLQPublishFails(d, stored, lost)
    BY <2>6 DEF DLQPublishFails, Nak, TypeOK, loopVars, faultVars, Finished
  <2>7. QED
    BY <1>9, <2>1, <2>2, <2>3, <2>4, <2>5, <2>6 DEF Handle
<1>10. CASE UNCHANGED vars
  BY <1>10 DEF vars, serverVars, loopVars, taskVars, faultVars, TypeOK
<1>11. QED
  BY <1>1, <1>2, <1>3, <1>4, <1>5, <1>6, <1>7, <1>8, <1>9, <1>10, <1>12 DEF Next, Server, Loop

(* Every step keeps a running loop below the limit. *)
LEMMA NextLimit == TypeOK /\ LimitInv /\ [Next]_vars => LimitInv'
<1> SUFFICES ASSUME TypeOK, LimitInv, [Next]_vars PROVE LimitInv'
  OBVIOUS
<1> USE BoundsAssumption
<1>1. ASSUME NEW i \in Instances,
             StartConsumer(i) \/ TakeBatch(i) \/ TakeEmpty(i) \/ TakeNoMessages(i)
               \/ TakeStop(i) \/ EndBatch(i) \/ Crash(i)
      PROVE LimitInv'
  BY <1>1 DEF StartConsumer, TakeBatch, TakeEmpty, TakeNoMessages, TakeStop, EndBatch, Crash,
              TypeOK, LimitInv
<1>2. ASSUME NEW i \in Instances, TakeError(i) PROVE LimitInv'
  BY <1>2 DEF TakeError, TypeOK, LimitInv
<1>3. ASSUME UNCHANGED <<loop, retryCount>> PROVE LimitInv'
  BY <1>3 DEF LimitInv
<1>4. ASSUME NEW i \in Instances,
             DeleteDurable(i) \/ FetchReturns(i) \/ FetchFails(i) \/ Stop(i) \/ Bulk(i)
      PROVE UNCHANGED <<loop, retryCount>>
  BY <1>4 DEF DeleteDurable, FetchReturns, FetchFails, Stop, Bulk, BulkReturns, loopVars
<1>5. ASSUME Server PROVE UNCHANGED <<loop, retryCount>>
  BY <1>5 DEF Server, Deliver, AckWaitExpires, GiveUp, loopVars
<1>6. ASSUME NEW d \in Delivery, NEW lost \in BOOLEAN, Handle(d, lost)
      PROVE UNCHANGED <<loop, retryCount>>
  BY <1>6 DEF Handle, Ack, NackRetry, NackExceeded, Reject, Term, WrapFails, HandlerForgets,
              SendToDLQ,
              DiscardWithoutDLQ, BeginDLQ, Decide, DLQPublished, DLQAck, DLQPublishFails, loopVars
<1>7. ASSUME UNCHANGED vars PROVE UNCHANGED <<loop, retryCount>>
  BY <1>7 DEF vars, loopVars
<1>8. QED
  BY <1>1, <1>2, <1>3, <1>4, <1>5, <1>6, <1>7 DEF Next, Loop

(* Nothing has been delivered at the start. *)
LEMMA InitHanded == Init => HandedInv
BY DEF Init, HandedInv

(* The server counts a delivery where it hands it out, and a new durable    *)
(* counts from zero.                                                        *)
LEMMA NextHanded == TypeOK /\ HandedInv /\ [Next]_vars => HandedInv'
<1> SUFFICES ASSUME TypeOK, HandedInv, [Next]_vars PROVE HandedInv'
  OBVIOUS
<1> USE BoundsAssumption DEF countVars, deliveryVars
<1>1. ASSUME NEW m \in Msgs, NEW i \in Instances, Deliver(i, m) PROVE HandedInv'
  <2> DEFINE d == <<m, handed[m] + 1>>
  <2>1. /\ numDelivered' = [numDelivered EXCEPT ![m] = @ + 1]
        /\ handed' = [handed EXCEPT ![m] = @ + 1]
        /\ attempt' = [attempt EXCEPT ![d] = numDelivered[m] + 1]
        /\ handed[m] < MaxDeliveries
    BY <1>1 DEF Deliver, CanDeliver
  <2>2. d \in Delivery
    BY <2>1 DEF Delivery, TypeOK
  <2>3. ASSUME NEW k \in Msgs
        PROVE  /\ numDelivered'[k] <= handed'[k]
               /\ numDelivered'[k] > 0 => attempt'[<<k, handed'[k]>>] = numDelivered'[k]
    <3>1. CASE k = m
      <4>1. numDelivered'[m] = numDelivered[m] + 1 /\ handed'[m] = handed[m] + 1
        BY <2>1 DEF TypeOK
      <4>2. attempt'[d] = numDelivered[m] + 1
        BY <2>1, <2>2 DEF TypeOK
      <4>3. numDelivered[m] <= handed[m] /\ numDelivered[m] \in Nat /\ handed[m] \in Nat
        BY CountsAreNumbers
      <4>4. QED
        BY <3>1, <4>1, <4>2, <4>3
    <3>2. CASE k # m
      <4>1. numDelivered'[k] = numDelivered[k] /\ handed'[k] = handed[k] /\ <<k, handed[k]>> # d
        BY <2>1, <3>2 DEF TypeOK
      <4>2. attempt'[<<k, handed[k]>>] = attempt[<<k, handed[k]>>]
        BY <2>1, <2>2, <4>1 DEF TypeOK
      <4>3. QED
        BY <4>1, <4>2 DEF HandedInv
    <3>3. QED
      BY <3>1, <3>2
  <2>4. QED
    BY <2>3 DEF HandedInv
<1>2. ASSUME NEW i \in Instances, DeleteDurable(i) PROVE HandedInv'
  BY <1>2 DEF DeleteDurable, HandedInv, taskVars, TypeOK
<1>3. ASSUME UNCHANGED <<numDelivered, handed, attempt>> PROVE HandedInv'
  BY <1>3 DEF HandedInv
<1>4. ASSUME NEW m \in Msgs, AckWaitExpires(m) \/ GiveUp(m)
      PROVE  UNCHANGED <<numDelivered, handed, attempt>>
  BY <1>4 DEF AckWaitExpires, GiveUp, taskVars
<1>5. ASSUME NEW i \in Instances, Loop(i), ~DeleteDurable(i)
      PROVE  UNCHANGED <<numDelivered, handed, attempt>>
  BY <1>5 DEF Loop, StartConsumer, FetchReturns, FetchFails, TakeBatch, TakeEmpty, TakeNoMessages,
              TakeError, TakeStop, EndBatch, Stop, Crash, serverVars, taskVars
<1>6. ASSUME NEW i \in Instances, Bulk(i) PROVE UNCHANGED <<numDelivered, handed, attempt>>
  BY <1>6 DEF Bulk, BulkReturns
<1>7. ASSUME NEW d \in Delivery, NEW lost \in BOOLEAN, Handle(d, lost)
      PROVE  UNCHANGED <<numDelivered, handed, attempt>>
  BY <1>7 DEF Handle, Ack, NackRetry, NackExceeded, Reject, Term, WrapFails, HandlerForgets,
              SendToDLQ, DiscardWithoutDLQ, BeginDLQ, Decide, DLQPublished, DLQAck,
              DLQPublishFails, serverVars
<1>8. ASSUME UNCHANGED vars PROVE UNCHANGED <<numDelivered, handed, attempt>>
  BY <1>8 DEF vars, serverVars, taskVars
<1>9. QED
  BY <1>1, <1>2, <1>3, <1>4, <1>5, <1>6, <1>7, <1>8 DEF Next, Server

(* The counts are right at the start. *)
LEMMA InitCount == Init => CountInv
BY InitHanded, BoundsAssumption DEF Init, CountInv, LimitInv

(* Every step keeps them right. *)
LEMMA NextCount == TypeOK /\ CountInv /\ [Next]_vars => CountInv'
BY NextLimit, NextHanded DEF CountInv

(* Type correctness, with the bound on consecutive fetch errors that the    *)
(* loop of Consumer.start keeps (consumer.go).                              *)
THEOREM TypeCorrect == Spec => []TypeOK
BY InitType, NextType, InitCount, NextCount, PTL DEF Spec

-----------------------------------------------------------------------------
(* The life of a delivery.                                                  *)

Nums == 1 .. MaxDeliveries

(* Exactly the deliveries the server has counted are known to a client.     *)
FreshInv == \A m \in Msgs, n \in Nums : state[<<m, n>>] = None <=> handed[m] < n

(* No verdict before the handler's decision. *)
VerdictInv == \A d \in Delivery :
    state[d] \in {None, "prefetch", "run"} => verdict[d] = None

(* sendToDLQAndAck is entered by Reject or by Nack at the limit, and goes   *)
(* past the publish only with a copy in the DLQ.                            *)
AtLimit(d) == verdict[d] = "nack" /\ HasPolicy /\ ~ShouldRetry(attempt[d])

DLQInv == \A d \in Delivery :
    /\ state[d] \in {"dlqpush", "dlqack"} => options.handler = "V2"
    /\ state[d] \in {"dlqack", "deadlettered"} => dlq[d[1]] > 0
    /\ state[d] \in {"dlqpush", "dlqack", "deadlettered", "dlqfailed"}
        => verdict[d] = "reject" \/ AtLimit(d)

(* A copy in the DLQ has a delivery that explains it. *)
CopyInv == \A m \in Msgs : dlq[m] > 0 =>
    \E d \in Delivery : d[1] = m /\ (verdict[d] = "reject" \/ AtLimit(d))

LifeInv == FreshInv /\ VerdictInv /\ DLQInv /\ CopyInv /\ AckedIsAccounted

(* Nothing has been delivered at the start. *)
LEMMA InitLife == Init => LifeInv
<1> SUFFICES ASSUME Init PROVE LifeInv
  OBVIOUS
<1>1. FreshInv
  BY BoundsAssumption DEF Init, FreshInv, Nums, Delivery
<1>2. VerdictInv /\ DLQInv /\ CopyInv /\ AckedIsAccounted
  BY DEF Init, VerdictInv, DLQInv, CopyInv, AckedIsAccounted, None
<1>3. QED
  BY <1>1, <1>2 DEF LifeInv

(* A delivery is a message and a number. *)
LEMMA DeliveryParts ==
    ASSUME NEW d \in Delivery
    PROVE  d[1] \in Msgs /\ d[2] \in Nums /\ d = <<d[1], d[2]>>
BY DEF Delivery, Nums

(* What FreshInv asks of a step that delivers nothing. *)
LEMMA FreshKept ==
    ASSUME FreshInv, UNCHANGED handed,
           \A e \in Delivery : state'[e] = None <=> state[e] = None
    PROVE  FreshInv'
BY DEF FreshInv, Delivery, Nums

(* What AckedIsAccounted asks of a step. *)
LEMMA AccountedKept ==
    ASSUME AckedIsAccounted,
           \A m \in Msgs : server'[m] = "acked" =>
                \/ server[m] = "acked" \/ dlq'[m] > 0
                \/ \E e \in Delivery : e[1] = m /\ state'[e] = "acked",
           \A m \in Msgs : dlq[m] > 0 => dlq'[m] > 0,
           \A e \in Delivery : state[e] = "acked" => state'[e] = "acked"
    PROVE  AckedIsAccounted'
<1> SUFFICES ASSUME NEW m \in Msgs, server'[m] = "acked", ~(dlq'[m] > 0)
             PROVE  \E n \in Nums : state'[<<m, n>>] = "acked"
  BY DEF AckedIsAccounted, Nums
<1>1. CASE server[m] = "acked"
  <2>1. PICK n \in Nums : state[<<m, n>>] = "acked"
    BY <1>1 DEF AckedIsAccounted, Nums
  <2>2. <<m, n>> \in Delivery
    BY DEF Delivery, Nums
  <2>3. QED
    BY <2>1, <2>2
<1>2. CASE \E e \in Delivery : e[1] = m /\ state'[e] = "acked"
  BY <1>2, DeliveryParts
<1>3. QED
  BY <1>1, <1>2

(* Steps that leave the deliveries and what is known of them alone. *)
LEMMA LifeFrame ==
    ASSUME LifeInv, UNCHANGED <<options, handed, attempt, state, verdict, dlq>>,
           \A m \in Msgs : server'[m] = "acked" => server[m] = "acked"
    PROVE  LifeInv'
BY DEF LifeInv, FreshInv, VerdictInv, DLQInv, CopyInv, AckedIsAccounted, AtLimit, HasPolicy,
       ShouldRetry

(* Every step keeps the life of a delivery. *)
LEMMA NextLife == TypeOK /\ LifeInv /\ [Next]_vars => LifeInv'
<1> SUFFICES ASSUME TypeOK, LifeInv, [Next]_vars PROVE LifeInv'
  OBVIOUS
<1> USE BoundsAssumption DEF configVars, countVars, deliveryVars
<1>1. ASSUME NEW m \in Msgs, NEW i \in Instances, Deliver(i, m) PROVE LifeInv'
  <2> DEFINE d == <<m, handed[m] + 1>>
  <2>1. d \in Delivery /\ d[1] = m /\ d[2] = handed[m] + 1
    BY <1>1 DEF Deliver, CanDeliver, TypeOK, Delivery
  <2>2. state[d] = None /\ verdict[d] = None
    BY <2>1 DEF LifeInv, FreshInv, VerdictInv, TypeOK, Delivery, Nums
  <2>3. /\ state' = [state EXCEPT ![d] = "prefetch"]
        /\ handed' = [handed EXCEPT ![m] = @ + 1]
        /\ server' = [server EXCEPT ![m] = "pending"]
        /\ UNCHANGED <<options, verdict, dlq>>
        /\ \A e \in Delivery : e # d => attempt'[e] = attempt[e]
    BY <1>1 DEF Deliver, TypeOK
  <2>4. FreshInv'
    <3> SUFFICES ASSUME NEW k \in Msgs, NEW n \in Nums
                 PROVE  state'[<<k, n>>] = None <=> handed'[k] < n
      BY DEF FreshInv
    <3>1. state[<<k, n>>] = None <=> handed[k] < n
      BY DEF LifeInv, FreshInv
    <3>2. <<k, n>> \in Delivery
      BY DEF Delivery, Nums
    <3>3. CASE <<k, n>> = d
      BY <2>1, <2>3, <3>3 DEF TypeOK, None
    <3>4. CASE <<k, n>> # d
      <4>1. state'[<<k, n>>] = state[<<k, n>>]
        BY <2>3, <3>2, <3>4 DEF TypeOK
      <4>2. CASE k # m
        BY <2>3, <3>1, <4>1, <4>2 DEF TypeOK
      <4>3. CASE k = m /\ n # handed[m] + 1
        BY <2>3, <3>1, <4>1, <4>3 DEF TypeOK, Nums
      <4>4. QED
        BY <3>4, <4>2, <4>3
    <3>5. QED
      BY <3>3, <3>4
  <2>5. VerdictInv' /\ \A e \in Delivery : AtLimit(e)' <=> AtLimit(e)
    BY <2>2, <2>3 DEF LifeInv, VerdictInv, TypeOK, AtLimit, HasPolicy, ShouldRetry, None
  <2>8. DLQInv' /\ CopyInv'
    BY <2>2, <2>3, <2>5 DEF LifeInv, DLQInv, CopyInv, TypeOK
  <2>6. AckedIsAccounted'
    BY <2>2, <2>3, AccountedKept DEF LifeInv, TypeOK, None
  <2>7. QED
    BY <2>4, <2>5, <2>6, <2>8 DEF LifeInv
<1>2. ASSUME NEW m \in Msgs, AckWaitExpires(m) \/ GiveUp(m) PROVE LifeInv'
  BY <1>2, LifeFrame DEF AckWaitExpires, GiveUp, taskVars, TypeOK
<1>3. ASSUME NEW i \in Instances,
             StartConsumer(i) \/ FetchReturns(i) \/ FetchFails(i) \/ TakeEmpty(i)
               \/ TakeNoMessages(i) \/ TakeStop(i) \/ EndBatch(i) \/ Stop(i)
      PROVE LifeInv'
  BY <1>3, LifeFrame DEF StartConsumer, FetchReturns, FetchFails, TakeEmpty, TakeNoMessages,
                         TakeStop, EndBatch, Stop, taskVars, serverVars
<1>9. ASSUME NEW i \in Instances, DeleteDurable(i) PROVE LifeInv'
  BY <1>9, LifeFrame DEF DeleteDurable, taskVars
<1>4. ASSUME NEW i \in Instances, TakeBatch(i) \/ TakeError(i) \/ Crash(i) PROVE LifeInv'
  <2>1. /\ UNCHANGED <<options, server, handed, attempt, verdict, dlq>>
        /\ \A d \in Delivery :
            \/ state'[d] = state[d]
            \/ state[d] = "prefetch" /\ state'[d] = "run"
            \/ state[d] \in {"prefetch", "run", "dlqpush", "dlqack"} /\ state'[d] = "dropped"
    BY <1>4 DEF TakeBatch, TakeError, Crash, Prefetched, Batch, InBatch, serverVars, TypeOK,
                Finished, None
  <2>2. FreshInv' /\ VerdictInv' /\ DLQInv' /\ CopyInv'
    BY <2>1, DeliveryParts DEF LifeInv, FreshInv, VerdictInv, DLQInv, CopyInv, AtLimit, HasPolicy,
                ShouldRetry, None, Delivery, Nums
  <2>3. AckedIsAccounted'
    BY <2>1, AccountedKept DEF LifeInv
  <2>4. QED
    BY <2>2, <2>3 DEF LifeInv
<1>5. ASSUME NEW i \in Instances, Bulk(i) PROVE LifeInv'
  <2>1. PICK ok \in BOOLEAN, lost \in SUBSET Batch(i) : BulkReturns(i, ok, lost)
    BY <1>5 DEF Bulk
  <2>2. /\ UNCHANGED <<options, handed, attempt, dlq>>
        /\ \A d \in Delivery :
            \/ d \notin Batch(i) /\ state'[d] = state[d] /\ verdict'[d] = verdict[d]
            \/ /\ d \in Batch(i)
               /\ state'[d] = IF ok THEN "acked" ELSE "retried"
               /\ verdict'[d] = IF ok THEN "ack" ELSE "nack"
        /\ \A m \in Msgs : server'[m] = "acked" =>
             server[m] = "acked" \/ (ok /\ \E d \in Batch(i) : d[1] = m)
    BY <2>1 DEF BulkReturns
  <2>3. \A d \in Batch(i) : d \in Delivery /\ state[d] \in InBatch
    BY DEF Batch
  <2>4. options.handler = "Bulk"
    BY <2>1 DEF BulkReturns
  <2>5. FreshInv'
    BY <2>2, <2>3, FreshKept DEF LifeInv, None, InBatch
  <2>6. VerdictInv' /\ DLQInv'
    BY <2>2, <2>3, <2>4 DEF LifeInv, VerdictInv, DLQInv, None, AtLimit, HasPolicy, ShouldRetry
  <2>7. \A d \in Batch(i) : verdict[d] = None
    BY <2>3, <2>4 DEF LifeInv, VerdictInv, DLQInv, InBatch
  <2>8. CopyInv'
    BY <2>2, <2>7 DEF LifeInv, CopyInv, None, AtLimit, HasPolicy, ShouldRetry
  <2>9. AckedIsAccounted'
    BY <2>2, <2>3, AccountedKept DEF LifeInv, InBatch
  <2>10. QED
    BY <2>5, <2>6, <2>8, <2>9 DEF LifeInv
<1>6. ASSUME NEW d \in Delivery, NEW lost \in BOOLEAN, Handle(d, lost) PROVE LifeInv'
  <2>1. d[1] \in Msgs /\ d[2] \in Nums /\ d = <<d[1], d[2]>>
    BY DeliveryParts
  <2>2. ASSUME NEW v, NEW s \in {"dropped", "acked", "retried", "termed", "dlqpush"},
               Decide(d, v, s),
               s = "dlqpush" => options.handler = "V2" /\
                    (v = "reject" \/ (v = "nack" /\ HasPolicy /\ ~ShouldRetry(attempt[d]))),
               \A m \in Msgs : server'[m] = "acked" =>
                    server[m] = "acked" \/ (m = d[1] /\ s = "acked")
        PROVE  LifeInv'
    <3>1. /\ state[d] = "run" /\ verdict[d] = None
          /\ verdict' = [verdict EXCEPT ![d] = v] /\ state' = [state EXCEPT ![d] = s]
          /\ UNCHANGED <<options, handed, attempt, dlq>>
      BY <2>2 DEF Decide, LifeInv, VerdictInv
    <3>2. FreshInv'
      BY <3>1, <2>2, FreshKept DEF LifeInv, TypeOK, None
    <3>3. VerdictInv' /\ DLQInv'
      BY <3>1, <2>2 DEF LifeInv, VerdictInv, DLQInv, TypeOK, None, AtLimit, HasPolicy, ShouldRetry
    <3>4. CopyInv'
      BY <3>1, <2>2 DEF LifeInv, CopyInv, TypeOK, None, AtLimit, HasPolicy, ShouldRetry
    <3>5. AckedIsAccounted'
      BY <3>1, <2>2, AccountedKept DEF LifeInv, TypeOK
    <3>6. QED
      BY <3>2, <3>3, <3>4, <3>5 DEF LifeInv
  <2>3. CASE Ack(d, lost)
    BY <2>3, <2>2, <2>1 DEF Ack, Settle, TypeOK
  <2>4. CASE Term(d, lost) \/ NackRetry(d, lost) \/ WrapFails(d, lost) \/ HandlerForgets(d)
    BY <2>4, <2>2, <2>1 DEF Term, NackRetry, WrapFails, HandlerForgets, Settle, Nak, TypeOK
  <2>5. CASE NackExceeded(d, lost) \/ Reject(d, lost)
    BY <2>5, <2>2, <2>1 DEF NackExceeded, Reject, SendToDLQ, DiscardWithoutDLQ, BeginDLQ, Settle,
                            TypeOK
  <2>6. CASE DLQPublished(d)
    <3>1. /\ state[d] = "dlqpush"
          /\ dlq' = [dlq EXCEPT ![d[1]] = @ + 1] /\ state' = [state EXCEPT ![d] = "dlqack"]
          /\ UNCHANGED <<options, server, handed, attempt, verdict>>
      BY <2>6 DEF DLQPublished, serverVars
    <3>2. FreshInv'
      BY <3>1, FreshKept DEF LifeInv, TypeOK, None
    <3>3. VerdictInv' /\ DLQInv'
      BY <3>1, <2>1, DeliveryParts DEF LifeInv, VerdictInv, DLQInv, TypeOK, None, AtLimit,
                                       HasPolicy, ShouldRetry
    <3>4. CopyInv'
      BY <3>1, <2>1 DEF LifeInv, CopyInv, DLQInv, TypeOK, AtLimit, HasPolicy, ShouldRetry
    <3>5. AckedIsAccounted'
      BY <3>1, <2>1, AccountedKept DEF LifeInv, TypeOK
    <3>6. QED
      BY <3>2, <3>3, <3>4, <3>5 DEF LifeInv
  <2>7. CASE DLQAck(d, lost)
    <3>1. /\ state[d] = "dlqack" /\ state' = [state EXCEPT ![d] = "deadlettered"]
          /\ UNCHANGED <<options, handed, attempt, verdict, dlq>>
          /\ \A m \in Msgs : server'[m] = "acked" => server[m] = "acked" \/ m = d[1]
      BY <2>7, <2>1 DEF DLQAck, Settle, TypeOK
    <3>2. FreshInv'
      BY <3>1, FreshKept DEF LifeInv, TypeOK, None
    <3>3. VerdictInv' /\ DLQInv' /\ CopyInv'
      BY <3>1 DEF LifeInv, VerdictInv, DLQInv, CopyInv, TypeOK, None, AtLimit, HasPolicy,
                  ShouldRetry
    <3>4. AckedIsAccounted'
      BY <3>1, AccountedKept DEF LifeInv, DLQInv, TypeOK
    <3>5. QED
      BY <3>2, <3>3, <3>4 DEF LifeInv
  <2>8. ASSUME NEW stored \in BOOLEAN, DLQPublishFails(d, stored, lost) PROVE LifeInv'
    <3>1. /\ state[d] = "dlqpush" /\ state' = [state EXCEPT ![d] = "dlqfailed"]
          /\ dlq' = IF stored THEN [dlq EXCEPT ![d[1]] = @ + 1] ELSE dlq
          /\ UNCHANGED <<options, handed, attempt, verdict>>
          /\ \A m \in Msgs : server'[m] = "acked" => server[m] = "acked"
      BY <2>8, <2>1 DEF DLQPublishFails, Nak, TypeOK
    <3>2. FreshInv'
      BY <3>1, FreshKept DEF LifeInv, TypeOK, None
    <3>3. VerdictInv' /\ DLQInv'
      BY <3>1, <2>1, DeliveryParts DEF LifeInv, VerdictInv, DLQInv, TypeOK, None, AtLimit,
                                       HasPolicy, ShouldRetry
    <3>4. CopyInv'
      BY <3>1, <2>1 DEF LifeInv, CopyInv, DLQInv, TypeOK, AtLimit, HasPolicy, ShouldRetry
    <3>5. AckedIsAccounted'
      BY <3>1, <2>1, AccountedKept DEF LifeInv, TypeOK
    <3>6. QED
      BY <3>2, <3>3, <3>4, <3>5 DEF LifeInv
  <2>9. QED
    BY <1>6, <2>3, <2>4, <2>5, <2>6, <2>7, <2>8 DEF Handle
<1>7. CASE UNCHANGED vars
  BY <1>7, LifeFrame DEF vars, serverVars, taskVars
<1>8. QED
  BY <1>1, <1>2, <1>3, <1>4, <1>5, <1>6, <1>7, <1>9 DEF Next, Server, Loop

(* A message leaves the stream by an ACK only after a handler accepted it   *)
(* or a copy of it was stored in the DLQ, whatever is lost, late, repeated  *)
(* or crashes (message.go: Ack, sendToDLQAndAck; consumer.go: the legacy    *)
(* handlers).                                                               *)
THEOREM AckedAccounted == Spec => []AckedIsAccounted
<1>1. TypeOK /\ CountInv /\ LifeInv /\ [Next]_vars => (TypeOK /\ CountInv /\ LifeInv)'
  BY NextType, NextCount, NextLife
<1>2. Init => TypeOK /\ CountInv /\ LifeInv
  BY InitType, InitCount, InitLife
<1>3. LifeInv => AckedIsAccounted
  BY DEF LifeInv
<1>4. QED
  BY <1>1, <1>2, <1>3, PTL DEF Spec

(* Where every policy states a positive MaxRetries, a message reaches the   *)
(* DLQ only by Reject or by a Nack after MaxRetries retries (message.go     *)
(* Nack, retry.go ShouldRetry).  For MaxRetries = 0 it is false.            *)
THEOREM DLQAfterRetries ==
    ASSUME \A o \in Options : o.maxRetries # 0
    PROVE  Spec => []DLQOnlyAfterRetries
<1>1. TypeOK /\ CountInv /\ LifeInv /\ [Next]_vars => (TypeOK /\ CountInv /\ LifeInv)'
  BY NextType, NextCount, NextLife
<1>2. Init => TypeOK /\ CountInv /\ LifeInv
  BY InitType, InitCount, InitLife
<1>3. TypeOK /\ LifeInv => DLQOnlyAfterRetries
  <2> SUFFICES ASSUME TypeOK, LifeInv, NEW m \in Msgs, dlq[m] > 0
               PROVE  \E n \in Nums : \/ verdict[<<m, n>>] = "reject"
                                      \/ /\ verdict[<<m, n>>] = "nack"
                                         /\ attempt[<<m, n>>] > DocumentedRetries
    BY DEF DLQOnlyAfterRetries, Nums
  <2>1. PICK d \in Delivery : d[1] = m /\ (verdict[d] = "reject" \/ AtLimit(d))
    BY DEF LifeInv, CopyInv
  <2>2. d[2] \in Nums /\ d = <<m, d[2]>>
    BY <2>1, DeliveryParts
  <2>3. options.maxRetries \in Int /\ options.maxRetries >= -1 /\ options.maxRetries # 0
    BY OptionFields DEF TypeOK
  <2>4. AtLimit(d) => attempt[d] > DocumentedRetries
    BY <2>3, BoundsAssumption DEF AtLimit, HasPolicy, NoPolicy, ShouldRetry, DocumentedRetries,
                                  TypeOK
  <2>5. QED
    BY <2>1, <2>2, <2>4 DEF AtLimit
<1>4. QED
  BY <1>1, <1>2, <1>3, PTL DEF Spec

-----------------------------------------------------------------------------
(* The client's retries and the server's MaxDeliver.                        *)

PolicyInv ==
    /\ HasPolicy => maxDeliver \in {Absent, GetMaxDeliver}
    /\ \A m \in Msgs : numDelivered[m] > 0 => maxDeliver # Absent
    /\ \A m \in Msgs : maxDeliver \in {Absent, Unlimited} \/ numDelivered[m] <= maxDeliver
    /\ \A m \in Msgs : server[m] = "exhausted" =>
          maxDeliver \notin {Absent, Unlimited} /\ numDelivered[m] >= maxDeliver
    /\ \A d \in Delivery : state[d] = "retried" =>
          \/ verdict[d] = None
          \/ /\ verdict[d] = "nack"
             /\ options.handler = "V2" /\ HasPolicy => ShouldRetry(attempt[d])

(* The durable does not exist before the first start. *)
LEMMA InitPolicy ==
    ASSUME PriorMaxDeliver = {Absent}
    PROVE  Init => PolicyInv
BY DEF Init, PolicyInv, None, Absent

(* The policy part of a step that neither delivers nor starts an instance. *)
LEMMA PolicyKept ==
    ASSUME PolicyInv, UNCHANGED <<options, maxDeliver, numDelivered, attempt>>,
           \A m \in Msgs : server'[m] = "exhausted" => server[m] = "exhausted",
           \A d \in Delivery : state'[d] = "retried" =>
                \/ state[d] = "retried" /\ verdict'[d] = verdict[d]
                \/ verdict'[d] = None
                \/ /\ verdict'[d] = "nack"
                   /\ options.handler = "V2" /\ HasPolicy => ShouldRetry(attempt[d])
    PROVE  PolicyInv'
BY DEF PolicyInv, HasPolicy, ShouldRetry, GetMaxDeliver

(* Every step keeps the client and the server in agreement. *)
LEMMA NextPolicy == TypeOK /\ LifeInv /\ PolicyInv /\ [Next]_vars => PolicyInv'
<1> SUFFICES ASSUME TypeOK, LifeInv, PolicyInv, [Next]_vars PROVE PolicyInv'
  OBVIOUS
<1> USE BoundsAssumption DEF configVars, durableVars, countVars, deliveryVars
<1>1. ASSUME NEW m \in Msgs, NEW i \in Instances, Deliver(i, m) PROVE PolicyInv'
  <2> DEFINE d == <<m, handed[m] + 1>>
  <2>1. /\ maxDeliver # Absent /\ (maxDeliver = Unlimited \/ numDelivered[m] < maxDeliver)
        /\ state' = [state EXCEPT ![d] = "prefetch"]
        /\ numDelivered' = [numDelivered EXCEPT ![m] = @ + 1]
        /\ server' = [server EXCEPT ![m] = "pending"]
        /\ UNCHANGED <<options, maxDeliver, verdict>>
        /\ \A e \in Delivery : e # d => attempt'[e] = attempt[e]
    BY <1>1 DEF Deliver, CanDeliver, TypeOK
  <2>2. \A k \in Msgs :
          /\ maxDeliver' # Absent
          /\ maxDeliver' \in {Absent, Unlimited} \/ numDelivered'[k] <= maxDeliver'
          /\ server'[k] = "exhausted" =>
                maxDeliver' \notin {Absent, Unlimited} /\ numDelivered'[k] >= maxDeliver'
    BY <2>1 DEF PolicyInv, TypeOK, Absent, Unlimited
  <2>3. \A e \in Delivery :
            state'[e] = "retried" => state[e] = "retried" /\ attempt'[e] = attempt[e]
    BY <2>1 DEF TypeOK
  <2>4. QED
    BY <2>1, <2>2, <2>3 DEF PolicyInv, HasPolicy, ShouldRetry, GetMaxDeliver
<1>2. ASSUME NEW m \in Msgs, AckWaitExpires(m) PROVE PolicyInv'
  BY <1>2, PolicyKept DEF AckWaitExpires, taskVars, TypeOK
<1>3. ASSUME NEW m \in Msgs, GiveUp(m) PROVE PolicyInv'
  BY <1>3 DEF GiveUp, taskVars, TypeOK, PolicyInv, HasPolicy, ShouldRetry, GetMaxDeliver
<1>4. ASSUME NEW i \in Instances, StartConsumer(i) PROVE PolicyInv'
  <2>1. /\ UNCHANGED <<options, server, numDelivered, state, verdict, attempt>>
        /\ maxDeliver' = IF maxDeliver # Absent THEN maxDeliver
                          ELSE IF HasPolicy THEN GetMaxDeliver ELSE Unlimited
    BY <1>4 DEF StartConsumer, CreateOrGetConsumer, taskVars
  <2>2. GetMaxDeliver \in Nat \ {0}
    BY OptionFields DEF TypeOK, GetMaxDeliver
  <2>3. CASE maxDeliver # Absent
    BY <2>1, <2>3 DEF PolicyInv, HasPolicy, ShouldRetry, GetMaxDeliver
  <2>4. CASE maxDeliver = Absent
    <3>1. \A m \in Msgs : numDelivered[m] = 0 /\ server[m] # "exhausted"
      BY <2>4 DEF PolicyInv, TypeOK
    <3>2. maxDeliver' \in {GetMaxDeliver, Unlimited} /\ maxDeliver' # Absent
          /\ (HasPolicy => maxDeliver' = GetMaxDeliver)
      BY <2>1, <2>2, <2>4 DEF Absent, Unlimited
    <3>3. QED
      BY <2>1, <2>2, <3>1, <3>2 DEF PolicyInv, HasPolicy, ShouldRetry, GetMaxDeliver
  <2>5. QED
    BY <2>3, <2>4
<1>11. ASSUME NEW i \in Instances, DeleteDurable(i) PROVE PolicyInv'
  <2>1. /\ UNCHANGED <<options, state, verdict, attempt>>
        /\ maxDeliver' = Absent /\ \A m \in Msgs : numDelivered'[m] = 0 /\ server'[m] # "exhausted"
    BY <1>11 DEF DeleteDurable, taskVars
  <2>2. QED
    BY <2>1 DEF PolicyInv, HasPolicy, ShouldRetry
<1>5. ASSUME NEW i \in Instances,
             FetchReturns(i) \/ FetchFails(i) \/ TakeEmpty(i) \/ TakeNoMessages(i)
               \/ TakeStop(i) \/ EndBatch(i) \/ Stop(i)
      PROVE PolicyInv'
  BY <1>5, PolicyKept DEF FetchReturns, FetchFails, TakeEmpty, TakeNoMessages, TakeStop,
                          EndBatch, Stop,
                          taskVars, serverVars
<1>6. ASSUME NEW i \in Instances, TakeBatch(i) \/ TakeError(i) \/ Crash(i) PROVE PolicyInv'
  BY <1>6, PolicyKept DEF TakeBatch, TakeError, Crash, serverVars
<1>7. ASSUME NEW i \in Instances, Bulk(i) PROVE PolicyInv'
  <2>1. PICK ok \in BOOLEAN, lost \in SUBSET Batch(i) : BulkReturns(i, ok, lost)
    BY <1>7 DEF Bulk
  <2>2. QED
    BY <2>1, PolicyKept DEF BulkReturns
<1>8. ASSUME NEW d \in Delivery, NEW lost \in BOOLEAN, Handle(d, lost) PROVE PolicyInv'
  <2> d[1] \in Msgs
    BY DeliveryParts
  <2>1. CASE Ack(d, lost) \/ Term(d, lost)
    BY <2>1, PolicyKept DEF Ack, Term, Decide, Settle, TypeOK
  <2>2. CASE NackRetry(d, lost) \/ WrapFails(d, lost) \/ HandlerForgets(d)
    BY <2>2, PolicyKept DEF NackRetry, WrapFails, HandlerForgets, Decide, Nak, TypeOK
  <2>3. CASE NackExceeded(d, lost) \/ Reject(d, lost)
    BY <2>3, PolicyKept DEF NackExceeded, Reject, SendToDLQ, DiscardWithoutDLQ, BeginDLQ, Decide,
                            Settle, TypeOK
  <2>4. CASE DLQPublished(d) \/ DLQAck(d, lost)
    BY <2>4, PolicyKept DEF DLQPublished, DLQAck, Settle, TypeOK, serverVars
  <2>5. CASE \E stored \in BOOLEAN : DLQPublishFails(d, stored, lost)
    BY <2>5, PolicyKept DEF DLQPublishFails, Nak, TypeOK
  <2>6. QED
    BY <1>8, <2>1, <2>2, <2>3, <2>4, <2>5 DEF Handle
<1>9. CASE UNCHANGED vars
  BY <1>9, PolicyKept DEF vars, serverVars, taskVars
<1>10. QED
  BY <1>1, <1>2, <1>3, <1>4, <1>5, <1>6, <1>7, <1>8, <1>9, <1>11
     DEF Next, Server, Loop

(* Where the durable was created under the policy in force, a Nack that     *)
(* asks for a retry leaves at least one delivery (retry.go ShouldRetry and  *)
(* GetMaxDeliver, subscribe.go createOrGetConsumer).                        *)
LEMMA PolicyImpliesRedelivered == TypeOK /\ PolicyInv => RetryIsRedelivered
<1> SUFFICES ASSUME TypeOK, PolicyInv, NEW d \in Delivery, maxDeliver # Absent,
                    options.handler = "V2", HasPolicy, verdict[d] = "nack", state[d] = "retried"
             PROVE  attempt[d] < maxDeliver
  BY DEF RetryIsRedelivered
<1>1. maxDeliver = GetMaxDeliver
  BY DEF PolicyInv
<1>2. attempt[d] <= options.maxRetries
  BY DEF PolicyInv, ShouldRetry, None
<1>3. options.maxRetries \in Int
  BY OptionFields DEF TypeOK
<1>4. QED
  BY <1>1, <1>2, <1>3, BoundsAssumption DEF GetMaxDeliver, TypeOK

(* Where no earlier deployment left a durable, a Nack that asks for a retry *)
(* is never the last delivery of a durable that is still there (retry.go    *)
(* ShouldRetry and GetMaxDeliver, subscribe.go createOrGetConsumer).        *)
THEOREM RetryRedelivered ==
    ASSUME PriorMaxDeliver = {Absent}
    PROVE  Spec => []RetryIsRedelivered
<1>1. TypeOK /\ CountInv /\ LifeInv /\ PolicyInv /\ [Next]_vars
        => (TypeOK /\ CountInv /\ LifeInv /\ PolicyInv)'
  BY NextType, NextCount, NextLife, NextPolicy
<1>2. Init => TypeOK /\ CountInv /\ LifeInv /\ PolicyInv
  BY InitType, InitCount, InitLife, InitPolicy
<1>3. QED
  BY <1>1, <1>2, PolicyImpliesRedelivered, PTL DEF Spec

(* Under the same assumption a message given up without a DLQ copy fell to  *)
(* a fault of its last delivery, never to the handler's decisions           *)
(* (message.go Nack, Reject, sendToDLQAndAck).                              *)
THEOREM LossByFault ==
    ASSUME PriorMaxDeliver = {Absent}
    PROVE  Spec => []LossOnlyByFault
<1>1. TypeOK /\ CountInv /\ LifeInv /\ PolicyInv /\ [Next]_vars
        => (TypeOK /\ CountInv /\ LifeInv /\ PolicyInv)'
  BY NextType, NextCount, NextLife, NextPolicy
<1>2. Init => TypeOK /\ CountInv /\ LifeInv /\ PolicyInv
  BY InitType, InitCount, InitLife, InitPolicy
<1>3. TypeOK /\ CountInv /\ LifeInv /\ PolicyInv => LossOnlyByFault
  <2> SUFFICES ASSUME TypeOK, CountInv, LifeInv, PolicyInv, NEW m \in Msgs,
                      options.handler = "V2", HasPolicy, options.dlq,
                      server[m] = "exhausted", dlq[m] = 0
               PROVE  LET last == <<m, handed[m]>> IN
                      \/ state[last] \in {"prefetch", "run", "dlqpush", "dropped", "dlqfailed"}
                      \/ state[last] = "retried" /\ verdict[last] = None
                      \/ state[last] \in {"acked", "termed"}
    BY DEF LossOnlyByFault
  <2> DEFINE last == <<m, handed[m]>>
  <2>1. maxDeliver = GetMaxDeliver /\ GetMaxDeliver \in Nat \ {0}
    BY OptionFields, BoundsAssumption DEF PolicyInv, TypeOK, GetMaxDeliver
  <2>9. numDelivered[m] = maxDeliver
    BY <2>1 DEF PolicyInv, TypeOK, Absent, Unlimited
  <2>10. numDelivered[m] <= handed[m] /\ (numDelivered[m] > 0 => attempt[last] = numDelivered[m])
    BY DEF CountInv, HandedInv
  <2>2. handed[m] \in Nums
    BY <2>1, <2>9, <2>10 DEF TypeOK, Nums
  <2>3. last \in Delivery /\ last[1] = m /\ attempt[last] = maxDeliver
    BY <2>1, <2>2, <2>9, <2>10 DEF Delivery, Nums
  <2>4. state[last] # None
    BY <2>2 DEF LifeInv, FreshInv, Nums
  <2>5. state[last] \notin {"dlqack", "deadlettered"}
    BY <2>3 DEF LifeInv, DLQInv, TypeOK
  <2>6. state[last] = "retried" => verdict[last] = None
    <3>1. ~(attempt[last] < maxDeliver)
      BY <2>1, <2>3
    <3>2. QED
      BY <2>1, <2>3, <3>1, PolicyImpliesRedelivered DEF PolicyInv, RetryIsRedelivered, Absent
  <2>7. state[last] \in {None, "prefetch"} \cup InBatch \cup Finished
    BY <2>3 DEF TypeOK
  <2>8. QED
    BY <2>4, <2>5, <2>6, <2>7 DEF InBatch, Finished
<1>4. QED
  BY <1>1, <1>2, <1>3, PTL DEF Spec

-----------------------------------------------------------------------------
(***************************************************************************)
(* NatsConsumer implements WorkQueue: every initial state maps to an       *)
(* initial state of the queue, and every step to a step of it or a stutter.*)
(***************************************************************************)

(* A delivery the client knows was counted by the server. *)
LEMMA Tried ==
    ASSUME TypeOK, LifeInv, NEW d \in Delivery, state[d] # None
    PROVE  handed[d[1]] > 0
BY DeliveryParts DEF LifeInv, FreshInv, TypeOK, Nums

(* A step that accepts the deliveries B. *)
LEMMA AcceptedGrows ==
    ASSUME NEW B \in SUBSET Delivery,
           \A d \in Delivery : state'[d] = "acked" <=> state[d] = "acked" \/ d \in B
    PROVE  Accepted' = Accepted \cup {d[1] : d \in B}
<1>1. ASSUME NEW m \in Accepted' PROVE m \in Accepted \cup {d[1] : d \in B}
  <2>1. PICK n \in Nums : state'[<<m, n>>] = "acked"
    BY <1>1 DEF Accepted, Nums
  <2>2. m \in Msgs /\ <<m, n>> \in Delivery /\ <<m, n>>[1] = m
    BY <1>1 DEF Delivery, Nums, Accepted
  <2>3. QED
    BY <2>1, <2>2 DEF Accepted, Nums
<1>2. ASSUME NEW m \in Accepted PROVE m \in Accepted'
  <2>1. PICK n \in Nums : state[<<m, n>>] = "acked"
    BY <1>2 DEF Accepted, Nums
  <2>2. m \in Msgs /\ <<m, n>> \in Delivery
    BY <1>2 DEF Delivery, Nums, Accepted
  <2>3. QED
    BY <2>1, <2>2 DEF Accepted, Nums
<1>3. ASSUME NEW d \in B PROVE d[1] \in Accepted'
  BY <1>3, DeliveryParts DEF Accepted, Nums
<1>4. QED
  BY <1>1, <1>2, <1>3

(* A step that accepts nothing new. *)
LEMMA AcceptedKept ==
    ASSUME \A d \in Delivery : state'[d] = "acked" <=> state[d] = "acked"
    PROVE  Accepted' = Accepted
BY DEF Accepted, Delivery

(* Steps that the queue does not see. *)
LEMMA Stutter ==
    ASSUME UNCHANGED <<handed, dlq>>,
           \A d \in Delivery : state'[d] = "acked" <=> state[d] = "acked",
           \A m \in Msgs : Outcome(m)' = Outcome(m)
    PROVE  UNCHANGED Queue!vars
BY AcceptedKept DEF Queue!vars

(* A message ends with an accepting handler, a stored copy or for want of   *)
(* both.                                                                    *)
LEMMA EndStep ==
    ASSUME TypeOK, NEW m \in Msgs, NEW kind \in Settled,
           server[m] \in {"ready", "pending"}, server' = [server EXCEPT ![m] = kind],
           handed[m] > 0, UNCHANGED <<handed, dlq>>,
           \A d \in Delivery : state'[d] = "acked" <=> state[d] = "acked"
    PROVE  Queue!End(m, kind)
<1>1. Outcome(m) = "open"
  BY DEF Outcome, Settled
<1>2. [k \in Msgs |-> Outcome(k)]' = [[k \in Msgs |-> Outcome(k)] EXCEPT ![m] = kind]
  BY DEF Outcome, TypeOK, Settled
<1>3. Accepted' = Accepted
  BY AcceptedKept
<1>4. QED
  BY <1>1, <1>2, <1>3 DEF Queue!End

(* Nothing has happened to the queue at the start. *)
LEMMA InitRefines == Init => Queue!Init
<1> SUFFICES ASSUME Init PROVE Queue!Init
  OBVIOUS
<1>1. Accepted = {}
  BY DEF Init, Accepted, Delivery, None
<1>2. QED
  BY <1>1 DEF Init, Queue!Init, Outcome, Settled

(* Every step is one of the queue's, or none. *)
LEMMA NextRefines ==
    TypeOK /\ CountInv /\ LifeInv /\ [Next]_vars => [Queue!Next]_(Queue!vars)
<1> SUFFICES ASSUME TypeOK, CountInv, LifeInv, [Next]_vars PROVE [Queue!Next]_(Queue!vars)
  OBVIOUS
<1> USE DEF countVars
<1> DEFINE Step == [Queue!Next]_(Queue!vars)
<1>1. ASSUME NEW m \in Msgs, NEW i \in Instances, Deliver(i, m) PROVE Step
  <2> DEFINE d == <<m, handed[m] + 1>>
  <2>1. d \in Delivery /\ state[d] = None
    BY <1>1, BoundsAssumption DEF Deliver, CanDeliver, TypeOK, Delivery, LifeInv, FreshInv, Nums
  <2>2. /\ server[m] = "ready" /\ server' = [server EXCEPT ![m] = "pending"]
        /\ state' = [state EXCEPT ![d] = "prefetch"]
        /\ handed' = [handed EXCEPT ![m] = @ + 1] /\ UNCHANGED dlq
    BY <1>1 DEF Deliver, CanDeliver
  <2>3. Accepted' = Accepted
    BY <2>1, <2>2, AcceptedKept DEF TypeOK, None
  <2>4. Outcome(m) = "open" /\ \A k \in Msgs : Outcome(k)' = Outcome(k)
    BY <2>2 DEF Outcome, TypeOK, Settled
  <2>5. Queue!Try(m)
    BY <2>2, <2>3, <2>4 DEF Queue!Try
  <2>6. QED
    BY <2>5 DEF Queue!Next
<1>2. ASSUME NEW m \in Msgs, AckWaitExpires(m) PROVE Step
  BY <1>2, Stutter DEF AckWaitExpires, taskVars, Outcome, TypeOK, Settled
<1>3. ASSUME NEW m \in Msgs, GiveUp(m) PROVE Step
  <2>3. maxDeliver > 0 /\ numDelivered[m] >= maxDeliver /\ maxDeliver \in Nat
    BY <1>3 DEF GiveUp, TypeOK, Absent, Unlimited
  <2>4. handed[m] > 0
    BY <2>3, CountsAreNumbers DEF CountInv
  <2>1. /\ server[m] = "ready" /\ server' = [server EXCEPT ![m] = "exhausted"]
        /\ UNCHANGED <<handed, dlq, state>>
    BY <1>3 DEF GiveUp, taskVars
  <2>2. Queue!End(m, "exhausted")
    BY <2>1, <2>4, EndStep DEF Settled
  <2>5. QED
    BY <2>2 DEF Queue!Next, Queue!GiveUp
<1>9. ASSUME NEW i \in Instances, DeleteDurable(i) PROVE Step
  <2>1. /\ server' = [m \in Msgs |-> IF server[m] \in {"pending", "exhausted"} THEN "ready"
                                     ELSE server[m]]
        /\ UNCHANGED <<handed, dlq, state>>
    BY <1>9 DEF DeleteDurable, taskVars
  <2>2. \A m \in Msgs : Outcome(m)' = IF Outcome(m) = "exhausted" THEN "open" ELSE Outcome(m)
    BY <2>1 DEF Outcome, TypeOK, Settled
  <2>3. Accepted' = Accepted
    BY <2>1, AcceptedKept
  <2>4. Queue!Reopen
    BY <2>1, <2>2, <2>3 DEF Queue!Reopen
  <2>5. QED
    BY <2>4 DEF Queue!Next
<1>4. ASSUME NEW i \in Instances, Loop(i), ~DeleteDurable(i) PROVE Step
  <2>1. /\ UNCHANGED <<server, handed, dlq>>
        /\ \A d \in Delivery : state'[d] = "acked" <=> state[d] = "acked"
    BY <1>4 DEF Loop, StartConsumer, FetchReturns, FetchFails, TakeBatch, TakeEmpty,
                TakeNoMessages, TakeError, TakeStop, EndBatch, Stop, Crash, Prefetched, Batch,
                InBatch, serverVars, taskVars
  <2>2. QED
    BY <2>1, Stutter DEF Outcome
<1>5. ASSUME NEW i \in Instances, Bulk(i) PROVE Step
  <2>1. PICK ok \in BOOLEAN, lost \in SUBSET Batch(i) : BulkReturns(i, ok, lost)
    BY <1>5 DEF Bulk
  <2> DEFINE M == {d[1] : d \in Batch(i)}
             heard == IF maxDeliver = Absent THEN {} ELSE {d[1] : d \in Batch(i) \ lost}
  <2>2. \A d \in Batch(i) : d \in Delivery /\ state[d] \in InBatch /\ d[1] \in Msgs
    BY DeliveryParts DEF Batch
  <2>3. UNCHANGED <<handed, dlq>>
    BY <2>1 DEF BulkReturns
  <2>4. CASE ~ok
    <3>1. \A m \in Msgs : Outcome(m)' = Outcome(m)
      BY <2>1, <2>4 DEF BulkReturns, Outcome, Settled, TypeOK
    <3>2. \A d \in Delivery : state'[d] = "acked" <=> state[d] = "acked"
      BY <2>1, <2>2, <2>4 DEF BulkReturns, InBatch
    <3>3. QED
      BY <2>3, <3>1, <3>2, Stutter
  <2>5. CASE ok
    <3>1. \A m \in M : m \in Msgs /\ handed[m] > 0
      BY <2>2, Tried DEF InBatch, None
    <3>2. \A d \in Delivery : state'[d] = "acked" <=> state[d] = "acked" \/ d \in Batch(i)
      BY <2>1, <2>5 DEF BulkReturns
    <3>3. Accepted' = Accepted \cup M
      BY <2>2, <3>2, AcceptedGrows
    <3>4. \A m \in Msgs : Outcome(m)' =
                IF m \in heard /\ Outcome(m) = "open" THEN "acked" ELSE Outcome(m)
      BY <2>1, <2>5 DEF BulkReturns, Outcome, TypeOK, Settled
    <3>5. heard \in SUBSET M
      OBVIOUS
    <3>6. Queue!Accept(M)
      BY <2>3, <3>1, <3>3, <3>4, <3>5 DEF Queue!Accept
    <3>7. QED
      BY <3>1, <3>6 DEF Queue!Next
  <2>6. QED
    BY <2>4, <2>5
<1>6. ASSUME NEW d \in Delivery, NEW lost \in BOOLEAN, Handle(d, lost) PROVE Step
  <2>1. d[1] \in Msgs /\ d = <<d[1], d[2]>>
    BY DeliveryParts
  <2>2. state[d] \in InBatch /\ handed[d[1]] > 0
    <3>1. state[d] \in InBatch
      BY <1>6 DEF Handle, Ack, NackRetry, NackExceeded, Reject, Term, WrapFails, HandlerForgets,
                  SendToDLQ, DiscardWithoutDLQ, BeginDLQ, Decide, DLQPublished, DLQAck,
                  DLQPublishFails, InBatch
    <3>2. QED
      BY <3>1, Tried DEF InBatch, None
  <2>3. CASE Ack(d, lost)
    <3>1. /\ state' = [state EXCEPT ![d] = "acked"] /\ UNCHANGED <<handed, dlq>>
          /\ Settle(d[1], "acked", lost)
      BY <2>3 DEF Ack, Decide
    <3>2. Accepted' = Accepted \cup {d[1]}
      <4>1. \A e \in Delivery : state'[e] = "acked" <=> state[e] = "acked" \/ e \in {d}
        BY <3>1 DEF TypeOK
      <4>2. Accepted' = Accepted \cup {e[1] : e \in {d}}
        BY <4>1, AcceptedGrows
      <4>3. QED
        BY <4>2
    <3>3. PICK heard \in SUBSET {d[1]} : heard = IF lost \/ maxDeliver = Absent THEN {} ELSE {d[1]}
      OBVIOUS
    <3>4. \A m \in Msgs : Outcome(m)' =
                IF m \in heard /\ Outcome(m) = "open" THEN "acked" ELSE Outcome(m)
      BY <2>1, <3>1, <3>3 DEF Settle, Outcome, TypeOK, Settled
    <3>5. Queue!Accept({d[1]})
      BY <2>2, <3>1, <3>2, <3>3, <3>4 DEF Queue!Accept
    <3>6. QED
      BY <2>1, <3>5 DEF Queue!Next
  <2>4. ASSUME UNCHANGED <<handed, dlq>>, Settle(d[1], "termed", lost),
               state' = [state EXCEPT ![d] = "termed"]
        PROVE  Step
    <3>1. \A e \in Delivery : state'[e] = "acked" <=> state[e] = "acked"
      BY <2>2, <2>4 DEF TypeOK, InBatch
    <3>2. CASE server' = server
      BY <2>4, <3>1, <3>2, Stutter DEF Outcome
    <3>3. CASE server' # server
      <4>1. server[d[1]] \in {"ready", "pending"} /\ server' = [server EXCEPT ![d[1]] = "termed"]
        BY <2>4, <3>3 DEF Settle
      <4>2. Queue!End(d[1], "termed")
        BY <2>1, <2>2, <2>4, <3>1, <4>1, EndStep DEF Settled
      <4>3. QED
        BY <2>1, <4>2 DEF Queue!Next, Queue!Discard
    <3>4. QED
      BY <3>2, <3>3
  <2>5. ASSUME UNCHANGED <<handed, dlq>>, server' = server \/ Nak(d[1], lost),
               NEW s \in {"retried", "dropped", "dlqpush", "dlqfailed"},
               state' = [state EXCEPT ![d] = s]
        PROVE  Step
    <3>1. \A e \in Delivery : state'[e] = "acked" <=> state[e] = "acked"
      BY <2>2, <2>5 DEF TypeOK, InBatch
    <3>2. \A m \in Msgs : Outcome(m)' = Outcome(m)
      BY <2>1, <2>5 DEF Nak, Outcome, TypeOK, Settled
    <3>3. QED
      BY <2>5, <3>1, <3>2, Stutter
  <2>6. CASE Term(d, lost)
    BY <2>4, <2>6 DEF Term, Decide
  <2>7. CASE NackRetry(d, lost) \/ WrapFails(d, lost) \/ HandlerForgets(d)
    BY <2>5, <2>7 DEF NackRetry, WrapFails, HandlerForgets, Decide
  <2>8. CASE NackExceeded(d, lost) \/ Reject(d, lost)
    <3>1. CASE \E v : DiscardWithoutDLQ(d, v, lost)
      BY <2>4, <3>1 DEF DiscardWithoutDLQ, Decide
    <3>2. CASE \E v : BeginDLQ(d, v)
      BY <2>5, <3>2 DEF BeginDLQ, Decide
    <3>3. QED
      BY <2>8, <3>1, <3>2 DEF NackExceeded, Reject, SendToDLQ
  <2>9. ASSUME NEW s \in {"dlqack", "dlqfailed"}, server' = server \/ Nak(d[1], lost),
               UNCHANGED handed, dlq' = [dlq EXCEPT ![d[1]] = @ + 1],
               state' = [state EXCEPT ![d] = s]
        PROVE  Step
    <3>1. \A e \in Delivery : state'[e] = "acked" <=> state[e] = "acked"
      BY <2>2, <2>9 DEF TypeOK, InBatch
    <3>2. \A m \in Msgs : Outcome(m)' = Outcome(m)
      BY <2>1, <2>9 DEF Nak, Outcome, TypeOK, Settled
    <3>3. Queue!Copy(d[1])
      BY <2>2, <2>9, <3>1, <3>2, AcceptedKept DEF Queue!Copy
    <3>4. QED
      BY <2>1, <3>3 DEF Queue!Next
  <2>10. CASE DLQPublished(d)
    BY <2>9, <2>10 DEF DLQPublished, serverVars
  <2>11. ASSUME NEW stored \in BOOLEAN, DLQPublishFails(d, stored, lost) PROVE Step
    <3>1. CASE stored
      BY <2>9, <2>11, <3>1 DEF DLQPublishFails
    <3>2. CASE ~stored
      BY <2>5, <2>11, <3>2 DEF DLQPublishFails
    <3>3. QED
      BY <3>1, <3>2
  <2>12. CASE DLQAck(d, lost)
    <3>1. /\ state[d] = "dlqack" /\ state' = [state EXCEPT ![d] = "deadlettered"]
          /\ UNCHANGED <<handed, dlq>> /\ Settle(d[1], "acked", lost)
      BY <2>12 DEF DLQAck
    <3>2. \A e \in Delivery : state'[e] = "acked" <=> state[e] = "acked"
      BY <3>1 DEF TypeOK
    <3>3. CASE server' = server
      BY <3>1, <3>2, <3>3, Stutter DEF Outcome
    <3>4. CASE server' # server
      <4>1. server[d[1]] \in {"ready", "pending"} /\ server' = [server EXCEPT ![d[1]] = "acked"]
        BY <3>1, <3>4 DEF Settle
      <4>2. Queue!End(d[1], "acked")
        BY <2>1, <2>2, <3>1, <3>2, <4>1, EndStep DEF Settled
      <4>3. dlq[d[1]] > 0
        BY <3>1 DEF LifeInv, DLQInv
      <4>4. QED
        BY <2>1, <4>2, <4>3 DEF Queue!Next, Queue!Replace
    <3>5. QED
      BY <3>3, <3>4
  <2>13. QED
    BY <1>6, <2>3, <2>6, <2>7, <2>8, <2>10, <2>11, <2>12 DEF Handle
<1>7. CASE UNCHANGED vars
  BY <1>7, Stutter DEF vars, serverVars, taskVars, Outcome
<1>8. QED
  BY <1>1, <1>2, <1>3, <1>4, <1>5, <1>6, <1>7, <1>9 DEF Next, Server

(* The consumers of a durable implement the abstract work queue, for any    *)
(* number of instances, messages and deliveries (consumer.go start,         *)
(* message.go, subscribe.go createOrGetConsumer).                           *)
THEOREM Refinement == Spec => ImplementsQueue
<1>1. TypeOK /\ CountInv /\ LifeInv /\ [Next]_vars
        => (TypeOK /\ CountInv /\ LifeInv)'
  BY NextType, NextCount, NextLife
<1>2. Init => TypeOK /\ CountInv /\ LifeInv
  BY InitType, InitCount, InitLife
<1>3. QED
  BY <1>1, <1>2, InitRefines, NextRefines, PTL DEF Spec, ImplementsQueue, Queue!Spec

-----------------------------------------------------------------------------
(* The bus. *)

Phases == {"idle", "read", "written", "ok", "conflict", "exists", "notfound", "unknown",
           "failed", "created", "active", "stopped", "hanging",
           "creating", "updating", "consumer", "durable", "subscribed", "scheduled", "pending"}

(* What the server and the calls in progress hold. *)
KVType ==
    /\ phase \in [Calls -> Phases]
    /\ value \in SUBSET Calls /\ overwritten \in SUBSET Calls
    /\ live \in BOOLEAN /\ revision \in Nat
    /\ read \in [Calls -> [value : SUBSET Calls, revision : Nat]]

(* A revision stands for one value: a call that read the current revision   *)
(* read the current value.                                                  *)
RevisionInv == \A n \in Calls : phase[n] = "read" =>
    /\ read[n].revision <= revision
    /\ read[n].revision = revision => read[n].value = value

(* Only a write that was applied contributes. *)
ContributionInv ==
    /\ live \/ value = {}
    /\ \A n \in Calls : n \in value \cup overwritten => phase[n] \in {"written", "unknown"}
    /\ \A n \in Calls : phase[n] = "written" => n \in value \cup overwritten

KVInv == KVType /\ RevisionInv /\ ContributionInv

(* No call has been made. *)
LEMMA InitKV == BusInit => KVInv
<1> SUFFICES ASSUME BusInit PROVE KVInv
  OBVIOUS
<1>1. phase \in [Calls -> Phases] /\ \A n \in Calls : phase[n] = "idle"
  BY DEF BusInit, Phases
<1>2. read \in [Calls -> [value : SUBSET Calls, revision : Nat]]
  BY DEF BusInit
<1>3. value = {} /\ overwritten = {} /\ live \in BOOLEAN
  BY DEF BusInit
<1>4. revision \in Nat
  BY DEF BusInit
<1>5. KVType
  BY <1>1, <1>2, <1>3, <1>4 DEF KVType
<1>6. RevisionInv /\ ContributionInv
  BY <1>1, <1>3 DEF RevisionInv, ContributionInv
<1>7. QED
  BY <1>5, <1>6 DEF KVInv

(* A step that leaves the key alone: calls that have not read start         *)
(* something else or end without a write.                                   *)
LEMMA KVFrame ==
    ASSUME KVInv, UNCHANGED kvVars, phase' \in [Calls -> Phases],
           \A n \in Calls : \/ phase'[n] = phase[n]
                            \/ /\ phase[n] \notin {"written", "unknown"}
                               /\ phase'[n] \notin {"written", "read"}
    PROVE  KVInv'
BY DEF KVInv, KVType, Phases, RevisionInv, ContributionInv, kvVars

(* What a call returns, whether or not its reply is lost. *)
LEMMA RepliesPhase ==
    ASSUME KVInv, NEW n \in Calls, NEW result \in Phases, Replies(n, result)
    PROVE  /\ phase' \in [Calls -> Phases]
           /\ phase'[n] \in {result, "unknown"}
           /\ \A k \in Calls : k # n => phase'[k] = phase[k]
BY DEF Replies, Returns, KVInv, KVType, Phases

(* Every step keeps the invariant. *)
LEMMA NextKV == KVInv /\ [BusNext]_natsBusVars => KVInv'
<1> SUFFICES ASSUME KVInv, [BusNext]_natsBusVars PROVE KVInv'
  OBVIOUS
<1> USE BusAssumption
<1>1. ASSUME NEW n \in Calls, RequestLost(n) PROVE KVInv'
  BY <1>1, KVFrame DEF RequestLost, Starts, Returns, KVInv, KVType, Phases
<1>2. ASSUME NEW n \in Calls, Put(n) \/ Delete(n) PROVE KVInv'
  <2>1. PICK result \in {"written", "ok"} :
          /\ phase[n] = "idle" /\ Replies(n, result)
          /\ value' = (IF result = "written" THEN {n} ELSE {})
          /\ live' = (result = "written")
          /\ revision' = revision + 1 /\ overwritten' = overwritten \cup value /\ read' = read
    BY <1>2 DEF Put, Delete, Write, Starts
  <2>2. /\ phase' \in [Calls -> Phases] /\ phase'[n] \in {result, "unknown"}
        /\ \A k \in Calls : k # n => phase'[k] = phase[k]
    BY <2>1, RepliesPhase DEF Phases
  <2>3. KVType'
    BY <2>1, <2>2 DEF KVInv, KVType, Phases
  <2>4. RevisionInv'
    BY <2>1, <2>2 DEF KVInv, KVType, Phases, RevisionInv
  <2>5. ContributionInv'
    BY <2>1, <2>2 DEF KVInv, KVType, Phases, ContributionInv
  <2>6. QED
    BY <2>3, <2>4, <2>5 DEF KVInv
<1>3. ASSUME NEW n \in Calls, Create(n) PROVE KVInv'
  <2>1. phase[n] = "idle" /\ UNCHANGED <<read, overwritten>>
    BY <1>3 DEF Create, Starts
  <2>2. CASE live
    <3>1. UNCHANGED kvVars /\ Replies(n, "exists")
      BY <1>3, <2>1, <2>2 DEF Create, Keep, kvVars
    <3>2. QED
      BY <2>1, <3>1, RepliesPhase, KVFrame DEF Phases
  <2>3. CASE ~live
    <3>1. /\ value' = {n} /\ live' = TRUE /\ revision' = revision + 1 /\ Replies(n, "written")
      BY <1>3, <2>3 DEF Create, Write
    <3>2. /\ phase' \in [Calls -> Phases] /\ phase'[n] \in {"written", "unknown"}
          /\ \A k \in Calls : k # n => phase'[k] = phase[k]
      BY <3>1, RepliesPhase DEF Phases
    <3>3. value = {}
      BY <2>3 DEF KVInv, ContributionInv
    <3>4. QED
      BY <2>1, <3>1, <3>2, <3>3 DEF KVInv, KVType, Phases, RevisionInv, ContributionInv
  <2>4. QED
    BY <2>2, <2>3
<1>4. ASSUME NEW n \in Calls, Get(n) PROVE KVInv'
  <2>1. phase[n] = "idle" /\ UNCHANGED <<value, live, revision, overwritten>>
    BY <1>4 DEF Get, Starts
  <2>2. CASE live
    <3>1. /\ read' = [read EXCEPT ![n] = [value |-> value, revision |-> revision]]
          /\ phase' = [phase EXCEPT ![n] = "read"]
      BY <1>4, <2>2 DEF Get, Returns
    <3>2. QED
      BY <2>1, <3>1 DEF KVInv, KVType, Phases, RevisionInv, ContributionInv
  <2>3. CASE ~live
    <3>1. read' = read /\ phase' = [phase EXCEPT ![n] = "notfound"]
      BY <1>4, <2>3 DEF Get, Returns
    <3>2. QED
      BY <2>1, <3>1, KVFrame DEF KVInv, KVType, Phases, kvVars
  <2>4. QED
    BY <2>2, <2>3
<1>5. ASSUME NEW n \in Calls, Update(n) PROVE KVInv'
  <2>1. phase[n] = "read" /\ UNCHANGED <<read, overwritten>>
    BY <1>5 DEF Update
  <2>2. CASE read[n].revision # revision
    <3>1. UNCHANGED kvVars /\ Replies(n, "conflict")
      BY <1>5, <2>1, <2>2 DEF Update, Keep, kvVars
    <3>2. QED
      BY <2>1, <3>1, RepliesPhase, KVFrame DEF Phases
  <2>3. CASE read[n].revision = revision
    <3>1. /\ value' = read[n].value \cup {n} /\ live' = TRUE
          /\ revision' = revision + 1 /\ Replies(n, "written")
      BY <1>5, <2>3 DEF Update, Write
    <3>2. /\ phase' \in [Calls -> Phases] /\ phase'[n] \in {"written", "unknown"}
          /\ \A k \in Calls : k # n => phase'[k] = phase[k]
      BY <3>1, RepliesPhase DEF Phases
    <3>3. read[n].value = value
      BY <2>1, <2>3 DEF KVInv, RevisionInv
    <3>4. QED
      BY <2>1, <3>1, <3>2, <3>3 DEF KVInv, KVType, Phases, RevisionInv, ContributionInv
  <2>4. QED
    BY <2>2, <2>3
<1>6. ASSUME NEW n \in Calls, EnsureFanoutStream(n) PROVE KVInv'
  <2>1. phase[n] = "idle" /\ UNCHANGED kvVars /\ Replies(n, "ok")
    BY <1>6 DEF EnsureFanoutStream, Starts
  <2>2. QED
    BY <2>1, RepliesPhase, KVFrame DEF Phases
<1>7. ASSUME NEW n \in Calls, NEW s \in Subjects, PublishFanout(n, s) PROVE KVInv'
  <2>1. phase[n] = "idle" /\ UNCHANGED kvVars /\ Replies(n, "ok")
    BY <1>7 DEF PublishFanout, Starts
  <2>2. QED
    BY <2>1, RepliesPhase, KVFrame DEF Phases
<1>8. ASSUME NEW n \in Calls,
             \/ NoStream(n) \/ Consume(n) \/ StopFanout(n)
             \/ \E s \in Subjects, c \in Services : SubscribeFanout(n, c, s)
      PROVE KVInv'
  <2>1. UNCHANGED kvVars
    BY <1>8 DEF NoStream, Consume, StopFanout, SubscribeFanout
  <2>2. \E result \in {"failed", "active", "stopped", "created"} :
            phase' = [phase EXCEPT ![n] = result]
    BY <1>8 DEF NoStream, Consume, StopFanout, SubscribeFanout, Returns
  <2>3. phase[n] \in {"idle", "created", "active"}
    BY <1>8 DEF NoStream, Consume, StopFanout, SubscribeFanout, Starts
  <2>4. QED
    BY <2>1, <2>2, <2>3, KVFrame DEF KVInv, KVType, Phases
<1>9. ASSUME NEW n \in Calls, NEW k \in 1 .. MaxPublished, Callback(n, k) PROVE KVInv'
  BY <1>9, KVFrame DEF Callback, KVInv, KVType, Phases
<1>13. ASSUME NEW n \in Calls,
              \/ CreateStream(n) \/ UpdateStream(n) \/ CreateConsumer(n) \/ Subscribe(n)
              \/ \E s \in Subjects : StreamInfo(n, s)
      PROVE KVInv'
  <2>1. UNCHANGED kvVars
    BY <1>13 DEF CreateStream, UpdateStream, CreateConsumer, Subscribe, StreamInfo
  <2>2. \E result \in Provisioning \cup {"failed", "subscribed"} :
            phase' = [phase EXCEPT ![n] = result]
    BY <1>13 DEF CreateStream, UpdateStream, CreateConsumer, Subscribe, StreamInfo, Returns,
                 Provisioning
  <2>3. phase[n] \in {"idle", "creating", "updating", "consumer", "durable"}
    BY <1>13 DEF CreateStream, UpdateStream, CreateConsumer, Subscribe, StreamInfo, Starts
  <2>4. QED
    BY <2>1, <2>2, <2>3, KVFrame DEF KVInv, KVType, Phases, Provisioning
<1>14. ASSUME NEW n \in Calls,
              \/ PurgeStreamSubject(n) \/ HasPendingMessages(n)
              \/ \E given \in BOOLEAN : PublishScheduled(n, given)
      PROVE KVInv'
  <2>1. phase[n] = "idle" /\ UNCHANGED kvVars
    BY <1>14 DEF PublishScheduled, PurgeStreamSubject, HasPendingMessages, Starts
  <2>2. PICK result \in {"scheduled", "ok", "pending", "notfound"} : Replies(n, result)
    BY <1>14 DEF PublishScheduled, PurgeStreamSubject, HasPendingMessages
  <2>3. QED
    BY <2>1, <2>2, RepliesPhase, KVFrame DEF Phases
<1>15. CASE WindowEnds \/ Fire
  BY <1>15, KVFrame DEF WindowEnds, Fire, KVInv, KVType, Phases
<1>10. CASE ServerRestart
  BY <1>10, KVFrame DEF ServerRestart, Subscribed, KVInv, KVType, Phases
<1>11. CASE UNCHANGED natsBusVars
  BY <1>11, KVFrame DEF natsBusVars, KVInv, KVType, Phases
<1>12. QED
  BY <1>1, <1>2, <1>3, <1>4, <1>5, <1>6, <1>7, <1>8, <1>9, <1>10, <1>11, <1>13, <1>14,
     <1>15 DEF BusNext

(* No confirmed write of a key is lost to a concurrent read-modify-write,   *)
(* and a refused one wrote nothing (kv.go Get, Update, Create, Put).        *)
THEOREM NoUpdateLost == BusSpec => []NoLostUpdate
<1>1. KVInv => NoLostUpdate
  BY DEF KVInv, ContributionInv, NoLostUpdate
<1>2. QED
  BY <1>1, InitKV, NextKV, PTL DEF BusSpec

-----------------------------------------------------------------------------
(* Provisioning: for calls of Subscribe that did not overlap, the caller    *)
(* still knows the stream as it is, and the stream captures the subject of  *)
(* every call that is past its update and of every durable.                 *)

Past == {"consumer", "durable", "subscribed"}

ProvisionedInv ==
    /\ \A n, k \in Calls :
          phase[n] \in Provisioning /\ phase[k] \in Provisioning => n = k
    /\ \A n \in Calls :
          /\ phase[n] = "creating" => subjects = {}
          /\ phase[n] = "updating" => info[n] = subjects
          /\ phase[n] \in Past => Captured(sub[n].subject, subjects)
    /\ \A d \in durables : Captured(d, subjects)

QueueInv ==
    /\ faults \in Nat /\ overlapped \in BOOLEAN
    /\ DOMAIN info = Calls /\ DOMAIN sub = Calls
    /\ ~overlapped /\ faults = 0 => ProvisionedInv

(* A step in which no call provisions: it changes no queue and touches no   *)
(* call that is in the middle of one.                                       *)
LEMMA QueueFrame ==
    ASSUME QueueInv, UNCHANGED queueVars, DOMAIN sub' = Calls,
           faults' \in Nat, faults' >= faults,
           \A k \in Calls : phase'[k] \in Provisioning \cup Past =>
                                phase'[k] = phase[k] /\ sub'[k] = sub[k]
    PROVE  QueueInv'
BY DEF QueueInv, ProvisionedInv, Provisioning, Past, queueVars

(* A reply that arrives is no fault; one that is lost is counted. *)
LEMMA RepliesFaults ==
    ASSUME QueueInv, NEW n \in Calls, NEW result, Replies(n, result)
    PROVE  faults' \in Nat /\ faults' >= faults
BY DEF Replies, QueueInv

(* Every step keeps the invariant. *)
LEMMA NextQueue == KVInv /\ QueueInv /\ [BusNext]_natsBusVars => QueueInv'
<1> SUFFICES ASSUME KVInv, QueueInv, [BusNext]_natsBusVars PROVE QueueInv'
  OBVIOUS
<1> USE BusAssumption
<1>t. phase \in [Calls -> Phases]
  BY DEF KVInv, KVType
<1>1. ASSUME NEW n \in Calls, NEW result \in Phases \ (Provisioning \cup Past),
             Replies(n, result), UNCHANGED <<queueVars, sub>>
      PROVE QueueInv'
  BY <1>1, RepliesPhase, RepliesFaults, QueueFrame DEF QueueInv, Provisioning, Past
<1>2. ASSUME NEW n \in Calls, Put(n) \/ Delete(n) \/ EnsureFanoutStream(n)
                                \/ \E s \in Subjects : PublishFanout(n, s)
      PROVE QueueInv'
  <2>1. UNCHANGED <<queueVars, sub>> /\ \E result \in {"written", "ok"} : Replies(n, result)
    BY <1>2 DEF Put, Delete, EnsureFanoutStream, PublishFanout, jsVars, busVars
  <2>2. QED
    BY <2>1, <1>1 DEF Phases, Provisioning, Past
<1>3. ASSUME NEW n \in Calls, Create(n) \/ Update(n) PROVE QueueInv'
  <2>1. UNCHANGED <<queueVars, sub>>
        /\ \E result \in {"written", "exists", "conflict"} : Replies(n, result)
    BY <1>3 DEF Create, Update, jsVars, busVars
  <2>2. QED
    BY <2>1, <1>1 DEF Phases, Provisioning, Past
<1>4. ASSUME NEW n \in Calls,
             \/ PurgeStreamSubject(n) \/ HasPendingMessages(n)
             \/ \E given \in BOOLEAN : PublishScheduled(n, given)
      PROVE QueueInv'
  <2>1. UNCHANGED <<queueVars, sub>>
    BY <1>4 DEF PublishScheduled, PurgeStreamSubject, HasPendingMessages, jsVars, busVars
  <2>2. \E result \in {"scheduled", "ok", "pending", "notfound"} : Replies(n, result)
    BY <1>4 DEF PublishScheduled, PurgeStreamSubject, HasPendingMessages
  <2>3. QED
    BY <2>1, <2>2, <1>1 DEF Phases, Provisioning, Past
<1>5. ASSUME NEW n \in Calls, RequestLost(n) \/ Get(n) \/ NoStream(n) \/ Consume(n) \/ StopFanout(n)
      PROVE QueueInv'
  <2>1. UNCHANGED <<queueVars, sub>> /\ faults' \in {faults, faults + 1}
    BY <1>5 DEF RequestLost, Get, NoStream, Consume, StopFanout, jsVars, busVars
  <2>2. \E result \in Phases \ (Provisioning \cup Past) : phase' = [phase EXCEPT ![n] = result]
    BY <1>5 DEF RequestLost, Get, NoStream, Consume, StopFanout, Returns, Phases, Provisioning, Past
  <2>3. QED
    BY <1>t, <2>1, <2>2, QueueFrame DEF QueueInv, Provisioning, Past
<1>6. ASSUME NEW n \in Calls, NEW s \in Subjects, NEW c \in Services, SubscribeFanout(n, c, s)
      PROVE QueueInv'
  <2>1. /\ UNCHANGED <<queueVars, faults>> /\ phase' = [phase EXCEPT ![n] = "created"]
        /\ sub' = [sub EXCEPT ![n] = [service |-> c, subject |-> s, since |-> Len(log)]]
    BY <1>6 DEF SubscribeFanout, Returns, jsVars
  <2>2. QED
    BY <1>t, <2>1, QueueFrame DEF QueueInv, Provisioning, Past
<1>7. ASSUME NEW n \in Calls, NEW k \in 1 .. MaxPublished, Callback(n, k) PROVE QueueInv'
  <2>1. UNCHANGED <<queueVars, sub, phase>> /\ faults' \in {faults, faults + 1}
    BY <1>7 DEF Callback, jsVars
  <2>2. QED
    BY <2>1, QueueFrame DEF QueueInv
<1>8. ASSUME NEW n \in Calls, NEW s \in Subjects, StreamInfo(n, s) PROVE QueueInv'
  <2>1. /\ UNCHANGED <<subjects, durables, faults>> /\ phase[n] = "idle"
        /\ sub' = [sub EXCEPT ![n].subject = s]
        /\ info' = [info EXCEPT ![n] = subjects]
        /\ overlapped' = (overlapped \/ \E k \in Calls : phase[k] \in Provisioning)
    BY <1>8 DEF StreamInfo, Starts
  <2>2. PICK result \in Provisioning :
          /\ phase' = [phase EXCEPT ![n] = result]
          /\ result = "creating" => subjects = {}
          /\ result \in Past => Captured(s, subjects)
    BY <1>8 DEF StreamInfo, Returns, Provisioning, Past
  <2>3. ASSUME ~overlapped', faults' = 0 PROVE ProvisionedInv'
    <3>1. ProvisionedInv /\ \A k \in Calls : phase[k] \notin Provisioning
      BY <2>1, <2>3 DEF QueueInv
    <3>2. \A k \in Calls : k # n => phase'[k] = phase[k] /\ sub'[k] = sub[k]
      BY <1>t, <2>1, <2>2 DEF QueueInv
    <3>3. phase'[n] = result /\ sub'[n].subject = s /\ info'[n] = subjects
      BY <1>t, <2>1, <2>2 DEF QueueInv
    <3>4. QED
      BY <2>1, <2>2, <3>1, <3>2, <3>3 DEF ProvisionedInv, Provisioning, Past
  <2>4. QED
    BY <2>1, <2>3 DEF QueueInv
<1>9. ASSUME NEW n \in Calls, CreateStream(n) PROVE QueueInv'
  <2>1. /\ phase[n] = "creating" /\ UNCHANGED <<durables, info, overlapped, sub>>
        /\ faults' \in {faults, faults + 1}
    BY <1>9 DEF CreateStream, busVars
  <2>2. ASSUME ~overlapped', faults' = 0 PROVE ProvisionedInv'
    <3>1. faults = 0 /\ ProvisionedInv /\ subjects = {}
      BY <2>1, <2>2 DEF QueueInv, ProvisionedInv
    <3>2. phase' = [phase EXCEPT ![n] = "consumer"] /\ subjects' = {sub[n].subject}
      BY <1>9, <2>2, <3>1 DEF CreateStream, Returns
    <3>3. QED
      BY <1>t, <2>1, <3>1, <3>2 DEF ProvisionedInv, Provisioning, Past, Captured
  <2>3. QED
    BY <2>1, <2>2 DEF QueueInv
<1>10. ASSUME NEW n \in Calls, UpdateStream(n) PROVE QueueInv'
  <2>1. /\ phase[n] = "updating" /\ UNCHANGED <<durables, info, overlapped, sub>>
        /\ faults' \in {faults, faults + 1} /\ phase' = [phase EXCEPT ![n] = "consumer"]
    BY <1>10 DEF UpdateStream, busVars, Returns
  <2>2. ASSUME ~overlapped', faults' = 0 PROVE ProvisionedInv'
    <3>1. /\ faults = 0 /\ ProvisionedInv /\ info[n] = subjects
          /\ \A d \in durables : Captured(d, subjects)
      BY <2>1, <2>2 DEF QueueInv, ProvisionedInv
    <3>2. /\ subjects \subseteq subjects' /\ subjects' \subseteq subjects \cup {sub[n].subject}
          /\ Captured(sub[n].subject, subjects')
      BY <1>10, <2>2, <3>1 DEF UpdateStream, Captured
    <3>3. QED
      BY <1>t, <2>1, <3>1, <3>2 DEF ProvisionedInv, Provisioning, Past, Captured
  <2>3. QED
    BY <2>1, <2>2 DEF QueueInv
<1>11. ASSUME NEW n \in Calls, CreateConsumer(n) PROVE QueueInv'
  <2>1. /\ phase[n] = "consumer" /\ UNCHANGED <<subjects, info, overlapped, sub, faults>>
        /\ durables' \subseteq durables \cup {sub[n].subject}
    BY <1>11 DEF CreateConsumer, busVars
  <2>2. \E result \in {"durable", "failed"} : phase' = [phase EXCEPT ![n] = result]
    BY <1>11 DEF CreateConsumer, Returns
  <2>3. ASSUME ProvisionedInv PROVE ProvisionedInv'
    BY <1>t, <2>1, <2>2, <2>3 DEF ProvisionedInv, Provisioning, Past
  <2>4. QED
    BY <2>1, <2>3 DEF QueueInv
<1>12. ASSUME NEW n \in Calls, Subscribe(n) PROVE QueueInv'
  <2>1. /\ phase[n] = "durable" /\ UNCHANGED <<queueVars, sub>>
        /\ faults' \in {faults, faults + 1}
        /\ \E result \in {"subscribed", "failed"} : phase' = [phase EXCEPT ![n] = result]
    BY <1>12 DEF Subscribe, jsVars, busVars, Returns
  <2>2. ASSUME ProvisionedInv PROVE ProvisionedInv'
    BY <1>t, <2>1, <2>2 DEF ProvisionedInv, Provisioning, Past, queueVars
  <2>3. QED
    BY <2>1, <2>2 DEF QueueInv, queueVars
<1>13. CASE ServerRestart
  <2>1. UNCHANGED <<queueVars, sub>> /\ faults' = faults + 1
    BY <1>13 DEF ServerRestart, jsVars
  <2>2. QED
    BY <2>1 DEF QueueInv, queueVars
<1>14. CASE WindowEnds \/ Fire \/ UNCHANGED natsBusVars
  <2>1. UNCHANGED <<queueVars, sub, phase, faults>>
    BY <1>14 DEF WindowEnds, Fire, natsBusVars, jsVars, busVars
  <2>2. QED
    BY <2>1, QueueFrame DEF QueueInv
<1>15. QED
  BY <1>2, <1>3, <1>4, <1>5, <1>6, <1>7, <1>8, <1>9, <1>10, <1>11, <1>12, <1>13, <1>14 DEF BusNext

(* Services that provision a stream one after another keep each other's     *)
(* subjects, for any number of them (subscribe.go createOrGetConsumer).     *)
THEOREM SubjectsStayCaptured == BusSpec => []SubjectsCaptured
<1>1. ASSUME BusInit PROVE QueueInv
  <2>1. \A n \in Calls : phase[n] = "idle"
    BY <1>1 DEF BusInit
  <2>2. ProvisionedInv
    BY <1>1, <2>1 DEF BusInit, ProvisionedInv, Provisioning, Past
  <2>3. faults = 0 /\ overlapped = FALSE /\ DOMAIN info = Calls /\ DOMAIN sub = Calls
    BY <1>1 DEF BusInit
  <2>4. QED
    BY <2>2, <2>3 DEF QueueInv
<1>2. QueueInv => SubjectsCaptured
  BY DEF QueueInv, ProvisionedInv, Past, SubjectsCaptured
<1>3. QED
  BY <1>1, <1>2, InitKV, NextKV, NextQueue, PTL DEF BusSpec

-----------------------------------------------------------------------------
(* A schedule: the current duplicate window has an attempt with the MsgId   *)
(* only if the server remembers it, and a call that has yet to be made is   *)
(* no attempt, so that every message stored has an attempt of its own; from *)
(* the first attempt on and until a purge the message waits or has fired.   *)
TimerInv ==
    /\ pending \in BOOLEAN /\ purged \in BOOLEAN /\ fired \in Nat /\ windows \in Nat
    /\ IsFiniteSet(chances)
    /\ fired + (IF pending THEN 1 ELSE 0) <= Cardinality(chances)
    /\ \A n \in Calls : phase[n] = "idle" => <<"call", n>> \notin chances
    /\ \A w \in Nat : <<"window", w>> \in chances => w <= windows
    /\ <<"window", windows>> \in chances => 0 \in msgIds
    /\ msgIds # {} => chances # {}
    /\ chances # {} /\ ~purged => pending \/ fired > 0
    /\ (\E n \in Calls : phase[n] = "scheduled") => chances # {}

(* A step that does not schedule, purge or fire, reports no schedule and    *)
(* takes no call back.                                                      *)
LEMMA TimerFrame ==
    ASSUME TimerInv, UNCHANGED timerVars,
           \A k \in Calls : /\ phase'[k] = "scheduled" => phase[k] = "scheduled"
                            /\ phase'[k] = "idle" => phase[k] = "idle"
    PROVE  TimerInv'
BY DEF TimerInv, timerVars

(* An attempt is counted, and stored only if it is a new one. *)
LEMMA AttemptCounts ==
    ASSUME TimerInv, NEW n \in Calls, phase[n] = "idle", NEW given \in BOOLEAN,
           PublishScheduled(n, given)
    PROVE  /\ IsFiniteSet(chances') /\ pending' \in BOOLEAN /\ UNCHANGED fired
           /\ fired + (IF pending' THEN 1 ELSE 0) <= Cardinality(chances')
<1> DEFINE c == IF given THEN <<"window", windows>> ELSE <<"call", n>>
<1>1. chances' = chances \cup {c} /\ pending' = (pending \/ MsgId(n, given) \notin msgIds)
      /\ UNCHANGED fired
  BY DEF PublishScheduled
<1>2. IsFiniteSet(chances') /\ Cardinality(chances) \in Nat
      /\ Cardinality(chances') = IF c \in chances THEN Cardinality(chances) ELSE Cardinality(chances) + 1
  BY <1>1, FS_AddElement, FS_CardinalityType DEF TimerInv
<1>3. c \in chances => pending' = pending
  BY <1>1 DEF TimerInv, MsgId
<1>4. pending' \in BOOLEAN /\ fired \in Nat
  BY <1>1 DEF TimerInv
<1>5. fired <= Cardinality(chances) /\ fired + (IF pending THEN 1 ELSE 0) <= Cardinality(chances)
  BY <1>2 DEF TimerInv
<1> HIDE DEF c
<1>6. QED
  BY <1>1, <1>2, <1>3, <1>4, <1>5

LEMMA NextTimer == KVInv /\ TimerInv /\ [BusNext]_natsBusVars => TimerInv'
<1> SUFFICES ASSUME KVInv, TimerInv, [BusNext]_natsBusVars PROVE TimerInv'
  OBVIOUS
<1>t. phase \in [Calls -> Phases]
  BY DEF KVInv, KVType
<1>1. ASSUME NEW n \in Calls, NEW given \in BOOLEAN, PublishScheduled(n, given) PROVE TimerInv'
  <2>1. /\ pending' = (pending \/ MsgId(n, given) \notin msgIds)
        /\ msgIds' = msgIds \cup {MsgId(n, given)}
        /\ chances' = chances \cup {IF given THEN <<"window", windows>> ELSE <<"call", n>>}
        /\ UNCHANGED <<fired, windows, purged>> /\ phase[n] = "idle"
    BY <1>1 DEF PublishScheduled, Starts
  <2>2. phase'[n] # "idle" /\ \A k \in Calls \ {n} : phase'[k] = phase[k]
    BY <1>t, <1>1 DEF PublishScheduled, Replies, Returns
  <2>3. /\ IsFiniteSet(chances') /\ pending' \in BOOLEAN
        /\ fired' + (IF pending' THEN 1 ELSE 0) <= Cardinality(chances')
    BY <1>1, <2>1, AttemptCounts
  <2>4. \A k \in Calls : phase'[k] = "idle" => <<"call", k>> \notin chances'
    BY <2>1, <2>2 DEF TimerInv
  <2>5. /\ \A w \in Nat : <<"window", w>> \in chances' => w <= windows'
        /\ <<"window", windows'>> \in chances' => 0 \in msgIds'
    BY <2>1 DEF TimerInv, MsgId
  <2>6. chances' # {} /\ (~purged' => pending' \/ fired' > 0)
    BY <2>1 DEF TimerInv
  <2>7. fired' \in Nat /\ windows' \in Nat /\ purged' \in BOOLEAN
    BY <2>1 DEF TimerInv
  <2>8. QED
    BY <2>3, <2>4, <2>5, <2>6, <2>7 DEF TimerInv
<1>2. ASSUME NEW n \in Calls, PurgeStreamSubject(n) PROVE TimerInv'
  <2>1. /\ pending' = FALSE /\ purged' = TRUE /\ UNCHANGED <<fired, msgIds, windows, chances>>
        /\ Replies(n, "ok")
    BY <1>2 DEF PurgeStreamSubject
  <2>2. \A k \in Calls : /\ phase'[k] = "scheduled" => phase[k] = "scheduled"
                         /\ phase'[k] = "idle" => phase[k] = "idle"
    BY <1>t, <2>1 DEF Replies, Returns
  <2>3. fired' + 0 <= Cardinality(chances')
    BY <2>1, FS_CardinalityType DEF TimerInv
  <2>4. QED
    BY <2>1, <2>2, <2>3 DEF TimerInv
<1>3. CASE Fire
  <2>1. pending /\ fired + 1 <= Cardinality(chances) /\ fired \in Nat
    BY <1>3 DEF Fire, TimerInv
  <2>2. pending' = FALSE /\ fired' = fired + 1
        /\ UNCHANGED <<phase, msgIds, windows, chances, purged>>
    BY <1>3 DEF Fire
  <2>3. fired' \in Nat /\ fired' > 0 /\ fired' + 0 <= Cardinality(chances')
    BY <2>1, <2>2
  <2>4. QED
    BY <2>2, <2>3 DEF TimerInv
<1>12. CASE WindowEnds
  <2>1. /\ msgIds' = msgIds \ {0} /\ windows' = windows + 1
        /\ UNCHANGED <<phase, pending, fired, chances, purged>>
    BY <1>12 DEF WindowEnds
  <2>2. windows' \in Nat /\ <<"window", windows'>> \notin chances
    BY <2>1 DEF TimerInv
  <2>3. \A w \in Nat : <<"window", w>> \in chances' => w <= windows'
    BY <2>1 DEF TimerInv
  <2>4. QED
    BY <2>1, <2>2, <2>3 DEF TimerInv
<1>4. ASSUME NEW n \in Calls, NEW result \in Phases \ {"scheduled", "idle"},
             Replies(n, result) \/ Returns(n, result), UNCHANGED timerVars
      PROVE TimerInv'
  <2>1. \A k \in Calls : /\ phase'[k] = "scheduled" => phase[k] = "scheduled"
                         /\ phase'[k] = "idle" => phase[k] = "idle"
    BY <1>t, <1>4 DEF Replies, Returns
  <2>2. QED
    BY <1>4, <2>1, TimerFrame
<1>5. ASSUME NEW n \in Calls,
             \/ Put(n) \/ Delete(n) \/ EnsureFanoutStream(n) \/ Create(n) \/ Update(n)
             \/ HasPendingMessages(n) \/ \E s \in Subjects : PublishFanout(n, s)
      PROVE TimerInv'
  <2>1. UNCHANGED timerVars
    BY <1>5 DEF Put, Delete, EnsureFanoutStream, PublishFanout, Create, Update,
                HasPendingMessages, jsVars
  <2>2. \E result \in {"written", "ok", "exists", "conflict", "pending", "notfound"} :
            Replies(n, result)
    BY <1>5 DEF Put, Delete, EnsureFanoutStream, PublishFanout, Create, Update, HasPendingMessages
  <2>3. QED
    BY <2>1, <2>2, <1>4 DEF Phases
<1>6. ASSUME NEW n \in Calls,
             \/ RequestLost(n) \/ Get(n) \/ NoStream(n) \/ Consume(n) \/ StopFanout(n)
             \/ \E s \in Subjects, c \in Services : SubscribeFanout(n, c, s)
      PROVE TimerInv'
  <2>1. UNCHANGED timerVars
    BY <1>6 DEF RequestLost, Get, NoStream, Consume, StopFanout, SubscribeFanout, jsVars
  <2>2. \E result \in {"unknown", "read", "notfound", "failed", "active", "stopped", "created"} :
            Returns(n, result)
    BY <1>6 DEF RequestLost, Get, NoStream, Consume, StopFanout, SubscribeFanout
  <2>3. QED
    BY <2>1, <2>2, <1>4 DEF Phases
<1>7. ASSUME NEW n \in Calls,
             \/ CreateStream(n) \/ UpdateStream(n) \/ CreateConsumer(n) \/ Subscribe(n)
             \/ \E s \in Subjects : StreamInfo(n, s)
      PROVE TimerInv'
  <2>1. UNCHANGED timerVars
    BY <1>7 DEF CreateStream, UpdateStream, CreateConsumer, Subscribe, StreamInfo, jsVars
  <2>2. \E result \in Provisioning \cup {"failed", "subscribed"} : Returns(n, result)
    BY <1>7 DEF CreateStream, UpdateStream, CreateConsumer, Subscribe, StreamInfo, Provisioning
  <2>3. QED
    BY <2>1, <2>2, <1>4 DEF Phases, Provisioning
<1>8. ASSUME NEW n \in Calls, NEW k \in 1 .. MaxPublished, Callback(n, k) PROVE TimerInv'
  BY <1>8, TimerFrame DEF Callback, jsVars
<1>9. CASE ServerRestart
  <2>1. /\ UNCHANGED timerVars
        /\ \A k \in Calls : /\ phase'[k] = "scheduled" => phase[k] = "scheduled"
                            /\ phase'[k] = "idle" => phase[k] = "idle"
    BY <1>t, <1>9 DEF ServerRestart, jsVars
  <2>2. QED
    BY <2>1, TimerFrame
<1>10. CASE UNCHANGED natsBusVars
  BY <1>10, TimerFrame DEF natsBusVars, jsVars
<1>11. QED
  BY <1>1, <1>2, <1>3, <1>5, <1>6, <1>7, <1>8, <1>9, <1>10, <1>12 DEF BusNext

(* A scheduled message is delivered at most once for each duplicate window  *)
(* with attempts that carry its MsgId and for each attempt without it, and, *)
(* unless it is purged, it is not lost (bus.go PublishScheduled).           *)
THEOREM ScheduleFiresOnce == BusSpec => []ScheduledOnce
<1>1. ASSUME BusInit PROVE TimerInv
  <2>1. chances = {} /\ fired = 0 /\ pending = FALSE /\ windows = 0 /\ msgIds = {} /\ purged = FALSE
        /\ \A n \in Calls : phase[n] = "idle"
    BY <1>1 DEF BusInit
  <2>2. IsFiniteSet(chances) /\ Cardinality(chances) = 0
    BY <2>1, FS_EmptySet
  <2>3. fired + (IF pending THEN 1 ELSE 0) <= Cardinality(chances)
    BY <2>1, <2>2
  <2>4. QED
    BY <2>1, <2>2, <2>3 DEF TimerInv
<1>2. TimerInv => ScheduledOnce
  BY DEF TimerInv, ScheduledOnce
<1>3. QED
  BY <1>1, <1>2, InitKV, NextKV, NextTimer, PTL DEF BusSpec
=============================================================================
