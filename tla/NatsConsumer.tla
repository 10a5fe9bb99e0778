---------------------------- MODULE NatsConsumer ----------------------------
(***************************************************************************)
(* The JetStream pull consumer of infrastructure/nats: the double-buffered *)
(* fetch loop of Consumer.start, the four ways of handling a batch, the    *)
(* Ack/Nack/Reject/Term life cycle of a Message with its retry policy and  *)
(* dead letter queue, Stop, and the crash and restart of an instance.      *)
(* Several instances of a service share one durable consumer.              *)
(*                                                                         *)
(* The JetStream server (package nats.go and the server behind it) is      *)
(* external: it delivers a message, counts the deliveries, makes the       *)
(* message ready again after a NAK or when AckWait expires, and gives up   *)
(* once MaxDeliver deliveries are spent.                                   *)
(*                                                                         *)
(* The n-th delivery of a message m is known as <<m, n>>, so all the client *)
(* knows about a delivery, its NumDelivered included, is kept in functions *)
(* on Delivery.                                                            *)
(***************************************************************************)
EXTENDS Integers, FiniteSets

CONSTANTS
    Instances,          \* service instances that run StartConsumer on the durable
    Msgs,               \* messages of the stream
    Options,            \* the ConsumerOptions an installation may choose
    BatchSizes,         \* ConsumerOptions.BatchSize in the releases of the service
    FetchMaxRetries,    \* ConsumerOptions.MaxRetries (fetch errors, not deliveries)
    DefaultMaxRetries,  \* the 5 of retry.go
    MinAckPending,      \* the 128 of StartConsumer
    PriorMaxDeliver,    \* MaxDeliver of a durable left by an earlier deployment
    MaxDeliveries,      \* bound: deliveries of one message
    MaxCrashes,         \* bound: crashes of instances
    MaxFetchErrors      \* bound: fetches that end in an error

NoPolicy == -1          \* options.RetryPolicy == nil
Absent == 0             \* the durable does not exist
Unlimited == -1         \* MaxDeliver of a durable created without a RetryPolicy

Handlers == {"V2", "Bulk", "Legacy"}

RetryPolicy == {NoPolicy} \cup Nat        \* its MaxRetries

ConsumerOptions == [handler : Handlers, maxRetries : RetryPolicy,
                    dlq : BOOLEAN, stopOnError : BOOLEAN]

ASSUME OptionsAssumption == Options \subseteq ConsumerOptions
ASSUME BoundsAssumption ==
    /\ BatchSizes \subseteq Nat \ {0} /\ FetchMaxRetries \in Nat \ {0}
    /\ DefaultMaxRetries \in Nat \ {0} /\ MinAckPending \in Nat \ {0}
    /\ MaxDeliveries \in Nat \ {0}
    /\ MaxCrashes \in Nat /\ MaxFetchErrors \in Nat
ASSUME PriorAssumption == PriorMaxDeliver \subseteq {Absent, Unlimited} \cup Nat

Delivery == Msgs \X (1 .. MaxDeliveries)

VARIABLES
    options,        \* ConsumerOptions, fixed when the installation is configured
    batchSize,      \* BatchSize of the release each instance runs
    maxDeliver,     \* server: MaxDeliver of the durable, Absent while there is none
    ackPending,     \* server: MaxAckPending of the durable, 0 while there is none
    server,         \* server: the state of each message
    numDelivered,   \* server: NumDelivered of each message under this durable
    handed,         \* deliveries of each message, under any durable
    loop,           \* Consumer.start: where the goroutine of each instance is
    fetch,          \* the asyncFetch in flight: idle, waiting, or its result
    retryCount,     \* Consumer.start: consecutive fetch errors
    stopped,        \* Consumer.stopped, set together with closing stopChan
    owner,          \* the instance a delivery went to
    attempt,        \* NumDelivered in the metadata of a delivery
    state,          \* what became of a delivery in the client
    verdict,        \* what the user's handler decided about a delivery
    dlq,            \* number of copies of each message in the DLQ stream
    crashes,        \* crashes so far
    fetchErrors     \* fetch errors so far

configVars   == <<options, batchSize>>
durableVars  == <<maxDeliver, ackPending>>
countVars    == <<numDelivered, handed>>
serverVars   == <<durableVars, server, countVars>>
loopVars     == <<loop, fetch, retryCount, stopped>>
deliveryVars == <<owner, attempt>>
taskVars     == <<deliveryVars, state, verdict>>
faultVars    == <<crashes, fetchErrors>>
vars == <<configVars, serverVars, loopVars, taskVars, dlq, faultVars>>

Settled  == {"acked", "termed", "exhausted"}
InBatch  == {"run", "dlqpush", "dlqack"}
Finished == {"acked", "retried", "termed", "deadlettered", "dlqfailed", "dropped"}

None == "none"

(* The types, with one bound that takes the fetch loop to keep: errors in a *)
(* row are counted up to the configured limit and never beyond it.          *)
TypeOK ==
    /\ options \in Options /\ batchSize \in [Instances -> BatchSizes]
    /\ maxDeliver \in {Absent, Unlimited} \cup Nat /\ ackPending \in Nat
    /\ server \in [Msgs -> {"ready", "pending"} \cup Settled]
    /\ numDelivered \in [Msgs -> 0 .. MaxDeliveries]
    /\ handed \in [Msgs -> 0 .. MaxDeliveries]
    /\ loop \in [Instances -> {"down", "select", "process", "exited"}]
    /\ fetch \in [Instances -> {"idle", "waiting", "ok", "none", "err"}]
    /\ retryCount \in [Instances -> 0 .. FetchMaxRetries]
    /\ stopped \in [Instances -> BOOLEAN]
    /\ owner \in [Delivery -> Instances \cup {None}]
    /\ attempt \in [Delivery -> 0 .. MaxDeliveries]
    /\ state \in [Delivery -> {None, "prefetch"} \cup InBatch \cup Finished]
    /\ verdict \in [Delivery -> {None, "ack", "nack", "reject", "term"}]
    /\ dlq \in [Msgs -> Nat]
    /\ crashes \in Nat
    /\ fetchErrors \in Nat

-----------------------------------------------------------------------------
(* retry.go *)

HasPolicy == options.maxRetries # NoPolicy

GetMaxDeliver_NoFirst == IF options.maxRetries <= 0 THEN DefaultMaxRetries + 1
                     ELSE options.maxRetries

GetMaxDeliver == IF options.maxRetries <= 0 THEN DefaultMaxRetries + 1
                 ELSE options.maxRetries + 1

ShouldRetry_Strict(n) == n < options.maxRetries

ShouldRetry(n) == n <= options.maxRetries

-----------------------------------------------------------------------------
(* The server's side of an acknowledgement.  Ack, Nak and Term are plain   *)
(* publishes on the reply subject: they may be lost, and they may arrive   *)
(* after the message was redelivered or given up, or the durable replaced. *)

Settle(m, kind, lost) ==
    server' = IF ~lost /\ maxDeliver # Absent /\ server[m] \in {"ready", "pending"}
              THEN [server EXCEPT ![m] = kind] ELSE server

Nak(m, lost) ==
    server' = IF ~lost /\ server[m] = "pending"
              THEN [server EXCEPT ![m] = "ready"] ELSE server

MaxAckPending(i) == IF 2 * batchSize[i] < MinAckPending THEN MinAckPending
                    ELSE 2 * batchSize[i]

CanDeliver(m) ==
    /\ server[m] = "ready"
    /\ maxDeliver # Absent
    /\ maxDeliver = Unlimited \/ numDelivered[m] < maxDeliver
    /\ handed[m] < MaxDeliveries
    /\ Cardinality({k \in Msgs : server[k] = "pending"}) < ackPending

Prefetched(i) == {d \in Delivery : owner[d] = i /\ state[d] = "prefetch"}
Batch(i)      == {d \in Delivery : owner[d] = i /\ state[d] \in InBatch}

(* The server answers the fetch of instance i with message m. *)
Deliver(i, m) ==
    /\ fetch[i] = "waiting"
    /\ Cardinality(Prefetched(i)) < batchSize[i]
    /\ CanDeliver(m)
    /\ LET d == <<m, handed[m] + 1>> IN
        /\ owner' = [owner EXCEPT ![d] = i]
        /\ attempt' = [attempt EXCEPT ![d] = numDelivered[m] + 1]
        /\ state' = [state EXCEPT ![d] = "prefetch"]
    /\ numDelivered' = [numDelivered EXCEPT ![m] = @ + 1]
    /\ handed' = [handed EXCEPT ![m] = @ + 1]
    /\ server' = [server EXCEPT ![m] = "pending"]
    /\ UNCHANGED <<configVars, durableVars, loopVars, verdict, dlq, faultVars>>

(* AckWait expires: the server will redeliver. *)
AckWaitExpires(m) ==
    /\ server[m] = "pending"
    /\ server' = [server EXCEPT ![m] = "ready"]
    /\ UNCHANGED <<configVars, durableVars, countVars, loopVars, taskVars, dlq, faultVars>>

(* A message that is due again with its deliveries spent is given up. *)
GiveUp(m) ==
    /\ server[m] = "ready"
    /\ maxDeliver # Absent /\ numDelivered[m] >= maxDeliver /\ maxDeliver # Unlimited
    /\ server' = [server EXCEPT ![m] = "exhausted"]
    /\ UNCHANGED <<configVars, durableVars, countVars, loopVars, taskVars, dlq, faultVars>>

-----------------------------------------------------------------------------
(* asyncFetch: the goroutine that holds a Fetch open and hands its result   *)
(* to the buffered channel nextFetch.                                       *)

(* Fetch returns: full, or at its timeout with what has arrived.  Nothing   *)
(* at all is an empty batch or ErrNoMessages.                               *)
FetchReturns(i) ==
    /\ fetch[i] = "waiting"
    /\ \E result \in {"ok", "none"} :
        /\ result = "none" => Prefetched(i) = {}
        /\ fetch' = [fetch EXCEPT ![i] = result]
    /\ UNCHANGED <<configVars, serverVars, loop, retryCount, stopped, taskVars, dlq, faultVars>>

(* Fetch or batch.Error() fails, perhaps after some messages arrived; on a  *)
(* durable that was deleted that is no fault of the network.                *)
FetchFails(i) ==
    /\ fetch[i] = "waiting"
    /\ \/ maxDeliver = Absent /\ UNCHANGED fetchErrors
       \/ fetchErrors < MaxFetchErrors /\ fetchErrors' = fetchErrors + 1
    /\ fetch' = [fetch EXCEPT ![i] = "err"]
    /\ UNCHANGED <<configVars, serverVars, loop, retryCount, stopped, taskVars, dlq, crashes>>

-----------------------------------------------------------------------------
(* StartConsumer and Consumer.start *)

DeleteDurable_AllAgain(i) ==
    /\ loop[i] = "down" /\ maxDeliver # Absent /\ ackPending # MaxAckPending(i)
    /\ maxDeliver' = Absent /\ ackPending' = 0
    /\ numDelivered' = [m \in Msgs |-> 0]
    /\ server' = [m \in Msgs |-> "ready"]
    /\ UNCHANGED <<configVars, handed, loopVars, taskVars, dlq, faultVars>>

(* createOrGetConsumer deletes a durable whose MaxAckPending differs, which *)
(* happens while instances of two releases run, and starts over.  The       *)
(* server forgets what was delivered and how often; what was acknowledged   *)
(* or terminated is gone from the stream, but what it gave up is still in.  *)
DeleteDurable(i) ==
    /\ loop[i] = "down" /\ maxDeliver # Absent /\ ackPending # MaxAckPending(i)
    /\ maxDeliver' = Absent /\ ackPending' = 0
    /\ numDelivered' = [m \in Msgs |-> 0]
    /\ server' = [m \in Msgs |-> IF server[m] \in {"pending", "exhausted"} THEN "ready" ELSE server[m]]
    /\ UNCHANGED <<configVars, handed, loopVars, taskVars, dlq, faultVars>>

(* createOrGetConsumer creates the durable if there is none; a durable that *)
(* exists keeps its MaxDeliver, whatever the RetryPolicy says now.          *)
CreateOrGetConsumer(i) ==
    IF maxDeliver = Absent
    THEN maxDeliver' = (IF HasPolicy THEN GetMaxDeliver ELSE Unlimited) /\ ackPending' = MaxAckPending(i)
    ELSE ackPending = MaxAckPending(i) /\ UNCHANGED durableVars

StartConsumer(i) ==
    /\ loop[i] = "down"
    /\ CreateOrGetConsumer(i)
    /\ loop' = [loop EXCEPT ![i] = "select"]
    /\ fetch' = [fetch EXCEPT ![i] = "waiting"]
    /\ retryCount' = [retryCount EXCEPT ![i] = 0]
    /\ stopped' = [stopped EXCEPT ![i] = FALSE]
    /\ UNCHANGED <<configVars, server, countVars, taskVars, dlq, faultVars>>

ReceiveResult_NoPrefetch(i, result) ==
    /\ loop[i] = "select"
    /\ fetch[i] = result
    /\ fetch' = [fetch EXCEPT ![i] = "idle"]

(* A result is read from nextFetch and the next fetch starts at once. *)
ReceiveResult(i, result) ==
    /\ loop[i] = "select"
    /\ fetch[i] = result
    /\ fetch' = [fetch EXCEPT ![i] = "waiting"]

TakeBatch(i) ==
    /\ ReceiveResult(i, "ok")
    /\ Prefetched(i) # {}
    /\ retryCount' = [retryCount EXCEPT ![i] = 0]
    /\ loop' = [loop EXCEPT ![i] = "process"]
    /\ state' = [d \in Delivery |-> IF d \in Prefetched(i) THEN "run" ELSE state[d]]
    /\ UNCHANGED <<configVars, serverVars, stopped, deliveryVars, verdict, dlq, faultVars>>

TakeEmpty(i) ==
    /\ ReceiveResult(i, "ok")
    /\ Prefetched(i) = {}
    /\ retryCount' = [retryCount EXCEPT ![i] = 0]
    /\ UNCHANGED <<configVars, serverVars, loop, stopped, taskVars, dlq, faultVars>>

(* ErrNoMessages: unlike an empty batch it leaves the error count alone. *)
TakeNoMessages(i) ==
    /\ ReceiveResult(i, "none")
    /\ UNCHANGED <<configVars, serverVars, loop, retryCount, stopped, taskVars, dlq, faultVars>>

TakeError_NoReset(i) ==
    LET quits == retryCount[i] + 1 = FetchMaxRetries /\ options.stopOnError IN
    /\ ReceiveResult(i, "err")
    /\ retryCount' = [retryCount EXCEPT ![i] = @ + 1]
    /\ stopped' = [stopped EXCEPT ![i] = @ \/ quits]
    /\ loop' = [loop EXCEPT ![i] = IF quits THEN "exited" ELSE @]
    /\ state' = [d \in Delivery |-> IF d \in Prefetched(i) THEN "dropped" ELSE state[d]]
    /\ UNCHANGED <<configVars, serverVars, deliveryVars, verdict, dlq, faultVars>>

(* The messages that came with the error are forgotten; at FetchMaxRetries  *)
(* errors in a row the consumer stops itself, or starts counting again.     *)
TakeError(i) ==
    LET limit == retryCount[i] + 1 >= FetchMaxRetries
        quits == limit /\ options.stopOnError
    IN
    /\ ReceiveResult(i, "err")
    /\ retryCount' = [retryCount EXCEPT
                        ![i] = IF limit /\ ~quits THEN 0 ELSE @ + 1]
    /\ stopped' = [stopped EXCEPT ![i] = @ \/ quits]
    /\ loop' = [loop EXCEPT ![i] = IF quits THEN "exited" ELSE @]
    /\ state' = [d \in Delivery |-> IF d \in Prefetched(i) THEN "dropped" ELSE state[d]]
    /\ UNCHANGED <<configVars, serverVars, deliveryVars, verdict, dlq, faultVars>>

TakeStop_WhenIdle(i) ==
    /\ loop[i] = "select"
    /\ stopped[i] /\ fetch[i] \in {"idle", "waiting"}
    /\ loop' = [loop EXCEPT ![i] = "exited"]
    /\ UNCHANGED <<configVars, serverVars, fetch, retryCount, stopped, taskVars, dlq, faultVars>>

(* select may pick stopChan even when a batch is waiting. *)
TakeStop(i) ==
    /\ loop[i] = "select"
    /\ stopped[i]
    /\ loop' = [loop EXCEPT ![i] = "exited"]
    /\ UNCHANGED <<configVars, serverVars, fetch, retryCount, stopped, taskVars, dlq, faultVars>>

(* processBatch returns once every handler of the batch has. *)
EndBatch(i) ==
    /\ loop[i] = "process"
    /\ Batch(i) = {}
    /\ loop' = [loop EXCEPT ![i] = "select"]
    /\ UNCHANGED <<configVars, serverVars, fetch, retryCount, stopped, taskVars, dlq, faultVars>>

(* Consumer.Stop, called from outside (a shutdown hook, ConsumerManager). *)
Stop(i) ==
    /\ loop[i] # "down"
    /\ ~stopped[i]
    /\ stopped' = [stopped EXCEPT ![i] = TRUE]
    /\ UNCHANGED <<configVars, serverVars, loop, fetch, retryCount, taskVars, dlq, faultVars>>

(* The process dies, also while it starts, and comes back as any release:   *)
(* what it had fetched or was handling is gone.  The server keeps waiting   *)
(* for acknowledgements that will not come.                                 *)
Crash(i) ==
    /\ crashes < MaxCrashes
    /\ \E b \in BatchSizes : batchSize' = [batchSize EXCEPT ![i] = b]
    /\ crashes' = crashes + 1
    /\ loop' = [loop EXCEPT ![i] = "down"]
    /\ fetch' = [fetch EXCEPT ![i] = "idle"]
    /\ stopped' = [stopped EXCEPT ![i] = FALSE]
    /\ state' = [d \in Delivery |->
                    IF d \in Prefetched(i) \cup Batch(i) THEN "dropped" ELSE state[d]]
    /\ UNCHANGED <<options, serverVars, retryCount, deliveryVars, verdict, dlq, fetchErrors>>

-----------------------------------------------------------------------------
(* message.go: the handler's decision about delivery d.                     *)

Decide(d, v, s) ==
    /\ state[d] = "run"
    /\ verdict' = [verdict EXCEPT ![d] = v]
    /\ state' = [state EXCEPT ![d] = s]
    /\ UNCHANGED <<configVars, durableVars, countVars, loopVars, deliveryVars, dlq, faultVars>>

(* Message.Ack, BatchMessage.Ack, and a legacy Handler that returns nil.    *)
Ack(d, lost) ==
    /\ Decide(d, "ack", "acked")
    /\ Settle(d[1], "acked", lost)

(* Message.Nack without a retry policy or before its limit, BatchMessage.Nak *)
(* and a legacy Handler that returns an error: back to the server.          *)
NackRetry(d, lost) ==
    /\ options.handler = "V2" /\ HasPolicy => ShouldRetry(attempt[d])
    /\ Decide(d, "nack", "retried")
    /\ Nak(d[1], lost)

(* sendToDLQAndAck without a DLQPolicy terminates the message.              *)
DiscardWithoutDLQ(d, v, lost) ==
    /\ ~options.dlq
    /\ Decide(d, v, "termed")
    /\ Settle(d[1], "termed", lost)

BeginDLQ(d, v) ==
    /\ options.dlq
    /\ Decide(d, v, "dlqpush")
    /\ UNCHANGED server

SendToDLQ(d, v, lost) == DiscardWithoutDLQ(d, v, lost) \/ BeginDLQ(d, v)

NackExceeded(d, lost) ==
    /\ options.handler = "V2"
    /\ HasPolicy /\ ~ShouldRetry(attempt[d])
    /\ SendToDLQ(d, "nack", lost)

Reject(d, lost) ==
    /\ options.handler = "V2"
    /\ SendToDLQ(d, "reject", lost)

Term(d, lost) ==
    /\ options.handler = "V2"
    /\ Decide(d, "term", "termed")
    /\ Settle(d[1], "termed", lost)

(* newMessage fails on the metadata: the raw message is NAKed.              *)
WrapFails(d, lost) ==
    /\ options.handler = "V2"
    /\ Decide(d, None, "retried")
    /\ Nak(d[1], lost)

(* A V2 handler returns without a decision: processBatchV2 and              *)
(* processParallelV2 do not settle the message for it.                      *)
HandlerForgets(d) ==
    /\ options.handler = "V2"
    /\ Decide(d, None, "dropped")
    /\ UNCHANGED server

(* A BatchHandler's result settles what is left of the batch: all ACKed or  *)
(* all NAKed.                                                               *)
BulkReturns(i, ok, lost) ==
    LET b == Batch(i)
        settled == IF maxDeliver = Absent THEN {} ELSE {d[1] : d \in b \ lost}
    IN
    /\ options.handler = "Bulk"
    /\ b # {}
    /\ verdict' = [d \in Delivery |->
                    IF d \in b THEN (IF ok THEN "ack" ELSE "nack") ELSE verdict[d]]
    /\ state' = [d \in Delivery |->
                    IF d \in b THEN (IF ok THEN "acked" ELSE "retried") ELSE state[d]]
    /\ server' = [m \in Msgs |->
                    IF m \notin settled THEN server[m]
                    ELSE IF ok /\ server[m] \in {"ready", "pending"} THEN "acked"
                    ELSE IF ~ok /\ server[m] = "pending" THEN "ready"
                    ELSE server[m]]
    /\ UNCHANGED <<configVars, durableVars, countVars, loopVars, deliveryVars, dlq, faultVars>>

(* sendToDLQAndAck: the synchronous publish to the DLQ subject succeeds.    *)
DLQPublished(d) ==
    /\ state[d] = "dlqpush"
    /\ dlq' = [dlq EXCEPT ![d[1]] = @ + 1]
    /\ state' = [state EXCEPT ![d] = "dlqack"]
    /\ UNCHANGED <<configVars, serverVars, loopVars, deliveryVars, verdict, faultVars>>

DLQPublishFails_Acks(d, stored, lost) ==
    /\ state[d] = "dlqpush"
    /\ dlq' = IF stored THEN [dlq EXCEPT ![d[1]] = @ + 1] ELSE dlq
    /\ state' = [state EXCEPT ![d] = "dlqfailed"]
    /\ Settle(d[1], "acked", lost)
    /\ UNCHANGED <<configVars, durableVars, countVars, loopVars, deliveryVars, verdict, faultVars>>

(* The publish returns an error, either because nothing was stored or       *)
(* because the confirmation was lost, and the message is NAKed.             *)
DLQPublishFails(d, stored, lost) ==
    /\ state[d] = "dlqpush"
    /\ dlq' = IF stored THEN [dlq EXCEPT ![d[1]] = @ + 1] ELSE dlq
    /\ state' = [state EXCEPT ![d] = "dlqfailed"]
    /\ Nak(d[1], lost)
    /\ UNCHANGED <<configVars, durableVars, countVars, loopVars, deliveryVars, verdict, faultVars>>

DLQAck(d, lost) ==
    /\ state[d] = "dlqack"
    /\ state' = [state EXCEPT ![d] = "deadlettered"]
    /\ Settle(d[1], "acked", lost)
    /\ UNCHANGED <<configVars, durableVars, countVars, loopVars, deliveryVars, verdict, dlq, faultVars>>

-----------------------------------------------------------------------------
Init ==
    /\ options \in Options /\ batchSize \in [Instances -> BatchSizes]
    /\ maxDeliver \in PriorMaxDeliver
    /\ IF maxDeliver = Absent THEN ackPending = 0
       ELSE ackPending \in {MaxAckPending(i) : i \in Instances}
    /\ server = [m \in Msgs |-> "ready"]
    /\ numDelivered = [m \in Msgs |-> 0] /\ handed = [m \in Msgs |-> 0]
    /\ loop = [i \in Instances |-> "down"]
    /\ fetch = [i \in Instances |-> "idle"]
    /\ retryCount = [i \in Instances |-> 0]
    /\ stopped = [i \in Instances |-> FALSE]
    /\ owner = [d \in Delivery |-> None] /\ attempt = [d \in Delivery |-> 0]
    /\ state = [d \in Delivery |-> None]
    /\ verdict = [d \in Delivery |-> None]
    /\ dlq = [m \in Msgs |-> 0]
    /\ crashes = 0
    /\ fetchErrors = 0

Server == \E m \in Msgs :
    \/ \E i \in Instances : Deliver(i, m)
    \/ AckWaitExpires(m)
    \/ GiveUp(m)

Loop(i) ==
    \/ DeleteDurable(i) \/ StartConsumer(i) \/ FetchReturns(i) \/ FetchFails(i)
    \/ TakeBatch(i) \/ TakeEmpty(i) \/ TakeNoMessages(i) \/ TakeError(i) \/ TakeStop(i)
    \/ EndBatch(i) \/ Stop(i) \/ Crash(i)

Handle(d, lost) ==
    \/ Ack(d, lost) \/ NackRetry(d, lost) \/ NackExceeded(d, lost)
    \/ Reject(d, lost) \/ Term(d, lost) \/ WrapFails(d, lost) \/ HandlerForgets(d)
    \/ DLQPublished(d) \/ DLQAck(d, lost)
    \/ \E stored \in BOOLEAN : DLQPublishFails(d, stored, lost)

Bulk(i) == \E ok \in BOOLEAN, lost \in SUBSET Batch(i) : BulkReturns(i, ok, lost)

Next ==
    \/ Server
    \/ \E i \in Instances : Loop(i) \/ Bulk(i)
    \/ \E d \in Delivery, lost \in BOOLEAN : Handle(d, lost)

(* The goroutines of a running instance make progress, handlers return and  *)
(* the server expires.  A fetch may time out just before a message would    *)
(* come, but not every time: the server delivers what is deliverable to one *)
(* fetch after the other.  Nothing forces a fault, a Stop or a particular   *)
(* verdict.                                                                 *)
Fairness ==
    /\ \A m \in Msgs : WF_vars(AckWaitExpires(m)) /\ WF_vars(GiveUp(m))
    /\ \A i \in Instances :
        /\ WF_vars(DeleteDurable(i)) /\ WF_vars(StartConsumer(i))
        /\ \A m \in Msgs : SF_vars(Deliver(i, m))
        /\ WF_vars(FetchReturns(i) \/ FetchFails(i))
        /\ WF_vars(TakeBatch(i) \/ TakeEmpty(i) \/ TakeNoMessages(i) \/ TakeError(i))
        /\ WF_vars(TakeStop(i))
        /\ WF_vars(EndBatch(i))
        /\ WF_vars(Bulk(i))
    /\ \A d \in Delivery : WF_vars(\E lost \in BOOLEAN : Handle(d, lost))

Spec == Init /\ [][Next]_vars /\ Fairness

-----------------------------------------------------------------------------
(* Properties *)

(* A message the server removed because of an ACK was either accepted by a  *)
(* handler or stored in the DLQ first (message.go sendToDLQAndAck: publish, *)
(* and only then Ack).                                                      *)
AckedIsAccounted == \A m \in Msgs : server[m] = "acked" =>
    \/ dlq[m] > 0
    \/ \E n \in 1 .. MaxDeliveries : state[<<m, n>>] = "acked"

(* The number of retries RetryPolicy documents: MaxRetries, or the default. *)
DocumentedRetries == IF options.maxRetries > 0 THEN options.maxRetries
                     ELSE DefaultMaxRetries

(* A message is dead-lettered only because a handler rejected it, or Nacked *)
(* a delivery after all the retries of the policy ("MaxRetries is the       *)
(* maximum number of retry attempts before sending to DLQ. Default: 5").    *)
DLQOnlyAfterRetries == \A m \in Msgs : dlq[m] > 0 =>
    \E n \in 1 .. MaxDeliveries :
        \/ verdict[<<m, n>>] = "reject"
        \/ verdict[<<m, n>>] = "nack" /\ attempt[<<m, n>>] > DocumentedRetries

(* A Nack that asks for a retry is never the last delivery: the client's    *)
(* ShouldRetry and the MaxDeliver given to the server agree ("If max        *)
(* retries not reached: message is redelivered with backoff delay"),        *)
(* whichever release created the durable last.                              *)
RetryIsRedelivered == \A d \in Delivery :
    (options.handler = "V2" /\ HasPolicy /\ verdict[d] = "nack" /\ state[d] = "retried")
        => maxDeliver = Absent \/ attempt[d] < maxDeliver

(* A message the server gave up without a DLQ copy was lost to a fault of   *)
(* its last delivery: no handler finished it, or the publish to the DLQ     *)
(* failed.  A handler's own decision never loses a message, unless its      *)
(* acknowledgement did not arrive.                                          *)
LossOnlyByFault == \A m \in Msgs :
    (options.handler = "V2" /\ HasPolicy /\ options.dlq /\ server[m] = "exhausted" /\ dlq[m] = 0)
        => LET last == <<m, handed[m]>> IN
           \/ state[last] \in {"prefetch", "run", "dlqpush", "dropped", "dlqfailed"}
           \/ state[last] = "retried" /\ verdict[last] = None
           \/ state[last] \in {"acked", "termed"}

(* "If max retries reached: message is sent to DLQ and ACKed" (Nack): when  *)
(* Nack has returned at the limit and the server has given the message up,  *)
(* the message is in the DLQ.                                               *)
NackedAtLimitReachesDLQ == \A d \in Delivery :
    (/\ options.handler = "V2" /\ HasPolicy /\ options.dlq
     /\ verdict[d] = "nack" /\ ~ShouldRetry(attempt[d])
     /\ state[d] \in Finished \ {"dropped"} /\ server[d[1]] = "exhausted")
        => dlq[d[1]] > 0

(* The abstract queue as the server and the handlers show it. *)
Outcome(m) == IF server[m] \in Settled THEN server[m] ELSE "open"

Accepted == {m \in Msgs : \E n \in 1 .. MaxDeliveries : state[<<m, n>>] = "acked"}

Queue == INSTANCE WorkQueue WITH
    tries <- handed,
    accepted <- Accepted,
    copies <- dlq,
    outcome <- [m \in Msgs |-> Outcome(m)]

(* The consumers implement the work queue: whatever is lost, late, repeated *)
(* or crashes, and although the durable may be deleted and created anew, a  *)
(* message that was acked or terminated never comes back, a copy in the DLQ *)
(* stays there, and a message is acked only by an accepting handler or with *)
(* its copy stored (consumer.go start, message.go, subscribe.go             *)
(* createOrGetConsumer).                                                    *)
ImplementsQueue == Queue!Spec

(* With a retry policy and an instance that keeps coming back to its select *)
(* loop, no message stays open: it is acknowledged, terminated or given up. *)
EventuallySettled ==
    (HasPolicy /\ \E i \in Instances : []<>(loop[i] = "select" /\ ~stopped[i]))
        => \A m \in Msgs : <>(server[m] \in Settled)

(* "Stop gracefully stops the consumer": the goroutine finishes its batch   *)
(* and leaves, although select may prefer fetched batches for a while.      *)
StopTerminates == \A i \in Instances :
    stopped[i] ~> (loop[i] \in {"exited", "down"} \/ ~stopped[i])

=============================================================================
