------------------------------ MODULE NatsBus ------------------------------
(***************************************************************************)
(* The parts of infrastructure/nats that services share state through: the *)
(* FANOUT stream (EnsureFanoutStream, SubscribeFanout, PublishFanout over  *)
(* Push), a key of a key-value bucket (KVStore with its compare-and-set    *)
(* Update), the work-queue stream that every subscriber provisions for     *)
(* itself (createOrGetConsumer under Bus.Subscribe), and a scheduled       *)
(* message.  Calls of several clients interleave; the server may lose a    *)
(* request or its reply, and restart.                                      *)
(*                                                                         *)
(* A stored value is the set of calls whose contribution it holds, so that *)
(* a lost update is a call missing from the value.  A message of the       *)
(* stream is known by its sequence number.                                 *)
(***************************************************************************)
EXTENDS Integers, Sequences, FiniteSets

CONSTANTS
    Services,       \* names of services; the instances of one share its name
    Subjects,       \* subjects of the FANOUT stream, and of the work-queue stream
    Wildcard,       \* a subject `prefix.>` that covers all of them
    MaxMsgs,        \* FanoutStreamConfig.MaxMsgs
    MaxCalls,       \* bound: calls of the bus
    MaxPublished,   \* bound: messages of one life of the stream
    MaxWindows,     \* bound: duplicate windows of the schedule's MsgId that end
    MaxFaults       \* bound: lost requests, replies and acknowledgements, restarts

ASSUME BusAssumption ==
    /\ MaxMsgs \in Nat \ {0} /\ MaxCalls \in Nat /\ MaxPublished \in Nat
    /\ MaxWindows \in Nat /\ MaxFaults \in Nat
    /\ Wildcard \notin Subjects

Calls == 1 .. MaxCalls

VARIABLES
    phase,          \* how far each call is, or its result
    value, live,    \* server: the key's value, and whether the key exists
    revision,       \* server: the key's revision
    read,           \* what the Get of a read-modify-write returned
    overwritten,    \* the contributions a Put, Delete or Purge has replaced
    up, log, first, \* server: the stream exists; its messages; the oldest it keeps
    consumer,       \* server: the ephemeral consumers by name
    sub,            \* the subscription a SubscribeFanout call created
    handled,        \* <<call, sequence>> of each run of a handler
    subjects,       \* server: the subjects of the work-queue stream, {} if there is none
    durables,       \* server: its durables, one for each subject
    info,           \* the stream's subjects as a Subscribe has read them
    overlapped,     \* two calls of Subscribe provisioned at the same time
    pending, fired, \* server: the scheduled message waits; times it was delivered
    msgIds,         \* server: MsgIds it remembers
    windows,        \* how many duplicate windows of the schedule's MsgId have ended
    chances,        \* the attempts without that MsgId, the windows with an attempt with it
    purged,         \* the schedule was purged
    faults

kvVars    == <<value, live, revision, read, overwritten>>
busVars   == <<up, log, first, consumer, sub, handled>>
queueVars == <<subjects, durables, info, overlapped>>
timerVars == <<pending, fired, msgIds, windows, chances, purged>>
jsVars    == <<queueVars, timerVars>>
natsBusVars == <<phase, kvVars, busVars, jsVars, faults>>

Subscribed == {"created", "active"}

NoSub == [service |-> "none", subject |-> "none", since |-> 0]

(* The key and the FANOUT stream may be there from earlier calls, and a     *)
(* work-queue stream made by EnsureStream with a wildcard for its subject.  *)
BusInit ==
    /\ phase = [n \in Calls |-> "idle"]
    /\ value = {} /\ live \in BOOLEAN /\ revision = IF live THEN 1 ELSE 0
    /\ read = [n \in Calls |-> [value |-> {}, revision |-> 0]]
    /\ overwritten = {}
    /\ up \in BOOLEAN /\ log = << >> /\ first = 1
    /\ consumer = << >>
    /\ sub = [n \in Calls |-> NoSub]
    /\ handled = {}
    /\ subjects \in {{}, {Wildcard}} /\ durables = {}
    /\ info = [n \in Calls |-> {}] /\ overlapped = FALSE
    /\ pending = FALSE /\ fired = 0 /\ msgIds = {} /\ windows = 0 /\ chances = {} /\ purged = FALSE
    /\ faults = 0

(* Calls are numbered in the order in which they are made. *)
Starts(n) == phase[n] = "idle" /\ \A k \in 1 .. n - 1 : phase[k] # "idle"

Returns(n, result) == phase' = [phase EXCEPT ![n] = result]

(* The reply arrives, or the call ends in an error that says nothing of     *)
(* what the server did.                                                     *)
Replies(n, result) ==
    \/ Returns(n, result) /\ UNCHANGED faults
    \/ faults < MaxFaults /\ faults' = faults + 1 /\ Returns(n, "unknown")

(* The request does not reach the server. *)
RequestLost(n) ==
    /\ phase[n] = "read" \/ Starts(n)
    /\ faults < MaxFaults /\ faults' = faults + 1
    /\ Returns(n, "unknown")
    /\ UNCHANGED <<kvVars, busVars, jsVars>>

-----------------------------------------------------------------------------
(* kv.go, for one key *)

Write(v, exists) ==
    value' = v /\ live' = exists /\ revision' = revision + 1

Keep == UNCHANGED <<value, live, revision>>

Put(n) ==
    /\ Starts(n)
    /\ Write({n}, TRUE) /\ overwritten' = overwritten \cup value
    /\ Replies(n, "written")
    /\ UNCHANGED <<read, busVars, jsVars>>

(* Create: only if the key does not exist, ErrKVKeyExists otherwise. *)
Create(n) ==
    /\ Starts(n)
    /\ IF live THEN Keep /\ Replies(n, "exists")
       ELSE Write({n}, TRUE) /\ Replies(n, "written")
    /\ UNCHANGED <<read, overwritten, busVars, jsVars>>

(* Get, the first half of a read-modify-write; ErrKVKeyNotFound ends it. *)
Get(n) ==
    /\ Starts(n)
    /\ IF live
       THEN /\ read' = [read EXCEPT ![n] = [value |-> value, revision |-> revision]]
            /\ Returns(n, "read")
       ELSE Returns(n, "notfound") /\ UNCHANGED read
    /\ UNCHANGED <<value, live, revision, overwritten, busVars, jsVars, faults>>

Update_Put(n) ==
    /\ phase[n] = "read"
    /\ Write(read[n].value \cup {n}, TRUE) /\ Replies(n, "written")
    /\ UNCHANGED <<read, overwritten, busVars, jsVars>>

(* Update: only if the revision is still the one read, ErrKVCASConflict     *)
(* otherwise.                                                               *)
Update(n) ==
    /\ phase[n] = "read"
    /\ IF read[n].revision = revision
       THEN Write(read[n].value \cup {n}, TRUE) /\ Replies(n, "written")
       ELSE Keep /\ Replies(n, "conflict")
    /\ UNCHANGED <<read, overwritten, busVars, jsVars>>

(* Delete and Purge leave a marker with a revision of its own, also where   *)
(* there was no key: the server reports no ErrKVKeyNotFound.                *)
Delete(n) ==
    /\ Starts(n)
    /\ Write({}, FALSE) /\ overwritten' = overwritten \cup value
    /\ Replies(n, "ok")
    /\ UNCHANGED <<read, busVars, jsVars>>

-----------------------------------------------------------------------------
(* FANOUT: consumer.go and bus.go *)

(* EnsureFanoutStream: nothing if the stream is there, else CreateStream. *)
EnsureFanoutStream(n) ==
    /\ Starts(n)
    /\ up' = TRUE
    /\ Replies(n, "ok")
    /\ UNCHANGED <<kvVars, log, first, consumer, sub, handled, jsVars>>

ConsumerName_Second(c, n) == <<c, 0>>

(* The service's name, the second and a random suffix. *)
ConsumerName(c, n) == <<c, n>>

(* SubscribeFanout: CreateOrUpdateConsumer with DeliverNew, which fails if  *)
(* there is no stream and takes over a consumer of the same name.           *)
SubscribeFanout(n, c, s) ==
    /\ Starts(n)
    /\ up
    /\ consumer' = [m \in DOMAIN consumer \cup {ConsumerName(c, n)} |->
                        IF m = ConsumerName(c, n) THEN [subject |-> s, due |-> {}]
                        ELSE consumer[m]]
    /\ sub' = [sub EXCEPT ![n] = [service |-> c, subject |-> s, since |-> Len(log)]]
    /\ Returns(n, "created")
    /\ UNCHANGED <<kvVars, up, log, first, handled, jsVars, faults>>

NoStream(n) ==
    /\ Starts(n)
    /\ ~up
    /\ Returns(n, "failed")
    /\ UNCHANGED <<kvVars, busVars, jsVars, faults>>

(* Consume starts the callbacks, or fails and leaves the consumer behind. *)
Consume(n) ==
    /\ phase[n] = "created"
    /\ \/ Returns(n, "active") /\ UNCHANGED faults
       \/ faults < MaxFaults /\ faults' = faults + 1 /\ Returns(n, "failed")
    /\ UNCHANGED <<kvVars, busVars, jsVars>>

(* FanoutSubscription.Stop: Drain, once. *)
StopFanout(n) ==
    /\ phase[n] = "active"
    /\ Returns(n, "stopped")
    /\ UNCHANGED <<kvVars, busVars, jsVars, faults>>

Matching(s, k) == [m \in DOMAIN consumer |->
    IF consumer[m].subject = s THEN [consumer[m] EXCEPT !.due = @ \cup {k}] ELSE consumer[m]]

(* The server stores a message and discards the oldest over MaxMsgs. *)
Store(s) ==
    LET k == Len(log) + 1 IN
    /\ k <= MaxPublished
    /\ log' = Append(log, s)
    /\ first' = IF k - first >= MaxMsgs THEN first + 1 ELSE first
    /\ consumer' = Matching(s, k)

(* PublishFanout: Push waits for the confirmation of its own message, or    *)
(* for its context, which may end after the message was stored.             *)
PublishFanout(n, s) ==
    /\ Starts(n)
    /\ up /\ Store(s)
    /\ Replies(n, "ok")
    /\ UNCHANGED <<kvVars, up, sub, handled, jsVars>>

(* The callback of SubscribeFanout: the handler runs, its error is logged,  *)
(* and the message is acknowledged either way; a lost acknowledgement       *)
(* brings it back.  A message already discarded may or may not arrive.       *)
Callback(n, k) ==
    LET name == ConsumerName(sub[n].service, n) IN
    /\ phase[n] = "active" /\ name \in DOMAIN consumer
    /\ k \in consumer[name].due
    /\ handled' = handled \cup {<<n, k>>}
    /\ \/ consumer' = [consumer EXCEPT ![name].due = @ \ {k}] /\ UNCHANGED faults
       \/ faults < MaxFaults /\ faults' = faults + 1 /\ UNCHANGED consumer
    /\ UNCHANGED <<phase, kvVars, up, log, first, sub, jsVars>>

(* The stream is in memory: a restart of the server loses it and its        *)
(* consumers, and the subscriptions, which nobody tells, hang.              *)
ServerRestart ==
    /\ up /\ faults < MaxFaults /\ faults' = faults + 1
    /\ up' = FALSE /\ log' = << >> /\ first' = 1 /\ consumer' = << >>
    /\ phase' = [n \in Calls |-> IF phase[n] \in Subscribed THEN "hanging" ELSE phase[n]]
    /\ handled' = {}
    /\ UNCHANGED <<kvVars, sub, jsVars>>

-----------------------------------------------------------------------------
(* Bus.Subscribe on the work-queue stream: createOrGetConsumer reads the    *)
(* stream, creates or updates it and then creates the durable, in requests  *)
(* between which other services do the same.                                *)

Provisioning == {"creating", "updating", "consumer", "durable"}

(* The subject is one of the stream's, or a wildcard of the stream covers it. *)
Captured(s, S) == s \in S \/ Wildcard \in S

(* The stream's info.  An update is due if the subject is not captured, or  *)
(* if this caller wants another duplicate window.                           *)
StreamInfo(n, s) ==
    /\ Starts(n)
    /\ sub' = [sub EXCEPT ![n].subject = s]
    /\ info' = [info EXCEPT ![n] = subjects]
    /\ overlapped' = (overlapped \/ \E k \in Calls : phase[k] \in Provisioning)
    /\ \/ subjects = {} /\ Returns(n, "creating")
       \/ subjects # {} /\ Returns(n, "updating")
       \/ Captured(s, subjects) /\ Returns(n, "consumer")
    /\ UNCHANGED <<kvVars, up, log, first, consumer, handled, subjects, durables, timerVars, faults>>

(* CreateStream fails if somebody else has created the stream meanwhile     *)
(* with other subjects.                                                     *)
CreateStream(n) ==
    /\ phase[n] = "creating"
    /\ IF subjects \subseteq {sub[n].subject}
       THEN /\ subjects' = {sub[n].subject}
            /\ \/ Returns(n, "consumer") /\ UNCHANGED faults
               \/ faults < MaxFaults /\ faults' = faults + 1 /\ Returns(n, "failed")
       ELSE Returns(n, "failed") /\ UNCHANGED <<subjects, faults>>
    /\ UNCHANGED <<kvVars, busVars, durables, info, overlapped, timerVars>>

UpdateStream_Replaces(n) ==
    /\ phase[n] = "updating"
    /\ Returns(n, "consumer")
    /\ subjects' = {sub[n].subject} /\ UNCHANGED faults
    /\ UNCHANGED <<kvVars, busVars, durables, info, overlapped, timerVars>>

(* UpdateStream sends the configuration that was read, with the subject     *)
(* added if it was not captured.  Its failure is only logged; the server    *)
(* may refuse to drop the subject of a durable.                             *)
UpdateStream(n) ==
    LET s == sub[n].subject
        wanted == info[n] \cup (IF Captured(s, info[n]) THEN {} ELSE {s}) IN
    /\ phase[n] = "updating"
    /\ Returns(n, "consumer")
    /\ \/ subjects' = wanted /\ UNCHANGED faults
       \/ (\E d \in durables : ~Captured(d, wanted)) /\ UNCHANGED <<subjects, faults>>
       \/ faults < MaxFaults /\ faults' = faults + 1 /\ UNCHANGED subjects
    /\ UNCHANGED <<kvVars, busVars, durables, info, overlapped, timerVars>>

(* The durable is taken as it is, or created for its subject, which a       *)
(* server may refuse if the stream does not capture it.                     *)
CreateConsumer(n) ==
    LET s == sub[n].subject IN
    /\ phase[n] = "consumer"
    /\ \/ Returns(n, "durable") /\ durables' = durables \cup {s}
       \/ /\ s \notin durables /\ ~Captured(s, subjects)
          /\ Returns(n, "failed") /\ UNCHANGED durables
    /\ UNCHANGED <<kvVars, busVars, subjects, info, overlapped, timerVars, faults>>

(* Bus.Subscribe looks the durable up and starts its callbacks. *)
Subscribe(n) ==
    /\ phase[n] = "durable"
    /\ \/ Returns(n, "subscribed") /\ UNCHANGED faults
       \/ faults < MaxFaults /\ faults' = faults + 1 /\ Returns(n, "failed")
    /\ UNCHANGED <<kvVars, busVars, jsVars>>

-----------------------------------------------------------------------------
(* Bus, a message scheduled under one subject.  The stream keeps one        *)
(* message of a schedule's subject, and the server drops a publish whose    *)
(* MsgId it remembers and confirms it all the same.  It remembers a MsgId   *)
(* for the stream's duplicate window.                                       *)

MsgId_Missing(n, given) == n

(* A caller repeats an attempt with the message's MsgId, here 0, or without *)
(* one, or with one of its own: MsgId is optional and Headers override it.  *)
MsgId(n, given) == IF given THEN 0 ELSE n

PublishScheduled(n, given) ==
    /\ Starts(n)
    /\ pending' = (pending \/ MsgId(n, given) \notin msgIds)
    /\ msgIds' = msgIds \cup {MsgId(n, given)}
    /\ chances' = chances \cup {IF given THEN <<"window", windows>> ELSE <<"call", n>>}
    /\ Replies(n, "scheduled")
    /\ UNCHANGED <<kvVars, busVars, queueVars, fired, windows, purged>>

(* The duplicate window ends, and the server forgets the MsgId. *)
WindowEnds ==
    /\ 0 \in msgIds /\ windows < MaxWindows
    /\ msgIds' = msgIds \ {0} /\ windows' = windows + 1
    /\ UNCHANGED <<phase, kvVars, busVars, queueVars, pending, fired, chances, purged, faults>>

(* Nil too if there is nothing to purge; the MsgIds are not forgotten. *)
PurgeStreamSubject(n) ==
    /\ Starts(n)
    /\ pending' = FALSE /\ purged' = TRUE
    /\ Replies(n, "ok")
    /\ UNCHANGED <<kvVars, busVars, queueVars, fired, msgIds, windows, chances>>

HasPendingMessages(n) ==
    /\ Starts(n)
    /\ Replies(n, IF pending THEN "pending" ELSE "notfound")
    /\ UNCHANGED <<kvVars, busVars, jsVars>>

(* The time comes: the server delivers the message to its target. *)
Fire ==
    /\ pending
    /\ pending' = FALSE /\ fired' = fired + 1
    /\ UNCHANGED <<phase, kvVars, busVars, queueVars, msgIds, windows, chances, purged, faults>>

-----------------------------------------------------------------------------
BusNext ==
    \/ \E n \in Calls :
        \/ RequestLost(n)
        \/ Put(n) \/ Create(n) \/ Get(n) \/ Update(n) \/ Delete(n)
        \/ EnsureFanoutStream(n) \/ NoStream(n) \/ Consume(n) \/ StopFanout(n)
        \/ CreateStream(n) \/ UpdateStream(n) \/ CreateConsumer(n) \/ Subscribe(n)
        \/ PurgeStreamSubject(n) \/ HasPendingMessages(n)
        \/ \E given \in BOOLEAN : PublishScheduled(n, given)
        \/ \E s \in Subjects : StreamInfo(n, s) \/ PublishFanout(n, s) \/ \E c \in Services : SubscribeFanout(n, c, s)
        \/ \E k \in 1 .. MaxPublished : Callback(n, k)
    \/ ServerRestart \/ WindowEnds \/ Fire

(* The server hands out what is due and stored; SubscribeFanout goes on to  *)
(* Consume.                                                                 *)
BusFairness == \A n \in Calls :
    /\ WF_natsBusVars(Consume(n))
    /\ \A k \in 1 .. MaxPublished : WF_natsBusVars(k >= first /\ Callback(n, k))

BusSpec == BusInit /\ [][BusNext]_natsBusVars /\ BusFairness

-----------------------------------------------------------------------------
(* Properties *)

(* A write that returned success is in the value until a Put, a Delete or a *)
(* Purge replaced it: concurrent read-modify-writes through Get and Update  *)
(* never lose one another's contribution, whatever replies are lost.  A     *)
(* call that returned ErrKVCASConflict or ErrKVKeyExists wrote nothing      *)
(* (kv.go Update, Create).                                                  *)
NoLostUpdate == \A n \in Calls :
    /\ phase[n] = "written" => n \in value \cup overwritten
    /\ phase[n] \in {"conflict", "exists"} => n \notin value \cup overwritten

(* Services that provision the stream one after another keep each other's   *)
(* subjects: a Subscribe that returned success leaves a stream that         *)
(* captures its subject, whatever others add to it later.  For two at once  *)
(* the code promises nothing: each sends the subjects it has read           *)
(* (subscribe.go createOrGetConsumer).                                      *)
SubjectsCaptured == \A n \in Calls :
    phase[n] = "subscribed" /\ ~overlapped /\ faults = 0 => Captured(sub[n].subject, subjects)

(* A scheduled message is delivered at most once for each duplicate window  *)
(* in which the caller made attempts with its MsgId, and once for each      *)
(* attempt without it: a repeat because a reply was lost adds no delivery   *)
(* within the window, also after the first one has fired.  It is not lost   *)
(* unless it is purged (bus.go PublishScheduled).                           *)
ScheduledOnce ==
    /\ fired + (IF pending THEN 1 ELSE 0) <= Cardinality(chances)
    /\ ~purged /\ (\E n \in Calls : phase[n] = "scheduled") => pending \/ fired > 0

(* Message k was stored while subscription n was there for its subject, and *)
(* the stream still has it.                                                 *)
Owed(n, k) ==
    /\ phase[n] \in Subscribed
    /\ k \in first .. Len(log) /\ k > sub[n].since /\ log[k] = sub[n].subject

(* "All instances receive all messages (broadcast pattern)": every handler  *)
(* subscribed when a message is stored runs for it, unless the subscription *)
(* ends or the stream loses the message first (consumer.go                  *)
(* SubscribeFanout).                                                        *)
BroadcastReaches == \A n \in Calls, k \in 1 .. MaxPublished :
    Owed(n, k) ~> (<<n, k>> \in handled \/ ~Owed(n, k))

=============================================================================
