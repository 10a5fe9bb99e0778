# mapexGoKit: TLA+ models, checks and proofs

mapexGoKit is a Go library for services: clients and helpers for brokers, stores and caches
(`infrastructure/`), the skeleton of a service (`microservices/`) and data utilities (`utils/`).
This directory models the parts of it in which steps of several actors, failures, retries and
timeouts meet, checks the models with TLC on small instances, and proves the main safety
properties with TLAPS for every value of the constants.

`PROJECT.json` lists the components, runs, mutants, findings, hazards and theorems, and maps every
definition to the lines it models. To check by hand: `tlc -config NatsConsumer_safety.cfg
MCNatsConsumer` and `tlapm Nats_proofs.tla`.

## 1. Inventory

| Component | State it keeps | Operations | What is hard | What makes it correct |
|---|---|---|---|---|
| NATS pull consumer (`infrastructure/nats/consumer.go`, `subscribe.go`) | the loop's position, the fetch in flight, `retryCount`, `stopped`; on the server the durable's `MaxDeliver` | StartConsumer, asyncFetch, the select loop, four ways to process a batch, Stop | a prefetch always in flight, instances sharing a durable, crashes, the limit of fetch errors, Stop against a ready batch | no message forgotten, Stop ends the loop |
| Message, RetryPolicy, DLQPolicy (`message.go`, `retry.go`, `dlq.go`) | the delivery count | Ack, Nack, Reject, Term, sendToDLQAndAck | lost and late acknowledgements, a DLQ publish that fails or is confirmed too late, the last delivery | an ACK is accounted for; dead letters only after the retries; client and server agree on the last delivery |
| Publishing, bus, fanout, KV (`publish.go`, `bus.go`, `kv.go`, rest of `consumer.go`) | streams and their subjects, ephemeral consumers, KV revisions, remembered MsgIds | PublishFanout, SubscribeFanout, Put/Create/Get/Update/Delete, Subscribe, PublishScheduled, PurgeStreamSubject | lost replies, two writers of a key, provisioning races, restarts, repeated schedules | confirmed updates stay; every live instance sees every later broadcast; a schedule fires once in a duplicate window |
| Tiered cache (`infrastructure/tieredcache`) | L0 in RAM, two L1 files per key, statistics | Get, GetOrLoad, Set, Delete/Invalidate, Warmup | no lock: fills race invalidations; files rewritten in place; errors of writes and removals swallowed; restart | an invalidated version does not come back; tiers agree; whole values |
| Graceful shutdown (`microservices/shutdown`) | the hooks, the flag | RegisterFunc, SetShuttingDown, WaitForSignal | concurrent hooks, deadline, late registration, panics | priority order; nothing skipped; it ends |
| MongoDB backpressure (`infrastructure/mongodb/manager/backpressure.go`) | circular buffer, two counters, mode | record, computeP99 | a lock-free scan racing writers, counters of consecutive windows | the mode is what the windows justify |
| MongoDB connection, transactions, model (`mongodb/manager`, `mongodb/model`) | `isConnected`, sessions, the ids left in the caller's values | connect, monitor, RunTransaction, Create/Find/Update/Delete | unknown commit results, transient errors, lost replies, repeated calls | a result says what happened; a repeated create stores once; a transaction returns |
| Paginated finds of the MongoDB and ClickHouse models | none between calls: the cursor is the caller's | FindByOffset, FindByCursor, FindWithCursor, FindWithFilters, Count, the query builder | writes between pages, caps on limit and offset, equal timestamps, reads cut short | nothing twice, nothing left out, the walk ends |
| Permission, coverage and authentication middlewares | the shared versioned cache | authenticate, look up, rebuild, decide, filter | the version is read before the data; version numbers come back; two middlewares decide on two reads; evictions; a build in progress | no permission from a superseded version; no query beyond the organization; every request is answered |
| Organization hierarchy (`utils/pathkey`, `utils/orgfilter`, `orghierarchy`) | path keys, the user's coverage | next sibling, ancestors, filters, validation of a creation | range ends at the highest segment of a width; a parent's type from an old coverage | filters select the subtree; type and depth agree |
| Health service (`microservices/http/health`) with the managers' monitors | the cached answer, the monitors' flags | Check, adapters, monitor, connect, Close | overlapping checks, the older one stored last; flags between two ticks and during a ping | an answer is wrong for a bounded time only |
| Redis, Redis lock, MinIO, HTTP and MQTT clients | connections, a redsync mutex | wrappers, SetWithLock, Publish | a lock that expires in use; a timeout taken for success | mutual exclusion; success means confirmed |
| Request validation, responses, config, container, logger, metrics, validators, other utilities | none shared at run time | conversions and set-up | nothing concurrent | they return what their documentation says |

How they interact: a service registers its consumers, caches and connections with the
ShutdownManager, whose hooks call `Consumer.Stop` and later close the connections. Handlers of the
pull consumer write through the MongoDB and ClickHouse models (whose latencies feed the
backpressure tracker) and read through the tiered cache. A service that changes an entity broadcasts
an invalidation over a fanout subject, and the other instances call `Invalidate`. The middlewares
read versioned entries from Redis and ask the owning service over HTTP to build missing ones; the
coverage they inject is what `orgfilter` turns into a query, and the query is paged through by the
models. `/health` reads the flags the managers' monitors keep.

The hazards of this code, each at its line, are in `PROJECT.json`.

## 2. Modules

| Module | Uses | Models |
|---|---|---|
| `NatsConsumer` | `WorkQueue` (refinement) | the pull consumer, its messages, retries and dead letters |
| `WorkQueue` | | what the consumers of a durable promise: an abstract specification |
| `NatsBus` | | fanout, key-value, provisioning of a stream, scheduled messages |
| `TieredCache`, `Shutdown`, `Backpressure` | | the components of these names |
| `MongoStore` | | connection, transactions and the single-document methods of the model |
| `Pagination` | | the six paginated finds and the ClickHouse query builder |
| `OrgFilter` | | path keys, filters and organization types, as operators |
| `OrgTree` | extends `OrgFilter` | a tree of organizations growing under the hierarchy middleware |
| `RequestAccess` | extends `OrgFilter` | authentication, permission and coverage middlewares up to the filter of the query |
| `Health` | | the health service over the connections and monitors of the managers |
| `MC...` | one of the above | constants of the instances TLC checks |
| `Induction` | | lemmas the proofs share: least members, induction and recursion over numbers |
| `Nats_proofs` | extends `NatsConsumer`, `NatsBus` | theorems |
| `Mongo_proofs` | extends `MongoStore`, `Backpressure` | theorems |
| `Service_proofs` | extends `Shutdown`, `Health`, `Induction` | theorems |
| `OrgTree_proofs` | extends `OrgTree`, `Induction` | theorems |
| `RequestAccess_proofs` | extends `RequestAccess`, `OrgTree_proofs` | theorems, of the two composed as well |
| `TieredCache_proofs`, `Pagination_proofs` | the module they name; the latter also `Induction` | theorems |

Where a proof module extends two models, the second one's specification has a name of its own:
`BusSpec`, `BackpressureSpec`, `HealthSpec`, `TreeSpec` (and `...Init`, `...Next` with it).

A definition whose name ends in an underscore and a few words (`NextSegment_NoPad`) is the mistaken
form a property must tell from the real one; `PROJECT.json` lists them as mutants. They are used
nowhere else.

### NatsConsumer

One durable pull consumer shared by several instances of a service. A delivery is a message and its
`NumDelivered`; what the client knows of it is in the functions `owner`, `state` and `verdict`.

| State | Code |
|---|---|
| `loop`, `retryCount`, `stopped` | the goroutine of `Consumer.start`, its counter, `Consumer.stopped` with `stopChan` |
| `fetch` | the `asyncFetch` in flight and the result in its channel |
| `state` | prefetched, run (given to the handler), dlqpush and dlqack (inside `sendToDLQAndAck`), then how it ended |
| `options`, `batchSize` | ConsumerOptions of the installation; the batch size of the release each instance runs |
| `maxDeliver`, `ackPending`, `server`, `numDelivered` | the durable and its messages on the JetStream server (external) |
| `attempt`, `handed` | NumDelivered in the metadata of a delivery; deliveries under any durable |
| `dlq` | copies in the DLQ stream |

The actions follow the code: `TakeBatch`, `TakeEmpty`, `TakeNoMessages`, `TakeError` and `TakeStop`
are the branches of the select loop, each reading a result and starting the next fetch at once;
`Ack`, `NackRetry`, `NackExceeded`, `Reject`, `Term`, `WrapFails`, `HandlerForgets` and
`BulkReturns` are what may happen to a message in a handler; `DLQPublished`, `DLQPublishFails` and
`DLQAck` are the steps of `sendToDLQAndAck`. Acknowledgements may be lost, or arrive when the
message is already redelivered or given up. `AckWaitExpires` may come at any time, so a handler may
be slower than AckWait. A fetch may come back empty at any time. `Crash` forgets what the process
had; `StartConsumer` starts it again. An instance of a release with another batch size finds a
durable with another `MaxAckPending`: `DeleteDurable` removes it under the instances that use it
(their fetches fail as long as there is none) and `StartConsumer` creates it anew; the server then
starts counting from 0 and takes up again what it had given up.

Abstracted: payloads, headers, the content of a DLQ message, the length of delays. A NAK with a
delay and one without make the message ready; the order of messages is not kept, as the four batch
modes promise none.

`WorkQueue` is the promise without the machinery: a message is tried any number of times, is acked
or terminated once and for good, and acked only after a handler accepted it or a copy is in the dead
letter queue; one that was given up may be taken up again when the queue is set up anew (`Reopen`).
`NatsConsumer!ImplementsQueue` instantiates it with the refinement mapping: `tries` is `handed`,
`accepted` the messages with an accepted delivery, `copies` is `dlq`, `outcome` the server's state
of a message with all that is not final read as open.

### NatsBus

Calls of several clients, each in a step `phase[n]` has reached: a request reaches the server and
the reply the client in one step, or either is lost (`RequestLost`, and the outcome `unknown` of the
calls). There are four independent parts.

- *Key-value* (`kv.go`): `Put`, `Create`, `Get`, `Update` with the revision its caller read, and
  `Delete` (Purge included). A value is the set of calls whose contribution it holds.
- *Fanout* (`consumer.go`): `EnsureFanoutStream`, `SubscribeFanout` (an ephemeral consumer with a
  name of its own, from the next message on, then `Consume`), `PublishFanout`, `Callback`, `StopFanout`.
  The stream is in memory and keeps `MaxMsgs` messages, so a server restart empties it and removes
  the consumers; a subscription then waits for ever, without an error.
- *Provisioning* (`subscribe.go` under `bus.go` Subscribe): `StreamInfo`, then `CreateStream` or
  `UpdateStream` with the subjects read plus one's own unless one of them captures it (`Captured`: the
  subject itself or a wildcard `.>`), then `CreateConsumer`. Another service acts between any two.
  What the started callback does with a message is an ACK or NAK as in `NatsConsumer`.
- *Scheduling* (`bus.go`): `PublishScheduled`, with the message's MsgId or without it (it is optional,
  and `Headers` may override it), `PurgeStreamSubject`, `HasPendingMessages`, and on the server `Fire`
  and `WindowEnds`: it remembers a MsgId for the stream's duplicate window. The ghost `chances` counts
  the windows with an attempt under the MsgId and the attempts without it; the schedule fires at most
  that often.

### TieredCache

One key in one process. Between any two file or cache operations other goroutines run: `pc` is the
step an operation of a goroutine has reached. `os.WriteFile` is two steps (truncate, write), and a
file in between, or mixed by two writers, holds `Torn`. A file may be removed while a writer has it
open; the bytes then go nowhere (`linked`). A read, a write or a removal may fail; the code ignores
the error of `os.Remove`, in `Delete` as after a failed write. ristretto may refuse a new entry,
drop one at any time, and always updates one it holds. Values are the versions of their source. The
ghosts `overlap`, `calm`, `base`, `floor` and `seen` record what the properties speak about and
guard nothing. An invalidation counts for `floor` if it removed the data file or the metadata; when
both removals fail, `Delete` returns nil and the next Get serves the old value.

### Shutdown

`waiter` is the position of `WaitForSignal`, `copied` the snapshot of the hooks, `todo` the hooks of
later groups, `run` what became of each hook. Sorting and grouping are the set `FirstGroup`: the
hooks of least priority among those left. `Stubborn` hooks do not watch their context.

### Backpressure

`record` is two steps (reserve a slot, store), `computeP99` reads one slot per step and then
evaluates. `P99` is the order statistic at the rank the code computes; `(99 * n + 99) \div 100`
equals `ceil(n * 0.99)` in the float64 arithmetic of the code for every buffer size up to 5000 (the
default is 1000). A slot is one machine word, so that its plain store does not tear on the 64-bit
platforms the library is built for. `recent` is a ghost: the last P99 values.
The thresholds are positive and in any order, as the configuration does not compare them
(`manager.go` fills in defaults only); with the backoff threshold below the throttled one the mode
goes from Normal to Backoff and never through Throttled. `Backpressure_swapped.cfg` checks that case.

### MongoStore

Callers own two items each, the Go values passed by reference to the create methods, whose `_id`
fields are `ids`; all share one more document. A single-document method is one action with the
outcomes a client can see: done, refused, failed before it took effect, failed after. A transaction
is a step machine (`TxnStep`) in the order of `manager/internals.go`: the callback's operations, the
commit, the commit again while its result is unknown, the whole transaction again on a transient
error, the abort, the return. The callback writes items and the shared document; two open
transactions cannot both have written it (the server's write conflict), and a transaction whose
client has left expires. `Outage`, `Recover` and `Monitor` drive `isConnected`. The ghosts `effect`
and `doubt` count what a call really did. Filters, projections and the contents of documents are
abstracted; driver and server are external.

### Pagination

A walk: a caller opens a session on one of six finders (a direction, a page size, a filter) and
follows the pages. The finders are operators on the stored documents (`FindByCursor`,
`FindWithCursor`, `TableFindByCursor`, `BuildSelect`) with the one-more-than-asked limit, the
reversal of a backward page, the defaults and caps of the constants files. The offset finders read
twice, a page and a count, and writers come in between (`half`). A condition of a filter has a key,
`_id` or another field. A MongoDB cursor is assigned to the filter's `_id` entry and so replaces a
condition of the caller's own on `_id`: pages after the first are of `Uncursored` rows. A ClickHouse
row type without the timestamp field gives the zero time as cursor (`TimeField`), which is before
every row; the properties of the cursor walks leave that table out (`Keyed`). `CreateOne`,
`DeleteByID` and `InsertBatch` write during a walk; `ReadFails` is an error the caller sees, and a
`FindByCursor` whose iteration breaks off returns fewer documents as if there were no more, as the
code never looks at `cursor.Err()`. The servers' sorts are `Sorted`: the i-th row has i - 1 rows
before it in the order (`IdOrder`, `TimeOrder`); `MCPagination` compares it with the library's sort
on every set of the instance. `WhereFilters` checks placeholders against arguments, as the server
does.

### OrgFilter, OrgTree

A path key is a sequence of segments, a segment a sequence of digits, with `strconv`'s parsing,
formatting and padding as arithmetic on digits and the byte order of the stores as an order on
sequences. Parsing adds digit after digit and formatting divides by the base, as recursive functions
on an initial segment of the naturals. `OrgTree` lets organizations be created below each other in
any order, through `ValidateOrgHierarchy` reading a coverage that may be old; `lineage` is a ghost,
the tree as it was built, against which the operators are compared. A request whose DTO cannot be
read is answered 400, one that reaches the middleware without the coverage in its locals 500. The
service that stores organizations is external: it gives a free path key of the type's width.
`ParseInt`'s range error, from thirteen digits of base 36 on, is left out.

### RequestAccess

The requests of one user through the middleware chain, one action for each read of the cache and
each call: `auth` (both token parsers), `ver` and `data` (version pointer, then the permissions under
it, with the retries on a miss), `build` and `await` (the service asked to build), the permission
decision for admin and for required permissions, `coverage`/`covBuild`, and for requests without an
organization `rootVer`/`rootData`, then the filter. The cache and the identity service
that fills it are external: a build moves the pointer and saves the permissions later (`Save`);
grants and memberships change, entries are evicted, and any read or call may fail. A version is a
number from 1 to `Versions` (100 in `permission/internal.go`), cached for 30 days, and a build may take
a number whose older permissions are still cached or being saved: `number` says which version each
build took, and the ghost `reused` remembers the builds that found theirs in use (`InUse`). A request
that looks under such a number finds older permissions; `Current` writes that exception into the
properties. A coverage has two lists, the accessible ids and the organizations with their path keys;
an id may be missing from the second or be there without a path key (`listed`), and is then refused. The
other ghosts are `saved`, `floor`, `used` and `calm`.

### Health

Discrete time. `CheckStart`, one `Checker` per dependency and `CheckEnd` are a request of `Check`,
`CheckCached` one that is served from the cache. A manager's monitor begins a `Ping` when its ticker
fires, the server takes it (`Reply`) and later the ping returns and sets the flag (`Monitor`); until
then `/health` reads the old one. After a failed ping ClickHouse's goes on to `connect`, a call with
a reply and a return of its own, also after `Close`, which makes `conn` "reopened". A ping takes at
most `PingTime` (3 s), a connect at most `ConnectTime` (a dial of 5 s and a ping of 3 s), and the
ticker keeps one tick for a busy monitor. `Gap` is the longest time between two pings, `Lag` how old
a wrong answer may be: TTL, check, gap and one ping. Whether a manager is MongoDB's or ClickHouse's
is chosen in `HealthInit`. `StatusOf` is the loop over the checkers' results in the order of Go's
map, any of `Orders`. The constants are assumed to be a finite set of checkers, each either pinging
or reading a manager's flag.

## 3. Runs

| Run | Shows | Instance |
|---|---|---|
| `nats_safety` | `AckedIsAccounted`, `DLQOnlyAfterRetries`, `RetryIsRedelivered`, `ImplementsQueue` | 2 instances of 1 or 2 releases, 1 message, 2 deliveries, two options; 1.34 million states |
| `nats_live` | `EventuallySettled`, `StopTerminates`, `LossOnlyByFault`, `TypeOK` | 1 instance, 1 message, 2 deliveries, five options, 1 crash, 2 fetch errors with a limit of 1; 96 thousand states |
| `nats_bus` | `NoLostUpdate`, `SubjectsCaptured`, `ScheduledOnce`, `BroadcastReaches` | 3 calls, 2 subjects, a stream of 1 message, 1 end of a duplicate window, 1 fault; 540 thousand states |
| `tiered_cache` | `NoStaleAfterInvalidate`, `TiersAgree` | 2 goroutines, 4 operations, 2 versions, 2 faults, the three documented configurations; 4.5 million states |
| `shutdown` | `PriorityOrder`, `GroupsStartTogether`, `NothingSkipped`, `ShutdownCompletes`, `TypeOK` | 4 hooks in 3 groups |
| `backpressure` | `ModeJustified`, `BackoffNeedsItsOwnWindows`, `TypeOK` | 2 writers, 2 slots, 4 records, 6 windows, 4 latencies |
| `mongo_store` | `OutcomeTruthful`, `NoTwice`, `TransactionReturns` | 2 callers, one of which may repeat its call, every method, 2 faults; 45 thousand states |
| `pagination` | `WalkOrdered`, `WalkComplete`, `OffsetPages`, `BackReturns`, `WalkEnds` | 4 documents, two with one timestamp, page sizes 0, 1 and 4 (default 2, cap 3), 4 filters, 1 write, 1 fault; 80 thousand states |
| `request_access` | `ServedOnFreshGrant`, `ScopeOfServed`, `RefusedForCause`, `Answered`, `TypeOK` | 2 requests, a vendor, its customer and a second vendor, 2 builds, 2 version numbers, 2 reads before giving up, 1 change or eviction; 446 thousand states |
| `org_tree` | `RangeIsSubtree`, `DepthMatchesType`, `TemplatesVisible` | 6 organizations, base 2, vendors and customers with two digits; 8.6 thousand states up to symmetry |
| `health` | `ResponseFresh`, `StatusExact` | 2 requests, a pinged dependency and a manager, TTL 2, check 1, interval 2, ping 1, connect 3, time up to 8, 2 changes; 5.3 million states |
| `nats_dlq_lost` | a violation of `NackedAtLimitReachesDLQ` | a Nack at the limit whose DLQ publish fails |

`nats_dlq_lost` is the finding: `message.go:103` says "If max retries reached: message is sent to DLQ
and ACKed", but when that publish fails the fallback is a NAK on the last delivery the server makes,
and the message is in neither place.

The exploration ends at bounds (operations, deliveries, windows, time), so deadlock is not checked.

### Counterexample configurations

These `.cfg` files check a property where the code departs from a comment; TLC finds each one
violated. They mark the edge of what the runs above assume. (`Backpressure_swapped.cfg` is the only
other one outside the runs; it passes.)

| Configuration | Comment | What the code does |
|---|---|---|
| `NatsConsumer_stale_durable` (`RetryIsRedelivered`) | `message.go:102`, "If max retries not reached: message is redelivered with backoff delay" | a durable that exists keeps the `MaxDeliver` of an earlier policy and gives up sooner |
| `NatsConsumer_zero_retries` (`DLQOnlyAfterRetries`) | `types.go:375`, "MaxRetries is the maximum number of retry attempts before sending to DLQ." | 0 means the default to the server and none to the client |
| `TieredCache_torn` (`GetReturnsWholeValue`) | `tieredcache/methods.go:22`, "data: the cached bytes" | a write cut short leaves a value that Get serves |
| `Shutdown_hang` (`ShutdownCompletes`) | `shutdown/methods.go:41`, "After all hooks complete (or timeout), the process exits." | nothing bounds a hook that ignores its context |
| `Backpressure_rule` (`ThreeWindowsRaiseMode`) | `backpressure.go:85`, "3 consecutive windows above a threshold" move the mode up | Throttled, Backoff, Backoff are three windows above a threshold and leave the mode Normal |
| `OrgTree_top` (`RangeSelectsSelf`) | `pathkey.go`, "This query efficiently selects the org and ALL its descendants" | the sibling of the highest segment of a width is one digit wider and sorts before it: the range is empty |
| `Pagination_previous` (`PreviousPage`) | `mongodb/model/types.go:211`, "PrevCursor is the cursor value to fetch the previous page." | FindWithCursor keeps the forward sort, so the limit returns the first documents of the collection and not the page before |

Other departures met while modelling, written into the models and their properties:
`PublishScheduled` reports a duplicate as success (`nats/types.go:508` says it is rejected), so a
schedule repeated after a purge is silently dropped; two `Subscribe` calls at once can lose one
another's subject; `Delete` of the tiered cache reports success although neither file could be
removed; a cursor of `FindByCursor` drops the caller's own condition on `_id`; ClickHouse's cursor
skips rows with the timestamp of the row that ended a page; ClickHouse's monitor opens a connection
again after `Close`; without `EnableMonitor` a manager's flag never changes, and /health repeats it;
`FindAndUpdateMany` never returns the `ErrNotFound` its comment names; `ParseJWTTokenWithJWKS`
fetches the keys for each request.

### Why the bounds are enough

- *NATS consumer.* The properties speak of one message, and messages meet only in the fetch limits,
  which decide when and not how a message is handled. Two deliveries with one retry give a first
  delivery that is retried and a last one; two instances let a late acknowledgement of the first
  meet the second, and two batch sizes let each delete the durable of the other. Crashes are in the
  run of one instance: to the other instances one that died looks like one that is no longer
  scheduled. The policies with two retries are in the counterexample configurations, and the
  theorems hold for all.
- *NATS bus.* Three calls are two writers of a key and one before them, a message more than the
  stream keeps with its subscriber, three services provisioning one stream, or a schedule, its
  repetition, within the duplicate window or after its end, and its purge. The theorems hold for any
  number.
- *Tiered cache.* A stale fill takes an operation that reads, an update, an invalidation and one
  that reads again: four operations and two versions. Two goroutines overlap in every pair of steps.
  Two faults are a write that fails with the removal after it, or both removals of an invalidation.
- *Shutdown.* Two hooks of one priority between two others: order, concurrency and grouping.
- *Backpressure.* Six windows let the mode rise, fall and rise; four records overwrite both slots
  twice; the latencies are one below the thresholds, one in each band and 0, which means no sample.
- *MongoStore.* A conflict takes two callers, a wrong repetition one caller's two calls; two faults
  lose the reply of a commit and of its repetition. Eight ids are never used up.
- *Pagination.* Four documents at page size 1 are four pages, with the offset beyond both caps; the
  default 2 gives a page and a rest; page size 4 is above the cap. Documents start anywhere in the
  range, so a write falls before, in or behind the page. The filters are none, a range with a hole, one
  document, and all `_id`s but one.
- *RequestAccess.* One change between two builds is a permission taken away, the second under another
  version number or the first one again; two requests share a build; two reads are a miss and the last
  attempt. A third organization lies at the end of the range, outside the header's subtree.
- *OrgTree.* Six organizations are a chain of all six types, or siblings with children; of the four
  keys of width 2, two are used, the highest included; zones have one digit and so an end of width 1.
- *Health.* The longest lag is 2 + 1 + 3 + 1 = 7, of a manager that reconnects; the clock goes to 8. A
  connect is longer than the interval, so that a tick waits for a busy monitor, and two overlapping
  checks can store their answers in the wrong order.

### Fairness

- *NATS consumer.* The loop's goroutine, the fetch, the batch handlers and the server each act when
  they can (weak fairness): goroutines are scheduled, a fetch ends at FetchTimeout, AckWait is a
  timer. Handlers are assumed to return. `TakeStop` has its own weak fairness: Go's select chooses
  among ready cases at random, and `stopChan` stays closed, so it is chosen in the end; the model
  only relies on it being enabled continuously while the loop is in the select, and on a stopped
  consumer running out of batches. No fault, Stop or verdict is fair. `EventuallySettled` assumes an
  instance that comes back to its select without being stopped.
- *NATS bus.* SubscribeFanout goes on to Consume in the same goroutine; the server delivers what is
  stored to a consumer that is there, and the library runs the handler. Calls, faults and
  acknowledgements have none.
- *Shutdown.* WaitForSignal acts when it can, the deadline passes, and a hook that watches its
  context returns. A stubborn hook has no fairness; the signal has none either.
- *MongoStore.* A caller's goroutine runs on, outages end, and the server expires a transaction its
  client has left (transactionLifetimeLimitSeconds). Faults and conflicts have none.
- *Pagination.* A caller with more to read asks for it.
- *RequestAccess.* A handler's goroutine runs on, and its HTTP client has a timeout; the build it
  waits for, changes and evictions have no fairness.

The tiered cache, the backpressure tracker, the organization tree and the health service have safety
properties only; in `Health` time waits for what is due.

## 4. Proofs

TLAPS proves, with no assumption but the named ones on the constants and those stated below:

| Module | Theorem | Result |
|---|---|---|
| `Nats_proofs` | `TypeCorrect` | `Spec => []TypeOK` |
| | `AckedAccounted` | `Spec => []AckedIsAccounted` |
| | `DLQAfterRetries` | `Spec => []DLQOnlyAfterRetries`, if no policy has `maxRetries = 0` |
| | `RetryRedelivered` | `Spec => []RetryIsRedelivered`, if `PriorMaxDeliver = {Absent}` |
| | `LossByFault` | `Spec => []LossOnlyByFault`, if `PriorMaxDeliver = {Absent}` |
| | `Refinement` | `Spec => ImplementsQueue`: the consumer implements `WorkQueue` |
| | `NoUpdateLost`, `SubjectsStayCaptured`, `ScheduleFiresOnce` | of `BusSpec`: `[]NoLostUpdate`, `[]SubjectsCaptured`, `[]ScheduledOnce` |
| `TieredCache_proofs` | `TypeCorrect`, `NothingStale`, `TiersKeepAgreeing` | `[]TypeOK`, `[]NoStaleAfterInvalidate`, `[]TiersAgree` |
| `Service_proofs` | `TypeCorrect`, `HooksInOrder`, `GroupsTogether`, `NoHookSkipped` | `[]TypeOK`, `[]PriorityOrder`, `[]GroupsStartTogether`, `[]NothingSkipped` |
| | `StatusIsAlwaysExact`, `ResponsesAreFresh` | of `HealthSpec`: `[]StatusExact`, `[]ResponseFresh` |
| `Mongo_proofs` | `TypeCorrect`, `ModeIsJustified`, `BackoffHasItsOwnWindows` | of `BackpressureSpec`: `[]TypeOK`, `[]ModeJustified`, the action property |
| | `OutcomesTruthful`, `StoredOnce` | `[]OutcomeTruthful`, `[]NoTwice` |
| `Pagination_proofs` | `WalkIsOrdered`, `WalkIsComplete`, `OffsetPagesPartition`, `BackReturnsThePage` | `[]WalkOrdered`, `[]WalkComplete`, `[]OffsetPages`, `[]BackReturns` |
| `OrgTree_proofs` | `TreeTypeCorrect`, `RangesAreSubtrees`, `DepthAndTypeAgree`, `TemplatesSeen` | `[]TreeTypeOK`, `[]RangeIsSubtree`, `[]DepthMatchesType`, `[]TemplatesVisible` |
| `RequestAccess_proofs` | `TypeCorrect`, `FreshGrants`, `RefusalHasCause` | `[]TypeOK`, `[]ServedOnFreshGrant`, `[]RefusedForCause` |
| | `ServedScope` | `TreeSpec /\ <>FromTree /\ Spec => []ScopeOfServed`, if no organization is `AtTop` |

The assumptions of the NATS consumer's theorems are exactly what `NatsConsumer_zero_retries.cfg` and
`NatsConsumer_stale_durable.cfg` show to be needed. `ServedScope` composes the two models of the
organization hierarchy: `FromTree` says that the organizations the middlewares serve (the constant
`OrgData`) are stored in a state a behaviour of `OrgTree` reaches, and the proof takes from
`RangesAreSubtrees` that their path key ranges select subtrees. `OrgTree_top.cfg` shows that this
fails for an organization with the highest segment of its width, which is what `AtTop` leaves out.
The named assumptions on the constants of `RequestAccess` say that an organization's id is valid, is
not the mark of an absent one and is the id in its data, that stored path keys are not empty, that a
coverage lists an organization once, as it is or without its path key, and that builds take version
numbers of the range, in any way.

The inductive invariants:

- *NATS consumer.* `TypeOK` bounds `retryCount` and needs `CountInv` (a running loop is below the
  limit; the count of a durable is that of the message's last deliveries and no higher).
  `AckedIsAccounted` is not inductive: an ACK out of `dlqack` needs to know that a copy is in the
  DLQ, and a step on a delivery must not change the verdict of one that ended. `LifeInv` adds
  `FreshInv` (the client knows the deliveries the server has counted and no others, so a new one
  overwrites nothing), `VerdictInv` (no verdict before the decision), `DLQInv` (who enters
  `sendToDLQAndAck` and what is stored at each of its steps) and `CopyInv` (every copy has a
  delivery that explains it). `PolicyInv` relates the client's policy to the server's `MaxDeliver`.
- *Refinement.* The same `LifeInv` carries it: a message the server settles was delivered, and one
  settled out of `dlqack` has a copy, which enables the abstract `Replace`. Each action is matched
  with a step of the queue or shown to leave the mapped variables alone (`Stutter`).
- *NATS bus, key-value.* `NoLostUpdate` is not inductive: an Update must be known to hold all that
  was in the value it replaces. `RevisionInv` says that a caller whose revision is still the key's
  has read the key's value, and `ContributionInv` that a contribution comes from a call that wrote,
  or whose reply was lost.
- *NATS bus, provisioning.* `ProvisionedInv`: while no two calls overlapped and nothing failed, a
  call about to update has read the stream's subjects as they still are, and the stream captures the
  subject of every call past its update and of every durable. `QueueInv` adds the types it needs.
- *NATS bus, scheduling.* `TimerInv`: the current duplicate window has an attempt with the MsgId only if
  the server remembers it, so that a repetition in it stores nothing, and a call still to be made is no
  attempt, so that each message stored has one of its own; from the first attempt to a purge the
  message waits or has been delivered.
- *Tiered cache.* `StaleInv`: the tiers show nothing older than the last undisturbed invalidation; a
  stale data file it could not remove has lost its metadata (`TierInv`); an operation in flight
  carries nothing older than what a Get that starts with it may return, and an undisturbed
  invalidation is alone and has emptied the tiers it is past (`FlightOK`); so has the result of a
  finished one (`RestOK`). `AgreeInv` says for each step of an operation that runs alone which tiers
  already hold its value (`Carries`).
- *Shutdown.* `ShutdownInv`: the copied hooks are those started and those to do, the first with
  smaller priorities, and nothing runs between groups.
- *Backpressure.* `CountsInv`: each counter, up to the number of windows kept, says how many of the
  latest windows were above its threshold (the milder one above the lower of the two, `LowestMs`).
  `TypeCorrect` rests on `P99Value`: a value at the 99th percentile exists, for any finite number of
  samples.
- *MongoStore.* `OutcomeInv`: at each step of a transaction, how often the call has taken effect. A
  transaction that is run again has left no effect behind; one whose commit is repeated has taken
  effect just when the server says committed. `IdInv`: an item of a typed model is stored, or written
  by an open transaction, only under the `_id` its owner's value holds, which never changes once set.
- *RequestAccess.* `SafeInv`: what is cached under a version is from a build that took it
  (`VersionInv`); under the version of a build that found it free, nothing older is cached or will
  be saved (`ReuseInv`); so what a request has read or decided on at each step is at least its
  floor, unless a build since took its version in use (`RequestInv`); from the same invariant a
  served filter is the one its header asks for. `RefusedForCause` also needs `GrantInv` (the pointer
  leads to the permissions granted now, the coverage is the membership now) and `CalmInv`: as long
  as a request is calm no build but its own is under way (`Quiet`), and what it sees is what is
  granted (`Sees`), so that a refusal has a cause.
- *OrgTree.* `TreeInv`: each organization has one segment for each level down to its type, of that
  level's width (`StoredInv`); path keys are unique (`UniqueInv`); everything above a stored
  organization is stored (`ClosedInv`), so that a new key is nobody's prefix; and the lineage the
  creations recorded is the prefix order of the path keys (`LineageInv`). `CoverageInv` says that a
  coverage of any age is made of stored organizations, which is why an old one does no harm.
  `RangesAreSubtrees` then rests on two results about all path keys: `NextSegmentIsSuccessor` (parsing,
  adding one, formatting and padding raise the last digit that is not the highest and clear those
  behind it) and `NothingBetween` (no segment of that width sorts between a segment and its next).

- *Health.* `ResponseFresh` is about the moment a response is given, and the causes of a wrong
  answer lie up to three delays before it. `MonitorInv` and `AnswerInv` date each of them: a flag
  that is wrong became so at most a gap before the monitor's last call began (`FlagInv`), a reply
  that is wrong after its call began (`ReplyInv`), what a check has seen after the check began, what
  is cached after the cached check began, each less the age the answer had when it was read.
  `ClockInv` bounds those moments: no call of a monitor outlasts its timeout and no check takes
  longer than CheckTime. An older check that is stored last keeps the bound, because the response
  carries the time of its own end. `StatusComputed` proves by induction over the order what the loop
  computes, `OrderCovers` that every order has every result.
- *Pagination, cursors.* `SortedRows`: ranks are a bijection, so `Sorted` lists each row once and in
  order; `PageRows` says what a limit cuts off. Whatever the finder, a page is the first rows behind
  the cursor (`IsNextPage`) and leaves out only what lies behind its last row (`IsWholePage`).
  `CursorInv` then says that the cursor is the key of the last row the caller has (`Position`), that
  what it has is in order, and that every row it has not reached lies behind (`Covered`) unless a read
  was cut. Writes keep it, because it speaks only of rows that were there all along.
- *Pagination, offsets.* `OffsetInv`: after page k the caller has the first k pages of the sorted
  rows, and between its two reads an offset finder holds the count or the next page. `EnoughPages`
  gives that TotalPages pages hold all rows.
- *Pagination, going back.* `BackInv`: the walk goes on from a full page of neighbouring rows, and the
  page before the last one is the full page right before it (`PageBefore`), also when the last one
  was cut short. Reading backwards then finds the same rows: an ordered list with nothing missing is
  the beginning of the sorted set (`PrefixIsUnique`), and the reversals cancel.

Induction over data. The library's induction theorems take an operator and cannot be used with the
installed provers, but that a set of naturals has a least member (`LeastMember`) follows from its
theorems about well-founded relations, which take none. `Induction` derives from it induction
over a set (`UpTo`) and the existence of a function defined by recursion on `0 .. n` (`Recursion`).
`OrgTree_proofs` proves with them what `ParseInt` and `FormatInt` compute, and `Service_proofs` what
the loop of `Check` does.

Only model-checked: liveness (`EventuallySettled`, `StopTerminates`, `BroadcastReaches`,
`ShutdownCompletes`, `TransactionReturns`, `WalkEnds`, `Answered`), which is out of this prover's
reach. Every invariant and every action property of the passing runs, and the refinement, is proved.
TLC has checked the inductive invariants of `Pagination` and `Health` on the instances of their runs.

## 5. Not modelled

`PROJECT.json` lists every component with its status. Left out for good: thin wrappers of SDKs
(Redis commands, MinIO), text building (SQL, BSON, responses), reflection-driven validation,
cryptography, the embedded script interpreter, mock servers, and set-up code that runs before
anything is concurrent. In the modelled parts: statistics, logging, message contents, durations and
their order (in `Health` they are kept). Of the NATS consumer, `Stop` is one step although it reads
and sets `stopped` without a lock, and all instances share their options but for the batch size. Of the
cursors, one that cannot be parsed: `buildCursorFilter` then leaves the base filter as it is, and the
first page comes again. Of the models,
`ensureIndexes`, whose compound keys come from a Go map in random order. Of the bus, the connection
with its reconnects, which the NATS client hides, and plain publishing without a reply.

## 6. Plan

1. `ConsumerShutdown`: NatsConsumer's stop under Shutdown, with Stop in two steps and connections
   closed under a running batch.
2. `CacheInvalidation`: the fanout of `NatsBus` with the tiered caches of several instances; what a
   missed or failed invalidation leaves behind.
3. `RedisLock` (a lock that expires in use, mutual exclusion under the TTL assumption) and the MQTT
   publish whose timeout races its confirmation.
4. The writers that obey the backpressure mode, and recovery from it.
