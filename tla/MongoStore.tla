----------------------------- MODULE MongoStore -----------------------------
(***************************************************************************)
(* Writes to MongoDB through infrastructure/mongodb: the create, update    *)
(* and delete methods of Model[T], and RunTransaction of the manager and   *)
(* of the model, with the whole transaction repeated on a transient error  *)
(* and the commit repeated when its result is unknown.                     *)
(*                                                                         *)
(* Several callers write to one collection.  Each caller owns two items,   *)
(* the Go values it passes by reference to CreateOne and CreateMany, and   *)
(* all share one more document, which they update and delete.  The server  *)
(* and the driver are external: a request may fail before or after it took *)
(* effect, two open transactions cannot both write the shared document,    *)
(* and a transaction the client gave up on expires.                        *)
(***************************************************************************)
EXTENDS Integers, FiniteSets

CONSTANTS
    Callers,    \* goroutines of the service
    Typed,      \* the callers whose item type has an ObjectID field for _id
    Kinds,      \* the methods they call
    MaxCalls,   \* bound: calls of each caller, the repeated ones included
    MaxIds,     \* bound: ObjectIDs in use at a time
    MaxFaults   \* bound: requests that fail although the server is up, and outages

ASSUME MongoAssumption ==
    /\ Typed \subseteq Callers
    /\ MaxCalls \in [Callers -> Nat] /\ MaxIds \in Nat /\ MaxFaults \in Nat

Items == Callers \X {1, 2}
Ids == 1 .. MaxIds
NoItem == << >>
Zero == 0                       \* the zero ObjectID
Transactions == {"RunTransaction", "Model.RunTransaction"}

VARIABLES
    up,         \* the server answers
    connected,  \* MongoManager.isConnected
    ids,        \* the _id field of each item, in the caller's memory
    stored,     \* collection: the item stored under each _id
    doc,        \* collection: the shared document exists
    lock,       \* server: the transaction that wrote the shared document
    txn,        \* server: the state of the caller's last transaction
    pending,    \* server: what an open transaction inserted, a function on some _ids
    pc,         \* where the caller is in RunTransaction
    result,     \* what the call returned
    effect,     \* how often the call took effect (ghost)
    doubt,      \* the call's last request may or may not have taken effect (ghost)
    calls,      \* calls so far
    faults      \* faults so far

serverVars == <<stored, doc, lock, txn, pending>>
callVars   == <<pc, result, effect, doubt, calls>>
vars == <<up, connected, ids, serverVars, callVars, faults>>

Init ==
    /\ up = TRUE /\ connected = TRUE
    /\ ids = [i \in Items |-> Zero]
    /\ stored = [d \in Ids |-> NoItem] /\ doc = TRUE
    /\ lock = NoItem
    /\ txn = [c \in Callers |-> "none"] /\ pending = [c \in Callers |-> {}]
    /\ pc = [c \in Callers |-> "idle"]
    /\ result = [c \in Callers |-> "none"]
    /\ effect = [c \in Callers |-> 0] /\ doubt = [c \in Callers |-> FALSE]
    /\ calls = [c \in Callers |-> 0] /\ faults = 0

-----------------------------------------------------------------------------
(* setIDAndCreated: a zero _id field is filled in the caller's own value.   *)
(* An item type without such a field gets its _id from the driver, a new    *)
(* one for every request.                                                   *)
Fresh(used) ==
    LET free == {d \in Ids : /\ d \notin used /\ stored[d] = NoItem
                             /\ \A i \in Items : ids[i] # d
                             /\ \A c \in Callers : d \notin pending[c]}
    IN  CHOOSE d \in free : \A e \in free : d <= e

setIDAndCreated_Always(i, used) == Fresh(used)

setIDAndCreated(i, used) ==
    IF i[1] \in Typed /\ ids[i] # Zero THEN ids[i] ELSE Fresh(used)

Keep(i, id) == IF i[1] \in Typed THEN [ids EXCEPT ![i] = id] ELSE ids

(* A call that is one request: it returns at once.  A fault may hide that   *)
(* the request took effect n times.                                         *)
Return(c, k, r, n) ==
    /\ pc[c] = "idle" /\ calls[c] < MaxCalls[c] /\ k \in Kinds
    /\ calls' = [calls EXCEPT ![c] = @ + 1]
    /\ result' = [result EXCEPT ![c] = r]
    /\ effect' = [effect EXCEPT ![c] = n]
    /\ doubt' = [doubt EXCEPT ![c] = (r = "err")]
    /\ UNCHANGED <<up, connected, lock, txn, pending, pc>>

Fault == faults < MaxFaults /\ faults' = faults + 1
NoFault == UNCHANGED faults

(* A request that does not reach the server, or fails there. *)
Fails(c, k) ==
    /\ IF up THEN Fault ELSE NoFault
    /\ Return(c, k, "err", 0)
    /\ UNCHANGED <<stored, doc>>

(* The reply of a request that took effect arrives, or is lost. *)
Replies(c, k, n) ==
    /\ up
    /\ \/ NoFault /\ Return(c, k, "ok", n)
       \/ Fault /\ Return(c, k, "err", n)

CreateOne(c) ==
    LET id == setIDAndCreated(<<c, 1>>, {})
    IN  /\ ids' = Keep(<<c, 1>>, id)
        /\ \/ Fails(c, "CreateOne")
           \/ /\ stored[id] = NoItem
              /\ stored' = [stored EXCEPT ![id] = <<c, 1>>]
              /\ Replies(c, "CreateOne", 1)
              /\ UNCHANGED doc
           \/ /\ up /\ stored[id] # NoItem
              /\ Return(c, "CreateOne", "dup", 0)
              /\ NoFault /\ UNCHANGED <<stored, doc>>

(* CreateMany gives every item its _id first; InsertMany is ordered and     *)
(* stops at the first document it cannot store, keeping those before it.    *)
CreateMany(c) ==
    LET a == setIDAndCreated(<<c, 1>>, {})
        b == setIDAndCreated(<<c, 2>>, {a})
        Put(s, id, i) == [s EXCEPT ![id] = <<c, i>>]
    IN  /\ ids' = IF c \in Typed THEN [ids EXCEPT ![<<c, 1>>] = a, ![<<c, 2>>] = b] ELSE ids
        /\ \/ Fails(c, "CreateMany")
           \/ /\ stored[a] = NoItem /\ stored[b] = NoItem
              /\ stored' = Put(Put(stored, a, 1), b, 2)
              /\ Replies(c, "CreateMany", 1)
              /\ UNCHANGED doc
           \/ /\ up /\ stored[a] = NoItem      \* the second fails, or cannot be stored
              /\ stored' = Put(stored, a, 1)
              /\ IF stored[b] = NoItem THEN Fault ELSE NoFault
              /\ Return(c, "CreateMany", "err", 1)
              /\ UNCHANGED doc
           \/ /\ up /\ stored[a] # NoItem
              /\ Return(c, "CreateMany", "dup", 0)
              /\ NoFault /\ UNCHANGED <<stored, doc>>

(* CreateMany with no items. *)
CreateNone(c) ==
    /\ Return(c, "CreateMany", "empty", 0)
    /\ UNCHANGED <<ids, stored, doc, faults>>

-----------------------------------------------------------------------------
(* The shared document.  A write outside a transaction waits for the        *)
(* transaction that holds it.                                               *)

OnDoc(c, k, found, doc1) ==
    /\ UNCHANGED ids
    /\ \/ Fails(c, k)
       \/ /\ doc /\ lock = NoItem
          /\ doc' = doc1
          /\ Replies(c, k, 1)
          /\ UNCHANGED stored
       \/ /\ up /\ ~doc
          /\ Return(c, k, found, 0)
          /\ NoFault /\ UNCHANGED <<stored, doc>>

(* ToObjectID refuses the id before anything is sent. *)
InvalidID(c, k) ==
    /\ Return(c, k, "invalid", 0)
    /\ UNCHANGED <<ids, stored, doc, faults>>

(* A read sees the document whoever holds it. *)
Find(c, k) ==
    /\ UNCHANGED <<ids, stored, doc>>
    /\ \/ /\ IF up THEN Fault ELSE NoFault
          /\ Return(c, k, "err", 0)
       \/ /\ up /\ NoFault
          /\ Return(c, k, IF doc THEN "found" ELSE "notfound", 0)

FindByID(c) == Find(c, "FindByID")
FindOne(c)  == Find(c, "FindOne")

FindByIDAndUpdate(c) == OnDoc(c, "FindByIDAndUpdate", "notfound", doc)
FindOneAndUpdate(c)  == OnDoc(c, "FindOneAndUpdate", "notfound", doc)

(* UpdateMany does not fail when nothing matches: the call succeeds. *)
FindAndUpdateMany(c) == OnDoc(c, "FindAndUpdateMany", "unmatched", doc)

DeleteByID(c) == OnDoc(c, "DeleteByID", "notfound", FALSE)
DeleteOne(c)  == OnDoc(c, "DeleteOne", "notfound", FALSE)
DeleteMany(c) == OnDoc(c, "DeleteMany", "notfound", FALSE)

(* DeleteMany refuses an empty filter, which would delete everything. *)
DeleteAll(c) ==
    /\ Return(c, "DeleteMany", "empty", 0)
    /\ UNCHANGED <<ids, stored, doc, faults>>

-----------------------------------------------------------------------------
(* RunTransaction.  Its function creates the caller's first item and then   *)
(* updates the shared document, in the caller's session.                    *)

Goto(c, l) == pc' = [pc EXCEPT ![c] = l]

(* The manager's method looks at its connected flag first; the model's goes *)
(* straight to the client.                                                  *)
RunTransaction(c, k) ==
    /\ pc[c] = "idle" /\ calls[c] < MaxCalls[c] /\ k \in Kinds \cap Transactions
    /\ calls' = [calls EXCEPT ![c] = @ + 1]
    /\ effect' = [effect EXCEPT ![c] = 0]
    /\ doubt' = [doubt EXCEPT ![c] = FALSE]
    /\ IF k = "RunTransaction" /\ ~connected
       THEN result' = [result EXCEPT ![c] = "notconnected"] /\ UNCHANGED pc
       ELSE result' = [result EXCEPT ![c] = "none"] /\ Goto(c, "start")
    /\ UNCHANGED <<up, connected, ids, serverVars, faults>>

Finish(c, r) ==
    /\ Goto(c, "idle")
    /\ result' = [result EXCEPT ![c] = r]
    /\ UNCHANGED calls

(* session.StartTransaction is local. *)
StartTransaction(c) ==
    /\ pc[c] = "start"
    /\ Goto(c, "create")
    /\ UNCHANGED <<up, connected, ids, serverVars, faults>>
    /\ UNCHANGED <<result, effect, doubt, calls>>

Unlock(c) == IF lock = c THEN NoItem ELSE lock

(* What hasErrorLabel is asked of an error: "transient", "unknown" or none. *)
hasErrorLabel_Any(label, want) == TRUE

hasErrorLabel(label, want) == label = want

(* After txnFunc failed: abort, which may itself fail and be logged only,   *)
(* and start over if the error was a transient one.                         *)
AbortAfter(c, label) ==
    /\ \/ /\ up /\ txn' = [txn EXCEPT ![c] = "aborted"]
          /\ pending' = [pending EXCEPT ![c] = {}]
          /\ lock' = Unlock(c)
          /\ NoFault
       \/ /\ IF up THEN Fault ELSE NoFault
          /\ UNCHANGED <<txn, pending, lock>>
    /\ IF hasErrorLabel(label, "transient")
       THEN Goto(c, "start") /\ UNCHANGED <<result, calls>>
       ELSE Finish(c, "err")
    /\ UNCHANGED <<stored, doc, effect, doubt>>

(* The first request of a transaction ends the session's earlier one. *)
TxnCreate(c) ==
    /\ pc[c] = "create"
    /\ LET id == setIDAndCreated(<<c, 1>>, {})
       IN  /\ ids' = Keep(<<c, 1>>, id)
           /\ \/ /\ up /\ stored[id] = NoItem
                 /\ txn' = [txn EXCEPT ![c] = "open"]
                 /\ pending' = [pending EXCEPT ![c] = {id}]
                 /\ lock' = Unlock(c)
                 /\ Goto(c, "update")
                 /\ NoFault
                 /\ UNCHANGED <<stored, doc, result, effect, doubt, calls>>
              \/ up /\ stored[id] # NoItem /\ AbortAfter(c, "none")   \* duplicate key
              \/ ~up /\ AbortAfter(c, "transient")
    /\ UNCHANGED <<up, connected>>

TxnUpdate(c) ==
    /\ pc[c] = "update"
    /\ \/ /\ up /\ doc /\ txn[c] = "open" /\ lock \in {NoItem, c}
          /\ lock' = c
          /\ Goto(c, "commit")
          /\ NoFault
          /\ UNCHANGED <<stored, doc, txn, pending, result, effect, doubt, calls>>
       \/ /\ ~up \/ txn[c] # "open" \/ lock \notin {NoItem, c}
          /\ AbortAfter(c, "transient")
       \/ /\ up /\ ~doc                                            \* ErrNotFound
          /\ AbortAfter(c, "none")
    /\ UNCHANGED <<up, connected, ids>>

Apply(c) ==
    /\ stored' = [d \in Ids |-> IF d \in pending[c] THEN <<c, 1>> ELSE stored[d]]
    /\ pending' = [pending EXCEPT ![c] = {}]
    /\ txn' = [txn EXCEPT ![c] = "committed"]
    /\ lock' = Unlock(c)
    /\ effect' = [effect EXCEPT ![c] = @ + 1]
    /\ UNCHANGED doc

(* A commit the server carries out, or has carried out before. *)
Committed(c) ==
    /\ up
    /\ \/ txn[c] = "open" /\ Apply(c)
       \/ txn[c] = "committed" /\ UNCHANGED <<serverVars, effect>>

(* commitWithRetryInternal: the result is unknown, and the commit repeated. *)
RetryCommit_Rerun(c) == Goto(c, "start")

RetryCommit(c) == Goto(c, "commit")

Commit(c) ==
    /\ pc[c] = "commit"
    /\ \/ Committed(c) /\ NoFault /\ Finish(c, "ok") /\ UNCHANGED doubt
       \/ \* the reply is lost: the result is unknown
          /\ \/ Committed(c) /\ Fault
             \/ ~up /\ NoFault /\ UNCHANGED <<serverVars, effect>>
          /\ RetryCommit(c)
          /\ UNCHANGED <<result, doubt, calls>>
       \/ \* the caller's context ends: an error without a label
          /\ Fault
          /\ Committed(c) \/ UNCHANGED <<serverVars, effect>>
          /\ Finish(c, "err")
          /\ doubt' = [doubt EXCEPT ![c] = TRUE]
       \/ \* the server has ended the transaction: a transient error
          /\ up /\ txn[c] = "aborted" /\ NoFault
          /\ IF hasErrorLabel("transient", "transient")
             THEN Goto(c, "start") /\ UNCHANGED <<result, calls>>
             ELSE Finish(c, "err")
          /\ UNCHANGED <<serverVars, effect, doubt>>
    /\ UNCHANGED <<up, connected, ids>>

-----------------------------------------------------------------------------
(* The server and the monitor. *)

(* transactionLifetimeLimitSeconds; sooner only as a fault. *)
Expire(c) ==
    /\ txn[c] = "open"
    /\ IF pc[c] = "idle" THEN NoFault ELSE Fault
    /\ txn' = [txn EXCEPT ![c] = "aborted"]
    /\ pending' = [pending EXCEPT ![c] = {}]
    /\ lock' = Unlock(c)
    /\ UNCHANGED <<up, connected, ids, stored, doc, callVars>>

Outage ==
    /\ up /\ Fault /\ up' = FALSE
    /\ UNCHANGED <<connected, ids, serverVars, callVars>>

Recover ==
    /\ ~up /\ up' = TRUE
    /\ UNCHANGED <<connected, ids, serverVars, callVars, faults>>

(* startMonitor: one round of its loop. *)
Monitor ==
    /\ connected' = up
    /\ UNCHANGED <<up, ids, serverVars, callVars, faults>>

TxnStep(c) == StartTransaction(c) \/ TxnCreate(c) \/ TxnUpdate(c) \/ Commit(c)

Next ==
    \/ \E c \in Callers :
          \/ CreateOne(c) \/ CreateMany(c) \/ CreateNone(c)
          \/ FindByIDAndUpdate(c) \/ FindOneAndUpdate(c) \/ FindAndUpdateMany(c)
          \/ DeleteByID(c) \/ DeleteOne(c) \/ DeleteMany(c) \/ DeleteAll(c)
          \/ FindByID(c) \/ FindOne(c) \/ InvalidID(c, "FindByID")
          \/ InvalidID(c, "FindByIDAndUpdate") \/ InvalidID(c, "DeleteByID")
          \/ \E k \in Transactions : RunTransaction(c, k)
          \/ TxnStep(c)
          \/ Expire(c)
    \/ Outage \/ Recover \/ Monitor

(* The callers' goroutines run on, outages end, and the server does not     *)
(* keep a transaction its client has left.                                  *)
Spec ==
    /\ Init /\ [][Next]_vars
    /\ \A c \in Callers : WF_vars(TxnStep(c)) /\ WF_vars(pc[c] = "idle" /\ Expire(c))
    /\ WF_vars(Recover)

-----------------------------------------------------------------------------
(* What a call returns is what happened.  Success means that it took effect *)
(* exactly once (for CreateMany: all its items), although the               *)
(* transaction may have been run several times and its commit sent several  *)
(* times; a refusal means that nothing was done; and an error of a          *)
(* transaction means that nothing was done unless the caller's context      *)
(* ended during the commit (manager/internals.go:96).                       *)
OutcomeTruthful ==
    \A c \in Callers : pc[c] = "idle" =>
        CASE result[c] = "ok" -> effect[c] = 1
          [] result[c] \in {"found", "notfound", "unmatched", "invalid", "empty", "notconnected", "dup"} ->
                effect[c] = 0
          [] result[c] = "err" -> doubt[c] \/ effect[c] = 0
          [] result[c] = "none" -> TRUE

(* A caller that repeats a create after an error never stores a typed item  *)
(* twice, alone, in a batch or in a transaction: the first attempt left the *)
(* _id in the caller's value (model/internals.go:158).                      *)
NoTwice ==
    \A i \in Items : i[1] \in Typed => Cardinality({d \in Ids : stored[d] = i}) <= 1

(* Every transaction comes back to its caller: conflicts, outages and lost  *)
(* replies are retried without end, but not forever                         *)
(* (manager/internals.go:102, :144).                                        *)
TransactionReturns ==
    \A c \in Callers : pc[c] # "idle" ~> pc[c] = "idle"
=============================================================================
