------------------------------- MODULE Health -------------------------------
(***************************************************************************)
(* The /health endpoint (microservices/http/health) over the connections   *)
(* it reports on: the MongoDB and ClickHouse managers, whose adapters read *)
(* a flag kept by a background monitor, and Redis, MinIO and NATS, whose   *)
(* adapters ping.  Requests run concurrently and share the cached response.*)
(*                                                                         *)
(* Time is a counter.  It stands still while a monitor is to receive its   *)
(* tick, and while a ping, a connect or a check has run for as long as it  *)
(* may: PingTime and ConnectTime are the timeouts of the managers' calls,  *)
(* CheckTime is the longest a checker takes: the service's Timeout, or the *)
(* round trip of the NATS adapter, which ignores it.                       *)
(***************************************************************************)
EXTENDS Integers, FiniteSets, Sequences

CONSTANTS
    Live,           \* dependencies whose adapter pings
    Managers,       \* dependencies whose adapter reads isConnected
    Monitored,      \* the managers created with EnableMonitor
    Critical,       \* CheckerConfig.Critical
    Requests,       \* concurrent calls of /health
    CacheTTL, CheckTime, MonitorInterval, PingTime, ConnectTime,
    MaxChanges,     \* bound: servers going down or coming back, managers closed
    MaxTime         \* bound: the clock

Deps == Live \cup Managers

ASSUME HealthAssumption ==
    /\ IsFiniteSet(Deps) /\ Live \cap Managers = {}
    /\ Monitored \subseteq Managers /\ Critical \subseteq Deps
    /\ CacheTTL \in Nat \ {0} /\ CheckTime \in Nat /\ MonitorInterval \in Nat \ {0}
    /\ PingTime \in Nat /\ ConnectTime \in Nat
    /\ MaxChanges \in Nat /\ MaxTime \in Nat

VARIABLES
    now,            \* the clock
    reconnecting,   \* the managers that are ClickHouse's, whose monitor reconnects (fixed)
    up,             \* the server of each dependency answers
    since,          \* when it last went down or came back
    changes,        \* how often that happened, or a manager was closed
    conn,           \* the manager's connection: open, closed, or reopened after Close
    isConnected,    \* the managers' flags
    due,            \* when the tick the monitor receives next fires, or has fired
    monitor,        \* what the monitor is at: wait, ping or connect
    began,          \* when its ping or connect began
    reply,          \* how the server took it: none so far, ok or failed
    cached,         \* cachedResp with lastCheckAt
    pc,             \* where each request is
    started,        \* when its check began
    seen            \* what the checkers of its check have returned

connVars == <<reconnecting, conn, isConnected, due, monitor, began, reply>>
reqVars  == <<pc, started, seen>>
healthVars == <<now, up, since, changes, connVars, cached, reqVars>>

NoResp == [status |-> "none", checks |-> << >>, at |-> 0]

(* New of either manager returns connected, its monitor started, or fails. *)
NewManagers ==
    /\ reconnecting \in SUBSET Managers
    /\ conn = [m \in Managers |-> "open"] /\ isConnected = [m \in Managers |-> TRUE]
    /\ due = [m \in Managers |-> MonitorInterval]
    /\ monitor = [m \in Managers |-> "wait"] /\ reply = [m \in Managers |-> "none"]
    /\ began = [m \in Managers |-> 0]

HealthInit ==
    /\ now = 0
    /\ up = [d \in Deps |-> TRUE] /\ since = [d \in Deps |-> 0] /\ changes = 0
    /\ NewManagers
    /\ cached = NoResp
    /\ pc = [r \in Requests |-> "idle"] /\ started = [r \in Requests |-> 0]
    /\ seen = [r \in Requests |-> << >>]

-----------------------------------------------------------------------------
(* The managers. *)

(* The monitor begins a call, or waits again. *)
Begin(m, call) ==
    /\ monitor' = [monitor EXCEPT ![m] = call]
    /\ began' = [began EXCEPT ![m] = IF call = "wait" THEN 0 ELSE now]
    /\ reply' = [reply EXCEPT ![m] = "none"]

(* startMonitor receives a tick and pings.  The ticker keeps one tick for a *)
(* monitor that is busy, and drops the others.                              *)
Ping(m) ==
    /\ m \in Monitored /\ monitor[m] = "wait" /\ now >= due[m]
    /\ \E t \in now + 1 .. now + MonitorInterval :
          (t - due[m]) % MonitorInterval = 0 /\ due' = [due EXCEPT ![m] = t]
    /\ Begin(m, "ping")
    /\ UNCHANGED <<now, up, since, changes, reconnecting, conn, isConnected, cached, reqVars>>

(* The server answers the call, or it is down or the connection closed.     *)
Reply(m) ==
    /\ monitor[m] # "wait" /\ reply[m] = "none"
    /\ reply' = [reply EXCEPT ![m] = IF up[m] /\ (monitor[m] = "ping" => conn[m] # "closed")
                                     THEN "ok" ELSE "failed"]
    /\ UNCHANGED <<now, up, since, changes, reconnecting, conn, isConnected, due, monitor, began,
                   cached, reqVars>>

(* The call returns, and sets the flag. *)
Returned(m) ==
    /\ reply[m] # "none"
    /\ isConnected' = [isConnected EXCEPT ![m] = (reply[m] = "ok")]

(* The rest of a round of startMonitor: after a failed ping the ClickHouse  *)
(* monitor goes on to connect.                                              *)
Monitor(m) ==
    /\ monitor[m] = "ping" /\ Returned(m)
    /\ Begin(m, IF reply[m] = "failed" /\ m \in reconnecting THEN "connect" ELSE "wait")
    /\ UNCHANGED <<now, up, since, changes, reconnecting, conn, due, cached, reqVars>>

(* ClickHouse: connect has opened another connection and pinged it; it      *)
(* keeps one that answered.                                                 *)
connect(m) ==
    /\ monitor[m] = "connect" /\ Returned(m)
    /\ Begin(m, "wait")
    /\ conn' = IF reply[m] = "ok" /\ conn[m] = "closed" THEN [conn EXCEPT ![m] = "reopened"] ELSE conn
    /\ UNCHANGED <<now, up, since, changes, reconnecting, due, cached, reqVars>>

(* Close of the ClickHouse manager clears the flag, that of the MongoDB     *)
(* manager leaves it; neither stops the monitor.                            *)
Close(m) ==
    /\ conn[m] = "open" /\ changes < MaxChanges
    /\ changes' = changes + 1
    /\ conn' = [conn EXCEPT ![m] = "closed"]
    /\ isConnected' = [isConnected EXCEPT ![m] = @ /\ m \notin reconnecting]
    /\ UNCHANGED <<now, up, since, reconnecting, due, monitor, began, reply, cached, reqVars>>

-----------------------------------------------------------------------------
(* Service.Check. *)

Fresh_Forever == cached # NoResp

Fresh == cached # NoResp /\ now - cached.at < CacheTTL

(* A request within the TTL is answered with the cached response. *)
CheckCached(r) == pc[r] = "idle" /\ Fresh /\ UNCHANGED healthVars

CheckStart(r) ==
    /\ pc[r] = "idle" /\ ~Fresh
    /\ pc' = [pc EXCEPT ![r] = "checking"]
    /\ started' = [started EXCEPT ![r] = now]
    /\ seen' = [seen EXCEPT ![r] = << >>]
    /\ UNCHANGED <<now, up, since, changes, connVars, cached>>

(* The adapters' Check: of the managers, and of the clients that ping. *)
FlagCheck(d) == isConnected[d]
PingCheck(d) == up[d]

(* The goroutine of one checker: its adapter's Check. *)
Checker(r, d) ==
    /\ pc[r] = "checking" /\ d \notin DOMAIN seen[r]
    /\ seen' = [seen EXCEPT ![r] =
                  [e \in DOMAIN @ \cup {d} |->
                      IF e # d THEN seen[r][e]
                      ELSE IF d \in Managers THEN FlagCheck(d) ELSE PingCheck(d)]]
    /\ UNCHANGED <<now, up, since, changes, connVars, cached, pc, started>>

(* The loop over the map of results, in whatever order the map gives. *)
StatusOf_NoBreak(checks, order) ==
    LET status[i \in 0 .. Len(order)] ==
            IF i = 0 THEN "healthy"
            ELSE IF checks[order[i]] THEN status[i - 1]
            ELSE IF order[i] \in Critical THEN "unhealthy" ELSE "degraded"
    IN  status[Len(order)]

StatusOf(checks, order) ==
    LET status[i \in 0 .. Len(order)] ==
            IF i = 0 THEN "healthy"
            ELSE IF checks[order[i]] THEN status[i - 1]
            ELSE IF status[i - 1] = "unhealthy" \/ order[i] \in Critical
            THEN "unhealthy" ELSE "degraded"
    IN  status[Len(order)]

Orders == {o \in [1 .. Cardinality(Deps) -> Deps] : \A i, j \in DOMAIN o : o[i] = o[j] => i = j}

(* wg.Wait is over: the response is cached, over whatever a concurrent      *)
(* check has cached meanwhile, and returned.                                *)
CheckEnd(r) ==
    /\ pc[r] = "checking" /\ DOMAIN seen[r] = Deps
    /\ \E order \in Orders :
         cached' = [status |-> StatusOf(seen[r], order), checks |-> seen[r], at |-> now]
    /\ pc' = [pc EXCEPT ![r] = "idle"]
    /\ started' = [started EXCEPT ![r] = 0]
    /\ seen' = [seen EXCEPT ![r] = << >>]
    /\ UNCHANGED <<now, up, since, changes, connVars>>

-----------------------------------------------------------------------------
(* The servers and the clock. *)

Change(d) ==
    /\ changes < MaxChanges
    /\ changes' = changes + 1
    /\ up' = [up EXCEPT ![d] = ~@]
    /\ since' = [since EXCEPT ![d] = now]
    /\ UNCHANGED <<now, connVars, cached, reqVars>>

Tick ==
    /\ now < MaxTime
    /\ \A m \in Monitored : \/ monitor[m] = "wait" /\ now < due[m]
                            \/ monitor[m] = "ping" /\ now < began[m] + PingTime
                            \/ monitor[m] = "connect" /\ now < began[m] + ConnectTime
    /\ \A r \in Requests : pc[r] = "checking" => now < started[r] + CheckTime
    /\ now' = now + 1
    /\ UNCHANGED <<up, since, changes, connVars, cached, reqVars>>

HealthNext ==
    \/ \E m \in Managers : Ping(m) \/ Reply(m) \/ Monitor(m) \/ connect(m) \/ Close(m)
    \/ \E r \in Requests :
          \/ CheckStart(r) \/ CheckCached(r) \/ CheckEnd(r)
          \/ \E d \in Deps : Checker(r, d)
    \/ \E d \in Deps : Change(d)
    \/ Tick

HealthSpec == HealthInit /\ [][HealthNext]_healthVars

-----------------------------------------------------------------------------
(* The longest time between the starts of two calls of a monitor: its       *)
(* interval, or a call that took longer.                                    *)
Later(a, b) == IF a < b THEN b ELSE a
Gap(m) == Later(Later(MonitorInterval, PingTime), IF m \in reconnecting THEN ConnectTime ELSE 0)

(* How old what a response says of a dependency may be: the response was    *)
(* cached for the TTL, the check took its time, and the flag it read was    *)
(* from a call that began one gap before the next ping, which had not       *)
(* returned yet.                                                            *)
Lag(d) == CacheTTL + CheckTime + IF d \in Managers THEN Gap(d) + PingTime ELSE 0

(* A response that /health gives is never wrong about a dependency for      *)
(* longer than the lag, although concurrent checks overwrite each other's   *)
(* response, the older one last (health/service.go:37).  Dependencies whose *)
(* manager has no monitor, or was closed, are left out.                     *)
ResponseFresh ==
    Fresh => \A d \in Live \cup {m \in Monitored : conn[m] = "open"} :
                cached.checks[d] # up[d] => now - since[d] < Lag(d)

(* The status is unhealthy just when a critical dependency is down, and     *)
(* healthy just when none is, whatever the order of the map                 *)
(* (health/service.go:74).                                                  *)
StatusExact ==
    cached # NoResp =>
        LET down == {d \in Deps : ~cached.checks[d]}
        IN  /\ cached.status = "unhealthy" <=> down \cap Critical # {}
            /\ cached.status = "healthy" <=> down = {}
=============================================================================
