--------------------------- MODULE Service_proofs ---------------------------
(***************************************************************************)
(* Proofs about the two components every service runs: Shutdown, for any   *)
(* set of hooks and any priorities, and Health, for any dependencies,      *)
(* requests and durations.                                                 *)
(***************************************************************************)
EXTENDS Shutdown, Health, FiniteSetTheorems, Induction

-----------------------------------------------------------------------------
(* Shutdown. *)

(* The initial state is well typed. *)
LEMMA InitType == Init => TypeOK
BY DEF Init, TypeOK

(* Every step keeps the types. *)
LEMMA NextType == TypeOK /\ [Next]_vars => TypeOK'
<1> SUFFICES ASSUME TypeOK, [Next]_vars PROVE TypeOK'
  OBVIOUS
<1>1. ASSUME NEW h \in Hooks, RegisterFunc(h) \/ HookReturns(h) \/ HookPanics(h) PROVE TypeOK'
  BY <1>1 DEF RegisterFunc, HookReturns, HookPanics, TypeOK, Ended
<1>2. ASSUME NEW v \in BOOLEAN, SetShuttingDown(v) PROVE TypeOK'
  BY <1>2 DEF SetShuttingDown, TypeOK
<1>3. CASE Signal \/ CopyHooks \/ GroupDone \/ Return \/ Timeout
  BY <1>3 DEF Signal, CopyHooks, GroupDone, Return, Timeout, TypeOK
<1>4. CASE StartGroup
  BY <1>4 DEF StartGroup, TypeOK
<1>5. CASE UNCHANGED vars
  BY <1>5 DEF vars, TypeOK
<1>6. QED
  BY <1>1, <1>2, <1>3, <1>4, <1>5 DEF Next, Wait

(* Type correctness: WaitForSignal only ever holds registered hooks. *)
THEOREM TypeCorrect == Spec => []TypeOK
BY InitType, NextType, PTL DEF Spec

-----------------------------------------------------------------------------
(* Where the hooks are.  The copied hooks split into those whose group has  *)
(* started and those still to do, and the priorities of the first are all   *)
(* smaller; between groups nothing runs.                                    *)
StartedInv ==
    /\ \A h \in Hooks : run[h] # "idle" <=> h \in copied \ todo
    /\ \A g \in copied \ todo, h \in todo : Priority[g] < Priority[h]

GroupInv ==
    /\ \A g, h \in Hooks :
        Priority[g] < Priority[h] /\ run[h] # "idle" => run[g] # "running"
    /\ waiter \in {"signal", "copy"} => copied = {} /\ todo = {}
    /\ waiter \in {"check", "returned"} => \A h \in Hooks : run[h] # "running"
    /\ waiter # "crashed" => \A h \in Hooks : run[h] # "panicked"
    /\ waiter = "returned" /\ ~expired => todo = {}

ShutdownInv == StartedInv /\ GroupInv

(* No hook has started at the beginning. *)
LEMMA InitShutdown == Init => ShutdownInv
BY DEF Init, ShutdownInv, StartedInv, GroupInv

(* Every step keeps the hooks where they belong. *)
LEMMA NextShutdown == TypeOK /\ ShutdownInv /\ [Next]_vars => ShutdownInv'
<1> SUFFICES ASSUME TypeOK, ShutdownInv, [Next]_vars PROVE ShutdownInv'
  OBVIOUS
<1> USE PriorityAssumption DEF ShutdownInv
<1>1. ASSUME NEW h \in Hooks, RegisterFunc(h) PROVE ShutdownInv'
  BY <1>1 DEF RegisterFunc, StartedInv, GroupInv
<1>2. ASSUME NEW h \in Hooks, HookReturns(h) PROVE ShutdownInv'
  <2>1. PICK r \in Ended : run' = [run EXCEPT ![h] = r]
    BY <1>2 DEF HookReturns
  <2>2. r \notin {"idle", "running", "panicked"}
    BY DEF Ended
  <2>3. StartedInv'
    BY <1>2, <2>1, <2>2 DEF HookReturns, StartedInv, TypeOK
  <2>4. GroupInv'
    BY <1>2, <2>1, <2>2 DEF HookReturns, GroupInv, TypeOK
  <2>5. QED
    BY <2>3, <2>4
<1>3. ASSUME NEW h \in Hooks, HookPanics(h) PROVE ShutdownInv'
  <2>1. StartedInv'
    BY <1>3 DEF HookPanics, StartedInv, TypeOK
  <2>2. GroupInv'
    BY <1>3 DEF HookPanics, GroupInv, TypeOK
  <2>3. QED
    BY <2>1, <2>2
<1>4. ASSUME NEW v \in BOOLEAN, SetShuttingDown(v) PROVE ShutdownInv'
  BY <1>4 DEF SetShuttingDown, StartedInv, GroupInv
<1>5. CASE CopyHooks
  BY <1>5 DEF CopyHooks, StartedInv, GroupInv, TypeOK
<1>6. CASE StartGroup
  <2> DEFINE F == FirstGroup(todo)
  <2>1. /\ waiter = "check" /\ waiter' = "wait"
        /\ run' = [h \in Hooks |-> IF h \in F THEN "running" ELSE run[h]]
        /\ todo' = todo \ F
        /\ UNCHANGED <<copied, expired>>
    BY <1>6 DEF StartGroup
  <2>2. F \subseteq todo /\ todo \subseteq copied /\ copied \subseteq Hooks
    BY DEF FirstGroup, TypeOK
  <2>3. ASSUME NEW g \in F, NEW h \in todo \ F PROVE Priority[g] < Priority[h]
    <3>1. PICK k \in todo : ~(Priority[h] <= Priority[k])
      BY DEF FirstGroup
    <3>2. Priority[g] <= Priority[k]
      BY DEF FirstGroup
    <3>3. Priority[g] \in Int /\ Priority[h] \in Int /\ Priority[k] \in Int
      BY <2>2
    <3>4. QED
      BY <3>1, <3>2, <3>3
  <2>4. ASSUME NEW g \in F, NEW h \in F PROVE ~(Priority[g] < Priority[h])
    <3>1. Priority[h] <= Priority[g]
      BY DEF FirstGroup
    <3>2. Priority[g] \in Int /\ Priority[h] \in Int
      BY <2>2
    <3>3. QED
      BY <3>1, <3>2
  <2> HIDE DEF F
  <2>5. \A g \in F, h \in copied \ todo : ~(Priority[g] < Priority[h])
    <3>1. ASSUME NEW g \in F, NEW h \in copied \ todo PROVE ~(Priority[g] < Priority[h])
      <4>1. Priority[h] < Priority[g] /\ Priority[g] \in Int /\ Priority[h] \in Int
        BY <2>2 DEF StartedInv
      <4>2. QED
        BY <4>1
    <3>2. QED
      BY <3>1
  <2>6. StartedInv'
    BY <2>1, <2>2, <2>3 DEF StartedInv
  <2>7. GroupInv'
    <3>1. ASSUME NEW g \in Hooks, NEW h \in Hooks, Priority[g] < Priority[h], run'[h] # "idle"
          PROVE  run'[g] # "running"
      <4>1. CASE g \in F
        <5>1. h \in copied \ todo \/ h \in F
          BY <2>1, <3>1 DEF StartedInv
        <5>2. QED
          BY <2>4, <2>5, <3>1, <4>1, <5>1
      <4>2. CASE g \notin F
        BY <2>1, <4>2 DEF GroupInv
      <4>3. QED
        BY <4>1, <4>2
    <3>2. QED
      BY <2>1, <3>1 DEF GroupInv
  <2>8. QED
    BY <2>6, <2>7
<1>7. CASE Signal \/ GroupDone \/ Return \/ Timeout
  <2>1. UNCHANGED <<copied, todo, run>>
    BY <1>7 DEF Signal, GroupDone, Return, Timeout
  <2>2. StartedInv'
    BY <2>1 DEF StartedInv
  <2>3. GroupInv'
    BY <1>7, <2>1 DEF Signal, GroupDone, Return, Timeout, GroupInv
  <2>4. QED
    BY <2>2, <2>3
<1>8. CASE UNCHANGED vars
  BY <1>8 DEF vars, StartedInv, GroupInv
<1>9. QED
  BY <1>1, <1>2, <1>3, <1>4, <1>5, <1>6, <1>7, <1>8 DEF Next, Wait

(* ShutdownInv holds in every state of WaitForSignal (methods.go). *)
LEMMA ShutdownInvariant == Spec => [](TypeOK /\ ShutdownInv)
<1>1. TypeOK /\ ShutdownInv /\ [Next]_vars => (TypeOK /\ ShutdownInv)'
  BY NextType, NextShutdown
<1>2. QED
  BY <1>1, InitType, InitShutdown, PTL DEF Spec

(* Hooks run in the order of their priorities, whatever fails, panics or    *)
(* times out (methods.go WaitForSignal, internals.go groupByPriority).      *)
THEOREM HooksInOrder == Spec => []PriorityOrder
<1>1. TypeOK /\ ShutdownInv => PriorityOrder
  <2> SUFFICES ASSUME TypeOK, ShutdownInv, NEW g \in Hooks, NEW h \in Hooks,
                      Priority[g] < Priority[h], run[h] # "idle"
               PROVE  run[g] # "running" /\ g \notin todo
    BY DEF PriorityOrder
  <2>1. ASSUME g \in todo PROVE FALSE
    <3>1. Priority[h] < Priority[g]
      BY <2>1 DEF ShutdownInv, StartedInv
    <3>2. QED
      BY <3>1, PriorityAssumption
  <2>2. QED
    BY <2>1 DEF ShutdownInv, GroupInv
<1>2. QED
  BY <1>1, ShutdownInvariant, PTL

(* A hook never waits for another of its own priority (methods.go           *)
(* WaitForSignal, internals.go groupByPriority).                            *)
THEOREM GroupsTogether == Spec => []GroupsStartTogether
<1>1. TypeOK /\ ShutdownInv => GroupsStartTogether
  <2> SUFFICES ASSUME TypeOK, ShutdownInv, NEW g \in Hooks, NEW h \in Hooks,
                      Priority[g] = Priority[h], run[h] # "idle", g \in todo
               PROVE  FALSE
    BY DEF GroupsStartTogether
  <2>1. Priority[h] < Priority[g]
    BY DEF ShutdownInv, StartedInv
  <2>2. QED
    BY <2>1, PriorityAssumption
<1>2. QED
  BY <1>1, ShutdownInvariant, PTL

(* Unless the deadline passed, WaitForSignal returns only when every hook   *)
(* it copied has ended, failed ones included (methods.go WaitForSignal).    *)
THEOREM NoHookSkipped == Spec => []NothingSkipped
<1>1. TypeOK /\ ShutdownInv => NothingSkipped
  BY DEF TypeOK, ShutdownInv, StartedInv, GroupInv, NothingSkipped, Ended
<1>2. QED
  BY <1>1, ShutdownInvariant, PTL

-----------------------------------------------------------------------------
(* Health: the loop of Service.Check over the results. *)

(* What the status is after the first i results. *)
StatusAfter(checks, order, i) ==
    IF \E j \in 1 .. i : ~checks[order[j]] /\ order[j] \in Critical THEN "unhealthy"
    ELSE IF \E j \in 1 .. i : ~checks[order[j]] THEN "degraded" ELSE "healthy"

(* One more result changes the status as the loop's body does. *)
LEMMA StatusStep ==
    ASSUME NEW n \in Nat, NEW checks \in [Deps -> BOOLEAN], NEW order \in [1 .. n -> Deps],
           NEW i \in 1 .. n
    PROVE  StatusAfter(checks, order, i) =
               LET before == StatusAfter(checks, order, i - 1)
               IN  IF i = 0 THEN "healthy"
                   ELSE IF checks[order[i]] THEN before
                   ELSE IF before = "unhealthy" \/ order[i] \in Critical
                   THEN "unhealthy" ELSE "degraded"
<1>1. \A j \in 1 .. i : j \in 1 .. i - 1 \/ j = i
  OBVIOUS
<1>2. 1 .. i - 1 \subseteq 1 .. i /\ i \in 1 .. i
  OBVIOUS
<1>3. i > 0 /\ i # 0
  OBVIOUS
<1>4. (\E j \in 1 .. i : ~checks[order[j]]) <=>
          (\E j \in 1 .. i - 1 : ~checks[order[j]]) \/ ~checks[order[i]]
  BY <1>1, <1>2
<1>5. (\E j \in 1 .. i : ~checks[order[j]] /\ order[j] \in Critical) <=>
          \/ \E j \in 1 .. i - 1 : ~checks[order[j]] /\ order[j] \in Critical
          \/ ~checks[order[i]] /\ order[i] \in Critical
  BY <1>1, <1>2
<1>6. CASE ~checks[order[i]] /\ order[i] \in Critical
  BY <1>3, <1>5, <1>6 DEF StatusAfter
<1>7. CASE ~checks[order[i]] /\ order[i] \notin Critical
  <2> DEFINE before == StatusAfter(checks, order, i - 1)
  <2>1. CASE \E j \in 1 .. i - 1 : ~checks[order[j]] /\ order[j] \in Critical
    <3>1. before = "unhealthy" /\ StatusAfter(checks, order, i) = "unhealthy"
      BY <1>5, <2>1 DEF StatusAfter
    <3>2. QED
      BY <1>3, <3>1
  <2>2. CASE ~ \E j \in 1 .. i - 1 : ~checks[order[j]] /\ order[j] \in Critical
    <3>1. before # "unhealthy" /\ StatusAfter(checks, order, i) = "degraded"
      BY <1>4, <1>5, <1>7, <2>2 DEF StatusAfter
    <3>2. QED
      BY <1>3, <1>7, <3>1
  <2>3. QED
    BY <2>1, <2>2
<1>8. CASE checks[order[i]]
  BY <1>3, <1>4, <1>5, <1>8 DEF StatusAfter
<1>9. QED
  BY <1>6, <1>7, <1>8

(* So the loop computes it. *)
LEMMA StatusComputed ==
    ASSUME NEW n \in Nat, NEW checks \in [Deps -> BOOLEAN], NEW order \in [1 .. n -> Deps]
    PROVE  StatusOf(checks, order) = StatusAfter(checks, order, n)
<1>1. Len(order) = n
  BY SeqOfFun
<1> DEFINE Body(f) ==
      [i \in 0 .. Len(order) |->
          IF i = 0 THEN "healthy"
          ELSE IF checks[order[i]] THEN f[i - 1]
          ELSE IF f[i - 1] = "unhealthy" \/ order[i] \in Critical
          THEN "unhealthy" ELSE "degraded"]
    g == [i \in 0 .. Len(order) |-> StatusAfter(checks, order, i)]
    status == CHOOSE f : f = Body(f)
<1>2. g = Body(g)
  <2> USE <1>1
  <2>1. ASSUME NEW i \in 0 .. n PROVE g[i] = Body(g)[i]
    <3>1. CASE i = 0
      <4>1. StatusAfter(checks, order, 0) = "healthy"
        BY DEF StatusAfter
      <4>2. QED
        BY <3>1, <4>1
    <3>2. CASE i # 0
      <4>1. i \in 1 .. n /\ i - 1 \in 0 .. n
        BY <3>2
      <4>2. g[i - 1] = StatusAfter(checks, order, i - 1) /\ g[i] = StatusAfter(checks, order, i)
        BY <4>1
      <4> HIDE DEF g
      <4>3. QED
        BY <4>1, <4>2, StatusStep
    <3>3. QED
      BY <3>1, <3>2
  <2>2. QED
    BY <2>1
<1>3. status = Body(status)
  <2> HIDE DEF Body, g
  <2>1. QED
    BY <1>2
<1> DEFINE S == {i \in 0 .. n : status[i] = g[i]}
<1>4. 0 \in S
  <2>1. status[0] = Body(status)[0] /\ g[0] = Body(g)[0]
    BY <1>1, <1>2, <1>3
  <2> HIDE DEF status, g
  <2>2. status[0] = "healthy" /\ g[0] = "healthy"
    BY <2>1
  <2>3. QED
    BY <2>2
<1>5. ASSUME NEW i \in 0 .. n - 1, i \in S PROVE i + 1 \in S
  <2>1. status[i + 1] = Body(status)[i + 1] /\ g[i + 1] = Body(g)[i + 1]
    BY <1>1, <1>2, <1>3
  <2> HIDE DEF status, g
  <2>2. i + 1 \in 0 .. n /\ (i + 1) - 1 = i /\ status[i] = g[i]
    BY <1>5
  <2>3. QED
    BY <2>1, <2>2
<1>6. n \in S
  <2> HIDE DEF S
  <2>1. 0 .. n \subseteq S
    BY <1>4, <1>5, UpTo
  <2>2. QED
    BY <2>1
<1>7. StatusOf(checks, order) = status[Len(order)]
  BY DEF StatusOf
<1>8. status[n] = g[n] /\ g[n] = StatusAfter(checks, order, n)
  BY <1>1, <1>6
<1>9. QED
  BY <1>1, <1>7, <1>8

(* Every order of the results has each of them. *)
LEMMA OrderCovers ==
    ASSUME NEW order \in Orders, NEW d \in Deps
    PROVE  \E i \in 1 .. Cardinality(Deps) : order[i] = d
<1>1. IsFiniteSet(Deps) /\ Cardinality(Deps) \in Nat
  BY HealthAssumption, FS_CardinalityType
<1> DEFINE n == Cardinality(Deps)
<1>2. IsFiniteSet(1 .. n) /\ Cardinality(1 .. n) = n
  BY <1>1, FS_Interval
<1>3. order \in Injection(1 .. n, Deps)
  BY DEF Orders, Injection, IsInjective
<1>4. order \in Surjection(1 .. n, Deps)
  BY <1>1, <1>2, <1>3, FS_Injection
<1>5. QED
  BY <1>4 DEF Surjection

(* The status that CheckEnd caches is exact for the results, in any order.  *)
LEMMA StatusIsExact ==
    ASSUME NEW checks \in [Deps -> BOOLEAN], NEW order \in Orders
    PROVE  LET down == {d \in Deps : ~checks[d]}
           IN  /\ StatusOf(checks, order) = "unhealthy" <=> down \cap Critical # {}
               /\ StatusOf(checks, order) = "healthy" <=> down = {}
<1> DEFINE n == Cardinality(Deps)
<1>1. n \in Nat /\ order \in [1 .. n -> Deps]
  BY HealthAssumption, FS_CardinalityType DEF Orders
<1> HIDE DEF n
<1>2. StatusOf(checks, order) = StatusAfter(checks, order, n)
  BY <1>1, StatusComputed
<1>3. \A d \in Deps : \E j \in 1 .. n : order[j] = d
  BY OrderCovers DEF n
<1>4. (\E j \in 1 .. n : ~checks[order[j]]) <=> {d \in Deps : ~checks[d]} # {}
  BY <1>1, <1>3
<1>5. (\E j \in 1 .. n : ~checks[order[j]] /\ order[j] \in Critical)
          <=> {d \in Deps : ~checks[d]} \cap Critical # {}
  BY <1>1, <1>3, HealthAssumption
<1>6. {d \in Deps : ~checks[d]} = {} => {d \in Deps : ~checks[d]} \cap Critical = {}
  OBVIOUS
<1>7. QED
  BY <1>2, <1>4, <1>5, <1>6 DEF StatusAfter

-----------------------------------------------------------------------------
(* The clock and what is measured on it. *)

HealthType ==
    /\ now \in Nat /\ since \in [Deps -> Nat] /\ up \in [Deps -> BOOLEAN]
    /\ conn \in [Managers -> {"open", "closed", "reopened"}]
    /\ isConnected \in [Managers -> BOOLEAN]
    /\ due \in [Managers -> Nat] /\ monitor \in [Managers -> {"wait", "ping", "connect"}]
    /\ began \in [Managers -> Nat] /\ reply \in [Managers -> {"none", "ok", "failed"}]
    /\ pc \in [Requests -> {"idle", "checking"}] /\ started \in [Requests -> Nat]
    /\ DOMAIN seen = Requests
    /\ \A r \in Requests : \E S \in SUBSET Deps : seen[r] \in [S -> BOOLEAN]
    /\ cached # NoResp => cached.checks \in [Deps -> BOOLEAN] /\ cached.at \in Nat

(* A call of a monitor never takes longer than its timeout, and a check     *)
(* never longer than CheckTime.                                             *)
CallInv(m) ==
    /\ due[m] - MonitorInterval <= now
    /\ monitor[m] # "wait" => began[m] <= now /\ due[m] <= began[m] + MonitorInterval
    /\ monitor[m] = "ping" => now <= began[m] + PingTime
    /\ monitor[m] = "connect" => now <= began[m] + ConnectTime /\ m \in reconnecting

ClockInv ==
    /\ \A d \in Deps : since[d] <= now
    /\ \A m \in Monitored : CallInv(m)
    /\ \A r \in Requests : pc[r] = "checking" =>
          started[r] <= now /\ now <= started[r] + CheckTime
    /\ cached # NoResp => cached.at <= now

(* How long ago a flag that is wrong may have become so, at each step of    *)
(* the monitor.                                                             *)
FlagInv(m) ==
    conn[m] = "open" /\ isConnected[m] # up[m] =>
        /\ monitor[m] = "wait" => /\ since[m] >= due[m] - MonitorInterval
                                  /\ now <= due[m] \/ since[m] >= now - Gap(m)
        /\ monitor[m] = "ping" => since[m] >= began[m] - Gap(m)
        /\ monitor[m] = "connect" => since[m] >= began[m] - PingTime

(* A reply that is wrong became so during the call. *)
ReplyInv(m) ==
    conn[m] = "open" /\ monitor[m] # "wait" =>
        /\ reply[m] = "ok" /\ ~up[m] => since[m] >= began[m]
        /\ reply[m] = "failed" /\ up[m] => since[m] >= began[m]

MonitorInv == \A m \in Monitored : FlagInv(m) /\ ReplyInv(m)

(* The dependencies whose answers are watched by a ping or a monitor, and   *)
(* how old an answer is when a checker reads it.                            *)
Watched == Live \cup {m \in Monitored : conn[m] = "open"}
Age(d) == IF d \in Managers THEN Gap(d) + PingTime ELSE 0

(* An answer, or a cached answer, that is wrong became so after the check   *)
(* began, or after the check of the cached response began, but for its age. *)
AnswerInv ==
    /\ \A r \in Requests : pc[r] = "checking" =>
          \A d \in Watched \cap DOMAIN seen[r] :
              seen[r][d] # up[d] => since[d] >= started[r] - Age(d)
    /\ cached # NoResp =>
          \A d \in Watched : cached.checks[d] # up[d] => since[d] >= cached.at - CheckTime - Age(d)

(* The gap covers the interval and every call. *)
LEMMA GapCovers ==
    ASSUME NEW m
    PROVE  /\ Gap(m) \in Nat /\ MonitorInterval <= Gap(m) /\ PingTime <= Gap(m)
           /\ m \in reconnecting => ConnectTime <= Gap(m)
BY HealthAssumption DEF Gap, Later

HealthInv == HealthType /\ ClockInv /\ MonitorInv /\ AnswerInv /\ StatusExact

LEMMA InitHealth == HealthInit => HealthInv
<1> SUFFICES ASSUME HealthInit PROVE HealthInv
  OBVIOUS
<1>1. HealthType
  <2>1. {} \in SUBSET Deps /\ << >> \in [{} -> BOOLEAN]
    OBVIOUS
  <2>2. DOMAIN seen = Requests /\ \A r \in Requests : \E S \in SUBSET Deps : seen[r] \in [S -> BOOLEAN]
    BY <2>1 DEF HealthInit
  <2>3. QED
    BY <2>2, HealthAssumption DEF HealthInit, NewManagers, HealthType
<1>2. ClockInv
  BY HealthAssumption DEF HealthInit, NewManagers, ClockInv, CallInv
<1>3. AnswerInv /\ StatusExact
  BY HealthAssumption DEF HealthInit, AnswerInv, StatusExact
<1>4. MonitorInv
  BY HealthAssumption DEF HealthInit, NewManagers, MonitorInv, FlagInv, ReplyInv, Deps
<1>5. QED
  BY <1>1, <1>2, <1>3, <1>4 DEF HealthInv

(* What a finished check caches. *)
LEMMA EndStep ==
    ASSUME HealthType, NEW r \in Requests, CheckEnd(r)
    PROVE  /\ cached'.checks = seen[r] /\ cached'.at = now /\ seen[r] \in [Deps -> BOOLEAN]
           /\ \E order \in Orders : cached'.status = StatusOf(seen[r], order)
<1>1. DOMAIN seen[r] = Deps /\ \E S \in SUBSET Deps : seen[r] \in [S -> BOOLEAN]
  BY DEF CheckEnd, HealthType
<1>2. PICK order \in Orders :
          cached' = [status |-> StatusOf(seen[r], order), checks |-> seen[r], at |-> now]
  BY DEF CheckEnd
<1>3. cached'.status = StatusOf(seen[r], order) /\ cached'.checks = seen[r] /\ cached'.at = now
  BY <1>2
<1>4. seen[r] \in [Deps -> BOOLEAN]
  BY <1>1
<1>5. QED
  BY <1>3, <1>4

(* The steps of a manager and of its monitor. *)
ManagerStep(m) == Ping(m) \/ Reply(m) \/ Monitor(m) \/ connect(m) \/ Close(m)

LEMMA NextHealthType == HealthType /\ [HealthNext]_healthVars => HealthType'
<1> SUFFICES ASSUME HealthType, [HealthNext]_healthVars PROVE HealthType'
  OBVIOUS
<1>h. /\ CacheTTL \in Nat /\ CheckTime \in Nat /\ MonitorInterval \in Nat
      /\ PingTime \in Nat /\ ConnectTime \in Nat
      /\ Monitored \subseteq Managers /\ Managers \subseteq Deps
  BY HealthAssumption DEF Deps
<1>1. ASSUME NEW m \in Managers, ManagerStep(m) PROVE HealthType'
  <2> USE DEF ManagerStep
  <2>1. UNCHANGED <<now, since, up, cached, pc, started, seen>>
    BY <1>1 DEF Ping, Reply, Monitor, connect, Close, reqVars
  <2>2. conn' \in [Managers -> {"open", "closed", "reopened"}]
    BY <1>1 DEF Ping, Reply, Monitor, connect, Close, HealthType
  <2>3. due' \in [Managers -> Nat]
    <3>1. ASSUME Ping(m) PROVE due' \in [Managers -> Nat]
      <4>1. PICK d \in now + 1 .. now + MonitorInterval : due' = [due EXCEPT ![m] = d]
        BY <3>1 DEF Ping
      <4>2. d \in Nat
        BY <1>h DEF HealthType
      <4>3. QED
        BY <4>1, <4>2 DEF HealthType
    <3>2. QED
      BY <1>1, <3>1 DEF Reply, Monitor, connect, Close, HealthType
  <2>4. /\ monitor' \in [Managers -> {"wait", "ping", "connect"}]
        /\ began' \in [Managers -> Nat] /\ reply' \in [Managers -> {"none", "ok", "failed"}]
    BY <1>1 DEF Ping, Reply, Monitor, connect, Close, Begin, HealthType
  <2>5. isConnected' \in [Managers -> BOOLEAN]
    <3>1. isConnected[m] \in BOOLEAN
      BY DEF HealthType
    <3>2. UNCHANGED isConnected \/ \E b \in BOOLEAN : isConnected' = [isConnected EXCEPT ![m] = b]
      BY <1>1, <3>1 DEF Ping, Reply, Monitor, connect, Close, Returned
    <3>3. QED
      BY <3>2 DEF HealthType
  <2>6. QED
    BY <2>1, <2>2, <2>3, <2>4, <2>5 DEF HealthType
<1>2. ASSUME NEW r \in Requests, CheckStart(r) PROVE HealthType'
  <2>1. DOMAIN seen' = Requests /\ seen'[r] \in [{} -> BOOLEAN] /\ \A q \in Requests \ {r} : seen'[q] = seen[q]
    BY <1>2 DEF CheckStart, HealthType
  <2>2. \A q \in Requests : \E S \in SUBSET Deps : seen'[q] \in [S -> BOOLEAN]
    BY <2>1 DEF HealthType
  <2>3. QED
    BY <1>2, <2>1, <2>2 DEF CheckStart, HealthType, connVars
<1>3. ASSUME NEW r \in Requests, NEW d \in Deps, Checker(r, d) PROVE HealthType'
  <2>1. PICK S \in SUBSET Deps : seen[r] \in [S -> BOOLEAN]
    BY DEF HealthType
  <2>2. (d \in Managers => FlagCheck(d) \in BOOLEAN) /\ PingCheck(d) \in BOOLEAN
    BY DEF FlagCheck, PingCheck, HealthType
  <2>3. seen'[r] \in [S \cup {d} -> BOOLEAN]
    BY <1>3, <2>1, <2>2 DEF Checker, HealthType
  <2>4. DOMAIN seen' = Requests /\ \A q \in Requests \ {r} : seen'[q] = seen[q]
    BY <1>3 DEF Checker, HealthType
  <2>5. \A q \in Requests : \E T \in SUBSET Deps : seen'[q] \in [T -> BOOLEAN]
    BY <2>1, <2>3, <2>4 DEF HealthType
  <2>6. QED
    BY <1>3, <2>4, <2>5 DEF Checker, HealthType, connVars
<1>4. ASSUME NEW r \in Requests, CheckEnd(r) PROVE HealthType'
  <2>1. cached'.checks \in [Deps -> BOOLEAN] /\ cached'.at \in Nat
    BY <1>4, EndStep DEF HealthType
  <2>2. DOMAIN seen' = Requests /\ seen'[r] \in [{} -> BOOLEAN] /\ \A q \in Requests \ {r} : seen'[q] = seen[q]
    BY <1>4 DEF CheckEnd, HealthType
  <2>3. \A q \in Requests : \E S \in SUBSET Deps : seen'[q] \in [S -> BOOLEAN]
    BY <2>2 DEF HealthType
  <2>4. QED
    BY <1>4, <2>1, <2>2, <2>3 DEF CheckEnd, HealthType, connVars
<1>5. ASSUME NEW d \in Deps, Change(d) PROVE HealthType'
  BY <1>5 DEF Change, HealthType, connVars, reqVars
<1>6. CASE Tick
  BY <1>6 DEF Tick, HealthType, connVars, reqVars
<1>7. CASE UNCHANGED healthVars
  BY <1>7 DEF healthVars, HealthType, connVars, reqVars
<1>8. QED
  BY <1>1, <1>2, <1>3, <1>4, <1>5, <1>6, <1>7 DEF HealthNext, ManagerStep, CheckCached

(* Time passes only while no call of a monitor and no check is due to end.  *)
LEMMA NextClock == HealthType /\ ClockInv /\ [HealthNext]_healthVars => ClockInv'
<1> SUFFICES ASSUME HealthType, ClockInv, [HealthNext]_healthVars PROVE ClockInv'
  OBVIOUS
<1>h. /\ CacheTTL \in Nat /\ CheckTime \in Nat /\ MonitorInterval \in Nat
      /\ PingTime \in Nat /\ ConnectTime \in Nat
      /\ Monitored \subseteq Managers /\ Managers \subseteq Deps
  BY HealthAssumption DEF Deps
<1>c. ASSUME UNCHANGED <<now, due, monitor, began, reconnecting>> PROVE \A m \in Monitored : CallInv(m)'
  BY <1>c DEF ClockInv, CallInv
<1>1. ASSUME NEW m \in Managers, ManagerStep(m) PROVE ClockInv'
  <2> USE DEF ManagerStep
  <2>1. UNCHANGED <<now, since, pc, started, cached, reconnecting>>
    BY <1>1 DEF Ping, Reply, Monitor, connect, Close, reqVars
  <2>2. ASSUME NEW k \in Monitored PROVE CallInv(k)'
    <3>1. CallInv(k) /\ k \in Managers
      BY <1>h DEF ClockInv
    <3>2. CASE k # m
      <4>1. monitor'[k] = monitor[k] /\ due'[k] = due[k] /\ began'[k] = began[k]
        BY <1>1, <3>1, <3>2 DEF Ping, Reply, Monitor, connect, Close, Begin, HealthType
      <4>2. QED
        BY <2>1, <3>1, <4>1 DEF CallInv
    <3>3. CASE k = m /\ Ping(m)
      <4>1. PICK d \in now + 1 .. now + MonitorInterval : due' = [due EXCEPT ![m] = d]
        BY <3>3 DEF Ping
      <4>2. due'[m] = d /\ monitor'[m] = "ping" /\ began'[m] = now /\ now \in Nat
        BY <3>3, <4>1 DEF Ping, Begin, HealthType
      <4>3. QED
        BY <1>h, <2>1, <3>3, <4>1, <4>2 DEF CallInv
    <3>4. CASE k = m /\ Monitor(m)
      <4>1. due' = due /\ due[m] \in Nat /\ now \in Nat
        BY <3>4 DEF Monitor, HealthType
      <4>2. CASE reply[m] = "failed" /\ m \in reconnecting
        <5>1. monitor' = [monitor EXCEPT ![m] = "connect"] /\ began' = [began EXCEPT ![m] = now]
          BY <3>4, <4>2 DEF Monitor, Begin
        <5>2. monitor'[m] = "connect" /\ began'[m] = now
          BY <5>1 DEF HealthType
        <5>3. QED
          BY <1>h, <2>1, <3>1, <3>4, <4>1, <4>2, <5>2 DEF CallInv
      <4>3. CASE ~(reply[m] = "failed" /\ m \in reconnecting)
        <5>1. monitor' = [monitor EXCEPT ![m] = "wait"]
          BY <3>4, <4>3 DEF Monitor, Begin
        <5>2. monitor'[m] = "wait"
          BY <5>1 DEF HealthType
        <5>3. QED
          BY <2>1, <3>1, <3>4, <4>1, <5>2 DEF CallInv
      <4>4. QED
        BY <4>2, <4>3
    <3>5. CASE k = m /\ connect(m)
      <4>1. monitor'[m] = "wait" /\ due' = due
        BY <3>5 DEF connect, Begin, HealthType
      <4>2. QED
        BY <2>1, <3>1, <3>5, <4>1 DEF CallInv
    <3>6. CASE Reply(m) \/ Close(m)
      BY <2>1, <3>1, <3>6 DEF Reply, Close, CallInv
    <3>7. QED
      BY <1>1, <3>2, <3>3, <3>4, <3>5, <3>6
  <2>3. QED
    BY <2>1, <2>2 DEF ClockInv
<1>2. ASSUME NEW r \in Requests, CheckStart(r) PROVE ClockInv'
  BY <1>2, <1>h, <1>c DEF CheckStart, HealthType, ClockInv, connVars
<1>3. ASSUME NEW r \in Requests, NEW d \in Deps, Checker(r, d) PROVE ClockInv'
  BY <1>3, <1>h, <1>c DEF Checker, HealthType, ClockInv, connVars
<1>4. ASSUME NEW r \in Requests, CheckEnd(r) PROVE ClockInv'
  <2>1. cached'.at = now
    BY <1>4, EndStep
  <2>2. QED
    BY <1>4, <1>h, <1>c, <2>1 DEF CheckEnd, HealthType, ClockInv, connVars
<1>5. ASSUME NEW d \in Deps, Change(d) PROVE ClockInv'
  BY <1>5, <1>h, <1>c DEF Change, HealthType, ClockInv, connVars, reqVars
<1>6. CASE Tick
  <2>1. now' = now + 1 /\ UNCHANGED <<since, connVars, cached, reqVars>>
    BY <1>6 DEF Tick
  <2>2. ASSUME NEW m \in Monitored PROVE CallInv(m)'
    <3>1. CallInv(m) /\ m \in Managers /\ now \in Nat /\ due[m] \in Nat /\ began[m] \in Nat
      BY <1>h DEF ClockInv, HealthType
    <3>2. \/ monitor[m] = "wait" /\ now < due[m]
          \/ monitor[m] = "ping" /\ now < began[m] + PingTime
          \/ monitor[m] = "connect" /\ now < began[m] + ConnectTime
      BY <1>6 DEF Tick
    <3>3. QED
      BY <1>h, <2>1, <3>1, <3>2 DEF CallInv, connVars
  <2>3. QED
    BY <1>6, <1>h, <2>1, <2>2 DEF Tick, HealthType, ClockInv, connVars, reqVars
<1>7. CASE UNCHANGED healthVars
  BY <1>7, <1>c DEF healthVars, ClockInv, connVars, reqVars
<1>8. QED
  BY <1>1, <1>2, <1>3, <1>4, <1>5, <1>6, <1>7 DEF HealthNext, ManagerStep, CheckCached

(* A manager that was closed is not watched again.                          *)
LEMMA WatchedShrinks == HealthType /\ [HealthNext]_healthVars => Watched' \subseteq Watched
<1> SUFFICES ASSUME HealthType, [HealthNext]_healthVars, NEW m \in Monitored, conn'[m] = "open"
             PROVE  conn[m] = "open"
  BY DEF Watched
<1>0. m \in Managers
  BY HealthAssumption
<1>1. ASSUME NEW k \in Managers, ManagerStep(k) PROVE conn[m] = "open"
  BY <1>0, <1>1 DEF ManagerStep, Ping, Reply, Monitor, connect, Close, HealthType
<1>2. CASE UNCHANGED conn
  BY <1>2
<1>3. QED
  BY <1>1, <1>2 DEF HealthNext, ManagerStep, CheckCached, CheckStart, Checker, CheckEnd, Change,
                    Tick, healthVars, connVars

(* The lags do not change. *)
LEMMA SameGaps ==
    ASSUME [HealthNext]_healthVars PROVE /\ \A m \in Managers : Gap(m)' = Gap(m)
                                         /\ \A d \in Deps : Age(d)' = Age(d)
<1>1. reconnecting' = reconnecting
  BY DEF HealthNext, Ping, Reply, Monitor, connect, Close, CheckCached, CheckStart, Checker, CheckEnd,
         Change, Tick, healthVars, connVars
<1>2. QED
  BY <1>1 DEF Gap, Age

LEMMA NextMonitor == HealthInv /\ [HealthNext]_healthVars => MonitorInv'
<1> SUFFICES ASSUME HealthInv, [HealthNext]_healthVars, NEW k \in Monitored
             PROVE  FlagInv(k)' /\ ReplyInv(k)'
  BY DEF MonitorInv
<1>h. /\ MonitorInterval \in Nat /\ PingTime \in Nat /\ ConnectTime \in Nat /\ k \in Managers /\ k \in Deps
  BY HealthAssumption DEF Deps
<1>t. HealthType /\ CallInv(k) /\ FlagInv(k) /\ ReplyInv(k)
  BY DEF HealthInv, ClockInv, MonitorInv
<1>n. /\ now \in Nat /\ since[k] \in Nat /\ due[k] \in Nat /\ began[k] \in Nat
      /\ monitor[k] \in {"wait", "ping", "connect"} /\ since[k] <= now
  BY <1>h, <1>t DEF HealthType, HealthInv, ClockInv
<1>g. /\ Gap(k)' = Gap(k) /\ Gap(k) \in Nat /\ MonitorInterval <= Gap(k) /\ PingTime <= Gap(k)
      /\ k \in reconnecting => ConnectTime <= Gap(k)
  BY <1>h, SameGaps, GapCovers
<1>o. ASSUME conn'[k] = "open" PROVE conn[k] = "open"
  BY <1>o, <1>t, WatchedShrinks, HealthAssumption DEF Watched
<1>1. CASE /\ UNCHANGED now
           /\ conn'[k] = "open" => conn[k] = "open" /\ isConnected'[k] = isConnected[k]
           /\ monitor'[k] = monitor[k] /\ due'[k] = due[k] /\ began'[k] = began[k] /\ reply'[k] = reply[k]
           /\ up'[k] = up[k] /\ since'[k] = since[k]
  <2>1. FlagInv(k)'
    BY <1>1, <1>g, <1>t DEF FlagInv
  <2>2. ReplyInv(k)'
    BY <1>1, <1>t DEF ReplyInv
  <2>3. QED
    BY <2>1, <2>2
<1>2. ASSUME Ping(k) PROVE FlagInv(k)' /\ ReplyInv(k)'
  <2>1. /\ UNCHANGED <<now, up, since, conn, isConnected>> /\ monitor[k] = "wait" /\ now >= due[k]
        /\ monitor'[k] = "ping" /\ began'[k] = now /\ reply'[k] = "none"
    BY <1>2, <1>h, <1>t DEF Ping, Begin, HealthType
  <2>2. ASSUME conn[k] = "open", isConnected[k] # up[k] PROVE since[k] >= now - Gap(k)
    <3>1. since[k] >= due[k] - MonitorInterval /\ (now <= due[k] \/ since[k] >= now - Gap(k))
      BY <1>t, <2>1, <2>2 DEF FlagInv
    <3>2. QED
      BY <1>h, <1>n, <1>g, <2>1, <3>1
  <2>3. QED
    BY <1>g, <2>1, <2>2 DEF FlagInv, ReplyInv
<1>3. ASSUME Reply(k) PROVE FlagInv(k)' /\ ReplyInv(k)'
  <2>1. /\ UNCHANGED <<now, up, since, conn, isConnected, due, monitor, began>>
        /\ reply'[k] = IF up[k] /\ (monitor[k] = "ping" => conn[k] # "closed") THEN "ok" ELSE "failed"
    BY <1>3, <1>h, <1>t DEF Reply, HealthType
  <2>2. FlagInv(k)'
    BY <1>g, <1>t, <2>1 DEF FlagInv
  <2>3. ReplyInv(k)'
    BY <2>1 DEF ReplyInv
  <2>4. QED
    BY <2>2, <2>3
<1>4. ASSUME Monitor(k) \/ connect(k) PROVE FlagInv(k)' /\ ReplyInv(k)'
  <2>a. /\ UNCHANGED <<now, up, since, due>> /\ monitor[k] # "wait" /\ reply[k] \in {"ok", "failed"}
        /\ isConnected' = [isConnected EXCEPT ![k] = (reply[k] = "ok")]
    BY <1>4, <1>h, <1>t DEF Monitor, connect, Returned, HealthType
  <2>b. reply'[k] = "none"
    BY <1>4, <1>h, <1>t DEF Monitor, connect, Begin, HealthType
  <2>c. \/ monitor'[k] = "wait"
        \/ monitor[k] = "ping" /\ monitor'[k] = "connect" /\ began'[k] = now
    <3>1. \/ monitor' = [monitor EXCEPT ![k] = "wait"]
          \/ /\ monitor[k] = "ping" /\ monitor' = [monitor EXCEPT ![k] = "connect"]
             /\ began' = [began EXCEPT ![k] = now]
      BY <1>4 DEF Monitor, connect, Begin
    <3>2. CASE monitor' = [monitor EXCEPT ![k] = "wait"]
      <4>1. monitor'[k] = "wait"
        BY <1>h, <1>t, <3>2 DEF HealthType
      <4>2. QED
        BY <4>1
    <3>3. CASE /\ monitor[k] = "ping" /\ monitor' = [monitor EXCEPT ![k] = "connect"]
               /\ began' = [began EXCEPT ![k] = now]
      BY <1>h, <1>t, <3>3 DEF HealthType
    <3>4. QED
      BY <3>1, <3>2, <3>3
  <2>1. /\ UNCHANGED <<now, up, since, due>> /\ monitor[k] # "wait" /\ reply'[k] = "none"
        /\ \/ monitor'[k] = "wait"
           \/ monitor[k] = "ping" /\ monitor'[k] = "connect" /\ began'[k] = now
    BY <2>a, <2>b, <2>c
  <2>d. isConnected'[k] = (reply[k] = "ok")
    BY <1>h, <1>t, <2>a DEF HealthType
  <2>2. up[k] \in BOOLEAN
    BY <1>h, <1>t DEF HealthType
  <2>3. ASSUME conn'[k] = "open", isConnected'[k] # up[k] PROVE since[k] >= began[k]
    <3>1. \/ reply[k] = "ok" /\ ~up[k]
          \/ reply[k] = "failed" /\ up[k]
      <4>1. CASE reply[k] = "ok"
        <5>1. isConnected'[k] = TRUE
          BY <2>d, <4>1, Zenon
        <5>2. QED
          BY <2>2, <2>3, <4>1, <5>1
      <4>2. CASE reply[k] = "failed"
        BY <2>2, <2>3, <2>d, <4>2
      <4>3. QED
        BY <2>a, <4>1, <4>2
    <3>2. QED
      BY <1>o, <1>t, <2>1, <2>3, <3>1 DEF ReplyInv
  <2>4. ASSUME since[k] >= began[k]
        PROVE  /\ since[k] >= due[k] - MonitorInterval /\ since[k] >= now - Gap(k)
               /\ monitor[k] = "ping" => since[k] >= now - PingTime
    BY <1>h, <1>n, <1>g, <1>t, <2>1, <2>4 DEF CallInv
  <2>5. FlagInv(k)'
    BY <1>g, <2>1, <2>3, <2>4 DEF FlagInv
  <2>6. ReplyInv(k)'
    BY <2>1 DEF ReplyInv
  <2>7. QED
    BY <2>5, <2>6
<1>5. ASSUME NEW m \in Managers, ManagerStep(m) PROVE FlagInv(k)' /\ ReplyInv(k)'
  <2>1. CASE m # k
    <3>1. /\ UNCHANGED <<now, up, since>>
          /\ monitor'[k] = monitor[k] /\ due'[k] = due[k] /\ began'[k] = began[k] /\ reply'[k] = reply[k]
          /\ isConnected'[k] = isConnected[k]
      BY <1>5, <1>h, <1>t, <2>1 DEF ManagerStep, Ping, Reply, Monitor, connect, Close, Begin, Returned, HealthType
    <3>2. QED
      BY <1>1, <1>o, <3>1
  <2>2. CASE Close(k)
    <3>1. UNCHANGED <<now, up, since, monitor, due, began, reply>> /\ conn'[k] # "open"
      BY <1>h, <1>t, <2>2 DEF Close, HealthType
    <3>2. QED
      BY <1>1, <3>1
  <2>3. QED
    BY <1>2, <1>3, <1>4, <1>5, <2>1, <2>2 DEF ManagerStep
<1>6. ASSUME NEW d \in Deps, Change(d) PROVE FlagInv(k)' /\ ReplyInv(k)'
  <2>1. UNCHANGED <<now, connVars>>
    BY <1>6 DEF Change
  <2>2. CASE d # k
    <3>1. up'[k] = up[k] /\ since'[k] = since[k]
      BY <1>6, <1>h, <1>t, <2>2 DEF Change, HealthType
    <3>2. QED
      BY <1>1, <2>1, <3>1 DEF connVars
  <2>3. CASE d = k
    <3>1. since'[k] = now
      BY <1>6, <1>h, <1>t, <2>3 DEF Change, HealthType
    <3>2. /\ now >= due[k] - MonitorInterval /\ now >= now - Gap(k)
          /\ monitor[k] # "wait" => now >= began[k] /\ now >= began[k] - Gap(k) /\ now >= began[k] - PingTime
      BY <1>h, <1>n, <1>g, <1>t DEF CallInv
    <3>3. QED
      BY <1>g, <2>1, <3>1, <3>2 DEF FlagInv, ReplyInv, connVars
  <2>4. QED
    BY <2>2, <2>3
<1>7. CASE Tick
  <2>1. now' = now + 1 /\ UNCHANGED <<up, since, connVars>> /\ (monitor[k] = "wait" => now < due[k])
    BY <1>7 DEF Tick
  <2>2. monitor[k] = "wait" => now' <= due[k]
    BY <1>n, <2>1
  <2>3. QED
    BY <1>g, <1>t, <2>1, <2>2 DEF FlagInv, ReplyInv, connVars
<1>8. CASE UNCHANGED <<now, up, since, connVars>>
  BY <1>1, <1>8 DEF connVars
<1>9. QED
  BY <1>5, <1>6, <1>7, <1>8 DEF HealthNext, ManagerStep, CheckCached, CheckStart, Checker, CheckEnd,
                                healthVars

(* A flag that is wrong became so no longer ago than its age. *)
LEMMA FlagAge ==
    ASSUME HealthInv, NEW m \in Monitored, conn[m] = "open", isConnected[m] # up[m]
    PROVE  since[m] >= now - Age(m)
<1>1. /\ MonitorInterval \in Nat /\ PingTime \in Nat /\ ConnectTime \in Nat /\ m \in Managers /\ m \in Deps
  BY HealthAssumption DEF Deps
<1>2. /\ now \in Nat /\ since[m] \in Nat /\ due[m] \in Nat /\ began[m] \in Nat
      /\ monitor[m] \in {"wait", "ping", "connect"}
  BY <1>1 DEF HealthInv, HealthType
<1>3. CallInv(m) /\ FlagInv(m)
  BY DEF HealthInv, ClockInv, MonitorInv
<1>4. Age(m) = Gap(m) + PingTime
  BY <1>1 DEF Age
<1>5. QED
  BY <1>1, <1>2, <1>3, <1>4, GapCovers DEF CallInv, FlagInv

LEMMA NextAnswer == HealthInv /\ [HealthNext]_healthVars => AnswerInv'
<1> SUFFICES ASSUME HealthInv, [HealthNext]_healthVars PROVE AnswerInv'
  OBVIOUS
<1>h. /\ CacheTTL \in Nat /\ CheckTime \in Nat /\ MonitorInterval \in Nat
      /\ PingTime \in Nat /\ ConnectTime \in Nat
      /\ Monitored \subseteq Managers /\ Managers \subseteq Deps /\ Live \subseteq Deps
      /\ Live \cap Managers = {}
  BY HealthAssumption DEF Deps
<1>t. HealthType /\ ClockInv /\ AnswerInv
  BY DEF HealthInv
<1>w. Watched' \subseteq Watched /\ Watched \subseteq Deps
  BY <1>h, <1>t, WatchedShrinks DEF Watched
<1>a. \A d \in Deps : Age(d) \in Nat /\ Age(d)' = Age(d)
  BY <1>h, GapCovers, SameGaps DEF Age
<1>n. /\ now \in Nat /\ since \in [Deps -> Nat] /\ started \in [Requests -> Nat]
      /\ cached # NoResp => cached.at \in Nat
  BY <1>t DEF HealthType
<1>1. ASSUME UNCHANGED <<up, since, cached, pc, started, seen>> PROVE AnswerInv'
  BY <1>1, <1>a, <1>t, <1>w DEF AnswerInv
<1>2. ASSUME NEW r \in Requests, CheckStart(r) PROVE AnswerInv'
  <2>1. /\ UNCHANGED <<up, since, cached, conn>> /\ DOMAIN seen'[r] = {}
        /\ \A q \in Requests : q # r => pc'[q] = pc[q] /\ seen'[q] = seen[q] /\ started'[q] = started[q]
    BY <1>2, <1>t DEF CheckStart, HealthType, connVars
  <2>2. QED
    BY <1>a, <1>t, <1>w, <2>1 DEF AnswerInv
<1>3. ASSUME NEW r \in Requests, NEW d \in Deps, Checker(r, d) PROVE AnswerInv'
  <2>1. /\ UNCHANGED <<now, up, since, cached, conn, pc, started>>
        /\ \A q \in Requests : q # r => seen'[q] = seen[q]
    BY <1>3, <1>t DEF Checker, HealthType, connVars
  <2>2. /\ pc[r] = "checking" /\ DOMAIN seen'[r] = DOMAIN seen[r] \cup {d}
        /\ \A e \in DOMAIN seen[r] : e # d => seen'[r][e] = seen[r][e]
        /\ seen'[r][d] = IF d \in Managers THEN isConnected[d] ELSE up[d]
    BY <1>3, <1>t DEF Checker, HealthType, FlagCheck, PingCheck
  <2>3. ASSUME d \in Watched, seen'[r][d] # up[d] PROVE since[d] >= started[r] - Age(d)
    <3>1. d \in Managers /\ isConnected[d] # up[d] /\ d \in Monitored /\ conn[d] = "open"
      BY <1>h, <2>2, <2>3 DEF Watched
    <3>2. since[d] >= now - Age(d) /\ started[r] <= now
      BY <1>t, <2>2, <3>1, FlagAge DEF ClockInv
    <3>3. QED
      BY <1>a, <1>n, <3>2
  <2>4. ASSUME NEW q \in Requests, pc[q] = "checking",
               NEW e \in Watched \cap DOMAIN seen'[q], seen'[q][e] # up[e]
        PROVE  since[e] >= started[q] - Age(e)
    BY <1>t, <2>1, <2>2, <2>3, <2>4 DEF AnswerInv
  <2>5. QED
    BY <1>a, <1>t, <1>w, <2>1, <2>4 DEF AnswerInv
<1>4. ASSUME NEW r \in Requests, CheckEnd(r) PROVE AnswerInv'
  <2>1. cached'.checks = seen[r] /\ cached'.at = now
    BY <1>4, <1>t, EndStep
  <2>2. /\ UNCHANGED <<up, since, conn>>
        /\ pc[r] = "checking" /\ DOMAIN seen[r] = Deps /\ pc'[r] # "checking"
        /\ \A q \in Requests : q # r => pc'[q] = pc[q] /\ seen'[q] = seen[q] /\ started'[q] = started[q]
    BY <1>4, <1>t DEF CheckEnd, HealthType, connVars
  <2>3. ASSUME NEW d \in Watched, seen[r][d] # up[d]
        PROVE  since[d] >= now - CheckTime - Age(d)
    <3>1. since[d] >= started[r] - Age(d) /\ now <= started[r] + CheckTime
      BY <1>t, <1>w, <2>2, <2>3 DEF AnswerInv, ClockInv
    <3>2. QED
      BY <1>a, <1>h, <1>n, <1>w, <3>1
  <2>4. QED
    BY <1>a, <1>t, <1>w, <2>1, <2>2, <2>3 DEF AnswerInv
<1>5. ASSUME NEW d \in Deps, Change(d) PROVE AnswerInv'
  <2>1. /\ UNCHANGED <<cached, conn, pc, started, seen>> /\ since'[d] = now
        /\ \A e \in Deps : e # d => since'[e] = since[e] /\ up'[e] = up[e]
    BY <1>5, <1>t DEF Change, HealthType, connVars, reqVars
  <2>2. \A r \in Requests : pc[r] = "checking" => since'[d] >= started[r] - Age(d)
    <3>1. \A r \in Requests : pc[r] = "checking" => started[r] <= now
      BY <1>t DEF ClockInv
    <3>2. QED
      BY <1>a, <1>n, <2>1, <3>1
  <2>3. cached # NoResp => since'[d] >= cached.at - CheckTime - Age(d)
    <3>1. cached # NoResp => cached.at <= now
      BY <1>t DEF ClockInv
    <3>2. QED
      BY <1>a, <1>h, <1>n, <2>1, <3>1
  <2>4. QED
    BY <1>a, <1>h, <1>t, <1>w, <2>1, <2>2, <2>3 DEF AnswerInv
<1>6. ASSUME Tick \/ UNCHANGED healthVars \/ \E m \in Managers : ManagerStep(m)
      PROVE  UNCHANGED <<up, since, cached, pc, started, seen>>
  BY <1>6 DEF Tick, ManagerStep, Ping, Reply, Monitor, connect, Close, healthVars, reqVars
<1>7. QED
  BY <1>1, <1>2, <1>3, <1>4, <1>5, <1>6 DEF HealthNext, ManagerStep, CheckCached

LEMMA NextStatus == HealthType /\ StatusExact /\ [HealthNext]_healthVars => StatusExact'
<1> SUFFICES ASSUME HealthType, StatusExact, [HealthNext]_healthVars PROVE StatusExact'
  OBVIOUS
<1>1. ASSUME NEW r \in Requests, CheckEnd(r) PROVE StatusExact'
  <2>1. PICK order \in Orders : cached'.status = StatusOf(seen[r], order)
    BY <1>1, EndStep
  <2>2. cached'.checks = seen[r] /\ seen[r] \in [Deps -> BOOLEAN]
    BY <1>1, EndStep
  <2>3. LET down == {d \in Deps : ~seen[r][d]}
        IN  /\ StatusOf(seen[r], order) = "unhealthy" <=> down \cap Critical # {}
            /\ StatusOf(seen[r], order) = "healthy" <=> down = {}
    BY <2>2, StatusIsExact
  <2>4. QED
    BY <2>1, <2>2, <2>3 DEF StatusExact
<1>2. CASE UNCHANGED cached
  BY <1>2 DEF StatusExact
<1>3. QED
  BY <1>1, <1>2 DEF HealthNext, CheckCached, CheckStart, Checker, Ping, Reply, Monitor, connect,
                    Close, Change, Tick, healthVars

LEMMA HealthInductive == HealthSpec => []HealthInv
<1>1. HealthInv /\ [HealthNext]_healthVars => HealthInv'
  BY NextHealthType, NextClock, NextMonitor, NextAnswer, NextStatus DEF HealthInv
<1>2. QED
  BY <1>1, InitHealth, PTL DEF HealthSpec

(* The status in a response of /health is exact for its checks, for any     *)
(* number of dependencies and in any order of the map of results.           *)
THEOREM StatusIsAlwaysExact == HealthSpec => []StatusExact
BY HealthInductive, PTL DEF HealthInv

(* A cached response is wrong about a watched dependency no longer than the *)
(* TTL, the duration of a check and, for a manager, the gap between two     *)
(* calls of its monitor and the time of a ping, which may be under way.     *)
THEOREM ResponsesAreFresh == HealthSpec => []ResponseFresh
<1>1. HealthInv => ResponseFresh
  <2> SUFFICES ASSUME HealthInv, Fresh, NEW d \in Watched, cached.checks[d] # up[d]
               PROVE  now - since[d] < Lag(d)
    BY DEF ResponseFresh, Watched
  <2>1. cached # NoResp /\ now - cached.at < CacheTTL
    BY DEF Fresh
  <2>2. since[d] >= cached.at - CheckTime - Age(d)
    BY <2>1 DEF HealthInv, AnswerInv
  <2>3. now \in Nat /\ cached.at \in Nat /\ since[d] \in Nat
    BY <2>1, HealthAssumption DEF HealthInv, HealthType, Watched, Deps
  <2>4. CacheTTL \in Nat /\ CheckTime \in Nat /\ Age(d) \in Nat /\ Lag(d) = CacheTTL + CheckTime + Age(d)
    BY HealthAssumption, GapCovers DEF Age, Lag
  <2>5. QED
    BY <2>1, <2>2, <2>3, <2>4
<1>2. QED
  BY <1>1, HealthInductive, PTL
=============================================================================
