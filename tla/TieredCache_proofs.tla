------------------------- MODULE TieredCache_proofs -------------------------
(***************************************************************************)
(* What the tiered cache guarantees for any number of goroutines, updates, *)
(* operations and faults: no Get that starts after an undisturbed          *)
(* Invalidate that removed a file of L1 returns an older version, and      *)
(* without overlap or failure the two local tiers agree.                   *)
(***************************************************************************)
EXTENDS TieredCache, TLAPS

(* The steps that only a client with L1 reaches. *)
L1Steps == {"meta", "data", "promote", "openData", "writeData", "openMeta", "writeMeta", "rmData", "rmMeta"}

(* The steps at which an operation counts on the data file. *)
DataSteps == {"data", "writeData", "openMeta", "writeMeta"}

(* A version the latest undisturbed invalidation has not made stale, torn   *)
(* bytes, or nothing.                                                       *)
Current(x) == x \in {None, Torn} \cup floor .. truth

(* The tiers show nothing the invalidation should have removed: a stale     *)
(* data file that could not be removed has lost its metadata.               *)
TierInv ==
    /\ floor <= truth
    /\ Current(l0) /\ (metaFile = "valid" => Current(dataFile))
    /\ ~config.l1 => dataFile = None

(* An operation in flight: no invalidation has completed undisturbed since  *)
(* it started, it carries nothing stale, and when it is itself undisturbed  *)
(* it is the only one.                                                      *)
FlightOK(p) ==
    pc[p] # "idle" =>
        /\ seen[p] = floor /\ base[p] \in floor .. truth /\ Current(val[p])
        /\ pc[p] \in L1Steps => config.l1
        /\ pc[p] \in DataSteps => Current(dataFile)
        /\ pc[p] = "delL0" => op[p] = "delete"
        /\ ~overlap[p] =>
              /\ \A q \in Procs : q # p => pc[q] = "idle"
              /\ op[p] = "delete" => pc[p] \in {"delL0", "rmData", "rmMeta"}
              /\ op[p] = "delete" /\ pc[p] \in {"rmData", "rmMeta"} => l0 = None

(* The result of a finished operation. *)
RestOK(p) == pc[p] = "idle" => val[p] \in {None, Torn} \/ val[p] >= seen[p]

StaleInv == TypeOK /\ TierInv /\ \A p \in Procs : FlightOK(p) /\ RestOK(p)

(* The tiers hold the same version, or one of them nothing a Get would see. *)
Agree == l0 = None \/ dataFile = None \/ metaFile = "none" \/ l0 = dataFile

(* What an operation that runs alone finds and leaves in the tiers. *)
Carries(p) ==
    /\ pc[p] = "l0" => Agree
    /\ pc[p] \in {"meta", "data", "load", "fallback", "reload", "promote", "rmData", "rmMeta"} => l0 = None
    /\ pc[p] = "promote" => val[p] = dataFile
    /\ pc[p] \in {"openData", "writeData", "openMeta", "writeMeta"} => l0 \in {None, val[p]}
    /\ pc[p] = "writeData" => dataFile = Torn /\ linked[p]
    /\ pc[p] \in {"openMeta", "writeMeta"} => dataFile = val[p]

(* Without overlap, failure or crash, operations run one after the other    *)
(* and leave the tiers in agreement.                                        *)
AgreeInv ==
    /\ ~config.l0 => l0 = None
    /\ calm /\ InFlight = {} => Agree
    /\ \A p \in Procs : pc[p] # "idle" /\ calm =>
          Carries(p) /\ \A q \in Procs : q # p => pc[q] = "idle"

-----------------------------------------------------------------------------
(* Types. *)

(* The values that may be at rest or in flight. *)
Values == {None, Torn} \cup 1 .. truth

LEMMA InitType == Init => TypeOK
BY BoundsAssumption DEF Init, TypeOK, Versions, Steps, Ops, None

(* A step of a goroutine. *)
LEMMA StepType ==
    ASSUME TypeOK, UNCHANGED <<config, truth>>,
           l0' \in Values, dataFile' \in Values, metaFile' \in {"none", "valid", "expired", "torn"},
           pc' \in [Procs -> Steps], op' \in [Procs -> Ops], val' \in [Procs -> Values],
           linked' \in [Procs -> BOOLEAN], ops' \in Nat, faults' \in Nat,
           overlap' \in [Procs -> BOOLEAN], calm' \in BOOLEAN, base' \in [Procs -> Versions],
           floor' \in 0 .. MaxVersion, seen' \in [Procs -> 0 .. MaxVersion]
    PROVE  TypeOK'
BY DEF TypeOK, Values

LEMMA NextType == TypeOK /\ [Next]_vars => TypeOK'
<1> SUFFICES ASSUME TypeOK, [Next]_vars PROVE TypeOK'
  OBVIOUS
<1> USE BoundsAssumption
<1>t. /\ truth \in Versions /\ l0 \in Values /\ dataFile \in Values
      /\ metaFile \in {"none", "valid", "expired", "torn"}
      /\ pc \in [Procs -> Steps] /\ op \in [Procs -> Ops] /\ val \in [Procs -> Values]
      /\ linked \in [Procs -> BOOLEAN] /\ ops \in Nat /\ faults \in Nat
      /\ overlap \in [Procs -> BOOLEAN] /\ calm \in BOOLEAN /\ base \in [Procs -> Versions]
      /\ floor \in 0 .. MaxVersion /\ seen \in [Procs -> 0 .. MaxVersion]
  BY DEF TypeOK, Values
<1>v. truth \in Values /\ None \in Values /\ Torn \in Values /\ \A p \in Procs : base[p] \in 0 .. MaxVersion
  BY <1>t DEF Values, Versions
<1>g. \A p \in Procs, s \in Steps : [pc EXCEPT ![p] = s] \in [Procs -> Steps]
  BY <1>t
<1>w. \A p \in Procs, x \in Values : [val EXCEPT ![p] = x] \in [Procs -> Values]
  BY <1>t
<1>s. AfterL0 \in Steps /\ AfterSetL0 \in Steps
  BY DEF AfterL0, AfterSetL0, Steps
<1>1. ASSUME NEW p \in Procs, NEW o \in Ops, Begin(p, o) PROVE TypeOK'
  <2>1. /\ UNCHANGED <<config, truth, l0, dataFile, metaFile, linked, faults, floor>>
        /\ ops' = ops + 1 /\ op' = [op EXCEPT ![p] = o]
        /\ val' = [val EXCEPT ![p] = IF o = "set" THEN truth ELSE None]
        /\ base' = [base EXCEPT ![p] = truth] /\ seen' = [seen EXCEPT ![p] = floor]
        /\ calm' = (calm /\ InFlight = {})
        /\ overlap' = [q \in Procs |-> IF q = p THEN InFlight # {} ELSE overlap[q] \/ pc[q] # "idle"]
    BY <1>1 DEF Begin, tierVars
  <2>2. pc' \in [Procs -> Steps]
    BY <1>1, <1>g DEF Begin, Goto, Steps
  <2>3. overlap' \in [Procs -> BOOLEAN] /\ calm' \in BOOLEAN
    BY <1>t, <2>1
  <2>4. val' \in [Procs -> Values] /\ base' \in [Procs -> Versions] /\ seen' \in [Procs -> 0 .. MaxVersion]
    BY <1>t, <1>v, <1>w, <2>1
  <2>5. op' \in [Procs -> Ops] /\ ops' \in Nat
    BY <1>t, <2>1
  <2>6. QED
    BY <1>t, <2>1, <2>2, <2>3, <2>4, <2>5, StepType
<1>2. ASSUME NEW p \in Procs, LookupL0(p) \/ ReadMeta(p) \/ ReadData(p) PROVE TypeOK'
  <2>1. UNCHANGED <<config, truth, l0, dataFile, metaFile, op, linked, ops, faults, overlap, calm, base, floor, seen>>
    BY <1>2 DEF LookupL0, ReadMeta, ReadData, tierVars, ghostVars
  <2>2. pc' \in [Procs -> Steps]
    <3>1. \E s \in Steps : pc' = [pc EXCEPT ![p] = s]
      <4>1. CASE LookupL0(p)
        BY <1>s, <4>1 DEF LookupL0, Goto, Steps
      <4>2. CASE ReadMeta(p)
        BY <4>2 DEF ReadMeta, Goto, Steps
      <4>3. CASE ReadData(p)
        BY <4>3 DEF ReadData, Goto, Steps
      <4>4. QED
        BY <1>2, <4>1, <4>2, <4>3
    <3>2. QED
      BY <1>g, <3>1
  <2>3. val' \in [Procs -> Values]
    BY <1>2, <1>t, <1>w DEF LookupL0, ReadMeta, ReadData
  <2>4. QED
    BY <1>t, <2>1, <2>2, <2>3, StepType
<1>3. ASSUME NEW p \in Procs, NEW from, NEW miss \in Steps, NEW available, Answer(p, from, miss, available)
      PROVE  TypeOK'
  <2>1. /\ UNCHANGED <<config, truth, l0, dataFile, metaFile, op, linked, ops, faults, overlap, calm, base, floor, seen>>
        /\ \/ val' = [val EXCEPT ![p] = truth] /\ pc' = [pc EXCEPT ![p] = "setL0"]
           \/ pc' = [pc EXCEPT ![p] = miss] /\ val' = val
    BY <1>3 DEF Answer, Goto, tierVars, ghostVars
  <2>2. pc' \in [Procs -> Steps] /\ val' \in [Procs -> Values]
    BY <1>t, <1>g, <1>v, <1>w, <2>1 DEF Steps
  <2>3. QED
    BY <1>t, <2>1, <2>2, StepType
<1>4. ASSUME NEW p \in Procs, Load(p) \/ FetchFromFallback(p) \/ Reload(p) PROVE TypeOK'
  BY <1>3, <1>4 DEF Load, FetchFromFallback, Reload, Steps
<1>5. ASSUME NEW p \in Procs, SetL0(p) PROVE TypeOK'
  <2>1. /\ UNCHANGED <<config, truth, dataFile, metaFile, op, val, linked, ops, faults, overlap, calm, base, floor, seen>>
        /\ l0' \in {l0, val[p]}
        /\ pc' = [pc EXCEPT ![p] = IF pc[p] = "promote" THEN "idle" ELSE AfterSetL0]
    BY <1>5 DEF SetL0, Goto, ghostVars
  <2>2. pc' \in [Procs -> Steps] /\ l0' \in Values
    BY <1>t, <1>g, <1>s, <2>1 DEF Steps
  <2>3. QED
    BY <1>t, <2>1, <2>2, StepType
<1>6. ASSUME NEW p \in Procs, OpenData(p) \/ WriteData(p) \/ OpenMeta(p) \/ WriteMeta(p) PROVE TypeOK'
  <2>1. UNCHANGED <<config, truth, l0, op, val, ops, faults, overlap, calm, base, floor, seen>>
    BY <1>6 DEF OpenData, WriteData, OpenMeta, WriteMeta, ghostVars
  <2>2. dataFile' \in {dataFile, Torn, val[p]} /\ metaFile' \in {metaFile, "torn", "valid"}
    BY <1>6 DEF OpenData, WriteData, OpenMeta, WriteMeta
  <2>3. linked' = linked \/ linked' = [linked EXCEPT ![p] = TRUE]
    BY <1>6 DEF OpenData, WriteData, OpenMeta, WriteMeta
  <2>4. \E s \in Steps : pc' = [pc EXCEPT ![p] = s]
    BY <1>6 DEF OpenData, WriteData, OpenMeta, WriteMeta, Goto, Steps
  <2>5. pc' \in [Procs -> Steps] /\ linked' \in [Procs -> BOOLEAN]
    BY <1>t, <1>g, <2>3, <2>4
  <2>6. dataFile' \in Values /\ metaFile' \in {"none", "valid", "expired", "torn"}
    BY <1>t, <1>v, <2>2
  <2>7. QED
    BY <1>t, <2>1, <2>5, <2>6, StepType
<1>7. ASSUME NEW p \in Procs, ReadFails(p) \/ WriteFails(p) PROVE TypeOK'
  <2>1. /\ UNCHANGED <<config, truth, l0, metaFile, op, val, ops, overlap, base, floor, seen>>
        /\ faults' = faults + 1 /\ calm' = FALSE /\ dataFile' \in {dataFile, None}
    BY <1>7 DEF ReadFails, WriteFails, tierVars
  <2>2. pc' = [pc EXCEPT ![p] = "load"] \/ pc' = [pc EXCEPT ![p] = "idle"]
    BY <1>7 DEF ReadFails, WriteFails, Goto
  <2>3. linked' = linked \/ linked' = [q \in Procs |-> linked[q] /\ pc[q] # "writeData"]
    BY <1>7 DEF ReadFails, WriteFails, Unlink
  <2>4. linked' \in [Procs -> BOOLEAN] /\ pc' \in [Procs -> Steps]
    BY <1>t, <1>g, <2>2, <2>3 DEF Steps
  <2>5. dataFile' \in Values /\ faults' \in Nat
    BY <1>t, <1>v, <2>1
  <2>6. calm' \in BOOLEAN
    BY <2>1
  <2>7. QED
    BY <1>t, <2>1, <2>4, <2>5, <2>6, StepType
<1>8. ASSUME NEW p \in Procs, DeleteL0(p) \/ RemoveData(p) \/ RemoveMeta(p) PROVE TypeOK'
  <2>1. /\ UNCHANGED <<config, truth, op, val, ops, overlap, calm, base, seen>>
        /\ l0' \in {l0, None} /\ dataFile' \in {dataFile, None} /\ metaFile' \in {metaFile, "none"}
        /\ floor' \in {floor, base[p]} /\ faults' \in {faults, faults + 1}
    BY <1>8 DEF DeleteL0, RemoveData, RemoveMeta, ghostVars
  <2>2. \E s \in Steps : pc' = [pc EXCEPT ![p] = s]
    BY <1>8 DEF DeleteL0, RemoveData, RemoveMeta, Goto, Steps
  <2>3. linked' = linked \/ \E s \in Steps : linked' = [q \in Procs |-> linked[q] /\ pc[q] # s]
    BY <1>8 DEF DeleteL0, RemoveData, RemoveMeta, Unlink, Steps
  <2>4. linked' \in [Procs -> BOOLEAN] /\ pc' \in [Procs -> Steps]
    BY <1>t, <1>g, <2>2, <2>3
  <2>5. QED
    BY <1>t, <1>v, <2>1, <2>4, StepType
<1>9. CASE UpdateSource
  <2>1. /\ UNCHANGED <<config, l0, dataFile, metaFile, pc, op, val, linked, ops, faults, overlap, calm, base, floor, seen>>
        /\ truth' = truth + 1 /\ truth < MaxVersion
    BY <1>9 DEF UpdateSource, tierVars, ghostVars
  <2>2. truth' \in Versions /\ Values \subseteq {None, Torn} \cup 1 .. truth'
    BY <1>t, <2>1 DEF Values, Versions
  <2>3. val \in [Procs -> {None, Torn} \cup 1 .. truth']
    BY <1>t, <2>2
  <2>4. QED
    BY <1>t, <2>1, <2>2, <2>3 DEF TypeOK
<1>10. CASE ExpireL0 \/ ExpireL1 \/ Restart
  <2>1. /\ UNCHANGED <<config, truth, dataFile, op, linked, ops, overlap, base, floor, seen>>
        /\ l0' \in {l0, None} /\ metaFile' \in {metaFile, "expired"} /\ faults' \in {faults, faults + 1}
        /\ pc' = pc \/ pc' = [p \in Procs |-> "idle"]
        /\ val' = val \/ val' = [p \in Procs |-> None]
        /\ calm' = calm \/ calm' = (calm /\ InFlight = {})
    BY <1>10 DEF ExpireL0, ExpireL1, Restart, ghostVars
  <2>2. pc' \in [Procs -> Steps] /\ val' \in [Procs -> Values] /\ calm' \in BOOLEAN /\ faults' \in Nat
    <3>1. pc' \in [Procs -> Steps]
      BY <1>t, <2>1 DEF Steps
    <3>2. val' \in [Procs -> Values]
      BY <1>t, <1>v, <2>1
    <3>3. calm' \in BOOLEAN
      BY <1>t, <2>1
    <3>4. faults' \in Nat
      BY <1>t, <2>1
    <3>5. QED
      BY <3>1, <3>2, <3>3, <3>4
  <2>3. QED
    BY <1>t, <1>v, <2>1, <2>2, StepType
<1>11. CASE UNCHANGED vars
  BY <1>t, <1>11, StepType DEF vars, tierVars, ghostVars
<1>12. QED
  BY <1>1, <1>2, <1>4, <1>5, <1>6, <1>7, <1>8, <1>9, <1>10, <1>11 DEF Next, Step

(* The types hold, and nothing the cache holds or carries is newer than the *)
(* source.                                                                  *)
THEOREM TypeCorrect == Spec => []TypeOK
BY InitType, NextType, PTL DEF Spec

-----------------------------------------------------------------------------
(* Invalidations. *)

(* A step of an operation in flight that completes no invalidation: it may  *)
(* write current values, and the operations it overlaps claim nothing of    *)
(* the tiers.                                                               *)
LEMMA FlightStep ==
    ASSUME StaleInv, TypeOK', NEW p \in Procs, pc[p] # "idle",
           UNCHANGED <<config, truth, floor, base, seen, overlap, op>>,
           \A q \in Procs : q # p => pc'[q] = pc[q] /\ val'[q] = val[q],
           Current(l0'), Current(val'[p]), dataFile' = dataFile \/ Current(dataFile'),
           metaFile' = "valid" \/ pc'[p] \in DataSteps => Current(dataFile'),
           ~config.l1 => dataFile' = None,
           pc'[p] \in L1Steps => config.l1, pc'[p] # "delL0",
           ~overlap[p] /\ op[p] = "delete" /\ pc'[p] # "idle" => pc'[p] \in {"rmData", "rmMeta"} /\ l0' = None
    PROVE  StaleInv'
<1>t. FlightOK(p) /\ floor \in Int /\ truth \in Int /\ floor <= truth
  BY DEF StaleInv, TierInv, TypeOK, Versions
<1>c. \A x : Current(x) => x \in {None, Torn} \cup floor' .. truth'
  BY DEF Current
<1>1. TierInv'
  BY <1>t DEF TierInv, Current
<1>2. FlightOK(p)'
  <2>1. /\ seen[p] = floor /\ base[p] \in floor .. truth
        /\ ~overlap[p] => \A q \in Procs : q # p => pc[q] = "idle"
    BY <1>t DEF FlightOK
  <2>2. QED
    BY <2>1 DEF FlightOK, Current
<1>3. RestOK(p)'
  BY <1>t DEF RestOK, FlightOK, Current
<1>4. ASSUME NEW q \in Procs, q # p PROVE FlightOK(q)' /\ RestOK(q)'
  <2>1. FlightOK(q) /\ RestOK(q)
    BY DEF StaleInv
  <2>2. pc[q] # "idle" => overlap[q]
    BY <1>4, <2>1 DEF FlightOK
  <2>3. FlightOK(q)'
    BY <1>4, <2>1, <2>2 DEF FlightOK, Current
  <2>4. QED
    BY <1>4, <2>1, <2>3 DEF RestOK
<1>5. QED
  BY <1>1, <1>2, <1>3, <1>4 DEF StaleInv

(* The step that completes an invalidation nothing overlapped: the tiers    *)
(* show nothing, and every other operation is over.                         *)
LEMMA InvalidateStep ==
    ASSUME StaleInv, TypeOK', NEW p \in Procs, pc[p] # "idle", ~overlap[p],
           UNCHANGED <<config, truth, base, seen, overlap, op, val>>,
           pc' = [pc EXCEPT ![p] = "idle"], floor' = base[p], l0' = None,
           ~config.l1 => dataFile' = None, dataFile' = None \/ metaFile' = "none"
    PROVE  StaleInv'
<1>t. FlightOK(p) /\ floor \in Int /\ truth \in Int /\ floor <= truth /\ pc \in [Procs -> Steps]
  BY DEF StaleInv, TierInv, TypeOK, Versions
<1>1. \A q \in Procs : pc'[q] = "idle"
  BY <1>t DEF FlightOK
<1>2. TierInv'
  BY <1>t DEF TierInv, Current, FlightOK
<1>3. ASSUME NEW q \in Procs PROVE RestOK(q)'
  <2>1. CASE q = p
    BY <1>t, <2>1 DEF RestOK, FlightOK, Current
  <2>2. CASE q # p
    BY <1>t, <2>2 DEF StaleInv, RestOK, FlightOK
  <2>3. QED
    BY <2>1, <2>2
<1>4. QED
  BY <1>1, <1>2, <1>3 DEF StaleInv, FlightOK

(* Every step keeps stale versions out. *)
LEMMA NextStale == StaleInv /\ [Next]_vars => StaleInv'
<1> SUFFICES ASSUME StaleInv, [Next]_vars PROVE StaleInv'
  OBVIOUS
<1> USE BoundsAssumption
<1>t. /\ TypeOK /\ TypeOK' /\ TierInv /\ \A q \in Procs : FlightOK(q) /\ RestOK(q)
      /\ floor \in Int /\ truth \in Int /\ floor <= truth
  BY NextType DEF StaleInv, TypeOK, TierInv, Versions
<1>v. /\ pc \in [Procs -> Steps] /\ op \in [Procs -> Ops] /\ val \in [Procs -> Values]
      /\ overlap \in [Procs -> BOOLEAN] /\ base \in [Procs -> Versions]
      /\ seen \in [Procs -> 0 .. MaxVersion] /\ floor \in 0 .. MaxVersion
  BY <1>t DEF TypeOK, Values
<1>c. Current(l0) /\ (metaFile = "valid" => Current(dataFile)) /\ Current(None) /\ Current(Torn) /\ Current(truth)
      /\ (~config.l1 => dataFile = None)
  BY <1>t DEF TierInv, Current
<1>1. ASSUME NEW p \in Procs, NEW o \in Ops, Begin(p, o) PROVE StaleInv'
  <2>1. /\ UNCHANGED <<config, truth, l0, dataFile, metaFile, floor>> /\ pc[p] = "idle"
        /\ op' = [op EXCEPT ![p] = o] /\ val' = [val EXCEPT ![p] = IF o = "set" THEN truth ELSE None]
        /\ pc' = [pc EXCEPT ![p] = CASE o = "set" -> "setL0" [] o = "delete" -> "delL0" [] OTHER -> "l0"]
        /\ overlap' = [q \in Procs |-> IF q = p THEN InFlight # {} ELSE overlap[q] \/ pc[q] # "idle"]
        /\ base' = [base EXCEPT ![p] = truth] /\ seen' = [seen EXCEPT ![p] = floor]
    BY <1>1 DEF Begin, Goto, tierVars
  <2>2. TierInv'
    BY <1>t, <2>1 DEF TierInv, Current
  <2>3. /\ op'[p] = o /\ val'[p] = (IF o = "set" THEN truth ELSE None) /\ base'[p] = truth /\ seen'[p] = floor
        /\ pc'[p] = (CASE o = "set" -> "setL0" [] o = "delete" -> "delL0" [] OTHER -> "l0")
        /\ overlap'[p] = (InFlight # {})
    BY <1>v, <2>1
  <2>4. FlightOK(p)' /\ RestOK(p)'
    <3>1. pc'[p] \in {"setL0", "delL0", "l0"} /\ (pc'[p] = "delL0" <=> o = "delete")
      BY <2>3 DEF Ops
    <3>2. ~overlap'[p] => \A q \in Procs : q # p => pc'[q] = "idle"
      <4>1. ~overlap'[p] => InFlight = {}
        BY <2>3
      <4>2. InFlight = {} => \A q \in Procs : pc[q] = "idle"
        BY DEF InFlight
      <4>3. \A q \in Procs : q # p => pc'[q] = pc[q]
        BY <1>v, <2>1
      <4>4. QED
        BY <4>1, <4>2, <4>3
    <3>3. Current(val[p])' /\ seen'[p] = floor' /\ base'[p] \in floor' .. truth'
      BY <1>t, <2>1, <2>3 DEF Current
    <3>4. QED
      BY <2>3, <3>1, <3>2, <3>3 DEF FlightOK, RestOK, L1Steps, DataSteps
  <2>5. ASSUME NEW q \in Procs, q # p PROVE FlightOK(q)' /\ RestOK(q)'
    <3>1. /\ pc'[q] = pc[q] /\ op'[q] = op[q] /\ val'[q] = val[q] /\ base'[q] = base[q] /\ seen'[q] = seen[q]
          /\ overlap'[q] = (overlap[q] \/ pc[q] # "idle")
      BY <1>v, <2>1, <2>5
    <3>2. FlightOK(q) /\ RestOK(q)
      BY <1>t
    <3>3. FlightOK(q)'
      BY <2>1, <3>1, <3>2 DEF FlightOK, Current
    <3>4. RestOK(q)'
      BY <3>1, <3>2 DEF RestOK
    <3>5. QED
      BY <3>3, <3>4
  <2>6. QED
    BY <1>t, <2>2, <2>4, <2>5 DEF StaleInv
<1>2. ASSUME NEW p \in Procs, LookupL0(p) \/ ReadMeta(p) \/ ReadData(p) \/ ReadFails(p) PROVE StaleInv'
  <2>1. /\ UNCHANGED <<config, truth, l0, dataFile, metaFile, floor, base, seen, overlap, op>>
        /\ pc[p] \in {"l0", "meta", "data"} /\ (pc[p] = "l0" \/ config.l1)
    BY <1>2, <1>t DEF LookupL0, ReadMeta, ReadData, ReadFails, tierVars, ghostVars, FlightOK, L1Steps
  <2>2. ASSUME NEW s, NEW x, Goto(p, s), val' = [val EXCEPT ![p] = x], Current(x),
               s \in {"idle", "meta", "load", "data", "rmData", "promote"}, s \in L1Steps => config.l1,
               s = "data" => Current(dataFile)
        PROVE StaleInv'
    <3>1. /\ pc' = [pc EXCEPT ![p] = s] /\ pc'[p] = s /\ val'[p] = x
      BY <1>v, <2>2 DEF Goto
    <3>2. overlap[p] \/ op[p] # "delete"
      BY <1>t, <2>1 DEF FlightOK
    <3>3. QED
      BY <1>c, <1>v, <2>1, <2>2, <3>1, <3>2, <1>t, FlightStep DEF DataSteps
  <2>3. val[p] \in Values /\ Current(val[p]) /\ val = [val EXCEPT ![p] = val[p]]
    BY <1>v, <1>t, <2>1 DEF FlightOK
  <2>4. CASE LookupL0(p)
    <3>1. AfterL0 \in {"meta", "load"} /\ (AfterL0 \in L1Steps => config.l1)
      BY DEF AfterL0, L1Steps
    <3>2. CASE Goto(p, "idle") /\ val' = [val EXCEPT ![p] = l0]
      BY <1>c, <2>2, <3>2 DEF L1Steps
    <3>3. CASE Goto(p, AfterL0) /\ UNCHANGED val
      BY <2>2, <2>3, <3>1, <3>3
    <3>4. QED
      BY <2>4, <3>2, <3>3 DEF LookupL0
  <2>5. CASE ReadMeta(p)
    <3>1. /\ UNCHANGED val /\ config.l1
          /\ Goto(p, "load") \/ (Goto(p, "data") /\ metaFile = "valid") \/ Goto(p, "rmData")
      BY <2>1, <2>5 DEF ReadMeta
    <3>2. QED
      BY <1>c, <2>2, <2>3, <3>1
  <2>6. CASE ReadData(p)
    <3>1. /\ config.l1
          /\ \/ Goto(p, "rmData") /\ UNCHANGED val
             \/ Goto(p, "promote") /\ val' = [val EXCEPT ![p] = dataFile]
      BY <2>1, <2>6 DEF ReadData
    <3>2. Current(dataFile)
      BY <1>t, <2>6 DEF ReadData, FlightOK, DataSteps
    <3>3. QED
      BY <2>2, <2>3, <3>1, <3>2
  <2>7. CASE ReadFails(p)
    <3>1. UNCHANGED val /\ Goto(p, "load")
      BY <2>7 DEF ReadFails
    <3>2. QED
      BY <2>2, <2>3, <3>1 DEF L1Steps
  <2>8. QED
    BY <1>2, <2>4, <2>5, <2>6, <2>7
<1>3. ASSUME NEW p \in Procs, NEW from \in {"load", "fallback", "reload"}, NEW miss \in {"fallback", "reload", "idle"},
             NEW available, Answer(p, from, miss, available)
      PROVE  StaleInv'
  <2>1. /\ UNCHANGED <<config, truth, l0, dataFile, metaFile, floor, base, seen, overlap, op>>
        /\ pc[p] = from
        /\ \/ val' = [val EXCEPT ![p] = truth] /\ pc' = [pc EXCEPT ![p] = "setL0"]
           \/ pc' = [pc EXCEPT ![p] = miss] /\ val' = val
    BY <1>3 DEF Answer, Goto, tierVars, ghostVars
  <2>2. overlap[p] \/ op[p] # "delete"
    BY <1>t, <2>1 DEF FlightOK
  <2>3. pc'[p] \in {"setL0", "fallback", "reload", "idle"} /\ \A q \in Procs : q # p => pc'[q] = pc[q] /\ val'[q] = val[q]
    BY <1>v, <2>1
  <2>4. Current(val'[p])
    BY <1>c, <1>t, <1>v, <2>1 DEF FlightOK
  <2>5. QED
    BY <1>c, <1>t, <2>1, <2>2, <2>3, <2>4, FlightStep DEF L1Steps, DataSteps
<1>4. ASSUME NEW p \in Procs, Load(p) \/ FetchFromFallback(p) \/ Reload(p) PROVE StaleInv'
  BY <1>3, <1>4 DEF Load, FetchFromFallback, Reload
<1>5. ASSUME NEW p \in Procs, SetL0(p) PROVE StaleInv'
  <2>1. /\ UNCHANGED <<config, truth, dataFile, metaFile, floor, base, seen, overlap, op, val>>
        /\ pc[p] \in {"promote", "setL0"} /\ l0' \in {l0, val[p]}
        /\ pc' = [pc EXCEPT ![p] = IF pc[p] = "promote" THEN "idle" ELSE AfterSetL0]
    BY <1>5 DEF SetL0, Goto, ghostVars
  <2>2. Current(val[p]) /\ (overlap[p] \/ op[p] # "delete")
    BY <1>t, <2>1 DEF FlightOK
  <2>3. pc'[p] \in {"idle", "openData"} /\ (pc'[p] = "openData" => config.l1)
    BY <1>v, <2>1 DEF AfterSetL0
  <2>4. Current(l0')
    BY <1>c, <2>1, <2>2
  <2>5. QED
    BY <1>c, <1>t, <2>1, <2>2, <2>3, <2>4, FlightStep DEF L1Steps, DataSteps
<1>6. ASSUME NEW p \in Procs,
             OpenData(p) \/ WriteData(p) \/ OpenMeta(p) \/ WriteMeta(p) \/ WriteFails(p)
      PROVE StaleInv'
  <2>1. /\ UNCHANGED <<config, truth, l0, floor, base, seen, overlap, op, val>>
        /\ pc[p] \in {"openData", "writeData", "openMeta", "writeMeta"}
    BY <1>6 DEF OpenData, WriteData, OpenMeta, WriteMeta, WriteFails, ghostVars
  <2>2. \E s \in {"writeData", "openMeta", "writeMeta", "idle"} : pc' = [pc EXCEPT ![p] = s]
    BY <1>6 DEF OpenData, WriteData, OpenMeta, WriteMeta, WriteFails, Goto
  <2>3. pc'[p] \in {"writeData", "openMeta", "writeMeta", "idle"} /\ \A q \in Procs : q # p => pc'[q] = pc[q]
    BY <1>v, <2>2
  <2>4. config.l1 /\ Current(val[p]) /\ (overlap[p] \/ op[p] # "delete")
        /\ (pc[p] # "openData" => Current(dataFile))
    BY <1>t, <2>1 DEF FlightOK, L1Steps, DataSteps
  <2>5. CASE OpenData(p)
    <3>1. Current(dataFile')
      BY <1>c, <2>5 DEF OpenData
    <3>2. QED
      BY <1>c, <1>t, <2>1, <2>3, <2>4, <3>1, FlightStep
  <2>6. CASE WriteData(p) \/ OpenMeta(p) \/ WriteMeta(p)
    <3>1. dataFile' \in {dataFile, val[p], Torn} /\ pc[p] # "openData"
      BY <2>6 DEF WriteData, OpenMeta, WriteMeta
    <3>2. Current(dataFile')
      BY <1>c, <2>4, <3>1
    <3>3. QED
      BY <1>c, <1>t, <2>1, <2>3, <2>4, <3>2, FlightStep
  <2>7. CASE WriteFails(p)
    <3>1. UNCHANGED metaFile /\ dataFile' \in {dataFile, None} /\ pc' = [pc EXCEPT ![p] = "idle"]
      BY <2>7 DEF WriteFails, Goto
    <3>2. pc'[p] = "idle"
      BY <1>v, <3>1
    <3>3. QED
      BY <1>c, <1>t, <2>1, <2>3, <2>4, <3>1, <3>2, FlightStep DEF DataSteps
  <2>8. QED
    BY <1>6, <2>5, <2>6, <2>7
<1>7. ASSUME NEW p \in Procs, DeleteL0(p) PROVE StaleInv'
  <2>1. /\ UNCHANGED <<config, truth, dataFile, metaFile, base, seen, overlap, op, val>>
        /\ pc[p] = "delL0" /\ l0' = None
        /\ pc' = [pc EXCEPT ![p] = IF config.l1 THEN "rmData" ELSE "idle"]
        /\ floor' = IF ~config.l1 /\ ~overlap[p] THEN base[p] ELSE floor
    BY <1>7 DEF DeleteL0, Goto
  <2>2. CASE ~config.l1 /\ ~overlap[p]
    BY <1>c, <1>t, <2>1, <2>2, InvalidateStep
  <2>3. CASE config.l1 \/ overlap[p]
    <3>1. pc'[p] \in {"rmData", "idle"} /\ (pc'[p] = "rmData" => config.l1) /\ floor' = floor
      BY <1>v, <2>1, <2>3
    <3>2. Current(val[p])
      BY <1>t, <2>1 DEF FlightOK
    <3>3. QED
      BY <1>c, <1>t, <1>v, <2>1, <3>1, <3>2, FlightStep DEF L1Steps, DataSteps
  <2>4. QED
    BY <2>2, <2>3
<1>8. ASSUME NEW p \in Procs, RemoveData(p) PROVE StaleInv'
  <2>1. /\ UNCHANGED <<config, truth, l0, metaFile, floor, base, seen, overlap, op, val>>
        /\ pc[p] = "rmData" /\ dataFile' \in {dataFile, None} /\ pc' = [pc EXCEPT ![p] = "rmMeta"]
    BY <1>8 DEF RemoveData, Goto, ghostVars
  <2>2. pc'[p] = "rmMeta"
    BY <1>v, <2>1
  <2>3. Current(val[p]) /\ config.l1 /\ (~overlap[p] /\ op[p] = "delete" => l0 = None)
    BY <1>t, <2>1 DEF FlightOK, L1Steps
  <2>4. QED
    BY <1>c, <1>t, <2>1, <2>2, <2>3, FlightStep DEF DataSteps
<1>9. ASSUME NEW p \in Procs, RemoveMeta(p) PROVE StaleInv'
  <2> DEFINE takesEffect == op[p] = "delete" /\ ~overlap[p] /\ (dataFile = None \/ metaFile' = "none")
  <2>1. /\ UNCHANGED <<config, truth, l0, dataFile, base, seen, overlap, op, val>> /\ pc[p] = "rmMeta"
        /\ metaFile' \in {metaFile, "none"}
        /\ pc' = [pc EXCEPT ![p] = IF op[p] = "delete" THEN "idle" ELSE "load"]
        /\ floor' = IF takesEffect THEN base[p] ELSE floor
    BY <1>9 DEF RemoveMeta, Goto
  <2>2. CASE takesEffect
    <3>1. l0 = None
      BY <1>t, <2>1, <2>2 DEF FlightOK
    <3>2. QED
      BY <1>c, <1>t, <2>1, <2>2, <3>1, InvalidateStep
  <2>3. CASE ~takesEffect
    <3>1. pc'[p] \in {"load", "idle"} /\ floor' = floor /\ (op[p] = "delete" => pc'[p] = "idle")
      BY <1>v, <2>1, <2>3
    <3>2. Current(val[p])
      BY <1>t, <2>1 DEF FlightOK
    <3>3. \A q \in Procs : q # p => pc'[q] = pc[q] /\ val'[q] = val[q]
      BY <1>v, <2>1
    <3>4. QED
      BY <1>c, <1>t, <2>1, <3>1, <3>2, <3>3, FlightStep DEF L1Steps, DataSteps
  <2>4. QED
    BY <2>2, <2>3
<1>10. CASE UpdateSource
  <2>1. UNCHANGED <<config, l0, dataFile, metaFile, pc, op, val, overlap, base, floor, seen>> /\ truth' = truth + 1
    BY <1>10 DEF UpdateSource, tierVars, ghostVars
  <2>2. floor .. truth \subseteq floor' .. truth' /\ floor' <= truth'
    BY <1>t, <2>1
  <2>3. TierInv'
    BY <1>t, <2>1, <2>2 DEF TierInv, Current
  <2>4. ASSUME NEW q \in Procs PROVE FlightOK(q)' /\ RestOK(q)'
    <3>1. FlightOK(q) /\ RestOK(q)
      BY <1>t
    <3>2. FlightOK(q)'
      BY <2>1, <2>2, <3>1 DEF FlightOK, Current
    <3>3. QED
      BY <2>1, <3>1, <3>2 DEF RestOK
  <2>5. QED
    BY <1>t, <2>3, <2>4 DEF StaleInv
<1>11. ASSUME UNCHANGED <<config, truth, dataFile, pc, op, val, overlap, base, floor, seen>>, l0' \in {l0, None},
              metaFile' \in {metaFile, "expired"}
       PROVE  StaleInv'
  <2>1. TierInv'
    BY <1>c, <1>t, <1>11 DEF TierInv, Current
  <2>2. ASSUME NEW q \in Procs PROVE FlightOK(q)' /\ RestOK(q)'
    <3>1. FlightOK(q) /\ RestOK(q)
      BY <1>t
    <3>2. FlightOK(q)'
      BY <1>11, <3>1 DEF FlightOK, Current
    <3>3. QED
      BY <1>11, <3>1, <3>2 DEF RestOK
  <2>3. QED
    BY <1>t, <2>1, <2>2 DEF StaleInv
<1>12. CASE ExpireL0 \/ ExpireL1 \/ UNCHANGED vars
  BY <1>11, <1>12 DEF ExpireL0, ExpireL1, vars, tierVars, ghostVars
<1>13. CASE Restart
  <2>1. /\ UNCHANGED <<config, truth, dataFile, metaFile, floor>> /\ l0' = None
        /\ pc' = [p \in Procs |-> "idle"] /\ val' = [p \in Procs |-> None]
    BY <1>13 DEF Restart
  <2>2. TierInv'
    BY <1>c, <1>t, <2>1 DEF TierInv, Current
  <2>3. \A q \in Procs : pc'[q] = "idle" /\ val'[q] = None
    BY <2>1
  <2>4. QED
    BY <1>t, <2>2, <2>3 DEF StaleInv, FlightOK, RestOK
<1>14. QED
  BY <1>1, <1>2, <1>4, <1>5, <1>6, <1>7, <1>8, <1>9, <1>10, <1>12, <1>13 DEF Next, Step

(* A Get that starts after an undisturbed Invalidate that removed a file of *)
(* L1 returns nothing older than the source held when the Invalidate was    *)
(* called, whatever expires, fails, restarts or overlaps afterwards         *)
(* (methods.go Delete, internals.go deleteL1Files).                         *)
THEOREM NothingStale == Spec => []NoStaleAfterInvalidate
<1>1. Init => StaleInv
  <2> SUFFICES ASSUME Init PROVE StaleInv
    OBVIOUS
  <2>1. TypeOK
    BY InitType
  <2>2. TierInv
    BY DEF Init, TierInv, Current
  <2>3. \A p \in Procs : pc[p] = "idle" /\ val[p] = None
    BY DEF Init
  <2>4. QED
    BY <2>1, <2>2, <2>3 DEF StaleInv, FlightOK, RestOK
<1>2. StaleInv => NoStaleAfterInvalidate
  BY DEF StaleInv, RestOK, NoStaleAfterInvalidate, Results
<1>3. QED
  BY <1>1, <1>2, NextStale, PTL DEF Spec

-----------------------------------------------------------------------------
(* Agreement of the tiers. *)

(* A step of an operation in flight: alone, it leaves the tiers as its next *)
(* step or the next operation needs them.                                   *)
LEMMA AloneStep ==
    ASSUME AgreeInv, TypeOK, NEW p \in Procs, pc[p] # "idle", UNCHANGED config, calm' => calm,
           \A q \in Procs : q # p => pc'[q] = pc[q],
           ~config.l0 => l0' = None,
           calm' /\ Carries(p) => IF pc'[p] = "idle" THEN Agree' ELSE Carries(p)'
    PROVE  AgreeInv'
<1>1. calm' => Carries(p) /\ \A q \in Procs : q # p => pc'[q] = "idle"
  BY DEF AgreeInv
<1>2. calm' /\ InFlight' = {} => Agree'
  BY <1>1 DEF InFlight
<1>3. ASSUME NEW r \in Procs, pc'[r] # "idle", calm'
      PROVE  Carries(r)' /\ \A q \in Procs : q # r => pc'[q] = "idle"
  <2>1. r = p
    BY <1>1, <1>3
  <2>2. QED
    BY <1>1, <1>3, <2>1
<1>4. QED
  BY <1>2, <1>3 DEF AgreeInv

(* Every step keeps the agreement. *)
LEMMA NextAgree == StaleInv /\ AgreeInv /\ [Next]_vars => AgreeInv'
<1> SUFFICES ASSUME StaleInv, AgreeInv, [Next]_vars PROVE AgreeInv'
  OBVIOUS
<1>t. /\ TypeOK /\ pc \in [Procs -> Steps] /\ val \in [Procs -> Values] /\ linked \in [Procs -> BOOLEAN]
      /\ ~config.l0 => l0 = None
      /\ ~config.l1 => dataFile = None
  BY DEF StaleInv, TypeOK, TierInv, Values, AgreeInv
<1>o. ASSUME NEW p \in Procs, pc[p] # "idle", NEW s, pc' = [pc EXCEPT ![p] = s], UNCHANGED config, calm' => calm,
             ~config.l0 => l0' = None,
             calm' /\ Carries(p) => IF s = "idle" THEN Agree' ELSE Carries(p)'
      PROVE  AgreeInv'
  <2>1. pc'[p] = s /\ \A q \in Procs : q # p => pc'[q] = pc[q]
    BY <1>t, <1>o
  <2>2. QED
    BY <1>o, <1>t, <2>1, AloneStep
<1>1. ASSUME NEW p \in Procs, NEW o \in Ops, Begin(p, o) PROVE AgreeInv'
  <2>1. /\ UNCHANGED <<config, l0, dataFile, metaFile>> /\ pc[p] = "idle" /\ calm' = (calm /\ InFlight = {})
        /\ pc' = [pc EXCEPT ![p] = CASE o = "set" -> "setL0" [] o = "delete" -> "delL0" [] OTHER -> "l0"]
    BY <1>1 DEF Begin, Goto, tierVars
  <2>2. pc'[p] \in {"setL0", "delL0", "l0"} /\ \A q \in Procs : q # p => pc'[q] = pc[q]
    BY <1>t, <2>1
  <2>3. calm' => calm /\ InFlight = {}
    BY <2>1
  <2>4. calm' => Agree' /\ \A q \in Procs : pc[q] = "idle"
    BY <2>1, <2>3 DEF AgreeInv, InFlight, Agree
  <2>5. calm' => Carries(p)'
    BY <2>2, <2>4 DEF Carries
  <2>6. ASSUME NEW r \in Procs, pc'[r] # "idle", calm'
        PROVE  Carries(r)' /\ \A q \in Procs : q # r => pc'[q] = "idle"
    <3>1. r = p
      BY <2>2, <2>4, <2>6
    <3>2. QED
      BY <2>2, <2>4, <2>5, <2>6, <3>1
  <2>7. QED
    BY <1>t, <2>1, <2>4, <2>6 DEF AgreeInv
<1>2. ASSUME NEW p \in Procs, LookupL0(p) PROVE AgreeInv'
  <2>1. UNCHANGED <<config, l0, dataFile, metaFile, calm>> /\ pc[p] = "l0"
    BY <1>2 DEF LookupL0, tierVars, ghostVars
  <2>2. CASE Goto(p, "idle")
    BY <1>o, <1>t, <2>1, <2>2 DEF Goto, Carries, Agree
  <2>3. CASE ~(config.l0 /\ l0 # None) /\ Goto(p, AfterL0)
    <3>1. l0 = None /\ pc' = [pc EXCEPT ![p] = AfterL0] /\ AfterL0 \in {"meta", "load"}
      BY <1>t, <2>3 DEF Goto, AfterL0
    <3>2. pc'[p] \in {"meta", "load"}
      BY <1>t, <3>1
    <3>3. Carries(p)'
      BY <2>1, <3>1, <3>2 DEF Carries
    <3>4. QED
      BY <1>o, <2>1, <3>1, <3>3
  <2>4. QED
    BY <1>2, <2>2, <2>3 DEF LookupL0
<1>3. ASSUME NEW p \in Procs, ReadMeta(p) PROVE AgreeInv'
  <2>1. /\ UNCHANGED <<config, l0, calm>> /\ pc[p] = "meta"
        /\ \E s \in {"load", "data", "rmData"} : pc' = [pc EXCEPT ![p] = s]
    BY <1>3 DEF ReadMeta, Goto, tierVars, ghostVars
  <2>2. PICK s \in {"load", "data", "rmData"} : pc' = [pc EXCEPT ![p] = s]
    BY <2>1
  <2>3. pc'[p] = s
    BY <1>t, <2>2
  <2>4. Carries(p) => Carries(p)'
    BY <2>1, <2>3 DEF Carries
  <2>5. QED
    BY <1>o, <1>t, <2>1, <2>2, <2>4
<1>4. ASSUME NEW p \in Procs, ReadData(p) PROVE AgreeInv'
  <2>1. /\ UNCHANGED <<config, l0, dataFile, calm>> /\ pc[p] = "data"
        /\ \/ pc' = [pc EXCEPT ![p] = "rmData"]
           \/ pc' = [pc EXCEPT ![p] = "promote"] /\ val' = [val EXCEPT ![p] = dataFile]
    BY <1>4 DEF ReadData, Goto, tierVars, ghostVars
  <2>2. pc'[p] = "rmData" \/ (pc'[p] = "promote" /\ val'[p] = dataFile)
    BY <1>t, <2>1
  <2>3. Carries(p) => Carries(p)'
    BY <2>1, <2>2 DEF Carries
  <2>4. QED
    BY <1>o, <1>t, <2>1, <2>3
<1>5. ASSUME NEW p \in Procs, ReadFails(p) \/ WriteFails(p) PROVE AgreeInv'
  <2>1. UNCHANGED <<config, l0>> /\ ~calm' /\ pc[p] # "idle"
    BY <1>5 DEF ReadFails, WriteFails, tierVars
  <2>2. QED
    BY <1>t, <2>1 DEF AgreeInv
<1>6. ASSUME NEW p \in Procs, NEW from \in {"load", "fallback", "reload"}, NEW miss \in {"fallback", "reload", "idle"},
             NEW available, Answer(p, from, miss, available)
      PROVE  AgreeInv'
  <2>1. /\ UNCHANGED <<config, l0, calm>> /\ pc[p] = from
        /\ \E s \in {"setL0", "fallback", "reload", "idle"} : pc' = [pc EXCEPT ![p] = s]
    BY <1>6 DEF Answer, Goto, tierVars, ghostVars
  <2>2. PICK s \in {"setL0", "fallback", "reload", "idle"} : pc' = [pc EXCEPT ![p] = s]
    BY <2>1
  <2>3. pc'[p] = s
    BY <1>t, <2>2
  <2>4. Carries(p) => Carries(p)' /\ Agree'
    BY <2>1, <2>3 DEF Carries, Agree
  <2>5. QED
    BY <1>o, <1>t, <2>1, <2>2, <2>4
<1>7. ASSUME NEW p \in Procs, Load(p) \/ FetchFromFallback(p) \/ Reload(p) PROVE AgreeInv'
  BY <1>6, <1>7 DEF Load, FetchFromFallback, Reload
<1>8. ASSUME NEW p \in Procs, SetL0(p) PROVE AgreeInv'
  <2>1. /\ UNCHANGED <<config, dataFile, metaFile, val, calm>> /\ pc[p] \in {"promote", "setL0"}
        /\ (~config.l0 => l0' = None) /\ l0' \in {None, val[p]}
        /\ pc' = [pc EXCEPT ![p] = IF pc[p] = "promote" THEN "idle" ELSE AfterSetL0]
    BY <1>8, <1>t DEF SetL0, Goto, ghostVars
  <2>2. CASE pc[p] = "promote"
    <3>1. Carries(p) => Agree'
      BY <2>1, <2>2 DEF Carries, Agree
    <3>2. QED
      BY <1>o, <2>1, <2>2, <3>1
  <2>3. CASE pc[p] = "setL0" /\ config.l1
    <3>1. pc' = [pc EXCEPT ![p] = "openData"] /\ pc'[p] = "openData"
      BY <1>t, <2>1, <2>3 DEF AfterSetL0
    <3>2. Carries(p)'
      BY <2>1, <3>1 DEF Carries
    <3>3. QED
      BY <1>o, <2>1, <3>1, <3>2
  <2>4. CASE pc[p] = "setL0" /\ ~config.l1
    <3>1. pc' = [pc EXCEPT ![p] = "idle"] /\ Agree'
      BY <1>t, <2>1, <2>4 DEF AfterSetL0, Agree
    <3>2. QED
      BY <1>o, <2>1, <3>1
  <2>5. QED
    BY <2>1, <2>2, <2>3, <2>4
<1>9. ASSUME NEW p \in Procs, OpenData(p) PROVE AgreeInv'
  <2>1. /\ UNCHANGED <<config, l0, val, calm>> /\ pc[p] = "openData" /\ dataFile' = Torn
        /\ linked' = [linked EXCEPT ![p] = TRUE] /\ pc' = [pc EXCEPT ![p] = "writeData"]
    BY <1>9 DEF OpenData, Goto, ghostVars
  <2>2. pc'[p] = "writeData" /\ linked'[p]
    BY <1>t, <2>1
  <2>3. Carries(p) => Carries(p)'
    BY <2>1, <2>2 DEF Carries
  <2>4. QED
    BY <1>o, <1>t, <2>1, <2>3
<1>10. ASSUME NEW p \in Procs, WriteData(p) PROVE AgreeInv'
  <2>1. /\ UNCHANGED <<config, l0, val, calm>> /\ pc[p] = "writeData" /\ pc' = [pc EXCEPT ![p] = "openMeta"]
        /\ linked[p] /\ dataFile = Torn => dataFile' = val[p]
    BY <1>10 DEF WriteData, Goto, ghostVars
  <2>2. pc'[p] = "openMeta"
    BY <1>t, <2>1
  <2>3. Carries(p) => Carries(p)'
    BY <2>1, <2>2 DEF Carries
  <2>4. QED
    BY <1>o, <1>t, <2>1, <2>3
<1>11. ASSUME NEW p \in Procs, OpenMeta(p) PROVE AgreeInv'
  <2>1. UNCHANGED <<config, l0, dataFile, val, calm>> /\ pc[p] = "openMeta" /\ pc' = [pc EXCEPT ![p] = "writeMeta"]
    BY <1>11 DEF OpenMeta, Goto, ghostVars
  <2>2. pc'[p] = "writeMeta"
    BY <1>t, <2>1
  <2>3. Carries(p) => Carries(p)'
    BY <2>1, <2>2 DEF Carries
  <2>4. QED
    BY <1>o, <1>t, <2>1, <2>3
<1>12. ASSUME NEW p \in Procs, WriteMeta(p) PROVE AgreeInv'
  <2>1. UNCHANGED <<config, l0, dataFile, val, calm>> /\ pc[p] = "writeMeta" /\ pc' = [pc EXCEPT ![p] = "idle"]
    BY <1>12 DEF WriteMeta, Goto, ghostVars
  <2>2. Carries(p) => Agree'
    BY <2>1 DEF Carries, Agree
  <2>3. QED
    BY <1>o, <1>t, <2>1, <2>2
<1>13. ASSUME NEW p \in Procs, DeleteL0(p) PROVE AgreeInv'
  <2>1. /\ UNCHANGED <<config, calm>> /\ pc[p] = "delL0" /\ l0' = None
        /\ \E s \in {"rmData", "idle"} : pc' = [pc EXCEPT ![p] = s]
    BY <1>13 DEF DeleteL0, Goto
  <2>2. PICK s \in {"rmData", "idle"} : pc' = [pc EXCEPT ![p] = s]
    BY <2>1
  <2>3. pc'[p] = s
    BY <1>t, <2>2
  <2>4. Carries(p)' /\ Agree'
    BY <2>1, <2>3 DEF Carries, Agree
  <2>5. QED
    BY <1>o, <2>1, <2>2, <2>4
<1>14. ASSUME NEW p \in Procs, RemoveData(p) \/ RemoveMeta(p) PROVE AgreeInv'
  <2>1. /\ UNCHANGED <<config, l0, calm>> /\ pc[p] \in {"rmData", "rmMeta"}
        /\ \E s \in {"rmMeta", "load", "idle"} : pc' = [pc EXCEPT ![p] = s]
    BY <1>14 DEF RemoveData, RemoveMeta, Goto, ghostVars
  <2>2. PICK s \in {"rmMeta", "load", "idle"} : pc' = [pc EXCEPT ![p] = s]
    BY <2>1
  <2>3. pc'[p] = s
    BY <1>t, <2>2
  <2>4. Carries(p) => Carries(p)' /\ Agree'
    BY <2>1, <2>3 DEF Carries, Agree
  <2>5. QED
    BY <1>o, <1>t, <2>1, <2>2, <2>4
<1>15. ASSUME UNCHANGED <<config, dataFile, pc, val, linked, calm>>, l0' \in {l0, None},
              metaFile' = metaFile \/ metaFile # "none"
       PROVE  AgreeInv'
  <2>1. (Agree => Agree') /\ InFlight' = InFlight
    BY <1>15 DEF Agree, InFlight
  <2>2. \A p \in Procs : Carries(p) => Carries(p)'
    BY <1>15, <2>1 DEF Carries
  <2>3. QED
    BY <1>15, <2>1, <2>2 DEF AgreeInv
<1>16. CASE UpdateSource \/ ExpireL0 \/ ExpireL1 \/ UNCHANGED vars
  BY <1>15, <1>16 DEF UpdateSource, ExpireL0, ExpireL1, vars, tierVars, ghostVars
<1>17. CASE Restart
  <2>1. l0' = None /\ pc' = [p \in Procs |-> "idle"]
    BY <1>17 DEF Restart
  <2>2. \A p \in Procs : pc'[p] = "idle"
    BY <2>1
  <2>3. QED
    BY <2>1, <2>2 DEF AgreeInv, Agree
<1>18. QED
  BY <1>1, <1>2, <1>3, <1>4, <1>5, <1>7, <1>8, <1>9, <1>10, <1>11, <1>12, <1>13, <1>14, <1>16, <1>17 DEF Next, Step

(* Operations that neither overlap nor fail leave the same version in both  *)
(* local tiers.                                                             *)
THEOREM TiersKeepAgreeing == Spec => []TiersAgree
<1>1. Init => StaleInv /\ AgreeInv
  <2> SUFFICES ASSUME Init PROVE StaleInv /\ AgreeInv
    OBVIOUS
  <2>1. TypeOK
    BY InitType
  <2>2. TierInv
    BY DEF Init, TierInv, Current
  <2>3. \A p \in Procs : pc[p] = "idle" /\ val[p] = None
    BY DEF Init
  <2>4. StaleInv
    BY <2>1, <2>2, <2>3 DEF StaleInv, FlightOK, RestOK
  <2>5. AgreeInv
    BY <2>3 DEF Init, AgreeInv, Agree
  <2>6. QED
    BY <2>4, <2>5
<1>2. AgreeInv => TiersAgree
  BY DEF AgreeInv, Agree, TiersAgree
<1>3. QED
  BY <1>1, <1>2, NextStale, NextAgree, PTL DEF Spec
=============================================================================
