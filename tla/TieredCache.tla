----------------------------- MODULE TieredCache -----------------------------
(***************************************************************************)
(* One key of the tiered cache of infrastructure/tieredcache in one        *)
(* service instance: L0 in RAM (ristretto), L1 as a data file and a        *)
(* metadata file on disk, L2 behind a loader and the HTTP fallback.        *)
(* Goroutines run Get, GetOrLoad, Set and Delete (= Invalidate)            *)
(* concurrently; the client has no lock, so an operation is a sequence of  *)
(* steps between which the others run.  Keys share nothing but statistics, *)
(* which are left out.                                                     *)
(*                                                                         *)
(* The value of the key is the version its source had when it was read.    *)
(* os.WriteFile truncates and then writes: between the two, and after a    *)
(* write that failed, the file holds Torn bytes.                           *)
(***************************************************************************)
EXTENDS Integers

CONSTANTS
    Procs,        \* goroutines using the client
    Configs,      \* the Config records considered
    MaxVersion,   \* bound: updates of the source
    MaxOps,       \* bound: operations started
    MaxFaults     \* bound: failed disk reads, writes and removals, process crashes

ASSUME ConfigsAssumption ==
    Configs \subseteq [l0 : BOOLEAN, l1 : BOOLEAN, loader : BOOLEAN, fallback : BOOLEAN]
ASSUME BoundsAssumption ==
    MaxVersion \in Nat \ {0} /\ MaxOps \in Nat /\ MaxFaults \in Nat

None == 0          \* no entry, no file, or a miss
Torn == -1         \* bytes of a file that is not wholly written
Versions == 1 .. MaxVersion

Ops == {"get", "getOrLoad", "set", "delete"}
Steps == {"idle", "l0", "meta", "data", "load", "fallback", "reload", "promote", "setL0",
          "openData", "writeData", "openMeta", "writeMeta", "delL0", "rmData", "rmMeta"}

VARIABLES
    config,    \* which tiers are enabled
    truth,     \* the version the source holds
    l0,        \* the L0 entry
    dataFile,  \* content of the L1 data file
    metaFile,  \* the L1 metadata: none, valid, expired or torn
    pc, op,    \* step and operation of each goroutine
    val,       \* the value an operation carries, and its result once idle
    linked,    \* the file a goroutine is writing has not been removed meanwhile
    ops,       \* operations started
    faults,    \* faults so far
    overlap,   \* ghost: another operation ran during this one
    calm,      \* ghost: no two operations overlapped and nothing failed yet
    base,      \* ghost: truth when the operation started
    floor,     \* ghost: version of the latest undisturbed invalidation that took effect
    seen       \* ghost: floor when the operation started

tierVars  == <<l0, dataFile, metaFile>>
ghostVars == <<overlap, calm, base, floor, seen>>
vars == <<config, truth, tierVars, pc, op, val, linked, ops, faults, ghostVars>>

(* The types.  A value at rest or in flight is a version the source has     *)
(* had: nothing is served from the future.                                  *)
TypeOK ==
    /\ config \in Configs
    /\ truth \in Versions
    /\ l0 \in {None, Torn} \cup 1 .. truth
    /\ dataFile \in {None, Torn} \cup 1 .. truth
    /\ metaFile \in {"none", "valid", "expired", "torn"}
    /\ pc \in [Procs -> Steps]
    /\ op \in [Procs -> Ops]
    /\ val \in [Procs -> {None, Torn} \cup 1 .. truth]
    /\ linked \in [Procs -> BOOLEAN]
    /\ ops \in Nat /\ faults \in Nat
    /\ overlap \in [Procs -> BOOLEAN] /\ calm \in BOOLEAN
    /\ base \in [Procs -> Versions]
    /\ floor \in 0 .. MaxVersion
    /\ seen \in [Procs -> 0 .. MaxVersion]

-----------------------------------------------------------------------------
Goto(p, s) == pc' = [pc EXCEPT ![p] = s]

(* The step after a miss in L0, and after both local tiers missed. *)
AfterL0 == IF config.l1 THEN "meta" ELSE "load"

(* Whether setL0 is followed by a write to L1. *)
AfterSetL0 == IF config.l1 THEN "openData" ELSE "idle"

InFlight == {p \in Procs : pc[p] # "idle"}

(* A caller starts operation o.  Set is given data its caller loaded from   *)
(* the source.                                                              *)
Begin(p, o) ==
    /\ pc[p] = "idle"
    /\ ops < MaxOps
    /\ ops' = ops + 1
    /\ op' = [op EXCEPT ![p] = o]
    /\ val' = [val EXCEPT ![p] = IF o = "set" THEN truth ELSE None]
    /\ Goto(p, CASE o = "set" -> "setL0" [] o = "delete" -> "delL0" [] OTHER -> "l0")
    /\ overlap' = [q \in Procs |-> IF q = p THEN InFlight # {}
                                   ELSE overlap[q] \/ pc[q] # "idle"]
    /\ calm' = (calm /\ InFlight = {})
    /\ base' = [base EXCEPT ![p] = truth]
    /\ seen' = [seen EXCEPT ![p] = floor]
    /\ UNCHANGED <<config, truth, tierVars, linked, faults, floor>>

(* GetFromL0, and ristretto's Get below it. *)
LookupL0(p) ==
    /\ pc[p] = "l0"
    /\ IF config.l0 /\ l0 # None
       THEN Goto(p, "idle") /\ val' = [val EXCEPT ![p] = l0]
       ELSE Goto(p, AfterL0) /\ UNCHANGED val
    /\ UNCHANGED <<config, truth, tierVars, op, linked, ops, faults, ghostVars>>

(* readL1, metadata: absent is a miss, corrupted or expired removes the     *)
(* entry first, valid goes on to the data file.                             *)
ReadMeta(p) ==
    /\ pc[p] = "meta"
    /\ Goto(p, CASE metaFile = "none" -> "load"
                 [] metaFile = "valid" -> "data"
                 [] OTHER -> "rmData")
    /\ UNCHANGED <<config, truth, tierVars, op, val, linked, ops, faults, ghostVars>>

(* readL1, data: a missing file removes the orphaned metadata, else what    *)
(* the file holds is the value, and Get promotes it to L0.                  *)
ReadData(p) ==
    /\ pc[p] = "data"
    /\ IF dataFile = None
       THEN Goto(p, "rmData") /\ UNCHANGED val
       ELSE Goto(p, "promote") /\ val' = [val EXCEPT ![p] = dataFile]
    /\ UNCHANGED <<config, truth, tierVars, op, linked, ops, faults, ghostVars>>

(* readL1, any other error of os.ReadFile: a miss that removes nothing. *)
ReadFails(p) ==
    /\ faults < MaxFaults
    /\ faults' = faults + 1
    /\ calm' = FALSE
    /\ pc[p] \in {"meta", "data"}
    /\ Goto(p, "load")
    /\ UNCHANGED <<config, truth, tierVars, op, val, linked, ops, overlap, base, floor, seen>>

Answer_BeforeCommit(p, from, miss, available) ==
    /\ pc[p] = from
    /\ \/ /\ available
          /\ val' = [val EXCEPT ![p] = truth + 1]
          /\ Goto(p, "setL0")
       \/ Goto(p, miss) /\ UNCHANGED val
    /\ UNCHANGED <<config, truth, tierVars, op, linked, ops, faults, ghostVars>>

(* The L2 loader, the HTTP fallback and the loader of GetOrLoad answer with *)
(* the source's version, or fail.                                           *)
Answer(p, from, miss, available) ==
    /\ pc[p] = from
    /\ \/ /\ available
          /\ val' = [val EXCEPT ![p] = truth]
          /\ Goto(p, "setL0")
       \/ Goto(p, miss) /\ UNCHANGED val
    /\ UNCHANGED <<config, truth, tierVars, op, linked, ops, faults, ghostVars>>

Load(p) == Answer(p, "load", "fallback", config.loader)

FetchFromFallback(p) ==
    Answer(p, "fallback", IF op[p] = "getOrLoad" THEN "reload" ELSE "idle", config.fallback)

Reload(p) == Answer(p, "reload", "idle", TRUE)

(* setL0: SetWithTTL and Wait.  ristretto updates an entry it holds and may *)
(* decline to admit a new one.                                              *)
SetL0_KeepsEntry(p) ==
    /\ pc[p] \in {"promote", "setL0"}
    /\ l0' = IF config.l0 /\ l0 = None THEN val[p] ELSE l0
    /\ Goto(p, IF pc[p] = "promote" THEN "idle" ELSE AfterSetL0)
    /\ UNCHANGED <<config, truth, dataFile, metaFile, op, val, linked, ops, faults, ghostVars>>

SetL0(p) ==
    /\ pc[p] \in {"promote", "setL0"}
    /\ \/ l0' = IF config.l0 THEN val[p] ELSE l0
       \/ l0 = None /\ UNCHANGED l0
    /\ Goto(p, IF pc[p] = "promote" THEN "idle" ELSE AfterSetL0)
    /\ UNCHANGED <<config, truth, dataFile, metaFile, op, val, linked, ops, faults, ghostVars>>

-----------------------------------------------------------------------------
(* writeL1: the data file is opened (truncated), written, then the metadata *)
(* file likewise.  An error ends the operation: Set and Get swallow it.     *)

OpenData(p) ==
    /\ pc[p] = "openData"
    /\ dataFile' = Torn
    /\ linked' = [linked EXCEPT ![p] = TRUE]
    /\ Goto(p, "writeData")
    /\ UNCHANGED <<config, truth, l0, metaFile, op, val, ops, faults, ghostVars>>

(* A write to a removed file goes nowhere; one over another writer's bytes  *)
(* may leave a mixture.                                                     *)
WriteData(p) ==
    /\ pc[p] = "writeData"
    /\ IF ~linked[p] THEN UNCHANGED dataFile
       ELSE \/ dataFile' = val[p]
            \/ dataFile # Torn /\ dataFile' = Torn
    /\ Goto(p, "openMeta")
    /\ UNCHANGED <<config, truth, l0, metaFile, op, val, linked, ops, faults, ghostVars>>

OpenMeta(p) ==
    /\ pc[p] = "openMeta"
    /\ metaFile' = "torn"
    /\ linked' = [linked EXCEPT ![p] = TRUE]
    /\ Goto(p, "writeMeta")
    /\ UNCHANGED <<config, truth, l0, dataFile, op, val, ops, faults, ghostVars>>

WriteMeta(p) ==
    /\ pc[p] = "writeMeta"
    /\ IF ~linked[p] THEN UNCHANGED metaFile
       ELSE \/ metaFile' = "valid"
            \/ metaFile # "torn" /\ metaFile' = "torn"
    /\ Goto(p, "idle")
    /\ UNCHANGED <<config, truth, l0, dataFile, op, val, linked, ops, faults, ghostVars>>

Unlink(s) == linked' = [q \in Procs |-> linked[q] /\ pc[q] # s]

(* MkdirAll, an open or a write fails.  After a failed data write the file  *)
(* stays as it is; after a failed metadata write the data file is removed,  *)
(* unless that fails too, which nobody is told.                             *)
WriteFails(p) ==
    /\ faults < MaxFaults
    /\ faults' = faults + 1
    /\ calm' = FALSE
    /\ pc[p] \in {"openData", "writeData", "openMeta", "writeMeta"}
    /\ \/ pc[p] \in {"openMeta", "writeMeta"} /\ dataFile' = None /\ Unlink("writeData")
       \/ UNCHANGED <<dataFile, linked>>
    /\ Goto(p, "idle")
    /\ UNCHANGED <<config, truth, l0, metaFile, op, val, ops, overlap, base, floor, seen>>

-----------------------------------------------------------------------------
(* Delete: L0 first, then deleteL1Files, which readL1 also calls and which  *)
(* ignores the error of either os.Remove.                                   *)

DeleteL0_Skipped(p) ==
    /\ pc[p] = "delL0"
    /\ Goto(p, "rmData")
    /\ UNCHANGED <<config, truth, tierVars, op, val, linked, ops, faults, ghostVars>>

DeleteL0(p) ==
    /\ pc[p] = "delL0"
    /\ l0' = None
    /\ Goto(p, IF config.l1 THEN "rmData" ELSE "idle")
    /\ floor' = IF ~config.l1 /\ ~overlap[p] THEN base[p] ELSE floor
    /\ UNCHANGED <<config, truth, dataFile, metaFile, op, val, linked, ops, faults,
                   overlap, calm, base, seen>>

RemoveData(p) ==
    /\ pc[p] = "rmData"
    /\ \/ dataFile' = None /\ Unlink("writeData") /\ UNCHANGED faults
       \/ faults < MaxFaults /\ faults' = faults + 1 /\ UNCHANGED <<dataFile, linked>>
    /\ Goto(p, "rmMeta")
    /\ UNCHANGED <<config, truth, l0, metaFile, op, val, ops, ghostVars>>

(* The last step of Delete, or of the clean-up inside a Get, which then     *)
(* goes on to the loader.  An invalidation takes effect once one of the two *)
(* files is gone.                                                           *)
RemoveMeta(p) ==
    /\ pc[p] = "rmMeta"
    /\ \/ metaFile' = "none" /\ Unlink("writeMeta") /\ UNCHANGED faults
       \/ faults < MaxFaults /\ faults' = faults + 1 /\ UNCHANGED <<metaFile, linked>>
    /\ Goto(p, IF op[p] = "delete" THEN "idle" ELSE "load")
    /\ floor' = IF op[p] = "delete" /\ ~overlap[p] /\ (dataFile = None \/ metaFile' = "none")
                THEN base[p] ELSE floor
    /\ UNCHANGED <<config, truth, l0, dataFile, op, val, ops, overlap, calm, base, seen>>

-----------------------------------------------------------------------------
(* The environment: the source is updated, entries expire or are evicted,   *)
(* the process crashes and New starts on the same L1 directory.             *)

UpdateSource ==
    /\ truth < MaxVersion
    /\ truth' = truth + 1
    /\ UNCHANGED <<config, tierVars, pc, op, val, linked, ops, faults, ghostVars>>

ExpireL0 ==
    /\ l0 # None
    /\ l0' = None
    /\ UNCHANGED <<config, truth, dataFile, metaFile, pc, op, val, linked, ops, faults, ghostVars>>

ExpireL1 ==
    /\ metaFile = "valid"
    /\ metaFile' = "expired"
    /\ UNCHANGED <<config, truth, l0, dataFile, pc, op, val, linked, ops, faults, ghostVars>>

Restart ==
    /\ faults < MaxFaults
    /\ faults' = faults + 1
    /\ l0' = None
    /\ pc' = [p \in Procs |-> "idle"]
    /\ val' = [p \in Procs |-> None]
    /\ calm' = (calm /\ InFlight = {})
    /\ UNCHANGED <<config, truth, dataFile, metaFile, op, linked, ops, overlap, base, floor, seen>>

-----------------------------------------------------------------------------
Init ==
    /\ config \in Configs
    /\ truth = 1
    /\ l0 = None /\ dataFile = None /\ metaFile = "none"
    /\ pc = [p \in Procs |-> "idle"]
    /\ op = [p \in Procs |-> "get"]
    /\ val = [p \in Procs |-> None]
    /\ linked = [p \in Procs |-> FALSE]
    /\ ops = 0 /\ faults = 0
    /\ overlap = [p \in Procs |-> FALSE]
    /\ calm = TRUE
    /\ base = [p \in Procs |-> 1]
    /\ floor = 0
    /\ seen = [p \in Procs |-> 0]

Step(p) ==
    \/ \E o \in Ops : Begin(p, o)
    \/ LookupL0(p) \/ ReadMeta(p) \/ ReadData(p) \/ ReadFails(p)
    \/ Load(p) \/ FetchFromFallback(p) \/ Reload(p) \/ SetL0(p)
    \/ OpenData(p) \/ WriteData(p) \/ OpenMeta(p) \/ WriteMeta(p) \/ WriteFails(p)
    \/ DeleteL0(p) \/ RemoveData(p) \/ RemoveMeta(p)

Next ==
    \/ \E p \in Procs : Step(p)
    \/ UpdateSource \/ ExpireL0 \/ ExpireL1 \/ Restart

Spec == Init /\ [][Next]_vars

-----------------------------------------------------------------------------
(* Properties *)

Results == {p \in Procs : pc[p] = "idle" /\ op[p] \in {"get", "getOrLoad"} /\ val[p] # None}

(* "Invalidate removes a value from local cache only (L0 + L1)": once an    *)
(* Invalidate has run with no other operation on the key in flight and has  *)
(* removed at least one of the two files, a Get that starts later never     *)
(* returns a version older than the source had when it was called, whatever *)
(* expires, fails, restarts or overlaps afterwards.  With both files left,  *)
(* which Delete does not report, the next Get serves the old version.       *)
NoStaleAfterInvalidate == \A p \in Results : val[p] # Torn => val[p] >= seen[p]

(* Without overlap, failed write or crash in mid-operation, the two local   *)
(* tiers hold the same version: Set, the promotion from L1 and the load     *)
(* from L2 write both, so that the expiry of L0 never brings back an older  *)
(* value.                                                                   *)
TiersAgree ==
    (calm /\ InFlight = {} /\ l0 # None /\ dataFile # None /\ metaFile # "none") => l0 = dataFile

(* "data: the cached bytes": what Get returns is a value that was stored,   *)
(* not a part of one.                                                       *)
GetReturnsWholeValue == \A p \in Results : val[p] # Torn
=============================================================================
