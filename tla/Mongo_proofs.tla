---------------------------- MODULE Mongo_proofs ----------------------------
(***************************************************************************)
(* Proofs about the MongoDB components.  Backpressure, for any buffer      *)
(* size, latencies, thresholds and number of windows.  MongoStore, for any *)
(* number of callers, calls, faults and ObjectIDs: what a call returns is  *)
(* what happened, and an item with an _id field is stored at most once.    *)
(***************************************************************************)
EXTENDS Backpressure, MongoStore, FiniteSetTheorems, TLAPS

-----------------------------------------------------------------------------
(* The 99th percentile exists: among finitely many samples one has the rank *)
(* computeP99 asks for.                                                     *)

(* A finite non-empty set of indices has one with the greatest value. *)
LEMMA GreatestExists ==
    ASSUME NEW A, IsFiniteSet(A), A # {}, NEW f, \A i \in A : f[i] \in Int
    PROVE  \E j \in A : \A i \in A : f[i] <= f[j]
<1> DEFINE Over(j) == {i \in A : f[i] > f[j]}
           Family == {Over(j) : j \in A}
<1>1. Family \subseteq FiniteSubsetsOf(A) /\ Family # {}
  <2>1. \A j \in A : Over(j) \in SUBSET A /\ IsFiniteSet(Over(j))
    BY FS_Subset
  <2>2. QED
    BY <2>1 DEF FiniteSubsetsOf
<1>2. PICK x \in Family : \A y \in Family : ~(<<y, x>> \in StrictSubsetOrdering(A))
  BY <1>1, FS_StrictSubsetOrderingWellFounded, WFMin
<1>3. PICK j \in A : x = Over(j)
  BY <1>2
<1>4. ASSUME NEW k \in A, f[k] > f[j] PROVE FALSE
  <2>1. Over(k) \subseteq Over(j) /\ k \in Over(j) /\ k \notin Over(k)
    BY <1>4
  <2>2. <<Over(k), Over(j)>> \in StrictSubsetOrdering(A)
    BY <2>1 DEF StrictSubsetOrdering
  <2>3. QED
    BY <1>2, <1>3, <2>2
<1>5. QED
  BY <1>4

(* Some value has at least r of the samples at or below it and fewer than r *)
(* of them below it, for every rank r.                                      *)
LEMMA RankExists ==
    ASSUME NEW A, IsFiniteSet(A), NEW f, \A i \in A : f[i] \in Int,
           NEW r \in Nat, r >= 1, r <= Cardinality(A)
    PROVE  \E j \in A : /\ Cardinality({i \in A : f[i] <= f[j]}) >= r
                       /\ Cardinality({i \in A : f[i] < f[j]}) < r
<1> DEFINE UpTo(j) == {i \in A : f[i] <= f[j]}
           Under(j) == {i \in A : f[i] < f[j]}
           Family == {UpTo(j) : j \in {k \in A : Cardinality(UpTo(k)) >= r}}
<1>1. \A j \in A : /\ UpTo(j) \in SUBSET A /\ IsFiniteSet(UpTo(j))
                   /\ Under(j) \in SUBSET A /\ IsFiniteSet(Under(j))
                   /\ Cardinality(UpTo(j)) \in Nat /\ Cardinality(Under(j)) \in Nat
  <2>1. ASSUME NEW B \in SUBSET A PROVE IsFiniteSet(B) /\ Cardinality(B) \in Nat
    BY FS_Subset, FS_CardinalityType
  <2>2. QED
    BY <2>1
<1>2. Family # {}
  <2>1. A # {}
    BY FS_EmptySet
  <2>2. PICK j \in A : \A i \in A : f[i] <= f[j]
    BY <2>1, GreatestExists
  <2>3. UpTo(j) = A
    BY <2>2
  <2>4. QED
    BY <2>3, <1>1
<1>3. Family \subseteq FiniteSubsetsOf(A)
  BY <1>1 DEF FiniteSubsetsOf
<1>4. PICK x \in Family : \A y \in Family : ~(<<y, x>> \in StrictSubsetOrdering(A))
  BY <1>2, <1>3, FS_StrictSubsetOrderingWellFounded, WFMin
<1>5. PICK j \in A : x = UpTo(j) /\ Cardinality(UpTo(j)) >= r
  BY <1>4
<1>6. ASSUME Cardinality(Under(j)) >= r PROVE FALSE
  <2>1. Under(j) # {}
    BY <1>6, FS_EmptySet
  <2>2. PICK k \in Under(j) : \A i \in Under(j) : f[i] <= f[k]
    BY <2>1, <1>1, GreatestExists
  <2>3. UpTo(k) = Under(j)
    BY <2>2
  <2>4. UpTo(k) \in Family
    BY <2>2, <2>3, <1>6
  <2>5. UpTo(k) \subseteq UpTo(j) /\ j \in UpTo(j) /\ j \notin UpTo(k)
    BY <2>2
  <2>6. <<UpTo(k), UpTo(j)>> \in StrictSubsetOrdering(A)
    BY <2>5 DEF StrictSubsetOrdering
  <2>7. QED
    BY <1>4, <1>5, <2>4, <2>6
<1>7. Cardinality(Under(j)) < r
  <2>1. Cardinality(Under(j)) \in Nat
    BY <1>1
  <2> HIDE DEF Under
  <2>2. QED
    BY <2>1, <1>6
<1>8. QED
  BY <1>5, <1>7

(* Latencies and the P99 are integers the thresholds compare with. *)
LEMMA LatencyInt == ASSUME NEW p \in Latencies \cup {0} PROVE p \in Nat
BY LatencyAssumption

(* What computeP99 stores is one of the latencies it read, or 0. *)
LEMMA P99Value == TypeOK => P99 \in Latencies \cup {0}
<1> SUFFICES ASSUME TypeOK, Sampled # {} PROVE P99 \in Latencies \cup {0}
  BY DEF P99
<1>1. Sampled \subseteq Slots /\ IsFiniteSet(Sampled)
  <2>1. IsFiniteSet(Slots)
    BY SizeAssumption, FS_Interval DEF Slots
  <2>2. QED
    BY <2>1, FS_Subset DEF Sampled
<1>2. Cardinality(Sampled) \in Nat /\ Cardinality(Sampled) >= 1
  BY <1>1, FS_EmptySet, FS_CardinalityType
<1>3. P99Rank \in Nat /\ P99Rank >= 1 /\ P99Rank <= Cardinality(Sampled)
  <2>1. \A n \in Nat : n >= 1 =>
            LET r == (99 * n + 99) \div 100 IN r \in Nat /\ r >= 1 /\ r <= n
    OBVIOUS
  <2>2. QED
    BY <1>2, <2>1 DEF P99Rank
<1>4. \A i \in Sampled : buf[i] \in Latencies \cup {0}
  BY <1>1 DEF TypeOK
<1>5. \E v \in {buf[i] : i \in Sampled} :
        /\ Cardinality({i \in Sampled : buf[i] <= v}) >= P99Rank
        /\ Cardinality({i \in Sampled : buf[i] < v}) < P99Rank
  <2>1. \A i \in Sampled : buf[i] \in Nat
    BY <1>4, LatencyInt
  <2>2. \A i \in Sampled : buf[i] \in Int
    BY <2>1
  <2>3. PICK j \in Sampled : /\ Cardinality({i \in Sampled : buf[i] <= buf[j]}) >= P99Rank
                             /\ Cardinality({i \in Sampled : buf[i] < buf[j]}) < P99Rank
    BY <1>1, <1>3, <2>2, RankExists
  <2>4. WITNESS buf[j] \in {buf[i] : i \in Sampled}
  <2>5. QED
    BY <2>3
<1>6. P99 \in {buf[i] : i \in Sampled}
  BY <1>5 DEF P99
<1>7. QED
  BY <1>4, <1>6

-----------------------------------------------------------------------------
(* The initial state is well typed. *)
LEMMA InitType == BackpressureInit => TypeOK
BY SizeAssumption, WindowsAssumption DEF BackpressureInit, TypeOK, Slots, Modes

(* Every step keeps the types. *)
LEMMA NextType == TypeOK /\ [BackpressureNext]_backpressureVars => TypeOK'
<1> SUFFICES ASSUME TypeOK, [BackpressureNext]_backpressureVars PROVE TypeOK'
  OBVIOUS
<1> USE SizeAssumption, WindowsAssumption
<1>1. ASSUME NEW w \in Writers, NEW ms \in Latencies, Reserve(w, ms) PROVE TypeOK'
  <2>1. pos % Size \in Slots
    BY DEF TypeOK, Slots
  <2>2. <<pos % Size, ms>> \in Slots \X Latencies
    BY <2>1
  <2>3. reserved' \in [Writers -> {Idle} \cup (Slots \X Latencies)]
    BY <1>1, <2>2 DEF Reserve, TypeOK
  <2>4. pos' \in Nat
    BY <1>1 DEF Reserve, TypeOK
  <2>5. QED
    BY <1>1, <2>3, <2>4 DEF Reserve, TypeOK
<1>2. ASSUME NEW w \in Writers, Store(w) PROVE TypeOK'
  <2>1. reserved[w] \in Slots \X Latencies
    BY <1>2 DEF Store, TypeOK
  <2>2. samples' \in [Slots -> Latencies \cup {0}]
    BY <1>2, <2>1 DEF Store, TypeOK
  <2>3. reserved' \in [Writers -> {Idle} \cup (Slots \X Latencies)]
    BY <1>2 DEF Store, TypeOK
  <2>4. QED
    BY <1>2, <2>2, <2>3 DEF Store, TypeOK
<1>3. CASE ReadSlot
  <2>1. cursor \in Slots
    BY <1>3 DEF ReadSlot, TypeOK, Slots
  <2>2. buf' \in [Slots -> Latencies \cup {0}] /\ cursor' \in 0 .. Size
    BY <1>3, <2>1 DEF ReadSlot, TypeOK
  <2>3. QED
    BY <1>3, <2>2 DEF ReadSlot, TypeOK
<1>4. CASE EndWindow
  <2>1. P99 \in Latencies \cup {0}
    BY P99Value
  <2>2. recent' \in [Window -> Latencies \cup {0}]
    BY <1>4, <2>1 DEF EndWindow, TypeOK, Window
  <2>3. above' \in [{0, 1} -> Nat]
    BY <1>4 DEF EndWindow, TypeOK, Above
  <2>4. mode' \in Modes
    BY <1>4 DEF EndWindow, TypeOK, ModeAfter, Modes
  <2>5. cursor' \in 0 .. Size /\ windows' \in Nat
    BY <1>4 DEF EndWindow, TypeOK
  <2>6. QED
    BY <1>4, <2>2, <2>3, <2>4, <2>5 DEF EndWindow, TypeOK
<1>5. CASE UNCHANGED backpressureVars
  BY <1>5 DEF backpressureVars, TypeOK
<1>6. QED
  BY <1>1, <1>2, <1>3, <1>4, <1>5 DEF BackpressureNext

(* Type correctness: every slot of the buffer, and so every P99, is a       *)
(* latency some writer recorded, or 0 (backpressure.go record, computeP99). *)
THEOREM TypeCorrect == BackpressureSpec => []TypeOK
BY InitType, NextType, PTL DEF BackpressureSpec

-----------------------------------------------------------------------------
(* The counters.  aboveCount[0] counts windows in a row above the lower     *)
(* threshold, aboveCount[1] those above the backoff threshold: the history  *)
(* of the last windows can be read off them.                                *)
CountsInv ==
    \A k \in Window :
        /\ above[0] >= k <=> \A j \in 1 .. k : recent[j] >= LowestMs
        /\ above[1] >= k <=> \A j \in 1 .. k : recent[j] >= BackoffMs

(* Which windows are above the lower threshold. *)
LEMMA LowestIs ==
    /\ LowestMs \in Nat \ {0} /\ BackoffMs \in Nat \ {0} /\ LowestMs <= BackoffMs
    /\ \A p \in Nat : p >= LowestMs <=> p >= BackoffMs \/ p >= ThrottledMs
BY ThresholdAssumption DEF LowestMs

(* The counters are at zero before the first window. *)
LEMMA InitCounts == BackpressureInit => CountsInv
BY LowestIs, WindowsAssumption DEF BackpressureInit, CountsInv, Window

(* Every step keeps the counters in line with the history. *)
LEMMA NextCounts == TypeOK /\ CountsInv /\ [BackpressureNext]_backpressureVars => CountsInv'
<1> SUFFICES ASSUME TypeOK, CountsInv, [BackpressureNext]_backpressureVars PROVE CountsInv'
  OBVIOUS
<1>1. CASE EndWindow
  <2> DEFINE p == P99
  <2>1. p \in Nat
    BY P99Value, LatencyInt
  <2>2. /\ LowestMs \in Nat /\ BackoffMs \in Nat /\ LowestMs <= BackoffMs
        /\ WindowsToTransition \in Nat
    BY LowestIs, WindowsAssumption
  <2>3. /\ above' = Above(p)
        /\ recent' = [k \in Window |-> IF k = 1 THEN p ELSE recent[k - 1]]
    BY <1>1 DEF EndWindow
  <2> HIDE DEF p
  <2>4. above[0] \in Nat /\ above[1] \in Nat
    BY DEF TypeOK
  <2>5. /\ above'[0] = IF p >= LowestMs THEN above[0] + 1 ELSE 0
        /\ above'[1] = IF p >= BackoffMs THEN above[1] + 1 ELSE 0
    <3>1. ThrottledMs \in Nat /\ (p >= LowestMs <=> p >= BackoffMs \/ p >= ThrottledMs)
      BY <2>1, LowestIs, ThresholdAssumption
    <3>2. QED
      BY <2>1, <2>2, <2>3, <3>1 DEF Above, TypeOK
  <2>6. ASSUME NEW k \in Window, NEW t \in {LowestMs, BackoffMs}
        PROVE  (\A j \in 1 .. k : recent'[j] >= t)
                 <=> (p >= t /\ \A j \in 1 .. k - 1 : recent[j] >= t)
    <3>1. recent'[1] = p /\ \A j \in 2 .. k : recent'[j] = recent[j - 1]
      BY <2>2, <2>3 DEF Window
    <3>2. ASSUME p >= t, \A j \in 1 .. k - 1 : recent[j] >= t, NEW j \in 1 .. k
          PROVE  recent'[j] >= t
      <4>1. CASE j = 1
        BY <3>1, <3>2, <4>1
      <4>2. CASE j # 1
        <5>1. j \in 2 .. k /\ j - 1 \in 1 .. k - 1
          BY <4>2 DEF Window
        <5>2. QED
          BY <3>1, <3>2, <5>1
      <4>3. QED
        BY <4>1, <4>2
    <3>3. ASSUME \A j \in 1 .. k : recent'[j] >= t, NEW j \in 1 .. k - 1
          PROVE  recent[j] >= t
      <4>1. j + 1 \in 1 .. k /\ j + 1 \in 2 .. k /\ (j + 1) - 1 = j
        BY DEF Window
      <4>2. QED
        BY <3>1, <3>3, <4>1
    <3>4. 1 \in 1 .. k
      BY DEF Window
    <3>5. QED
      BY <3>1, <3>2, <3>3, <3>4
  <2>7. ASSUME NEW k \in Window
        PROVE  /\ above[0] + 1 >= k <=> \A j \in 1 .. k - 1 : recent[j] >= LowestMs
               /\ above[1] + 1 >= k <=> \A j \in 1 .. k - 1 : recent[j] >= BackoffMs
    <3>1. CASE k = 1
      BY <3>1, <2>4
    <3>2. CASE k # 1
      <4>1. k - 1 \in Window
        BY <3>2, <2>2 DEF Window
      <4>2. QED
        BY <4>1, <2>4 DEF CountsInv, Window
    <3>3. QED
      BY <3>1, <3>2
  <2>8. QED
    <3> SUFFICES ASSUME NEW k \in Window
                 PROVE  /\ above'[0] >= k <=> \A j \in 1 .. k : recent'[j] >= LowestMs
                        /\ above'[1] >= k <=> \A j \in 1 .. k : recent'[j] >= BackoffMs
      BY DEF CountsInv
    <3>1. k \in Nat /\ k >= 1
      BY DEF Window
    <3>2. QED
      BY <3>1, <2>1, <2>2, <2>4, <2>5, <2>6, <2>7
<1>2. ASSUME UNCHANGED <<above, recent>> PROVE CountsInv'
  BY <1>2 DEF CountsInv
<1>3. QED
  BY <1>1, <1>2 DEF BackpressureNext, Reserve, Store, ReadSlot, backpressureVars

(* What a window that ends does to the mode, in terms of the history. *)
LEMMA WindowMode ==
    ASSUME TypeOK, CountsInv', TypeOK', EndWindow
    PROVE  LET p == recent'[1]
               long(t) == \A k \in Window : recent'[k] >= t
           IN  /\ p \in Nat
               /\ \A k \in Window : k # 1 => recent'[k] = recent[k - 1]
               /\ p < LowestMs => mode' = "Normal"
               /\ p >= BackoffMs => mode' = IF long(BackoffMs) THEN "Backoff" ELSE mode
               /\ (p >= LowestMs /\ p < BackoffMs)
                    => mode' = IF long(LowestMs) THEN "Throttled" ELSE mode
<1> DEFINE p == P99
<1>1. p \in Nat
  BY P99Value, LatencyInt
<1>2. /\ LowestMs \in Nat /\ BackoffMs \in Nat /\ LowestMs <= BackoffMs
      /\ WindowsToTransition \in Nat \ {0}
  BY LowestIs, WindowsAssumption
<1>3. /\ mode' = ModeAfter(p, above')
      /\ recent' = [k \in Window |-> IF k = 1 THEN p ELSE recent[k - 1]]
  BY DEF EndWindow
<1>t. ThrottledMs \in Nat /\ (p >= LowestMs <=> p >= BackoffMs \/ p >= ThrottledMs)
  BY <1>1, LowestIs, ThresholdAssumption
<1> HIDE DEF p
<1>4. recent'[1] = p /\ \A k \in Window : k # 1 => recent'[k] = recent[k - 1]
  BY <1>2, <1>3 DEF Window
<1>5. /\ above'[0] >= WindowsToTransition <=> \A k \in Window : recent'[k] >= LowestMs
      /\ above'[1] >= WindowsToTransition <=> \A k \in Window : recent'[k] >= BackoffMs
  BY <1>2 DEF CountsInv, Window
<1>6. CASE p < LowestMs
  BY <1>1, <1>2, <1>3, <1>4, <1>t, <1>6 DEF ModeAfter
<1>7. CASE p >= BackoffMs
  BY <1>1, <1>2, <1>3, <1>4, <1>5, <1>7 DEF ModeAfter
<1>8. CASE p >= LowestMs /\ p < BackoffMs
  BY <1>1, <1>2, <1>3, <1>4, <1>5, <1>t, <1>8 DEF ModeAfter
<1>9. QED
  BY <1>1, <1>2, <1>4, <1>6, <1>7, <1>8

(* The mode is Normal before the first window. *)
LEMMA InitMode == BackpressureInit => ModeJustified
BY LowestIs, WindowsAssumption DEF BackpressureInit, ModeJustified, Window

(* Every step keeps the mode justified by the history. *)
LEMMA NextMode ==
    TypeOK /\ CountsInv /\ ModeJustified /\ [BackpressureNext]_backpressureVars => ModeJustified'
<1> SUFFICES ASSUME TypeOK, CountsInv, ModeJustified, [BackpressureNext]_backpressureVars PROVE ModeJustified'
  OBVIOUS
<1>1. TypeOK' /\ CountsInv'
  BY NextType, NextCounts
<1>2. CASE EndWindow
  <2> DEFINE p == recent'[1]
             long(t) == \A k \in Window : recent'[k] >= t
  <2>1. /\ p \in Nat
        /\ \A k \in Window : k # 1 => recent'[k] = recent[k - 1]
        /\ p < LowestMs => mode' = "Normal"
        /\ p >= BackoffMs => mode' = IF long(BackoffMs) THEN "Backoff" ELSE mode
        /\ (p >= LowestMs /\ p < BackoffMs)
                    => mode' = IF long(LowestMs) THEN "Throttled" ELSE mode
    BY <1>1, <1>2, WindowMode
  <2>2. /\ LowestMs \in Nat /\ BackoffMs \in Nat /\ LowestMs <= BackoffMs
        /\ 1 \in Window
    BY LowestIs, WindowsAssumption DEF Window
  <2>3. \A k \in Window : recent'[k] \in Nat
    BY <1>1, LatencyInt DEF TypeOK
  <2>4. ASSUME mode' # "Normal" PROVE long(LowestMs)
    <3>1. p >= LowestMs
      BY <2>1, <2>2, <2>4
    <3>2. CASE mode' = mode
      <4>1. \A k \in Window : recent[k] >= LowestMs
        BY <2>4, <3>2 DEF ModeJustified
      <4>2. ASSUME NEW k \in Window, k # 1 PROVE recent'[k] >= LowestMs
        <5>1. k - 1 \in Window
          BY <4>2, WindowsAssumption DEF Window
        <5>2. QED
          BY <2>1, <4>1, <4>2, <5>1
      <4>3. QED
        BY <3>1, <4>2
    <3>3. CASE long(BackoffMs)
      BY <2>2, <2>3, <3>3
    <3>4. QED
      BY <2>1, <2>2, <3>1, <3>2, <3>3
  <2>5. ASSUME long(BackoffMs) PROVE mode' = "Backoff"
    BY <2>1, <2>2, <2>5
  <2>6. QED
    BY <2>1, <2>4, <2>5 DEF ModeJustified
<1>3. ASSUME UNCHANGED <<mode, recent>> PROVE ModeJustified'
  BY <1>3 DEF ModeJustified
<1>4. QED
  BY <1>2, <1>3 DEF BackpressureNext, Reserve, Store, ReadSlot, backpressureVars

(* The mode is never raised without enough windows in a row above the       *)
(* lower threshold, is Backoff after enough above the backoff one, and is   *)
(* Normal after a window below both (backpressure.go computeP99).           *)
THEOREM ModeIsJustified == BackpressureSpec => []ModeJustified
<1>1. BackpressureInit => TypeOK /\ CountsInv /\ ModeJustified
  BY InitType, InitCounts, InitMode
<1>2. TypeOK /\ CountsInv /\ ModeJustified /\ [BackpressureNext]_backpressureVars
        => (TypeOK /\ CountsInv /\ ModeJustified)'
  BY NextType, NextCounts, NextMode
<1>3. QED
  BY <1>1, <1>2, PTL DEF BackpressureSpec

(* A step up to Backoff is taken only at the end of a row of windows that   *)
(* were all above the backoff threshold (backpressure.go computeP99).       *)
THEOREM BackoffHasItsOwnWindows == BackpressureSpec => BackoffNeedsItsOwnWindows
<1> DEFINE A == (mode # "Backoff" /\ mode' = "Backoff")
                    => \A k \in Window : recent'[k] >= BackoffMs
<1>1. BackpressureInit => TypeOK /\ CountsInv
  BY InitType, InitCounts
<1>2. TypeOK /\ CountsInv /\ [BackpressureNext]_backpressureVars => (TypeOK /\ CountsInv)'
  BY NextType, NextCounts
<1>3. TypeOK /\ CountsInv /\ [BackpressureNext]_backpressureVars => [A]_backpressureVars
  <2> SUFFICES ASSUME TypeOK, CountsInv, BackpressureNext, mode # "Backoff", mode' = "Backoff"
               PROVE  \A k \in Window : recent'[k] >= BackoffMs
    OBVIOUS
  <2>1. TypeOK' /\ CountsInv'
    BY NextType, NextCounts
  <2>2. EndWindow
    BY DEF BackpressureNext, Reserve, Store, ReadSlot
  <2>3. recent'[1] \in Nat /\ LowestMs \in Nat /\ BackoffMs \in Nat
    BY <2>1, <2>2, WindowMode, LowestIs
  <2>4. QED
    BY <2>1, <2>2, <2>3, WindowMode
<1>4. QED
  BY <1>1, <1>2, <1>3, PTL DEF BackpressureSpec, BackoffNeedsItsOwnWindows

-----------------------------------------------------------------------------
(* The store. *)

Places == {"idle", "start", "create", "update", "commit"}
Done == {"found", "notfound", "unmatched", "invalid", "empty", "notconnected", "dup"}
Outcomes == Done \cup {"none", "ok", "err"}

(* The types of the call variables and of the transactions. *)
CallType ==
    /\ pc \in [Callers -> Places] /\ result \in [Callers -> Outcomes]
    /\ txn \in [Callers -> {"none", "open", "aborted", "committed"}]
    /\ effect \in [Callers -> Nat] /\ doubt \in [Callers -> BOOLEAN]

(* Where a call is, and how often it has taken effect by then.  A           *)
(* transaction that runs again has left no effect behind; one whose commit  *)
(* is being repeated has taken effect just when the server says so.         *)
CallOK(c) ==
    /\ pc[c] = "idle" => /\ result[c] = "ok" => effect[c] = 1
                         /\ result[c] \in Done => effect[c] = 0
                         /\ result[c] = "err" => doubt[c] \/ effect[c] = 0
    /\ pc[c] \in {"start", "create", "update"} => effect[c] = 0
    /\ pc[c] = "update" => txn[c] \in {"open", "aborted"}
    /\ pc[c] = "commit" =>
          \/ txn[c] \in {"open", "aborted"} /\ effect[c] = 0
          \/ txn[c] = "committed" /\ effect[c] = 1

OutcomeInv == CallType /\ \A c \in Callers : CallOK(c)

(* A typed item is stored, or about to be committed, under the _id its      *)
(* owner holds.                                                             *)
IdInv ==
    /\ DOMAIN ids = Items /\ DOMAIN stored = Ids /\ DOMAIN pending = Callers
    /\ \A c \in Typed : \A d \in Ids :
          /\ \A k \in {1, 2} : stored[d] = <<c, k>> => ids[<<c, k>>] = d
          /\ d \in pending[c] => ids[<<c, 1>>] = d

-----------------------------------------------------------------------------
(* Outcomes. *)

(* A step of one caller leaves the calls of the others as they are. *)
LEMMA OneCaller ==
    ASSUME OutcomeInv, NEW c \in Callers, CallType', CallOK(c)',
           \A e \in Callers : e # c => /\ pc'[e] = pc[e] /\ result'[e] = result[e] /\ txn'[e] = txn[e]
                                       /\ effect'[e] = effect[e] /\ doubt'[e] = doubt[e]
    PROVE  OutcomeInv'
BY DEF OutcomeInv, CallOK

(* A call of one request.  It returns success only for one effect, and      *)
(* refuses only without one.                                                *)
LEMMA ReturnStep ==
    ASSUME OutcomeInv, NEW c \in Callers, NEW k, NEW r \in Outcomes, NEW n \in Nat,
           Return(c, k, r, n), r = "ok" => n = 1, r \in Done => n = 0
    PROVE  OutcomeInv'
<1>1. /\ pc[c] = "idle" /\ result' = [result EXCEPT ![c] = r] /\ effect' = [effect EXCEPT ![c] = n]
      /\ doubt' = [doubt EXCEPT ![c] = (r = "err")] /\ UNCHANGED <<txn, pc>>
  BY DEF Return
<1>2. CallType /\ CallType'
  BY <1>1 DEF OutcomeInv, CallType
<1>3. result'[c] = r /\ effect'[c] = n /\ doubt'[c] = (r = "err") /\ pc'[c] = "idle"
  BY <1>1, <1>2 DEF CallType
<1>4. CallOK(c)'
  BY <1>3 DEF CallOK, Done
<1>5. QED
  BY <1>1, <1>2, <1>4, OneCaller DEF CallType

(* The failed request, and the reply that arrives or is lost. *)
LEMMA FailsStep ==
    ASSUME OutcomeInv, NEW c \in Callers, NEW k, Fails(c, k) PROVE OutcomeInv'
BY ReturnStep DEF Fails, Outcomes, Done

LEMMA RepliesStep ==
    ASSUME OutcomeInv, NEW c \in Callers, NEW k, Replies(c, k, 1) PROVE OutcomeInv'
BY ReturnStep DEF Replies, Outcomes, Done

(* Every method on the shared document. *)
LEMMA OnDocStep ==
    ASSUME OutcomeInv, NEW c \in Callers, NEW k, NEW found \in Done, NEW doc1, OnDoc(c, k, found, doc1)
    PROVE  OutcomeInv'
<1>1. CASE Fails(c, k)
  BY <1>1, FailsStep
<1>2. CASE Replies(c, k, 1)
  BY <1>2, RepliesStep
<1>3. CASE Return(c, k, found, 0)
  BY <1>3, ReturnStep DEF Outcomes, Done
<1>4. QED
  BY <1>1, <1>2, <1>3 DEF OnDoc

(* txnFunc failed before anything took effect. *)
LEMMA AbortStep ==
    ASSUME OutcomeInv, NEW c \in Callers, NEW label, AbortAfter(c, label), pc[c] \in {"create", "update"}
    PROVE  OutcomeInv'
<1>t. CallType /\ CallOK(c)
  BY DEF OutcomeInv
<1>1. UNCHANGED <<effect, doubt>> /\ effect[c] = 0
  BY <1>t DEF AbortAfter, CallOK
<1>2. txn' = [txn EXCEPT ![c] = "aborted"] \/ txn' = txn
  BY DEF AbortAfter
<1>3. \/ pc' = [pc EXCEPT ![c] = "start"] /\ result' = result
      \/ pc' = [pc EXCEPT ![c] = "idle"] /\ result' = [result EXCEPT ![c] = "err"]
  BY DEF AbortAfter, Goto, Finish
<1>4. CallType'
  <2>1. txn' \in [Callers -> {"none", "open", "aborted", "committed"}]
    BY <1>t, <1>2 DEF CallType
  <2>2. pc' \in [Callers -> Places] /\ result' \in [Callers -> Outcomes]
    BY <1>t, <1>3 DEF CallType, Places, Outcomes
  <2>3. QED
    BY <1>t, <1>1, <2>1, <2>2 DEF CallType
<1>5. pc'[c] = "start" \/ (pc'[c] = "idle" /\ result'[c] = "err")
  BY <1>t, <1>3 DEF CallType
<1>6. CallOK(c)'
  BY <1>1, <1>5 DEF CallOK, Done
<1>7. \A e \in Callers : e # c => pc'[e] = pc[e] /\ result'[e] = result[e]
  BY <1>t, <1>3 DEF CallType
<1>8. \A e \in Callers : e # c => txn'[e] = txn[e]
  BY <1>t, <1>2 DEF CallType
<1>9. QED
  BY <1>1, <1>4, <1>6, <1>7, <1>8, OneCaller

(* A commit the server carries out counts once, however often it is sent. *)
LEMMA CommittedStep ==
    ASSUME OutcomeInv, NEW c \in Callers, Committed(c), pc[c] = "commit"
    PROVE  /\ txn' \in [Callers -> {"none", "open", "aborted", "committed"}]
           /\ effect' \in [Callers -> Nat]
           /\ txn'[c] = "committed" /\ effect'[c] = 1
           /\ \A e \in Callers : e # c => txn'[e] = txn[e] /\ effect'[e] = effect[e]
<1>t. CallType /\ CallOK(c)
  BY DEF OutcomeInv
<1>1. CASE txn[c] = "open" /\ Apply(c)
  <2>1. effect[c] = 0
    BY <1>t, <1>1 DEF CallOK
  <2>2. txn' = [txn EXCEPT ![c] = "committed"] /\ effect' = [effect EXCEPT ![c] = @ + 1]
    BY <1>1 DEF Apply
  <2>3. QED
    BY <1>t, <2>1, <2>2 DEF CallType
<1>2. CASE txn[c] = "committed" /\ UNCHANGED <<serverVars, effect>>
  BY <1>t, <1>2 DEF CallType, CallOK, serverVars
<1>3. QED
  BY <1>1, <1>2 DEF Committed

(* Every step keeps the outcomes truthful. *)
LEMMA NextOutcome == OutcomeInv /\ [Next]_vars => OutcomeInv'
<1> SUFFICES ASSUME OutcomeInv, [Next]_vars PROVE OutcomeInv'
  OBVIOUS
<1>t. CallType /\ \A c \in Callers : CallOK(c)
  BY DEF OutcomeInv
<1>1. ASSUME NEW c \in Callers, CreateOne(c) PROVE OutcomeInv'
  <2>1. \/ Fails(c, "CreateOne") \/ Replies(c, "CreateOne", 1) \/ Return(c, "CreateOne", "dup", 0)
    BY <1>1 DEF CreateOne
  <2>2. QED
    BY <2>1, FailsStep, RepliesStep, ReturnStep DEF Outcomes, Done
<1>2. ASSUME NEW c \in Callers, CreateMany(c) PROVE OutcomeInv'
  <2>1. \/ Fails(c, "CreateMany") \/ Replies(c, "CreateMany", 1)
        \/ Return(c, "CreateMany", "err", 1) \/ Return(c, "CreateMany", "dup", 0)
    BY <1>2 DEF CreateMany
  <2>2. QED
    BY <2>1, FailsStep, RepliesStep, ReturnStep DEF Outcomes, Done
<1>3. ASSUME NEW c \in Callers,
             \/ CreateNone(c) \/ DeleteAll(c) \/ InvalidID(c, "FindByID")
             \/ InvalidID(c, "FindByIDAndUpdate") \/ InvalidID(c, "DeleteByID")
      PROVE OutcomeInv'
  BY <1>3, ReturnStep DEF CreateNone, DeleteAll, InvalidID, Outcomes, Done
<1>4. ASSUME NEW c \in Callers,
             \/ FindByIDAndUpdate(c) \/ FindOneAndUpdate(c) \/ FindAndUpdateMany(c)
             \/ DeleteByID(c) \/ DeleteOne(c) \/ DeleteMany(c)
      PROVE OutcomeInv'
  BY <1>4, OnDocStep DEF FindByIDAndUpdate, FindOneAndUpdate, FindAndUpdateMany, DeleteByID,
                         DeleteOne, DeleteMany, Done
<1>5. ASSUME NEW c \in Callers, FindByID(c) \/ FindOne(c) PROVE OutcomeInv'
  <2>1. \E k : Return(c, k, "err", 0) \/ Return(c, k, "found", 0) \/ Return(c, k, "notfound", 0)
    BY <1>5 DEF FindByID, FindOne, Find
  <2>2. QED
    BY <2>1, ReturnStep DEF Outcomes, Done
<1>6. ASSUME NEW c \in Callers, NEW k \in Transactions, RunTransaction(c, k) PROVE OutcomeInv'
  <2>1. /\ effect' = [effect EXCEPT ![c] = 0] /\ doubt' = [doubt EXCEPT ![c] = FALSE]
        /\ pc[c] = "idle" /\ UNCHANGED txn
        /\ \/ result' = [result EXCEPT ![c] = "notconnected"] /\ pc' = pc
           \/ result' = [result EXCEPT ![c] = "none"] /\ pc' = [pc EXCEPT ![c] = "start"]
    BY <1>6 DEF RunTransaction, Goto, serverVars
  <2>2. CallType'
    BY <1>t, <2>1 DEF CallType, Places, Outcomes, Done
  <2>3. effect'[c] = 0 /\ (pc'[c] = "start" \/ (pc'[c] = "idle" /\ result'[c] = "notconnected"))
    BY <1>t, <2>1 DEF CallType
  <2>4. CallOK(c)'
    BY <2>3 DEF CallOK, Done
  <2>5. \A e \in Callers : e # c => pc'[e] = pc[e] /\ result'[e] = result[e]
    BY <1>t, <2>1 DEF CallType
  <2>6. QED
    BY <1>t, <2>1, <2>2, <2>4, <2>5, OneCaller DEF CallType
<1>7. ASSUME NEW c \in Callers, StartTransaction(c) PROVE OutcomeInv'
  <2>1. pc[c] = "start" /\ pc' = [pc EXCEPT ![c] = "create"] /\ UNCHANGED <<txn, result, effect, doubt>>
    BY <1>7 DEF StartTransaction, Goto, serverVars
  <2>2. CallType' /\ pc'[c] = "create"
    BY <1>t, <2>1 DEF CallType, Places
  <2>3. CallOK(c)'
    BY <1>t, <2>1, <2>2 DEF CallOK
  <2>4. QED
    BY <2>1, <2>2, <2>3, OneCaller
<1>8. ASSUME NEW c \in Callers, TxnCreate(c) PROVE OutcomeInv'
  <2>1. CASE \E label : AbortAfter(c, label)
    BY <1>8, <2>1, AbortStep DEF TxnCreate
  <2>2. CASE /\ txn' = [txn EXCEPT ![c] = "open"] /\ Goto(c, "update") /\ UNCHANGED <<result, effect, doubt>>
    <3>1. pc[c] = "create" /\ pc' = [pc EXCEPT ![c] = "update"]
      BY <1>8, <2>2 DEF TxnCreate, Goto
    <3>2. CallType' /\ pc'[c] = "update" /\ txn'[c] = "open"
      BY <1>t, <2>2, <3>1 DEF CallType, Places
    <3>3. CallOK(c)'
      BY <1>t, <2>2, <3>1, <3>2 DEF CallOK
    <3>4. QED
      BY <1>t, <2>2, <3>1, <3>2, <3>3, OneCaller
  <2>3. QED
    BY <1>8, <2>1, <2>2 DEF TxnCreate
<1>9. ASSUME NEW c \in Callers, TxnUpdate(c) PROVE OutcomeInv'
  <2>1. CASE \E label : AbortAfter(c, label)
    BY <1>9, <2>1, AbortStep DEF TxnUpdate
  <2>2. CASE Goto(c, "commit") /\ UNCHANGED <<txn, result, effect, doubt>>
    <3>1. pc[c] = "update" /\ pc' = [pc EXCEPT ![c] = "commit"]
      BY <1>9, <2>2 DEF TxnUpdate, Goto
    <3>2. CallType' /\ pc'[c] = "commit"
      BY <1>t, <2>2, <3>1 DEF CallType, Places
    <3>3. CallOK(c)'
      BY <1>t, <2>2, <3>1, <3>2 DEF CallOK
    <3>4. QED
      BY <1>t, <2>2, <3>1, <3>2, <3>3, OneCaller
  <2>3. QED
    BY <1>9, <2>1, <2>2 DEF TxnUpdate
<1>10. ASSUME NEW c \in Callers, Commit(c) PROVE OutcomeInv'
  <2>1. pc[c] = "commit" /\ CallOK(c)
    BY <1>10, <1>t DEF Commit
  <2>2. CASE Committed(c) /\ Finish(c, "ok") /\ UNCHANGED doubt
    <3>1. pc' = [pc EXCEPT ![c] = "idle"] /\ result' = [result EXCEPT ![c] = "ok"]
      BY <2>2 DEF Finish, Goto
    <3>2. CallType' /\ pc'[c] = "idle" /\ result'[c] = "ok"
      BY <1>t, <2>1, <2>2, <3>1, CommittedStep DEF CallType, Places, Outcomes
    <3>3. CallOK(c)'
      BY <2>1, <2>2, <3>2, CommittedStep DEF CallOK, Done
    <3>4. QED
      BY <1>t, <2>1, <2>2, <3>1, <3>2, <3>3, CommittedStep, OneCaller
  <2>3. CASE /\ Committed(c) \/ UNCHANGED <<serverVars, effect>>
             /\ Goto(c, "commit") /\ UNCHANGED <<result, doubt>>
    <3>1. pc' = [pc EXCEPT ![c] = "commit"] /\ pc'[c] = "commit"
      BY <1>t, <2>3 DEF Goto, CallType
    <3>2. CASE Committed(c)
      <4>1. CallType'
        BY <1>t, <2>1, <2>3, <3>1, <3>2, CommittedStep DEF CallType, Places
      <4>2. CallOK(c)'
        BY <2>1, <3>1, <3>2, CommittedStep DEF CallOK
      <4>3. QED
        BY <2>1, <2>3, <3>1, <3>2, <4>1, <4>2, CommittedStep, OneCaller
    <3>3. CASE UNCHANGED <<serverVars, effect>>
      <4>1. CallType' /\ UNCHANGED txn
        BY <1>t, <2>3, <3>1, <3>3 DEF CallType, Places, serverVars
      <4>2. CallOK(c)'
        BY <2>1, <3>1, <3>3, <4>1 DEF CallOK
      <4>3. QED
        BY <2>3, <3>1, <3>3, <4>1, <4>2, OneCaller
    <3>4. QED
      BY <2>3, <3>2, <3>3
  <2>4. CASE /\ Committed(c) \/ UNCHANGED <<serverVars, effect>>
             /\ Finish(c, "err") /\ doubt' = [doubt EXCEPT ![c] = TRUE]
    <3>1. pc' = [pc EXCEPT ![c] = "idle"] /\ result' = [result EXCEPT ![c] = "err"]
      BY <2>4 DEF Finish, Goto
    <3>2. /\ pc' \in [Callers -> Places] /\ result' \in [Callers -> Outcomes] /\ doubt' \in [Callers -> BOOLEAN]
          /\ pc'[c] = "idle" /\ result'[c] = "err" /\ doubt'[c]
      BY <1>t, <2>4, <3>1 DEF CallType, Places, Outcomes
    <3>3. CallOK(c)'
      BY <3>2 DEF CallOK, Done
    <3>4. /\ txn' \in [Callers -> {"none", "open", "aborted", "committed"}] /\ effect' \in [Callers -> Nat]
          /\ \A e \in Callers : e # c => txn'[e] = txn[e] /\ effect'[e] = effect[e]
      BY <1>t, <2>1, <2>4, CommittedStep DEF CallType, serverVars
    <3>5. QED
      BY <2>4, <3>1, <3>2, <3>3, <3>4, OneCaller DEF CallType
  <2>5. CASE /\ txn[c] = "aborted" /\ UNCHANGED <<serverVars, effect, doubt>>
             /\ IF hasErrorLabel("transient", "transient")
                THEN Goto(c, "start") /\ UNCHANGED <<result, calls>>
                ELSE Finish(c, "err")
    <3>1. pc' = [pc EXCEPT ![c] = "start"] /\ UNCHANGED <<result, txn>>
      BY <2>5 DEF hasErrorLabel, Goto, serverVars
    <3>2. CallType' /\ pc'[c] = "start" /\ effect[c] = 0
      BY <1>t, <2>1, <2>5, <3>1 DEF CallType, Places, CallOK
    <3>3. CallOK(c)'
      BY <2>5, <3>2 DEF CallOK
    <3>4. QED
      BY <2>5, <3>1, <3>2, <3>3, OneCaller
  <2>6. QED
    BY <1>10, <2>2, <2>3, <2>4, <2>5 DEF Commit, RetryCommit
<1>11. ASSUME NEW c \in Callers, Expire(c) PROVE OutcomeInv'
  <2>1. /\ txn[c] = "open" /\ txn' = [txn EXCEPT ![c] = "aborted"] /\ UNCHANGED <<pc, result, effect, doubt>>
    BY <1>11 DEF Expire, callVars
  <2>2. CallType' /\ txn'[c] = "aborted"
    BY <1>t, <2>1 DEF CallType
  <2>3. CallOK(c)'
    BY <1>t, <2>1, <2>2 DEF CallOK
  <2>4. QED
    BY <1>t, <2>1, <2>2, <2>3, OneCaller
<1>12. ASSUME Outage \/ Recover \/ Monitor \/ UNCHANGED vars PROVE OutcomeInv'
  <2>1. UNCHANGED <<pc, result, txn, effect, doubt>>
    BY <1>12 DEF Outage, Recover, Monitor, vars, serverVars, callVars
  <2>2. QED
    BY <2>1 DEF OutcomeInv, CallType, CallOK
<1>13. QED
  BY <1>1, <1>2, <1>3, <1>4, <1>5, <1>6, <1>7, <1>8, <1>9, <1>10, <1>11, <1>12 DEF Next, TxnStep

(* What a call returns is what happened, however often its transaction was  *)
(* run and its commit sent.                                                 *)
THEOREM OutcomesTruthful == Spec => []OutcomeTruthful
<1>1. Init => OutcomeInv
  <2> SUFFICES ASSUME Init PROVE OutcomeInv
    OBVIOUS
  <2>1. CallType
    BY DEF Init, CallType, Places, Outcomes
  <2>2. \A c \in Callers : pc[c] = "idle" /\ result[c] = "none"
    BY DEF Init
  <2>3. QED
    BY <2>1, <2>2 DEF OutcomeInv, CallOK, Done
<1>2. OutcomeInv => OutcomeTruthful
  <2> SUFFICES ASSUME OutcomeInv, NEW c \in Callers, pc[c] = "idle"
               PROVE  CASE result[c] = "ok" -> effect[c] = 1
                        [] result[c] \in Done -> effect[c] = 0
                        [] result[c] = "err" -> doubt[c] \/ effect[c] = 0
                        [] result[c] = "none" -> TRUE
    BY DEF OutcomeTruthful, Done
  <2>1. CallOK(c) /\ result[c] \in Outcomes
    BY DEF OutcomeInv, CallType
  <2>2. QED
    BY <2>1 DEF CallOK, Outcomes, Done
<1>3. QED
  BY <1>1, <1>2, NextOutcome, PTL DEF Spec

-----------------------------------------------------------------------------
(* Identities. *)

(* An _id once filled in stays, and a typed item is written under its own. *)
LEMMA IdStep ==
    ASSUME IdInv, DOMAIN ids' = Items, DOMAIN stored' = Ids, DOMAIN pending' = Callers,
           \A e \in Typed, k \in {1, 2} : ids[<<e, k>>] \in Ids => ids'[<<e, k>>] = ids[<<e, k>>],
           \A e \in Typed, k \in {1, 2}, d \in Ids :
               stored'[d] = <<e, k>> => stored[d] = <<e, k>> \/ ids'[<<e, k>>] = d,
           \A e \in Typed, d \in Ids : d \in pending'[e] => d \in pending[e] \/ ids'[<<e, 1>>] = d
    PROVE  IdInv'
<1>1. ASSUME NEW e \in Typed, NEW d \in Ids, NEW k \in {1, 2}, stored'[d] = <<e, k>>
      PROVE  ids'[<<e, k>>] = d
  <2>1. CASE stored[d] = <<e, k>>
    <3>1. \A j \in {1, 2} : stored[d] = <<e, j>> => ids[<<e, j>>] = d
      BY DEF IdInv
    <3>2. ids[<<e, k>>] = d
      BY <2>1, <3>1, Zenon
    <3>3. QED
      BY <3>2
  <2>2. stored[d] = <<e, k>> \/ ids'[<<e, k>>] = d
    BY <1>1
  <2>3. QED
    BY <2>1, <2>2
<1>2. ASSUME NEW e \in Typed, NEW d \in Ids, d \in pending'[e] PROVE ids'[<<e, 1>>] = d
  BY <1>2 DEF IdInv
<1>3. QED
  BY <1>1, <1>2 DEF IdInv

(* The zero ObjectID is no _id in use. *)
LEMMA ZeroIsNoId == Zero \notin Ids
BY MongoAssumption DEF Zero, Ids

(* setIDAndCreated fills the field of a typed item and keeps it filled. *)
LEMMA KeepStep ==
    ASSUME IdInv, NEW c \in Callers, NEW id, id = setIDAndCreated(<<c, 1>>, {}), ids' = Keep(<<c, 1>>, id)
    PROVE  /\ DOMAIN ids' = Items /\ (c \in Typed => ids'[<<c, 1>>] = id)
           /\ \A e \in Typed, k \in {1, 2} : ids[<<e, k>>] \in Ids => ids'[<<e, k>>] = ids[<<e, k>>]
<1>1. DOMAIN ids = Items /\ <<c, 1>> \in Items /\ <<c, 1>>[1] = c
  BY DEF IdInv, Items
<1>2. CASE c \in Typed
  <2>1. ids' = [ids EXCEPT ![<<c, 1>>] = id]
    BY <1>1, <1>2 DEF Keep
  <2>2. ids[<<c, 1>>] \in Ids => id = ids[<<c, 1>>]
    BY <1>1, <1>2, ZeroIsNoId DEF setIDAndCreated
  <2>3. \A e \in Typed, k \in {1, 2} : <<e, k>> \in Items
    BY MongoAssumption DEF Items
  <2>4. QED
    BY <1>1, <2>1, <2>2, <2>3
<1>3. CASE c \notin Typed
  BY <1>1, <1>3 DEF Keep
<1>4. QED
  BY <1>2, <1>3

(* Every step keeps a typed item under the _id its owner holds. *)
LEMMA NextId == IdInv /\ [Next]_vars => IdInv'
<1> SUFFICES ASSUME IdInv, [Next]_vars PROVE IdInv'
  OBVIOUS
<1>t. DOMAIN ids = Items /\ DOMAIN stored = Ids /\ DOMAIN pending = Callers
  BY DEF IdInv
<1>1. ASSUME UNCHANGED <<ids, stored, pending>> PROVE IdInv'
  BY <1>1, <1>t, IdStep
<1>2. ASSUME NEW c \in Callers, UNCHANGED <<ids, stored>>,
             pending' = pending \/ pending' = [pending EXCEPT ![c] = {}]
      PROVE  IdInv'
  <2>1. DOMAIN pending' = Callers /\ \A e \in Callers : pending'[e] \subseteq pending[e]
    BY <1>t, <1>2
  <2>2. QED
    BY <1>t, <1>2, <2>1, MongoAssumption, IdStep
<1>3. ASSUME NEW c \in Callers, CreateOne(c) PROVE IdInv'
  <2> DEFINE id == setIDAndCreated(<<c, 1>>, {})
  <2>1. ids' = Keep(<<c, 1>>, id) /\ UNCHANGED pending
    BY <1>3 DEF CreateOne, Fails, Replies, Return
  <2>2. stored' = stored \/ stored' = [stored EXCEPT ![id] = <<c, 1>>]
    BY <1>3 DEF CreateOne, Fails
  <2> HIDE DEF id
  <2>3. /\ DOMAIN ids' = Items /\ (c \in Typed => ids'[<<c, 1>>] = id)
        /\ \A e \in Typed, k \in {1, 2} : ids[<<e, k>>] \in Ids => ids'[<<e, k>>] = ids[<<e, k>>]
    BY <2>1, KeepStep DEF id
  <2>4. DOMAIN stored' = Ids /\ \A d \in Ids : stored'[d] = stored[d] \/ (d = id /\ stored'[d] = <<c, 1>>)
    BY <1>t, <2>2
  <2>5. ASSUME NEW e \in Typed, NEW k \in {1, 2}, NEW d \in Ids, stored'[d] = <<e, k>>
        PROVE  stored[d] = <<e, k>> \/ ids'[<<e, k>>] = d
    BY <2>3, <2>4, <2>5
  <2>6. QED
    BY <1>t, <2>1, <2>3, <2>4, <2>5, IdStep
<1>4. ASSUME NEW c \in Callers, CreateMany(c) PROVE IdInv'
  <2> DEFINE a == setIDAndCreated(<<c, 1>>, {})
             b == setIDAndCreated(<<c, 2>>, {a})
  <2>1. /\ ids' = IF c \in Typed THEN [ids EXCEPT ![<<c, 1>>] = a, ![<<c, 2>>] = b] ELSE ids
        /\ UNCHANGED pending
    BY <1>4 DEF CreateMany, Fails, Replies, Return
  <2>2. \/ stored' = stored \/ stored' = [stored EXCEPT ![a] = <<c, 1>>]
        \/ stored' = [[stored EXCEPT ![a] = <<c, 1>>] EXCEPT ![b] = <<c, 2>>]
    BY <1>4 DEF CreateMany, Fails
  <2>3. c \in Typed => /\ ids[<<c, 1>>] \in Ids => a = ids[<<c, 1>>]
                       /\ ids[<<c, 2>>] \in Ids => b = ids[<<c, 2>>]
    BY ZeroIsNoId DEF setIDAndCreated
  <2> HIDE DEF a, b
  <2>4. <<c, 1>> # <<c, 2>> /\ <<c, 1>> \in Items /\ <<c, 2>> \in Items
        /\ \A e \in Typed, k \in {1, 2} : <<e, k>> \in Items
    BY MongoAssumption DEF Items
  <2>5. /\ DOMAIN ids' = Items /\ (c \in Typed => ids'[<<c, 1>>] = a /\ ids'[<<c, 2>>] = b)
        /\ \A e \in Typed, k \in {1, 2} : ids[<<e, k>>] \in Ids => ids'[<<e, k>>] = ids[<<e, k>>]
    BY <1>t, <2>1, <2>3, <2>4
  <2>6. /\ DOMAIN stored' = Ids
        /\ \A d \in Ids : \/ stored'[d] = stored[d]
                          \/ d = a /\ stored'[d] = <<c, 1>>
                          \/ d = b /\ stored'[d] = <<c, 2>>
    BY <1>t, <2>2
  <2>7. ASSUME NEW e \in Typed, NEW k \in {1, 2}, NEW d \in Ids, stored'[d] = <<e, k>>
        PROVE  stored[d] = <<e, k>> \/ ids'[<<e, k>>] = d
    BY <2>5, <2>6, <2>7
  <2>8. QED
    BY <1>t, <2>1, <2>5, <2>6, <2>7, IdStep
<1>5. ASSUME NEW c \in Callers,
             \/ CreateNone(c) \/ FindByIDAndUpdate(c) \/ FindOneAndUpdate(c) \/ FindAndUpdateMany(c)
             \/ DeleteByID(c) \/ DeleteOne(c) \/ DeleteMany(c) \/ DeleteAll(c)
             \/ FindByID(c) \/ FindOne(c) \/ InvalidID(c, "FindByID")
             \/ InvalidID(c, "FindByIDAndUpdate") \/ InvalidID(c, "DeleteByID")
      PROVE  IdInv'
  <2>1. UNCHANGED <<ids, stored, pending>>
    BY <1>5 DEF CreateNone, FindByIDAndUpdate, FindOneAndUpdate, FindAndUpdateMany, DeleteByID,
                DeleteOne, DeleteMany, DeleteAll, FindByID, FindOne, InvalidID, Find, OnDoc,
                Fails, Replies, Return
  <2>2. QED
    BY <1>1, <2>1
<1>6. ASSUME NEW c \in Callers, TxnCreate(c) PROVE IdInv'
  <2> DEFINE id == setIDAndCreated(<<c, 1>>, {})
  <2>1. ids' = Keep(<<c, 1>>, id) /\ UNCHANGED stored
    BY <1>6 DEF TxnCreate, AbortAfter
  <2>2. \/ pending' = pending \/ pending' = [pending EXCEPT ![c] = {id}]
        \/ pending' = [pending EXCEPT ![c] = {}]
    BY <1>6 DEF TxnCreate, AbortAfter
  <2> HIDE DEF id
  <2>3. /\ DOMAIN ids' = Items /\ (c \in Typed => ids'[<<c, 1>>] = id)
        /\ \A e \in Typed, k \in {1, 2} : ids[<<e, k>>] \in Ids => ids'[<<e, k>>] = ids[<<e, k>>]
    BY <2>1, KeepStep DEF id
  <2>4. /\ DOMAIN pending' = Callers
        /\ \A e \in Callers, d \in Ids : d \in pending'[e] => d \in pending[e] \/ (e = c /\ d = id)
    BY <1>t, <2>2
  <2>5. QED
    BY <1>t, <2>1, <2>3, <2>4, MongoAssumption, IdStep
<1>7. ASSUME NEW c \in Callers, TxnUpdate(c) PROVE IdInv'
  <2>1. UNCHANGED <<ids, stored>> /\ (pending' = pending \/ pending' = [pending EXCEPT ![c] = {}])
    BY <1>7 DEF TxnUpdate, AbortAfter
  <2>2. QED
    BY <1>2, <2>1
<1>8. ASSUME NEW c \in Callers, Commit(c) PROVE IdInv'
  <2>1. UNCHANGED ids /\ (Apply(c) \/ UNCHANGED serverVars)
    BY <1>8 DEF Commit, Committed
  <2>2. CASE UNCHANGED serverVars
    BY <1>1, <2>1, <2>2 DEF serverVars
  <2>3. CASE Apply(c)
    <3>1. /\ stored' = [d \in Ids |-> IF d \in pending[c] THEN <<c, 1>> ELSE stored[d]]
          /\ pending' = [pending EXCEPT ![c] = {}]
      BY <2>3 DEF Apply
    <3>2. DOMAIN pending' = Callers /\ \A e \in Callers : pending'[e] \subseteq pending[e]
      BY <1>t, <3>1
    <3>3. ASSUME NEW e \in Typed, NEW k \in {1, 2}, NEW d \in Ids, stored'[d] = <<e, k>>
          PROVE  stored[d] = <<e, k>> \/ ids'[<<e, k>>] = d
      <4>1. CASE d \in pending[c]
        <5>1. e = c /\ k = 1
          BY <3>1, <3>3, <4>1
        <5>2. QED
          BY <2>1, <4>1, <5>1 DEF IdInv
      <4>2. QED
        BY <3>1, <3>3, <4>1
    <3>4. DOMAIN stored' = Ids
      BY <3>1
    <3>5. QED
      BY <1>t, <2>1, <3>2, <3>3, <3>4, MongoAssumption, IdStep
  <2>4. QED
    BY <2>1, <2>2, <2>3
<1>9. ASSUME NEW c \in Callers, Expire(c) PROVE IdInv'
  BY <1>2, <1>9 DEF Expire
<1>10. ASSUME \/ \E c \in Callers : StartTransaction(c) \/ \E k \in Transactions : RunTransaction(c, k)
              \/ Outage \/ Recover \/ Monitor \/ UNCHANGED vars
       PROVE IdInv'
  <2>1. UNCHANGED <<ids, stored, pending>>
    BY <1>10 DEF StartTransaction, RunTransaction, Outage, Recover, Monitor, vars, serverVars
  <2>2. QED
    BY <1>1, <2>1
<1>11. QED
  BY <1>3, <1>4, <1>5, <1>6, <1>7, <1>8, <1>9, <1>10 DEF Next, TxnStep

(* An item with an _id field is never stored twice, however often its       *)
(* caller repeats a create after an error, alone, in a batch or in a        *)
(* transaction.                                                             *)
THEOREM StoredOnce == Spec => []NoTwice
<1>1. Init => IdInv
  <2> SUFFICES ASSUME Init PROVE IdInv
    OBVIOUS
  <2>1. /\ DOMAIN ids = Items /\ DOMAIN stored = Ids /\ DOMAIN pending = Callers
        /\ \A d \in Ids : stored[d] = NoItem
        /\ \A c \in Callers : pending[c] = {}
    BY DEF Init
  <2>2. ASSUME NEW c, NEW k PROVE NoItem # <<c, k>>
    <3>1. DOMAIN NoItem = {} /\ 1 \in DOMAIN <<c, k>>
      BY DEF NoItem
    <3>2. QED
      BY <3>1
  <2>3. QED
    BY <2>1, <2>2, MongoAssumption DEF IdInv
<1>2. IdInv => NoTwice
  <2> SUFFICES ASSUME IdInv, NEW i \in Items, i[1] \in Typed
               PROVE  Cardinality({d \in Ids : stored[d] = i}) <= 1
    BY DEF NoTwice
  <2> DEFINE S == {d \in Ids : stored[d] = i}
  <2>1. PICK c \in Callers, k \in {1, 2} : i = <<c, k>>
    BY DEF Items
  <2>2. c \in Typed
    BY <2>1
  <2>3. \A d \in S : d = ids[i]
    BY <2>1, <2>2 DEF IdInv
  <2>4. S = {} \/ S = {ids[i]}
    BY <2>3
  <2> HIDE DEF S
  <2>5. Cardinality(S) \in {0, 1}
    BY <2>4, FS_EmptySet, FS_Singleton
  <2>6. Cardinality(S) <= 1
    BY <2>5
  <2>7. QED
    BY <2>6 DEF S
<1>3. QED
  BY <1>1, <1>2, NextId, PTL DEF Spec
=============================================================================
