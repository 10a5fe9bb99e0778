---------------------------- MODULE Backpressure ----------------------------
(***************************************************************************)
(* The write backpressure tracker of infrastructure/mongodb/manager:       *)
(* writers record latencies in a lock-free circular buffer, and a ticker   *)
(* goroutine reads the buffer slot by slot, computes its P99 and moves the *)
(* mode between Normal, Throttled and Backoff.                             *)
(***************************************************************************)
EXTENDS Integers, FiniteSets

CONSTANTS
    Writers,              \* goroutines calling RecordWriteLatency
    Latencies,            \* the latencies in ms a write may take
    Size,                 \* capacity of the buffer
    ThrottledMs, BackoffMs,
    WindowsToTransition,  \* the 3 of backpressure.go
    MaxRecords,           \* bound: latencies recorded
    MaxWindows            \* bound: windows computed

ASSUME LatencyAssumption == Latencies \subseteq Nat
ASSUME SizeAssumption == Size \in Nat \ {0}
ASSUME ThresholdAssumption == ThrottledMs \in Nat \ {0} /\ BackoffMs \in Nat \ {0}
ASSUME WindowsAssumption == WindowsToTransition \in Nat \ {0}
ASSUME BoundsAssumption == MaxRecords \in Nat /\ MaxWindows \in Nat

Slots == 0 .. Size - 1
Modes == {"Normal", "Throttled", "Backoff"}

VARIABLES
    samples,     \* the circular buffer
    pos,         \* next write position
    reserved,     \* slot and latency a writer has reserved but not stored, or Idle
    cursor,      \* next slot computeP99 reads; Size when it has read all
    buf,         \* what it read from each slot
    above,       \* aboveCount: 0 throttled, 1 backoff
    mode,
    windows,     \* windows computed
    recent       \* ghost: the P99 of the latest windows, latest first

backpressureVars == <<samples, pos, reserved, cursor, buf, above, mode, windows, recent>>

Idle == <<>>
Window == 1 .. WindowsToTransition

(* The types. Slots hold only latencies that were recorded. *)
TypeOK ==
    /\ samples \in [Slots -> Latencies \cup {0}]
    /\ pos \in Nat
    /\ reserved \in [Writers -> {Idle} \cup (Slots \X Latencies)]
    /\ cursor \in 0 .. Size
    /\ buf \in [Slots -> Latencies \cup {0}]
    /\ above \in [{0, 1} -> Nat]
    /\ mode \in Modes
    /\ windows \in Nat
    /\ recent \in [Window -> Latencies \cup {0}]

-----------------------------------------------------------------------------
(* record: the slot is reserved by an atomic add and stored afterwards.     *)

Reserve(w, ms) ==
    /\ reserved[w] = Idle
    /\ pos < MaxRecords
    /\ pos' = pos + 1
    /\ reserved' = [reserved EXCEPT ![w] = <<pos % Size, ms>>]
    /\ UNCHANGED <<samples, cursor, buf, above, mode, windows, recent>>

Store(w) ==
    /\ reserved[w] # Idle
    /\ samples' = [samples EXCEPT ![reserved[w][1]] = reserved[w][2]]
    /\ reserved' = [reserved EXCEPT ![w] = Idle]
    /\ UNCHANGED <<pos, cursor, buf, above, mode, windows, recent>>

-----------------------------------------------------------------------------
(* computeP99 *)

(* One slot is copied; zero stands for no sample. *)
ReadSlot_PastEnd ==
    /\ cursor <= Size
    /\ windows < MaxWindows
    /\ buf' = [buf EXCEPT ![cursor % Size] = samples[cursor % Size]]
    /\ cursor' = cursor + 1
    /\ UNCHANGED <<samples, pos, reserved, above, mode, windows, recent>>

ReadSlot ==
    /\ cursor < Size
    /\ windows < MaxWindows
    /\ buf' = [buf EXCEPT ![cursor] = samples[cursor]]
    /\ cursor' = cursor + 1
    /\ UNCHANGED <<samples, pos, reserved, above, mode, windows, recent>>

Sampled == {i \in Slots : buf[i] > 0}

(* idx + 1, where idx = ceil(0.99 * len) - 1 *)
P99Rank == (99 * Cardinality(Sampled) + 99) \div 100

(* The value at that rank of the sorted samples; 0 when there is none. *)
P99 == IF Sampled = {} THEN 0
       ELSE CHOOSE v \in {buf[i] : i \in Sampled} :
              /\ Cardinality({i \in Sampled : buf[i] <= v}) >= P99Rank
              /\ Cardinality({i \in Sampled : buf[i] < v}) < P99Rank

Above_KeepsBackoff(p) ==
    IF p >= BackoffMs THEN [above EXCEPT ![0] = @ + 1, ![1] = @ + 1]
    ELSE IF p >= ThrottledMs THEN [above EXCEPT ![0] = @ + 1]
    ELSE [i \in {0, 1} |-> 0]

Above_KeepsThrottled(p) ==
    IF p >= BackoffMs THEN [above EXCEPT ![0] = @ + 1, ![1] = @ + 1]
    ELSE IF p >= ThrottledMs THEN [above EXCEPT ![0] = @ + 1, ![1] = 0]
    ELSE [above EXCEPT ![1] = 0]

(* What a window with this P99 does to the counters and the mode. *)
Above(p) ==
    IF p >= BackoffMs THEN [above EXCEPT ![0] = @ + 1, ![1] = @ + 1]
    ELSE IF p >= ThrottledMs THEN [above EXCEPT ![0] = @ + 1, ![1] = 0]
    ELSE [i \in {0, 1} |-> 0]

ModeAfter(p, count) ==
    CASE p >= BackoffMs /\ count[1] >= WindowsToTransition -> "Backoff"
      [] p < BackoffMs /\ p >= ThrottledMs /\ count[0] >= WindowsToTransition -> "Throttled"
      [] p < BackoffMs /\ p < ThrottledMs -> "Normal"
      [] OTHER -> mode

EndWindow ==
    /\ cursor = Size
    /\ above' = Above(P99)
    /\ mode' = ModeAfter(P99, above')
    /\ cursor' = 0
    /\ windows' = windows + 1
    /\ recent' = [k \in Window |-> IF k = 1 THEN P99 ELSE recent[k - 1]]
    /\ UNCHANGED <<samples, pos, reserved, buf>>

-----------------------------------------------------------------------------
BackpressureInit ==
    /\ samples = [i \in Slots |-> 0]
    /\ pos = 0
    /\ reserved = [w \in Writers |-> Idle]
    /\ cursor = 0
    /\ buf = [i \in Slots |-> 0]
    /\ above = [i \in {0, 1} |-> 0]
    /\ mode = "Normal"
    /\ windows = 0
    /\ recent = [k \in Window |-> 0]

BackpressureNext ==
    \/ \E w \in Writers : Store(w) \/ \E ms \in Latencies : Reserve(w, ms)
    \/ ReadSlot \/ EndWindow

BackpressureSpec == BackpressureInit /\ [][BackpressureNext]_backpressureVars

-----------------------------------------------------------------------------
(* Properties *)

(* The lower threshold: the throttled one, unless the configuration swaps   *)
(* them, which New does not refuse.                                         *)
LowestMs == IF ThrottledMs < BackoffMs THEN ThrottledMs ELSE BackoffMs

(* The mode never rises without WindowsToTransition consecutive windows     *)
(* above the lower threshold, it is Backoff when that many were above the   *)
(* backoff threshold, and one window below both resets it                   *)
(* (manager/backpressure.go:113).                                           *)
ModeJustified ==
    /\ mode # "Normal" => \A k \in Window : recent[k] >= LowestMs
    /\ (\A k \in Window : recent[k] >= BackoffMs) => mode = "Backoff"
    /\ recent[1] < LowestMs => mode = "Normal"

(* "consecutive windows above a threshold": the mode steps up to Backoff    *)
(* only after WindowsToTransition windows that were all above the backoff   *)
(* threshold, never by adding up windows that a milder one interrupted.     *)
BackoffNeedsItsOwnWindows == [][
    (mode # "Backoff" /\ mode' = "Backoff") =>
        \A k \in Window : recent'[k] >= BackoffMs]_backpressureVars

(* "3 consecutive windows above a threshold -> transition UP (Normal->      *)
(* Throttled or Throttled->Backoff)": after that many windows above the     *)
(* throttled threshold the mode is no longer Normal.                        *)
ThreeWindowsRaiseMode ==
    (\A k \in Window : recent[k] >= ThrottledMs) => mode # "Normal"

=============================================================================
