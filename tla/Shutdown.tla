------------------------------ MODULE Shutdown ------------------------------
(***************************************************************************)
(* The ordered shutdown of microservices/shutdown: hooks are registered    *)
(* with a priority while the service runs; WaitForSignal takes a signal,   *)
(* copies the hooks, runs them one priority group at a time with the hooks *)
(* of a group concurrent, and looks at the timeout between groups.         *)
(***************************************************************************)
EXTENDS Integers

CONSTANTS
    Hooks,       \* the hooks the service may register
    Priority,    \* their priorities
    Stubborn     \* hooks that do not watch their context and may run for ever

ASSUME PriorityAssumption == Priority \in [Hooks -> Int]
ASSUME StubbornAssumption == Stubborn \subseteq Hooks

VARIABLES
    hooks,        \* ShutdownManager.hooks, guarded by mu
    terminating,  \* ShutdownManager.terminating
    waiter,       \* where WaitForSignal is
    copied,       \* the copy of hooks it works on
    todo,         \* the hooks of later groups
    run,          \* what became of each hook's function
    expired       \* the context's deadline has passed

vars == <<hooks, terminating, waiter, copied, todo, run, expired>>

Ended == {"ok", "failed"}

(* The types. WaitForSignal never holds a hook that was not registered. *)
TypeOK ==
    /\ hooks \subseteq Hooks
    /\ terminating \in BOOLEAN
    /\ waiter \in {"signal", "copy", "check", "wait", "returned", "crashed"}
    /\ copied \subseteq hooks /\ todo \subseteq copied
    /\ run \in [Hooks -> {"idle", "running", "panicked"} \cup Ended]
    /\ expired \in BOOLEAN

-----------------------------------------------------------------------------
Alive == waiter \notin {"returned", "crashed"}

(* RegisterFunc; Register passes a Shutdowner's method to it. *)
RegisterFunc(h) ==
    /\ Alive
    /\ h \notin hooks
    /\ hooks' = hooks \cup {h}
    /\ UNCHANGED <<copied, terminating, waiter, todo, run, expired>>

(* SIGTERM or SIGINT arrives.  A later signal stays in the channel. *)
Signal ==
    /\ waiter = "signal"
    /\ terminating' = TRUE
    /\ waiter' = "copy"
    /\ UNCHANGED <<hooks, copied, todo, run, expired>>

(* SetShuttingDown: the flag alone, for tests and readiness probes. *)
SetShuttingDown(v) ==
    /\ Alive
    /\ terminating' = v
    /\ UNCHANGED <<hooks, copied, waiter, todo, run, expired>>

CopyHooks_Empty ==
    /\ waiter = "copy"
    /\ copied' = {} /\ todo' = hooks
    /\ waiter' = "check"
    /\ UNCHANGED <<hooks, terminating, run, expired>>

(* The hooks are copied under the lock, sorted and grouped. *)
CopyHooks ==
    /\ waiter = "copy"
    /\ copied' = hooks /\ todo' = hooks
    /\ waiter' = "check"
    /\ UNCHANGED <<hooks, terminating, run, expired>>

(* groupByPriority of the sorted hooks: the first group is the set of hooks *)
(* with the least priority.                                                 *)
FirstGroup_ByPosition(s) == {CHOOSE h \in s : TRUE}

FirstGroup(s) == {h \in s : \A g \in s : Priority[h] <= Priority[g]}

(* The next group starts, all its hooks at once. *)
StartGroup ==
    /\ waiter = "check"
    /\ todo # {}
    /\ ~expired
    /\ run' = [h \in Hooks |-> IF h \in FirstGroup(todo) THEN "running" ELSE run[h]]
    /\ todo' = todo \ FirstGroup(todo)
    /\ waiter' = "wait"
    /\ UNCHANGED <<hooks, copied, terminating, expired>>

(* wg.Wait returns when every hook of the group has. *)
GroupDone_First ==
    /\ waiter = "wait"
    /\ \E h \in Hooks : run[h] \in Ended
    /\ waiter' = "check"
    /\ UNCHANGED <<hooks, copied, terminating, todo, run, expired>>

GroupDone ==
    /\ waiter = "wait"
    /\ \A h \in Hooks : run[h] # "running"
    /\ waiter' = "check"
    /\ UNCHANGED <<hooks, copied, terminating, todo, run, expired>>

Return_IgnoresTimeout ==
    /\ waiter = "check"
    /\ todo = {}
    /\ waiter' = "returned"
    /\ UNCHANGED <<hooks, copied, terminating, todo, run, expired>>

Return_OnFailure ==
    /\ waiter = "check"
    /\ todo = {} \/ expired \/ \E h \in Hooks : run[h] = "failed"
    /\ waiter' = "returned"
    /\ UNCHANGED <<hooks, copied, terminating, todo, run, expired>>

(* After the last group, or at a check that finds the deadline passed. *)
Return ==
    /\ waiter = "check"
    /\ todo = {} \/ expired
    /\ waiter' = "returned"
    /\ UNCHANGED <<hooks, copied, terminating, todo, run, expired>>

(* A hook's function returns, with or without an error: WaitForSignal logs  *)
(* either and goes on.                                                      *)
HookReturns(h) ==
    /\ run[h] = "running"
    /\ Alive
    /\ \E r \in Ended : run' = [run EXCEPT ![h] = r]
    /\ UNCHANGED <<hooks, copied, terminating, waiter, todo, expired>>

(* A panic in a hook's goroutine is not recovered and ends the process. *)
HookPanics(h) ==
    /\ run[h] = "running"
    /\ Alive
    /\ run' = [run EXCEPT ![h] = "panicked"]
    /\ waiter' = "crashed"
    /\ UNCHANGED <<hooks, copied, terminating, todo, expired>>

Timeout ==
    /\ waiter \in {"copy", "check", "wait"}
    /\ ~expired
    /\ expired' = TRUE
    /\ UNCHANGED <<hooks, copied, terminating, waiter, todo, run>>

-----------------------------------------------------------------------------
Init ==
    /\ hooks = {}
    /\ terminating = FALSE
    /\ waiter = "signal"
    /\ copied = {} /\ todo = {}
    /\ run = [h \in Hooks |-> "idle"]
    /\ expired = FALSE

Wait == CopyHooks \/ StartGroup \/ GroupDone \/ Return

Next ==
    \/ \E h \in Hooks : RegisterFunc(h) \/ HookReturns(h) \/ HookPanics(h)
    \/ \E v \in BOOLEAN : SetShuttingDown(v)
    \/ Signal \/ Wait \/ Timeout

(* WaitForSignal runs whenever it can and the deadline passes at last.  A   *)
(* hook that watches its context returns; a stubborn one need not.          *)
Fairness ==
    /\ WF_vars(Wait)
    /\ WF_vars(Timeout)
    /\ \A h \in Hooks \ Stubborn : WF_vars(HookReturns(h))

Spec == Init /\ [][Next]_vars /\ Fairness

-----------------------------------------------------------------------------
(* Properties *)

(* "Hooks are executed by priority (ascending): P0 first, P5 last": while a *)
(* hook runs or has run, no hook of a smaller priority that was registered  *)
(* in time is running or still to come.                                     *)
PriorityOrder == \A g, h \in Hooks :
    (Priority[g] < Priority[h] /\ run[h] # "idle") => run[g] # "running" /\ g \notin todo

(* "Hooks with the same priority run concurrently": a hook does not wait    *)
(* for another of its own group.                                            *)
GroupsStartTogether == \A g, h \in Hooks :
    (Priority[g] = Priority[h] /\ run[h] # "idle") => g \notin todo

(* A hook registered before the signal is not forgotten, even when others   *)
(* fail: WaitForSignal returns with one of them not ended only because the  *)
(* deadline passed.                                                         *)
NothingSkipped ==
    (waiter = "returned" /\ ~expired) => \A h \in copied : run[h] \in Ended

(* "After all hooks complete (or timeout), the process exits": a signal is  *)
(* followed by the return of WaitForSignal (or the crash of the process).   *)
ShutdownCompletes == (waiter # "signal") ~> ~Alive
=============================================================================
