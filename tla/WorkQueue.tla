----------------------------- MODULE WorkQueue -----------------------------
(***************************************************************************)
(* What the consumers of a durable promise about each message, without the *)
(* fetch loops, acknowledgements and retries that bring it about: it is    *)
(* tried any number of times, is acked or discarded once and for good, and *)
(* acked only when a handler accepted it or a copy of it is in the dead    *)
(* letter queue.  One that was given up may be taken up again.             *)
(***************************************************************************)
EXTENDS Naturals

CONSTANT Msgs

VARIABLES
    tries,          \* how often each message was handed out
    accepted,       \* the messages some handler accepted
    copies,         \* copies of each message in the dead letter queue
    outcome         \* open, or how the message ended

vars == <<tries, accepted, copies, outcome>>

Init ==
    /\ tries = [m \in Msgs |-> 0] /\ accepted = {}
    /\ copies = [m \in Msgs |-> 0] /\ outcome = [m \in Msgs |-> "open"]

Try(m) ==
    /\ outcome[m] = "open"
    /\ tries' = [tries EXCEPT ![m] = @ + 1]
    /\ UNCHANGED <<accepted, copies, outcome>>

(* Handlers accept what they were given; each of the messages may end with  *)
(* that, or stay open because nobody heard of it.                           *)
Accept(M) ==
    /\ \A m \in M : tries[m] > 0
    /\ accepted' = accepted \cup M
    /\ \E heard \in SUBSET M : outcome' = [m \in Msgs |->
            IF m \in heard /\ outcome[m] = "open" THEN "acked" ELSE outcome[m]]
    /\ UNCHANGED <<tries, copies>>

Copy(m) ==
    /\ tries[m] > 0
    /\ copies' = [copies EXCEPT ![m] = @ + 1]
    /\ UNCHANGED <<tries, accepted, outcome>>

End(m, result) ==
    /\ outcome[m] = "open" /\ tries[m] > 0
    /\ outcome' = [outcome EXCEPT ![m] = result]
    /\ UNCHANGED <<tries, accepted, copies>>

(* A copy in the dead letter queue acks the message as well. *)
Replace(m) == copies[m] > 0 /\ End(m, "acked")

Discard(m) == End(m, "termed")

GiveUp(m) == End(m, "exhausted")

(* The queue is set up anew. *)
Reopen ==
    /\ outcome' = [m \in Msgs |-> IF outcome[m] = "exhausted" THEN "open" ELSE outcome[m]]
    /\ UNCHANGED <<tries, accepted, copies>>

Next ==
    \/ \E m \in Msgs : Try(m) \/ Copy(m) \/ Replace(m) \/ Discard(m) \/ GiveUp(m)
    \/ \E M \in SUBSET Msgs : Accept(M)
    \/ Reopen

Spec == Init /\ [][Next]_vars

=============================================================================
