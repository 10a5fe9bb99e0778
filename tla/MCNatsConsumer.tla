--------------------------- MODULE MCNatsConsumer ---------------------------
(* Small instances of NatsConsumer for TLC. *)
EXTENDS NatsConsumer, TLC

CONSTANTS m1, m2, i1, i2

Opt(h, r, q, s) == [handler |-> h, maxRetries |-> r, dlq |-> q, stopOnError |-> s]

(* A V2 handler with a policy and a DLQ, and the bulk handler. *)
SafetyOptions == {Opt("V2", 1, TRUE, FALSE), Opt("Bulk", 1, FALSE, FALSE)}

(* A V2 handler with and without a DLQ, without a policy, and both legacy kinds. *)
LiveOptions ==
    {Opt("V2", 1, TRUE, TRUE), Opt("V2", 1, FALSE, FALSE), Opt("V2", NoPolicy, FALSE, FALSE),
     Opt("Bulk", 1, TRUE, FALSE), Opt("Legacy", 1, FALSE, FALSE)}

(* The policy asks for two retries. *)
TwoRetries == {Opt("V2", 2, TRUE, FALSE)}

(* RetryPolicy{} : MaxRetries is left to its default. *)
ZeroRetries == {Opt("V2", 0, TRUE, FALSE)}

NoPriorDurable == {Absent}

(* The durable was created when the policy allowed one retry. *)
PriorOneRetry == {2}

Sym == Permutations({m1, m2}) \cup Permutations({i1, i2})
=============================================================================
