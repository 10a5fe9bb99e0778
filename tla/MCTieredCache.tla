--------------------------- MODULE MCTieredCache ---------------------------
(* Small instances of TieredCache for TLC. *)
EXTENDS TieredCache, TLC

CONSTANTS p1, p2

Cfg(a, b, l, f) == [l0 |-> a, l1 |-> b, loader |-> l, fallback |-> f]

(* The combinations the comment of applyDefaults names. *)
DocumentedConfigs ==
    {Cfg(TRUE, TRUE, TRUE, TRUE), Cfg(FALSE, TRUE, TRUE, FALSE), Cfg(TRUE, FALSE, TRUE, TRUE)}

FullConfig == {Cfg(TRUE, TRUE, TRUE, FALSE)}

Sym == Permutations(Procs)
=============================================================================
