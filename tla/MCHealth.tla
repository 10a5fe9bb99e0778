------------------------------ MODULE MCHealth ------------------------------
(* A dependency that is pinged, and a manager (of MongoDB or of ClickHouse). *)
EXTENDS Health, TLC

CONSTANTS redis, database, r1, r2

Symmetry == Permutations({r1, r2})
=============================================================================
