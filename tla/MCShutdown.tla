----------------------------- MODULE MCShutdown -----------------------------
(* Small instances of Shutdown for TLC. *)
EXTENDS Shutdown, TLC

CONSTANTS server, consumer, worker, mongo

(* Two consumers of one priority between the HTTP server and a connection. *)
HookPriority == (server :> 0) @@ (consumer :> 1) @@ (worker :> 1) @@ (mongo :> 5)
=============================================================================
