----------------------------- MODULE MCEventFeed -----------------------------
(* EventFeed for TLC. *)
EXTENDS EventFeed, TLC

CONSTANTS t1, t2

Symmetry == Permutations(GameThreads)

=============================================================================
