------------------------------ MODULE MCRuntime ------------------------------
(* The instance TLC checks: two threads that stop the runtime and one that   *)
(* arms it, next to the bootstrap thread.  Stoppers are interchangeable for  *)
(* the safety runs.                                                          *)
EXTENDS Runtime, TLC

StopperSymmetry == Permutations(Stoppers)
=============================================================================
