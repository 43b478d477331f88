---------------------------- MODULE MCCommandPool ----------------------------
(* Three callers share two workers and a queue of one or two places, so that *)
(* the queue fills, callers block inside submit_lock, and a shutdown meets   *)
(* queued and running commands.                                              *)
EXTENDS CommandPool, TLC

PoolSymmetry == Permutations(Callers) \cup Permutations(Workers) \cup Permutations(Stoppers)
=============================================================================
