----------------------------- MODULE MCTimerHooks -----------------------------
(* Two or three import slots stand for the four timer functions. *)
EXTENDS TimerHooks, TLC

CONSTANTS t1, t2

Symmetry == Permutations(Threads)

OneEach(s) == s

\* The last slot imports the function the first one imports.
Shared(s) == IF s = NumSlots THEN 1 ELSE s
=============================================================================
