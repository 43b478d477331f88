------------------------------- MODULE MCDebugger -------------------------------
(* The debugger core, and the windows in front of it.  The two share no state: a    *)
(* behaviour is one of the first or one of the second, and the other stands still.  *)
EXTENDS Debugger, Windows, TLC

CONSTANTS t1, t2

VARIABLE subject

MCInit ==
  /\ subject \in {"core", "window"}
  /\ Init /\ WindowInit
  /\ subject = "core" => window = "main"

MCNext ==
  \/ subject = "core" /\ Next /\ UNCHANGED <<subject, windowVars>>
  \/ subject = "window" /\ WindowNext /\ UNCHANGED <<subject, vars>>

MCSpec == MCInit /\ [][MCNext]_<<subject, vars, windowVars>>

Symmetry == Permutations(Threads)

=============================================================================
