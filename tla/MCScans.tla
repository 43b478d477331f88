------------------------------- MODULE MCScans -------------------------------
(* Two workers are enough for one command to overtake another between any two *)
(* of its steps; two addresses tell a narrowed session from its origin.  The   *)
(* scans and the watches of the dispatcher share no state: a behaviour is one  *)
(* of the first or one of the second, and the other stands still.              *)
EXTENDS Scans, Watches, TLC

CONSTANTS a1, a2, w1, w2, w3, exe, template

VARIABLE subject

(* Data that is read-only and code; a module that may lie in either place. *)
Page(code) == [committed |-> TRUE, writable |-> FALSE, executable |-> code, guard |-> FALSE]
GamePages == 0 :> Page(FALSE) @@ 1 :> Page(TRUE)

Allowance(write, patch) == [read |-> TRUE, write |-> write, patch |-> patch]
Allowances == {Allowance(TRUE, TRUE), Allowance(TRUE, FALSE), Allowance(FALSE, FALSE)}

(* 9 does not fit the type of the watch. *)
InRange(v) == v # 9

MCInit ==
  /\ subject \in {"scans", "watches"}
  /\ Init /\ WatchesInit
  /\ subject = "scans" => policy = Allowance(TRUE, TRUE) /\ base[exe] = 0

MCNext ==
  \/ subject = "scans" /\ Next /\ UNCHANGED <<subject, watchVars>>
  \/ subject = "watches" /\ WatchesNext /\ UNCHANGED <<subject, vars>>

MCSpec == MCInit /\ [][MCNext]_<<subject, vars, watchVars>>

ScansSymmetry == Permutations(Workers) \cup Permutations(Addresses)
=============================================================================
