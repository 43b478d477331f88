---------------------------- MODULE CommandService ----------------------------
(***************************************************************************)
(* What a frontend may rely on when it calls CommandExecutor::execute: its *)
(* command starts at most once, it hears of a result only if the command   *)
(* ran to its end, and it is refused only by a service that is closing or  *)
(* that a panicking command has damaged.                                   *)
(***************************************************************************)
CONSTANT Callers

VARIABLES
  phase,    \* idle, asked, running, served or refused, for each caller
  closed,   \* shutdown has begun
  crashed   \* some command panicked

vars == <<phase, closed, crashed>>

Init ==
  /\ phase = [c \in Callers |-> "idle"]
  /\ closed = FALSE
  /\ crashed = FALSE

Move(c, from, to) == phase[c] = from /\ phase' = [phase EXCEPT ![c] = to]

Ask(c)      == Move(c, "idle", "asked") /\ UNCHANGED <<closed, crashed>>
Start(c)    == Move(c, "asked", "running") /\ UNCHANGED <<closed, crashed>>
Complete(c) == Move(c, "running", "served") /\ UNCHANGED <<closed, crashed>>
Refuse(c)   == (closed \/ crashed) /\ Move(c, "asked", "refused") /\ UNCHANGED <<closed, crashed>>

Return(c) ==
  /\ phase[c] \in {"served", "refused"}
  /\ phase' = [phase EXCEPT ![c] = "idle"]
  /\ UNCHANGED <<closed, crashed>>

\* A command panics; the requests that can no longer be served go with it.
Crash(c, others) ==
  /\ phase[c] = "running"
  /\ \A d \in others : phase[d] = "asked"
  /\ phase' = [d \in Callers |-> IF d = c \/ d \in others THEN "refused" ELSE phase[d]]
  /\ crashed' = TRUE
  /\ UNCHANGED closed

Close == closed' = TRUE /\ UNCHANGED <<phase, crashed>>

Next ==
  \/ Close
  \/ \E c \in Callers :
       \/ Ask(c) \/ Start(c) \/ Complete(c) \/ Refuse(c) \/ Return(c)
       \/ \E others \in SUBSET Callers : Crash(c, others)

Spec == Init /\ [][Next]_vars
=============================================================================
