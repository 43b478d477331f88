----------------------------- MODULE GameSelection -----------------------------
(***************************************************************************)
(* Three ways to say which game is meant, one after the other: the filters *)
(* of plan name registered programs, live-match and attach-game find the   *)
(* process of one, and the helpers work in that process.  They hand on     *)
(* names and numbers and share no state.                                   *)
(***************************************************************************)
EXTENDS Attach, LiveMatch, Selection

\* Helpers run in the process that was selected; the process that was selected is the
\* one the user reviewed; and the programs that are planned for are those that were named.
OnlySelected == HelpersSelected /\ SelectionTrue /\ PlanExact
=============================================================================
