------------------------------ MODULE ExactSearch ------------------------------
(***************************************************************************)
(* What a user looks for in the memory of a game, beside one scan: places  *)
(* of a pattern, pointers that lead to an address, and values that changed *)
(* in a way over a series of scans.  The three share no state.             *)
(***************************************************************************)
EXTENDS Analysis, ScanValues

\* The searches of analysis.rs and the comparisons of predicate.rs are exact.
SearchExact == PatternExact /\ ChainsExact /\ ValuesExact
=============================================================================
