------------------------------- MODULE Selection -------------------------------
(***************************************************************************)
(* `plan` says which of the programs Bottles has registered the user's      *)
(* filters select (bottles_selection.rs).  A name is a sequence of          *)
(* characters, a pattern one that may hold * and ?.                         *)
(***************************************************************************)
EXTENDS Integers, Sequences, SequencesExt

CONSTANTS
  Characters,   \* of names and patterns
  Filters,      \* command lines: [all, bottles, programs, notBottles, notPrograms]
  Inventories,  \* [bottle, programs], each program [name, executable, path]
  Lower,        \* eq_ignore_ascii_case: characters that only differ in case have one
  MaxLength,    \* bounds of validate: 256 bytes in a pattern
  MaxPatterns,  \* and 64 patterns
  Unplanned

Programs == [name : Seq(Characters), executable : Seq(Characters), path : Seq(Characters)]

ASSUME SelectionAssumption ==
  /\ \A f \in Filters : \A list \in {f.bottles, f.programs, f.notBottles, f.notPrograms} :
       list \in Seq(Seq(Characters))
  /\ \A i \in Inventories : i.bottle \in Seq(Characters) /\ i.programs \in Seq(Programs)

VARIABLES filters, inventory, plan

svars == <<filters, inventory, plan>>

(***************************************************************************)
(* Patterns                                                                *)
(***************************************************************************)

Slashed(text) == [n \in DOMAIN text |-> IF text[n] = "\\" THEN "/" ELSE text[n]]

SameLetter(c, d) == Lower[c] = Lower[d]

\* Fault: a * stands for one character at least.
NextPrior1(prior, token, value) ==
  LET next[j \in DOMAIN prior] ==
        IF j = 0 THEN FALSE
        ELSE IF token = "*" THEN prior[j - 1] \/ next[j - 1]
        ELSE prior[j - 1] /\ (token = "?" \/ SameLetter(token, value[j]))
  IN  next

\* One line of the table: whether the pattern up to this token matches the first j
\* characters, from the same for the tokens before it.
NextPrior(prior, token, value) ==
  LET next[j \in DOMAIN prior] ==
        IF j = 0 THEN token = "*" /\ prior[0]
        ELSE IF token = "*" THEN prior[j] \/ next[j - 1]
        ELSE prior[j - 1] /\ (token = "?" \/ SameLetter(token, value[j]))
  IN  next

WildcardMatch(pattern, text) ==
  LET value == Slashed(text)
      line[n \in 0 .. Len(pattern)] ==
        IF n = 0 THEN [j \in 0 .. Len(value) |-> j = 0]
        ELSE NextPrior(line[n - 1], Slashed(pattern)[n], value)
  IN  line[Len(pattern)][Len(value)]

AnyMatch(patterns, text) == \E n \in DOMAIN patterns : WildcardMatch(patterns[n], text)

MatchesProgram(patterns, p) == \E text \in {p.name, p.executable, p.path} : AnyMatch(patterns, text)

(***************************************************************************)
(* Filters                                                                 *)
(***************************************************************************)

\* SelectionRules::validate; a pattern of blanks counts as empty.
ValidFilters(f) ==
  LET patterns == f.bottles \o f.programs \o f.notBottles \o f.notPrograms
  IN  /\ f.all <=> f.bottles \o f.programs = <<>>
      /\ \A n \in DOMAIN patterns : Len(patterns[n]) \in 1 .. MaxLength
      /\ Len(patterns) <= MaxPatterns

Decision(f, bottle, p) ==
  IF AnyMatch(f.notBottles, bottle) THEN "excluded bottle"
  ELSE IF MatchesProgram(f.notPrograms, p) THEN "excluded program"
  ELSE IF f.all \/ /\ f.bottles = <<>> \/ AnyMatch(f.bottles, bottle)
                   /\ f.programs = <<>> \/ MatchesProgram(f.programs, p)
    THEN "selected"
    ELSE "not included"

SelectionInit == filters \in Filters /\ inventory \in Inventories /\ plan = Unplanned

\* SelectionRules::plan
Plan ==
  /\ plan = Unplanned /\ ValidFilters(filters)
  /\ plan' = [n \in DOMAIN inventory.programs |-> Decision(filters, inventory.bottle, inventory.programs[n])]
  /\ UNCHANGED <<filters, inventory>>

SelectionSpec == SelectionInit /\ [][Plan]_svars

(***************************************************************************)
(* Properties                                                              *)
(***************************************************************************)

\* What a pattern means: the text falls into as many pieces as the pattern has
\* characters, each of one character but for those of a *.
Means(pattern, text) ==
  \E cut \in [0 .. Len(pattern) -> 0 .. Len(text)] :
    /\ cut[0] = 0 /\ cut[Len(pattern)] = Len(text)
    /\ \A n \in DOMAIN pattern :
         LET token == Slashed(pattern)[n]
         IN  IF token = "*" THEN cut[n - 1] <= cut[n]
             ELSE /\ cut[n] = cut[n - 1] + 1
                  /\ token = "?" \/ Lower[token] = Lower[Slashed(text)[cut[n]]]

Named(patterns, texts) == \E n \in DOMAIN patterns : \E text \in texts : Means(patterns[n], text)

\* A program is selected if the user named it and did not exclude it: by its bottle
\* and by its name, executable or path, where filters of both kinds are given.
PlanExact ==
  plan # Unplanned => \A n \in DOMAIN inventory.programs :
    LET p     == inventory.programs[n]
        own   == {p.name, p.executable, p.path}
        home  == {inventory.bottle}
    IN  plan[n] = "selected" <=>
          /\ ~Named(filters.notBottles, home) /\ ~Named(filters.notPrograms, own)
          /\ filters.bottles # <<>> => Named(filters.bottles, home)
          /\ filters.programs # <<>> => Named(filters.programs, own)
          /\ filters.all \/ filters.bottles # <<>> \/ filters.programs # <<>>
=============================================================================
