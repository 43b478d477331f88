---------------------------- MODULE MCScanEngine ----------------------------
(* Scans: the threads of one scan, the searches for patterns and pointers,    *)
(* and a series of scans over values of a few bits; a run has one of them.    *)
EXTENDS ScanEngine, ExactSearch

CONSTANTS w1, w2

\* Small regions whose chunks end inside values, on an alignment, or short of
\* one, an unwanted region between two wanted ones, and candidates in batches.

P == INSTANCE ScanPlan

Region(base, size, scannable) == [base |-> base, size |-> size, scannable |-> scannable]

Layout(chunk, align, width) == [chunk |-> chunk, align |-> align, width |-> width]

Layouts == {Layout(2, 1, 2), Layout(3, 2, 2), Layout(1, 2, 1)}

SomeRegions == {<<Region(10, 4, TRUE)>>,
            <<Region(10, 1, TRUE), Region(20, 2, FALSE), Region(30, 3, TRUE)>>}

SomeCandidates == {<<>>, <<10, 12>>, <<10, 12, 20>>}

ScanPlans ==
  {P!FirstPlan(o, regions) : o \in Layouts, regions \in SomeRegions}
    \cup {P!NextPlan(candidates, width, 2) : candidates \in SomeCandidates, width \in {1, 2}}

SomeHoles == {{}, {12}}

\* Three regions out of order; bytes that make chains of two and three links to 9,
\* a pointer to itself, and pointers that lie across windows.

Pattern(pattern, align, limit, chunk) ==
  [kind |-> "pattern", pattern |-> pattern, align |-> align, limit |-> limit, chunk |-> chunk]
Pointers(align, limit, chunk, depth, reach) ==
  [kind |-> "pointers", target |-> 9, align |-> align, limit |-> limit, chunk |-> chunk,
   depth |-> depth, reach |-> reach]

Asks ==
  {Pattern(<<{1}, {2}>>, 1, 9, 1), Pattern(<<{1}, {2}>>, 2, 9, 3), Pattern(<<{1}, 0 .. 3, {1, 3}>>, 1, 9, 1),
   Pattern(<<{1, 2}, {0, 2}>>, 1, 2, 2), Pattern(<<>>, 1, 1, 1),
   Pattern(<<{1}, {2}>>, 1, 21, 1)}
    \cup {Pointers(align, limit, 2, depth, reach) :
            align \in {1, 2}, limit \in {2, 20}, depth \in {2, 3}, reach \in {1, 2}}
    \cup {Pointers(1, 9, 9, 9, 1), Pointers(1, 21, 2, 2, 1)}

Spread == <<Region(8, 3, TRUE), Region(12, 2, FALSE), Region(4, 4, TRUE)>>

FirstContents ==
  {[a \in 4 .. 13 |-> (<<0, 2, 0, 1, 1, 2, 0, 0, 1, 2>>)[a - 3]],
   [a \in 4 .. 13 |-> (<<2, 1, 2, 1, 0, 2, 0, 0, 1, 2>>)[a - 3]],
   [a \in 4 .. 13 |-> (<<0, 1, 0, 2, 1, 2, 2, 0, 1, 2>>)[a - 3]]}

\* A byte has six values.  f64 has numbers one apart up to 2 and three apart up to 8, f32
\* has 0 and 5; 11 and 10 are the next ones.

Kinds == [u8 |-> "unsigned", i64 |-> "signed", f32 |-> "float", f64 |-> "float"]
Widths == [u8 |-> 1, i64 |-> 2, f32 |-> 1, f64 |-> 2]
Value(kind, n) == [kind |-> kind, class |-> "finite", n |-> n]
NaN == [kind |-> "float", class |-> "nan", n |-> 0]
Inf(sign) == [kind |-> "float", class |-> "inf", n |-> sign]
Numbers == <<0, 1, 2, 5, 8, -1, -2, -5, -8>>
Patterns ==
  [f32 |-> [p \in 0 .. 5 |-> (<<Value("float", 0), Value("float", 5), Inf(1), Value("float", -5), Inf(-1), NaN>>)[p + 1]],
   f64 |-> [p \in 0 .. 35 |-> CASE p \in DOMAIN Numbers -> Value("float", Numbers[p])
                                [] p = 34 -> Inf(1) [] p = 35 -> Inf(-1)
                                [] p = 0 -> Value("float", 0)
                                [] OTHER -> NaN]]
Beyond == [f32 |-> 10, f64 |-> 11]
Entered == {Value("signed", 1), Value("unsigned", 1), Value("unsigned", 7),
            Value("float", 2), Value("float", 8)}
Nothing == [kind |-> "none", class |-> "none", n |-> 0]
Question(op, v, w) == [op |-> op, a |-> v, b |-> w]
Questions ==
  {Question(op, Nothing, Nothing) : op \in {"unknown", "changed", "unchanged", "increased", "decreased"}}
    \cup {Question(op, v, Nothing) : op \in {"increased_by", "decreased_by"}, v \in Entered}
    \cup {Question("increased_by", Value("signed", -1), Nothing), Question("increased_by", NaN, Nothing),
          Question("exact", Value("signed", -1), Nothing),
          Question("not_equal", NaN, Nothing), Question("greater", Value("unsigned", 1), Nothing),
          Question("less_or_equal", Value("float", 1), Nothing),
          Question("between", Value("float", 1), Value("float", 2)),
          Question("between", Value("float", 2), Value("float", 1))}
Held == {<<4, 0>>, <<5, 2>>, <<0, 3>>, <<4, 5>>, <<3, 1>>}

VARIABLE subject

allVars == <<subject, engineVars, searchVars, valueVars>>

\* What does not run stays in one of its initial states.
EngineRests ==
  /\ plan = (CHOOSE p \in ScanPlans : TRUE) /\ mistyped = FALSE /\ unreadable = {} /\ matching = {}
  /\ cancelling = FALSE
SearchRests ==
  /\ search = (CHOOSE s \in Asks : TRUE) /\ memory = (CHOOSE m \in FirstContents : TRUE) /\ illegible = {}
ValuesRest == bytes = (CHOOSE m \in Held : TRUE) /\ type = "u8"

MCInit ==
  /\ subject \in {"engine", "search", "values"}
  /\ subject # "engine" => EngineRests
  /\ subject # "search" => SearchRests
  /\ subject # "values" => ValuesRest
  /\ EngineInit /\ SearchInit /\ ValuesInit

RunEngine == subject = "engine" /\ UNCHANGED <<subject, searchVars, valueVars>>
RunSearch == subject = "search" /\ UNCHANGED <<subject, engineVars, valueVars>>

MCNext ==
  \/ RunEngine /\ EngineNext
  \/ RunSearch /\ SearchNext
  \/ subject = "values" /\ ValuesNext /\ UNCHANGED <<subject, engineVars, searchVars>>

\* The threads of a scan and the search run on; memory and cancellations are up to others.
MCSpec ==
  /\ MCInit /\ [][MCNext]_allVars
  /\ WF_allVars(RunEngine /\ Scanning) /\ WF_allVars(RunSearch /\ Searching)

\* Every scan returns, whatever fails, is cancelled or reaches the limit, and so does
\* every search, however the pointers lead round in circles.
AllFinish ==
  /\ subject = "engine" => Finishes
  /\ subject = "search" => Returns
=============================================================================
