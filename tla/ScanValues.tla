------------------------------ MODULE ScanValues ------------------------------
(***************************************************************************)
(* What values and comparisons mean: ValueType::decode and encode,          *)
(* ScanPredicate::matches, and the series of first and next scans that      *)
(* narrows a session down.  A scan is one step here, ScanEngine has its     *)
(* threads.                                                                 *)
(***************************************************************************)
EXTENDS Integers, Sequences, FiniteSets, SequencesExt

CONSTANTS
  Types,     \* names of value types
  WidthOf,   \* their width in bytes, one or two
  KindOf,    \* and kind: "signed", "unsigned" or "float"
  Radix,     \* values of a byte
  Double,    \* the type f64, in which a scan computes
  Floats,    \* what each pattern of a float type stands for
  Limits,    \* the number next to a float type's largest, where its infinity begins
  Epsilon,   \* options.float_epsilon
  Contents,  \* what the game may put into the memory
  Scalars,   \* values the user may write
  Comparisons, \* and ask for: see Asked
  MaxScans   \* bound: scans

VARIABLES
  bytes,    \* the memory, a sequence
  type,     \* value type of the session
  session,  \* its candidates: the value last read, by address
  wrote,    \* history: what was written, until the memory changes again
  origin,   \* history: the candidates' values when the series of differences began,
            \* and what rounding has taken from their sums since
  sum,      \* history: the differences asked for since
  series,   \* history: how many there were
  scans     \* history: how many scans there were

valueVars == <<bytes, type, session, wrote, origin, sum, series, scans>>

(***************************************************************************)
(* Scalars: a kind, a class and a number.                                  *)
(***************************************************************************)

Number(kind, n) == [kind |-> kind, class |-> "finite", n |-> n]
NoValue == [kind |-> "none", class |-> "none", n |-> 0]
Refused == -1

Integral == [kind : {"signed", "unsigned"}, class : {"finite"}, n : Int]
Exceptional == [kind : {"float"}, class : {"inf"}, n : {-1, 1}] \cup [kind : {"float"}, class : {"nan"}, n : {0}]
Floating == [kind : {"float"}, class : {"finite"}, n : Int] \cup Exceptional

PatternsOf(width) == IF width = 1 THEN Radix ELSE Radix * Radix
Whole(t) == PatternsOf(WidthOf[t])
Wide == PatternsOf(2)

\* Little endian.
At(m, a, width) == IF width = 1 THEN m[a] ELSE m[a] + Radix * m[a + 1]
Byte(p, i) == IF i = 0 THEN p % Radix ELSE (p \div Radix) % Radix

Gap(m, n) == IF m > n THEN m - n ELSE n - m

\* What the patterns of a type of floats stand for, but NaN; an infinity lies at the limit.
FloatTypes == {t \in Types : KindOf[t] = "float"}
FloatsOf == [t \in FloatTypes |-> {v \in {Floats[t][p] : p \in DOMAIN Floats[t]} : v.class # "nan"}]
Place(t, v) == IF v.class = "inf" THEN v.n * Limits[t] ELSE v.n

\* An f64 has every value of an f32, and each has both infinities, a NaN and finite values.
ASSUME ValuesAssumption ==
  /\ WidthOf \in [Types -> {1, 2}] /\ KindOf \in [Types -> {"signed", "unsigned", "float"}]
  /\ Double \in Types /\ KindOf[Double] = "float"
  /\ Radix \in Nat \ {0} /\ Epsilon \in Nat
  /\ \A t \in FloatTypes :
       /\ DOMAIN Floats[t] = 0 .. Whole(t) - 1 /\ Limits[t] \in Nat
       /\ \A p \in DOMAIN Floats[t] : Floats[t][p] \in Floating
       /\ \A v \in Exceptional : \E p \in DOMAIN Floats[t] : Floats[t][p] = v
       /\ \A v \in FloatsOf[t] : v \in FloatsOf[Double] /\ (v.class = "finite" => -Limits[t] < v.n /\ v.n < Limits[t])
  /\ \A m, o \in Contents : m \in Seq(0 .. Radix - 1) /\ Len(m) = Len(o)
  /\ \A v \in Scalars : v \in Integral \cup Floating
  /\ \A q \in Comparisons : q.a \in Integral \cup Floating \cup {NoValue}

\* Fault: what is too large becomes the largest.
RoundedInside(t, x) ==
  LET inside == {v \in FloatsOf[t] : v.class = "finite"}
  IN CHOOSE v \in inside : \A w \in inside : Gap(x, v.n) <= Gap(x, w.n)

\* How far a number is from the nearest value of the type, and that value; beyond the
\* largest it is an infinity.  (Of two as near the code takes the even one; here it is left open.)
Off(t, x) == Min({Gap(x, Place(t, v)) : v \in FloatsOf[t]})
Rounded(t, x) == LET off == Off(t, x) IN CHOOSE v \in FloatsOf[t] : Gap(x, Place(t, v)) = off

Decode(t, p) ==
  CASE KindOf[t] = "unsigned" -> Number("unsigned", p)
    [] KindOf[t] = "signed" -> Number("signed", IF p >= Whole(t) \div 2 THEN p - Whole(t) ELSE p)
    [] KindOf[t] = "float" -> Floats[t][p]

InRange(t, n) ==
  IF KindOf[t] = "signed" THEN n \in -(Whole(t) \div 2) .. Whole(t) \div 2 - 1
                          ELSE n \in 0 .. Whole(t) - 1

\* `as f32`, and an f64 as it is.
Cast(t, v) == IF v.class = "finite" THEN Rounded(t, v.n) ELSE v
PatternOf(t, v) == CHOOSE p \in DOMAIN Floats[t] : Floats[t][p] = v

\* Fault: a value too large is cut to the width.
EncodeCut(t, v) ==
  IF v.kind # KindOf[t] THEN Refused
  ELSE IF v.kind = "float" THEN PatternOf(t, Cast(t, v))
  ELSE v.n % Whole(t)

\* The bytes of a value, or a refusal: of another kind, or a whole number out of range.
\* A float out of range is an infinity.
Encode(t, v) ==
  IF v.kind # KindOf[t] THEN Refused
  ELSE IF v.kind = "float" THEN PatternOf(t, Cast(t, v))
  ELSE IF InRange(t, v.n) THEN v.n % Whole(t) ELSE Refused

(***************************************************************************)
(* ScanPredicate::matches: "yes", "no" or "error".                         *)
(***************************************************************************)

Says(b) == IF b THEN "yes" ELSE "no"
SameKind(l, r) == l.kind = r.kind
Distance(l, r) == Gap(l.n, r.n)
Finite(v) == v.class = "finite"

\* The distance of two floats is an f64, too.
Close(l, r) == LET d == Rounded(Double, Distance(l, r)) IN Finite(d) /\ d.n <= Epsilon

Equals(l, r) ==
  /\ l.class # "nan" /\ r.class # "nan"
  /\ l = r \/ (l.kind = "float" /\ Finite(l) /\ Finite(r) /\ Close(l, r))

\* partial_cmp: a NaN is neither; an infinity is beyond every number of its sign.
Sign(v) == IF v.class = "inf" THEN v.n ELSE 0
Above(l, r) ==
  /\ l.class # "nan" /\ r.class # "nan"
  /\ Sign(l) > Sign(r) \/ (Sign(l) = Sign(r) /\ l.n > r.n)
AtLeast(l, r) == Above(l, r) \/ (l = r /\ l.class # "nan")

NonNegative(v) == v.kind = "unsigned" \/ (Finite(v) /\ v.n >= 0)

\* The sum of a float and a number in f64.
Plus(v, n) == IF Finite(v) THEN Rounded(Double, v.n + n) ELSE v

\* Fault: a sum that overflows goes round.
DifferWrapping(later, earlier, delta) ==
  IF later.kind = "float"
    THEN Equals(later, Plus(earlier, delta.n))
    ELSE (later.n - earlier.n - delta.n) % Wide = 0

\* checked_add: an overflow is no match.  (A difference down is one up the other way.)
Differ(later, earlier, delta) ==
  IF later.kind = "float"
    THEN Equals(later, Plus(earlier, delta.n))
    ELSE later.n = earlier.n + delta.n

Relative == {"changed", "unchanged", "increased", "decreased", "increased_by", "decreased_by"}
Asked(op, a, b) == [op |-> op, a |-> a, b |-> b]

Holds(p, current, previous) ==
  CASE p.op = "unknown" -> TRUE
    [] p.op = "exact" -> Equals(current, p.a)
    [] p.op = "not_equal" -> ~Equals(current, p.a)
    [] p.op = "greater" -> Above(current, p.a)
    [] p.op = "less_or_equal" -> AtLeast(p.a, current)
    [] p.op = "between" -> AtLeast(current, p.a) /\ AtLeast(p.b, current)
    [] p.op = "changed" -> ~Equals(current, previous)
    [] p.op = "unchanged" -> Equals(current, previous)
    [] p.op = "increased" -> Above(current, previous)
    [] p.op = "decreased" -> Above(previous, current)
    [] p.op = "increased_by" -> Differ(current, previous, p.a)
    [] p.op = "decreased_by" -> IF current.kind = "float" THEN Differ(current, previous, [p.a EXCEPT !.n = -@])
                                ELSE Differ(previous, current, p.a)

Verdict(p, current, previous) ==
  CASE p.op \in Relative /\ previous = NoValue -> "error"
    [] p.op \in {"increased_by", "decreased_by"} /\ ~NonNegative(p.a) -> "error"
    [] p.op \notin Relative \cup {"unknown"} /\ ~SameKind(current, p.a) -> "error"
    [] p.op \in {"increased_by", "decreased_by"} /\ ~SameKind(current, p.a) -> "error"
    [] p.op = "between" /\ (~SameKind(p.a, p.b) \/ ~AtLeast(p.b, p.a)) -> "error"
    [] OTHER -> Says(Holds(p, current, previous))

(***************************************************************************)
(* The memory, and the scans                                               *)
(***************************************************************************)

Now(t, a) == Decode(t, At(bytes, a, WidthOf[t]))

NothingWritten == [at |-> 0, type |-> Double, value |-> NoValue]

ValuesInit ==
  /\ bytes \in Contents
  /\ type \in Types /\ session = <<>>
  /\ wrote = NothingWritten
  /\ origin = <<>> /\ sum = 0 /\ series = 0 /\ scans = 0

Difference(p) ==
  CASE p.op = "increased_by" -> p.a.n [] p.op = "decreased_by" -> -p.a.n [] OTHER -> 0
IsDifference(p) == p.op \in {"increased_by", "decreased_by", "unchanged"}

\* What f64 takes from the sum and the distance one comparison computes.
Expected(p, before) == IF p.op = "unchanged" THEN before ELSE Plus(before, Difference(p))
Lost(p, now, before) ==
  IF now.kind = "float" /\ Finite(now) /\ Finite(before)
    THEN Off(Double, before.n + Difference(p)) + Off(Double, Distance(now, Expected(p, before)))
    ELSE 0

\* Of the candidates those that match remain; an error leaves the session as it was.
Narrow(t, p, candidates, before) ==
  LET says == [a \in candidates |-> Verdict(p, Now(t, a), before[a])]
      kept == {a \in candidates : says[a] = "yes"}
  IN /\ scans < MaxScans /\ scans' = scans + 1
     /\ IF \E a \in candidates : says[a] = "error"
          THEN UNCHANGED <<type, session, origin, sum, series>>
          ELSE /\ type' = t /\ session' = [a \in kept |-> Now(t, a)]
               /\ IF IsDifference(p)
                    THEN /\ sum' = sum + Difference(p) /\ series' = series + 1
                         /\ origin' = [a \in kept |->
                              [origin[a] EXCEPT !.lost = @ + Lost(p, Now(t, a), before[a])]]
                    ELSE /\ sum' = 0 /\ series' = 0
                         /\ origin' = [a \in kept |-> [first |-> Now(t, a), lost |-> 0]]
     /\ UNCHANGED <<bytes, wrote>>

FirstScan(t, p) ==
  LET places == {a \in DOMAIN bytes : a + WidthOf[t] - 1 \in DOMAIN bytes}
  IN Narrow(t, p, places, [a \in places |-> NoValue])

NextScan(p) ==
  /\ session # <<>>
  /\ Narrow(type, p, DOMAIN session, session)

Game ==
  /\ bytes' \in Contents \ {bytes}
  /\ wrote' = NothingWritten
  /\ UNCHANGED <<type, session, origin, sum, series, scans>>

\* write_scalar
WriteScalar(a, t, v) ==
  /\ a + WidthOf[t] - 1 \in DOMAIN bytes
  /\ Encode(t, v) # Refused
  /\ LET p == Encode(t, v) IN
       bytes' = [i \in DOMAIN bytes |->
                    IF i \in a .. a + WidthOf[t] - 1 THEN Byte(p, i - a) ELSE bytes[i]]
  /\ wrote' = [at |-> a, type |-> t, value |-> v]
  /\ UNCHANGED <<type, session, origin, sum, series, scans>>

ValuesNext ==
  \/ \E t \in Types, p \in Comparisons : FirstScan(t, p)
  \/ \E p \in Comparisons : NextScan(p)
  \/ \E a \in DOMAIN bytes, t \in Types, v \in Scalars : WriteScalar(a, t, v)
  \/ Game

ValuesSpec == ValuesInit /\ [][ValuesNext]_valueVars

(***************************************************************************)
(* Properties                                                              *)
(***************************************************************************)

\* A value that is written is the value that is read, whatever lay there before, when
\* the type has it: every whole number that is not refused, every f64, and of an f32 what
\* it can hold.  What it cannot hold is read as the nearest value, an infinity counting as
\* the number next to the largest, and never as a NaN.
ReadsWhatWasWritten ==
  wrote.value # NoValue =>
    LET t == wrote.type
        said == wrote.value
        read == Now(t, wrote.at)
        values == {Decode(t, p) : p \in 0 .. Whole(t) - 1}
    IN IF said \in values THEN read = said
       ELSE /\ read.class # "nan"
            /\ \A v \in values : v.class # "nan" =>
                 Gap(said.n, Place(t, read)) <= Gap(said.n, Place(t, v))

\* After a series of scans for differences every candidate that is finite differs from its
\* first value by their sum, in whole numbers and not modulo the width.  A float may be off
\* by epsilon for each of them and by what f64 took from each sum and distance, and by no
\* more; no NaN is left, and an infinity stays the one it was.
SeriesExact ==
  \A a \in DOMAIN session :
    LET first == origin[a].first
        last  == session[a]
    IN series > 0 =>
         /\ first.class # "nan" /\ last.class # "nan"
         /\ first.class = "inf" => last = first
         /\ Finite(last) =>
              Gap(last.n, first.n + sum) <=
                (IF last.kind = "float" THEN series * Epsilon + origin[a].lost ELSE 0)

\* At any moment a next scan for changed values and one for unchanged ones divide
\* the candidates, and so do, of whole numbers, those for larger, smaller and equal ones.
Divided ==
  \A a \in DOMAIN session :
    LET Would(op) == Verdict(Asked(op, NoValue, NoValue), Now(type, a), session[a]) = "yes"
        By(op, v) == Verdict(Asked(op, v, NoValue), Now(type, a), session[a]) = "yes"
    IN /\ Would("changed") # Would("unchanged")
       /\ KindOf[type] # "float" =>
            /\ Would("changed") <=> (Would("increased") \/ Would("decreased"))
            /\ ~(Would("increased") /\ Would("decreased"))
            /\ \A v \in Scalars : v.n > 0 =>
                 /\ By("increased_by", v) => Would("increased")
                 /\ By("decreased_by", v) => Would("decreased")

ValuesExact == ReadsWhatWasWritten /\ SeriesExact /\ Divided

=============================================================================
