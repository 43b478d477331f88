----------------------------- MODULE SearchProofs -----------------------------
(***************************************************************************)
(* Theorems about what is searched for, for any memory, regions and        *)
(* unreadable pages, and whatever the game writes meanwhile: that values   *)
(* are compared, narrowed down and written exactly, that a pattern scan     *)
(* reports every place that matched all along, and that a pointer search    *)
(* reports paths to the target, a shortest one for every address that      *)
(* steadily leads there.                                                   *)
(***************************************************************************)
EXTENDS ExactSearch, FiniteSetTheorems, NaturalsInduction, WellFoundedInduction, TLAPS

(***************************************************************************)
(* Bytes and values                                                        *)
(***************************************************************************)

\* The values of a type.
Of(t) == {v \in Integral \cup Floating : v.kind = KindOf[t]}

LEMMA Division ==
  ASSUME NEW n \in Int, NEW w \in Nat \ {0}
  PROVE  \E q \in Int, r \in 0 .. w - 1 : n \div w = q /\ n % w = r /\ n = w * q + r
<1>1. n \div w \in Int /\ n % w \in 0 .. w - 1
  OBVIOUS
<1>2. PICK q \in Int, r \in 0 .. w - 1 : n \div w = q /\ n % w = r
  BY <1>1
<1>3. n = w * q + r
  BY <1>2, SMTT(30)
<1>. QED
  BY <1>2, <1>3, Zenon

\* A number is known by its remainder when it is near.
LEMMA Remainder ==
  ASSUME NEW n \in Int, NEW w \in Nat \ {0}
  PROVE  /\ n \in 0 .. w - 1 => n % w = n
         /\ n < 0 /\ n + w >= 0 => n % w = n + w
<1>1. PICK q \in Int, r \in 0 .. w - 1 : n % w = r /\ n = w * q + r
  BY Division
<1>2. PICK p \in Int : p = w * q
  OBVIOUS
<1>3. q >= 1 => p >= w
  <2>1. ASSUME q >= 1 PROVE w * q >= w
    <3>1. PICK d \in Nat : q = d + 1
      <4>1. q - 1 \in Nat /\ q = (q - 1) + 1
        BY <1>1, <2>1
      <4>. QED
        BY <4>1
    <3>2. w * (d + 1) = w * d + w /\ w * d \in Nat
      OBVIOUS
    <3>. QED
      BY <3>1, <3>2
  <2>. QED
    BY <1>2, <2>1
<1>4. q = 0 => p = 0
  BY <1>2
<1>5. q = -1 => p = -w
  <2>1. w * (-1) = -w
    OBVIOUS
  <2>. QED
    BY <1>2, <2>1
<1>6. q <= -2 => p <= -(w + w)
  <2>1. ASSUME q <= -2 PROVE w * q <= -(w + w)
    <3>1. PICK d \in Nat : q = -2 - d
      <4>1. -2 - q \in Nat /\ q = -2 - (-2 - q)
        BY <1>1, <2>1
      <4>. QED
        BY <4>1
    <3>2. w * (-2 - d) = -(w + w) - w * d /\ w * d \in Nat
      OBVIOUS
    <3>. QED
      BY <3>1, <3>2
  <2>. QED
    BY <1>2, <2>1
<1>. QED
  BY <1>1, <1>2, <1>3, <1>4, <1>5, <1>6

\* Numbers have a smallest one.
LEMMA Least ==
  ASSUME NEW S, S \subseteq Nat, S # {}
  PROVE  \E m \in S : \A n \in S : m <= n
<1>1. PICK m \in S : \A n \in S : <<n, m>> \notin OpToRel(<, Nat)
  BY WFMin, NatLessThanWellFounded, Zenon
<1>2. \A n \in S : ~(n < m)
  <2>1. ASSUME NEW n \in S, n < m PROVE FALSE
    BY <1>1, <2>1, Zenon DEF OpToRel
  <2>. QED
    BY <2>1
<1>3. \A n \in S : m <= n
  BY <1>2
<1>. QED
  BY <1>3

\* Whole is the number of patterns of a type.
LEMMA Wholes ==
  ASSUME NEW t \in Types
  PROVE  /\ Whole(t) \in Nat \ {0} /\ Radix * Radix \in Nat \ {0}
         /\ (WidthOf[t] = 1 /\ Whole(t) = Radix) \/ (WidthOf[t] = 2 /\ Whole(t) = Radix * Radix)
         /\ Whole(t) \div 2 \in Nat /\ Whole(t) \div 2 + Whole(t) \div 2 <= Whole(t)
<1>1. Radix \in Nat \ {0} /\ WidthOf[t] \in {1, 2}
  BY ValuesAssumption
<1>2. Radix * Radix \in Nat \ {0}
  BY <1>1
<1>3. /\ (WidthOf[t] = 1 /\ Whole(t) = Radix) \/ (WidthOf[t] = 2 /\ Whole(t) = Radix * Radix)
      /\ Whole(t) \in Nat \ {0}
  <2>1. CASE WidthOf[t] = 1
    <3>1. Whole(t) = Radix
      BY <2>1 DEF Whole, PatternsOf
    <3>. QED
      BY <1>1, <2>1, <3>1
  <2>2. CASE WidthOf[t] = 2
    <3>1. Whole(t) = Radix * Radix
      BY <2>2 DEF Whole, PatternsOf
    <3>. QED
      BY <1>2, <2>2, <3>1, Zenon
  <2>. QED
    BY <1>1, <2>1, <2>2
<1>4. PICK n \in Nat : n = Whole(t)
  BY <1>3
<1>5. n \div 2 \in Nat /\ n \div 2 + n \div 2 <= n
  OBVIOUS
<1>. QED
  BY <1>2, <1>3, <1>4, <1>5

\* What lies in memory is a pattern, and stands for a value of the type.
Fit(m, t, a) == a \in DOMAIN m /\ a + WidthOf[t] - 1 \in DOMAIN m
Lying(m, t, a) == Decode(t, At(m, a, WidthOf[t]))

LEMMA Elements == ASSUME NEW S, NEW s \in Seq(S), NEW i \in DOMAIN s PROVE s[i] \in S
  OBVIOUS

LEMMA Listed ==
  ASSUME NEW S, NEW n \in Nat, NEW f \in [1 .. n -> S]
  PROVE  f \in Seq(S) /\ Len(f) = n /\ DOMAIN f = 1 .. n
  OBVIOUS

LEMMA AtIs ==
  ASSUME NEW t \in Types, NEW m \in Seq(0 .. Radix - 1), NEW a, Fit(m, t, a)
  PROVE  At(m, a, WidthOf[t]) \in 0 .. Whole(t) - 1
<1>1. CASE WidthOf[t] = 1
  <2>1. m[a] \in 0 .. Radix - 1
    BY Elements DEF Fit
  <2>. QED
    BY <1>1, <2>1, Wholes DEF At
<1>2. CASE WidthOf[t] = 2
  <2>1. a + 1 \in DOMAIN m
    BY <1>2 DEF Fit
  <2>2. PICK lo \in 0 .. Radix - 1, hi \in 0 .. Radix - 1 : m[a] = lo /\ m[a + 1] = hi
    BY <2>1, Elements DEF Fit
  <2>3. Radix \in Nat \ {0}
    BY ValuesAssumption
  <2>4. PICK d \in Nat : Radix = hi + 1 + d
    <3>1. Radix - 1 - hi \in Nat /\ Radix = hi + 1 + (Radix - 1 - hi)
      BY <2>2, <2>3
    <3>. QED
      BY <3>1
  <2>5. Radix * Radix = Radix * hi + Radix + Radix * d /\ Radix * d \in Nat /\ Radix * hi \in Nat
    <3>1. PICK r \in Nat : r = Radix
      BY <2>3
    <3>2. r * d \in Nat /\ r * hi \in Nat /\ r * (hi + 1 + d) = r * hi + r + r * d
      BY <2>2, <2>3
    <3>3. r * r = r * (hi + 1 + d)
      BY <2>4, <3>1, Zenon
    <3>. QED
      BY <3>1, <3>2, <3>3, Zenon
  <2>6. lo + Radix * hi \in 0 .. Radix * Radix - 1
    <3>1. PICK r \in Nat, square \in Nat, p \in Nat, q \in Nat :
            r = Radix /\ square = Radix * Radix /\ p = Radix * hi /\ q = Radix * d
      BY <2>3, <2>5
    <3>2. square = p + r + q /\ lo <= r - 1 /\ lo \in Nat
      BY <2>2, <2>5, <3>1
    <3>3. lo + p \in 0 .. square - 1
      BY <3>2
    <3>. QED
      BY <3>1, <3>3, Zenon
  <2>. QED
    <3>1. At(m, a, WidthOf[t]) = lo + Radix * hi
      BY <1>2, <2>2 DEF At
    <3>2. Whole(t) = Radix * Radix
      BY <1>2, Wholes
    <3>. QED
      BY <2>6, <3>1, <3>2, Zenon
<1>. QED
  BY <1>1, <1>2, Wholes

LEMMA GapIs ==
  ASSUME NEW m \in Int, NEW n \in Int
  PROVE  Gap(m, n) \in Nat /\ Gap(m, n) = Gap(n, m) /\ m - n <= Gap(m, n) /\ n - m <= Gap(m, n)
         /\ (Gap(m, n) = 0 => m = n) /\ Gap(m, m) = 0 /\ (Gap(m, n) = m - n \/ Gap(m, n) = n - m)
  BY DEF Gap

\* The values of a type of floats.
LEMMA FloatsAre ==
  ASSUME NEW t \in FloatTypes
  PROVE  /\ t \in Types /\ KindOf[t] = "float" /\ Double \in FloatTypes /\ Limits[t] \in Nat
         /\ DOMAIN Floats[t] = 0 .. Whole(t) - 1
         /\ \A p \in 0 .. Whole(t) - 1 :
              Floats[t][p] \in Floating /\ (Floats[t][p].class # "nan" => Floats[t][p] \in FloatsOf[t])
         /\ \A v \in Exceptional : \E p \in 0 .. Whole(t) - 1 : Floats[t][p] = v
         /\ \A v \in FloatsOf[t] :
              /\ v \in Floating /\ v.class # "nan" /\ v.n \in Int /\ Place(t, v) \in Int
              /\ v \in FloatsOf[Double] /\ \E p \in 0 .. Whole(t) - 1 : Floats[t][p] = v
              /\ v.class = "finite" => -Limits[t] < v.n /\ v.n < Limits[t]
         /\ [kind |-> "float", class |-> "inf", n |-> 1] \in FloatsOf[t]
<1>1. /\ t \in Types /\ KindOf[t] = "float" /\ Double \in FloatTypes /\ Limits[t] \in Nat
      /\ DOMAIN Floats[t] = 0 .. Whole(t) - 1 /\ (\A p \in DOMAIN Floats[t] : Floats[t][p] \in Floating)
      /\ \A v \in Exceptional : \E p \in DOMAIN Floats[t] : Floats[t][p] = v
      /\ \A v \in FloatsOf[t] : v \in FloatsOf[Double] /\ (v.class = "finite" => -Limits[t] < v.n /\ v.n < Limits[t])
  BY ValuesAssumption DEF FloatTypes
<1>2. FloatsOf[t] = {v \in {Floats[t][p] : p \in 0 .. Whole(t) - 1} : v.class # "nan"}
  BY <1>1 DEF FloatsOf
<1>3. ASSUME NEW v \in FloatsOf[t]
      PROVE  v \in Floating /\ v.class # "nan" /\ v.n \in Int /\ Place(t, v) \in Int
             /\ \E p \in 0 .. Whole(t) - 1 : Floats[t][p] = v
  <2>1. v \in Floating /\ v.class # "nan" /\ \E p \in 0 .. Whole(t) - 1 : Floats[t][p] = v
    BY <1>1, <1>2
  <2>2. v.n \in Int /\ (v.class = "inf" => v.n = 1 \/ v.n = -1)
    BY <2>1 DEF Floating, Exceptional
  <2>3. v.n * Limits[t] \in Int
    BY <1>1, <2>2
  <2>. QED
    BY <2>1, <2>2, <2>3 DEF Place
<1>4. [kind |-> "float", class |-> "inf", n |-> 1] \in Exceptional
  BY DEF Exceptional
<1>5. [kind |-> "float", class |-> "inf", n |-> 1] \in FloatsOf[t]
  BY <1>1, <1>2, <1>4
<1>. QED
  BY <1>1, <1>2, <1>3, <1>5

\* A number is rounded to a value of the type that no other is nearer than.
LEMMA RoundedIs ==
  ASSUME NEW t \in FloatTypes, NEW x \in Int
  PROVE  /\ Off(t, x) \in Nat /\ Rounded(t, x) \in FloatsOf[t]
         /\ Gap(x, Place(t, Rounded(t, x))) = Off(t, x)
         /\ \A v \in FloatsOf[t] : Off(t, x) <= Gap(x, Place(t, v))
<1>1. PICK gaps : gaps = {Gap(x, Place(t, v)) : v \in FloatsOf[t]}
  OBVIOUS
<1>2. gaps \subseteq Nat /\ gaps # {}
  <2>1. \A v \in FloatsOf[t] : Gap(x, Place(t, v)) \in Nat
    BY FloatsAre, GapIs
  <2>2. FloatsOf[t] # {}
    BY FloatsAre
  <2>. QED
    BY <1>1, <2>1, <2>2
<1>3. \E m \in gaps : \A n \in gaps : m <= n
  BY <1>2, Least
<1>4. Min(gaps) \in gaps /\ \A n \in gaps : Min(gaps) <= n
  BY <1>3 DEF Min
<1>5. Off(t, x) = Min(gaps)
  BY <1>1 DEF Off
<1>6. PICK off \in Nat : off = Off(t, x)
  BY <1>2, <1>4, <1>5
<1>7. \E v \in FloatsOf[t] : Gap(x, Place(t, v)) = off
  BY <1>1, <1>4, <1>5, <1>6
<1>8. Rounded(t, x) = CHOOSE v \in FloatsOf[t] : Gap(x, Place(t, v)) = off
  BY <1>6 DEF Rounded
<1>9. Rounded(t, x) \in FloatsOf[t] /\ Gap(x, Place(t, Rounded(t, x))) = off
  BY <1>7, <1>8
<1>. QED
  BY <1>1, <1>4, <1>5, <1>6, <1>9

LEMMA DecodeIs ==
  ASSUME NEW t \in Types, NEW p \in 0 .. Whole(t) - 1
  PROVE  Decode(t, p) \in Of(t)
<1>1. Whole(t) \in Nat \ {0}
  BY Wholes
<1>2. KindOf[t] \in {"signed", "unsigned", "float"}
  BY ValuesAssumption
<1>3. CASE KindOf[t] = "unsigned"
  BY <1>1, <1>3 DEF Decode, Of, Number, Integral
<1>4. CASE KindOf[t] = "signed"
  BY <1>1, <1>4 DEF Decode, Of, Number, Integral
<1>5. CASE KindOf[t] = "float"
  <2>1. Floats[t][p] \in Floating
    BY <1>5, FloatsAre DEF FloatTypes
  <2>. QED
    BY <1>5, <2>1 DEF Decode, Of, Floating, Exceptional
<1>. QED
  BY <1>2, <1>3, <1>4, <1>5

LEMMA LyingIs ==
  ASSUME NEW t \in Types, NEW m \in Seq(0 .. Radix - 1), NEW a, Fit(m, t, a)
  PROVE  Lying(m, t, a) \in Of(t)
  BY AtIs, DecodeIs DEF Lying

(***************************************************************************)
(* Writing                                                                 *)
(***************************************************************************)

\* What is encoded stands for the value, or, of a float, for the value of the type nearest to it.
LEMMA EncodeIs ==
  ASSUME NEW t \in Types, NEW v \in Scalars, Encode(t, v) # Refused
  PROVE  /\ Encode(t, v) \in 0 .. Whole(t) - 1 /\ v.kind = KindOf[t]
         /\ Decode(t, Encode(t, v)) = IF KindOf[t] = "float" THEN Cast(t, v) ELSE v
<1>1. v.kind = KindOf[t] /\ KindOf[t] \in {"signed", "unsigned", "float"}
  BY ValuesAssumption DEF Encode
<1>2. PICK w \in Nat \ {0}, h \in Nat : w = Whole(t) /\ h = Whole(t) \div 2 /\ h + h <= w
  BY Wholes
<1>3. CASE KindOf[t] = "float"
  <2>1. t \in FloatTypes /\ v \in Floating
    BY <1>1, <1>3, ValuesAssumption DEF FloatTypes, Integral
  <2>2. \E p \in 0 .. Whole(t) - 1 : Floats[t][p] = Cast(t, v)
    <3>1. CASE v.class = "finite"
      <4>1. Rounded(t, v.n) \in FloatsOf[t]
        BY <2>1, <3>1, RoundedIs DEF Floating, Exceptional
      <4>. QED
        BY <2>1, <3>1, <4>1, FloatsAre DEF Cast
    <3>2. CASE v.class # "finite"
      <4>1. v \in Exceptional /\ Cast(t, v) = v
        BY <2>1, <3>2 DEF Floating, Cast
      <4>. QED
        BY <2>1, <4>1, FloatsAre
    <3>. QED
      BY <3>1, <3>2
  <2>3. DOMAIN Floats[t] = 0 .. Whole(t) - 1
    BY <2>1, FloatsAre
  <2>4. PatternOf(t, Cast(t, v)) \in 0 .. Whole(t) - 1 /\ Floats[t][PatternOf(t, Cast(t, v))] = Cast(t, v)
    BY <2>2, <2>3 DEF PatternOf
  <2>5. Encode(t, v) = PatternOf(t, Cast(t, v))
    BY <1>1, <1>3 DEF Encode
  <2>. QED
    BY <1>1, <1>3, <2>4, <2>5 DEF Decode
<1>4. ASSUME KindOf[t] # "float"
      PROVE  /\ InRange(t, v.n) /\ Encode(t, v) = v.n % w /\ v.n \in Int
             /\ v = Number(KindOf[t], v.n)
  <2>1. v \in Integral
    BY <1>1, <1>4, ValuesAssumption DEF Floating, Exceptional
  <2>2. InRange(t, v.n) /\ Encode(t, v) = v.n % w
    BY <1>1, <1>2, <1>4 DEF Encode
  <2>. QED
    BY <1>1, <2>1, <2>2 DEF Integral, Number
<1>5. CASE KindOf[t] = "unsigned"
  <2>1. v.n \in 0 .. w - 1
    BY <1>2, <1>4, <1>5 DEF InRange
  <2>2. Encode(t, v) = v.n
    BY <1>4, <1>5, <2>1, <1>2, Remainder
  <2>3. Encode(t, v) \in 0 .. Whole(t) - 1 /\ Decode(t, Encode(t, v)) = v
    BY <1>2, <1>4, <1>5, <2>1, <2>2 DEF Decode
  <2>. QED
    BY <1>1, <1>5, <2>3
<1>6. CASE KindOf[t] = "signed"
  <2>1. v.n \in -h .. h - 1
    BY <1>2, <1>4, <1>6 DEF InRange
  <2>2. CASE v.n >= 0
    <3>1. Encode(t, v) = v.n
      <4>1. v.n \in 0 .. w - 1 /\ v.n \in Int
        BY <1>2, <1>4, <1>6, <2>1, <2>2
      <4>. QED
        BY <1>4, <1>6, <4>1, Remainder, Zenon
    <3>2. Encode(t, v) \in 0 .. Whole(t) - 1 /\ Decode(t, Encode(t, v)) = v
      BY <1>2, <1>4, <1>6, <2>1, <2>2, <3>1 DEF Decode
    <3>. QED
      BY <1>1, <1>6, <3>2
  <2>3. CASE v.n < 0
    <3>1. Encode(t, v) = v.n + w
      <4>1. v.n < 0 /\ v.n + w >= 0 /\ v.n \in Int
        BY <1>2, <1>4, <1>6, <2>1, <2>3
      <4>. QED
        BY <1>4, <1>6, <4>1, Remainder, Zenon
    <3>2. v.n + w >= h /\ v.n + w \in 0 .. w - 1 /\ (v.n + w) - w = v.n
      BY <1>2, <1>4, <1>6, <2>1, <2>3
    <3>3. Encode(t, v) \in 0 .. Whole(t) - 1 /\ Decode(t, Encode(t, v)) = v
      BY <1>2, <1>4, <1>6, <3>1, <3>2 DEF Decode
    <3>. QED
      BY <1>1, <1>6, <3>3
  <2>. QED
    BY <1>4, <1>6, <2>2, <2>3
<1>. QED
  BY <1>1, <1>3, <1>5, <1>6

\* What a value that was written must be read as.
Reads(t, said, read) ==
  LET values == {Decode(t, p) : p \in 0 .. Whole(t) - 1}
  IN IF said \in values THEN read = said
     ELSE /\ read.class # "nan"
          /\ \A v \in values : v.class # "nan" =>
               Gap(said.n, Place(t, read)) <= Gap(said.n, Place(t, v))

LEMMA EncodeReads ==
  ASSUME NEW t \in Types, NEW v \in Scalars, Encode(t, v) # Refused
  PROVE  Reads(t, v, Decode(t, Encode(t, v)))
<1>1. PICK values : values = {Decode(t, p) : p \in 0 .. Whole(t) - 1}
  OBVIOUS
<1>2. CASE KindOf[t] # "float"
  <2>1. Decode(t, Encode(t, v)) = v /\ v \in values
    BY <1>1, <1>2, EncodeIs
  <2>. QED
    BY <1>1, <2>1 DEF Reads
<1>3. CASE KindOf[t] = "float"
  <2>1. t \in FloatTypes /\ v \in Floating
    <3>1. v.kind = "float"
      BY <1>3, EncodeIs
    <3>. QED
      BY <1>3, <3>1, ValuesAssumption DEF FloatTypes, Integral
  <2>2. PICK read : read = Decode(t, Encode(t, v)) /\ read = Cast(t, v)
    BY <1>3, EncodeIs
  <2>3. values = {Floats[t][p] : p \in 0 .. Whole(t) - 1}
    BY <1>1, <1>3 DEF Decode
  <2>4. CASE v.class # "finite"
    <3>1. v \in Exceptional /\ read = v
      BY <2>1, <2>2, <2>4 DEF Floating, Cast
    <3>2. v \in values
      BY <2>1, <2>3, <3>1, FloatsAre
    <3>. QED
      BY <1>1, <2>2, <3>1, <3>2 DEF Reads
  <2>5. CASE v.class = "finite"
    <3>1. v.n \in Int /\ v = [kind |-> "float", class |-> "finite", n |-> v.n]
      BY <2>1, <2>5 DEF Floating, Exceptional
    <3>2. PICK off \in Nat :
            /\ read \in FloatsOf[t] /\ Gap(v.n, Place(t, read)) = off
            /\ \A u \in FloatsOf[t] : off <= Gap(v.n, Place(t, u))
      <4>1. read = Rounded(t, v.n)
        BY <2>2, <2>5 DEF Cast
      <4>. QED
        BY <2>1, <3>1, <4>1, RoundedIs
    <3>3. \A u \in values : u.class # "nan" => u \in FloatsOf[t]
      BY <2>1, <2>3, FloatsAre
    <3>4. read.class # "nan" /\ Place(t, read) \in Int /\ read \in Floating
      BY <2>1, <3>2, FloatsAre
    <3>5. ASSUME v \in values PROVE read = v
      <4>1. v \in FloatsOf[t] /\ Place(t, v) = v.n
        BY <2>5, <3>3, <3>5 DEF Place
      <4>2. Place(t, read) = v.n
        BY <3>1, <3>2, <3>4, <4>1, GapIs
      <4>3. -Limits[t] < v.n /\ v.n < Limits[t] /\ Limits[t] \in Nat
        BY <2>1, <2>5, <4>1, FloatsAre
      <4>4. read.class = "finite"
        <5>1. ASSUME read.class = "inf" PROVE FALSE
          <6>1. read.n = 1 \/ read.n = -1
            BY <3>4, <5>1 DEF Floating, Exceptional
          <6>2. read.n * Limits[t] = v.n
            BY <4>2, <5>1 DEF Place
          <6>3. 1 * Limits[t] = Limits[t] /\ (-1) * Limits[t] = -Limits[t]
            BY <4>3
          <6>. QED
            BY <4>3, <6>1, <6>2, <6>3
        <5>. QED
          BY <3>4, <5>1 DEF Floating, Exceptional
      <4>5. read.n = v.n /\ read = [kind |-> "float", class |-> "finite", n |-> read.n]
        BY <3>4, <4>2, <4>4 DEF Place, Floating, Exceptional
      <4>. QED
        BY <3>1, <4>5
    <3>. QED
      BY <1>1, <2>2, <3>2, <3>3, <3>4, <3>5 DEF Reads
  <2>. QED
    BY <2>4, <2>5
<1>. QED
  BY <1>2, <1>3

\* The bytes of a pattern make the pattern.
LEMMA BytesOf ==
  ASSUME NEW t \in Types, NEW p \in 0 .. Whole(t) - 1
  PROVE  /\ Byte(p, 0) \in 0 .. Radix - 1 /\ Byte(p, 1) \in 0 .. Radix - 1
         /\ WidthOf[t] = 1 => Byte(p, 0) = p
         /\ WidthOf[t] = 2 => Byte(p, 0) + Radix * Byte(p, 1) = p
<1>1. Radix \in Nat \ {0} /\ Whole(t) \in Nat
  BY ValuesAssumption, Wholes
<1>2. PICK q \in Int, r \in 0 .. Radix - 1 : p \div Radix = q /\ p % Radix = r /\ p = Radix * q + r
  BY <1>1, Division
<1>3. Byte(p, 0) = r /\ Byte(p, 1) = q % Radix
  BY <1>2 DEF Byte
<1>4. q % Radix \in 0 .. Radix - 1
  BY <1>1
<1>5. WidthOf[t] = 1 => r = p
  <2>1. ASSUME WidthOf[t] = 1 PROVE p \in 0 .. Radix - 1
    <3>1. Whole(t) = Radix
      BY <2>1, Wholes
    <3>. QED
      BY <3>1
  <2>. QED
    BY <1>1, <1>2, <2>1, Remainder
<1>6. WidthOf[t] = 2 => q \in 0 .. Radix - 1
  <2>1. ASSUME WidthOf[t] = 2, q < 0 PROVE FALSE
    <3>1. PICK d \in Nat : q = -1 - d
      <4>1. -1 - q \in Nat /\ q = -1 - (-1 - q)
        BY <1>2, <2>1
      <4>. QED
        BY <4>1
    <3>2. Radix * (-1 - d) = -Radix - Radix * d /\ Radix * d \in Nat
      BY <1>1
    <3>. QED
      BY <1>1, <1>2, <3>1, <3>2
  <2>2. ASSUME WidthOf[t] = 2, q >= Radix PROVE FALSE
    <3>1. PICK d \in Nat : q = Radix + d
      <4>1. q - Radix \in Nat /\ q = Radix + (q - Radix)
        BY <1>1, <1>2, <2>2
      <4>. QED
        BY <4>1
    <3>2. Radix * (Radix + d) = Radix * Radix + Radix * d /\ Radix * d \in Nat /\ Radix * Radix \in Nat
      BY <1>1
    <3>3. p < Radix * Radix
      BY <2>2, <3>2, Wholes
    <3>. QED
      BY <1>1, <1>2, <3>1, <3>2, <3>3
  <2>. QED
    BY <1>1, <1>2, <2>1, <2>2
<1>7. WidthOf[t] = 2 => q % Radix = q
  BY <1>1, <1>2, <1>6, Remainder
<1>8. Byte(p, 0) \in 0 .. Radix - 1 /\ Byte(p, 1) \in 0 .. Radix - 1
  BY <1>2, <1>3, <1>4
<1>9. WidthOf[t] = 2 => Byte(p, 0) + Radix * Byte(p, 1) = p
  <2>1. WidthOf[t] = 2 => Byte(p, 0) = r /\ Byte(p, 1) = q
    BY <1>3, <1>7
  <2>2. r + Radix * q = p
    BY <1>1, <1>2
  <2>. QED
    BY <2>1, <2>2
<1>. QED
  BY <1>3, <1>5, <1>8, <1>9

(***************************************************************************)
(* Comparing                                                               *)
(***************************************************************************)

\* Two values of one type.
LEMMA OfIs ==
  ASSUME NEW t \in Types, NEW v \in Of(t)
  PROVE  /\ v.n \in Int /\ v # NoValue /\ v.kind = KindOf[t] /\ v.kind \in {"signed", "unsigned", "float"}
         /\ v.class \in {"finite", "inf", "nan"} /\ (v.kind # "float" => v.class = "finite")
         /\ v = [kind |-> v.kind, class |-> v.class, n |-> v.n]
  BY DEF Of, Integral, Floating, Exceptional, NoValue

\* Equal values that are no floats have equal numbers, and finite ones that are floats are
\* within epsilon but for what rounding takes from their distance.
LEMMA EqualsIs ==
  ASSUME NEW t \in Types, NEW l \in Of(t), NEW r \in Of(t)
  PROVE  /\ KindOf[t] # "float" => (Equals(l, r) <=> l.n = r.n)
         /\ Equals(l, r) =>
              /\ l.class # "nan" /\ r.class = l.class /\ (l.class = "inf" => l = r)
              /\ l.class = "finite" =>
                   Distance(l, r) <= (IF l.kind = "float" THEN Epsilon + Off(Double, Distance(l, r)) ELSE 0)
<1>1. Epsilon \in Nat /\ Double \in FloatTypes
  BY ValuesAssumption DEF FloatTypes
<1>2. l.n \in Int /\ r.n \in Int /\ l.kind = r.kind /\ l.kind = KindOf[t]
      /\ l.class \in {"finite", "inf", "nan"} /\ (l.kind # "float" => l.class = "finite" /\ r.class = "finite")
  BY OfIs
<1>3. l = [kind |-> l.kind, class |-> l.class, n |-> l.n] /\ r = [kind |-> r.kind, class |-> r.class, n |-> r.n]
  BY OfIs, Zenon
<1>4. PICK d \in Nat : d = Distance(l, r) /\ (l.n = r.n => d = 0)
  BY <1>2, GapIs DEF Distance
<1>5. KindOf[t] # "float" => (Equals(l, r) <=> l.n = r.n)
  BY <1>2, <1>3 DEF Equals
<1>6. ASSUME Equals(l, r), l = r
      PROVE  /\ l.class # "nan" /\ r.class = l.class /\ (l.class = "inf" => l = r)
             /\ d <= (IF l.kind = "float" THEN Epsilon + Off(Double, d) ELSE 0)
  <2>1. d = 0 /\ Off(Double, d) \in Nat
    BY <1>1, <1>4, <1>6, RoundedIs
  <2>. QED
    BY <1>1, <1>6, <2>1 DEF Equals
<1>7. ASSUME Equals(l, r), l # r
      PROVE  /\ l.class = "finite" /\ r.class = "finite" /\ l.kind = "float"
             /\ d <= Epsilon + Off(Double, d)
  <2>1. l.class = "finite" /\ r.class = "finite" /\ l.kind = "float" /\ Close(l, r)
    BY <1>7 DEF Equals, Finite
  <2>2. PICK m : m = Rounded(Double, d)
    OBVIOUS
  <2>3. m.class = "finite" /\ m.n <= Epsilon
    BY <1>4, <2>1, <2>2 DEF Close, Finite
  <2>4. PICK off \in Nat : off = Off(Double, d) /\ Gap(d, Place(Double, m)) = off /\ m \in FloatsOf[Double]
    BY <1>1, <2>2, RoundedIs
  <2>5. Place(Double, m) = m.n /\ m.n \in Int
    BY <1>1, <2>3, <2>4, FloatsAre DEF Place
  <2>6. d - m.n <= off
    <3>1. PICK g \in Int : g = m.n
      BY <2>5
    <3>2. Gap(d, g) = off
      BY <2>4, <2>5, <3>1
    <3>3. d \in Int /\ d - g <= Gap(d, g)
      BY GapIs
    <3>4. d - g <= off
      BY <3>2, <3>3
    <3>. QED
      BY <3>1, <3>4
  <2>. QED
    BY <1>1, <2>1, <2>3, <2>4, <2>5, <2>6
<1>. QED
  BY <1>2, <1>4, <1>5, <1>6, <1>7

\* A sum in f64.
LEMMA PlusIs ==
  ASSUME NEW t \in FloatTypes, NEW v \in Of(t), NEW n \in Int
  PROVE  /\ Plus(v, n) \in Of(t)
         /\ v.class = "finite" =>
              /\ Plus(v, n).class # "nan"
              /\ Plus(v, n).class = "finite" => Gap(v.n + n, Plus(v, n).n) = Off(Double, v.n + n)
         /\ v.class # "finite" => Plus(v, n) = v
<1>1. Double \in FloatTypes /\ v.n \in Int /\ KindOf[t] = "float" /\ v.n + n \in Int
  BY FloatsAre, OfIs
<1>2. CASE v.class # "finite"
  BY <1>2 DEF Plus, Finite
<1>3. CASE v.class = "finite"
  <2>1. PICK m : m = Rounded(Double, v.n + n) /\ Plus(v, n) = m
    BY <1>3 DEF Plus, Finite
  <2>2. m \in FloatsOf[Double] /\ Gap(v.n + n, Place(Double, m)) = Off(Double, v.n + n)
    BY <1>1, <2>1, RoundedIs
  <2>3. m \in Floating /\ m.class # "nan"
    BY <1>1, <2>2, FloatsAre
  <2>4. m \in Of(t)
    BY <1>1, <2>3 DEF Of, Floating, Exceptional
  <2>5. m.class = "finite" => Place(Double, m) = m.n
    BY DEF Place
  <2>. QED
    BY <1>3, <2>1, <2>2, <2>3, <2>4, <2>5
<1>. QED
  BY <1>2, <1>3

\* What a question for a difference says of two values.
LEMMA DifferenceIs ==
  ASSUME NEW t \in Types, NEW now \in Of(t), NEW before \in Of(t), NEW q \in Comparisons,
         IsDifference(q), Verdict(q, now, before) = "yes"
  PROVE  /\ Difference(q) \in Int /\ Lost(q, now, before) \in Nat
         /\ before.class # "nan" /\ now.class # "nan" /\ (before.class = "inf" => now = before)
         /\ now.class = "finite" =>
              LET off == now.n - (before.n + Difference(q))
                  slack == IF KindOf[t] = "float" THEN Epsilon + Lost(q, now, before) ELSE 0
              IN off <= slack /\ -off <= slack
<1>1. /\ now.n \in Int /\ before.n \in Int /\ before # NoValue /\ now.kind = KindOf[t] /\ before.kind = KindOf[t]
      /\ now.class \in {"finite", "inf", "nan"} /\ before.class \in {"finite", "inf", "nan"}
      /\ (KindOf[t] # "float" => now.class = "finite" /\ before.class = "finite")
  BY OfIs
<1>2. Epsilon \in Nat /\ KindOf[t] \in {"signed", "unsigned", "float"} /\ Double \in FloatTypes
  BY ValuesAssumption DEF FloatTypes
<1>3. Holds(q, now, before)
  BY <1>1 DEF Verdict, Says
<1>4. PICK d \in Int : d = Difference(q) /\ (q.op = "unchanged" => d = 0)
  <2>1. q.a.n \in Int
    BY ValuesAssumption DEF Integral, Floating, Exceptional, NoValue
  <2>2. Difference(q) \in Int /\ (q.op = "unchanged" => Difference(q) = 0)
    BY <2>1 DEF Difference
  <2>. QED
    BY <2>2
<1>5. ASSUME q.op \in {"increased_by", "decreased_by"}
      PROVE  q.a.kind = KindOf[t] /\ q.a.n \in Int /\ q.a.class = "finite" /\ q.a \in Integral \cup Floating
  <2>1. NonNegative(q.a) /\ SameKind(now, q.a)
    BY <1>3, <1>5 DEF Verdict, Says
  <2>2. q.a.kind = KindOf[t]
    BY <1>1, <2>1 DEF SameKind
  <2>3. q.a \in Integral \cup Floating
    BY <1>2, <2>2, ValuesAssumption DEF NoValue
  <2>. QED
    BY <2>1, <2>2, <2>3 DEF NonNegative, Finite, Integral, Floating, Exceptional
<1>6. ASSUME KindOf[t] # "float" PROVE now.n = before.n + d
  <2>1. CASE q.op = "unchanged"
    <3>1. Equals(now, before)
      BY <1>3, <2>1 DEF Holds
    <3>. QED
      BY <1>1, <1>4, <1>6, <2>1, <3>1, EqualsIs
  <2>2. CASE q.op = "increased_by"
    BY <1>1, <1>3, <1>4, <1>5, <1>6, <2>2 DEF Holds, Differ, Difference
  <2>3. CASE q.op = "decreased_by"
    <3>1. Differ(before, now, q.a) /\ d = -q.a.n /\ q.a.n \in Int
      BY <1>1, <1>3, <1>4, <1>5, <1>6, <2>3 DEF Holds, Difference
    <3>2. before.n = now.n + q.a.n
      BY <1>1, <1>6, <3>1 DEF Differ
    <3>. QED
      BY <1>1, <3>1, <3>2
  <2>. QED
    BY <2>1, <2>2, <2>3 DEF IsDifference
<1>7. CASE KindOf[t] # "float"
  <2>1. Lost(q, now, before) = 0
    BY <1>1, <1>7 DEF Lost
  <2>. QED
    BY <1>1, <1>4, <1>6, <1>7, <2>1
<1>8. CASE KindOf[t] = "float"
  <2>1. t \in FloatTypes
    BY <1>8 DEF FloatTypes
  <2>2. PICK goal \in Of(t), off \in Nat :
          /\ goal = Expected(q, before) /\ off = Off(Double, before.n + d)
          /\ before.class = "finite" =>
               goal.class # "nan" /\ (goal.class = "finite" => Gap(before.n + d, goal.n) <= off)
          /\ before.class # "finite" => goal = before
    <3>1. PICK off \in Nat : off = Off(Double, before.n + d)
      BY <1>1, <1>2, <1>4, RoundedIs
    <3>2. CASE q.op = "unchanged"
      <4>1. Expected(q, before) = before /\ Gap(before.n + d, before.n) = 0
        BY <1>1, <1>4, <3>2, GapIs DEF Expected
      <4>. QED
        BY <3>1, <4>1
    <3>3. CASE q.op # "unchanged"
      <4>1. Expected(q, before) = Plus(before, d)
        BY <1>4, <3>3 DEF Expected
      <4>2. Plus(before, d) \in Of(t)
        BY <1>4, <2>1, PlusIs
      <4>3. Gap(before.n + d, Plus(before, d).n) \in Int
        BY <1>1, <1>4, <4>2, OfIs, GapIs
      <4>. QED
        BY <1>4, <2>1, <3>1, <4>1, <4>2, <4>3, PlusIs
    <3>. QED
      BY <3>2, <3>3
  <2>3. Equals(now, goal)
    <3>1. CASE q.op = "unchanged"
      BY <1>3, <2>2, <3>1 DEF Holds, Expected
    <3>2. CASE q.op = "increased_by"
      <4>1. Differ(now, before, q.a) /\ q.a.n = d
        BY <1>3, <1>4, <3>2 DEF Holds, Difference
      <4>. QED
        BY <1>1, <1>4, <1>8, <2>2, <3>2, <4>1 DEF Differ, Expected
    <3>3. CASE q.op = "decreased_by"
      <4>1. PICK down : down = [q.a EXCEPT !.n = -@]
        OBVIOUS
      <4>2. Differ(now, before, down)
        BY <1>1, <1>3, <1>8, <3>3, <4>1 DEF Holds
      <4>3. down.n = d
        BY <1>4, <1>5, <3>3, <4>1 DEF Integral, Floating, Exceptional, Difference
      <4>. QED
        BY <1>1, <1>4, <1>8, <2>2, <3>3, <4>2, <4>3 DEF Differ, Expected
    <3>. QED
      BY <3>1, <3>2, <3>3 DEF IsDifference
  <2>4. /\ now.class # "nan" /\ goal.class = now.class /\ (now.class = "inf" => now = goal)
        /\ now.class = "finite" => Distance(now, goal) <= Epsilon + Off(Double, Distance(now, goal))
    BY <1>1, <1>8, <2>2, <2>3, EqualsIs
  <2>5. CASE now.class # "finite"
    <3>1. Lost(q, now, before) = 0
      BY <2>5 DEF Lost, Finite
    <3>. QED
      BY <1>1, <1>4, <2>2, <2>4, <2>5, <3>1
  <2>6. CASE now.class = "finite"
    <3>1. before.class = "finite" /\ goal.class = "finite"
      BY <1>1, <2>2, <2>4, <2>6
    <3>2. PICK gap \in Nat, far \in Nat : gap = Distance(now, goal) /\ far = Off(Double, gap)
      <4>1. Distance(now, goal) \in Nat
        BY <1>1, <2>2, OfIs, GapIs DEF Distance
      <4>. QED
        BY <1>2, <4>1, RoundedIs
    <3>3. Lost(q, now, before) = off + far
      BY <1>1, <1>4, <1>8, <2>2, <2>6, <3>1, <3>2 DEF Lost, Finite
    <3>4. goal.n \in Int /\ now.n - goal.n <= gap /\ goal.n - now.n <= gap
      BY <1>1, <2>2, <3>2, OfIs, GapIs DEF Distance
    <3>5. (before.n + d) - goal.n <= off /\ goal.n - (before.n + d) <= off
      <4>1. PICK m \in Int, g \in Int : m = before.n + d /\ g = goal.n
        BY <1>1, <3>4
      <4>2. Gap(m, g) \in Nat /\ m - g <= Gap(m, g) /\ g - m <= Gap(m, g)
        BY GapIs
      <4>3. Gap(m, g) <= off
        <5>1. Gap(before.n + d, goal.n) <= off
          BY <2>2, <3>1, Zenon
        <5>. QED
          BY <4>1, <5>1, Zenon
      <4>4. m - g <= off /\ g - m <= off
        BY <4>2, <4>3
      <4>5. (before.n + d) - goal.n = m - g /\ goal.n - (before.n + d) = g - m
        BY <4>1, Zenon
      <4>. QED
        BY <4>4, <4>5, Zenon
    <3>6. gap <= Epsilon + far
      BY <2>4, <2>6, <3>2
    <3>. QED
      BY <1>1, <1>2, <1>4, <1>8, <2>6, <3>1, <3>3, <3>4, <3>5, <3>6
  <2>. QED
    BY <2>5, <2>6
<1>. QED
  BY <1>7, <1>8

(***************************************************************************)
(* Narrowing down                                                          *)
(***************************************************************************)

\* The memory keeps its size; candidates lie in it and have values of the session's type.
InMemory ==
  /\ bytes \in Seq(0 .. Radix - 1)
  /\ \A m \in Contents : Len(m) = Len(bytes)

SessionShape ==
  /\ type \in Types
  /\ \A a \in DOMAIN session : Fit(bytes, type, a) /\ session[a] \in Of(type)

\* How far the last value may be from the first, after `count` questions for `total` from
\* whose sums and distances f64 has taken `lost`.
Near(first, last, total, count, lost) ==
  /\ first.class # "nan" /\ last.class # "nan" /\ (first.class = "inf" => last = first)
  /\ last.class = "finite" =>
       LET off == last.n - (first.n + total)
           slack == IF last.kind = "float" THEN count * Epsilon + lost ELSE 0
       IN off <= slack /\ -off <= slack

SeriesShape ==
  /\ sum \in Int /\ series \in Nat /\ (series = 0 => sum = 0)
  /\ \A a \in DOMAIN session :
       /\ origin[a] \in [first : Of(type), lost : Nat]
       /\ series = 0 => origin[a].first = session[a] /\ origin[a].lost = 0
       /\ series > 0 => Near(origin[a].first, session[a], sum, series, origin[a].lost)

ValuesInv == InMemory /\ SessionShape /\ SeriesShape /\ ReadsWhatWasWritten

LEMMA NowIs == ASSUME NEW t, NEW a PROVE Now(t, a) = Lying(bytes, t, a)
  BY DEF Now, Lying

LEMMA ValuesStart == ValuesInit => ValuesInv
<1> SUFFICES ASSUME ValuesInit PROVE ValuesInv
  OBVIOUS
<1>1. InMemory
  BY ValuesAssumption DEF ValuesInit, InMemory
<1>2. DOMAIN session = {}
  BY DEF ValuesInit
<1>3. wrote.value = NoValue
  BY DEF ValuesInit, NothingWritten
<1>. QED
  BY <1>1, <1>2, <1>3 DEF ValuesInit, ValuesInv, SessionShape, SeriesShape, ReadsWhatWasWritten

LEMMA NarrowKeeps ==
  ASSUME ValuesInv, NEW t \in Types, NEW q \in Comparisons, NEW candidates, NEW before,
         \A a \in candidates : Fit(bytes, t, a),
         \/ \A a \in candidates : before[a] = NoValue
         \/ t = type /\ candidates = DOMAIN session /\ \A a \in candidates : before[a] = session[a],
         Narrow(t, q, candidates, before)
  PROVE  ValuesInv'
<1> DEFINE kept == {a \in candidates : Verdict(q, Now(t, a), before[a]) = "yes"}
           next == [a \in kept |-> Now(t, a)]
           more(a) == [origin[a] EXCEPT !.lost = @ + Lost(q, Now(t, a), before[a])]
<1>1. UNCHANGED <<bytes, wrote>>
  BY DEF Narrow
<1>2. InMemory' /\ ReadsWhatWasWritten'
  BY <1>1 DEF ValuesInv, InMemory, ReadsWhatWasWritten, Now
<1>3. CASE UNCHANGED <<type, session, origin, sum, series>>
  BY <1>1, <1>2, <1>3 DEF ValuesInv, SessionShape, SeriesShape, Fit
<1>4. ASSUME ~UNCHANGED <<type, session, origin, sum, series>>
      PROVE  ValuesInv'
  <2>1. /\ \A a \in candidates : Verdict(q, Now(t, a), before[a]) # "error"
        /\ type' = t /\ session' = next
        /\ IF IsDifference(q)
             THEN sum' = sum + Difference(q) /\ series' = series + 1 /\ origin' = [a \in kept |-> more(a)]
             ELSE sum' = 0 /\ series' = 0 /\ origin' = [a \in kept |-> [first |-> Now(t, a), lost |-> 0]]
    <3>1. PICK says : says = [a \in candidates |-> Verdict(q, Now(t, a), before[a])]
      OBVIOUS
    <3>2. kept = {a \in candidates : says[a] = "yes"}
      BY <3>1
    <3>3. ~\E a \in candidates : says[a] = "error"
      BY <1>4, <3>1, Zenon DEF Narrow
    <3>. QED
      BY <3>1, <3>2, <3>3, <1>4 DEF Narrow
  <2>2. \A a \in candidates : Now(t, a) \in Of(t)
    BY LyingIs, NowIs DEF ValuesInv, InMemory
  <2>3. \A a \in kept : session'[a] = Now(t, a)
    BY <2>1
  <2>4. DOMAIN session' = kept /\ kept \subseteq candidates
    BY <2>1
  <2>5. SessionShape'
    BY <1>1, <2>1, <2>2, <2>3, <2>4 DEF SessionShape, Fit
  <2>6. CASE ~IsDifference(q)
    <3>1. \A a \in kept : origin'[a] = [first |-> Now(t, a), lost |-> 0]
      BY <2>1, <2>6
    <3>2. SeriesShape'
      BY <2>1, <2>2, <2>3, <2>4, <2>6, <3>1 DEF SeriesShape
    <3>. QED
      BY <1>2, <2>5, <3>2 DEF ValuesInv
  <2>7. CASE IsDifference(q)
    <3>1. sum' = sum + Difference(q) /\ series' = series + 1 /\ \A a \in kept : origin'[a] = more(a)
      BY <2>1, <2>7
    <3>2. Difference(q) \in Int
      <4>1. q.a.n \in Int
        BY ValuesAssumption DEF Integral, Floating, Exceptional, NoValue
      <4>. QED
        BY <4>1 DEF Difference
    <3>3. sum' \in Int /\ series' \in Nat \ {0}
      BY <3>1, <3>2 DEF ValuesInv, SeriesShape
    <3>4. ASSUME NEW a \in kept
          PROVE  /\ more(a) \in [first : Of(t), lost : Nat]
                 /\ Near(more(a).first, Now(t, a), sum', series', more(a).lost)
      <4>1. before[a] # NoValue
        BY <2>1, <2>7, Zenon DEF Verdict, IsDifference, Relative
      <4>2. t = type /\ a \in DOMAIN session /\ before[a] = session[a]
        BY <4>1
      <4>3. PICK begun \in [first : Of(t), lost : Nat] : begun = origin[a]
        BY <4>2 DEF ValuesInv, SeriesShape
      <4>4. PICK first \in Of(t), prior \in Of(t), now \in Of(t), lost \in Nat :
              first = begun.first /\ lost = begun.lost /\ prior = before[a] /\ now = Now(t, a)
        BY <2>2, <4>2, <4>3 DEF ValuesInv, SessionShape
      <4>5. Verdict(q, now, prior) = "yes"
        BY <4>4
      <4>6. PICK new \in Nat : new = Lost(q, now, prior)
        BY <2>7, <4>5, DifferenceIs
      <4>7. more(a).first = first /\ more(a).lost = lost + new /\ more(a) \in [first : Of(t), lost : Nat]
        <5>1. more(a) = [begun EXCEPT !.lost = @ + new]
          BY <4>3, <4>4, <4>6
        <5>2. begun.lost + new \in Nat
          BY <4>3, <4>6
        <5>. QED
          BY <4>3, <4>4, <5>1, <5>2
      <4>8. /\ prior.class # "nan" /\ now.class # "nan" /\ (prior.class = "inf" => now = prior)
            /\ now.class = "finite" =>
                 LET off == now.n - (prior.n + Difference(q))
                     slack == IF KindOf[t] = "float" THEN Epsilon + new ELSE 0
                 IN off <= slack /\ -off <= slack
        BY <2>7, <4>5, <4>6, DifferenceIs
      <4>9. /\ series = 0 => first = prior /\ lost = 0 /\ sum = 0
            /\ series > 0 => Near(first, prior, sum, series, lost)
        BY <4>2, <4>3, <4>4 DEF ValuesInv, SeriesShape
      <4>10. Near(first, now, sum', series', lost + new)
        <5>1. Epsilon \in Nat /\ series \in Nat /\ sum \in Int
          BY ValuesAssumption DEF ValuesInv, SeriesShape
        <5>2. PICK e \in Nat, f \in Nat :
                 /\ e = series * Epsilon + lost /\ f = (series + 1) * Epsilon + (lost + new)
                 /\ f = e + Epsilon + new
          <6>1. PICK u \in Nat, w \in Nat : u = series * Epsilon /\ w = (series + 1) * Epsilon /\ w = u + Epsilon
            BY <5>1
          <6>. QED
            BY <5>1, <6>1
        <5>3. PICK d \in Int : d = Difference(q)
          BY <3>2
        <5>4. /\ first.n \in Int /\ prior.n \in Int /\ now.n \in Int /\ prior.kind = KindOf[t] /\ now.kind = KindOf[t]
              /\ prior.class \in {"finite", "inf", "nan"}
          BY OfIs
        <5>5. /\ first.class # "nan" /\ (first.class = "inf" => prior = first)
              /\ prior.class = "finite" =>
                   /\ prior.n - (first.n + sum) <= (IF KindOf[t] = "float" THEN e ELSE 0)
                   /\ -(prior.n - (first.n + sum)) <= (IF KindOf[t] = "float" THEN e ELSE 0)
          <6>1. CASE series = 0
            BY <4>8, <4>9, <5>2, <5>4, <6>1
          <6>2. CASE series > 0
            <7>1. Near(first, prior, sum, series, lost) /\ prior.kind = KindOf[t]
              BY <4>9, <5>4, <6>2
            <7>2. series * Epsilon + lost = e
              BY <5>2
            <7>. QED
              BY <7>1, <7>2, Zenon DEF Near
          <6>. QED
            BY <5>1, <6>1, <6>2
        <5>6. first.class = "inf" => now = first
          BY <4>8, <5>5
        <5>7. now.class = "finite" => prior.class = "finite"
          BY <4>8, <5>4
        <5>8. now.class = "finite" =>
                /\ now.n - (first.n + (sum + d)) <= (IF KindOf[t] = "float" THEN f ELSE 0)
                /\ -(now.n - (first.n + (sum + d))) <= (IF KindOf[t] = "float" THEN f ELSE 0)
          BY <4>8, <5>1, <5>2, <5>3, <5>4, <5>5, <5>7
        <5>9. sum' = sum + d /\ series' * Epsilon + (lost + new) = f
          BY <3>1, <5>2, <5>3
        <5>. QED
          BY <4>8, <5>4, <5>5, <5>6, <5>8, <5>9, Zenon DEF Near
      <4>. QED
        BY <4>4, <4>7, <4>10
    <3>5. SeriesShape'
      BY <2>1, <2>3, <2>4, <3>1, <3>3, <3>4 DEF SeriesShape
    <3>. QED
      BY <1>2, <2>5, <3>5 DEF ValuesInv
  <2>. QED
    BY <2>6, <2>7
<1>. QED
  BY <1>3, <1>4

LEMMA ScanKeeps ==
  ASSUME ValuesInv, NEW q \in Comparisons
  PROVE  /\ \A t \in Types : FirstScan(t, q) => ValuesInv'
         /\ NextScan(q) => ValuesInv'
<1>1. ASSUME NEW t \in Types, FirstScan(t, q) PROVE ValuesInv'
  <2>1. PICK places : places = {a \in DOMAIN bytes : a + WidthOf[t] - 1 \in DOMAIN bytes}
    OBVIOUS
  <2>2. PICK before : before = [a \in places |-> NoValue]
    OBVIOUS
  <2>3. Narrow(t, q, places, before)
    BY <1>1, <2>1, <2>2, Zenon DEF FirstScan
  <2>4. \A a \in places : Fit(bytes, t, a) /\ before[a] = NoValue
    BY <2>1, <2>2 DEF Fit
  <2>. QED
    BY <2>3, <2>4, NarrowKeeps
<1>2. ASSUME NextScan(q) PROVE ValuesInv'
  <2>1. Narrow(type, q, DOMAIN session, session)
    BY <1>2 DEF NextScan
  <2>2. type \in Types /\ \A a \in DOMAIN session : Fit(bytes, type, a)
    BY DEF ValuesInv, SessionShape
  <2>. QED
    BY <2>1, <2>2, NarrowKeeps
<1>. QED
  BY <1>1, <1>2

\* Another memory of the same size.
LEMMA SameSize ==
  ASSUME ValuesInv, bytes' \in Seq(0 .. Radix - 1), Len(bytes') = Len(bytes),
         UNCHANGED <<type, session, origin, sum, series>>
  PROVE  InMemory' /\ SessionShape' /\ SeriesShape'
<1>1. InMemory'
  BY DEF ValuesInv, InMemory
<1>2. DOMAIN bytes' = DOMAIN bytes
  BY DEF ValuesInv, InMemory
<1>3. SessionShape'
  BY <1>2, Zenon DEF ValuesInv, SessionShape, Fit
<1>4. SeriesShape'
  BY Zenon DEF ValuesInv, SeriesShape
<1>. QED
  BY <1>1, <1>3, <1>4

LEMMA GameKeeps == ASSUME ValuesInv, Game PROVE ValuesInv'
<1>1. bytes' \in Seq(0 .. Radix - 1) /\ Len(bytes') = Len(bytes)
  BY ValuesAssumption DEF Game, ValuesInv, InMemory
<1>2. wrote'.value = NoValue
  BY DEF Game, NothingWritten
<1>. QED
  BY <1>1, <1>2, SameSize DEF Game, ValuesInv, ReadsWhatWasWritten

LEMMA WriteKeeps ==
  ASSUME ValuesInv, NEW a \in DOMAIN bytes, NEW t \in Types, NEW v \in Scalars, WriteScalar(a, t, v)
  PROVE  ValuesInv'
<1>1. PICK p : p = Encode(t, v)
  OBVIOUS
<1>2. /\ Fit(bytes, t, a) /\ p # Refused
      /\ bytes' = [i \in DOMAIN bytes |-> IF i \in a .. a + WidthOf[t] - 1 THEN Byte(p, i - a) ELSE bytes[i]]
      /\ wrote' = [at |-> a, type |-> t, value |-> v]
      /\ UNCHANGED <<type, session, origin, sum, series, scans>>
  BY <1>1 DEF WriteScalar, Fit
<1>3. p \in 0 .. Whole(t) - 1 /\ Reads(t, v, Decode(t, p))
  BY <1>1, <1>2, EncodeIs, EncodeReads
<1>4. WidthOf[t] \in {1, 2} /\ a \in Int
  BY ValuesAssumption DEF ValuesInv, InMemory
<1>5. bytes' \in Seq(0 .. Radix - 1) /\ Len(bytes') = Len(bytes) /\ DOMAIN bytes' = DOMAIN bytes
  <2>1. ASSUME NEW i \in DOMAIN bytes PROVE bytes'[i] \in 0 .. Radix - 1
    <3>1. bytes[i] \in 0 .. Radix - 1
      BY Elements DEF ValuesInv, InMemory
    <3>2. i \in a .. a + WidthOf[t] - 1 => i - a \in {0, 1}
      BY <1>4 DEF ValuesInv, InMemory
    <3>3. Byte(p, 0) \in 0 .. Radix - 1 /\ Byte(p, 1) \in 0 .. Radix - 1
      BY <1>3, BytesOf
    <3>. QED
      BY <1>2, <3>1, <3>2, <3>3
  <2>2. DOMAIN bytes = 1 .. Len(bytes) /\ Len(bytes) \in Nat
    BY DEF ValuesInv, InMemory
  <2>3. PICK n \in Nat : n = Len(bytes)
    BY <2>2
  <2>4. bytes' \in [1 .. n -> 0 .. Radix - 1]
    BY <1>2, <2>1, <2>2, <2>3
  <2>. QED
    BY <1>2, <2>3, <2>4, Listed
<1>6. At(bytes', a, WidthOf[t]) = p
  <2>1. bytes'[a] = Byte(p, 0)
    <3>1. a \in a .. a + WidthOf[t] - 1 /\ a - a = 0
      BY <1>4
    <3>. QED
      BY <1>2, <3>1
  <2>2. WidthOf[t] = 2 => bytes'[a + 1] = Byte(p, 1)
    <3>1. WidthOf[t] = 2 => a + 1 \in DOMAIN bytes /\ a + 1 \in a .. a + WidthOf[t] - 1 /\ (a + 1) - a = 1
      BY <1>2, <1>4 DEF Fit
    <3>. QED
      BY <1>2, <3>1
  <2>. QED
    BY <1>3, <1>4, <2>1, <2>2, BytesOf DEF At
<1>7. ReadsWhatWasWritten'
  <2>1. wrote'.type = t /\ wrote'.at = a /\ wrote'.value = v
    BY <1>2
  <2>2. Reads(t, v, Decode(t, At(bytes', a, WidthOf[t])))
    BY <1>3, <1>6
  <2>. QED
    BY <2>1, <2>2 DEF ReadsWhatWasWritten, Now, Reads
<1>. QED
  BY <1>2, <1>5, <1>7, SameSize DEF ValuesInv

\* What holds of every candidate says what a series comes to.
LEMMA SeriesIs == ValuesInv => SeriesExact
<1> SUFFICES ASSUME ValuesInv, NEW a \in DOMAIN session, series > 0
             PROVE  /\ origin[a].first.class # "nan" /\ session[a].class # "nan"
                    /\ origin[a].first.class = "inf" => session[a] = origin[a].first
                    /\ Finite(session[a]) =>
                         Gap(session[a].n, origin[a].first.n + sum) <=
                           (IF session[a].kind = "float" THEN series * Epsilon + origin[a].lost ELSE 0)
  BY Zenon DEF SeriesExact
<1>1. PICK first \in Of(type), last \in Of(type), lost \in Nat :
        first = origin[a].first /\ last = session[a] /\ lost = origin[a].lost
  BY DEF ValuesInv, SessionShape, SeriesShape
<1>2. Near(first, last, sum, series, lost)
  BY <1>1 DEF ValuesInv, SeriesShape
<1>3. first.n \in Int /\ last.n \in Int /\ sum \in Int
  <2>1. type \in Types
    BY DEF ValuesInv, SessionShape
  <2>. QED
    BY <2>1, OfIs DEF ValuesInv, SeriesShape
<1>4. PICK e \in Int : e = series * Epsilon + lost
  BY <1>1, ValuesAssumption DEF ValuesInv, SeriesShape
<1>5. PICK goal \in Int : goal = first.n + sum
  BY <1>3
<1>6. last.class = "finite" => Gap(last.n, goal) <= (IF last.kind = "float" THEN e ELSE 0)
  <2>1. ASSUME last.class = "finite"
        PROVE  /\ last.n - goal <= (IF last.kind = "float" THEN e ELSE 0)
               /\ -(last.n - goal) <= (IF last.kind = "float" THEN e ELSE 0)
    BY <1>2, <1>4, <1>5, <2>1, Zenon DEF Near
  <2>2. Gap(last.n, goal) = last.n - goal \/ Gap(last.n, goal) = goal - last.n
    BY <1>3, GapIs
  <2>. QED
    BY <1>3, <2>1, <2>2
<1>. QED
  BY <1>1, <1>2, <1>4, <1>5, <1>6 DEF Near, Finite

LEMMA DividedIs == ValuesInv => Divided
<1> SUFFICES ASSUME ValuesInv, NEW a \in DOMAIN session
             PROVE  LET Would(op) == Verdict(Asked(op, NoValue, NoValue), Now(type, a), session[a]) = "yes"
                        By(op, v) == Verdict(Asked(op, v, NoValue), Now(type, a), session[a]) = "yes"
                    IN /\ Would("changed") # Would("unchanged")
                       /\ KindOf[type] # "float" =>
                            /\ Would("changed") <=> (Would("increased") \/ Would("decreased"))
                            /\ ~(Would("increased") /\ Would("decreased"))
                            /\ \A v \in Scalars : v.n > 0 =>
                                 /\ By("increased_by", v) => Would("increased")
                                 /\ By("decreased_by", v) => Would("decreased")
  BY Zenon DEF Divided
<1>1. type \in Types /\ session[a] \in Of(type) /\ Now(type, a) \in Of(type)
  BY LyingIs, NowIs DEF ValuesInv, InMemory, SessionShape
<1>2. PICK now \in Of(type), prior \in Of(type) : now = Now(type, a) /\ prior = session[a]
  BY <1>1
<1>3. /\ now.n \in Int /\ prior.n \in Int /\ prior # NoValue
      /\ now.kind = KindOf[type] /\ prior.kind = KindOf[type]
      /\ KindOf[type] # "float" => now.class = "finite" /\ prior.class = "finite"
  BY <1>1, <1>2, OfIs
<1>4. \A op \in {"changed", "unchanged", "increased", "decreased"} :
        Verdict(Asked(op, NoValue, NoValue), now, prior) = "yes" <=> Holds(Asked(op, NoValue, NoValue), now, prior)
  BY <1>3 DEF Verdict, Says, Asked, Relative
<1>5. /\ Holds(Asked("changed", NoValue, NoValue), now, prior) <=> ~Equals(now, prior)
      /\ Holds(Asked("unchanged", NoValue, NoValue), now, prior) <=> Equals(now, prior)
      /\ Holds(Asked("increased", NoValue, NoValue), now, prior) <=> Above(now, prior)
      /\ Holds(Asked("decreased", NoValue, NoValue), now, prior) <=> Above(prior, now)
  BY DEF Holds, Asked
<1>6. KindOf[type] # "float" =>
        /\ Equals(now, prior) <=> now.n = prior.n
        /\ Above(now, prior) <=> now.n > prior.n
        /\ Above(prior, now) <=> prior.n > now.n
  BY <1>1, <1>3, EqualsIs DEF Above, Sign
<1>7. ASSUME NEW v \in Scalars, v.n > 0, KindOf[type] # "float"
      PROVE  /\ Verdict(Asked("increased_by", v, NoValue), now, prior) = "yes" => now.n > prior.n
             /\ Verdict(Asked("decreased_by", v, NoValue), now, prior) = "yes" => prior.n > now.n
  <2>1. v.n \in Int
    BY ValuesAssumption DEF Integral, Floating, Exceptional
  <2>2. Verdict(Asked("increased_by", v, NoValue), now, prior) = "yes" => now.n = prior.n + v.n
    BY <1>3, <1>7 DEF Verdict, Says, Holds, Asked, Differ
  <2>3. Verdict(Asked("decreased_by", v, NoValue), now, prior) = "yes" => prior.n = now.n + v.n
    BY <1>3, <1>7 DEF Verdict, Says, Holds, Asked, Differ
  <2>. QED
    BY <1>3, <1>7, <2>1, <2>2, <2>3
<1>. QED
  BY <1>2, <1>3, <1>4, <1>5, <1>6, <1>7

\* Whatever the game writes and whatever is asked, in any number of scans and of any width,
\* with floats of any precision: a value that was written is read back, or of a float the
\* type does not have the value nearest to it; a series of scans for differences adds up to
\* their sum, but for epsilon and what f64 takes from the sums of floats; and scans for
\* changed and unchanged values divide the candidates.
THEOREM ValuesAreExact == ValuesSpec => []ValuesExact
<1>1. ValuesInit => ValuesInv
  BY ValuesStart
<1>2. ValuesInv /\ [ValuesNext]_valueVars => ValuesInv'
  <2> SUFFICES ASSUME ValuesInv, [ValuesNext]_valueVars PROVE ValuesInv'
    OBVIOUS
  <2>1. CASE UNCHANGED valueVars
    BY <2>1 DEF valueVars, ValuesInv, InMemory, SessionShape, SeriesShape, ReadsWhatWasWritten, Fit, Now
  <2>2. CASE ValuesNext
    BY <2>2, ScanKeeps, GameKeeps, WriteKeeps DEF ValuesNext
  <2>. QED
    BY <2>1, <2>2
<1>3. ValuesInv => ValuesExact
  BY SeriesIs, DividedIs DEF ValuesExact, ValuesInv
<1>. QED
  BY <1>1, <1>2, <1>3, PTL DEF ValuesSpec

(***************************************************************************)
(* Sets in order                                                           *)
(***************************************************************************)

\* Induction over the naturals, for a set of them.
LEMMA Counting ==
  ASSUME NEW S, 0 \in S, \A n \in Nat : n \in S => n + 1 \in S
  PROVE  Nat \subseteq S
<1>1. SUFFICES ASSUME Nat \ S # {} PROVE FALSE
  OBVIOUS
<1>2. PICK m \in Nat \ S : \A n \in Nat \ S : <<n, m>> \notin OpToRel(<, Nat)
  BY <1>1, WFMin, NatLessThanWellFounded, Zenon
<1>3. m \in Nat \ S /\ \A n \in Nat \ S : ~(n < m)
  <2>1. ASSUME NEW n \in Nat \ S, n < m PROVE FALSE
    BY <1>2, <2>1, Zenon DEF OpToRel
  <2>. QED
    BY <1>2, <2>1
<1>4. m # 0 /\ m \in Nat
  BY <1>3
<1>5. m - 1 \in Nat /\ m - 1 < m /\ (m - 1) + 1 = m
  BY <1>4
<1>6. m - 1 \in S
  BY <1>3, <1>5
<1>. QED
  BY <1>3, <1>5, <1>6

Ascends(s) == \A i, j \in DOMAIN s : i < j => s[i] < s[j]

LEMMA FiniteParts == ASSUME NEW S, IsFiniteSet(S), NEW T, T \subseteq S PROVE IsFiniteSet(T)
<1>1. T \in SUBSET S
  OBVIOUS
<1>. QED
  BY <1>1, FS_Subset, Zenon

LEMMA OneLess ==
  ASSUME NEW S, IsFiniteSet(S), NEW x \in S, NEW n \in Nat, Cardinality(S) = n + 1
  PROVE  Cardinality(S \ {x}) = n
<1>1. Cardinality(S \ {x}) = Cardinality(S) - 1
  BY FS_RemoveElement, Zenon
<1>. QED
  BY <1>1

\* Any finite set of integers has a largest one.
LEMMA Largest ==
  ASSUME NEW S, IsFiniteSet(S), S \subseteq Int, S # {}
  PROVE  \E m \in S : \A n \in S : n <= m
<1> DEFINE Good == {n \in Nat : \A T \in SUBSET S : Cardinality(T) = n /\ T # {} =>
                       \E m \in T : \A k \in T : k <= m}
<1>1. 0 \in Good
  <2>1. ASSUME NEW T \in SUBSET S, Cardinality(T) = 0 PROVE T = {}
    BY <2>1, FiniteParts, FS_EmptySet, Zenon
  <2>. QED
    BY <2>1
<1>2. ASSUME NEW n \in Nat, n \in Good PROVE n + 1 \in Good
  <2>1. SUFFICES ASSUME NEW T \in SUBSET S, Cardinality(T) = n + 1, T # {}
                 PROVE  \E m \in T : \A k \in T : k <= m
    OBVIOUS
  <2>2. PICK x \in T : TRUE
    BY <2>1
  <2>3. IsFiniteSet(T)
    BY FiniteParts
  <2>4. Cardinality(T \ {x}) = n
    BY <2>1, <2>2, <2>3, OneLess
  <2>5. CASE T \ {x} = {}
    <3>1. \A k \in T : k <= x
      BY <2>2, <2>5
    <3>. QED
      BY <3>1
  <2>6. CASE T \ {x} # {}
    <3>1. PICK m \in T \ {x} : \A k \in T \ {x} : k <= m
      BY <1>2, <2>4, <2>6
    <3>2. CASE x <= m
      BY <3>1, <3>2
    <3>3. CASE ~(x <= m)
      <4>1. \A k \in T : k <= x
        BY <2>2, <3>1, <3>3
      <4>. QED
        BY <4>1
    <3>. QED
      BY <3>2, <3>3
  <2>. QED
    BY <2>5, <2>6
<1> HIDE DEF Good
<1>3. Nat \subseteq Good
  BY <1>1, <1>2, Counting
<1>4. Cardinality(S) \in Good
  BY <1>3, FS_CardinalityType
<1>. QED
  BY <1>4 DEF Good

\* A finite set can be put in order.
LEMMA Ordering ==
  ASSUME NEW S, IsFiniteSet(S), S \subseteq Int
  PROVE  \E s \in [1 .. Cardinality(S) -> S] : Ascends(s) /\ \A x \in S : \E i \in DOMAIN s : s[i] = x
<1> DEFINE Good == {n \in Nat : \A T \in SUBSET S : Cardinality(T) = n =>
                       \E s \in [1 .. n -> T] : Ascends(s) /\ \A x \in T : \E i \in DOMAIN s : s[i] = x}
<1>1. 0 \in Good
  <2>1. SUFFICES ASSUME NEW T \in SUBSET S, Cardinality(T) = 0
                 PROVE  \E s \in [1 .. 0 -> T] : Ascends(s) /\ \A x \in T : \E i \in DOMAIN s : s[i] = x
    OBVIOUS
  <2>2. T = {}
    BY <2>1, FiniteParts, FS_EmptySet, Zenon
  <2>3. PICK s : s = [i \in 1 .. 0 |-> i]
    OBVIOUS
  <2>4. s \in [1 .. 0 -> T] /\ Ascends(s)
    BY <2>3 DEF Ascends
  <2>. QED
    BY <2>2, <2>4
<1>2. ASSUME NEW n \in Nat, n \in Good PROVE n + 1 \in Good
  <2>1. SUFFICES ASSUME NEW T \in SUBSET S, Cardinality(T) = n + 1
                 PROVE  \E s \in [1 .. n + 1 -> T] : Ascends(s) /\ \A x \in T : \E i \in DOMAIN s : s[i] = x
    OBVIOUS
  <2>2. IsFiniteSet(T) /\ T # {}
    <3>1. IsFiniteSet(T)
      BY FiniteParts
    <3>2. n + 1 # 0
      OBVIOUS
    <3>. QED
      BY <2>1, <3>1, <3>2, FS_EmptySet, Zenon
  <2>3. PICK m \in T : \A k \in T : k <= m
    BY <2>2, Largest
  <2>4. Cardinality(T \ {m}) = n
    BY <2>1, <2>2, <2>3, OneLess
  <2>5. PICK s \in [1 .. n -> T \ {m}] : Ascends(s) /\ \A x \in T \ {m} : \E i \in DOMAIN s : s[i] = x
    BY <1>2, <2>4
  <2>6. PICK t : t = [i \in 1 .. n + 1 |-> IF i = n + 1 THEN m ELSE s[i]]
    OBVIOUS
  <2>7. \A i \in 1 .. n : t[i] = s[i] /\ s[i] \in T \ {m} /\ i \in DOMAIN s
    BY <2>5, <2>6
  <2>8. t[n + 1] = m /\ t \in [1 .. n + 1 -> T]
    BY <2>5, <2>6
  <2>9. Ascends(t)
    <3>1. SUFFICES ASSUME NEW i \in 1 .. n + 1, NEW j \in 1 .. n + 1, i < j PROVE t[i] < t[j]
      BY <2>8 DEF Ascends
    <3>2. i \in 1 .. n
      BY <3>1
    <3>3. CASE j = n + 1
      <4>1. s[i] <= m /\ s[i] # m /\ s[i] \in Int /\ m \in Int
        BY <2>3, <2>7, <3>2
      <4>. QED
        BY <2>7, <2>8, <3>2, <3>3, <4>1
    <3>4. CASE j \in 1 .. n
      BY <2>5, <2>7, <3>1, <3>2, <3>4 DEF Ascends
    <3>. QED
      BY <3>3, <3>4
  <2>10. \A x \in T : \E i \in DOMAIN t : t[i] = x
    <3>1. DOMAIN t = 1 .. n + 1 /\ n + 1 \in 1 .. n + 1 /\ DOMAIN s = 1 .. n
      BY <2>5, <2>6
    <3>. QED
      BY <2>5, <2>7, <2>8, <3>1
  <2>. QED
    BY <2>8, <2>9, <2>10
<1> HIDE DEF Good
<1>3. Cardinality(S) \in Good
  BY <1>1, <1>2, Counting, FS_CardinalityType
<1>. QED
  BY <1>3 DEF Good

\* As many different elements as a set has are all of them.
LEMMA AllOf ==
  ASSUME NEW S, IsFiniteSet(S), NEW f \in SetToSeqs(S)
  PROVE  f \in Seq(S) /\ Len(f) = Cardinality(S) /\ ToSet(f) = S
<1> DEFINE n == Cardinality(S)
<1>1. n \in Nat
  BY FS_CardinalityType, Zenon
<1>2. f \in [1 .. n -> S] /\ \A i, j \in 1 .. n : i # j => f[i] # f[j]
  BY DEF SetToSeqs
<1>3. f \in Seq(S) /\ Len(f) = n
  BY <1>1, <1>2, Listed
<1>4. ASSUME NEW x \in S, \A i \in 1 .. n : f[i] # x PROVE FALSE
  <2>1. f \in [1 .. n -> S \ {x}]
    BY <1>2, <1>4
  <2>2. IsFiniteSet(S \ {x}) /\ Cardinality(S \ {x}) = n - 1
    BY FS_RemoveElement, Zenon
  <2>3. IsFiniteSet(1 .. n) /\ Cardinality(1 .. n) = n
    BY <1>1, FS_Interval
  <2>4. n - 1 < n
    BY <1>1
  <2>5. Cardinality(S \ {x}) < Cardinality(1 .. n)
    BY <2>2, <2>3, <2>4
  <2> HIDE DEF n
  <2>6. \E i, j \in 1 .. n : i # j /\ f[i] = f[j]
    BY <2>1, <2>2, <2>3, <2>5, FS_PigeonHole
  <2>. QED
    BY <1>2, <2>6
<1>5. ToSet(f) = S
  BY <1>2, <1>4 DEF ToSet
<1>. QED
  BY <1>3, <1>5

LEMMA OrderedIs ==
  ASSUME NEW S, IsFiniteSet(S), S \subseteq Int
  PROVE  /\ Ordered(S) \in Seq(S) /\ ToSet(Ordered(S)) = S
         /\ \A i, j \in DOMAIN Ordered(S) : i < j => Ordered(S)[i] < Ordered(S)[j]
<1>1. PICK s \in [1 .. Cardinality(S) -> S] : Ascends(s) /\ \A x \in S : \E i \in DOMAIN s : s[i] = x
  BY Ordering
<1>2. Cardinality(S) \in Nat
  BY FS_CardinalityType, Zenon
<1>3. ASSUME NEW i \in 1 .. Cardinality(S), NEW j \in 1 .. Cardinality(S), i # j PROVE s[i] # s[j]
  <2>1. DOMAIN s = 1 .. Cardinality(S) /\ s[i] \in Int /\ s[j] \in Int
    BY <1>1
  <2>2. i < j \/ j < i
    BY <1>2, <1>3
  <2>. QED
    BY <1>1, <2>1, <2>2 DEF Ascends
<1>4. s \in SetToSeqs(S)
  BY <1>1, <1>3 DEF SetToSeqs
<1>5. Ordered(S) \in SetToSeqs(S) /\ \A i, j \in DOMAIN Ordered(S) : i < j => Ordered(S)[i] < Ordered(S)[j]
  <2>1. \A i, j \in DOMAIN s : i < j => s[i] < s[j]
    BY <1>1 DEF Ascends
  <2>. QED
    BY <1>4, <2>1, Zenon DEF Ordered
<1>6. PICK t : t = Ordered(S)
  OBVIOUS
<1>7. t \in Seq(S) /\ ToSet(t) = S
  <2>1. t \in SetToSeqs(S)
    BY <1>5, <1>6
  <2>. QED
    BY <2>1, AllOf
<1>. QED
  BY <1>5, <1>6, <1>7

(***************************************************************************)
(* Windows                                                                 *)
(***************************************************************************)

\* A search that is under way.
Admitted == search \in Searches /\ Valid(search) /\ illegible \subseteq Int

LEMMA Sizes ==
  ASSUME Admitted
  PROVE  /\ Width \in Nat \ {0} /\ Chunk \in Nat /\ Chunk >= Width
         /\ search.align \in Nat \ {0} /\ search.limit \in Nat \ {0} /\ search.chunk \in Nat
<1>1. /\ {search.align, search.limit, search.chunk} \subseteq Nat
      /\ search.kind = "pattern" => search.pattern \in Seq(SUBSET Bytes)
  BY SearchAssumption DEF Admitted
<1>2. search.align \in Nat \ {0} /\ search.limit \in Nat \ {0} /\ search.chunk \in Nat
  BY <1>1 DEF Admitted, Valid
<1>3. Width \in Nat \ {0}
  <2>1. CASE search.kind = "pattern"
    <3>1. search.pattern \in Seq(SUBSET Bytes) /\ search.pattern # <<>>
      BY <1>1, <2>1 DEF Admitted, Valid
    <3>2. Len(search.pattern) \in Nat \ {0}
      BY <3>1
    <3>. QED
      BY <2>1, <3>2 DEF Width, IsPattern
  <2>2. CASE search.kind # "pattern"
    BY <2>2 DEF Width, IsPattern, PointerSize
  <2>. QED
    BY <2>1, <2>2
<1>. QED
  BY <1>2, <1>3 DEF Chunk, Larger

\* A window lies in a wanted region, whole or up to its end.
WindowAt(w, r, p) ==
  /\ w.base = r.base /\ w.start = r.base + p
  /\ w.size = Smaller(r.size - p, Chunk + Width - 1)
  /\ p + Width <= r.size

LEMMA WindowIs ==
  ASSUME Admitted, NEW w \in AllWindows
  PROVE  \E r \in Wanted, k \in Nat, p \in Nat :
           /\ w = Window(r, k) /\ p = k * Chunk /\ WindowAt(w, r, p)
           /\ r.base \in Nat /\ r.size \in Nat /\ r.scannable
<1>. PICK r \in Wanted : w \in WindowsOf(r)
  BY DEF AllWindows
<1>1. PICK k \in 0 .. r.size : w = Window(r, k) /\ k * Chunk + Width <= r.size
  BY DEF WindowsOf
<1>2. r.base \in Nat /\ r.size \in Nat /\ r.scannable
  BY SearchAssumption DEF Wanted
<1>3. k \in Nat
  BY <1>2
<1>4. PICK p \in Nat : p = k * Chunk
  BY <1>3, Sizes
<1>5. /\ w.base = r.base /\ w.start = r.base + p
      /\ w.size = Smaller(r.base + r.size - (r.base + p), Chunk + Overlap)
  BY <1>1, <1>4 DEF Window
<1>6. r.base + r.size - (r.base + p) = r.size - p /\ Chunk + Overlap = Chunk + Width - 1
  BY <1>2, Sizes DEF Overlap
<1>. QED
  BY <1>1, <1>2, <1>3, <1>4, <1>5, <1>6 DEF WindowAt

LEMMA WindowSize ==
  ASSUME Admitted, NEW w \in AllWindows
  PROVE  w.start \in Nat /\ w.base \in Nat /\ w.size \in Nat /\ Width <= w.size /\ w.size <= Chunk + Width - 1
<1>1. PICK r \in Wanted, k \in Nat, p \in Nat :
         WindowAt(w, r, p) /\ r.base \in Nat /\ r.size \in Nat
  BY WindowIs
<1>. QED
  BY <1>1, Sizes DEF WindowAt, Smaller

\* Every place of the one is before every place of the other.
Before(w, u) == w.start + w.size - Width < u.start

LEMMA Multiples ==
  ASSUME NEW k \in Nat, NEW l \in Nat, NEW c \in Nat, k < l
  PROVE  k * c + c <= l * c
<1>1. PICK d \in Nat : l = k + 1 + d
  <2>1. l - k - 1 \in Nat /\ l = k + 1 + (l - k - 1)
    OBVIOUS
  <2>. QED
    BY <2>1
<1>2. (k + 1 + d) * c = k * c + c + d * c
  OBVIOUS
<1>3. d * c \in Nat /\ k * c \in Nat
  OBVIOUS
<1>4. PICK x \in Nat, y \in Nat : x = d * c /\ y = k * c
  BY <1>3
<1>. QED
  BY <1>1, <1>2, <1>4

LEMMA WindowsApart ==
  ASSUME Admitted, NEW w \in AllWindows, NEW u \in AllWindows, w # u
  PROVE  Before(w, u) \/ Before(u, w)
<1>1. PICK r \in Wanted, k \in Nat, p \in Nat :
         /\ w = Window(r, k) /\ p = k * Chunk /\ WindowAt(w, r, p)
         /\ r.base \in Nat /\ r.size \in Nat
  BY WindowIs
<1>2. PICK s \in Wanted, l \in Nat, q \in Nat :
         /\ u = Window(s, l) /\ q = l * Chunk /\ WindowAt(u, s, q)
         /\ s.base \in Nat /\ s.size \in Nat
  BY WindowIs
<1>3. CASE r = s
  <2>1. k # l
    BY <1>1, <1>2, <1>3
  <2>2. CASE k < l
    <3>1. p + Chunk <= q
      BY <1>1, <1>2, <2>2, Sizes, Multiples
    <3>. QED
      BY <1>1, <1>2, <1>3, <3>1, Sizes DEF WindowAt, Before, Smaller
  <2>3. CASE l < k
    <3>1. q + Chunk <= p
      BY <1>1, <1>2, <2>3, Sizes, Multiples
    <3>. QED
      BY <1>1, <1>2, <1>3, <3>1, Sizes DEF WindowAt, Before, Smaller
  <2>. QED
    BY <1>1, <1>2, <2>1, <2>2, <2>3
<1>4. CASE r # s
  <2>1. r.base + r.size <= s.base \/ s.base + s.size <= r.base
    BY <1>4, SearchAssumption DEF Wanted
  <2>2. /\ w.start + w.size <= r.base + r.size /\ r.base <= w.start
        /\ u.start + u.size <= s.base + s.size /\ s.base <= u.start
    BY <1>1, <1>2, Sizes DEF WindowAt, Smaller
  <2>3. w.start \in Nat /\ w.size \in Nat /\ u.start \in Nat /\ u.size \in Nat
    BY WindowSize
  <2>. QED
    BY <1>1, <1>2, <2>1, <2>2, <2>3, Sizes DEF Before
<1>. QED
  BY <1>3, <1>4

LEMMA FirstIs ==
  ASSUME Admitted, NEW unread \in SUBSET AllWindows, unread # {}
  PROVE  FirstOf(unread) \in unread /\ \A u \in unread \ {FirstOf(unread)} : Before(FirstOf(unread), u)
<1>1. \A u \in unread : u \in AllWindows /\ u.start \in Nat
  BY WindowSize
<1>2. PICK n \in {u.start : u \in unread} : \A x \in {u.start : u \in unread} : n <= x
  <2>1. {u.start : u \in unread} \subseteq Nat /\ {u.start : u \in unread} # {}
    BY <1>1
  <2>. QED
    BY <2>1, Least
<1>3. PICK v \in unread : v.start = n
  BY <1>2
<1>4. \A u \in unread : v.start <= u.start
  BY <1>2, <1>3
<1>5. PICK w : w = FirstOf(unread)
  OBVIOUS
<1>6. w \in unread /\ \A u \in unread : w.start <= u.start
  BY <1>4, <1>5, Zenon DEF FirstOf
<1>7. ASSUME NEW u \in unread \ {w} PROVE Before(w, u)
  <2>1. w \in AllWindows /\ u \in AllWindows /\ w # u /\ w.start <= u.start
    BY <1>1, <1>6
  <2>2. Before(w, u) \/ Before(u, w)
    BY <2>1, WindowsApart
  <2>3. w.start \in Nat /\ u.start \in Nat /\ u.size \in Nat /\ Width <= u.size
    BY <2>1, WindowSize
  <2>. QED
    BY <2>1, <2>2, <2>3, Sizes DEF Before
<1>. QED
  BY <1>5, <1>6, <1>7

\* Each candidate is a place of a window, and of a readable one if it is spared.
LEMMA Covered ==
  ASSUME Admitted, NEW a \in Candidates
  PROVE  \E w \in AllWindows : a \in Places(w) /\ (Spared(a) => CanRead(w))
<1>1. PICK r \in Wanted : a \in r.base .. r.base + r.size - Width /\ (a - r.base) % search.align = 0
  BY DEF Candidates
<1>2. r.base \in Nat /\ r.size \in Nat /\ r.size >= Width
  BY SearchAssumption DEF Wanted
<1>3. PICK d \in Nat : a = r.base + d /\ d + Width <= r.size
  <2>1. a - r.base \in Nat /\ a = r.base + (a - r.base) /\ (a - r.base) + Width <= r.size
    BY <1>1, <1>2, Sizes
  <2>. QED
    BY <2>1
<1>4. Chunk \in Nat \ {0}
  BY Sizes
<1>5. PICK k \in Int, rest \in 0 .. Chunk - 1 : d = Chunk * k + rest
  <2>1. d \in Int
    OBVIOUS
  <2>2. \E k \in Int, rest \in 0 .. Chunk - 1 :
          d \div Chunk = k /\ d % Chunk = rest /\ d = Chunk * k + rest
    BY <1>4, <2>1, Division, Zenon
  <2>. QED
    BY <2>2, Zenon
<1>6. k >= 0
  <2>1. ASSUME k < 0 PROVE FALSE
    <3>1. PICK e \in Nat : k = -1 - e
      <4>1. -1 - k \in Nat /\ k = -1 - (-1 - k)
        BY <1>5, <2>1
      <4>. QED
        BY <4>1
    <3>2. Chunk * (-1 - e) = -Chunk - Chunk * e /\ Chunk * e \in Nat
      BY <1>4
    <3>3. PICK x \in Nat : x = Chunk * e
      BY <3>2
    <3>. QED
      BY <1>4, <1>5, <3>1, <3>2, <3>3
  <2>. QED
    BY <1>5, <2>1
<1>7. PICK p \in Nat : p = k * Chunk /\ p = Chunk * k
  <2>1. k \in Nat /\ k * Chunk = Chunk * k /\ k * Chunk \in Nat
    BY <1>4, <1>5, <1>6
  <2>. QED
    BY <2>1
<1>8. d = p + rest
  BY <1>5, <1>7
<1>9. k <= p
  <2>1. k * Chunk = k + k * (Chunk - 1)
    BY <1>4, <1>5
  <2>2. k * (Chunk - 1) \in Nat
    BY <1>4, <1>5, <1>6
  <2>3. PICK x \in Nat : x = k * (Chunk - 1)
    BY <2>2
  <2>. QED
    BY <1>5, <1>7, <2>1, <2>3
<1>10. k \in 0 .. r.size /\ k * Chunk + Width <= r.size
  BY <1>2, <1>3, <1>5, <1>6, <1>7, <1>8, <1>9, Sizes
<1>11. PICK w \in AllWindows : w = Window(r, k)
  BY <1>10 DEF AllWindows, WindowsOf
<1>12. /\ w.base = r.base /\ w.start = r.base + p
       /\ w.size = Smaller(r.base + r.size - (r.base + p), Chunk + Width - 1)
  <2>1. Chunk + Overlap = Chunk + Width - 1
    BY Sizes DEF Overlap
  <2>. QED
    BY <1>7, <1>11, <2>1 DEF Window
<1>13. a \in w.start .. w.start + w.size - Width
  BY <1>2, <1>3, <1>5, <1>8, <1>12, Sizes DEF Smaller
<1>14. a \in Places(w)
  BY <1>1, <1>12, <1>13 DEF Places
<1>15. ASSUME Spared(a) PROVE CanRead(w)
  <2>1. SUFFICES ASSUME NEW u \in illegible, u \in w.start .. w.start + w.size - 1 PROVE FALSE
    BY DEF CanRead
  <2>2. u \in Int /\ (u < a - Chunk - Width \/ u > a + Chunk + Width)
    BY <1>15 DEF Spared, Admitted
  <2>. QED
    BY <1>2, <1>3, <1>5, <1>8, <1>12, <2>1, <2>2, Sizes DEF Smaller
<1>. QED
  BY <1>14, <1>15

\* A place of a window is a candidate, and what is read there is in its region.
LEMMA PlaceIs ==
  ASSUME Admitted, NEW w \in AllWindows, NEW a \in Places(w)
  PROVE  /\ a \in Candidates /\ a \in Nat /\ w.start <= a /\ a + Width <= w.start + w.size
         /\ \E r \in ToSet(Regions) : r.scannable /\ a .. a + Width - 1 \subseteq r.base .. r.base + r.size - 1
<1>1. PICK r \in Wanted, k \in Nat, p \in Nat :
         WindowAt(w, r, p) /\ r.base \in Nat /\ r.size \in Nat /\ r.scannable
  BY WindowIs
<1>2. w.start \in Nat /\ w.size \in Nat /\ Width \in Nat
  BY WindowSize, Sizes
<1>3. a \in w.start .. w.start + w.size - Width /\ (a - w.base) % search.align = 0
  BY DEF Places
<1>4. a \in Nat /\ w.start <= a /\ a + Width <= w.start + w.size
  BY <1>2, <1>3
<1>5. w.start + w.size <= r.base + r.size /\ r.base <= w.start
  BY <1>1, <1>2, Sizes DEF WindowAt, Smaller
<1>6. a \in r.base .. r.base + r.size - Width
  BY <1>1, <1>2, <1>4, <1>5
<1>7. a \in Candidates
  BY <1>1, <1>3, <1>6 DEF Candidates, WindowAt
<1>8. a .. a + Width - 1 \subseteq r.base .. r.base + r.size - 1
  BY <1>1, <1>2, <1>4, <1>5
<1>. QED
  BY <1>1, <1>4, <1>7, <1>8 DEF Wanted

\* Windows and places stay where they are.
LEMMA Fixed ==
  ASSUME UNCHANGED target
  PROVE  /\ AllWindows' = AllWindows /\ \A w : Places(w)' = Places(w) /\ CanRead(w)' = CanRead(w)
         /\ Candidates' = Candidates /\ \A a : Spared(a)' = Spared(a)
         /\ \A w, u : Before(w, u)' = Before(w, u)
<1>1. search' = search /\ illegible' = illegible
  BY DEF target
<1>2. Width' = Width /\ Chunk' = Chunk
  BY <1>1 DEF Width, Chunk, IsPattern
<1>3. Wanted' = Wanted
  BY <1>2 DEF Wanted
<1>4. \A r, k : Window(r, k)' = Window(r, k)
  BY <1>2 DEF Window, Overlap
<1>5. AllWindows' = AllWindows
  BY <1>2, <1>3, <1>4 DEF AllWindows, WindowsOf
<1>. QED
  BY <1>1, <1>2, <1>3, <1>5 DEF Places, CanRead, Candidates, Spared, Before

(***************************************************************************)
(* Reading window after window                                             *)
(***************************************************************************)

LEMMA UpToIs ==
  ASSUME NEW S, NEW s \in Seq(S), NEW n \in Nat
  PROVE  /\ UpTo(n, s) \in Seq(S) /\ Len(UpTo(n, s)) = Smaller(n, Len(s))
         /\ \A i \in DOMAIN UpTo(n, s) : i \in DOMAIN s /\ i <= n /\ UpTo(n, s)[i] = s[i]
<1>1. PICK k \in Nat : k = Smaller(n, Len(s)) /\ k <= n /\ k <= Len(s)
  BY DEF Smaller
<1>2. PICK t : t = UpTo(n, s)
  OBVIOUS
<1>3. t = [i \in 1 .. k |-> s[i]]
  BY <1>1, <1>2 DEF UpTo
<1>4. \A i \in 1 .. k : i \in DOMAIN s /\ s[i] \in S /\ i <= n
  BY <1>1
<1>5. t \in [1 .. k -> S]
  BY <1>3, <1>4
<1>6. t \in Seq(S) /\ Len(t) = k
  BY <1>5, Listed
<1>. QED
  BY <1>1, <1>2, <1>3, <1>4, <1>6

LEMMA Joined ==
  ASSUME NEW S, NEW s \in Seq(S), NEW t \in Seq(S)
  PROVE  /\ s \o t \in Seq(S) /\ Len(s \o t) = Len(s) + Len(t)
         /\ \A i \in DOMAIN (s \o t) :
              \/ i \in DOMAIN s /\ (s \o t)[i] = s[i]
              \/ i - Len(s) \in DOMAIN t /\ i > Len(s) /\ (s \o t)[i] = t[i - Len(s)]
         /\ \A i \in DOMAIN s : i \in DOMAIN (s \o t) /\ (s \o t)[i] = s[i]
         /\ \A i \in DOMAIN t : Len(s) + i \in DOMAIN (s \o t) /\ (s \o t)[Len(s) + i] = t[i]
OBVIOUS

LEMMA Taken ==
  ASSUME NEW s \in Seq(Nat), NEW n \in Nat \ {0}, NEW t, t = UpTo(n, s)
  PROVE  /\ t \in Seq(Nat) /\ Len(t) = Smaller(n, Len(s))
         /\ \A i \in DOMAIN t : i \in DOMAIN s /\ i <= n /\ t[i] = s[i]
<1>1. n \in Nat
  OBVIOUS
<1>. QED
  BY <1>1, UpToIs

LEMMA PlacesApart ==
  ASSUME Admitted, NEW w \in AllWindows, NEW u \in AllWindows, Before(w, u),
         NEW x \in Places(w), NEW y \in Places(u)
  PROVE  x < y
<1>1. x \in Nat /\ x + Width <= w.start + w.size /\ y \in Nat /\ u.start <= y
  BY PlaceIs
<1>2. w.start \in Nat /\ w.size \in Nat /\ u.start \in Nat
  BY WindowSize
<1>. QED
  BY <1>1, <1>2, Sizes DEF Before

\* What was found so far in the windows that are not left, at most n places.
Gathered(got, left, n) ==
  /\ left \subseteq AllWindows /\ \A w \in AllWindows \ left, u \in left : Before(w, u)
  /\ got \in Seq(Nat) /\ Ascends(got) /\ Len(got) <= n /\ (Len(got) = n => left = {})
  /\ \A i \in DOMAIN got : \E w \in AllWindows \ left : got[i] \in Places(w)

\* All the places that were sure to be found were, up to the last one found.
Complete(got, left, n, sure) ==
  \A w \in AllWindows \ left : CanRead(w) =>
    \A a \in Places(w) : a \in sure /\ (Len(got) = n => a < got[Len(got)]) => a \in ToSet(got)

LEMMA GatheringStarts ==
  ASSUME NEW n \in Nat \ {0}, NEW sure
  PROVE  Gathered(<<>>, AllWindows, n) /\ Complete(<<>>, AllWindows, n, sure)
BY DEF Gathered, Complete, Ascends

\* The hits of a window, in order, with all the sure ones if it can be read.
Answers(hits, w, sure) ==
  /\ Ascends(hits) /\ ToSet(hits) \subseteq Places(w)
  /\ CanRead(w) => \A a \in Places(w) : a \in sure => a \in ToSet(hits)

\* They are added as far as there is room.
Adds(got, left, n, hits, got2, left2) ==
  /\ got2 = UpTo(n, got \o hits)
  /\ left2 = IF Len(got \o hits) >= n THEN {} ELSE left \ {FirstOf(left)}

LEMMA GatheringGoesOn ==
  ASSUME Admitted, NEW n \in Nat \ {0}, NEW sure, NEW got, NEW left, left # {},
         Gathered(got, left, n), Complete(got, left, n, sure),
         NEW hits \in Seq(Nat), Answers(hits, FirstOf(left), sure),
         NEW got2, NEW left2, Adds(got, left, n, hits, got2, left2)
  PROVE  /\ Gathered(got2, left2, n) /\ Complete(got2, left2, n, sure)
         /\ \A i \in DOMAIN got2 : got2[i] \in ToSet(got) \cup ToSet(hits)
<1>1. PICK w : w = FirstOf(left)
  OBVIOUS
<1>2. w \in left /\ \A u \in left \ {w} : Before(w, u)
  BY <1>1, FirstIs DEF Gathered
<1>3. got \in Seq(Nat) /\ left \subseteq AllWindows /\ w \in AllWindows
  BY <1>2 DEF Gathered
<1>4. PICK all \in Seq(Nat) : all = got \o hits
  <2>1. got \o hits \in Seq(Nat)
    BY <1>3, Joined
  <2>. QED
    BY <2>1, Zenon
<1>5. /\ Len(all) = Len(got) + Len(hits)
      /\ \A i \in DOMAIN all : \/ i \in DOMAIN got /\ all[i] = got[i]
                               \/ i - Len(got) \in DOMAIN hits /\ i > Len(got) /\ all[i] = hits[i - Len(got)]
      /\ \A i \in DOMAIN got : i \in DOMAIN all /\ all[i] = got[i]
      /\ \A i \in DOMAIN hits : Len(got) + i \in DOMAIN all /\ all[Len(got) + i] = hits[i]
  BY <1>3, <1>4, Joined
<1>6. /\ got2 \in Seq(Nat) /\ Len(got2) = Smaller(n, Len(all))
      /\ \A i \in DOMAIN got2 : i \in DOMAIN all /\ i <= n /\ got2[i] = all[i]
  <2>1. got2 = UpTo(n, all)
    BY <1>4 DEF Adds
  <2>. QED
    BY <2>1, Taken
<1>7. Len(all) \in Nat /\ Len(got) \in Nat /\ Len(hits) \in Nat /\ Len(got2) \in Nat
  BY <1>3, <1>4, <1>6
<1>8. ASSUME NEW v \in AllWindows \ left, NEW x \in Places(v), NEW u \in left, NEW y \in Places(u)
      PROVE  x < y
  <2>1. Before(v, u) /\ v \in AllWindows /\ u \in AllWindows
    BY <1>3, <1>8 DEF Gathered
  <2>. QED
    BY <2>1, PlacesApart
<1>9. ASSUME NEW i \in DOMAIN got, NEW j \in DOMAIN hits PROVE got[i] < hits[j]
  <2>1. hits[j] \in Places(w)
    BY <1>1, <1>9 DEF ToSet, Answers
  <2>2. PICK v \in AllWindows \ left : got[i] \in Places(v)
    BY <1>9 DEF Gathered
  <2>. QED
    BY <1>2, <1>8, <2>1, <2>2
<1>10. ASSUME NEW i \in DOMAIN all, NEW j \in DOMAIN all, i < j PROVE all[i] < all[j]
  <2>1. CASE j \in DOMAIN got /\ all[j] = got[j]
    <3>1. i \in DOMAIN got
      BY <1>3, <1>4, <1>10, <2>1
    <3>. QED
      BY <1>5, <1>10, <2>1, <3>1 DEF Gathered, Ascends
  <2>2. CASE j - Len(got) \in DOMAIN hits /\ j > Len(got) /\ all[j] = hits[j - Len(got)]
    <3>1. CASE i \in DOMAIN got /\ all[i] = got[i]
      BY <1>9, <2>2, <3>1
    <3>2. CASE i - Len(got) \in DOMAIN hits /\ i > Len(got) /\ all[i] = hits[i - Len(got)]
      <4>1. i - Len(got) < j - Len(got)
        BY <1>4, <1>7, <1>10
      <4>. QED
        BY <2>2, <3>2, <4>1 DEF Ascends, Answers
    <3>. QED
      BY <1>5, <1>10, <3>1, <3>2
  <2>. QED
    BY <1>5, <1>10, <2>1, <2>2
<1>11. Ascends(got2)
  <2>1. ASSUME NEW i \in DOMAIN got2, NEW j \in DOMAIN got2, i < j PROVE got2[i] < got2[j]
    BY <1>6, <1>10, <2>1
  <2>. QED
    BY <2>1 DEF Ascends
<1>12. left2 = (IF Len(all) >= n THEN {} ELSE left \ {w}) /\ left2 \subseteq left /\ w \notin left2
  BY <1>1, <1>4 DEF Adds
<1>13. ASSUME NEW i \in DOMAIN all
       PROVE  \/ i \in DOMAIN got /\ all[i] = got[i] /\ \E v \in AllWindows \ left : all[i] \in Places(v)
              \/ i > Len(got) /\ all[i] \in ToSet(hits) /\ all[i] \in Places(w)
  <2>1. CASE i \in DOMAIN got /\ all[i] = got[i]
    BY <2>1 DEF Gathered
  <2>2. CASE i - Len(got) \in DOMAIN hits /\ i > Len(got) /\ all[i] = hits[i - Len(got)]
    <3>1. all[i] \in ToSet(hits)
      BY <2>2 DEF ToSet
    <3>. QED
      BY <1>1, <2>2, <3>1 DEF Answers
  <2>. QED
    BY <1>5, <1>13, <2>1, <2>2
<1>14. \A i \in DOMAIN got2 : \E v \in AllWindows \ left2 : got2[i] \in Places(v)
  BY <1>2, <1>3, <1>6, <1>12, <1>13
<1>15. \A v \in AllWindows \ left2, u \in left2 : Before(v, u)
  <2>1. SUFFICES ASSUME NEW v \in AllWindows \ left2, NEW u \in left2 PROVE Before(v, u)
    OBVIOUS
  <2>2. u \in left \ {w} /\ left2 = left \ {w}
    BY <1>12
  <2>3. CASE v = w
    BY <1>2, <2>2, <2>3
  <2>4. CASE v \notin left
    BY <2>2, <2>4 DEF Gathered
  <2>. QED
    BY <2>1, <2>2, <2>3, <2>4
<1>16. Gathered(got2, left2, n)
  <2>1. Len(got2) <= n /\ (Len(got2) = n => left2 = {})
    BY <1>6, <1>7, <1>12 DEF Smaller
  <2>2. left2 \subseteq AllWindows
    BY <1>3, <1>12
  <2>. QED
    BY <1>6, <1>11, <1>14, <1>15, <2>1, <2>2 DEF Gathered
<1>17. ASSUME NEW v \in AllWindows \ left2, CanRead(v), NEW a \in Places(v), a \in sure,
              Len(got2) = n => a < got2[Len(got2)]
       PROVE  a \in ToSet(got2)
  <2>1. ASSUME NEW j \in DOMAIN all, all[j] = a PROVE a \in ToSet(got2)
    <3>1. CASE j <= Len(got2)
      <4>1. j \in DOMAIN got2 /\ got2[j] = a
        <5>1. j \in DOMAIN got2
          BY <1>4, <1>6, <2>1, <3>1
        <5>. QED
          BY <1>6, <2>1, <5>1
      <4>. QED
        BY <4>1 DEF ToSet
    <3>2. CASE j > Len(got2)
      <4>1. Len(got2) = n /\ n \in DOMAIN got2
        BY <1>4, <1>6, <1>7, <2>1, <3>2 DEF Smaller
      <4>2. got2[n] = all[n] /\ n \in DOMAIN all
        BY <1>6, <4>1
      <4>3. all[n] < all[j] /\ all[n] \in Nat /\ all[j] \in Nat
        <5>1. n < j
          BY <3>2, <4>1
        <5>2. \A i \in DOMAIN all : all[i] \in Nat
          BY <1>4
        <5>. QED
          BY <1>10, <2>1, <4>2, <5>1, <5>2
      <4>4. a < all[n]
        BY <1>17, <4>1, <4>2
      <4>. QED
        BY <2>1, <4>3, <4>4
    <3>. QED
      BY <1>4, <1>7, <2>1, <3>1, <3>2
  <2>2. CASE v \notin left
    <3>1. Len(got) # n
      BY DEF Gathered
    <3>2. a \in ToSet(got)
      BY <1>17, <2>2, <3>1 DEF Complete
    <3>3. PICK j \in DOMAIN got : got[j] = a
      BY <3>2 DEF ToSet
    <3>. QED
      BY <1>5, <2>1, <3>3
  <2>3. CASE v = w
    <3>1. a \in ToSet(hits)
      BY <1>1, <1>17, <2>3 DEF Answers
    <3>2. PICK j \in DOMAIN hits : hits[j] = a
      BY <3>1 DEF ToSet
    <3>. QED
      BY <1>5, <2>1, <3>2
  <2>4. CASE v \in left \ {w}
    <3>1. left2 = {} /\ Len(all) >= n
      BY <1>12, <1>17, <2>4
    <3>2. Len(got2) = n /\ n \in DOMAIN got2
      BY <1>6, <1>7, <3>1 DEF Smaller
    <3>3. got2[n] < a
      <4>1. CASE \E u \in AllWindows \ left : all[n] \in Places(u)
        BY <1>6, <1>8, <2>4, <3>2, <4>1
      <4>2. CASE all[n] \in Places(w)
        <5>1. Before(w, v) /\ v \in AllWindows
          BY <1>2, <1>3, <2>4
        <5>2. PICK x \in Places(w) : x = all[n]
          BY <4>2
        <5>3. x < a
          BY <1>3, <5>1, PlacesApart
        <5>. QED
          BY <1>6, <3>2, <5>2, <5>3
      <4>. QED
        BY <1>6, <1>13, <3>2, <4>1, <4>2
    <3>4. got2[n] \in Nat /\ a \in Nat
      BY <1>3, <1>6, <2>4, <3>2, PlaceIs
    <3>. QED
      BY <1>17, <3>2, <3>3, <3>4
  <2>. QED
    BY <1>17, <2>2, <2>3, <2>4
<1>18. Complete(got2, left2, n, sure)
  BY <1>17 DEF Complete
<1>19. \A i \in DOMAIN got2 : got2[i] \in ToSet(got) \cup ToSet(hits)
  <2>1. SUFFICES ASSUME NEW i \in DOMAIN got2 PROVE got2[i] \in ToSet(got) \cup ToSet(hits)
    OBVIOUS
  <2>2. i \in DOMAIN all /\ got2[i] = all[i]
    BY <1>6
  <2>. QED
    BY <1>13, <2>2 DEF ToSet
<1>. QED
  BY <1>16, <1>18, <1>19

\* The hits of a window are its places of which the question is true.
LEMMA HitsOf ==
  ASSUME Admitted, NEW w \in AllWindows, NEW S \in SUBSET Places(w)
  PROVE  Ordered(S) \in Seq(Nat) /\ ToSet(Ordered(S)) = S /\ Ascends(Ordered(S))
<1>1. S \subseteq w.start .. w.start + w.size - Width
  BY DEF Places
<1>2. w.start \in Nat /\ w.size \in Nat /\ Width \in Nat
  BY WindowSize, Sizes
<1>3. PICK low \in Nat, high \in Int : low = w.start /\ high = w.start + w.size - Width
  BY <1>2
<1>4. IsFiniteSet(S) /\ S \subseteq Nat
  <2>1. IsFiniteSet(low .. high)
    BY FS_Interval
  <2>2. S \subseteq low .. high
    BY <1>1, <1>3
  <2>3. IsFiniteSet(S)
    BY <2>1, <2>2, FiniteParts
  <2>. QED
    BY <2>2, <2>3
<1>5. PICK s : s = Ordered(S)
  OBVIOUS
<1>6. /\ s \in Seq(S) /\ ToSet(s) = S
      /\ \A i, j \in DOMAIN s : i < j => s[i] < s[j]
  <2>1. S \subseteq Int
    BY <1>4
  <2>. QED
    BY <1>4, <1>5, <2>1, OrderedIs
<1>7. s \in Seq(Nat) /\ Ascends(s)
  <2>1. s \in Seq(Nat)
    <3>1. Len(s) \in Nat /\ s \in [1 .. Len(s) -> S]
      BY <1>6
    <3>2. s \in [1 .. Len(s) -> Nat]
      BY <1>4, <3>1
    <3>. QED
      BY <3>1, <3>2, Listed
  <2>2. Ascends(s)
    BY <1>6, Zenon DEF Ascends
  <2>. QED
    BY <2>1, <2>2
<1>. QED
  BY <1>5, <1>6, <1>7

(***************************************************************************)
(* The pattern scan                                                        *)
(***************************************************************************)

SearchShape ==
  /\ search \in Searches /\ illegible \in Unreadables /\ memory \in seen
  /\ step \notin {"begin", "refused"} => Valid(search)
  /\ step = "pursue" => ~IsPattern
  /\ \A m \in seen : m \in [DOMAIN memory -> Bytes]
  /\ DOMAIN memory \subseteq Int
  /\ \A r \in ToSet(Regions) : r.scannable => r.base .. r.base + r.size - 1 \subseteq DOMAIN memory
  /\ step = "begin" => /\ windows = {} /\ found = <<>> /\ cut = FALSE
                       /\ queue = <<>> /\ visited = {} /\ near = <<>>

\* The places where the pattern was all along.
Lasting == {a \in Candidates : \A m \in seen : MatchesAt(m, a)}

PatternInv ==
  IsPattern /\ step \in {"read", "done"} =>
    /\ Gathered(found, windows, search.limit)
    /\ Complete(found, windows, search.limit, Lasting)
    /\ cut <=> Len(found) = search.limit
    /\ \A i \in DOMAIN found : \E m \in seen : MatchesAt(m, found[i])
    /\ step = "done" => windows = {}

LEMMA SearchStart == SearchInit => SearchShape /\ PatternInv
<1>1. SUFFICES ASSUME SearchInit PROVE SearchShape /\ PatternInv
  OBVIOUS
<1>2. memory \in Memories /\ search \in Searches /\ illegible \in Unreadables /\ seen = {memory} /\ step = "begin"
  BY <1>1 DEF SearchInit
<1>3. /\ memory \in [DOMAIN memory -> Bytes] /\ DOMAIN memory \subseteq Int
      /\ \A r \in ToSet(Regions) : r.scannable => r.base .. r.base + r.size - 1 \subseteq DOMAIN memory
  BY <1>2, SearchAssumption
<1>4. SearchShape
  BY <1>1, <1>2, <1>3 DEF SearchInit, SearchShape
<1>5. PatternInv
  BY <1>2 DEF PatternInv
<1>. QED
  BY <1>4, <1>5

LEMMA ShapeStays == SearchShape /\ [SearchNext]_searchVars => SearchShape'
<1>1. SUFFICES ASSUME SearchShape, [SearchNext]_searchVars PROVE SearchShape'
  OBVIOUS
<1>2. CASE Begin
  BY <1>1, <1>2 DEF SearchShape, Begin, target, IsPattern
<1>3. CASE ReadWindow
  BY <1>1, <1>3 DEF SearchShape, ReadWindow, target, pursuit, IsPattern
<1>4. CASE ReturnHits
  BY <1>1, <1>4 DEF SearchShape, ReturnHits, target, pursuit, IsPattern
<1>5. CASE Pursue
  BY <1>1, <1>5 DEF SearchShape, Pursue, target, IsPattern
<1>6. CASE ReadPredecessors
  BY <1>1, <1>6 DEF SearchShape, ReadPredecessors, target, IsPattern
<1>7. CASE Expand
  BY <1>1, <1>7 DEF SearchShape, Expand, target, IsPattern
<1>8. ASSUME NEW a \in DOMAIN memory, NEW b \in Bytes, Write(a, b) PROVE SearchShape'
  <2>1. /\ memory' = [memory EXCEPT ![a] = b] /\ seen' = seen \cup {memory'}
        /\ UNCHANGED <<search, illegible, windows, found, cut, queue, visited, near, step>>
    BY <1>8 DEF Write, target, pursuit
  <2>2. memory \in [DOMAIN memory -> Bytes]
    BY <1>1 DEF SearchShape
  <2>3. memory' \in [DOMAIN memory -> Bytes] /\ DOMAIN memory' = DOMAIN memory
    BY <1>8, <2>1, <2>2
  <2>4. \A m \in seen' : m \in [DOMAIN memory' -> Bytes]
    BY <1>1, <2>1, <2>3 DEF SearchShape
  <2>. QED
    BY <1>1, <2>1, <2>3, <2>4 DEF SearchShape, IsPattern
<1>9. CASE UNCHANGED searchVars
  BY <1>1, <1>9 DEF SearchShape, searchVars, target, pursuit, IsPattern
<1>. QED
  BY <1>1, <1>2, <1>3, <1>4, <1>5, <1>6, <1>7, <1>8, <1>9 DEF SearchNext, Searching

LEMMA UnderWay == ASSUME SearchShape, step \notin {"begin", "refused"} PROVE Admitted
BY SearchAssumption DEF SearchShape, Admitted

LEMMA PatternBegins == ASSUME SearchShape, Begin PROVE PatternInv'
<1>1. SUFFICES ASSUME IsPattern', step' \in {"read", "done"} PROVE PatternInv'
  BY DEF PatternInv
<1>2. UNCHANGED <<search, illegible, found, cut, seen>> /\ UNCHANGED target
  BY DEF Begin, target
<1>3. IsPattern /\ Valid(search) /\ step = "begin"
  BY <1>1, <1>2 DEF Begin, IsPattern
<1>4. windows' = AllWindows /\ step' = "read" /\ found = <<>> /\ cut = FALSE
  BY <1>3 DEF Begin, SearchShape
<1>5. Admitted
  BY <1>3, SearchAssumption DEF SearchShape, Admitted
<1>6. search.limit \in Nat \ {0}
  BY <1>5, Sizes
<1>7. Gathered(<<>>, AllWindows, search.limit) /\ \A sure : Complete(<<>>, AllWindows, search.limit, sure)
  BY <1>6, GatheringStarts
<1>8. Gathered(found, windows, search.limit)'
  BY <1>2, <1>4, <1>7, Fixed DEF Gathered, Ascends
<1>9. Complete(found, windows, search.limit, Lasting)'
  BY <1>2, <1>4, Fixed DEF Complete
<1>. QED
  BY <1>2, <1>4, <1>6, <1>8, <1>9 DEF PatternInv

LEMMA PatternReads == ASSUME SearchShape, PatternInv, ReadWindow PROVE PatternInv'
<1>1. /\ step = "read" /\ IsPattern /\ windows # {} /\ step' = step
      /\ UNCHANGED target /\ search' = search /\ UNCHANGED <<memory, seen>>
  BY DEF ReadWindow, target
<1>2. Admitted
  BY <1>1, UnderWay
<1>3. PICK n \in Nat \ {0} : n = search.limit
  BY <1>2, Sizes
<1>4. /\ Gathered(found, windows, n) /\ Complete(found, windows, n, Lasting)
      /\ \A i \in DOMAIN found : \E m \in seen : MatchesAt(m, found[i])
  BY <1>1, <1>3 DEF PatternInv
<1>5. PICK w : w = FirstOf(windows)
  OBVIOUS
<1>6. w \in AllWindows
  BY <1>1, <1>2, <1>4, <1>5, FirstIs DEF Gathered
<1>7. PICK hits : hits = Hits(w)
  OBVIOUS
<1>8. /\ hits \in Seq(Nat) /\ Answers(hits, w, Lasting) /\ \A a \in ToSet(hits) : MatchesAt(memory, a)
  <2>1. CASE CanRead(w)
    <3>1. PICK S \in SUBSET Places(w) : S = {a \in Places(w) : MatchesAt(memory, a)}
      OBVIOUS
    <3>2. hits = Ordered(S)
      BY <1>1, <1>7, <2>1, <3>1 DEF Hits
    <3>3. hits \in Seq(Nat) /\ ToSet(hits) = S /\ Ascends(hits)
      BY <1>2, <1>6, <3>2, HitsOf
    <3>4. \A a \in Places(w) : a \in Lasting => a \in S
      BY <3>1 DEF Lasting, SearchShape
    <3>. QED
      BY <3>1, <3>3, <3>4 DEF Answers
  <2>2. CASE ~CanRead(w)
    <3>1. hits = <<>>
      BY <1>7, <2>2 DEF Hits
    <3>. QED
      BY <2>2, <3>1 DEF Answers, Ascends, ToSet
  <2>. QED
    BY <2>1, <2>2
<1>9. Adds(found, windows, n, hits, found', windows')
  BY <1>3, <1>5, <1>7 DEF ReadWindow, Adds
<1>10. /\ Gathered(found', windows', n) /\ Complete(found', windows', n, Lasting)
       /\ \A i \in DOMAIN found' : found'[i] \in ToSet(found) \cup ToSet(hits)
  <2>1. PICK got2, left2 : got2 = found' /\ left2 = windows'
    OBVIOUS
  <2>2. PICK got, left : got = found /\ left = windows
    OBVIOUS
  <2>3. Gathered(got, left, n) /\ Complete(got, left, n, Lasting)
    BY <1>4, <2>2
  <2>4. Answers(hits, FirstOf(left), Lasting) /\ Adds(got, left, n, hits, got2, left2) /\ left # {}
    BY <1>1, <1>5, <1>8, <1>9, <2>1, <2>2
  <2>5. /\ Gathered(got2, left2, n) /\ Complete(got2, left2, n, Lasting)
        /\ \A i \in DOMAIN got2 : got2[i] \in ToSet(got) \cup ToSet(hits)
    BY <1>2, <1>8, <2>3, <2>4, GatheringGoesOn
  <2>. QED
    BY <2>1, <2>2, <2>5
<1>11. Gathered(found, windows, search.limit)'
  BY <1>1, <1>3, <1>10, Fixed DEF Gathered, Ascends
<1>12. Lasting' = Lasting
  <2>1. \A m, a : MatchesAt(m, a)' = MatchesAt(m, a)
    BY <1>1 DEF MatchesAt, Width, IsPattern
  <2>. QED
    BY <1>1, <2>1, Fixed DEF Lasting
<1>13. Complete(found, windows, search.limit, Lasting)'
  BY <1>1, <1>3, <1>10, <1>12, Fixed DEF Complete
<1>14. cut' <=> Len(found') = search'.limit
  <2>1. PICK all \in Seq(Nat) : all = found \o hits
    <3>1. found \in Seq(Nat)
      BY <1>4 DEF Gathered
    <3>2. found \o hits \in Seq(Nat)
      BY <1>8, <3>1, Joined
    <3>. QED
      BY <3>2, Zenon
  <2>2. found' = UpTo(n, all) /\ cut' = (Len(all) >= n)
    BY <1>3, <1>5, <1>7, <2>1 DEF ReadWindow
  <2>3. Len(found') = Smaller(n, Len(all))
    BY <2>2, Taken
  <2>4. Len(all) \in Nat
    OBVIOUS
  <2>5. Len(found') = n <=> Len(all) >= n
    BY <2>3, <2>4 DEF Smaller
  <2>. QED
    BY <1>1, <1>3, <2>2, <2>5, Zenon
<1>15. (\A i \in DOMAIN found : \E m \in seen : MatchesAt(m, found[i]))'
  <2>. \A m, a : MatchesAt(m, a)' = MatchesAt(m, a)
    BY <1>1 DEF MatchesAt, Width, IsPattern
  <2>1. SUFFICES ASSUME NEW i \in DOMAIN found' PROVE \E m \in seen : MatchesAt(m, found'[i])
    BY <1>1 DEF MatchesAt, Width, IsPattern
  <2>2. CASE found'[i] \in ToSet(found)
    BY <1>4, <2>2 DEF ToSet
  <2>3. CASE found'[i] \in ToSet(hits)
    BY <1>8, <2>3 DEF SearchShape
  <2>. QED
    BY <1>10, <2>2, <2>3
<1>. QED
  BY <1>1, <1>11, <1>13, <1>14, <1>15 DEF PatternInv

LEMMA PatternReturns == ASSUME SearchShape, PatternInv, ReturnHits PROVE PatternInv'
<1>1. /\ IsPattern /\ step = "read" /\ windows = {} /\ UNCHANGED target /\ search' = search
      /\ UNCHANGED <<windows, found, cut, seen>>
  BY DEF ReturnHits, target
<1>2. \A m, a : MatchesAt(m, a)' = MatchesAt(m, a)
  BY <1>1 DEF MatchesAt, Width, IsPattern
<1>3. Lasting' = Lasting
  BY <1>1, <1>2, Fixed DEF Lasting
<1>4. Gathered(found, windows, search.limit)' /\ Complete(found, windows, search.limit, Lasting)'
  BY <1>1, <1>3, Fixed DEF PatternInv, Gathered, Complete, Ascends
<1>. QED
  BY <1>1, <1>2, <1>4 DEF PatternInv

LEMMA PatternWritten == ASSUME SearchShape, PatternInv, NEW a, NEW b, Write(a, b) PROVE PatternInv'
<1>1. /\ UNCHANGED target /\ search' = search /\ UNCHANGED <<windows, found, cut, step>>
      /\ seen \subseteq seen'
  BY DEF Write, target
<1>2. \A m, p : MatchesAt(m, p)' = MatchesAt(m, p)
  BY <1>1 DEF MatchesAt, Width, IsPattern
<1>3. Lasting' \subseteq Lasting
  BY <1>1, <1>2, Fixed DEF Lasting
<1>4. SUFFICES ASSUME IsPattern, step \in {"read", "done"} PROVE PatternInv'
  BY <1>1 DEF PatternInv, IsPattern
<1>5. Gathered(found, windows, search.limit)'
  BY <1>1, <1>4, Fixed DEF PatternInv, Gathered, Ascends
<1>6. Complete(found, windows, search.limit, Lasting)'
  BY <1>1, <1>3, <1>4, Fixed DEF PatternInv, Complete
<1>. QED
  BY <1>1, <1>2, <1>4, <1>5, <1>6 DEF PatternInv

LEMMA PatternStays == SearchShape /\ PatternInv /\ [SearchNext]_searchVars => PatternInv'
<1>1. SUFFICES ASSUME SearchShape, PatternInv, [SearchNext]_searchVars PROVE PatternInv'
  OBVIOUS
<1>2. CASE Begin
  BY <1>1, <1>2, PatternBegins
<1>3. CASE ReadWindow
  BY <1>1, <1>3, PatternReads
<1>4. CASE ReturnHits
  BY <1>1, <1>4, PatternReturns
<1>5. CASE Pursue \/ ReadPredecessors \/ Expand
  <2>1. search' = search
    BY <1>5 DEF Pursue, ReadPredecessors, Expand, target
  <2>2. ~IsPattern
    BY <1>1, <1>5 DEF Pursue, ReadPredecessors, Expand, SearchShape
  <2>. QED
    BY <2>1, <2>2 DEF PatternInv, IsPattern
<1>6. ASSUME NEW a \in DOMAIN memory, NEW b \in Bytes, Write(a, b) PROVE PatternInv'
  BY <1>1, <1>6, PatternWritten
<1>7. CASE UNCHANGED searchVars
  <2>1. UNCHANGED <<target, search, seen, windows, found, cut, step>>
    BY <1>7 DEF searchVars, target
  <2>2. \A m, a : MatchesAt(m, a)' = MatchesAt(m, a)
    BY <2>1 DEF MatchesAt, Width, IsPattern
  <2>3. Lasting' = Lasting
    BY <2>1, <2>2, Fixed DEF Lasting
  <2>4. SUFFICES ASSUME IsPattern, step \in {"read", "done"} PROVE PatternInv'
    BY <2>1 DEF PatternInv, IsPattern
  <2>5. Gathered(found, windows, search.limit)' /\ Complete(found, windows, search.limit, Lasting)'
    BY <1>1, <2>1, <2>3, <2>4, Fixed DEF PatternInv, Gathered, Complete, Ascends
  <2>. QED
    BY <1>1, <2>1, <2>2, <2>4, <2>5 DEF PatternInv
<1>. QED
  BY <1>1, <1>2, <1>3, <1>4, <1>5, <1>6, <1>7 DEF SearchNext, Searching

LEMMA PatternIs == SearchShape /\ PatternInv => PatternExact
<1>1. SUFFICES ASSUME SearchShape, PatternInv, step = "done", IsPattern
               PROVE  /\ \A i \in DOMAIN found :
                           /\ found[i] \in Candidates /\ \E m \in seen : MatchesAt(m, found[i])
                           /\ i > 1 => found[i - 1] < found[i]
                      /\ Len(found) <= search.limit /\ (cut <=> Len(found) = search.limit)
                      /\ \A a \in Candidates :
                           (Steady(a) /\ \A m \in seen : MatchesAt(m, a)) /\ (cut => a < Last(found))
                              => a \in ToSet(found)
  BY DEF PatternExact
<1>2. Admitted
  BY <1>1, UnderWay
<1>3. /\ Gathered(found, windows, search.limit) /\ Complete(found, windows, search.limit, Lasting)
      /\ cut <=> Len(found) = search.limit
      /\ \A i \in DOMAIN found : \E m \in seen : MatchesAt(m, found[i])
      /\ windows = {}
  BY <1>1 DEF PatternInv
<1>4. found \in Seq(Nat) /\ Len(found) <= search.limit
  BY <1>3 DEF Gathered
<1>5. \A i \in DOMAIN found : found[i] \in Candidates
  BY <1>2, <1>3, PlaceIs DEF Gathered
<1>6. ASSUME NEW i \in DOMAIN found, i > 1 PROVE found[i - 1] < found[i]
  <2>1. i - 1 \in DOMAIN found /\ i - 1 < i
    BY <1>4, <1>6
  <2>. QED
    BY <1>3, <1>6, <2>1 DEF Gathered, Ascends
<1>7. ASSUME NEW a \in Candidates, Steady(a), \A m \in seen : MatchesAt(m, a), cut => a < Last(found)
      PROVE  a \in ToSet(found)
  <2>1. PICK w \in AllWindows : a \in Places(w) /\ CanRead(w)
    BY <1>2, <1>7, Covered DEF Steady
  <2>2. a \in Lasting
    BY <1>7 DEF Lasting
  <2>3. Len(found) = search.limit => a < found[Len(found)]
    BY <1>3, <1>7 DEF Last
  <2>. QED
    BY <1>3, <2>1, <2>2, <2>3 DEF Complete
<1>. QED
  BY <1>3, <1>4, <1>5, <1>6, <1>7

\* A pattern scan reports places of the pattern, in order, and none is missed that was
\* readable and there all along, before the limit ended it (scan_pattern).
THEOREM PatternsAreExact == SearchSpec => []PatternExact
<1>1. SearchInit => SearchShape /\ PatternInv
  BY SearchStart
<1>2. SearchShape /\ PatternInv /\ [SearchNext]_searchVars => (SearchShape /\ PatternInv)'
  BY ShapeStays, PatternStays
<1>3. SearchShape /\ PatternInv => PatternExact
  BY PatternIs
<1>. QED
  BY <1>1, <1>2, <1>3, PTL DEF SearchSpec

(***************************************************************************)
(* The pointer search: one window                                          *)
(***************************************************************************)

\* A pointer search under way.
Pursuing == ~IsPattern /\ step \notin {"begin", "refused"}

LEMMA Asking ==
  ASSUME SearchShape, Pursuing
  PROVE  /\ Admitted /\ Width = 2 /\ search.target \in Nat /\ search.depth \in Nat \ {0} /\ search.reach \in Nat
         /\ search.limit \in Nat \ {0}
<1>1. Admitted
  BY UnderWay DEF Pursuing
<1>2. Width = 2
  BY DEF Pursuing, Width, PointerSize
<1>3. search.kind # "pattern" => search.kind = "pointers" /\ {search.target, search.depth, search.reach} \subseteq Nat
  BY <1>1, SearchAssumption DEF Admitted
<1>4. search.kind = "pointers" /\ {search.target, search.depth, search.reach} \subseteq Nat
  BY <1>3 DEF Pursuing, IsPattern
<1>5. search.depth \in 1 .. MaxDepth
  BY <1>1, <1>4 DEF Admitted, Valid
<1>6. MaxDepth \in Nat
  BY SearchAssumption
<1>. QED
  BY <1>1, <1>2, <1>4, <1>5, <1>6, Sizes

\* What lies at a candidate is there to be read.
LEMMA CandidateIs ==
  ASSUME SearchShape, Admitted, NEW a \in Candidates
  PROVE  a \in Nat /\ a .. a + Width - 1 \subseteq DOMAIN memory
<1>1. PICK r \in Wanted : a \in r.base .. r.base + r.size - Width /\ (a - r.base) % search.align = 0
  BY DEF Candidates
<1>2. r.base \in Nat /\ r.size \in Nat /\ r.scannable /\ r \in ToSet(Regions)
  BY SearchAssumption DEF Wanted
<1>3. a \in Nat
  BY <1>1, <1>2
<1>4. a .. a + Width - 1 \subseteq r.base .. r.base + r.size - 1
  BY <1>1, <1>2, Sizes
<1>. QED
  BY <1>2, <1>3, <1>4 DEF SearchShape

LEMMA PointerIs ==
  ASSUME SearchShape, Pursuing, NEW m \in seen, NEW a \in Candidates
  PROVE  Pointer(m, a) \in Nat
<1>1. Admitted /\ Width = 2
  BY Asking
<1>2. a \in Nat /\ a .. a + Width - 1 \subseteq DOMAIN memory
  BY <1>1, CandidateIs
<1>3. a \in DOMAIN memory /\ a + 1 \in DOMAIN memory
  BY <1>1, <1>2
<1>4. m \in [DOMAIN memory -> Bytes] /\ Bytes \subseteq Nat
  BY SearchAssumption DEF SearchShape
<1>5. PICK low \in Nat, high \in Nat : low = m[a] /\ high = m[a + 1]
  BY <1>3, <1>4
<1>6. PICK c \in Nat : c = Cardinality(Bytes)
  BY SearchAssumption, FS_CardinalityType
<1>7. low + c * high \in Nat
  OBVIOUS
<1>. QED
  BY <1>5, <1>6, <1>7 DEF Pointer

Spots == Candidates \cup {search.target}
Offsets == Seq(0 .. search.reach)
Entries == [address : Spots, offsets : Offsets]
Paths == [root : Candidates, offsets : Offsets]
Links == [root : Candidates, offset : 0 .. search.reach]

Roots == [i \in DOMAIN near |-> near[i].root]
Room == search.limit - Len(found)

Reading ==
  /\ queue # <<>> /\ Len(Head(queue).offsets) < search.depth /\ Len(found) < search.limit
  /\ Gathered(Roots, windows, Room)

ChainShape ==
  Pursuing =>
    /\ queue \in Seq(Entries) /\ found \in Seq(Paths) /\ near \in Seq(Links)
    /\ visited \subseteq Spots /\ search.target \in visited
    /\ Len(found) <= search.limit
    /\ \A i \in DOMAIN found : Len(found[i].offsets) \in 1 .. search.depth
    /\ \A i \in DOMAIN queue : Len(queue[i].offsets) <= search.depth
    /\ IF step = "read" THEN Reading ELSE near = <<>>
    /\ step = "done" => queue = <<>>

CanBeRead(a) == a .. a + Width - 1 \subseteq DOMAIN memory \ illegible

\* Candidates whose pointer led to an address all along.
SureLinks(v) == {a \in Candidates : \A m \in seen : LeadsTo(m, a, v)}

\* One sequence is another and then a third.
Joins(all, s, t) ==
  /\ Len(all) = Len(s) + Len(t)
  /\ \A i \in DOMAIN all : \/ i \in DOMAIN s /\ all[i] = s[i]
                           \/ i - Len(s) \in DOMAIN t /\ i > Len(s) /\ all[i] = t[i - Len(s)]
  /\ \A i \in DOMAIN s : i \in DOMAIN all /\ all[i] = s[i]
  /\ \A i \in DOMAIN t : Len(s) + i \in DOMAIN all /\ all[Len(s) + i] = t[i]

LEMMA JoinedAre ==
  ASSUME NEW S, NEW s \in Seq(S), NEW t \in Seq(S)
  PROVE  s \o t \in Seq(S) /\ Joins(s \o t, s, t)
BY Joined DEF Joins

LEMMA Widened == ASSUME NEW S, NEW T, S \subseteq T, NEW s \in Seq(S) PROVE s \in Seq(T)
<1>1. Len(s) \in Nat /\ s \in [1 .. Len(s) -> S]
  OBVIOUS
<1>2. s \in [1 .. Len(s) -> T]
  BY <1>1
<1>. QED
  BY <1>1, <1>2, Listed

LEMMA SameLength ==
  ASSUME NEW S, NEW T, NEW s \in Seq(S), NEW t \in Seq(T), DOMAIN s = DOMAIN t PROVE Len(s) = Len(t)
<1>1. Len(s) \in Nat /\ Len(t) \in Nat /\ 1 .. Len(s) = 1 .. Len(t)
  OBVIOUS
<1>. QED
  BY <1>1

LEMMA RootsOf ==
  ASSUME NEW S, NEW T, NEW s \in Seq([root : S, offset : T])
  PROVE  [i \in DOMAIN s |-> s[i].root] \in Seq(S) /\ Len([i \in DOMAIN s |-> s[i].root]) = Len(s)
<1>1. PICK n \in Nat : n = Len(s) /\ DOMAIN s = 1 .. n
  OBVIOUS
<1>2. PICK t : t = [i \in DOMAIN s |-> s[i].root]
  OBVIOUS
<1>3. t \in [1 .. n -> S]
  <2>1. ASSUME NEW i \in 1 .. n PROVE s[i].root \in S
    <3>1. i \in DOMAIN s
      BY <1>1
    <3>2. s[i] \in [root : S, offset : T]
      BY <3>1, Elements
    <3>. QED
      BY <3>2
  <2>. QED
    BY <1>1, <1>2, <2>1
<1>4. t \in Seq(S) /\ Len(t) = n
  BY <1>3, Listed
<1>. QED
  BY <1>1, <1>2, <1>4

\* What a window adds to the predecessors of the head of the queue.
LEMMA ReadIs ==
  ASSUME SearchShape, ChainShape, ReadPredecessors, NEW v, v = Head(queue).address
  PROVE  /\ near' \in Seq(Links)
         /\ \A i \in DOMAIN near' :
              \/ \E j \in DOMAIN near : near'[i] = near[j]
              \/ CanBeRead(near'[i].root) /\ Pointer(memory, near'[i].root) + near'[i].offset = v
         /\ Gathered(Roots', windows', Room)
         /\ Complete(Roots, windows, Room, SureLinks(v)) => Complete(Roots', windows', Room, SureLinks(v))
<1>1. Pursuing /\ step = "read" /\ windows # {}
  BY DEF ReadPredecessors, Pursuing
<1>2. Admitted /\ Width = 2 /\ search.limit \in Nat /\ search.reach \in Nat /\ search.target \in Nat
  BY <1>1, Asking
<1>3. /\ queue \in Seq(Entries) /\ found \in Seq(Paths) /\ near \in Seq(Links)
      /\ queue # <<>> /\ Len(found) < search.limit /\ Gathered(Roots, windows, Room)
  BY <1>1 DEF ChainShape, Reading
<1>4. PICK n \in Nat \ {0} : n = Room
  <2>1. Len(found) \in Nat
    BY <1>3
  <2>. QED
    BY <1>2, <1>3, <2>1 DEF Room
<1>5. v \in Nat
  <2>1. Head(queue) \in Entries
    BY <1>3
  <2>2. v \in Spots
    BY <2>1 DEF Entries
  <2>. QED
    BY <1>2, <2>2, CandidateIs DEF Spots
<1>6. PICK w : w = FirstOf(windows)
  OBVIOUS
<1>7. w \in AllWindows
  BY <1>1, <1>2, <1>3, <1>6, FirstIs DEF Gathered
<1>8. PICK hits : hits = Hits(w)
  OBVIOUS
<1>9. /\ hits \in Seq(Nat) /\ Answers(hits, w, SureLinks(v))
      /\ \A a \in ToSet(hits) : a \in Places(w) /\ CanRead(w) /\ LeadsTo(memory, a, v)
  <2>1. CASE CanRead(w)
    <3>1. PICK S \in SUBSET Places(w) : S = {a \in Places(w) : LeadsTo(memory, a, v)}
      OBVIOUS
    <3>2. hits = Ordered(S)
      BY <1>1, <1>8, <2>1, <3>1 DEF Hits, Pursuing
    <3>3. hits \in Seq(Nat) /\ ToSet(hits) = S /\ Ascends(hits)
      BY <1>2, <1>7, <3>2, HitsOf
    <3>4. \A a \in Places(w) : a \in SureLinks(v) => a \in S
      BY <3>1 DEF SureLinks, SearchShape
    <3>. QED
      BY <2>1, <3>1, <3>3, <3>4 DEF Answers
  <2>2. CASE ~CanRead(w)
    <3>1. hits = <<>>
      BY <1>8, <2>2 DEF Hits
    <3>. QED
      BY <2>2, <3>1 DEF Answers, Ascends, ToSet
  <2>. QED
    BY <2>1, <2>2
<1>10. PICK links : links = [i \in DOMAIN hits |-> [root |-> hits[i], offset |-> v - Pointer(memory, hits[i])]]
  OBVIOUS
<1>11. ASSUME NEW i \in DOMAIN hits
       PROVE  /\ links[i] \in Links /\ links[i].root = hits[i]
              /\ CanBeRead(links[i].root) /\ Pointer(memory, links[i].root) + links[i].offset = v
  <2>1. hits[i] \in ToSet(hits)
    BY DEF ToSet
  <2>2. PICK a \in Places(w) : a = hits[i] /\ CanRead(w) /\ LeadsTo(memory, a, v)
    BY <1>9, <2>1
  <2>3. /\ a \in Candidates /\ a \in Nat /\ w.start <= a /\ a + Width <= w.start + w.size
    BY <1>2, <1>7, PlaceIs
  <2>4. a .. a + Width - 1 \subseteq DOMAIN memory
    BY <1>2, <2>3, CandidateIs
  <2>5. a .. a + Width - 1 \subseteq w.start .. w.start + w.size - 1
    <3>1. w.start \in Nat /\ w.size \in Nat
      BY <1>2, <1>7, WindowSize
    <3>. QED
      BY <1>2, <2>3, <3>1
  <2>6. CanBeRead(a)
    BY <2>2, <2>4, <2>5 DEF CanBeRead, CanRead
  <2>7. PICK p \in Nat : p = Pointer(memory, a)
    BY <1>1, <2>3, PointerIs DEF SearchShape
  <2>8. p <= v /\ v - p <= search.reach
    BY <2>2, <2>7 DEF LeadsTo
  <2>9. v - p \in 0 .. search.reach /\ p + (v - p) = v
    BY <1>2, <1>5, <2>8
  <2>10. links[i] = [root |-> a, offset |-> v - p]
    BY <1>10, <2>2, <2>7
  <2>. QED
    BY <2>2, <2>3, <2>6, <2>7, <2>9, <2>10 DEF Links
<1>12. links \in Seq(Links) /\ Len(links) = Len(hits) /\ DOMAIN links = DOMAIN hits
  <2>1. PICK k \in Nat : k = Len(hits) /\ DOMAIN hits = 1 .. k
    BY <1>9
  <2>2. links \in [1 .. k -> Links]
    BY <1>10, <1>11, <2>1
  <2>. QED
    BY <2>1, <2>2, Listed
<1>13. PICK all \in Seq(Links) : all = near \o links /\ Joins(all, near, links)
  <2>1. near \o links \in Seq(Links) /\ Joins(near \o links, near, links)
    BY <1>3, <1>12, JoinedAre, Zenon
  <2>. QED
    BY <2>1, Zenon
<1>14. near' = UpTo(n, all) /\ windows' = IF Len(near') >= n THEN {} ELSE windows \ {w}
  BY <1>4, <1>6, <1>8, <1>10, <1>13 DEF ReadPredecessors, Room
<1>15. /\ near' \in Seq(Links) /\ Len(near') = Smaller(n, Len(all))
       /\ \A i \in DOMAIN near' : i \in DOMAIN all /\ i <= n /\ near'[i] = all[i]
  <2>1. n \in Nat
    OBVIOUS
  <2>. QED
    BY <1>14, <2>1, UpToIs
<1>17. \A i \in DOMAIN near' :
              \/ \E j \in DOMAIN near : near'[i] = near[j]
              \/ CanBeRead(near'[i].root) /\ Pointer(memory, near'[i].root) + near'[i].offset = v
  <2>1. SUFFICES ASSUME NEW i \in DOMAIN near'
                 PROVE  \/ \E j \in DOMAIN near : near'[i] = near[j]
                        \/ CanBeRead(near'[i].root) /\ Pointer(memory, near'[i].root) + near'[i].offset = v
    OBVIOUS
  <2>2. i \in DOMAIN all /\ near'[i] = all[i]
    BY <1>15
  <2>3. CASE i \in DOMAIN near /\ all[i] = near[i]
    BY <2>2, <2>3
  <2>4. CASE i - Len(near) \in DOMAIN links /\ all[i] = links[i - Len(near)]
    BY <1>11, <1>12, <2>2, <2>4
  <2>. QED
    BY <1>13, <2>2, <2>3, <2>4 DEF Joins
<1>18. Adds(Roots, windows, n, hits, Roots', windows')
  <2>1. /\ Roots \in Seq(Nat) /\ Len(Roots) = Len(near) /\ \A i \in DOMAIN near : Roots[i] = near[i].root
    <3>1. Len(Roots) = Len(near)
      BY <1>3, RootsOf DEF Links, Roots
    <3>. QED
      BY <1>3, <3>1 DEF Gathered, Roots
  <2>2. PICK both \in Seq(Nat) : both = Roots \o hits /\ Joins(both, Roots, hits)
    <3>1. Roots \o hits \in Seq(Nat) /\ Joins(Roots \o hits, Roots, hits)
      BY <1>9, <2>1, JoinedAre, Zenon
    <3>. QED
      BY <3>1, Zenon
  <2>3. Len(both) = Len(all) /\ \A i \in DOMAIN all : i \in DOMAIN both /\ both[i] = all[i].root
    <3>1. Len(both) = Len(all)
      BY <1>12, <1>13, <2>1, <2>2 DEF Joins
    <3>2. SUFFICES ASSUME NEW i \in DOMAIN all PROVE i \in DOMAIN both /\ both[i] = all[i].root
      BY <3>1
    <3>3. CASE i \in DOMAIN near /\ all[i] = near[i]
      <4>1. i \in DOMAIN Roots
        BY <3>3 DEF Roots
      <4>2. both[i] = Roots[i] /\ i \in DOMAIN both
        BY <2>2, <4>1 DEF Joins
      <4>. QED
        BY <2>1, <3>3, <4>2
    <3>4. CASE i - Len(near) \in DOMAIN links /\ i > Len(near) /\ all[i] = links[i - Len(near)]
      <4>1. PICK k \in DOMAIN hits : k = i - Len(near)
        BY <1>12, <3>4
      <4>2. Len(Roots) + k \in DOMAIN both /\ both[Len(Roots) + k] = hits[k]
        BY <2>2 DEF Joins
      <4>3. Len(Roots) + k = i
        <5>1. Len(near) \in Nat /\ i \in Int
          BY <1>3
        <5>. QED
          BY <2>1, <4>1, <5>1
      <4>. QED
        BY <1>11, <3>4, <4>1, <4>2, <4>3
    <3>. QED
      BY <1>13, <3>3, <3>4 DEF Joins
  <2>4. PICK t : t = UpTo(n, both)
    OBVIOUS
  <2>5. /\ t \in Seq(Nat) /\ Len(t) = Smaller(n, Len(both))
        /\ \A i \in DOMAIN t : i \in DOMAIN both /\ i <= n /\ t[i] = both[i]
    BY <2>4, Taken
  <2>6. Roots' = t
    <3>1. Roots' = [i \in DOMAIN near' |-> near'[i].root]
      BY DEF Roots
    <3>2. DOMAIN near' = DOMAIN t
      BY <1>15, <2>3, <2>5
    <3>3. \A i \in DOMAIN t : t[i] = near'[i].root
      BY <1>15, <2>3, <2>5, <3>2
    <3>4. t = [i \in DOMAIN t |-> t[i]]
      BY <2>5
    <3>. QED
      BY <3>1, <3>2, <3>3, <3>4
  <2>7. Len(near') >= n <=> Len(both) >= n
    <3>1. Len(all) \in Nat
      BY <1>13
    <3>. QED
      BY <1>15, <2>3, <3>1 DEF Smaller
  <2>. QED
    BY <1>6, <1>14, <2>2, <2>4, <2>6, <2>7 DEF Adds
<1>19. PICK got, left, got2, left2 : got = Roots /\ left = windows /\ got2 = Roots' /\ left2 = windows'
  OBVIOUS
<1>20. Gathered(got, left, n) /\ left # {}
  BY <1>1, <1>3, <1>4, <1>19
<1>21. Answers(hits, FirstOf(left), SureLinks(v)) /\ Adds(got, left, n, hits, got2, left2)
  BY <1>6, <1>9, <1>18, <1>19
<1>22. Answers(hits, FirstOf(left), {}) /\ Complete(got, left, n, {})
  BY <1>21 DEF Answers, Complete
<1>23. Gathered(got2, left2, n)
  BY <1>2, <1>9, <1>20, <1>21, <1>22, GatheringGoesOn
<1>24. Complete(got, left, n, SureLinks(v)) => Complete(got2, left2, n, SureLinks(v))
  BY <1>2, <1>9, <1>20, <1>21, GatheringGoesOn
<1>. QED
  BY <1>4, <1>15, <1>17, <1>19, <1>23, <1>24

(***************************************************************************)
(* The pointer search: one address                                         *)
(***************************************************************************)

LEMMA TailIs ==
  ASSUME NEW S, NEW s \in Seq(S), s # <<>>
  PROVE  /\ Head(s) = s[1] /\ 1 \in DOMAIN s /\ Head(s) \in S
         /\ Tail(s) \in Seq(S) /\ Len(Tail(s)) = Len(s) - 1
         /\ \A i \in DOMAIN Tail(s) : i + 1 \in DOMAIN s /\ Tail(s)[i] = s[i + 1]
         /\ \A i \in DOMAIN s : i # 1 => i - 1 \in DOMAIN Tail(s) /\ Tail(s)[i - 1] = s[i]
OBVIOUS

LEMMA PathIs ==
  ASSUME SearchShape, ChainShape, Pursuing, queue # <<>>, NEW l \in Links
  PROVE  /\ Path(l) \in Paths /\ Path(l).root = l.root
         /\ Len(Head(queue).offsets) \in Nat /\ Len(Path(l).offsets) = Len(Head(queue).offsets) + 1
         /\ Path(l).offsets[1] = l.offset
         /\ \A i \in DOMAIN Head(queue).offsets :
              i + 1 \in DOMAIN Path(l).offsets /\ Path(l).offsets[i + 1] = Head(queue).offsets[i]
         /\ \A i \in DOMAIN Path(l).offsets :
              \/ i = 1
              \/ i - 1 \in DOMAIN Head(queue).offsets /\ Path(l).offsets[i] = Head(queue).offsets[i - 1]
<1>1. Head(queue) \in Entries
  BY TailIs DEF ChainShape
<1>2. PICK rest \in Seq(0 .. search.reach) : rest = Head(queue).offsets
  BY <1>1 DEF Entries, Offsets
<1>3. l.root \in Candidates /\ l.offset \in 0 .. search.reach
  BY DEF Links
<1>4. PICK one \in Seq(0 .. search.reach) : one = <<l.offset>> /\ Len(one) = 1 /\ one[1] = l.offset
  <2>1. PICK o \in 0 .. search.reach : o = l.offset
    BY <1>3
  <2>2. <<o>> \in Seq(0 .. search.reach) /\ Len(<<o>>) = 1 /\ <<o>>[1] = o
    OBVIOUS
  <2>. QED
    BY <2>1, <2>2
<1>5. PICK all \in Seq(0 .. search.reach) : all = one \o rest /\ Joins(all, one, rest)
  <2>1. one \o rest \in Seq(0 .. search.reach) /\ Joins(one \o rest, one, rest)
    BY JoinedAre, Zenon
  <2>. QED
    BY <2>1, Zenon
<1>6. Path(l) = [root |-> l.root, offsets |-> all]
  BY <1>2, <1>4, <1>5 DEF Path
<1>7. Path(l) \in Paths /\ Path(l).root = l.root /\ Path(l).offsets = all
  BY <1>3, <1>6 DEF Paths, Offsets
<1>8. Len(all) = 1 + Len(rest) /\ Len(rest) \in Nat
  BY <1>4, <1>5 DEF Joins
<1>9. all[1] = l.offset
  <2>1. 1 \in DOMAIN one
    BY <1>4
  <2>. QED
    BY <1>4, <1>5, <2>1 DEF Joins
<1>10. ASSUME NEW i \in DOMAIN rest PROVE i + 1 \in DOMAIN all /\ all[i + 1] = rest[i]
  <2>1. 1 + i \in DOMAIN all /\ all[1 + i] = rest[i]
    BY <1>4, <1>5 DEF Joins
  <2>2. i \in Nat
    OBVIOUS
  <2>3. 1 + i = i + 1
    BY <2>2
  <2>. QED
    BY <2>1, <2>3
<1>11. ASSUME NEW i \in DOMAIN all PROVE i = 1 \/ (i - 1 \in DOMAIN rest /\ all[i] = rest[i - 1])
  <2>1. i \in DOMAIN one \/ (i - 1 \in DOMAIN rest /\ all[i] = rest[i - 1])
    BY <1>4, <1>5 DEF Joins
  <2>2. i \in DOMAIN one => i = 1
    BY <1>4
  <2>. QED
    BY <2>1, <2>2
<1>12. Len(all) = Len(rest) + 1
  BY <1>8
<1>. QED
  BY <1>2, <1>7, <1>8, <1>9, <1>10, <1>11, <1>12, Zenon

\* The predecessors that will be pursued, and what is queued for one of them.
Fresh == {i \in DOMAIN near : Len(found) + i < search.limit /\ near[i].root \notin visited}
Pursued(link) == [address |-> link.root, offsets |-> Path(link).offsets]

Expands(paths, fresh, news) ==
  /\ DOMAIN paths = DOMAIN near /\ \A i \in DOMAIN near : paths[i] = Path(near[i])
  /\ found' \in Seq(Paths) /\ Joins(found', found, paths)
  /\ fresh \in Seq(Nat) /\ Ascends(fresh) /\ ToSet(fresh) = Fresh
  /\ DOMAIN news = DOMAIN fresh /\ \A k \in DOMAIN fresh : news[k] = Pursued(near[fresh[k]])
  /\ queue' \in Seq(Entries) /\ Joins(queue', Tail(queue), news)
  /\ visited' = visited \cup {near[i].root : i \in Fresh}

LEMMA ExpandIs ==
  ASSUME SearchShape, ChainShape, Expand
  PROVE  \E paths, fresh, news : paths \in Seq(Paths) /\ news \in Seq(Entries) /\ Expands(paths, fresh, news)
<1>1. Pursuing /\ step = "read"
  BY DEF Expand, Pursuing
<1>2. /\ queue \in Seq(Entries) /\ found \in Seq(Paths) /\ near \in Seq(Links) /\ queue # <<>>
  BY <1>1 DEF ChainShape, Reading
<1>3. PICK n \in Nat : n = Len(near) /\ DOMAIN near = 1 .. n
  BY <1>2
<1>4. \A i \in DOMAIN near : near[i] \in Links
  BY <1>2, Elements
<1>5. PICK paths : paths = [i \in DOMAIN near |-> Path(near[i])]
  OBVIOUS
<1>6. paths \in Seq(Paths)
  <2>1. \A i \in DOMAIN near : Path(near[i]) \in Paths
    BY <1>1, <1>2, <1>4, PathIs
  <2>2. paths \in [1 .. n -> Paths]
    BY <1>3, <1>5, <2>1
  <2>. QED
    BY <2>2, Listed
<1>7. found \o paths \in Seq(Paths) /\ Joins(found \o paths, found, paths)
  BY <1>2, <1>6, JoinedAre, Zenon
<1>8. found' = found \o paths
  BY <1>5 DEF Expand
<1>9. PICK fresh : fresh = Ordered(Fresh)
  OBVIOUS
<1>10. fresh \in Seq(Nat) /\ Ascends(fresh) /\ ToSet(fresh) = Fresh
  <2>1. PICK S : S = Fresh
    OBVIOUS
  <2>2. S \subseteq 1 .. n
    BY <1>3, <2>1 DEF Fresh
  <2>3. IsFiniteSet(1 .. n)
    BY FS_Interval
  <2>4. IsFiniteSet(S) /\ S \subseteq Int /\ S \subseteq Nat
    <3>1. IsFiniteSet(S)
      BY <2>2, <2>3, FiniteParts
    <3>2. 1 .. n \subseteq Nat /\ Nat \subseteq Int
      OBVIOUS
    <3>. QED
      BY <2>2, <3>1, <3>2, Zenon
  <2>5. /\ fresh \in Seq(S) /\ ToSet(fresh) = S
        /\ \A i, j \in DOMAIN fresh : i < j => fresh[i] < fresh[j]
    BY <1>9, <2>1, <2>4, OrderedIs
  <2>6. fresh \in Seq(Nat)
    BY <2>4, <2>5, Widened
  <2>. QED
    BY <2>1, <2>5, <2>6 DEF Ascends
<1>11. PICK news : news = [k \in DOMAIN fresh |-> Pursued(near[fresh[k]])]
  OBVIOUS
<1>12. \A k \in DOMAIN fresh : fresh[k] \in Fresh
  BY <1>10 DEF ToSet
<1>13. news \in Seq(Entries)
  <2>1. ASSUME NEW k \in DOMAIN fresh PROVE Pursued(near[fresh[k]]) \in Entries
    <3>1. PICK l \in Links : l = near[fresh[k]]
      BY <1>4, <1>12 DEF Fresh
    <3>2. l.root \in Candidates /\ Path(l) \in Paths
      BY <1>1, <1>2, PathIs DEF Links
    <3>. QED
      BY <3>1, <3>2 DEF Pursued, Entries, Paths, Spots
  <2>2. PICK k \in Nat : DOMAIN fresh = 1 .. k
    BY <1>10
  <2>3. news \in [1 .. k -> Entries]
    BY <1>11, <2>1, <2>2
  <2>. QED
    BY <2>3, Listed
<1>14. Tail(queue) \in Seq(Entries)
  BY <1>2, TailIs
<1>15. Tail(queue) \o news \in Seq(Entries) /\ Joins(Tail(queue) \o news, Tail(queue), news)
  BY <1>13, <1>14, JoinedAre, Zenon
<1>16. /\ queue' = Tail(queue) \o news
       /\ visited' = visited \cup {near[fresh[k]].root : k \in DOMAIN fresh}
  BY <1>9, <1>11 DEF Expand, Fresh, Pursued
<1>17. {near[fresh[k]].root : k \in DOMAIN fresh} = {near[i].root : i \in Fresh}
  BY <1>10 DEF ToSet
<1>18. Expands(paths, fresh, news)
  <2>1. DOMAIN paths = DOMAIN near /\ \A i \in DOMAIN near : paths[i] = Path(near[i])
    BY <1>5
  <2>2. DOMAIN news = DOMAIN fresh /\ \A k \in DOMAIN fresh : news[k] = Pursued(near[fresh[k]])
    BY <1>11
  <2>3. found' \in Seq(Paths) /\ Joins(found', found, paths)
    BY <1>7, <1>8, Zenon
  <2>4. queue' \in Seq(Entries) /\ Joins(queue', Tail(queue), news)
    BY <1>15, <1>16, Zenon
  <2>. QED
    BY <1>10, <1>16, <1>17, <2>1, <2>2, <2>3, <2>4, Zenon DEF Expands
<1>. QED
  BY <1>6, <1>13, <1>18

\* What the search is about stays.
LEMMA AdmittedStays ==
  ASSUME UNCHANGED target
  PROVE  /\ search' = search /\ Spots' = Spots /\ Offsets' = Offsets
         /\ Entries' = Entries /\ Paths' = Paths /\ Links' = Links /\ Candidates' = Candidates
<1>1. search' = search /\ Candidates' = Candidates
  BY Fixed DEF target
<1>. QED
  BY <1>1 DEF Spots, Offsets, Entries, Paths, Links

LEMMA ChainBegins == ASSUME SearchShape, Begin PROVE ChainShape'
<1>1. SUFFICES ASSUME Pursuing' PROVE ChainShape'
  BY DEF ChainShape
<1>2. /\ UNCHANGED target /\ search' = search /\ found' = <<>> /\ near' = <<>> /\ ~IsPattern /\ Valid(search)
      /\ step' = "pursue" /\ queue' = <<[address |-> search.target, offsets |-> <<>>]>>
      /\ visited' = {search.target}
  BY <1>1 DEF Begin, Pursuing, IsPattern, SearchShape, target
<1>3. ~IsPattern' /\ SearchShape'
  BY <1>1, ShapeStays DEF Pursuing, SearchNext, Searching
<1>4. search.target \in Spots /\ <<>> \in Offsets
  BY DEF Spots, Offsets
<1>5. PICK e \in Entries : e = [address |-> search.target, offsets |-> <<>>]
  BY <1>4 DEF Entries
<1>6. queue' \in Seq(Entries) /\ Len(queue') = 1 /\ queue'[1] = e
  BY <1>2, <1>5
<1>7. Admitted /\ search.limit \in Nat /\ search.depth \in Nat
  <2>1. (search.limit \in Nat /\ search.depth \in Nat \ {0})'
    <3>1. SearchShape /\ Pursuing => search.limit \in Nat /\ search.depth \in Nat \ {0}
      BY Asking
    <3>. QED
      BY <1>1, <1>3, SearchAssumption, <1>2 DEF SearchShape, Valid, IsPattern
  <2>. QED
    BY <1>2, <2>1, SearchAssumption DEF Admitted, SearchShape
<1>8. \A i \in DOMAIN queue' : Len(queue'[i].offsets) <= search.depth
  BY <1>5, <1>6, <1>7
<1>. QED
  BY <1>2, <1>4, <1>6, <1>7, <1>8, AdmittedStays DEF ChainShape

LEMMA ChainPursues == ASSUME SearchShape, ChainShape, Pursue PROVE ChainShape'
<1>1. /\ UNCHANGED target /\ search' = search /\ UNCHANGED <<found, visited, near>>
      /\ Pursuing /\ step = "pursue"
  BY DEF Pursue, target, Pursuing, SearchShape
<1>2. /\ queue \in Seq(Entries) /\ found \in Seq(Paths) /\ near \in Seq(Links) /\ near = <<>>
      /\ visited \subseteq Spots /\ search.target \in visited
      /\ Len(found) <= search.limit
      /\ \A i \in DOMAIN found : Len(found[i].offsets) \in 1 .. search.depth
      /\ \A i \in DOMAIN queue : Len(queue[i].offsets) <= search.depth
  BY <1>1 DEF ChainShape
<1>3. Admitted /\ search.limit \in Nat \ {0} /\ search.depth \in Nat \ {0}
  BY <1>1, Asking
<1>4. CASE queue = <<>>
  <2>1. step' = "done" /\ queue' = queue
    BY <1>1, <1>4 DEF Pursue
  <2>. QED
    BY <1>1, <1>2, <1>4, <2>1, AdmittedStays DEF ChainShape
<1>5. CASE queue # <<>> /\ (Len(Head(queue).offsets) >= search.depth \/ Len(found) >= search.limit)
  <2>1. step' = step /\ queue' = Tail(queue)
    BY <1>1, <1>5 DEF Pursue
  <2>2. /\ queue' \in Seq(Entries)
        /\ \A i \in DOMAIN queue' : i + 1 \in DOMAIN queue /\ queue'[i] = queue[i + 1]
    BY <1>2, <1>5, <2>1, TailIs
  <2>3. \A i \in DOMAIN queue' : Len(queue'[i].offsets) <= search.depth
    BY <1>2, <2>2
  <2>. QED
    BY <1>1, <1>2, <2>1, <2>2, <2>3, AdmittedStays DEF ChainShape
<1>6. CASE queue # <<>> /\ ~(Len(Head(queue).offsets) >= search.depth \/ Len(found) >= search.limit)
  <2>1. step' = "read" /\ queue' = queue /\ windows' = AllWindows
    BY <1>1, <1>6 DEF Pursue
  <2>2. Len(found) \in Nat /\ Len(Head(queue).offsets) \in Nat
    <3>1. Head(queue) \in Entries
      BY <1>2, <1>6, TailIs
    <3>. QED
      BY <1>2, <3>1 DEF Entries, Offsets
  <2>3. Len(Head(queue).offsets) < search.depth /\ Len(found) < search.limit
    BY <1>3, <1>6, <2>2
  <2>4. PICK n \in Nat \ {0} : n = Room
    BY <1>3, <2>2, <2>3 DEF Room
  <2>5. Roots = <<>> /\ Roots' = <<>> /\ Room' = Room
    BY <1>1, <1>2 DEF Roots, Room
  <2>6. Gathered(<<>>, AllWindows, n)
    BY GatheringStarts
  <2>7. Gathered(Roots, windows, Room)'
    BY <1>1, <2>1, <2>4, <2>5, <2>6, Fixed DEF Gathered, Ascends
  <2>8. Reading'
    BY <1>1, <1>6, <2>1, <2>3, <2>7 DEF Reading
  <2>. QED
    BY <1>1, <1>2, <2>1, <2>8, AdmittedStays DEF ChainShape
<1>. QED
  BY <1>4, <1>5, <1>6

LEMMA ChainReads == ASSUME SearchShape, ChainShape, ReadPredecessors PROVE ChainShape'
<1>1. /\ UNCHANGED target /\ search' = search /\ UNCHANGED <<found, queue, visited, step>>
      /\ Pursuing /\ step = "read"
  BY DEF ReadPredecessors, target, Pursuing
<1>2. /\ queue \in Seq(Entries) /\ found \in Seq(Paths)
      /\ visited \subseteq Spots /\ search.target \in visited
      /\ Len(found) <= search.limit
      /\ \A i \in DOMAIN found : Len(found[i].offsets) \in 1 .. search.depth
      /\ \A i \in DOMAIN queue : Len(queue[i].offsets) <= search.depth
      /\ Reading
  BY <1>1 DEF ChainShape
<1>3. near' \in Seq(Links) /\ Gathered(Roots', windows', Room)
  BY ReadIs
<1>4. Gathered(Roots, windows, Room)'
  <2>1. Room' = Room
    BY <1>1 DEF Room
  <2>. QED
    BY <1>1, <1>3, <2>1, Fixed DEF Gathered, Ascends
<1>5. Reading'
  BY <1>1, <1>2, <1>4 DEF Reading
<1>. QED
  BY <1>1, <1>2, <1>3, <1>5, AdmittedStays DEF ChainShape

\* What a found path and a queued address are after an expansion.
LEMMA Expanded ==
  ASSUME SearchShape, ChainShape, Expand
  PROVE  /\ queue # <<>> /\ near \in Seq(Links) /\ Len(found) < search.limit /\ Len(found) \in Nat
         /\ Len(Head(queue).offsets) \in Nat /\ Len(Head(queue).offsets) < search.depth
         /\ search' = search /\ UNCHANGED target /\ UNCHANGED <<memory, seen, windows>> /\ near' = <<>> /\ step' = "pursue"
         /\ Pursuing /\ step = "read" /\ windows = {} /\ queue \in Seq(Entries) /\ found \in Seq(Paths)
<1>1. /\ search' = search /\ UNCHANGED target /\ UNCHANGED <<memory, seen, windows>> /\ near' = <<>> /\ step' = "pursue"
      /\ Pursuing /\ step = "read" /\ windows = {}
  BY DEF Expand, Pursuing, target
<1>2. /\ queue \in Seq(Entries) /\ found \in Seq(Paths) /\ near \in Seq(Links) /\ Reading
  BY <1>1 DEF ChainShape
<1>3. Head(queue) \in Entries
  BY <1>2, TailIs DEF Reading
<1>4. Len(Head(queue).offsets) \in Nat
  BY <1>3 DEF Entries, Offsets
<1>5. Len(found) \in Nat
  BY <1>2
<1>. QED
  BY <1>1, <1>2, <1>4, <1>5 DEF Reading

LEMMA ChainExpands == ASSUME SearchShape, ChainShape, Expand PROVE ChainShape'
<1>1. PICK paths, fresh, news : paths \in Seq(Paths) /\ news \in Seq(Entries) /\ Expands(paths, fresh, news)
  BY ExpandIs
<1>2. /\ queue # <<>> /\ near \in Seq(Links) /\ Len(found) < search.limit /\ Len(found) \in Nat
      /\ Len(Head(queue).offsets) \in Nat /\ Len(Head(queue).offsets) < search.depth
      /\ search' = search /\ UNCHANGED target /\ near' = <<>> /\ step' = "pursue"
      /\ Pursuing /\ step = "read" /\ queue \in Seq(Entries) /\ found \in Seq(Paths)
  BY Expanded
<1>3. /\ Reading /\ visited \subseteq Spots /\ search.target \in visited
      /\ \A i \in DOMAIN found : Len(found[i].offsets) \in 1 .. search.depth
      /\ \A i \in DOMAIN queue : Len(queue[i].offsets) <= search.depth
  BY <1>2 DEF ChainShape
<1>4. /\ search.limit \in Nat /\ search.depth \in Nat
  BY <1>2, Asking
<1>5. Len(found') <= search.limit
  <2>1. Len(Roots) <= Room /\ Len(Roots) = Len(near)
    BY <1>2, <1>3, RootsOf DEF Reading, Gathered, Roots, Links
  <2>2. Len(paths) = Len(near)
    <3>1. DOMAIN paths = DOMAIN near
      BY <1>1 DEF Expands
    <3>. QED
      BY <1>1, <1>2, <3>1, SameLength
  <2>3. Len(found') = Len(found) + Len(paths)
    BY <1>1 DEF Expands, Joins
  <2>4. Len(near) \in Nat
    BY <1>2
  <2>. QED
    BY <1>2, <1>4, <2>1, <2>2, <2>3, <2>4 DEF Room
<1>6. \A i \in DOMAIN near : near[i] \in Links
  BY <1>2, Elements
<1>7. ASSUME NEW i \in DOMAIN near PROVE Len(Path(near[i]).offsets) \in 1 .. search.depth
  <2>1. Len(Path(near[i]).offsets) = Len(Head(queue).offsets) + 1
    BY <1>2, <1>6, PathIs
  <2>. QED
    BY <1>2, <1>4, <2>1
<1>8. ASSUME NEW i \in DOMAIN found' PROVE Len(found'[i].offsets) \in 1 .. search.depth
  <2>1. CASE i \in DOMAIN found /\ found'[i] = found[i]
    BY <1>3, <2>1
  <2>2. CASE i - Len(found) \in DOMAIN paths /\ found'[i] = paths[i - Len(found)]
    BY <1>1, <1>7, <2>2 DEF Expands
  <2>. QED
    BY <1>1, <1>8, <2>1, <2>2 DEF Expands, Joins
<1>9. ASSUME NEW i \in DOMAIN queue' PROVE Len(queue'[i].offsets) <= search.depth
  <2>1. CASE i \in DOMAIN Tail(queue) /\ queue'[i] = Tail(queue)[i]
    BY <1>2, <1>3, <2>1, TailIs
  <2>2. CASE i - Len(Tail(queue)) \in DOMAIN news /\ queue'[i] = news[i - Len(Tail(queue))]
    <3>1. PICK k \in DOMAIN fresh : queue'[i] = Pursued(near[fresh[k]])
      BY <1>1, <2>2 DEF Expands
    <3>2. fresh[k] \in DOMAIN near
      BY <1>1 DEF Expands, Fresh, ToSet
    <3>3. Len(queue'[i].offsets) \in 1 .. search.depth
      BY <1>7, <3>1, <3>2 DEF Pursued
    <3>. QED
      BY <1>4, <3>3
  <2>. QED
    BY <1>1, <1>9, <2>1, <2>2 DEF Expands, Joins
<1>10. visited' \subseteq Spots /\ search.target \in visited'
  <2>1. \A i \in Fresh : near[i].root \in Candidates
    BY <1>6 DEF Fresh, Links
  <2>. QED
    BY <1>1, <1>3, <2>1 DEF Expands, Spots
<1>11. near' \in Seq(Links)
  BY <1>2
<1>12. found' \in Seq(Paths) /\ queue' \in Seq(Entries)
  BY <1>1 DEF Expands
<1>. QED
  BY <1>2, <1>5, <1>8, <1>9, <1>10, <1>11, <1>12, AdmittedStays DEF ChainShape

LEMMA ChainWritten ==
  ASSUME ChainShape, UNCHANGED <<target, windows, found, pursuit, step>> PROVE ChainShape'
<1>1. /\ UNCHANGED target /\ search' = search /\ UNCHANGED <<windows, found, queue, visited, near, step>>
  BY DEF target, pursuit
<1>2. Pursuing' <=> Pursuing
  BY <1>1 DEF Pursuing, IsPattern
<1>3. Roots' = Roots /\ Room' = Room
  BY <1>1 DEF Roots, Room
<1>4. Reading => Reading'
  <2>1. Gathered(Roots, windows, Room) => Gathered(Roots, windows, Room)'
    BY <1>1, <1>3, Fixed DEF Gathered, Ascends
  <2>. QED
    BY <1>1, <2>1 DEF Reading
<1>. QED
  BY <1>1, <1>2, <1>4, AdmittedStays DEF ChainShape

LEMMA ChainStays == SearchShape /\ ChainShape /\ [SearchNext]_searchVars => ChainShape'
<1>1. SUFFICES ASSUME SearchShape, ChainShape, [SearchNext]_searchVars PROVE ChainShape'
  OBVIOUS
<1>2. CASE Begin
  BY <1>1, <1>2, ChainBegins
<1>3. CASE ReadWindow \/ ReturnHits
  <2>1. IsPattern /\ search' = search
    BY <1>3 DEF ReadWindow, ReturnHits, target
  <2>. QED
    BY <2>1 DEF ChainShape, Pursuing, IsPattern
<1>4. CASE Pursue
  BY <1>1, <1>4, ChainPursues
<1>5. CASE ReadPredecessors
  BY <1>1, <1>5, ChainReads
<1>6. CASE Expand
  BY <1>1, <1>6, ChainExpands
<1>7. ASSUME NEW a \in DOMAIN memory, NEW b \in Bytes, Write(a, b) PROVE ChainShape'
  BY <1>1, <1>7, ChainWritten DEF Write
<1>8. CASE UNCHANGED searchVars
  BY <1>1, <1>8, ChainWritten DEF searchVars
<1>. QED
  BY <1>1, <1>2, <1>3, <1>4, <1>5, <1>6, <1>7, <1>8 DEF SearchNext, Searching

(***************************************************************************)
(* Paths lead to the target                                                *)
(***************************************************************************)

\* A way of readable places to the goal, each with a pointer that led to the next.
WayTo(goal, places, contents, root, offsets) ==
  \E way \in [1 .. Len(offsets) + 1 -> places \cup {goal}] :
    /\ way[1] = root /\ way[Len(offsets) + 1] = goal
    /\ \A i \in 1 .. Len(offsets) :
         /\ way[i] \in places
         /\ \E m \in contents : Pointer(m, way[i]) + offsets[i] = way[i + 1]

Legible == {a \in Candidates : CanBeRead(a)}

Linked(l, places, contents, address) ==
  l.root \in places /\ \E m \in contents : Pointer(m, l.root) + l.offset = address

WaysInv ==
  Pursuing =>
    /\ \A i \in DOMAIN queue : WayTo(search.target, Legible, seen, queue[i].address, queue[i].offsets)
    /\ \A i \in DOMAIN found : WayTo(search.target, Legible, seen, found[i].root, found[i].offsets)
    /\ \A i \in DOMAIN near : Linked(near[i], Legible, seen, Head(queue).address)

LEMMA WayHere == ASSUME NEW goal, NEW places, NEW contents PROVE WayTo(goal, places, contents, goal, <<>>)
<1>1. PICK way : way = [i \in 1 .. 1 |-> goal]
  OBVIOUS
<1>2. way \in [1 .. 0 + 1 -> places \cup {goal}] /\ way[1] = goal
  BY <1>1
<1>3. Len(<<>>) = 0 /\ 1 .. 0 = {} /\ 0 + 1 = 1
  OBVIOUS
<1>. QED
  BY <1>2, <1>3 DEF WayTo

LEMMA WayLater ==
  ASSUME NEW goal, NEW places, NEW contents, NEW more, contents \subseteq more, NEW root, NEW offsets,
         WayTo(goal, places, contents, root, offsets)
  PROVE  WayTo(goal, places, more, root, offsets)
BY DEF WayTo

\* One more link before a way.
LEMMA WayFrom ==
  ASSUME NEW goal, NEW places, NEW contents, NEW S, NEW rest \in Seq(S), NEW address,
         WayTo(goal, places, contents, address, rest),
         NEW root \in places, NEW o, NEW offsets, Len(offsets) = Len(rest) + 1, offsets[1] = o,
         \A i \in DOMAIN rest : offsets[i + 1] = rest[i],
         \E m \in contents : Pointer(m, root) + o = address
  PROVE  WayTo(goal, places, contents, root, offsets)
<1>1. PICK n \in Nat : n = Len(rest) /\ DOMAIN rest = 1 .. n
  OBVIOUS
<1>2. PICK way \in [1 .. n + 1 -> places \cup {goal}] :
        /\ way[1] = address /\ way[n + 1] = goal
        /\ \A i \in 1 .. n : /\ way[i] \in places
                             /\ \E m \in contents : Pointer(m, way[i]) + rest[i] = way[i + 1]
  BY <1>1 DEF WayTo
<1>3. PICK longer : longer = [i \in 1 .. n + 1 + 1 |-> IF i = 1 THEN root ELSE way[i - 1]]
  OBVIOUS
<1>4. longer[1] = root /\ longer[2] = address
  BY <1>1, <1>2, <1>3
<1>5. \A i \in 1 .. n + 1 : i + 1 \in 1 .. n + 1 + 1 /\ i + 1 # 1 /\ (i + 1) - 1 = i
  BY <1>1
<1>6. \A i \in 1 .. n + 1 : longer[i + 1] = way[i]
  BY <1>3, <1>5
<1>7. longer \in [1 .. n + 1 + 1 -> places \cup {goal}]
  <2>1. \A i \in 1 .. n + 1 + 1 : i # 1 => i - 1 \in 1 .. n + 1
    BY <1>1
  <2>. QED
    BY <1>2, <1>3, <2>1
<1>8. longer[n + 1 + 1] = goal
  <2>1. n + 1 \in 1 .. n + 1
    BY <1>1
  <2>. QED
    BY <1>2, <1>6, <2>1
<1>9. ASSUME NEW i \in 1 .. n + 1
      PROVE  longer[i] \in places /\ \E m \in contents : Pointer(m, longer[i]) + offsets[i] = longer[i + 1]
  <2>1. CASE i = 1
    <3>1. longer[i] = root /\ longer[i + 1] = address /\ offsets[i] = o
      BY <1>4, <2>1
    <3>. QED
      BY <3>1
  <2>2. CASE i # 1
    <3>1. PICK j \in 1 .. n : i = j + 1
      <4>1. i - 1 \in 1 .. n /\ i = (i - 1) + 1
        BY <1>1, <2>2
      <4>. QED
        BY <4>1
    <3>2. longer[i] = way[j] /\ longer[i + 1] = way[j + 1] /\ offsets[i] = rest[j]
      <4>1. j \in 1 .. n + 1 /\ j + 1 \in 1 .. n + 1
        BY <1>1
      <4>. QED
        BY <1>1, <1>6, <3>1, <4>1
    <3>. QED
      BY <1>2, <3>2
  <2>. QED
    BY <2>1, <2>2
<1>. QED
  <2>1. Len(offsets) = n + 1
    BY <1>1
  <2>2. longer \in [1 .. Len(offsets) + 1 -> places \cup {goal}] /\ longer[Len(offsets) + 1] = goal
    BY <1>7, <1>8, <2>1, Zenon
  <2>3. \A i \in 1 .. Len(offsets) :
          longer[i] \in places /\ \E m \in contents : Pointer(m, longer[i]) + offsets[i] = longer[i + 1]
    BY <1>9, <2>1, Zenon
  <2>. QED
    BY <1>4, <2>2, <2>3, Zenon DEF WayTo

LEMMA WaysBegin == ASSUME SearchShape, Begin PROVE WaysInv'
<1>1. SUFFICES ASSUME Pursuing' PROVE WaysInv'
  BY DEF WaysInv
<1>2. /\ search' = search /\ found' = <<>> /\ near' = <<>>
      /\ queue' = <<[address |-> search.target, offsets |-> <<>>]>>
  BY <1>1 DEF Begin, Pursuing, IsPattern, SearchShape, target
<1>3. DOMAIN queue' = 1 .. 1 /\ queue'[1].address = search.target /\ queue'[1].offsets = <<>>
  BY <1>2
<1>4. \A i \in DOMAIN queue' : WayTo(search'.target, Legible', seen', queue'[i].address, queue'[i].offsets)
  BY <1>2, <1>3, WayHere
<1>5. DOMAIN found' = {} /\ DOMAIN near' = {}
  BY <1>2
<1>. QED
  BY <1>4, <1>5 DEF WaysInv

LEMMA LegibleStays ==
  ASSUME UNCHANGED target, DOMAIN memory' = DOMAIN memory
  PROVE  Legible' = Legible
BY Fixed DEF Legible, CanBeRead, target, Width, IsPattern

LEMMA WaysPursue == ASSUME SearchShape, ChainShape, WaysInv, Pursue PROVE WaysInv'
<1>1. /\ UNCHANGED target /\ search' = search /\ UNCHANGED <<found, near, seen, memory>>
      /\ Pursuing /\ step = "pursue"
  BY DEF Pursue, target, Pursuing, SearchShape
<1>2. Legible' = Legible
  BY <1>1, LegibleStays
<1>3. queue \in Seq(Entries) /\ near = <<>>
  BY <1>1 DEF ChainShape
<1>4. \A i \in DOMAIN queue' : \E j \in DOMAIN queue : queue'[i] = queue[j]
  <2>1. CASE queue' = queue
    BY <2>1
  <2>2. CASE queue # <<>> /\ queue' = Tail(queue)
    BY <1>3, <2>2, TailIs
  <2>. QED
    BY <2>1, <2>2 DEF Pursue
<1>5. \A i \in DOMAIN queue' : WayTo(search'.target, Legible', seen', queue'[i].address, queue'[i].offsets)
  BY <1>1, <1>2, <1>4 DEF WaysInv
<1>6. \A i \in DOMAIN found' : WayTo(search'.target, Legible', seen', found'[i].root, found'[i].offsets)
  BY <1>1, <1>2 DEF WaysInv
<1>7. DOMAIN near' = {}
  BY <1>1, <1>3
<1>. QED
  BY <1>5, <1>6, <1>7 DEF WaysInv

LEMMA WaysRead == ASSUME SearchShape, ChainShape, WaysInv, ReadPredecessors PROVE WaysInv'
<1>1. /\ UNCHANGED target /\ search' = search /\ UNCHANGED <<found, queue, seen, memory>>
      /\ Pursuing /\ step = "read"
  BY DEF ReadPredecessors, target, Pursuing
<1>2. Legible' = Legible
  BY <1>1, LegibleStays
<1>3. PICK v : v = Head(queue).address
  OBVIOUS
<1>4. /\ near' \in Seq(Links)
      /\ \A i \in DOMAIN near' :
              \/ \E j \in DOMAIN near : near'[i] = near[j]
              \/ CanBeRead(near'[i].root) /\ Pointer(memory, near'[i].root) + near'[i].offset = v
  BY <1>3, ReadIs
<1>5. ASSUME NEW i \in DOMAIN near' PROVE Linked(near'[i], Legible', seen', Head(queue').address)
  <2>1. CASE \E j \in DOMAIN near : near'[i] = near[j]
    BY <1>1, <1>2, <2>1 DEF WaysInv
  <2>2. CASE CanBeRead(near'[i].root) /\ Pointer(memory, near'[i].root) + near'[i].offset = v
    <3>1. near'[i] \in Links
      BY <1>4, Elements
    <3>2. near'[i].root \in Legible
      BY <2>2, <3>1 DEF Links, Legible
    <3>. QED
      BY <1>1, <1>2, <1>3, <2>2, <3>2 DEF Linked, SearchShape
  <2>. QED
    BY <1>4, <1>5, <2>1, <2>2
<1>6. \A i \in DOMAIN queue' : WayTo(search'.target, Legible', seen', queue'[i].address, queue'[i].offsets)
  BY <1>1, <1>2 DEF WaysInv
<1>7. \A i \in DOMAIN found' : WayTo(search'.target, Legible', seen', found'[i].root, found'[i].offsets)
  BY <1>1, <1>2 DEF WaysInv
<1>. QED
  BY <1>5, <1>6, <1>7 DEF WaysInv

LEMMA WaysExpand == ASSUME SearchShape, ChainShape, WaysInv, Expand PROVE WaysInv'
<1>1. PICK paths, fresh, news : paths \in Seq(Paths) /\ news \in Seq(Entries) /\ Expands(paths, fresh, news)
  BY ExpandIs
<1>2. /\ queue # <<>> /\ near \in Seq(Links) /\ queue \in Seq(Entries)
      /\ search' = search /\ UNCHANGED target /\ UNCHANGED <<memory, seen>> /\ near' = <<>> /\ Pursuing
  BY Expanded
<1>3. Legible' = Legible
  BY <1>2, LegibleStays
<1>4. ASSUME NEW i \in DOMAIN near
      PROVE  WayTo(search.target, Legible, seen, near[i].root, Path(near[i]).offsets)
  <2>1. near[i] \in Links
    BY <1>2, Elements
  <2>2. PICK l \in Links : l = near[i]
    BY <2>1
  <2>3. Linked(l, Legible, seen, Head(queue).address)
    BY <1>2, <1>4, <2>2 DEF WaysInv
  <2>4. 1 \in DOMAIN queue /\ Head(queue) = queue[1] /\ Head(queue) \in Entries
    BY <1>2, TailIs
  <2>5. WayTo(search.target, Legible, seen, Head(queue).address, Head(queue).offsets)
    BY <1>2, <2>4 DEF WaysInv
  <2>6. PICK rest \in Seq(0 .. search.reach) : rest = Head(queue).offsets
    BY <2>4 DEF Entries, Offsets
  <2>7. /\ Len(Path(l).offsets) = Len(rest) + 1 /\ Path(l).offsets[1] = l.offset
        /\ \A k \in DOMAIN rest : Path(l).offsets[k + 1] = rest[k]
    BY <1>2, <2>6, PathIs
  <2>8. l.root \in Legible /\ \E m \in seen : Pointer(m, l.root) + l.offset = Head(queue).address
    BY <2>3 DEF Linked
  <2>9. PICK goal, places, contents, address, offsets, root :
          /\ goal = search.target /\ places = Legible /\ contents = seen /\ address = Head(queue).address
          /\ offsets = Path(l).offsets /\ root = l.root
    OBVIOUS
  <2>10. WayTo(goal, places, contents, address, rest) /\ root \in places
    BY <2>5, <2>6, <2>8, <2>9
  <2>11. Len(offsets) = Len(rest) + 1 /\ offsets[1] = l.offset /\ \A k \in DOMAIN rest : offsets[k + 1] = rest[k]
    BY <2>7, <2>9
  <2>12. \E m \in contents : Pointer(m, root) + l.offset = address
    BY <2>8, <2>9
  <2>13. WayTo(goal, places, contents, root, offsets)
    BY <2>10, <2>11, <2>12, WayFrom
  <2>. QED
    BY <2>2, <2>9, <2>13
<1>5. ASSUME NEW i \in DOMAIN found'
      PROVE  WayTo(search'.target, Legible', seen', found'[i].root, found'[i].offsets)
  <2>1. CASE i \in DOMAIN found /\ found'[i] = found[i]
    BY <1>2, <1>3, <2>1 DEF WaysInv
  <2>2. CASE i - Len(found) \in DOMAIN paths /\ found'[i] = paths[i - Len(found)]
    <3>1. PICK j \in DOMAIN near : found'[i] = Path(near[j])
      BY <1>1, <2>2 DEF Expands
    <3>2. found'[i].root = near[j].root
      BY <3>1 DEF Path
    <3>. QED
      BY <1>2, <1>3, <1>4, <3>1, <3>2
  <2>. QED
    BY <1>1, <1>5, <2>1, <2>2 DEF Expands, Joins
<1>6. ASSUME NEW i \in DOMAIN queue'
      PROVE  WayTo(search'.target, Legible', seen', queue'[i].address, queue'[i].offsets)
  <2>1. CASE i \in DOMAIN Tail(queue) /\ queue'[i] = Tail(queue)[i]
    <3>1. i + 1 \in DOMAIN queue /\ queue'[i] = queue[i + 1]
      BY <1>2, <2>1, TailIs
    <3>. QED
      BY <1>2, <1>3, <3>1 DEF WaysInv
  <2>2. CASE i - Len(Tail(queue)) \in DOMAIN news /\ queue'[i] = news[i - Len(Tail(queue))]
    <3>1. PICK k \in DOMAIN fresh : queue'[i] = Pursued(near[fresh[k]])
      BY <1>1, <2>2 DEF Expands
    <3>2. fresh[k] \in DOMAIN near
      BY <1>1 DEF Expands, Fresh, ToSet
    <3>3. queue'[i].address = near[fresh[k]].root /\ queue'[i].offsets = Path(near[fresh[k]]).offsets
      BY <3>1 DEF Pursued
    <3>. QED
      BY <1>2, <1>3, <1>4, <3>2, <3>3
  <2>. QED
    BY <1>1, <1>6, <2>1, <2>2 DEF Expands, Joins
<1>7. DOMAIN near' = {}
  BY <1>2
<1>. QED
  BY <1>5, <1>6, <1>7 DEF WaysInv

LEMMA WaysWritten ==
  ASSUME WaysInv, UNCHANGED <<target, windows, found, pursuit, step>>, DOMAIN memory' = DOMAIN memory,
         seen \subseteq seen'
  PROVE  WaysInv'
<1>1. /\ search' = search /\ UNCHANGED <<found, queue, near, step>> /\ UNCHANGED target
  BY DEF target, pursuit
<1>2. Legible' = Legible
  BY <1>1, LegibleStays
<1>3. SUFFICES ASSUME Pursuing PROVE WaysInv'
  BY <1>1 DEF WaysInv, Pursuing, IsPattern
<1>4. \A i \in DOMAIN queue' : WayTo(search'.target, Legible', seen', queue'[i].address, queue'[i].offsets)
  BY <1>1, <1>2, <1>3, WayLater DEF WaysInv
<1>5. \A i \in DOMAIN found' : WayTo(search'.target, Legible', seen', found'[i].root, found'[i].offsets)
  BY <1>1, <1>2, <1>3, WayLater DEF WaysInv
<1>6. \A i \in DOMAIN near' : Linked(near'[i], Legible', seen', Head(queue').address)
  BY <1>1, <1>2, <1>3 DEF WaysInv, Linked
<1>. QED
  BY <1>4, <1>5, <1>6 DEF WaysInv

LEMMA WrittenIs ==
  ASSUME SearchShape, NEW a \in DOMAIN memory, NEW b \in Bytes, memory[a] # b, Write(a, b)
  PROVE  /\ DOMAIN memory' = DOMAIN memory /\ seen \subseteq seen' /\ memory' \in seen'
         /\ UNCHANGED <<target, windows, found, pursuit, step>> /\ seen' # {memory'}
<1>1. /\ memory' = [memory EXCEPT ![a] = b] /\ seen' = seen \cup {memory'} /\ memory \in seen
      /\ UNCHANGED <<target, windows, found, pursuit, step>>
  BY DEF Write, SearchShape
<1>2. memory' # memory
  BY <1>1
<1>. QED
  BY <1>1, <1>2

LEMMA WaysStay == SearchShape /\ ChainShape /\ WaysInv /\ [SearchNext]_searchVars => WaysInv'
<1>1. SUFFICES ASSUME SearchShape, ChainShape, WaysInv, [SearchNext]_searchVars PROVE WaysInv'
  OBVIOUS
<1>2. CASE Begin
  BY <1>1, <1>2, WaysBegin
<1>3. CASE ReadWindow \/ ReturnHits
  <2>1. IsPattern /\ search' = search
    BY <1>3 DEF ReadWindow, ReturnHits, target
  <2>. QED
    BY <2>1 DEF WaysInv, Pursuing, IsPattern
<1>4. CASE Pursue
  BY <1>1, <1>4, WaysPursue
<1>5. CASE ReadPredecessors
  BY <1>1, <1>5, WaysRead
<1>6. CASE Expand
  BY <1>1, <1>6, WaysExpand
<1>7. ASSUME NEW a \in DOMAIN memory, NEW b \in Bytes, memory[a] # b, Write(a, b) PROVE WaysInv'
  <2>1. /\ DOMAIN memory' = DOMAIN memory /\ seen \subseteq seen'
        /\ UNCHANGED <<target, windows, found, pursuit, step>>
    BY <1>1, <1>7, WrittenIs
  <2>. QED
    BY <1>1, <2>1, WaysWritten
<1>8. CASE UNCHANGED searchVars
  <2>1. UNCHANGED <<target, windows, found, pursuit, step, memory, seen>>
    BY <1>8 DEF searchVars
  <2>. QED
    BY <1>1, <2>1, WaysWritten
<1>. QED
  BY <1>1, <1>2, <1>3, <1>4, <1>5, <1>6, <1>7, <1>8 DEF SearchNext, Searching

(***************************************************************************)
(* No address is queued twice and no path found twice                      *)
(***************************************************************************)

Popped == visited \ {queue[i].address : i \in DOMAIN queue}

FirstStop(m, path) == Pointer(m, path.root) + path.offsets[1]

QueuedOnce ==
  Pursuing =>
    /\ \A i, j \in DOMAIN queue : queue[i].address = queue[j].address => i = j
    /\ \A i \in DOMAIN queue : queue[i].address \in visited

FoundOnce ==
  Pursuing /\ seen = {memory} =>
    /\ \A i \in DOMAIN found : FirstStop(memory, found[i]) \in Popped
    /\ \A i, j \in DOMAIN found : found[i] = found[j] => i = j

LEMMA RootsApart ==
  ASSUME SearchShape, ChainShape, Pursuing, step = "read", NEW i \in DOMAIN near, NEW j \in DOMAIN near,
         near[i].root = near[j].root
  PROVE  i = j
<1>1. near \in Seq(Links) /\ Ascends(Roots) /\ Roots \in Seq(Nat)
  BY DEF ChainShape, Reading, Gathered
<1>2. DOMAIN Roots = DOMAIN near /\ Roots[i] = near[i].root /\ Roots[j] = near[j].root
  BY DEF Roots
<1>3. i \in Int /\ j \in Int
  BY <1>1
<1>4. Roots[i] \in Nat /\ Roots[j] \in Nat
  BY <1>1, <1>2, Elements
<1>5. CASE i < j
  BY <1>1, <1>2, <1>4, <1>5 DEF Ascends
<1>6. CASE j < i
  BY <1>1, <1>2, <1>4, <1>6 DEF Ascends
<1>. QED
  BY <1>3, <1>5, <1>6

\* What is in the queue after an expansion: the old rest of it, then the fresh ones.
LEMMA QueueGrows ==
  ASSUME SearchShape, ChainShape, Expand, NEW paths, NEW fresh, NEW news, Expands(paths, fresh, news),
         NEW i \in DOMAIN queue'
  PROVE  \/ i \in Nat /\ i < Len(queue) /\ i + 1 \in DOMAIN queue /\ queue'[i] = queue[i + 1]
         \/ /\ i \in Nat /\ i >= Len(queue)
            /\ \E k \in DOMAIN fresh : /\ k = i - (Len(queue) - 1) /\ queue'[i] = Pursued(near[fresh[k]])
                                       /\ fresh[k] \in Fresh
<1>1. queue # <<>> /\ queue \in Seq(Entries) /\ queue' \in Seq(Entries)
  BY Expanded DEF Expands
<1>2. /\ Len(Tail(queue)) = Len(queue) - 1 /\ Len(queue) \in Nat /\ i \in Nat /\ Tail(queue) \in Seq(Entries)
      /\ \A j \in DOMAIN Tail(queue) : j + 1 \in DOMAIN queue /\ Tail(queue)[j] = queue[j + 1]
  BY <1>1, TailIs
<1>3. CASE i \in DOMAIN Tail(queue) /\ queue'[i] = Tail(queue)[i]
  <2>1. i + 1 \in DOMAIN queue /\ queue'[i] = queue[i + 1]
    BY <1>2, <1>3
  <2>2. i < Len(queue)
    BY <1>1, <1>2, <2>1
  <2>. QED
    BY <1>2, <2>1, <2>2
<1>4. CASE i - Len(Tail(queue)) \in DOMAIN news /\ i > Len(Tail(queue)) /\ queue'[i] = news[i - Len(Tail(queue))]
  <2>1. PICK k \in DOMAIN fresh : k = i - (Len(queue) - 1) /\ queue'[i] = Pursued(near[fresh[k]])
    BY <1>2, <1>4 DEF Expands
  <2>2. fresh[k] \in Fresh
    BY DEF Expands, ToSet
  <2>3. i >= Len(queue)
    BY <1>2, <1>4
  <2>. QED
    BY <1>2, <2>1, <2>2, <2>3
<1>. QED
  BY <1>3, <1>4 DEF Expands, Joins

\* Each old entry but the head, and each fresh one, is in it.
LEMMA QueueKeeps ==
  ASSUME SearchShape, ChainShape, Expand, NEW paths, NEW fresh, NEW news, Expands(paths, fresh, news)
  PROVE  /\ \A i \in DOMAIN queue : i # 1 => \E j \in DOMAIN queue' : queue'[j] = queue[i]
         /\ \A i \in Fresh : \E j \in DOMAIN queue' : queue'[j] = Pursued(near[i])
<1>1. queue # <<>> /\ queue \in Seq(Entries)
  BY Expanded
<1>2. \A i \in DOMAIN queue : i # 1 => i - 1 \in DOMAIN Tail(queue) /\ Tail(queue)[i - 1] = queue[i]
  BY <1>1, TailIs
<1>3. ASSUME NEW i \in DOMAIN queue, i # 1 PROVE \E j \in DOMAIN queue' : queue'[j] = queue[i]
  <2>1. Joins(queue', Tail(queue), news)
    BY DEF Expands
  <2>2. PICK k : k = i - 1 /\ k \in DOMAIN Tail(queue) /\ Tail(queue)[k] = queue[i]
    BY <1>2, <1>3
  <2>3. k \in DOMAIN queue' /\ queue'[k] = Tail(queue)[k]
    BY <2>1, <2>2, Zenon DEF Joins
  <2>. QED
    BY <2>2, <2>3
<1>4. ASSUME NEW i \in Fresh PROVE \E j \in DOMAIN queue' : queue'[j] = Pursued(near[i])
  <2>1. PICK k \in DOMAIN fresh : fresh[k] = i
    BY DEF Expands, ToSet
  <2>2. k \in DOMAIN news /\ news[k] = Pursued(near[i])
    BY <2>1 DEF Expands
  <2>. QED
    BY <2>2 DEF Expands, Joins
<1>. QED
  BY <1>3, <1>4

\* Taking the head off the queue, with or without its predecessors.
LEMMA PoppedExpand ==
  ASSUME SearchShape, ChainShape, QueuedOnce, Expand
  PROVE  Popped' = Popped \cup {Head(queue).address}
<1>1. PICK paths, fresh, news : Expands(paths, fresh, news)
  BY ExpandIs
<1>2. queue # <<>> /\ queue \in Seq(Entries) /\ Pursuing
  BY Expanded
<1>3. Head(queue) = queue[1] /\ 1 \in DOMAIN queue
  BY <1>2, TailIs
<1>4. PICK h : h = Head(queue).address
  OBVIOUS
<1>5. visited' = visited \cup {near[i].root : i \in Fresh}
  BY <1>1 DEF Expands
<1>6. \A i \in Fresh : near[i].root \notin visited /\ Pursued(near[i]).address = near[i].root
  BY DEF Fresh, Pursued
<1>7. ASSUME NEW x, x \in Popped' PROVE x \in Popped \/ x = h
  <2>1. x \in visited' /\ \A j \in DOMAIN queue' : queue'[j].address # x
    BY <1>7 DEF Popped
  <2>2. x \in visited
    <3>1. ASSUME NEW i \in Fresh, x = near[i].root PROVE FALSE
      BY <1>1, <1>6, <2>1, <3>1, QueueKeeps
    <3>. QED
      BY <1>5, <2>1, <3>1
  <2>3. ASSUME NEW i \in DOMAIN queue, queue[i].address = x, x # h PROVE FALSE
    <3>1. i # 1
      BY <1>3, <1>4, <2>3
    <3>. QED
      BY <1>1, <2>1, <2>3, <3>1, QueueKeeps
  <2>. QED
    BY <2>2, <2>3 DEF Popped
<1>8. ASSUME NEW x, x \in Popped \/ x = h PROVE x \in Popped'
  <2>1. x \in visited
    BY <1>2, <1>3, <1>4, <1>8 DEF Popped, QueuedOnce
  <2>2. ASSUME NEW i \in DOMAIN queue, i # 1, queue[i].address = x PROVE FALSE
    BY <1>2, <1>3, <1>4, <1>8, <2>2 DEF Popped, QueuedOnce
  <2>3. ASSUME NEW i \in DOMAIN queue', queue'[i].address = x PROVE FALSE
    <3>1. CASE i \in Nat /\ i < Len(queue) /\ i + 1 \in DOMAIN queue /\ queue'[i] = queue[i + 1]
      <4>1. i # 0
        BY <1>1 DEF Expands
      <4>2. i + 1 # 1
        BY <3>1, <4>1
      <4>. QED
        BY <2>2, <2>3, <3>1, <4>2
    <3>2. CASE \E k \in DOMAIN fresh : queue'[i] = Pursued(near[fresh[k]]) /\ fresh[k] \in Fresh
      BY <1>6, <2>1, <2>3, <3>2
    <3>. QED
      BY <1>1, <3>1, <3>2, QueueGrows
  <2>. QED
    BY <1>5, <2>1, <2>3 DEF Popped
<1>. QED
  BY <1>4, <1>7, <1>8

LEMMA PoppedTail ==
  ASSUME SearchShape, ChainShape, QueuedOnce, Pursuing, queue # <<>>, queue' = Tail(queue), visited' = visited
  PROVE  Popped' = Popped \cup {Head(queue).address}
<1>1. queue \in Seq(Entries)
  BY DEF ChainShape
<1>2. /\ Head(queue) = queue[1] /\ 1 \in DOMAIN queue
      /\ \A i \in DOMAIN Tail(queue) : i + 1 \in DOMAIN queue /\ Tail(queue)[i] = queue[i + 1] /\ i + 1 # 1
      /\ \A i \in DOMAIN queue : i # 1 => i - 1 \in DOMAIN Tail(queue) /\ Tail(queue)[i - 1] = queue[i]
  <2>1. \A i \in DOMAIN Tail(queue) : i \in Nat \ {0} /\ i + 1 # 1
    BY <1>1, TailIs
  <2>. QED
    BY <1>1, <2>1, TailIs
<1>3. PICK h : h = Head(queue).address /\ h = queue[1].address
  BY <1>2
<1>4. /\ \A i, j \in DOMAIN queue : queue[i].address = queue[j].address => i = j
      /\ \A i \in DOMAIN queue : queue[i].address \in visited
  BY DEF QueuedOnce
<1>5. ASSUME NEW x, x \in Popped' PROVE x \in Popped \/ x = h
  <2>1. x \in visited /\ \A j \in DOMAIN Tail(queue) : Tail(queue)[j].address # x
    BY <1>5 DEF Popped
  <2>2. ASSUME NEW i \in DOMAIN queue, queue[i].address = x, x # h PROVE FALSE
    BY <1>2, <1>3, <2>1, <2>2
  <2>. QED
    BY <2>1, <2>2 DEF Popped
<1>6. ASSUME NEW x, x \in Popped \/ x = h PROVE x \in Popped'
  <2>1. x \in visited
    BY <1>2, <1>3, <1>4, <1>6 DEF Popped
  <2>2. ASSUME NEW j \in DOMAIN Tail(queue), Tail(queue)[j].address = x PROVE FALSE
    <3>1. j + 1 \in DOMAIN queue /\ queue[j + 1].address = x /\ j + 1 # 1
      BY <1>2, <2>2
    <3>. QED
      BY <1>2, <1>3, <1>4, <1>6, <3>1 DEF Popped
  <2>. QED
    BY <2>1, <2>2 DEF Popped
<1>. QED
  BY <1>3, <1>5, <1>6

LEMMA OnceBegin == ASSUME SearchShape, Begin PROVE QueuedOnce' /\ FoundOnce'
<1>1. SUFFICES ASSUME Pursuing' PROVE QueuedOnce' /\ FoundOnce'
  BY DEF QueuedOnce, FoundOnce
<1>2. /\ search' = search /\ found' = <<>> /\ visited' = {search.target}
      /\ queue' = <<[address |-> search.target, offsets |-> <<>>]>>
  BY <1>1 DEF Begin, Pursuing, IsPattern, SearchShape, target
<1>3. DOMAIN queue' = {1} /\ queue'[1].address = search.target /\ DOMAIN found' = {}
  BY <1>2
<1>. QED
  BY <1>2, <1>3 DEF QueuedOnce, FoundOnce

LEMMA OncePursue ==
  ASSUME SearchShape, ChainShape, QueuedOnce, FoundOnce, Pursue PROVE QueuedOnce' /\ FoundOnce'
<1>1. /\ UNCHANGED <<found, near, seen, memory, visited>> /\ Pursuing /\ step = "pursue"
  BY DEF Pursue, target, Pursuing, SearchShape
<1>2. queue \in Seq(Entries)
  BY <1>1 DEF ChainShape
<1>3. CASE queue' = queue
  BY <1>1, <1>3 DEF QueuedOnce, FoundOnce, Popped
<1>4. CASE queue # <<>> /\ queue' = Tail(queue)
  <2>1. \A i \in DOMAIN queue' : i + 1 \in DOMAIN queue /\ queue'[i] = queue[i + 1] /\ i \in Int
    BY <1>2, <1>4, TailIs
  <2>2. QueuedOnce'
    <3>1. \A i, j \in DOMAIN queue' : queue'[i].address = queue'[j].address => i = j
      <4>1. SUFFICES ASSUME NEW i \in DOMAIN queue', NEW j \in DOMAIN queue',
                            queue'[i].address = queue'[j].address
                     PROVE  i = j
        OBVIOUS
      <4>2. i + 1 = j + 1
        BY <1>1, <2>1, <4>1 DEF QueuedOnce
      <4>. QED
        BY <2>1, <4>2
    <3>. QED
      BY <1>1, <2>1, <3>1 DEF QueuedOnce
  <2>3. FoundOnce'
    BY <1>1, <1>4, PoppedTail DEF FoundOnce
  <2>. QED
    BY <2>2, <2>3
<1>. QED
  BY <1>3, <1>4 DEF Pursue

LEMMA OnceExpand ==
  ASSUME SearchShape, ChainShape, WaysInv, QueuedOnce, FoundOnce, Expand PROVE QueuedOnce' /\ FoundOnce'
<1>1. PICK paths, fresh, news : paths \in Seq(Paths) /\ Expands(paths, fresh, news)
  BY ExpandIs
<1>2. /\ queue # <<>> /\ near \in Seq(Links) /\ queue \in Seq(Entries) /\ found \in Seq(Paths)
      /\ UNCHANGED <<memory, seen>> /\ Pursuing /\ step = "read"
  BY Expanded
<1>3. /\ \A i, j \in DOMAIN queue : queue[i].address = queue[j].address => i = j
      /\ \A i \in DOMAIN queue : queue[i].address \in visited
  BY <1>2 DEF QueuedOnce
<1>4. visited' = visited \cup {near[i].root : i \in Fresh}
  BY <1>1 DEF Expands
<1>5. \A i \in Fresh : i \in DOMAIN near /\ near[i].root \notin visited /\ Pursued(near[i]).address = near[i].root
  BY DEF Fresh, Pursued
<1>6. ASSUME NEW i \in DOMAIN queue' PROVE queue'[i].address \in visited'
  BY <1>1, <1>3, <1>4, <1>5, QueueGrows
<1>7. ASSUME NEW i \in DOMAIN queue', NEW j \in DOMAIN queue', queue'[i].address = queue'[j].address
      PROVE  i = j
  <2>1. ASSUME NEW k \in DOMAIN queue', NEW l \in DOMAIN queue', queue'[k].address = queue'[l].address,
               k < Len(queue), k + 1 \in DOMAIN queue, queue'[k] = queue[k + 1]
        PROVE  k = l
    <3>1. CASE l \in Nat /\ l < Len(queue) /\ l + 1 \in DOMAIN queue /\ queue'[l] = queue[l + 1]
      <4>1. k + 1 = l + 1
        BY <1>3, <2>1, <3>1
      <4>2. k \in Int /\ l \in Int
        BY <1>1 DEF Expands
      <4>. QED
        BY <4>1, <4>2
    <3>2. CASE \E m \in DOMAIN fresh : queue'[l] = Pursued(near[fresh[m]]) /\ fresh[m] \in Fresh
      BY <1>3, <1>5, <2>1, <3>2
    <3>. QED
      BY <1>1, <3>1, <3>2, QueueGrows
  <2>2. ASSUME NEW k \in DOMAIN fresh, NEW l \in DOMAIN fresh, fresh[k] \in Fresh, fresh[l] \in Fresh,
               near[fresh[k]].root = near[fresh[l]].root
        PROVE  k = l
    <3>1. fresh[k] = fresh[l]
      BY <1>2, <1>5, <2>2, RootsApart
    <3>2. k \in Int /\ l \in Int /\ fresh[k] \in Nat /\ fresh[l] \in Nat
      BY <1>1, Elements DEF Expands
    <3>3. ~(k < l) /\ ~(l < k)
      BY <1>1, <3>1, <3>2 DEF Expands, Ascends
    <3>. QED
      BY <3>2, <3>3
  <2>3. CASE \/ i \in Nat /\ i < Len(queue) /\ i + 1 \in DOMAIN queue /\ queue'[i] = queue[i + 1]
             \/ j \in Nat /\ j < Len(queue) /\ j + 1 \in DOMAIN queue /\ queue'[j] = queue[j + 1]
    BY <1>7, <2>1, <2>3
  <2>4. CASE /\ \E k \in DOMAIN fresh : /\ k = i - (Len(queue) - 1) /\ queue'[i] = Pursued(near[fresh[k]])
                                        /\ fresh[k] \in Fresh
             /\ \E k \in DOMAIN fresh : /\ k = j - (Len(queue) - 1) /\ queue'[j] = Pursued(near[fresh[k]])
                                        /\ fresh[k] \in Fresh
    <3>1. PICK k \in DOMAIN fresh : /\ k = i - (Len(queue) - 1) /\ queue'[i] = Pursued(near[fresh[k]])
                                    /\ fresh[k] \in Fresh
      BY <2>4
    <3>2. PICK l \in DOMAIN fresh : /\ l = j - (Len(queue) - 1) /\ queue'[j] = Pursued(near[fresh[l]])
                                    /\ fresh[l] \in Fresh
      BY <2>4
    <3>3. near[fresh[k]].root = near[fresh[l]].root
      BY <1>5, <1>7, <3>1, <3>2
    <3>4. k = l
      BY <2>2, <3>1, <3>2, <3>3
    <3>5. i \in Int /\ j \in Int /\ Len(queue) \in Int
      BY <1>1, <1>2 DEF Expands
    <3>. QED
      BY <3>1, <3>2, <3>4, <3>5
  <2>. QED
    BY <1>1, <1>7, <2>3, <2>4, QueueGrows
<1>8. Popped' = Popped \cup {Head(queue).address}
  BY PoppedExpand
<1>9. ASSUME seen = {memory}
      PROVE  /\ \A i \in DOMAIN found' : FirstStop(memory, found'[i]) \in Popped'
             /\ \A i, j \in DOMAIN found' : found'[i] = found'[j] => i = j
  <2>1. Head(queue).address \notin Popped
    BY <1>2, TailIs DEF Popped
  <2>2. \A i \in DOMAIN found : FirstStop(memory, found[i]) \in Popped
    BY <1>2, <1>9 DEF FoundOnce
  <2>3. ASSUME NEW i \in DOMAIN near
        PROVE  FirstStop(memory, Path(near[i])) = Head(queue).address /\ Path(near[i]).root = near[i].root
    <3>1. Linked(near[i], Legible, seen, Head(queue).address) /\ near[i] \in Links
      BY <1>2, Elements DEF WaysInv
    <3>2. Pointer(memory, near[i].root) + near[i].offset = Head(queue).address
      BY <1>9, <3>1 DEF Linked
    <3>3. Path(near[i]).root = near[i].root /\ Path(near[i]).offsets[1] = near[i].offset
      BY <1>2, <3>1, PathIs
    <3>. QED
      BY <3>2, <3>3 DEF FirstStop
  <2>4. ASSUME NEW i \in DOMAIN found'
        PROVE  \/ i \in DOMAIN found /\ found'[i] = found[i]
               \/ \E k \in DOMAIN near : k = i - Len(found) /\ found'[i] = Path(near[k])
    BY <1>1 DEF Expands, Joins
  <2>5. \A i \in DOMAIN found' : FirstStop(memory, found'[i]) \in Popped'
    BY <1>8, <2>2, <2>3, <2>4
  <2>6. ASSUME NEW i \in DOMAIN found', NEW j \in DOMAIN found', found'[i] = found'[j] PROVE i = j
    <3>1. CASE i \in DOMAIN found /\ found'[i] = found[i] /\ j \in DOMAIN found /\ found'[j] = found[j]
      BY <1>2, <1>9, <2>6, <3>1 DEF FoundOnce
    <3>2. CASE /\ i \in DOMAIN found /\ found'[i] = found[i]
               /\ \E k \in DOMAIN near : k = j - Len(found) /\ found'[j] = Path(near[k])
      BY <2>1, <2>2, <2>3, <2>6, <3>2
    <3>3. CASE /\ j \in DOMAIN found /\ found'[j] = found[j]
               /\ \E k \in DOMAIN near : k = i - Len(found) /\ found'[i] = Path(near[k])
      BY <2>1, <2>2, <2>3, <2>6, <3>3
    <3>4. CASE /\ \E k \in DOMAIN near : k = i - Len(found) /\ found'[i] = Path(near[k])
               /\ \E k \in DOMAIN near : k = j - Len(found) /\ found'[j] = Path(near[k])
      <4>1. PICK k \in DOMAIN near : k = i - Len(found) /\ found'[i] = Path(near[k])
        BY <3>4
      <4>2. PICK l \in DOMAIN near : l = j - Len(found) /\ found'[j] = Path(near[l])
        BY <3>4
      <4>3. near[k].root = near[l].root
        BY <2>3, <2>6, <4>1, <4>2
      <4>4. k = l
        BY <1>2, <4>3, RootsApart
      <4>5. i \in Int /\ j \in Int /\ Len(found) \in Int
        BY <1>1, <1>2 DEF Expands
      <4>. QED
        BY <4>1, <4>2, <4>4, <4>5
    <3>. QED
      BY <2>4, <3>1, <3>2, <3>3, <3>4
  <2>. QED
    BY <2>5, <2>6
<1>10. QueuedOnce'
  BY <1>6, <1>7 DEF QueuedOnce
<1>11. FoundOnce'
  BY <1>2, <1>9 DEF FoundOnce
<1>. QED
  BY <1>10, <1>11

LEMMA OnceStays ==
  SearchShape /\ ChainShape /\ WaysInv /\ QueuedOnce /\ FoundOnce /\ [SearchNext]_searchVars
    => QueuedOnce' /\ FoundOnce'
<1>1. SUFFICES ASSUME SearchShape, ChainShape, WaysInv, QueuedOnce, FoundOnce, [SearchNext]_searchVars
               PROVE  QueuedOnce' /\ FoundOnce'
  OBVIOUS
<1>2. CASE Begin
  BY <1>1, <1>2, OnceBegin
<1>3. CASE ReadWindow \/ ReturnHits
  <2>1. IsPattern /\ search' = search
    BY <1>3 DEF ReadWindow, ReturnHits, target
  <2>. QED
    BY <2>1 DEF QueuedOnce, FoundOnce, Pursuing, IsPattern
<1>4. CASE Pursue
  BY <1>1, <1>4, OncePursue
<1>5. CASE ReadPredecessors
  <2>1. UNCHANGED <<search, queue, visited, found, memory, seen, step>>
    BY <1>5 DEF ReadPredecessors, target
  <2>. QED
    BY <1>1, <2>1 DEF QueuedOnce, FoundOnce, Pursuing, IsPattern, Popped
<1>6. CASE Expand
  BY <1>1, <1>6, OnceExpand
<1>7. ASSUME NEW a \in DOMAIN memory, NEW b \in Bytes, memory[a] # b, Write(a, b) PROVE QueuedOnce' /\ FoundOnce'
  <2>1. UNCHANGED <<search, queue, visited, found, step>> /\ seen' # {memory'}
    BY <1>1, <1>7, WrittenIs DEF target, pursuit
  <2>. QED
    BY <1>1, <2>1 DEF QueuedOnce, FoundOnce, Pursuing, IsPattern
<1>8. CASE UNCHANGED searchVars
  BY <1>1, <1>8 DEF searchVars, target, pursuit, QueuedOnce, FoundOnce, Pursuing, IsPattern, Popped
<1>. QED
  BY <1>1, <1>2, <1>3, <1>4, <1>5, <1>6, <1>7, <1>8 DEF SearchNext, Searching

(***************************************************************************)
(* No address that leads to the target is missed                           *)
(***************************************************************************)

\* The goal itself, or an address with a path to it of at most n links.
Reaches(paths, goal, v, n) == v = goal \/ \E i \in DOMAIN paths : paths[i].root = v /\ Len(paths[i].offsets) <= n

\* The queue is in the order of the lengths of its paths, which differ by one at most.
InOrder ==
  \A i, j \in DOMAIN queue : i < j =>
    Len(queue[i].offsets) <= Len(queue[j].offsets) /\ Len(queue[j].offsets) <= Len(queue[i].offsets) + 1

\* What is queued is queued with a path that is the shortest there will be.
Shortest ==
  \A i \in DOMAIN queue :
    /\ queue[i].address = search.target => Len(queue[i].offsets) = 0
    /\ \A j \in DOMAIN found : found[j].root = queue[i].address => Len(found[j].offsets) >= Len(queue[i].offsets)
    /\ Reaches(found, search.target, queue[i].address, Len(queue[i].offsets))

RootsVisited == \A i \in DOMAIN found : found[i].root \in visited

\* What has left the queue has no longer a path than what is in it, and those that
\* lead to it have paths.
PoppedFirst ==
  \A v \in Popped : \A i \in DOMAIN queue : Reaches(found, search.target, v, Len(queue[i].offsets))
PoppedWhole ==
  \A v \in Popped, n \in 0 .. search.depth - 1 : Reaches(found, search.target, v, n) =>
    \A a \in SureLinks(v) : Spared(a) => Reaches(found, search.target, a, n + 1)

WholeInv ==
  Pursuing /\ Len(found) < search.limit =>
    /\ InOrder /\ RootsVisited /\ Shortest /\ PoppedFirst /\ PoppedWhole
    /\ step = "read" => Complete(Roots, windows, Room, SureLinks(Head(queue).address))

LEMMA ReachesMore ==
  ASSUME NEW paths, NEW more, \A i \in DOMAIN paths : i \in DOMAIN more /\ more[i] = paths[i],
         NEW goal, NEW v, NEW n \in Int, NEW k \in Int, n <= k,
         \A i \in DOMAIN paths : Len(paths[i].offsets) \in Nat,
         Reaches(paths, goal, v, n)
  PROVE  Reaches(more, goal, v, k)
<1>1. CASE v = goal
  BY <1>1 DEF Reaches
<1>2. CASE v # goal
  <2>1. PICK i \in DOMAIN paths : paths[i].root = v /\ Len(paths[i].offsets) <= n
    BY <1>2 DEF Reaches
  <2>2. i \in DOMAIN more /\ more[i] = paths[i] /\ Len(paths[i].offsets) <= k
    BY <2>1
  <2>. QED
    BY <2>1, <2>2 DEF Reaches
<1>. QED
  BY <1>1, <1>2

LEMMA FoundLengths == ASSUME ChainShape, Pursuing PROVE \A i \in DOMAIN found : Len(found[i].offsets) \in Nat
BY DEF ChainShape

LEMMA ReachesLonger ==
  ASSUME ChainShape, Pursuing, NEW v, NEW n \in Nat, NEW k \in Nat, n <= k, Reaches(found, search.target, v, n)
  PROVE  Reaches(found, search.target, v, k)
<1>1. PICK paths, goal : paths = found /\ goal = search.target
  OBVIOUS
<1>2. \A i \in DOMAIN paths : Len(paths[i].offsets) \in Nat
  BY <1>1, FoundLengths
<1>3. Reaches(paths, goal, v, n)
  BY <1>1
<1>4. n \in Int /\ k \in Int
  OBVIOUS
<1>5. Reaches(paths, goal, v, k)
  BY <1>2, <1>3, <1>4, ReachesMore
<1>. QED
  BY <1>1, <1>5

LEMMA QueueLengths == ASSUME ChainShape, Pursuing PROVE \A i \in DOMAIN queue : Len(queue[i].offsets) \in Nat
<1>1. queue \in Seq(Entries)
  BY DEF ChainShape
<1>2. \A i \in DOMAIN queue : queue[i] \in Entries
  BY <1>1, Elements
<1>. QED
  BY <1>2 DEF Entries, Offsets

LEMMA SureLinksShrink ==
  ASSUME UNCHANGED target, seen \subseteq seen', NEW v
  PROVE  SureLinks(v)' \subseteq SureLinks(v)
<1>1. search' = search /\ Candidates' = Candidates
  BY Fixed DEF target
<1>2. \A m, a : LeadsTo(m, a, v)' = LeadsTo(m, a, v)
  BY <1>1 DEF LeadsTo
<1>. QED
  BY <1>1, <1>2 DEF SureLinks

LEMMA WholeBegins == ASSUME SearchShape, Begin PROVE WholeInv'
<1>1. SUFFICES ASSUME Pursuing' PROVE WholeInv'
  BY DEF WholeInv
<1>2. /\ search' = search /\ found' = <<>> /\ visited' = {search.target} /\ step' = "pursue"
      /\ queue' = <<[address |-> search.target, offsets |-> <<>>]>>
  BY <1>1 DEF Begin, Pursuing, IsPattern, SearchShape, target
<1>3. DOMAIN queue' = {1} /\ queue'[1].address = search.target /\ Len(queue'[1].offsets) = 0 /\ DOMAIN found' = {}
  BY <1>2
<1>4. Popped' = {}
  BY <1>2, <1>3 DEF Popped
<1>5. InOrder' /\ RootsVisited' /\ Shortest'
  BY <1>2, <1>3 DEF InOrder, RootsVisited, Shortest, Reaches
<1>6. PoppedFirst' /\ PoppedWhole'
  BY <1>4 DEF PoppedFirst, PoppedWhole
<1>. QED
  BY <1>2, <1>5, <1>6 DEF WholeInv

\* When nothing but the contents, the windows and the predecessors changes.
LEMMA WholeRests ==
  ASSUME UNCHANGED <<search, illegible, found, queue, visited>>, seen \subseteq seen',
         InOrder, RootsVisited, Shortest, PoppedFirst, PoppedWhole
  PROVE  InOrder' /\ RootsVisited' /\ Shortest' /\ PoppedFirst' /\ PoppedWhole'
<1>1. UNCHANGED target
  BY DEF target
<1>2. Popped' = Popped
  BY DEF Popped
<1>3. InOrder' /\ RootsVisited' /\ Shortest'
  BY DEF InOrder, RootsVisited, Shortest
<1>4. PoppedFirst'
  BY <1>2 DEF PoppedFirst
<1>5. PoppedWhole'
  <2>1. \A v : SureLinks(v)' \subseteq SureLinks(v)
    BY <1>1, SureLinksShrink
  <2>2. \A a : Spared(a)' = Spared(a)
    BY <1>1, Fixed
  <2>3. ASSUME NEW v \in Popped, NEW n \in 0 .. search.depth - 1, Reaches(found, search.target, v, n)
        PROVE  \A a \in SureLinks(v)' : Spared(a)' => Reaches(found, search.target, a, n + 1)
    BY <2>1, <2>2, <2>3 DEF PoppedWhole
  <2>. QED
    BY <1>2, <2>3 DEF PoppedWhole
<1>. QED
  BY <1>3, <1>4, <1>5

LEMMA WholePursues == ASSUME SearchShape, ChainShape, QueuedOnce, WholeInv, Pursue PROVE WholeInv'
<1>1. /\ UNCHANGED <<search, illegible, found, near, seen, memory, visited>> /\ Pursuing /\ step = "pursue"
      /\ UNCHANGED target
  BY DEF Pursue, target, Pursuing, SearchShape
<1>2. SUFFICES ASSUME Len(found) < search.limit PROVE WholeInv'
  BY <1>1 DEF WholeInv
<1>3. InOrder /\ RootsVisited /\ Shortest /\ PoppedFirst /\ PoppedWhole
  BY <1>1, <1>2 DEF WholeInv
<1>4. queue \in Seq(Entries) /\ near = <<>>
  BY <1>1 DEF ChainShape
<1>5. Len(found) \in Nat /\ search.limit \in Nat /\ search.depth \in Nat \ {0}
  <2>1. found \in Seq(Paths)
    BY <1>1 DEF ChainShape
  <2>. QED
    BY <1>1, <2>1, Asking
<1>6. CASE queue' = queue
  <2>1. InOrder' /\ RootsVisited' /\ Shortest' /\ PoppedFirst' /\ PoppedWhole'
    BY <1>1, <1>3, <1>6, WholeRests
  <2>2. ASSUME step' = "read" PROVE Complete(Roots, windows, Room, SureLinks(Head(queue).address))'
    <3>1. windows' = AllWindows /\ AllWindows' = AllWindows
      BY <1>1, <2>2, Fixed DEF Pursue
    <3>. QED
      BY <3>1 DEF Complete
  <2>. QED
    BY <2>1, <2>2 DEF WholeInv
<1>7. CASE /\ queue # <<>> /\ queue' = Tail(queue) /\ step' = step
           /\ (Len(Head(queue).offsets) >= search.depth \/ Len(found) >= search.limit)
  <2>1. PICK h \in Nat : h = Len(Head(queue).offsets)
    BY <1>1, <1>4, <1>7, QueueLengths, TailIs
  <2>2. h >= search.depth
    BY <1>2, <1>5, <1>7, <2>1
  <2>3. /\ Head(queue) = queue[1] /\ 1 \in DOMAIN queue
        /\ \A i \in DOMAIN queue' : i \in Nat \ {0} /\ i + 1 \in DOMAIN queue /\ queue'[i] = queue[i + 1]
    BY <1>4, <1>7, TailIs
  <2>4. \A i \in DOMAIN queue' : h <= Len(queue'[i].offsets) /\ Len(queue'[i].offsets) \in Nat
    <3>1. SUFFICES ASSUME NEW i \in DOMAIN queue' PROVE h <= Len(queue'[i].offsets) /\ Len(queue'[i].offsets) \in Nat
      OBVIOUS
    <3>2. PICK j \in DOMAIN queue : j = i + 1 /\ 1 < j /\ queue'[i] = queue[j]
      BY <2>3
    <3>. QED
      BY <1>1, <1>3, <2>1, <2>3, <3>2, QueueLengths DEF InOrder
  <2>5. InOrder'
    <3>1. SUFFICES ASSUME NEW i \in DOMAIN queue', NEW j \in DOMAIN queue', i < j
                   PROVE  /\ Len(queue'[i].offsets) <= Len(queue'[j].offsets)
                          /\ Len(queue'[j].offsets) <= Len(queue'[i].offsets) + 1
      BY DEF InOrder
    <3>2. i + 1 < j + 1
      BY <2>3, <3>1
    <3>. QED
      BY <1>3, <2>3, <3>2 DEF InOrder
  <2>6. RootsVisited'
    BY <1>1, <1>3 DEF RootsVisited
  <2>7. Shortest'
    BY <1>1, <1>3, <2>3 DEF Shortest
  <2>8. PICK v : v = Head(queue).address
    OBVIOUS
  <2>9. Popped' = Popped \cup {v}
    BY <1>1, <1>7, <2>8, PoppedTail
  <2>10. /\ Reaches(found, search.target, v, h)
         /\ v = search.target => h = 0
         /\ \A j \in DOMAIN found : found[j].root = v => Len(found[j].offsets) >= h
    BY <1>3, <2>1, <2>3, <2>8 DEF Shortest
  <2>11. PoppedFirst'
    <3>1. SUFFICES ASSUME NEW x \in Popped \cup {v}, NEW i \in DOMAIN queue'
                   PROVE  Reaches(found, search.target, x, Len(queue'[i].offsets))
      BY <1>1, <2>9 DEF PoppedFirst
    <3>2. CASE x = v
      <4>1. PICK k \in Nat : k = Len(queue'[i].offsets) /\ h <= k
        BY <2>4
      <4>2. Reaches(found, search.target, v, k)
        BY <1>1, <2>10, <4>1, ReachesLonger
      <4>. QED
        BY <3>2, <4>1, <4>2
    <3>3. CASE x \in Popped
      BY <1>3, <2>3, <3>3 DEF PoppedFirst
    <3>. QED
      BY <3>2, <3>3
  <2>12. PoppedWhole'
    <3>1. \A u : SureLinks(u)' \subseteq SureLinks(u)
      BY <1>1, SureLinksShrink
    <3>2. \A a : Spared(a)' = Spared(a)
      BY <1>1, Fixed
    <3>3. ASSUME NEW x \in Popped \cup {v}, NEW n \in 0 .. search.depth - 1, Reaches(found, search.target, x, n)
          PROVE  \A a \in SureLinks(x)' : Spared(a)' => Reaches(found, search.target, a, n + 1)
      <4>1. CASE x = v
        <5>1. n < h
          BY <1>5, <2>2
        <5>2. v # search.target
          BY <1>5, <2>2, <2>10
        <5>3. PICK j \in DOMAIN found : found[j].root = v /\ Len(found[j].offsets) <= n
          BY <3>3, <4>1, <5>2 DEF Reaches
        <5>4. Len(found[j].offsets) >= h /\ Len(found[j].offsets) \in Nat
          BY <1>1, <2>10, <5>3, FoundLengths
        <5>. QED
          BY <5>1, <5>3, <5>4
      <4>2. CASE x \in Popped
        BY <1>3, <3>1, <3>2, <3>3, <4>2 DEF PoppedWhole
      <4>. QED
        BY <4>1, <4>2
    <3>. QED
      BY <1>1, <2>9, <3>3 DEF PoppedWhole
  <2>. QED
    BY <1>1, <1>7, <2>5, <2>6, <2>7, <2>11, <2>12 DEF WholeInv
<1>. QED
  BY <1>6, <1>7 DEF Pursue

LEMMA WholeReads == ASSUME SearchShape, ChainShape, WholeInv, ReadPredecessors PROVE WholeInv'
<1>1. /\ UNCHANGED <<search, illegible, found, seen, memory, queue, visited>> /\ Pursuing /\ step = "read"
      /\ UNCHANGED target /\ step' = step
  BY DEF ReadPredecessors, target, Pursuing
<1>2. SUFFICES ASSUME Len(found) < search.limit PROVE WholeInv'
  BY <1>1 DEF WholeInv
<1>3. /\ InOrder /\ RootsVisited /\ Shortest /\ PoppedFirst /\ PoppedWhole
      /\ Complete(Roots, windows, Room, SureLinks(Head(queue).address))
  BY <1>1, <1>2 DEF WholeInv
<1>4. InOrder' /\ RootsVisited' /\ Shortest' /\ PoppedFirst' /\ PoppedWhole'
  BY <1>1, <1>3, WholeRests
<1>5. Complete(Roots', windows', Room, SureLinks(Head(queue).address))
  BY <1>3, ReadIs
<1>6. Room' = Room /\ Head(queue)' = Head(queue)
  BY <1>1 DEF Room
<1>7. SureLinks(Head(queue).address)' \subseteq SureLinks(Head(queue).address)
  BY <1>1, SureLinksShrink DEF SureLinks, LeadsTo
<1>8. Complete(Roots, windows, Room, SureLinks(Head(queue).address))'
  BY <1>1, <1>5, <1>6, <1>7, Fixed DEF Complete
<1>. QED
  BY <1>4, <1>8 DEF WholeInv

LEMMA WholeWritten ==
  ASSUME WholeInv, UNCHANGED <<target, windows, found, pursuit, step>>, seen \subseteq seen'
  PROVE  WholeInv'
<1>1. UNCHANGED <<search, illegible, found, queue, visited, near, windows, step>> /\ UNCHANGED target
  BY DEF target, pursuit
<1>2. SUFFICES ASSUME Pursuing, Len(found) < search.limit PROVE WholeInv'
  BY <1>1 DEF WholeInv, Pursuing, IsPattern
<1>3. InOrder /\ RootsVisited /\ Shortest /\ PoppedFirst /\ PoppedWhole
  BY <1>2 DEF WholeInv
<1>4. InOrder' /\ RootsVisited' /\ Shortest' /\ PoppedFirst' /\ PoppedWhole'
  BY <1>1, <1>3, WholeRests
<1>5. ASSUME step = "read" PROVE Complete(Roots, windows, Room, SureLinks(Head(queue).address))'
  <2>1. Complete(Roots, windows, Room, SureLinks(Head(queue).address))
    BY <1>2, <1>5 DEF WholeInv
  <2>2. Roots' = Roots /\ Room' = Room
    BY <1>1 DEF Roots, Room
  <2>3. SureLinks(Head(queue).address)' \subseteq SureLinks(Head(queue).address)
    BY <1>1, SureLinksShrink DEF SureLinks, LeadsTo
  <2>. QED
    BY <1>1, <2>1, <2>2, <2>3, Fixed DEF Complete
<1>. QED
  BY <1>1, <1>4, <1>5 DEF WholeInv

LEMMA WholeExpands ==
  ASSUME SearchShape, ChainShape, QueuedOnce, WholeInv, Expand
  PROVE  WholeInv'
<1>1. PICK paths, fresh, news :
        paths \in Seq(Paths) /\ news \in Seq(Entries) /\ Expands(paths, fresh, news)
  BY ExpandIs
<1>2. /\ queue # <<>> /\ near \in Seq(Links) /\ Len(found) < search.limit /\ Len(found) \in Nat
      /\ Len(Head(queue).offsets) \in Nat /\ Len(Head(queue).offsets) < search.depth
      /\ search' = search /\ UNCHANGED target /\ UNCHANGED <<memory, seen>> /\ near' = <<>> /\ step' = "pursue"
      /\ Pursuing /\ step = "read" /\ windows = {} /\ queue \in Seq(Entries) /\ found \in Seq(Paths)
  BY Expanded
<1>3. SUFFICES ASSUME Len(found') < search.limit PROVE WholeInv'
  BY <1>2 DEF WholeInv
<1>4. /\ InOrder /\ RootsVisited /\ Shortest /\ PoppedFirst /\ PoppedWhole
      /\ Complete(Roots, windows, Room, SureLinks(Head(queue).address))
  BY <1>2 DEF WholeInv
<1>5. search.limit \in Nat /\ search.depth \in Nat \ {0} /\ search.target \in visited /\ Admitted
  BY <1>2, Asking DEF ChainShape
<1>6. PICK h \in Nat : h = Len(Head(queue).offsets) /\ h < search.depth
  BY <1>2
<1>7. PICK v : v = Head(queue).address
  OBVIOUS
<1>8. Head(queue) = queue[1] /\ 1 \in DOMAIN queue
  BY <1>2, TailIs
<1>9. Len(found') = Len(found) + Len(near) /\ Len(near) \in Nat
  <2>1. DOMAIN paths = DOMAIN near /\ Len(found') = Len(found) + Len(paths)
    BY <1>1 DEF Expands, Joins
  <2>2. Len(paths) = Len(near)
    BY <1>1, <1>2, <2>1, SameLength
  <2>. QED
    BY <1>2, <2>1, <2>2
\* The limit keeps nobody out.
<1>10. Fresh = {i \in DOMAIN near : near[i].root \notin visited}
  <2>1. \A i \in DOMAIN near : i \in Nat /\ i <= Len(near)
    BY <1>2
  <2>2. \A i \in DOMAIN near : Len(found) + i < search.limit
    BY <1>2, <1>3, <1>5, <1>9, <2>1
  <2>. QED
    BY <2>2 DEF Fresh
<1>11. ASSUME NEW i \in DOMAIN near
       PROVE  /\ Path(near[i]).root = near[i].root /\ Len(Path(near[i]).offsets) = h + 1
              /\ Len(found) + i \in DOMAIN found' /\ found'[Len(found) + i] = Path(near[i])
  <2>1. near[i] \in Links
    BY <1>2, Elements
  <2>2. Path(near[i]).root = near[i].root /\ Len(Path(near[i]).offsets) = h + 1
    BY <1>2, <1>6, <2>1, PathIs
  <2>3. i \in DOMAIN paths /\ paths[i] = Path(near[i])
    BY <1>1 DEF Expands
  <2>. QED
    BY <1>1, <2>2, <2>3 DEF Expands, Joins
<1>12. ASSUME NEW i \in DOMAIN found'
       PROVE  \/ i \in DOMAIN found /\ found'[i] = found[i]
              \/ \E k \in DOMAIN near : found'[i].root = near[k].root /\ Len(found'[i].offsets) = h + 1
  <2>1. CASE i - Len(found) \in DOMAIN paths /\ found'[i] = paths[i - Len(found)]
    <3>1. PICK k \in DOMAIN near : found'[i] = Path(near[k])
      BY <1>1, <2>1 DEF Expands
    <3>. QED
      BY <1>11, <3>1
  <2>. QED
    BY <1>1, <1>12, <2>1 DEF Expands, Joins
<1>13. \A i \in DOMAIN found : i \in DOMAIN found' /\ found'[i] = found[i]
  BY <1>1 DEF Expands, Joins
<1>14. ASSUME NEW x, NEW n \in Nat, NEW k \in Nat, n <= k, Reaches(found, search.target, x, n)
       PROVE  Reaches(found', search.target, x, k)
  <2>1. CASE x = search.target
    BY <2>1 DEF Reaches
  <2>2. CASE x # search.target
    <3>1. PICK i \in DOMAIN found : found[i].root = x /\ Len(found[i].offsets) <= n
      BY <1>14, <2>2 DEF Reaches
    <3>2. Len(found[i].offsets) <= k
      BY <1>2, <1>14, <3>1, FoundLengths
    <3>3. i \in DOMAIN found' /\ found'[i].root = x /\ Len(found'[i].offsets) <= k
      BY <1>13, <3>1, <3>2
    <3>. QED
      BY <3>3 DEF Reaches
  <2>. QED
    BY <2>1, <2>2
<1>15. ASSUME NEW i \in DOMAIN queue
       PROVE  Len(queue[i].offsets) \in Nat /\ h <= Len(queue[i].offsets) /\ Len(queue[i].offsets) <= h + 1
  <2>1. Len(queue[i].offsets) \in Nat
    BY <1>2, QueueLengths
  <2>2. CASE i = 1
    BY <1>6, <1>8, <2>1, <2>2
  <2>3. CASE i # 1
    <3>1. 1 < i
      BY <1>2, <2>3
    <3>. QED
      BY <1>4, <1>6, <1>8, <2>1, <3>1 DEF InOrder
  <2>. QED
    BY <2>2, <2>3
<1>16. ASSUME NEW i \in DOMAIN queue'
       PROVE  \/ i \in Nat /\ i < Len(queue) /\ i + 1 \in DOMAIN queue /\ queue'[i] = queue[i + 1]
              \/ /\ i \in Nat /\ i >= Len(queue)
                 /\ \E k \in Fresh : queue'[i].address = near[k].root /\ Len(queue'[i].offsets) = h + 1
  <2>1. CASE /\ i \in Nat /\ i >= Len(queue)
             /\ \E k \in DOMAIN fresh : queue'[i] = Pursued(near[fresh[k]]) /\ fresh[k] \in Fresh
    <3>1. PICK k \in Fresh : queue'[i] = Pursued(near[k])
      BY <2>1
    <3>2. k \in DOMAIN near /\ queue'[i].address = near[k].root /\ queue'[i].offsets = Path(near[k]).offsets
      BY <3>1 DEF Fresh, Pursued
    <3>. QED
      BY <1>11, <2>1, <3>2
  <2>. QED
    BY <1>1, <1>16, <2>1, QueueGrows
<1>17. ASSUME NEW i \in DOMAIN queue'
       PROVE  Len(queue'[i].offsets) \in Nat /\ h <= Len(queue'[i].offsets) /\ Len(queue'[i].offsets) <= h + 1
  <2>1. CASE i + 1 \in DOMAIN queue /\ queue'[i] = queue[i + 1]
    BY <1>15, <2>1
  <2>2. CASE Len(queue'[i].offsets) = h + 1
    BY <2>2
  <2>. QED
    BY <1>16, <1>17, <2>1, <2>2
<1>18. InOrder'
  <2>1. SUFFICES ASSUME NEW i \in DOMAIN queue', NEW j \in DOMAIN queue', i < j
                 PROVE  /\ Len(queue'[i].offsets) <= Len(queue'[j].offsets)
                        /\ Len(queue'[j].offsets) <= Len(queue'[i].offsets) + 1
    BY DEF InOrder
  <2>2. CASE Len(queue'[j].offsets) = h + 1
    BY <1>17, <2>2
  <2>3. CASE j \in Nat /\ j < Len(queue) /\ j + 1 \in DOMAIN queue /\ queue'[j] = queue[j + 1]
    <3>1. Len(queue) \in Nat
      BY <1>2
    <3>2. i \in Nat /\ i < Len(queue)
      BY <1>16, <2>1, <2>3, <3>1
    <3>3. i + 1 \in DOMAIN queue /\ queue'[i] = queue[i + 1]
      BY <1>16, <3>1, <3>2
    <3>4. i + 1 < j + 1
      BY <2>1, <2>3, <3>2
    <3>. QED
      BY <1>4, <2>3, <3>3, <3>4 DEF InOrder
  <2>. QED
    BY <1>16, <2>2, <2>3
<1>19. RootsVisited'
  <2>1. \A k \in DOMAIN near : near[k].root \in visited'
    BY <1>1, <1>10 DEF Expands
  <2>2. visited \subseteq visited'
    BY <1>1 DEF Expands
  <2>. QED
    BY <1>4, <1>12, <2>1, <2>2 DEF RootsVisited
<1>20. Shortest'
  <2>1. SUFFICES ASSUME NEW i \in DOMAIN queue'
                 PROVE  /\ queue'[i].address = search.target => Len(queue'[i].offsets) = 0
                        /\ \A j \in DOMAIN found' :
                             found'[j].root = queue'[i].address => Len(found'[j].offsets) >= Len(queue'[i].offsets)
                        /\ Reaches(found', search.target, queue'[i].address, Len(queue'[i].offsets))
    BY <1>2 DEF Shortest
  <2>2. CASE i + 1 \in DOMAIN queue /\ queue'[i] = queue[i + 1]
    <3>1. /\ queue'[i].address = search.target => Len(queue'[i].offsets) = 0
          /\ \A j \in DOMAIN found : found[j].root = queue'[i].address => Len(found[j].offsets) >= Len(queue'[i].offsets)
          /\ Reaches(found, search.target, queue'[i].address, Len(queue'[i].offsets))
      BY <1>4, <2>2 DEF Shortest
    <3>2. ASSUME NEW j \in DOMAIN found', found'[j].root = queue'[i].address
          PROVE  Len(found'[j].offsets) >= Len(queue'[i].offsets)
      <4>1. CASE j \in DOMAIN found /\ found'[j] = found[j]
        BY <3>1, <3>2, <4>1
      <4>2. CASE Len(found'[j].offsets) = h + 1
        BY <1>17, <4>2
      <4>. QED
        BY <1>12, <3>2, <4>1, <4>2
    <3>3. PICK n \in Nat : n = Len(queue'[i].offsets)
      BY <1>17
    <3>4. Reaches(found', search.target, queue'[i].address, n)
      BY <1>14, <3>1, <3>3
    <3>. QED
      BY <3>1, <3>2, <3>3, <3>4
  <2>3. CASE \E k \in Fresh : queue'[i].address = near[k].root /\ Len(queue'[i].offsets) = h + 1
    <3>1. PICK k \in DOMAIN near : /\ queue'[i].address = near[k].root /\ Len(queue'[i].offsets) = h + 1
                                   /\ near[k].root \notin visited
      BY <2>3 DEF Fresh
    <3>2. queue'[i].address # search.target
      BY <1>5, <3>1
    <3>3. ASSUME NEW j \in DOMAIN found', found'[j].root = queue'[i].address
          PROVE  Len(found'[j].offsets) >= Len(queue'[i].offsets)
      <4>1. CASE j \in DOMAIN found /\ found'[j] = found[j]
        BY <1>4, <3>1, <3>3, <4>1 DEF RootsVisited
      <4>2. CASE Len(found'[j].offsets) = h + 1
        BY <3>1, <4>2
      <4>. QED
        BY <1>12, <3>3, <4>1, <4>2
    <3>4. Reaches(found', search.target, queue'[i].address, Len(queue'[i].offsets))
      <4>1. PICK j \in DOMAIN found' : found'[j] = Path(near[k])
        BY <1>11
      <4>2. found'[j].root = queue'[i].address /\ Len(found'[j].offsets) = h + 1
        BY <1>11, <3>1, <4>1
      <4>3. Len(found'[j].offsets) <= Len(queue'[i].offsets)
        BY <3>1, <4>2
      <4>. QED
        BY <4>2, <4>3 DEF Reaches
    <3>. QED
      BY <3>2, <3>3, <3>4
  <2>. QED
    BY <1>16, <2>2, <2>3
<1>21. Popped' = Popped \cup {v}
  BY <1>7, PoppedExpand
<1>22. /\ Reaches(found, search.target, v, h) /\ (v = search.target => h = 0)
       /\ \A j \in DOMAIN found : found[j].root = v => Len(found[j].offsets) >= h
  BY <1>4, <1>6, <1>7, <1>8 DEF Shortest
<1>23. \A x \in Popped : Reaches(found, search.target, x, h)
  BY <1>4, <1>6, <1>8 DEF PoppedFirst
<1>24. PoppedFirst'
  <2>1. SUFFICES ASSUME NEW x \in Popped \cup {v}, NEW i \in DOMAIN queue'
                 PROVE  Reaches(found', search.target, x, Len(queue'[i].offsets))
    BY <1>2, <1>21 DEF PoppedFirst
  <2>2. Reaches(found, search.target, x, h)
    BY <1>22, <1>23
  <2>3. PICK n \in Nat : n = Len(queue'[i].offsets) /\ h <= n
    BY <1>17
  <2>4. Reaches(found', search.target, x, n)
    BY <1>14, <2>2, <2>3
  <2>. QED
    BY <2>3, <2>4
\* Whatever led to the head all along was found.
<1>25. ASSUME NEW a \in SureLinks(v), Spared(a) PROVE Reaches(found', search.target, a, h + 1)
  <2>1. PICK w \in AllWindows : a \in Places(w) /\ CanRead(w)
    BY <1>5, <1>25, Covered DEF SureLinks
  <2>2. Len(Roots) # Room /\ DOMAIN Roots = DOMAIN near
    <3>1. Len(Roots) = Len(near)
      BY <1>2, RootsOf DEF Roots, Links
    <3>. QED
      BY <1>2, <1>3, <1>5, <1>9, <3>1 DEF Room, Roots
  <2>3. a \in ToSet(Roots)
    BY <1>2, <1>4, <1>7, <1>25, <2>1, <2>2 DEF Complete
  <2>4. PICK k \in DOMAIN near : near[k].root = a
    BY <2>2, <2>3 DEF ToSet, Roots
  <2>5. PICK j \in DOMAIN found' : found'[j].root = a /\ Len(found'[j].offsets) = h + 1
    BY <1>11, <2>4
  <2>6. Len(found'[j].offsets) <= h + 1
    BY <2>5
  <2>. QED
    BY <2>5, <2>6 DEF Reaches
<1>26. PoppedWhole'
  <2>1. \A u : SureLinks(u)' \subseteq SureLinks(u)
    BY <1>2, SureLinksShrink
  <2>2. \A a : Spared(a)' = Spared(a)
    BY <1>2, Fixed
  <2>3. ASSUME NEW x \in Popped \cup {v}, NEW n \in 0 .. search.depth - 1, Reaches(found', search.target, x, n),
               NEW a \in SureLinks(x), Spared(a)
        PROVE  Reaches(found', search.target, a, n + 1)
    <3>1. n \in Nat /\ n + 1 \in Nat /\ h + 1 \in Nat /\ h \in 0 .. search.depth - 1
      BY <1>5, <1>6
    <3>2. CASE x = v
      <4>1. h <= n
        <5>1. CASE v = search.target
          BY <1>22, <3>1, <5>1
        <5>2. CASE v # search.target
          <6>1. PICK j \in DOMAIN found' : found'[j].root = v /\ Len(found'[j].offsets) <= n
            BY <2>3, <3>2, <5>2 DEF Reaches
          <6>2. CASE j \in DOMAIN found /\ found'[j] = found[j]
            BY <1>2, <1>22, <3>1, <6>1, <6>2, FoundLengths
          <6>3. CASE Len(found'[j].offsets) = h + 1
            BY <3>1, <6>1, <6>3
          <6>. QED
            BY <1>12, <6>2, <6>3
        <5>. QED
          BY <5>1, <5>2
      <4>2. Reaches(found', search.target, a, h + 1)
        BY <1>25, <2>3, <3>2
      <4>3. CASE a = search.target
        BY <4>3 DEF Reaches
      <4>4. CASE a # search.target
        <5>1. PICK j \in DOMAIN found' : found'[j].root = a /\ Len(found'[j].offsets) <= h + 1
          BY <4>2, <4>4 DEF Reaches
        <5>2. Len(found'[j].offsets) \in Nat
          BY <1>2, <1>11, <1>12, <3>1, FoundLengths
        <5>3. Len(found'[j].offsets) <= n + 1
          BY <3>1, <4>1, <5>1, <5>2
        <5>. QED
          BY <5>1, <5>3 DEF Reaches
      <4>. QED
        BY <4>3, <4>4
    <3>3. CASE x \in Popped
      <4>1. CASE Reaches(found, search.target, x, n)
        <5>1. Reaches(found, search.target, a, n + 1)
          BY <1>4, <2>3, <3>3, <4>1 DEF PoppedWhole
        <5>. QED
          BY <1>14, <3>1, <5>1
      <4>2. CASE ~Reaches(found, search.target, x, n)
        <5>1. PICK j \in DOMAIN found' : found'[j].root = x /\ Len(found'[j].offsets) <= n
          BY <2>3, <4>2 DEF Reaches
        <5>2. Len(found'[j].offsets) = h + 1
          BY <1>12, <4>2, <5>1 DEF Reaches
        <5>3. Reaches(found, search.target, a, h + 1)
          BY <1>4, <1>23, <2>3, <3>1, <3>3 DEF PoppedWhole
        <5>4. h + 1 <= n + 1
          BY <3>1, <5>1, <5>2
        <5>. QED
          BY <1>14, <3>1, <5>3, <5>4
      <4>. QED
        BY <4>1, <4>2
    <3>. QED
      BY <2>3, <3>2, <3>3
  <2>. QED
    BY <1>2, <1>21, <2>1, <2>2, <2>3 DEF PoppedWhole
<1>. QED
  BY <1>2, <1>18, <1>19, <1>20, <1>24, <1>26 DEF WholeInv

LEMMA WholeStays ==
  SearchShape /\ ChainShape /\ QueuedOnce /\ WholeInv /\ [SearchNext]_searchVars => WholeInv'
<1>1. SUFFICES ASSUME SearchShape, ChainShape, QueuedOnce, WholeInv, [SearchNext]_searchVars PROVE WholeInv'
  OBVIOUS
<1>2. CASE Begin
  BY <1>1, <1>2, WholeBegins
<1>3. CASE ReadWindow \/ ReturnHits
  <2>1. IsPattern /\ search' = search
    BY <1>3 DEF ReadWindow, ReturnHits, target
  <2>. QED
    BY <2>1 DEF WholeInv, Pursuing, IsPattern
<1>4. CASE Pursue
  BY <1>1, <1>4, WholePursues
<1>5. CASE ReadPredecessors
  BY <1>1, <1>5, WholeReads
<1>6. CASE Expand
  BY <1>1, <1>6, WholeExpands
<1>7. ASSUME NEW a \in DOMAIN memory, NEW b \in Bytes, memory[a] # b, Write(a, b) PROVE WholeInv'
  BY <1>1, <1>7, WrittenIs, WholeWritten
<1>8. CASE UNCHANGED searchVars
  BY <1>1, <1>8, WholeWritten DEF searchVars
<1>. QED
  BY <1>1, <1>2, <1>3, <1>4, <1>5, <1>6, <1>7, <1>8 DEF SearchNext, Searching

(***************************************************************************)
(* Following a path                                                        *)
(***************************************************************************)

\* What resolve_pointer_chain holds after each pointer.
Follows(f, root, offsets) ==
  f = [n \in 0 .. Len(offsets) |->
         IF n = 0 THEN root
         ELSE IF f[n - 1] = Nowhere \/ ~CanBeRead(f[n - 1]) THEN Nowhere
         ELSE Pointer(memory, f[n - 1]) + offsets[n]]

LEMMA ResolvedIs ==
  ASSUME NEW root, NEW offsets
  PROVE  ResolvePointerChain(root, offsets) = (CHOOSE f : Follows(f, root, offsets))[Len(offsets)]
BY DEF ResolvePointerChain, Follows, CanBeRead

\* A way whose every pointer, with its offset, is the next address of it.
StandsFor(way, n, root, offsets) ==
  /\ n \in Nat /\ Len(offsets) = n /\ way[1] = root
  /\ \A i \in 1 .. n : /\ way[i] \in Nat /\ CanBeRead(way[i])
                       /\ Pointer(memory, way[i]) + offsets[i] = way[i + 1]

\* The path is followed along its way, wherever the choice of the function falls.
LEMMA FollowsWay ==
  ASSUME NEW n, NEW root, NEW offsets, NEW way, StandsFor(way, n, root, offsets)
  PROVE  ResolvePointerChain(root, offsets) = way[n + 1]
<1>. USE DEF StandsFor
<1>1. PICK f : f = [k \in 0 .. n |-> way[k + 1]]
  OBVIOUS
<1>2. \A k \in 1 .. n : k - 1 \in 0 .. n /\ f[k - 1] = way[k] /\ f[k] = way[k + 1]
  <2>1. SUFFICES ASSUME NEW k \in 1 .. n PROVE k - 1 \in 0 .. n /\ f[k - 1] = way[k] /\ f[k] = way[k + 1]
    OBVIOUS
  <2>2. k - 1 \in 0 .. n /\ (k - 1) + 1 = k /\ k \in 0 .. n
    OBVIOUS
  <2>3. f[k - 1] = way[(k - 1) + 1]
    BY <1>1, <2>2
  <2>. QED
    BY <1>1, <2>2, <2>3
<1>3. Follows(f, root, offsets)
  <2>1. ASSUME NEW k \in 0 .. n
        PROVE  f[k] = IF k = 0 THEN root
                      ELSE IF f[k - 1] = Nowhere \/ ~CanBeRead(f[k - 1]) THEN Nowhere
                      ELSE Pointer(memory, f[k - 1]) + offsets[k]
    <3>1. CASE k = 0
      BY <1>1, <3>1
    <3>2. CASE k # 0
      <4>1. k \in 1 .. n
        BY <3>2
      <4>2. f[k - 1] = way[k] /\ f[k] = way[k + 1]
        BY <1>2, <4>1
      <4>3. way[k] # Nowhere /\ CanBeRead(way[k]) /\ Pointer(memory, way[k]) + offsets[k] = way[k + 1]
        BY <4>1 DEF Nowhere
      <4>. QED
        BY <3>2, <4>2, <4>3
    <3>. QED
      BY <3>1, <3>2
  <2>. QED
    BY <1>1, <2>1 DEF Follows
<1>4. PICK g : g = CHOOSE h : Follows(h, root, offsets)
  OBVIOUS
<1>5. Follows(g, root, offsets)
  BY <1>3, <1>4
<1>6. \A k \in 0 .. n : g[k] = IF k = 0 THEN root
                               ELSE IF g[k - 1] = Nowhere \/ ~CanBeRead(g[k - 1]) THEN Nowhere
                               ELSE Pointer(memory, g[k - 1]) + offsets[k]
  BY <1>5 DEF Follows
<1> DEFINE Good == {k \in Nat : k <= n => g[k] = way[k + 1]}
<1>7. 0 \in Good
  BY <1>6
<1>8. ASSUME NEW k \in Nat, k \in Good PROVE k + 1 \in Good
  <2>1. SUFFICES ASSUME k + 1 <= n PROVE g[k + 1] = way[(k + 1) + 1]
    BY <1>8
  <2>2. g[k] = way[k + 1]
    BY <1>8, <2>1
  <2>3. PICK j \in 1 .. n : j = k + 1 /\ j - 1 = k /\ j \in 0 .. n /\ j # 0
    BY <2>1
  <2>4. way[j] # Nowhere /\ CanBeRead(way[j]) /\ Pointer(memory, way[j]) + offsets[j] = way[j + 1]
    BY DEF Nowhere
  <2>5. g[j] = IF g[j - 1] = Nowhere \/ ~CanBeRead(g[j - 1]) THEN Nowhere
               ELSE Pointer(memory, g[j - 1]) + offsets[j]
    BY <1>6, <2>3
  <2>6. g[j - 1] = way[j]
    BY <2>2, <2>3
  <2>7. g[j] = way[j + 1]
    BY <2>4, <2>5, <2>6
  <2>. QED
    BY <2>3, <2>7
<1> HIDE DEF Good
<1>9. Nat \subseteq Good
  BY <1>7, <1>8, Counting
<1>10. g[n] = way[n + 1]
  BY <1>9 DEF Good
<1>. QED
  BY <1>4, <1>10, ResolvedIs

(***************************************************************************)
(* The pointer search is exact                                             *)
(***************************************************************************)

\* A way of legible places is one of candidates.
LEMMA LeadsIs ==
  ASSUME NEW path, WayTo(search.target, Legible, seen, path.root, path.offsets)
  PROVE  Leads(path)
<1>1. PICK n : n = Len(path.offsets)
  OBVIOUS
<1>2. PICK way \in [1 .. n + 1 -> Legible \cup {search.target}] :
        /\ way[1] = path.root /\ way[n + 1] = search.target
        /\ \A i \in 1 .. n :
             /\ way[i] \in Legible
             /\ \E m \in seen : Pointer(m, way[i]) + path.offsets[i] = way[i + 1]
  BY <1>1 DEF WayTo
<1>3. Legible \subseteq Candidates
  BY DEF Legible
<1>4. way \in [1 .. n + 1 -> Candidates \cup {search.target}]
  BY <1>3
<1>5. \A i \in 1 .. n : way[i] \in Candidates
  BY <1>2, <1>3
<1>. QED
  BY <1>1, <1>2, <1>4, <1>5 DEF Leads

LEMMA ResolvesIs ==
  ASSUME SearchShape, Pursuing, seen = {memory}, NEW path, Len(path.offsets) \in Nat,
         WayTo(search.target, Legible, seen, path.root, path.offsets)
  PROVE  ResolvePointerChain(path.root, path.offsets) = search.target
<1>1. PICK n, root, offsets :
        n \in Nat /\ n = Len(offsets) /\ root = path.root /\ offsets = path.offsets
  OBVIOUS
<1>2. PICK way \in [1 .. n + 1 -> Legible \cup {search.target}] :
        /\ way[1] = root /\ way[n + 1] = search.target
        /\ \A i \in 1 .. n :
             /\ way[i] \in Legible
             /\ \E m \in seen : Pointer(m, way[i]) + offsets[i] = way[i + 1]
  BY <1>1 DEF WayTo
<1>3. ASSUME NEW i \in 1 .. n
      PROVE  way[i] \in Nat /\ CanBeRead(way[i]) /\ Pointer(memory, way[i]) + offsets[i] = way[i + 1]
  <2>1. way[i] \in Candidates /\ CanBeRead(way[i])
    BY <1>2 DEF Legible
  <2>2. way[i] \in Nat
    BY <2>1, Asking, CandidateIs
  <2>3. \E m \in seen : Pointer(m, way[i]) + offsets[i] = way[i + 1]
    BY <1>2
  <2>. QED
    BY <2>1, <2>2, <2>3
<1>4. \A i \in 1 .. n : /\ way[i] \in Nat /\ CanBeRead(way[i])
                         /\ Pointer(memory, way[i]) + offsets[i] = way[i + 1]
  BY <1>3
<1>5. Len(offsets) = n /\ way[1] = root /\ way[n + 1] = search.target
  BY <1>1, <1>2
<1>6. ResolvePointerChain(root, offsets) = way[n + 1]
  <2>1. StandsFor(way, n, root, offsets)
    BY <1>4, <1>5 DEF StandsFor
  <2>. QED
    BY <2>1, FollowsWay
<1>. QED
  BY <1>1, <1>5, <1>6

LEMMA PathsResolve ==
  ASSUME SearchShape, ChainShape, WaysInv, FoundOnce, Pursuing
  PROVE  /\ Len(found) <= search.limit
         /\ \A i \in DOMAIN found :
              /\ Leads(found[i])
              /\ Len(found[i].offsets) \in 1 .. search.depth
              /\ ToSet(found[i].offsets) \subseteq 0 .. search.reach
         /\ seen = {memory} =>
              \A i \in DOMAIN found :
                /\ ResolvePointerChain(found[i].root, found[i].offsets) = search.target
                /\ \A j \in DOMAIN found : found[i] = found[j] => i = j
<1>1. /\ Len(found) <= search.limit /\ found \in Seq(Paths)
      /\ \A i \in DOMAIN found : Len(found[i].offsets) \in 1 .. search.depth
  BY DEF ChainShape
<1>2. ASSUME NEW i \in DOMAIN found
      PROVE  /\ Leads(found[i]) /\ ToSet(found[i].offsets) \subseteq 0 .. search.reach
             /\ seen = {memory} => ResolvePointerChain(found[i].root, found[i].offsets) = search.target
  <2>1. WayTo(search.target, Legible, seen, found[i].root, found[i].offsets)
    BY DEF WaysInv
  <2>2. found[i] \in Paths
    BY <1>1, Elements
  <2>3. PICK s \in Seq(0 .. search.reach) : s = found[i].offsets
    BY <2>2 DEF Paths, Offsets
  <2>4. ToSet(s) \subseteq 0 .. search.reach
    BY Elements DEF ToSet
  <2>5. Len(found[i].offsets) \in Nat
    BY <2>3
  <2>. QED
    BY <2>1, <2>3, <2>4, <2>5, LeadsIs, ResolvesIs
<1>3. seen = {memory} => \A i, j \in DOMAIN found : found[i] = found[j] => i = j
  BY DEF FoundOnce
<1>. QED
  BY <1>1, <1>2, <1>3

\* Back from the target, each address of a steady way has a path.
LEMMA NoneMissed ==
  ASSUME SearchShape, ChainShape, WholeInv, step = "done", ~IsPattern, Len(found) < search.limit,
         NEW n \in 1 .. search.depth, NEW way \in [1 .. n -> Candidates], LeadSteadily(way, n),
         way[1] # search.target
  PROVE  \E i \in DOMAIN found : found[i].root = way[1] /\ Len(found[i].offsets) <= n
<1>1. Pursuing
  BY DEF Pursuing
<1>2. PICK depth \in Nat \ {0} : depth = search.depth
  BY <1>1, Asking
<1>3. n \in Nat \ {0} /\ n <= depth
  BY <1>2
<1>4. queue = <<>> /\ search.target \in visited
  BY <1>1 DEF ChainShape
<1>5. Popped = visited
  BY <1>4 DEF Popped
<1>6. RootsVisited /\ PoppedWhole
  BY <1>1 DEF WholeInv
<1>7. ASSUME NEW v \in Popped, NEW k \in Nat, k < depth, Reaches(found, search.target, v, k),
             NEW a \in Candidates, Spared(a), \A m \in seen : LeadsTo(m, a, v)
      PROVE  Reaches(found, search.target, a, k + 1)
  <2>1. k \in 0 .. search.depth - 1
    BY <1>2, <1>7
  <2>2. a \in SureLinks(v)
    BY <1>7 DEF SureLinks
  <2>. QED
    BY <1>6, <1>7, <2>1, <2>2 DEF PoppedWhole
<1>8. ASSUME NEW v, NEW k, Reaches(found, search.target, v, k) PROVE v \in Popped
  BY <1>4, <1>5, <1>6, <1>8 DEF Reaches, RootsVisited
<1>9. ASSUME NEW i \in 1 .. n
      PROVE  /\ way[i] \in Candidates /\ Spared(way[i])
             /\ \A m \in seen : LeadsTo(m, way[i], IF i = n THEN search.target ELSE way[i + 1])
  BY DEF LeadSteadily, Steady
<1> DEFINE Good == {k \in Nat : k < n => Reaches(found, search.target, way[n - k], k + 1)}
<1>10. 0 \in Good
  <2>1. Reaches(found, search.target, search.target, 0)
    BY DEF Reaches
  <2>2. n \in 1 .. n /\ 0 \in Nat /\ 0 < depth /\ n - 0 = n
    BY <1>3
  <2>3. Reaches(found, search.target, way[n], 0 + 1)
    BY <1>7, <1>8, <1>9, <2>1, <2>2
  <2>. QED
    BY <2>2, <2>3
<1>11. ASSUME NEW k \in Nat, k \in Good PROVE k + 1 \in Good
  <2>1. SUFFICES ASSUME k + 1 < n PROVE Reaches(found, search.target, way[n - (k + 1)], (k + 1) + 1)
    BY <1>11
  <2>2. Reaches(found, search.target, way[n - k], k + 1)
    BY <1>3, <1>11, <2>1
  <2>3. PICK i \in 1 .. n : i = n - (k + 1) /\ i # n /\ i + 1 = n - k
    BY <1>3, <2>1
  <2>4. PICK v, a : v = way[i + 1] /\ a = way[i]
    OBVIOUS
  <2>5. Reaches(found, search.target, v, k + 1) /\ k + 1 \in Nat /\ k + 1 < depth
    BY <1>3, <2>1, <2>2, <2>3, <2>4
  <2>6. a \in Candidates /\ Spared(a) /\ \A m \in seen : LeadsTo(m, a, v)
    BY <1>9, <2>3, <2>4
  <2>7. Reaches(found, search.target, a, (k + 1) + 1)
    BY <1>7, <1>8, <2>5, <2>6
  <2>. QED
    BY <2>3, <2>4, <2>7
<1> HIDE DEF Good
<1>12. Nat \subseteq Good
  BY <1>10, <1>11, Counting
<1>13. n - 1 \in Nat /\ n - 1 < n /\ n - (n - 1) = 1 /\ (n - 1) + 1 = n
  BY <1>3
<1>14. Reaches(found, search.target, way[1], n)
  <2>1. n - 1 \in Good
    BY <1>12, <1>13
  <2>2. Reaches(found, search.target, way[n - (n - 1)], (n - 1) + 1)
    BY <1>13, <2>1 DEF Good
  <2>. QED
    BY <1>13, <2>2
<1>. QED
  BY <1>14 DEF Reaches

LEMMA ChainsAre ==
  ASSUME SearchShape, ChainShape, WaysInv, FoundOnce, WholeInv PROVE ChainsExact
<1>1. SUFFICES ASSUME step = "done", ~IsPattern PROVE ChainsExact
  BY DEF ChainsExact
<1>2. Pursuing
  BY <1>1 DEF Pursuing
<1>3. Len(found) < search.limit =>
         \A n \in 1 .. search.depth : \A way \in [1 .. n -> Candidates] :
           LeadSteadily(way, n) /\ way[1] # search.target =>
             \E i \in DOMAIN found : found[i].root = way[1] /\ Len(found[i].offsets) <= n
  BY <1>1, NoneMissed
<1>. QED
  BY <1>2, <1>3, PathsResolve DEF ChainsExact

LEMMA ChainStart ==
  SearchInit => ChainShape /\ WaysInv /\ QueuedOnce /\ FoundOnce /\ WholeInv
BY DEF SearchInit, ChainShape, WaysInv, QueuedOnce, FoundOnce, WholeInv, Pursuing

\* A pointer search reports paths that lead to the target within the bounds asked for; in
\* memory that stands still each resolves to it and none comes twice; unless the limit
\* ended it, no address is missed from which readable pointers led there all along, and
\* it has a shortest path (search_pointer_chains, resolve_pointer_chain).
THEOREM ChainsAreExact == SearchSpec => []ChainsExact
<1> DEFINE Inv == SearchShape /\ ChainShape /\ WaysInv /\ QueuedOnce /\ FoundOnce /\ WholeInv
<1>1. SearchInit => Inv
  BY SearchStart, ChainStart
<1>2. Inv /\ [SearchNext]_searchVars => Inv'
  BY ShapeStays, ChainStays, WaysStay, OnceStays, WholeStays
<1>3. Inv => ChainsExact
  BY ChainsAre
<1>. QED
  BY <1>1, <1>2, <1>3, PTL DEF SearchSpec

\* The pattern scan and the pointer search of analysis.rs and the comparisons of values of
\* predicate.rs are exact, each in what it promises.
THEOREM SearchExactAlways == SearchSpec /\ ValuesSpec => []SearchExact
<1>1. PatternExact /\ ChainsExact /\ ValuesExact => SearchExact
  BY DEF SearchExact
<1>. QED
  BY <1>1, PatternsAreExact, ChainsAreExact, ValuesAreExact, PTL

=============================================================================
