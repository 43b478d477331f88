----------------------------- MODULE ScansProofs -----------------------------
(***************************************************************************)
(* Theorems about scans, for any workers, addresses and bounds: that one    *)
(* scan of the engine is exact; that the dispatcher keeps its scans apart;   *)
(* and, from WatchInv on, what its watches and its writes keep to.           *)
(***************************************************************************)
EXTENDS Scans, Watches, ScanPlan, ScanEngine, FiniteSetTheorems, NaturalsInduction, WellFoundedInduction, TLAPS

(***************************************************************************)
(* The plans                                                               *)
(***************************************************************************)

\* Induction over the naturals, for a set of them.
LEMMA Counting ==
  ASSUME NEW S, 0 \in S, \A n \in Nat : n \in S => n + 1 \in S
  PROVE  Nat \subseteq S
<1>1. SUFFICES ASSUME Nat \ S # {} PROVE FALSE
  OBVIOUS
<1>2. PICK m \in Nat \ S : \A n \in Nat \ S : <<n, m>> \notin OpToRel(<, Nat)
  BY <1>1, WFMin, NatLessThanWellFounded, Zenon
<1>3. m \in Nat \ S /\ \A n \in Nat \ S : ~(n < m)
  <2>1. ASSUME NEW n \in Nat \ S, n < m PROVE FALSE
    BY <1>2, <2>1, Zenon DEF OpToRel
  <2>. QED
    BY <1>2, <2>1
<1>4. m # 0 /\ m \in Nat
  BY <1>3
<1>5. m - 1 \in Nat /\ m - 1 < m /\ (m - 1) + 1 = m
  BY <1>4
<1>6. m - 1 \in S
  BY <1>3, <1>5
<1>. QED
  BY <1>3, <1>5, <1>6

\* The places of a sequence of sequences, and that s has what the first m of them
\* have, each at one place.
Niches(seqs) == UNION {{r} \X DOMAIN seqs[r] : r \in DOMAIN seqs}

Lays(s, seqs, m) ==
  \E place \in [DOMAIN s -> Niches(seqs)] :
    /\ \A n \in DOMAIN s : place[n][1] <= m /\ s[n] = seqs[place[n][1]][place[n][2]]
    /\ \A n, k \in DOMAIN s : place[n] = place[k] => n = k
    /\ \A p \in Niches(seqs) : p[1] <= m => \E n \in DOMAIN s : place[n] = p

LEMMA CellIs ==
  ASSUME NEW seqs, NEW p
  PROVE  p \in Niches(seqs) <=> \E r \in DOMAIN seqs : \E k \in DOMAIN seqs[r] : p = <<r, k>>
BY DEF Niches

LEMMA LaysFirst ==
  ASSUME NEW T, NEW seqs \in Seq(Seq(T)), Len(seqs) # 0
  PROVE  Lays(seqs[1], seqs, 1)
<1>1. 1 \in DOMAIN seqs /\ seqs[1] \in Seq(T)
  OBVIOUS
<1> DEFINE place == [n \in DOMAIN seqs[1] |-> <<1, n>>]
<1>2. \A n \in DOMAIN seqs[1] : place[n] \in Niches(seqs)
  BY <1>1, CellIs
<1>3. \A p \in Niches(seqs) : p[1] <= 1 => \E n \in DOMAIN seqs[1] : place[n] = p
  <2>1. SUFFICES ASSUME NEW p \in Niches(seqs), p[1] <= 1 PROVE \E n \in DOMAIN seqs[1] : place[n] = p
    OBVIOUS
  <2>2. PICK r \in DOMAIN seqs : \E k \in DOMAIN seqs[r] : p = <<r, k>>
    BY CellIs
  <2>3. PICK k \in DOMAIN seqs[r] : p = <<r, k>>
    BY <2>2
  <2>4. r = 1
    BY <2>1, <2>3
  <2>. QED
    BY <2>3, <2>4
<1>4. place \in [DOMAIN seqs[1] -> Niches(seqs)]
  BY <1>2
<1>5. \A n \in DOMAIN seqs[1] : place[n][1] <= 1 /\ seqs[1][n] = seqs[place[n][1]][place[n][2]]
  OBVIOUS
<1>6. \A n, k \in DOMAIN seqs[1] : place[n] = place[k] => n = k
  OBVIOUS
<1>. HIDE DEF place
<1>. QED
  BY <1>3, <1>4, <1>5, <1>6 DEF Lays

LEMMA LaysNext ==
  ASSUME NEW T, NEW seqs \in Seq(Seq(T)), NEW m \in Nat, m + 1 \in DOMAIN seqs,
         NEW s \in Seq(T), Lays(s, seqs, m)
  PROVE  Lays(s \o seqs[m + 1], seqs, m + 1)
<1>. DEFINE more == seqs[m + 1]
            all == s \o more
<1>1. more \in Seq(T) /\ all \in Seq(T) /\ Len(all) = Len(s) + Len(more)
  OBVIOUS
<1>2. PICK place \in [DOMAIN s -> Niches(seqs)] :
        /\ \A n \in DOMAIN s : place[n][1] <= m /\ s[n] = seqs[place[n][1]][place[n][2]]
        /\ \A n, k \in DOMAIN s : place[n] = place[k] => n = k
        /\ \A p \in Niches(seqs) : p[1] <= m => \E n \in DOMAIN s : place[n] = p
  BY DEF Lays
<1>. DEFINE wider == [n \in DOMAIN all |-> IF n <= Len(s) THEN place[n] ELSE <<m + 1, n - Len(s)>>]
<1>3. ASSUME NEW n \in DOMAIN all
      PROVE  \/ n \in DOMAIN s /\ n <= Len(s) /\ wider[n] = place[n] /\ all[n] = s[n]
             \/ /\ n > Len(s) /\ n - Len(s) \in DOMAIN more /\ wider[n] = <<m + 1, n - Len(s)>>
                /\ all[n] = more[n - Len(s)]
  <2>1. DOMAIN all = 1 .. Len(s) + Len(more) /\ Len(s) \in Nat /\ Len(more) \in Nat
    BY <1>1
  <2>2. CASE n <= Len(s)
    <3>1. n \in DOMAIN s
      BY <2>1, <2>2
    <3>. QED
      BY <1>3, <2>2, <3>1
  <2>3. CASE ~(n <= Len(s))
    <3>1. n > Len(s) /\ n - Len(s) \in 1 .. Len(more)
      BY <2>1, <2>3
    <3>2. n - Len(s) \in DOMAIN more /\ wider[n] = <<m + 1, n - Len(s)>>
      BY <1>1, <2>3, <3>1
    <3>3. all[n] = more[n - Len(s)]
      BY <1>1, <2>3, <3>1
    <3>. QED
      BY <3>1, <3>2, <3>3
  <2>. QED
    BY <2>2, <2>3
<1>4. DOMAIN s \subseteq DOMAIN all /\ \A n \in DOMAIN s : n <= Len(s)
  BY <1>1
<1>5. ASSUME NEW k \in DOMAIN more
      PROVE  Len(s) + k \in DOMAIN all /\ Len(s) + k > Len(s) /\ (Len(s) + k) - Len(s) = k
  <2>1. DOMAIN all = 1 .. Len(s) + Len(more) /\ k \in 1 .. Len(more) /\ Len(s) \in Nat /\ Len(more) \in Nat
    BY <1>1
  <2>. QED
    BY <2>1
<1>6. \A n \in DOMAIN all : n \in Nat
  BY <1>1
<1>. HIDE DEF wider, all
<1>7. wider \in [DOMAIN all -> Niches(seqs)]
  <2>1. ASSUME NEW n \in DOMAIN all PROVE wider[n] \in Niches(seqs)
    <3>1. CASE n \in DOMAIN s /\ wider[n] = place[n]
      BY <3>1
    <3>2. CASE n - Len(s) \in DOMAIN more /\ wider[n] = <<m + 1, n - Len(s)>>
      BY <3>2, CellIs
    <3>. QED
      BY <1>3, <2>1, <3>1, <3>2
  <2>. QED
    BY <2>1 DEF wider
<1>8. ASSUME NEW n \in DOMAIN all PROVE wider[n][1] <= m + 1 /\ all[n] = seqs[wider[n][1]][wider[n][2]]
  <2>1. CASE n \in DOMAIN s /\ wider[n] = place[n] /\ all[n] = s[n]
    <3>1. place[n][1] <= m /\ all[n] = seqs[place[n][1]][place[n][2]] /\ place[n] \in Niches(seqs)
      BY <1>2, <2>1
    <3>2. place[n][1] \in Nat
      <4>1. PICK r \in DOMAIN seqs : \E k \in DOMAIN seqs[r] : place[n] = <<r, k>>
        BY <3>1, CellIs
      <4>. QED
        BY <4>1
    <3>3. place[n][1] <= m + 1
      BY <3>1, <3>2
    <3>. QED
      BY <2>1, <3>1, <3>3
  <2>2. CASE wider[n] = <<m + 1, n - Len(s)>> /\ all[n] = more[n - Len(s)]
    BY <2>2
  <2>. QED
    BY <1>3, <1>8, <2>1, <2>2
<1>9. ASSUME NEW n \in DOMAIN all, NEW k \in DOMAIN all, wider[n] = wider[k] PROVE n = k
  <2>1. \A j \in DOMAIN s : place[j][1] # m + 1
    <3>1. ASSUME NEW j \in DOMAIN s PROVE place[j][1] \in Nat /\ place[j][1] <= m
      <4>1. PICK r \in DOMAIN seqs : \E l \in DOMAIN seqs[r] : place[j] = <<r, l>>
        BY CellIs
      <4>. QED
        BY <1>2, <4>1
    <3>. QED
      BY <3>1
  <2>2. CASE n \in DOMAIN s /\ wider[n] = place[n] /\ k \in DOMAIN s /\ wider[k] = place[k]
    BY <1>2, <1>9, <2>2
  <2>3. CASE n \in DOMAIN s /\ wider[n] = place[n] /\ wider[k] = <<m + 1, k - Len(s)>>
    <3>1. place[n] = <<m + 1, k - Len(s)>>
      BY <1>9, <2>3
    <3>2. place[n][1] = m + 1
      BY <3>1
    <3>. QED
      BY <2>1, <2>3, <3>2
  <2>4. CASE k \in DOMAIN s /\ wider[k] = place[k] /\ wider[n] = <<m + 1, n - Len(s)>>
    <3>1. place[k][1] = m + 1
      BY <1>9, <2>4
    <3>. QED
      BY <2>1, <2>4, <3>1
  <2>5. CASE wider[k] = <<m + 1, k - Len(s)>> /\ wider[n] = <<m + 1, n - Len(s)>>
    <3>1. <<m + 1, k - Len(s)>> = <<m + 1, n - Len(s)>>
      BY <1>9, <2>5
    <3>2. k - Len(s) = n - Len(s) /\ k \in Nat /\ n \in Nat /\ Len(s) \in Nat
      BY <1>6, <1>9, <3>1
    <3>. QED
      BY <3>2
  <2>. QED
    BY <1>3, <1>9, <2>2, <2>3, <2>4, <2>5
<1>10. ASSUME NEW p \in Niches(seqs), p[1] <= m + 1 PROVE \E n \in DOMAIN all : wider[n] = p
  <2>1. PICK r \in DOMAIN seqs : \E k \in DOMAIN seqs[r] : p = <<r, k>>
    BY CellIs
  <2>2. PICK k \in DOMAIN seqs[r] : p = <<r, k>>
    BY <2>1
  <2>3. CASE p[1] <= m
    <3>1. PICK n \in DOMAIN s : place[n] = p
      BY <1>2, <1>10, <2>3
    <3>. QED
      BY <1>4, <3>1 DEF wider
  <2>4. CASE ~(p[1] <= m)
    <3>1. r = m + 1
      BY <1>10, <2>2, <2>4
    <3>2. k \in DOMAIN more /\ p = <<m + 1, k>>
      BY <2>2, <3>1
    <3>3. Len(s) + k \in DOMAIN all /\ ~(Len(s) + k <= Len(s)) /\ (Len(s) + k) - Len(s) = k
      <4>1. Len(s) \in Nat /\ k \in Nat
        BY <3>2
      <4>. QED
        BY <1>5, <3>2, <4>1
    <3>4. wider[Len(s) + k] = <<m + 1, k>>
      BY <3>3 DEF wider
    <3>. QED
      BY <3>2, <3>3, <3>4
  <2>. QED
    BY <2>3, <2>4
<1>. QED
  BY <1>7, <1>8, <1>9, <1>10 DEF Lays, all

LEMMA FlattenLays ==
  ASSUME NEW T, NEW seqs \in Seq(Seq(T))
  PROVE  FlattenSeq(seqs) \in Seq(T) /\ Lays(FlattenSeq(seqs), seqs, Len(seqs))
<1>1. CASE Len(seqs) = 0
  <2>1. FlattenSeq(seqs) = seqs /\ seqs = <<>>
    BY <1>1 DEF FlattenSeq
  <2>2. seqs \in Seq(T) /\ DOMAIN seqs = {} /\ Niches(seqs) = {}
    BY <2>1 DEF Niches
  <2>3. seqs \in [DOMAIN seqs -> Niches(seqs)]
    BY <2>1, <2>2
  <2>. QED
    BY <2>1, <2>2, <2>3 DEF Lays
<1>2. CASE Len(seqs) # 0
  <2>. DEFINE Turn(f, i) == IF i = 1 THEN seqs[i] ELSE f[i - 1] \o seqs[i]
              Known == {m \in Nat : \E f : f = [i \in 1 .. m |-> Turn(f, i)]}
  <2>1. 0 \in Known
    <3>1. \A f : [i \in 1 .. 0 |-> Turn(f, i)] = <<>>
      OBVIOUS
    <3>. QED
      BY <3>1
  <2>2. ASSUME NEW m \in Nat, m \in Known PROVE m + 1 \in Known
    <3>1. PICK f : f = [i \in 1 .. m |-> Turn(f, i)]
      BY <2>2
    <3>. DEFINE g == [i \in 1 .. m + 1 |-> IF i <= m THEN f[i] ELSE Turn(f, i)]
    <3>2. ASSUME NEW i \in 1 .. m + 1 PROVE g[i] = Turn(g, i)
      <4>1. i # 1 => i - 1 \in 1 .. m /\ i - 1 \in 1 .. m + 1 /\ i - 1 <= m
        OBVIOUS
      <4>2. i # 1 => g[i - 1] = f[i - 1]
        BY <4>1
      <4>3. Turn(g, i) = Turn(f, i)
        BY <4>2
      <4>4. i <= m => i \in 1 .. m
        OBVIOUS
      <4>5. g[i] = Turn(f, i)
        BY <3>1, <4>4
      <4>. QED
        BY <4>3, <4>5
    <3>3. g = [i \in 1 .. m + 1 |-> Turn(g, i)]
      <4>. DEFINE h == [i \in 1 .. m + 1 |-> Turn(g, i)]
      <4>1. \A i \in 1 .. m + 1 : g[i] = h[i]
        BY <3>2
      <4>. QED
        BY <4>1
    <3>. HIDE DEF g
    <3>4. \E e : e = [i \in 1 .. m + 1 |-> Turn(e, i)]
      BY <3>3, Zenon
    <3>5. m + 1 \in Nat
      OBVIOUS
    <3>. QED
      BY <3>4, <3>5, Zenon
  <2>3. Nat \subseteq Known
    <3>. HIDE DEF Known
    <3>. QED
      BY <2>1, <2>2, Counting
  <2>4. \E f : f = [i \in 1 .. Len(seqs) |-> Turn(f, i)]
    <3>1. Len(seqs) \in Nat
      OBVIOUS
    <3>. QED
      BY <2>3, <3>1, Zenon
  <2>. DEFINE flat == CHOOSE f : f = [i \in 1 .. Len(seqs) |-> Turn(f, i)]
  <2>5. flat = [i \in 1 .. Len(seqs) |-> Turn(flat, i)]
    BY <2>4
  <2>6. FlattenSeq(seqs) = flat[Len(seqs)]
    BY <1>2 DEF FlattenSeq
  <2>. HIDE DEF flat, Known
  <2>. DEFINE Laid == {m \in Nat : m + 1 <= Len(seqs) => flat[m + 1] \in Seq(T) /\ Lays(flat[m + 1], seqs, m + 1)}
  <2>7. 0 \in Laid
    <3>1. flat[1] = seqs[1] /\ seqs[1] \in Seq(T)
      BY <1>2, <2>5
    <3>. QED
      BY <1>2, <3>1, LaysFirst
  <2>8. ASSUME NEW m \in Nat, m \in Laid PROVE m + 1 \in Laid
    <3>1. SUFFICES ASSUME (m + 1) + 1 <= Len(seqs)
                   PROVE  flat[(m + 1) + 1] \in Seq(T) /\ Lays(flat[(m + 1) + 1], seqs, (m + 1) + 1)
      OBVIOUS
    <3>2. /\ m + 1 <= Len(seqs) /\ (m + 1) + 1 \in DOMAIN seqs /\ (m + 1) + 1 # 1 /\ ((m + 1) + 1) - 1 = m + 1
          /\ m + 1 \in Nat
      BY <3>1
    <3>3. flat[m + 1] \in Seq(T) /\ Lays(flat[m + 1], seqs, m + 1)
      BY <2>8, <3>2
    <3>4. flat[(m + 1) + 1] = flat[m + 1] \o seqs[(m + 1) + 1]
      <4>1. \A i \in 1 .. Len(seqs) : flat[i] = Turn(flat, i)
        BY <2>5
      <4>2. PICK i \in 1 .. Len(seqs) : i = (m + 1) + 1
        BY <3>2
      <4>3. flat[i] = IF i = 1 THEN seqs[i] ELSE flat[i - 1] \o seqs[i]
        BY <4>1
      <4>4. i # 1 /\ i - 1 = m + 1
        BY <3>2, <4>2
      <4>. QED
        BY <4>2, <4>3, <4>4
    <3>5. flat[m + 1] \o seqs[(m + 1) + 1] \in Seq(T)
      BY <3>2, <3>3
    <3>. QED
      BY <3>2, <3>3, <3>4, <3>5, LaysNext
  <2>9. Nat \subseteq Laid
    <3>. HIDE DEF Laid
    <3>. QED
      BY <2>7, <2>8, Counting
  <2>10. PICK m \in Nat : Len(seqs) = m + 1
    <3>1. Len(seqs) - 1 \in Nat /\ Len(seqs) = (Len(seqs) - 1) + 1
      BY <1>2
    <3>. QED
      BY <3>1
  <2>. QED
    BY <2>6, <2>9, <2>10
<1>. QED
  BY <1>1, <1>2

-----------------------------------------------------------------------------

IsLayout(o) == {o.chunk, o.align, o.width} \subseteq Nat \ {0}

LEMMA IntervalIs ==
  ASSUME NEW T, NEW n \in Nat, T \subseteq 0 .. n, \A x \in T : 0 .. x \subseteq T
  PROVE  Cardinality(T) \in Nat /\ T = 0 .. Cardinality(T) - 1
<1>1. IsFiniteSet(0 .. n)
  BY FS_Interval
<1>2. IsFiniteSet(T) /\ Cardinality(T) \in Nat
  BY <1>1, FS_Subset, FS_CardinalityType
<1>3. PICK c \in Nat : c = Cardinality(T)
  BY <1>2
<1>4. ASSUME NEW x \in T PROVE x \in 0 .. c - 1
  <2>1. 0 .. x \subseteq T /\ x \in Nat
    BY <1>4
  <2>2. Cardinality(0 .. x) = x + 1 /\ Cardinality(0 .. x) <= Cardinality(T)
    <3>1. Cardinality(0 .. x) = IF 0 > x THEN 0 ELSE x - 0 + 1
      BY <2>1, FS_Interval
    <3>2. Cardinality(0 .. x) <= Cardinality(T)
      BY <1>2, <2>1, FS_Subset
    <3>. QED
      BY <2>1, <3>1, <3>2
  <2>3. x + 1 <= c
    BY <1>3, <2>2
  <2>. QED
    BY <2>1, <2>3
<1>5. IsFiniteSet(0 .. c - 1) /\ Cardinality(0 .. c - 1) = c
  <2>1. c - 1 \in Int /\ 0 \in Int
    OBVIOUS
  <2>2. IsFiniteSet(0 .. c - 1) /\ Cardinality(0 .. c - 1) = IF 0 > c - 1 THEN 0 ELSE (c - 1) - 0 + 1
    BY <2>1, FS_Interval
  <2>. QED
    BY <2>2
<1>6. T \in SUBSET (0 .. c - 1)
  BY <1>4
<1>7. 0 .. c - 1 = T
  BY <1>3, <1>5, <1>6, FS_Subset
<1>. QED
  BY <1>2, <1>3, <1>7

LEMMA TimesGrows ==
  ASSUME NEW a \in Nat, NEW j \in Int, NEW k \in Int, j <= k
  PROVE  j * a <= k * a
OBVIOUS

LEMMA SpanIs ==
  ASSUME NEW o, IsLayout(o)
  PROVE  \E m \in Nat \ {0} : ScanSpan(o) = m * o.align
<1>1. o.chunk \div o.align \in Int
  BY DEF IsLayout
<1>2. Larger(o.chunk \div o.align, 1) \in Nat \ {0}
  BY <1>1 DEF Larger
<1>. QED
  BY <1>2 DEF ScanSpan

LEMMA CountIs ==
  ASSUME NEW o, IsLayout(o), NEW size \in Nat
  PROVE  /\ ChunkCount(o, size) \in Nat
         /\ \A i \in Nat : i \in 0 .. ChunkCount(o, size) - 1 <=> i * ScanSpan(o) + o.width <= size
<1>1. PICK s \in Nat \ {0}, w \in Nat \ {0} : s = ScanSpan(o) /\ w = o.width
  <2>1. PICK m \in Nat \ {0} : ScanSpan(o) = m * o.align
    BY SpanIs
  <2>2. PICK a \in Nat \ {0} : a = o.align
    BY DEF IsLayout
  <2>3. m * a \in Nat \ {0}
    OBVIOUS
  <2>. QED
    BY <2>1, <2>2, <2>3 DEF IsLayout
<1>. DEFINE T == {i \in 0 .. size : i * s + w <= size}
<1>2. \A x \in T : 0 .. x \subseteq T
  <2>1. SUFFICES ASSUME NEW x \in T, NEW y \in 0 .. x PROVE y \in T
    OBVIOUS
  <2>2. y * s <= x * s
    BY <2>1
  <2>. QED
    BY <2>2
<1>3. Cardinality(T) \in Nat /\ T = 0 .. Cardinality(T) - 1
  <2>1. T \subseteq 0 .. size
    OBVIOUS
  <2>. HIDE DEF T
  <2>. QED
    BY <1>2, <2>1, IntervalIs
<1>4. ChunkCount(o, size) = Cardinality(T)
  BY <1>1 DEF ChunkCount
<1>5. ASSUME NEW i \in Nat PROVE i \in T <=> i * s + w <= size
  <2>1. i <= i * s
    OBVIOUS
  <2>2. i * s \in Nat
    OBVIOUS
  <2>. QED
    BY <2>1, <2>2
<1>. HIDE DEF T
<1>. QED
  BY <1>1, <1>3, <1>4, <1>5

\* What a chunk that begins i spans into its region reads and looks at.
LEMMA ChunkIs ==
  ASSUME NEW o, IsLayout(o), NEW size \in Nat, NEW i \in Nat, i * ScanSpan(o) + o.width <= size
  PROVE  /\ ReadLength(o, size, i) \in Nat
         /\ ReadLength(o, size, i) <= ScanSpan(o) + o.width
         /\ i * ScanSpan(o) + ReadLength(o, size, i) <= size
         /\ Cardinality(Offsets(o, size, i)) \in Nat
         /\ \A k \in Nat : k \in 0 .. Cardinality(Offsets(o, size, i)) - 1
              <=> k * o.align < ScanSpan(o) /\ i * ScanSpan(o) + k * o.align + o.width <= size
         /\ \A k \in 0 .. Cardinality(Offsets(o, size, i)) - 1 : k * o.align + o.width <= ReadLength(o, size, i)
<1>1. PICK s \in Nat \ {0}, w \in Nat \ {0}, a \in Nat \ {0} : s = ScanSpan(o) /\ w = o.width /\ a = o.align
  <2>1. PICK m \in Nat \ {0} : ScanSpan(o) = m * o.align
    BY SpanIs
  <2>2. PICK a \in Nat \ {0} : a = o.align
    BY DEF IsLayout
  <2>3. m * a \in Nat \ {0}
    OBVIOUS
  <2>. QED
    BY <2>1, <2>2, <2>3 DEF IsLayout
<1>2. PICK b \in Nat : b = i * s
  OBVIOUS
<1>3. PICK l \in Nat : l = LogicalSpan(o, size, i) /\ l = IF s < size - b THEN s ELSE size - b
  <2>1. b + w <= size
    BY <1>1, <1>2
  <2>2. (IF s < size - b THEN s ELSE size - b) \in Nat
    BY <2>1
  <2>. QED
    BY <1>1, <1>2, <2>2 DEF LogicalSpan, Smaller
<1>4. b + w <= size
  BY <1>1, <1>2
<1>5. PICK r \in Nat : r = ReadLength(o, size, i) /\ r = IF size - b < l + w - 1 THEN size - b ELSE l + w - 1
  <2>1. (IF size - b < l + w - 1 THEN size - b ELSE l + w - 1) \in Nat
    BY <1>4
  <2>. QED
    BY <1>1, <1>2, <1>3, <2>1 DEF ReadLength, Smaller
<1>6. r <= s + w /\ b + r <= size
  BY <1>3, <1>4, <1>5
<1>. DEFINE T == {k \in 0 .. size : k * a < l /\ k * a + w <= r}
<1>7. Offsets(o, size, i) = T
  BY <1>1, <1>3, <1>5 DEF Offsets
<1>8. \A x \in T : 0 .. x \subseteq T
  <2>1. SUFFICES ASSUME NEW x \in T, NEW y \in 0 .. x PROVE y \in T
    OBVIOUS
  <2>2. y * a <= x * a /\ y * a \in Nat /\ x * a \in Nat
    BY <2>1
  <2>. QED
    BY <2>2
<1>9. Cardinality(T) \in Nat /\ T = 0 .. Cardinality(T) - 1
  <2>1. T \subseteq 0 .. size
    OBVIOUS
  <2>. HIDE DEF T
  <2>. QED
    BY <1>8, <2>1, IntervalIs
<1>10. ASSUME NEW k \in Nat PROVE k \in T <=> k * a < s /\ b + k * a + w <= size
  <2>1. PICK q \in Nat : q = k * a
    OBVIOUS
  <2>2. k <= q
    BY <2>1
  <2>3. (q < l /\ q + w <= r) <=> (q < s /\ b + q + w <= size)
    BY <1>3, <1>4, <1>5
  <2>4. b + q + w <= size => k \in 0 .. size
    BY <2>2
  <2>. QED
    BY <2>1, <2>3, <2>4
<1>11. \A k \in T : k * a + w <= r
  OBVIOUS
<1>. HIDE DEF T
<1>12. \A k \in Nat : k \in 0 .. Cardinality(T) - 1 <=> k * a < s /\ b + k * a + w <= size
  BY <1>9, <1>10
<1>13. \A k \in 0 .. Cardinality(T) - 1 : k * a + w <= r
  BY <1>9, <1>11
<1>. QED
  BY <1>1, <1>2, <1>5, <1>6, <1>7, <1>9, <1>12, <1>13

\* The places of one region's chunks.
Spots(o, region) == UNION {{i} \X DOMAIN Chunks(o, region)[i].at : i \in DOMAIN Chunks(o, region)}

LEMMA SpotIs ==
  ASSUME NEW o, IsLayout(o), NEW low \in Int, NEW size \in Nat, NEW region,
         region.base = low, region.size = size
  PROVE  /\ Chunks(o, region) \in Seq([at : Seq(Int), bytes : SUBSET Int])
         /\ DOMAIN Chunks(o, region) = 1 .. ChunkCount(o, size)
         /\ \A i \in DOMAIN Chunks(o, region) :
              /\ i - 1 \in Nat /\ (i - 1) * ScanSpan(o) + o.width <= size
              /\ Chunks(o, region)[i].bytes = low + (i - 1) * ScanSpan(o) ..
                     low + (i - 1) * ScanSpan(o) + ReadLength(o, size, i - 1) - 1
              /\ DOMAIN Chunks(o, region)[i].at = 1 .. Cardinality(Offsets(o, size, i - 1))
              /\ \A k \in DOMAIN Chunks(o, region)[i].at :
                   Chunks(o, region)[i].at[k] = low + (i - 1) * ScanSpan(o) + (k - 1) * o.align
<1>. DEFINE cs == Chunks(o, region)
            chunk(i) == [at    |-> [k \in 1 .. Cardinality(Offsets(o, size, i)) |->
                                     low + i * ScanSpan(o) + (k - 1) * o.align],
                         bytes |-> low + i * ScanSpan(o) ..
                                     low + i * ScanSpan(o) + ReadLength(o, size, i) - 1]
<1>1. \A i : Chunk(o, region, i) = chunk(i)
  BY DEF Chunk
<1>2. cs = [i \in 1 .. ChunkCount(o, size) |-> chunk(i - 1)]
  BY <1>1 DEF Chunks
<1>3. PICK n \in Nat : n = ChunkCount(o, size) /\ \A i \in Nat : i \in 0 .. n - 1 <=> i * ScanSpan(o) + o.width <= size
  BY CountIs
<1>4. ASSUME NEW i \in 1 .. n PROVE i - 1 \in Nat /\ (i - 1) * ScanSpan(o) + o.width <= size
  <2>1. i - 1 \in Nat /\ i - 1 \in 0 .. n - 1
    OBVIOUS
  <2>. QED
    BY <1>3, <2>1
<1>5. ScanSpan(o) \in Nat /\ o.align \in Nat
  <2>1. PICK m \in Nat \ {0} : ScanSpan(o) = m * o.align
    BY SpanIs
  <2>. QED
    BY <2>1 DEF IsLayout
<1>6. ASSUME NEW i \in 1 .. n PROVE chunk(i - 1) \in [at : Seq(Int), bytes : SUBSET Int]
  <2>1. PICK j \in Nat : j = i - 1 /\ j * ScanSpan(o) + o.width <= size
    BY <1>4
  <2>2. PICK b \in Int : b = low + j * ScanSpan(o)
    BY <1>5
  <2>3. PICK c \in Nat, r \in Nat : c = Cardinality(Offsets(o, size, j)) /\ r = ReadLength(o, size, j)
    BY <2>1, ChunkIs
  <2>4. PICK a \in Nat : a = o.align
    BY <1>5
  <2>5. [k \in 1 .. c |-> b + (k - 1) * a] \in Seq(Int)
    OBVIOUS
  <2>6. b .. b + r - 1 \in SUBSET Int
    OBVIOUS
  <2>. QED
    BY <2>1, <2>2, <2>3, <2>4, <2>5, <2>6
<1>7. cs \in Seq([at : Seq(Int), bytes : SUBSET Int])
  <2>1. PICK C : C = [at : Seq(Int), bytes : SUBSET Int]
    OBVIOUS
  <2>2. cs = [i \in 1 .. n |-> chunk(i - 1)]
    BY <1>2, <1>3
  <2>. HIDE DEF chunk, cs
  <2>3. \A i \in 1 .. n : chunk(i - 1) \in C
    BY <1>6, <2>1
  <2>4. cs \in Seq(C)
    BY <2>2, <2>3
  <2>. QED
    BY <2>1, <2>4
<1>8. DOMAIN cs = 1 .. n
  BY <1>2, <1>3
<1>9. \A i \in 1 .. n : cs[i] = chunk(i - 1)
  BY <1>2, <1>3
<1>10. ASSUME NEW i \in 1 .. n
       PROVE  /\ cs[i].bytes = low + (i - 1) * ScanSpan(o) ..
                     low + (i - 1) * ScanSpan(o) + ReadLength(o, size, i - 1) - 1
              /\ DOMAIN cs[i].at = 1 .. Cardinality(Offsets(o, size, i - 1))
              /\ \A k \in DOMAIN cs[i].at : cs[i].at[k] = low + (i - 1) * ScanSpan(o) + (k - 1) * o.align
  <2>1. cs[i] = chunk(i - 1)
    BY <1>9
  <2>2. cs[i].bytes = chunk(i - 1).bytes /\ cs[i].at = chunk(i - 1).at
    BY <2>1
  <2>3. PICK b \in Int : b = low + (i - 1) * ScanSpan(o)
    BY <1>5
  <2>4. PICK a \in Nat : a = o.align
    BY <1>5
  <2>5. PICK c : c = Cardinality(Offsets(o, size, i - 1))
    OBVIOUS
  <2>6. chunk(i - 1).bytes = b .. b + ReadLength(o, size, i - 1) - 1
    BY <2>3
  <2>7. chunk(i - 1).at = [k \in 1 .. c |-> b + (k - 1) * a]
    BY <2>3, <2>4, <2>5
  <2>. HIDE DEF cs, chunk
  <2>8. DOMAIN cs[i].at = 1 .. c /\ \A k \in 1 .. c : cs[i].at[k] = b + (k - 1) * a
    BY <2>2, <2>7
  <2>. QED
    BY <2>2, <2>3, <2>4, <2>5, <2>6, <2>8
<1>. HIDE DEF cs
<1>11. n = ChunkCount(o, size)
  BY <1>3
<1>. QED
  BY <1>4, <1>7, <1>8, <1>10, <1>11 DEF cs

\* A value of a region is in one chunk, at one place, and read whole with it.
LEMMA RegionDealt ==
  ASSUME NEW o, IsLayout(o), NEW low \in Int, NEW size \in Nat, NEW region,
         region.base = low, region.size = size
  PROVE  LET cs == Chunks(o, region)
         IN  /\ \A i \in DOMAIN cs : \A k \in DOMAIN cs[i].at :
                  /\ cs[i].at[k] \in AlignedIn(o, region)
                  /\ cs[i].at[k] \in low .. low + size - 1
                  /\ cs[i].at[k] .. cs[i].at[k] + o.width - 1 \subseteq cs[i].bytes
                  /\ cs[i].bytes \subseteq cs[i].at[k] - (ScanSpan(o) + o.width) ..
                                           cs[i].at[k] + (ScanSpan(o) + o.width)
             /\ \A i, j \in DOMAIN cs : \A k \in DOMAIN cs[i].at, l \in DOMAIN cs[j].at :
                  cs[i].at[k] = cs[j].at[l] => i = j /\ k = l
             /\ \A x \in AlignedIn(o, region) : \E i \in DOMAIN cs : \E k \in DOMAIN cs[i].at : cs[i].at[k] = x
<1>. DEFINE cs == Chunks(o, region)
<1>1. PICK m \in Nat \ {0}, a \in Nat \ {0}, w \in Nat \ {0} : ScanSpan(o) = m * a /\ a = o.align /\ w = o.width
  <2>1. PICK m \in Nat \ {0} : ScanSpan(o) = m * o.align
    BY SpanIs
  <2>. QED
    BY <2>1 DEF IsLayout
<1>2. PICK s \in Nat \ {0} : s = m * a /\ s = ScanSpan(o)
  BY <1>1
<1>3. \A i \in DOMAIN cs :
        /\ i \in Nat /\ i - 1 \in Nat /\ (i - 1) * s + w <= size
        /\ cs[i].bytes = low + (i - 1) * s .. low + (i - 1) * s + ReadLength(o, size, i - 1) - 1
        /\ DOMAIN cs[i].at = 1 .. Cardinality(Offsets(o, size, i - 1))
        /\ \A k \in DOMAIN cs[i].at : cs[i].at[k] = low + (i - 1) * s + (k - 1) * a
  <2>1. /\ DOMAIN cs = 1 .. ChunkCount(o, size)
        /\ \A i \in DOMAIN cs :
             /\ i - 1 \in Nat /\ (i - 1) * ScanSpan(o) + o.width <= size
             /\ cs[i].bytes = low + (i - 1) * ScanSpan(o) ..
                               low + (i - 1) * ScanSpan(o) + ReadLength(o, size, i - 1) - 1
             /\ DOMAIN cs[i].at = 1 .. Cardinality(Offsets(o, size, i - 1))
             /\ \A k \in DOMAIN cs[i].at : cs[i].at[k] = low + (i - 1) * ScanSpan(o) + (k - 1) * o.align
    BY SpotIs
  <2>. HIDE DEF cs
  <2>2. \A i \in DOMAIN cs : i \in Nat
    BY <2>1, CountIs
  <2>3. ScanSpan(o) = s /\ o.align = a /\ o.width = w
    BY <1>1, <1>2
  <2>. QED
    BY <2>1, <2>2, <2>3
<1>. HIDE DEF cs
\* The place of chunk i's value k: its offset in the chunk and in the region.
<1>4. ASSUME NEW i \in DOMAIN cs, NEW k \in DOMAIN cs[i].at
      PROVE  \E b, q \in Nat, r \in Nat :
               /\ b = (i - 1) * s /\ q = (k - 1) * a /\ cs[i].at[k] = low + b + q
               /\ k - 1 \in Nat /\ k \in Nat /\ q < s /\ b + q + w <= size /\ q + w <= r /\ r <= s + w
               /\ b + r <= size /\ cs[i].bytes = low + b .. low + b + r - 1
  <2>1. PICK h \in Nat : h = i - 1 /\ h * s + w <= size
    BY <1>3
  <2>2. PICK n \in Nat : n = Cardinality(Offsets(o, size, h)) /\ DOMAIN cs[i].at = 1 .. n
    <3>1. h * ScanSpan(o) + o.width <= size
      BY <1>1, <1>2, <2>1
    <3>2. Cardinality(Offsets(o, size, h)) \in Nat
      BY <3>1, ChunkIs
    <3>. QED
      BY <1>3, <2>1, <3>2
  <2>3. PICK g \in Nat : g = k - 1 /\ g \in 0 .. n - 1
    <3>1. k - 1 \in Nat /\ k - 1 \in 0 .. n - 1
      BY <2>2
    <3>. QED
      BY <3>1
  <2>4. PICK b \in Nat, q \in Nat : b = h * s /\ q = g * a
    OBVIOUS
  <2>5. PICK r \in Nat : r = ReadLength(o, size, h) /\ r <= s + w /\ h * s + r <= size
    BY <1>1, <1>2, <2>1, ChunkIs
  <2>6. q < s /\ b + q + w <= size /\ q + w <= r
    <3>1. h * ScanSpan(o) + o.width <= size
      BY <1>1, <1>2, <2>1
    <3>2. /\ g * o.align < ScanSpan(o) /\ h * ScanSpan(o) + g * o.align + o.width <= size
          /\ g * o.align + o.width <= ReadLength(o, size, h)
      BY <2>2, <2>3, <3>1, ChunkIs
    <3>3. g * a < s /\ h * s + g * a + w <= size /\ g * a + w <= r
      BY <1>1, <1>2, <2>5, <3>2
    <3>. QED
      BY <2>4, <3>3
  <2>7. k \in Nat /\ cs[i].at[k] = low + b + q
    <3>1. cs[i].at[k] = low + (i - 1) * s + (k - 1) * a
      BY <1>3
    <3>2. k \in Nat
      BY <2>2
    <3>. QED
      BY <2>1, <2>3, <2>4, <3>1, <3>2
  <2>8. cs[i].bytes = low + b .. low + b + r - 1
    BY <1>3, <2>1, <2>4, <2>5
  <2>9. b = (i - 1) * s /\ q = (k - 1) * a /\ k - 1 \in Nat
    BY <2>1, <2>3, <2>4
  <2>10. b + r <= size
    BY <2>4, <2>5
  <2>. QED
    BY <2>5, <2>6, <2>7, <2>8, <2>9, <2>10
<1>5. ASSUME NEW i \in DOMAIN cs, NEW k \in DOMAIN cs[i].at
      PROVE  /\ cs[i].at[k] \in AlignedIn(o, region)
             /\ cs[i].at[k] \in low .. low + size - 1
             /\ cs[i].at[k] .. cs[i].at[k] + o.width - 1 \subseteq cs[i].bytes
             /\ cs[i].bytes \subseteq cs[i].at[k] - (ScanSpan(o) + o.width) ..
                                      cs[i].at[k] + (ScanSpan(o) + o.width)
  <2>1. PICK b, q \in Nat, r \in Nat :
               /\ b = (i - 1) * s /\ q = (k - 1) * a /\ cs[i].at[k] = low + b + q
               /\ k - 1 \in Nat /\ k \in Nat /\ q < s /\ b + q + w <= size /\ q + w <= r /\ r <= s + w
               /\ b + r <= size /\ cs[i].bytes = low + b .. low + b + r - 1
    BY <1>4
  <2>0. b + q + w <= size /\ q < s /\ q + w <= r /\ r <= s + w /\ b + r <= size
    BY <2>1
  <2>2. PICK j \in Nat : j * a = b + q
    <3>1. PICK h \in Nat, g \in Nat : h = i - 1 /\ g = k - 1
      BY <1>3, <2>1
    <3>2. h * m + g \in Nat /\ (h * m + g) * a = h * (m * a) + g * a
      OBVIOUS
    <3>. QED
      BY <1>2, <2>1, <3>1, <3>2
  <2>3. j <= j * a
    OBVIOUS
  <2>4. j * a + w <= size /\ j \in 0 .. size
    BY <2>0, <2>2, <2>3
  <2>5. PICK x \in Int : x = cs[i].at[k] /\ x = low + j * a /\ x = low + b + q
    <3>1. cs[i].at[k] = low + b + q
      BY <2>1
    <3>2. low + b + q = low + j * a /\ low + b + q \in Int
      BY <2>2
    <3>. QED
      BY <3>1, <3>2
  <2>6. x \in AlignedIn(o, region)
    BY <1>1, <2>4, <2>5 DEF AlignedIn
  <2>7. x \in low .. low + size - 1
    BY <2>0, <2>5
  <2>8. x .. x + w - 1 \subseteq low + b .. low + b + r - 1
    BY <2>0, <2>5
  <2>9. low + b .. low + b + r - 1 \subseteq x - (s + w) .. x + (s + w)
    BY <2>0, <2>5
  <2>. QED
    BY <1>1, <1>2, <2>1, <2>5, <2>6, <2>7, <2>8, <2>9
<1>6. ASSUME NEW i \in DOMAIN cs, NEW j \in DOMAIN cs, NEW k \in DOMAIN cs[i].at, NEW l \in DOMAIN cs[j].at,
             cs[i].at[k] = cs[j].at[l]
      PROVE  i = j /\ k = l
  <2>1. PICK b, q \in Nat : /\ b = (i - 1) * s /\ q = (k - 1) * a /\ cs[i].at[k] = low + b + q
                           /\ k \in Nat /\ q < s
    BY <1>4, SMTT(30)
  <2>2. PICK c, p \in Nat : /\ c = (j - 1) * s /\ p = (l - 1) * a /\ cs[j].at[l] = low + c + p
                           /\ l \in Nat /\ p < s
    BY <1>4
  <2>3. i \in Nat /\ j \in Nat
    BY <1>3
  <2>4. b + q = c + p /\ b \in Nat /\ c \in Nat
    <3>1. low + b + q = low + c + p
      BY <1>6, <2>1, <2>2
    <3>2. b \in Int /\ c \in Int
      BY <2>1, <2>2, <2>3
    <3>3. i - 1 \in Nat /\ j - 1 \in Nat
      BY <1>3
    <3>4. b \in Nat /\ c \in Nat
      BY <2>1, <2>2, <3>3
    <3>. QED
      BY <3>1, <3>2, <3>4
  <2>5. ~(i < j)
    <3>1. SUFFICES ASSUME i < j PROVE FALSE
      OBVIOUS
    <3>2. i * s <= (j - 1) * s /\ i * s = (i - 1) * s + s
      BY <2>3, <3>1
    <3>3. b + s <= c
      BY <2>1, <2>2, <2>3, <3>2
    <3>. QED
      BY <2>1, <2>2, <2>4, <3>3
  <2>6. ~(j < i)
    <3>1. SUFFICES ASSUME j < i PROVE FALSE
      OBVIOUS
    <3>2. j * s <= (i - 1) * s /\ j * s = (j - 1) * s + s
      BY <2>3, <3>1
    <3>3. c + s <= b
      BY <2>1, <2>2, <2>3, <3>2
    <3>. QED
      BY <2>1, <2>2, <2>4, <3>3
  <2>7. i = j
    BY <2>3, <2>5, <2>6
  <2>8. q = p
    BY <2>1, <2>2, <2>4, <2>7
  <2>9. k = l
    <3>1. (k - 1) * a = (l - 1) * a /\ k \in Nat /\ l \in Nat
      BY <2>1, <2>2, <2>8
    <3>. QED
      BY <3>1
  <2>. QED
    BY <2>7, <2>9
<1>7. ASSUME NEW x \in AlignedIn(o, region)
      PROVE  \E i \in DOMAIN cs : \E k \in DOMAIN cs[i].at : cs[i].at[k] = x
  <2>1. PICK j \in Nat : x = low + j * a /\ j * a + w <= size
    BY <1>1 DEF AlignedIn
  <2>2. PICK h \in Int, g \in 0 .. m - 1 : j = m * h + g
    <3>1. j \div m \in Int /\ j % m \in 0 .. m - 1
      OBVIOUS
    <3>2. PICK h \in Int, g \in 0 .. m - 1 : j \div m = h /\ j % m = g
      BY <3>1
    <3>3. j = m * h + g
      BY <3>2
    <3>. QED
      BY <3>3
  <2>3. h \in Nat /\ g \in Nat /\ g < m
    BY <2>2
  <2>4. PICK b \in Nat, q \in Nat : b = h * s /\ q = g * a
    BY <2>3
  <2>5. j * a = b + q
    <3>1. (m * h + g) * a = h * (m * a) + g * a
      BY <2>3
    <3>. QED
      BY <1>2, <2>2, <2>4, <3>1
  <2>6. q < s
    <3>1. g * a < m * a
      <4>1. (m - g) * a >= 1
        BY <2>3
      <4>2. (m - g) * a = m * a - g * a
        BY <2>3
      <4>. QED
        BY <2>3, <4>1, <4>2
    <3>. QED
      BY <1>2, <2>4, <3>1
  <2>7. b + q + w <= size /\ b + w <= size
    BY <2>1, <2>4, <2>5
  <2>8. h + 1 \in DOMAIN cs /\ (h + 1) - 1 = h
    <3>1. ChunkCount(o, size) \in Nat /\ h \in 0 .. ChunkCount(o, size) - 1
      BY <1>1, <1>2, <2>3, <2>4, <2>7, CountIs
    <3>2. DOMAIN cs = 1 .. ChunkCount(o, size)
      BY SpotIs DEF cs
    <3>. QED
      BY <2>3, <3>1, <3>2
  <2>9. g + 1 \in DOMAIN cs[h + 1].at /\ (g + 1) - 1 = g
    <3>1. PICK n \in Nat : n = Cardinality(Offsets(o, size, h)) /\ g \in 0 .. n - 1
      <4>1. h * ScanSpan(o) + o.width <= size
        BY <1>1, <1>2, <2>4, <2>7
      <4>2. g * o.align < ScanSpan(o) /\ h * ScanSpan(o) + g * o.align + o.width <= size
        BY <1>1, <1>2, <2>4, <2>6, <2>7
      <4>. QED
        BY <2>3, <4>1, <4>2, ChunkIs
    <3>2. DOMAIN cs[h + 1].at = 1 .. n
      BY <1>3, <2>8, <3>1
    <3>. QED
      BY <2>3, <3>1, <3>2
  <2>10. cs[h + 1].at[g + 1] = low + h * s + g * a
    BY <1>3, <2>8, <2>9
  <2>11. low + h * s + g * a = x
    BY <2>1, <2>4, <2>5
  <2>. QED
    BY <2>8, <2>9, <2>10, <2>11
<1>. HIDE DEF cs
<1>. QED
  BY <1>5, <1>6, <1>7 DEF cs

AreRegions(regions) ==
  /\ regions \in Seq([base : Int, size : Nat, scannable : BOOLEAN])
  /\ \A r, u \in DOMAIN regions : r # u =>
       (regions[r].base .. regions[r].base + regions[r].size - 1)
         \cap (regions[u].base .. regions[u].base + regions[u].size - 1) = {}

\* However regions are cut into chunks, a first scan deals each of its addresses
\* to one place and reads it there with all of its bytes.
THEOREM FirstPlanDeals ==
  ASSUME NEW o, IsLayout(o), NEW regions, AreRegions(regions)
  PROVE  WellFormed(FirstPlan(o, regions))
<1>. DEFINE C == [at : Seq(Int), bytes : SUBSET Int]
            seqs == [r \in 1 .. Len(regions) |-> IF regions[r].scannable THEN Chunks(o, regions[r]) ELSE <<>>]
            items == FlattenSeq(seqs)
            targets == UNION {AlignedIn(o, region) : region \in {r \in ToSet(regions) : r.scannable}}
            p == FirstPlan(o, regions)
<1>1. /\ DOMAIN regions = 1 .. Len(regions) /\ Len(regions) \in Nat
      /\ \A r \in DOMAIN regions : regions[r].base \in Int /\ regions[r].size \in Nat
  <2>1. PICK R : R = [base : Int, size : Nat, scannable : BOOLEAN]
    OBVIOUS
  <2>2. regions \in Seq(R)
    BY <2>1 DEF AreRegions
  <2>3. DOMAIN regions = 1 .. Len(regions) /\ Len(regions) \in Nat /\ \A r \in DOMAIN regions : regions[r] \in R
    BY <2>2
  <2>. QED
    BY <2>1, <2>3
<1>2. \A r \in DOMAIN regions : Chunks(o, regions[r]) \in Seq(C)
  BY <1>1, SpotIs
<1>3. seqs \in Seq(Seq(C)) /\ DOMAIN seqs = DOMAIN regions /\ Len(seqs) = Len(regions)
  <2>. HIDE DEF C
  <2>1. <<>> \in Seq(C)
    OBVIOUS
  <2>2. \A r \in 1 .. Len(regions) : (IF regions[r].scannable THEN Chunks(o, regions[r]) ELSE <<>>) \in Seq(C)
    BY <1>1, <1>2, <2>1
  <2>. QED
    BY <1>1, <2>2
<1>4. \A r \in DOMAIN regions : seqs[r] = IF regions[r].scannable THEN Chunks(o, regions[r]) ELSE <<>>
  BY <1>1
<1>5. /\ p.kind = "first" /\ p.width = o.width /\ p.reach = ScanSpan(o) + o.width /\ p.items = items
      /\ p.work = Len(items) /\ p.targets = targets
  BY DEF FirstPlan
<1>. HIDE DEF seqs, C, p
<1>6. items \in Seq(C) /\ Lays(items, seqs, Len(seqs))
  BY <1>3, FlattenLays
<1>. HIDE DEF items
<1>7. PICK place \in [DOMAIN items -> Niches(seqs)] :
        /\ \A n \in DOMAIN items : items[n] = seqs[place[n][1]][place[n][2]]
        /\ \A n, k \in DOMAIN items : place[n] = place[k] => n = k
        /\ \A c \in Niches(seqs) : c[1] <= Len(seqs) => \E n \in DOMAIN items : place[n] = c
  BY <1>6 DEF Lays
<1>8. ASSUME NEW n \in DOMAIN items
      PROVE  \E r \in DOMAIN regions : \E i \in DOMAIN Chunks(o, regions[r]) :
               /\ regions[r].scannable /\ place[n] = <<r, i>> /\ items[n] = Chunks(o, regions[r])[i]
  <2>1. PICK r \in DOMAIN seqs : \E i \in DOMAIN seqs[r] : place[n] = <<r, i>>
    BY <1>7, CellIs
  <2>2. PICK i \in DOMAIN seqs[r] : place[n] = <<r, i>>
    BY <2>1
  <2>3. items[n] = seqs[r][i]
    BY <1>7, <2>2
  <2>4. regions[r].scannable
    <3>1. SUFFICES ASSUME ~regions[r].scannable PROVE FALSE
      OBVIOUS
    <3>2. seqs[r] = <<>>
      BY <1>3, <1>4, <3>1
    <3>. QED
      BY <2>2, <3>2
  <2>5. seqs[r] = Chunks(o, regions[r])
    BY <1>3, <1>4, <2>4
  <2>. QED
    BY <1>3, <2>2, <2>3, <2>4, <2>5
<1>9. ASSUME NEW n \in DOMAIN items, NEW k \in DOMAIN items[n].at
      PROVE  \E r \in DOMAIN regions :
               /\ regions[r].scannable /\ place[n][1] = r
               /\ items[n].at[k] \in AlignedIn(o, regions[r])
               /\ items[n].at[k] \in regions[r].base .. regions[r].base + regions[r].size - 1
               /\ items[n].at[k] .. items[n].at[k] + o.width - 1 \subseteq items[n].bytes
               /\ items[n].bytes \subseteq items[n].at[k] - (ScanSpan(o) + o.width) ..
                                          items[n].at[k] + (ScanSpan(o) + o.width)
  <2>1. PICK r \in DOMAIN regions : \E i \in DOMAIN Chunks(o, regions[r]) :
               /\ regions[r].scannable /\ place[n] = <<r, i>> /\ items[n] = Chunks(o, regions[r])[i]
    BY <1>8
  <2>2. PICK i \in DOMAIN Chunks(o, regions[r]) :
               /\ regions[r].scannable /\ place[n] = <<r, i>> /\ items[n] = Chunks(o, regions[r])[i]
    BY <2>1
  <2>3. PICK region : region = regions[r] /\ region.base \in Int /\ region.size \in Nat
    BY <1>1
  <2>4. LET cs == Chunks(o, region)
        IN  /\ cs[i].at[k] \in AlignedIn(o, region)
            /\ cs[i].at[k] \in region.base .. region.base + region.size - 1
            /\ cs[i].at[k] .. cs[i].at[k] + o.width - 1 \subseteq cs[i].bytes
            /\ cs[i].bytes \subseteq cs[i].at[k] - (ScanSpan(o) + o.width) ..
                                     cs[i].at[k] + (ScanSpan(o) + o.width)
    BY <1>9, <2>2, <2>3, RegionDealt
  <2>. QED
    BY <2>2, <2>3, <2>4
<1>10. ASSUME NEW n \in DOMAIN items, NEW k \in DOMAIN items[n].at,
              NEW h \in DOMAIN items, NEW l \in DOMAIN items[h].at, items[n].at[k] = items[h].at[l]
       PROVE  n = h /\ k = l
  <2>1. PICK x : x = items[n].at[k] /\ x = items[h].at[l]
    BY <1>10
  <2>2. PICK r \in DOMAIN regions : \E i \in DOMAIN Chunks(o, regions[r]) :
               place[n] = <<r, i>> /\ items[n] = Chunks(o, regions[r])[i]
    BY <1>8
  <2>3. PICK i \in DOMAIN Chunks(o, regions[r]) : place[n] = <<r, i>> /\ items[n] = Chunks(o, regions[r])[i]
    BY <2>2
  <2>4. PICK u \in DOMAIN regions : \E j \in DOMAIN Chunks(o, regions[u]) :
               place[h] = <<u, j>> /\ items[h] = Chunks(o, regions[u])[j]
    BY <1>8
  <2>5. PICK j \in DOMAIN Chunks(o, regions[u]) : place[h] = <<u, j>> /\ items[h] = Chunks(o, regions[u])[j]
    BY <2>4
  <2>6. x \in regions[r].base .. regions[r].base + regions[r].size - 1
    <3>1. PICK q \in DOMAIN regions :
            place[n][1] = q /\ items[n].at[k] \in regions[q].base .. regions[q].base + regions[q].size - 1
      BY <1>9
    <3>2. q = r
      BY <2>3, <3>1
    <3>. QED
      BY <2>1, <3>1, <3>2
  <2>7. x \in regions[u].base .. regions[u].base + regions[u].size - 1
    <3>1. PICK q \in DOMAIN regions :
            place[h][1] = q /\ items[h].at[l] \in regions[q].base .. regions[q].base + regions[q].size - 1
      BY <1>9
    <3>2. q = u
      BY <2>5, <3>1
    <3>. QED
      BY <2>1, <3>1, <3>2
  <2>8. r = u
    BY <2>6, <2>7 DEF AreRegions
  <2>9. PICK region : region = regions[r] /\ region.base \in Int /\ region.size \in Nat
    BY <1>1
  <2>10. LET cs == Chunks(o, region) IN
           i \in DOMAIN cs /\ j \in DOMAIN cs /\ k \in DOMAIN cs[i].at /\ l \in DOMAIN cs[j].at /\ cs[i].at[k] = cs[j].at[l]
    BY <2>1, <2>3, <2>5, <2>8, <2>9
  <2>11. i = j /\ k = l
    BY <2>9, <2>10, RegionDealt
  <2>. QED
    BY <1>7, <2>3, <2>5, <2>8, <2>11
<1>11. ASSUME NEW x \in targets
       PROVE  \E n \in DOMAIN items : \E k \in DOMAIN items[n].at : items[n].at[k] = x
  <2>1. PICK region \in ToSet(regions) : region.scannable /\ x \in AlignedIn(o, region)
    OBVIOUS
  <2>2. PICK r \in DOMAIN regions : region = regions[r]
    BY <2>1 DEF ToSet
  <2>3. region.base \in Int /\ region.size \in Nat
    BY <1>1, <2>2
  <2>4. PICK i \in DOMAIN Chunks(o, region) : \E k \in DOMAIN Chunks(o, region)[i].at : Chunks(o, region)[i].at[k] = x
    BY <2>1, <2>3, RegionDealt
  <2>5. seqs[r] = Chunks(o, region)
    BY <1>4, <2>1, <2>2
  <2>6. <<r, i>> \in Niches(seqs)
    BY <1>3, <2>2, <2>4, <2>5, CellIs
  <2>7. PICK n \in DOMAIN items : place[n] = <<r, i>>
    <3>1. <<r, i>>[1] <= Len(seqs)
      BY <1>1, <1>3, <2>2
    <3>. QED
      BY <1>7, <2>6, <3>1
  <2>8. items[n] = Chunks(o, region)[i]
    BY <1>7, <2>5, <2>7
  <2>. QED
    BY <2>4, <2>8
<1>12. ASSUME NEW v PROVE v \in ValuesOf(p) <=> \E n \in DOMAIN items : \E k \in DOMAIN items[n].at : v = <<n, k>>
  BY <1>5 DEF ValuesOf
<1>13. ASSUME NEW n \in DOMAIN items, NEW k \in DOMAIN items[n].at PROVE Address(p, <<n, k>>) = items[n].at[k]
  BY <1>5 DEF Address
<1>14. p.targets = {Address(p, v) : v \in ValuesOf(p)}
  <2>1. ASSUME NEW x \in targets PROVE \E v \in ValuesOf(p) : Address(p, v) = x
    <3>1. PICK n \in DOMAIN items : \E k \in DOMAIN items[n].at : items[n].at[k] = x
      BY <1>11, <2>1
    <3>2. PICK k \in DOMAIN items[n].at : items[n].at[k] = x
      BY <3>1
    <3>3. <<n, k>> \in ValuesOf(p) /\ Address(p, <<n, k>>) = x
      BY <1>12, <1>13, <3>2
    <3>. QED
      BY <3>3
  <2>2. ASSUME NEW v \in ValuesOf(p) PROVE Address(p, v) \in targets
    <3>1. PICK n \in DOMAIN items : \E k \in DOMAIN items[n].at : v = <<n, k>>
      BY <1>12
    <3>2. PICK k \in DOMAIN items[n].at : v = <<n, k>>
      BY <3>1
    <3>3. PICK r \in DOMAIN regions : regions[r].scannable /\ items[n].at[k] \in AlignedIn(o, regions[r])
      BY <1>9
    <3>4. regions[r] \in ToSet(regions)
      BY DEF ToSet
    <3>. QED
      BY <1>13, <3>2, <3>3, <3>4
  <2>. HIDE DEF targets
  <2>. QED
    BY <1>5, <2>1, <2>2
<1>15. ASSUME NEW v \in ValuesOf(p), NEW z \in ValuesOf(p), Address(p, v) = Address(p, z) PROVE v = z
  <2>1. PICK n \in DOMAIN items : \E k \in DOMAIN items[n].at : v = <<n, k>>
    BY <1>12
  <2>2. PICK k \in DOMAIN items[n].at : v = <<n, k>>
    BY <2>1
  <2>3. PICK h \in DOMAIN items : \E l \in DOMAIN items[h].at : z = <<h, l>>
    BY <1>12
  <2>4. PICK l \in DOMAIN items[h].at : z = <<h, l>>
    BY <2>3
  <2>5. items[n].at[k] = items[h].at[l]
    BY <1>13, <1>15, <2>2, <2>4
  <2>. QED
    BY <1>10, <2>2, <2>4, <2>5
<1>16. ASSUME NEW v \in ValuesOf(p)
       PROVE  /\ Address(p, v) .. Address(p, v) + p.width - 1 \subseteq p.items[v[1]].bytes
              /\ p.items[v[1]].bytes \subseteq Address(p, v) - p.reach .. Address(p, v) + p.reach
  <2>1. PICK n \in DOMAIN items : \E k \in DOMAIN items[n].at : v = <<n, k>>
    BY <1>12
  <2>2. PICK k \in DOMAIN items[n].at : v = <<n, k>>
    BY <2>1
  <2>3. Address(p, v) = items[n].at[k] /\ p.items[v[1]] = items[n]
    BY <1>5, <1>13, <2>2
  <2>. QED
    BY <1>5, <1>9, <2>3
<1>17. p.width \in Nat \ {0} /\ {p.reach, p.work} \subseteq Nat
  <2>1. PICK m \in Nat \ {0} : ScanSpan(o) = m * o.align
    BY SpanIs
  <2>2. o.align \in Nat /\ o.width \in Nat \ {0}
    BY DEF IsLayout
  <2>3. ScanSpan(o) \in Nat
    BY <2>1, <2>2
  <2>4. Len(items) \in Nat
    BY <1>6
  <2>5. p.reach \in Nat
    BY <1>5, <2>2, <2>3
  <2>. QED
    BY <1>5, <2>2, <2>4, <2>5
<1>18. p.items \in Seq([at : Seq(Int), bytes : SUBSET Int])
  BY <1>5, <1>6 DEF C
<1>19. p.kind = "first"
  BY <1>5
<1>. HIDE DEF targets
<1>20. WellFormed(p)
  BY <1>14, <1>15, <1>16, <1>17, <1>18, <1>19 DEF WellFormed
<1>. QED
  BY <1>20 DEF p

\* A next scan deals each candidate to one place of one batch.
THEOREM NextPlanDeals ==
  ASSUME NEW candidates \in Seq(Int), NEW width \in Nat \ {0}, NEW batch \in Nat \ {0},
         \A j, k \in DOMAIN candidates : candidates[j] = candidates[k] => j = k
  PROVE  WellFormed(NextPlan(candidates, width, batch))
<1>. DEFINE p == NextPlan(candidates, width, batch)
<1>1. PICK len \in Nat : len = Len(candidates) /\ DOMAIN candidates = 1 .. len
  OBVIOUS
<1>2. PICK m \in Int : m = (len + batch - 1) \div batch /\ m * batch < len + batch /\ len <= m * batch
  <2>1. PICK t \in Nat : t = len + batch - 1
    OBVIOUS
  <2>2. t \div batch \in Int /\ t % batch \in 0 .. batch - 1
    OBVIOUS
  <2>3. PICK q \in Int, r \in 0 .. batch - 1 : t \div batch = q /\ t % batch = r
    BY <2>2
  <2>4. t = batch * q + r
    BY <2>3
  <2>5. q * batch < len + batch /\ len <= q * batch
    <3>1. PICK z \in Int : z = batch * q /\ z = q * batch
      OBVIOUS
    <3>2. z < len + batch /\ len <= z
      BY <2>1, <2>4, <3>1
    <3>. QED
      BY <3>1, <3>2
  <2>. QED
    BY <2>1, <2>3, <2>5
<1>3. /\ p.kind = "next" /\ p.width = width /\ p.reach = width - 1 /\ p.work = len
      /\ p.items = [i \in 1 .. m |-> Batch(candidates, batch, i - 1)] /\ p.targets = ToSet(candidates)
  BY <1>1, <1>2 DEF NextPlan
<1>. HIDE DEF p
\* The k-th of batch i stands at (i - 1) * batch + k.
<1>4. ASSUME NEW i \in 1 .. m
      PROVE  \E b \in Nat, n \in 0 .. batch :
               /\ b = (i - 1) * batch /\ b + n <= len /\ (n = batch \/ b + n = len)
               /\ p.items[i] \in [at : Seq(Int), bytes : SUBSET Int] /\ DOMAIN p.items[i].at = 1 .. n
               /\ \A k \in 1 .. n : p.items[i].at[k] = candidates[b + k]
  <2>1. PICK h \in Nat, b \in Nat : h = i - 1 /\ b = h * batch /\ i = h + 1
    <3>1. i - 1 \in Nat /\ i = (i - 1) + 1
      OBVIOUS
    <3>2. PICK h \in Nat : h = i - 1 /\ i = h + 1
      BY <3>1
    <3>3. h * batch \in Nat
      OBVIOUS
    <3>. QED
      BY <3>2, <3>3
  <2>2. b + batch = (h + 1) * batch
    BY <2>1
  <2>3. b < len
    <3>1. h + 1 <= m
      BY <2>1
    <3>2. (h + 1) * batch <= m * batch
      BY <3>1
    <3>. QED
      BY <1>2, <2>2, <3>2
  <2>4. PICK e \in Nat : e = Smaller((h + 1) * batch, len) /\ e = IF b + batch < len THEN b + batch ELSE len
    <3>1. (IF b + batch < len THEN b + batch ELSE len) \in Nat
      OBVIOUS
    <3>. QED
      BY <2>2, <3>1 DEF Smaller
  <2>5. PICK n \in Nat : n = e - b /\ n \in 0 .. batch /\ b + n <= len /\ (n = batch \/ b + n = len) /\ e = b + n
    <3>1. e - b \in Nat /\ e - b \in 0 .. batch /\ b + (e - b) <= len /\ e = b + (e - b)
      BY <2>3, <2>4
    <3>2. e - b = batch \/ b + (e - b) = len
      BY <2>3, <2>4
    <3>. QED
      BY <3>1, <3>2
  <2>6. PICK s : s = SubSeq(candidates, b + 1, b + n)
    OBVIOUS
  <2>7. s \in Seq(Int) /\ Len(s) = n /\ \A k \in 1 .. n : s[k] = candidates[b + k]
    <3>1. \A k \in b + 1 .. b + n : k \in DOMAIN candidates
      BY <1>1, <2>5
    <3>2. s = [k \in 1 .. n |-> candidates[b + k]]
      <4>1. SubSeq(candidates, b + 1, b + n) = [k \in 1 .. (b + n + 1) - (b + 1) |-> candidates[k + (b + 1) - 1]]
        OBVIOUS
      <4>2. (b + n + 1) - (b + 1) = n /\ \A k \in 1 .. n : k + (b + 1) - 1 = b + k
        OBVIOUS
      <4>. QED
        BY <2>6, <4>1, <4>2
    <3>3. \A k \in 1 .. n : candidates[b + k] \in Int
      BY <3>1
    <3>. QED
      BY <3>2, <3>3
  <2>8. p.items[i] = [at |-> s, bytes |-> {}]
    <3>1. p.items[i] = Batch(candidates, batch, h)
      BY <1>3, <2>1
    <3>2. Batch(candidates, batch, h) = [at |-> SubSeq(candidates, b + 1, e), bytes |-> {}]
      BY <1>1, <2>1, <2>4 DEF Batch
    <3>. QED
      BY <2>5, <2>6, <3>1, <3>2
  <2>9. p.items[i].at = s /\ DOMAIN s = 1 .. n
    BY <2>7, <2>8
  <2>10. p.items[i] \in [at : Seq(Int), bytes : SUBSET Int]
    BY <2>7, <2>8
  <2>11. b = (i - 1) * batch
    BY <2>1
  <2>. QED
    BY <2>5, <2>7, <2>9, <2>10, <2>11
<1>5. p.items \in Seq([at : Seq(Int), bytes : SUBSET Int]) /\ DOMAIN p.items = 1 .. m
  <2>1. m \in Nat
    <3>1. SUFFICES ASSUME m < 0 PROVE FALSE
      OBVIOUS
    <3>2. m * batch <= (-1) * batch
      BY <3>1
    <3>. QED
      BY <1>2, <3>2
  <2>2. PICK C : C = [at : Seq(Int), bytes : SUBSET Int]
    OBVIOUS
  <2>3. \A i \in 1 .. m : p.items[i] \in C
    BY <1>4, <2>2
  <2>4. p.items \in Seq(C)
    BY <1>3, <2>1, <2>3
  <2>. QED
    BY <1>3, <2>2, <2>4
<1>6. ASSUME NEW v
      PROVE  v \in ValuesOf(p) <=> \E i \in 1 .. m : \E k \in DOMAIN p.items[i].at : v = <<i, k>>
  BY <1>5 DEF ValuesOf
<1>7. ASSUME NEW v \in ValuesOf(p)
      PROVE  \E i \in 1 .. m, k \in 1 .. batch, b \in Nat, j \in DOMAIN candidates :
               v = <<i, k>> /\ b = (i - 1) * batch /\ j = b + k /\ Address(p, v) = candidates[j]
  <2>1. PICK i \in 1 .. m : \E k \in DOMAIN p.items[i].at : v = <<i, k>>
    BY <1>6
  <2>2. PICK k \in DOMAIN p.items[i].at : v = <<i, k>>
    BY <2>1
  <2>3. PICK b \in Nat, n \in 0 .. batch :
               /\ b = (i - 1) * batch /\ b + n <= len /\ (n = batch \/ b + n = len)
               /\ p.items[i] \in [at : Seq(Int), bytes : SUBSET Int] /\ DOMAIN p.items[i].at = 1 .. n
               /\ \A g \in 1 .. n : p.items[i].at[g] = candidates[b + g]
    BY <1>4
  <2>4. k \in 1 .. n
    BY <2>3
  <2>5. k \in 1 .. batch /\ b + k \in 1 .. len
    BY <2>3, <2>4, SMTT(30)
  <2>6. Address(p, v) = candidates[b + k]
    BY <2>2, <2>3, <2>4 DEF Address
  <2>. QED
    BY <1>1, <2>2, <2>3, <2>5, <2>6
<1>8. ASSUME NEW v \in ValuesOf(p), NEW z \in ValuesOf(p), Address(p, v) = Address(p, z) PROVE v = z
  <2>1. PICK i \in 1 .. m, k \in 1 .. batch, b \in Nat, j \in DOMAIN candidates :
               v = <<i, k>> /\ b = (i - 1) * batch /\ j = b + k /\ Address(p, v) = candidates[j]
    BY <1>7
  <2>2. PICK h \in 1 .. m, l \in 1 .. batch, c \in Nat, y \in DOMAIN candidates :
               z = <<h, l>> /\ c = (h - 1) * batch /\ y = c + l /\ Address(p, z) = candidates[y]
    BY <1>7
  <2>3. j = y
    BY <1>8, <2>1, <2>2
  <2>4. b + k = c + l
    BY <2>1, <2>2, <2>3
  <2>5. ~(i < h)
    <3>1. SUFFICES ASSUME i < h PROVE FALSE
      OBVIOUS
    <3>2. i * batch <= (h - 1) * batch /\ i * batch = (i - 1) * batch + batch
      BY <3>1
    <3>3. b + batch <= c
      BY <2>1, <2>2, <3>2
    <3>. QED
      BY <2>4, <3>3
  <2>6. ~(h < i)
    <3>1. SUFFICES ASSUME h < i PROVE FALSE
      OBVIOUS
    <3>2. h * batch <= (i - 1) * batch /\ h * batch = (h - 1) * batch + batch
      BY <3>1
    <3>3. c + batch <= b
      BY <2>1, <2>2, <3>2
    <3>. QED
      BY <2>4, <3>3
  <2>7. i = h
    BY <2>5, <2>6
  <2>8. k = l
    BY <2>1, <2>2, <2>4, <2>7
  <2>. QED
    BY <2>1, <2>2, <2>7, <2>8
<1>9. ASSUME NEW j \in 1 .. len
      PROVE  \E v \in ValuesOf(p) : Address(p, v) = candidates[j]
  <2>1. PICK h \in Int, r \in 0 .. batch - 1 : j - 1 = batch * h + r
    <3>1. PICK t \in Nat : t = j - 1
      OBVIOUS
    <3>2. t \div batch \in Int /\ t % batch \in 0 .. batch - 1
      OBVIOUS
    <3>3. PICK h \in Int, r \in 0 .. batch - 1 : t \div batch = h /\ t % batch = r
      BY <3>2
    <3>4. t = batch * h + r
      BY <3>3
    <3>. QED
      BY <3>1, <3>4
  <2>2. h \in Nat
    <3>1. SUFFICES ASSUME h < 0 PROVE FALSE
      OBVIOUS
    <3>2. batch * h <= batch * (-1)
      BY <3>1
    <3>. QED
      BY <2>1, <3>2
  <2>3. PICK b \in Nat : b = h * batch /\ j = b + r + 1
    BY <2>1, <2>2
  <2>4. h + 1 \in 1 .. m
    <3>1. SUFFICES ASSUME m <= h PROVE FALSE
      BY <2>2
    <3>2. m * batch <= h * batch
      BY <2>2, <3>1
    <3>. QED
      BY <1>2, <2>3, <3>2
  <2>5. PICK i \in 1 .. m : i = h + 1 /\ i - 1 = h
    BY <2>2, <2>4
  <2>6. PICK c \in Nat, n \in 0 .. batch :
               /\ c = (i - 1) * batch /\ c + n <= len /\ (n = batch \/ c + n = len)
               /\ p.items[i] \in [at : Seq(Int), bytes : SUBSET Int] /\ DOMAIN p.items[i].at = 1 .. n
               /\ \A k \in 1 .. n : p.items[i].at[k] = candidates[c + k]
    BY <1>4
  <2>7. c = b
    BY <2>3, <2>5, <2>6
  <2>8. r + 1 \in 1 .. n /\ c + (r + 1) = j
    <3>1. c + n <= len /\ (n = batch \/ c + n = len) /\ j = c + r + 1
      BY <2>3, <2>6, <2>7
    <3>. QED
      BY <3>1
  <2>9. <<i, r + 1>> \in ValuesOf(p)
    BY <1>6, <2>6, <2>8
  <2>10. Address(p, <<i, r + 1>>) = candidates[j]
    BY <2>6, <2>8 DEF Address
  <2>. QED
    BY <2>9, <2>10
<1>10. p.targets = {Address(p, v) : v \in ValuesOf(p)}
  <2>1. ASSUME NEW x PROVE x \in ToSet(candidates) <=> \E j \in 1 .. len : x = candidates[j]
    BY <1>1 DEF ToSet
  <2>2. ASSUME NEW x \in ToSet(candidates) PROVE \E v \in ValuesOf(p) : Address(p, v) = x
    BY <1>9, <2>1
  <2>3. ASSUME NEW v \in ValuesOf(p) PROVE Address(p, v) \in ToSet(candidates)
    BY <1>1, <1>7, <2>1
  <2>. QED
    BY <1>3, <2>2, <2>3
<1>11. p.kind = "next" /\ p.width \in Nat \ {0} /\ {p.reach, p.work} \subseteq Nat /\ p.width <= p.reach + 1
  BY <1>3
<1>12. WellFormed(p)
  BY <1>5, <1>8, <1>10, <1>11 DEF WellFormed
<1>. QED
  BY <1>12 DEF p

-----------------------------------------------------------------------------
(***************************************************************************)
(* One scan                                                                *)
(***************************************************************************)

Stages == {"none", "loop", "read", "evaluate", "reserve", "flag", "send", "finish", "done"}
Comparing == {"evaluate", "reserve", "flag"}

EngineShape ==
  /\ plan \in Plans /\ mistyped \in BOOLEAN /\ unreadable \in Holes
  /\ always \subseteq matching /\ matching \subseteq ever
  /\ cancelling \in BOOLEAN /\ stop \in BOOLEAN /\ truncated = stop
  /\ accepted \in Nat /\ nextItem \in Nat \ {0}
  /\ stage \in [Threads -> Stages]
  /\ item \in [Threads -> Nat] /\ at \in [Threads -> Nat]
  /\ buffer \in [Threads -> SUBSET ever]
  /\ local \in [Threads -> Seq(Int)]
  /\ failed \in [Threads -> BOOLEAN]
  /\ caller \in {"start", "drain", "join", "done"}

Engaged(w) == stage[w] \in Comparing \cup {"read", "send"}

\* No two workers are in one item.
Dealt ==
  \A w \in Threads : Engaged(w) =>
    /\ item[w] \in DOMAIN plan.items /\ item[w] < nextItem
    /\ at[w] \in 1 .. Len(Item(w).at) + 1
    /\ stage[w] = "reserve" => at[w] <= Len(Item(w).at)
    /\ stage[w] = "read" => plan.kind = "first" /\ at[w] = 1
    /\ \A u \in Threads \ {w} : Engaged(u) => item[u] # item[w]

Intact(a) == (a .. a + plan.width - 1) \cap unreadable = {}

\* What a chunk's buffer says of the addresses is so, or was.
Buffered ==
  \A w \in Threads :
    /\ plan.kind = "first" /\ stage[w] \in Comparing =>
         /\ Item(w).bytes \cap unreadable = {}
         /\ always \cap ToSet(Item(w).at) \subseteq buffer[w]
    /\ stage[w] = "reserve" => Here(w) \in ever /\ Intact(Here(w))

\* Nobody will come to this value again.
Past(v) ==
  /\ v[1] < nextItem
  /\ \A u \in Threads : Engaged(u) /\ item[u] = v[1] => v[2] < at[u]

\* A result is a value of the plan, and is there once.
Taken ==
  /\ \A w \in Threads : \A n \in DOMAIN local[w] :
       /\ local[w][n] \in ever /\ Intact(local[w][n])
       /\ \E v \in ValuesOf(plan) : Address(plan, v) = local[w][n] /\ Past(v)
  /\ \A p, q \in Merged : local[p[1]][p[2]] = local[q[1]][q[2]] => p = q

Limited ==
  /\ IsFiniteSet(Merged)
  /\ Cardinality(Merged) = IF accepted < MaxResults THEN accepted ELSE MaxResults
  /\ stop \/ (\E w \in Threads : stage[w] = "flag") <=> accepted >= MaxResults

Owed(v) ==
  \/ Address(plan, v) \in Found
  \/ \E w \in Threads :
       /\ item[w] = v[1]
       /\ stage[w] = "read" \/ (stage[w] \in Comparing /\ at[w] <= v[2])

\* Nothing that was dealt is dropped.
Handled ==
  (~cancelling /\ accepted < MaxResults /\ \A w \in Threads : ~failed[w]) =>
    \A v \in ValuesOf(plan) :
      v[1] < nextItem /\ Address(plan, v) \in always /\ Undisturbed(Address(plan, v)) => Owed(v)

Ended ==
  /\ caller = "start" => \A w \in Threads : stage[w] = "none" /\ ~failed[w] /\ local[w] = <<>>
  /\ caller # "done" => result = NoResult
  /\ completed = Cardinality({w \in Threads : stage[w] = "done"})
  /\ caller \in {"join", "done"} => \A w \in Crew : stage[w] = "done"
  /\ caller = "join" => \E w \in Threads : stage[w] = "done"
  /\ \A w \in Threads : failed[w] => stage[w] # "none"
  /\ \A w \in Threads : stage[w] \in {"finish", "done"} /\ ~failed[w] /\ ~Halted => nextItem > Len(plan.items)

EngineInv ==
  /\ EngineShape /\ Dealt /\ Buffered /\ Taken /\ Limited /\ Handled /\ Ended /\ Exact

-----------------------------------------------------------------------------
LEMMA ElementIs ==
  ASSUME NEW S, NEW s \in Seq(S)
  PROVE  /\ DOMAIN s = 1 .. Len(s) /\ Len(s) \in Nat
         /\ \A i \in DOMAIN s : s[i] \in S /\ i \in Nat
OBVIOUS

LEMMA PlanIs ==
  ASSUME plan \in Plans
  PROVE  /\ plan.kind \in {"first", "next"} /\ plan.width \in Nat \ {0} /\ plan.reach \in Nat
         /\ DOMAIN plan.items = 1 .. Len(plan.items) /\ Len(plan.items) \in Nat
         /\ \A i \in DOMAIN plan.items :
              /\ plan.items[i].at \in Seq(Int) /\ plan.items[i].bytes \subseteq Int /\ i \in Nat
              /\ DOMAIN plan.items[i].at = 1 .. Len(plan.items[i].at)
         /\ plan.targets = {Address(plan, v) : v \in ValuesOf(plan)}
         /\ \A v, w \in ValuesOf(plan) : Address(plan, v) = Address(plan, w) => v = w
         /\ plan.kind = "first" => \A v \in ValuesOf(plan) :
              /\ Address(plan, v) .. Address(plan, v) + plan.width - 1 \subseteq plan.items[v[1]].bytes
              /\ plan.items[v[1]].bytes \subseteq Address(plan, v) - plan.reach .. Address(plan, v) + plan.reach
         /\ plan.kind = "next" => plan.width <= plan.reach + 1
<1>1. WellFormed(plan)
  BY EngineAssumption
<1>2. plan.reach \in Nat
  BY <1>1 DEF WellFormed
<1>3. plan.items \in Seq([at : Seq(Int), bytes : SUBSET Int])
  BY <1>1 DEF WellFormed
<1>4. /\ DOMAIN plan.items = 1 .. Len(plan.items) /\ Len(plan.items) \in Nat
      /\ \A i \in DOMAIN plan.items : plan.items[i] \in [at : Seq(Int), bytes : SUBSET Int] /\ i \in Nat
  BY <1>3, ElementIs, Zenon
<1>5. \A i \in DOMAIN plan.items : plan.items[i].at \in Seq(Int) /\ plan.items[i].bytes \subseteq Int
  BY <1>4
<1>6. \A i \in DOMAIN plan.items : DOMAIN plan.items[i].at = 1 .. Len(plan.items[i].at)
  BY <1>5, ElementIs, Zenon
<1>. QED
  BY <1>1, <1>2, <1>4, <1>5, <1>6, Zenon DEF WellFormed

LEMMA ValueIs ==
  ASSUME plan \in Plans
  PROVE  /\ \A v \in ValuesOf(plan) : /\ v[1] \in DOMAIN plan.items /\ v[1] \in Nat
                                      /\ v[2] \in DOMAIN plan.items[v[1]].at /\ v[2] \in Nat
                                      /\ Address(plan, v) = plan.items[v[1]].at[v[2]]
                                      /\ Address(plan, v) \in Int
                                      /\ Address(plan, v) \in plan.targets
         /\ \A i \in DOMAIN plan.items : \A k \in DOMAIN plan.items[i].at :
              /\ <<i, k>> \in ValuesOf(plan)
              /\ Address(plan, <<i, k>>) = plan.items[i].at[k]
<1>1. \A i \in DOMAIN plan.items : plan.items[i].at \in Seq(Int) /\ i \in Nat
  BY PlanIs
<1>2. ASSUME NEW v \in ValuesOf(plan)
      PROVE  /\ v[1] \in DOMAIN plan.items /\ v[1] \in Nat
             /\ v[2] \in DOMAIN plan.items[v[1]].at /\ v[2] \in Nat
             /\ Address(plan, v) = plan.items[v[1]].at[v[2]]
             /\ Address(plan, v) \in Int
             /\ Address(plan, v) \in plan.targets
  <2>1. PICK i \in DOMAIN plan.items : v \in {i} \X DOMAIN plan.items[i].at
    BY DEF ValuesOf
  <2>2. v[1] = i /\ v[2] \in DOMAIN plan.items[i].at
    BY <2>1
  <2>4. plan.items[i].at \in Seq(Int) /\ i \in Nat
    BY <1>1
  <2>5. v[2] \in Nat /\ plan.items[i].at[v[2]] \in Int
    <3>1. v[2] \in DOMAIN plan.items[i].at
      BY <2>2
    <3>2. \A k \in DOMAIN plan.items[i].at : k \in Nat /\ plan.items[i].at[k] \in Int
      BY <2>4, ElementIs, Zenon
    <3>. QED
      BY <3>1, <3>2, Zenon
  <2>6. Address(plan, v) \in plan.targets
    BY PlanIs, Zenon
  <2>. QED
    BY <2>2, <2>4, <2>5, <2>6 DEF Address
<1>3. ASSUME NEW i \in DOMAIN plan.items, NEW k \in DOMAIN plan.items[i].at
      PROVE  <<i, k>> \in ValuesOf(plan) /\ Address(plan, <<i, k>>) = plan.items[i].at[k]
  BY DEF ValuesOf, Address
<1>. QED
  BY <1>2, <1>3

\* Where a worker is.
LEMMA HereIs ==
  ASSUME EngineShape, Dealt, NEW w \in Threads, Engaged(w), at[w] <= Len(Item(w).at)
  PROVE  /\ <<item[w], at[w]>> \in ValuesOf(plan)
         /\ Address(plan, <<item[w], at[w]>>) = Here(w)
         /\ Here(w) \in Int
         /\ Here(w) \in ToSet(Item(w).at)
<1>1. item[w] \in DOMAIN plan.items /\ Item(w) = plan.items[item[w]] /\ at[w] \in 1 .. Len(Item(w).at) + 1
  BY DEF Dealt, Item
<1>2. Item(w).at \in Seq(Int)
  BY <1>1, PlanIs DEF EngineShape
<1>3. at[w] \in DOMAIN Item(w).at
  BY <1>1, <1>2
<1>4. /\ <<item[w], at[w]>> \in ValuesOf(plan)
      /\ Address(plan, <<item[w], at[w]>>) = plan.items[item[w]].at[at[w]]
  BY <1>1, <1>3, ValueIs DEF EngineShape
<1>5. Here(w) = Item(w).at[at[w]]
  BY DEF Here
<1>. QED
  BY <1>1, <1>2, <1>3, <1>4, <1>5 DEF ToSet

\* The result stands while only the memory's history goes on.
LEMMA ExactStays ==
  ASSUME Exact, UNCHANGED <<result, plan, unreadable>>, ever \subseteq ever', always' \subseteq always
  PROVE  Exact'
BY DEF Exact, Sound, Complete, Undisturbed

\* Workers go on through what they hold or to new items.
Onwards ==
  /\ plan \in Plans /\ nextItem \in Nat /\ nextItem' \in Nat /\ nextItem <= nextItem'
  /\ at \in [Threads -> Nat] /\ at' \in [Threads -> Nat] /\ item' \in [Threads -> Nat]
  /\ \A u \in Threads :
       Engaged(u)' => item'[u] >= nextItem \/ (Engaged(u) /\ item'[u] = item[u] /\ at'[u] >= at[u])

LEMMA PastStays == Onwards => \A v \in ValuesOf(plan) : Past(v) => Past(v)'
<1>1. SUFFICES ASSUME Onwards, NEW v \in ValuesOf(plan), Past(v) PROVE Past(v)'
  OBVIOUS
<1>2. PICK i \in Nat, k \in Nat : v[1] = i /\ v[2] = k
  BY <1>1, ValueIs DEF Onwards
<1>3. i < nextItem
  BY <1>1, <1>2, Zenon DEF Past
<1>4. ASSUME NEW u \in Threads, Engaged(u)', item'[u] = i PROVE k < at'[u]
  <2>1. item'[u] >= nextItem \/ (Engaged(u) /\ item'[u] = item[u] /\ at'[u] >= at[u])
    BY <1>1, <1>4, Zenon DEF Onwards
  <2>2. ~(item'[u] >= nextItem)
    <3>1. nextItem \in Nat
      BY <1>1 DEF Onwards
    <3>. QED
      BY <1>3, <1>4, <3>1
  <2>3. Engaged(u) /\ item[u] = i /\ at'[u] >= at[u]
    BY <1>4, <2>1, <2>2, Zenon
  <2>4. k < at[u]
    BY <1>1, <1>2, <2>3, Zenon DEF Past
  <2>5. PICK m \in Nat, o \in Nat : at[u] = m /\ at'[u] = o
    BY <1>1 DEF Onwards
  <2>. QED
    BY <2>3, <2>4, <2>5
<1>5. i < nextItem'
  BY <1>1, <1>3 DEF Onwards
<1>. QED
  BY <1>2, <1>4, <1>5, Zenon DEF Past

\* So the local results stand.
LEMMA TakenStays ==
  ASSUME Taken, Onwards, UNCHANGED <<plan, unreadable, local>>, ever \subseteq ever'
  PROVE  Taken'
<1>1. ASSUME NEW w \in Threads, NEW n \in DOMAIN local'[w]
      PROVE  /\ local'[w][n] \in ever' /\ Intact(local[w][n])'
             /\ \E v \in ValuesOf(plan)' : Address(plan, v)' = local'[w][n] /\ Past(v)'
  <2>1. local[w][n] \in ever /\ Intact(local[w][n])
    BY DEF Taken
  <2>2. PICK v \in ValuesOf(plan) : Address(plan, v) = local[w][n] /\ Past(v)
    BY DEF Taken
  <2>3. v \in ValuesOf(plan)' /\ Address(plan, v)' = local'[w][n] /\ Past(v)'
    BY <2>2, PastStays
  <2>. QED
    BY <2>1, <2>3 DEF Intact
<1>2. Merged' = Merged
  BY DEF Merged
<1>. QED
  BY <1>1, <1>2 DEF Taken

\* What is owed is still owed.
LEMMA HandledStays ==
  ASSUME Handled, UNCHANGED <<plan, unreadable>>, always' \subseteq always,
         cancelling => cancelling', accepted' < MaxResults => accepted < MaxResults,
         \A w \in Threads : failed[w] => failed'[w],
         (~cancelling' /\ accepted' < MaxResults /\ \A w \in Threads : ~failed'[w]) =>
           \A v \in ValuesOf(plan) :
             v[1] < nextItem' /\ Address(plan, v) \in always' /\ Undisturbed(Address(plan, v)) =>
               Owed(v)' \/ (v[1] < nextItem /\ (Owed(v) => Owed(v)'))
  PROVE  Handled'
<1>. SUFFICES ASSUME ~cancelling', accepted' < MaxResults, \A w \in Threads : ~failed'[w],
                     NEW v \in ValuesOf(plan)',
                     v[1] < nextItem', Address(plan, v)' \in always', Undisturbed(Address(plan, v))'
              PROVE  Owed(v)'
  BY DEF Handled
<1>1. v \in ValuesOf(plan) /\ Address(plan, v) \in always /\ Undisturbed(Address(plan, v))
  BY DEF Undisturbed
<1>2. ~cancelling /\ accepted < MaxResults /\ \A w \in Threads : ~failed[w]
  OBVIOUS
<1>3. v[1] < nextItem => Owed(v)
  BY <1>1, <1>2 DEF Handled
<1>. QED
  BY <1>1, <1>3

-----------------------------------------------------------------------------

LEMMA EngineBegins == EngineInit => EngineInv
<1>. SUFFICES ASSUME EngineInit PROVE EngineInv
  OBVIOUS
<1>1. Merged = {} /\ Found = {} /\ Crew = {}
  <2>1. \A w \in Threads : DOMAIN local[w] = {} /\ ToSet(local[w]) = {}
    BY DEF EngineInit, ToSet
  <2>. QED
    BY <2>1 DEF Merged, Found, Crew, EngineInit
<1>2. EngineShape
  <2>1. <<>> \in Seq(Int)
    OBVIOUS
  <2>2. local \in [Threads -> Seq(Int)] /\ buffer \in [Threads -> SUBSET ever]
    BY <2>1 DEF EngineInit
  <2>3. /\ stage \in [Threads -> Stages] /\ item \in [Threads -> Nat] /\ at \in [Threads -> Nat]
        /\ failed \in [Threads -> BOOLEAN]
    BY DEF EngineInit, Stages
  <2>4. /\ plan \in Plans /\ mistyped \in BOOLEAN /\ unreadable \in Holes
        /\ always \subseteq matching /\ matching \subseteq ever
        /\ cancelling \in BOOLEAN /\ stop \in BOOLEAN /\ truncated = stop
    BY DEF EngineInit
  <2>5. accepted \in Nat /\ nextItem \in Nat \ {0} /\ caller = "start"
    BY DEF EngineInit
  <2>. QED
    BY <2>2, <2>3, <2>4, <2>5 DEF EngineShape
<1>3. \A w \in Threads : ~Engaged(w) /\ stage[w] \notin Comparing
  BY DEF EngineInit, Engaged, Comparing
<1>4. Dealt /\ Buffered
  BY <1>3 DEF Dealt, Buffered, Comparing
<1>5. Taken
  BY <1>1 DEF Taken, EngineInit
<1>6. Limited
  <2>1. IsFiniteSet({}) /\ Cardinality({}) = 0
    BY FS_EmptySet
  <2>. QED
    BY <1>1, <2>1, EngineAssumption DEF Limited, EngineInit
<1>7. Handled
  <2>1. ASSUME NEW v \in ValuesOf(plan) PROVE ~(v[1] < 1)
    <3>1. v[1] \in DOMAIN plan.items
      BY <1>2, ValueIs DEF EngineShape
    <3>2. DOMAIN plan.items = 1 .. Len(plan.items) /\ Len(plan.items) \in Nat
      BY <1>2, PlanIs DEF EngineShape
    <3>. QED
      BY <3>1, <3>2
  <2>. QED
    BY <2>1 DEF Handled, EngineInit
<1>8. Ended
  <2>1. {w \in Threads : stage[w] = "done"} = {}
    BY DEF EngineInit
  <2>2. Cardinality({}) = 0
    BY FS_EmptySet
  <2>. QED
    BY <2>1, <2>2 DEF Ended, EngineInit
<1>9. Exact
  BY FS_EmptySet DEF Exact, Sound, Complete, EngineInit, NoResult
<1>. QED
  BY <1>2, <1>4, <1>5, <1>6, <1>7, <1>8, <1>9 DEF EngineInv

LEMMA FlipKeeps ==
  ASSUME EngineInv, NEW a, Flip(a)
  PROVE  EngineInv'
<1>. USE DEF EngineInv
<1>1. /\ UNCHANGED <<plan, mistyped, unreadable, cancelling, stop, truncated, accepted, nextItem>>
      /\ UNCHANGED <<stage, item, at, buffer, local, failed, caller, completed, result>>
      /\ always' \subseteq always /\ ever \subseteq ever'
      /\ always' \subseteq matching' /\ matching' \subseteq ever'
  BY DEF Flip, limitVars, threadVars, callerVars
<1>2. EngineShape'
  BY <1>1 DEF EngineShape
<1>3. Dealt'
  BY <1>1 DEF Dealt, Engaged, Item
<1>4. Buffered'
  BY <1>1 DEF Buffered, Item, Here, Intact
<1>5. Taken'
  <2>1. \A u \in Threads : Engaged(u)' => Engaged(u) /\ item'[u] = item[u] /\ at'[u] >= at[u]
    BY <1>1 DEF Engaged, EngineShape
  <2>. QED
    BY <1>1, <1>2, <2>1, TakenStays DEF Onwards, EngineInv, EngineShape
<1>6. Merged' = Merged /\ Found' = Found /\ Crew' = Crew
  BY <1>1 DEF Merged, Found, Crew
<1>7. Limited'
  BY <1>1, <1>6 DEF Limited
<1>8. Handled'
  <2>1. \A v : Owed(v) => Owed(v)'
    BY <1>1, <1>6 DEF Owed
  <2>. QED
    BY <1>1, <2>1, HandledStays
<1>9. Ended'
  BY <1>1, <1>6 DEF Ended, Halted
<1>10. Exact'
  BY <1>1, ExactStays
<1>. QED
  BY <1>2, <1>3, <1>4, <1>5, <1>7, <1>8, <1>9, <1>10

LEMMA CancelKeeps ==
  ASSUME EngineInv, CancelScan
  PROVE  EngineInv'
<1>. USE DEF EngineInv
<1>1. /\ UNCHANGED <<plan, mistyped, unreadable, matching, always, ever, stop, truncated, accepted, nextItem>>
      /\ UNCHANGED <<stage, item, at, buffer, local, failed, caller, completed, result>>
      /\ cancelling' = TRUE
  BY DEF CancelScan, memoryVars, limitVars, threadVars, callerVars
<1>2. EngineShape'
  BY <1>1 DEF EngineShape
<1>3. Dealt'
  BY <1>1 DEF Dealt, Engaged, Item
<1>4. Buffered'
  BY <1>1 DEF Buffered, Item, Here, Intact
<1>5. Taken'
  <2>1. \A u \in Threads : Engaged(u)' => Engaged(u) /\ item'[u] = item[u] /\ at'[u] >= at[u]
    BY <1>1 DEF Engaged, EngineShape
  <2>. QED
    BY <1>1, <1>2, <2>1, TakenStays DEF Onwards, EngineInv, EngineShape
<1>6. Merged' = Merged /\ Found' = Found /\ Crew' = Crew
  BY <1>1 DEF Merged, Found, Crew
<1>7. Limited'
  BY <1>1, <1>6 DEF Limited
<1>8. Handled'
  BY <1>1 DEF Handled
<1>9. Ended'
  BY <1>1, <1>6 DEF Ended, Halted
<1>10. Exact'
  BY <1>1, ExactStays
<1>. QED
  BY <1>2, <1>3, <1>4, <1>5, <1>7, <1>8, <1>9, <1>10

-----------------------------------------------------------------------------

\* A step of worker w that leaves the others where they are.
Others(w) ==
  \A u \in Threads \ {w} :
    /\ stage'[u] = stage[u] /\ item'[u] = item[u] /\ at'[u] = at[u]
    /\ buffer'[u] = buffer[u] /\ failed'[u] = failed[u]

\* While a worker runs, the caller listens.
LEMMA CallerListens ==
  ASSUME EngineInv, NEW w \in Threads, stage[w] \notin {"none", "done"}
  PROVE  caller = "drain" /\ result = NoResult
BY DEF EngineInv, EngineShape, Ended, Crew

LEMMA EndedMoves ==
  /\ EngineInv /\ EngineShape'
  /\ UNCHANGED <<plan, caller, completed, result>> /\ nextItem <= nextItem' /\ (Halted => Halted')
  => \A w \in Threads :
       (/\ Others(w) /\ stage[w] \notin {"none", "done"} /\ stage'[w] \notin {"none", "done"}
        /\ stage'[w] = "finish" => failed'[w] \/ Halted' \/ nextItem' > Len(plan.items))
       => Ended'
<1>1. SUFFICES ASSUME EngineInv, EngineShape', UNCHANGED <<plan, caller, completed, result>>,
                      nextItem <= nextItem', Halted => Halted',
                      NEW w \in Threads, Others(w), stage[w] \notin {"none", "done"},
                      stage'[w] \notin {"none", "done"},
                      stage'[w] = "finish" => failed'[w] \/ Halted' \/ nextItem' > Len(plan.items)
               PROVE  Ended'
  OBVIOUS
<1>2. caller' = "drain" /\ result' = NoResult
  BY <1>1, CallerListens
<1>3. {u \in Threads : stage'[u] = "done"} = {u \in Threads : stage[u] = "done"}
  BY <1>1 DEF Others
<1>4. completed' = Cardinality({u \in Threads : stage'[u] = "done"})
  BY <1>1, <1>3 DEF EngineInv, Ended
<1>5. \A u \in Threads : failed'[u] => stage'[u] # "none"
  BY <1>1 DEF Others, EngineInv, Ended
<1>6. ASSUME NEW u \in Threads, stage'[u] \in {"finish", "done"}, ~failed'[u], ~Halted'
      PROVE  nextItem' > Len(plan'.items)
  <2>1. CASE u = w
    BY <1>1, <1>6, <2>1
  <2>2. CASE u # w
    <3>1. nextItem > Len(plan.items)
      BY <1>1, <1>6, <2>2 DEF Others, EngineInv, Ended
    <3>2. Len(plan.items) \in Nat /\ nextItem \in Nat /\ nextItem' \in Nat
      BY <1>1, PlanIs DEF EngineInv, EngineShape
    <3>3. nextItem' > Len(plan.items)
      BY <1>1, <3>1, <3>2
    <3>. QED
      BY <1>1, <3>3
  <2>. QED
    BY <2>1, <2>2
<1>. QED
  BY <1>2, <1>4, <1>5, <1>6 DEF Ended

LEMMA DealtMoves ==
  /\ Dealt /\ EngineShape /\ EngineShape' /\ plan' = plan /\ nextItem <= nextItem'
  => \A w \in Threads :
       (/\ Others(w)
        /\ Engaged(w)' => /\ Engaged(w) /\ item'[w] = item[w]
                          /\ at'[w] \in 1 .. Len(Item(w).at) + 1
                          /\ stage'[w] = "reserve" => at'[w] <= Len(Item(w).at)
                          /\ stage'[w] # "read")
       => Dealt'
<1>1. SUFFICES ASSUME Dealt, EngineShape, EngineShape', plan' = plan, nextItem <= nextItem',
                      NEW w \in Threads, Others(w),
                      Engaged(w)' => /\ Engaged(w) /\ item'[w] = item[w]
                                     /\ at'[w] \in 1 .. Len(Item(w).at) + 1
                                     /\ stage'[w] = "reserve" => at'[w] <= Len(Item(w).at)
                                     /\ stage'[w] # "read"
               PROVE  Dealt'
  OBVIOUS
<1>2. ASSUME NEW u \in Threads, Engaged(u)' PROVE Engaged(u) /\ item'[u] = item[u] /\ Item(u)' = Item(u)
  <2>1. CASE u = w
    BY <1>1, <1>2, <2>1 DEF Item
  <2>2. CASE u # w
    BY <1>1, <1>2, <2>2 DEF Others, Engaged, Item
  <2>. QED
    BY <2>1, <2>2
<1>3. ASSUME NEW u \in Threads, Engaged(u)'
      PROVE  /\ at'[u] \in 1 .. Len(Item(u).at) + 1
             /\ stage'[u] = "reserve" => at'[u] <= Len(Item(u).at)
             /\ stage'[u] = "read" => plan'.kind = "first" /\ at'[u] = 1
  <2>1. CASE u = w
    BY <1>1, <1>3, <2>1
  <2>2. CASE u # w
    BY <1>1, <1>2, <1>3, <2>2 DEF Others, Dealt
  <2>. QED
    BY <2>1, <2>2
<1>4. ASSUME NEW u \in Threads, Engaged(u)' PROVE item'[u] \in DOMAIN plan'.items /\ item'[u] < nextItem'
  <2>1. item[u] \in DOMAIN plan.items /\ item[u] < nextItem
    BY <1>1, <1>2, <1>4 DEF Dealt
  <2>2. item[u] \in Nat /\ nextItem \in Nat /\ nextItem' \in Nat /\ nextItem <= nextItem'
    BY <1>1 DEF EngineShape
  <2>3. item[u] < nextItem'
    BY <2>1, <2>2
  <2>. QED
    BY <1>1, <1>2, <1>4, <2>1, <2>3
<1>5. ASSUME NEW u \in Threads, Engaged(u)', NEW x \in Threads \ {u}, Engaged(x)' PROVE item'[x] # item'[u]
  BY <1>1, <1>2, <1>5 DEF Dealt
<1>. QED
  BY <1>2, <1>3, <1>4, <1>5 DEF Dealt

LEMMA BufferedMoves ==
  ASSUME Buffered, NEW w \in Threads, Others(w), UNCHANGED <<plan, unreadable>>,
         always' \subseteq always, ever \subseteq ever',
         /\ plan.kind = "first" /\ stage'[w] \in Comparing =>
              /\ Item(w)'.bytes \cap unreadable = {}
              /\ always' \cap ToSet(Item(w)'.at) \subseteq buffer'[w]
         /\ stage'[w] = "reserve" => Here(w)' \in ever' /\ Intact(Here(w)')
  PROVE  Buffered'
<1>1. ASSUME NEW u \in Threads
      PROVE  /\ plan'.kind = "first" /\ stage'[u] \in Comparing =>
                  /\ Item(u)'.bytes \cap unreadable' = {}
                  /\ always' \cap ToSet(Item(u)'.at) \subseteq buffer'[u]
             /\ stage'[u] = "reserve" => Here(u)' \in ever' /\ Intact(Here(u))'
  <2>1. CASE u = w
    BY <2>1 DEF Intact
  <2>2. CASE u # w
    <3>1. Item(u)' = Item(u) /\ Here(u)' = Here(u) /\ stage'[u] = stage[u] /\ buffer'[u] = buffer[u]
      BY <2>2 DEF Others, Item, Here
    <3>. QED
      BY <3>1 DEF Buffered, Intact
  <2>. QED
    BY <2>1, <2>2
<1>. QED
  BY <1>1 DEF Buffered

\* The limit's books, when no place is given.
LEMMA LimitedMoves ==
  ASSUME Limited, NEW w \in Threads, Others(w), UNCHANGED <<local, accepted, stop>>,
         stage[w] = "flag" <=> stage'[w] = "flag"
  PROVE  Limited'
<1>1. Merged' = Merged
  BY DEF Merged
<1>2. \A u \in Threads : stage[u] = "flag" <=> stage'[u] = "flag"
  BY DEF Others
<1>. QED
  BY <1>1, <1>2 DEF Limited

LEMMA FetchKeeps ==
  ASSUME EngineInv, NEW w \in Threads, Fetch(w)
  PROVE  EngineInv'
<1>1. /\ UNCHANGED <<plan, mistyped, unreadable, matching, always, ever, cancelling, stop, truncated, accepted>>
      /\ UNCHANGED <<buffer, local, failed, caller, completed, result>>
      /\ stage[w] = "loop" /\ ~Engaged(w)
      /\ Halted' = Halted
  BY DEF Fetch, memoryVars, limitVars, callerVars, Halted, Engaged, Comparing
<1>2. EngineShape /\ stage \in [Threads -> Stages] /\ item \in [Threads -> Nat] /\ at \in [Threads -> Nat]
  BY DEF EngineInv, EngineShape
<1>3. /\ DOMAIN plan.items = 1 .. Len(plan.items) /\ Len(plan.items) \in Nat
      /\ nextItem \in Nat \ {0}
  BY <1>2, PlanIs DEF EngineShape
<1>4. Exact'
  BY <1>1, ExactStays DEF EngineInv
<1>5. Merged' = Merged /\ Found' = Found
  BY <1>1 DEF Merged, Found
<1>6. CASE stage' = [stage EXCEPT ![w] = "finish"] /\ UNCHANGED <<item, at>>
            /\ \/ Halted /\ nextItem' = nextItem
               \/ nextItem > Len(plan.items) /\ nextItem' = nextItem + 1
  <2>1. nextItem' \in Nat \ {0} /\ nextItem <= nextItem'
    BY <1>3, <1>6
  <2>2. Others(w) /\ stage'[w] = "finish" /\ stage' \in [Threads -> Stages]
    BY <1>1, <1>2, <1>6 DEF Others, Stages
  <2>3. EngineShape'
    BY <1>1, <1>2, <1>6, <2>1, <2>2 DEF EngineShape
  <2>4. ~Engaged(w)' /\ stage'[w] \notin Comparing
    BY <2>2 DEF Engaged, Comparing
  <2>5. Dealt'
    BY <1>1, <1>2, <2>1, <2>2, <2>3, <2>4, DealtMoves DEF EngineInv
  <2>6. Buffered'
    BY <1>1, <2>2, <2>4, BufferedMoves DEF EngineInv
  <2>7. Taken'
    <3>1. \A u \in Threads : Engaged(u)' => Engaged(u) /\ item'[u] = item[u] /\ at'[u] >= at[u]
      BY <1>2, <1>6, <2>2, <2>4 DEF Engaged, Others
    <3>. QED
      BY <1>1, <1>2, <1>6, <2>1, <2>3, <3>1, TakenStays DEF Onwards, EngineInv, EngineShape
  <2>8. Limited'
    BY <1>1, <2>2, LimitedMoves DEF EngineInv
  <2>9. Handled'
    <3>1. \A v : Owed(v) => Owed(v)'
      BY <1>1, <1>5, <1>6, <2>2 DEF Owed, Others, Comparing
    <3>2. ASSUME NEW v \in ValuesOf(plan), v[1] < nextItem' PROVE Halted \/ v[1] < nextItem
      <4>1. v[1] \in DOMAIN plan.items
        BY <1>2, ValueIs DEF EngineShape
      <4>2. PICK i \in 1 .. Len(plan.items) : v[1] = i
        BY <1>3, <4>1
      <4>3. nextItem' = nextItem \/ i < nextItem
        BY <1>3, <1>6
      <4>. QED
        BY <3>2, <4>2, <4>3
    <3>3. Halted => cancelling \/ ~(accepted < MaxResults)
      BY EngineAssumption DEF Halted, EngineInv, Limited, EngineShape
    <3>. QED
      BY <1>1, <3>1, <3>2, <3>3, HandledStays DEF EngineInv
  <2>10. Ended'
    <3>1. stage'[w] = "finish" => Halted' \/ nextItem' > Len(plan.items)
      BY <1>1, <1>3, <1>6
    <3>. QED
      BY <1>1, <2>1, <2>2, <2>3, <3>1, EndedMoves
  <2>. QED
    BY <1>4, <2>3, <2>5, <2>6, <2>7, <2>8, <2>9, <2>10 DEF EngineInv
<1>7. CASE /\ nextItem \in DOMAIN plan.items /\ nextItem' = nextItem + 1
           /\ stage' = [stage EXCEPT ![w] = IF plan.kind = "first" THEN "read" ELSE "evaluate"]
           /\ item' = [item EXCEPT ![w] = nextItem] /\ at' = [at EXCEPT ![w] = 1]
  <2>1. nextItem' \in Nat \ {0} /\ nextItem <= nextItem' /\ nextItem < nextItem'
    BY <1>3, <1>7
  <2>2. /\ Others(w) /\ stage'[w] = IF plan.kind = "first" THEN "read" ELSE "evaluate"
        /\ item'[w] = nextItem /\ at'[w] = 1 /\ stage'[w] \notin {"none", "done", "finish", "reserve", "flag"}
        /\ stage' \in [Threads -> Stages] /\ item' \in [Threads -> Nat] /\ at' \in [Threads -> Nat]
    BY <1>1, <1>2, <1>3, <1>7 DEF Others, Stages
  <2>3. EngineShape'
    BY <1>1, <1>2, <2>1, <2>2 DEF EngineShape
  <2>4. /\ \A u \in Threads \ {w} : Engaged(u)' => Engaged(u) /\ item'[u] = item[u] /\ at'[u] = at[u]
                                                /\ stage'[u] = stage[u]
        /\ \A u \in Threads : Engaged(u) => item[u] < nextItem /\ item[u] # nextItem
    BY <1>2, <1>3, <2>2 DEF Others, Engaged, EngineInv, Dealt
  <2>5. Dealt'
    <3>1. Item(w)' = plan.items[nextItem] /\ Len(Item(w)'.at) \in Nat
      <4>1. Item(w)' = plan.items[nextItem]
        BY <1>1, <2>2 DEF Item
      <4>2. plan.items[nextItem].at \in Seq(Int)
        BY <1>2, <1>7, PlanIs DEF EngineShape
      <4>. QED
        BY <4>1, <4>2, ElementIs
    <3>2. at'[w] \in 1 .. Len(Item(w)'.at) + 1
      BY <2>2, <3>1
    <3>3. ASSUME NEW u \in Threads \ {w}, Engaged(u)'
          PROVE  /\ item'[u] \in DOMAIN plan'.items /\ item'[u] < nextItem'
                 /\ at'[u] \in 1 .. Len(Item(u)'.at) + 1
                 /\ stage'[u] = "reserve" => at'[u] <= Len(Item(u)'.at)
                 /\ stage'[u] = "read" => plan.kind = "first" /\ at'[u] = 1
      <4>1. Engaged(u) /\ Item(u)' = Item(u) /\ item'[u] = item[u] /\ at'[u] = at[u] /\ stage'[u] = stage[u]
        BY <1>1, <2>4, <3>3 DEF Item
      <4>2. item[u] < nextItem'
        <5>1. item[u] < nextItem /\ item[u] \in Nat
          BY <1>2, <4>1 DEF EngineInv, Dealt
        <5>. QED
          BY <1>3, <2>1, <5>1
      <4>. QED
        BY <1>1, <4>1, <4>2 DEF EngineInv, Dealt
    <3>4. \A u \in Threads : \A x \in Threads \ {u} : Engaged(u)' /\ Engaged(x)' => item'[x] # item'[u]
      BY <2>2, <2>4 DEF EngineInv, Dealt
    <3>. QED
      BY <1>1, <1>7, <2>1, <2>2, <3>2, <3>3, <3>4 DEF Dealt
  <2>6. Buffered'
    <3>1. ~(plan.kind = "first" /\ stage'[w] \in Comparing)
      BY <2>2 DEF Comparing
    <3>. QED
      BY <1>1, <2>2, <3>1, BufferedMoves DEF EngineInv
  <2>7. Taken'
    <3>1. ASSUME NEW u \in Threads, Engaged(u)'
          PROVE  item'[u] >= nextItem \/ (Engaged(u) /\ item'[u] = item[u] /\ at'[u] >= at[u])
      <4>1. CASE u = w
        BY <1>3, <2>2, <4>1
      <4>2. CASE u # w
        BY <1>2, <2>4, <3>1, <4>2
      <4>. QED
        BY <4>1, <4>2
    <3>. QED
      BY <1>1, <1>2, <2>1, <2>2, <3>1, TakenStays DEF Onwards, EngineInv, EngineShape
  <2>8. Limited'
    BY <1>1, <2>2, LimitedMoves DEF EngineInv
  <2>9. Handled'
    <3>1. ASSUME NEW v \in ValuesOf(plan), Owed(v) PROVE Owed(v)'
      BY <1>1, <1>5, <2>2, <3>1 DEF Owed, Others, Comparing
    <3>2. ASSUME NEW v \in ValuesOf(plan), v[1] < nextItem' PROVE v[1] < nextItem \/ Owed(v)'
      <4>1. PICK i \in Nat, k \in Nat \ {0} : v[1] = i /\ v[2] = k
        <5>1. v[1] \in Nat /\ v[2] \in DOMAIN plan.items[v[1]].at /\ v[1] \in DOMAIN plan.items
          BY <1>2, ValueIs DEF EngineShape
        <5>2. DOMAIN plan.items[v[1]].at = 1 .. Len(plan.items[v[1]].at)
          BY <1>2, <5>1, PlanIs DEF EngineShape
        <5>3. v[2] \in Nat \ {0}
          BY <5>1, <5>2
        <5>. QED
          BY <5>1, <5>3
      <4>2. i < nextItem \/ i = nextItem
        <5>1. i < nextItem'
          BY <3>2, <4>1
        <5>. QED
          BY <1>3, <1>7, <5>1
      <4>3. 1 <= k
        BY <4>1
      <4>4. i = nextItem => Owed(v)'
        BY <2>2, <4>1, <4>3 DEF Owed, Comparing
      <4>. QED
        BY <4>1, <4>2, <4>4
    <3>. QED
      BY <1>1, <3>1, <3>2, HandledStays DEF EngineInv
  <2>10. Ended'
    BY <1>1, <2>1, <2>2, <2>3, EndedMoves
  <2>. QED
    BY <1>4, <2>3, <2>5, <2>6, <2>7, <2>8, <2>9, <2>10 DEF EngineInv
<1>8. CASE Halted
  BY <1>6, <1>8 DEF Fetch, Goto
<1>9. CASE ~Halted /\ nextItem > Len(plan.items)
  BY <1>6, <1>9 DEF Fetch, Goto
<1>10. CASE ~Halted /\ ~(nextItem > Len(plan.items))
  <2>1. nextItem \in DOMAIN plan.items
    BY <1>3, <1>10
  <2>. QED
    BY <1>7, <1>10, <2>1 DEF Fetch, Goto
<1>. QED
  BY <1>8, <1>9, <1>10

LEMMA ReadKeeps ==
  ASSUME EngineInv, NEW w \in Threads, Read(w)
  PROVE  EngineInv'
<1>1. /\ UNCHANGED <<plan, mistyped, unreadable, matching, always, ever, cancelling, stop, truncated, accepted>>
      /\ UNCHANGED <<nextItem, item, at, local, failed, caller, completed, result>>
      /\ stage[w] = "read" /\ Engaged(w)
      /\ Halted' = Halted /\ nextItem <= nextItem'
  BY DEF Read, memoryVars, limitVars, callerVars, Halted, Engaged, EngineInv, EngineShape
<1>2. EngineShape /\ stage \in [Threads -> Stages] /\ buffer \in [Threads -> SUBSET ever]
  BY DEF EngineInv, EngineShape
<1>3. Exact'
  BY <1>1, ExactStays DEF EngineInv
<1>4. Merged' = Merged /\ Found' = Found
  BY <1>1 DEF Merged, Found
<1>5. \/ /\ Item(w).bytes \cap unreadable = {}
         /\ stage' = [stage EXCEPT ![w] = "evaluate"]
         /\ buffer' = [buffer EXCEPT ![w] = matching \cap ToSet(Item(w).at)]
      \/ /\ Item(w).bytes \cap unreadable # {}
         /\ stage' = [stage EXCEPT ![w] = "send"] /\ buffer' = buffer
  BY DEF Read, Goto
<1>6. /\ stage'[w] \in {"evaluate", "send"} /\ Others(w)
      /\ stage' \in [Threads -> Stages] /\ buffer' \in [Threads -> SUBSET ever]
  <2>1. matching \cap ToSet(Item(w).at) \subseteq ever
    BY <1>2 DEF EngineShape
  <2>. QED
    BY <1>1, <1>2, <1>5, <2>1 DEF Others, Stages
<1>7. EngineShape'
  BY <1>1, <1>2, <1>6 DEF EngineShape
<1>8. Dealt'
  BY <1>1, <1>2, <1>6, <1>7, DealtMoves DEF EngineInv, Dealt
<1>9. Buffered'
  <2>1. stage'[w] \in Comparing => /\ Item(w)'.bytes \cap unreadable = {}
                                   /\ always' \cap ToSet(Item(w)'.at) \subseteq buffer'[w]
    <3>1. Item(w)' = Item(w)
      BY <1>1 DEF Item
    <3>2. stage'[w] \in Comparing => stage'[w] # "send"
      BY DEF Comparing
    <3>. QED
      BY <1>1, <1>2, <1>5, <3>1, <3>2 DEF EngineShape
  <2>. QED
    BY <1>1, <1>6, <2>1, BufferedMoves DEF EngineInv
<1>10. Taken'
  <2>1. \A u \in Threads : Engaged(u)' => Engaged(u) /\ item'[u] = item[u] /\ at'[u] >= at[u]
    <3>1. \A u \in Threads : at'[u] >= at[u] /\ item'[u] = item[u]
      BY <1>1, <1>2 DEF EngineShape
    <3>2. \A u \in Threads : Engaged(u)' => Engaged(u)
      BY <1>1, <1>6 DEF Engaged, Others
    <3>. QED
      BY <3>1, <3>2
  <2>. QED
    BY <1>1, <1>2, <1>7, <2>1, TakenStays DEF Onwards, EngineInv, EngineShape
<1>11. Limited'
  BY <1>1, <1>6, LimitedMoves DEF EngineInv
<1>12. Handled'
  <2>1. ASSUME NEW v \in ValuesOf(plan), Owed(v), Address(plan, v) \in always, Undisturbed(Address(plan, v))
        PROVE  Owed(v)'
    <3>1. CASE Address(plan, v) \in Found
      BY <1>1, <1>4, <3>1 DEF Owed
    <3>2. CASE \E u \in Threads : /\ item[u] = v[1]
                                  /\ stage[u] = "read" \/ (stage[u] \in Comparing /\ at[u] <= v[2])
      <4>1. PICK u \in Threads : /\ item[u] = v[1]
                                 /\ stage[u] = "read" \/ (stage[u] \in Comparing /\ at[u] <= v[2])
        BY <3>2
      <4>2. CASE u # w
        BY <1>1, <1>6, <4>1, <4>2 DEF Owed, Others
      <4>3. CASE u = w
        <5>1. Item(w) = plan.items[v[1]]
          BY <4>1, <4>3 DEF Item
        <5>2. stage'[w] = "evaluate"
          <6>. SUFFICES ASSUME Item(w).bytes \cap unreadable # {} PROVE FALSE
            BY <1>2, <1>5 DEF EngineShape
          <6>1. plan.kind = "first"
            BY <1>1, <1>2 DEF Dealt, EngineInv
          <6>2. PICK x \in plan.items[v[1]].bytes : x \in unreadable
            BY <5>1
          <6>3. Address(plan, v) \in Int /\ plan.reach \in Nat
            BY <1>2, PlanIs, ValueIs DEF EngineShape
          <6>4. x \in Address(plan, v) - plan.reach .. Address(plan, v) + plan.reach
            BY <1>2, <6>1, <6>2, PlanIs DEF EngineShape
          <6>5. x < Address(plan, v) - plan.reach \/ x > Address(plan, v) + plan.reach
            BY <2>1, <6>2 DEF Undisturbed
          <6>. QED
            BY <6>3, <6>4, <6>5
        <5>3. at[w] = 1
          BY <1>1, <1>2 DEF Dealt, EngineInv
        <5>4. 1 <= v[2]
          <6>1. v[1] \in DOMAIN plan.items /\ v[2] \in DOMAIN plan.items[v[1]].at
            BY <1>2, ValueIs DEF EngineShape
          <6>2. DOMAIN plan.items[v[1]].at = 1 .. Len(plan.items[v[1]].at)
            BY <1>2, <6>1, PlanIs DEF EngineShape
          <6>. QED
            BY <6>1, <6>2
        <5>. QED
          BY <1>1, <4>1, <4>3, <5>2, <5>3, <5>4 DEF Owed, Comparing
      <4>. QED
        BY <4>2, <4>3
    <3>. QED
      BY <2>1, <3>1, <3>2 DEF Owed
  <2>. QED
    BY <1>1, <2>1, HandledStays DEF EngineInv
<1>13. Ended'
  BY <1>1, <1>6, <1>7, EndedMoves
<1>. QED
  BY <1>3, <1>7, <1>8, <1>9, <1>10, <1>11, <1>12, <1>13 DEF EngineInv

LEMMA FlagKeeps ==
  ASSUME EngineInv, NEW w \in Threads, Flag(w)
  PROVE  EngineInv'
<1>1. /\ UNCHANGED <<plan, mistyped, unreadable, matching, always, ever, cancelling, accepted>>
      /\ UNCHANGED <<nextItem, item, at, buffer, local, failed, caller, completed, result>>
      /\ stage[w] = "flag" /\ Engaged(w) /\ stop' = TRUE /\ truncated' = TRUE /\ Halted'
      /\ stage' = [stage EXCEPT ![w] = "evaluate"]
  BY DEF Flag, Goto, memoryVars, callerVars, Halted, Engaged, Comparing
<1>2. EngineShape /\ stage \in [Threads -> Stages] /\ nextItem <= nextItem'
  BY <1>1 DEF EngineInv, EngineShape
<1>3. Others(w) /\ stage'[w] = "evaluate" /\ stage' \in [Threads -> Stages]
  BY <1>1, <1>2 DEF Others, Stages
<1>4. EngineShape'
  BY <1>1, <1>2, <1>3 DEF EngineShape
<1>5. Exact'
  BY <1>1, ExactStays DEF EngineInv
<1>6. Merged' = Merged /\ Found' = Found
  BY <1>1 DEF Merged, Found
<1>7. Dealt'
  BY <1>1, <1>2, <1>3, <1>4, DealtMoves DEF EngineInv, Dealt
<1>8. Buffered'
  <2>1. Item(w)' = Item(w) /\ stage[w] \in Comparing
    BY <1>1 DEF Item, Comparing
  <2>. QED
    BY <1>1, <1>3, <2>1, BufferedMoves DEF EngineInv, Buffered
<1>9. Taken'
  <2>1. \A u \in Threads : Engaged(u)' => Engaged(u) /\ item'[u] = item[u] /\ at'[u] >= at[u]
    BY <1>1, <1>2, <1>3 DEF Engaged, Others, EngineShape
  <2>. QED
    BY <1>1, <1>2, <1>4, <2>1, TakenStays DEF Onwards, EngineInv, EngineShape
<1>10. Limited'
  <2>1. accepted >= MaxResults
    BY <1>1 DEF EngineInv, Limited
  <2>. QED
    BY <1>1, <1>6, <2>1 DEF EngineInv, Limited
<1>11. Handled'
  <2>1. \A v : Owed(v) => Owed(v)'
    BY <1>1, <1>3, <1>6 DEF Owed, Others, Comparing
  <2>. QED
    BY <1>1, <2>1, HandledStays DEF EngineInv
<1>12. Ended'
  BY <1>1, <1>2, <1>3, <1>4, EndedMoves
<1>. QED
  BY <1>4, <1>5, <1>7, <1>8, <1>9, <1>10, <1>11, <1>12 DEF EngineInv

LEMMA DrainProgressKeeps ==
  ASSUME EngineInv, NEW w \in Threads, DrainProgress(w)
  PROVE  EngineInv'
<1>1. /\ UNCHANGED <<plan, mistyped, unreadable, matching, always, ever, cancelling, stop, truncated, accepted>>
      /\ UNCHANGED <<nextItem, local, failed, caller, completed, result>>
      /\ stage[w] = "send" /\ Halted' = Halted
      /\ stage' = [stage EXCEPT ![w] = "loop"] /\ item' = [item EXCEPT ![w] = 0]
      /\ at' = [at EXCEPT ![w] = 0] /\ buffer' = [buffer EXCEPT ![w] = {}]
  BY DEF DrainProgress, Goto, memoryVars, limitVars, callerVars, Halted
<1>2. /\ EngineShape /\ stage \in [Threads -> Stages] /\ buffer \in [Threads -> SUBSET ever]
      /\ item \in [Threads -> Nat] /\ at \in [Threads -> Nat]
      /\ nextItem <= nextItem'
  BY <1>1 DEF EngineInv, EngineShape
<1>3. /\ Others(w) /\ stage'[w] = "loop" /\ stage' \in [Threads -> Stages]
      /\ buffer' \in [Threads -> SUBSET ever] /\ item' \in [Threads -> Nat] /\ at' \in [Threads -> Nat]
  BY <1>1, <1>2 DEF Others, Stages
<1>4. EngineShape'
  BY <1>1, <1>2, <1>3 DEF EngineShape
<1>5. Exact'
  BY <1>1, ExactStays DEF EngineInv
<1>6. Merged' = Merged /\ Found' = Found
  BY <1>1 DEF Merged, Found
<1>7. ~Engaged(w)' /\ stage'[w] \notin Comparing
  BY <1>3 DEF Engaged, Comparing
<1>8. Dealt'
  BY <1>1, <1>2, <1>3, <1>4, <1>7, DealtMoves DEF EngineInv
<1>9. Buffered'
  BY <1>1, <1>3, <1>7, BufferedMoves DEF EngineInv
<1>10. Taken'
  <2>1. \A u \in Threads : Engaged(u)' => Engaged(u) /\ item'[u] = item[u] /\ at'[u] >= at[u]
    BY <1>1, <1>2, <1>3, <1>7 DEF Engaged, Others, EngineShape
  <2>. QED
    BY <1>1, <1>2, <1>3, <1>4, <2>1, TakenStays DEF Onwards, EngineInv, EngineShape
<1>11. Limited'
  BY <1>1, <1>3, LimitedMoves DEF EngineInv
<1>12. Handled'
  <2>1. \A v : Owed(v) => Owed(v)'
    BY <1>1, <1>3, <1>6 DEF Owed, Others, Comparing
  <2>. QED
    BY <1>1, <2>1, HandledStays DEF EngineInv
<1>13. Ended'
  BY <1>1, <1>2, <1>3, <1>4, EndedMoves
<1>. QED
  BY <1>4, <1>5, <1>8, <1>9, <1>10, <1>11, <1>12, <1>13 DEF EngineInv

\* What a worker compares is what it says: the address matched, and was read.
LEMMA MatchIsTrue ==
  ASSUME EngineInv, NEW w \in Threads, stage[w] = "evaluate", at[w] <= Len(Item(w).at),
         Legible(w), Matches(w)
  PROVE  Here(w) \in ever /\ Intact(Here(w))
<1>1. Engaged(w) /\ stage[w] \in Comparing
  BY DEF Engaged, Comparing
<1>2. EngineShape /\ Dealt /\ Buffered
  BY DEF EngineInv
<1>3. /\ <<item[w], at[w]>> \in ValuesOf(plan) /\ Address(plan, <<item[w], at[w]>>) = Here(w)
      /\ Here(w) \in ToSet(Item(w).at)
  BY <1>1, <1>2, HereIs
<1>4. plan.kind \in {"first", "next"}
  BY <1>2, PlanIs DEF EngineShape
<1>5. CASE plan.kind = "first"
  <2>1. Here(w) \in ever
    BY <1>2, <1>5 DEF Matches, EngineShape
  <2>2. Item(w).bytes \cap unreadable = {}
    BY <1>1, <1>2, <1>5 DEF Buffered
  <2>3. Item(w) = plan.items[item[w]]
    BY DEF Item
  <2>4. Here(w) .. Here(w) + plan.width - 1 \subseteq Item(w).bytes
    <3>1. PICK v \in ValuesOf(plan) : v = <<item[w], at[w]>>
      BY <1>3
    <3>2. Address(plan, v) .. Address(plan, v) + plan.width - 1 \subseteq plan.items[v[1]].bytes
      BY <1>2, <1>5, PlanIs DEF EngineShape
    <3>3. v[1] = item[w] /\ Address(plan, v) = Here(w)
      BY <1>3, <3>1
    <3>. QED
      BY <2>3, <3>2, <3>3
  <2>. QED
    BY <2>1, <2>2, <2>4 DEF Intact
<1>6. CASE plan.kind = "next"
  BY <1>2, <1>6 DEF Matches, Legible, Intact, EngineShape
<1>. QED
  BY <1>4, <1>5, <1>6

\* And what it leaves out did not match all along, or lies where something is unreadable.
LEMMA MissIsTrue ==
  ASSUME EngineInv, NEW w \in Threads, stage[w] = "evaluate", at[w] <= Len(Item(w).at),
         Here(w) \in always, Undisturbed(Here(w))
  PROVE  Legible(w) /\ Matches(w)
<1>1. Engaged(w) /\ stage[w] \in Comparing
  BY DEF Engaged, Comparing
<1>2. EngineShape /\ Dealt /\ Buffered
  BY DEF EngineInv
<1>3. Here(w) \in ToSet(Item(w).at) /\ Here(w) \in Int
  BY <1>1, <1>2, HereIs
<1>4. plan.kind \in {"first", "next"}
  BY <1>2, PlanIs DEF EngineShape
<1>5. CASE plan.kind = "first"
  BY <1>1, <1>2, <1>3, <1>5 DEF Matches, Legible, Buffered
<1>6. CASE plan.kind = "next"
  <2>1. Here(w) \in matching /\ plan.kind # "first"
    BY <1>2, <1>6 DEF EngineShape
  <2>2. plan.width \in Nat /\ plan.reach \in Nat /\ plan.width <= plan.reach + 1
    BY <1>2, <1>6, PlanIs DEF EngineShape
  <2>3. (Here(w) .. Here(w) + plan.width - 1) \cap unreadable = {}
    <3>1. SUFFICES ASSUME NEW x \in Here(w) .. Here(w) + plan.width - 1, x \in unreadable PROVE FALSE
      OBVIOUS
    <3>2. x < Here(w) - plan.reach \/ x > Here(w) + plan.reach
      BY <3>1 DEF Undisturbed
    <3>3. PICK h \in Int, width \in Nat, reach \in Nat :
            h = Here(w) /\ width = plan.width /\ reach = plan.reach
      BY <1>3, <2>2
    <3>4. x \in h .. h + width - 1 /\ (x < h - reach \/ x > h + reach) /\ width <= reach + 1
      BY <2>2, <3>1, <3>2, <3>3, Zenon
    <3>. QED
      BY <3>4
  <2>. QED
    BY <2>1, <2>3 DEF Matches, Legible
<1>. QED
  BY <1>4, <1>5, <1>6

LEMMA EvaluateKeeps ==
  ASSUME EngineInv, NEW w \in Threads, Evaluate(w)
  PROVE  EngineInv'
<1>1. /\ UNCHANGED <<plan, mistyped, unreadable, matching, always, ever, cancelling, stop, truncated, accepted>>
      /\ UNCHANGED <<nextItem, item, buffer, local, caller, completed, result>>
      /\ stage[w] = "evaluate" /\ Engaged(w) /\ stage[w] \in Comparing
      /\ Halted' = Halted
  BY DEF Evaluate, memoryVars, limitVars, callerVars, Halted, Engaged, Comparing
<1>2. /\ EngineShape /\ stage \in [Threads -> Stages] /\ at \in [Threads -> Nat]
      /\ failed \in [Threads -> BOOLEAN]
      /\ nextItem <= nextItem' /\ at[w] \in Nat
  BY <1>1 DEF EngineInv, EngineShape
<1>3. Exact'
  BY <1>1, ExactStays DEF EngineInv
<1>4. Merged' = Merged /\ Found' = Found
  BY <1>1 DEF Merged, Found
<1>5. /\ item[w] \in DOMAIN plan.items /\ at[w] \in 1 .. Len(Item(w).at) + 1
      /\ Item(w) = plan.items[item[w]] /\ Len(Item(w).at) \in Nat
      /\ Item(w)' = Item(w)
  <2>1. item[w] \in DOMAIN plan.items /\ at[w] \in 1 .. Len(Item(w).at) + 1 /\ Item(w) = plan.items[item[w]]
    BY <1>1 DEF EngineInv, Dealt, Item
  <2>2. Item(w).at \in Seq(Int)
    BY <1>2, <2>1, PlanIs DEF EngineShape
  <2>3. Item(w)' = Item(w)
    BY <1>1 DEF Item
  <2>. QED
    BY <2>1, <2>2, <2>3, ElementIs
<1>6. \/ /\ at[w] > Len(Item(w).at) \/ Halted
         /\ stage' = [stage EXCEPT ![w] = "send"] /\ at' = at /\ failed' = failed
      \/ /\ ~(at[w] > Len(Item(w).at))
         /\ stage' = [stage EXCEPT ![w] = "finish"] /\ at' = at /\ failed' = [failed EXCEPT ![w] = TRUE]
      \/ /\ ~(at[w] > Len(Item(w).at)) /\ Legible(w) /\ Matches(w)
         /\ stage' = [stage EXCEPT ![w] = "reserve"] /\ at' = at /\ failed' = failed
      \/ /\ ~(at[w] > Len(Item(w).at)) /\ ~(Legible(w) /\ Matches(w))
         /\ stage' = stage /\ at' = [at EXCEPT ![w] = at[w] + 1] /\ failed' = failed
  BY DEF Evaluate, Goto
<1>7. /\ Others(w) /\ stage' \in [Threads -> Stages] /\ failed' \in [Threads -> BOOLEAN]
      /\ stage'[w] \in {"send", "finish", "reserve", "evaluate"}
      /\ \A u \in Threads : failed[u] => failed'[u]
      /\ stage'[w] = "finish" => failed'[w]
  BY <1>1, <1>2, <1>6 DEF Others, Stages
<1>8. at' \in [Threads -> Nat] /\ \A u \in Threads : at'[u] >= at[u]
  <2>1. at[w] + 1 \in Nat /\ at[w] + 1 >= at[w] /\ \A u \in Threads : at[u] >= at[u]
    BY <1>2
  <2>. QED
    BY <1>2, <1>6, <2>1
<1>9. EngineShape'
  BY <1>1, <1>2, <1>7, <1>8 DEF EngineShape
<1>10. at'[w] \in 1 .. Len(Item(w).at) + 1 /\ (stage'[w] = "reserve" => at'[w] <= Len(Item(w).at))
  <2>1. CASE at' = at
    BY <1>1, <1>2, <1>5, <1>6, <2>1
  <2>2. CASE stage' = stage /\ at' = [at EXCEPT ![w] = at[w] + 1] /\ ~(at[w] > Len(Item(w).at))
    <3>1. at'[w] = at[w] + 1 /\ stage'[w] = "evaluate"
      BY <1>1, <1>2, <2>2
    <3>2. at[w] + 1 \in 1 .. Len(Item(w).at) + 1
      BY <1>5, <2>2
    <3>. QED
      BY <3>1, <3>2
  <2>. QED
    BY <1>6, <2>1, <2>2
<1>11. Dealt'
  BY <1>1, <1>2, <1>7, <1>9, <1>10, DealtMoves DEF EngineInv
<1>12. Buffered'
  <2>1. stage'[w] = "reserve" => Here(w)' \in ever' /\ Intact(Here(w)')
    <3>. SUFFICES ASSUME stage'[w] = "reserve" PROVE Here(w)' \in ever' /\ Intact(Here(w)')
      OBVIOUS
    <3>1. ~(at[w] > Len(Item(w).at)) /\ Legible(w) /\ Matches(w) /\ at' = at
      BY <1>1, <1>2, <1>6
    <3>2. at[w] <= Len(Item(w).at)
      BY <1>2, <1>5, <3>1
    <3>3. Here(w) \in ever /\ Intact(Here(w))
      BY <1>1, <3>1, <3>2, MatchIsTrue
    <3>4. Here(w)' = Here(w)
      BY <1>5, <3>1 DEF Here
    <3>. QED
      BY <1>1, <3>3, <3>4
  <2>. QED
    BY <1>1, <1>5, <1>7, <2>1, BufferedMoves DEF EngineInv, Buffered
<1>13. Taken'
  <2>1. \A u \in Threads : Engaged(u)' => Engaged(u)
    BY <1>1, <1>7 DEF Engaged, Others
  <2>. QED
    BY <1>1, <1>2, <1>8, <1>9, <2>1, TakenStays DEF Onwards, EngineInv, EngineShape
<1>14. Limited'
  BY <1>1, <1>7, LimitedMoves DEF EngineInv
<1>15. Handled'
  <2>1. Halted => cancelling \/ ~(accepted < MaxResults)
    BY EngineAssumption DEF Halted, EngineInv, Limited, EngineShape
  <2>2. ASSUME NEW v \in ValuesOf(plan), Owed(v), Address(plan, v) \in always, Undisturbed(Address(plan, v)),
               ~Halted, ~failed'[w]
        PROVE  Owed(v)'
    <3>1. CASE Address(plan, v) \in Found
      BY <1>1, <1>4, <3>1 DEF Owed
    <3>2. CASE \E u \in Threads : /\ item[u] = v[1]
                                  /\ stage[u] = "read" \/ (stage[u] \in Comparing /\ at[u] <= v[2])
      <4>1. PICK u \in Threads : /\ item[u] = v[1]
                                 /\ stage[u] = "read" \/ (stage[u] \in Comparing /\ at[u] <= v[2])
        BY <3>2
      <4>2. CASE u # w
        BY <1>1, <1>7, <4>1, <4>2 DEF Owed, Others
      <4>3. CASE u = w
        <5>1. item[w] = v[1] /\ at[w] <= v[2]
          BY <1>1, <4>1, <4>3
        <5>2. v[1] \in DOMAIN plan.items /\ v[2] \in DOMAIN plan.items[v[1]].at /\ v[2] \in Nat
              /\ Address(plan, v) = plan.items[v[1]].at[v[2]]
          BY <1>2, ValueIs DEF EngineShape
        <5>3. v[2] <= Len(Item(w).at)
          <6>1. DOMAIN plan.items[v[1]].at = 1 .. Len(plan.items[v[1]].at)
            BY <1>2, <5>2, PlanIs DEF EngineShape
          <6>. QED
            BY <1>5, <5>1, <5>2, <6>1
        <5>4. ~(at[w] > Len(Item(w).at))
          BY <1>2, <1>5, <5>1, <5>2, <5>3
        <5>5. CASE stage' = [stage EXCEPT ![w] = "reserve"] /\ at' = at
          <6>1. stage'[w] = "reserve"
            BY <1>2, <5>5
          <6>. QED
            BY <1>1, <5>1, <5>5, <6>1 DEF Owed, Comparing
        <5>6. CASE /\ ~(Legible(w) /\ Matches(w)) /\ stage' = stage
                   /\ at' = [at EXCEPT ![w] = at[w] + 1]
          <6>1. at[w] # v[2]
            <7>. SUFFICES ASSUME at[w] = v[2] PROVE FALSE
              OBVIOUS
            <7>1. Here(w) = Address(plan, v)
              BY <1>5, <5>1, <5>2 DEF Here
            <7>2. at[w] <= Len(Item(w).at)
              BY <5>3
            <7>. QED
              BY <1>1, <2>2, <5>6, <7>1, <7>2, MissIsTrue
          <6>2. at'[w] <= v[2]
            <7>1. at[w] + 1 <= v[2]
              BY <1>2, <5>1, <5>2, <6>1
            <7>. QED
              BY <1>2, <5>6, <7>1
          <6>. QED
            BY <1>1, <5>1, <5>6, <6>2 DEF Owed
        <5>. QED
          BY <1>2, <1>6, <2>2, <5>4, <5>5, <5>6
      <4>. QED
        BY <4>2, <4>3
    <3>. QED
      BY <2>2, <3>1, <3>2 DEF Owed
  <2>. QED
    BY <1>1, <1>7, <2>1, <2>2, HandledStays DEF EngineInv
<1>16. Ended'
  BY <1>1, <1>2, <1>7, <1>9, EndedMoves
<1>. QED
  BY <1>3, <1>9, <1>11, <1>12, <1>13, <1>14, <1>15, <1>16 DEF EngineInv

\* One more result of worker w.
LEMMA OneMore ==
  ASSUME local \in [Threads -> Seq(Int)], NEW w \in Threads, NEW x \in Int,
         local' = [local EXCEPT ![w] = Append(local[w], x)]
  PROVE  /\ local' \in [Threads -> Seq(Int)]
         /\ \A u \in Threads : \A n \in DOMAIN local[u] : n \in DOMAIN local'[u] /\ local'[u][n] = local[u][n]
         /\ \E m : /\ Merged' = Merged \cup {<<w, m>>} /\ <<w, m>> \notin Merged
                   /\ m \in DOMAIN local'[w] /\ local'[w][m] = x
                   /\ \A u \in Threads : \A n \in DOMAIN local'[u] : n \in DOMAIN local[u] \/ <<u, n>> = <<w, m>>
         /\ Found' = Found \cup {x}
<1>1. PICK s \in Seq(Int) : s = local[w]
  OBVIOUS
<1>2. PICK m : m = Len(s) + 1
  OBVIOUS
<1>3. /\ Append(s, x) \in Seq(Int)
      /\ DOMAIN Append(s, x) = DOMAIN s \cup {m} /\ m \notin DOMAIN s
      /\ \A n \in DOMAIN s : Append(s, x)[n] = s[n]
      /\ Append(s, x)[m] = x
  BY <1>2
<1>4. local' \in [Threads -> Seq(Int)] /\ local'[w] = Append(s, x) /\ \A u \in Threads \ {w} : local'[u] = local[u]
  BY <1>1, <1>3
<1>5. \A u \in Threads : \A n \in DOMAIN local[u] : n \in DOMAIN local'[u] /\ local'[u][n] = local[u][n]
  BY <1>1, <1>3, <1>4
<1>6. Merged' = Merged \cup {<<w, m>>}
  <2>1. \A u \in Threads : {u} \X DOMAIN local'[u] =
                             IF u = w THEN ({u} \X DOMAIN local[u]) \cup {<<w, m>>} ELSE {u} \X DOMAIN local[u]
    BY <1>1, <1>3, <1>4
  <2>. QED
    BY <2>1 DEF Merged
<1>7. <<w, m>> \notin Merged
  BY <1>1, <1>3 DEF Merged
<1>8. \A u \in Threads : \A n \in DOMAIN local'[u] : n \in DOMAIN local[u] \/ <<u, n>> = <<w, m>>
  BY <1>1, <1>3, <1>4
<1>9. Found' = Found \cup {x}
  <2>1. ToSet(local'[w]) = ToSet(local[w]) \cup {x}
    BY <1>1, <1>3, <1>4 DEF ToSet
  <2>2. \A u \in Threads \ {w} : ToSet(local'[u]) = ToSet(local[u])
    BY <1>4 DEF ToSet
  <2>. QED
    BY <2>1, <2>2, SMTT(30) DEF Found
<1>. QED
  BY <1>3, <1>4, <1>5, <1>6, <1>7, <1>8, <1>9

LEMMA MergedIs ==
  /\ \A p \in Merged : p[1] \in Threads /\ p[2] \in DOMAIN local[p[1]] /\ p = <<p[1], p[2]>>
  /\ \A w \in Threads : \A n \in DOMAIN local[w] : <<w, n>> \in Merged
BY DEF Merged

LEMMA ReserveKeeps ==
  ASSUME EngineInv, NEW w \in Threads, Reserve(w)
  PROVE  EngineInv'
<1>1. /\ UNCHANGED <<plan, mistyped, unreadable, matching, always, ever, cancelling, stop, truncated>>
      /\ UNCHANGED <<nextItem, item, buffer, failed, caller, completed, result>>
      /\ stage[w] = "reserve" /\ Engaged(w) /\ stage[w] \in Comparing
      /\ Halted' = Halted /\ accepted' = accepted + 1
      /\ at' = [at EXCEPT ![w] = at[w] + 1]
      /\ stage' = [stage EXCEPT ![w] = IF accepted + 1 >= MaxResults THEN "flag" ELSE "evaluate"]
      /\ local' = [local EXCEPT ![w] = IF accepted < MaxResults THEN Append(local[w], Here(w)) ELSE local[w]]
  BY DEF Reserve, Goto, memoryVars, callerVars, Halted, Engaged, Comparing
<1>2. /\ EngineShape /\ stage \in [Threads -> Stages] /\ at \in [Threads -> Nat]
      /\ local \in [Threads -> Seq(Int)] /\ accepted \in Nat /\ accepted' \in Nat
      /\ MaxResults \in Nat \ {0} /\ nextItem <= nextItem' /\ at[w] \in Nat
  BY <1>1, EngineAssumption DEF EngineInv, EngineShape
<1>3. Exact'
  BY <1>1, ExactStays DEF EngineInv
<1>4. /\ item[w] \in DOMAIN plan.items /\ at[w] \in 1 .. Len(Item(w).at) + 1 /\ at[w] <= Len(Item(w).at)
      /\ Item(w)' = Item(w)
  BY <1>1 DEF EngineInv, Dealt, Item
<1>5. /\ Others(w) /\ stage' \in [Threads -> Stages]
      /\ stage'[w] = IF accepted' >= MaxResults THEN "flag" ELSE "evaluate"
      /\ at'[w] = at[w] + 1
  BY <1>1, <1>2 DEF Others, Stages
<1>6. at' \in [Threads -> Nat] /\ \A u \in Threads : at'[u] >= at[u]
  <2>1. at[w] + 1 \in Nat /\ at[w] + 1 >= at[w] /\ \A u \in Threads : at[u] >= at[u]
    BY <1>2
  <2>. QED
    BY <1>1, <1>2, <2>1
<1>7. /\ Here(w) \in Int /\ Here(w) \in ever /\ Intact(Here(w))
      /\ <<item[w], at[w]>> \in ValuesOf(plan) /\ Address(plan, <<item[w], at[w]>>) = Here(w)
  BY <1>1, <1>2, <1>4, HereIs DEF EngineInv, Buffered
<1>8. local' \in [Threads -> Seq(Int)]
  <2>1. CASE accepted < MaxResults
    <3>1. local' = [local EXCEPT ![w] = Append(local[w], Here(w))]
      BY <1>1, <2>1
    <3>. QED
      BY <1>2, <1>7, <3>1, OneMore
  <2>2. CASE ~(accepted < MaxResults)
    BY <1>1, <1>2, <2>2
  <2>. QED
    BY <2>1, <2>2
<1>9. EngineShape'
  BY <1>1, <1>2, <1>5, <1>6, <1>8 DEF EngineShape
<1>10. Dealt'
  <2>1. at'[w] \in 1 .. Len(Item(w).at) + 1
    <3>1. PICK n : n = Len(Item(w).at)
      OBVIOUS
    <3>2. at[w] \in 1 .. n + 1 /\ at[w] <= n
      BY <1>4, <3>1
    <3>3. n \in Int
      <4>1. Item(w).at \in Seq(Int)
        BY <1>2, <1>4, PlanIs DEF EngineShape, Item
      <4>. QED
        BY <3>1, <4>1, ElementIs
    <3>4. at[w] + 1 \in 1 .. n + 1
      BY <1>2, <3>2, <3>3
    <3>. QED
      BY <1>5, <3>1, <3>4
  <2>. QED
    BY <1>1, <1>2, <1>5, <1>9, <2>1, DealtMoves DEF EngineInv
<1>11. Buffered'
  BY <1>1, <1>4, <1>5, BufferedMoves DEF EngineInv, Buffered
<1>12. Onwards
  <2>1. \A u \in Threads : Engaged(u)' => Engaged(u)
    BY <1>1, <1>5 DEF Engaged, Others
  <2>. QED
    BY <1>1, <1>2, <1>6, <1>9, <2>1 DEF Onwards, EngineShape
<1>13. /\ \A u \in Threads : stage[u] = "flag" => stage'[u] = "flag"
       /\ \A u \in Threads : stage'[u] = "flag" => stage[u] = "flag" \/ accepted' >= MaxResults
  BY <1>1, <1>5 DEF Others
<1>14. /\ IsFiniteSet(Merged)
       /\ Cardinality(Merged) = IF accepted < MaxResults THEN accepted ELSE MaxResults
       /\ stop \/ (\E u \in Threads : stage[u] = "flag") <=> accepted >= MaxResults
  BY DEF EngineInv, Limited
<1>15. stop' \/ (\E u \in Threads : stage'[u] = "flag") <=> accepted' >= MaxResults
  <2>1. accepted >= MaxResults => accepted' >= MaxResults
    BY <1>1, <1>2
  <2>. QED
    BY <1>1, <1>5, <1>13, <1>14, <2>1
<1>16. Ended'
  <2>1. stage'[w] \notin {"none", "done", "finish"}
    BY <1>5
  <2>. QED
    BY <1>1, <1>2, <1>5, <1>9, <2>1, EndedMoves
<1>17. CASE accepted < MaxResults
  <2>1. local' = [local EXCEPT ![w] = Append(local[w], Here(w))]
    BY <1>1, <1>17
  <2>2. /\ \A u \in Threads : \A n \in DOMAIN local[u] : n \in DOMAIN local'[u] /\ local'[u][n] = local[u][n]
        /\ Found' = Found \cup {Here(w)}
    BY <1>2, <1>7, <2>1, OneMore
  <2>3. PICK m : /\ Merged' = Merged \cup {<<w, m>>} /\ <<w, m>> \notin Merged
                 /\ m \in DOMAIN local'[w] /\ local'[w][m] = Here(w)
                 /\ \A u \in Threads : \A n \in DOMAIN local'[u] : n \in DOMAIN local[u] \/ <<u, n>> = <<w, m>>
    <3>1. Here(w) \in Int /\ local \in [Threads -> Seq(Int)]
      BY <1>2, <1>7
    <3>. QED
      BY <2>1, <3>1, OneMore, Zenon
  <2>4. PICK here \in ValuesOf(plan) : /\ here[1] = item[w] /\ here[2] = at[w] /\ here = <<item[w], at[w]>>
                                       /\ Address(plan, here) = Here(w)
    BY <1>7
  <2>41. Past(here)'
    <3>1. item[w] < nextItem
      BY <1>1 DEF EngineInv, Dealt
    <3>2. ASSUME NEW u \in Threads, Engaged(u)', item'[u] = item[w] PROVE at[w] < at'[u]
      <4>1. Engaged(u)
        BY <1>1, <1>5, <3>2 DEF Engaged, Others
      <4>2. u = w
        BY <1>1, <3>2, <4>1 DEF EngineInv, Dealt
      <4>. QED
        BY <1>2, <1>5, <4>2
    <3>. QED
      BY <1>1, <2>4, <3>1, <3>2 DEF Past
  <2>5. \A u \in Threads : \A n \in DOMAIN local[u] : local[u][n] # Here(w)
    <3>. SUFFICES ASSUME NEW u \in Threads, NEW n \in DOMAIN local[u], local[u][n] = Here(w) PROVE FALSE
      OBVIOUS
    <3>1. PICK v \in ValuesOf(plan) : Address(plan, v) = local[u][n] /\ Past(v)
      BY DEF EngineInv, Taken
    <3>2. v = <<item[w], at[w]>>
      BY <1>2, <1>7, <3>1, PlanIs DEF EngineShape
    <3>3. v[1] = item[w] /\ v[2] = at[w]
      BY <3>2
    <3>4. at[w] < at[w]
      BY <1>1, <3>1, <3>3 DEF Past
    <3>. QED
      BY <1>2, <3>4
  <2>6. Taken'
    <3>1. ASSUME NEW u \in Threads, NEW n \in DOMAIN local'[u]
          PROVE  /\ local'[u][n] \in ever' /\ Intact(local[u][n])'
                 /\ \E v \in ValuesOf(plan)' : Address(plan, v)' = local'[u][n] /\ Past(v)'
      <4>1. CASE n \in DOMAIN local[u]
        <5>1. local'[u][n] = local[u][n] /\ local[u][n] \in ever /\ Intact(local[u][n])
          BY <2>2, <4>1 DEF EngineInv, Taken
        <5>2. PICK v \in ValuesOf(plan) : Address(plan, v) = local[u][n] /\ Past(v)
          BY <4>1 DEF EngineInv, Taken
        <5>3. v \in ValuesOf(plan)' /\ Address(plan, v)' = local'[u][n] /\ Past(v)'
          BY <1>1, <1>12, <5>1, <5>2, PastStays
        <5>. QED
          BY <1>1, <5>1, <5>3 DEF Intact
      <4>2. CASE <<u, n>> = <<w, m>>
        <5>1. local'[u][n] = Here(w)
          BY <2>3, <4>2
        <5>2. here \in ValuesOf(plan)' /\ Address(plan, here)' = local'[u][n]
          BY <1>1, <2>4, <5>1
        <5>. QED
          BY <1>1, <1>7, <2>41, <5>1, <5>2 DEF Intact
      <4>. QED
        BY <2>3, <3>1, <4>1, <4>2
    <3>2. ASSUME NEW p \in Merged', NEW q \in Merged', local'[p[1]][p[2]] = local'[q[1]][q[2]] PROVE p = q
      <4>1. \A x \in Merged : local'[x[1]][x[2]] = local[x[1]][x[2]] /\ local[x[1]][x[2]] # Here(w)
        BY <2>2, <2>5, MergedIs
      <4>2. \A x \in Merged' : x \in Merged \/ (x = <<w, m>> /\ local'[x[1]][x[2]] = Here(w))
        BY <2>3
      <4>3. \A x, y \in Merged : local[x[1]][x[2]] = local[y[1]][y[2]] => x = y
        BY DEF EngineInv, Taken
      <4>. QED
        BY <3>2, <4>1, <4>2, <4>3
    <3>. QED
      BY <3>1, <3>2 DEF Taken
  <2>7. Limited'
    <3>1. IsFiniteSet(Merged') /\ Cardinality(Merged') = Cardinality(Merged) + 1
      BY <1>14, <2>3, FS_AddElement
    <3>2. Cardinality(Merged') = accepted' /\ (~(accepted' < MaxResults) => accepted' = MaxResults)
      BY <1>1, <1>2, <1>14, <1>17, <3>1
    <3>. QED
      BY <1>1, <1>15, <3>1, <3>2 DEF Limited
  <2>8. Handled'
    <3>1. ASSUME NEW v \in ValuesOf(plan), Owed(v), accepted' < MaxResults PROVE Owed(v)'
      <4>1. CASE Address(plan, v) \in Found
        BY <1>1, <2>2, <4>1 DEF Owed
      <4>2. CASE \E u \in Threads : /\ item[u] = v[1]
                                    /\ stage[u] = "read" \/ (stage[u] \in Comparing /\ at[u] <= v[2])
        <5>1. PICK u \in Threads : /\ item[u] = v[1]
                                   /\ stage[u] = "read" \/ (stage[u] \in Comparing /\ at[u] <= v[2])
          BY <4>2
        <5>2. CASE u # w
          BY <1>1, <1>5, <5>1, <5>2 DEF Owed, Others
        <5>3. CASE u = w /\ at[w] = v[2]
          <6>1. v = <<item[w], at[w]>>
            <7>1. v = <<v[1], v[2]>>
              BY DEF ValuesOf
            <7>. QED
              BY <5>1, <5>3, <7>1
          <6>2. Address(plan, v) = Here(w)
            BY <1>7, <6>1
          <6>. QED
            BY <1>1, <2>2, <6>2 DEF Owed
        <5>4. CASE u = w /\ at[w] # v[2]
          <6>1. v[2] \in Nat /\ at[w] <= v[2]
            BY <1>1, <1>2, <5>1, <5>4, ValueIs DEF EngineShape
          <6>2. at'[w] <= v[2]
            BY <1>2, <1>5, <5>4, <6>1
          <6>3. stage'[w] \in Comparing
            BY <1>5 DEF Comparing
          <6>. QED
            BY <1>1, <5>1, <5>4, <6>2, <6>3 DEF Owed
        <5>. QED
          BY <5>2, <5>3, <5>4
      <4>. QED
        BY <3>1, <4>1, <4>2 DEF Owed
    <3>. QED
      BY <1>1, <1>17, <3>1, HandledStays DEF EngineInv
  <2>. QED
    BY <1>3, <1>9, <1>10, <1>11, <1>16, <2>6, <2>7, <2>8 DEF EngineInv
<1>18. CASE ~(accepted < MaxResults)
  <2>1. local' = local
    BY <1>1, <1>2, <1>18
  <2>2. Taken'
    BY <1>1, <1>12, <2>1, TakenStays DEF EngineInv
  <2>3. Limited'
    <3>1. Merged' = Merged
      BY <2>1 DEF Merged
    <3>2. ~(accepted' < MaxResults)
      BY <1>1, <1>2, <1>18
    <3>. QED
      BY <1>14, <1>15, <1>18, <3>1, <3>2 DEF Limited
  <2>4. Handled'
    <3>1. ~(accepted' < MaxResults)
      BY <1>1, <1>2, <1>18
    <3>. QED
      BY <3>1 DEF Handled
  <2>. QED
    BY <1>3, <1>9, <1>10, <1>11, <1>16, <2>2, <2>3, <2>4 DEF EngineInv
<1>. QED
  BY <1>17, <1>18

LEMMA DrainDoneKeeps ==
  ASSUME EngineInv, NEW w \in Threads, DrainDone(w)
  PROVE  EngineInv'
<1>1. /\ UNCHANGED <<plan, mistyped, unreadable, matching, always, ever, cancelling, stop, truncated, accepted>>
      /\ UNCHANGED <<nextItem, item, at, buffer, local, failed, result>>
      /\ stage[w] = "finish" /\ caller = "drain" /\ Halted' = Halted
      /\ stage' = [stage EXCEPT ![w] = "done"] /\ completed' = completed + 1
      /\ caller' = IF completed + 1 = Cardinality(Crew) THEN "join" ELSE "drain"
  BY DEF DrainDone, Goto, memoryVars, limitVars, Halted
<1>2. /\ EngineShape /\ stage \in [Threads -> Stages] /\ nextItem <= nextItem'
      /\ caller' \in {"start", "drain", "join", "done"}
  BY <1>1 DEF EngineInv, EngineShape
<1>3. Others(w) /\ stage'[w] = "done" /\ stage' \in [Threads -> Stages]
  BY <1>1, <1>2 DEF Others, Stages
<1>4. EngineShape'
  BY <1>1, <1>2, <1>3 DEF EngineShape
<1>5. Exact'
  BY <1>1, ExactStays DEF EngineInv
<1>6. Merged' = Merged /\ Found' = Found
  BY <1>1 DEF Merged, Found
<1>7. ~Engaged(w)' /\ stage'[w] \notin Comparing
  BY <1>3 DEF Engaged, Comparing
<1>8. Dealt'
  BY <1>1, <1>2, <1>3, <1>4, <1>7, DealtMoves DEF EngineInv
<1>9. Buffered'
  BY <1>1, <1>3, <1>7, BufferedMoves DEF EngineInv
<1>10. Taken'
  <2>1. \A u \in Threads : Engaged(u)' => Engaged(u) /\ item'[u] = item[u] /\ at'[u] >= at[u]
    BY <1>1, <1>2, <1>3, <1>7 DEF Engaged, Others, EngineShape
  <2>. QED
    BY <1>1, <1>2, <1>4, <2>1, TakenStays DEF Onwards, EngineInv, EngineShape
<1>11. Limited'
  BY <1>1, <1>3, LimitedMoves DEF EngineInv
<1>12. Handled'
  <2>1. \A v : Owed(v) => Owed(v)'
    BY <1>1, <1>3, <1>6 DEF Owed, Others, Comparing
  <2>. QED
    BY <1>1, <2>1, HandledStays DEF EngineInv
<1>13. Ended'
  <2>1. PICK done, new : /\ done = {u \in Threads : stage[u] = "done"}
                         /\ new = {u \in Threads : stage'[u] = "done"}
    OBVIOUS
  <2>2. new = done \cup {w} /\ w \notin done
    BY <1>1, <1>3, <2>1 DEF Others
  <2>3. IsFiniteSet(done) /\ IsFiniteSet(Crew)
    BY <2>1, EngineAssumption, FS_Subset DEF Crew
  <2>4. Cardinality(new) = Cardinality(done) + 1 /\ completed = Cardinality(done)
    BY <2>1, <2>2, <2>3, FS_AddElement, ZenonT(40) DEF EngineInv, Ended
  <2>5. completed' = Cardinality(new)
    BY <1>1, <2>4
  <2>6. Crew' = Crew /\ new \subseteq Crew
    BY <1>1, <1>3, <2>1 DEF Crew, Others
  <2>7. caller' = "join" => Crew = new
    BY <1>1, <2>3, <2>5, <2>6, FS_Subset
  <2>8. caller' = "join" => \A u \in Crew' : stage'[u] = "done"
    BY <2>1, <2>6, <2>7
  <2>9. result' = NoResult /\ caller' \notin {"start", "done"}
    BY <1>1 DEF EngineInv, Ended
  <2>10. \A u \in Threads : failed'[u] => stage'[u] # "none"
    BY <1>1, <1>3 DEF EngineInv, Ended, Others
  <2>11. \A u \in Threads : stage'[u] \in {"finish", "done"} /\ ~failed'[u] /\ ~Halted' =>
                              nextItem' > Len(plan'.items)
    BY <1>1, <1>3 DEF EngineInv, Ended, Others
  <2>. QED
    BY <1>3, <2>1, <2>5, <2>8, <2>9, <2>10, <2>11 DEF Ended
<1>. QED
  BY <1>4, <1>5, <1>8, <1>9, <1>10, <1>11, <1>12, <1>13 DEF EngineInv

LEMMA StartKeeps ==
  ASSUME EngineInv, Start
  PROVE  EngineInv'
<1>1. /\ UNCHANGED <<plan, mistyped, unreadable, matching, always, ever, cancelling, stop, truncated, accepted>>
      /\ UNCHANGED <<nextItem, item, at, buffer, local, failed, completed>>
      /\ caller = "start" /\ Halted' = Halted
  BY DEF Start, memoryVars, limitVars, Halted
<1>2. /\ EngineShape /\ stage \in [Threads -> Stages] /\ nextItem <= nextItem'
      /\ nextItem \in Nat /\ at \in [Threads -> Nat] /\ item \in [Threads -> Nat]
  BY <1>1 DEF EngineInv, EngineShape
<1>3. /\ \A w \in Threads : stage[w] = "none" /\ ~failed[w] /\ local[w] = <<>>
      /\ result = NoResult /\ completed = Cardinality({w \in Threads : stage[w] = "done"})
  BY <1>1 DEF EngineInv, Ended
<1>4. /\ stage' \in [Threads -> Stages] /\ \A w \in Threads : stage'[w] \in {"none", "loop"}
      /\ caller' \in {"drain", "done"}
  BY <1>1, <1>2, <1>3 DEF Start, Stages
<1>5. EngineShape'
  BY <1>1, <1>2, <1>4 DEF EngineShape
<1>6. /\ \A w \in Threads : ~Engaged(w)' /\ stage'[w] \notin Comparing \cup {"done", "flag", "read", "finish", "reserve"}
      /\ \A w \in Threads : stage[w] \notin Comparing \cup {"done", "flag", "read", "finish"}
  BY <1>3, <1>4 DEF Engaged, Comparing
<1>7. Merged' = Merged /\ Found' = Found
  BY <1>1 DEF Merged, Found
<1>8. Dealt' /\ Buffered'
  BY <1>6 DEF Dealt, Buffered
<1>9. Taken'
  BY <1>1, <1>2, <1>6, TakenStays DEF Onwards, EngineInv, EngineShape
<1>10. Limited'
  BY <1>1, <1>6, <1>7 DEF EngineInv, Limited
<1>11. Handled'
  <2>1. \A v : Owed(v) => Owed(v)'
    BY <1>1, <1>6, <1>7 DEF Owed
  <2>. QED
    BY <1>1, <2>1, HandledStays DEF EngineInv
<1>12. {w \in Threads : stage'[w] = "done"} = {w \in Threads : stage[w] = "done"}
  BY <1>6
<1>13. CASE plan.items = <<>>
  <2>1. result' = [NoResult EXCEPT !.status = "ok"] /\ caller' = "done" /\ stage' = stage
    BY <1>13 DEF Start
  <2>2. Ended'
    <3>1. \A w \in Crew' : FALSE
      BY <1>3, <2>1 DEF Crew
    <3>. QED
      BY <1>1, <1>3, <1>6, <1>12, <2>1, <3>1 DEF Ended
  <2>3. plan.targets = {}
    <3>1. plan.targets = {Address(plan, v) : v \in ValuesOf(plan)}
      BY <1>2, PlanIs DEF EngineShape
    <3>2. \A v \in ValuesOf(plan) : FALSE
      BY <1>13 DEF ValuesOf
    <3>. QED
      BY <3>1, <3>2
  <2>4. /\ result'.found = {} /\ result'.size = 0 /\ result'.status = "ok"
        /\ result'.truncated = FALSE
    BY <2>1 DEF NoResult
  <2>5. Exact'
    <3>1. Cardinality({}) = 0 /\ MaxResults # 0
      BY FS_EmptySet, EngineAssumption
    <3>2. Sound' /\ Complete'
      BY <1>1, <2>3, <2>4 DEF Sound, Complete
    <3>. QED
      BY <2>4, <3>1, <3>2 DEF Exact
  <2>. QED
    BY <1>5, <1>8, <1>9, <1>10, <1>11, <2>2, <2>5 DEF EngineInv
<1>14. CASE plan.items # <<>>
  <2>1. result' = result /\ caller' = "drain"
    BY <1>14 DEF Start
  <2>2. Ended'
    BY <1>1, <1>3, <1>6, <1>12, <2>1 DEF Ended
  <2>3. Exact'
    BY <1>1, <2>1, ExactStays DEF EngineInv
  <2>. QED
    BY <1>5, <1>8, <1>9, <1>10, <1>11, <2>2, <2>3 DEF EngineInv
<1>. QED
  BY <1>13, <1>14

LEMMA MinIs ==
  ASSUME NEW n \in Nat, NEW m \in Nat, n <= m
  PROVE  Min({n, m}) = n
BY DEF Min

\* The workers' results are as many as the addresses found, and fit the limit.
LEMMA AllFit ==
  ASSUME EngineInv
  PROVE  /\ IsFiniteSet(Found) /\ Cardinality(Found) = Cardinality(Merged)
         /\ Cardinality(Merged) \in Nat /\ Cardinality(Merged) <= MaxResults
         /\ Lowest(Found, MaxResults) = Found
<1>1. PICK f : f = [p \in Merged |-> local[p[1]][p[2]]]
  OBVIOUS
<1>2. f \in Bijection(Merged, Found)
  <2>1. \A p \in Merged : f[p] \in Found
    BY <1>1, MergedIs DEF Found, ToSet
  <2>2. \A a \in Found : \E p \in Merged : f[p] = a
    <3>1. SUFFICES ASSUME NEW a \in Found PROVE \E p \in Merged : f[p] = a
      OBVIOUS
    <3>2. PICK w \in Threads : \E n \in DOMAIN local[w] : a = local[w][n]
      BY <3>1 DEF Found, ToSet
    <3>21. PICK n \in DOMAIN local[w] : a = local[w][n]
      BY <3>2
    <3>3. PICK p : p = <<w, n>>
      OBVIOUS
    <3>4. p \in Merged /\ f[p] = a
      BY <1>1, <3>2, <3>21, <3>3, MergedIs
    <3>. QED
      BY <3>4
  <2>3. \A p, q \in Merged : f[p] = f[q] => p = q
    BY <1>1 DEF EngineInv, Taken
  <2>. QED
    BY <1>1, <2>1, <2>2, <2>3 DEF Bijection, Injection, Surjection, IsInjective
<1>3. IsFiniteSet(Merged)
  BY DEF EngineInv, Limited
<1>4. IsFiniteSet(Found) /\ Cardinality(Found) = Cardinality(Merged)
  BY <1>2, <1>3, FS_Bijection DEF ExistsBijection
<1>5. Cardinality(Merged) \in Nat /\ Cardinality(Merged) <= MaxResults
  <2>1. Cardinality(Merged) \in Nat
    BY <1>3, FS_CardinalityType
  <2>. QED
    BY <2>1, EngineAssumption DEF EngineInv, EngineShape, Limited
<1>6. Found \subseteq Int
  BY DEF Found, ToSet, EngineInv, EngineShape
<1>7. ASSUME NEW a \in Found PROVE Cardinality({b \in Found : b < a}) < MaxResults
  <2>1. PICK B : B = {b \in Found : b < a}
    OBVIOUS
  <2>2. B \in SUBSET Found /\ B # Found
    BY <1>6, <1>7, <2>1
  <2>3. /\ IsFiniteSet(B) /\ Cardinality(B) <= Cardinality(Found) /\ Cardinality(B) # Cardinality(Found)
        /\ Cardinality(B) \in Nat
    BY <1>4, <2>2, FS_Subset, FS_CardinalityType
  <2>. QED
    BY <1>4, <1>5, <2>1, <2>3, EngineAssumption
<1>8. Lowest(Found, MaxResults) = Found
  BY <1>7 DEF Lowest
<1>. QED
  BY <1>4, <1>5, <1>8

LEMMA JoinKeeps ==
  ASSUME EngineInv, Join
  PROVE  EngineInv'
<1>1. /\ UNCHANGED <<plan, mistyped, unreadable, matching, always, ever, cancelling, stop, truncated, accepted>>
      /\ UNCHANGED <<nextItem, stage, item, at, buffer, local, failed, completed>>
      /\ caller = "join" /\ caller' = "done" /\ Halted' = Halted
      /\ \A w \in Crew : stage[w] = "done"
  BY DEF Join, memoryVars, limitVars, threadVars, Halted
<1>2. /\ EngineShape /\ nextItem <= nextItem' /\ accepted \in Nat /\ MaxResults \in Nat
  BY <1>1, EngineAssumption DEF EngineInv, EngineShape
<1>3. EngineShape'
  BY <1>1, <1>2 DEF EngineShape
<1>4. Merged' = Merged /\ Found' = Found /\ Crew' = Crew
  BY <1>1 DEF Merged, Found, Crew
<1>5. Dealt' /\ Buffered'
  BY <1>1 DEF EngineInv, Dealt, Engaged, Item, Buffered, Here, Intact
<1>6. Taken'
  <2>1. \A u \in Threads : Engaged(u)' => Engaged(u) /\ item'[u] = item[u] /\ at'[u] >= at[u]
    BY <1>1, <1>2 DEF Engaged, EngineShape
  <2>. QED
    BY <1>1, <1>2, <1>3, <2>1, TakenStays DEF Onwards, EngineInv, EngineShape
<1>7. Limited'
  BY <1>1, <1>4 DEF EngineInv, Limited
<1>8. Handled'
  <2>1. \A v : Owed(v) => Owed(v)'
    BY <1>1, <1>4 DEF Owed
  <2>. QED
    BY <1>1, <2>1, HandledStays DEF EngineInv
<1>9. Ended'
  BY <1>1, <1>4 DEF EngineInv, Ended
<1>10. CASE \E w \in Crew : failed[w]
  <2>1. result' = [NoResult EXCEPT !.status = "failed"]
    BY <1>10 DEF Join
  <2>2. result'.found = {} /\ result'.size = 0 /\ result'.status = "failed"
    BY <2>1 DEF NoResult
  <2>3. Exact'
    BY <2>2, FS_EmptySet DEF Exact, Sound, Complete
  <2>. QED
    BY <1>3, <1>5, <1>6, <1>7, <1>8, <1>9, <2>3 DEF EngineInv
<1>11. CASE ~\E w \in Crew : failed[w]
  <2>1. PICK n : n = Cardinality(Merged)
    OBVIOUS
  <2>2. /\ result'.status = "ok" /\ result'.found = Found /\ result'.size = n
        /\ result'.cancelled = cancelling /\ result'.truncated = truncated
    <3>1. Min({n, MaxResults}) = n /\ Lowest(Found, MaxResults) = Found
      BY <1>2, <2>1, AllFit, MinIs
    <3>. QED
      BY <1>11, <2>1, <3>1 DEF Join
  <2>3. \A w \in Threads : stage[w] \in {"none", "done"} /\ ~failed[w]
    BY <1>1, <1>11 DEF Crew, EngineInv, Ended
  <2>4. stop <=> accepted >= MaxResults
    BY <2>3 DEF EngineInv, Limited
  <2>5. n = IF accepted < MaxResults THEN accepted ELSE MaxResults
    BY <2>1 DEF EngineInv, Limited
  <2>6. truncated <=> n = MaxResults
    <3>1. accepted >= MaxResults <=> n = MaxResults
      BY <1>2, <2>5
    <3>. QED
      BY <1>2, <2>4, <3>1 DEF EngineShape
  <2>7. Sound'
    <3>1. ASSUME NEW a \in Found PROVE a \in plan.targets \cap ever /\ Intact(a)
      <4>1. PICK w \in Threads : \E k \in DOMAIN local[w] : a = local[w][k]
        BY <3>1 DEF Found, ToSet
      <4>11. PICK k \in DOMAIN local[w] : a = local[w][k]
        BY <4>1
      <4>2. a \in ever /\ Intact(a) /\ \E v \in ValuesOf(plan) : Address(plan, v) = a
        BY <4>11 DEF EngineInv, Taken
      <4>3. a \in plan.targets
        BY <1>2, <4>2, ValueIs DEF EngineShape
      <4>. QED
        BY <4>2, <4>3
    <3>. QED
      BY <1>1, <2>2, <3>1 DEF Sound, Intact
  <2>8. Complete'
    <3>. SUFFICES ASSUME ~cancelling, ~truncated, NEW a \in plan.targets \cap always, Undisturbed(a)
                  PROVE  a \in Found
      BY <1>1, <2>2 DEF Complete, Undisturbed
    <3>1. ~stop /\ accepted < MaxResults /\ ~Halted
      BY <1>2, <2>4 DEF EngineShape, Halted
    <3>2. nextItem > Len(plan.items)
      <4>1. PICK w \in Threads : stage[w] = "done"
        BY <1>1 DEF EngineInv, Ended
      <4>. QED
        BY <2>3, <3>1, <4>1 DEF EngineInv, Ended
    <3>3. PICK v \in ValuesOf(plan) : a = Address(plan, v)
      <4>1. plan.targets = {Address(plan, v) : v \in ValuesOf(plan)}
        BY <1>2, PlanIs DEF EngineShape
      <4>. QED
        BY <4>1
    <3>4. v[1] < nextItem
      <4>1. v[1] \in DOMAIN plan.items /\ DOMAIN plan.items = 1 .. Len(plan.items) /\ Len(plan.items) \in Nat
        BY <1>2, PlanIs, ValueIs DEF EngineShape
      <4>2. PICK i \in 1 .. Len(plan.items) : i = v[1]
        BY <4>1
      <4>3. nextItem \in Nat
        BY <1>2 DEF EngineShape
      <4>. QED
        BY <3>2, <4>1, <4>2, <4>3
    <3>5. Owed(v)
      BY <2>3, <3>1, <3>3, <3>4 DEF EngineInv, Handled
    <3>. QED
      BY <2>3, <3>3, <3>5 DEF Owed, Comparing
  <2>9. Exact'
    BY <1>2, <2>1, <2>2, <2>6, <2>7, <2>8, AllFit DEF Exact
  <2>. QED
    BY <1>3, <1>5, <1>6, <1>7, <1>8, <1>9, <2>9 DEF EngineInv
<1>. QED
  BY <1>10, <1>11

LEMMA EngineKept == EngineInv /\ [EngineNext]_engineVars => EngineInv'
<1>. SUFFICES ASSUME EngineInv, [EngineNext]_engineVars PROVE EngineInv'
  OBVIOUS
<1>1. CASE \E a \in plan.targets : Flip(a)
  BY <1>1, FlipKeeps
<1>2. CASE CancelScan
  BY <1>2, CancelKeeps
<1>3. CASE Start
  BY <1>3, StartKeeps
<1>4. CASE Join
  BY <1>4, JoinKeeps
<1>5. ASSUME NEW w \in Threads, ThreadStep(w) PROVE EngineInv'
  BY <1>5, FetchKeeps, ReadKeeps, EvaluateKeeps, ReserveKeeps, FlagKeeps, DrainProgressKeeps, DrainDoneKeeps DEF ThreadStep
<1>6. CASE UNCHANGED engineVars
  <2>1. /\ UNCHANGED <<plan, mistyped, unreadable, matching, always, ever, cancelling, stop, truncated, accepted>>
        /\ UNCHANGED <<nextItem, stage, item, at, buffer, local, failed, caller, completed, result>>
    BY <1>6 DEF engineVars, memoryVars, limitVars, threadVars, callerVars
  <2>2. EngineShape' /\ Dealt' /\ Buffered'
    BY <2>1 DEF EngineInv, EngineShape, Dealt, Engaged, Item, Buffered, Here, Intact
  <2>3. Merged' = Merged /\ Found' = Found /\ Crew' = Crew
    BY <2>1 DEF Merged, Found, Crew
  <2>4. Taken'
    <3>1. \A u \in Threads : Engaged(u)' => Engaged(u) /\ item'[u] = item[u] /\ at'[u] >= at[u]
      BY <2>1 DEF Engaged, EngineInv, EngineShape
    <3>2. nextItem <= nextItem'
      BY <2>1 DEF EngineInv, EngineShape
    <3>. QED
      BY <2>1, <2>2, <3>1, <3>2, TakenStays DEF Onwards, EngineInv, EngineShape
  <2>5. Limited' /\ Ended'
    BY <2>1, <2>3 DEF EngineInv, Limited, Ended, Halted
  <2>6. Handled'
    <3>1. \A v : Owed(v) => Owed(v)'
      BY <2>1, <2>3 DEF Owed
    <3>. QED
      BY <2>1, <3>1, HandledStays DEF EngineInv
  <2>7. Exact'
    BY <2>1, ExactStays DEF EngineInv
  <2>. QED
    BY <2>2, <2>4, <2>5, <2>6, <2>7 DEF EngineInv
<1>. QED
  BY <1>1, <1>2, <1>3, <1>4, <1>5, <1>6 DEF EngineNext, Scanning

\* A scan reports what matches and, of what it could read, no less: whatever the
\* plan, however many workers share it, and whoever writes or cancels meanwhile.
THEOREM ScanIsExact == EngineSpec => []Exact
<1>1. EngineInv => Exact
  BY DEF EngineInv
<1>. QED
  BY EngineBegins, EngineKept, <1>1, PTL DEF EngineSpec

-----------------------------------------------------------------------------
(***************************************************************************)
(* The dispatcher                                                          *)
(***************************************************************************)

Places == {"idle", "register", "scan", "remove", "removeFailed", "insert",
           "cancel", "delete", "save", "restore"}
Kinds == {"none", "first", "next", "cancel", "delete", "save", "restore"}
Jobs == [kind : Kinds, id : Nat, session : Sessions, token : Nat]

Types ==
  /\ nextId \in Nat \ {0} /\ tokens \in Nat
  /\ \A id \in DOMAIN scans : scans[id] \in Sessions
  /\ saved \subseteq Sessions
  /\ \A id \in DOMAIN active : active[id] \in Nat
  /\ pc \in [Workers -> Places] /\ job \in [Workers -> Jobs]

\* No two registered scans share a token, and a token is older than the next one.
OwnTokens ==
  /\ \A v, w \in Registered : job[v].token = job[w].token => v = w
  /\ \A w \in Registered : job[w].token <= tokens

\* OneScanPerId is inductive only with OwnTokens: deregistering a scan must leave
\* the registrations of the others alone.
OneInv == Types /\ OneScanPerId /\ OwnTokens

\* What a cancellation is about to reach was active when it was asked for.
AimedInv ==
  /\ cancelled \subseteq aimed
  /\ stopper.at = "cancel" => stopper.tokens \subseteq aimed
  /\ \A w \in Workers : pc[w] = "cancel" => job[w].token \in aimed

\* Worker w is between taking an id and storing a session under it.
Placed == {"register", "scan", "remove", "removeFailed", "insert"}
Creates(w) == pc[w] \in Placed /\ job[w].kind \in {"first", "restore"}
Narrows(w) == pc[w] \in Placed /\ job[w].kind = "next"

BornBefore == \A id \in DOMAIN born : id \in Nat /\ id < nextId

\* A worker that creates a scan holds an id no other has and nothing is stored under.
FreshIds ==
  /\ \A w \in Workers : Creates(w) => job[w].id < nextId /\ job[w].id \notin DOMAIN born
  /\ \A v, w \in Workers : Creates(v) /\ Creates(w) /\ job[v].id = job[w].id => v = w

\* A worker that narrows a scan stays inside its origin.
Inside(w) == job[w].id \in DOMAIN born /\ job[w].session.members \subseteq born[job[w].id]
NarrowsInside == \A w \in Workers : Narrows(w) => Inside(w)

Kinded ==
  \A w \in Workers :
    /\ pc[w] \in Placed => Creates(w) \/ Narrows(w)
    /\ pc[w] \in {"register", "scan"} => job[w].kind \in {"first", "next"}
    /\ pc[w] = "restore" => job[w].kind = "restore"

BornInv == BornBefore /\ FreshIds /\ NarrowsInside /\ Kinded

LineageInv == Types /\ BornInv /\ Lineage

-----------------------------------------------------------------------------
(* Functions with one more or one less argument.                           *)

LEMMA WithType ==
  ASSUME NEW f, NEW x, NEW y, NEW S, \A z \in DOMAIN f : f[z] \in S, y \in S
  PROVE  \A z \in DOMAIN With(f, x, y) : With(f, x, y)[z] \in S
  BY DEF With

LEMMA WithoutType ==
  ASSUME NEW f, NEW x, NEW S, \A z \in DOMAIN f : f[z] \in S
  PROVE  \A z \in DOMAIN Without(f, x) : Without(f, x)[z] \in S
  BY DEF Without, Restrict

LEMMA WithAt ==
  ASSUME NEW f, NEW x, NEW y
  PROVE  /\ DOMAIN With(f, x, y) = DOMAIN f \cup {x}
         /\ With(f, x, y)[x] = y
         /\ \A z \in DOMAIN f \ {x} : With(f, x, y)[z] = f[z]
  BY DEF With

LEMMA WithoutAt ==
  ASSUME NEW f, NEW x
  PROVE  /\ DOMAIN Without(f, x) = DOMAIN f \ {x}
         /\ \A z \in DOMAIN f \ {x} : Without(f, x)[z] = f[z]
  BY DEF Without, Restrict

LEMMA NoJobType == NoJob \in Jobs /\ NoSession \in Sessions
<1>1. NoSession \in Sessions
  BY DEF NoSession, Sessions
<1>2. NoJob \in Jobs
  BY <1>1 DEF NoJob, Jobs, Kinds
<1>. QED
  BY <1>1, <1>2

\* A step of a worker touches its own place and job only.
LEMMA WorkType ==
  ASSUME NEW w \in Workers, NEW p \in Places, NEW j \in Jobs,
         pc \in [Workers -> Places], job \in [Workers -> Jobs], Work(w, p, j)
  PROVE  /\ pc' \in [Workers -> Places] /\ job' \in [Workers -> Jobs]
         /\ pc'[w] = p /\ job'[w] = j
         /\ \A v \in Workers \ {w} : pc'[v] = pc[v] /\ job'[v] = job[v]
  BY DEF Work

-----------------------------------------------------------------------------

LEMMA TypesStep == Types /\ [Next]_vars => Types'
<1> SUFFICES ASSUME Types, [Next]_vars PROVE Types'
  OBVIOUS
<1> USE NoJobType DEF Types, storeVars, activeVars, stopVars, workerVars, historyVars
<1>1. CASE UNCHANGED vars
  BY <1>1 DEF vars
<1>2. CASE CloseGate \/ Collect \/ CancelAll
  BY <1>2 DEF CloseGate, Collect, CancelAll
<1>3. ASSUME NEW w \in Workers, Worker(w) PROVE Types'
  <2>1. job[w] \in Jobs /\ job[w].session \in Sessions /\ job[w].id \in Nat /\ job[w].token \in Nat
    BY DEF Jobs, Kinds
  <2>2. CASE BeginFirst(w)
    <3>1. [NoJob EXCEPT !.kind = "first", !.id = nextId] \in Jobs
      BY DEF Jobs, Kinds
    <3>2. pc' \in [Workers -> Places] /\ job' \in [Workers -> Jobs]
      BY <2>2, <3>1, WorkType DEF BeginFirst, Places
    <3>. QED
      BY <2>2, <3>2 DEF BeginFirst, TakeId
  <2>3. ASSUME NEW id \in Ids, BeginNext(w, id) PROVE Types'
    <3>1. scans[id] \in Sessions /\ id \in Nat
      BY <2>3 DEF BeginNext, Range, Ids
    <3>2. [NoJob EXCEPT !.kind = "next", !.id = id, !.session = scans[id]] \in Jobs
      BY <3>1 DEF Jobs, Kinds
    <3>3. pc' \in [Workers -> Places] /\ job' \in [Workers -> Jobs]
      BY <2>3, <3>2, WorkType DEF BeginNext, Places
    <3>. QED
      BY <2>3, <3>3 DEF BeginNext
  <2>4. ASSUME NEW id \in Ids, BeginCancel(w, id) PROVE Types'
    <3>1. active[id] \in Nat /\ id \in Nat
      BY <2>4 DEF BeginCancel, Range, Ids
    <3>2. [NoJob EXCEPT !.kind = "cancel", !.id = id, !.token = active[id]] \in Jobs
      BY <3>1 DEF Jobs, Kinds
    <3>3. pc' \in [Workers -> Places] /\ job' \in [Workers -> Jobs]
      BY <2>4, <3>2, WorkType DEF BeginCancel, Places
    <3>. QED
      BY <2>4, <3>3 DEF BeginCancel
  <2>5. ASSUME NEW id \in Ids, BeginDelete(w, id) PROVE Types'
    <3>1. [NoJob EXCEPT !.kind = "delete", !.id = id] \in Jobs
      <4>1. id \in Nat
        BY DEF Ids
      <4>. QED
        BY <4>1 DEF Jobs, Kinds
    <3>2. pc' \in [Workers -> Places] /\ job' \in [Workers -> Jobs]
      BY <2>5, <3>1, WorkType DEF BeginDelete, Places
    <3>. QED
      BY <2>5, <3>2 DEF BeginDelete
  <2>6. ASSUME NEW id \in Ids, BeginSave(w, id) PROVE Types'
    <3>1. scans[id] \in Sessions /\ id \in Nat
      BY <2>6 DEF BeginSave, Range, Ids
    <3>2. [NoJob EXCEPT !.kind = "save", !.id = id, !.session = scans[id]] \in Jobs
      BY <3>1 DEF Jobs, Kinds
    <3>3. pc' \in [Workers -> Places] /\ job' \in [Workers -> Jobs]
      BY <2>6, <3>2, WorkType DEF BeginSave, Places
    <3>. QED
      BY <2>6, <3>3 DEF BeginSave
  <2>7. ASSUME NEW session \in saved, BeginRestore(w, session) PROVE Types'
    <3>1. [NoJob EXCEPT !.kind = "restore", !.session = session] \in Jobs
      BY DEF Jobs, Kinds
    <3>2. pc' \in [Workers -> Places] /\ job' \in [Workers -> Jobs]
      BY <2>7, <3>1, WorkType DEF BeginRestore, Places
    <3>. QED
      BY <2>7, <3>2 DEF BeginRestore
  <2>8. CASE Register(w)
    <3>1. [job[w] EXCEPT !.token = tokens + 1] \in Jobs
      BY <2>1 DEF Jobs, Kinds
    <3>2. pc' \in [Workers -> Places] /\ job' \in [Workers -> Jobs]
      BY <2>8, <3>1, WorkType DEF Register, Places
    <3>3. active' = With(active, job[w].id, tokens + 1) /\ tokens' = tokens + 1
      BY <2>8 DEF Register
    <3>4. DOMAIN active' = DOMAIN active \cup {job[w].id}
      BY <3>3, WithAt
    <3>5. /\ active'[job[w].id] = tokens + 1
          /\ \A id \in DOMAIN active \ {job[w].id} : active'[id] = active[id]
      BY <3>3 DEF With
    <3>6. \A id \in DOMAIN active' : active'[id] \in Nat
      BY <3>4, <3>5
    <3>. QED
      BY <2>8, <3>2, <3>3, <3>6 DEF Register
  <2>9. ASSUME NEW members \in SUBSET Candidates(job[w]), Scanned(w, members) PROVE Types'
    <3> DEFINE session == [members |-> members, current |-> job[w].token,
                           previous |-> job[w].session.current]
    <3>1. members \subseteq Addresses
      BY <2>1 DEF Candidates, Sessions
    <3>2. session \in Sessions
      BY <2>1, <3>1 DEF Sessions
    <3> HIDE DEF session
    <3>3. [job[w] EXCEPT !.session = session] \in Jobs
      BY <2>1, <3>2 DEF Jobs, Kinds
    <3>4. pc' \in [Workers -> Places] /\ job' \in [Workers -> Jobs]
      BY <2>9, <3>3, WorkType DEF Scanned, Places, session
    <3>. QED
      BY <2>9, <3>4 DEF Scanned
  <2>10. CASE ScanFailed(w)
    <3>1. pc' \in [Workers -> Places] /\ job' \in [Workers -> Jobs]
      BY <2>1, <2>10, WorkType DEF ScanFailed, Places
    <3>. QED
      BY <2>10, <3>1 DEF ScanFailed
  <2>11. CASE RemoveActive(w)
    <3>1. pc' \in [Workers -> Places] /\ job' \in [Workers -> Jobs]
      BY <2>1, <2>11, WorkType DEF RemoveActive, Answer, Places
    <3>2. \A id \in DOMAIN active' : active'[id] \in Nat
      BY <2>11, WithoutType DEF RemoveActive
    <3>. QED
      BY <2>11, <3>1, <3>2 DEF RemoveActive
  <2>12. CASE Insert(w)
    <3>1. pc' \in [Workers -> Places] /\ job' \in [Workers -> Jobs]
      BY <2>12, WorkType DEF Insert, Answer, Places
    <3>2. \A id \in DOMAIN scans' : scans'[id] \in Sessions
      BY <2>1, <2>12, WithType DEF Insert
    <3>. QED
      BY <2>12, <3>1, <3>2 DEF Insert
  <2>13. CASE Delete(w)
    <3>1. pc' \in [Workers -> Places] /\ job' \in [Workers -> Jobs]
      BY <2>13, WorkType DEF Delete, Answer, Places
    <3>2. \A id \in DOMAIN scans' : scans'[id] \in Sessions
      BY <2>13, WithoutType DEF Delete
    <3>. QED
      BY <2>13, <3>1, <3>2 DEF Delete
  <2>14. CASE Busy(w) \/ Cancel(w) \/ Save(w)
    <3>1. pc' \in [Workers -> Places] /\ job' \in [Workers -> Jobs]
      BY <2>14, WorkType DEF Busy, Cancel, Save, Answer, Places
    <3>. QED
      BY <2>1, <2>14, <3>1 DEF Busy, Cancel, Save
  <2>15. CASE Restore(w)
    <3>1. [job[w] EXCEPT !.id = nextId] \in Jobs
      BY <2>1 DEF Jobs, Kinds
    <3>2. pc' \in [Workers -> Places] /\ job' \in [Workers -> Jobs]
      BY <2>15, <3>1, WorkType DEF Restore, Places
    <3>. QED
      BY <2>15, <3>2 DEF Restore, TakeId
  <2>. QED
    BY <1>3, <2>2, <2>3, <2>4, <2>5, <2>6, <2>7, <2>8, <2>9, <2>10, <2>11, <2>12,
       <2>13, <2>14, <2>15 DEF Worker
<1>. QED
  BY <1>1, <1>2, <1>3 DEF Next

LEMMA TypesInit == Init => Types
  BY NoJobType DEF Init, Types, Nothing, Places

-----------------------------------------------------------------------------
(* One scan per id.                                                        *)

LEMMA OneInit == Init => OneInv
  BY TypesInit DEF Init, OneInv, OneScanPerId, OwnTokens, Registered, Nothing

\* Steps that leave the active scans and the registered workers alone.
LEMMA OneSame ==
  ASSUME Types, Types', OneScanPerId, OwnTokens, UNCHANGED <<active, tokens>>, NEW w \in Workers,
         \A v \in Workers \ {w} : pc'[v] = pc[v] /\ job'[v] = job[v],
         w \in Registered <=> w \in Registered',
         w \in Registered => job'[w].id = job[w].id /\ job'[w].token = job[w].token
  PROVE  OneScanPerId' /\ OwnTokens'
<1>1. Registered' = Registered
  BY DEF Registered
<1>2. \A v \in Registered : job'[v].id = job[v].id /\ job'[v].token = job[v].token
  BY DEF Registered
<1>. QED
  BY <1>1, <1>2 DEF OneScanPerId, OwnTokens

LEMMA OneStep == OneInv /\ [Next]_vars => OneInv'
<1> SUFFICES ASSUME OneInv, [Next]_vars PROVE OneScanPerId' /\ OwnTokens'
  BY TypesStep DEF OneInv
<1>1. Types /\ Types' /\ OneScanPerId /\ OwnTokens
  BY TypesStep DEF OneInv
<1>2. pc \in [Workers -> Places] /\ job \in [Workers -> Jobs]
  BY <1>1 DEF Types
<1> USE DEF storeVars, activeVars, stopVars, workerVars, historyVars
<1>3. CASE UNCHANGED vars
  BY <1>1, <1>3 DEF vars, OneScanPerId, OwnTokens, Registered
<1>4. CASE CloseGate \/ Collect \/ CancelAll
  BY <1>1, <1>4 DEF CloseGate, Collect, CancelAll, OneScanPerId, OwnTokens, Registered
<1>5. ASSUME NEW w \in Workers, Worker(w) PROVE OneScanPerId' /\ OwnTokens'
  <2>2. CASE Register(w)
    <3>1. /\ active' = With(active, job[w].id, tokens + 1) /\ tokens' = tokens + 1
          /\ job[w].id \notin DOMAIN active /\ tokens \in Nat
      BY <1>1, <2>2 DEF Register, Types
    <3>2. w \notin Registered /\ Registered' = Registered \cup {w}
      BY <1>2, <2>2 DEF Register, Registered, Work
    <3>3. /\ job'[w].id = job[w].id /\ job'[w].token = tokens + 1
          /\ \A v \in Workers \ {w} : job'[v] = job[v]
      BY <1>2, <2>2 DEF Register, Work, Jobs
    <3>4. /\ DOMAIN active' = DOMAIN active \cup {job[w].id} /\ active'[job[w].id] = tokens + 1
          /\ \A id \in DOMAIN active : active'[id] = active[id]
      BY <3>1 DEF With
    <3>5. Registered \subseteq Workers /\ \A v \in Registered : job[v].token <= tokens /\ job[v].token \in Nat
      <4>1. Registered \subseteq Workers
        BY DEF Registered
      <4>2. \A v \in Registered : job[v].token <= tokens
        BY <1>1 DEF OwnTokens
      <4>3. \A v \in Workers : job[v].token \in Nat
        BY <1>2 DEF Jobs
      <4>. QED
        BY <4>1, <4>2, <4>3
    <3>6. OneScanPerId'
      BY <1>1, <3>2, <3>3, <3>4, <3>5 DEF OneScanPerId
    <3>7. OwnTokens'
      BY <1>1, <3>1, <3>2, <3>3, <3>5 DEF OwnTokens
    <3>. QED
      BY <3>6, <3>7
  <2>3. CASE RemoveActive(w)
    <3>1. active' = Without(active, job[w].id) /\ tokens' = tokens
      BY <2>3 DEF RemoveActive
    <3>2. w \in Registered /\ Registered' = Registered \ {w}
      BY <1>2, <2>3 DEF RemoveActive, Registered, Work, Answer
    <3>3. \A v \in Workers \ {w} : job'[v] = job[v]
      BY <1>2, <2>3 DEF RemoveActive, Work, Answer
    <3>4. /\ DOMAIN active' = DOMAIN active \ {job[w].id}
          /\ \A id \in DOMAIN active \ {job[w].id} : active'[id] = active[id]
      BY <3>1, WithoutAt
    <3>5. \A v \in Registered \ {w} : job[v].id # job[w].id
      BY <1>1, <3>2 DEF OneScanPerId, OwnTokens
    <3>6. OneScanPerId'
      BY <1>1, <3>2, <3>3, <3>4, <3>5 DEF OneScanPerId, Registered
    <3>7. OwnTokens'
      BY <1>1, <3>1, <3>2, <3>3 DEF OwnTokens, Registered
    <3>. QED
      BY <3>6, <3>7
  <2>4. ASSUME NEW members, Scanned(w, members) PROVE OneScanPerId' /\ OwnTokens'
    <3>0. pc[w] = "scan" /\ pc' = [pc EXCEPT ![w] = "remove"]
      BY <2>4 DEF Scanned, Work
    <3>1. /\ \A v \in Workers \ {w} : pc'[v] = pc[v] /\ job'[v] = job[v]
          /\ w \in Registered /\ w \in Registered'
      BY <1>2, <2>4, <3>0 DEF Scanned, Work, Registered
    <3>2. job'[w].id = job[w].id /\ job'[w].token = job[w].token
      BY <1>2, <2>4 DEF Scanned, Work, Jobs
    <3>. QED
      BY <1>1, <2>4, <3>1, <3>2, OneSame DEF Scanned
  <2>5. CASE ScanFailed(w)
    <3>1. /\ \A v \in Workers \ {w} : pc'[v] = pc[v] /\ job'[v] = job[v]
          /\ w \in Registered /\ w \in Registered'
          /\ job'[w] = job[w]
      BY <1>2, <2>5 DEF ScanFailed, Work, Registered
    <3>. QED
      BY <1>1, <2>5, <3>1, OneSame DEF ScanFailed
  <2>6. CASE /\ ~Register(w) /\ ~RemoveActive(w) /\ ~ScanFailed(w)
             /\ ~\E members : Scanned(w, members)
    <3>1. /\ UNCHANGED <<active, tokens>>
          /\ \A v \in Workers \ {w} : pc'[v] = pc[v] /\ job'[v] = job[v]
          /\ pc[w] \notin {"scan", "remove", "removeFailed"}
          /\ pc'[w] \notin {"scan", "remove", "removeFailed"}
      BY <1>2, <1>5, <2>6 DEF Worker, BeginFirst, BeginNext, BeginCancel, BeginDelete, BeginSave,
         BeginRestore, Begin, Busy, Insert, Cancel, Delete, Save, Restore, Work, Answer
    <3>2. w \notin Registered /\ w \notin Registered'
      BY <3>1 DEF Registered
    <3>. QED
      BY <1>1, <3>1, <3>2, OneSame
  <2>. QED
    BY <2>2, <2>3, <2>4, <2>5, <2>6
<1>. QED
  BY <1>3, <1>4, <1>5 DEF Next

-----------------------------------------------------------------------------
(* Cancellations.                                                          *)

LEMMA AimedInit == Init => AimedInv
  BY DEF Init, AimedInv

LEMMA AimedStep == Types /\ AimedInv /\ [Next]_vars => AimedInv'
<1> SUFFICES ASSUME Types, AimedInv, [Next]_vars PROVE AimedInv'
  OBVIOUS
<1>1. pc \in [Workers -> Places] /\ job \in [Workers -> Jobs]
  BY DEF Types
<1> USE DEF storeVars, activeVars, stopVars, workerVars, historyVars
<1>2. CASE UNCHANGED vars
  BY <1>2 DEF vars, AimedInv
<1>3. CASE CloseGate
  BY <1>3 DEF CloseGate, AimedInv
<1>4. CASE Collect
  BY <1>4 DEF Collect, AimedInv
<1>5. CASE CancelAll
  BY <1>5 DEF CancelAll, AimedInv
<1>6. ASSUME NEW w \in Workers, Worker(w) PROVE AimedInv'
  <2>1. ASSUME NEW id \in Ids, BeginCancel(w, id) PROVE AimedInv'
    <3>1. /\ pc' = [pc EXCEPT ![w] = "cancel"]
          /\ \A v \in Workers \ {w} : job'[v] = job[v]
          /\ aimed' = aimed \cup {active[id]} /\ UNCHANGED <<cancelled, stopper>>
      BY <1>1, <2>1 DEF BeginCancel, Work
    <3>2. job'[w].token = active[id]
      BY <1>1, <2>1, NoJobType DEF BeginCancel, Work, Jobs
    <3>. QED
      BY <1>1, <3>1, <3>2 DEF AimedInv
  <2>2. CASE Cancel(w)
    BY <1>1, <2>2 DEF Cancel, Answer, Work, AimedInv
  <2>3. CASE ~Cancel(w) /\ ~\E id \in Ids : BeginCancel(w, id)
    <3>1. /\ UNCHANGED <<cancelled, aimed, stopper>>
          /\ \A v \in Workers \ {w} : pc'[v] = pc[v] /\ job'[v] = job[v]
          /\ pc'[w] # "cancel"
      BY <1>1, <1>6, <2>3 DEF Worker, BeginFirst, BeginNext, BeginDelete, BeginSave, BeginRestore,
         Begin, Register, Busy, Scanned, ScanFailed, RemoveActive, Insert, Delete, Save, Restore, Work, Answer
    <3>. QED
      BY <3>1 DEF AimedInv
  <2>. QED
    BY <2>1, <2>2, <2>3
<1>. QED
  BY <1>2, <1>3, <1>4, <1>5, <1>6 DEF Next

-----------------------------------------------------------------------------
(* Lineage.                                                                *)

LEMMA LineageInit == Init => LineageInv
  BY TypesInit DEF Init, LineageInv, BornInv, BornBefore, FreshIds, NarrowsInside, Kinded,
     Creates, Narrows, Placed, Lineage, Nothing

\* A step of worker w that stores nothing and takes no id.
LEMMA BornSame ==
  ASSUME BornInv, NEW w \in Workers, born' = born, nextId' = nextId,
         \A v \in Workers \ {w} : pc'[v] = pc[v] /\ job'[v] = job[v],
         Creates(w)' => Creates(w) /\ job'[w].id = job[w].id,
         Narrows(w)' => Inside(w)',
         pc'[w] \in Placed => Creates(w)' \/ Narrows(w)',
         pc'[w] \in {"register", "scan"} => job'[w].kind \in {"first", "next"},
         pc'[w] = "restore" => job'[w].kind = "restore"
  PROVE  BornInv'
<1>1. \A v \in Workers \ {w} : /\ Creates(v)' <=> Creates(v)
                               /\ Narrows(v)' <=> Narrows(v)
                               /\ Inside(v)' <=> Inside(v)
  BY DEF Creates, Narrows, Inside
<1>2. BornBefore'
  BY DEF BornInv, BornBefore
<1>3. FreshIds'
  BY <1>1 DEF BornInv, FreshIds
<1>4. NarrowsInside'
  BY <1>1 DEF BornInv, NarrowsInside
<1>5. Kinded'
  BY <1>1 DEF BornInv, Kinded
<1>. QED
  BY <1>2, <1>3, <1>4, <1>5 DEF BornInv

\* A step of worker w that takes the next id.
LEMMA BornTakes ==
  ASSUME Types, BornInv, NEW w \in Workers, born' = born, nextId' = nextId + 1,
         \A v \in Workers \ {w} : pc'[v] = pc[v] /\ job'[v] = job[v],
         Creates(w)', job'[w].id = nextId, ~Narrows(w)',
         pc'[w] \in {"register", "scan"} => job'[w].kind \in {"first", "next"},
         pc'[w] = "restore" => job'[w].kind = "restore"
  PROVE  BornInv'
<1>1. \A v \in Workers \ {w} : /\ Creates(v)' <=> Creates(v)
                               /\ Narrows(v)' <=> Narrows(v)
                               /\ Inside(v)' <=> Inside(v)
  BY DEF Creates, Narrows, Inside
<1>2. nextId \in Nat /\ \A v \in Workers : job[v].id \in Nat
  BY DEF Types, Jobs
<1>3. BornBefore'
  BY <1>2 DEF BornInv, BornBefore
<1>4. nextId \notin DOMAIN born /\ \A v \in Workers : Creates(v) => job[v].id < nextId
  BY <1>2 DEF BornInv, BornBefore, FreshIds
<1>5. FreshIds'
  <2>1. \A v \in Workers : Creates(v)' => job'[v].id < nextId' /\ job'[v].id \notin DOMAIN born'
    BY <1>1, <1>2, <1>4 DEF BornInv, FreshIds
  <2>2. \A v \in Workers \ {w} : Creates(v)' => job'[v].id # job'[w].id
    BY <1>1, <1>2, <1>4
  <2>3. \A u, v \in Workers \ {w} : Creates(u)' /\ Creates(v)' /\ job'[u].id = job'[v].id => u = v
    BY <1>1 DEF BornInv, FreshIds
  <2>. QED
    BY <2>1, <2>2, <2>3 DEF FreshIds
<1>6. NarrowsInside'
  BY <1>1 DEF BornInv, NarrowsInside
<1>7. Kinded'
  BY <1>1 DEF BornInv, Kinded
<1>. QED
  BY <1>3, <1>5, <1>6, <1>7 DEF BornInv

\* A session is stored: a new id is born with it, an old one keeps its origin.
LEMMA LineageInsert ==
  ASSUME Types, BornInv, Lineage, NEW w \in Workers, Insert(w)
  PROVE  BornInv' /\ Lineage'
<1> DEFINE id == job[w].id
           session == job[w].session
<1>1. /\ scans' = With(scans, id, session) /\ born' = Born(id, session.members)
      /\ nextId' = nextId /\ pc[w] = "insert"
  BY DEF Insert
<1>2. /\ pc'[w] = "idle"
      /\ \A v \in Workers \ {w} : pc'[v] = pc[v] /\ job'[v] = job[v]
  BY DEF Insert, Answer, Work, Types
<1>3. id \in Nat /\ \A v \in Workers : job[v].id \in Nat
  BY DEF Types, Jobs
<1>4. Creates(w) \/ (Narrows(w) /\ Inside(w))
  BY <1>1 DEF BornInv, Kinded, NarrowsInside, Placed
<1>6. /\ id < nextId /\ DOMAIN born' = DOMAIN born \cup {id}
      /\ \A i \in DOMAIN born : born'[i] = born[i]
      /\ session.members \subseteq born'[id]
      /\ \A v \in Workers \ {w} : Creates(v) => job[v].id # id
  <2>1. CASE Creates(w)
    <3>1. id < nextId /\ id \notin DOMAIN born
      BY <2>1 DEF BornInv, FreshIds
    <3>2. /\ DOMAIN born' = DOMAIN born \cup {id} /\ born'[id] = session.members
          /\ \A i \in DOMAIN born : born'[i] = born[i]
      BY <1>1, <3>1 DEF Born, With
    <3>3. \A v \in Workers \ {w} : Creates(v) => job[v].id # id
      BY <2>1 DEF BornInv, FreshIds
    <3>. QED
      BY <3>1, <3>2, <3>3
  <2>2. CASE Narrows(w) /\ Inside(w)
    <3>1. id \in DOMAIN born /\ session.members \subseteq born[id] /\ born' = born
      BY <1>1, <2>2 DEF Inside, Born
    <3>2. id < nextId
      BY <3>1 DEF BornInv, BornBefore
    <3>3. \A v \in Workers : Creates(v) => job[v].id # id
      BY <3>1 DEF BornInv, FreshIds
    <3>. QED
      BY <3>1, <3>2, <3>3
  <2>. QED
    BY <1>4, <2>1, <2>2
<1>7. Lineage'
  BY <1>1, <1>6 DEF With, Lineage
<1>8. ~Creates(w)' /\ ~Narrows(w)'
  BY <1>2 DEF Creates, Narrows, Placed
<1>9. \A v \in Workers \ {w} : (Creates(v)' <=> Creates(v)) /\ (Narrows(v)' <=> Narrows(v))
  BY <1>2 DEF Creates, Narrows
<1>10. BornBefore'
  BY <1>1, <1>3, <1>6 DEF BornInv, BornBefore
<1>11. FreshIds'
  BY <1>1, <1>2, <1>6, <1>8, <1>9 DEF BornInv, FreshIds
<1>12. NarrowsInside'
  <2> SUFFICES ASSUME NEW v \in Workers \ {w}, Narrows(v)' PROVE Inside(v)'
    BY <1>8 DEF NarrowsInside
  <2>1. Inside(v)
    BY <1>9 DEF BornInv, NarrowsInside
  <2>. QED
    BY <1>2, <1>6, <2>1 DEF Inside
<1>13. Kinded'
  BY <1>2, <1>9 DEF BornInv, Kinded, Placed
<1>. QED
  BY <1>7, <1>10, <1>11, <1>12, <1>13 DEF BornInv

LEMMA LineageStep == LineageInv /\ [Next]_vars => LineageInv'
<1> SUFFICES ASSUME LineageInv, [Next]_vars PROVE BornInv' /\ Lineage'
  BY TypesStep DEF LineageInv
<1>1. Types /\ BornInv /\ Lineage
  BY DEF LineageInv
<1>2. pc \in [Workers -> Places] /\ job \in [Workers -> Jobs]
  BY <1>1 DEF Types
<1> USE DEF storeVars, activeVars, stopVars, workerVars, historyVars
<1>3. ASSUME UNCHANGED <<pc, job, born, nextId, scans>> PROVE BornInv' /\ Lineage'
  BY <1>1, <1>3 DEF BornInv, BornBefore, FreshIds, NarrowsInside, Inside, Kinded, Creates, Narrows, Lineage
<1>4. ASSUME NEW w \in Workers, Worker(w) PROVE BornInv' /\ Lineage'
  <2>1. CASE BeginFirst(w)
    <3>1. /\ pc' = [pc EXCEPT ![w] = "register"]
          /\ \A v \in Workers \ {w} : job'[v] = job[v]
          /\ nextId' = nextId + 1 /\ UNCHANGED <<born, scans>>
      BY <1>2, <2>1 DEF BeginFirst, TakeId, Work
    <3>2. job'[w].id = nextId /\ job'[w].kind = "first"
      BY <1>2, <2>1, NoJobType DEF BeginFirst, Work, Jobs
    <3>3. Creates(w)' /\ ~Narrows(w)'
      BY <1>2, <3>1, <3>2 DEF Creates, Narrows, Placed
    <3>. QED
      BY <1>1, <1>2, <3>1, <3>2, <3>3, BornTakes DEF Lineage
  <2>2. CASE Restore(w)
    <3>1. /\ pc' = [pc EXCEPT ![w] = "insert"]
          /\ \A v \in Workers \ {w} : job'[v] = job[v]
          /\ nextId' = nextId + 1 /\ UNCHANGED <<born, scans>>
      BY <1>2, <2>2 DEF Restore, TakeId, Work
    <3>2. job'[w].id = nextId /\ job'[w].kind = job[w].kind
      BY <1>2, <2>2 DEF Restore, Work, Jobs
    <3>3. job[w].kind = "restore"
      BY <1>1, <2>2 DEF Restore, BornInv, Kinded
    <3>4. Creates(w)' /\ ~Narrows(w)'
      BY <1>2, <3>1, <3>2, <3>3 DEF Creates, Narrows, Placed
    <3>. QED
      BY <1>1, <1>2, <3>1, <3>2, <3>4, BornTakes DEF Lineage
  <2>3. ASSUME NEW id \in Ids, BeginNext(w, id) PROVE BornInv' /\ Lineage'
    <3>1. /\ pc' = [pc EXCEPT ![w] = "register"]
          /\ \A v \in Workers \ {w} : job'[v] = job[v]
          /\ UNCHANGED <<born, scans, nextId>> /\ id \in DOMAIN scans
      BY <1>2, <2>3 DEF BeginNext, Work
    <3>2. job'[w].id = id /\ job'[w].kind = "next" /\ job'[w].session = scans[id]
      BY <1>2, <2>3, NoJobType DEF BeginNext, Work, Jobs
    <3>3. Inside(w)'
      BY <1>1, <3>1, <3>2 DEF Lineage, Inside
    <3>4. ~Creates(w)' /\ Narrows(w)'
      BY <1>2, <3>1, <3>2 DEF Creates, Narrows, Placed
    <3>. QED
      BY <1>1, <1>2, <3>1, <3>2, <3>3, <3>4, BornSame DEF Lineage
  <2>4. CASE Register(w)
    <3>1. /\ pc' = [pc EXCEPT ![w] = "scan"] /\ pc[w] = "register"
          /\ \A v \in Workers \ {w} : job'[v] = job[v]
          /\ UNCHANGED <<born, scans, nextId>>
      BY <1>2, <2>4 DEF Register, Work
    <3>2. job'[w].id = job[w].id /\ job'[w].kind = job[w].kind /\ job'[w].session = job[w].session
      BY <1>2, <2>4 DEF Register, Work, Jobs
    <3>3. /\ (Creates(w)' <=> Creates(w)) /\ (Narrows(w)' <=> Narrows(w))
          /\ (Inside(w)' <=> Inside(w))
      BY <1>2, <3>1, <3>2 DEF Creates, Narrows, Placed, Inside
    <3>4. /\ Narrows(w) => Inside(w)
          /\ Creates(w) \/ Narrows(w)
          /\ job[w].kind \in {"first", "next"}
      BY <1>1, <3>1 DEF BornInv, NarrowsInside, Kinded, Placed
    <3>. QED
      BY <1>1, <1>2, <3>1, <3>2, <3>3, <3>4, BornSame DEF Lineage
  <2>5. ASSUME NEW members \in SUBSET Candidates(job[w]), Scanned(w, members)
        PROVE  BornInv' /\ Lineage'
    <3>1. /\ pc' = [pc EXCEPT ![w] = "remove"] /\ pc[w] = "scan"
          /\ \A v \in Workers \ {w} : job'[v] = job[v]
          /\ UNCHANGED <<born, scans, nextId>>
      BY <1>2, <2>5 DEF Scanned, Work
    <3>2. job'[w].id = job[w].id /\ job'[w].kind = job[w].kind /\ job'[w].session.members = members
      BY <1>2, <2>5 DEF Scanned, Work, Jobs
    <3>3. (Creates(w)' <=> Creates(w)) /\ (Narrows(w)' <=> Narrows(w))
      BY <1>2, <3>1, <3>2 DEF Creates, Narrows, Placed
    <3>4. /\ Narrows(w) => Inside(w)
          /\ Creates(w) \/ Narrows(w)
      BY <1>1, <3>1 DEF BornInv, NarrowsInside, Kinded, Placed
    <3>5. Narrows(w) => Inside(w)'
      BY <3>1, <3>2, <3>4 DEF Inside, Narrows, Candidates
    <3>. QED
      BY <1>1, <1>2, <3>1, <3>2, <3>3, <3>4, <3>5, BornSame DEF Lineage
  <2>6. CASE ScanFailed(w) \/ (RemoveActive(w) /\ pc[w] = "remove")
    <3>1. /\ pc[w] \in Placed /\ pc'[w] \in Placed \ {"register", "scan"}
          /\ \A v \in Workers \ {w} : pc'[v] = pc[v]
          /\ job' = job /\ UNCHANGED <<born, scans, nextId>>
      BY <1>2, <2>6 DEF ScanFailed, RemoveActive, Work, Placed
    <3>2. /\ (Creates(w)' <=> Creates(w)) /\ (Narrows(w)' <=> Narrows(w))
          /\ (Inside(w)' <=> Inside(w))
      BY <3>1 DEF Creates, Narrows, Inside
    <3>3. /\ Narrows(w) => Inside(w)
          /\ Creates(w) \/ Narrows(w)
      BY <1>1, <3>1 DEF BornInv, NarrowsInside, Kinded
    <3>. QED
      BY <1>1, <3>1, <3>2, <3>3, BornSame DEF Lineage, Placed
  <2>7. CASE Insert(w)
    BY <1>1, <2>7, LineageInsert
  <2>8. ASSUME NEW session \in saved, BeginRestore(w, session) PROVE BornInv' /\ Lineage'
    <3>1. /\ pc'[w] = "restore"
          /\ \A v \in Workers \ {w} : pc'[v] = pc[v] /\ job'[v] = job[v]
          /\ UNCHANGED <<born, scans, nextId>>
      BY <1>2, <2>8 DEF BeginRestore, Work
    <3>2. job'[w].kind = "restore"
      BY <1>2, <2>8, NoJobType DEF BeginRestore, Work, Jobs
    <3>3. ~Creates(w)' /\ ~Narrows(w)'
      BY <3>1 DEF Creates, Narrows, Placed
    <3>. QED
      BY <1>1, <3>1, <3>2, <3>3, BornSame DEF Lineage, Placed
  <2>9. CASE \/ Busy(w) \/ Cancel(w) \/ Delete(w) \/ Save(w)
             \/ RemoveActive(w) /\ pc[w] = "removeFailed"
             \/ \E id \in Ids : BeginCancel(w, id) \/ BeginDelete(w, id) \/ BeginSave(w, id)
    <3>1. /\ pc'[w] \in {"idle", "cancel", "delete", "save"}
          /\ \A v \in Workers \ {w} : pc'[v] = pc[v] /\ job'[v] = job[v]
          /\ UNCHANGED <<born, nextId>>
      BY <1>2, <2>9 DEF Busy, Cancel, Delete, Save, RemoveActive, BeginCancel, BeginDelete, BeginSave, Work, Answer
    <3>2. ~Creates(w)' /\ ~Narrows(w)' /\ pc'[w] \notin Placed
      BY <3>1 DEF Creates, Narrows, Placed
    <3>3. scans' = scans \/ scans' = Without(scans, job[w].id)
      BY <2>9 DEF Busy, Cancel, Delete, Save, RemoveActive, BeginCancel, BeginDelete, BeginSave
    <3>4. Lineage'
      BY <1>1, <3>1, <3>3 DEF Lineage, Without, Restrict
    <3>. QED
      BY <1>1, <3>1, <3>2, <3>4, BornSame
  <2>. QED
    BY <1>4, <2>1, <2>2, <2>3, <2>4, <2>5, <2>6, <2>7, <2>8, <2>9 DEF Worker, RemoveActive
<1>. QED
  BY <1>3, <1>4 DEF Next, vars, CloseGate, Collect, CancelAll

-----------------------------------------------------------------------------
\* The registrations of command.rs are exact: a scan that runs is the one that is
\* registered under its id, and nothing else is registered.
THEOREM OneScanPerIdAlways == Spec => []OneScanPerId
<1>1. OneInv => OneScanPerId
  BY DEF OneInv
<1>. QED
  BY OneInit, OneStep, <1>1, PTL DEF Spec

\* Whatever commands overlap, results stored under an id descend from the session
\* the id began with.
THEOREM LineageAlways == Spec => []Lineage
<1>1. LineageInv => Lineage
  BY DEF LineageInv
<1>. QED
  BY LineageInit, LineageStep, <1>1, PTL DEF Spec

\* CancelScan and cancel_all_scans never cancel a scan that was not active when
\* they were asked.
THEOREM CancelAimedAlways == Spec => []CancelAimed
<1>1. AimedInv => CancelAimed
  BY DEF AimedInv, CancelAimed
<1>. QED
  BY TypesInit, TypesStep, AimedInit, AimedStep, <1>1, PTL DEF Spec

-----------------------------------------------------------------------------
(***************************************************************************)
(* The watches                                                             *)
(***************************************************************************)

Watched == [at : Cells, frozen : Values \cup {None}]

Templates ==
  [place : [module : {Absolute}, offset : Cells] \cup [module : Modules, offset : {0}],
   frozen : Values \cup {None}]

Entries == Cells \X Values

Writings ==
  [step : {"query", "protect", "store", "restore"}, at : Cells, value : Values,
   changed : BOOLEAN, old : BOOLEAN, rest : Seq(Entries), why : {"write", "refresh"}]

Tasks == {Idle} \cup [step : {"save"}, watch : Watched, name : Names]
           \cup [step : {"use"}, template : Templates] \cup Writings

\* A workspace that was filled.
Workspace(f) == \A n \in DOMAIN f : f[n] \in Templates

WatchShape ==
  /\ policy \in [read : BOOLEAN, write : BOOLEAN, patch : BOOLEAN]
  /\ nextWatch \in Nat \ {0}
  /\ DOMAIN watches \subseteq 1 .. nextWatch - 1
  /\ \A i \in DOMAIN watches : watches[i] \in Watched
  /\ writable \in [Cells -> BOOLEAN]
  /\ base \in [Modules -> Bases \cup {None}]
  /\ Workspace(templates)
  /\ file \notin {None, Torn} => Workspace(file)
  /\ task \in [PoolThreads -> Tasks]
  /\ DOMAIN wanted = PoolThreads

\* What is frozen was asked for.
FreezesAsked ==
  \A i \in DOMAIN watches :
    watches[i].frozen # None => <<i, watches[i].at, watches[i].frozen>> \in asked

InWriting(w) == task[w].step \in {"query", "protect", "store", "restore"}

Backed(w, c, v) == \E a \in wanted[w] : a[2] = c /\ a[3] = v

\* What a refresh still has to write was wanted since it began; only a refresh
\* has more than one write.
Copied(w) ==
  /\ Refreshing(w) =>
       /\ Backed(w, task[w].at, task[w].value)
       /\ \A k \in DOMAIN task[w].rest : Backed(w, task[w].rest[k][1], task[w].rest[k][2])
  /\ InWriting(w) /\ ~Refreshing(w) => task[w].rest = <<>>

CopyBacked == \A w \in PoolThreads : Copied(w)

Passed ==
  \A w \in PoolThreads :
    task[w].step \in {"protect", "store", "restore"} => ~Refused(task[w].at)

\* One write at a time knows what the page's protection was.
PageKnown(c) ==
  /\ \A u, w \in PoolThreads : InPage(u, c) /\ InPage(w, c) => u = w
  /\ \A w \in PoolThreads : InPage(w, c) =>
       /\ task[w].step = "protect" => task[w].changed /\ writable[c] = Own[c].writable
       /\ task[w].step = "store" =>
            IF task[w].changed THEN task[w].old = Own[c].writable ELSE writable[c] = Own[c].writable
       /\ task[w].step = "restore" => task[w].old = Own[c].writable
  /\ (\A w \in PoolThreads : ~InPage(w, c)) => writable[c] = Own[c].writable

Pages == \A c \in Cells \ spoiled : PageKnown(c)

WatchInv == WatchShape /\ FreezesAsked /\ CopyBacked /\ Passed /\ Pages

-----------------------------------------------------------------------------

USE WatchesAssumption

LEMMA TaskKinds ==
  ASSUME WatchShape, NEW w \in PoolThreads
  PROVE  /\ task[w] \in Tasks
         /\ InWriting(w) <=> task[w] \in Writings
         /\ Refreshing(w) => InWriting(w)
         /\ task[w] # Idle /\ ~InWriting(w) =>
              \/ task[w].step = "save" /\ task[w].watch \in Watched
              \/ task[w].step = "use" /\ task[w].template \in Templates
         /\ task[w] = Idle => ~InWriting(w) /\ ~Refreshing(w)
<1>1. task[w] \in Tasks
  BY DEF WatchShape
<1>2. CASE task[w] = Idle
  BY <1>1, <1>2 DEF Idle, InWriting, Refreshing, Writings
<1>3. CASE task[w] \in [step : {"save"}, watch : Watched, name : Names]
  BY <1>1, <1>3 DEF Idle, InWriting, Refreshing, Writings
<1>4. CASE task[w] \in [step : {"use"}, template : Templates]
  BY <1>1, <1>4 DEF Idle, InWriting, Refreshing, Writings
<1>5. CASE task[w] \in Writings
  BY <1>1, <1>5 DEF Idle, InWriting, Refreshing, Writings
<1>. QED
  BY <1>1, <1>2, <1>3, <1>4, <1>5 DEF Tasks

\* What a worker gets to do next is a task, and it is in no page yet.
LEMMA OnwardTask ==
  ASSUME WatchShape, NEW w \in PoolThreads, NEW rest \in Seq(Entries), Onward(w, rest)
  PROVE  /\ task' \in [PoolThreads -> Tasks] /\ DOMAIN wanted' = PoolThreads
         /\ \A u \in PoolThreads \ {w} : task'[u] = task[u] /\ wanted'[u] = wanted[u]
         /\ task'[w].step \in {"idle", "query"}
         /\ \/ task'[w] = Idle
            \/ /\ task'[w] \in Writings /\ task'[w].why = "refresh" /\ wanted' = wanted
               /\ rest # <<>> /\ task'[w].rest = Tail(rest)
               /\ task'[w].at = rest[1][1] /\ task'[w].value = rest[1][2]
<1>1. task \in [PoolThreads -> Tasks] /\ DOMAIN wanted = PoolThreads
  BY DEF WatchShape
<1>2. CASE rest = <<>>
  BY <1>1, <1>2 DEF Onward, Tasks, Idle
<1>3. CASE rest # <<>>
  <2>1. PICK todo \in Writings : todo = Writing(Head(rest)[1], Head(rest)[2], Tail(rest), "refresh")
    <3>1. Head(rest) \in Entries /\ Tail(rest) \in Seq(Entries)
      BY <1>3
    <3>2. Head(rest)[1] \in Cells /\ Head(rest)[2] \in Values
      BY <3>1 DEF Entries
    <3>. QED
      BY <3>1, <3>2 DEF Writing, Writings
  <2>2. /\ todo.step = "query" /\ todo.why = "refresh" /\ todo.rest = Tail(rest)
        /\ todo.at = rest[1][1] /\ todo.value = rest[1][2]
    BY <1>3, <2>1 DEF Writing
  <2>3. task' = [task EXCEPT ![w] = todo] /\ wanted' = wanted
    BY <1>3, <2>1 DEF Onward
  <2>. QED
    BY <1>1, <1>3, <2>1, <2>2, <2>3 DEF Tasks
<1>. QED
  BY <1>2, <1>3

LEMMA OnwardCopied ==
  ASSUME WatchShape, CopyBacked, NEW w \in PoolThreads, InWriting(w), Onward(w, task[w].rest)
  PROVE  CopyBacked'
<1>1. task[w] \in Writings /\ task[w].rest \in Seq(Entries)
  BY TaskKinds DEF Writings
<1>2. Copied(w)
  BY DEF CopyBacked
<1>3. Copied(w)'
  <2>1. CASE task'[w] = Idle
    BY <2>1 DEF Copied, Idle, Refreshing, InWriting
  <2>2. CASE task'[w] # Idle
    <3>1. /\ task'[w] \in Writings /\ task'[w].why = "refresh" /\ wanted' = wanted
          /\ task[w].rest # <<>> /\ task'[w].rest = Tail(task[w].rest)
          /\ task'[w].at = task[w].rest[1][1] /\ task'[w].value = task[w].rest[1][2]
      BY <1>1, <2>2, OnwardTask
    <3>2. \A k \in DOMAIN task[w].rest : Backed(w, task[w].rest[k][1], task[w].rest[k][2])
      BY <1>2, <3>1 DEF Copied
    <3>3. /\ 1 \in DOMAIN task[w].rest
          /\ \A k \in DOMAIN Tail(task[w].rest) :
               k + 1 \in DOMAIN task[w].rest /\ Tail(task[w].rest)[k] = task[w].rest[k + 1]
      BY <1>1, <3>1
    <3>4. \A c, v : Backed(w, c, v) => Backed(w, c, v)'
      BY <3>1 DEF Backed
    <3>5. Backed(w, task[w].at, task[w].value)'
      BY <3>1, <3>2, <3>3, <3>4
    <3>6. ASSUME NEW k \in DOMAIN task'[w].rest
          PROVE  Backed(w, task[w].rest[k][1], task[w].rest[k][2])'
      BY <3>1, <3>2, <3>3, <3>4
    <3>7. Refreshing(w)'
      BY <3>1 DEF Writings, Refreshing
    <3>. QED
      BY <3>5, <3>6, <3>7 DEF Copied
  <2>. QED
    BY <2>1, <2>2
<1>4. ASSUME NEW u \in PoolThreads, u # w
      PROVE  Copied(u)'
  <2>1. task'[u] = task[u] /\ wanted'[u] = wanted[u] /\ Copied(u)
    BY <1>1, <1>4, OnwardTask DEF CopyBacked
  <2>. QED
    BY <2>1 DEF Copied, Refreshing, InWriting, Backed
<1>. QED
  BY <1>3, <1>4 DEF CopyBacked

\* Workers who are in no page, or are where they were, disturb no page.
LEMMA PagesKept ==
  ASSUME Pages, Passed, UNCHANGED <<policy, writable, spoiled>>,
         \A u \in PoolThreads : \/ task'[u] = task[u]
                                \/ /\ task[u].step \notin {"protect", "store", "restore"}
                                   /\ task'[u].step \notin {"protect", "store", "restore"}
  PROVE  Pages' /\ Passed'
<1>1. \A c : Refused(c) <=> Refused(c)'
  BY DEF Refused
<1>2. Passed'
  BY <1>1 DEF Passed
<1>3. ASSUME NEW c \in Cells, c \notin spoiled'
      PROVE  PageKnown(c)'
  <2>1. PageKnown(c)
    BY <1>3 DEF Pages
  <2>2. \A u \in PoolThreads : (InPage(u, c) <=> InPage(u, c)') /\ (InPage(u, c) => task'[u] = task[u])
    BY DEF InPage
  <2>. QED
    BY <2>1, <2>2 DEF PageKnown
<1>. QED
  BY <1>2, <1>3 DEF Pages

LEMMA QuietKept ==
  ASSUME WatchInv, WatchShape', UNCHANGED <<policy, watches, asked, writable, spoiled, wanted>>,
         \A u \in PoolThreads : task'[u] = task[u] \/ (~InWriting(u) /\ ~InWriting(u)')
  PROVE  WatchInv'
<1>1. FreezesAsked'
  BY DEF WatchInv, FreezesAsked
<1>2. CopyBacked'
  <2>1. ASSUME NEW u \in PoolThreads
        PROVE  Copied(u)'
    <3>1. CASE task'[u] = task[u]
      BY <3>1 DEF WatchInv, CopyBacked, Copied, Refreshing, InWriting, Backed
    <3>2. CASE ~InWriting(u)'
      <4>1. ~Refreshing(u)'
        <5>1. task'[u] \in Tasks
          BY DEF WatchShape
        <5>. QED
          BY <3>2, <5>1 DEF Tasks, Idle, Refreshing, InWriting, Writings
      <4>. QED
        BY <3>2, <4>1 DEF Copied
    <3>. QED
      BY <3>1, <3>2
  <2>. QED
    BY <2>1 DEF CopyBacked
<1>3. Pages' /\ Passed'
  BY PagesKept DEF WatchInv, InWriting
<1>. QED
  BY <1>1, <1>2, <1>3 DEF WatchInv

\* An edit of the watches is asked for before any refresh can copy it.
LEMMA EditKept ==
  ASSUME WatchInv, WatchShape', NEW id \in Nat, NEW cell, NEW value,
         Ask(id, cell, value), UNCHANGED <<policy, writable, spoiled>>,
         \A u \in PoolThreads : task'[u] = task[u] \/ (~InWriting(u) /\ ~InWriting(u)'),
         \A i \in DOMAIN watches' :
           \/ i = id /\ watches'[i].at = cell /\ watches'[i].frozen = value
           \/ i # id /\ i \in DOMAIN watches /\ watches'[i] = watches[i]
  PROVE  WatchInv'
<1>1. FreezesAsked'
  <2>1. SUFFICES ASSUME NEW i \in DOMAIN watches', watches'[i].frozen # None
                 PROVE  <<i, watches'[i].at, watches'[i].frozen>> \in asked'
    BY DEF FreezesAsked
  <2>2. CASE i = id /\ watches'[i].at = cell /\ watches'[i].frozen = value
    BY <2>1, <2>2 DEF Ask
  <2>3. CASE i # id /\ i \in DOMAIN watches /\ watches'[i] = watches[i]
    <3>1. <<i, watches[i].at, watches[i].frozen>> \in asked
      BY <2>1, <2>3 DEF WatchInv, FreezesAsked
    <3>. QED
      BY <2>3, <3>1 DEF Ask
  <2>. QED
    BY <2>2, <2>3
<1>2. CopyBacked'
  <2>1. ASSUME NEW u \in PoolThreads
        PROVE  Copied(u)'
    <3>1. CASE task'[u] = task[u]
      <4>1. Copied(u)
        BY DEF WatchInv, CopyBacked
      <4>2. Refreshing(u) => wanted[u] \subseteq wanted'[u]
        BY DEF Ask
      <4>3. \A c, v : Refreshing(u) /\ Backed(u, c, v) => Backed(u, c, v)'
        BY <4>2 DEF Backed
      <4>4. (Refreshing(u) <=> Refreshing(u)') /\ (InWriting(u) <=> InWriting(u)')
        BY <3>1 DEF Refreshing, InWriting
      <4>. QED
        BY <3>1, <4>1, <4>3, <4>4 DEF Copied
    <3>2. CASE ~InWriting(u)'
      <4>1. ~Refreshing(u)'
        <5>1. task'[u] \in Tasks
          BY DEF WatchShape
        <5>. QED
          BY <3>2, <5>1 DEF Tasks, Idle, Refreshing, InWriting, Writings
      <4>. QED
        BY <3>2, <4>1 DEF Copied
    <3>. QED
      BY <3>1, <3>2
  <2>. QED
    BY <2>1 DEF CopyBacked
<1>3. Pages' /\ Passed'
  BY PagesKept DEF WatchInv, InWriting
<1>. QED
  BY <1>1, <1>2, <1>3 DEF WatchInv

-----------------------------------------------------------------------------
LEMMA WatchInitial == WatchesInit => WatchInv
<1>. SUFFICES ASSUME WatchesInit PROVE WatchInv
  OBVIOUS
<1>1. WatchShape
  <2>1. writable \in [Cells -> BOOLEAN] /\ base \in [Modules -> Bases \cup {None}]
    BY DEF WatchesInit
  <2>2. task \in [PoolThreads -> Tasks] /\ DOMAIN wanted = PoolThreads
    BY DEF WatchesInit, Tasks
  <2>3. DOMAIN watches = {} /\ DOMAIN templates = {} /\ nextWatch = 1 /\ file = None
    BY DEF WatchesInit
  <2>4. policy \in [read : BOOLEAN, write : BOOLEAN, patch : BOOLEAN]
    BY DEF WatchesInit
  <2>. QED
    BY <2>1, <2>2, <2>3, <2>4 DEF WatchShape, Workspace
<1>2. \A w \in PoolThreads : task[w].step = "idle"
  BY DEF WatchesInit, Idle
<1>3. FreezesAsked
  BY DEF WatchesInit, FreezesAsked
<1>4. CopyBacked
  BY <1>2 DEF CopyBacked, Copied, Refreshing, InWriting
<1>5. Passed
  BY <1>2 DEF Passed
<1>6. Pages
  BY <1>2 DEF Pages, PageKnown, InPage, WatchesInit
<1>. QED
  BY <1>1, <1>3, <1>4, <1>5, <1>6 DEF WatchInv

LEMMA InsertWatchShape ==
  ASSUME WatchShape, NEW cell \in Cells, NEW frozen \in Values \cup {None}, InsertWatch(cell, frozen)
  PROVE  /\ nextWatch' \in Nat \ {0} /\ DOMAIN watches' \subseteq 1 .. nextWatch' - 1
         /\ \A i \in DOMAIN watches' : watches'[i] \in Watched
         /\ \A i \in DOMAIN watches' :
              \/ i = nextWatch /\ watches'[i].at = cell /\ watches'[i].frozen = frozen
              \/ i # nextWatch /\ i \in DOMAIN watches /\ watches'[i] = watches[i]
         /\ DOMAIN wanted' = PoolThreads /\ Ask(nextWatch, cell, frozen)
<1>1. /\ watches' = [i \in DOMAIN watches \cup {nextWatch} |->
                       IF i = nextWatch THEN [at |-> cell, frozen |-> frozen] ELSE watches[i]]
      /\ nextWatch' = nextWatch + 1 /\ Ask(nextWatch, cell, frozen)
  BY DEF InsertWatch
<1>2. nextWatch \in Nat \ {0} /\ DOMAIN watches \subseteq 1 .. nextWatch - 1
  BY DEF WatchShape
<1>3. DOMAIN wanted' = PoolThreads
  BY <1>1 DEF Ask
<1>4. \A i \in DOMAIN watches' : watches'[i] \in Watched
  BY <1>1 DEF WatchShape, Watched
<1>5. nextWatch' \in Nat \ {0} /\ DOMAIN watches' \subseteq 1 .. nextWatch' - 1
  <2>1. DOMAIN watches' = DOMAIN watches \cup {nextWatch} /\ nextWatch' = nextWatch + 1
    BY <1>1
  <2>. QED
    BY <1>2, <2>1
<1>6. \A i \in DOMAIN watches' :
        \/ i = nextWatch /\ watches'[i].at = cell /\ watches'[i].frozen = frozen
        \/ i # nextWatch /\ i \in DOMAIN watches /\ watches'[i] = watches[i]
  BY <1>1
<1>. QED
  BY <1>1, <1>3, <1>4, <1>5, <1>6

LEMMA AddWatchKept ==
  ASSUME WatchInv, NEW w \in PoolThreads, NEW c \in Cells, AddWatch(w, c)
  PROVE  WatchInv'
<1>1. /\ InsertWatch(c, None) /\ WatchShape
      /\ UNCHANGED <<policy, writable, base, templates, file, task, moves, spoiled>>
  BY DEF AddWatch, WatchInv
<1>2. WatchShape'
  BY <1>1, InsertWatchShape DEF WatchShape, Workspace
<1>3. nextWatch \in Nat
  BY <1>1 DEF WatchShape
<1>. QED
  BY <1>1, <1>2, <1>3, InsertWatchShape, EditKept

LEMMA FreezeKept ==
  ASSUME WatchInv, NEW w \in PoolThreads, NEW id \in 1 .. MaxId,
         NEW value \in Values \cup {None}, SetWatchFreeze(w, id, value)
  PROVE  WatchInv'
<1>1. /\ id \in DOMAIN watches /\ WatchShape
      /\ watches' = [watches EXCEPT ![id].frozen = value]
      /\ Ask(id, watches[id].at, value)
      /\ UNCHANGED <<policy, nextWatch, writable, base, templates, file, task, moves, spoiled>>
  BY DEF SetWatchFreeze, WatchInv
<1>2. /\ DOMAIN watches' = DOMAIN watches
      /\ watches'[id] = [watches[id] EXCEPT !.frozen = value]
      /\ \A i \in DOMAIN watches : i # id => watches'[i] = watches[i]
      /\ watches[id] \in Watched
  BY <1>1 DEF WatchShape
<1>3. watches'[id] \in Watched /\ watches'[id].at = watches[id].at /\ watches'[id].frozen = value
  BY <1>2 DEF Watched
<1>4. DOMAIN wanted' = PoolThreads
  BY <1>1 DEF Ask
<1>5. WatchShape'
  <2>1. \A i \in DOMAIN watches' : watches'[i] \in Watched
    BY <1>1, <1>2, <1>3 DEF WatchShape
  <2>. QED
    BY <1>1, <1>2, <1>4, <2>1 DEF WatchShape, Workspace
<1>. QED
  BY <1>1, <1>2, <1>3, <1>5, EditKept

LEMMA RemoveKept ==
  ASSUME WatchInv, NEW w \in PoolThreads, NEW id \in 1 .. MaxId, RemoveWatch(w, id)
  PROVE  WatchInv'
<1>1. /\ id \in DOMAIN watches /\ WatchShape
      /\ watches' = [i \in DOMAIN watches \ {id} |-> watches[i]]
      /\ Ask(id, watches[id].at, None)
      /\ UNCHANGED <<policy, nextWatch, writable, base, templates, file, task, moves, spoiled>>
  BY DEF RemoveWatch, WatchInv
<1>2. DOMAIN wanted' = PoolThreads
  BY <1>1 DEF Ask
<1>3. WatchShape'
  BY <1>1, <1>2 DEF WatchShape, Workspace
<1>. QED
  BY <1>1, <1>3, EditKept

-----------------------------------------------------------------------------
LEMMA ShapeKept ==
  ASSUME WatchShape, UNCHANGED <<policy, stores, base>>, writable' \in [Cells -> BOOLEAN],
         task' \in [PoolThreads -> Tasks], DOMAIN wanted' = PoolThreads
  PROVE  WatchShape'
BY DEF WatchShape, Workspace, stores

\* A step within a write leaves what there is to write.
LEMMA SameWrite ==
  ASSUME WatchInv, NEW w \in PoolThreads, InWriting(w), NEW todo \in Writings,
         todo.at = task[w].at, todo.value = task[w].value, todo.rest = task[w].rest, todo.why = task[w].why,
         task' = [task EXCEPT ![w] = todo], UNCHANGED wanted
  PROVE  /\ CopyBacked' /\ task' \in [PoolThreads -> Tasks] /\ DOMAIN wanted' = PoolThreads
         /\ task'[w] = todo /\ \A u \in PoolThreads \ {w} : task'[u] = task[u]
<1>1. task \in [PoolThreads -> Tasks] /\ DOMAIN wanted = PoolThreads
  BY DEF WatchInv, WatchShape
<1>2. /\ task' \in [PoolThreads -> Tasks] /\ task'[w] = todo
      /\ \A u \in PoolThreads \ {w} : task'[u] = task[u]
  BY <1>1 DEF Tasks
<1>3. ASSUME NEW u \in PoolThreads
      PROVE  Copied(u)'
  <2>1. Copied(u)
    BY DEF WatchInv, CopyBacked
  <2>2. Refreshing(u) <=> Refreshing(u)'
    BY <1>2 DEF InWriting, Writings, Refreshing
  <2>3. InWriting(u) <=> InWriting(u)'
    BY <1>2 DEF InWriting, Writings
  <2>4. InWriting(u)' => /\ task'[u].at = task[u].at /\ task'[u].value = task[u].value
                         /\ task'[u].rest = task[u].rest
    BY <1>2
  <2>5. Refreshing(u) => InWriting(u)
    BY TaskKinds DEF WatchInv
  <2>. QED
    BY <2>1, <2>2, <2>3, <2>4, <2>5 DEF Copied, Backed
<1>. QED
  BY <1>1, <1>2, <1>3 DEF CopyBacked

\* A page that the worker is not in.
LEMMA OtherPage ==
  ASSUME Pages, NEW w \in PoolThreads, NEW c \in Cells \ spoiled, writable'[c] = writable[c],
         \A u \in PoolThreads \ {w} : task'[u] = task[u], ~InPage(w, c), ~InPage(w, c)'
  PROVE  PageKnown(c)'
<1>1. PageKnown(c)
  BY DEF Pages
<1>2. \A u \in PoolThreads : (InPage(u, c) <=> InPage(u, c)') /\ (InPage(u, c) => task'[u] = task[u])
  BY DEF InPage
<1>. QED
  BY <1>1, <1>2 DEF PageKnown

\* A page that only this worker was in, and leaves or stays in.
LEMMA OwnPage ==
  ASSUME NEW w \in PoolThreads, NEW c \in Cells,
         \A u \in PoolThreads \ {w} : task'[u] = task[u] /\ ~InPage(u, c),
         \/ ~InPage(w, c)' /\ writable'[c] = Own[c].writable
         \/ /\ task'[w].step = "protect" => task'[w].changed /\ writable'[c] = Own[c].writable
            /\ task'[w].step = "store" =>
                 IF task'[w].changed THEN task'[w].old = Own[c].writable
                                     ELSE writable'[c] = Own[c].writable
            /\ task'[w].step = "restore" => task'[w].old = Own[c].writable
            /\ InPage(w, c)'
  PROVE  PageKnown(c)'
<1>1. \A u \in PoolThreads : InPage(u, c)' => u = w
  BY DEF InPage
<1>. QED
  BY <1>1 DEF PageKnown

-----------------------------------------------------------------------------
LEMMA WriteKept ==
  ASSUME WatchInv, NEW w \in PoolThreads, NEW c \in Cells, NEW v \in Values, Write(w, c, v)
  PROVE  WatchInv'
<1>1. PICK todo : todo = Writing(c, v, <<>>, "write")
  OBVIOUS
<1>2. /\ todo \in Writings /\ todo.step = "query" /\ todo.rest = <<>> /\ todo.why = "write"
  BY <1>1 DEF Writing, Writings
<1>3. /\ task[w] = Idle /\ task' = [task EXCEPT ![w] = todo]
      /\ UNCHANGED <<policy, stores, pages, base, moves, wanted>>
  BY <1>1 DEF Write
<1>4. task \in [PoolThreads -> Tasks] /\ DOMAIN wanted = PoolThreads /\ writable \in [Cells -> BOOLEAN]
  BY DEF WatchInv, WatchShape
<1>5. /\ task' \in [PoolThreads -> Tasks] /\ task'[w] = todo
      /\ \A u \in PoolThreads \ {w} : task'[u] = task[u]
  BY <1>2, <1>3, <1>4 DEF Tasks
<1>6. WatchShape'
  BY <1>3, <1>4, <1>5, ShapeKept DEF WatchInv, pages
<1>7. FreezesAsked'
  BY <1>3 DEF WatchInv, FreezesAsked, stores
<1>8. CopyBacked'
  <2>1. ASSUME NEW u \in PoolThreads
        PROVE  Copied(u)'
    <3>1. CASE u = w
      BY <1>2, <1>5, <3>1 DEF Copied, Refreshing
    <3>2. CASE u # w
      BY <1>3, <1>5, <3>2 DEF WatchInv, CopyBacked, Copied, Refreshing, InWriting, Backed
    <3>. QED
      BY <3>1, <3>2
  <2>. QED
    BY <2>1 DEF CopyBacked
<1>9. Pages' /\ Passed'
  BY <1>2, <1>3, <1>5, PagesKept DEF WatchInv, pages, Idle
<1>. QED
  BY <1>6, <1>7, <1>8, <1>9 DEF WatchInv

\* What stays of a write that goes on or ends outside any page.
LEMMA OnwardKept ==
  ASSUME WatchInv, NEW w \in PoolThreads, InWriting(w), Onward(w, task[w].rest),
         UNCHANGED <<policy, stores, base, moves>>, writable' \in [Cells -> BOOLEAN]
  PROVE  /\ WatchShape' /\ FreezesAsked' /\ CopyBacked'
         /\ \A u \in PoolThreads \ {w} : task'[u] = task[u]
         /\ task'[w].step \in {"idle", "query"}
<1>1. WatchShape /\ task[w].rest \in Seq(Entries)
  BY TaskKinds DEF WatchInv, Writings
<1>2. /\ task' \in [PoolThreads -> Tasks] /\ DOMAIN wanted' = PoolThreads
      /\ \A u \in PoolThreads \ {w} : task'[u] = task[u]
      /\ task'[w].step \in {"idle", "query"}
  BY <1>1, OnwardTask
<1>3. WatchShape'
  BY <1>1, <1>2, ShapeKept
<1>4. FreezesAsked'
  BY DEF WatchInv, FreezesAsked, stores
<1>5. CopyBacked'
  BY OnwardCopied DEF WatchInv
<1>. QED
  BY <1>2, <1>3, <1>4, <1>5

LEMMA QueryKept ==
  ASSUME WatchInv, NEW w \in PoolThreads, Query(w)
  PROVE  WatchInv'
<1>1. /\ task[w].step = "query" /\ InWriting(w) /\ WatchShape
      /\ UNCHANGED <<policy, stores, writable, base, moves>>
  BY DEF Query, InWriting, WatchInv
<1>2. task[w] \in Writings /\ writable \in [Cells -> BOOLEAN]
  BY <1>1, TaskKinds DEF WatchShape
<1>3. CASE Refused(task[w].at)
  <2>1. Onward(w, task[w].rest) /\ UNCHANGED spoiled
    BY <1>3 DEF Query
  <2>2. /\ WatchShape' /\ FreezesAsked' /\ CopyBacked'
        /\ \A u \in PoolThreads \ {w} : task'[u] = task[u]
        /\ task'[w].step \in {"idle", "query"}
    BY <1>1, <1>2, <2>1, OnwardKept
  <2>3. Pages' /\ Passed'
    BY <1>1, <2>1, <2>2, PagesKept DEF WatchInv
  <2>. QED
    BY <2>2, <2>3 DEF WatchInv
<1>4. CASE ~Refused(task[w].at)
  <2>1. PICK c \in Cells : c = task[w].at
    BY <1>2 DEF Writings
  <2>2. PICK todo : todo = [task[w] EXCEPT !.step = IF writable[c] THEN "store" ELSE "protect",
                                         !.changed = ~writable[c]]
    OBVIOUS
  <2>3. /\ todo \in Writings /\ todo.at = c /\ todo.value = task[w].value
        /\ todo.rest = task[w].rest /\ todo.why = task[w].why
        /\ todo.changed = ~writable[c] /\ todo.step = IF writable[c] THEN "store" ELSE "protect"
    BY <1>2, <2>1, <2>2 DEF Writings
  <2>4. /\ task' = [task EXCEPT ![w] = todo] /\ UNCHANGED wanted
        /\ spoiled' = IF \E u \in PoolThreads \ {w} : InPage(u, c) THEN spoiled \cup {c} ELSE spoiled
    BY <1>4, <2>1, <2>2 DEF Query
  <2>5. /\ CopyBacked' /\ task' \in [PoolThreads -> Tasks] /\ DOMAIN wanted' = PoolThreads
        /\ task'[w] = todo /\ \A u \in PoolThreads \ {w} : task'[u] = task[u]
    BY <1>1, <2>1, <2>3, <2>4, SameWrite
  <2>6. WatchShape'
    BY <1>1, <1>2, <2>5, ShapeKept
  <2>7. FreezesAsked'
    BY <1>1 DEF WatchInv, FreezesAsked, stores
  <2>8. Passed'
    BY <1>1, <1>4, <2>1, <2>3, <2>5 DEF WatchInv, Passed, Refused
  <2>9. ASSUME NEW d \in Cells, d \notin spoiled'
        PROVE  PageKnown(d)'
    <3>1. d \notin spoiled /\ ~InPage(w, d)
      BY <1>1, <2>4, <2>9 DEF InPage
    <3>2. CASE d # c
      BY <1>1, <2>3, <2>5, <3>1, <3>2, OtherPage DEF InPage, WatchInv
    <3>3. CASE d = c
      <4>1. \A u \in PoolThreads : ~InPage(u, c)
        BY <2>4, <2>9, <3>1, <3>3
      <4>2. writable[c] = Own[c].writable
        BY <3>1, <3>3, <4>1 DEF WatchInv, Pages, PageKnown
      <4>3. InPage(w, c)'
        BY <2>3, <2>5 DEF InPage
      <4>. QED
        BY <1>1, <2>3, <2>5, <3>3, <4>1, <4>2, <4>3, OwnPage
    <3>. QED
      BY <3>2, <3>3
  <2>. QED
    BY <2>5, <2>6, <2>7, <2>8, <2>9 DEF WatchInv, Pages
<1>. QED
  BY <1>3, <1>4

LEMMA ProtectKept ==
  ASSUME WatchInv, NEW w \in PoolThreads, Protect(w)
  PROVE  WatchInv'
<1>1. /\ task[w].step = "protect" /\ InWriting(w) /\ WatchShape
      /\ UNCHANGED <<policy, stores, spoiled, base, moves, wanted>>
  BY DEF Protect, InWriting, WatchInv
<1>2. task[w] \in Writings /\ writable \in [Cells -> BOOLEAN]
  BY <1>1, TaskKinds DEF WatchShape
<1>3. PICK c \in Cells : c = task[w].at
  BY <1>2 DEF Writings
<1>4. PICK todo : todo = [task[w] EXCEPT !.step = "store", !.old = writable[c]]
  OBVIOUS
<1>5. /\ todo \in Writings /\ todo.at = c /\ todo.value = task[w].value
      /\ todo.rest = task[w].rest /\ todo.why = task[w].why
      /\ todo.changed = task[w].changed /\ todo.old = writable[c] /\ todo.step = "store"
  BY <1>2, <1>3, <1>4 DEF Writings
<1>6. task' = [task EXCEPT ![w] = todo] /\ writable' = [writable EXCEPT ![c] = TRUE]
  BY <1>3, <1>4 DEF Protect
<1>7. /\ CopyBacked' /\ task' \in [PoolThreads -> Tasks] /\ DOMAIN wanted' = PoolThreads
      /\ task'[w] = todo /\ \A u \in PoolThreads \ {w} : task'[u] = task[u]
  BY <1>1, <1>3, <1>5, <1>6, SameWrite
<1>8. WatchShape'
  BY <1>1, <1>2, <1>6, <1>7, ShapeKept
<1>9. FreezesAsked'
  BY <1>1 DEF WatchInv, FreezesAsked, stores
<1>10. Passed'
  BY <1>1, <1>3, <1>5, <1>7 DEF WatchInv, Passed, Refused
<1>11. ASSUME NEW d \in Cells, d \notin spoiled'
       PROVE  PageKnown(d)'
  <2>1. d \notin spoiled
    BY <1>1, <1>11
  <2>2. CASE d # c
    <3>1. ~InPage(w, d) /\ ~InPage(w, d)' /\ writable'[d] = writable[d]
      BY <1>2, <1>3, <1>5, <1>6, <1>7, <2>2 DEF InPage
    <3>. QED
      BY <1>7, <2>1, <3>1, OtherPage DEF WatchInv
  <2>3. CASE d = c
    <3>1. PageKnown(c) /\ InPage(w, c)
      BY <1>1, <1>3, <2>1, <2>3 DEF WatchInv, Pages, InPage
    <3>2. (\A u \in PoolThreads \ {w} : ~InPage(u, c)) /\ todo.changed /\ todo.old = Own[c].writable
      BY <1>1, <1>5, <3>1 DEF PageKnown
    <3>3. InPage(w, c)'
      BY <1>5, <1>7 DEF InPage
    <3>. QED
      BY <1>5, <1>7, <2>3, <3>2, <3>3, OwnPage
  <2>. QED
    BY <2>2, <2>3
<1>. QED
  BY <1>7, <1>8, <1>9, <1>10, <1>11 DEF WatchInv, Pages

\* A write that leaves its page leaves it as the game made it.
LEMMA LeaveKept ==
  ASSUME WatchInv, NEW w \in PoolThreads, InWriting(w), NEW c \in Cells, c = task[w].at, InPage(w, c),
         Onward(w, task[w].rest), UNCHANGED <<policy, stores, base, moves>>,
         writable' \in [Cells -> BOOLEAN], spoiled \subseteq spoiled',
         \A d \in Cells \ {c} : writable'[d] = writable[d],
         c \notin spoiled' => writable'[c] = Own[c].writable
  PROVE  WatchInv'
<1>1. /\ WatchShape' /\ FreezesAsked' /\ CopyBacked'
      /\ \A u \in PoolThreads \ {w} : task'[u] = task[u]
      /\ task'[w].step \in {"idle", "query"}
  BY OnwardKept
<1>2. Passed'
  BY <1>1 DEF WatchInv, Passed, Refused
<1>3. ASSUME NEW d \in Cells, d \notin spoiled'
      PROVE  PageKnown(d)'
  <2>1. d \notin spoiled /\ ~InPage(w, d)'
    BY <1>1, <1>3 DEF InPage
  <2>2. CASE d # c
    <3>1. ~InPage(w, d)
      BY <2>2 DEF InPage
    <3>. QED
      BY <1>1, <2>1, <2>2, <3>1, OtherPage DEF WatchInv
  <2>3. CASE d = c
    <3>1. PageKnown(c)
      BY <2>1, <2>3 DEF WatchInv, Pages
    <3>2. \A u \in PoolThreads \ {w} : ~InPage(u, c)
      BY <3>1 DEF PageKnown
    <3>. QED
      BY <1>1, <1>3, <2>1, <2>3, <3>2, OwnPage
  <2>. QED
    BY <2>2, <2>3
<1>. QED
  BY <1>1, <1>2, <1>3 DEF WatchInv, Pages

\* What is known of the page that a worker is in.
LEMMA MyPage ==
  ASSUME WatchInv, NEW w \in PoolThreads, task[w].step \in {"protect", "store", "restore"}
  PROVE  /\ InWriting(w) /\ task[w] \in Writings /\ task[w].at \in Cells /\ InPage(w, task[w].at)
         /\ writable \in [Cells -> BOOLEAN]
         /\ task[w].at \notin spoiled => PageKnown(task[w].at)
<1>1. WatchShape /\ InWriting(w)
  BY DEF WatchInv, InWriting
<1>2. task[w] \in Writings /\ task[w].at \in Cells
  BY <1>1, TaskKinds DEF Writings
<1>. QED
  BY <1>1, <1>2 DEF WatchInv, WatchShape, Pages, InPage

LEMMA ProtectFailsKept ==
  ASSUME WatchInv, NEW w \in PoolThreads, ProtectFails(w)
  PROVE  WatchInv'
<1>1. /\ task[w].step = "protect" /\ Onward(w, task[w].rest)
      /\ UNCHANGED <<policy, stores, writable, spoiled, base, moves>>
  BY DEF ProtectFails, pages
<1>2. PICK c \in Cells : c = task[w].at
  BY <1>1, MyPage
<1>3. c \notin spoiled => writable[c] = Own[c].writable
  BY <1>1, <1>2, MyPage DEF PageKnown
<1>. QED
  BY <1>1, <1>2, <1>3, MyPage, LeaveKept

LEMMA StoreKept ==
  ASSUME WatchInv, NEW w \in PoolThreads, NEW ok \in BOOLEAN, Store(w, ok)
  PROVE  WatchInv'
<1>1. /\ task[w].step = "store" /\ WatchShape
      /\ UNCHANGED <<policy, stores, writable, spoiled, base, moves>>
  BY DEF Store, pages, WatchInv
<1>2. PICK c \in Cells : c = task[w].at
  BY <1>1, MyPage
<1>3. CASE ~task[w].changed
  <2>1. c \notin spoiled => writable[c] = Own[c].writable
    BY <1>1, <1>2, <1>3, MyPage DEF PageKnown
  <2>2. Onward(w, task[w].rest)
    BY <1>3 DEF Store
  <2>. QED
    BY <1>1, <1>2, <2>1, <2>2, MyPage, LeaveKept
<1>4. CASE task[w].changed
  <2>1. PICK todo : todo = [task[w] EXCEPT !.step = "restore"]
    OBVIOUS
  <2>2. /\ todo \in Writings /\ todo.at = c /\ todo.value = task[w].value
        /\ todo.rest = task[w].rest /\ todo.why = task[w].why
        /\ todo.old = task[w].old /\ todo.step = "restore"
    BY <1>1, <1>2, <2>1, MyPage, SMTT(30) DEF Writings
  <2>3. task' = [task EXCEPT ![w] = todo] /\ UNCHANGED wanted
    BY <1>4, <2>1 DEF Store
  <2>4. /\ CopyBacked' /\ task' \in [PoolThreads -> Tasks] /\ DOMAIN wanted' = PoolThreads
        /\ task'[w] = todo /\ \A u \in PoolThreads \ {w} : task'[u] = task[u]
    BY <1>1, <1>2, <2>2, <2>3, MyPage, SameWrite
  <2>5. WatchShape'
    BY <1>1, <2>4, MyPage, ShapeKept
  <2>6. FreezesAsked'
    BY <1>1 DEF WatchInv, FreezesAsked, stores
  <2>7. Passed'
    BY <1>1, <1>2, <2>2, <2>4 DEF WatchInv, Passed, Refused
  <2>8. ASSUME NEW d \in Cells, d \notin spoiled'
        PROVE  PageKnown(d)'
    <3>1. d \notin spoiled /\ writable'[d] = writable[d]
      BY <1>1, <2>8
    <3>2. CASE d # c
      <4>1. ~InPage(w, d) /\ ~InPage(w, d)'
        BY <1>2, <2>2, <2>4, <3>2 DEF InPage
      <4>. QED
        BY <2>4, <3>1, <4>1, OtherPage DEF WatchInv
    <3>3. CASE d = c
      <4>1. PageKnown(c) /\ InPage(w, c)
        BY <1>1, <1>2, <3>1, <3>3, MyPage
      <4>2. (\A u \in PoolThreads \ {w} : ~InPage(u, c)) /\ todo.old = Own[c].writable
        BY <1>1, <1>4, <2>2, <4>1 DEF PageKnown
      <4>3. InPage(w, c)'
        BY <2>2, <2>4 DEF InPage
      <4>. QED
        BY <2>2, <2>4, <3>3, <4>2, <4>3, OwnPage
    <3>. QED
      BY <3>2, <3>3
  <2>. QED
    BY <2>4, <2>5, <2>6, <2>7, <2>8 DEF WatchInv, Pages
<1>. QED
  BY <1>3, <1>4

LEMMA PutBackKept ==
  ASSUME WatchInv, NEW w \in PoolThreads, NEW ok \in BOOLEAN, PutBack(w, ok)
  PROVE  WatchInv'
<1>1. /\ task[w].step = "restore" /\ Onward(w, task[w].rest)
      /\ UNCHANGED <<policy, stores, base, moves>>
  BY DEF PutBack
<1>2. PICK c \in Cells : c = task[w].at
  BY <1>1, MyPage
<1>3. /\ writable' = IF ok THEN [writable EXCEPT ![c] = task[w].old] ELSE writable
      /\ spoiled' = IF ok THEN spoiled ELSE spoiled \cup {c}
  BY <1>2 DEF PutBack
<1>4. /\ writable' \in [Cells -> BOOLEAN] /\ spoiled \subseteq spoiled'
      /\ \A d \in Cells \ {c} : writable'[d] = writable[d]
  BY <1>1, <1>2, <1>3, MyPage DEF Writings
<1>5. c \notin spoiled' => writable'[c] = Own[c].writable
  <2>1. c \notin spoiled => task[w].old = Own[c].writable
    BY <1>1, <1>2, MyPage DEF PageKnown
  <2>. QED
    BY <1>1, <1>2, <1>3, <2>1, MyPage
<1>. QED
  BY <1>1, <1>2, <1>4, <1>5, MyPage, LeaveKept

\* A refresh begins with what is frozen now, in which nothing is that was not asked for.
LEMMA RefreshKept ==
  ASSUME WatchInv, NEW w \in PoolThreads, RefreshWatches(w)
  PROVE  WatchInv'
<1>1. PICK frozen : frozen = {i \in DOMAIN watches : watches[i].frozen # None /\ Allowed("write")}
  OBVIOUS
<1>2. /\ task[w] = Idle /\ frozen # {} /\ wanted' = [wanted EXCEPT ![w] = asked]
      /\ UNCHANGED <<policy, stores, pages, base, moves>>
  BY <1>1 DEF RefreshWatches
<1>3. PICK n \in Nat \ {0} : n = Cardinality(frozen)
  <2>1. IsFiniteSet(1 .. nextWatch - 1) /\ frozen \subseteq 1 .. nextWatch - 1
    <3>1. nextWatch - 1 \in Int /\ DOMAIN watches \subseteq 1 .. nextWatch - 1
      BY DEF WatchInv, WatchShape
    <3>. QED
      BY <1>1, <3>1, FS_Interval
  <2>2. IsFiniteSet(frozen)
    BY <2>1, FS_Subset
  <2>3. Cardinality(frozen) \in Nat /\ Cardinality(frozen) # 0
    BY <1>2, <2>2, FS_CardinalityType, FS_EmptySet
  <2>. QED
    BY <2>3
<1>4. PICK ids \in [1 .. n -> frozen] :
        \E copy : /\ copy = [k \in DOMAIN ids |-> <<watches[ids[k]].at, watches[ids[k]].frozen>>]
                  /\ task' = [task EXCEPT ![w] = Writing(copy[1][1], copy[1][2], Tail(copy), "refresh")]
  BY <1>1, <1>3 DEF RefreshWatches
<1>5. PICK copy : /\ copy = [k \in DOMAIN ids |-> <<watches[ids[k]].at, watches[ids[k]].frozen>>]
                  /\ task' = [task EXCEPT ![w] = Writing(copy[1][1], copy[1][2], Tail(copy), "refresh")]
  BY <1>4
<1>6. ASSUME NEW k \in 1 .. n
      PROVE  /\ copy[k] \in Entries
             /\ \E a \in asked : a[2] = copy[k][1] /\ a[3] = copy[k][2]
  <2>1. PICK i \in DOMAIN watches : i = ids[k] /\ watches[i].frozen # None
    BY <1>1, <1>4, <1>5
  <2>2. copy[k] = <<watches[i].at, watches[i].frozen>>
    BY <1>4, <1>5, <2>1
  <2>3. watches[i].at \in Cells /\ watches[i].frozen \in Values
    BY <2>1 DEF WatchInv, WatchShape, Watched
  <2>4. <<i, watches[i].at, watches[i].frozen>> \in asked
    BY <2>1 DEF WatchInv, FreezesAsked
  <2>. QED
    BY <2>2, <2>3, <2>4 DEF Entries
<1>7. copy \in Seq(Entries) /\ Len(copy) = n
  <2>1. copy = [k \in 1 .. n |-> copy[k]]
    BY <1>4, <1>5
  <2>. QED
    BY <1>3, <1>6, <2>1
<1>8. /\ Tail(copy) \in Seq(Entries)
      /\ \A k \in DOMAIN Tail(copy) : k + 1 \in 1 .. n /\ Tail(copy)[k] = copy[k + 1]
  BY <1>3, <1>7
<1>9. PICK todo : todo = Writing(copy[1][1], copy[1][2], Tail(copy), "refresh")
  OBVIOUS
<1>10. /\ todo \in Writings /\ todo.step = "query" /\ todo.rest = Tail(copy)
       /\ todo.at = copy[1][1] /\ todo.value = copy[1][2]
  <2>1. copy[1][1] \in Cells /\ copy[1][2] \in Values
    BY <1>3, <1>6 DEF Entries
  <2>. QED
    BY <1>8, <1>9, <2>1 DEF Writing, Writings
<1>11. task \in [PoolThreads -> Tasks] /\ DOMAIN wanted = PoolThreads /\ writable \in [Cells -> BOOLEAN]
  BY DEF WatchInv, WatchShape
<1>12. /\ task' \in [PoolThreads -> Tasks] /\ task'[w] = todo /\ DOMAIN wanted' = PoolThreads
       /\ \A u \in PoolThreads \ {w} : task'[u] = task[u] /\ wanted'[u] = wanted[u]
       /\ wanted'[w] = asked
  BY <1>2, <1>5, <1>9, <1>10, <1>11 DEF Tasks
<1>13. WatchShape'
  BY <1>2, <1>11, <1>12, ShapeKept DEF WatchInv, pages
<1>14. FreezesAsked'
  BY <1>2 DEF WatchInv, FreezesAsked, stores
<1>15. CopyBacked'
  <2>1. ASSUME NEW u \in PoolThreads
        PROVE  Copied(u)'
    <3>1. CASE u = w
      <4>1. Backed(w, task[w].at, task[w].value)'
        BY <1>3, <1>6, <1>10, <1>12 DEF Backed
      <4>2. ASSUME NEW k \in DOMAIN task'[w].rest
            PROVE  Backed(w, task[w].rest[k][1], task[w].rest[k][2])'
        <5>1. k + 1 \in 1 .. n /\ task'[w].rest[k] = copy[k + 1]
          BY <1>8, <1>10, <1>12, <4>2
        <5>. QED
          BY <1>6, <1>12, <5>1 DEF Backed
      <4>3. Refreshing(w)'
        BY <1>9, <1>10, <1>12 DEF Refreshing, Writing
      <4>. QED
        BY <3>1, <4>1, <4>2, <4>3 DEF Copied
    <3>2. CASE u # w
      <4>1. task'[u] = task[u] /\ wanted'[u] = wanted[u] /\ Copied(u)
        BY <1>12, <3>2 DEF WatchInv, CopyBacked
      <4>. QED
        BY <4>1 DEF Copied, Refreshing, InWriting, Backed
    <3>. QED
      BY <3>1, <3>2
  <2>. QED
    BY <2>1 DEF CopyBacked
<1>16. Pages' /\ Passed'
  BY <1>2, <1>10, <1>12, PagesKept DEF WatchInv, pages, Idle
<1>. QED
  BY <1>13, <1>14, <1>15, <1>16 DEF WatchInv

-----------------------------------------------------------------------------
\* A worker that turns to something other than a write.
LEMMA TurnTo ==
  ASSUME WatchInv, NEW w \in PoolThreads, ~InWriting(w), NEW todo \in Tasks,
         todo.step \in {"idle", "save", "use"}, task' = [task EXCEPT ![w] = todo]
  PROVE  /\ task' \in [PoolThreads -> Tasks]
         /\ \A u \in PoolThreads : task'[u] = task[u] \/ (~InWriting(u) /\ ~InWriting(u)')
<1>1. task \in [PoolThreads -> Tasks]
  BY DEF WatchInv, WatchShape
<1>. QED
  BY <1>1 DEF InWriting

LEMMA BeginSaveKept ==
  ASSUME WatchInv, NEW w \in PoolThreads, NEW id \in 1 .. MaxId, NEW name \in Names,
         BeginSaveTemplate(w, id, name)
  PROVE  WatchInv'
<1>1. PICK todo : todo = [step |-> "save", watch |-> watches[id], name |-> name]
  OBVIOUS
<1>2. /\ task[w] = Idle /\ id \in DOMAIN watches /\ task' = [task EXCEPT ![w] = todo]
      /\ UNCHANGED <<policy, stores, pages, base, moves, wanted>>
  BY <1>1 DEF BeginSaveTemplate
<1>3. todo \in Tasks /\ todo.step = "save"
  BY <1>1, <1>2 DEF Tasks, WatchInv, WatchShape
<1>4. /\ task' \in [PoolThreads -> Tasks]
      /\ \A u \in PoolThreads : task'[u] = task[u] \/ (~InWriting(u) /\ ~InWriting(u)')
  <2>1. ~InWriting(w)
    BY <1>2 DEF InWriting, Idle
  <2>. QED
    BY <1>2, <1>3, <2>1, TurnTo
<1>5. WatchShape'
  BY <1>2, <1>4, ShapeKept DEF WatchInv, WatchShape, pages
<1>. QED
  BY <1>2, <1>4, <1>5, QuietKept DEF stores, pages

LEMMA BeginUseKept ==
  ASSUME WatchInv, NEW w \in PoolThreads, NEW name \in Names, BeginUse(w, name)
  PROVE  WatchInv'
<1>1. PICK todo : todo = [step |-> "use", template |-> templates[name]]
  OBVIOUS
<1>2. /\ task[w] = Idle /\ name \in DOMAIN templates /\ task' = [task EXCEPT ![w] = todo]
      /\ UNCHANGED <<policy, stores, pages, base, moves, wanted>>
  BY <1>1 DEF BeginUse
<1>3. todo \in Tasks /\ todo.step = "use"
  BY <1>1, <1>2 DEF Tasks, WatchInv, WatchShape, Workspace
<1>4. /\ task' \in [PoolThreads -> Tasks]
      /\ \A u \in PoolThreads : task'[u] = task[u] \/ (~InWriting(u) /\ ~InWriting(u)')
  <2>1. ~InWriting(w)
    BY <1>2 DEF InWriting, Idle
  <2>. QED
    BY <1>2, <1>3, <2>1, TurnTo
<1>5. WatchShape'
  BY <1>2, <1>4, ShapeKept DEF WatchInv, WatchShape, pages
<1>. QED
  BY <1>2, <1>4, <1>5, QuietKept DEF stores, pages

\* An address in a module of one cell is that cell, so a place is a template's.
LEMMA PlaceOfCell ==
  ASSUME NEW a \in Cells, NEW mods \in [Modules -> Bases \cup {None}]
  PROVE  Place(a, mods) \in [module : {Absolute}, offset : Cells] \cup [module : Modules, offset : {0}]
<1>1. PICK inside : inside = {m \in Modules : mods[m] # None /\ a >= mods[m] /\ a < mods[m] + 1}
  OBVIOUS
<1>2. CASE inside = {}
  BY <1>1, <1>2 DEF Place
<1>3. CASE inside # {}
  <2>1. PICK m \in inside : m = CHOOSE x \in inside : TRUE
    BY <1>3
  <2>2. Place(a, mods) = [module |-> m, offset |-> a - mods[m]]
    BY <1>1, <1>3, <2>1 DEF Place
  <2>3. m \in Modules /\ mods[m] # None /\ a >= mods[m] /\ a < mods[m] + 1
    BY <1>1, <2>1
  <2>4. mods[m] \in Nat /\ a \in Nat
    BY <2>3
  <2>5. a - mods[m] = 0
    BY <2>3, <2>4
  <2>. QED
    BY <2>2, <2>3, <2>5
<1>. QED
  BY <1>2, <1>3

LEMMA ResolvedCell ==
  ASSUME NEW t \in Templates, NEW mods \in [Modules -> Bases \cup {None}]
  PROVE  Resolve(t.place, mods) \in Cells \cup {None}
<1>1. CASE t.place.module = Absolute
  BY <1>1 DEF Resolve, Templates
<1>2. CASE t.place.module # Absolute
  <2>1. PICK m \in Modules : m = t.place.module /\ t.place.offset = 0
    BY <1>2 DEF Templates
  <2>2. CASE mods[m] = None
    BY <1>2, <2>1, <2>2 DEF Resolve
  <2>3. CASE mods[m] # None
    <3>1. mods[m] \in Cells /\ mods[m] \in Nat
      BY <2>3
    <3>2. Resolve(t.place, mods) = mods[m] + 0
      BY <1>2, <2>1, <2>3 DEF Resolve
    <3>. QED
      BY <3>1, <3>2
  <2>. QED
    BY <2>2, <2>3
<1>. QED
  BY <1>1, <1>2

LEMMA SaveTemplateKept ==
  ASSUME WatchInv, NEW w \in PoolThreads, SaveTemplate(w)
  PROVE  WatchInv'
<1>1. /\ task[w].step = "save" /\ ~InWriting(w) /\ WatchShape
      /\ task' = [task EXCEPT ![w] = Idle]
      /\ UNCHANGED <<policy, watches, nextWatch, file, asked, pages, base, moves, wanted>>
  BY DEF SaveTemplate, InWriting, WatchInv
<1>2. task[w].watch \in Watched
  BY <1>1, TaskKinds DEF Idle
<1>3. /\ task' \in [PoolThreads -> Tasks]
      /\ \A u \in PoolThreads : task'[u] = task[u] \/ (~InWriting(u) /\ ~InWriting(u)')
  BY <1>1, TurnTo DEF Tasks, Idle
<1>4. PICK new : new = [place |-> Place(task[w].watch.at, base), frozen |-> task[w].watch.frozen]
  OBVIOUS
<1>5. new \in Templates
  <2>1. task[w].watch.at \in Cells /\ task[w].watch.frozen \in Values \cup {None}
    BY <1>2 DEF Watched
  <2>2. Place(task[w].watch.at, base) \in
          [module : {Absolute}, offset : Cells] \cup [module : Modules, offset : {0}]
    BY <1>1, <2>1, PlaceOfCell DEF WatchShape
  <2>. QED
    BY <1>4, <2>1, <2>2 DEF Templates
<1>6. templates' = [n \in DOMAIN templates \cup {task[w].name} |->
                      IF n = task[w].name THEN new ELSE templates[n]]
  BY <1>4 DEF SaveTemplate
<1>7. Workspace(templates)'
  BY <1>1, <1>5, <1>6 DEF WatchShape, Workspace
<1>8. WatchShape'
  BY <1>1, <1>3, <1>7 DEF WatchShape, Workspace, pages
<1>. QED
  BY <1>1, <1>3, <1>8, QuietKept DEF pages

LEMMA UseKept ==
  ASSUME WatchInv, NEW w \in PoolThreads, UseTemplate(w)
  PROVE  WatchInv'
<1>1. PICK t, cell : t = task[w].template /\ cell = Resolve(t.place, base)
  OBVIOUS
<1>2. /\ task[w].step = "use" /\ ~InWriting(w) /\ WatchShape /\ task' = [task EXCEPT ![w] = Idle]
      /\ UNCHANGED <<policy, templates, file, writable, spoiled, base, moves>>
      /\ (cell # None /\ InsertWatch(cell, t.frozen)) \/ UNCHANGED <<watches, nextWatch, asked, wanted>>
  BY <1>1 DEF UseTemplate, InWriting, WatchInv, pages
<1>3. t \in Templates
  BY <1>1, <1>2, TaskKinds DEF Idle
<1>4. /\ task' \in [PoolThreads -> Tasks]
      /\ \A u \in PoolThreads : task'[u] = task[u] \/ (~InWriting(u) /\ ~InWriting(u)')
  BY <1>2, TurnTo DEF Tasks, Idle
<1>5. CASE cell # None /\ InsertWatch(cell, t.frozen)
  <2>1. cell \in Cells /\ t.frozen \in Values \cup {None} /\ nextWatch \in Nat
    BY <1>1, <1>2, <1>3, <1>5, ResolvedCell DEF Templates, WatchShape
  <2>2. WatchShape'
    BY <1>2, <1>4, <1>5, <2>1, InsertWatchShape DEF WatchShape, Workspace
  <2>3. /\ Ask(nextWatch, cell, t.frozen)
        /\ \A i \in DOMAIN watches' :
             \/ i = nextWatch /\ watches'[i].at = cell /\ watches'[i].frozen = t.frozen
             \/ i # nextWatch /\ i \in DOMAIN watches /\ watches'[i] = watches[i]
    BY <1>2, <1>5, <2>1, InsertWatchShape
  <2>. QED
    BY <1>2, <1>4, <2>1, <2>2, <2>3, EditKept
<1>6. CASE UNCHANGED <<watches, nextWatch, asked, wanted>>
  <2>1. WatchShape'
    BY <1>2, <1>4, <1>6 DEF WatchShape, Workspace
  <2>. QED
    BY <1>2, <1>4, <1>6, <2>1, QuietKept
<1>. QED
  BY <1>2, <1>5, <1>6

LEMMA WorkspaceKept ==
  ASSUME WatchInv, NEW w \in PoolThreads, SaveWorkspace(w) \/ LoadWorkspace(w)
  PROVE  WatchInv'
<1>1. /\ UNCHANGED <<policy, watches, nextWatch, asked, writable, spoiled, base, task, wanted>>
      /\ \/ file' = templates /\ templates' = templates
         \/ file \notin {None, Torn} /\ templates' = file /\ file' = file
  BY DEF SaveWorkspace, LoadWorkspace, pages
<1>2. WatchShape'
  BY <1>1 DEF WatchInv, WatchShape, Workspace
<1>. QED
  BY <1>1, <1>2, QuietKept

LEMMA MoveKept ==
  ASSUME WatchInv, NEW m \in Modules, Move(m)
  PROVE  WatchInv'
<1>1. UNCHANGED <<policy, stores, writable, spoiled, task, wanted>> /\ base' \in [Modules -> Bases \cup {None}]
  BY DEF Move, WatchInv, WatchShape, pages
<1>2. WatchShape'
  BY <1>1 DEF WatchInv, WatchShape, Workspace, stores
<1>. QED
  BY <1>1, <1>2, QuietKept DEF stores

\* A new process starts as the first did, but for the file.
LEMMA ExitKept ==
  ASSUME WatchInv, NEW torn \in BOOLEAN, Exit(torn)
  PROVE  WatchInv'
<1>1. /\ file' = (IF torn THEN Torn ELSE file)
      /\ policy' \in Policies /\ watches' = <<>> /\ nextWatch' = 1 /\ templates' = <<>>
      /\ writable' = [c \in Cells |-> Own[c].writable]
      /\ task' = [w \in PoolThreads |-> Idle]
      /\ asked' = {} /\ wanted' = [w \in PoolThreads |-> {}] /\ spoiled' = {}
      /\ UNCHANGED base
  BY DEF Exit
<1>2. WatchShape'
  <2>1. writable' \in [Cells -> BOOLEAN] /\ base' \in [Modules -> Bases \cup {None}]
    BY <1>1 DEF WatchInv, WatchShape
  <2>2. task' \in [PoolThreads -> Tasks] /\ DOMAIN wanted' = PoolThreads
    BY <1>1 DEF Tasks
  <2>3. DOMAIN watches' = {} /\ DOMAIN templates' = {} /\ nextWatch' = 1
    BY <1>1
  <2>4. policy' \in [read : BOOLEAN, write : BOOLEAN, patch : BOOLEAN]
    BY <1>1
  <2>5. file' \notin {None, Torn} => Workspace(file)'
    BY <1>1 DEF WatchInv, WatchShape, Workspace
  <2>. QED
    BY <2>1, <2>2, <2>3, <2>4, <2>5 DEF WatchShape, Workspace
<1>3. \A w \in PoolThreads : task'[w].step = "idle"
  BY <1>1 DEF Idle
<1>4. FreezesAsked'
  BY <1>1 DEF FreezesAsked
<1>5. CopyBacked'
  BY <1>3 DEF CopyBacked, Copied, Refreshing, InWriting
<1>6. Passed'
  BY <1>3 DEF Passed
<1>7. Pages'
  BY <1>1, <1>3 DEF Pages, PageKnown, InPage
<1>. QED
  BY <1>2, <1>4, <1>5, <1>6, <1>7 DEF WatchInv

-----------------------------------------------------------------------------
LEMMA WatchStep ==
  ASSUME WatchInv, [WatchesNext]_watchVars
  PROVE  WatchInv'
<1>1. CASE WatchesNext
  <2>1. ASSUME NEW w \in PoolThreads, NEW c \in Cells,
               AddWatch(w, c) \/ \E v \in Values : Write(w, c, v)
        PROVE  WatchInv'
    BY <2>1, AddWatchKept, WriteKept
  <2>2. ASSUME NEW w \in PoolThreads, NEW id \in 1 .. MaxId,
               \/ RemoveWatch(w, id)
               \/ \E v \in Values \cup {None} : SetWatchFreeze(w, id, v)
               \/ \E n \in Names : BeginSaveTemplate(w, id, n)
        PROVE  WatchInv'
    BY <2>2, RemoveKept, FreezeKept, BeginSaveKept
  <2>3. ASSUME NEW w \in PoolThreads,
               \/ RefreshWatches(w) \/ Query(w) \/ Protect(w) \/ ProtectFails(w)
               \/ \E ok \in BOOLEAN : Store(w, ok) \/ PutBack(w, ok)
               \/ SaveTemplate(w) \/ UseTemplate(w) \/ \E n \in Names : BeginUse(w, n)
               \/ SaveWorkspace(w) \/ LoadWorkspace(w)
        PROVE  WatchInv'
    BY <2>3, RefreshKept, QueryKept, ProtectKept, ProtectFailsKept, StoreKept, PutBackKept,
       SaveTemplateKept, UseKept, BeginUseKept, WorkspaceKept
  <2>4. ASSUME NEW m \in Modules, Move(m)
        PROVE  WatchInv'
    BY <2>4, MoveKept
  <2>5. ASSUME NEW torn \in BOOLEAN, Exit(torn)
        PROVE  WatchInv'
    BY <2>5, ExitKept
  <2>. QED
    BY <1>1, <2>1, <2>2, <2>3, <2>4, <2>5 DEF WatchesNext
<1>2. CASE UNCHANGED watchVars
  <2>1. UNCHANGED <<policy, watches, asked, writable, spoiled, wanted, task>> /\ WatchShape'
    BY <1>2 DEF watchVars, WatchInv, WatchShape, Workspace
  <2>. QED
    BY <2>1, QuietKept
<1>. QED
  BY <1>1, <1>2

\* What the commands that watch, write and refresh keep true of the pages and of the
\* copies they work on (command.rs, analysis.rs, platform/windows/memory.rs).
THEOREM WatchesKept == WatchesSpec => []WatchInv
<1>. QED
  BY WatchInitial, WatchStep, PTL DEF WatchesSpec

\* No write goes where the policy does not let it, and no refresh writes what nobody
\* wanted frozen since it took its copy (refresh_watches in command.rs, write_exact
\* in platform/windows/memory.rs).
THEOREM RefreshesWanted == WatchesSpec => []WritesWanted
<1>1. ASSUME WatchInv PROVE WritesWanted
  <2>1. SUFFICES ASSUME NEW w \in PoolThreads, task[w].step = "store"
                 PROVE  /\ policy.write /\ ~Own[task[w].at].guard
                        /\ Own[task[w].at].executable => policy.patch
                        /\ Refreshing(w) => Backed(w, task[w].at, task[w].value)
    BY DEF WritesWanted, Backed
  <2>2. ~Refused(task[w].at)
    BY <1>1, <2>1 DEF WatchInv, Passed
  <2>3. Refreshing(w) => Backed(w, task[w].at, task[w].value)
    BY <1>1 DEF WatchInv, CopyBacked, Copied
  <2>. QED
    BY <2>2, <2>3 DEF Refused
<1>. QED
  BY <1>1, WatchesKept, PTL

\* Between writes a page has the protection that the game gave it, whatever failed,
\* but for a page that two writes were in at once or that the system did not put
\* back (write_exact in platform/windows/memory.rs).
THEOREM PagesPutBack == WatchesSpec => []ProtectionKept
<1>1. WatchInv => ProtectionKept
  BY DEF WatchInv, Pages, PageKnown, ProtectionKept
<1>. QED
  BY <1>1, WatchesKept, PTL
=============================================================================
