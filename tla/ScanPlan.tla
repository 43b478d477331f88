------------------------------- MODULE ScanPlan -------------------------------
(***************************************************************************)
(* How scanner/engine.rs cuts a scan into items of work: a first scan cuts  *)
(* each wanted region into chunks that overlap by width - 1 bytes, a next   *)
(* scan cuts the candidates of the previous session into batches.           *)
(***************************************************************************)
EXTENDS Integers, Sequences, SequencesExt

Smaller(a, b) == IF a < b THEN a ELSE b
Larger(a, b)  == IF a > b THEN a ELSE b

\* aligned_scan_span: a whole number of alignments, at least one.
ScanSpan(o) == Larger(o.chunk \div o.align, 1) * o.align

\* Chunks start a span apart, as long as one value fits behind the start.
ChunkCount(o, size) ==
  Cardinality({i \in 0 .. size : i * ScanSpan(o) + o.width <= size})

LogicalSpan(o, size, i) == Smaller(ScanSpan(o), size - i * ScanSpan(o))

\* Fault: the chunk does not reach into the next one.
ReadLengthCut(o, size, i) == LogicalSpan(o, size, i)

\* A chunk reads on into the next one, for a value that begins on its last byte.
ReadLength(o, size, i) ==
  Smaller(size - i * ScanSpan(o), LogicalSpan(o, size, i) + o.width - 1)

\* The alignments inside the span whose value was read completely.
Offsets(o, size, i) ==
  {k \in 0 .. size : /\ k * o.align < LogicalSpan(o, size, i)
                     /\ k * o.align + o.width <= ReadLength(o, size, i)}

\* One chunk: the addresses to evaluate, in order, and the bytes read for them.
Chunk(o, region, i) ==
  LET start == region.base + i * ScanSpan(o)
  IN  [at    |-> [k \in 1 .. Cardinality(Offsets(o, region.size, i)) |-> start + (k - 1) * o.align],
       bytes |-> start .. start + ReadLength(o, region.size, i) - 1]

Chunks(o, region) == [i \in 1 .. ChunkCount(o, region.size) |-> Chunk(o, region, i - 1)]

\* What a first scan owes: every aligned address of a wanted region.
AlignedIn(o, region) ==
  {region.base + k * o.align : k \in {j \in 0 .. region.size : j * o.align + o.width <= region.size}}

FirstPlan(o, regions) ==
  LET chunks == FlattenSeq([r \in 1 .. Len(regions) |->
                  IF regions[r].scannable THEN Chunks(o, regions[r]) ELSE <<>>])
  IN  [kind    |-> "first",
       width   |-> o.width,
       reach   |-> ScanSpan(o) + o.width,
       items   |-> chunks,
       work    |-> Len(chunks),
       targets |-> UNION {AlignedIn(o, region) : region \in {r \in ToSet(regions) : r.scannable}}]

\* Batches of the previous candidates; every candidate is read by itself.
Batch(candidates, size, i) ==
  [at    |-> SubSeq(candidates, i * size + 1, Smaller((i + 1) * size, Len(candidates))),
   bytes |-> {}]

NextPlan(candidates, width, batch) ==
  [kind    |-> "next",
   width   |-> width,
   reach   |-> width - 1,
   items   |-> [i \in 1 .. (Len(candidates) + batch - 1) \div batch |-> Batch(candidates, batch, i - 1)],
   work    |-> Len(candidates),
   targets |-> ToSet(candidates)]
=============================================================================
