------------------------------- MODULE Analysis -------------------------------
(***************************************************************************)
(* The two searches of analysis.rs: scan_pattern looks for a byte pattern,  *)
(* search_pointer_chains walks from a target back to the pointers that lead *)
(* to it.  Both read the wanted regions window by window, while the game    *)
(* writes and unreadable pages swallow whole windows.                       *)
(***************************************************************************)
EXTENDS Integers, Sequences, FiniteSets, SequencesExt

CONSTANTS
  Searches,   \* searches asked for: records, see Valid
  Regions,    \* the regions, in the order the system tells them
  Memories,   \* contents the memory may start with: bytes by address
  Unreadables,\* sets of addresses that may be unreadable
  Bytes,      \* values of a byte, 0 ..
  MaxDepth,   \* the fixed limit of eight links
  MaxHits,    \* scanner.max_results, beyond which no search may ask
  MaxWrites   \* bound: writes of the game

VARIABLES
  search,             \* the search
  memory, illegible,  \* what it reads, and the addresses that cannot be read
  windows,            \* windows still to be read
  found,              \* addresses, or paths
  cut,                \* that the limit ended a pattern scan
  queue, visited,     \* of the pointer search: pointers to be led to; those already queued
  near,               \* predecessors of the head of the queue found so far
  step,
  seen                \* history: every content since the search began

target == <<search, illegible>>
pursuit == <<queue, visited, near>>
searchVars == <<target, memory, windows, found, cut, pursuit, step, seen>>

Smaller(a, b) == IF a < b THEN a ELSE b
Larger(a, b)  == IF a > b THEN a ELSE b

\* A set of numbers in ascending order.
Ordered(S) == CHOOSE s \in SetToSeqs(S) : \A i, j \in DOMAIN s : i < j => s[i] < s[j]

PointerSize == 2
IsPattern == search.kind = "pattern"
\* A pattern is a sequence of the sets of bytes that its nibbles accept.
Width == IF IsPattern THEN Len(search.pattern) ELSE PointerSize

Valid(s) ==
  /\ s.align > 0 /\ s.limit \in 1 .. MaxHits
  /\ s.kind = "pattern" => s.pattern # <<>>
  /\ s.kind = "pointers" => s.depth \in 1 .. MaxDepth /\ s.reach > 0

\* Regions do not overlap, and what may be scanned is there.
ASSUME SearchAssumption ==
  /\ {MaxDepth, MaxHits} \subseteq Nat /\ IsFiniteSet(Bytes) /\ Bytes \subseteq Nat
  /\ \A r \in ToSet(Regions) : {r.base, r.size} \subseteq Nat
  /\ \A r, s \in ToSet(Regions) : r # s => r.base + r.size <= s.base \/ s.base + s.size <= r.base
  /\ \A m \in Memories :
       /\ m \in [DOMAIN m -> Bytes] /\ DOMAIN m \subseteq Int
       /\ \A r \in ToSet(Regions) : r.scannable => r.base .. r.base + r.size - 1 \subseteq DOMAIN m
  /\ \A u \in Unreadables : u \subseteq Int
  /\ \A s \in Searches :
       /\ {s.align, s.limit, s.chunk} \subseteq Nat
       /\ s.kind = "pattern" => s.pattern \in Seq(SUBSET Bytes)
       /\ s.kind # "pattern" => s.kind = "pointers" /\ {s.target, s.depth, s.reach} \subseteq Nat

(***************************************************************************)
(* Windows: a chunk and the bytes a value that starts in it may need.       *)
(***************************************************************************)

\* Fault: windows end where their chunk ends.
NoOverlap == 0

Overlap == Width - 1

Chunk == Larger(search.chunk, Width)

Window(region, k) ==
  LET start == region.base + k * Chunk
  IN [base |-> region.base, start |-> start,
      size |-> Smaller(region.base + region.size - start, Chunk + Overlap)]

Wanted == {r \in ToSet(Regions) : r.scannable /\ r.size >= Width}

\* The rest of a region that is shorter than a value is not read.
WindowsOf(region) ==
  {Window(region, k) : k \in {k \in 0 .. region.size : k * Chunk + Width <= region.size}}
AllWindows == UNION {WindowsOf(r) : r \in Wanted}

\* They are read in the order of their addresses.
FirstOf(unread) == CHOOSE w \in unread : \A u \in unread : w.start <= u.start

CanRead(w) == w.start .. w.start + w.size - 1 \cap illegible = {}

\* The places of a window whose value is looked at.
Places(w) == {a \in w.start .. w.start + w.size - Width : (a - w.base) % search.align = 0}

\* Little endian: a pointer has a low and a high half.
Pointer(m, a) == m[a] + Cardinality(Bytes) * m[a + 1]

MatchesAt(m, a) == \A i \in 1 .. Width : m[a + i - 1] \in search.pattern[i]

LeadsTo(m, a, address) ==
  Pointer(m, a) <= address /\ address - Pointer(m, a) <= search.reach

\* The hits of a window, or nothing if it cannot be read.
Hits(w) ==
  IF ~CanRead(w) THEN <<>>
  ELSE Ordered({a \in Places(w) : IF IsPattern THEN MatchesAt(memory, a)
                                  ELSE LeadsTo(memory, a, Head(queue).address)})

UpTo(n, s) == [i \in 1 .. Smaller(n, Len(s)) |-> s[i]]

SearchInit ==
  /\ search \in Searches /\ memory \in Memories /\ illegible \in Unreadables
  /\ windows = {} /\ found = <<>> /\ cut = FALSE
  /\ queue = <<>> /\ visited = {} /\ near = <<>>
  /\ step = "begin" /\ seen = {memory}

Begin ==
  /\ step = "begin"
  /\ IF ~Valid(search) THEN step' = "refused" /\ UNCHANGED <<windows, queue, visited>>
     ELSE IF IsPattern
       THEN step' = "read" /\ windows' = AllWindows /\ UNCHANGED <<queue, visited>>
     ELSE /\ step' = "pursue" /\ queue' = <<[address |-> search.target, offsets |-> <<>>]>>
          /\ visited' = {search.target} /\ UNCHANGED windows
  /\ UNCHANGED <<target, memory, found, cut, near, seen>>

(***************************************************************************)
(* scan_pattern                                                            *)
(***************************************************************************)

\* One window.  The scan ends with the hit that fills the limit.
ReadWindow ==
  /\ step = "read" /\ IsPattern /\ windows # {}
  /\ LET w == FirstOf(windows)
         all == found \o Hits(w)
     IN /\ found' = UpTo(search.limit, all)
        /\ cut' = (Len(all) >= search.limit)
        /\ windows' = IF cut' THEN {} ELSE windows \ {w}
  /\ UNCHANGED <<target, memory, pursuit, step, seen>>

ReturnHits ==
  /\ step = "read" /\ IsPattern /\ windows = {}
  /\ step' = "done"
  /\ UNCHANGED <<target, memory, windows, found, cut, pursuit, seen>>

(***************************************************************************)
(* search_pointer_chains                                                   *)
(***************************************************************************)

\* The next address whose pointers are wanted: the nearest to the target first.
Pursue ==
  /\ step = "pursue"
  /\ IF queue = <<>> THEN step' = "done" /\ UNCHANGED <<windows, queue>>
     ELSE IF Len(Head(queue).offsets) >= search.depth \/ Len(found) >= search.limit
       THEN queue' = Tail(queue) /\ UNCHANGED <<step, windows>>
     ELSE step' = "read" /\ windows' = AllWindows /\ UNCHANGED queue
  /\ UNCHANGED <<target, memory, found, cut, visited, near, seen>>

\* scan_pointer_predecessors: one window; a window that cannot be read is passed over.
ReadPredecessors ==
  /\ step = "read" /\ ~IsPattern /\ windows # {}
  /\ LET w == FirstOf(windows)
         hits == Hits(w)
         room == search.limit - Len(found)
         links == [i \in DOMAIN hits |->
                     [root |-> hits[i], offset |-> Head(queue).address - Pointer(memory, hits[i])]]
     IN /\ near' = UpTo(room, near \o links)
        /\ windows' = IF Len(near') >= room THEN {} ELSE windows \ {w}
  /\ UNCHANGED <<target, memory, found, cut, queue, visited, step, seen>>

\* Fault: the new link is put behind the ones it comes before.
PathBehind(link) == [root |-> link.root, offsets |-> Append(Head(queue).offsets, link.offset)]

\* The path that goes through a new link and then on to the target.
Path(link) == [root |-> link.root, offsets |-> <<link.offset>> \o Head(queue).offsets]

\* Fault: an address is pursued only when it leads straight to the target.
ExpandFirstOnly ==
  /\ step = "read" /\ ~IsPattern /\ windows = {}
  /\ found' = found \o [i \in DOMAIN near |-> Path(near[i])]
  /\ visited' = visited \cup {near[i].root : i \in DOMAIN near}
  /\ queue' = Tail(queue)
  /\ near' = <<>> /\ step' = "pursue"
  /\ UNCHANGED <<target, memory, windows, cut, seen>>

\* Every link found makes a path; an address is pursued further only once, and not
\* from the path that fills the limit.
Expand ==
  /\ step = "read" /\ ~IsPattern /\ windows = {}
  /\ found' = found \o [i \in DOMAIN near |-> Path(near[i])]
  /\ LET fresh == Ordered({i \in DOMAIN near : /\ Len(found) + i < search.limit
                                               /\ near[i].root \notin visited})
     IN /\ visited' = visited \cup {near[fresh[k]].root : k \in DOMAIN fresh}
        /\ queue' = Tail(queue) \o
             [k \in DOMAIN fresh |-> [address |-> near[fresh[k]].root, offsets |-> Path(near[fresh[k]]).offsets]]
  /\ near' = <<>> /\ step' = "pursue"
  /\ UNCHANGED <<target, memory, windows, cut, seen>>

(***************************************************************************)
(* resolve_pointer_chain, and the game                                     *)
(***************************************************************************)

Nowhere == -1

\* Read a pointer, add its offset, and again.
ResolvePointerChain(root, offsets) ==
  LET Readable(a) == a .. a + Width - 1 \subseteq DOMAIN memory \ illegible
      current[n \in 0 .. Len(offsets)] ==
        IF n = 0 THEN root
        ELSE IF current[n - 1] = Nowhere \/ ~Readable(current[n - 1]) THEN Nowhere
        ELSE Pointer(memory, current[n - 1]) + offsets[n]
  IN current[Len(offsets)]

Write(a, b) ==
  /\ step \in {"read", "pursue"} /\ Cardinality(seen) <= MaxWrites
  /\ memory' = [memory EXCEPT ![a] = b]
  /\ seen' = seen \cup {memory'}
  /\ UNCHANGED <<target, windows, found, cut, pursuit, step>>

Searching == Begin \/ ReadWindow \/ ReturnHits \/ Pursue \/ ReadPredecessors \/ Expand

SearchNext ==
  \/ Searching
  \/ \E a \in DOMAIN memory, b \in Bytes : memory[a] # b /\ Write(a, b)

SearchSpec == SearchInit /\ [][SearchNext]_searchVars

(***************************************************************************)
(* Properties                                                              *)
(***************************************************************************)

\* Every place of a value the search looks at, in any wanted region.
Candidates ==
  UNION {{a \in r.base .. r.base + r.size - Width : (a - r.base) % search.align = 0} : r \in Wanted}

\* An unreadable byte costs the window around it, no more.
Spared(a) == \A u \in illegible : u < a - Chunk - Width \/ u > a + Chunk + Width
Steady(a) == Spared(a) /\ a \in Candidates

\* A pattern scan reports places that matched while it ran, each once and in order;
\* of those that matched all along, readable ones, it misses none before the last
\* one it reports, and none at all unless it says that the limit ended it.
PatternExact ==
  step = "done" /\ IsPattern =>
    /\ \A i \in DOMAIN found :
         /\ found[i] \in Candidates /\ \E m \in seen : MatchesAt(m, found[i])
         /\ i > 1 => found[i - 1] < found[i]
    /\ Len(found) <= search.limit /\ (cut <=> Len(found) = search.limit)
    /\ \A a \in Candidates :
         (Steady(a) /\ \A m \in seen : MatchesAt(m, a)) /\ (cut => a < Last(found))
            => a \in ToSet(found)

\* A path leads to the target if each of its pointers, read at some time, leads to
\* the next one: `way` are the addresses it passes.
Leads(path) ==
  LET n == Len(path.offsets) IN
  \E way \in [1 .. n + 1 -> Candidates \cup {search.target}] :
    /\ way[1] = path.root /\ way[n + 1] = search.target
    /\ \A i \in 1 .. n :
         /\ way[i] \in Candidates
         /\ \E m \in seen : Pointer(m, way[i]) + path.offsets[i] = way[i + 1]

\* n readable links from an address to the target that all held all along.
LeadSteadily(way, n) ==
  \A i \in 1 .. n :
    /\ Steady(way[i])
    /\ \A m \in seen : LeadsTo(m, way[i], IF i = n THEN search.target ELSE way[i + 1])

\* A pointer search reports paths that lead to the target, of no more links and no
\* larger offsets than asked for; in memory that stands still each resolves to the
\* target and none comes twice.  Unless the limit ended it, every address from which
\* readable pointers lead to the target has a path, and a shortest one.
ChainsExact ==
  step = "done" /\ ~IsPattern =>
    /\ Len(found) <= search.limit
    /\ \A i \in DOMAIN found :
         /\ Leads(found[i])
         /\ Len(found[i].offsets) \in 1 .. search.depth
         /\ ToSet(found[i].offsets) \subseteq 0 .. search.reach
    /\ seen = {memory} =>
         \A i \in DOMAIN found :
           /\ ResolvePointerChain(found[i].root, found[i].offsets) = search.target
           /\ \A j \in DOMAIN found : found[i] = found[j] => i = j
    /\ Len(found) < search.limit =>
         \A n \in 1 .. search.depth : \A way \in [1 .. n -> Candidates] :
           LeadSteadily(way, n) /\ way[1] # search.target =>
             \E i \in DOMAIN found : found[i].root = way[1] /\ Len(found[i].offsets) <= n

\* A search returns.
Returns == <>(step \in {"refused", "done"})

=============================================================================
