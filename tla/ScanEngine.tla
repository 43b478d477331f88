------------------------------ MODULE ScanEngine ------------------------------
(***************************************************************************)
(* The parallel scan of scanner/engine.rs: workers take items of a plan     *)
(* from an atomic counter, read and evaluate them while the game writes its *)
(* memory, and share a limit on the results; the thread that called the     *)
(* scan drains their events, joins them and merges what they found.         *)
(***************************************************************************)
EXTENDS Integers, Sequences, FiniteSets, SequencesExt, FiniteSetsExt

CONSTANTS
  Threads,      \* threads the scan may start
  Plans,        \* the scans that may be asked for, see ScanPlan
  Holes,        \* sets of bytes that cannot be read
  MaxResults,   \* options.max_results
  MaxFlips      \* bound: values the game changes during the scan

\* The values of a plan: the k-th of its i-th item.
ValuesOf(p) == UNION {{i} \X DOMAIN p.items[i].at : i \in DOMAIN p.items}
Address(p, v) == p.items[v[1]].at[v[2]]

\* A plan deals each address of the scan to one place in one item.  A chunk is
\* read with all of its values, and no further away from any than the reach.
WellFormed(p) ==
  /\ p.kind \in {"first", "next"} /\ p.width \in Nat \ {0} /\ {p.reach, p.work} \subseteq Nat
  /\ p.items \in Seq([at : Seq(Int), bytes : SUBSET Int])
  /\ p.targets = {Address(p, v) : v \in ValuesOf(p)}
  /\ \A v, w \in ValuesOf(p) : Address(p, v) = Address(p, w) => v = w
  /\ p.kind = "first" => \A v \in ValuesOf(p) :
       /\ Address(p, v) .. Address(p, v) + p.width - 1 \subseteq p.items[v[1]].bytes
       /\ p.items[v[1]].bytes \subseteq Address(p, v) - p.reach .. Address(p, v) + p.reach
  /\ p.kind = "next" => p.width <= p.reach + 1

ASSUME EngineAssumption ==
  /\ IsFiniteSet(Threads) /\ Threads # {}
  /\ MaxResults \in Nat \ {0} /\ MaxFlips \in Nat
  /\ \A p \in Plans : WellFormed(p)
  /\ \A hole \in Holes : hole \subseteq Int

VARIABLES
  plan, mistyped,             \* the scan, and whether its predicate has another type
  unreadable,                 \* bytes that cannot be read
  matching, flips,            \* addresses whose value matches now; changes so far
  cancelling,                 \* the CancellationToken
  stop, truncated, accepted,  \* shared by the workers
  nextItem,                   \* next_chunk, next_index
  stage, item, at, buffer,    \* where each worker is, and what its buffer matched
  local, failed,              \* its results, or that it returned an error
  caller, completed,          \* the calling thread and the workers it saw finish
  result,
  always, ever                \* history: addresses that matched all along, or once

memoryVars == <<plan, mistyped, unreadable, matching, flips, always, ever>>
limitVars  == <<stop, truncated, accepted>>
threadVars == <<stage, item, at, buffer, local, failed>>
callerVars == <<caller, completed, result>>
engineVars == <<memoryVars, cancelling, limitVars, nextItem, threadVars, callerVars>>

NoResult == [status |-> "none", found |-> {}, size |-> 0, cancelled |-> FALSE, truncated |-> FALSE]

EngineInit ==
  /\ plan \in Plans
  /\ mistyped \in BOOLEAN
  /\ unreadable \in Holes
  /\ matching \in SUBSET plan.targets
  /\ flips = 0
  /\ always = matching /\ ever = matching
  /\ cancelling \in BOOLEAN
  /\ stop = FALSE /\ truncated = FALSE /\ accepted = 0
  /\ nextItem = 1
  /\ stage = [w \in Threads |-> "none"]
  /\ item = [w \in Threads |-> 0] /\ at = [w \in Threads |-> 0]
  /\ buffer = [w \in Threads |-> {}]
  /\ local = [w \in Threads |-> <<>>] /\ failed = [w \in Threads |-> FALSE]
  /\ caller = "start" /\ completed = 0
  /\ result = NoResult

(***************************************************************************)
(* The game, and CancelScan                                                *)
(***************************************************************************)

Flip(a) ==
  /\ flips < MaxFlips /\ caller # "done"
  /\ flips' = flips + 1
  /\ matching' = IF a \in matching THEN matching \ {a} ELSE matching \cup {a}
  /\ always' = always \cap matching' /\ ever' = ever \cup matching'
  /\ UNCHANGED <<plan, mistyped, unreadable, cancelling, limitVars, nextItem, threadVars, callerVars>>

CancelScan ==
  /\ ~cancelling /\ caller # "done"
  /\ cancelling' = TRUE
  /\ UNCHANGED <<memoryVars, limitVars, nextItem, threadVars, callerVars>>

(***************************************************************************)
(* A worker                                                                *)
(***************************************************************************)

Goto(w, where) == stage' = [stage EXCEPT ![w] = where]

Crew == {w \in Threads : stage[w] # "none"}

\* The item and the position worker w is at.
Item(w) == plan.items[item[w]]
Here(w) == Item(w).at[at[w]]

Halted == cancelling \/ stop

\* The top of the loop: leave, or take the next item.
Fetch(w) ==
  /\ stage[w] = "loop"
  /\ IF Halted
       THEN Goto(w, "finish") /\ UNCHANGED <<nextItem, item, at>>
       ELSE /\ nextItem' = nextItem + 1
            /\ IF nextItem > Len(plan.items)
                 THEN Goto(w, "finish") /\ UNCHANGED <<item, at>>
                 ELSE /\ Goto(w, IF plan.kind = "first" THEN "read" ELSE "evaluate")
                      /\ item' = [item EXCEPT ![w] = nextItem]
                      /\ at' = [at EXCEPT ![w] = 1]
  /\ UNCHANGED <<memoryVars, cancelling, limitVars, buffer, local, failed, callerVars>>

\* A first scan reads the chunk at once; one unreadable byte loses the chunk.
Read(w) ==
  /\ stage[w] = "read"
  /\ IF Item(w).bytes \cap unreadable = {}
       THEN Goto(w, "evaluate") /\ buffer' = [buffer EXCEPT ![w] = matching \cap ToSet(Item(w).at)]
       ELSE Goto(w, "send") /\ UNCHANGED buffer
  /\ UNCHANGED <<memoryVars, cancelling, limitVars, nextItem, item, at, local, failed, callerVars>>

\* Fault: a failed read is not noticed, the bytes of the candidate before are used.
LegibleAlways(w) == TRUE

\* A next scan reads each candidate by itself and skips one it cannot read.
Legible(w) == plan.kind = "first" \/ (Here(w) .. Here(w) + plan.width - 1) \cap unreadable = {}

Matches(w) == IF plan.kind = "first" THEN Here(w) \in buffer[w] ELSE Here(w) \in matching

\* The next value of the item: a predicate of another type ends the worker.
Evaluate(w) ==
  /\ stage[w] = "evaluate"
  /\ IF at[w] > Len(Item(w).at) \/ Halted
       THEN Goto(w, "send") /\ UNCHANGED <<at, failed>>
     ELSE IF Legible(w) /\ mistyped
       THEN Goto(w, "finish") /\ failed' = [failed EXCEPT ![w] = TRUE] /\ UNCHANGED at
     ELSE IF Legible(w) /\ Matches(w)
       THEN Goto(w, "reserve") /\ UNCHANGED <<at, failed>>
     ELSE at' = [at EXCEPT ![w] = @ + 1] /\ UNCHANGED <<stage, failed>>
  /\ UNCHANGED <<memoryVars, cancelling, limitVars, nextItem, item, buffer, local, callerVars>>

\* Fault: the slot behind the last one is still given out.
ReserveOneMore(w) ==
  /\ stage[w] = "reserve"
  /\ accepted' = accepted + 1
  /\ local' = [local EXCEPT ![w] = IF accepted <= MaxResults THEN Append(@, Here(w)) ELSE @]
  /\ at' = [at EXCEPT ![w] = @ + 1]
  /\ Goto(w, IF accepted >= MaxResults THEN "flag" ELSE "evaluate")
  /\ UNCHANGED <<memoryVars, cancelling, stop, truncated, nextItem, item, buffer, failed, callerVars>>

\* reserve_result_slot: the fetch_add decides who gets a place.
Reserve(w) ==
  /\ stage[w] = "reserve"
  /\ accepted' = accepted + 1
  /\ local' = [local EXCEPT ![w] = IF accepted < MaxResults THEN Append(@, Here(w)) ELSE @]
  /\ at' = [at EXCEPT ![w] = @ + 1]
  /\ Goto(w, IF accepted + 1 >= MaxResults THEN "flag" ELSE "evaluate")
  /\ UNCHANGED <<memoryVars, cancelling, stop, truncated, nextItem, item, buffer, failed, callerVars>>

Flag(w) ==
  /\ stage[w] = "flag"
  /\ truncated' = TRUE /\ stop' = TRUE
  /\ Goto(w, "evaluate")
  /\ UNCHANGED <<memoryVars, cancelling, accepted, nextItem, item, at, buffer, local, failed, callerVars>>

(***************************************************************************)
(* The calling thread.  Events pass through a channel without buffer: a     *)
(* worker waits until the caller takes its event.                           *)
(***************************************************************************)

\* One thread for each chunk or candidate, batches or not, up to the configured number.
CrewSize == Min({Cardinality(Threads), plan.work})

Start ==
  /\ caller = "start"
  /\ IF plan.items = <<>>
       THEN /\ result' = [NoResult EXCEPT !.status = "ok"] /\ caller' = "done"
            /\ UNCHANGED stage
       ELSE /\ \E crew \in kSubset(CrewSize, Threads) :
                 stage' = [w \in Threads |-> IF w \in crew THEN "loop" ELSE "none"]
            /\ caller' = "drain"
            /\ UNCHANGED result
  /\ UNCHANGED <<memoryVars, cancelling, limitVars, nextItem, item, at, buffer, local, failed, completed>>

DrainProgress(w) ==
  /\ caller = "drain" /\ stage[w] = "send"
  /\ Goto(w, "loop")
  /\ item' = [item EXCEPT ![w] = 0] /\ at' = [at EXCEPT ![w] = 0]
  /\ buffer' = [buffer EXCEPT ![w] = {}]
  /\ UNCHANGED <<memoryVars, cancelling, limitVars, nextItem, local, failed, callerVars>>

\* Fault: the caller stops listening when the first worker is done.
DrainDoneFirst(w) ==
  /\ caller = "drain" /\ stage[w] = "finish"
  /\ Goto(w, "done")
  /\ completed' = completed + 1
  /\ caller' = "join"
  /\ UNCHANGED <<memoryVars, cancelling, limitVars, nextItem, item, at, buffer, local, failed, result>>

DrainDone(w) ==
  /\ caller = "drain" /\ stage[w] = "finish"
  /\ Goto(w, "done")
  /\ completed' = completed + 1
  /\ caller' = IF completed + 1 = Cardinality(Crew) THEN "join" ELSE "drain"
  /\ UNCHANGED <<memoryVars, cancelling, limitVars, nextItem, item, at, buffer, local, failed, result>>

Found == UNION {ToSet(local[w]) : w \in Threads}

\* The places of the merged results: two workers that found one address have two.
Merged == UNION {{w} \X DOMAIN local[w] : w \in Threads}

\* The first places by address, as truncate after sort leaves them.
Lowest(S, n) == {a \in S : Cardinality({b \in S : b < a}) < n}

\* Join, merge, sort, cut, and only then read the flags.
Join ==
  /\ caller = "join" /\ \A w \in Crew : stage[w] = "done"
  /\ result' =
       IF \E w \in Crew : failed[w]
         THEN [NoResult EXCEPT !.status = "failed"]
         ELSE [status |-> "ok", found |-> Lowest(Found, MaxResults),
               size |-> Min({Cardinality(Merged), MaxResults}), cancelled |-> cancelling, truncated |-> truncated]
  /\ caller' = "done"
  /\ UNCHANGED <<memoryVars, cancelling, limitVars, nextItem, threadVars, completed>>

-----------------------------------------------------------------------------

ThreadStep(w) ==
  \/ Fetch(w) \/ Read(w) \/ Evaluate(w) \/ Reserve(w) \/ Flag(w)
  \/ DrainProgress(w) \/ DrainDone(w)

Scanning == Start \/ Join \/ \E w \in Threads : ThreadStep(w)

EngineNext ==
  \/ \E a \in plan.targets : Flip(a)
  \/ CancelScan
  \/ Scanning

EngineSpec == EngineInit /\ [][EngineNext]_engineVars

\* Threads run; memory and cancellations are up to others.
FairSpec == EngineSpec /\ WF_engineVars(Scanning)

-----------------------------------------------------------------------------

\* A reported address matched while it was scanned, could be read, and belongs to
\* the scan.
Sound ==
  \A a \in result.found :
    /\ a \in plan.targets \cap ever
    /\ (a .. a + plan.width - 1) \cap unreadable = {}

Undisturbed(a) == \A u \in unreadable : u < a - plan.reach \/ u > a + plan.reach

\* A scan that says it was neither cancelled nor cut has every address that
\* matched all along, values across chunk boundaries included, and an unreadable
\* byte costs only what lies around it.
Complete ==
  (result.status = "ok" /\ ~result.cancelled /\ ~result.truncated) =>
    \A a \in plan.targets \cap always : Undisturbed(a) => a \in result.found

\* The scan reports what matches, no more and, of what it could read, no less.  The
\* overlap of chunks and the sharing of work report no address twice, the parallel
\* workers keep the limit together, and a scan is called truncated exactly when it
\* filled the limit.
Exact ==
  /\ Sound /\ Complete
  /\ result.size = Cardinality(result.found)
  /\ result.status = "ok" => (result.truncated <=> result.size = MaxResults)

\* Whether some value was there to be compared.
Comparable ==
  \E i \in 1 .. Len(plan.items) :
    IF plan.kind = "first" THEN plan.items[i].bytes \cap unreadable = {}
    ELSE \E a \in ToSet(plan.items[i].at) : (a .. a + plan.width - 1) \cap unreadable = {}

\* The scan returns, whatever fails, is cancelled or reaches the limit.
Finishes == <>(caller = "done")
=============================================================================
