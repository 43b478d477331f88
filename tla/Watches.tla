------------------------------- MODULE Watches --------------------------------
(***************************************************************************)
(* The dispatcher's watches, the memory they freeze and the templates that  *)
(* outlive the process (command.rs, analysis.rs, memory.rs,                 *)
(* platform/windows/memory.rs).  A refresh works on a copy of the watches;  *)
(* a write changes the protection of a page for a moment.  A cell is a page *)
(* that holds one value; the modules of the game and its pages are the      *)
(* system's.                                                                *)
(***************************************************************************)
EXTENDS Integers, FiniteSets, Sequences

CONSTANTS
  PoolThreads,
  Cells,       \* addresses, numbers
  Own,         \* Cells -> [committed, writable, executable, guard], as the game made them
  Policies,    \* records of read, write, patch: what the configuration may allow
  Modules,     \* modules of one cell, no two of one name
  Bases,       \* where a module may be loaded
  Absolute,    \* stands for the module in an address that has none
  Values, Fits(_),    \* the values there are, and those that fit the type of a watch
  None, Torn,
  Names,       \* of templates
  MaxId, MaxMoves     \* bounds: watches ever made; modules moved, workspaces saved and exits

\* A module is loaded where the game has memory.
ASSUME WatchesAssumption ==
  /\ Cells \subseteq Nat /\ Bases \subseteq Cells /\ None \notin Cells /\ None \notin Values
  /\ Absolute \notin Modules
  /\ Own \in [Cells -> [committed : BOOLEAN, writable : BOOLEAN, executable : BOOLEAN, guard : BOOLEAN]]
  /\ Policies \subseteq [read : BOOLEAN, write : BOOLEAN, patch : BOOLEAN]
  /\ MaxId \in Nat /\ MaxMoves \in Nat

VARIABLES
  policy, watches, nextWatch,
  writable,             \* by cell: whether its page is writable now; what it holds nobody asks
  base,                 \* Modules -> where it is loaded, or None
  templates, file,      \* the workspace, and what was last saved of it
  task,                  \* by worker
  moves,
  asked,                \* history: the freezes that the users asked for, <<watch, cell, value>>
  wanted,               \* history, by worker: those in force at some time since its task began
  spoiled               \* history: pages that two writes were in at once, or that were not restored

watchVars == <<policy, watches, nextWatch, writable, base, templates, file, task, moves, asked, wanted, spoiled>>
stores == <<watches, nextWatch, templates, file, asked>>
pages == <<writable, spoiled>>

Idle == [step |-> "idle"]

\* Whether a command of this kind passes its checks before it starts.
Allowed(kind) ==
  CASE kind \in {"refresh", "read"} -> policy.read
    [] kind \in {"write", "freeze"} -> policy.write
    [] OTHER -> TRUE

-----------------------------------------------------------------------------

WatchesInit ==
  /\ policy \in Policies
  /\ watches = <<>> /\ nextWatch = 1
  /\ writable = [c \in Cells |-> Own[c].writable]
  /\ base \in [Modules -> Bases] /\ \A m, n \in Modules : base[m] = base[n] => m = n
  /\ templates = <<>> /\ file = None
  /\ task = [w \in PoolThreads |-> Idle]
  /\ moves = 0 /\ asked = {} /\ wanted = [w \in PoolThreads |-> {}] /\ spoiled = {}

Refreshing(w) == task[w].step \notin {"idle", "save", "use"} /\ task[w].why = "refresh"

\* A freeze counts for every refresh that is under way.
Ask(id, at, value) ==
  /\ asked' = {a \in asked : a[1] # id} \cup (IF value = None THEN {} ELSE {<<id, at, value>>})
  /\ wanted' = [w \in PoolThreads |-> IF Refreshing(w) THEN wanted[w] \cup asked' ELSE {}]

InsertWatch(at, frozen) ==
  /\ watches' = [i \in DOMAIN watches \cup {nextWatch} |->
                   IF i = nextWatch THEN [at |-> at, frozen |-> frozen] ELSE watches[i]]
  /\ nextWatch' = nextWatch + 1
  /\ Ask(nextWatch, at, frozen)

AddWatch(w, c) ==
  /\ task[w] = Idle /\ nextWatch <= MaxId
  /\ InsertWatch(c, None)
  /\ UNCHANGED <<policy, writable, base, templates, file, task, moves, spoiled>>

\* Fault: only a value is taken over.
FreezeKeeps(w, id, value) ==
  /\ task[w] = Idle /\ id \in DOMAIN watches
  /\ value # None => Allowed("freeze") /\ Fits(value)
  /\ watches' = IF value = None THEN watches ELSE [watches EXCEPT ![id].frozen = value]
  /\ Ask(id, watches[id].at, value)
  /\ UNCHANGED <<policy, nextWatch, writable, base, templates, file, task, moves, spoiled>>

\* To let a value go needs no permission.
SetWatchFreeze(w, id, value) ==
  /\ task[w] = Idle /\ id \in DOMAIN watches
  /\ value # None => Allowed("freeze") /\ Fits(value)
  /\ watches' = [watches EXCEPT ![id].frozen = value]
  /\ Ask(id, watches[id].at, value)
  /\ UNCHANGED <<policy, nextWatch, writable, base, templates, file, task, moves, spoiled>>

RemoveWatch(w, id) ==
  /\ task[w] = Idle /\ id \in DOMAIN watches
  /\ watches' = [i \in DOMAIN watches \ {id} |-> watches[i]]
  /\ Ask(id, watches[id].at, None)
  /\ UNCHANGED <<policy, nextWatch, writable, base, templates, file, task, moves, spoiled>>

(***************************************************************************)
(* Writes: CurrentProcessMemory::write_exact and the commands that use it  *)
(***************************************************************************)

\* A write of one cell; what is left of a refresh comes behind it.
Writing(c, v, rest, why) ==
  [step |-> "query", at |-> c, value |-> v, changed |-> FALSE, old |-> FALSE, rest |-> rest, why |-> why]

\* The worker is done with one watch of its copy, or with its command.
Onward(w, rest) ==
  IF rest = <<>>
    THEN task' = [task EXCEPT ![w] = Idle] /\ wanted' = [wanted EXCEPT ![w] = {}]
    ELSE /\ task' = [task EXCEPT ![w] = Writing(Head(rest)[1], Head(rest)[2], Tail(rest), "refresh")]
         /\ UNCHANGED wanted

Write(w, c, v) ==
  /\ task[w] = Idle /\ Allowed("write") /\ Fits(v)
  /\ task' = [task EXCEPT ![w] = Writing(c, v, <<>>, "write")]
  /\ UNCHANGED <<policy, stores, pages, base, moves, wanted>>

\* The copy is in the order of the ids; a watch that is not frozen is only read.
RefreshWatches(w) ==
  LET frozen == {i \in DOMAIN watches : watches[i].frozen # None /\ Allowed("write")}
  IN  /\ task[w] = Idle /\ Allowed("refresh")
      /\ frozen # {}
      /\ \E ids \in [1 .. Cardinality(frozen) -> frozen] :
           /\ \A k, n \in DOMAIN ids : k < n => ids[k] < ids[n]
           /\ LET copy == [k \in DOMAIN ids |-> <<watches[ids[k]].at, watches[ids[k]].frozen>>]
              IN  task' = [task EXCEPT ![w] = Writing(copy[1][1], copy[1][2], Tail(copy), "refresh")]
      /\ wanted' = [wanted EXCEPT ![w] = asked]
      /\ UNCHANGED <<policy, stores, pages, base, moves>>

InPage(u, c) == task[u].step \in {"protect", "store", "restore"} /\ task[u].at = c

\* Fault: the code of the game is memory like any other.
RefusedCodeToo(c) ==
  ~policy.write \/ ~Own[c].committed \/ Own[c].guard

Refused(c) ==
  ~policy.write \/ ~Own[c].committed \/ Own[c].guard \/ (Own[c].executable /\ ~policy.patch)

Query(w) ==
  LET j == task[w] IN
  /\ j.step = "query"
  /\ IF Refused(j.at) THEN Onward(w, j.rest) /\ UNCHANGED spoiled
     ELSE /\ task' = [task EXCEPT ![w].step = IF writable[j.at] THEN "store" ELSE "protect",
                                ![w].changed = ~writable[j.at]]
          /\ spoiled' = IF \E u \in PoolThreads \ {w} : InPage(u, j.at) THEN spoiled \cup {j.at} ELSE spoiled
          /\ UNCHANGED wanted
  /\ UNCHANGED <<policy, stores, writable, base, moves>>

\* VirtualProtect tells what the protection was.
Protect(w) ==
  LET j == task[w] IN
  /\ j.step = "protect"
  /\ task' = [task EXCEPT ![w].step = "store", ![w].old = writable[j.at]]
  /\ writable' = [writable EXCEPT ![j.at] = TRUE]
  /\ UNCHANGED <<policy, stores, spoiled, base, moves, wanted>>

ProtectFails(w) ==
  /\ task[w].step = "protect"
  /\ Onward(w, task[w].rest)
  /\ UNCHANGED <<policy, stores, pages, base, moves>>

\* Fault: a write that fails returns at once.
StoreReturns(w, ok) ==
  LET j == task[w] IN
  /\ j.step = "store" /\ (ok => writable[j.at])
  /\ IF j.changed /\ ok THEN task' = [task EXCEPT ![w].step = "restore"] /\ UNCHANGED wanted
     ELSE Onward(w, j.rest)
  /\ UNCHANGED <<policy, stores, pages, base, moves>>

\* WriteProcessMemory; whether it succeeds or not, the protection is put back.
Store(w, ok) ==
  LET j == task[w] IN
  /\ j.step = "store" /\ (ok => writable[j.at])
  /\ IF j.changed THEN task' = [task EXCEPT ![w].step = "restore"] /\ UNCHANGED wanted
     ELSE Onward(w, j.rest)
  /\ UNCHANGED <<policy, stores, pages, base, moves>>

PutBack(w, ok) ==
  LET j == task[w] IN
  /\ j.step = "restore"
  /\ writable' = IF ok THEN [writable EXCEPT ![j.at] = j.old] ELSE writable
  /\ spoiled' = IF ok THEN spoiled ELSE spoiled \cup {j.at}
  /\ Onward(w, j.rest)
  /\ UNCHANGED <<policy, stores, base, moves>>

(***************************************************************************)
(* Templates and the workspace                                             *)
(***************************************************************************)

\* The address of a template: the module it lies in and the offset, or itself.
Place(a, mods) ==
  LET inside == {m \in Modules : mods[m] # None /\ a >= mods[m] /\ a < mods[m] + 1}
  IN  IF inside = {} THEN [module |-> Absolute, offset |-> a]
      ELSE LET m == CHOOSE m \in inside : TRUE IN [module |-> m, offset |-> a - mods[m]]

\* AddressExpression::resolve; None where the module is not loaded.
Resolve(place, mods) ==
  IF place.module = Absolute THEN place.offset
  ELSE IF mods[place.module] = None THEN None
  ELSE mods[place.module] + place.offset

BeginSaveTemplate(w, id, name) ==
  /\ task[w] = Idle /\ id \in DOMAIN watches
  /\ task' = [task EXCEPT ![w] = [step |-> "save", watch |-> watches[id], name |-> name]]
  /\ UNCHANGED <<policy, stores, pages, base, moves, wanted>>

SaveTemplate(w) ==
  LET j == task[w] IN
  /\ j.step = "save"
  /\ templates' = [n \in DOMAIN templates \cup {j.name} |->
                     IF n = j.name THEN [place |-> Place(j.watch.at, base), frozen |-> j.watch.frozen]
                     ELSE templates[n]]
  /\ task' = [task EXCEPT ![w] = Idle]
  /\ UNCHANGED <<policy, watches, nextWatch, file, asked, pages, base, moves, wanted>>

BeginUse(w, name) ==
  /\ task[w] = Idle /\ name \in DOMAIN templates
  /\ task' = [task EXCEPT ![w] = [step |-> "use", template |-> templates[name]]]
  /\ UNCHANGED <<policy, stores, pages, base, moves, wanted>>

\* A template may come from a process that was allowed to write.
UseTemplate(w) ==
  LET t == task[w].template
      at == Resolve(t.place, base)
  IN  /\ task[w].step = "use"
      /\ IF at # None /\ (t.frozen # None => Allowed("freeze") /\ Fits(t.frozen)) /\ nextWatch <= MaxId
           THEN InsertWatch(at, t.frozen) ELSE UNCHANGED <<watches, nextWatch, asked, wanted>>
      /\ task' = [task EXCEPT ![w] = Idle]
      /\ UNCHANGED <<policy, templates, file, pages, base, moves>>

\* One fs::write under the lock of the workspace, which a crash may cut short.
SaveWorkspace(w) ==
  /\ task[w] = Idle /\ moves < MaxMoves /\ moves' = moves + 1
  /\ file' = templates
  /\ UNCHANGED <<policy, watches, nextWatch, templates, asked, pages, base, task, wanted>>

\* A file that cannot be read or parsed changes nothing.
LoadWorkspace(w) ==
  /\ task[w] = Idle /\ file \notin {None, Torn}
  /\ templates' = file
  /\ UNCHANGED <<policy, watches, nextWatch, file, asked, pages, base, task, moves, wanted>>

(***************************************************************************)
(* The game                                                                *)
(***************************************************************************)

\* A module is unloaded, or loaded at a free place.
Move(m) ==
  /\ moves < MaxMoves /\ moves' = moves + 1
  /\ \E b \in Bases \cup {None} :
       /\ b # None => \A n \in Modules \ {m} : base[n] # b
       /\ base' = [base EXCEPT ![m] = b]
  /\ UNCHANGED <<policy, stores, pages, task, wanted>>

\* The process ends, perhaps in the middle of a save, and a new one starts,
\* perhaps under another policy.  Its pages and modules are new.
Exit(torn) ==
  /\ moves < MaxMoves /\ moves' = moves + 1
  /\ file' = IF torn THEN Torn ELSE file
  /\ policy' \in Policies
  /\ watches' = <<>> /\ nextWatch' = 1 /\ templates' = <<>>
  /\ writable' = [c \in Cells |-> Own[c].writable]
  /\ task' = [w \in PoolThreads |-> Idle]
  /\ asked' = {} /\ wanted' = [w \in PoolThreads |-> {}] /\ spoiled' = {}
  /\ UNCHANGED base

WatchesNext ==
  \/ \E w \in PoolThreads :
       \/ \E c \in Cells : AddWatch(w, c) \/ \E v \in Values : Write(w, c, v)
       \/ \E id \in 1 .. MaxId : \/ RemoveWatch(w, id)
                                 \/ \E v \in Values \cup {None} : SetWatchFreeze(w, id, v)
                                 \/ \E n \in Names : BeginSaveTemplate(w, id, n)
       \/ RefreshWatches(w) \/ Query(w) \/ Protect(w) \/ ProtectFails(w)
       \/ \E ok \in BOOLEAN : Store(w, ok) \/ PutBack(w, ok)
       \/ SaveTemplate(w) \/ UseTemplate(w) \/ \E n \in Names : BeginUse(w, n)
       \/ SaveWorkspace(w) \/ LoadWorkspace(w)
  \/ \E m \in Modules : Move(m)
  \/ \E torn \in BOOLEAN : Exit(torn)

WatchesSpec == WatchesInit /\ [][WatchesNext]_watchVars

-----------------------------------------------------------------------------

\* A command writes only where and as far as the policy lets it, and a refresh,
\* which works on a copy, only what was frozen at some time since it began: what is
\* unfrozen or removed, or came with a template of a process that was allowed more,
\* is written by no later refresh.
WritesWanted ==
  \A w \in PoolThreads :
    task[w].step = "store" =>
      /\ policy.write /\ ~Own[task[w].at].guard /\ (Own[task[w].at].executable => policy.patch)
      /\ Refreshing(w) => \E a \in wanted[w] : a[2] = task[w].at /\ a[3] = task[w].value

\* When no write is under way every page has the protection the game gave it, a
\* failed write included, unless the system refused to put it back or two writes
\* were in the page at once: the second takes the protection that the first set for
\* the moment for the page's own, and leaves it.
ProtectionKept ==
  \A c \in Cells :
    ((\A w \in PoolThreads : ~InPage(w, c)) /\ c \notin spoiled) => writable[c] = Own[c].writable
===============================================================================
