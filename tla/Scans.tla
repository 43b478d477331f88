-------------------------------- MODULE Scans --------------------------------
(***************************************************************************)
(* The scan commands of command.rs, as worker threads of the command pool   *)
(* interleave them.  The stored sessions, the active scans and the saved    *)
(* scans are behind three mutexes that no command holds while it scans; a   *)
(* command is therefore several steps, and works on a copy in between.      *)
(***************************************************************************)
EXTENDS Integers, FiniteSets, Functions

CONSTANTS
  Workers,     \* worker threads of the pool
  Addresses,
  MaxIds,      \* bound: scan ids handed out
  MaxCommands  \* bound: commands begun

ASSUME ScansAssumption == MaxIds \in Nat /\ MaxCommands \in Nat

VARIABLES
  down,       \* shutting_down
  stopper,    \* where the thread that shuts down is, and the tokens it holds
  scans,      \* the stored sessions by id
  active,     \* the tokens of the active scans by id
  cancelled,  \* the tokens that were cancelled
  nextId,     \* next_scan_id
  saved,      \* the saved scans of the workspace: at most one name
  pc, job,    \* where each worker is and what it works on
  commands, tokens,     \* history: commands begun, tokens made
  born, aimed           \* history: see Lineage and CancelAimed

storeVars   == <<scans, saved, nextId>>
activeVars  == <<active, cancelled, tokens>>
stopVars    == <<down, stopper>>
workerVars  == <<pc, job>>
historyVars == <<born, aimed>>
vars == <<storeVars, activeVars, stopVars, workerVars, commands, historyVars>>

\* A session: its candidates, the scan that read their current values, and the
\* scan that read the previous ones (0: there is none).
Sessions == [members : SUBSET Addresses, current : Nat, previous : Nat]
NoSession == [members |-> {}, current |-> 0, previous |-> 0]

NoJob == [kind |-> "none", id |-> 0, session |-> NoSession, token |-> 0]

Ids == 1 .. MaxIds
Nothing == [id \in {} |-> NoSession]

With(f, x, y)  == [z \in DOMAIN f \cup {x} |-> IF z = x THEN y ELSE f[z]]
Without(f, x)  == Restrict(f, DOMAIN f \ {x})

Init ==
  /\ down = FALSE /\ stopper = [at |-> "up", tokens |-> {}]
  /\ scans = Nothing /\ active = Nothing /\ saved = {}
  /\ cancelled = {} /\ tokens = 0
  /\ nextId = 1
  /\ pc = [w \in Workers |-> "idle"] /\ job = [w \in Workers |-> NoJob]
  /\ commands = 0
  /\ born = Nothing /\ aimed = {}

Work(w, where, j) == pc' = [pc EXCEPT ![w] = where] /\ job' = [job EXCEPT ![w] = j]
Answer(w) == Work(w, "idle", NoJob)

\* execute: the gate is checked once, when the command begins.
Begin(w) ==
  /\ pc[w] = "idle" /\ commands < MaxCommands
  /\ ~down
  /\ commands' = commands + 1

(***************************************************************************)
(* FirstScan and NextScan                                                  *)
(***************************************************************************)

\* The fetch_add of next_scan_id.
TakeId == nextId <= MaxIds /\ nextId' = nextId + 1

BeginFirst(w) ==
  /\ Begin(w) /\ TakeId
  /\ Work(w, "register", [NoJob EXCEPT !.kind = "first", !.id = nextId])
  /\ UNCHANGED <<scans, saved, activeVars, stopVars, historyVars>>

\* The session is copied before the scan is registered.
BeginNext(w, id) ==
  /\ Begin(w) /\ id \in DOMAIN scans
  /\ Work(w, "register", [NoJob EXCEPT !.kind = "next", !.id = id, !.session = scans[id]])
  /\ UNCHANGED <<storeVars, activeVars, stopVars, historyVars>>

\* Fault: a second scan of the same id replaces the registration of the first.
RegisterAnyway(w) ==
  LET token == tokens + 1
  IN  /\ pc[w] = "register"
      /\ tokens' = token
      /\ active' = With(active, job[w].id, token)
      /\ Work(w, "scan", [job[w] EXCEPT !.token = token])
      /\ UNCHANGED <<storeVars, cancelled, stopVars, commands, born, aimed>>

\* register_active_scan, with a new token.
Register(w) ==
  LET token == tokens + 1
  IN  /\ pc[w] = "register" /\ job[w].id \notin DOMAIN active
      /\ tokens' = token
      /\ active' = With(active, job[w].id, token)
      /\ Work(w, "scan", [job[w] EXCEPT !.token = token])
      /\ UNCHANGED <<storeVars, cancelled, stopVars, commands, born, aimed>>

\* ScanBusy
Busy(w) ==
  /\ pc[w] = "register" /\ job[w].id \in DOMAIN active
  /\ Answer(w)
  /\ UNCHANGED <<storeVars, activeVars, stopVars, commands, historyVars>>

\* What the scanner may return: a next scan looks at the copied candidates only,
\* and a cancelled scan still returns what it has.
Candidates(j) == IF j.kind = "first" THEN Addresses ELSE j.session.members

Scanned(w, members) ==
  /\ pc[w] = "scan"
  /\ members \subseteq Candidates(job[w])
  /\ Work(w, "remove", [job[w] EXCEPT !.session = [members  |-> members,
                                                   current  |-> job[w].token,
                                                   previous |-> job[w].session.current]])
  /\ UNCHANGED <<storeVars, activeVars, stopVars, commands, historyVars>>

\* A ScanError: the worker will only deregister.
ScanFailed(w) ==
  /\ pc[w] = "scan"
  /\ Work(w, "removeFailed", job[w])
  /\ UNCHANGED <<storeVars, activeVars, stopVars, commands, historyVars>>

\* remove_active_scan comes before the session is stored.
RemoveActive(w) ==
  /\ pc[w] \in {"remove", "removeFailed"}
  /\ active' = Without(active, job[w].id)
  /\ IF pc[w] = "remove" THEN Work(w, "insert", job[w]) ELSE Answer(w)
  /\ UNCHANGED <<storeVars, cancelled, tokens, stopVars, commands, historyVars>>

\* The first session stored under an id is its origin.
Born(id, members) == IF id \in DOMAIN born THEN born ELSE With(born, id, members)

Insert(w) ==
  /\ pc[w] = "insert"
  /\ scans' = With(scans, job[w].id, job[w].session)
  /\ born' = Born(job[w].id, job[w].session.members)
  /\ Answer(w)
  /\ UNCHANGED <<saved, nextId, activeVars, stopVars, commands, aimed>>

(***************************************************************************)
(* CancelScan and DeleteScan                                               *)
(***************************************************************************)

\* The token is cloned under the mutex and cancelled after it.
BeginCancel(w, id) ==
  /\ Begin(w) /\ id \in DOMAIN active
  /\ Work(w, "cancel", [NoJob EXCEPT !.kind = "cancel", !.id = id, !.token = active[id]])
  /\ aimed' = aimed \cup {active[id]}
  /\ UNCHANGED <<storeVars, activeVars, stopVars, born>>

\* Fault: the scan is looked up again when the cancellation is carried out.
CancelById(w) ==
  /\ pc[w] = "cancel"
  /\ cancelled' = IF job[w].id \in DOMAIN active THEN cancelled \cup {active[job[w].id]} ELSE cancelled
  /\ Answer(w)
  /\ UNCHANGED <<storeVars, active, tokens, stopVars, commands, historyVars>>

Cancel(w) ==
  /\ pc[w] = "cancel"
  /\ cancelled' = cancelled \cup {job[w].token}
  /\ Answer(w)
  /\ UNCHANGED <<storeVars, active, tokens, stopVars, commands, historyVars>>

\* The active scans are looked at under one mutex, the session goes under another.
BeginDelete(w, id) ==
  /\ Begin(w) /\ id \notin DOMAIN active
  /\ Work(w, "delete", [NoJob EXCEPT !.kind = "delete", !.id = id])
  /\ UNCHANGED <<storeVars, activeVars, stopVars, historyVars>>

Delete(w) ==
  /\ pc[w] = "delete"
  /\ scans' = Without(scans, job[w].id)
  /\ Answer(w)
  /\ UNCHANGED <<saved, nextId, activeVars, stopVars, commands, historyVars>>

(***************************************************************************)
(* SaveScan and RestoreScan                                                *)
(***************************************************************************)

BeginSave(w, id) ==
  /\ Begin(w) /\ id \in DOMAIN scans
  /\ Work(w, "save", [NoJob EXCEPT !.kind = "save", !.id = id, !.session = scans[id]])
  /\ UNCHANGED <<storeVars, activeVars, stopVars, historyVars>>

Save(w) ==
  /\ pc[w] = "save"
  /\ saved' = {job[w].session}
  /\ Answer(w)
  /\ UNCHANGED <<scans, nextId, activeVars, stopVars, commands, historyVars>>

BeginRestore(w, session) ==
  /\ Begin(w) /\ session \in saved
  /\ Work(w, "restore", [NoJob EXCEPT !.kind = "restore", !.session = session])
  /\ UNCHANGED <<storeVars, activeVars, stopVars, historyVars>>

\* Fault: a restored scan takes the id without counting it.
RestoreSameId(w) ==
  /\ pc[w] = "restore" /\ nextId <= MaxIds /\ UNCHANGED nextId
  /\ Work(w, "insert", [job[w] EXCEPT !.id = nextId])
  /\ UNCHANGED <<scans, saved, activeVars, stopVars, commands, historyVars>>

Restore(w) ==
  /\ pc[w] = "restore" /\ TakeId
  /\ Work(w, "insert", [job[w] EXCEPT !.id = nextId])
  /\ UNCHANGED <<scans, saved, activeVars, stopVars, commands, historyVars>>

(***************************************************************************)
(* shutdown                                                                *)
(***************************************************************************)

CloseGate ==
  /\ stopper.at = "up"
  /\ down' = TRUE
  /\ stopper' = [stopper EXCEPT !.at = "collect"]
  /\ UNCHANGED <<storeVars, activeVars, workerVars, commands, historyVars>>

\* cancel_all_scans: clone the tokens, then cancel them.
Collect ==
  /\ stopper.at = "collect"
  /\ stopper' = [at |-> "cancel", tokens |-> Range(active)]
  /\ aimed' = aimed \cup Range(active)
  /\ UNCHANGED <<storeVars, activeVars, down, workerVars, commands, born>>

CancelAll ==
  /\ stopper.at = "cancel"
  /\ cancelled' = cancelled \cup stopper.tokens
  /\ stopper' = [at |-> "done", tokens |-> {}]
  /\ UNCHANGED <<storeVars, active, tokens, down, workerVars, commands, historyVars>>

-----------------------------------------------------------------------------

Worker(w) ==
  \/ BeginFirst(w)
  \/ \E id \in Ids : BeginNext(w, id) \/ BeginCancel(w, id) \/ BeginDelete(w, id) \/ BeginSave(w, id)
  \/ \E session \in saved : BeginRestore(w, session)
  \/ Register(w) \/ Busy(w)
  \/ \E members \in SUBSET Candidates(job[w]) : Scanned(w, members)
  \/ ScanFailed(w) \/ RemoveActive(w) \/ Insert(w)
  \/ Cancel(w) \/ Delete(w) \/ Save(w) \/ Restore(w)

Next ==
  \/ \E w \in Workers : Worker(w)
  \/ CloseGate \/ Collect \/ CancelAll

Spec == Init /\ [][Next]_vars

-----------------------------------------------------------------------------

Registered == {w \in Workers : pc[w] \in {"scan", "remove", "removeFailed"}}

\* At most one scan of an id runs at a time, and the registration is its own: a
\* cancellation or a progress request finds the scan that really runs.
OneScanPerId ==
  /\ \A w \in Registered : job[w].id \in DOMAIN active /\ active[job[w].id] = job[w].token
  /\ \A id \in DOMAIN active : \E w \in Registered : job[w].id = id

\* Whatever scans, deletions and restores overlap, a session holds candidates of
\* the session its id began with, and no id is given to two scans.
Lineage ==
  \A id \in DOMAIN scans : id \in DOMAIN born /\ scans[id].members \subseteq born[id]

\* A cancellation reaches the scan that was active when it was asked for, never a
\* later scan of the same id.
CancelAimed == cancelled \subseteq aimed

=============================================================================
