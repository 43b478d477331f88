------------------------------ MODULE TimerHooks ------------------------------
(***************************************************************************)
(* The timer hooks of experimental_timer_probe.rs: threads of the game read *)
(* the performance counter through import slots while Intimatr patches the *)
(* slots, changes the speed, and restores them.  One mutex guards the       *)
(* session and the slot records; hooks only ever try it.                    *)
(***************************************************************************)
EXTENDS SpeedModel, FiniteSets

CONSTANTS
  Threads,      \* threads of the game
  NumSlots,     \* import slots found, patched in this order
  Api(_),       \* the timer function slot s imports
  MaxNow,       \* bound: the last reading of the counter
  MaxInstalls,  \* bound: installations begun
  MaxFaults,    \* bound: failures of VirtualProtect
  MaxForeign    \* bound: slots overwritten by somebody else

Slots == 1 .. NumSlots

ASSUME HooksAssumption ==
  /\ NumSlots \in Nat \ {0}
  /\ MaxNow \in Ticks
  /\ MaxInstalls \in Nat /\ MaxFaults \in Nat /\ MaxForeign \in Nat

Free    == "free"
Control == "control"
ASSUME OwnerAssumption == Free \notin Threads /\ Control \notin Threads

VARIABLES
  now,        \* the real counter
  stopping,   \* the runtime's gate: shutdown requested, or no longer Running
  iat,        \* what each slot points at
  page,       \* the protection of each slot's page
  owner,      \* who holds the mutex HOOKS
  task,       \* what Control does while it holds the mutex
  next,       \* the slot it looks at next
  installed,  \* the guarded Option is Some
  session,    \* the guarded session
  record,     \* the guarded HookSlots, a function of the slots recorded
  ready, last,            \* VIRTUAL_READY and LAST_QPC
  pc, real,               \* where each thread is, and its native reading
  seen,       \* history: the last time each thread read, and under which installation
  epoch, faults, foreign  \* history: installations, failures, foreign writes

timeVars   == <<now>>
slotVars   == <<iat, page, record>>
lockVars   == <<owner, task, next>>
clockVars  == <<session, ready, last>>
threadVars == <<pc, real, seen>>
countVars  == <<epoch, faults, foreign>>
vars == <<timeVars, stopping, slotVars, lockVars, installed, clockVars, threadVars, countVars>>

NoRecords == [s \in {} |-> [active |-> FALSE, restored |-> TRUE]]
NoSession == NewSession(TRUE, Unit, 0, 0)

Init ==
  /\ now = 0
  /\ stopping = FALSE
  /\ iat = [s \in Slots |-> "native"]
  /\ page = [s \in Slots |-> "original"]
  /\ owner = Free /\ task = "none" /\ next = 1
  /\ installed = FALSE
  /\ session = NoSession
  /\ record = NoRecords
  /\ ready = FALSE /\ last = 0
  /\ pc = [t \in Threads |-> "idle"]
  /\ real = [t \in Threads |-> 0]
  /\ seen = [t \in Threads |-> [at |-> 0, epoch |-> 0]]
  /\ epoch = 0 /\ faults = 0 /\ foreign = 0

(***************************************************************************)
(* The world                                                               *)
(***************************************************************************)

Pass ==
  /\ now < MaxNow
  /\ now' = now + 1
  /\ UNCHANGED <<stopping, slotVars, lockVars, installed, clockVars, threadVars, countVars>>

\* The runtime stops: the gate closes before the teardown asks for the mutex.
CloseGate ==
  /\ ~stopping
  /\ stopping' = TRUE
  /\ UNCHANGED <<timeVars, slotVars, lockVars, installed, clockVars, threadVars, countVars>>

\* Another overlay hooks the same import.
Overwrite(s) ==
  /\ foreign < MaxForeign
  /\ iat' = [iat EXCEPT ![s] = "foreign"]
  /\ foreign' = foreign + 1
  /\ UNCHANGED <<timeVars, stopping, page, record, lockVars, installed, clockVars, threadVars,
                 epoch, faults>>

(***************************************************************************)
(* Threads of the game                                                     *)
(***************************************************************************)

Goto(t, where) == pc' = [pc EXCEPT ![t] = where]

\* A call through an import: the pointer is loaded, then followed.
Load(t, s) ==
  /\ pc[t] = "idle"
  /\ Goto(t, IF iat[s] = "hook" THEN "called" ELSE "native")
  /\ UNCHANGED <<timeVars, stopping, slotVars, lockVars, installed, clockVars, real, seen, countVars>>

Native(t) ==
  /\ pc[t] = "native"
  /\ Goto(t, "idle")
  /\ seen' = [seen EXCEPT ![t] = [at |-> now, epoch |-> 0]]
  /\ UNCHANGED <<timeVars, stopping, slotVars, lockVars, installed, clockVars, real, countVars>>

\* ACTIVE_CALLBACKS.enter()
Enter(t) ==
  /\ pc[t] = "called"
  /\ Goto(t, "entered")
  /\ UNCHANGED <<timeVars, stopping, slotVars, lockVars, installed, clockVars, real, seen, countVars>>

ReadNative(t) ==
  /\ pc[t] = "entered"
  /\ Goto(t, "read")
  /\ real' = [real EXCEPT ![t] = now]
  /\ UNCHANGED <<timeVars, stopping, slotVars, lockVars, installed, clockVars, seen, countVars>>

\* last_or: the last published value, or the thread's own reading before there is one.
LastOr(t) == IF ready THEN [at |-> last, epoch |-> epoch] ELSE [at |-> real[t], epoch |-> 0]

\* Fault: a contended hook returns the counter itself.
ContendedRaw(t) ==
  /\ pc[t] = "read" /\ owner # Free
  /\ Goto(t, "leaving")
  /\ seen' = [seen EXCEPT ![t] = [at |-> real[t], epoch |-> epoch]]
  /\ real' = [real EXCEPT ![t] = 0]
  /\ UNCHANGED <<timeVars, stopping, slotVars, lockVars, installed, clockVars, countVars>>

\* try_lock fails: somebody else holds the mutex.
Contended(t) ==
  /\ pc[t] = "read" /\ owner # Free
  /\ Goto(t, "leaving")
  /\ seen' = [seen EXCEPT ![t] = LastOr(t)]
  /\ real' = [real EXCEPT ![t] = 0]
  /\ UNCHANGED <<timeVars, stopping, slotVars, lockVars, installed, clockVars, countVars>>

TryLock(t) ==
  /\ pc[t] = "read" /\ owner = Free
  /\ Goto(t, "locked")
  /\ owner' = t
  /\ UNCHANGED <<timeVars, stopping, slotVars, task, next, installed, clockVars, real, seen, countVars>>

\* Sample and publish, or fall back when nothing is installed; release the mutex.
Answer(t) ==
  /\ pc[t] = "locked"
  /\ IF installed
       THEN /\ session' = Poll(session, real[t])
            /\ last' = session'.clock.lastVirtual /\ ready' = TRUE
            /\ seen' = [seen EXCEPT ![t] = [at |-> last', epoch |-> epoch]]
       ELSE /\ seen' = [seen EXCEPT ![t] = LastOr(t)]
            /\ UNCHANGED clockVars
  /\ owner' = Free
  /\ real' = [real EXCEPT ![t] = 0]
  /\ Goto(t, "leaving")
  /\ UNCHANGED <<timeVars, stopping, slotVars, task, next, installed, countVars>>

\* CallbackGuard::drop
Leave(t) ==
  /\ pc[t] = "leaving"
  /\ Goto(t, "idle")
  /\ UNCHANGED <<timeVars, stopping, slotVars, lockVars, installed, clockVars, real, seen, countVars>>

InCallback == {t \in Threads : pc[t] \in {"entered", "read", "locked", "leaving"}}

(***************************************************************************)
(* patch_slot: make the page writable, swap the pointer if it is still the *)
(* expected one, put the protection back.                                  *)
(***************************************************************************)

Outcomes == {"done", "refused", "leftWritable"}

Swaps(s, outcome, expected) == outcome # "refused" /\ iat[s] = expected

Fault(count) == faults + count <= MaxFaults /\ faults' = faults + count

\* The hook records of slots that are not back in their original state.
Owed == {s \in DOMAIN record : record[s].active \/ ~record[s].restored}

FullyInstalled ==
  /\ record # NoRecords
  /\ \A s \in DOMAIN record : record[s].active /\ record[s].restored
  /\ \A s \in Slots : \E r \in DOMAIN record : Api(r) = Api(s)

Unlock == owner' = Free /\ task' = "none" /\ next' = 1

(***************************************************************************)
(* enable_hook_set_with_fault                                              *)
(***************************************************************************)

\* Fault: the gate is not checked once the mutex is held.
BeginEnableUngated ==
  /\ owner = Free /\ ~installed
  /\ epoch < MaxInstalls
  /\ owner' = Control /\ task' = "publish" /\ next' = 1
  /\ session' = NewSession(TRUE, Unit, 0, now)
  /\ record' = NoRecords
  /\ UNCHANGED <<timeVars, stopping, iat, page, installed, ready, last, threadVars, countVars>>

\* An installation that finds hooks, or the gate closed, changes nothing.
BeginEnable ==
  /\ owner = Free /\ ~installed
  /\ ~stopping
  /\ epoch < MaxInstalls
  /\ owner' = Control /\ task' = "publish" /\ next' = 1
  /\ session' = NewSession(TRUE, Unit, 0, now)
  /\ record' = NoRecords
  /\ UNCHANGED <<timeVars, stopping, iat, page, installed, ready, last, threadVars, countVars>>

PublishBaseline ==
  /\ task = "publish"
  /\ task' = "patch"
  /\ last' = session.clock.lastVirtual /\ ready' = TRUE
  /\ epoch' = epoch + 1
  /\ UNCHANGED <<timeVars, stopping, slotVars, owner, next, installed, session, threadVars,
                 faults, foreign>>

\* Fault: a slot whose page stayed writable is recorded only if it was swapped.
PatchForgetsPage(outcome) ==
  LET s       == next
      swapped == Swaps(s, outcome, "native")
  IN  /\ task = "patch" /\ s \in Slots
      /\ iat' = IF swapped THEN [iat EXCEPT ![s] = "hook"] ELSE iat
      /\ page' = IF outcome = "leftWritable" THEN [page EXCEPT ![s] = "writable"] ELSE page
      /\ record' = IF swapped
           THEN [r \in DOMAIN record \cup {s} |->
                   IF r = s THEN [active |-> swapped, restored |-> outcome = "done"] ELSE record[r]]
           ELSE record
      /\ IF swapped /\ outcome = "done"
           THEN task' = task /\ next' = next + 1
           ELSE task' = "undo" /\ next' = 1
      /\ Fault(IF outcome = "done" THEN 0 ELSE 1)
      /\ UNCHANGED <<timeVars, stopping, owner, installed, clockVars, threadVars, epoch, foreign>>

\* A slot that was swapped, or whose page stayed writable, is recorded; the
\* first slot that did not go well ends the installation.
Patch(outcome) ==
  LET s       == next
      swapped == Swaps(s, outcome, "native")
  IN  /\ task = "patch" /\ s \in Slots
      /\ iat' = IF swapped THEN [iat EXCEPT ![s] = "hook"] ELSE iat
      /\ page' = IF outcome = "leftWritable" THEN [page EXCEPT ![s] = "writable"] ELSE page
      /\ record' = IF swapped \/ outcome = "leftWritable"
           THEN [r \in DOMAIN record \cup {s} |->
                   IF r = s THEN [active |-> swapped, restored |-> outcome = "done"] ELSE record[r]]
           ELSE record
      /\ IF swapped /\ outcome = "done"
           THEN task' = task /\ next' = next + 1
           ELSE task' = "undo" /\ next' = 1
      /\ Fault(IF outcome = "done" THEN 0 ELSE 1)
      /\ UNCHANGED <<timeVars, stopping, owner, installed, clockVars, threadVars, epoch, foreign>>

Installed ==
  /\ task = "patch" /\ next \notin Slots
  /\ installed' = TRUE
  /\ Unlock
  /\ UNCHANGED <<timeVars, stopping, slotVars, clockVars, threadVars, countVars>>

(***************************************************************************)
(* restore_slots, for a failed installation ("undo") and for disable_probe *)
(* ("restore"): every owed slot in turn, its pointer and then its page.    *)
(***************************************************************************)

Left == {s \in Owed : s >= next}

RestoreSlot(s, outcome, restored) ==
  LET swapped == record[s].active /\ Swaps(s, outcome, "hook")
  IN  /\ task \in {"undo", "restore"} /\ \A r \in Left : s <= r
      /\ record[s].active \/ outcome = "done"
      /\ iat' = IF swapped THEN [iat EXCEPT ![s] = "native"] ELSE iat
      /\ page' = [page EXCEPT ![s] = IF restored THEN "original"
                                     ELSE IF outcome = "leftWritable" THEN "writable" ELSE @]
      /\ record' = [record EXCEPT ![s] =
                      [active |-> @.active /\ ~swapped, restored |-> restored]]
      /\ next' = s + 1
      /\ Fault((IF outcome = "done" THEN 0 ELSE 1) + (IF restored THEN 0 ELSE 1))
      /\ UNCHANGED <<timeVars, stopping, owner, task, installed, clockVars, threadVars, epoch, foreign>>

\* A failed installation keeps its records unless all of them were restored.
Undone ==
  /\ task = "undo" /\ Left = {}
  /\ IF Owed = {}
       THEN ready' = FALSE /\ UNCHANGED installed
       ELSE installed' = TRUE /\ UNCHANGED ready
  /\ Unlock
  /\ UNCHANGED <<timeVars, stopping, slotVars, session, last, threadVars, countVars>>

(***************************************************************************)
(* disable_probe                                                           *)
(***************************************************************************)

BeginDisable ==
  /\ owner = Free /\ installed
  /\ owner' = Control /\ task' = "restore" /\ next' = 1
  /\ UNCHANGED <<timeVars, stopping, slotVars, installed, clockVars, threadVars, countVars>>

\* Something is still owed: fail and keep the records for another attempt.
Unrestored ==
  /\ task = "restore" /\ Left = {} /\ Owed # {}
  /\ Unlock
  /\ UNCHANGED <<timeVars, stopping, slotVars, installed, clockVars, threadVars, countVars>>

Restored ==
  /\ task = "restore" /\ Left = {} /\ Owed = {}
  /\ task' = "drain"
  /\ UNCHANGED <<timeVars, stopping, slotVars, owner, next, installed, clockVars, threadVars, countVars>>

Drained ==
  /\ task = "drain" /\ InCallback = {}
  /\ installed' = FALSE
  /\ ready' = FALSE
  /\ Unlock
  /\ UNCHANGED <<timeVars, stopping, slotVars, session, last, threadVars, countVars>>

\* A callback outlasts the 500 ms of wait_until_idle.
DrainTimeout ==
  /\ task = "drain" /\ InCallback # {}
  /\ Unlock
  /\ UNCHANGED <<timeVars, stopping, slotVars, installed, clockVars, threadVars, countVars>>

(***************************************************************************)
(* apply_installed_command and remote_rate_milli                           *)
(***************************************************************************)

BeginCommand ==
  /\ owner = Free /\ installed
  /\ owner' = Control /\ task' = "command"
  /\ UNCHANGED <<timeVars, stopping, slotVars, next, installed, clockVars, threadVars, countVars>>

Allowed == FullyInstalled /\ ~stopping

Command(rate) ==
  /\ task = "command"
  /\ IF Allowed
       THEN /\ session' = Apply(session, now, [kind |-> "select", rate |-> rate])
            /\ last' = session'.clock.lastVirtual /\ ready' = TRUE
       ELSE UNCHANGED clockVars
  /\ Unlock
  /\ UNCHANGED <<timeVars, stopping, slotVars, installed, threadVars, countVars>>

\* A status request reads the gate before it waits for the mutex and not again
\* inside: one that found the gate open gets the mutex at any later moment.
BeginStatus ==
  /\ owner = Free /\ installed
  /\ owner' = Control /\ task' = "status"
  /\ UNCHANGED <<timeVars, stopping, slotVars, next, installed, clockVars, threadVars, countVars>>

\* It samples, so that an expired hold is seen.
Status ==
  /\ task = "status"
  /\ IF FullyInstalled
       THEN /\ session' = Poll(session, now)
            /\ last' = session'.clock.lastVirtual /\ ready' = TRUE
       ELSE UNCHANGED clockVars
  /\ Unlock
  /\ UNCHANGED <<timeVars, stopping, slotVars, installed, threadVars, countVars>>

-----------------------------------------------------------------------------

Callback(t) ==
  \/ Native(t) \/ Enter(t) \/ ReadNative(t)
  \/ Contended(t) \/ TryLock(t) \/ Answer(t) \/ Leave(t)

Thread(t) == (\E s \in Slots : Load(t, s)) \/ Callback(t)

Working ==
  \/ PublishBaseline
  \/ \E outcome \in Outcomes : Patch(outcome)
  \/ Installed
  \/ \E s \in Left, outcome \in Outcomes, restored \in BOOLEAN : RestoreSlot(s, outcome, restored)
  \/ Undone \/ Unrestored \/ Restored \/ Drained \/ DrainTimeout
  \/ (\E rate \in Steps : Command(rate)) \/ Status

Next ==
  \/ Pass \/ CloseGate
  \/ \E s \in Slots : Overwrite(s)
  \/ \E t \in Threads : Thread(t)
  \/ BeginEnable \/ BeginDisable \/ BeginCommand \/ BeginStatus
  \/ Working

Spec == Init /\ [][Next]_vars

-----------------------------------------------------------------------------

\* Nothing that was patched is ever forgotten: outside the mutex, an import that
\* leads into the DLL, or a page whose protection is not the program's own, is on
\* record for the next restore, whichever steps of it failed.
HooksOwned ==
  owner # Control =>
    \A s \in Slots :
      /\ iat[s] = "hook" => installed /\ s \in DOMAIN record /\ record[s].active
      /\ page[s] # "original" => installed /\ s \in DOMAIN record /\ ~record[s].restored

\* Nothing is installed and the gate is closed.
Cleared == stopping /\ ~installed /\ owner # Control

\* Once the gate is closed and the hooks are gone no import is ever patched again,
\* even by an activation that was waiting for the mutex.
StaysNative == [][Cleared => Cleared' /\ \A s \in Slots : iat'[s] # "hook"]_vars

\* While one set of hooks is in place a thread's clock does not go back, whether
\* it samples the session or finds the mutex taken and gets the last value.
MonotoneWhileArmed ==
  [][\A t \in Threads :
       (seen'[t].epoch # 0 /\ seen'[t].epoch = seen[t].epoch) => seen'[t].at >= seen[t].at]_vars
=============================================================================
