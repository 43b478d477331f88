--------------------------- MODULE TimerHooksProofs ---------------------------
(***************************************************************************)
(* The ownership of patched imports and the order of what threads read,    *)
(* for any number of threads and import slots, any number of failures of   *)
(* VirtualProtect and of foreign writes.                                   *)
(***************************************************************************)
EXTENDS TimerHooks, TLAPS

Shape ==
  /\ iat \in [Slots -> {"native", "hook", "foreign"}]
  /\ page \in [Slots -> {"original", "writable"}]
  /\ DOMAIN record \subseteq Slots
  /\ \A s \in DOMAIN record : record[s] \in [active : BOOLEAN, restored : BOOLEAN]
  /\ next \in Nat
  /\ installed \in BOOLEAN

Locking ==
  /\ pc \in [Threads -> {"idle", "native", "called", "entered", "read", "locked", "leaving"}]
  /\ owner = Control <=> task # "none"
  /\ \A t \in Threads : pc[t] = "locked" => owner = t

\* The records tell the truth about the imports at every step, not only outside
\* the mutex.
Recorded ==
  \A s \in Slots :
    /\ iat[s] = "hook" => s \in DOMAIN record /\ record[s].active
    /\ page[s] # "original" => s \in DOMAIN record /\ ~record[s].restored

\* Where the holder of the mutex is says what it may forget.
Progress ==
  /\ task \in {"restore", "drain", "command", "status"} => installed
  /\ task \in {"publish", "patch"} => \A s \in DOMAIN record : s < next
  /\ task = "drain" => Owed = {}
  /\ task = "none" /\ ~installed => Owed = {}

IInv == Shape /\ Locking /\ Recorded /\ Progress

SlotInv == Shape /\ Recorded /\ Progress

LEMMA InitIInv == Init => IInv
<1>. SUFFICES ASSUME Init PROVE IInv
  OBVIOUS
<1>1. DOMAIN record = {}
  BY DEF Init, NoRecords
<1>2. Shape /\ Recorded /\ Progress
  BY <1>1 DEF Init, Shape, Recorded, Progress, Owed
<1>3. Locking
  BY OwnerAssumption DEF Init, Locking, Free, Control
<1>. QED
  BY <1>2, <1>3 DEF IInv

\* Steps of the game's threads and of the counter leave the slots to the holder.
LEMMA Untouched ==
  ASSUME SlotInv, UNCHANGED <<slotVars, task, next, installed>>
  PROVE  SlotInv'
BY DEF SlotInv, Shape, Recorded, Progress, Owed, slotVars

LEMMA ThreadStep ==
  ASSUME IInv, NEW t \in Threads, Thread(t)
  PROVE  IInv'
<1>1. UNCHANGED <<slotVars, task, next, installed>>
  BY DEF Thread, Callback, Load, Native, Enter, ReadNative, Contended, TryLock, Answer, Leave, lockVars
<1>2. SlotInv'
  BY <1>1, Untouched DEF IInv, SlotInv
<1>3. Locking'
  <2>0. Free # Control /\ t # Free /\ t # Control
    BY OwnerAssumption DEF Free, Control
  <2>1. CASE Answer(t)
    <3>1. pc[t] = "locked" /\ pc' = [pc EXCEPT ![t] = "leaving"] /\ owner' = Free /\ task' = task
      BY <2>1 DEF Answer, Goto
    <3>2. owner = t /\ task = "none"
      BY <2>0, <3>1 DEF IInv, Locking
    <3>3. \A u \in Threads : u # t => pc'[u] = pc[u] /\ pc[u] # "locked"
      BY <3>1, <3>2 DEF IInv, Locking
    <3>4. pc' \in [Threads -> {"idle", "native", "called", "entered", "read", "locked", "leaving"}]
          /\ pc'[t] # "locked"
      BY <3>1 DEF IInv, Locking
    <3>. QED
      BY <2>0, <3>1, <3>2, <3>3, <3>4 DEF Locking
  <2>2. CASE TryLock(t)
    <3>1. pc' = [pc EXCEPT ![t] = "locked"] /\ owner = Free /\ owner' = t /\ task' = task
      BY <2>2 DEF TryLock, Goto
    <3>2. task = "none" /\ \A u \in Threads : pc[u] # "locked"
      BY <2>0, <3>1, OwnerAssumption DEF IInv, Locking
    <3>3. \A u \in Threads : u # t => pc'[u] # "locked"
      BY <3>1, <3>2 DEF IInv, Locking
    <3>4. pc' \in [Threads -> {"idle", "native", "called", "entered", "read", "locked", "leaving"}]
      BY <3>1 DEF IInv, Locking
    <3>. QED
      BY <2>0, <3>1, <3>2, <3>3, <3>4 DEF Locking
  <2>3. CASE Native(t) \/ Enter(t) \/ ReadNative(t) \/ Contended(t) \/ Leave(t)
    BY <2>3 DEF Native, Enter, ReadNative, Contended, Leave, Goto, IInv, Locking, lockVars
  <2>4. ASSUME NEW s \in Slots, Load(t, s) PROVE Locking'
    BY <2>4 DEF Load, Goto, IInv, Locking, lockVars
  <2>. QED
    BY <2>1, <2>2, <2>3, <2>4 DEF Thread, Callback
<1>. QED
  BY <1>2, <1>3 DEF IInv, SlotInv

LEMMA WorldStep ==
  ASSUME IInv, Pass \/ CloseGate \/ \E s \in Slots : Overwrite(s)
  PROVE  IInv'
<1>1. CASE Pass \/ CloseGate
  <2>1. UNCHANGED <<slotVars, task, next, installed>> /\ UNCHANGED <<owner, pc>>
    BY <1>1 DEF Pass, CloseGate, lockVars, threadVars
  <2>. QED
    BY <2>1, Untouched DEF IInv, SlotInv, Locking
<1>2. ASSUME NEW s \in Slots, Overwrite(s) PROVE IInv'
  <2>1. iat' = [iat EXCEPT ![s] = "foreign"] /\ UNCHANGED <<page, record, owner, task, next, installed, pc>>
    BY <1>2 DEF Overwrite, lockVars, threadVars
  <2>2. Shape' /\ Recorded'
    BY <2>1 DEF IInv, Shape, Recorded
  <2>3. Progress' /\ Locking'
    BY <2>1 DEF IInv, Progress, Owed, Locking
  <2>. QED
    BY <2>2, <2>3 DEF IInv
<1>. QED
  BY <1>1, <1>2

\* The mutex goes from Free to Control and back; no thread is inside it.
LEMMA ControlLocks ==
  ASSUME IInv, UNCHANGED pc,
         \/ owner = Free /\ owner' = Control /\ task' # "none"
         \/ task # "none" /\ owner' = Free /\ task' = "none"
         \/ task # "none" /\ owner' = owner /\ task' # "none"
  PROVE  Locking'
BY OwnerAssumption DEF IInv, Locking, Free, Control

LEMMA BeginStep ==
  ASSUME IInv, BeginEnable \/ BeginDisable \/ BeginCommand \/ BeginStatus
  PROVE  IInv'
<1>0. task = "none"
  BY OwnerAssumption DEF IInv, Locking, BeginEnable, BeginDisable, BeginCommand, BeginStatus, Free,
                         Control
<1>1. CASE BeginEnable
  <2>1. /\ ~installed /\ record' = NoRecords /\ next' = 1 /\ task' = "publish"
        /\ owner = Free /\ owner' = Control
        /\ UNCHANGED <<iat, page, installed, pc>>
    BY <1>1 DEF BeginEnable, threadVars
  <2>2. DOMAIN record' = {}
    BY <2>1 DEF NoRecords
  <2>3. \A s \in Slots : iat[s] # "hook" /\ page[s] = "original"
    BY <1>0, <2>1 DEF IInv, Recorded, Progress, Owed
  <2>4. SlotInv'
    BY <2>1, <2>2, <2>3 DEF IInv, SlotInv, Shape, Recorded, Progress, Owed
  <2>. QED
    BY <2>1, <2>4, ControlLocks DEF IInv, SlotInv
<1>2. CASE BeginDisable
  <2>1. /\ installed /\ next' = 1 /\ task' = "restore" /\ owner = Free /\ owner' = Control
        /\ UNCHANGED <<iat, page, record, installed, pc>>
    BY <1>2 DEF BeginDisable, threadVars, slotVars
  <2>2. SlotInv'
    BY <2>1 DEF IInv, SlotInv, Shape, Recorded, Progress, Owed
  <2>. QED
    BY <2>1, <2>2, ControlLocks DEF IInv, SlotInv
<1>3. CASE BeginCommand \/ BeginStatus
  <2>1. /\ installed /\ next' = next /\ task' \in {"command", "status"}
        /\ owner = Free /\ owner' = Control
        /\ UNCHANGED <<iat, page, record, installed, pc>>
    BY <1>3 DEF BeginCommand, BeginStatus, threadVars, slotVars
  <2>2. SlotInv'
    BY <2>1 DEF IInv, SlotInv, Shape, Recorded, Progress, Owed
  <2>. QED
    BY <2>1, <2>2, ControlLocks DEF IInv, SlotInv
<1>. QED
  BY <1>1, <1>2, <1>3

LEMMA PatchStep ==
  ASSUME IInv, NEW outcome \in Outcomes, Patch(outcome)
  PROVE  IInv'
<1>. DEFINE s == next
            swapped == Swaps(s, outcome, "native")
            mine == [active |-> swapped, restored |-> outcome = "done"]
<1>1. /\ task = "patch" /\ s \in Slots
      /\ iat' = IF swapped THEN [iat EXCEPT ![s] = "hook"] ELSE iat
      /\ page' = IF outcome = "leftWritable" THEN [page EXCEPT ![s] = "writable"] ELSE page
      /\ record' = IF swapped \/ outcome = "leftWritable"
           THEN [r \in DOMAIN record \cup {s} |-> IF r = s THEN mine ELSE record[r]]
           ELSE record
      /\ IF swapped /\ outcome = "done"
           THEN task' = task /\ next' = next + 1
           ELSE task' = "undo" /\ next' = 1
      /\ UNCHANGED <<owner, installed, pc>>
  BY DEF Patch, threadVars
<1>2. swapped \in BOOLEAN /\ (swapped => outcome # "refused" /\ iat[s] = "native")
  BY DEF Swaps
<1>3. s \notin DOMAIN record /\ s \in Nat
  BY <1>1 DEF IInv, Progress, Shape
<1>. HIDE DEF swapped
<1>4. iat[s] # "hook" /\ page[s] = "original"
  BY <1>1, <1>3 DEF IInv, Recorded
<1>5. Shape'
  <2>1. iat' \in [Slots -> {"native", "hook", "foreign"}] /\ page' \in [Slots -> {"original", "writable"}]
    BY <1>1 DEF IInv, Shape
  <2>2. DOMAIN record' \subseteq Slots /\ \A r \in DOMAIN record' : record'[r] \in [active : BOOLEAN, restored : BOOLEAN]
    BY <1>1, <1>2 DEF IInv, Shape
  <2>3. next' \in Nat
    BY <1>1, <1>3
  <2>. QED
    BY <1>1, <2>1, <2>2, <2>3 DEF IInv, Shape
<1>6. Recorded'
  <2>1. CASE swapped \/ outcome = "leftWritable"
    <3>1. /\ DOMAIN record' = DOMAIN record \cup {s}
          /\ record'[s] = mine
          /\ \A r \in DOMAIN record : record'[r] = record[r]
      BY <1>1, <1>3, <2>1
    <3>2. \A r \in Slots : r # s => iat'[r] = iat[r] /\ page'[r] = page[r]
      BY <1>1 DEF IInv, Shape
    <3>3. (iat'[s] = "hook" => swapped) /\ (page'[s] # "original" => outcome = "leftWritable")
      BY <1>1, <1>4
    <3>4. (iat'[s] = "hook" => record'[s].active) /\ (page'[s] # "original" => ~record'[s].restored)
      <4>1. mine.active = swapped /\ mine.restored = (outcome = "done")
        OBVIOUS
      <4>2. record'[s].active = swapped /\ record'[s].restored = (outcome = "done")
        BY <3>1, <4>1, Zenon
      <4>. QED
        BY <3>3, <4>2, <1>2
    <3>5. ASSUME NEW r \in Slots, r # s
          PROVE  /\ iat'[r] = "hook" => r \in DOMAIN record' /\ record'[r].active
                 /\ page'[r] # "original" => r \in DOMAIN record' /\ ~record'[r].restored
      <4>1. iat'[r] = iat[r] /\ page'[r] = page[r]
        BY <3>2, <3>5
      <4>2. /\ iat[r] = "hook" => r \in DOMAIN record /\ record[r].active
            /\ page[r] # "original" => r \in DOMAIN record /\ ~record[r].restored
        BY DEF IInv, Recorded
      <4>. QED
        BY <3>1, <4>1, <4>2
    <3>6. s \in DOMAIN record'
      BY <3>1
    <3>. QED
      BY <3>4, <3>5, <3>6 DEF Recorded
  <2>2. CASE ~swapped /\ outcome # "leftWritable"
    BY <1>1, <2>2 DEF IInv, Recorded
  <2>. QED
    BY <2>1, <2>2
<1>7. Progress'
  <2>1. task' = "patch" => \A r \in DOMAIN record' : r < next'
    <3>. SUFFICES ASSUME task' = "patch", NEW r \in DOMAIN record' PROVE r < next'
      OBVIOUS
    <3>1. swapped /\ outcome = "done" /\ next' = next + 1
      BY <1>1
    <3>2. r \in DOMAIN record \cup {s}
      BY <1>1, <3>1
    <3>3. r = s \/ (r < next /\ r \in Nat)
      BY <1>1, <3>2 DEF IInv, Progress, Shape, Slots
    <3>. QED
      BY <1>3, <3>1, <3>3
  <2>2. task' \in {"patch", "undo"}
    BY <1>1
  <2>. QED
    BY <2>1, <2>2 DEF Progress
<1>8. Locking'
  BY <1>1, ControlLocks
<1>. QED
  BY <1>5, <1>6, <1>7, <1>8 DEF IInv

LEMMA RestoreStep ==
  ASSUME IInv, NEW s \in Left, NEW outcome \in Outcomes, NEW restored \in BOOLEAN,
         RestoreSlot(s, outcome, restored)
  PROVE  IInv'
<1>. DEFINE swapped == record[s].active /\ Swaps(s, outcome, "hook")
            mine == [active |-> record[s].active /\ ~swapped, restored |-> restored]
<1>1. /\ task \in {"undo", "restore"}
      /\ iat' = IF swapped THEN [iat EXCEPT ![s] = "native"] ELSE iat
      /\ page' = [page EXCEPT ![s] = IF restored THEN "original"
                                     ELSE IF outcome = "leftWritable" THEN "writable" ELSE page[s]]
      /\ record' = [record EXCEPT ![s] = mine]
      /\ next' = s + 1
      /\ UNCHANGED <<owner, task, installed, pc>>
  BY DEF RestoreSlot, threadVars
<1>2. s \in DOMAIN record /\ s \in Slots /\ s \in Nat
  BY DEF Left, Owed, IInv, Shape, Slots
<1>3. swapped \in BOOLEAN /\ record[s].active \in BOOLEAN
  BY <1>2 DEF Swaps, IInv, Shape
<1>. HIDE DEF swapped
<1>4. Shape'
  <2>1. iat' \in [Slots -> {"native", "hook", "foreign"}] /\ page' \in [Slots -> {"original", "writable"}]
    BY <1>1, <1>2 DEF IInv, Shape
  <2>2. DOMAIN record' = DOMAIN record /\ \A r \in DOMAIN record : record'[r] \in [active : BOOLEAN, restored : BOOLEAN]
    BY <1>1, <1>2, <1>3 DEF IInv, Shape
  <2>. QED
    BY <1>1, <1>2, <2>1, <2>2 DEF IInv, Shape
<1>5. Recorded'
  <2>1. DOMAIN record' = DOMAIN record /\ record'[s] = mine /\ \A r \in DOMAIN record : r # s => record'[r] = record[r]
    BY <1>1, <1>2
  <2>2. \A r \in Slots : r # s => iat'[r] = iat[r] /\ page'[r] = page[r]
    BY <1>1 DEF IInv, Shape
  <2>3. iat'[s] = "hook" => record[s].active /\ ~swapped
    BY <1>1, <1>2 DEF IInv, Recorded, Shape
  <2>4. page'[s] # "original" => ~restored
    BY <1>1, <1>2 DEF IInv, Shape
  <2>5. (iat'[s] = "hook" => record'[s].active) /\ (page'[s] # "original" => ~record'[s].restored)
    <3>1. mine.active = (record[s].active /\ ~swapped) /\ mine.restored = restored
      OBVIOUS
    <3>2. record'[s].active = (record[s].active /\ ~swapped) /\ record'[s].restored = restored
      BY <2>1, <3>1, Zenon
    <3>. QED
      BY <2>3, <2>4, <3>2, Zenon
  <2>6. ASSUME NEW r \in Slots, r # s
        PROVE  /\ iat'[r] = "hook" => r \in DOMAIN record' /\ record'[r].active
               /\ page'[r] # "original" => r \in DOMAIN record' /\ ~record'[r].restored
    <3>1. iat'[r] = iat[r] /\ page'[r] = page[r]
      BY <2>2, <2>6
    <3>2. /\ iat[r] = "hook" => r \in DOMAIN record /\ record[r].active
          /\ page[r] # "original" => r \in DOMAIN record /\ ~record[r].restored
      BY DEF IInv, Recorded
    <3>. QED
      BY <2>1, <2>6, <3>1, <3>2
  <2>. QED
    BY <1>2, <2>1, <2>5, <2>6 DEF Recorded
<1>6. Progress'
  BY <1>1 DEF IInv, Progress
<1>7. Locking'
  BY <1>1, ControlLocks
<1>. QED
  BY <1>4, <1>5, <1>6, <1>7 DEF IInv

\* The steps of the holder that leave the slots and records alone.
LEMMA OtherWork ==
  ASSUME IInv,
         \/ PublishBaseline \/ Installed \/ Undone
         \/ Unrestored \/ Restored \/ Drained \/ DrainTimeout
         \/ (\E rate \in Steps : Command(rate)) \/ Status
  PROVE  IInv'
<1>0. UNCHANGED <<iat, page, record, pc>>
  BY DEF PublishBaseline, Installed, Undone, Unrestored, Restored, Drained, DrainTimeout, Command,
         Status, slotVars, threadVars
<1>1. Owed' = Owed /\ Recorded'
  BY <1>0 DEF Owed, IInv, Recorded
<1>2. CASE PublishBaseline
  <2>1. task = "publish" /\ task' = "patch" /\ UNCHANGED <<owner, next, installed>>
    BY <1>2 DEF PublishBaseline
  <2>. QED
    BY <1>0, <1>1, <2>1, ControlLocks DEF IInv, Shape, Progress
<1>3. CASE Restored
  <2>1. task = "restore" /\ task' = "drain" /\ Owed = {} /\ UNCHANGED <<owner, next, installed>>
    BY <1>3 DEF Restored
  <2>. QED
    BY <1>0, <1>1, <2>1, ControlLocks DEF IInv, Shape, Progress
<1>4. CASE ~PublishBaseline /\ ~Restored
  <2>1. /\ task # "none" /\ owner' = Free /\ task' = "none" /\ next' = 1
        /\ installed' \in BOOLEAN
        /\ ~installed' => Owed = {}
    BY <1>4 DEF IInv, Shape, Progress, Installed, Undone, Unrestored, Drained, DrainTimeout, Command,
                Status, Unlock
  <2>. QED
    BY <1>0, <1>1, <2>1, ControlLocks DEF IInv, Shape, Progress
<1>. QED
  BY <1>2, <1>3, <1>4

LEMMA StepIInv == IInv /\ [Next]_vars => IInv'
<1>. SUFFICES ASSUME IInv, [Next]_vars PROVE IInv'
  OBVIOUS
<1>1. CASE UNCHANGED vars
  <2>1. UNCHANGED <<slotVars, task, next, installed>> /\ UNCHANGED <<owner, pc>>
    BY <1>1 DEF vars, lockVars, threadVars
  <2>. QED
    BY <2>1, Untouched DEF IInv, SlotInv, Locking
<1>2. CASE Working
  BY <1>2, PatchStep, RestoreStep, OtherWork DEF Working
<1>3. CASE Next /\ ~Working
  BY <1>3, WorldStep, ThreadStep, BeginStep DEF Next
<1>. QED
  BY <1>1, <1>2, <1>3 DEF Next

LEMMA Inductive == Spec => []IInv
BY InitIInv, StepIInv, PTL DEF Spec

\* enable_hook_set_with_fault, restore_slots_with and disable_probe never lose an
\* import they patched or a page they made writable, whichever step fails.
THEOREM HooksOwnedAlways == Spec => []HooksOwned
<1>1. IInv => HooksOwned
  BY DEF IInv, Locking, Recorded, Progress, Owed, HooksOwned
<1>. QED
  BY Inductive, <1>1, PTL

\* Because the gate is checked under the mutex, an activation that waited for a
\* teardown patches nothing.
THEOREM StaysNativeAlways == Spec => StaysNative
<1>1. IInv /\ IInv' /\ [Next]_vars => [Cleared => Cleared' /\ \A s \in Slots : iat'[s] # "hook"]_vars
  <2>. SUFFICES ASSUME IInv, IInv', Next, Cleared PROVE Cleared' /\ \A s \in Slots : iat'[s] # "hook"
    OBVIOUS
  <2>1. task = "none" /\ owner # Control /\ ~installed /\ stopping
    BY DEF Cleared, IInv, Locking
  <2>2. ~Working
    BY <2>1 DEF Working, PublishBaseline, Patch, Installed, RestoreSlot, Undone, Unrestored, Restored,
                Drained, DrainTimeout, Command, Status
  <2>3. ~BeginEnable /\ ~BeginDisable /\ ~BeginCommand /\ ~BeginStatus
    BY <2>1 DEF BeginEnable, BeginDisable, BeginCommand, BeginStatus
  <2>4. UNCHANGED <<task, installed>> /\ stopping'
    BY <2>1, <2>2, <2>3 DEF Next, Pass, CloseGate, Overwrite, Thread, Callback, Load, Native, Enter,
                            ReadNative, Contended, TryLock, Answer, Leave, lockVars
  <2>5. task' = "none" /\ ~installed' /\ owner' # Control
    BY <2>1, <2>4 DEF IInv, Locking
  <2>6. \A s \in Slots : iat'[s] # "hook"
    BY <2>5 DEF IInv, Recorded, Progress, Owed
  <2>. QED
    BY <2>4, <2>5, <2>6 DEF Cleared
<1>. QED
  BY Inductive, <1>1, PTL DEF Spec, StaysNative

-----------------------------------------------------------------------------
(***************************************************************************)
(* What a thread reads                                                     *)
(***************************************************************************)

Controls == [selected : Nat, previous : Nat, bypassed : BOOLEAN, held : Nat]
Clocks ==
  [anchorReal : Int, anchorVirtual : Int, lastReal : Int, lastVirtual : Int, rate : Nat]

\* As much of a session's shape as its virtual time depends on.
Sessions == [controls : Controls, clock : Clocks, hold : Int, startup : Int]

\* Nobody has read beyond the last published value of the hooks in place; it is the
\* session's own from the publication of the baseline until the hooks are gone.
ReadInv ==
  /\ now \in Nat /\ epoch \in Nat /\ last \in Int
  /\ real \in [Threads -> Nat]
  /\ session \in Sessions
  /\ seen \in [Threads -> [at : Int, epoch : Nat]]
  /\ installed \/ task \in {"patch", "undo"} => last = session.clock.lastVirtual
  /\ \A t \in Threads :
       /\ seen[t].epoch <= epoch
       /\ seen[t].epoch = epoch /\ epoch # 0 => seen[t].at <= last

LEMMA SampleOn ==
  ASSUME NEW c \in Clocks, NEW r \in Int
  PROVE  /\ Sample(c, r) \in Clocks
         /\ Sample(c, r).lastVirtual >= c.lastVirtual
<1>1. PICK latest \in Int : latest = Larger(c.lastReal, r)
  BY DEF Larger, Clocks
<1>2. PICK elapsed \in Int : elapsed = latest - c.anchorReal
  BY <1>1 DEF Clocks
<1>3. Scaled(elapsed, c.rate) \in Int
  <2>1. elapsed * c.rate \in Int
    BY DEF Clocks
  <2>2. \A n \in Int : n \div Unit \in Int
    BY SettingsAssumption
  <2>. QED
    BY <2>1, <2>2 DEF Scaled
<1>4. PICK projected \in Int : projected = Saturate(c.anchorVirtual + Scaled(elapsed, c.rate))
  BY <1>3, SettingsAssumption DEF Saturate, Clocks
<1>5. PICK v \in Int : v = Larger(c.lastVirtual, projected) /\ v >= c.lastVirtual
  BY <1>4 DEF Larger, Clocks
<1>6. Sample(c, r) = [c EXCEPT !.lastReal = latest, !.lastVirtual = v]
  BY <1>1, <1>2, <1>4, <1>5 DEF Sample
<1>. QED
  BY <1>5, <1>6 DEF Clocks

LEMMA SetRateOn ==
  ASSUME NEW c \in Clocks, NEW r \in Int, NEW rate \in Nat
  PROVE  /\ SetRate(c, r, rate) \in Clocks
         /\ SetRate(c, r, rate).lastVirtual >= c.lastVirtual
<1>1. PICK s \in Clocks : s = Sample(c, r) /\ s.lastVirtual >= c.lastVirtual
  BY SampleOn
<1>. QED
  BY <1>1 DEF SetRate, Clocks

LEMMA SwitchOn ==
  ASSUME NEW s \in Sessions, NEW k \in Controls, NEW r \in Int, NEW hold \in Int, NEW startup \in Int
  PROVE  /\ Switch(s, k, r, hold, startup) \in Sessions
         /\ Switch(s, k, r, hold, startup).clock.lastVirtual >= s.clock.lastVirtual
<1>1. s.clock \in Clocks /\ Effective(k) \in Nat
  BY SettingsAssumption DEF Sessions, Controls, Effective
<1>2. PICK c \in Clocks : c = SetRate(s.clock, r, Effective(k)) /\ c.lastVirtual >= s.clock.lastVirtual
  BY <1>1, SetRateOn
<1>. QED
  BY <1>2 DEF Switch, Sessions

LEMMA AdvanceOn ==
  ASSUME NEW s \in Sessions, NEW r \in Int
  PROVE  /\ Advance(s, r) \in Sessions
         /\ Advance(s, r).clock.lastVirtual >= s.clock.lastVirtual
<1>1. \A k \in Controls : EndHold(k) \in Controls /\ Reset(k) \in Controls
  BY SettingsAssumption DEF Controls, EndHold, Reset, NoRate
<1>2. Never \in Int
  BY SettingsAssumption DEF Never
<1>3. PICK m \in Sessions :
        /\ m = IF s.hold <= r /\ s.hold < s.startup
                 THEN Switch(s, EndHold(s.controls), s.hold, Never, s.startup) ELSE s
        /\ m.clock.lastVirtual >= s.clock.lastVirtual
  <2>1. s.controls \in Controls /\ s.hold \in Int /\ s.startup \in Int /\ s.clock.lastVirtual \in Int
    BY DEF Sessions, Clocks
  <2>2. /\ Switch(s, EndHold(s.controls), s.hold, Never, s.startup) \in Sessions
        /\ Switch(s, EndHold(s.controls), s.hold, Never, s.startup).clock.lastVirtual >= s.clock.lastVirtual
    BY <1>1, <1>2, <2>1, SwitchOn
  <2>. QED
    BY <2>1, <2>2
<1>4. Advance(s, r) = IF m.startup <= r THEN Switch(m, Reset(m.controls), m.startup, Never, Never) ELSE m
  BY <1>3 DEF Advance
<1>5. m.controls \in Controls /\ m.startup \in Int /\ m.clock.lastVirtual \in Int /\ s.clock.lastVirtual \in Int
  BY DEF Sessions, Clocks
<1>6. PICK t \in Sessions :
        /\ t = Switch(m, Reset(m.controls), m.startup, Never, Never)
        /\ t.clock.lastVirtual >= m.clock.lastVirtual
  BY <1>1, <1>2, <1>5, SwitchOn
<1>7. t.clock.lastVirtual \in Int
  BY DEF Sessions, Clocks
<1>. QED
  BY <1>3, <1>4, <1>5, <1>6, <1>7

LEMMA PollOn ==
  ASSUME NEW s \in Sessions, NEW r \in Int
  PROVE  /\ Poll(s, r) \in Sessions
         /\ Poll(s, r).clock.lastVirtual >= s.clock.lastVirtual
<1>1. PICK t \in Sessions : t = Advance(s, r) /\ t.clock.lastVirtual >= s.clock.lastVirtual
  BY AdvanceOn
<1>2. PICK c \in Clocks : c = Sample(t.clock, r) /\ c.lastVirtual >= t.clock.lastVirtual
  BY SampleOn DEF Sessions
<1>3. Poll(s, r) = [t EXCEPT !.clock = c]
  BY <1>1, <1>2 DEF Poll
<1>4. Poll(s, r) \in Sessions /\ Poll(s, r).clock = c
  BY <1>3 DEF Sessions
<1>5. c.lastVirtual \in Int /\ t.clock.lastVirtual \in Int /\ s.clock.lastVirtual \in Int
  BY DEF Sessions, Clocks
<1>. QED
  BY <1>1, <1>2, <1>4, <1>5

LEMMA SelectOn ==
  ASSUME NEW s \in Sessions, NEW r \in Int, NEW rate \in Steps
  PROVE  /\ Apply(s, r, [kind |-> "select", rate |-> rate]) \in Sessions
         /\ Apply(s, r, [kind |-> "select", rate |-> rate]).clock.lastVirtual >= s.clock.lastVirtual
<1>1. PICK t \in Sessions : t = Advance(s, r) /\ t.clock.lastVirtual >= s.clock.lastVirtual
  BY AdvanceOn
<1>2. PICK a : a = [kind |-> "select", rate |-> rate]
  OBVIOUS
<1>3. Accepts(a) /\ a.kind = "select" /\ After(t.controls, a) = Activate(t.controls, rate)
  BY <1>2 DEF Accepts, After
<1>4. Activate(t.controls, rate) \in Controls /\ Never \in Int
  BY SettingsAssumption DEF Activate, Controls, Sessions, NoRate, Never
<1>5. Apply(s, r, a) = Switch(t, Activate(t.controls, rate), r, Never, Never)
  BY <1>1, <1>3 DEF Apply
<1>6. /\ Apply(s, r, a) \in Sessions
      /\ Apply(s, r, a).clock.lastVirtual >= t.clock.lastVirtual
  BY <1>4, <1>5, SwitchOn
<1>7. /\ Apply(s, r, a).clock.lastVirtual \in Int /\ t.clock.lastVirtual \in Int
      /\ s.clock.lastVirtual \in Int
  BY <1>6 DEF Sessions, Clocks
<1>. QED
  BY <1>1, <1>2, <1>6, <1>7

LEMMA NewSessionOn ==
  ASSUME NEW r \in Int
  PROVE  NewSession(TRUE, Unit, 0, r) \in Sessions
<1>1. ASSUME NEW S \in SUBSET Steps, S # {}
      PROVE  Lowest(S) \in Nat /\ Highest(S) \in Nat
  <2>1. PICK low \in S : \A s \in S : low <= s
    BY <1>1, SettingsAssumption
  <2>2. PICK high \in S : \A s \in S : s <= high
    BY <1>1, SettingsAssumption
  <2>3. Lowest(S) \in S /\ Highest(S) \in S
    BY <2>1, <2>2 DEF Lowest, Highest
  <2>. QED
    BY <2>3, SettingsAssumption
<1>2. PICK faster \in SUBSET Steps, slower \in SUBSET Steps :
        faster = {s \in Steps : s > Unit} /\ slower = {s \in Steps : s < Unit}
  OBVIOUS
<1>3. PICK k : k = NewControls(TRUE, Unit)
  OBVIOUS
<1>4. PICK previous \in Nat :
        k = [selected |-> Unit, previous |-> previous, bypassed |-> TRUE, held |-> NoRate]
  <2>1. CASE faster # {}
    BY <1>1, <1>2, <1>3, <2>1 DEF NewControls
  <2>2. CASE faster = {} /\ slower # {}
    BY <1>1, <1>2, <1>3, <2>2 DEF NewControls
  <2>3. CASE faster = {} /\ slower = {}
    BY <1>2, <1>3, <2>3 DEF NewControls, NoRate
  <2>. QED
    BY <2>1, <2>2, <2>3
<1>5. k \in Controls /\ Effective(k) \in Nat
  BY <1>4, SettingsAssumption DEF Controls, NoRate, Effective
<1>6. NewClock(r) \in Clocks
  BY SettingsAssumption DEF NewClock, Clocks
<1>7. SetRate(NewClock(r), r, Effective(k)) \in Clocks
  BY <1>5, <1>6, SetRateOn
<1>8. Never \in Int
  BY SettingsAssumption DEF Never
<1>. QED
  BY <1>3, <1>5, <1>7, <1>8 DEF NewSession, Sessions

-----------------------------------------------------------------------------
\* A thread that reads under the hooks in place reads no less than it did.
Onward ==
  \A t \in Threads :
    (seen'[t].epoch # 0 /\ seen'[t].epoch = seen[t].epoch) => seen'[t].at >= seen[t].at

LEMMA InitReadInv == Init => ReadInv
<1>. SUFFICES ASSUME Init PROVE ReadInv
  OBVIOUS
<1>1. session \in Sessions
  <2>1. 0 \in Int
    OBVIOUS
  <2>2. NewSession(TRUE, Unit, 0, 0) \in Sessions
    BY <2>1, NewSessionOn, Zenon
  <2>. QED
    BY <2>2 DEF Init, NoSession
<1>. QED
  BY <1>1 DEF Init, ReadInv

\* A step that reads and publishes nothing.
LEMMA NothingRead ==
  ASSUME ReadInv, now' \in Nat, real' \in [Threads -> Nat],
         UNCHANGED <<session, last, seen, epoch>>,
         installed' \/ task' \in {"patch", "undo"} => installed \/ task \in {"patch", "undo"}
  PROVE  ReadInv' /\ Onward
<1>1. \A t \in Threads : seen[t].at \in Int
  BY DEF ReadInv
<1>. QED
  BY <1>1 DEF ReadInv, Onward

\* The session goes on and what it says is published.
LEMMA Published ==
  ASSUME ReadInv, installed, session' \in Sessions,
         session'.clock.lastVirtual >= session.clock.lastVirtual,
         last' = session'.clock.lastVirtual, UNCHANGED <<now, epoch>>, real' \in [Threads -> Nat],
         NEW T \in SUBSET Threads,
         seen' = [t \in Threads |-> IF t \in T THEN [at |-> last', epoch |-> epoch] ELSE seen[t]]
  PROVE  ReadInv' /\ Onward
<1>1. last = session.clock.lastVirtual /\ last \in Int /\ last' \in Int /\ last' >= last
  BY DEF ReadInv, Sessions, Clocks
<1>2. ASSUME NEW t \in Threads
      PROVE  /\ seen'[t] \in [at : Int, epoch : Nat]
             /\ seen'[t].epoch <= epoch
             /\ seen'[t].epoch = epoch /\ epoch # 0 => seen'[t].at <= last'
             /\ seen'[t].epoch # 0 /\ seen'[t].epoch = seen[t].epoch => seen'[t].at >= seen[t].at
  <2>1. /\ seen[t] \in [at : Int, epoch : Nat] /\ seen[t].epoch <= epoch /\ epoch \in Nat
        /\ seen[t].epoch = epoch /\ epoch # 0 => seen[t].at <= last
    BY DEF ReadInv
  <2>2. CASE t \in T
    <3>1. seen'[t] = [at |-> last', epoch |-> epoch]
      BY <2>2
    <3>. QED
      BY <1>1, <2>1, <3>1
  <2>3. CASE t \notin T
    <3>1. seen'[t] = seen[t]
      BY <2>3
    <3>. QED
      BY <1>1, <2>1, <3>1
  <2>. QED
    BY <2>2, <2>3
<1>3. seen' \in [Threads -> [at : Int, epoch : Nat]]
  BY <1>2
<1>. QED
  BY <1>1, <1>2, <1>3 DEF ReadInv, Onward

\* A thread gets the last published value, or the counter, which counts for nothing.
LEMMA FellBack ==
  ASSUME ReadInv, NEW t \in Threads, NEW at \in Int,
         \/ seen' = [seen EXCEPT ![t] = [at |-> last, epoch |-> epoch]]
         \/ seen' = [seen EXCEPT ![t] = [at |-> at, epoch |-> 0]],
         UNCHANGED <<now, session, last, epoch, installed, task>>, real' \in [Threads -> Nat]
  PROVE  ReadInv' /\ Onward
<1>1. last \in Int /\ epoch \in Nat /\ DOMAIN seen = Threads
  BY DEF ReadInv
<1>2. ASSUME NEW u \in Threads
      PROVE  /\ seen'[u] \in [at : Int, epoch : Nat]
             /\ seen'[u].epoch <= epoch
             /\ seen'[u].epoch = epoch /\ epoch # 0 => seen'[u].at <= last
             /\ seen'[u].epoch # 0 /\ seen'[u].epoch = seen[u].epoch => seen'[u].at >= seen[u].at
  <2>1. /\ seen[u] \in [at : Int, epoch : Nat] /\ seen[u].epoch <= epoch
        /\ seen[u].epoch = epoch /\ epoch # 0 => seen[u].at <= last
    BY DEF ReadInv
  <2>2. \/ seen'[u] = seen[u]
        \/ seen'[u] = [at |-> last, epoch |-> epoch]
        \/ seen'[u] = [at |-> at, epoch |-> 0]
    BY <1>1
  <2>. QED
    BY <1>1, <2>1, <2>2
<1>3. seen' \in [Threads -> [at : Int, epoch : Nat]]
  BY <1>1, <1>2
<1>. QED
  BY <1>2, <1>3 DEF ReadInv, Onward

LEMMA ThreadRead ==
  ASSUME ReadInv, IInv, NEW t \in Threads, Thread(t)
  PROVE  ReadInv' /\ Onward
<1>1. now \in Nat /\ real \in [Threads -> Nat] /\ DOMAIN seen = Threads
  BY DEF ReadInv
<1>2. CASE Native(t)
  <2>1. /\ seen' = [seen EXCEPT ![t] = [at |-> now, epoch |-> 0]]
        /\ UNCHANGED <<now, real, session, last, epoch, installed, task>>
    BY <1>2 DEF Native, timeVars, lockVars, clockVars, countVars
  <2>2. now \in Int /\ real' \in [Threads -> Nat]
    BY <1>1, <2>1
  <2>. QED
    BY <2>1, <2>2, FellBack
<1>3. CASE Contended(t)
  <2>1. /\ seen' = [seen EXCEPT ![t] = LastOr(t)] /\ real' \in [Threads -> Nat] /\ real[t] \in Int
        /\ UNCHANGED <<now, session, last, epoch, installed, task>>
    BY <1>1, <1>3 DEF Contended, timeVars, lockVars, clockVars, countVars
  <2>2. \/ LastOr(t) = [at |-> last, epoch |-> epoch]
        \/ LastOr(t) = [at |-> real[t], epoch |-> 0]
    BY DEF LastOr
  <2>. QED
    BY <2>1, <2>2, FellBack
<1>4. CASE Answer(t) /\ ~installed
  <2>1. /\ seen' = [seen EXCEPT ![t] = LastOr(t)] /\ real' \in [Threads -> Nat] /\ real[t] \in Int
        /\ UNCHANGED <<now, session, last, epoch, installed, task>>
    BY <1>1, <1>4 DEF Answer, timeVars, clockVars, countVars
  <2>2. \/ LastOr(t) = [at |-> last, epoch |-> epoch]
        \/ LastOr(t) = [at |-> real[t], epoch |-> 0]
    BY DEF LastOr
  <2>. QED
    BY <2>1, <2>2, FellBack
<1>5. CASE Answer(t) /\ installed
  <2>1. /\ session' = Poll(session, real[t]) /\ last' = session'.clock.lastVirtual
        /\ seen' = [seen EXCEPT ![t] = [at |-> last', epoch |-> epoch]]
        /\ real' \in [Threads -> Nat] /\ real[t] \in Int /\ UNCHANGED <<now, epoch>>
    BY <1>1, <1>5 DEF Answer, timeVars, countVars
  <2>2. session' \in Sessions /\ session'.clock.lastVirtual >= session.clock.lastVirtual
    BY <2>1, PollOn DEF ReadInv
  <2>3. PICK T \in SUBSET Threads : T = {t}
    OBVIOUS
  <2>4. seen' = [u \in Threads |-> IF u \in T THEN [at |-> last', epoch |-> epoch] ELSE seen[u]]
    BY <1>1, <2>1, <2>3
  <2>. QED
    BY <1>5, <2>1, <2>2, <2>4, Published
<1>6. CASE (\E s \in Slots : Load(t, s)) \/ Enter(t) \/ ReadNative(t) \/ TryLock(t) \/ Leave(t)
  <2>1. /\ UNCHANGED <<now, session, last, seen, epoch, installed, task>>
        /\ real' \in [Threads -> Nat]
    BY <1>1, <1>6 DEF Load, Enter, ReadNative, TryLock, Leave, timeVars, lockVars, clockVars, countVars
  <2>. QED
    BY <1>1, <2>1, NothingRead
<1>. QED
  BY <1>2, <1>3, <1>4, <1>5, <1>6 DEF Thread, Callback

\* An installation publishes under an epoch that nobody has read under.
LEMMA ControlRead ==
  ASSUME ReadInv, IInv, BeginEnable \/ PublishBaseline
  PROVE  ReadInv' /\ Onward
<1>0. /\ now \in Nat /\ real \in [Threads -> Nat] /\ last \in Int /\ epoch \in Nat
      /\ session \in Sessions /\ seen \in [Threads -> [at : Int, epoch : Nat]]
  BY DEF ReadInv
<1>1. CASE BeginEnable
  <2>1. /\ session' = NewSession(TRUE, Unit, 0, now) /\ ~installed /\ task' = "publish"
        /\ UNCHANGED <<now, installed, last, real, seen, epoch>>
    BY <1>1 DEF BeginEnable, timeVars, threadVars, countVars
  <2>2. session' \in Sessions
    <3>1. now \in Int
      BY <1>0
    <3>2. NewSession(TRUE, Unit, 0, now) \in Sessions
      BY <3>1, NewSessionOn, Zenon
    <3>. QED
      BY <2>1, <3>2
  <2>3. ReadInv'
    BY <1>0, <2>1, <2>2 DEF ReadInv
  <2>4. Onward
    BY <1>0, <2>1 DEF Onward
  <2>. QED
    BY <2>3, <2>4
<1>2. CASE PublishBaseline
  <2>1. /\ task' = "patch" /\ last' = session.clock.lastVirtual /\ epoch' = epoch + 1
        /\ UNCHANGED <<now, installed, session, real, seen>>
    BY <1>2 DEF PublishBaseline, timeVars, threadVars
  <2>2. last' \in Int /\ epoch' \in Nat
    BY <1>0, <2>1 DEF Sessions, Clocks
  <2>3. ASSUME NEW t \in Threads
        PROVE  seen'[t] = seen[t] /\ seen[t].at \in Int /\ seen[t].epoch <= epoch' /\ seen[t].epoch # epoch'
    <3>1. seen[t].epoch \in Nat /\ seen[t].epoch <= epoch /\ seen[t].at \in Int
      BY <1>0 DEF ReadInv
    <3>. QED
      BY <1>0, <2>1, <3>1
  <2>. QED
    BY <1>0, <2>1, <2>2, <2>3 DEF ReadInv, Onward
<1>. QED
  BY <1>1, <1>2

LEMMA CommandRead ==
  ASSUME ReadInv, IInv, (\E rate \in Steps : Command(rate)) \/ Status
  PROVE  ReadInv' /\ Onward
<1>1. /\ task \in {"command", "status"} /\ installed /\ task' = "none"
      /\ UNCHANGED <<now, installed, real, seen, epoch>>
  BY DEF Command, Status, Unlock, IInv, Progress, timeVars, threadVars, countVars
<1>2. /\ now \in Int /\ real \in [Threads -> Nat] /\ session \in Sessions
      /\ seen = [t \in Threads |-> seen[t]]
  BY DEF ReadInv
<1>3. CASE UNCHANGED clockVars
  <2>1. UNCHANGED <<session, last>>
    BY <1>3 DEF clockVars
  <2>. QED
    BY <1>1, <1>2, <2>1, NothingRead DEF ReadInv
<1>4. CASE ~UNCHANGED clockVars
  <2>1. /\ session' \in Sessions /\ session'.clock.lastVirtual >= session.clock.lastVirtual
        /\ last' = session'.clock.lastVirtual
    <3>1. ASSUME NEW rate \in Steps, Command(rate)
          PROVE  /\ session' \in Sessions /\ session'.clock.lastVirtual >= session.clock.lastVirtual
                 /\ last' = session'.clock.lastVirtual
      <4>1. /\ session' = Apply(session, now, [kind |-> "select", rate |-> rate])
            /\ last' = session'.clock.lastVirtual
        BY <1>4, <3>1 DEF Command
      <4>. QED
        BY <1>2, <4>1, SelectOn
    <3>2. ASSUME Status
          PROVE  /\ session' \in Sessions /\ session'.clock.lastVirtual >= session.clock.lastVirtual
                 /\ last' = session'.clock.lastVirtual
      <4>1. session' = Poll(session, now) /\ last' = session'.clock.lastVirtual
        BY <1>4, <3>2 DEF Status
      <4>. QED
        BY <1>2, <4>1, PollOn
    <3>. QED
      BY <3>1, <3>2
  <2>2. PICK T \in SUBSET Threads : T = {}
    OBVIOUS
  <2>3. seen' = [t \in Threads |-> IF t \in T THEN [at |-> last', epoch |-> epoch] ELSE seen[t]]
    BY <1>1, <1>2, <2>2
  <2>. QED
    BY <1>1, <1>2, <2>1, <2>3, Published
<1>. QED
  BY <1>3, <1>4

LEMMA StepReadInv == ASSUME ReadInv, IInv, [Next]_vars PROVE ReadInv' /\ Onward
<1>0. now \in Nat /\ real \in [Threads -> Nat]
  BY DEF ReadInv
<1>1. CASE UNCHANGED vars
  <2>1. UNCHANGED <<now, real, session, last, seen, epoch, installed, task>>
    BY <1>1 DEF vars, timeVars, lockVars, clockVars, threadVars, countVars
  <2>. QED
    BY <1>0, <2>1, NothingRead
<1>2. CASE Pass \/ CloseGate \/ (\E s \in Slots : Overwrite(s)) \/ BeginDisable \/ BeginCommand
           \/ BeginStatus
  <2>1. /\ UNCHANGED <<real, session, last, seen, epoch, installed>> /\ now' \in Nat
        /\ task' = task \/ installed
        /\ task' \in {"patch", "undo"} => task' = task
    BY <1>0, <1>2 DEF Pass, CloseGate, Overwrite, BeginDisable, BeginCommand, BeginStatus, timeVars,
                      lockVars, clockVars, threadVars, countVars
  <2>. QED
    BY <1>0, <2>1, NothingRead
<1>3. CASE \/ (\E outcome \in Outcomes : Patch(outcome)) \/ Installed \/ Undone \/ Unrestored
           \/ (\E s \in Left, outcome \in Outcomes, restored \in BOOLEAN : RestoreSlot(s, outcome, restored))
           \/ Restored \/ Drained \/ DrainTimeout
  <2>1. UNCHANGED <<now, real, session, last, seen, epoch>>
    BY <1>3 DEF Patch, Installed, Undone, Unrestored, RestoreSlot, Restored, Drained, DrainTimeout,
                timeVars, clockVars, threadVars, countVars
  <2>2. task \in {"restore", "drain"} => installed
    BY DEF IInv, Progress
  <2>3. installed' \/ task' \in {"patch", "undo"} => installed \/ task \in {"patch", "undo"}
    BY <1>3, <2>2 DEF Patch, Installed, Undone, Unrestored, RestoreSlot, Restored, Drained, DrainTimeout,
                      Unlock
  <2>. QED
    BY <1>0, <2>1, <2>3, NothingRead
<1>4. CASE \E t \in Threads : Thread(t)
  BY <1>4, ThreadRead
<1>5. CASE BeginEnable \/ PublishBaseline
  BY <1>5, ControlRead
<1>6. CASE (\E rate \in Steps : Command(rate)) \/ Status
  BY <1>6, CommandRead
<1>. QED
  BY <1>1, <1>2, <1>3, <1>4, <1>5, <1>6 DEF Next, Working

\* hooked_query_performance_counter answers no thread with less than it got before
\* under the same hooks, whether it samples or falls back on LAST_QPC.
THEOREM NeverBackUnderHooks == Spec => MonotoneWhileArmed
<1>1. ReadInv /\ IInv /\ [Next]_vars => ReadInv'
  BY StepReadInv
<1>2. ReadInv /\ IInv /\ [Next]_vars => [Onward]_vars
  BY StepReadInv
<1>3. Spec => [][Onward]_vars
  BY InitReadInv, Inductive, <1>1, <1>2, PTL DEF Spec
<1>. QED
  BY <1>3 DEF MonotoneWhileArmed, Onward
====
