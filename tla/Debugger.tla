-------------------------------- MODULE Debugger --------------------------------
(***************************************************************************)
(* The in-process debugger: DebuggerCore and its Windows half.  Commands   *)
(* hold operation_lock, so one is under way at a time; the game's threads  *)
(* run, trap and are suspended by others meanwhile.  A breakpoint's id is  *)
(* left out: its thread and debug register name it while it exists.        *)
(* CommandPool shuts the debugger down behind its last command.            *)
(***************************************************************************)
EXTENDS Naturals, FiniteSets

CONSTANTS
  Threads,         \* threads of the game
  Registers,       \* debug registers of a thread, Nats taken from the least
  MaxBreakpoints   \* max_hardware_breakpoints

ASSUME DebuggerAssumption == Registers \subseteq Nat /\ MaxBreakpoints \in Nat

VARIABLES
  context,      \* of each thread: debug registers in use, trap flag
  frame,        \* of a thread in the exception handler: the context it will go on with
  suspended,    \* suspend counts
  foreign,      \* threads somebody else has suspended
  exited,
  breakpoints,  \* DebuggerCore::breakpoints
  paused,       \* DebuggerCore::paused_threads
  acquired,     \* veh_acquired
  registered,   \* BREAKPOINT_REGISTRY, which the handler reads
  stepping,     \* SINGLE_STEP_REGISTRY
  handler,      \* VEH_REGISTRATION: the handler is installed
  op,           \* the command under way
  mode, todo,   \* how far a shutdown is, and what it listed
  crossed,      \* threads whose context was written while they were in the handler
  stuck,        \* threads a failed ResumeThread left suspended
  failed,       \* a call of the shutdown failed, on a thread that exists
  unhandled     \* a trap of the debugger's reached the game

system == <<context, frame, suspended, foreign, exited, registered, stepping, handler>>
core == <<breakpoints, paused, acquired, mode, todo>>
history == <<crossed, stuck, failed, unhandled>>
vars == <<system, core, op, history>>

Idle == [kind |-> "none", at |-> "idle"]

NoFrame == [at |-> "none"]

Init ==
  /\ context = [t \in Threads |-> [armed |-> {}, trap |-> FALSE]]
  /\ frame = [t \in Threads |-> NoFrame]
  /\ suspended = [t \in Threads |-> 0]
  /\ foreign = {} /\ exited = {}
  /\ breakpoints = {} /\ paused = {} /\ acquired = FALSE
  /\ registered = {} /\ stepping = {} /\ handler = FALSE
  /\ op = Idle
  /\ mode = "up" /\ todo = {}
  /\ crossed = {} /\ stuck = {} /\ failed = FALSE /\ unhandled = FALSE

-----------------------------------------------------------------------------
(* The commands: a first step that may register something, the suspension,
   the context, and the step that lets the thread go and keeps the books. *)

Command(kind, t, r) == [kind |-> kind, at |-> "suspend", thread |-> t, register |-> r,
                        temporary |-> FALSE, done |-> FALSE]

BeginRead ==
  /\ op = Idle /\ mode = "up"
  /\ \E t \in Threads : op' = Command("read", t, 0)
  /\ UNCHANGED <<system, core, history>>

BeginPause ==
  /\ op = Idle /\ mode = "up"
  /\ \E t \in Threads \ paused : op' = Command("pause", t, 0)
  /\ UNCHANGED <<system, core, history>>

\* In a shutdown, resume_thread goes through the threads that were listed.
BeginResume ==
  /\ op = Idle
  /\ \/ mode = "up" /\ UNCHANGED todo
     \/ mode = "resuming" /\ todo # {}
  /\ \E t \in paused :
       /\ mode = "resuming" => <<t, 0>> \in todo /\ todo' = todo \ {<<t, 0>>}
       /\ op' = [Command("resume", t, 0) EXCEPT !.at = "resume"]
  /\ UNCHANGED <<system, breakpoints, paused, acquired, mode, history>>

\* ensure_veh
EnsureHandler == acquired' = TRUE /\ handler' = TRUE

BeginStep ==
  /\ op = Idle /\ mode = "up"
  /\ EnsureHandler
  /\ \E t \in Threads : op' = Command("step", t, 0)
  /\ UNCHANGED <<context, frame, suspended, foreign, exited, registered, stepping,
                 breakpoints, paused, mode, todo, history>>

\* The least free register of the thread; the registry knows it before the thread does.
BeginSet ==
  /\ op = Idle /\ mode = "up"
  /\ Cardinality(breakpoints) < MaxBreakpoints
  /\ EnsureHandler
  /\ \E t \in Threads, r \in Registers :
       /\ <<t, r>> \notin breakpoints
       /\ \A q \in Registers : q < r => <<t, q>> \in breakpoints
       /\ registered' = registered \cup {<<t, r>>}
       /\ op' = Command("set", t, r)
  /\ UNCHANGED <<context, frame, suspended, foreign, exited, stepping,
                 breakpoints, paused, mode, todo, history>>

\* Fault: the breakpoint is struck off the registry before the thread has lost it.
BeginClearStruckFirst ==
  /\ op = Idle /\ mode = "up"
  /\ \E b \in breakpoints :
       /\ registered' = registered \ {b}
       /\ op' = Command("clear", b[1], b[2])
  /\ UNCHANGED <<context, frame, suspended, foreign, exited, stepping, handler, core, history>>

\* In a shutdown, remove_hardware_breakpoint goes through the breakpoints listed.
BeginClear ==
  /\ op = Idle
  /\ \E b \in breakpoints :
       /\ \/ mode = "up" /\ UNCHANGED todo
          \/ mode = "removing" /\ b \in todo /\ todo' = todo \ {b}
       /\ op' = Command("clear", b[1], b[2])
  /\ UNCHANGED <<system, breakpoints, paused, acquired, mode, history>>

\* Fault: a breakpoint that could not be set stays registered.
GiveUpRegistered ==
  /\ op' = Idle
  /\ UNCHANGED <<context, frame, registered, stepping, handler, foreign, exited, core>>

\* What a failed command leaves: a breakpoint that was not set is not registered.
GiveUp ==
  /\ op' = Idle
  /\ registered' = IF op.kind = "set" THEN registered \ {<<op.thread, op.register>>}
                                      ELSE registered
  /\ UNCHANGED <<context, frame, stepping, handler, foreign, exited, core>>

Fails(really) == failed' = (failed \/ (really /\ mode # "up"))

\* OpenThread or SuspendThread refuses; on a thread that exited it must.
OpenFails ==
  /\ op.at \in {"suspend", "resume"}
  /\ GiveUp
  /\ Fails(op.thread \notin exited)
  /\ UNCHANGED <<suspended, crossed, stuck, unhandled>>

\* TemporarySuspension::maybe, and pause_thread: a thread somebody else holds is let go.
Suspend ==
  LET t == op.thread IN
  /\ op.at = "suspend" /\ t \notin exited
  /\ IF t \in paused
       THEN op' = [op EXCEPT !.at = "context"] /\ UNCHANGED <<suspended, paused>>
       ELSE /\ suspended' = [suspended EXCEPT ![t] = @ + 1]
            /\ IF suspended[t] > 0
                 THEN op' = [op EXCEPT !.at = "rollback"] /\ UNCHANGED paused
                 ELSE IF op.kind = "pause"
                   THEN op' = Idle /\ paused' = paused \cup {t}
                   ELSE op' = [op EXCEPT !.at = "context", !.temporary = TRUE] /\ UNCHANGED paused
  /\ UNCHANGED <<context, frame, foreign, exited, registered, stepping, handler,
                 breakpoints, acquired, mode, todo, history>>

\* ResumeThread, whose failure nobody makes good; bounded to one for each thread.
Release(t) ==
  \/ suspended' = [suspended EXCEPT ![t] = @ - 1] /\ UNCHANGED stuck
  \/ t \notin stuck /\ stuck' = stuck \cup {t} /\ UNCHANGED suspended

Rollback ==
  /\ op.at = "rollback"
  /\ Release(op.thread)
  /\ Fails(TRUE)
  /\ GiveUp
  /\ UNCHANGED <<crossed, unhandled>>

\* What the command makes of the context c of its thread.
Written(c) ==
  [armed |-> IF op.kind = "set" THEN c.armed \cup {op.register}
             ELSE IF op.kind = "clear" THEN c.armed \ {op.register} ELSE c.armed,
   trap  |-> c.trap \/ op.kind = "step"]

\* GetThreadContext and SetThreadContext on the suspended thread.
WriteContext ==
  LET t == op.thread IN
  /\ op.at = "context"
  /\ op.kind = "step" => t \notin stepping
  /\ op' = [op EXCEPT !.at = "letgo", !.done = TRUE]
  /\ context' = [context EXCEPT ![t] = Written(@)]
  /\ registered' = IF op.kind = "clear" THEN registered \ {<<t, op.register>>} ELSE registered
  /\ stepping' = IF op.kind = "step" THEN stepping \cup {t} ELSE stepping
  /\ crossed' = IF op.kind # "read" /\ frame[t] # NoFrame THEN crossed \cup {t} ELSE crossed
  /\ UNCHANGED <<frame, suspended, foreign, exited, handler, core, stuck, failed, unhandled>>

\* A call fails, or a step is still outstanding; nothing is written.
ContextFails ==
  /\ op.at = "context"
  /\ op' = [op EXCEPT !.at = "letgo"]
  /\ Fails(TRUE)
  /\ UNCHANGED <<system, core, crossed, stuck, unhandled>>

\* The temporary suspension ends, and what was done is entered.  A thread that was
\* paused when it was armed for a step is resumed next.
LetGo ==
  LET t == op.thread
      b == <<t, op.register>> IN
  /\ op.at = "letgo"
  /\ IF op.temporary THEN Release(t) ELSE UNCHANGED <<suspended, stuck>>
  /\ breakpoints' = CASE op.done /\ op.kind = "set" -> breakpoints \cup {b}
                      [] op.done /\ op.kind = "clear" -> breakpoints \ {b}
                      [] OTHER -> breakpoints
  /\ registered' = IF op.kind = "set" /\ ~op.done THEN registered \ {b} ELSE registered
  /\ op' = IF op.kind = "step" /\ op.done /\ t \in paused THEN [op EXCEPT !.at = "resume"] ELSE Idle
  /\ UNCHANGED <<context, frame, foreign, exited, stepping, handler, paused, acquired,
                 mode, todo, crossed, failed, unhandled>>

\* Fault: a thread is struck off although it could not be resumed.
ResumeForgets ==
  LET t == op.thread IN
  /\ op.at = "resume"
  /\ paused' = paused \ {t}
  /\ suspended' \in {suspended, [suspended EXCEPT ![t] = @ - 1]}
  /\ op' = Idle
  /\ UNCHANGED <<context, frame, foreign, exited, registered, stepping, handler,
                 breakpoints, acquired, mode, todo, history>>

\* resume_thread: the thread is struck off once it was resumed.
Resume ==
  LET t == op.thread IN
  /\ op.at = "resume" /\ t \notin exited
  /\ suspended[t] > 0
  /\ suspended' = [suspended EXCEPT ![t] = @ - 1]
  /\ paused' = paused \ {t}
  /\ op' = Idle
  /\ UNCHANGED <<context, frame, foreign, exited, registered, stepping, handler,
                 breakpoints, acquired, mode, todo, history>>

-----------------------------------------------------------------------------
(* shutdown *)

BeginShutdown ==
  /\ op = Idle /\ mode = "up"
  /\ mode' = "removing" /\ todo' = breakpoints
  /\ UNCHANGED <<system, breakpoints, paused, acquired, op, history>>

\* Fault: the paused threads are left to themselves.
ListPausedNot ==
  /\ op = Idle /\ mode = "removing" /\ todo = {}
  /\ mode' = "resuming" /\ todo' = {}
  /\ UNCHANGED <<system, breakpoints, paused, acquired, op, history>>

ListPaused ==
  /\ op = Idle /\ mode = "removing" /\ todo = {}
  /\ mode' = "resuming" /\ todo' = paused \X {0}
  /\ UNCHANGED <<system, breakpoints, paused, acquired, op, history>>

\* release_veh; a handler that cannot be removed stays.
ReleaseHandler ==
  /\ op = Idle /\ mode = "resuming" /\ todo = {}
  /\ mode' = "down" /\ acquired' = FALSE
  /\ \/ handler' = FALSE /\ UNCHANGED failed
     \/ handler /\ failed' = TRUE /\ UNCHANGED handler
  /\ UNCHANGED <<context, frame, suspended, foreign, exited, registered, stepping,
                 breakpoints, paused, todo, op, crossed, stuck, unhandled>>

-----------------------------------------------------------------------------
(* The game *)

Runs(t) == suspended[t] = 0 /\ t \notin exited

\* A breakpoint is hit, or the instruction of a step is over.  The handler gets the
\* context of the moment; its own code runs without the trap flag.
Trap(t) ==
  /\ Runs(t) /\ frame[t] = NoFrame
  /\ \E hits \in SUBSET context[t].armed :
       /\ hits # {} \/ context[t].trap
       /\ frame' = [frame EXCEPT ![t] = [at |-> "handler", hits |-> hits,
                      armed |-> context[t].armed, trap |-> context[t].trap]]
  /\ context' = [context EXCEPT ![t].trap = FALSE]
  /\ UNCHANGED <<suspended, foreign, exited, registered, stepping, handler, core, op, history>>

\* vectored_handler: what is registered for this thread is consumed, and the thread goes
\* on with the context of the moment it trapped, debug registers included.
Answer(t) ==
  LET ours == {r \in frame[t].hits : <<t, r>> \in registered} IN
  /\ Runs(t) /\ frame[t] # NoFrame /\ ~context[t].trap
  /\ unhandled' = (unhandled \/ ~handler \/ (ours = {} /\ t \notin stepping))
  /\ stepping' = IF handler THEN stepping \ {t} ELSE stepping
  /\ context' = [context EXCEPT ![t] =
       [armed |-> frame[t].armed, trap |-> frame[t].trap /\ t \notin stepping]]
  /\ frame' = [frame EXCEPT ![t] = NoFrame]
  /\ UNCHANGED <<suspended, foreign, exited, registered, handler, core, op, crossed, stuck, failed>>

\* A step armed while its thread is in the handler ends in the handler's own code.
TrapInHandler(t) ==
  /\ Runs(t) /\ frame[t] # NoFrame /\ context[t].trap
  /\ unhandled' = (unhandled \/ ~handler \/ t \notin stepping)
  /\ stepping' = IF handler THEN stepping \ {t} ELSE stepping
  /\ context' = [context EXCEPT ![t].trap = FALSE]
  /\ UNCHANGED <<frame, suspended, foreign, exited, registered, handler, core, op,
                 crossed, stuck, failed>>

Exit(t) ==
  /\ Runs(t) /\ frame[t] = NoFrame
  /\ exited' = exited \cup {t}
  /\ context' = [context EXCEPT ![t] = [armed |-> {}, trap |-> FALSE]]
  /\ UNCHANGED <<frame, suspended, foreign, registered, stepping, handler, core, op, history>>

ForeignSuspend(t) ==
  /\ t \notin foreign \cup exited
  /\ foreign' = foreign \cup {t}
  /\ suspended' = [suspended EXCEPT ![t] = @ + 1]
  /\ UNCHANGED <<context, frame, exited, registered, stepping, handler, core, op, history>>

ForeignResume(t) ==
  /\ t \in foreign
  /\ foreign' = foreign \ {t}
  /\ suspended' = [suspended EXCEPT ![t] = @ - 1]
  /\ UNCHANGED <<context, frame, exited, registered, stepping, handler, core, op, history>>

Operation ==
  \/ BeginRead \/ BeginPause \/ BeginResume \/ BeginStep \/ BeginSet \/ BeginClear
  \/ OpenFails \/ Suspend \/ Rollback \/ WriteContext \/ ContextFails \/ LetGo \/ Resume

Shutdown == BeginShutdown \/ ListPaused \/ ReleaseHandler

Game(t) == Trap(t) \/ Answer(t) \/ TrapInHandler(t) \/ Exit(t)
             \/ ForeignSuspend(t) \/ ForeignResume(t)

\* A trap nobody handles ends the process.
Next ==
  /\ ~unhandled
  /\ Operation \/ Shutdown \/ \E t \in Threads : Game(t)

Spec == Init /\ [][Next]_vars

-----------------------------------------------------------------------------
(* Properties *)

Count(t, S) == IF t \in S THEN 1 ELSE 0

\* Between two commands a thread is suspended by the debugger exactly if the debugger
\* says so, unless the system refused to resume it; and a shutdown in which no call
\* failed leaves no thread suspended, no breakpoint and no handler.
SuspensionsOwned ==
  /\ op = Idle => \A t \in Threads \ (exited \cup stuck) :
       suspended[t] = Count(t, foreign) + Count(t, paused)
  /\ (mode = "down" /\ ~failed) =>
       /\ ~handler
       /\ \A t \in Threads \ exited :
            /\ t \notin stuck => suspended[t] = Count(t, foreign)
            /\ t \notin crossed => context[t].armed = {}

\* Between two commands the handler knows the breakpoints that the debugger lists.
RegistryMatches == op = Idle => registered = breakpoints

\* Until it is shut down, every trap the debugger causes is consumed by its handler;
\* only a context written while its thread was in the handler can break that.
TrapsHandled == unhandled => crossed # {} \/ mode = "down"

=============================================================================
