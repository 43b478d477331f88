----------------------------- MODULE DebuggerProofs -----------------------------
(***************************************************************************)
(* The debugger's books agree with the registry its exception handler      *)
(* reads, and every trap it causes is its own, for any number of threads   *)
(* and registers; what its window is told of them is whole and in order,   *)
(* for any ring and any number of events; and the windows show what is so, *)
(* however answers, clicks and other clients cross.                        *)
(***************************************************************************)
EXTENDS Debugger, EventFeed, Windows, Integers, FiniteSetTheorems, NaturalsInduction, WellFoundedInduction, TLAPS

Ops == [kind : {"read", "pause", "resume", "step", "set", "clear"},
        at : {"suspend", "rollback", "context", "letgo", "resume"},
        thread : Threads, register : Registers \cup {0},
        temporary : BOOLEAN, done : BOOLEAN]

Frames == [at : {"handler"}, hits : SUBSET Registers, armed : SUBSET Registers, trap : BOOLEAN]

Shape ==
  /\ context \in [Threads -> [armed : SUBSET Registers, trap : BOOLEAN]]
  /\ frame \in [Threads -> Frames \cup {NoFrame}]
  /\ op \in Ops \cup {Idle}
  /\ breakpoints \subseteq Threads \X Registers
  /\ registered \subseteq Threads \X Registers
  /\ stepping \subseteq Threads
  /\ paused \subseteq Threads
  /\ handler \in BOOLEAN /\ unhandled \in BOOLEAN
  /\ mode \in {"up", "removing", "resuming", "down"}

\* The breakpoint a command is about.
Subject == <<op.thread, op.register>>

\* How far the registry is ahead of the books, or behind them.
Books ==
  IF op.kind = "set"
    THEN /\ Subject \in (Threads \X Registers) \ breakpoints
         /\ registered = breakpoints \cup {Subject}
    ELSE IF op.kind = "clear" /\ op.at = "letgo" /\ op.done
      THEN registered = breakpoints \ {Subject}
      ELSE /\ registered = breakpoints
           /\ op.kind = "clear" => Subject \in breakpoints

\* Which commands get how far.
Stages ==
  op # Idle =>
    /\ op.done => op.at \in {"letgo", "resume"}
    /\ op.at = "resume" => op.kind \in {"resume", "step"}
    /\ op.at \in {"context", "letgo"} => op.kind \notin {"pause", "resume"}
    /\ op.kind = "resume" => op.at = "resume"
    /\ op.kind = "pause" => op.thread \notin paused

\* Whatever can make thread t trap is known to the handler.
Known(t) ==
  /\ \A r \in context[t].armed : <<t, r>> \in registered
  /\ context[t].trap => t \in stepping
  /\ frame[t] # NoFrame =>
       /\ frame[t].hits \subseteq frame[t].armed
       /\ \A r \in frame[t].armed : <<t, r>> \in registered
       /\ frame[t].trap => t \in stepping
       /\ frame[t].hits # {} \/ frame[t].trap
       /\ ~context[t].trap

\* Thread t has not got breakpoint r.
Unarmed(t, r) ==
  r \notin context[t].armed /\ (frame[t] # NoFrame => r \notin frame[t].armed)

Traps ==
  (crossed = {} /\ mode # "down") =>
    /\ ~unhandled
    /\ (registered # {} \/ stepping # {} \/ op.kind = "step") => handler
    /\ \A t \in Threads : Known(t)
    /\ (op.kind = "set" /\ ~op.done) => Unarmed(op.thread, op.register)

Inv == Shape /\ Stages /\ Books /\ Traps

\* What a command makes of a context, part by part.
LEMMA WrittenParts ==
  ASSUME NEW c, NEW d, d = Written(c)
  PROVE  /\ d.armed = IF op.kind = "set" THEN c.armed \cup {op.register}
                      ELSE IF op.kind = "clear" THEN c.armed \ {op.register} ELSE c.armed
         /\ d.trap => c.trap \/ op.kind = "step"
  BY DEF Written

USE DEF Inv, Shape, Stages, Books, Subject, system, core, history

LEMMA InitInv == Init => Inv
<1> SUFFICES ASSUME Init PROVE Inv
  OBVIOUS
<1>1. Shape
  BY DEF Init, Idle, Frames, NoFrame
<1>2. Stages /\ Books
  BY DEF Init, Idle
<1>3. Traps
  BY DEF Init, Idle, NoFrame, Traps, Known
<1> QED
  BY <1>1, <1>2, <1>3

\* Every step keeps the invariant, one lemma step per action.
LEMMA StepInv == ASSUME Inv, [Next]_vars PROVE Inv'
<1> USE DebuggerAssumption
<1>1. ASSUME BeginRead PROVE Inv'
  <2>1. Shape'
    BY <1>1 DEF BeginRead, Ops, Idle, Command
  <2>2. Stages' /\ Books'
    BY <1>1 DEF BeginRead, Idle, Command, Ops
  <2>3. Traps'
    BY <1>1 DEF BeginRead, Traps, Known, Unarmed, Idle, Command
  <2> QED
    BY <2>1, <2>2, <2>3
<1>2. ASSUME BeginPause PROVE Inv'
  <2>1. Shape'
    BY <1>2 DEF BeginPause, Ops, Idle, Command
  <2>2. Stages' /\ Books'
    BY <1>2 DEF BeginPause, Idle, Command, Ops
  <2>3. Traps'
    BY <1>2 DEF BeginPause, Traps, Known, Unarmed, Idle, Command
  <2> QED
    BY <2>1, <2>2, <2>3
<1>3. ASSUME BeginResume PROVE Inv'
  <2>1. Shape'
    BY <1>3 DEF BeginResume, Ops, Idle, Command
  <2>2. Stages' /\ Books'
    BY <1>3 DEF BeginResume, Idle, Command, Ops
  <2>3. Traps'
    BY <1>3 DEF BeginResume, Traps, Known, Unarmed, Idle, Command
  <2> QED
    BY <2>1, <2>2, <2>3
<1>4. ASSUME BeginStep PROVE Inv'
  <2>1. Shape'
    BY <1>4 DEF BeginStep, EnsureHandler, Ops, Idle, Command
  <2>2. Stages' /\ Books'
    BY <1>4 DEF BeginStep, EnsureHandler, Idle, Command, Ops
  <2>3. Traps'
    BY <1>4 DEF BeginStep, EnsureHandler, Traps, Known, Unarmed, Idle, Command
  <2> QED
    BY <2>1, <2>2, <2>3
<1>5. ASSUME BeginSet PROVE Inv'
  <2>1. Shape'
    BY <1>5 DEF BeginSet, EnsureHandler, Ops, Idle, Command
  <2>2. Stages' /\ Books'
    BY <1>5 DEF BeginSet, EnsureHandler, Idle, Command, Ops
  <2>3. Traps'
    <3>1. PICK t \in Threads, r \in Registers :
            /\ <<t, r>> \notin breakpoints
            /\ registered' = registered \cup {<<t, r>>}
            /\ op' = Command("set", t, r)
      BY <1>5 DEF BeginSet
    <3>2. /\ UNCHANGED <<context, frame, stepping, crossed, mode, unhandled>> /\ handler' = TRUE
          /\ registered = breakpoints
      BY <1>5 DEF BeginSet, EnsureHandler, Idle
    <3>3. Traps => (crossed = {} /\ mode # "down" => (Unarmed(t, r) /\ \A u \in Threads : Known(u)'))
      BY <3>1, <3>2 DEF Traps, Known, Unarmed
    <3>4. op'.kind = "set" /\ op'.thread = t /\ op'.register = r
      BY <3>1 DEF Command
    <3> QED
      BY <3>2, <3>3, <3>4 DEF Traps, Unarmed
  <2> QED
    BY <2>1, <2>2, <2>3
<1>6. ASSUME BeginClear PROVE Inv'
  <2>1. Shape'
    BY <1>6 DEF BeginClear, Ops, Idle, Command
  <2>2. Stages' /\ Books'
    BY <1>6 DEF BeginClear, Idle, Command, Ops
  <2>3. Traps'
    BY <1>6 DEF BeginClear, Traps, Known, Unarmed, Idle, Command
  <2> QED
    BY <2>1, <2>2, <2>3
<1>7. ASSUME OpenFails PROVE Inv'
  <2>0. op \in Ops
    BY <1>7 DEF OpenFails, Idle
  <2>1. Shape'
    BY <1>7, <2>0 DEF OpenFails, GiveUp, Ops, Idle, Command
  <2>2. Stages' /\ Books'
    BY <1>7, <2>0 DEF OpenFails, GiveUp, Idle, Command, Ops
  <2>3. Traps'
    BY <1>7, <2>0 DEF OpenFails, GiveUp, Traps, Known, Unarmed, Idle, Command
  <2> QED
    BY <2>1, <2>2, <2>3
<1>8. ASSUME Suspend PROVE Inv'
  <2>0. op \in Ops
    BY <1>8 DEF Suspend, Idle
  <2>1. Shape'
    <3>1. op.thread \in Threads
      BY <2>0 DEF Ops
    <3>2. op' \in Ops \cup {Idle}
      <4>1. \/ op' = [op EXCEPT !.at = "context"] \/ op' = [op EXCEPT !.at = "rollback"] \/ op' = Idle
            \/ op' = [op EXCEPT !.at = "context", !.temporary = TRUE]
        BY <1>8 DEF Suspend
      <4> QED
        BY <4>1, <2>0 DEF Ops
    <3> QED
      BY <1>8, <3>1, <3>2 DEF Suspend
  <2>2. Stages' /\ Books'
    <3>1. op # Idle /\ op.at = "suspend" /\ ~op.done /\ UNCHANGED <<breakpoints, registered>>
      BY <1>8, <2>0 DEF Suspend, Idle, Ops
    <3>2. CASE op' = Idle
      BY <1>8, <3>1, <3>2 DEF Suspend, Idle
    <3>3. CASE op' # Idle
      <4>1. \/ op' = [op EXCEPT !.at = "context"] /\ op.thread \in paused
            \/ op' = [op EXCEPT !.at = "rollback"]
            \/ op' = [op EXCEPT !.at = "context", !.temporary = TRUE] /\ op.kind # "pause"
        BY <1>8, <3>3 DEF Suspend
      <4>2. paused' = paused
        BY <1>8, <3>3 DEF Suspend
      <4>3. /\ op'.kind = op.kind /\ op'.thread = op.thread /\ op'.register = op.register
            /\ ~op'.done /\ op'.at \in {"context", "rollback"}
            /\ op'.at = "context" => op.kind # "pause"
        BY <4>1, <2>0, <3>1 DEF Ops
      <4> QED
        BY <3>1, <4>2, <4>3
    <3> QED
      BY <3>2, <3>3
  <2>3. Traps'
    <3>1. /\ UNCHANGED <<context, frame, registered, stepping, handler, crossed, mode, unhandled>>
          /\ op' = Idle \/ (op'.kind = op.kind /\ op'.thread = op.thread
                              /\ op'.register = op.register /\ op'.done = op.done)
      BY <1>8, <2>0, ZenonT(40) DEF Suspend, Ops
    <3> QED
      BY <3>1 DEF Traps, Known, Unarmed, Idle
  <2> QED
    BY <2>1, <2>2, <2>3
<1>9. ASSUME Rollback PROVE Inv'
  <2>0. op \in Ops
    BY <1>9 DEF Rollback, Idle
  <2>1. Shape'
    BY <1>9, <2>0 DEF Rollback, GiveUp, Release, Ops, Idle, Command
  <2>2. Stages' /\ Books'
    BY <1>9, <2>0 DEF Rollback, GiveUp, Release, Idle, Command, Ops
  <2>3. Traps'
    BY <1>9, <2>0 DEF Rollback, GiveUp, Release, Traps, Known, Unarmed, Idle, Command
  <2> QED
    BY <2>1, <2>2, <2>3
<1>10. ASSUME WriteContext PROVE Inv'
  <2>0. op \in Ops
    BY <1>10 DEF WriteContext, Idle
  <2>1. Shape'
    BY <1>10, <2>0 DEF WriteContext, Written, Ops, Idle, Command
  <2>2. Stages' /\ Books'
    BY <1>10, <2>0 DEF WriteContext, Written, Idle, Command, Ops
  <2>3. Traps'
    <3> SUFFICES ASSUME crossed' = {}, mode' # "down" PROVE Traps'
      BY DEF Traps
    <3>1. /\ op.at = "context" /\ UNCHANGED <<frame, handler, mode, unhandled>>
          /\ op'.kind = op.kind /\ op'.done /\ op'.thread = op.thread /\ op.thread \in Threads
          /\ op.kind = "step" => op.thread \notin stepping
          /\ crossed = {} /\ (op.kind = "read" \/ frame[op.thread] = NoFrame)
      BY <1>10, <2>0 DEF WriteContext, Ops
    <3>2. context'[op.thread] = Written(context[op.thread])
          /\ \A u \in Threads \ {op.thread} : context'[u] = context[u]
      BY <1>10, <3>1 DEF WriteContext
    <3>3. /\ registered' = IF op.kind = "clear" THEN registered \ {Subject} ELSE registered
          /\ stepping' = IF op.kind = "step" THEN stepping \cup {op.thread} ELSE stepping
      BY <1>10 DEF WriteContext
    <3>4. ASSUME NEW u \in Threads, u # op.thread PROVE Known(u)'
      BY <3>1, <3>2, <3>3, <3>4 DEF Traps, Known
    <3>5. context'[op.thread].armed = IF op.kind = "set" THEN context[op.thread].armed \cup {op.register}
                                      ELSE IF op.kind = "clear" THEN context[op.thread].armed \ {op.register}
                                      ELSE context[op.thread].armed
      BY <3>2, WrittenParts
    <3>10. context'[op.thread].trap => context[op.thread].trap \/ op.kind = "step"
      BY <3>2, WrittenParts
    <3>6. /\ Known(op.thread) /\ ~unhandled
          /\ (registered # {} \/ stepping # {} \/ op.kind = "step") => handler
      BY <3>1 DEF Traps
    <3>7. op.kind = "set" => Subject \in registered
      BY <3>1
    <3>8. (registered' # {} \/ stepping' # {} \/ op.kind = "step") => handler
      <4>1. CASE op.kind = "step"
        BY <3>6, <4>1, Zenon
      <4>2. CASE op.kind # "step"
        <5>1. stepping' = stepping /\ registered' \subseteq registered
          BY <3>3, <4>2
        <5> QED
          BY <5>1, <3>6, <4>2
      <4> QED
        BY <4>1, <4>2
    <3>9. Known(op.thread)'
      <4>1. \A r \in context'[op.thread].armed : <<op.thread, r>> \in registered'
        <5>1. CASE op.kind = "set"
          BY <3>3, <3>5, <3>6, <3>7, <5>1 DEF Known
        <5>2. CASE op.kind # "set"
          BY <3>3, <3>5, <3>6, <5>2 DEF Known
        <5> QED
          BY <5>1, <5>2
      <4>2. context'[op.thread].trap => op.thread \in stepping'
        BY <3>3, <3>10, <3>6 DEF Known
      <4>3. CASE frame[op.thread] = NoFrame
        BY <3>1, <4>1, <4>2, <4>3 DEF Known
      <4>4. CASE op.kind = "read"
        BY <3>1, <3>3, <3>10, <3>6, <4>1, <4>2, <4>4 DEF Known
      <4> QED
        BY <3>1, <4>3, <4>4
    <3>11. \A u \in Threads : Known(u)'
      BY <3>1, <3>4, <3>9
    <3> QED
      BY <3>1, <3>6, <3>8, <3>11 DEF Traps
  <2> QED
    BY <2>1, <2>2, <2>3
<1>11. ASSUME ContextFails PROVE Inv'
  <2>0. op \in Ops
    BY <1>11 DEF ContextFails, Idle
  <2>1. Shape'
    BY <1>11, <2>0 DEF ContextFails, Ops, Idle, Command
  <2>2. Stages' /\ Books'
    BY <1>11, <2>0 DEF ContextFails, Idle, Command, Ops
  <2>3. Traps'
    BY <1>11, <2>0 DEF ContextFails, Traps, Known, Unarmed, Idle, Command
  <2> QED
    BY <2>1, <2>2, <2>3
<1>12. ASSUME LetGo PROVE Inv'
  <2>0. op \in Ops
    BY <1>12 DEF LetGo, Idle
  <2>1. Shape'
    BY <1>12, <2>0 DEF LetGo, Ops, Idle, Command
  <2>2. Stages' /\ Books'
    BY <1>12, <2>0 DEF LetGo, Idle, Command, Ops
  <2>3. Traps'
    BY <1>12, <2>0 DEF LetGo, Traps, Known, Unarmed, Idle, Command
  <2> QED
    BY <2>1, <2>2, <2>3
<1>13. ASSUME Resume PROVE Inv'
  <2>0. op \in Ops
    BY <1>13 DEF Resume, Idle
  <2>1. Shape'
    BY <1>13, <2>0 DEF Resume, Ops, Idle, Command
  <2>2. Stages' /\ Books'
    BY <1>13, <2>0 DEF Resume, Idle, Command, Ops
  <2>3. Traps'
    BY <1>13, <2>0 DEF Resume, Traps, Known, Unarmed, Idle, Command
  <2> QED
    BY <2>1, <2>2, <2>3
<1>14. ASSUME BeginShutdown PROVE Inv'
  <2>1. Shape'
    BY <1>14 DEF BeginShutdown, Ops, Idle, Command
  <2>2. Stages' /\ Books'
    BY <1>14 DEF BeginShutdown, Idle, Command, Ops
  <2>3. Traps'
    BY <1>14 DEF BeginShutdown, Traps, Known, Unarmed, Idle, Command
  <2> QED
    BY <2>1, <2>2, <2>3
<1>15. ASSUME ListPaused PROVE Inv'
  <2>1. Shape'
    BY <1>15 DEF ListPaused, Ops, Idle, Command
  <2>2. Stages' /\ Books'
    BY <1>15 DEF ListPaused, Idle, Command, Ops
  <2>3. Traps'
    BY <1>15 DEF ListPaused, Traps, Known, Unarmed, Idle, Command
  <2> QED
    BY <2>1, <2>2, <2>3
<1>16. ASSUME ReleaseHandler PROVE Inv'
  <2>1. Shape'
    BY <1>16 DEF ReleaseHandler, Ops, Idle, Command
  <2>2. Stages' /\ Books'
    BY <1>16 DEF ReleaseHandler, Idle, Command, Ops
  <2>3. Traps'
    BY <1>16 DEF ReleaseHandler, Traps, Known, Unarmed, Idle, Command
  <2> QED
    BY <2>1, <2>2, <2>3
<1>17. ASSUME NEW t \in Threads, Trap(t) PROVE Inv'
  <2>1. Shape'
    <3>1. PICK hits \in SUBSET context[t].armed :
            frame' = [frame EXCEPT ![t] = [at |-> "handler", hits |-> hits,
                        armed |-> context[t].armed, trap |-> context[t].trap]]
      BY <1>17 DEF Trap
    <3>2. context[t].armed \subseteq Registers /\ context[t].trap \in BOOLEAN
      OBVIOUS
    <3>3. frame' \in [Threads -> Frames \cup {NoFrame}]
      BY <3>1, <3>2 DEF Frames
    <3>4. context' \in [Threads -> [armed : SUBSET Registers, trap : BOOLEAN]]
      BY <1>17, ZenonT(40) DEF Trap
    <3> QED
      BY <1>17, <3>3, <3>4 DEF Trap
  <2>2. Stages' /\ Books'
    BY <1>17 DEF Trap
  <2>3. Traps'
    BY <1>17 DEF Trap, Traps, Known, Unarmed, Idle, Command, Runs, NoFrame, Frames
  <2> QED
    BY <2>1, <2>2, <2>3
<1>18. ASSUME NEW t \in Threads, Answer(t) PROVE Inv'
  <2>1. Shape'
    BY <1>18 DEF Answer, Frames, NoFrame
  <2>2. Stages' /\ Books'
    BY <1>18 DEF Answer
  <2>3. Traps'
    BY <1>18 DEF Answer, Traps, Known, Unarmed, Idle, Command, Runs, NoFrame, Frames
  <2> QED
    BY <2>1, <2>2, <2>3
<1>19. ASSUME NEW t \in Threads, TrapInHandler(t) PROVE Inv'
  <2>1. Shape'
    BY <1>19 DEF TrapInHandler, Frames, NoFrame
  <2>2. Stages' /\ Books'
    BY <1>19 DEF TrapInHandler
  <2>3. Traps'
    BY <1>19 DEF TrapInHandler, Traps, Known, Unarmed, Idle, Command, Runs, NoFrame, Frames
  <2> QED
    BY <2>1, <2>2, <2>3
<1>20. ASSUME NEW t \in Threads, Exit(t) PROVE Inv'
  <2>1. Shape'
    BY <1>20 DEF Exit, Frames, NoFrame
  <2>2. Stages' /\ Books'
    BY <1>20 DEF Exit
  <2>3. Traps'
    BY <1>20 DEF Exit, Traps, Known, Unarmed, Idle, Command, Runs, NoFrame, Frames
  <2> QED
    BY <2>1, <2>2, <2>3
<1>21. ASSUME NEW t \in Threads, ForeignSuspend(t) PROVE Inv'
  <2>1. Shape'
    BY <1>21 DEF ForeignSuspend, Frames, NoFrame
  <2>2. Stages' /\ Books'
    BY <1>21 DEF ForeignSuspend
  <2>3. Traps'
    BY <1>21 DEF ForeignSuspend, Traps, Known, Unarmed, Idle, Command, Runs, NoFrame, Frames
  <2> QED
    BY <2>1, <2>2, <2>3
<1>22. ASSUME NEW t \in Threads, ForeignResume(t) PROVE Inv'
  <2>1. Shape'
    BY <1>22 DEF ForeignResume, Frames, NoFrame
  <2>2. Stages' /\ Books'
    BY <1>22 DEF ForeignResume
  <2>3. Traps'
    BY <1>22 DEF ForeignResume, Traps, Known, Unarmed, Idle, Command, Runs, NoFrame, Frames
  <2> QED
    BY <2>1, <2>2, <2>3
<1>23. CASE UNCHANGED vars
  BY <1>23 DEF vars, Traps, Known, Unarmed, Idle, Command
<1> QED
  BY <1>1, <1>2, <1>3, <1>4, <1>5, <1>6, <1>7, <1>8, <1>9, <1>10, <1>11, <1>12, <1>13, <1>14, <1>15, <1>16, <1>17, <1>18, <1>19, <1>20, <1>21, <1>22, <1>23 DEF Next, Operation, Shutdown, Game

\* Between two commands the handler knows the breakpoints that the debugger lists.
THEOREM RegistryMatchesAlways == Spec => []RegistryMatches
<1>1. Inv => RegistryMatches
  BY DEF RegistryMatches, Idle
<1>2. Inv /\ [Next]_vars => Inv'
  BY StepInv
<1> QED
  BY <1>1, <1>2, InitInv, PTL DEF Spec

\* Until it is shut down, every trap the debugger causes is consumed by its handler,
\* unless it wrote the context of a thread that was in the handler.
THEOREM TrapsHandledAlways == Spec => []TrapsHandled
<1>1. Inv => TrapsHandled
  BY DEF TrapsHandled, Traps
<1>2. Inv /\ [Next]_vars => Inv'
  BY StepInv
<1> QED
  BY <1>1, <1>2, InitInv, PTL DEF Spec

\* The suspensions of thread t that the command under way has to make good.
Borrowed(t) ==
  IF /\ op # Idle /\ op.thread = t
     /\ op.at = "rollback" \/ (op.at \in {"context", "letgo"} /\ op.temporary)
    THEN 1 ELSE 0

\* Whom every suspension belongs to.
Counts ==
  /\ suspended \in [Threads -> Nat] /\ foreign \subseteq Threads /\ stuck \subseteq Threads
  /\ \A t \in Threads :
       suspended[t] = Count(t, foreign) + Count(t, paused) + Count(t, stuck) + Borrowed(t)
  /\ op # Idle /\ op.at = "resume" => op.thread \in paused
  /\ op # Idle /\ op.at = "suspend" => ~op.temporary

\* What a shutdown in which no call failed has still to do.
Listed ==
  /\ mode = "removing" => op.kind \in {"none", "clear"}
  /\ mode = "resuming" => op.kind \in {"none", "resume"}
  /\ mode = "down" => op.kind = "none"
  /\ (mode # "up" /\ ~failed) =>
       /\ op.kind = "clear" /\ op.at = "letgo" => op.done
       /\ \A b \in breakpoints :
            \/ b[1] \in exited
            \/ mode = "removing" /\ (b \in todo \/ (op.kind = "clear" /\ b = Subject))
       /\ mode # "removing" =>
            \A t \in paused :
              \/ t \in exited
              \/ mode = "resuming" /\ (<<t, 0>> \in todo \/ (op.kind = "resume" /\ t = op.thread))
       /\ mode = "down" => ~handler

\* A thread has only registered breakpoints, as Known says, thread by thread.
Arms ==
  /\ \A t \in Threads \ crossed :
       /\ \A r \in context[t].armed : <<t, r>> \in registered
       /\ frame[t] # NoFrame => \A r \in frame[t].armed : <<t, r>> \in registered
  /\ (op.kind = "set" /\ ~op.done /\ op.thread \notin crossed) => Unarmed(op.thread, op.register)

Inv2 == Counts /\ Listed /\ Arms

LEMMA CountsStep == ASSUME Inv, Counts, [Next]_vars PROVE Counts'
<1> USE DebuggerAssumption DEF Counts, Borrowed, Count
<1>1. ASSUME BeginRead PROVE Counts'
  BY <1>1 DEF BeginRead, Command, Idle
<1>2. ASSUME BeginPause PROVE Counts'
  BY <1>2 DEF BeginPause, Command, Idle
<1>3. ASSUME BeginResume PROVE Counts'
  BY <1>3 DEF BeginResume, Command, Idle
<1>4. ASSUME BeginStep PROVE Counts'
  BY <1>4 DEF BeginStep, EnsureHandler, Command, Idle
<1>5. ASSUME BeginSet PROVE Counts'
  BY <1>5 DEF BeginSet, EnsureHandler, Command, Idle
<1>6. ASSUME BeginClear PROVE Counts'
  BY <1>6 DEF BeginClear, Command, Idle
<1>7. ASSUME OpenFails PROVE Counts'
  <2>1. op \in Ops /\ op # Idle
    BY <1>7 DEF OpenFails, Idle
  <2> QED
    BY <1>7, <2>1 DEF OpenFails, GiveUp, Fails, Idle, Ops
<1>8. ASSUME Suspend PROVE Counts'
  <2>1. op \in Ops /\ op # Idle
    BY <1>8 DEF Suspend, Idle
  <2>2. /\ op.at = "suspend" /\ ~op.temporary /\ op.thread \in Threads
        /\ UNCHANGED <<foreign, stuck>>
        /\ \A t \in Threads : Borrowed(t) = 0
    BY <1>8, <2>1 DEF Suspend, Ops
  <2>3. CASE op.thread \in paused
    <3>1. op' = [op EXCEPT !.at = "context"] /\ UNCHANGED <<suspended, paused>>
      BY <1>8, <2>3 DEF Suspend
    <3>2. op'.at = "context" /\ ~op'.temporary
      BY <2>1, <2>2, <3>1 DEF Ops
    <3> QED
      BY <2>2, <3>1, <3>2
  <2>4. CASE op.thread \notin paused /\ suspended[op.thread] = 0 /\ op.kind = "pause"
    <3>1. /\ op' = Idle /\ paused' = paused \cup {op.thread}
          /\ suspended' = [suspended EXCEPT ![op.thread] = @ + 1]
      BY <1>8, <2>4 DEF Suspend
    <3>2. \A t \in Threads : Borrowed(t)' = 0
      BY <3>1
    <3>3. \A t \in Threads :
            /\ suspended'[t] = suspended[t] + (IF t = op.thread THEN 1 ELSE 0)
            /\ Count(t, paused)' = Count(t, paused) + (IF t = op.thread THEN 1 ELSE 0)
      BY <2>2, <2>4, <3>1
    <3>4. \A t \in Threads : Count(t, foreign)' = Count(t, foreign) /\ Count(t, stuck)' = Count(t, stuck)
      BY <2>2
    <3>5. suspended' \in [Threads -> Nat]
      BY <2>2, <3>1
    <3> QED
      BY <2>2, <3>1, <3>2, <3>3, <3>4, <3>5
  <2>5. CASE op.thread \notin paused /\ (suspended[op.thread] > 0 \/ op.kind # "pause")
    <3>1. /\ \/ op' = [op EXCEPT !.at = "rollback"]
             \/ op' = [op EXCEPT !.at = "context", !.temporary = TRUE]
          /\ paused' = paused
          /\ suspended' = [suspended EXCEPT ![op.thread] = @ + 1]
      BY <1>8, <2>5 DEF Suspend
    <3>2. /\ op' # Idle /\ op'.thread = op.thread
          /\ op'.at = "rollback" \/ (op'.at = "context" /\ op'.temporary)
      BY <2>1, <3>1 DEF Ops, Idle
    <3>3. \A t \in Threads : Borrowed(t)' = IF t = op.thread THEN 1 ELSE 0
      BY <3>2
    <3> QED
      BY <2>2, <3>1, <3>2, <3>3
  <2>6. suspended[op.thread] = 0 \/ suspended[op.thread] > 0
    BY <2>2
  <2> QED
    BY <2>3, <2>4, <2>5, <2>6
<1>9. ASSUME Rollback PROVE Counts'
  <2>1. op \in Ops /\ op # Idle
    BY <1>9 DEF Rollback, Idle
  <2>2. /\ op.at = "rollback" /\ op.thread \in Threads /\ Release(op.thread)
        /\ op' = Idle /\ UNCHANGED <<foreign, paused>>
    BY <1>9, <2>1 DEF Rollback, GiveUp, Ops
  <2>3. \A t \in Threads : Borrowed(t) = (IF t = op.thread THEN 1 ELSE 0) /\ Borrowed(t)' = 0
    BY <2>1, <2>2
  <2> QED
    BY <2>2, <2>3 DEF Release, Idle
<1>10. ASSUME WriteContext PROVE Counts'
  <2>1. op \in Ops /\ op # Idle
    BY <1>10 DEF WriteContext, Idle
  <2>2. /\ op.at = "context" /\ op'.at = "letgo" /\ op' # Idle /\ op'.thread = op.thread
        /\ op'.temporary = op.temporary
        /\ UNCHANGED <<suspended, foreign, paused, stuck>>
    BY <1>10, <2>1 DEF WriteContext, Ops, Idle
  <2> QED
    BY <2>1, <2>2
<1>11. ASSUME ContextFails PROVE Counts'
  <2>1. op \in Ops /\ op # Idle
    BY <1>11 DEF ContextFails, Idle
  <2> QED
    BY <1>11, <2>1 DEF ContextFails, Fails, Idle, Ops
<1>12. ASSUME LetGo PROVE Counts'
  <2>1. op \in Ops /\ op # Idle
    BY <1>12 DEF LetGo, Idle
  <2> QED
    BY <1>12, <2>1 DEF LetGo, Release, Idle, Ops
<1>13. ASSUME Resume PROVE Counts'
  <2>1. op \in Ops /\ op # Idle
    BY <1>13 DEF Resume, Idle
  <2> QED
    BY <1>13, <2>1 DEF Resume, Idle, Ops
<1>14. ASSUME BeginShutdown PROVE Counts'
  BY <1>14 DEF BeginShutdown, Idle
<1>15. ASSUME ListPaused PROVE Counts'
  BY <1>15 DEF ListPaused, Idle
<1>16. ASSUME ReleaseHandler PROVE Counts'
  BY <1>16 DEF ReleaseHandler, Idle
<1>17. ASSUME NEW t \in Threads, Trap(t) PROVE Counts'
  BY <1>17 DEF Trap, Runs, NoFrame, Frames, Idle
<1>18. ASSUME NEW t \in Threads, Answer(t) PROVE Counts'
  BY <1>18 DEF Answer, Runs, NoFrame, Frames, Idle
<1>19. ASSUME NEW t \in Threads, TrapInHandler(t) PROVE Counts'
  BY <1>19 DEF TrapInHandler, Runs, NoFrame, Frames, Idle
<1>20. ASSUME NEW t \in Threads, Exit(t) PROVE Counts'
  BY <1>20 DEF Exit, Runs, NoFrame, Frames, Idle
<1>21. ASSUME NEW t \in Threads, ForeignSuspend(t) PROVE Counts'
  BY <1>21 DEF ForeignSuspend, Runs, NoFrame, Frames, Idle
<1>22. ASSUME NEW t \in Threads, ForeignResume(t) PROVE Counts'
  BY <1>22 DEF ForeignResume, Runs, NoFrame, Frames, Idle
<1>23. CASE UNCHANGED vars
  BY <1>23 DEF vars, Idle
<1> QED
  BY <1>1, <1>2, <1>3, <1>4, <1>5, <1>6, <1>7, <1>8, <1>9, <1>10, <1>11, <1>12, <1>13, <1>14, <1>15, <1>16, <1>17, <1>18, <1>19, <1>20, <1>21, <1>22, <1>23 DEF Next, Operation, Shutdown, Game

LEMMA ListedStep == ASSUME Inv, Counts, Listed, [Next]_vars PROVE Listed'
<1> USE DebuggerAssumption DEF Listed
<1>1. ASSUME BeginRead PROVE Listed'
  BY <1>1 DEF BeginRead, Command, Idle
<1>2. ASSUME BeginPause PROVE Listed'
  BY <1>2 DEF BeginPause, Command, Idle
<1>3. ASSUME BeginResume PROVE Listed'
  BY <1>3 DEF BeginResume, Command, Idle
<1>4. ASSUME BeginStep PROVE Listed'
  BY <1>4 DEF BeginStep, EnsureHandler, Command, Idle
<1>5. ASSUME BeginSet PROVE Listed'
  BY <1>5 DEF BeginSet, EnsureHandler, Command, Idle
<1>6. ASSUME BeginClear PROVE Listed'
  BY <1>6 DEF BeginClear, Command, Idle
<1>7. ASSUME OpenFails PROVE Listed'
  <2>1. op \in Ops /\ op # Idle
    BY <1>7 DEF OpenFails, Idle
  <2>2. /\ op' = Idle /\ UNCHANGED <<breakpoints, paused, exited, mode, todo, handler>>
        /\ failed' = (failed \/ (op.thread \notin exited /\ mode # "up"))
    BY <1>7 DEF OpenFails, GiveUp, Fails
  <2>3. \A b \in breakpoints : b = Subject => b[1] = op.thread
    BY <2>1
  <2> QED
    BY <2>1, <2>2, <2>3 DEF Idle
<1>8. ASSUME Suspend PROVE Listed'
  <2>1. op \in Ops /\ op # Idle
    BY <1>8 DEF Suspend, Idle
  <2>2. /\ op.at = "suspend" /\ UNCHANGED <<breakpoints, exited, mode, todo, failed, handler>>
        /\ op.kind # "pause" => paused' = paused /\ op' # Idle
        /\ op' # Idle => /\ op'.kind = op.kind /\ op'.thread = op.thread
                         /\ op'.register = op.register /\ op'.at # "letgo"
    BY <1>8, <2>1, ZenonT(40) DEF Suspend, Ops, Idle
  <2>3. CASE mode = "up"
    BY <2>2, <2>3
  <2>4. CASE mode # "up"
    <3>1. op.kind \in {"clear", "resume"}
      BY <2>1, <2>4 DEF Ops
    <3> QED
      BY <2>2, <2>4, <3>1 DEF Idle
  <2> QED
    BY <2>3, <2>4
<1>9. ASSUME Rollback PROVE Listed'
  <2>1. op \in Ops /\ op # Idle
    BY <1>9 DEF Rollback, Idle
  <2> QED
    BY <1>9, <2>1 DEF Rollback, GiveUp, Release, Fails, Idle, Ops
<1>10. ASSUME WriteContext PROVE Listed'
  <2>1. op \in Ops /\ op # Idle
    BY <1>10 DEF WriteContext, Idle
  <2> QED
    BY <1>10, <2>1 DEF WriteContext, Idle, Ops
<1>11. ASSUME ContextFails PROVE Listed'
  <2>1. op \in Ops /\ op # Idle
    BY <1>11 DEF ContextFails, Idle
  <2> QED
    BY <1>11, <2>1 DEF ContextFails, Fails, Idle, Ops
<1>12. ASSUME LetGo PROVE Listed'
  <2>1. op \in Ops /\ op # Idle
    BY <1>12 DEF LetGo, Idle
  <2> QED
    BY <1>12, <2>1 DEF LetGo, Release, Idle, Ops
<1>13. ASSUME Resume PROVE Listed'
  <2>1. op \in Ops /\ op # Idle
    BY <1>13 DEF Resume, Idle
  <2> QED
    BY <1>13, <2>1 DEF Resume, Idle, Ops
<1>14. ASSUME BeginShutdown PROVE Listed'
  BY <1>14 DEF BeginShutdown, Idle
<1>15. ASSUME ListPaused PROVE Listed'
  BY <1>15 DEF ListPaused, Idle
<1>16. ASSUME ReleaseHandler PROVE Listed'
  BY <1>16 DEF ReleaseHandler, Idle
<1>17. ASSUME NEW t \in Threads, Trap(t) PROVE Listed'
  BY <1>17 DEF Trap, Runs, NoFrame, Frames, Idle
<1>18. ASSUME NEW t \in Threads, Answer(t) PROVE Listed'
  BY <1>18 DEF Answer, Runs, NoFrame, Frames, Idle
<1>19. ASSUME NEW t \in Threads, TrapInHandler(t) PROVE Listed'
  BY <1>19 DEF TrapInHandler, Runs, NoFrame, Frames, Idle
<1>20. ASSUME NEW t \in Threads, Exit(t) PROVE Listed'
  BY <1>20 DEF Exit, Runs, NoFrame, Frames, Idle
<1>21. ASSUME NEW t \in Threads, ForeignSuspend(t) PROVE Listed'
  BY <1>21 DEF ForeignSuspend, Runs, NoFrame, Frames, Idle
<1>22. ASSUME NEW t \in Threads, ForeignResume(t) PROVE Listed'
  BY <1>22 DEF ForeignResume, Runs, NoFrame, Frames, Idle
<1>23. CASE UNCHANGED vars
  BY <1>23 DEF vars, Idle
<1> QED
  BY <1>1, <1>2, <1>3, <1>4, <1>5, <1>6, <1>7, <1>8, <1>9, <1>10, <1>11, <1>12, <1>13, <1>14, <1>15, <1>16, <1>17, <1>18, <1>19, <1>20, <1>21, <1>22, <1>23 DEF Next, Operation, Shutdown, Game

LEMMA ArmsStep == ASSUME Inv, Counts, Arms, [Next]_vars PROVE Arms'
<1> USE DebuggerAssumption DEF Arms, Unarmed
<1>1. ASSUME BeginRead PROVE Arms'
  BY <1>1 DEF BeginRead, Command, Idle
<1>2. ASSUME BeginPause PROVE Arms'
  BY <1>2 DEF BeginPause, Command, Idle
<1>3. ASSUME BeginResume PROVE Arms'
  BY <1>3 DEF BeginResume, Command, Idle
<1>4. ASSUME BeginStep PROVE Arms'
  BY <1>4 DEF BeginStep, EnsureHandler, Command, Idle
<1>5. ASSUME BeginSet PROVE Arms'
  <2>1. PICK t \in Threads, r \in Registers :
          /\ <<t, r>> \notin breakpoints
          /\ registered' = registered \cup {<<t, r>>}
          /\ op' = Command("set", t, r)
    BY <1>5 DEF BeginSet
  <2>2. UNCHANGED <<context, frame, crossed>> /\ registered = breakpoints
    BY <1>5 DEF BeginSet, Idle
  <2>3. op'.kind = "set" /\ op'.thread = t /\ op'.register = r
    BY <2>1 DEF Command
  <2>4. t \notin crossed => Unarmed(t, r)
    BY <2>1, <2>2
  <2> QED
    BY <2>1, <2>2, <2>3, <2>4
<1>6. ASSUME BeginClear PROVE Arms'
  BY <1>6 DEF BeginClear, Command, Idle
<1>7. ASSUME OpenFails PROVE Arms'
  <2>1. op \in Ops /\ op # Idle
    BY <1>7 DEF OpenFails, Idle
  <2> QED
    BY <1>7, <2>1 DEF OpenFails, GiveUp, Fails, Idle, Ops
<1>8. ASSUME Suspend PROVE Arms'
  <2>1. op \in Ops /\ op # Idle
    BY <1>8 DEF Suspend, Idle
  <2>2. /\ UNCHANGED <<context, frame, registered, crossed>>
        /\ op' = Idle \/ (op'.kind = op.kind /\ op'.thread = op.thread
                            /\ op'.register = op.register /\ op'.done = op.done)
    BY <1>8, <2>1, ZenonT(40) DEF Suspend, Ops
  <2> QED
    BY <2>2 DEF Idle
<1>9. ASSUME Rollback PROVE Arms'
  <2>1. op \in Ops /\ op # Idle
    BY <1>9 DEF Rollback, Idle
  <2> QED
    BY <1>9, <2>1 DEF Rollback, GiveUp, Release, Fails, Idle, Ops
<1>10. ASSUME WriteContext PROVE Arms'
  <2>1. op \in Ops /\ op # Idle
    BY <1>10 DEF WriteContext, Idle
  <2>2. /\ op.thread \in Threads /\ op'.done /\ frame' = frame
        /\ context'[op.thread] = Written(context[op.thread])
        /\ \A t \in Threads \ {op.thread} : context'[t] = context[t]
        /\ registered' = IF op.kind = "clear" THEN registered \ {Subject} ELSE registered
        /\ crossed \subseteq crossed'
        /\ op.thread \notin crossed' => op.kind = "read" \/ frame[op.thread] = NoFrame
    BY <1>10, <2>1 DEF WriteContext, Ops
  <2>3. \A t \in Threads \ {op.thread}, r \in Registers : <<t, r>> # Subject
    BY <2>1
  <2>4. ASSUME NEW t \in Threads \ crossed', t # op.thread
        PROVE  /\ \A r \in context'[t].armed : <<t, r>> \in registered'
               /\ frame'[t] # NoFrame => \A r \in frame'[t].armed : <<t, r>> \in registered'
    BY <2>2, <2>3, <2>4 DEF Frames
  <2>5. ASSUME op.thread \notin crossed', NEW r \in context'[op.thread].armed
        PROVE  <<op.thread, r>> \in registered'
    <3>1. r \in (IF op.kind = "set" THEN context[op.thread].armed \cup {op.register}
                 ELSE IF op.kind = "clear" THEN context[op.thread].armed \ {op.register}
                 ELSE context[op.thread].armed)
      BY <2>2, <2>5, WrittenParts
    <3>2. op.kind = "set" => Subject \in registered
      BY <2>1
    <3> QED
      BY <2>2, <2>5, <3>1, <3>2
  <2>6. op.thread \notin crossed' /\ frame'[op.thread] # NoFrame =>
          \A r \in frame'[op.thread].armed : <<op.thread, r>> \in registered'
    BY <2>2
  <2> QED
    BY <2>2, <2>4, <2>5, <2>6
<1>11. ASSUME ContextFails PROVE Arms'
  <2>1. op \in Ops /\ op # Idle
    BY <1>11 DEF ContextFails, Idle
  <2> QED
    BY <1>11, <2>1 DEF ContextFails, Fails, Idle, Ops
<1>12. ASSUME LetGo PROVE Arms'
  <2>1. op \in Ops /\ op # Idle
    BY <1>12 DEF LetGo, Idle
  <2> QED
    BY <1>12, <2>1 DEF LetGo, Release, Idle, Ops
<1>13. ASSUME Resume PROVE Arms'
  <2>1. op \in Ops /\ op # Idle
    BY <1>13 DEF Resume, Idle
  <2> QED
    BY <1>13, <2>1 DEF Resume, Idle, Ops
<1>14. ASSUME BeginShutdown PROVE Arms'
  BY <1>14 DEF BeginShutdown, Idle
<1>15. ASSUME ListPaused PROVE Arms'
  BY <1>15 DEF ListPaused, Idle
<1>16. ASSUME ReleaseHandler PROVE Arms'
  BY <1>16 DEF ReleaseHandler, Idle
<1>17. ASSUME NEW t \in Threads, Trap(t) PROVE Arms'
  BY <1>17 DEF Trap, Runs, NoFrame, Frames, Idle
<1>18. ASSUME NEW t \in Threads, Answer(t) PROVE Arms'
  BY <1>18 DEF Answer, Runs, NoFrame, Frames, Idle
<1>19. ASSUME NEW t \in Threads, TrapInHandler(t) PROVE Arms'
  BY <1>19 DEF TrapInHandler, Runs, NoFrame, Frames, Idle
<1>20. ASSUME NEW t \in Threads, Exit(t) PROVE Arms'
  BY <1>20 DEF Exit, Runs, NoFrame, Frames, Idle
<1>21. ASSUME NEW t \in Threads, ForeignSuspend(t) PROVE Arms'
  BY <1>21 DEF ForeignSuspend, Runs, NoFrame, Frames, Idle
<1>22. ASSUME NEW t \in Threads, ForeignResume(t) PROVE Arms'
  BY <1>22 DEF ForeignResume, Runs, NoFrame, Frames, Idle
<1>23. CASE UNCHANGED vars
  BY <1>23 DEF vars, Idle
<1> QED
  BY <1>1, <1>2, <1>3, <1>4, <1>5, <1>6, <1>7, <1>8, <1>9, <1>10, <1>11, <1>12, <1>13, <1>14, <1>15, <1>16, <1>17, <1>18, <1>19, <1>20, <1>21, <1>22, <1>23 DEF Next, Operation, Shutdown, Game

LEMMA Init2 == Init => Inv2
<1> SUFFICES ASSUME Init PROVE Inv2
  OBVIOUS
<1>1. Counts
  BY DEF Init, Idle, Counts, Borrowed, Count
<1>2. Listed
  BY DEF Init, Idle, Listed
<1>3. Arms
  BY DEF Init, Idle, Arms, NoFrame
<1> QED
  BY <1>1, <1>2, <1>3 DEF Inv2

\* Between two commands a thread is suspended by the debugger exactly if the debugger says
\* so, and a shutdown in which no call failed leaves nothing of it (debugger.rs, shutdown).
THEOREM SuspensionsOwnedAlways == Spec => []SuspensionsOwned
<1>1. Inv /\ [Next]_vars => Inv'
  BY StepInv
<1>2. Inv /\ Inv2 /\ [Next]_vars => Inv2'
  BY CountsStep, ListedStep, ArmsStep DEF Inv2
<1>3. Inv /\ Inv2 => SuspensionsOwned
  <2> SUFFICES ASSUME Inv, Inv2 PROVE SuspensionsOwned
    OBVIOUS
  <2>1. op = Idle => \A t \in Threads \ stuck : suspended[t] = Count(t, foreign) + Count(t, paused)
    BY DEF Inv2, Counts, Borrowed, Count
  <2>2. ASSUME mode = "down", ~failed
        PROVE  /\ ~handler /\ op = Idle
               /\ \A t \in paused : t \in exited
               /\ \A b \in registered : b[1] \in exited
    BY <2>2 DEF Inv2, Listed, Ops, Idle
  <2>3. ASSUME mode = "down", ~failed, NEW t \in Threads \ exited, t \notin crossed
        PROVE  context[t].armed = {}
    <3>1. \A r \in context[t].armed : <<t, r>> \in registered
      BY <2>3 DEF Inv2, Arms
    <3>2. \A r : <<t, r>>[1] = t
      OBVIOUS
    <3>3. \A r : <<t, r>> \notin registered
      BY <2>2, <2>3, <3>2
    <3> QED
      BY <3>1, <3>3
  <2>4. ASSUME mode = "down", ~failed, NEW t \in Threads \ (exited \cup stuck)
        PROVE  suspended[t] = Count(t, foreign)
    BY <2>1, <2>2, <2>4 DEF Count
  <2> QED
    BY <2>1, <2>2, <2>3, <2>4 DEF SuspensionsOwned
<1> QED
  BY <1>1, <1>2, <1>3, InitInv, Init2, PTL DEF Spec

-----------------------------------------------------------------------------
(* The event feed *)

Slots == 1 .. Capacity

Events == [sequence : Nat, what : Nat, where : Nat]

Rings == [Slots -> [sequence : Nat, where : Nat, what : Nat]]

Pushes == [GameThreads -> [at : {"out", "where", "what", "publish"}, sequence : Nat]]

Polls == [at : {"none", "begin", "look", "what", "where", "latest", "answered"},
          sequence : Nat, until : Nat, latest : Nat, what : Nat,
          taken : Seq(Events), owed : SUBSET Nat]

FeedShape ==
  /\ next \in Nat
  /\ slots \in Rings
  /\ push \in Pushes
  /\ poll \in Polls
  /\ status \in Seq(Nat)
  /\ cursor \in Nat
  /\ shown \in Seq(Events)
  /\ overlapped \in BOOLEAN

Ascending(events) ==
  \A i, j \in DOMAIN events : i < j => events[i].sequence < events[j].sequence

\* The poll only takes numbers the window has not seen, in their order.
FeedOrder ==
  /\ Ascending(shown) /\ Ascending(poll.taken)
  /\ \A i \in DOMAIN shown : shown[i].sequence <= cursor
  /\ poll.at = "none" => poll = NoPoll
  /\ poll.at = "begin" => poll.taken = <<>> /\ poll.owed = {}
  /\ poll.at # "none" =>
       /\ poll.sequence > 0
       /\ \A i \in DOMAIN shown : shown[i].sequence < poll.sequence
       /\ \A j \in DOMAIN poll.taken :
            /\ poll.taken[j].sequence < poll.sequence
            /\ poll.taken[j].sequence <= poll.until
            /\ \A i \in DOMAIN shown : shown[i].sequence < poll.taken[j].sequence
  /\ poll.until <= next
  /\ poll.at \in {"what", "where"} => poll.sequence <= poll.until
  /\ poll.at = "answered" => poll.until <= poll.latest

Lost(s) == s + Capacity <= next

Pushing(t, i) == push[t].at # "out" /\ SlotOf(push[t].sequence) = i

Rest(i) == slots[i].where = slots[i].sequence /\ slots[i].what = slots[i].sequence

\* A push is alone in its slot, and the slot holds an older event until it ends.
Alone(t, i, s) ==
  /\ s \in 1 .. next
  /\ slots[i].sequence < s
  /\ push[t].at = "where" => Rest(i)
  /\ push[t].at = "what" => slots[i].where = s /\ slots[i].what = slots[i].sequence
  /\ push[t].at = "publish" => slots[i].where = s /\ slots[i].what = s
  /\ \A u \in GameThreads \ {t} : ~Pushing(u, i)

FeedSlots ==
  /\ \A t \in GameThreads :
       push[t].at # "out" => Alone(t, SlotOf(push[t].sequence), push[t].sequence)
  /\ \A i \in Slots :
       /\ slots[i].sequence <= next
       /\ slots[i].sequence # 0 => SlotOf(slots[i].sequence) = i
       /\ (\A t \in GameThreads : ~Pushing(t, i)) => Rest(i)

Holds(s) == slots[SlotOf(s)].sequence = s

Whole(e) == (e.where = e.sequence /\ e.what = e.sequence) \/ Lost(e.sequence)

FeedRead ==
  /\ \A i \in DOMAIN shown : Whole(shown[i])
  /\ \A i \in DOMAIN poll.taken : Whole(poll.taken[i])
  /\ poll.at \in {"what", "where"} => Holds(poll.sequence) \/ Lost(poll.sequence)
  /\ poll.at = "where" => poll.what = poll.sequence \/ Lost(poll.sequence)

Found(s) == \E i \in DOMAIN poll.taken : poll.taken[i].sequence = s

FeedOwed ==
  \A s \in poll.owed :
     \/ Lost(s)
     \/ Found(s)
     \/ /\ s >= poll.sequence /\ s <= poll.until /\ Holds(s)
        /\ poll.at \in {"look", "what", "where"} \/ Len(poll.taken) >= Limit

FeedInv ==
  /\ FeedShape /\ FeedOrder
  /\ ~overlapped => FeedSlots /\ FeedRead /\ FeedOwed

-----------------------------------------------------------------------------
USE DEF Rings, Pushes, Polls

LEMMA DivMod ==
  ASSUME NEW n \in Int, NEW w \in Nat \ {0}
  PROVE  \E q \in Int, r \in 0 .. w - 1 : n \div w = q /\ n % w = r /\ n = w * q + r
<1>1. n \div w \in Int /\ n % w \in 0 .. w - 1
  OBVIOUS
<1>2. PICK q \in Int, r \in 0 .. w - 1 : n \div w = q /\ n % w = r
  BY <1>1
<1>3. n = w * q + r
  BY <1>2, SMTT(30)
<1>. QED
  BY <1>2, <1>3, Zenon

\* Every number has a slot.
LEMMA SlotTurns ==
  ASSUME NEW s \in Nat
  PROVE  \E k \in Int, m \in 0 .. Capacity - 1 : SlotOf(s) = m + 1 /\ s - 1 = Capacity * k + m
<1>1. PICK x \in Int : x = s - 1
  OBVIOUS
<1>2. PICK k \in Int, m \in 0 .. Capacity - 1 : x % Capacity = m /\ x = Capacity * k + m
  BY DivMod, FeedAssumption
<1>3. SlotOf(s) = m + 1
  BY <1>1, <1>2 DEF SlotOf
<1>. QED
  BY <1>1, <1>2, <1>3

LEMMA SlotRange ==
  ASSUME NEW s \in Nat
  PROVE  SlotOf(s) \in Slots
<1>1. PICK k \in Int, m \in 0 .. Capacity - 1 : SlotOf(s) = m + 1
  BY SlotTurns
<1>. QED
  BY <1>1, FeedAssumption DEF Slots

\* Two numbers of one slot are a turn of the ring apart.
LEMMA SlotTurn ==
  ASSUME NEW s \in Nat, NEW q \in Nat, s < q, SlotOf(s) = SlotOf(q)
  PROVE  s + Capacity <= q
<1>1. PICK j \in Int, m \in 0 .. Capacity - 1 : SlotOf(s) = m + 1 /\ s - 1 = Capacity * j + m
  BY SlotTurns
<1>2. PICK k \in Int, n \in 0 .. Capacity - 1 : SlotOf(q) = n + 1 /\ q - 1 = Capacity * k + n
  BY SlotTurns
<1>3. m = n
  <2>1. m + 1 = n + 1
    BY <1>1, <1>2, Zenon
  <2>2. m \in Int /\ n \in Int
    BY FeedAssumption
  <2>. QED
    BY <2>1, <2>2
<1>4. Capacity * k - Capacity * j = q - s /\ Capacity * k \in Int /\ Capacity * j \in Int
  BY <1>1, <1>2, <1>3, FeedAssumption
<1>5. Capacity * (k - j) = q - s
  <2>1. Capacity * (k - j) = Capacity * k - Capacity * j
    BY <1>1, <1>2, FeedAssumption
  <2>. QED
    BY <1>4, <2>1
<1>6. k - j >= 1
  <2>1. SUFFICES ASSUME k - j <= 0 PROVE FALSE
    BY <1>1, <1>2
  <2>2. PICK d \in Nat : k - j = -d
    <3>1. j - k \in Nat /\ k - j = -(j - k)
      BY <1>1, <1>2, <2>1
    <3>. QED
      BY <3>1
  <2>3. Capacity * (-d) = -(Capacity * d) /\ Capacity * d \in Nat
    BY <2>2, FeedAssumption
  <2>. QED
    BY <1>5, <2>2, <2>3
<1>7. PICK d \in Nat : k - j = d + 1
  <2>1. k - j - 1 \in Nat /\ k - j = (k - j - 1) + 1
    BY <1>1, <1>2, <1>6
  <2>. QED
    BY <2>1
<1>8. Capacity * (d + 1) = Capacity * d + Capacity /\ Capacity * d \in Nat
  BY <1>7, FeedAssumption
<1>. QED
  BY <1>5, <1>7, <1>8, FeedAssumption

\* What is put behind a sequence in order keeps it in order.
LEMMA Joined ==
  ASSUME NEW a \in Seq(Events), NEW b \in Seq(Events)
  PROVE  /\ a \o b \in Seq(Events)
         /\ DOMAIN (a \o b) = 1 .. Len(a) + Len(b)
         /\ \A i \in DOMAIN (a \o b) :
              \/ i \in DOMAIN a /\ (a \o b)[i] = a[i]
              \/ i > Len(a) /\ i - Len(a) \in DOMAIN b /\ (a \o b)[i] = b[i - Len(a)]
  OBVIOUS

LEMMA Longer ==
  ASSUME NEW a \in Seq(Events), NEW e \in Events
  PROVE  /\ Append(a, e) \in Seq(Events)
         /\ DOMAIN Append(a, e) = 1 .. Len(a) + 1 /\ DOMAIN a = 1 .. Len(a)
         /\ Len(Append(a, e)) = Len(a) + 1
         /\ \A i \in DOMAIN a : Append(a, e)[i] = a[i]
         /\ Append(a, e)[Len(a) + 1] = e
  OBVIOUS

\* The numbers in an answer.
LEMMA Numbered ==
  ASSUME FeedShape
  PROVE  /\ \A i \in DOMAIN shown : shown[i] \in Events /\ shown[i].sequence \in Nat
         /\ \A i \in DOMAIN poll.taken : poll.taken[i] \in Events /\ poll.taken[i].sequence \in Nat
         /\ poll.sequence \in Nat
<1>1. shown \in Seq(Events) /\ poll.taken \in Seq(Events) /\ poll.sequence \in Nat
  BY DEF FeedShape
<1>2. \A e \in Events : e.sequence \in Nat
  BY DEF Events
<1>3. ASSUME NEW a \in Seq(Events), NEW i \in DOMAIN a
      PROVE  a[i] \in Events
  OBVIOUS
<1>. QED
  BY <1>1, <1>2, <1>3

LEMMA LargerOf ==
  ASSUME NEW a \in Nat, NEW b \in Nat
  PROVE  Larger(a, b) \in Nat /\ Larger(a, b) >= a /\ Larger(a, b) >= b
         /\ (Larger(a, b) = a \/ Larger(a, b) = b)
  BY DEF Larger

-----------------------------------------------------------------------------
LEMMA FeedInitial == FeedInit => FeedInv
<1>. SUFFICES ASSUME FeedInit PROVE FeedInv
  OBVIOUS
<1>. USE DEF FeedInit, NoPoll, NoPush
<1>1. FeedShape
  <2>1. slots \in Rings
    BY DEF Slots
  <2>2. push \in Pushes
    OBVIOUS
  <2>3. poll \in Polls
    OBVIOUS
  <2>4. shown \in Seq(Events) /\ status \in Seq(Nat)
    OBVIOUS
  <2>. QED
    BY <2>1, <2>2, <2>3, <2>4 DEF FeedShape
<1>2. FeedOrder
  BY DEF FeedOrder, Ascending
<1>3. FeedSlots
  BY FeedAssumption DEF FeedSlots, Slots, Rest
<1>4. FeedRead /\ FeedOwed
  BY DEF FeedRead, FeedOwed
<1>. QED
  BY <1>1, <1>2, <1>3, <1>4 DEF FeedInv

\* The slot a poll has found its number in keeps it until the number is lost.
LEMMA AloneFrom ==
  ASSUME FeedShape, FeedSlots, NEW t \in GameThreads, push[t].at # "out",
         NEW s \in Nat \ {0}, Holds(s), SlotOf(push[t].sequence) = SlotOf(s)
  PROVE  Lost(s)
<1>1. Alone(t, SlotOf(push[t].sequence), push[t].sequence)
  BY DEF FeedSlots
<1>2. push[t].sequence \in 1 .. next /\ s < push[t].sequence
  BY <1>1 DEF Alone, Holds
<1>3. s + Capacity <= push[t].sequence
  BY <1>2, SlotTurn DEF FeedShape
<1>. QED
  BY <1>2, <1>3, FeedAssumption DEF Lost, FeedShape

\* A slot that holds a number no push is after is whole.
LEMMA HeldWhole ==
  ASSUME FeedShape, FeedSlots, NEW s \in Nat \ {0}, Holds(s)
  PROVE  Rest(SlotOf(s)) \/ Lost(s)
<1>1. CASE \E t \in GameThreads : Pushing(t, SlotOf(s))
  BY <1>1, AloneFrom DEF Pushing
<1>2. CASE \A t \in GameThreads : ~Pushing(t, SlotOf(s))
  BY <1>2, SlotRange DEF FeedSlots
<1>. QED
  BY <1>1, <1>2

-----------------------------------------------------------------------------
LEMMA ClaimFeed ==
  ASSUME FeedInv, NEW t \in GameThreads, Claim(t)
  PROVE  FeedInv'
<1>. USE FeedAssumption
<1>1. /\ FeedShape /\ FeedOrder /\ push[t].at = "out"
      /\ next' = next + 1 /\ next \in Nat
      /\ push' = [push EXCEPT ![t] = [at |-> "where", sequence |-> next + 1]]
      /\ UNCHANGED <<slots, poll, status, cursor, shown>>
  BY DEF FeedInv, Claim, FeedShape
<1>2. FeedShape'
  BY <1>1 DEF FeedShape, Claim
<1>3. FeedOrder'
  BY <1>1 DEF FeedOrder, FeedShape
<1>4. ASSUME ~overlapped'
      PROVE  (FeedSlots /\ FeedRead /\ FeedOwed)'
  <2>. DEFINE i == SlotOf(next + 1)
  <2>1. /\ ~overlapped /\ FeedSlots /\ FeedRead /\ FeedOwed
        /\ \A u \in GameThreads : ~Pushing(u, i)
    BY <1>4 DEF FeedInv, Claim, Pushing
  <2>2. /\ i \in Slots /\ push'[t] = [at |-> "where", sequence |-> next + 1]
        /\ \A u \in GameThreads \ {t} : push'[u] = push[u]
    BY <1>1, SlotRange DEF FeedShape
  <2>. HIDE DEF i
  <2>3. \A s \in Nat : Lost(s) => Lost(s)'
    BY <1>1 DEF Lost
  <2>4. FeedSlots'
    <3>1. Rest(i) /\ slots[i].sequence \in 0 .. next
      BY <2>1, <2>2 DEF FeedSlots, FeedShape, FeedInv
    <3>2. ASSUME NEW u \in GameThreads, push'[u].at # "out"
          PROVE  Alone(u, SlotOf(push[u].sequence), push[u].sequence)'
      <4>1. CASE u = t
        <5>1. push'[u].sequence = next + 1 /\ push'[u].at = "where" /\ SlotOf(next + 1) = i
          BY <4>1, <2>2 DEF i
        <5>. QED
          BY <5>1, <4>1, <1>1, <2>1, <2>2, <3>1 DEF Alone, Pushing, Rest
      <4>2. CASE u # t
        <5>1. push'[u] = push[u] /\ Alone(u, SlotOf(push[u].sequence), push[u].sequence)
          BY <4>2, <3>2, <2>1, <2>2 DEF FeedSlots
        <5>2. push'[t].sequence = next + 1 /\ SlotOf(next + 1) = i
          BY <2>2 DEF i
        <5>3. SlotOf(push[u].sequence) # i
          BY <5>1, <3>2, <2>1 DEF Pushing
        <5>. QED
          BY <5>1, <5>2, <5>3, <1>1, <2>2 DEF Alone, Pushing, Rest
      <4>. QED
        BY <4>1, <4>2
    <3>3. ASSUME NEW j \in Slots, \A u \in GameThreads : ~Pushing(u, j)'
          PROVE  Rest(j)'
      <4>1. j # i
        BY <2>2, <3>3 DEF Pushing, i
      <4>2. \A u \in GameThreads : ~Pushing(u, j)
        BY <1>1, <2>2, <3>3 DEF Pushing
      <4>. QED
        BY <4>2, <2>1, <1>1 DEF FeedSlots, Rest
    <3>4. ASSUME NEW j \in Slots
          PROVE  /\ slots'[j].sequence <= next'
                 /\ slots'[j].sequence # 0 => SlotOf(slots'[j].sequence) = j
      BY <1>1, <2>1 DEF FeedSlots, FeedShape
    <3>. QED
      BY <3>2, <3>3, <3>4 DEF FeedSlots
  <2>5. FeedRead'
    <3>1. /\ \A k \in DOMAIN shown : shown[k].sequence \in Nat
          /\ \A k \in DOMAIN poll.taken : poll.taken[k].sequence \in Nat
          /\ poll.sequence \in Nat
      BY <1>1, Numbered
    <3>. QED
      BY <1>1, <2>1, <2>3, <3>1 DEF FeedRead, Whole, Holds
  <2>6. FeedOwed'
    BY <1>1, <2>1, <2>3 DEF FeedOwed, FeedShape, Found, Holds
  <2>. QED
    BY <2>4, <2>5, <2>6
<1>. QED
  BY <1>2, <1>3, <1>4 DEF FeedInv

\* A push's slot is its own, so what it writes there disturbs no other.
LEMMA OwnSlot ==
  ASSUME FeedShape, FeedSlots, NEW t \in GameThreads, push[t].at # "out",
         NEW s \in Nat, NEW i \in Slots, s = push[t].sequence, i = SlotOf(s),
         slots' \in Rings,
         push' \in Pushes,
         \A j \in Slots : j # i => slots'[j] = slots[j],
         \A u \in GameThreads \ {t} : push'[u] = push[u],
         push'[t].at # "out" => push'[t].sequence = s /\ Alone(t, i, s)',
         push'[t].at = "out" => Rest(i)',
         slots'[i].sequence \in {slots[i].sequence, s},
         next' = next
  PROVE  FeedSlots'
<1>2. Alone(t, i, s)
  BY DEF FeedSlots
<1>3. ASSUME NEW u \in GameThreads, push'[u].at # "out"
      PROVE  Alone(u, SlotOf(push[u].sequence), push[u].sequence)'
  <2>1. CASE u = t
    BY <2>1, <1>3
  <2>2. CASE u # t
    <3>. DEFINE r == push[u].sequence
                j == SlotOf(r)
    <3>1. push'[u] = push[u] /\ Alone(u, j, r) /\ r \in Nat
      BY <1>3, <2>2 DEF FeedSlots, FeedShape
    <3>2. j # i
      BY <1>2, <1>3, <2>2, <3>1 DEF Alone, Pushing
    <3>3. slots'[j] = slots[j]
      BY <3>1, <3>2, SlotRange
    <3>4. \A v \in GameThreads \ {u} : ~Pushing(v, j)'
      <4>1. ASSUME NEW v \in GameThreads \ {u}
            PROVE  ~Pushing(v, j)'
        <5>1. ~Pushing(v, j)
          BY <3>1 DEF Alone
        <5>2. CASE v = t
          BY <5>2, <3>1, <3>2 DEF Pushing
        <5>3. CASE v # t
          BY <5>1, <5>3, <3>1 DEF Pushing
        <5>. QED
          BY <5>2, <5>3
      <4>. QED
        BY <4>1
    <3>. QED
      BY <3>1, <3>3, <3>4 DEF Alone, Rest
  <2>. QED
    BY <2>1, <2>2
<1>4. ASSUME NEW j \in Slots
      PROVE  /\ slots'[j].sequence <= next'
             /\ slots'[j].sequence # 0 => SlotOf(slots'[j].sequence) = j
  <2>1. slots[j].sequence <= next /\ (slots[j].sequence # 0 => SlotOf(slots[j].sequence) = j)
    BY DEF FeedSlots
  <2>2. s <= next
    BY <1>2 DEF Alone, FeedShape
  <2>3. slots'[j].sequence = slots[j].sequence \/ (j = i /\ slots'[j].sequence = s)
    OBVIOUS
  <2>. QED
    BY <2>1, <2>2, <2>3
<1>5. ASSUME NEW j \in Slots, \A u \in GameThreads : ~Pushing(u, j)'
      PROVE  Rest(j)'
  <2>1. CASE j = i
    <3>1. push'[t].at = "out"
      BY <2>1, <1>5 DEF Pushing
    <3>. QED
      BY <3>1, <2>1
  <2>2. CASE j # i
    <3>1. \A u \in GameThreads : ~Pushing(u, j)
      BY <2>2, <1>5 DEF Pushing
    <3>. QED
      BY <2>2, <3>1 DEF FeedSlots, Rest
  <2>. QED
    BY <2>1, <2>2
<1>. QED
  BY <1>3, <1>4, <1>5 DEF FeedSlots

LEMMA StoreFeed ==
  ASSUME FeedInv, NEW t \in GameThreads, Store(t)
  PROVE  FeedInv'
<1>. USE FeedAssumption
<1>. PICK s \in Nat, i \in Slots : s = push[t].sequence /\ i = SlotOf(s)
  <2>1. push[t].sequence \in Nat
    BY DEF FeedInv, FeedShape
  <2>. QED
    BY <2>1, SlotRange
<1>1. /\ FeedShape /\ FeedOrder
      /\ push[t].at \in {"where", "what"}
      /\ UNCHANGED <<next, poll, status, cursor, shown, overlapped>>
  BY DEF FeedInv, Store, FeedShape
<1>2. \/ /\ push[t].at = "where"
         /\ slots' = [slots EXCEPT ![i].where = s]
         /\ push' = [push EXCEPT ![t].at = "what"]
      \/ /\ push[t].at = "what"
         /\ slots' = [slots EXCEPT ![i].what = s]
         /\ push' = [push EXCEPT ![t].at = "publish"]
  BY DEF Store
<1>3. /\ slots' \in Rings
      /\ push' \in Pushes
      /\ \A j \in Slots : slots'[j].sequence = slots[j].sequence
      /\ \A j \in Slots : j # i => slots'[j] = slots[j]
      /\ \A u \in GameThreads \ {t} : push'[u] = push[u]
      /\ push'[t].sequence = s
  <2>1. slots \in Rings
    BY <1>1 DEF FeedShape
  <2>2. push \in Pushes
    BY <1>1 DEF FeedShape
  <2>3. CASE push[t].at = "where"
    <3>1. slots' = [slots EXCEPT ![i].where = s]
      BY <2>3, <1>2
    <3>2. push' = [push EXCEPT ![t].at = "what"]
      BY <2>3, <1>2
    <3>3. /\ slots' \in Rings
          /\ \A j \in Slots : slots'[j].sequence = slots[j].sequence
          /\ \A j \in Slots : j # i => slots'[j] = slots[j]
      BY <3>1, <2>1
    <3>4. /\ push' \in Pushes
          /\ \A u \in GameThreads \ {t} : push'[u] = push[u]
          /\ push'[t].sequence = s
      BY <3>2, <2>2
    <3>. QED
      BY <3>3, <3>4
  <2>4. CASE push[t].at = "what"
    <3>1. slots' = [slots EXCEPT ![i].what = s]
      BY <2>4, <1>2
    <3>2. push' = [push EXCEPT ![t].at = "publish"]
      BY <2>4, <1>2
    <3>3. /\ slots' \in Rings
          /\ \A j \in Slots : slots'[j].sequence = slots[j].sequence
          /\ \A j \in Slots : j # i => slots'[j] = slots[j]
      BY <3>1, <2>1
    <3>4. /\ push' \in Pushes
          /\ \A u \in GameThreads \ {t} : push'[u] = push[u]
          /\ push'[t].sequence = s
      BY <3>2, <2>2
    <3>. QED
      BY <3>3, <3>4
  <2>. QED
    BY <1>1, <2>3, <2>4
<1>4. FeedShape'
  BY <1>1, <1>3 DEF FeedShape
<1>5. FeedOrder'
  BY <1>1 DEF FeedOrder
<1>6. ASSUME ~overlapped'
      PROVE  (FeedSlots /\ FeedRead /\ FeedOwed)'
  <2>1. FeedSlots /\ FeedRead /\ FeedOwed
    BY <1>1, <1>6 DEF FeedInv
  <2>2. Alone(t, i, s)
    BY <1>1, <2>1 DEF FeedSlots
  <2>3. Alone(t, i, s)' /\ push'[t].at # "out"
    <3>1. slots \in Rings
      BY <1>1 DEF FeedShape
    <3>2. push \in Pushes
      BY <1>1 DEF FeedShape
    <3>3. \A u \in GameThreads \ {t} : ~Pushing(u, i)'
      <4>1. ASSUME NEW u \in GameThreads \ {t}
            PROVE  ~Pushing(u, i)'
        BY <1>3, <2>2 DEF Alone, Pushing
      <4>. QED
        BY <4>1
    <3>4. CASE push[t].at = "where"
      <4>1. push'[t].at = "what" /\ slots'[i].where = s /\ slots'[i].what = slots[i].what
        BY <3>4, <1>1, <1>2, <3>1, <3>2
      <4>. QED
        BY <4>1, <3>3, <3>4, <1>1, <1>3, <2>2 DEF Alone, Rest
    <3>5. CASE push[t].at = "what"
      <4>1. push'[t].at = "publish" /\ slots'[i].what = s /\ slots'[i].where = slots[i].where
        BY <3>5, <1>1, <1>2, <3>1, <3>2
      <4>. QED
        BY <4>1, <3>3, <3>5, <1>1, <1>3, <2>2 DEF Alone, Rest
    <3>. QED
      BY <3>4, <3>5, <1>1
  <2>4. FeedSlots'
    BY <1>1, <1>3, <2>1, <2>3, OwnSlot
  <2>5. \A n \in Nat : (Holds(n) <=> Holds(n)') /\ (Lost(n) <=> Lost(n)')
    BY <1>1, <1>3, SlotRange DEF Holds, Lost
  <2>6. FeedRead'
    BY <1>1, <2>1, <2>5, Numbered DEF FeedRead, Whole
  <2>7. FeedOwed'
    BY <1>1, <2>1, <2>5 DEF FeedOwed, FeedShape, Found
  <2>. QED
    BY <2>4, <2>6, <2>7
<1>. QED
  BY <1>4, <1>5, <1>6 DEF FeedInv

LEMMA PublishFeed ==
  ASSUME FeedInv, NEW t \in GameThreads, Publish(t)
  PROVE  FeedInv'
<1>. USE FeedAssumption
<1>. PICK s \in Nat, i \in Slots : s = push[t].sequence /\ i = SlotOf(s)
  <2>1. push[t].sequence \in Nat
    BY DEF FeedInv, FeedShape
  <2>. QED
    BY <2>1, SlotRange
<1>1. /\ FeedShape /\ FeedOrder
      /\ push[t].at = "publish"
      /\ UNCHANGED <<next, poll, status, cursor, shown, overlapped>>
  BY DEF FeedInv, Publish, FeedShape
<1>2. /\ slots' = [slots EXCEPT ![i].sequence = s]
      /\ push' = [push EXCEPT ![t] = NoPush]
  BY DEF Publish
<1>3. /\ slots' \in Rings
      /\ push' \in Pushes
      /\ slots'[i].sequence = s
      /\ slots'[i].where = slots[i].where /\ slots'[i].what = slots[i].what
      /\ \A j \in Slots : j # i => slots'[j] = slots[j]
      /\ \A u \in GameThreads \ {t} : push'[u] = push[u]
      /\ push'[t].at = "out"
  <2>1. slots \in Rings
    BY <1>1 DEF FeedShape
  <2>2. push \in Pushes
    BY <1>1 DEF FeedShape
  <2>. QED
    BY <1>1, <1>2, <2>1, <2>2 DEF NoPush
<1>4. FeedShape'
  BY <1>1, <1>3 DEF FeedShape
<1>5. FeedOrder'
  BY <1>1 DEF FeedOrder
<1>6. ASSUME ~overlapped'
      PROVE  (FeedSlots /\ FeedRead /\ FeedOwed)'
  <2>1. FeedSlots /\ FeedRead /\ FeedOwed
    BY <1>1, <1>6 DEF FeedInv
  <2>2. Alone(t, i, s)
    BY <1>1, <2>1 DEF FeedSlots
  <2>3. Rest(i)'
    BY <1>1, <1>3, <2>2 DEF Alone, Rest
  <2>4. FeedSlots'
    BY <1>1, <1>3, <2>1, <2>3, OwnSlot
  <2>5. ASSUME NEW n \in Nat \ {0}, Holds(n)
        PROVE  Holds(n)' \/ Lost(n)'
    <3>1. CASE SlotOf(n) = i
      BY <3>1, <1>1, <2>1, <2>5, AloneFrom DEF Lost
    <3>2. CASE SlotOf(n) # i
      BY <3>2, <1>3, <2>5, SlotRange DEF Holds
    <3>. QED
      BY <3>1, <3>2
  <2>6. \A n \in Nat : Lost(n) => Lost(n)'
    BY <1>1 DEF Lost
  <2>7. FeedRead'
    <3>1. poll.at \in {"what", "where"} => poll.sequence \in Nat \ {0}
      BY <1>1, Numbered DEF FeedOrder
    <3>. QED
      BY <1>1, <2>1, <2>5, <2>6, <3>1, Numbered DEF FeedRead, Whole
  <2>8. FeedOwed'
    <3>1. ASSUME NEW n \in poll.owed
          PROVE  n \in Nat /\ (n >= poll.sequence => n \in Nat \ {0})
      BY <1>1, Numbered DEF FeedOrder, FeedShape, NoPoll
    <3>. QED
      BY <1>1, <2>1, <2>5, <2>6, <3>1 DEF FeedOwed, Found
  <2>. QED
    BY <2>4, <2>7, <2>8
<1>. QED
  BY <1>4, <1>5, <1>6 DEF FeedInv

-----------------------------------------------------------------------------
\* What the commands leave alone.
LEMMA RingKept ==
  ASSUME UNCHANGED <<next, slots, push>>
  PROVE  /\ FeedSlots => FeedSlots'
         /\ \A s : (Holds(s) <=> Holds(s)') /\ (Lost(s) <=> Lost(s)')
         /\ \A e : Whole(e) <=> Whole(e)'
<1>1. \A i : Rest(i) <=> Rest(i)'
  BY DEF Rest
<1>2. \A t, i : Pushing(t, i) <=> Pushing(t, i)'
  BY DEF Pushing
<1>3. \A t, i, s : Alone(t, i, s) <=> Alone(t, i, s)'
  BY <1>1, <1>2 DEF Alone
<1>4. FeedSlots => FeedSlots'
  BY <1>1, <1>2, <1>3 DEF FeedSlots
<1>. QED
  BY <1>4 DEF Holds, Lost, Whole

LEMMA IdleFeed ==
  ASSUME FeedInv, BeginPoll \/ PollFails
  PROVE  FeedInv'
<1>1. /\ FeedShape /\ FeedOrder
      /\ UNCHANGED <<next, slots, push, status, cursor, shown, overlapped>>
      /\ cursor \in Nat /\ next \in Nat
  BY DEF FeedInv, BeginPoll, PollFails, FeedShape
<1>2. /\ poll'.taken = <<>> /\ poll'.owed = {} /\ poll'.until = 0
      /\ \/ poll' = NoPoll
         \/ poll'.at = "begin" /\ poll'.sequence = cursor + 1
      /\ poll' \in Polls
  <2>1. NoPoll \in Polls
    BY DEF NoPoll
  <2>2. CASE BeginPoll
    <3>1. poll' = [NoPoll EXCEPT !.at = "begin", !.sequence = cursor + 1] /\ cursor + 1 \in Nat
      BY <1>1, <2>2 DEF BeginPoll
    <3>2. /\ poll'.at = "begin" /\ poll'.sequence = cursor + 1
          /\ poll'.taken = NoPoll.taken /\ poll'.owed = NoPoll.owed /\ poll'.until = NoPoll.until
      BY <3>1, <2>1
    <3>. QED
      BY <3>1, <3>2, <2>1 DEF NoPoll
  <2>3. CASE PollFails
    BY <2>1, <2>3 DEF PollFails, NoPoll
  <2>. QED
    BY <2>2, <2>3
<1>3. FeedShape'
  BY <1>1, <1>2 DEF FeedShape
<1>4. FeedOrder'
  BY <1>1, <1>2, Numbered DEF FeedOrder, Ascending, NoPoll
<1>5. ASSUME ~overlapped'
      PROVE  (FeedSlots /\ FeedRead /\ FeedOwed)'
  <2>1. FeedSlots /\ FeedRead
    BY <1>1, <1>5 DEF FeedInv
  <2>2. FeedRead'
    BY <1>1, <1>2, <2>1, RingKept DEF FeedRead, NoPoll
  <2>. QED
    BY <1>1, <1>2, <2>1, <2>2, RingKept DEF FeedOwed
<1>. QED
  BY <1>3, <1>4, <1>5 DEF FeedInv

LEMMA ReadLatestFeed ==
  ASSUME FeedInv, ReadLatest
  PROVE  FeedInv'
<1>. USE FeedAssumption
<1>1. /\ FeedShape /\ FeedOrder /\ poll.at = "begin"
      /\ UNCHANGED <<next, slots, push, status, cursor, shown, overlapped>>
      /\ next \in Nat
  BY DEF FeedInv, ReadLatest, FeedShape
<1>2. PICK first \in Nat, found \in SUBSET Nat :
        /\ first = Larger(poll.sequence, Oldest(next))
        /\ found = {s \in poll.sequence .. next : slots[SlotOf(s)].sequence = s}
        /\ poll' = [poll EXCEPT !.at = "look", !.until = next, !.sequence = first, !.owed = found]
  <2>1. Oldest(next) \in Nat
    BY <1>1 DEF Oldest
  <2>2. {s \in poll.sequence .. next : slots[SlotOf(s)].sequence = s} \in SUBSET Nat
    BY <1>1, Numbered
  <2>. QED
    BY <1>1, <2>1, <2>2, Numbered, LargerOf DEF ReadLatest
<1>3. /\ poll'.at = "look" /\ poll'.until = next /\ poll'.sequence = first
      /\ poll'.owed = found /\ poll'.taken = poll.taken /\ poll.taken = <<>>
      /\ poll' \in Polls
  BY <1>1, <1>2 DEF FeedShape, FeedOrder
<1>4. /\ first >= poll.sequence
      /\ \A s \in Nat : (s >= poll.sequence /\ s < first) => Lost(s)
  <2>1. Oldest(next) \in Nat
    BY <1>1 DEF Oldest
  <2>2. first >= poll.sequence /\ (first = poll.sequence \/ first = Oldest(next))
    BY <1>2, <2>1, Numbered, LargerOf, <1>1
  <2>3. ASSUME NEW s \in Nat, s >= poll.sequence, s < first
        PROVE  Lost(s)
    <3>1. s < Oldest(next) /\ s > 0
      BY <2>2, <2>3, <1>1, Numbered DEF FeedOrder
    <3>. QED
      BY <3>1, <1>1 DEF Oldest, Lost
  <2>. QED
    BY <2>2, <2>3
<1>5. FeedShape'
  BY <1>1, <1>3 DEF FeedShape
<1>6. FeedOrder'
  BY <1>1, <1>3, <1>4, Numbered DEF FeedOrder, Ascending
<1>7. ASSUME ~overlapped'
      PROVE  (FeedSlots /\ FeedRead /\ FeedOwed)'
  <2>1. FeedSlots /\ FeedRead
    BY <1>1, <1>7 DEF FeedInv
  <2>2. FeedRead'
    BY <1>1, <1>3, <2>1, RingKept DEF FeedRead
  <2>3. ASSUME NEW s \in found
        PROVE  Lost(s) \/ (s >= first /\ s <= next /\ Holds(s))
    <3>1. s \in poll.sequence .. next /\ Holds(s) /\ s \in Nat
      BY <1>2 DEF Holds
    <3>. QED
      BY <3>1, <1>4, <1>1, Numbered
  <2>4. FeedOwed'
    BY <1>1, <1>3, <2>3, RingKept DEF FeedOwed
  <2>. QED
    BY <1>1, <2>1, <2>2, <2>4, RingKept
<1>. QED
  BY <1>5, <1>6, <1>7 DEF FeedInv

LEMMA LookFeed ==
  ASSUME FeedInv, Look
  PROVE  FeedInv'
<1>. USE FeedAssumption
<1>1. /\ FeedShape /\ FeedOrder /\ poll.at = "look"
      /\ UNCHANGED <<next, slots, push, status, cursor, shown, overlapped>>
      /\ poll \in Polls
  BY DEF FeedInv, Look, FeedShape
<1>2. CASE poll.sequence > poll.until \/ Len(poll.taken) >= Limit
  <2>1. poll' = [poll EXCEPT !.at = "latest"]
    BY <1>2 DEF Look
  <2>2. FeedShape'
    BY <1>1, <2>1 DEF FeedShape
  <2>3. FeedOrder'
    BY <1>1, <2>1 DEF FeedOrder
  <2>4. ASSUME ~overlapped'
        PROVE  (FeedSlots /\ FeedRead /\ FeedOwed)'
    <3>1. FeedSlots /\ FeedRead /\ FeedOwed
      BY <1>1, <2>4 DEF FeedInv
    <3>2. FeedRead'
      BY <1>1, <2>1, <3>1, RingKept DEF FeedRead
    <3>3. FeedOwed'
      <4>1. \A s \in poll.owed : (s >= poll.sequence /\ s <= poll.until) => Len(poll.taken) >= Limit
        BY <1>1, <1>2
      <4>. QED
        BY <1>1, <2>1, <3>1, <4>1, RingKept DEF FeedOwed, Found
    <3>. QED
      BY <1>1, <3>1, <3>2, <3>3, RingKept
  <2>. QED
    BY <2>2, <2>3, <2>4 DEF FeedInv
<1>3. CASE /\ ~(poll.sequence > poll.until \/ Len(poll.taken) >= Limit)
           /\ slots[SlotOf(poll.sequence)].sequence = poll.sequence
  <2>1. poll' = [poll EXCEPT !.at = "what"]
    BY <1>3 DEF Look
  <2>2. FeedShape'
    BY <1>1, <2>1 DEF FeedShape
  <2>3. FeedOrder'
    BY <1>1, <1>3, <2>1 DEF FeedOrder
  <2>4. ASSUME ~overlapped'
        PROVE  (FeedSlots /\ FeedRead /\ FeedOwed)'
    <3>1. FeedSlots /\ FeedRead /\ FeedOwed
      BY <1>1, <2>4 DEF FeedInv
    <3>2. FeedRead'
      BY <1>1, <1>3, <2>1, <3>1, RingKept DEF FeedRead, Holds
    <3>3. FeedOwed'
      BY <1>1, <2>1, <3>1, RingKept DEF FeedOwed, Found
    <3>. QED
      BY <1>1, <3>1, <3>2, <3>3, RingKept
  <2>. QED
    BY <2>2, <2>3, <2>4 DEF FeedInv
<1>4. CASE /\ ~(poll.sequence > poll.until \/ Len(poll.taken) >= Limit)
           /\ slots[SlotOf(poll.sequence)].sequence # poll.sequence
  <2>1. poll' = [poll EXCEPT !.sequence = poll.sequence + 1] /\ poll.sequence + 1 \in Nat
    BY <1>1, <1>4, Numbered DEF Look
  <2>2. FeedShape'
    BY <1>1, <2>1 DEF FeedShape
  <2>3. FeedOrder'
    BY <1>1, <2>1, Numbered DEF FeedOrder
  <2>4. ASSUME ~overlapped'
        PROVE  (FeedSlots /\ FeedRead /\ FeedOwed)'
    <3>1. FeedSlots /\ FeedRead /\ FeedOwed
      BY <1>1, <2>4 DEF FeedInv
    <3>2. FeedRead'
      BY <1>1, <2>1, <3>1, RingKept DEF FeedRead
    <3>3. FeedOwed'
      <4>1. \A s \in poll.owed : (s >= poll.sequence /\ Holds(s)) => s >= poll.sequence + 1
        BY <1>1, <1>4 DEF Holds
      <4>. QED
        BY <1>1, <2>1, <3>1, <4>1, RingKept DEF FeedOwed, Found
    <3>. QED
      BY <1>1, <3>1, <3>2, <3>3, RingKept
  <2>. QED
    BY <2>2, <2>3, <2>4 DEF FeedInv
<1>. QED
  BY <1>2, <1>3, <1>4

LEMMA ReadWhatFeed ==
  ASSUME FeedInv, ReadWhat
  PROVE  FeedInv'
<1>. USE FeedAssumption
<1>1. /\ FeedShape /\ FeedOrder /\ poll.at = "what"
      /\ UNCHANGED <<next, slots, push, status, cursor, shown, overlapped>>
      /\ poll \in Polls
  BY DEF FeedInv, ReadWhat, FeedShape
<1>2. PICK n \in Nat : n = slots[SlotOf(poll.sequence)].what
  BY <1>1, Numbered, SlotRange DEF FeedShape
<1>3. poll' = [poll EXCEPT !.at = "where", !.what = n]
  BY <1>2 DEF ReadWhat
<1>4. FeedShape'
  BY <1>1, <1>3 DEF FeedShape
<1>5. FeedOrder'
  BY <1>1, <1>3 DEF FeedOrder
<1>6. ASSUME ~overlapped'
      PROVE  (FeedSlots /\ FeedRead /\ FeedOwed)'
  <2>1. FeedSlots /\ FeedRead /\ FeedOwed
    BY <1>1, <1>6 DEF FeedInv
  <2>2. n = poll.sequence \/ Lost(poll.sequence)
    <3>1. poll.sequence \in Nat \ {0} /\ (Holds(poll.sequence) \/ Lost(poll.sequence))
      BY <1>1, <2>1, Numbered DEF FeedRead, FeedOrder
    <3>. QED
      BY <1>1, <1>2, <2>1, <3>1, HeldWhole DEF Rest, Holds
  <2>3. FeedRead'
    BY <1>1, <1>3, <2>1, <2>2, RingKept DEF FeedRead
  <2>4. FeedOwed'
    BY <1>1, <1>3, <2>1, RingKept DEF FeedOwed, Found
  <2>. QED
    BY <1>1, <2>1, <2>3, <2>4, RingKept
<1>. QED
  BY <1>4, <1>5, <1>6 DEF FeedInv

LEMMA ReadWhereFeed ==
  ASSUME FeedInv, ReadWhere
  PROVE  FeedInv'
<1>. USE FeedAssumption
<1>1. /\ FeedShape /\ FeedOrder /\ poll.at = "where"
      /\ UNCHANGED <<next, slots, push, status, cursor, shown, overlapped>>
      /\ poll \in Polls
      /\ shown \in Seq(Events)
  BY DEF FeedInv, ReadWhere, FeedShape
<1>2. PICK n \in Nat : n = slots[SlotOf(poll.sequence)].where
  BY <1>1, Numbered, SlotRange DEF FeedShape
<1>3. PICK e \in Events : e = [sequence |-> poll.sequence, what |-> poll.what, where |-> n]
  BY <1>1 DEF Events
<1>4. PICK more \in Seq(Events) : more = Append(poll.taken, e)
  BY <1>1, Longer
<1>5. /\ DOMAIN more = 1 .. Len(poll.taken) + 1 /\ DOMAIN poll.taken = 1 .. Len(poll.taken)
      /\ Len(more) = Len(poll.taken) + 1 /\ Len(poll.taken) \in Nat
      /\ \A i \in DOMAIN poll.taken : more[i] = poll.taken[i]
      /\ more[Len(poll.taken) + 1] = e /\ e.sequence = poll.sequence
  BY <1>1, <1>3, <1>4, Longer
<1>6. /\ poll' = [poll EXCEPT !.at = "look", !.sequence = poll.sequence + 1, !.taken = more]
      /\ poll.sequence + 1 \in Nat
  BY <1>1, <1>2, <1>3, <1>4 DEF ReadWhere
<1>7. FeedShape'
  BY <1>1, <1>6 DEF FeedShape
<1>8. FeedOrder'
  <2>1. \A i \in DOMAIN more : i \in DOMAIN poll.taken \/ i = Len(poll.taken) + 1
    BY <1>5
  <2>2. Ascending(more)
    BY <1>1, <1>5, <2>1, Numbered, SMTT(30) DEF FeedOrder, Ascending
  <2>3. /\ \A i \in DOMAIN shown : shown[i].sequence < poll.sequence + 1
        /\ \A j \in DOMAIN more :
             /\ more[j].sequence < poll.sequence + 1
             /\ more[j].sequence <= poll.until
             /\ \A i \in DOMAIN shown : shown[i].sequence < more[j].sequence
    <3>1. \A i \in DOMAIN shown : shown[i].sequence < poll.sequence
      BY <1>1 DEF FeedOrder
    <3>2. ASSUME NEW j \in DOMAIN more
          PROVE  /\ more[j].sequence < poll.sequence + 1
                 /\ more[j].sequence <= poll.until
                 /\ \A i \in DOMAIN shown : shown[i].sequence < more[j].sequence
      <4>1. CASE j \in DOMAIN poll.taken
        BY <4>1, <1>1, <1>5, Numbered, SMTT(30) DEF FeedOrder
      <4>2. CASE j = Len(poll.taken) + 1
        BY <4>2, <3>1, <1>1, <1>5, Numbered DEF FeedOrder
      <4>. QED
        BY <2>1, <4>1, <4>2
    <3>. QED
      BY <3>1, <3>2, Numbered, <1>1
  <2>. QED
    BY <1>1, <1>6, <2>2, <2>3 DEF FeedOrder
<1>9. ASSUME ~overlapped'
      PROVE  (FeedSlots /\ FeedRead /\ FeedOwed)'
  <2>1. FeedSlots /\ FeedRead /\ FeedOwed
    BY <1>1, <1>9 DEF FeedInv
  <2>2. Whole(e)
    <3>1. poll.sequence \in Nat \ {0} /\ (Holds(poll.sequence) \/ Lost(poll.sequence))
      BY <1>1, <2>1, Numbered DEF FeedRead, FeedOrder
    <3>2. n = poll.sequence \/ Lost(poll.sequence)
      BY <1>1, <1>2, <2>1, <3>1, HeldWhole DEF Rest, Holds
    <3>3. poll.what = poll.sequence \/ Lost(poll.sequence)
      BY <1>1, <2>1 DEF FeedRead
    <3>. QED
      BY <1>3, <3>2, <3>3 DEF Whole
  <2>3. FeedRead'
    <3>1. \A i \in DOMAIN more : Whole(more[i])
      BY <1>5, <2>1, <2>2 DEF FeedRead
    <3>. QED
      BY <1>1, <1>6, <2>1, <3>1, RingKept DEF FeedRead
  <2>4. FeedOwed'
    <3>1. ASSUME NEW s \in poll.owed
          PROVE  \/ Lost(s)
                 \/ \E i \in DOMAIN more : more[i].sequence = s
                 \/ s >= poll.sequence + 1 /\ s <= poll.until /\ Holds(s)
      <4>1. s \in Nat
        BY <1>1
      <4>2. CASE s = poll.sequence
        BY <1>5, <4>2
      <4>3. CASE s # poll.sequence
        <5>1. Lost(s) \/ Found(s) \/ (s >= poll.sequence /\ s <= poll.until /\ Holds(s))
          BY <2>1 DEF FeedOwed
        <5>2. Found(s) => \E i \in DOMAIN more : more[i].sequence = s
          BY <1>5 DEF Found
        <5>. QED
          BY <4>1, <4>3, <5>1, <5>2, <1>1
      <4>. QED
        BY <4>2, <4>3
    <3>. QED
      BY <1>1, <1>6, <3>1, RingKept DEF FeedOwed, Found
  <2>. QED
    BY <1>1, <2>1, <2>3, <2>4, RingKept
<1>. QED
  BY <1>7, <1>8, <1>9 DEF FeedInv

LEMMA AnswerFeed ==
  ASSUME FeedInv, AnswerPoll
  PROVE  FeedInv'
<1>1. /\ FeedShape /\ FeedOrder /\ poll.at = "latest"
      /\ UNCHANGED <<next, slots, push, status, cursor, shown, overlapped>>
      /\ poll \in Polls
      /\ poll' = [poll EXCEPT !.at = "answered", !.latest = next] /\ next \in Nat
  BY DEF FeedInv, AnswerPoll, FeedShape
<1>2. FeedShape'
  BY <1>1 DEF FeedShape
<1>3. FeedOrder'
  BY <1>1 DEF FeedOrder
<1>4. ASSUME ~overlapped'
      PROVE  (FeedSlots /\ FeedRead /\ FeedOwed)'
  <2>1. FeedSlots /\ FeedRead /\ FeedOwed
    BY <1>1, <1>4 DEF FeedInv
  <2>2. FeedRead'
    BY <1>1, <2>1, RingKept DEF FeedRead
  <2>3. FeedOwed'
    BY <1>1, <2>1, RingKept DEF FeedOwed, Found
  <2>. QED
    BY <1>1, <2>1, <2>2, <2>3, RingKept
<1>. QED
  BY <1>2, <1>3, <1>4 DEF FeedInv

LEMMA ReceiveFeed ==
  ASSUME FeedInv, ReceiveEvents
  PROVE  FeedInv'
<1>1. /\ FeedShape /\ FeedOrder /\ poll.at = "answered"
      /\ UNCHANGED <<next, slots, push, status, overlapped>>
      /\ cursor \in Nat /\ poll.latest \in Nat /\ poll.until \in Nat /\ next \in Nat
      /\ shown \in Seq(Events) /\ poll.taken \in Seq(Events)
      /\ poll' = NoPoll
  BY DEF FeedInv, ReceiveEvents, FeedShape
<1>2. PICK all \in Seq(Events) : all = shown \o poll.taken
  BY <1>1, Joined
<1>3. /\ DOMAIN all = 1 .. Len(shown) + Len(poll.taken)
      /\ \A i \in DOMAIN all :
           \/ i \in DOMAIN shown /\ all[i] = shown[i]
           \/ i > Len(shown) /\ i - Len(shown) \in DOMAIN poll.taken /\ all[i] = poll.taken[i - Len(shown)]
      /\ DOMAIN shown = 1 .. Len(shown) /\ Len(shown) \in Nat /\ Len(poll.taken) \in Nat
  BY <1>1, <1>2, Joined
<1>4. PICK further \in Nat : further = Larger(cursor, poll.latest) /\ further >= cursor /\ further >= poll.latest
  BY <1>1, LargerOf
<1>5. shown' = all /\ cursor' = further
  BY <1>2, <1>4 DEF ReceiveEvents
<1>6. NoPoll \in Polls
  BY DEF NoPoll
<1>7. FeedShape'
  BY <1>1, <1>5, <1>6 DEF FeedShape
<1>8. FeedOrder'
  <2>1. Ascending(all)
    <3>1. SUFFICES ASSUME NEW i \in DOMAIN all, NEW j \in DOMAIN all, i < j
                   PROVE  all[i].sequence < all[j].sequence
      BY DEF Ascending
    <3>2. CASE i \in DOMAIN shown /\ j \in DOMAIN shown
      BY <3>1, <3>2, <1>1, <1>3, SMTT(30) DEF FeedOrder, Ascending
    <3>3. CASE i \in DOMAIN shown /\ j \notin DOMAIN shown
      BY <3>1, <3>3, <1>1, <1>3 DEF FeedOrder
    <3>4. CASE i \notin DOMAIN shown
      <4>1. /\ i - Len(shown) \in DOMAIN poll.taken /\ all[i] = poll.taken[i - Len(shown)]
            /\ j - Len(shown) \in DOMAIN poll.taken /\ all[j] = poll.taken[j - Len(shown)]
            /\ i - Len(shown) < j - Len(shown)
        BY <3>1, <3>4, <1>3
      <4>. QED
        BY <4>1, <1>1 DEF FeedOrder, Ascending
    <3>. QED
      BY <3>2, <3>3, <3>4
  <2>2. \A i \in DOMAIN all : all[i].sequence <= further
    <3>1. \A i \in DOMAIN shown : shown[i].sequence <= further
      BY <1>1, <1>4, Numbered DEF FeedOrder
    <3>2. \A i \in DOMAIN poll.taken : poll.taken[i].sequence <= further
      BY <1>1, <1>4, Numbered DEF FeedOrder
    <3>. QED
      BY <1>3, <3>1, <3>2
  <2>. QED
    BY <1>1, <1>5, <2>1, <2>2 DEF FeedOrder, Ascending, NoPoll
<1>9. ASSUME ~overlapped'
      PROVE  (FeedSlots /\ FeedRead /\ FeedOwed)'
  <2>1. FeedSlots /\ FeedRead
    BY <1>1, <1>9 DEF FeedInv
  <2>2. FeedRead'
    <3>1. \A i \in DOMAIN all : Whole(all[i])
      BY <1>3, <2>1 DEF FeedRead
    <3>. QED
      BY <1>1, <1>5, <3>1, RingKept DEF FeedRead, NoPoll
  <2>3. FeedOwed'
    BY <1>1 DEF FeedOwed, NoPoll
  <2>. QED
    BY <1>1, <2>1, <2>2, <2>3, RingKept
<1>. QED
  BY <1>7, <1>8, <1>9 DEF FeedInv

LEMMA StatusFeed ==
  ASSUME FeedInv, AnswerStatus \/ ReceiveStatus
  PROVE  FeedInv'
<1>1. /\ FeedShape /\ FeedOrder
      /\ UNCHANGED <<next, slots, push, poll, shown, overlapped>>
      /\ cursor \in Nat
  BY DEF FeedInv, AnswerStatus, ReceiveStatus, FeedShape
<1>2. cursor' \in Nat /\ cursor' >= cursor /\ status' \in Seq(Nat)
  <2>1. CASE AnswerStatus
    BY <2>1, <1>1 DEF AnswerStatus, FeedShape
  <2>2. CASE ReceiveStatus
    <3>1. PICK n \in Nat : n = status[1]
      BY <1>1, <2>2 DEF ReceiveStatus, FeedShape
    <3>2. Larger(cursor, n) \in Nat /\ Larger(cursor, n) >= cursor
      BY <1>1, LargerOf
    <3>. QED
      BY <3>1, <3>2, <2>2 DEF ReceiveStatus
  <2>. QED
    BY <2>1, <2>2
<1>3. FeedShape'
  BY <1>1, <1>2 DEF FeedShape
<1>4. FeedOrder'
  BY <1>1, <1>2, Numbered DEF FeedOrder
<1>5. ASSUME ~overlapped'
      PROVE  (FeedSlots /\ FeedRead /\ FeedOwed)'
  <2>1. FeedSlots /\ FeedRead /\ FeedOwed
    BY <1>1, <1>5 DEF FeedInv
  <2>2. FeedRead'
    BY <1>1, <2>1, RingKept DEF FeedRead
  <2>3. FeedOwed'
    BY <1>1, <2>1, RingKept DEF FeedOwed, Found
  <2>. QED
    BY <1>1, <2>1, <2>2, <2>3, RingKept
<1>. QED
  BY <1>3, <1>4, <1>5 DEF FeedInv

LEMMA FeedStep ==
  ASSUME FeedInv, [FeedNext]_feedVars
  PROVE  FeedInv'
<1>1. CASE \E t \in GameThreads : Claim(t) \/ Store(t) \/ Publish(t)
  BY <1>1, ClaimFeed, StoreFeed, PublishFeed
<1>2. CASE Poll
  BY <1>2, IdleFeed, ReadLatestFeed, LookFeed, ReadWhatFeed, ReadWhereFeed, AnswerFeed, ReceiveFeed
     DEF Poll
<1>3. CASE AnswerStatus \/ ReceiveStatus
  BY <1>3, StatusFeed
<1>4. CASE UNCHANGED feedVars
  <2>1. UNCHANGED <<next, slots, push, poll, status, cursor, shown, overlapped>>
    BY <1>4 DEF feedVars
  <2>2. FeedShape' /\ FeedOrder'
    BY <2>1 DEF FeedInv, FeedShape, FeedOrder
  <2>3. ~overlapped' => (FeedSlots /\ FeedRead /\ FeedOwed)'
    BY <2>1, RingKept DEF FeedInv, FeedRead, FeedOwed, Found
  <2>. QED
    BY <2>2, <2>3 DEF FeedInv
<1>. QED
  BY <1>1, <1>2, <1>3, <1>4 DEF FeedNext

\* The inductive invariant: one push at a time in a slot, a poll that knows what
\* it has passed, and a window that has only seen numbers below it.
THEOREM FeedKept == FeedSpec => []FeedInv
<1>1. FeedInit => FeedInv
  BY FeedInitial
<1>2. FeedInv /\ [FeedNext]_feedVars => FeedInv'
  BY FeedStep
<1>. QED
  BY <1>1, <1>2, PTL DEF FeedSpec

\* The window never receives an event twice or out of order, and one that mixes
\* two pushes is one the ring was losing: EventRing::push and read, drain_responses.
THEOREM FeedInOrder == FeedSpec => []InOrderAndWhole
<1>1. FeedInv => InOrderAndWhole
  <2>1. SUFFICES ASSUME FeedInv PROVE InOrderAndWhole
    OBVIOUS
  <2>2. \A i, j \in DOMAIN shown : i < j => shown[i].sequence < shown[j].sequence
    BY <2>1 DEF FeedInv, FeedOrder, Ascending
  <2>3. ASSUME ~overlapped, NEW e \in Received
        PROVE  (e.where = e.sequence /\ e.what = e.sequence) \/ e.sequence + Capacity <= next
    BY <2>1, <2>3 DEF FeedInv, FeedRead, Received, Whole, Lost
  <2>. QED
    BY <2>2, <2>3 DEF InOrderAndWhole
<1>. QED
  BY <1>1, FeedKept, PTL

\* A poll below its limit returns every event published when it began that the
\* ring has not lost since: EventRing::read.
THEOREM FeedComplete == FeedSpec => []NothingPassedOver
<1>1. FeedInv => NothingPassedOver
  <2>1. SUFFICES ASSUME FeedInv, poll.at \in {"latest", "answered"}, Len(poll.taken) < Limit,
                        ~overlapped, NEW s \in poll.owed
                 PROVE  (\E i \in DOMAIN poll.taken : poll.taken[i].sequence = s) \/ s + Capacity <= next
    BY DEF NothingPassedOver
  <2>2. Len(poll.taken) \in Nat /\ Limit \in Nat
    BY <2>1, FeedAssumption DEF FeedInv, FeedShape
  <2>3. Lost(s) \/ Found(s) \/ poll.at \in {"look", "what", "where"} \/ Len(poll.taken) >= Limit
    BY <2>1 DEF FeedInv, FeedOwed
  <2>. QED
    BY <2>1, <2>2, <2>3 DEF Lost, Found
<1>. QED
  BY <1>1, FeedKept, PTL

-----------------------------------------------------------------------------
(***************************************************************************)
(* The windows.  What is pending is what is under way, one of a kind; and  *)
(* unless a request for news was dropped or failed, what a window shows is *)
(* so, or an answer that says so is to come, or an answer that makes it    *)
(* ask again.  Every click, every answer and every step of a command keeps *)
(* that: SoundSubmit, MainTakes and DebuggerTakes, GoesOn.                 *)
(***************************************************************************)

\* The fields of a view.
Fields == {"visible", "tab", "pending", "sent", "spawns", "missed", "summary", "total", "page",
           "results", "active", "watches", "speed", "threads", "selected", "registers", "paused",
           "breakpoints"}

\* What the commands S are of.
KindsOf(S) == {t.kind : t \in S}

\* The commands S are one of a kind, and the pending ones.
OneEach(v, S) ==
  /\ v.pending = KindsOf(S)
  /\ \A t, u \in S : t.kind = u.kind => t = u
  /\ ~({"FirstScan", "NextScan"} \subseteq v.pending)

\* An answer that shows something is one to a command that asks for it.
Fits(t) ==
  /\ t.at = "scans" => t.kind \in {"FirstScan", "NextScan"}
  /\ t.at = "answered" =>
       /\ t.answer.is = "status"  => t.kind = "Status"
       /\ t.answer.is = "values"  => t.kind = "RefreshWatches"
       /\ t.answer.is = "watches" => t.kind = "ListWatches"
       /\ t.answer.is = "results" => t.kind = "ScanResults"

\* Such an answer was not taken yet.
Has(T, is) == \E t \in T : t.at = "answered" /\ t.answer.is = is

\* The debugger shows which threads are paused, or is about to ask.
PausedNews(d, v, T) ==
  /\ v.paused = d.paused \/ "Status" \in v.pending \/ Has(T, "control")
  /\ \A t \in T : t.kind = "Status" /\ t.at = "answered" =>
       t.answer.is = "status" /\ (t.answer.more = d.paused \/ Has(T, "control"))

\* The main window shows the watches, or is about to.
WatchNews(d, v, T) ==
  /\ v.watches = d.ids \/ {"RefreshWatches", "ListWatches"} \cap v.pending # {} \/ Has(T, "watch")
  /\ \A t \in T : t.at = "answered" =>
       /\ t.kind = "ListWatches" => t.answer.is = "watches"
       /\ t.kind = "RefreshWatches" =>
            t.answer.is = "values" /\ (t.answer.ids = d.ids \/ Has(T, "watch"))

\* It shows the page of the results, or is about to.
PageNews(v, T) ==
  /\ v.summary # 0 =>
       /\ v.results = v.summary * 10 + v.page \/ "ScanResults" \in v.pending
       /\ \A t \in T \cup v.sent : t.kind = "ScanResults" => t.id = v.summary * 10 + v.page
  /\ \A t \in T : t.kind = "ScanResults" /\ t.at = "answered" =>
       t.answer.is = "results" /\ t.answer.id = t.id

\* Commands only the other window gives, that would change what this one shows.
Foreign(w) == IF w = "main" THEN {"AddBreakpoint", "RemoveBreakpoint"} ELSE {}

\* What window w shows of world d.
News(w, d, v, T) == IF w = "debugger" THEN PausedNews(d, v, T) ELSE WatchNews(d, v, T) /\ PageNews(v, T)

\* The commands are as they are for any news.
Orderly(w, v, T) ==
  /\ DOMAIN v = Fields /\ v.missed \in BOOLEAN
  /\ v.tab \in Tabs(w) \cup {"none"}
  /\ IsFiniteSet(T) /\ IsFiniteSet(v.sent)
  /\ OneEach(v, T \cup v.sent)
  /\ \A t \in v.sent : t.at = "sent"
  /\ \A t \in T \cup v.sent : DOMAIN t = {"kind", "id", "at", "answer"} /\ t.kind \notin Foreign(w)
  /\ \A t \in T : Fits(t)

\* The commands are in order, and so is what is shown, unless news was missed.
Sound(w, d, v, T) ==
  /\ Orderly(w, v, T)
  /\ DOMAIN d = {"scans", "active", "ids", "given", "paused"}
  /\ ~v.missed => News(w, d, v, T)

\* How far a window is when the runtime stops.
Ending ==
  /\ thread = "starting" => view.tab = "none" /\ late = 0
  /\ thread = "closed" => shutdown \/ view.tab = "none"
  /\ ~shutdown => late = 0
  /\ late \in {0, 1, 2}
  /\ thread = "open" /\ late # 0 => late = 1 /\ closing

\* The invariant of the windows.
WindowInv ==
  /\ window \in {"main", "debugger"}
  /\ thread \in {"starting", "open", "closed"}
  /\ view.sent = {}
  /\ Sound(window, world, view, tasks)
  /\ Ending

\* What Submit changes: only commands none of whose kind is pending are sent.
LEMMA SubmitParts ==
  ASSUME NEW v, NEW wanted, DOMAIN v = Fields, v.missed \in BOOLEAN
  PROVE  \E new \in SUBSET wanted :
           /\ \A r \in new : r.kind \notin v.pending
           /\ DOMAIN Submit(v, wanted) = Fields
           /\ Submit(v, wanted).pending = v.pending \cup KindsOf(new)
           /\ Submit(v, wanted).sent = v.sent \cup new
           /\ Submit(v, wanted).missed \in BOOLEAN
           /\ Submit(v, wanted).missed <=> v.missed \/ \E r \in wanted \ new : r.kind \in Telling
           /\ \A f \in Fields \ {"pending", "sent", "missed"} : Submit(v, wanted)[f] = v[f]
<1> DEFINE new == IF v.spawns THEN {r \in wanted : r.kind \notin v.pending} ELSE {}
           p == v.pending \cup {r.kind : r \in new}
           s == v.sent \cup new
           m == v.missed \/ \E r \in wanted \ new : r.kind \in Telling
<1>1. Submit(v, wanted) = [v EXCEPT !.pending = p, !.sent = s, !.missed = m]
  BY Zenon DEF Submit
<1>2. new \in SUBSET wanted /\ \A r \in new : r.kind \notin v.pending
  OBVIOUS
<1>3. m \in BOOLEAN
  OBVIOUS
<1> HIDE DEF m, s, p
<1>4. /\ DOMAIN Submit(v, wanted) = Fields
      /\ Submit(v, wanted).pending = p
      /\ Submit(v, wanted).sent = s
      /\ Submit(v, wanted).missed = m
      /\ \A f \in Fields \ {"pending", "sent", "missed"} : Submit(v, wanted)[f] = v[f]
  BY <1>1 DEF Fields
<1>5. p = v.pending \cup KindsOf(new)
  BY Zenon DEF p, KindsOf
<1> QED
  BY <1>2, <1>3, <1>4, <1>5, Zenon DEF s, m

\* The commands `wanted` may be asked for.
Askable(w, v, wanted) ==
  /\ IsFiniteSet(wanted)
  /\ \A r, s \in wanted : r.kind = s.kind => r = s
  /\ ~({"FirstScan", "NextScan"} \subseteq v.pending \cup KindsOf(wanted))
  /\ \A r \in wanted : /\ r.at = "sent" /\ r.kind \notin Foreign(w)
                       /\ DOMAIN r = {"kind", "id", "at", "answer"}

\* Asking for commands keeps them one of a kind.
LEMMA Submitting ==
  ASSUME NEW w, NEW v, NEW T, NEW wanted, Orderly(w, v, T), Askable(w, v, wanted)
  PROVE  Orderly(w, Submit(v, wanted), T)
<1>1. PICK new \in SUBSET wanted :
        /\ \A r \in new : r.kind \notin v.pending
        /\ DOMAIN Submit(v, wanted) = Fields
        /\ Submit(v, wanted).pending = v.pending \cup KindsOf(new)
        /\ Submit(v, wanted).sent = v.sent \cup new
        /\ Submit(v, wanted).missed \in BOOLEAN
        /\ Submit(v, wanted).missed <=> v.missed \/ \E r \in wanted \ new : r.kind \in Telling
        /\ \A f \in Fields \ {"pending", "sent", "missed"} : Submit(v, wanted)[f] = v[f]
  <2>1. DOMAIN v = Fields /\ v.missed \in BOOLEAN
    BY Zenon DEF Orderly
  <2> QED
    BY <2>1, SubmitParts
<1>2. PICK u : u = Submit(v, wanted)
  OBVIOUS
<1>3. u.tab = v.tab
  BY <1>1, <1>2 DEF Fields
<1>4. IsFiniteSet(v.sent \cup new)
  <2>1. IsFiniteSet(new)
    BY FS_Subset, <1>1, Zenon DEF Askable
  <2> QED
    BY <2>1, FS_Union, Zenon DEF Orderly
<1>5. OneEach(u, T \cup (v.sent \cup new))
  <2>1. v.pending \cup KindsOf(new) = KindsOf(T \cup (v.sent \cup new))
    BY DEF KindsOf, Orderly, OneEach
  <2>2. ASSUME NEW t \in T \cup (v.sent \cup new), NEW s \in T \cup (v.sent \cup new), t.kind = s.kind
        PROVE  t = s
    <3>1. CASE t \in new /\ s \in new
      BY <3>1, <2>2, <1>1, Zenon DEF Askable
    <3>2. CASE t \in T \cup v.sent /\ s \in T \cup v.sent
      BY <3>2, <2>2, Zenon DEF Orderly, OneEach
    <3>3. \A r \in T \cup v.sent : r.kind \in v.pending
      BY Zenon DEF Orderly, OneEach, KindsOf
    <3> QED
      BY <3>1, <3>2, <3>3, <2>2, <1>1, Zenon
  <2>3. v.pending \cup KindsOf(new) \subseteq v.pending \cup KindsOf(wanted)
    BY <1>1 DEF KindsOf
  <2> QED
    BY <1>1, <1>2, <2>1, <2>2, <2>3, Zenon DEF OneEach, Askable
<1> QED
  <2>1. \A t \in v.sent \cup new : t.at = "sent"
    BY <1>1, Zenon DEF Askable, Orderly
  <2>2. \A t \in T \cup (v.sent \cup new) :
           DOMAIN t = {"kind", "id", "at", "answer"} /\ t.kind \notin Foreign(w)
    BY <1>1, Zenon DEF Askable, Orderly
  <2>3. u.sent = v.sent \cup new
    BY <1>1, <1>2
  <2>4. DOMAIN u = Fields /\ u.missed \in BOOLEAN /\ IsFiniteSet(T) /\ \A t \in T : Fits(t)
    BY <1>1, <1>2, Zenon DEF Orderly
  <2>5. u.tab \in Tabs(w) \cup {"none"}
    BY <1>3, Zenon DEF Orderly
  <2>6. Orderly(w, u, T)
    BY <2>1, <2>2, <2>3, <2>4, <2>5, <1>4, <1>5, Zenon DEF Orderly
  <2> QED
    BY <1>2, <2>6, Zenon

\* What is asked for, once, is on its way and not answered.
LEMMA Asked ==
  ASSUME NEW w, NEW v, NEW T, Orderly(w, v, T), NEW kind \in Telling, NEW id,
         NEW u, u = Submit(v, {Ask(kind, id)}), ~u.missed
  PROVE  /\ ~v.missed /\ kind \notin v.pending /\ kind \in u.pending
         /\ \A t \in T : t.kind # kind
         /\ u.sent = v.sent \cup {Ask(kind, id)}
         /\ \A t \in v.sent : t.kind # kind
<1>1. PICK new \in SUBSET {Ask(kind, id)} :
        /\ \A r \in new : r.kind \notin v.pending
        /\ u.pending = v.pending \cup KindsOf(new)
        /\ u.sent = v.sent \cup new
        /\ u.missed <=> v.missed \/ \E r \in {Ask(kind, id)} \ new : r.kind \in Telling
  <2>1. DOMAIN v = Fields /\ v.missed \in BOOLEAN
    BY Zenon DEF Orderly
  <2>2. PICK wanted : wanted = {Ask(kind, id)}
    OBVIOUS
  <2>3. PICK new \in SUBSET wanted :
          /\ \A r \in new : r.kind \notin v.pending
          /\ Submit(v, wanted).pending = v.pending \cup KindsOf(new)
          /\ Submit(v, wanted).sent = v.sent \cup new
          /\ Submit(v, wanted).missed <=> v.missed \/ \E r \in wanted \ new : r.kind \in Telling
    BY <2>1, SubmitParts
  <2> QED
    BY <2>2, <2>3, Zenon
<1>2. Ask(kind, id).kind = kind
  BY DEF Ask
<1>3. new = {Ask(kind, id)} /\ ~v.missed
  BY <1>1, <1>2
<1>4. kind \notin v.pending /\ kind \in u.pending
  BY <1>1, <1>2, <1>3 DEF KindsOf
<1>5. \A t \in T \cup v.sent : t.kind \in v.pending
  BY Zenon DEF Orderly, OneEach, KindsOf
<1>6. (\A t \in T : t.kind # kind) /\ (\A t \in v.sent : t.kind # kind)
  BY <1>4, <1>5, Zenon
<1>7. u.sent = v.sent \cup {Ask(kind, id)}
  BY <1>1, <1>3, Zenon
<1> QED
  BY <1>3, <1>4, <1>6, <1>7, Zenon

\* A view that differs in what it shows.
LEMMA Redrawn ==
  ASSUME NEW w, NEW v, NEW T, Orderly(w, v, T), NEW u,
         DOMAIN u = Fields, u.pending = v.pending, u.sent = v.sent, u.missed = v.missed,
         u.tab \in Tabs(w) \cup {"none"}
  PROVE  Orderly(w, u, T)
  BY Zenon DEF Orderly, OneEach

\* A request leaves the news as it is.
LEMMA StillNews ==
  ASSUME NEW v, NEW d, NEW T, NEW wanted, DOMAIN v = Fields, v.missed \in BOOLEAN
  PROVE  /\ PausedNews(d, v, T) => PausedNews(d, Submit(v, wanted), T)
         /\ WatchNews(d, v, T) => WatchNews(d, Submit(v, wanted), T)
         /\ (\A r \in wanted : r.kind # "ScanResults") /\ PageNews(v, T) => PageNews(Submit(v, wanted), T)
         /\ v.missed => Submit(v, wanted).missed
<1>1. PICK new \in SUBSET wanted :
        /\ Submit(v, wanted).pending = v.pending \cup KindsOf(new)
        /\ Submit(v, wanted).sent = v.sent \cup new
        /\ Submit(v, wanted).missed <=> v.missed \/ \E r \in wanted \ new : r.kind \in Telling
        /\ \A f \in Fields \ {"pending", "sent", "missed"} : Submit(v, wanted)[f] = v[f]
  BY SubmitParts
<1>2. PICK u : u = Submit(v, wanted)
  OBVIOUS
<1>3. /\ u.paused = v.paused /\ u.watches = v.watches /\ u.results = v.results
      /\ u.summary = v.summary /\ u.page = v.page
  BY <1>1, <1>2 DEF Fields
<1>5. PausedNews(d, v, T) => PausedNews(d, u, T)
  BY <1>1, <1>2, <1>3 DEF PausedNews
<1>6. WatchNews(d, v, T) => WatchNews(d, u, T)
  BY <1>1, <1>2, <1>3 DEF WatchNews
<1>7. (\A r \in wanted : r.kind # "ScanResults") /\ PageNews(v, T) => PageNews(u, T)
  <2>1. PICK there : there = v.summary * 10 + v.page
    OBVIOUS
  <2>2. u.summary * 10 + u.page = there
    BY <2>1, <1>3, Zenon
  <2>3. u.pending = v.pending \cup KindsOf(new) /\ u.sent = v.sent \cup new
    BY <1>1, <1>2, Zenon
  <2> QED
    BY <1>1, <1>3, <2>1, <2>2, <2>3, Zenon DEF PageNews
<1> QED
  BY <1>1, <1>2, <1>5, <1>6, <1>7, Zenon

\* Once the status is asked for, the debugger's news is to come.
LEMMA StatusAsked ==
  ASSUME NEW w, NEW v, NEW T, Orderly(w, v, T), NEW d,
         NEW u, u = Submit(v, {Ask("Status", 0)}), ~u.missed
  PROVE  PausedNews(d, u, T)
<1>1. "Status" \in Telling
  BY DEF Telling
<1>2. "Status" \in u.pending /\ \A t \in T : t.kind # "Status"
  BY <1>1, Asked
<1> QED
  BY <1>2, Zenon DEF PausedNews

\* Once the values are asked for, so are the watches.
LEMMA RefreshAsked ==
  ASSUME NEW w, NEW v, NEW T, Orderly(w, v, T), NEW d,
         \A t \in T : t.at = "answered" /\ t.kind = "ListWatches" => t.answer.is = "watches",
         NEW u, u = Submit(v, {Ask("RefreshWatches", 0)}), ~u.missed
  PROVE  WatchNews(d, u, T)
<1>1. "RefreshWatches" \in u.pending /\ \A t \in T : t.kind # "RefreshWatches"
  <2>1. "RefreshWatches" \in Telling
    BY DEF Telling
  <2> QED
    BY <2>1, Asked
<1> QED
  BY <1>1, Zenon DEF WatchNews

\* Once the page is asked for, it is the right one.
LEMMA PageAsked ==
  ASSUME NEW w, NEW v, NEW T, Orderly(w, v, T),
         \A t \in T : t.kind = "ScanResults" /\ t.at = "answered" => t.answer.is = "results" /\ t.answer.id = t.id,
         NEW u, u = ShowPage(v), ~u.missed
  PROVE  PageNews(u, T)
<1>1. CASE v.summary = 0
  BY <1>1, Zenon DEF ShowPage, PageNews
<1>2. CASE v.summary # 0
  <2>1. PICK there : there = v.summary * 10 + v.page
    OBVIOUS
  <2>2. u = Submit(v, {Ask("ScanResults", there)})
    BY <1>2, <2>1, Zenon DEF ShowPage
  <2>3. /\ "ScanResults" \in u.pending
        /\ \A t \in T \cup v.sent : t.kind # "ScanResults"
        /\ u.sent = v.sent \cup {Ask("ScanResults", there)}
    <3>1. "ScanResults" \in Telling
      BY DEF Telling
    <3>2. /\ "ScanResults" \in u.pending /\ \A t \in T : t.kind # "ScanResults"
          /\ u.sent = v.sent \cup {Ask("ScanResults", there)}
          /\ \A t \in v.sent : t.kind # "ScanResults"
      <4>1. PICK kind \in Telling : kind = "ScanResults"
        BY <3>1
      <4>2. u = Submit(v, {Ask(kind, there)})
        BY <2>2, <4>1
      <4>3. /\ kind \in u.pending /\ \A t \in T : t.kind # kind
            /\ u.sent = v.sent \cup {Ask(kind, there)}
            /\ \A t \in v.sent : t.kind # kind
        <5>1. PICK id : id = there
          OBVIOUS
        <5>2. PICK x : x = Submit(v, {Ask(kind, id)})
          OBVIOUS
        <5>3. ~x.missed
          BY <4>2, <5>1, <5>2, Zenon
        <5>4. kind \in x.pending /\ \A t \in T : t.kind # kind
          BY <5>2, <5>3, Asked
        <5>5. x.sent = v.sent \cup {Ask(kind, id)} /\ \A t \in v.sent : t.kind # kind
          BY <5>2, <5>3, Asked
        <5> QED
          BY <4>2, <5>1, <5>2, <5>4, <5>5, Zenon
      <4> QED
        BY <4>1, <4>3
    <3> QED
      BY <3>2
  <2>4. \A f \in Fields \ {"pending", "sent", "missed"} : u[f] = v[f]
    <3>1. DOMAIN v = Fields /\ v.missed \in BOOLEAN
      BY Zenon DEF Orderly
    <3> QED
      BY <2>2, <3>1, SubmitParts
  <2>5. u.summary = v.summary /\ u.page = v.page
    BY <2>4 DEF Fields
  <2>6. u.summary * 10 + u.page = there
    BY <2>5, <2>1, Zenon
  <2>7. Ask("ScanResults", there).id = there
    BY DEF Ask
  <2>8. \A t \in T \cup u.sent : t.kind = "ScanResults" => t.id = there
    BY <2>3, <2>7, Zenon
  <2> QED
    BY <2>3, <2>6, <2>8, Zenon DEF PageNews
<1> QED
  BY <1>1, <1>2

\* One command more may be asked for, one that does not scan.
LEMMA AskableOne ==
  ASSUME NEW w, NEW v, NEW T, Orderly(w, v, T), NEW kind, NEW id,
         kind \notin Foreign(w) \cup {"FirstScan", "NextScan"}
  PROVE  Askable(w, v, {Ask(kind, id)})
<1>1. PICK r : r = Ask(kind, id)
  OBVIOUS
<1>2. r.kind = kind /\ r.at = "sent" /\ DOMAIN r = {"kind", "id", "at", "answer"}
  BY <1>1 DEF Ask
<1>3. IsFiniteSet({r})
  BY FS_Singleton, Zenon
<1>4. KindsOf({r}) = {kind}
  BY <1>2 DEF KindsOf
<1>5. ~({"FirstScan", "NextScan"} \subseteq v.pending)
  BY Zenon DEF Orderly, OneEach
<1>6. ~({"FirstScan", "NextScan"} \subseteq v.pending \cup {kind})
  BY <1>5
<1>7. Askable(w, v, {r})
  BY <1>2, <1>3, <1>4, <1>6, Zenon DEF Askable
<1> QED
  BY <1>1, <1>7, Zenon

\* What such a request leaves as it is.
LEMMA AskingOne ==
  ASSUME NEW w, NEW v, NEW T, Orderly(w, v, T), NEW kind, NEW id,
         kind \notin Foreign(w) \cup {"FirstScan", "NextScan"}
  PROVE  /\ Orderly(w, Submit(v, {Ask(kind, id)}), T)
         /\ v.missed => Submit(v, {Ask(kind, id)}).missed
         /\ \A d : PausedNews(d, v, T) => PausedNews(d, Submit(v, {Ask(kind, id)}), T)
         /\ \A d : WatchNews(d, v, T) => WatchNews(d, Submit(v, {Ask(kind, id)}), T)
         /\ kind # "ScanResults" /\ PageNews(v, T) => PageNews(Submit(v, {Ask(kind, id)}), T)
<1>1. PICK wanted : wanted = {Ask(kind, id)}
  OBVIOUS
<1>2. Askable(w, v, wanted)
  BY <1>1, AskableOne
<1>3. Orderly(w, Submit(v, wanted), T)
  BY <1>2, Submitting
<1>4. DOMAIN v = Fields /\ v.missed \in BOOLEAN
  BY Zenon DEF Orderly
<1>5. \A r \in wanted : r.kind = kind
  BY <1>1 DEF Ask
<1>6. v.missed => Submit(v, wanted).missed
  BY <1>4, StillNews
<1>7. ASSUME NEW d PROVE PausedNews(d, v, T) => PausedNews(d, Submit(v, wanted), T)
  BY <1>4, StillNews
<1>8. ASSUME NEW d PROVE WatchNews(d, v, T) => WatchNews(d, Submit(v, wanted), T)
  BY <1>4, StillNews
<1>9. kind # "ScanResults" /\ PageNews(v, T) => PageNews(Submit(v, wanted), T)
  BY <1>4, <1>5, StillNews
<1> QED
  BY <1>1, <1>3, <1>6, <1>7, <1>8, <1>9, Zenon

\* What the window takes an answer with.
Without(v, t) == [v EXCEPT !.pending = @ \ {t.kind}]

\* A command whose answer is taken is no longer pending.
LEMMA TakingOne ==
  ASSUME NEW w, NEW v, NEW T, Orderly(w, v, T), NEW t \in T, t.at = "answered",
         NEW x, x = Without(v, t)
  PROVE  /\ Orderly(w, x, T \ {t})
         /\ x.pending = v.pending \ {t.kind}
         /\ \A f \in Fields \ {"pending"} : x[f] = v[f]
         /\ \A u \in (T \ {t}) \cup v.sent : u.kind # t.kind
<1>1. DOMAIN v = Fields
  BY Zenon DEF Orderly
<1>2. DOMAIN x = Fields /\ x.pending = v.pending \ {t.kind} /\ \A f \in Fields \ {"pending"} : x[f] = v[f]
  BY <1>1 DEF Fields, Without
<1>3. x.sent = v.sent /\ x.missed = v.missed /\ x.tab = v.tab
  BY <1>2 DEF Fields
<1>4. /\ v.pending = KindsOf(T \cup v.sent)
      /\ \A r, s \in T \cup v.sent : r.kind = s.kind => r = s
      /\ ~({"FirstScan", "NextScan"} \subseteq v.pending)
  BY Zenon DEF Orderly, OneEach
<1>5. \A u \in v.sent : u.at = "sent"
  BY Zenon DEF Orderly
<1>6. \A u \in (T \ {t}) \cup v.sent : u # t /\ u \in T \cup v.sent
  BY <1>5
<1>7. \A u \in (T \ {t}) \cup v.sent : u.kind # t.kind
  BY <1>4, <1>6, Zenon
<1>8. v.pending \ {t.kind} = KindsOf((T \ {t}) \cup v.sent)
  BY <1>4, <1>7 DEF KindsOf
<1>9. OneEach(x, (T \ {t}) \cup v.sent)
  BY <1>2, <1>4, <1>6, <1>8, Zenon DEF OneEach
<1>10. IsFiniteSet(T \ {t})
  BY FS_RemoveElement, Zenon DEF Orderly
<1>11. /\ x.missed \in BOOLEAN /\ x.tab \in Tabs(w) \cup {"none"} /\ IsFiniteSet(x.sent)
       /\ \A u \in x.sent : u.at = "sent"
  BY <1>3, Zenon DEF Orderly
<1>12. \A u \in (T \ {t}) \cup x.sent :
         DOMAIN u = {"kind", "id", "at", "answer"} /\ u.kind \notin Foreign(w)
  BY <1>3, <1>6, Zenon DEF Orderly
<1>13. \A u \in T \ {t} : Fits(u)
  BY Zenon DEF Orderly
<1>14. Orderly(w, x, T \ {t})
  BY <1>2, <1>3, <1>9, <1>10, <1>11, <1>12, <1>13, Zenon DEF Orderly
<1> QED
  BY <1>2, <1>7, <1>14, Zenon

\* Views that show the same.
LEMMA SameWatches ==
  ASSUME NEW d, NEW v, NEW T, NEW u, u.watches = v.watches, u.pending = v.pending, WatchNews(d, v, T)
  PROVE  WatchNews(d, u, T)
  BY Zenon DEF WatchNews

LEMMA SamePage ==
  ASSUME NEW v, NEW T, NEW u, PageNews(v, T), u.pending = v.pending, u.sent = v.sent,
         u.summary = v.summary, u.page = v.page, u.results = v.results
  PROVE  PageNews(u, T)
  BY Zenon DEF PageNews

LEMMA SamePaused ==
  ASSUME NEW d, NEW v, NEW T, NEW u, u.paused = v.paused, u.pending = v.pending, PausedNews(d, v, T)
  PROVE  PausedNews(d, u, T)
  BY Zenon DEF PausedNews

\* What asking for the page leaves as it is.
LEMMA ShowingPage ==
  ASSUME NEW w, NEW v, NEW T, Orderly(w, v, T)
  PROVE  /\ Orderly(w, ShowPage(v), T)
         /\ v.missed => ShowPage(v).missed
         /\ \A d : WatchNews(d, v, T) => WatchNews(d, ShowPage(v), T)
         /\ \A d : PausedNews(d, v, T) => PausedNews(d, ShowPage(v), T)
<1>1. PICK there : there = v.summary * 10 + v.page
  OBVIOUS
<1>2. ShowPage(v) = v \/ ShowPage(v) = Submit(v, {Ask("ScanResults", there)})
  BY <1>1, Zenon DEF ShowPage
<1>3. "ScanResults" \notin Foreign(w) \cup {"FirstScan", "NextScan"}
  BY DEF Foreign
<1>4. CASE ShowPage(v) = v
  BY <1>4, Zenon
<1>5. CASE ShowPage(v) = Submit(v, {Ask("ScanResults", there)})
  <2>1. PICK kind : kind = "ScanResults"
    OBVIOUS
  <2>2. kind \notin Foreign(w) \cup {"FirstScan", "NextScan"} /\ ShowPage(v) = Submit(v, {Ask(kind, there)})
    BY <1>3, <1>5, <2>1, Zenon
  <2>3. PICK u : u = Submit(v, {Ask(kind, there)})
    OBVIOUS
  <2>4. /\ Orderly(w, u, T)
        /\ v.missed => u.missed
        /\ \A d : PausedNews(d, v, T) => PausedNews(d, u, T)
        /\ \A d : WatchNews(d, v, T) => WatchNews(d, u, T)
    BY <2>2, <2>3, AskingOne
  <2> QED
    BY <2>2, <2>3, <2>4, Zenon
<1> QED
  BY <1>2, <1>4, <1>5

\* What the main window knows when it takes answer `a`, the other ones being S.
InMain(d, x, S, a) ==
  /\ \A u \in S : u.at = "answered" /\ u.kind = "ListWatches" => u.answer.is = "watches"
  /\ \A u \in S : u.kind = "ScanResults" /\ u.at = "answered" =>
                    u.answer.is = "results" /\ u.answer.id = u.id
  /\ a.is \notin {"watch", "watches", "values"} => WatchNews(d, x, S)
  /\ a.is # "results" => PageNews(x, S)
  /\ a.is = "values" => \A y : y.watches = a.ids /\ y.pending = x.pending => WatchNews(d, y, S)
  /\ a.is = "results" => \A y : /\ y.pending = x.pending /\ y.sent = x.sent
                               /\ y.summary = x.summary /\ y.page = x.page
                               /\ y.results = a.id => PageNews(y, S)

LEMMA MainKnows ==
  ASSUME NEW d, NEW v, NEW T, Sound("main", d, v, T), NEW t \in T, t.at = "answered",
         NEW x, x = Without(v, t), ~x.missed,
         NEW S, S = T \ {t}, NEW a, a = t.answer
  PROVE  InMain(d, x, S, a)
<1>1. /\ x.pending = v.pending \ {t.kind}
      /\ \A f \in Fields \ {"pending"} : x[f] = v[f]
      /\ \A u \in S \cup v.sent : u.kind # t.kind
  <2>1. PICK w : w = "main"
    OBVIOUS
  <2>2. Orderly(w, v, T)
    BY <2>1, Zenon DEF Sound
  <2>3. /\ Orderly(w, x, T \ {t})
        /\ x.pending = v.pending \ {t.kind}
        /\ \A f \in Fields \ {"pending"} : x[f] = v[f]
        /\ \A u \in (T \ {t}) \cup v.sent : u.kind # t.kind
    BY <2>2, TakingOne
  <2> QED
    BY <2>3, Zenon
<1>2. /\ x.sent = v.sent /\ x.missed = v.missed /\ x.watches = v.watches
      /\ x.summary = v.summary /\ x.page = v.page /\ x.results = v.results
  BY <1>1 DEF Fields
<1>3. WatchNews(d, v, T) /\ PageNews(v, T)
  BY <1>2 DEF Sound, News
<1>4. Fits(t)
  BY Zenon DEF Sound, Orderly
<1>5. \A u \in S : u.at = "answered" /\ u.kind = "ListWatches" => u.answer.is = "watches"
  BY <1>3, Zenon DEF WatchNews
<1>6. \A u \in S : u.kind = "ScanResults" /\ u.at = "answered" =>
                    u.answer.is = "results" /\ u.answer.id = u.id
  BY <1>3, Zenon DEF PageNews
<1>7. a.is # "watch" => (Has(T, "watch") => Has(S, "watch"))
  BY Zenon DEF Has
<1>8. ASSUME a.is \notin {"watch", "watches", "values"} PROVE WatchNews(d, x, S)
  <2>1. t.kind # "ListWatches" /\ t.kind # "RefreshWatches"
    BY <1>3, <1>8 DEF WatchNews
  <2>2. v.watches = d.ids \/ {"RefreshWatches", "ListWatches"} \cap v.pending # {} \/ Has(S, "watch")
    BY <1>3, <1>7, <1>8 DEF WatchNews
  <2>3. x.watches = d.ids \/ {"RefreshWatches", "ListWatches"} \cap x.pending # {} \/ Has(S, "watch")
    BY <2>1, <2>2, <1>1, <1>2
  <2>4. \A u \in S : u.at = "answered" =>
          /\ u.kind = "ListWatches" => u.answer.is = "watches"
          /\ u.kind = "RefreshWatches" =>
               u.answer.is = "values" /\ (u.answer.ids = d.ids \/ Has(S, "watch"))
    BY <1>3, <1>7, <1>8 DEF WatchNews
  <2> QED
    BY <2>3, <2>4, Zenon DEF WatchNews
<1>9. ASSUME a.is # "results" PROVE PageNews(x, S)
  <2>1. t.kind # "ScanResults"
    BY <1>3, <1>9, Zenon DEF PageNews
  <2>2. PICK there : there = v.summary * 10 + v.page
    OBVIOUS
  <2>3. x.summary * 10 + x.page = there
    BY <1>2, <2>2, Zenon
  <2>4. "ScanResults" \in v.pending => "ScanResults" \in x.pending
    BY <1>1, <2>1
  <2> QED
    BY <1>2, <1>3, <2>2, <2>3, <2>4, Zenon DEF PageNews
<1>10. ASSUME a.is = "values", NEW y, y.watches = a.ids, y.pending = x.pending PROVE WatchNews(d, y, S)
  <2>1. t.kind = "RefreshWatches"
    BY <1>4, <1>10, Zenon DEF Fits
  <2>2. a.ids = d.ids \/ Has(S, "watch")
    BY <1>3, <1>7, <1>10, <2>1 DEF WatchNews
  <2>3. \A u \in S : u.kind # "RefreshWatches"
    BY <1>1, <2>1, Zenon
  <2> QED
    BY <1>5, <1>10, <2>2, <2>3, Zenon DEF WatchNews
<1>11. ASSUME a.is = "results", NEW y, y.pending = x.pending, y.sent = x.sent,
              y.summary = x.summary, y.page = x.page, y.results = a.id
       PROVE  PageNews(y, S)
  <2>1. t.kind = "ScanResults"
    BY <1>4, <1>11, Zenon DEF Fits
  <2>2. a.id = t.id
    BY <1>3, <2>1, Zenon DEF PageNews
  <2>3. PICK there : there = v.summary * 10 + v.page
    OBVIOUS
  <2>4. y.summary * 10 + y.page = there
    BY <1>2, <1>11, <2>3, Zenon
  <2>5. v.summary # 0 => t.id = there
    BY <1>3, <2>1, <2>3, Zenon DEF PageNews
  <2>6. \A u \in S \cup y.sent : u.kind # "ScanResults"
    BY <1>1, <1>2, <1>11, <2>1, Zenon
  <2> QED
    BY <1>2, <1>11, <2>2, <2>4, <2>5, <2>6, Zenon DEF PageNews
<1> QED
  BY <1>5, <1>6, <1>8, <1>9, <1>10, <1>11, Zenon DEF InMain

\* A view where only what is shown differs.
LEMMA Reshown ==
  ASSUME NEW w, NEW v, NEW T, Orderly(w, v, T), NEW u, DOMAIN u = Fields,
         \A f \in {"pending", "sent", "missed", "tab"} : u[f] = v[f]
  PROVE  Orderly(w, u, T)
<1>1. u.pending = v.pending /\ u.sent = v.sent /\ u.missed = v.missed /\ u.tab = v.tab
  OBVIOUS
<1> QED
  BY <1>1, Zenon DEF Orderly, OneEach

\* The main window takes an answer.
LEMMA MainTakes ==
  ASSUME NEW d, NEW v, NEW T, Sound("main", d, v, T), NEW t \in T, t.at = "answered",
         NEW u, u = HandleMain(Without(v, t), t.answer)
  PROVE  Sound("main", d, u, T \ {t})
<1>1. PICK x, S, a : x = Without(v, t) /\ S = T \ {t} /\ a = t.answer
  OBVIOUS
<1>2. PICK w : w = "main"
  OBVIOUS
<1>3. Orderly(w, v, T) /\ DOMAIN d = {"scans", "active", "ids", "given", "paused"}
  BY <1>2, Zenon DEF Sound
<1>4. Orderly(w, x, S)
  BY <1>1, <1>3, TakingOne
<1>5. DOMAIN x = Fields
  BY <1>4, Zenon DEF Orderly
<1>6. ASSUME ~x.missed
      PROVE  /\ \A r \in S : r.at = "answered" /\ r.kind = "ListWatches" => r.answer.is = "watches"
             /\ \A r \in S : r.kind = "ScanResults" /\ r.at = "answered" =>
                               r.answer.is = "results" /\ r.answer.id = r.id
             /\ a.is \notin {"watch", "watches", "values"} => WatchNews(d, x, S)
             /\ a.is # "results" => PageNews(x, S)
             /\ a.is = "values" => \A y : y.watches = a.ids /\ y.pending = x.pending => WatchNews(d, y, S)
             /\ a.is = "results" => \A y : /\ y.pending = x.pending /\ y.sent = x.sent
                                          /\ y.summary = x.summary /\ y.page = x.page
                                          /\ y.results = a.id => PageNews(y, S)
  <2>1. InMain(d, x, S, a)
    BY <1>1, <1>6, MainKnows
  <2> QED
    BY <2>1, Zenon DEF InMain
<1>7. u = HandleMain(x, a)
  BY <1>1, Zenon
<1>8. Orderly(w, u, S) /\ (~u.missed => WatchNews(d, u, S) /\ PageNews(u, S))
  <2>1. CASE a.is = "scan"
    <3>1. PICK y : y = [x EXCEPT !.active = 0, !.summary = a.id, !.total = a.count, !.page = 0]
      OBVIOUS
    <3>2. u = ShowPage(y)
      BY <1>7, <2>1, <3>1 DEF HandleMain
    <3>3. DOMAIN y = Fields /\ \A f \in {"pending", "sent", "missed", "tab", "watches"} : y[f] = x[f]
      BY <1>5, <3>1 DEF Fields
    <3>4. y.missed = x.missed /\ y.watches = x.watches /\ y.pending = x.pending
      BY <3>3
    <3>5. Orderly(w, y, S)
      BY <1>4, <3>3, Reshown
    <3>6. /\ Orderly(w, u, S) /\ (y.missed => u.missed)
          /\ WatchNews(d, y, S) => WatchNews(d, u, S)
      BY <3>2, <3>5, ShowingPage
    <3>7. ASSUME ~u.missed PROVE WatchNews(d, u, S)
      <4>1. WatchNews(d, x, S)
        BY <1>6, <2>1, <3>4, <3>6, <3>7
      <4> QED
        BY <4>1, <3>4, <3>6, SameWatches
    <3>8. ASSUME ~u.missed PROVE PageNews(u, S)
      <4>1. \A r \in S : r.kind = "ScanResults" /\ r.at = "answered" =>
                           r.answer.is = "results" /\ r.answer.id = r.id
        BY <1>6, <3>4, <3>6, <3>8, Zenon
      <4> QED
        BY <4>1, <3>2, <3>5, <3>8, PageAsked
    <3> QED
      BY <3>6, <3>7, <3>8
  <2>2. CASE a.is = "results"
    <3>1. u = [x EXCEPT !.total = a.count, !.results = a.id]
      BY <1>7, <2>2 DEF HandleMain
    <3>2. /\ DOMAIN u = Fields /\ u.results = a.id
          /\ \A f \in {"pending", "sent", "missed", "tab", "watches", "summary", "page"} : u[f] = x[f]
      BY <1>5, <3>1 DEF Fields
    <3>3. Orderly(w, u, S)
      BY <1>4, <3>2, Reshown
    <3>4. /\ u.pending = x.pending /\ u.sent = x.sent /\ u.missed = x.missed
          /\ u.watches = x.watches /\ u.summary = x.summary /\ u.page = x.page
      BY <3>2
    <3>5. ASSUME ~u.missed PROVE WatchNews(d, u, S) /\ PageNews(u, S)
      <4>1. WatchNews(d, x, S)
        BY <1>6, <2>2, <3>4, <3>5
      <4>2. PageNews(u, S)
        BY <1>6, <2>2, <3>2, <3>4, <3>5, Zenon
      <4> QED
        BY <4>1, <4>2, <3>4, SameWatches
    <3> QED
      BY <3>3, <3>5
  <2>3. CASE a.is = "watch"
    <3>1. PICK kind : kind = "RefreshWatches"
      OBVIOUS
    <3>2. u = Submit(x, {Ask("RefreshWatches", 0)}) /\ u = Submit(x, {Ask(kind, 0)})
      BY <1>7, <2>3, <3>1 DEF HandleMain, Refresh
    <3>3. kind \notin Foreign(w) \cup {"FirstScan", "NextScan"} /\ kind # "ScanResults"
      BY <3>1 DEF Foreign
    <3>4. Orderly(w, u, S) /\ (x.missed => u.missed) /\ (PageNews(x, S) => PageNews(u, S))
      BY <1>4, <3>2, <3>3, AskingOne
    <3>5. ASSUME ~u.missed PROVE WatchNews(d, u, S) /\ PageNews(u, S)
      <4>1. PageNews(u, S)
        BY <1>6, <2>3, <3>4, <3>5
      <4>2. \A r \in S : r.at = "answered" /\ r.kind = "ListWatches" => r.answer.is = "watches"
        BY <1>6, <3>4, <3>5, Zenon
      <4>3. WatchNews(d, u, S)
        BY <1>4, <3>2, <3>5, <4>2, RefreshAsked
      <4> QED
        BY <4>1, <4>3
    <3> QED
      BY <3>4, <3>5
  <2>4. CASE a.is = "watches"
    <3>1. PICK kind : kind = "RefreshWatches"
      OBVIOUS
    <3>2. PICK y : y = [x EXCEPT !.watches = a.ids]
      OBVIOUS
    <3>3. /\ DOMAIN y = Fields
          /\ \A f \in {"pending", "sent", "missed", "tab", "summary", "page", "results"} : y[f] = x[f]
      BY <1>5, <3>2 DEF Fields
    <3>4. /\ y.pending = x.pending /\ y.sent = x.sent /\ y.missed = x.missed
          /\ y.summary = x.summary /\ y.page = x.page /\ y.results = x.results
      BY <3>3
    <3>5. Orderly(w, y, S)
      BY <1>4, <3>3, Reshown
    <3>6. u = Submit(y, {Ask("RefreshWatches", 0)}) /\ u = Submit(y, {Ask(kind, 0)})
      BY <1>7, <2>4, <3>1, <3>2 DEF HandleMain, Refresh
    <3>7. kind \notin Foreign(w) \cup {"FirstScan", "NextScan"} /\ kind # "ScanResults"
      BY <3>1 DEF Foreign
    <3>8. Orderly(w, u, S) /\ (y.missed => u.missed) /\ (PageNews(y, S) => PageNews(u, S))
      BY <3>5, <3>6, <3>7, AskingOne
    <3>9. ASSUME ~u.missed PROVE WatchNews(d, u, S) /\ PageNews(u, S)
      <4>1. PageNews(x, S)
        BY <1>6, <2>4, <3>4, <3>8, <3>9
      <4>2. PageNews(y, S)
        BY <4>1, <3>4, SamePage
      <4>3. \A r \in S : r.at = "answered" /\ r.kind = "ListWatches" => r.answer.is = "watches"
        BY <1>6, <3>4, <3>8, <3>9, Zenon
      <4>4. WatchNews(d, u, S)
        BY <3>5, <3>6, <3>9, <4>3, RefreshAsked
      <4> QED
        BY <4>2, <4>4, <3>8
    <3> QED
      BY <3>8, <3>9
  <2>5. CASE a.is = "values"
    <3>1. u = [x EXCEPT !.watches = a.ids]
      BY <1>7, <2>5 DEF HandleMain
    <3>2. /\ DOMAIN u = Fields /\ u.watches = a.ids
          /\ \A f \in {"pending", "sent", "missed", "tab", "summary", "page", "results"} : u[f] = x[f]
      BY <1>5, <3>1 DEF Fields
    <3>3. /\ u.pending = x.pending /\ u.sent = x.sent /\ u.missed = x.missed
          /\ u.summary = x.summary /\ u.page = x.page /\ u.results = x.results
      BY <3>2
    <3>4. Orderly(w, u, S)
      BY <1>4, <3>2, Reshown
    <3>5. ASSUME ~u.missed PROVE WatchNews(d, u, S) /\ PageNews(u, S)
      <4>1. WatchNews(d, u, S)
        BY <1>6, <2>5, <3>2, <3>3, <3>5, Zenon
      <4>2. PageNews(x, S)
        BY <1>6, <2>5, <3>3, <3>5
      <4> QED
        BY <4>1, <4>2, <3>3, SamePage
    <3> QED
      BY <3>4, <3>5
  <2>6. CASE a.is = "written"
    <3>1. PICK kind : kind = "ReadMemory"
      OBVIOUS
    <3>2. u = Submit(x, {Ask(kind, 0)})
      BY <1>7, <2>6, <3>1 DEF HandleMain
    <3>3. kind \notin Foreign(w) \cup {"FirstScan", "NextScan"} /\ kind # "ScanResults"
      BY <3>1 DEF Foreign
    <3>4. /\ Orderly(w, u, S) /\ (x.missed => u.missed)
          /\ PageNews(x, S) => PageNews(u, S)
          /\ WatchNews(d, x, S) => WatchNews(d, u, S)
      BY <1>4, <3>2, <3>3, AskingOne
    <3> QED
      BY <1>6, <2>6, <3>4
  <2>7. CASE a.is \notin {"scan", "results", "watch", "watches", "values", "written"}
    <3>1. \/ u = x \/ u = [x EXCEPT !.active = Shown(x, a.ids)]
          \/ u = [x EXCEPT !.speed = "error"] \/ u = [x EXCEPT !.speed = "known"]
      <4>1. CASE a.is = "active"
        BY <1>7, <4>1 DEF HandleMain
      <4>2. CASE a.is = "error"
        BY <1>7, <4>2 DEF HandleMain
      <4>3. CASE a.is = "speed"
        BY <1>7, <4>3 DEF HandleMain
      <4>4. CASE a.is \notin {"active", "error", "speed"}
        BY <1>7, <2>7, <4>4 DEF HandleMain
      <4> QED
        BY <4>1, <4>2, <4>3, <4>4
    <3>2. /\ DOMAIN u = Fields
          /\ \A f \in {"pending", "sent", "missed", "tab", "watches", "summary", "page", "results"} : u[f] = x[f]
      BY <1>5, <3>1 DEF Fields
    <3>3. /\ u.pending = x.pending /\ u.sent = x.sent /\ u.missed = x.missed /\ u.watches = x.watches
          /\ u.summary = x.summary /\ u.page = x.page /\ u.results = x.results
      BY <3>2
    <3>4. Orderly(w, u, S)
      BY <1>4, <3>2, Reshown
    <3>5. ASSUME ~u.missed PROVE WatchNews(d, u, S) /\ PageNews(u, S)
      <4>1. WatchNews(d, x, S) /\ PageNews(x, S)
        BY <1>6, <2>7, <3>3, <3>5
      <4>2. PageNews(u, S)
        BY <4>1, <3>3, SamePage
      <4>3. WatchNews(d, u, S)
        BY <4>1, <3>3, SameWatches
      <4> QED
        BY <4>2, <4>3
    <3> QED
      BY <3>4, <3>5
  <2> QED
    BY <2>1, <2>2, <2>3, <2>4, <2>5, <2>6, <2>7
<1>9. Sound(w, d, u, S)
  BY <1>2, <1>3, <1>8 DEF Sound, News
<1> QED
  BY <1>1, <1>2, <1>9, Zenon

\* What the debugger's window knows when it takes an answer.
LEMMA DebuggerKnows ==
  ASSUME NEW d, NEW v, NEW T, Sound("debugger", d, v, T), NEW t \in T, t.at = "answered",
         NEW x, x = Without(v, t), ~x.missed
  PROVE  LET S == T \ {t}
             a == t.answer
         IN  /\ a.is \notin {"control", "status"} => PausedNews(d, x, S)
             /\ a.is = "status" => \A y : y.paused = a.more /\ y.pending = x.pending => PausedNews(d, y, S)
<1> DEFINE S == T \ {t}
           a == t.answer
<1>1. /\ x.pending = v.pending \ {t.kind}
      /\ \A f \in Fields \ {"pending"} : x[f] = v[f]
      /\ \A u \in S \cup v.sent : u.kind # t.kind
  <2>1. PICK w : w = "debugger"
    OBVIOUS
  <2>2. Orderly(w, v, T)
    BY <2>1, Zenon DEF Sound
  <2>3. /\ Orderly(w, x, T \ {t})
        /\ x.pending = v.pending \ {t.kind}
        /\ \A f \in Fields \ {"pending"} : x[f] = v[f]
        /\ \A u \in (T \ {t}) \cup v.sent : u.kind # t.kind
    BY <2>2, TakingOne
  <2> QED
    BY <2>3, Zenon
<1>2. x.missed = v.missed /\ x.paused = v.paused
  BY <1>1 DEF Fields
<1>3. PausedNews(d, v, T)
  BY <1>2 DEF Sound, News
<1>4. Fits(t)
  BY Zenon DEF Sound, Orderly
<1>5. a.is # "control" => (Has(T, "control") => Has(S, "control"))
  BY Zenon DEF Has
<1>6. ASSUME a.is \notin {"control", "status"} PROVE PausedNews(d, x, S)
  <2>1. t.kind # "Status"
    BY <1>3, <1>6 DEF PausedNews
  <2>2. v.paused = d.paused \/ "Status" \in v.pending \/ Has(S, "control")
    BY <1>3, <1>5, <1>6 DEF PausedNews
  <2>3. x.paused = d.paused \/ "Status" \in x.pending \/ Has(S, "control")
    BY <2>1, <2>2, <1>1, <1>2
  <2>4. \A u \in S : u.kind = "Status" /\ u.at = "answered" =>
          u.answer.is = "status" /\ (u.answer.more = d.paused \/ Has(S, "control"))
    BY <1>3, <1>5, <1>6 DEF PausedNews
  <2> QED
    BY <2>3, <2>4, Zenon DEF PausedNews
<1>7. ASSUME a.is = "status", NEW y, y.paused = a.more, y.pending = x.pending PROVE PausedNews(d, y, S)
  <2>1. t.kind = "Status"
    BY <1>4, <1>7, Zenon DEF Fits
  <2>2. a.more = d.paused \/ Has(S, "control")
    BY <1>3, <1>5, <1>7, <2>1 DEF PausedNews
  <2>3. \A u \in S : u.kind # "Status"
    BY <1>1, <2>1, Zenon
  <2> QED
    BY <1>7, <2>2, <2>3, Zenon DEF PausedNews
<1> QED
  BY <1>6, <1>7, Zenon

\* The debugger's window takes an answer.
LEMMA DebuggerTakes ==
  ASSUME NEW d, NEW v, NEW T, Sound("debugger", d, v, T), NEW t \in T, t.at = "answered",
         NEW u, u = HandleDebugger(Without(v, t), t.answer)
  PROVE  Sound("debugger", d, u, T \ {t})
<1>1. PICK x, S, a : x = Without(v, t) /\ S = T \ {t} /\ a = t.answer
  OBVIOUS
<1>2. PICK w : w = "debugger"
  OBVIOUS
<1>3. Orderly(w, v, T) /\ DOMAIN d = {"scans", "active", "ids", "given", "paused"}
  BY <1>2, Zenon DEF Sound
<1>4. Orderly(w, x, S)
  BY <1>1, <1>3, TakingOne
<1>5. DOMAIN x = Fields
  BY <1>4, Zenon DEF Orderly
<1>6. ASSUME ~x.missed
      PROVE  /\ a.is \notin {"control", "status"} => PausedNews(d, x, S)
             /\ a.is = "status" => \A y : y.paused = a.more /\ y.pending = x.pending => PausedNews(d, y, S)
  BY <1>1, <1>6, DebuggerKnows, Zenon
<1>7. u = HandleDebugger(x, a)
  BY <1>1, Zenon
<1>8. \A kind : kind \in {"Registers", "Status", "ListBreakpoints"} =>
        kind \notin Foreign(w) \cup {"FirstScan", "NextScan"}
  BY DEF Foreign
<1>9. Orderly(w, u, S) /\ (~u.missed => PausedNews(d, u, S))
  <2>1. CASE a.is = "control"
    <3>1. PICK y, kind : y = Submit(x, {Ask("Status", 0)}) /\ kind = "Status"
      OBVIOUS
    <3>2. y = Submit(x, {Ask(kind, 0)}) /\ kind \notin Foreign(w) \cup {"FirstScan", "NextScan"}
      BY <1>8, <3>1
    <3>3. Orderly(w, y, S) /\ (x.missed => y.missed)
      BY <1>4, <3>2, AskingOne
    <3>4. ASSUME ~y.missed PROVE PausedNews(d, y, S)
      BY <1>4, <3>1, <3>4, StatusAsked
    <3>5. u = y \/ u = RequestRegisters(y)
      BY <1>7, <2>1, <3>1 DEF HandleDebugger
    <3>6. PICK read, selected : read = "Registers" /\ selected = y.selected
      OBVIOUS
    <3>7. u = y \/ u = Submit(y, {Ask(read, selected)})
      BY <3>5, <3>6, Zenon DEF RequestRegisters
    <3>8. CASE u = Submit(y, {Ask(read, selected)})
      <4>1. read \notin Foreign(w) \cup {"FirstScan", "NextScan"}
        BY <1>8, <3>6
      <4>2. Orderly(w, u, S) /\ (y.missed => u.missed) /\ (PausedNews(d, y, S) => PausedNews(d, u, S))
        BY <3>3, <3>8, <4>1, AskingOne
      <4> QED
        BY <4>2, <3>4
    <3> QED
      BY <3>3, <3>4, <3>7, <3>8
  <2>2. CASE a.is = "status"
    <3>1. u = [x EXCEPT !.paused = a.more, !.breakpoints = a.ids]
      BY <1>7, <2>2 DEF HandleDebugger
    <3>2. /\ DOMAIN u = Fields /\ u.paused = a.more
          /\ \A f \in {"pending", "sent", "missed", "tab"} : u[f] = x[f]
      BY <1>5, <3>1 DEF Fields
    <3>3. Orderly(w, u, S)
      BY <1>4, <3>2, Reshown
    <3>4. u.pending = x.pending /\ u.missed = x.missed
      BY <3>2
    <3> QED
      BY <1>6, <2>2, <3>2, <3>3, <3>4, Zenon
  <2>3. CASE a.is = "changed"
    <3>1. PICK kind : kind = "ListBreakpoints"
      OBVIOUS
    <3>2. u = Submit(x, {Ask(kind, 0)})
      BY <1>7, <2>3, <3>1 DEF HandleDebugger, List
    <3>3. kind \notin Foreign(w) \cup {"FirstScan", "NextScan"}
      BY <1>8, <3>1
    <3>4. Orderly(w, u, S) /\ (x.missed => u.missed) /\ (PausedNews(d, x, S) => PausedNews(d, u, S))
      BY <1>4, <3>2, <3>3, AskingOne
    <3> QED
      BY <1>6, <2>3, <3>4
  <2>4. CASE a.is \notin {"control", "status", "changed"}
    <3>1. PICK first : first = IF x.selected \in a.ids THEN x.selected ELSE IF a.ids = {} THEN 0 ELSE Min(a.ids)
      OBVIOUS
    <3>2. \/ u = x \/ u = [x EXCEPT !.threads = a.ids, !.selected = first]
          \/ u = [x EXCEPT !.registers = a.id] \/ u = [x EXCEPT !.breakpoints = a.ids]
      <4>1. CASE a.is = "threads"
        BY <1>7, <3>1, <4>1, Zenon DEF HandleDebugger
      <4>2. CASE a.is = "registers"
        BY <1>7, <4>2 DEF HandleDebugger
      <4>3. CASE a.is = "breakpoints"
        BY <1>7, <4>3 DEF HandleDebugger
      <4>4. CASE a.is \notin {"threads", "registers", "breakpoints"}
        BY <1>7, <2>4, <4>4 DEF HandleDebugger
      <4> QED
        BY <4>1, <4>2, <4>3, <4>4
    <3>3. DOMAIN u = Fields /\ \A f \in {"pending", "sent", "missed", "tab", "paused"} : u[f] = x[f]
      BY <1>5, <3>2 DEF Fields
    <3>4. Orderly(w, u, S)
      BY <1>4, <3>3, Reshown
    <3>5. u.pending = x.pending /\ u.missed = x.missed /\ u.paused = x.paused
      BY <3>3
    <3>6. ASSUME ~u.missed PROVE PausedNews(d, u, S)
      <4>1. PausedNews(d, x, S)
        BY <1>6, <2>4, <3>5, <3>6
      <4> QED
        BY <4>1, <3>5, SamePaused
    <3> QED
      BY <3>4, <3>6
  <2> QED
    BY <2>1, <2>2, <2>3, <2>4
<1>10. Sound(w, d, u, S)
  BY <1>2, <1>3, <1>9, Zenon DEF Sound, News
<1> QED
  BY <1>1, <1>2, <1>10, Zenon

\* Induction over the naturals, for a set.
LEMMA Counting ==
  ASSUME NEW S, 0 \in S, \A n \in Nat : n \in S => n + 1 \in S
  PROVE  Nat \subseteq S
<1>1. SUFFICES ASSUME Nat \ S # {} PROVE FALSE
  OBVIOUS
<1>2. PICK m \in Nat \ S : \A n \in Nat \ S : <<n, m>> \notin OpToRel(<, Nat)
  BY <1>1, WFMin, NatLessThanWellFounded, Zenon
<1>3. m \in Nat \ S /\ \A n \in Nat \ S : ~(n < m)
  <2>1. ASSUME NEW n \in Nat \ S, n < m PROVE FALSE
    BY <1>2, <2>1, Zenon DEF OpToRel
  <2>. QED
    BY <1>2, <2>1
<1>4. m # 0 /\ m \in Nat
  BY <1>3
<1>5. m - 1 \in Nat /\ m - 1 < m /\ (m - 1) + 1 = m
  BY <1>4
<1>6. m - 1 \in S
  BY <1>3, <1>5
<1>. QED
  BY <1>3, <1>5, <1>6

\* f holds the views in which one answer after the other is taken.
OneByOne(f, v, order, n) == f = [i \in 0 .. n |-> IF i = 0 THEN v ELSE Take(f[i - 1], order[i])]

\* There is such a function, by induction on the number of answers.
LEMMA OneByOneIs ==
  ASSUME NEW n \in Nat, NEW v, NEW order
  PROVE  \E f : OneByOne(f, v, order, n)
<1> DEFINE Reached == {m \in Nat : \E f : OneByOne(f, v, order, m)}
<1>1. 0 \in Reached
  <2>1. OneByOne([i \in 0 .. 0 |-> v], v, order, 0)
    BY DEF OneByOne
  <2> QED BY <2>1
<1>2. ASSUME NEW m \in Nat, m \in Reached PROVE m + 1 \in Reached
  <2>1. PICK g : OneByOne(g, v, order, m)
    BY <1>2
  <2> DEFINE f == [i \in 0 .. m + 1 |-> IF i = m + 1 THEN Take(g[m], order[m + 1]) ELSE g[i]]
  <2>2. \A i \in 0 .. m : g[i] = IF i = 0 THEN v ELSE Take(g[i - 1], order[i])
    BY <2>1, Zenon DEF OneByOne
  <2>3. /\ f[m + 1] = Take(g[m], order[m + 1])
        /\ \A i \in 0 .. m : f[i] = g[i]
        /\ f = [i \in 0 .. m + 1 |-> f[i]]
    OBVIOUS
  <2>4. \A i \in 0 .. m + 1 : i = m + 1 \/ (i \in 0 .. m /\ (i = 0 \/ i - 1 \in 0 .. m))
    OBVIOUS
  <2>5. (m + 1) - 1 = m /\ m \in 0 .. m /\ m + 1 # 0
    OBVIOUS
  <2> HIDE DEF f
  <2>6. \A i \in 0 .. m + 1 : f[i] = IF i = 0 THEN v ELSE Take(f[i - 1], order[i])
    <3> SUFFICES ASSUME NEW i \in 0 .. m + 1
                 PROVE  f[i] = IF i = 0 THEN v ELSE Take(f[i - 1], order[i])
      OBVIOUS
    <3>1. CASE i = m + 1
      <4>1. f[i - 1] = g[m]
        BY <2>3, <2>5, <3>1, Zenon
      <4> QED BY <2>3, <2>5, <3>1, <4>1, Zenon
    <3>2. CASE i \in 0 .. m /\ i = 0
      BY <2>2, <2>3, <3>2, Zenon
    <3>3. CASE i \in 0 .. m /\ i # 0
      <4>0. i - 1 \in 0 .. m
        BY <3>3
      <4>1. f[i] = g[i] /\ f[i - 1] = g[i - 1]
        BY <2>3, <3>3, <4>0, Zenon
      <4> QED BY <2>2, <3>3, <4>1, Zenon
    <3> QED BY <2>4, <3>1, <3>2, <3>3
  <2>7. OneByOne(f, v, order, m + 1)
    BY <2>3, <2>6, Zenon DEF OneByOne
  <2> QED BY <2>7
<1> HIDE DEF Reached
<1>3. n \in Reached
  BY <1>1, <1>2, Counting
<1> QED BY <1>3 DEF Reached

\* The window takes an answer.
LEMMA Takes ==
  ASSUME window \in {"main", "debugger"},
         NEW d, NEW v, NEW T, Sound(window, d, v, T), NEW t \in T, t.at = "answered"
  PROVE  Sound(window, d, Take(v, t), T \ {t})
<1>1. CASE window = "main"
  <2>1. PICK u : u = HandleMain(Without(v, t), t.answer)
    OBVIOUS
  <2>2. Take(v, t) = u
    BY <1>1, <2>1, Zenon DEF Take, Without
  <2>3. Sound("main", d, v, T)
    BY <1>1, Zenon
  <2>4. Sound("main", d, u, T \ {t})
    BY <2>1, <2>3, MainTakes
  <2> QED BY <1>1, <2>2, <2>4, Zenon
<1>2. CASE window = "debugger"
  <2>1. PICK u : u = HandleDebugger(Without(v, t), t.answer)
    OBVIOUS
  <2>2. window # "main"
    BY <1>2
  <2>3. Take(v, t) = u
    BY <2>1, <2>2, Zenon DEF Take, Without
  <2>4. Sound("debugger", d, v, T)
    BY <1>2, Zenon
  <2>5. Sound("debugger", d, u, T \ {t})
    BY <2>1, <2>4, DebuggerTakes
  <2> QED BY <1>2, <2>3, <2>5, Zenon
<1> QED BY <1>1, <1>2

\* An order of a finite set reaches each of its members once.
LEMMA Orders ==
  ASSUME NEW S, IsFiniteSet(S), NEW order \in SetToSeqs(S)
  PROVE  \E n \in Nat : /\ Len(order) = n /\ order \in [1 .. n -> S]
                        /\ \A i, j \in 1 .. n : order[i] = order[j] => i = j
                        /\ S = {order[i] : i \in 1 .. n}
<1>1. PICK n \in Nat : n = Cardinality(S)
  BY FS_CardinalityType
<1>2. order \in [1 .. n -> S] /\ \A i, j \in 1 .. n : i # j => order[i] # order[j]
  BY <1>1, Zenon DEF SetToSeqs
<1>3. order \in Seq(S) /\ Len(order) = n
  BY <1>2
<1>4. order \in Injection(1 .. n, S)
  <2>1. \A i, j \in 1 .. n : order[i] = order[j] => i = j
    BY <1>2
  <2>2. DOMAIN order = 1 .. n
    BY <1>2
  <2> QED BY <1>2, <2>1, <2>2, Zenon DEF Injection, IsInjective
<1>5. Cardinality(1 .. n) = n
  <2>1. 1 \in Int /\ n \in Int
    OBVIOUS
  <2>2. Cardinality(1 .. n) = IF 1 > n THEN 0 ELSE n - 1 + 1
    BY <2>1, FS_Interval
  <2> QED BY <2>2
<1>6. order \in Surjection(1 .. n, S)
  BY <1>1, <1>4, <1>5, FS_Injection, Zenon
<1>7. \A s \in S : \E i \in 1 .. n : order[i] = s
  BY <1>6, Zenon DEF Surjection
<1>8. S = {order[i] : i \in 1 .. n}
  BY <1>2, <1>7
<1> QED BY <1>2, <1>3, <1>8, Zenon

\* The window takes several answers.
LEMMA AllTaken ==
  ASSUME window \in {"main", "debugger"},
         NEW d, NEW v, NEW T, Sound(window, d, v, T), NEW S \in SUBSET T, \A t \in S : t.at = "answered",
         NEW order \in SetToSeqs(S)
  PROVE  Sound(window, d, TakeAll(v, order), T \ S)
<1>1. IsFiniteSet(S)
  <2>1. IsFiniteSet(T)
    BY Zenon DEF Sound, Orderly
  <2> QED BY <2>1, FS_Subset, Zenon
<1>2. PICK n \in Nat : /\ Len(order) = n /\ order \in [1 .. n -> S]
                       /\ \A i, j \in 1 .. n : order[i] = order[j] => i = j
                       /\ S = {order[i] : i \in 1 .. n}
  BY <1>1, Orders
<1>3. PICK f : OneByOne(f, v, order, n)
  BY OneByOneIs
<1>4. PICK all : /\ TakeAll(v, order) = all[n]
                 /\ OneByOne(all, v, order, n)
  <2> DEFINE all == CHOOSE g : g = [i \in 0 .. Len(order) |-> IF i = 0 THEN v ELSE Take(g[i - 1], order[i])]
  <2>1. TakeAll(v, order) = all[Len(order)]
    BY Zenon DEF TakeAll
  <2>2. all = [i \in 0 .. Len(order) |-> IF i = 0 THEN v ELSE Take(all[i - 1], order[i])]
    <3>1. f = [i \in 0 .. Len(order) |-> IF i = 0 THEN v ELSE Take(f[i - 1], order[i])]
      BY <1>2, <1>3, Zenon DEF OneByOne
    <3> QED BY <3>1, Zenon
  <2> HIDE DEF all
  <2>3. OneByOne(all, v, order, n)
    BY <1>2, <2>2, Zenon DEF OneByOne
  <2> QED BY <1>2, <2>1, <2>3, Zenon
<1>5. \A i \in 0 .. n : all[i] = IF i = 0 THEN v ELSE Take(all[i - 1], order[i])
  BY <1>4, Zenon DEF OneByOne
<1> DEFINE Others(i) == T \ {order[j] : j \in 1 .. i}
           Good == {i \in Nat : i <= n => Sound(window, d, all[i], Others(i))}
<1>6. 0 \in Good
  <2>1. Others(0) = T
    OBVIOUS
  <2>2. 0 \in 0 .. n
    OBVIOUS
  <2>3. all[0] = v
    BY <1>5, <2>2, Zenon
  <2> QED BY <2>1, <2>3
<1>7. ASSUME NEW i \in Nat, i \in Good PROVE i + 1 \in Good
  <2> SUFFICES ASSUME i + 1 <= n PROVE Sound(window, d, all[i + 1], Others(i + 1))
    OBVIOUS
  <2>1. Sound(window, d, all[i], Others(i))
    BY <1>7
  <2>2. i + 1 \in 1 .. n /\ i + 1 \in 0 .. n /\ i + 1 # 0 /\ (i + 1) - 1 = i
    OBVIOUS
  <2>3. all[i + 1] = Take(all[i], order[i + 1])
    BY <1>5, <2>2, Zenon
  <2>4. PICK t, x : t = order[i + 1] /\ x = all[i]
    OBVIOUS
  <2>5. t \in S /\ \A j \in 1 .. i : order[j] # t
    BY <1>2, <2>2, <2>4
  <2>6. t \in Others(i) /\ t.at = "answered"
    BY <2>5
  <2>7. Others(i + 1) = Others(i) \ {t}
    BY <2>4, <2>2
  <2>8. PICK R : R = Others(i)
    OBVIOUS
  <2>9. Sound(window, d, Take(x, t), R \ {t})
    <3> HIDE DEF Others, Good
    <3>1. t \in R /\ t.at = "answered" /\ Sound(window, d, x, R)
      BY <2>1, <2>4, <2>6, <2>8, Zenon
    <3> QED BY <3>1, Takes
  <2> HIDE DEF Others, Good
  <2> QED BY <2>3, <2>4, <2>7, <2>8, <2>9, Zenon
<1>8. n \in Good
  <2> HIDE DEF Good
  <2> QED BY <1>6, <1>7, Counting
<1>9. Others(n) = T \ S
  BY <1>2
<1>10. Sound(window, d, all[n], Others(n))
  BY <1>8
<1> HIDE DEF Others, Good
<1> QED BY <1>4, <1>9, <1>10, Zenon

\* The fields the news are about.
Watched == {"pending", "sent", "missed", "tab", "watches", "paused", "summary", "page", "results"}

\* Views that differ in other fields only.
LEMMA SameSound ==
  ASSUME NEW w, NEW d, NEW v, NEW T, Sound(w, d, v, T), NEW u, DOMAIN u = Fields,
         \A f \in Watched : u[f] = v[f]
  PROVE  Sound(w, d, u, T)
<1>1. /\ u.pending = v.pending /\ u.sent = v.sent /\ u.missed = v.missed /\ u.tab = v.tab
      /\ u.watches = v.watches /\ u.paused = v.paused
      /\ u.summary = v.summary /\ u.page = v.page /\ u.results = v.results
  BY DEF Watched
<1>2. Orderly(w, v, T) /\ DOMAIN d = {"scans", "active", "ids", "given", "paused"}
  BY Zenon DEF Sound
<1>3. Orderly(w, u, T)
  BY <1>1, <1>2, Zenon DEF Orderly, OneEach
<1>4. ASSUME ~u.missed PROVE News(w, d, u, T)
  <2>1. News(w, d, v, T)
    BY <1>1, <1>4, Zenon DEF Sound
  <2>2. w = "debugger" => PausedNews(d, u, T)
    BY <2>1, <1>1, SamePaused, Zenon DEF News
  <2>3. w # "debugger" => WatchNews(d, u, T)
    BY <2>1, <1>1, SameWatches, Zenon DEF News
  <2>4. w # "debugger" => PageNews(u, T)
    BY <2>1, <1>1, SamePage, Zenon DEF News
  <2> QED BY <2>2, <2>3, <2>4, Zenon DEF News
<1> QED BY <1>2, <1>3, <1>4, Zenon DEF Sound

\* Requests that do not ask for a page keep the window sound.
LEMMA SoundSubmit ==
  ASSUME NEW w, NEW d, NEW v, NEW T, NEW wanted, Sound(w, d, v, T), Askable(w, v, wanted),
         \A r \in wanted : r.kind # "ScanResults"
  PROVE  Sound(w, d, Submit(v, wanted), T)
<1>1. Orderly(w, v, T) /\ DOMAIN d = {"scans", "active", "ids", "given", "paused"}
  BY Zenon DEF Sound
<1>2. DOMAIN v = Fields /\ v.missed \in BOOLEAN
  BY <1>1, Zenon DEF Orderly
<1>3. Orderly(w, Submit(v, wanted), T)
  BY <1>1, Submitting
<1>4. v.missed => Submit(v, wanted).missed
  BY <1>2, StillNews
<1>5. PausedNews(d, v, T) => PausedNews(d, Submit(v, wanted), T)
  BY <1>2, StillNews
<1>6. WatchNews(d, v, T) => WatchNews(d, Submit(v, wanted), T)
  BY <1>2, StillNews
<1>7. PageNews(v, T) => PageNews(Submit(v, wanted), T)
  BY <1>2, StillNews
<1>8. ~v.missed => News(w, d, v, T)
  BY Zenon DEF Sound
<1>9. ~Submit(v, wanted).missed => News(w, d, Submit(v, wanted), T)
  BY <1>4, <1>5, <1>6, <1>7, <1>8, Zenon DEF News
<1> QED BY <1>1, <1>3, <1>9, Zenon DEF Sound

\* So does one request.
LEMMA SoundAsk ==
  ASSUME NEW w, NEW d, NEW v, NEW T, Sound(w, d, v, T), NEW kind, NEW id,
         kind \notin Foreign(w) \cup {"FirstScan", "NextScan", "ScanResults"}
  PROVE  Sound(w, d, Submit(v, {Ask(kind, id)}), T)
<1>1. PICK wanted : wanted = {Ask(kind, id)}
  OBVIOUS
<1>2. Orderly(w, v, T)
  BY Zenon DEF Sound
<1>3. Askable(w, v, wanted)
  BY <1>1, <1>2, AskableOne
<1>4. \A r \in wanted : r.kind # "ScanResults"
  BY <1>1 DEF Ask
<1>5. Sound(w, d, Submit(v, wanted), T)
  BY <1>3, <1>4, SoundSubmit
<1> QED BY <1>1, <1>5, Zenon

\* What was asked for is handed to threads.
LEMMA Handed ==
  ASSUME NEW w, NEW d, NEW v, NEW T, Sound(w, d, v, T),
         NEW u, u = [v EXCEPT !.sent = {}, !.spawns = TRUE]
  PROVE  Sound(w, d, u, T \cup v.sent) /\ u.sent = {}
<1>1. Orderly(w, v, T) /\ DOMAIN d = {"scans", "active", "ids", "given", "paused"}
  BY Zenon DEF Sound
<1>2. DOMAIN v = Fields
  BY <1>1, Zenon DEF Orderly
<1>3. DOMAIN u = Fields /\ u.sent = {} /\ \A f \in Watched \ {"sent"} : u[f] = v[f]
  BY <1>2 DEF Fields, Watched
<1>4. /\ u.pending = v.pending /\ u.missed = v.missed /\ u.tab = v.tab
      /\ u.watches = v.watches /\ u.paused = v.paused
      /\ u.summary = v.summary /\ u.page = v.page /\ u.results = v.results
  BY <1>3 DEF Watched
<1>5. PICK R : R = T \cup v.sent
  OBVIOUS
<1>6. R \cup u.sent = R /\ \A t \in R : t \in T \/ t.at = "sent"
  BY <1>1, <1>3, <1>5 DEF Orderly
<1>7. Orderly(w, u, R)
  <2>1. IsFiniteSet(R)
    BY <1>1, <1>5, FS_Union, Zenon DEF Orderly
  <2>2. IsFiniteSet(u.sent) /\ \A t \in u.sent : t.at = "sent"
    BY <1>3, FS_EmptySet
  <2>3. OneEach(u, R)
    BY <1>1, <1>4, <1>5, Zenon DEF Orderly, OneEach
  <2>4. \A t \in R : Fits(t)
    BY <1>1, <1>6 DEF Orderly, Fits
  <2>5. \A t \in R : DOMAIN t = {"kind", "id", "at", "answer"} /\ t.kind \notin Foreign(w)
    BY <1>1, <1>5, Zenon DEF Orderly
  <2>6. u.missed \in BOOLEAN /\ u.tab \in Tabs(w) \cup {"none"}
    BY <1>1, <1>4, Zenon DEF Orderly
  <2> QED BY <1>3, <1>6, <2>1, <2>2, <2>3, <2>4, <2>5, <2>6, Zenon DEF Orderly
<1>8. \A is : Has(T, is) => Has(R, is)
  BY <1>5, Zenon DEF Has
<1>9. PausedNews(d, v, T) => PausedNews(d, u, R)
  BY <1>4, <1>6, <1>8 DEF PausedNews
<1>10. WatchNews(d, v, T) => WatchNews(d, u, R)
  BY <1>4, <1>6, <1>8 DEF WatchNews
<1>11. PageNews(v, T) => PageNews(u, R)
  <2>1. PICK there : there = v.summary * 10 + v.page
    OBVIOUS
  <2>2. u.summary * 10 + u.page = there
    BY <1>4, <2>1, Zenon
  <2>3. ASSUME PageNews(v, T) PROVE PageNews(u, R)
    <3>1. u.summary # 0 =>
            /\ u.results = there \/ "ScanResults" \in u.pending
            /\ \A t \in R \cup u.sent : t.kind = "ScanResults" => t.id = there
      BY <1>4, <1>5, <1>6, <2>1, <2>3, Zenon DEF PageNews
    <3>2. \A t \in R : t.kind = "ScanResults" /\ t.at = "answered" =>
            t.answer.is = "results" /\ t.answer.id = t.id
      BY <1>6, <2>3 DEF PageNews
    <3> QED BY <2>2, <3>1, <3>2, Zenon DEF PageNews
  <2> QED BY <2>3
<1>12. ~u.missed => News(w, d, u, R)
  BY <1>4, <1>9, <1>10, <1>11, Zenon DEF Sound, News
<1> QED BY <1>1, <1>3, <1>5, <1>7, <1>12, Zenon DEF Sound

\* A thread goes on with its command.
LEMMA GoesOn ==
  ASSUME NEW w, NEW d, NEW v, NEW T, Sound(w, d, v, T), v.sent = {}, NEW t \in T, t.at # "answered",
         NEW u, DOMAIN u = {"kind", "id", "at", "answer"}, u.kind = t.kind, Fits(u),
         u.kind = "ScanResults" => u.id = t.id,
         NEW e, DOMAIN e = {"scans", "active", "ids", "given", "paused"},
         NEW y, DOMAIN y = Fields, \A f \in Watched \ {"missed"} : y[f] = v[f],
         y.missed \in BOOLEAN, v.missed => y.missed,
         ~y.missed =>
           /\ w # "debugger" => e.ids = d.ids \/ (u.at = "answered" /\ u.answer.is = "watch")
           /\ w = "debugger" => e.paused = d.paused \/ (u.at = "answered" /\ u.answer.is = "control")
           /\ u.at = "answered" =>
                /\ u.kind = "Status" => u.answer.is = "status" /\ u.answer.more = d.paused
                /\ u.kind = "ListWatches" => u.answer.is = "watches"
                /\ u.kind = "RefreshWatches" => u.answer.is = "values" /\ u.answer.ids = d.ids
                /\ u.kind = "ScanResults" => u.answer.is = "results" /\ u.answer.id = u.id
  PROVE  Sound(w, e, y, (T \ {t}) \cup {u})
<1>1. Orderly(w, v, T)
  BY Zenon DEF Sound
<1>2. /\ y.pending = v.pending /\ y.sent = {} /\ y.tab = v.tab
      /\ y.watches = v.watches /\ y.paused = v.paused
      /\ y.summary = v.summary /\ y.page = v.page /\ y.results = v.results
  BY DEF Watched
<1>3. PICK R : R = (T \ {t}) \cup {u}
  OBVIOUS
<1>4. T \cup v.sent = T /\ R \cup y.sent = R
  BY <1>2
<1>5. /\ v.pending = KindsOf(T)
      /\ \A r, s \in T : r.kind = s.kind => r = s
      /\ ~({"FirstScan", "NextScan"} \subseteq v.pending)
  BY <1>1, <1>4, Zenon DEF Orderly, OneEach
<1>6. OneEach(y, R)
  <2>1. KindsOf(R) = KindsOf(T)
    BY <1>3 DEF KindsOf
  <2>2. ASSUME NEW r \in R, NEW s \in R, r.kind = s.kind PROVE r = s
    <3>1. \A x \in T \ {t} : x.kind # t.kind
      BY <1>5, Zenon
    <3>2. CASE r = u \/ s = u
      BY <1>3, <2>2, <3>1, <3>2, Zenon
    <3>3. CASE r # u /\ s # u
      BY <1>3, <1>5, <2>2, <3>3, Zenon
    <3> QED BY <3>2, <3>3
  <2> QED BY <1>2, <1>5, <2>1, <2>2, Zenon DEF OneEach
<1>7. Orderly(w, y, R)
  <2>1. IsFiniteSet(R)
    <3>1. IsFiniteSet(T)
      BY <1>1, Zenon DEF Orderly
    <3>2. IsFiniteSet(T \ {t})
      BY <3>1, FS_RemoveElement, Zenon
    <3> QED BY <1>3, <3>2, FS_AddElement, Zenon
  <2>2. IsFiniteSet(y.sent) /\ \A s \in y.sent : s.at = "sent"
    BY <1>2, FS_EmptySet
  <2>3. \A r \in R : Fits(r)
    BY <1>1, <1>3, Zenon DEF Orderly
  <2>4. \A r \in R : DOMAIN r = {"kind", "id", "at", "answer"} /\ r.kind \notin Foreign(w)
    BY <1>1, <1>3, Zenon DEF Orderly
  <2>5. y.tab \in Tabs(w) \cup {"none"}
    BY <1>1, <1>2, Zenon DEF Orderly
  <2> QED BY <1>4, <1>6, <2>1, <2>2, <2>3, <2>4, <2>5, Zenon DEF Orderly
<1>8. \A is : Has(T, is) => Has(R, is)
  BY <1>3, Zenon DEF Has
<1>9. \A is : u.at = "answered" /\ u.answer.is = is => Has(R, is)
  BY <1>3, Zenon DEF Has
<1>10. ASSUME ~y.missed, w = "debugger" PROVE PausedNews(e, y, R)
  <2>1. PausedNews(d, v, T)
    BY <1>10, Zenon DEF Sound, News
  <2>2. e.paused = d.paused \/ Has(R, "control")
    BY <1>9, <1>10, Zenon
  <2>3. y.paused = e.paused \/ "Status" \in y.pending \/ Has(R, "control")
    BY <1>2, <1>8, <2>1, <2>2 DEF PausedNews
  <2>4. ASSUME NEW r \in R, r.kind = "Status", r.at = "answered"
        PROVE  r.answer.is = "status" /\ (r.answer.more = e.paused \/ Has(R, "control"))
    <3>1. CASE r = u
      BY <3>1, <1>10, <2>2, <2>4
    <3>2. CASE r \in T
      BY <3>2, <1>8, <2>1, <2>2, <2>4 DEF PausedNews
    <3> QED BY <1>3, <3>1, <3>2
  <2> QED BY <2>3, <2>4, Zenon DEF PausedNews
<1>11. ASSUME ~y.missed, w # "debugger" PROVE WatchNews(e, y, R)
  <2>1. WatchNews(d, v, T)
    BY <1>11, Zenon DEF Sound, News
  <2>2. e.ids = d.ids \/ Has(R, "watch")
    BY <1>9, <1>11, Zenon
  <2>3. y.watches = e.ids \/ {"RefreshWatches", "ListWatches"} \cap y.pending # {} \/ Has(R, "watch")
    BY <1>2, <1>8, <2>1, <2>2 DEF WatchNews
  <2>4. ASSUME NEW r \in R, r.at = "answered"
        PROVE  /\ r.kind = "ListWatches" => r.answer.is = "watches"
               /\ r.kind = "RefreshWatches" =>
                    r.answer.is = "values" /\ (r.answer.ids = e.ids \/ Has(R, "watch"))
    <3>1. CASE r = u
      BY <3>1, <1>11, <2>2, <2>4
    <3>2. CASE r \in T
      BY <3>2, <1>8, <2>1, <2>2, <2>4 DEF WatchNews
    <3> QED BY <1>3, <3>1, <3>2
  <2> QED BY <2>3, <2>4, Zenon DEF WatchNews
<1>12. ASSUME ~y.missed, w # "debugger" PROVE PageNews(y, R)
  <2>1. PageNews(v, T)
    BY <1>12, Zenon DEF Sound, News
  <2>2. PICK there : there = v.summary * 10 + v.page
    OBVIOUS
  <2>3. y.summary * 10 + y.page = there
    BY <1>2, <2>2, Zenon
  <2>4. y.summary # 0 =>
          /\ y.results = there \/ "ScanResults" \in y.pending
          /\ \A r \in R \cup y.sent : r.kind = "ScanResults" => r.id = there
    <3>1. v.summary # 0 =>
            /\ v.results = there \/ "ScanResults" \in v.pending
            /\ \A r \in T : r.kind = "ScanResults" => r.id = there
      BY <1>4, <2>1, <2>2, Zenon DEF PageNews
    <3> QED BY <1>2, <1>3, <1>4, <3>1
  <2>5. ASSUME NEW r \in R, r.kind = "ScanResults", r.at = "answered"
        PROVE  r.answer.is = "results" /\ r.answer.id = r.id
    <3>1. CASE r = u
      BY <3>1, <1>12, <2>5
    <3>2. CASE r \in T
      BY <3>2, <2>1, <2>5, Zenon DEF PageNews
    <3> QED BY <1>3, <3>1, <3>2
  <2> QED BY <2>3, <2>4, <2>5, Zenon DEF PageNews
<1>13. ~y.missed => News(w, e, y, R)
  BY <1>10, <1>11, <1>12, Zenon DEF News
<1> QED BY <1>3, <1>7, <1>13, Zenon DEF Sound

\* The view of a frame or of a click, before anything happens.
LEMMA Viewed ==
  ASSUME WindowInv, NEW spawns, NEW v \in Views(spawns)
  PROVE  /\ Sound(window, world, v, tasks) /\ v.sent = {}
         /\ \A f \in Fields \ {"spawns"} : v[f] = view[f]
<1>1. PICK ok \in spawns : v = [view EXCEPT !.spawns = ok]
  BY Zenon DEF Views
<1>2. DOMAIN view = Fields /\ view.sent = {} /\ Sound(window, world, view, tasks)
  BY Zenon DEF WindowInv, Sound, Orderly
<1>3. DOMAIN v = Fields /\ \A f \in Fields \ {"spawns"} : v[f] = view[f]
  BY <1>1, <1>2 DEF Fields
<1>4. \A f \in Watched : v[f] = view[f]
  BY <1>3 DEF Watched, Fields
<1>5. v.sent = {}
  BY <1>2, <1>4 DEF Watched
<1> QED BY <1>2, <1>3, <1>4, <1>5, SameSound, Zenon

\* A click comes to this.
LEMMA Clicked ==
  ASSUME WindowInv, NEW tab, Clicking(tab), NEW v, Keep(v), Sound(window, world, v, tasks)
  PROVE  WindowInv'
<1>1. /\ thread = "open" /\ thread' = thread /\ window' = window /\ world' = world
      /\ shutdown' = shutdown /\ late' = late /\ closing' = closing
  BY Zenon DEF Clicking, rest, screen
<1>2. view' = [v EXCEPT !.sent = {}, !.spawns = TRUE] /\ tasks' = tasks \cup v.sent
  BY Zenon DEF Keep
<1>3. PICK u, T : u = view' /\ T = tasks
  OBVIOUS
<1>4. Sound(window, world, u, T \cup v.sent) /\ u.sent = {}
  BY <1>2, <1>3, Handed
<1>5. Sound(window', world', view', tasks') /\ view'.sent = {}
  BY <1>1, <1>2, <1>3, <1>4, Zenon
<1>6. Ending'
  BY <1>1 DEF Ending, WindowInv
<1>7. window' \in {"main", "debugger"} /\ thread' \in {"starting", "open", "closed"}
  BY <1>1, Zenon DEF WindowInv
<1> QED BY <1>5, <1>6, <1>7, Zenon DEF WindowInv

\* A click that asks for one thing.
LEMMA ClickAsks ==
  ASSUME WindowInv, NEW tab, Clicking(tab), NEW v, Sound(window, world, v, tasks), NEW kind, NEW id,
         kind \notin Foreign(window) \cup {"FirstScan", "NextScan", "ScanResults"},
         Keep(Submit(v, {Ask(kind, id)}))
  PROVE  WindowInv'
<1>1. Sound(window, world, Submit(v, {Ask(kind, id)}), tasks)
  BY SoundAsk
<1> QED BY <1>1, Clicked, Zenon

\* Requests of neither window are foreign to it.
LEMMA NotForeign ==
  \A w : \A kind \in {"AddWatch", "SetWatchFreeze", "RemoveWatch", "RefreshWatches", "CancelScan", "ReadMemory",
            "WriteMemory", "ListModules", "Speed", "Registers", "Pause", "Resume", "Step", "ListThreads",
            "Disassemble", "ListBreakpoints", "ActiveScans", "ListWatches", "Status"} :
    kind \notin Foreign(w) \cup {"FirstScan", "NextScan", "ScanResults"}
  BY DEF Foreign

\* One scan more may be asked for.
LEMMA AskableScan ==
  ASSUME NEW w, NEW v, NEW kind \in {"FirstScan", "NextScan"}, NEW id, ~Scanning(v)
  PROVE  /\ Askable(w, v, {Ask(kind, id)})
         /\ \A r \in {Ask(kind, id)} : r.kind # "ScanResults"
<1>1. PICK r : r = Ask(kind, id)
  OBVIOUS
<1>2. r.kind = kind /\ r.at = "sent" /\ DOMAIN r = {"kind", "id", "at", "answer"}
  BY <1>1 DEF Ask
<1>3. IsFiniteSet({r})
  BY FS_Singleton, Zenon
<1>4. KindsOf({r}) = {kind}
  BY <1>2 DEF KindsOf
<1>5. ~({"FirstScan", "NextScan"} \subseteq v.pending \cup {kind})
  BY DEF Scanning
<1>6. kind \notin Foreign(w)
  BY DEF Foreign
<1>7. Askable(w, v, {r})
  BY <1>2, <1>3, <1>4, <1>5, <1>6, Zenon DEF Askable
<1> QED BY <1>1, <1>2, <1>7, Zenon

\* A scan is asked for: the page is shown, or there is nothing to show.
LEMMA ScanAsked ==
  ASSUME WindowInv, NEW v \in Views(BOOLEAN), NEW kind \in {"FirstScan", "NextScan"}, NEW id,
         ~Scanning(view),
         NEW x, x = Submit(v, {Ask(kind, id)}), NEW y,
         \/ y = [x EXCEPT !.results = 0, !.summary = 0, !.total = 0, !.active = 0]
         \/ y = [x EXCEPT !.active = 0]
  PROVE  Sound(window, world, y, tasks)
<1>1. /\ Sound(window, world, v, tasks) /\ \A f \in Fields \ {"spawns"} : v[f] = view[f]
  BY Viewed
<1>2. ~Scanning(v)
  BY <1>1 DEF Scanning, Fields
<1>3. PICK wanted : wanted = {Ask(kind, id)}
  OBVIOUS
<1>4. Askable(window, v, wanted) /\ \A r \in wanted : r.kind # "ScanResults"
  BY <1>2, <1>3, AskableScan
<1>5. Sound(window, world, x, tasks)
  BY <1>1, <1>3, <1>4, SoundSubmit
<1>6. DOMAIN x = Fields
  BY <1>5, Zenon DEF Sound, Orderly
<1>7. CASE y = [x EXCEPT !.active = 0]
  <2>1. DOMAIN y = Fields /\ \A f \in Watched : y[f] = x[f]
    BY <1>6, <1>7 DEF Fields, Watched
  <2> QED BY <1>5, <2>1, SameSound
<1>8. CASE y = [x EXCEPT !.results = 0, !.summary = 0, !.total = 0, !.active = 0]
  <2>1. /\ DOMAIN y = Fields /\ y.summary = 0
        /\ \A f \in {"pending", "sent", "missed", "tab", "watches", "paused"} : y[f] = x[f]
    BY <1>6, <1>8 DEF Fields
  <2>2. /\ y.pending = x.pending /\ y.sent = x.sent /\ y.missed = x.missed /\ y.tab = x.tab
        /\ y.watches = x.watches /\ y.paused = x.paused
    BY <2>1
  <2>3. Orderly(window, x, tasks) /\ DOMAIN world = {"scans", "active", "ids", "given", "paused"}
    BY <1>5, Zenon DEF Sound
  <2>4. Orderly(window, y, tasks)
    BY <2>1, <2>2, <2>3, Zenon DEF Orderly, OneEach
  <2>5. PageNews(x, tasks) => PageNews(y, tasks)
    BY <2>1, Zenon DEF PageNews
  <2>6. WatchNews(world, x, tasks) => WatchNews(world, y, tasks)
    BY <2>2, SameWatches, Zenon
  <2>7. PausedNews(world, x, tasks) => PausedNews(world, y, tasks)
    BY <2>2, SamePaused, Zenon
  <2>8. ~y.missed => News(window, world, y, tasks)
    BY <1>5, <2>2, <2>5, <2>6, <2>7, Zenon DEF Sound, News
  <2> QED BY <2>3, <2>4, <2>8, Zenon DEF Sound
<1> QED BY <1>7, <1>8

\* The page is turned.
LEMMA PageTurned ==
  ASSUME WindowInv, NEW v \in Views(BOOLEAN), NEW page, NEW x, x = [v EXCEPT !.page = page],
         NEW u, u = ShowPage(x)
  PROVE  Sound(window, world, u, tasks)
<1>1. Sound(window, world, v, tasks)
  BY Viewed
<1>2. Orderly(window, v, tasks) /\ DOMAIN world = {"scans", "active", "ids", "given", "paused"}
  BY <1>1, Zenon DEF Sound
<1>3. DOMAIN v = Fields
  BY <1>2, Zenon DEF Orderly
<1>4. DOMAIN x = Fields /\ \A f \in {"pending", "sent", "missed", "tab", "watches", "paused"} : x[f] = v[f]
  BY <1>3 DEF Fields
<1>5. x.pending = v.pending /\ x.missed = v.missed /\ x.watches = v.watches /\ x.paused = v.paused
  BY <1>4
<1>6. Orderly(window, x, tasks)
  BY <1>2, <1>4, Reshown
<1>7. /\ Orderly(window, u, tasks)
      /\ x.missed => u.missed
      /\ WatchNews(world, x, tasks) => WatchNews(world, u, tasks)
      /\ PausedNews(world, x, tasks) => PausedNews(world, u, tasks)
  BY <1>6, ShowingPage
<1>8. ASSUME ~u.missed PROVE News(window, world, u, tasks)
  <2>1. News(window, world, v, tasks)
    BY <1>1, <1>5, <1>7, <1>8, Zenon DEF Sound
  <2>2. CASE window = "debugger"
    <3>1. PausedNews(world, x, tasks)
      BY <2>1, <2>2, <1>5, SamePaused, Zenon DEF News
    <3> QED BY <2>2, <3>1, <1>7, Zenon DEF News
  <2>3. CASE window # "debugger"
    <3>1. WatchNews(world, x, tasks)
      BY <2>1, <2>3, <1>5, SameWatches, Zenon DEF News
    <3>2. \A t \in tasks : t.kind = "ScanResults" /\ t.at = "answered" =>
                             t.answer.is = "results" /\ t.answer.id = t.id
      BY <2>1, <2>3, Zenon DEF News, PageNews
    <3>3. PageNews(u, tasks)
      BY <1>6, <1>8, <3>2, PageAsked
    <3> QED BY <2>3, <3>1, <3>3, <1>7, Zenon DEF News
  <2> QED BY <2>2, <2>3
<1> QED BY <1>2, <1>7, <1>8, Zenon DEF Sound

\* A click keeps the invariant.
LEMMA ClickKeeps ==
  ASSUME WindowInv,
         \/ FirstScan \/ NextScan \/ CancelScan \/ TurnPage \/ WatchResult \/ EditWatches \/ EditMemory
         \/ ListAll \/ PressSpeed \/ SelectTab \/ ControlThread \/ Disassemble \/ EditBreakpoints
  PROVE  WindowInv'
<1>0. DOMAIN view = Fields /\ Sound(window, world, view, tasks)
  BY Zenon DEF WindowInv, Sound, Orderly
<1>1. CASE FirstScan
  <2>1. /\ Clicking("Scan") /\ ~Scanning(view)
        /\ \E v \in Views(BOOLEAN) :
             Keep([Submit(v, {Ask("FirstScan", 0)}) EXCEPT
                     !.results = 0, !.summary = 0, !.total = 0, !.active = 0])
    BY <1>1, Zenon DEF FirstScan
  <2>2. PICK v \in Views(BOOLEAN) :
             Keep([Submit(v, {Ask("FirstScan", 0)}) EXCEPT
                     !.results = 0, !.summary = 0, !.total = 0, !.active = 0])
    BY <2>1, Zenon
  <2>3. PICK kind \in {"FirstScan", "NextScan"} : kind = "FirstScan"
    OBVIOUS
  <2>4. PICK x : x = Submit(v, {Ask(kind, 0)})
    OBVIOUS
  <2>5. PICK y : y = [x EXCEPT !.results = 0, !.summary = 0, !.total = 0, !.active = 0]
    OBVIOUS
  <2>6. Keep(y)
    BY <2>2, <2>3, <2>4, <2>5, Zenon
  <2>7. Sound(window, world, y, tasks)
    BY <2>1, <2>4, <2>5, ScanAsked
  <2> QED BY <2>1, <2>6, <2>7, Clicked
<1>2. CASE NextScan
  <2>1. Clicking("Scan") /\ ~Scanning(view)
    BY <1>2, Zenon DEF NextScan
  <2>2. PICK v \in Views(BOOLEAN) : Keep([Submit(v, {Ask("NextScan", v.summary)}) EXCEPT !.active = 0])
    BY <1>2, Zenon DEF NextScan
  <2>3. PICK kind, id : kind \in {"FirstScan", "NextScan"} /\ kind = "NextScan" /\ id = v.summary
    OBVIOUS
  <2>4. PICK x : x = Submit(v, {Ask(kind, id)})
    OBVIOUS
  <2>5. PICK y : y = [x EXCEPT !.active = 0]
    OBVIOUS
  <2>6. Keep(y)
    BY <2>2, <2>3, <2>4, <2>5, Zenon
  <2>7. Sound(window, world, y, tasks)
    BY <2>1, <2>3, <2>4, <2>5, ScanAsked
  <2> QED BY <2>1, <2>6, <2>7, Clicked
<1>3. CASE CancelScan
  <2>1. Clicking("Scan")
    BY <1>3, Zenon DEF CancelScan
  <2>2. PICK v \in Views(BOOLEAN) : Keep(Submit(v, {Ask("CancelScan", v.active)}))
    BY <1>3, Zenon DEF CancelScan
  <2> QED BY <2>1, <2>2, Viewed, ClickAsks, NotForeign
<1>4. CASE TurnPage
  <2>1. Clicking("Scan")
    BY <1>4, Zenon DEF TurnPage
  <2>2. PICK v \in Views(BOOLEAN) :
          Keep(ShowPage([v EXCEPT !.page = @ - 1])) \/ Keep(ShowPage([v EXCEPT !.page = @ + 1]))
    BY <1>4, Zenon DEF TurnPage
  <2>3. PICK page : Keep(ShowPage([v EXCEPT !.page = page]))
    BY <2>2, Zenon
  <2>4. PICK x : x = [v EXCEPT !.page = page]
    OBVIOUS
  <2>5. PICK u : u = ShowPage(x)
    OBVIOUS
  <2>6. Keep(u)
    BY <2>3, <2>4, <2>5, Zenon
  <2>7. Sound(window, world, u, tasks)
    BY <2>4, <2>5, PageTurned
  <2> QED BY <2>1, <2>6, <2>7, Clicked
<1>5. CASE WatchResult
  <2>1. Clicking("Scan")
    BY <1>5, Zenon DEF WatchResult
  <2>2. PICK v \in Views(BOOLEAN) : Keep(Submit(v, {Ask("AddWatch", 0)}))
    BY <1>5, Zenon DEF WatchResult
  <2> QED BY <2>1, <2>2, Viewed, ClickAsks, NotForeign
<1>6. CASE EditWatches
  <2>1. Clicking("Watches")
    BY <1>6, Zenon DEF EditWatches
  <2>2. PICK v \in Views(BOOLEAN), kind \in {"AddWatch", "SetWatchFreeze", "RemoveWatch", "RefreshWatches"} :
          \E id : Keep(Submit(v, {Ask(kind, id)}))
    BY <1>6, Zenon DEF EditWatches, Refresh
  <2> QED BY <2>1, <2>2, Viewed, ClickAsks, NotForeign
<1>7. CASE EditMemory
  <2>1. Clicking("Memory")
    BY <1>7, Zenon DEF EditMemory
  <2>2. PICK v \in Views(BOOLEAN), kind \in {"ReadMemory", "WriteMemory"} : Keep(Submit(v, {Ask(kind, 0)}))
    BY <1>7, Zenon DEF EditMemory
  <2> QED BY <2>1, <2>2, Viewed, ClickAsks, NotForeign
<1>8. CASE ListAll
  <2>1. Clicking("Lists")
    BY <1>8, Zenon DEF ListAll
  <2>2. PICK v \in Views(BOOLEAN) : Keep(Submit(v, {Ask("ListModules", 0)}))
    BY <1>8, Zenon DEF ListAll
  <2> QED BY <2>1, <2>2, Viewed, ClickAsks, NotForeign
<1>9. CASE PressSpeed
  <2>1. Clicking("Speed")
    BY <1>9, Zenon DEF PressSpeed
  <2>2. PICK v \in Views(BOOLEAN) : Keep(Submit(v, {Ask("Speed", 0)}))
    BY <1>9, Zenon DEF PressSpeed
  <2> QED BY <2>1, <2>2, Viewed, ClickAsks, NotForeign
<1>10. CASE SelectTab
  <2>1. PICK tab \in Tabs(window) : Clicking(view.tab) /\ Keep([view EXCEPT !.tab = tab])
    BY <1>10, Zenon DEF SelectTab
  <2>2. PICK u : u = [view EXCEPT !.tab = tab]
    OBVIOUS
  <2>3. /\ DOMAIN u = Fields /\ u.tab = tab
        /\ \A f \in Watched \ {"tab"} : u[f] = view[f]
    BY <1>0, <2>2 DEF Fields, Watched
  <2>4. /\ u.pending = view.pending /\ u.sent = view.sent /\ u.missed = view.missed
        /\ u.watches = view.watches /\ u.paused = view.paused
        /\ u.summary = view.summary /\ u.page = view.page /\ u.results = view.results
    BY <2>3 DEF Watched
  <2>5. Orderly(window, u, tasks) /\ DOMAIN world = {"scans", "active", "ids", "given", "paused"}
    BY <1>0, <2>3, <2>4, Zenon DEF Sound, Orderly, OneEach
  <2>6. News(window, world, view, tasks) => News(window, world, u, tasks)
    BY <2>4, SamePaused, SameWatches, SamePage, Zenon DEF News
  <2>7. Sound(window, world, u, tasks)
    BY <1>0, <2>4, <2>5, <2>6, Zenon DEF Sound
  <2> QED BY <2>1, <2>2, <2>7, Clicked
<1>11. CASE ControlThread
  <2>1. Clicking("Threads")
    BY <1>11, Zenon DEF ControlThread
  <2>2. PICK v \in Views(BOOLEAN) :
          \/ \E t : Keep([v EXCEPT !.selected = t])
          \/ \E kind \in {"Pause", "Resume", "Step", "Registers", "ListThreads"} : \E id :
               Keep(Submit(v, {Ask(kind, id)}))
          \/ Keep(v)
    BY <1>11, Zenon DEF ControlThread, RequestRegisters
  <2>3. Sound(window, world, v, tasks)
    BY Viewed
  <2>4. CASE \E t : Keep([v EXCEPT !.selected = t])
    <3>1. PICK t : Keep([v EXCEPT !.selected = t])
      BY <2>4
    <3>2. PICK u : u = [v EXCEPT !.selected = t]
      OBVIOUS
    <3>3. DOMAIN v = Fields
      BY <2>3, Zenon DEF Sound, Orderly
    <3>4. DOMAIN u = Fields /\ \A f \in Watched : u[f] = v[f]
      BY <3>2, <3>3 DEF Fields, Watched
    <3>5. Sound(window, world, u, tasks)
      BY <2>3, <3>4, SameSound
    <3> QED BY <2>1, <3>1, <3>2, <3>5, Clicked
  <2>5. CASE \E kind \in {"Pause", "Resume", "Step", "Registers", "ListThreads"} : \E id :
               Keep(Submit(v, {Ask(kind, id)}))
    BY <2>1, <2>3, <2>5, ClickAsks, NotForeign
  <2>6. CASE Keep(v)
    BY <2>1, <2>3, <2>6, Clicked
  <2> QED BY <2>2, <2>4, <2>5, <2>6
<1>12. CASE Disassemble
  <2>1. Clicking("Disassembly")
    BY <1>12, Zenon DEF Disassemble
  <2>2. PICK v \in Views(BOOLEAN) : Keep(Submit(v, {Ask("Disassemble", 0)}))
    BY <1>12, Zenon DEF Disassemble
  <2> QED BY <2>1, <2>2, Viewed, ClickAsks, NotForeign
<1>13. CASE EditBreakpoints
  <2>1. Clicking("Breakpoints") /\ view.tab = "Breakpoints"
    BY <1>13, Zenon DEF EditBreakpoints, Clicking
  <2>2. PICK v \in Views(BOOLEAN), kind \in {"AddBreakpoint", "RemoveBreakpoint", "ListBreakpoints"} :
          \E id : Keep(Submit(v, {Ask(kind, id)}))
    BY <1>13, Zenon DEF EditBreakpoints, List
  <2>3. Foreign(window) = {}
    <3>1. view.tab \in Tabs(window) \cup {"none"}
      BY <1>0, Zenon DEF Sound, Orderly
    <3> QED BY <2>1, <3>1 DEF Tabs, Foreign
  <2>4. kind \notin Foreign(window) \cup {"FirstScan", "NextScan", "ScanResults"}
    BY <2>2, <2>3
  <2> QED BY <2>1, <2>2, <2>4, Viewed, ClickAsks
<1> QED BY <1>1, <1>2, <1>3, <1>4, <1>5, <1>6, <1>7, <1>8, <1>9, <1>10, <1>11, <1>12, <1>13

\* What a frame asks for by itself.
LEMMA DueAskable ==
  ASSUME NEW w, NEW v, NEW T, Orderly(w, v, T)
  PROVE  Askable(w, v, Due(v)) /\ \A r \in Due(v) : r.kind # "ScanResults"
<1> DEFINE All == {Ask("RefreshWatches", 0), Ask("ActiveScans", 0), Ask("Speed", 0)}
<1>1. Due(v) \subseteq All
  BY DEF Due
<1>2. PICK r, s, t : r = Ask("RefreshWatches", 0) /\ s = Ask("ActiveScans", 0) /\ t = Ask("Speed", 0)
  OBVIOUS
<1>3. /\ r.kind = "RefreshWatches" /\ r.at = "sent" /\ DOMAIN r = {"kind", "id", "at", "answer"}
      /\ s.kind = "ActiveScans" /\ s.at = "sent" /\ DOMAIN s = {"kind", "id", "at", "answer"}
      /\ t.kind = "Speed" /\ t.at = "sent" /\ DOMAIN t = {"kind", "id", "at", "answer"}
  BY <1>2 DEF Ask
<1>4. PICK D : D = Due(v)
  OBVIOUS
<1>5. D \subseteq {r, s, t}
  BY <1>1, <1>2, <1>4, Zenon
<1>6. IsFiniteSet(D)
  <2>1. IsFiniteSet({r, s, t})
    <3>1. IsFiniteSet({r})
      BY FS_Singleton, Zenon
    <3>2. IsFiniteSet({r} \cup {s})
      BY <3>1, FS_AddElement, Zenon
    <3>3. IsFiniteSet(({r} \cup {s}) \cup {t})
      BY <3>2, FS_AddElement, Zenon
    <3>4. ({r} \cup {s}) \cup {t} = {r, s, t}
      OBVIOUS
    <3> QED BY <3>3, <3>4, Zenon
  <2> QED BY <1>5, <2>1, FS_Subset, Zenon
<1>7. \A x, y \in D : x.kind = y.kind => x = y
  BY <1>3, <1>5
<1>8. \A x \in D : x.kind \in {"RefreshWatches", "ActiveScans", "Speed"}
  BY <1>3, <1>5
<1>9. ~({"FirstScan", "NextScan"} \subseteq v.pending \cup KindsOf(D))
  <2>1. ~({"FirstScan", "NextScan"} \subseteq v.pending)
    BY Zenon DEF Orderly, OneEach
  <2> QED BY <1>8, <2>1 DEF KindsOf
<1>10. \A x \in D : /\ x.at = "sent" /\ x.kind \notin Foreign(w)
                    /\ DOMAIN x = {"kind", "id", "at", "answer"}
  BY <1>3, <1>5 DEF Foreign
<1>11. Askable(w, v, D)
  BY <1>6, <1>7, <1>9, <1>10, Zenon DEF Askable
<1>12. \A x \in D : x.kind # "ScanResults"
  BY <1>8
<1> QED BY <1>4, <1>11, <1>12, Zenon

\* A frame keeps the invariant.
LEMMA FrameKeeps ==
  ASSUME WindowInv, NEW due \in BOOLEAN, NEW sent \in SUBSET Answers, NEW spawns, Frame(due, sent, spawns)
  PROVE  WindowInv'
<1>1. PICK v \in Views(spawns), order \in SetToSeqs(sent) :
        LET hidden == [v EXCEPT !.visible = @ /\ (shutdown \/ ~closing)]
            taken  == TakeAll(hidden, order)
            kept   == IF due THEN Submit(taken, Due(taken)) ELSE taken
        IN  /\ view' = [kept EXCEPT !.sent = {}, !.spawns = TRUE]
            /\ tasks' = (tasks \ sent) \cup kept.sent
  BY Zenon DEF Frame
<1>2. PICK hidden : hidden = [v EXCEPT !.visible = @ /\ (shutdown \/ ~closing)]
  OBVIOUS
<1>3. PICK taken : taken = TakeAll(hidden, order)
  OBVIOUS
<1>4. PICK kept : kept = IF due THEN Submit(taken, Due(taken)) ELSE taken
  OBVIOUS
<1>5. /\ view' = [kept EXCEPT !.sent = {}, !.spawns = TRUE]
      /\ tasks' = (tasks \ sent) \cup kept.sent
  BY <1>1, <1>2, <1>3, <1>4, Zenon
<1>6. Sound(window, world, v, tasks)
  BY Viewed
<1>7. Sound(window, world, hidden, tasks)
  <2>1. DOMAIN v = Fields
    BY <1>6, Zenon DEF Sound, Orderly
  <2>2. DOMAIN hidden = Fields /\ \A f \in Watched : hidden[f] = v[f]
    BY <1>2, <2>1 DEF Fields, Watched
  <2> QED BY <1>6, <2>2, SameSound
<1>8. PICK T : T = tasks \ sent
  OBVIOUS
<1>9. Sound(window, world, taken, T)
  <2>1. sent \in SUBSET tasks /\ \A t \in sent : t.at = "answered"
    BY DEF Answers
  <2>2. window \in {"main", "debugger"}
    BY Zenon DEF WindowInv
  <2>3. PICK d : d = world
    OBVIOUS
  <2>4. Sound(window, d, hidden, tasks)
    BY <1>7, <2>3, Zenon
  <2>5. Sound(window, d, TakeAll(hidden, order), tasks \ sent)
    BY <2>1, <2>2, <2>4, AllTaken
  <2> QED BY <1>3, <1>8, <2>3, <2>5, Zenon
<1>10. Sound(window, world, kept, T)
  <2>1. CASE ~due
    BY <1>4, <1>9, <2>1
  <2>2. CASE due
    <3>1. Orderly(window, taken, T)
      BY <1>9, Zenon DEF Sound
    <3>2. Askable(window, taken, Due(taken)) /\ \A r \in Due(taken) : r.kind # "ScanResults"
      BY <3>1, DueAskable
    <3>3. Sound(window, world, Submit(taken, Due(taken)), T)
      BY <1>9, <3>2, SoundSubmit
    <3> QED BY <1>4, <2>2, <3>3
  <2> QED BY <2>1, <2>2
<1>11. PICK u : u = view'
  OBVIOUS
<1>12. Sound(window, world, u, T \cup kept.sent) /\ u.sent = {}
  BY <1>5, <1>10, <1>11, Handed
<1>13. /\ window' = window /\ world' = world /\ shutdown' = shutdown /\ thread = "open"
       /\ closing' = shutdown
       /\ thread' = IF closing /\ shutdown THEN "closed" ELSE thread
       /\ late' = late + IF shutdown /\ late < 3 THEN 1 ELSE 0
  BY Zenon DEF Frame, rest, Ends
<1>14. Sound(window', world', view', tasks') /\ view'.sent = {}
  BY <1>5, <1>8, <1>11, <1>12, <1>13, Zenon
<1>15. Ending'
  <2>1. Ending
    BY Zenon DEF WindowInv
  <2>2. late \in {0, 1} /\ (late = 1 => closing) /\ (~shutdown => late = 0)
    BY <1>13, <2>1 DEF Ending
  <2>3. late' = IF shutdown THEN late + 1 ELSE 0
    BY <1>13, <2>2
  <2> QED BY <1>13, <2>2, <2>3 DEF Ending
<1>16. window' \in {"main", "debugger"} /\ thread' \in {"starting", "open", "closed"}
  BY <1>13 DEF WindowInv
<1> QED BY <1>14, <1>15, <1>16, Zenon DEF WindowInv

\* So does the opening of the window, or its failure.
LEMMA OpenKeeps ==
  ASSUME WindowInv, Open
  PROVE  WindowInv'
<1>1. /\ thread = "starting" /\ window' = window /\ world' = world /\ shutdown' = shutdown
      /\ late' = late /\ closing' = closing
  BY Zenon DEF Open, rest
<1>2. PICK v \in Views(BOOLEAN), visible \in BOOLEAN, tab \in Tabs(window) :
        \/ thread' = "open" /\ Keep(Submit([v EXCEPT !.visible = visible, !.tab = tab], First(window)))
        \/ thread' = "closed" /\ UNCHANGED <<view, tasks>>
  BY Zenon DEF Open
<1>3. Ending
  BY Zenon DEF WindowInv
<1>4. CASE thread' = "closed" /\ UNCHANGED <<view, tasks>>
  <2>1. Ending'
    BY <1>1, <1>3, <1>4 DEF Ending
  <2>2. Sound(window', world', view', tasks') /\ view'.sent = {} /\ window' \in {"main", "debugger"}
    BY <1>1, <1>4, Zenon DEF WindowInv
  <2>3. thread' \in {"starting", "open", "closed"}
    BY <1>4
  <2> QED BY <2>1, <2>2, <2>3, Zenon DEF WindowInv
<1>5. CASE thread' = "open" /\ Keep(Submit([v EXCEPT !.visible = visible, !.tab = tab], First(window)))
  <2>1. PICK x : x = [v EXCEPT !.visible = visible, !.tab = tab]
    OBVIOUS
  <2>2. PICK wanted : wanted = First(window)
    OBVIOUS
  <2>3. Sound(window, world, v, tasks)
    BY Viewed
  <2>4. Orderly(window, v, tasks) /\ DOMAIN world = {"scans", "active", "ids", "given", "paused"}
    BY <2>3, Zenon DEF Sound
  <2>5. DOMAIN v = Fields
    BY <2>4, Zenon DEF Orderly
  <2>6. /\ DOMAIN x = Fields /\ x.tab = tab
        /\ \A f \in Watched \ {"tab"} : x[f] = v[f]
    BY <2>1, <2>5 DEF Fields, Watched
  <2>7. /\ x.pending = v.pending /\ x.sent = v.sent /\ x.missed = v.missed
        /\ x.watches = v.watches /\ x.paused = v.paused
        /\ x.summary = v.summary /\ x.page = v.page /\ x.results = v.results
    BY <2>6 DEF Watched
  <2>8. Orderly(window, x, tasks)
    BY <2>4, <2>6, <2>7, Zenon DEF Orderly, OneEach
  <2>9. News(window, world, v, tasks) => News(window, world, x, tasks)
    BY <2>7, SamePaused, SameWatches, SamePage, Zenon DEF News
  <2>10. Sound(window, world, x, tasks)
    BY <2>3, <2>4, <2>7, <2>8, <2>9, Zenon DEF Sound
  <2>11. Askable(window, x, wanted) /\ \A r \in wanted : r.kind # "ScanResults"
    <3>1. PICK a, b, c, d, e : /\ a = Ask("ListWatches", 0) /\ b = Ask("Speed", 0)
                               /\ c = Ask("ListThreads", 0) /\ d = Ask("Status", 0)
                               /\ e = Ask("ListBreakpoints", 0)
      OBVIOUS
    <3>2. /\ a.kind = "ListWatches" /\ b.kind = "Speed" /\ c.kind = "ListThreads"
          /\ d.kind = "Status" /\ e.kind = "ListBreakpoints"
          /\ \A r \in {a, b, c, d, e} : r.at = "sent" /\ DOMAIN r = {"kind", "id", "at", "answer"}
      BY <3>1 DEF Ask
    <3>3. wanted \subseteq {a, b, c, d, e}
      <4>1. wanted = {a, b} \/ wanted = {c, d, e}
        BY <2>2, <3>1, Zenon DEF First
      <4> QED BY <4>1
    <3>4. IsFiniteSet(wanted)
      <4>1. IsFiniteSet({a})
        BY FS_Singleton, Zenon
      <4>2. IsFiniteSet({a} \cup {b})
        BY <4>1, FS_AddElement, Zenon
      <4>3. IsFiniteSet(({a} \cup {b}) \cup {c})
        BY <4>2, FS_AddElement, Zenon
      <4>4. IsFiniteSet((({a} \cup {b}) \cup {c}) \cup {d})
        BY <4>3, FS_AddElement, Zenon
      <4>5. IsFiniteSet(((({a} \cup {b}) \cup {c}) \cup {d}) \cup {e})
        BY <4>4, FS_AddElement, Zenon
      <4>6. ((({a} \cup {b}) \cup {c}) \cup {d}) \cup {e} = {a, b, c, d, e}
        OBVIOUS
      <4> QED BY <3>3, <4>5, <4>6, FS_Subset, Zenon
    <3>5. \A r, s \in wanted : r.kind = s.kind => r = s
      BY <3>2, <3>3
    <3>6. \A r \in wanted : r.kind \in {"ListWatches", "Speed", "ListThreads", "Status", "ListBreakpoints"}
      BY <3>2, <3>3
    <3>7. ~({"FirstScan", "NextScan"} \subseteq x.pending \cup KindsOf(wanted))
      <4>1. ~({"FirstScan", "NextScan"} \subseteq x.pending)
        BY <2>8, Zenon DEF Orderly, OneEach
      <4> QED BY <3>6, <4>1 DEF KindsOf
    <3>8. \A r \in wanted : /\ r.at = "sent" /\ r.kind \notin Foreign(window)
                            /\ DOMAIN r = {"kind", "id", "at", "answer"}
      BY <3>2, <3>3, <3>6 DEF Foreign
    <3> QED BY <3>4, <3>5, <3>6, <3>7, <3>8 DEF Askable
  <2>12. PICK y : y = Submit(x, wanted)
    OBVIOUS
  <2>13. Sound(window, world, y, tasks)
    BY <2>10, <2>11, <2>12, SoundSubmit
  <2>14. view' = [y EXCEPT !.sent = {}, !.spawns = TRUE] /\ tasks' = tasks \cup y.sent
    BY <1>5, <2>1, <2>2, <2>12, Zenon DEF Keep
  <2>15. PICK u, T : u = view' /\ T = tasks
    OBVIOUS
  <2>16. Sound(window, world, u, T \cup y.sent) /\ u.sent = {}
    BY <2>13, <2>14, <2>15, Handed
  <2>17. Sound(window', world', view', tasks') /\ view'.sent = {}
    BY <1>1, <2>14, <2>15, <2>16, Zenon
  <2>18. Ending'
    BY <1>1, <1>3, <1>5 DEF Ending
  <2>19. window' \in {"main", "debugger"} /\ thread' \in {"starting", "open", "closed"}
    BY <1>1, <1>5 DEF WindowInv
  <2> QED BY <2>17, <2>18, <2>19, Zenon DEF WindowInv
<1> QED BY <1>2, <1>4, <1>5

\* So do the toggle key, the close button, stop() and other clients.
LEMMA OutsideKeeps ==
  ASSUME WindowInv, Toggle \/ CloseButton \/ Stop \/ Other
  PROVE  WindowInv'
<1>1. /\ DOMAIN view = Fields /\ Sound(window, world, view, tasks) /\ view.sent = {}
      /\ window \in {"main", "debugger"} /\ thread \in {"starting", "open", "closed"} /\ Ending
  BY Zenon DEF WindowInv, Sound, Orderly
<1>2. CASE Toggle
  <2>1. /\ window' = window /\ world' = world /\ tasks' = tasks /\ thread' = thread
        /\ shutdown' = shutdown /\ late' = late /\ closing' = closing
    BY <1>2, Zenon DEF Toggle, rest, screen
  <2>2. PICK u : u = view'
    OBVIOUS
  <2>3. PICK seen : u = [view EXCEPT !.visible = seen]
    BY <1>2, <2>2, Zenon DEF Toggle
  <2>4. DOMAIN u = Fields /\ \A f \in Watched : u[f] = view[f]
    BY <1>1, <2>3 DEF Fields, Watched
  <2>5. Sound(window, world, u, tasks)
    BY <1>1, <2>4, SameSound
  <2>6. u.sent = {} /\ u.tab = view.tab
    BY <1>1, <2>4 DEF Watched
  <2>7. Ending'
    BY <1>1, <2>1, <2>2, <2>6 DEF Ending
  <2> QED BY <1>1, <2>1, <2>2, <2>5, <2>6, <2>7, Zenon DEF WindowInv
<1>3. CASE CloseButton
  <2>1. /\ window' = window /\ world' = world /\ tasks' = tasks /\ thread' = thread /\ view' = view
        /\ shutdown' = shutdown /\ late' = late /\ closing' = TRUE
    BY <1>3, Zenon DEF CloseButton, rest
  <2>2. Ending'
    BY <1>1, <2>1 DEF Ending
  <2> QED BY <1>1, <2>1, <2>2, Zenon DEF WindowInv
<1>4. CASE Stop
  <2>1. /\ window' = window /\ world' = world /\ tasks' = tasks /\ thread' = thread /\ view' = view
        /\ late' = late
    BY <1>4, Zenon DEF Stop, rest
  <2>2. (shutdown' = TRUE \/ shutdown' = shutdown) /\ (closing => closing')
    <3>1. CASE shutdown' = TRUE /\ UNCHANGED closing
      BY <3>1
    <3>2. CASE closing' = (closing \/ thread = "open") /\ UNCHANGED shutdown
      BY <3>2
    <3>3. CASE UNCHANGED <<shutdown, closing>>
      BY <3>3
    <3> QED BY <1>4, <3>1, <3>2, <3>3, Zenon DEF Stop
  <2>3. Ending'
    BY <1>1, <2>1, <2>2 DEF Ending
  <2> QED BY <1>1, <2>1, <2>3, Zenon DEF WindowInv
<1>5. CASE Other
  <2>1. /\ window' = window /\ tasks' = tasks /\ thread' = thread /\ shutdown' = shutdown
        /\ late' = late /\ closing' = closing /\ view' = [view EXCEPT !.missed = TRUE]
    BY <1>5, Zenon DEF Other, screen
  <2>2. DOMAIN world' = DOMAIN world
    <3>1. \/ \E x : world' = [world EXCEPT !.ids = x]
          \/ \E x, y : world' = [world EXCEPT !.ids = x, !.given = y]
          \/ \E x, y : world' = [world EXCEPT !.scans = x, !.active = y]
      BY <1>5, Zenon DEF Other
    <3> QED BY <3>1
  <2>3. PICK u : u = view'
    OBVIOUS
  <2>4. /\ DOMAIN u = Fields /\ u.missed = TRUE
        /\ \A f \in Fields \ {"missed"} : u[f] = view[f]
    BY <1>1, <2>1, <2>3 DEF Fields
  <2>5. u.pending = view.pending /\ u.sent = view.sent /\ u.tab = view.tab
    BY <2>4 DEF Fields
  <2>6. Orderly(window, u, tasks)
    <3>1. Orderly(window, view, tasks)
      BY <1>1, Zenon DEF Sound
    <3>2. u.missed \in BOOLEAN
      BY <2>4
    <3> QED BY <2>4, <2>5, <3>1, <3>2, Zenon DEF Orderly, OneEach
  <2>7. Sound(window, world', u, tasks)
    <3>1. DOMAIN world' = {"scans", "active", "ids", "given", "paused"}
      BY <1>1, <2>2, Zenon DEF Sound
    <3>2. PICK e : e = world'
      OBVIOUS
    <3>3. Sound(window, e, u, tasks)
      BY <2>4, <2>6, <3>1, <3>2, Zenon DEF Sound
    <3> QED BY <3>2, <3>3, Zenon
  <2>8. Ending'
    BY <1>1, <2>1, <2>3, <2>5 DEF Ending
  <2>9. view'.sent = {}
    BY <1>1, <2>3, <2>5
  <2>10. Sound(window', world', view', tasks')
    BY <2>1, <2>3, <2>7, Zenon
  <2> QED BY <1>1, <2>1, <2>8, <2>9, <2>10, Zenon DEF WindowInv
<1> QED BY <1>2, <1>3, <1>4, <1>5

\* What a command answers: what it changes in the world it says, and it tells what is so.
LEMMA OutcomeIs ==
  ASSUME NEW t, DOMAIN world = {"scans", "active", "ids", "given", "paused"}, NEW o \in Outcomes(t)
  PROVE  /\ DOMAIN o.world = DOMAIN world
         /\ \/ o.world.ids = world.ids \/ o.answer.is = "watch"
            \/ t.kind \in {"AddBreakpoint", "RemoveBreakpoint"}
         /\ o.world.paused = world.paused \/ o.answer.is = "control"
         /\ o.answer.is = "status" => t.kind = "Status"
         /\ o.answer.is = "values" => t.kind = "RefreshWatches"
         /\ o.answer.is = "watches" => t.kind = "ListWatches"
         /\ o.answer.is = "results" => t.kind = "ScanResults"
         /\ t.kind = "Status" => o.answer.is = "status" /\ o.answer.more = world.paused
         /\ t.kind = "ListWatches" => o.answer.is = "watches"
         /\ t.kind = "RefreshWatches" => o.answer.is = "values" /\ o.answer.ids = world.ids
         /\ t.kind = "ScanResults" => o.answer.is = "results" /\ o.answer.id = t.id
<1>1. CASE t.kind = "ScanResults"
  BY <1>1 DEF Outcomes, Reply, Message
<1>2. CASE t.kind = "ActiveScans"
  BY <1>2 DEF Outcomes, Reply, Message
<1>3. CASE t.kind = "AddWatch"
  <2>1. PICK ids, given : /\ o.world = [world EXCEPT !.ids = ids, !.given = given]
                          /\ o.answer = Plain(t, "watch")
    <3>1. \/ Outcomes(t) = {}
          \/ Outcomes(t) = {[world |-> [world EXCEPT !.ids = @ \cup {world.given + 1}, !.given = world.given + 1],
                             answer |-> Plain(t, "watch")]}
      BY <1>3, Zenon DEF Outcomes
    <3>2. PICK ids, given : ids = world.ids \cup {world.given + 1} /\ given = world.given + 1
      OBVIOUS
    <3>3. o = [world |-> [world EXCEPT !.ids = ids, !.given = given], answer |-> Plain(t, "watch")]
      BY <3>1, <3>2, Zenon
    <3> QED BY <3>3
  <2>2. /\ DOMAIN o.world = DOMAIN world /\ o.world.paused = world.paused /\ o.answer.is = "watch"
    BY <2>1 DEF Plain, Reply, Message
  <2> QED BY <1>3, <2>2
<1>4. CASE t.kind = "RemoveWatch"
  BY <1>4 DEF Outcomes, Plain, Reply, Message
<1>5. CASE t.kind = "SetWatchFreeze"
  BY <1>5 DEF Outcomes, Plain, Reply, Message
<1>6. CASE t.kind = "ListWatches"
  BY <1>6 DEF Outcomes, OfIds, Reply, Message
<1>7. CASE t.kind = "RefreshWatches"
  BY <1>7 DEF Outcomes, OfIds, Reply, Message
<1>8. CASE t.kind = "WriteMemory"
  BY <1>8 DEF Outcomes, Plain, Reply, Message
<1>9. CASE t.kind = "Speed"
  BY <1>9 DEF Outcomes, Plain, Reply, Message
<1>10. CASE t.kind = "ListThreads"
  BY <1>10 DEF Outcomes, Reply, Message
<1>11. CASE t.kind = "Registers"
  BY <1>11 DEF Outcomes, Reply, Message
<1>12. CASE t.kind = "Status"
  BY <1>12 DEF Outcomes, Reply, Message
<1>13. CASE t.kind = "Pause"
  BY <1>13 DEF Outcomes, Plain, Reply, Message
<1>14. CASE t.kind = "Resume"
  BY <1>14 DEF Outcomes, Plain, Reply, Message
<1>15. CASE t.kind = "Step"
  BY <1>15 DEF Outcomes, Plain, Reply, Message
<1>16. CASE t.kind = "AddBreakpoint"
  <2>1. PICK ids, given : /\ o.world = [world EXCEPT !.ids = ids, !.given = given]
                          /\ o.answer = Plain(t, "changed")
    <3>1. \/ Outcomes(t) = {}
          \/ Outcomes(t) = {[world |-> [world EXCEPT !.ids = @ \cup {world.given + 1}, !.given = world.given + 1],
                             answer |-> Plain(t, "changed")]}
      BY <1>16, Zenon DEF Outcomes
    <3>2. PICK ids, given : ids = world.ids \cup {world.given + 1} /\ given = world.given + 1
      OBVIOUS
    <3>3. o = [world |-> [world EXCEPT !.ids = ids, !.given = given], answer |-> Plain(t, "changed")]
      BY <3>1, <3>2, Zenon
    <3> QED BY <3>3
  <2>2. /\ DOMAIN o.world = DOMAIN world /\ o.world.paused = world.paused /\ o.answer.is = "changed"
    BY <2>1 DEF Plain, Reply, Message
  <2> QED BY <1>16, <2>2
<1>17. CASE t.kind = "RemoveBreakpoint"
  BY <1>17 DEF Outcomes, Plain, Reply, Message
<1>18. CASE t.kind = "ListBreakpoints"
  BY <1>18 DEF Outcomes, OfIds, Reply, Message
<1>19. CASE t.kind \notin {"ScanResults", "ActiveScans", "AddWatch", "RemoveWatch", "SetWatchFreeze",
              "ListWatches", "RefreshWatches", "WriteMemory", "Speed", "ListThreads", "Registers", "Status",
              "Pause", "Resume", "Step", "AddBreakpoint", "RemoveBreakpoint", "ListBreakpoints"}
  BY <1>19 DEF Outcomes, Plain, Reply, Message
<1> QED BY <1>1, <1>2, <1>3, <1>4, <1>5, <1>6, <1>7, <1>8, <1>9, <1>10, <1>11, <1>12, <1>13, <1>14,
           <1>15, <1>16, <1>17, <1>18, <1>19

\* A thread's step, once its command and the world are what GoesOn takes them for.
LEMMA RunGoesOn ==
  ASSUME WindowInv, NEW t \in tasks, t.at # "answered",
         UNCHANGED <<window, screen>>,
         NEW u, DOMAIN u = {"kind", "id", "at", "answer"}, u.kind = t.kind, Fits(u),
         u.kind = "ScanResults" => u.id = t.id,
         tasks' = (tasks \ {t}) \cup {u},
         DOMAIN world' = DOMAIN world,
         NEW missed \in BOOLEAN, view' = view \/ view' = [view EXCEPT !.missed = missed],
         view.missed => view'.missed,
         view'.missed \in BOOLEAN,
         ~view'.missed =>
           /\ \/ world'.ids = world.ids \/ (u.at = "answered" /\ u.answer.is = "watch")
              \/ t.kind \in {"AddBreakpoint", "RemoveBreakpoint"}
           /\ world'.paused = world.paused \/ (u.at = "answered" /\ u.answer.is = "control")
           /\ u.at = "answered" =>
                /\ u.kind = "Status" => u.answer.is = "status" /\ u.answer.more = world.paused
                /\ u.kind = "ListWatches" => u.answer.is = "watches"
                /\ u.kind = "RefreshWatches" => u.answer.is = "values" /\ u.answer.ids = world.ids
                /\ u.kind = "ScanResults" => u.answer.is = "results" /\ u.answer.id = u.id
  PROVE  WindowInv'
<1>1. PICK w, d, v, T : w = window /\ d = world /\ v = view /\ T = tasks
  OBVIOUS
<1>2. PICK e, y : e = world' /\ y = view'
  OBVIOUS
<1>3. Sound(w, d, v, T) /\ v.sent = {} /\ w \in {"main", "debugger"}
  BY <1>1, Zenon DEF WindowInv
<1>4. DOMAIN v = Fields /\ DOMAIN d = {"scans", "active", "ids", "given", "paused"}
  BY <1>3, Zenon DEF Sound, Orderly
<1>5. DOMAIN y = Fields /\ \A f \in Fields \ {"missed"} : y[f] = v[f]
  <2>1. y = v \/ y = [v EXCEPT !.missed = missed]
    BY <1>1, <1>2, Zenon
  <2> QED BY <1>4, <2>1 DEF Fields
<1>6. \A f \in Watched \ {"missed"} : y[f] = v[f]
  BY <1>5 DEF Watched, Fields
<1>7. y.missed \in BOOLEAN /\ (v.missed => y.missed)
  BY <1>1, <1>2, Zenon
<1>8. DOMAIN e = {"scans", "active", "ids", "given", "paused"}
  BY <1>1, <1>2, <1>4, Zenon
<1>9. w # "debugger" => t.kind \notin {"AddBreakpoint", "RemoveBreakpoint"}
  <2>1. t.kind \notin Foreign(w)
    BY <1>1, <1>3, Zenon DEF Sound, Orderly
  <2> QED BY <1>3, <2>1 DEF Foreign
<1>10. ~y.missed =>
         /\ w # "debugger" => e.ids = d.ids \/ (u.at = "answered" /\ u.answer.is = "watch")
         /\ w = "debugger" => e.paused = d.paused \/ (u.at = "answered" /\ u.answer.is = "control")
         /\ u.at = "answered" =>
              /\ u.kind = "Status" => u.answer.is = "status" /\ u.answer.more = d.paused
              /\ u.kind = "ListWatches" => u.answer.is = "watches"
              /\ u.kind = "RefreshWatches" => u.answer.is = "values" /\ u.answer.ids = d.ids
              /\ u.kind = "ScanResults" => u.answer.is = "results" /\ u.answer.id = u.id
  BY <1>1, <1>2, <1>9, Zenon
<1>11. Sound(w, e, y, (T \ {t}) \cup {u})
  <2>1. t \in T
    BY <1>1
  <2> QED BY <1>3, <1>5, <1>6, <1>7, <1>8, <1>10, <2>1, GoesOn
<1>12. y.sent = {} /\ y.tab = v.tab
  BY <1>3, <1>6 DEF Watched
<1>13. /\ window' = window /\ thread' = thread /\ shutdown' = shutdown
       /\ late' = late /\ closing' = closing
  BY Zenon DEF screen
<1>14. Ending'
  <2>1. Ending
    BY Zenon DEF WindowInv
  <2>2. view'.tab = view.tab
    BY <1>1, <1>2, <1>12, Zenon
  <2> QED BY <1>13, <2>1, <2>2, Zenon DEF Ending
<1>15. Sound(window', world', view', tasks') /\ view'.sent = {}
  BY <1>1, <1>2, <1>11, <1>12, <1>13, Zenon
<1> QED BY <1>13, <1>14, <1>15, Zenon DEF WindowInv

\* Every step of a command keeps the invariant.
LEMMA RunKeeps ==
  ASSUME WindowInv, NEW t \in tasks, Run(t)
  PROVE  WindowInv'
<1>1. UNCHANGED <<window, screen>> /\ (Refuse(t) \/ (Execute(t) /\ view' = view))
  BY Zenon DEF Run
<1>2. Sound(window, world, view, tasks) /\ view.missed \in BOOLEAN
  BY Zenon DEF WindowInv, Sound, Orderly
<1>3. /\ DOMAIN world = {"scans", "active", "ids", "given", "paused"}
      /\ DOMAIN t = {"kind", "id", "at", "answer"} /\ Fits(t)
  BY <1>2, Zenon DEF Sound, Orderly
<1>4. CASE BeginScan(t) /\ view' = view
  <2>1. PICK id : /\ t.kind \in {"FirstScan", "NextScan"} /\ t.at = "sent"
                  /\ world' = [world EXCEPT !.scans = IF id > Len(@) THEN Append(@, 0) ELSE @,
                                            !.active = @ \cup {id}]
                  /\ tasks' = (tasks \ {t}) \cup {[t EXCEPT !.at = "scans", !.id = id]}
    BY <1>4, Zenon DEF BeginScan
  <2>2. PICK scans, active : world' = [world EXCEPT !.scans = scans, !.active = active]
    BY <2>1, Zenon
  <2>3. DOMAIN world' = DOMAIN world /\ world'.ids = world.ids /\ world'.paused = world.paused
    BY <1>3, <2>2
  <2>4. PICK u : u = [t EXCEPT !.at = "scans", !.id = id]
    OBVIOUS
  <2>5. DOMAIN u = {"kind", "id", "at", "answer"} /\ u.kind = t.kind /\ u.at = "scans"
    BY <1>3, <2>4
  <2>6. Fits(u) /\ u.kind # "ScanResults" /\ u.at # "answered" /\ t.at # "answered"
    BY <2>1, <2>5 DEF Fits
  <2>7. tasks' = (tasks \ {t}) \cup {u}
    BY <2>1, <2>4, Zenon
  <2> QED BY <1>1, <1>2, <1>4, <2>3, <2>5, <2>6, <2>7, RunGoesOn, Zenon
<1>5. CASE EndScan(t) /\ view' = view
  <2>1. PICK n : /\ t.at = "scans"
                 /\ world' = [world EXCEPT !.active = @ \ {t.id}, !.scans[t.id] = n]
                 /\ tasks' = (tasks \ {t}) \cup {Answered(t, Reply(t, "scan", t.id, n, {}, {}))}
    BY <1>5, Zenon DEF EndScan
  <2>2. PICK scans, active : world' = [world EXCEPT !.active = active, !.scans = scans]
    BY <2>1, Zenon
  <2>3. DOMAIN world' = DOMAIN world /\ world'.ids = world.ids /\ world'.paused = world.paused
    BY <1>3, <2>2
  <2>4. PICK a : a = Reply(t, "scan", t.id, n, {}, {})
    OBVIOUS
  <2>5. a.is = "scan"
    BY <2>4 DEF Reply, Message
  <2>6. PICK u : u = Answered(t, a)
    OBVIOUS
  <2>7. DOMAIN u = {"kind", "id", "at", "answer"} /\ u.kind = t.kind /\ u.at = "answered" /\ u.answer = a
    BY <1>3, <2>6 DEF Answered
  <2>8. t.kind \in {"FirstScan", "NextScan"}
    BY <1>3, <2>1 DEF Fits
  <2>9. /\ u.kind # "ScanResults" /\ u.kind # "Status" /\ u.kind # "ListWatches" /\ u.kind # "RefreshWatches"
        /\ Fits(u) /\ t.at # "answered"
    BY <2>1, <2>5, <2>7, <2>8 DEF Fits
  <2>10. tasks' = (tasks \ {t}) \cup {u}
    BY <2>1, <2>4, <2>6, Zenon
  <2> QED BY <1>1, <1>2, <1>5, <2>3, <2>7, <2>9, <2>10, RunGoesOn, Zenon
<1>6. CASE /\ t.kind \notin {"FirstScan", "NextScan"} /\ t.at = "sent" /\ view' = view
           /\ \E o \in Outcomes(t) :
                /\ world' = o.world
                /\ tasks' = (tasks \ {t}) \cup {Answered(t, o.answer)}
  <2>1. PICK o \in Outcomes(t) : world' = o.world /\ tasks' = (tasks \ {t}) \cup {Answered(t, o.answer)}
    BY <1>6
  <2>2. /\ DOMAIN o.world = DOMAIN world
        /\ \/ o.world.ids = world.ids \/ o.answer.is = "watch"
           \/ t.kind \in {"AddBreakpoint", "RemoveBreakpoint"}
        /\ o.world.paused = world.paused \/ o.answer.is = "control"
        /\ o.answer.is = "status" => t.kind = "Status"
        /\ o.answer.is = "values" => t.kind = "RefreshWatches"
        /\ o.answer.is = "watches" => t.kind = "ListWatches"
        /\ o.answer.is = "results" => t.kind = "ScanResults"
        /\ t.kind = "Status" => o.answer.is = "status" /\ o.answer.more = world.paused
        /\ t.kind = "ListWatches" => o.answer.is = "watches"
        /\ t.kind = "RefreshWatches" => o.answer.is = "values" /\ o.answer.ids = world.ids
        /\ t.kind = "ScanResults" => o.answer.is = "results" /\ o.answer.id = t.id
    BY <1>3, OutcomeIs
  <2>3. PICK a, u : a = o.answer /\ u = Answered(t, a)
    OBVIOUS
  <2>4. /\ DOMAIN u = {"kind", "id", "at", "answer"} /\ u.kind = t.kind /\ u.id = t.id
        /\ u.at = "answered" /\ u.answer = a
    BY <1>3, <2>3 DEF Answered
  <2>5. Fits(u)
    BY <2>2, <2>3, <2>4, Zenon DEF Fits
  <2>6. t.at # "answered"
    BY <1>6
  <2>7. tasks' = (tasks \ {t}) \cup {u}
    BY <2>1, <2>3, Zenon
  <2>8. /\ \/ world'.ids = world.ids \/ (u.at = "answered" /\ u.answer.is = "watch")
           \/ t.kind \in {"AddBreakpoint", "RemoveBreakpoint"}
        /\ world'.paused = world.paused \/ (u.at = "answered" /\ u.answer.is = "control")
        /\ u.kind = "Status" => u.answer.is = "status" /\ u.answer.more = world.paused
        /\ u.kind = "ListWatches" => u.answer.is = "watches"
        /\ u.kind = "RefreshWatches" => u.answer.is = "values" /\ u.answer.ids = world.ids
        /\ u.kind = "ScanResults" => u.answer.is = "results" /\ u.answer.id = u.id
        /\ DOMAIN world' = DOMAIN world
    BY <2>1, <2>2, <2>3, <2>4, Zenon
  <2> QED BY <1>1, <1>2, <1>6, <2>4, <2>5, <2>6, <2>7, <2>8, RunGoesOn, ZenonT(60)
<1>7. CASE Refuse(t)
  <2>1. PICK active, missed : /\ t.at # "answered"
          /\ world' = [world EXCEPT !.active = active]
          /\ tasks' = (tasks \ {t}) \cup {Answered(t, Plain(t, "error"))}
          /\ view' = [view EXCEPT !.missed = missed]
          /\ missed = (view.missed \/ t.kind \in Telling)
    BY <1>7, Zenon DEF Refuse
  <2>2. DOMAIN world' = DOMAIN world /\ world'.ids = world.ids /\ world'.paused = world.paused
    BY <1>3, <2>1
  <2>3. PICK a, u : a = Plain(t, "error") /\ u = Answered(t, a)
    OBVIOUS
  <2>4. a.is = "error"
    BY <2>3 DEF Plain, Reply, Message
  <2>5. /\ DOMAIN u = {"kind", "id", "at", "answer"} /\ u.kind = t.kind /\ u.id = t.id
        /\ u.at = "answered" /\ u.answer = a
    BY <1>3, <2>3 DEF Answered
  <2>6. Fits(u)
    BY <2>4, <2>5 DEF Fits
  <2>7. tasks' = (tasks \ {t}) \cup {u}
    BY <2>1, <2>3, Zenon
  <2>8. missed \in BOOLEAN /\ view'.missed = missed
    <3>1. DOMAIN view = Fields
      BY <1>2, Zenon DEF Sound, Orderly
    <3>2. view'.missed = missed
      BY <2>1, <3>1 DEF Fields
    <3> QED BY <2>1, <3>2, Zenon
  <2>9. view.missed => view'.missed
    BY <2>1, <2>8, Zenon
  <2>10. ~view'.missed => u.kind \notin Telling
    BY <2>1, <2>5, <2>8, Zenon
  <2>11. ~view'.missed =>
           /\ u.kind # "Status" /\ u.kind # "ListWatches" /\ u.kind # "RefreshWatches" /\ u.kind # "ScanResults"
    BY <2>10 DEF Telling
  <2> QED BY <1>1, <1>2, <2>1, <2>2, <2>5, <2>6, <2>7, <2>8, <2>9, <2>11, RunGoesOn, Zenon
<1> QED BY <1>1, <1>4, <1>5, <1>6, <1>7, Zenon DEF Execute

\* The invariant holds at the start.
LEMMA WindowInitial == WindowInit => WindowInv
<1> SUFFICES ASSUME WindowInit PROVE WindowInv
  OBVIOUS
<1>1. /\ window \in {"main", "debugger"} /\ thread = "starting" /\ shutdown = FALSE /\ late = 0
      /\ view = Blank /\ tasks = {} /\ world = World
  BY DEF WindowInit
<1>2. /\ DOMAIN view = Fields /\ view.pending = {} /\ view.sent = {} /\ view.missed = FALSE
      /\ view.tab = "none" /\ view.summary = 0 /\ view.watches = {} /\ view.paused = {}
  BY <1>1 DEF Blank, Fields
<1>3. DOMAIN world = {"scans", "active", "ids", "given", "paused"} /\ world.ids = {} /\ world.paused = {}
  BY <1>1 DEF World
<1>4. tasks \cup view.sent = {} /\ IsFiniteSet({})
  BY <1>1, <1>2, FS_EmptySet
<1>5. OneEach(view, {})
  BY <1>2 DEF OneEach, KindsOf
<1>6. Orderly(window, view, tasks)
  BY <1>1, <1>2, <1>4, <1>5 DEF Orderly
<1>7. News(window, world, view, tasks)
  BY <1>1, <1>2, <1>3 DEF News, PausedNews, WatchNews, PageNews
<1>8. Ending
  BY <1>1, <1>2 DEF Ending
<1> QED BY <1>1, <1>2, <1>3, <1>6, <1>7, <1>8, Zenon DEF WindowInv, Sound

\* Every step keeps the invariant.
LEMMA WindowStep == ASSUME WindowInv, [WindowNext]_windowVars PROVE WindowInv'
<1>1. CASE UNCHANGED windowVars
  <2>1. /\ window' = window /\ thread' = thread /\ shutdown' = shutdown /\ late' = late
        /\ closing' = closing /\ view' = view /\ tasks' = tasks /\ world' = world
    BY <1>1 DEF windowVars
  <2>2. Ending'
    BY <2>1, Zenon DEF WindowInv, Ending
  <2> QED BY <2>1, <2>2, Zenon DEF WindowInv
<1>2. CASE \E due \in BOOLEAN, sent \in SUBSET Answers : Frame(due, sent, BOOLEAN)
  BY <1>2, FrameKeeps
<1>3. CASE Toggle \/ CloseButton \/ Stop \/ Other
  BY <1>3, OutsideKeeps
<1>4. CASE \/ FirstScan \/ NextScan \/ CancelScan \/ TurnPage \/ WatchResult \/ EditWatches \/ EditMemory
           \/ ListAll \/ PressSpeed \/ SelectTab \/ ControlThread \/ Disassemble \/ EditBreakpoints
  BY <1>4, ClickKeeps
<1>5. CASE \E t \in tasks : Run(t)
  BY <1>5, RunKeeps
<1>6. CASE Open
  BY <1>6, OpenKeeps
<1> QED BY <1>1, <1>2, <1>3, <1>4, <1>5, <1>6, Zenon DEF WindowNext

\* The invariant holds what a reader of the window relies on.
LEMMA WindowInvObeys == WindowInv => WindowsObey
<1> SUFFICES ASSUME WindowInv PROVE WindowsObey
  OBVIOUS
<1>1. /\ Sound(window, world, view, tasks) /\ Orderly(window, view, tasks)
      /\ tasks \cup view.sent = tasks /\ window \in {"main", "debugger"} /\ Ending
  BY DEF WindowInv, Sound
<1>2. /\ view.pending = KindsOf(tasks)
      /\ \A t, u \in tasks : t.kind = u.kind => t = u
      /\ ~({"FirstScan", "NextScan"} \subseteq view.pending)
      /\ IsFiniteSet(tasks)
  BY <1>1, Zenon DEF Orderly, OneEach
<1>3. OneOfAKind
  <2>1. Cardinality(tasks) = Cardinality(KindsOf(tasks))
    <3> DEFINE kind == [t \in tasks |-> t.kind]
    <3>1. kind \in [tasks -> KindsOf(tasks)] /\ \A k \in KindsOf(tasks) : \E t \in tasks : kind[t] = k
      BY DEF KindsOf
    <3>2. \A t, u \in tasks : kind[t] = kind[u] => t = u
      BY <1>2
    <3>3. DOMAIN kind = tasks
      OBVIOUS
    <3> HIDE DEF kind
    <3>4. kind \in Surjection(tasks, KindsOf(tasks))
      BY <3>1, Zenon DEF Surjection
    <3>5. kind \in Injection(tasks, KindsOf(tasks))
      BY <3>1, <3>2, <3>3, Zenon DEF Injection, IsInjective
    <3> QED BY <1>2, <3>4, <3>5, FS_Surjection, Zenon
  <2> QED BY <1>2, <2>1, Zenon DEF OneOfAKind, KindsOf
<1>4. Ended
  BY <1>1 DEF Ended, Ending
<1>5. Told
  <2> SUFFICES ASSUME thread = "open", view.pending = {}, ~view.missed
               PROVE  IF window = "debugger" THEN view.paused = world.paused
                      ELSE /\ view.watches = world.ids
                           /\ view.summary # 0 => view.results = view.summary * 10 + view.page
    BY Zenon DEF Told
  <2>1. tasks = {}
    BY <1>2 DEF KindsOf
  <2>2. \A is : ~Has(tasks, is)
    BY <2>1 DEF Has
  <2>3. News(window, world, view, tasks)
    BY <1>1, Zenon DEF Sound
  <2>4. CASE window = "debugger"
    <3>1. PausedNews(world, view, tasks)
      BY <2>3, <2>4, Zenon DEF News
    <3> QED BY <2>2, <2>4, <3>1 DEF PausedNews
  <2>5. CASE window # "debugger"
    <3>1. WatchNews(world, view, tasks) /\ PageNews(view, tasks)
      BY <2>3, <2>5, Zenon DEF News
    <3>2. view.watches = world.ids
      BY <2>2, <3>1 DEF WatchNews
    <3>3. "ScanResults" \notin view.pending
      OBVIOUS
    <3>4. view.summary # 0 => view.results = view.summary * 10 + view.page
      BY <3>1, <3>3, Zenon DEF PageNews
    <3> QED BY <2>5, <3>2, <3>4
  <2> QED BY <2>4, <2>5
<1> QED BY <1>3, <1>4, <1>5, Zenon DEF WindowsObey

\* The windows obey, whatever is clicked, answered, refused or dropped, and whoever
\* else is at work (ui.rs, debugger_ui.rs).
THEOREM WindowsObeyAlways == WindowSpec => []WindowsObey
<1>1. WindowInit => WindowInv
  BY WindowInitial
<1>2. WindowInv /\ [WindowNext]_windowVars => WindowInv'
  BY WindowStep
<1>3. WindowInv => WindowsObey
  BY WindowInvObeys
<1> QED
  BY <1>1, <1>2, <1>3, PTL DEF WindowSpec

================================================================================
