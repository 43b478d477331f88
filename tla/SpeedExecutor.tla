----------------------------- MODULE SpeedExecutor -----------------------------
(***************************************************************************)
(* SpeedPreviewExecutor (speed_commands.rs) and the hooks it drives: every  *)
(* accepted action is applied to the preview session, which answers status, *)
(* and replayed into the session behind the timer hooks, which scales the   *)
(* game's clock.  The runtime arms the hooks and takes everything down.     *)
(***************************************************************************)
EXTENDS SpeedModel, Sequences

CONSTANTS
  Profiled,                  \* the DLL was launched with an accepted profile
  Initial, StartupMs,        \* what the profile starts with
  Commands,                  \* actions users ask for
  Batches,                   \* actions one input sample may yield, in order
  MaxNow,                    \* bound: the last reading of the counter
  MaxCommands,               \* bound: commands and input samples
  MaxFailures                \* bound: readings the counter refuses

ASSUME ExecutorAssumption ==
  /\ Profiled \in BOOLEAN
  /\ Initial \in Steps /\ StartupMs \in Nat
  /\ \A a \in Commands : a \in Actions
  /\ Batches \subseteq Seq(Actions) /\ \A b \in Batches : \A i \in 1 .. Len(b) : Accepts(b[i])
  /\ MaxNow \in Ticks /\ MaxCommands \in Nat /\ MaxFailures \in Nat

VARIABLES
  now,        \* the real counter
  gate,       \* shutdown was requested
  installed,  \* the hooks are in place
  clock,      \* the session behind the hooks
  present,    \* the executor's Option<PreviewSession> is Some
  preview,    \* that session
  holder,     \* what holds the executor's mutex: "none", "command" or "arm"
  reading,    \* when that command or input sample began
  todo,       \* its actions not yet applied to the preview
  pending,    \* actions applied to the preview and not yet to the hooks
  arming,     \* progress of arm_selected_game_timers
  stopping,   \* progress of the runtime's shutdown
  answer,     \* history: how the last command or input sample ended
  commands, failures   \* history: how many there were

work == <<reading, todo, pending>>
executorVars == <<now, gate, installed, clock, present, preview, holder, work, arming, stopping,
                  answer, commands, failures>>

FocusLost == [kind |-> "focusLost"]
ResetAction == [kind |-> "reset"]

\* Built-in steps start at 1x; the hooks always do.
Plain == NewSession(TRUE, Unit, 0, 0)

ExecutorInit ==
  /\ now = 0 /\ gate = FALSE
  /\ installed = FALSE /\ clock = Plain
  /\ present = Profiled
  /\ preview = IF Profiled THEN NewSession(TRUE, Initial, StartupMs, 0) ELSE Plain
  /\ holder = "none" /\ reading = 0 /\ todo = <<>> /\ pending = <<>>
  /\ arming = "idle" /\ stopping = "running"
  /\ answer = "none" /\ commands = 0 /\ failures = 0

Pass ==
  /\ now < MaxNow
  /\ now' = now + 1
  /\ UNCHANGED <<gate, installed, clock, present, preview, holder, work, arming, stopping,
                 answer, commands, failures>>

(***************************************************************************)
(* preview_command and sample_input: first the preview, at one reading ...  *)
(***************************************************************************)

Begin(batch) ==
  /\ holder = "none" /\ commands < MaxCommands
  /\ commands' = commands + 1
  /\ IF ~present
       THEN answer' = "unconfigured" /\ UNCHANGED <<holder, work>>
       ELSE /\ holder' = "command" /\ reading' = now /\ todo' = batch
            /\ UNCHANGED <<answer, pending>>
  /\ UNCHANGED <<now, gate, installed, clock, present, preview, arming, stopping, failures>>

Release(how) ==
  /\ holder' = "none" /\ answer' = how
  /\ reading' = 0 /\ todo' = <<>> /\ pending' = <<>>

\* An action that is refused is a command's only one.
Preview ==
  LET a == Head(todo) IN
  /\ holder = "command" /\ todo # <<>>
  /\ preview' = Apply(preview, reading, a)
  /\ IF Accepts(a)
       THEN /\ todo' = Tail(todo) /\ pending' = Append(pending, a)
            /\ UNCHANGED <<holder, reading, answer>>
       ELSE Release("refused")
  /\ UNCHANGED <<now, gate, installed, clock, present, arming, stopping, commands, failures>>

(***************************************************************************)
(* ... then the hooks, at a later one: apply_installed_command, and the     *)
(* fail-safe of apply_with_fail_safe when it refuses.                       *)
(***************************************************************************)

\* Fault: the multiplier is replayed, not the action.
ReplayedMultiplier(a) ==
  IF installed THEN Apply(clock, now, [kind |-> "select", rate |-> Effective(preview.controls)]) ELSE clock

\* What apply_installed_command does to the hooks' session.
Replayed(a) == IF installed THEN Apply(clock, now, a) ELSE clock

Replay ==
  /\ holder = "command" /\ todo = <<>> /\ pending # <<>>
  /\ installed => ~gate
  /\ clock' = Replayed(Head(pending))
  /\ pending' = Tail(pending)
  /\ UNCHANGED <<now, gate, installed, present, preview, holder, reading, todo, arming, stopping,
                 answer, commands, failures>>

Answered ==
  /\ holder = "command" /\ todo = <<>> /\ pending = <<>>
  /\ Release("ok")
  /\ UNCHANGED <<now, gate, installed, clock, present, preview, arming, stopping, commands, failures>>

\* The gate is closed, or the counter cannot be read.
Refuses == installed /\ (gate \/ failures < MaxFailures)
CountFailure == failures' = IF gate THEN failures ELSE failures + 1

\* Fault: the preview keeps the action the hooks refused.
FailPreviewKept(again) ==
  /\ holder = "command" /\ todo = <<>> /\ pending # <<>> /\ Refuses /\ CountFailure
  /\ again => ~gate
  /\ clock' = IF again THEN Replayed(FocusLost) ELSE clock
  /\ Release("failed")
  /\ UNCHANGED <<now, gate, installed, present, preview, arming, stopping, commands>>

\* Both sessions go back to 1x, the hooks if they answer the second time; the
\* actions that were still to be replayed are dropped.
Fail(again) ==
  /\ holder = "command" /\ todo = <<>> /\ pending # <<>> /\ Refuses /\ CountFailure
  /\ again => ~gate
  /\ preview' = Apply(preview, reading, FocusLost)
  /\ clock' = IF again THEN Replayed(FocusLost) ELSE clock
  /\ Release("failed")
  /\ UNCHANGED <<now, gate, installed, present, arming, stopping, commands>>

(***************************************************************************)
(* arm_selected_game_timers                                                *)
(***************************************************************************)

\* The hooks go in, at 1x, unless they are there already.
Enable ==
  /\ arming = "idle" /\ ~gate
  /\ arming' = "enabled"
  /\ installed' = TRUE
  /\ clock' = IF installed THEN clock ELSE NewSession(TRUE, Unit, 0, now)
  /\ UNCHANGED <<now, gate, present, preview, holder, work, stopping, answer, commands, failures>>

\* arm_selected_game_session: 1x, from the profile's session or from a new one.
ArmPreview ==
  /\ arming = "enabled" /\ holder = "none"
  /\ holder' = "arm" /\ arming' = "reset"
  /\ preview' = IF present THEN Apply(preview, now, ResetAction) ELSE NewSession(TRUE, Unit, 0, now)
  /\ present' = TRUE
  /\ UNCHANGED <<now, gate, installed, clock, work, stopping, answer, commands, failures>>

ArmClock ==
  /\ arming = "reset" /\ holder = "arm"
  /\ installed => ~gate
  /\ clock' = Replayed(ResetAction)
  /\ holder' = "none" /\ arming' = "armed"
  /\ UNCHANGED <<now, gate, installed, present, preview, work, stopping, answer, commands, failures>>

\* The hooks refuse the reset: the mutex is released, then they are taken out.
ArmFails ==
  /\ arming = "reset" /\ holder = "arm" /\ Refuses /\ CountFailure
  /\ holder' = "none" /\ arming' = "undo"
  /\ UNCHANGED <<now, gate, installed, clock, present, preview, work, stopping, answer, commands>>

ArmUndo ==
  /\ arming = "undo"
  /\ arming' = "failed"
  /\ installed' = FALSE
  /\ UNCHANGED <<now, gate, clock, present, preview, holder, work, stopping, answer, commands, failures>>

\* The caller has its answer and may ask again.
ArmAgain ==
  /\ arming \in {"armed", "failed"}
  /\ arming' = "idle"
  /\ UNCHANGED <<now, gate, installed, clock, present, preview, holder, work, stopping,
                 answer, commands, failures>>

(***************************************************************************)
(* runtime::shutdown, as far as it concerns speed                          *)
(***************************************************************************)

CloseGate ==
  /\ stopping = "running"
  /\ gate' = TRUE /\ stopping' = "gated"
  /\ UNCHANGED <<now, installed, clock, present, preview, holder, work, arming, answer, commands, failures>>

RemoveHooks ==
  /\ stopping = "gated"
  /\ installed' = FALSE /\ stopping' = "unhooked"
  /\ UNCHANGED <<now, gate, clock, present, preview, holder, work, arming, answer, commands, failures>>

\* SpeedPreviewExecutor::shutdown
DropPreview ==
  /\ stopping = "unhooked" /\ holder = "none"
  /\ present' = FALSE /\ stopping' = "stopped"
  /\ preview' = IF present THEN Apply(preview, now, FocusLost) ELSE preview
  /\ UNCHANGED <<now, gate, installed, clock, holder, work, arming, answer, commands, failures>>

-----------------------------------------------------------------------------

ExecutorNext ==
  \/ Pass
  \/ \E a \in Commands : Begin(<<a>>)
  \/ \E b \in Batches : Begin(b)
  \/ Preview \/ Replay \/ Answered \/ \E again \in BOOLEAN : Fail(again)
  \/ Enable \/ ArmPreview \/ ArmClock \/ ArmFails \/ ArmUndo \/ ArmAgain
  \/ CloseGate \/ RemoveHooks \/ DropPreview

ExecutorSpec == ExecutorInit /\ [][ExecutorNext]_executorVars

Rate(s) == Effective(s.controls)

Settled == holder = "none" /\ arming \in {"idle", "armed", "failed"} /\ ~gate

\* As long as the hooks have refused nothing, what status shows is what the game gets: once
\* a command is through and no hold is running out, both sessions, looked at now, run at the
\* same speed.  After a refusal they need not, not even when the hooks are armed again: hooks
\* that refuse the fail-safe, too, keep their rate while the preview shows 1x, and an action
\* that only the preview has seen leaves the two with different rates to toggle to.
InStep ==
  failures = 0 =>
    (Settled /\ installed /\ present /\ Poll(clock, now).hold = Never
       => Rate(Poll(preview, now)) = Rate(Poll(clock, now)))

\* A command the hooks refused leaves the preview at 1x, and the hooks too unless
\* they refuse again: no half-applied action stays in force.  Arming starts at 1x,
\* whatever speed the hooks were left at.
FailSafe ==
  [][/\ (holder = "command" /\ holder' = "none" /\ answer' = "failed") =>
          Rate(preview') = Unit /\ (Rate(clock') = Unit \/ clock' = clock)
     /\ (arming = "reset" /\ arming' = "armed" /\ installed) => Rate(clock') = Unit]_executorVars

=============================================================================
