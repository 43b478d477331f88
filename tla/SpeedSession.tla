----------------------------- MODULE SpeedSession -----------------------------
(***************************************************************************)
(* One SpeedSession in use: threads of the game poll it through the timer  *)
(* hooks with readings of the real counter that may be old by the time     *)
(* they hold the lock, and users apply actions with a reading taken under  *)
(* the lock.                                                               *)
(***************************************************************************)
EXTENDS SpeedModel

CONSTANTS
  Enabled, Initial, StartupMs,   \* the profile the session starts from
  Origin,                        \* the counter when the session is made
  Tick64, Winmm, Width,          \* the other families' origins; 2^32
  Offered,                       \* rates users ask for, configured or not
  HoldMs,                        \* lengths of hold users ask for
  MaxNow                         \* bound: the last reading of the counter

ASSUME ProfileAssumption ==
  /\ Enabled \in BOOLEAN
  /\ Initial \in Rates
  /\ StartupMs \in Nat
  /\ Origin \in Ticks /\ Origin <= MaxNow
  /\ Tick64 \in Ticks /\ Winmm \in 0 .. Width - 1 /\ Width \in Nat \ {0}
  /\ Offered \subseteq Rates /\ HoldMs \subseteq Nat
  /\ MaxNow \in Ticks

VARIABLES
  now,      \* the real performance counter
  session   \* the session behind the lock

vars == <<now, session>>

Requests ==
  [kind : {"increase", "decrease", "toggle", "reset", "release", "focusLost"}]
    \cup [kind : {"select"}, rate : Offered]
    \cup [kind : {"hold"}, rate : Offered, ms : HoldMs]

Init ==
  /\ now = Origin
  /\ session = NewSession(Enabled, Initial, StartupMs, Origin)

Pass ==
  /\ now < MaxNow
  /\ now' = now + 1
  /\ UNCHANGED session

\* intercepted_qpc and its siblings read the counter, then take the lock.
PollAt(real) ==
  /\ session' = Poll(session, real)
  /\ UNCHANGED now

Act(a) ==
  /\ session' = Apply(session, now, a)
  /\ UNCHANGED now

Next ==
  \/ Pass
  \/ \E real \in Origin .. now : PollAt(real)
  \/ \E a \in Requests : Act(a)

Spec == Init /\ [][Next]_vars

-----------------------------------------------------------------------------

Controls ==
  [selected : Steps \cup {Initial}, previous : (Steps \cup {Initial, NoRate}) \ {Unit},
   bypassed : BOOLEAN, held : Steps \cup {NoRate}]

Clocks ==
  [anchorReal : Ticks, anchorVirtual : Ticks, lastReal : Ticks, lastVirtual : Ticks,
   rate : Rates]

\* Type invariant; the anchors lie in the past of the last sample.
TypeOK ==
  /\ now \in Origin .. MaxNow
  /\ session \in [controls : Controls, clock : Clocks, hold : Deadlines, startup : Deadlines]
  /\ session.clock.anchorReal <= session.clock.lastReal
  /\ session.clock.anchorVirtual <= session.clock.lastVirtual
  /\ session.clock.lastReal <= now

\* The rate that scales the game's clock is the one the controls show, through
\* every action, refusal and expiry.
ClockFollowsControls == session.clock.rate = Effective(session.controls)

\* A temporary rate always has a deadline that ends it, and no deadline is left
\* behind by a hold that was released or replaced.
HoldHasDeadline == session.controls.held = NoRate <=> session.hold = Never

\* No deadline the session has seen pass is still pending: neither a hold nor the
\* startup rate survives a sample at or after its deadline.
NothingOverdue ==
  session.clock.lastReal < MaxTick =>
    session.hold > session.clock.lastReal /\ session.startup > session.clock.lastReal

\* Toggle alternates 1x with the selection in force: what a second toggle brings
\* back is the rate the first one took away.
ToggleReturns ==
  LET k == EndHold(session.controls)
  IN  Effective(k) # Unit => Effective(Toggle(k)) = Unit /\ Effective(Toggle(Toggle(k))) = Effective(k)

Millis(s) == Projection(Origin, Tick64, Winmm, Width, s.clock.lastVirtual)

=============================================================================
