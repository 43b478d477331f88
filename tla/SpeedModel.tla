------------------------------ MODULE SpeedModel ------------------------------
(***************************************************************************)
(* One speed session as a value: the preset controls, the virtual clock    *)
(* and the two deadlines of speed_controls.rs, speed.rs, speed_timers.rs   *)
(* and speed_session.rs.  Every method that mutates the session is an      *)
(* operator from session to session.  Rates are whole numbers over Unit;   *)
(* the rounding of f64 is left out.  u64 is 0 .. MaxTick and saturates.    *)
(***************************************************************************)
EXTENDS Integers

CONSTANTS
  Steps,      \* the configured presets, in Unit-ths
  Unit,       \* the rate 1x
  MaxTick,    \* u64::MAX
  Frequency,  \* QPC ticks per second
  Second,     \* milliseconds per second
  MaxHoldMs   \* the longest hold, 60_000 ms in the code

\* Validated settings: presets are positive and include 1x.  They are stored
\* in increasing order, so a search from either end finds the nearest one.
ASSUME SettingsAssumption ==
  /\ Unit \in Nat \ {0}
  /\ Steps \subseteq Nat \ {0} /\ Unit \in Steps
  /\ \A S \in SUBSET Steps : S # {} => /\ \E low \in S : \A s \in S : low <= s
                                       /\ \E high \in S : \A s \in S : s <= high
  /\ MaxTick \in Nat \ {0} /\ Frequency \in Nat \ {0} /\ Second \in Nat \ {0}
  /\ MaxHoldMs \in Nat

NoRate == 0              \* Option::None of a rate
Never  == MaxTick + 1    \* Option::None of a deadline

Rates == Nat \ {0}
Ticks == 0 .. MaxTick
Deadlines == 0 .. Never

Larger(a, b) == IF a > b THEN a ELSE b
Saturate(n) == IF n > MaxTick THEN MaxTick ELSE n

Lowest(S)  == CHOOSE low \in S : \A s \in S : low <= s
Highest(S) == CHOOSE high \in S : \A s \in S : s <= high

(***************************************************************************)
(* SpeedControlState                                                       *)
(***************************************************************************)

NewControls(enabled, initial) ==
  [selected |-> initial,
   previous |-> LET faster == {s \in Steps : s > Unit}
                    slower == {s \in Steps : s < Unit}
                IN  CASE initial # Unit -> initial
                      [] initial = Unit /\ faster # {} -> Lowest(faster)
                      [] initial = Unit /\ faster = {} /\ slower # {} -> Highest(slower)
                      [] OTHER -> NoRate,
   bypassed |-> ~enabled \/ initial = Unit,
   held     |-> NoRate]

Effective(k) ==
  IF k.held # NoRate THEN k.held ELSE IF k.bypassed THEN Unit ELSE k.selected

EndHold(k) == [k EXCEPT !.held = NoRate]

\* Fault: a selection is not remembered for the next toggle.
ActivateForgets(k, rate) ==
  [selected |-> rate, bypassed |-> (rate = Unit), held |-> NoRate, previous |-> k.previous]

Activate(k, rate) ==
  [selected |-> rate, bypassed |-> (rate = Unit), held |-> NoRate,
   previous |-> IF rate = Unit THEN k.previous ELSE rate]

Increase(k) ==
  LET faster == {s \in Steps : s > Effective(EndHold(k))}
  IN  IF faster = {} THEN EndHold(k) ELSE Activate(k, Lowest(faster))

Decrease(k) ==
  LET slower == {s \in Steps : s < Effective(EndHold(k))}
  IN  IF slower = {} THEN EndHold(k) ELSE Activate(k, Highest(slower))

Toggle(k) ==
  CASE ~k.bypassed -> [EndHold(k) EXCEPT !.bypassed = TRUE]
    [] k.bypassed /\ k.previous # NoRate ->
         [EndHold(k) EXCEPT !.selected = k.previous, !.bypassed = FALSE]
    [] OTHER -> EndHold(k)

Reset(k) == [EndHold(k) EXCEPT !.selected = Unit, !.bypassed = TRUE]

BeginHold(k, rate) == [k EXCEPT !.held = rate]

(***************************************************************************)
(* VirtualClock                                                            *)
(***************************************************************************)

NewClock(origin) ==
  [anchorReal |-> origin, anchorVirtual |-> origin,
   lastReal |-> origin, lastVirtual |-> origin, rate |-> Unit]

Scaled(elapsed, rate) == (elapsed * rate) \div Unit

\* Readings older than the last one are clamped; the result never decreases.
Sample(c, real) ==
  LET last      == Larger(c.lastReal, real)
      projected == Saturate(c.anchorVirtual + Scaled(last - c.anchorReal, c.rate))
  IN  [c EXCEPT !.lastReal = last, !.lastVirtual = Larger(c.lastVirtual, projected)]

\* Fault: the new rate also applies to the time since the last anchor.
SetRateInPlace(c, real, rate) == [Sample(c, real) EXCEPT !.rate = rate]

\* Sample under the old rate, re-anchor, go on with the new one.
SetRate(c, real, rate) ==
  LET s == Sample(c, real)
  IN  [anchorReal |-> s.lastReal, anchorVirtual |-> s.lastVirtual,
       lastReal |-> s.lastReal, lastVirtual |-> s.lastVirtual, rate |-> rate]

(***************************************************************************)
(* SpeedSession                                                            *)
(***************************************************************************)

DurationTicks(ms) == Saturate(Larger(1, (ms * Frequency) \div Second))

DeadlineAfter(real, ms) == Saturate(real + DurationTicks(ms))

NewSession(enabled, initial, startupMs, origin) ==
  LET k == NewControls(enabled, initial)
  IN  [controls |-> k,
       clock    |-> SetRate(NewClock(origin), origin, Effective(k)),
       hold     |-> Never,
       startup  |-> IF enabled /\ initial # Unit /\ startupMs > 0
                      THEN DeadlineAfter(origin, startupMs) ELSE Never]

\* Fault: the controls change and the clock keeps its rate.
SwitchControlsOnly(s, k, real, hold, startup) ==
  [controls |-> k, clock |-> s.clock, hold |-> hold, startup |-> startup]

\* Take over the controls k, at the rate they ask for, from the tick real on.
Switch(s, k, real, hold, startup) ==
  [controls |-> k, clock |-> SetRate(s.clock, real, Effective(k)),
   hold |-> hold, startup |-> startup]

\* Fault: the rate changes when the expiry is noticed, not at the deadline.
AdvanceLate(s, real) ==
  LET t == IF s.hold <= real /\ s.hold < s.startup
             THEN Switch(s, EndHold(s.controls), real, Never, s.startup) ELSE s
  IN  IF t.startup <= real THEN Switch(t, Reset(t.controls), real, Never, Never) ELSE t

\* Fault: one expiry per call, although both deadlines may have passed.
AdvanceOnce(s, real) ==
  IF s.hold <= real /\ s.hold < s.startup
    THEN Switch(s, EndHold(s.controls), s.hold, Never, s.startup)
    ELSE IF s.startup <= real
      THEN Switch(s, Reset(s.controls), s.startup, Never, Never) ELSE s

\* The two deadlines in chronological order, each at its own tick; the startup
\* deadline wins a tie and takes the hold with it, so each fires at most once.
Advance(s, real) ==
  LET t == IF s.hold <= real /\ s.hold < s.startup
             THEN Switch(s, EndHold(s.controls), s.hold, Never, s.startup) ELSE s
  IN  IF t.startup <= real THEN Switch(t, Reset(t.controls), t.startup, Never, Never) ELSE t

\* SpeedSession::sample
Poll(s, real) ==
  LET t == Advance(s, real) IN [t EXCEPT !.clock = Sample(t.clock, real)]

Actions ==
  [kind : {"increase", "decrease", "toggle", "reset", "release", "focusLost"}]
    \cup [kind : {"select"}, rate : Rates]
    \cup [kind : {"hold"}, rate : Rates, ms : Nat]

\* Presets that are not configured and holds of no or excessive length are refused.
Accepts(a) ==
  /\ a.kind \in {"select", "hold"} => a.rate \in Steps
  /\ a.kind = "hold" => a.ms \in 1 .. MaxHoldMs

After(k, a) ==
  CASE a.kind = "increase" -> Increase(k)
    [] a.kind = "decrease" -> Decrease(k)
    [] a.kind = "toggle"   -> Toggle(k)
    [] a.kind = "select"   -> Activate(k, a.rate)
    [] a.kind = "hold"     -> BeginHold(k, a.rate)
    [] a.kind = "release"  -> EndHold(k)
    [] OTHER               -> Reset(k)

\* SpeedSession::apply.  A refused action still lets the deadlines pass.
Apply(s, real, a) ==
  LET t == Advance(s, real)
  IN  IF Accepts(a)
        THEN Switch(t, After(t.controls, a), real,
                    IF a.kind = "hold" THEN DeadlineAfter(real, a.ms) ELSE Never,
                    IF a.kind \in {"hold", "release"} THEN t.startup ELSE Never)
        ELSE t

(***************************************************************************)
(* WindowsTimers: the other clock families, projected from the counter.    *)
(***************************************************************************)

\* Fault: the 32-bit counter is cut off where it should wrap.
ProjectionCut(origin, tick64, winmm, width, counter) ==
  LET ms == ((counter - origin) * Second) \div Frequency
      t  == Saturate(tick64 + ms)
  IN  [tick64 |-> t, tick32 |-> t % width,
       winmm |-> IF winmm + ms < width THEN winmm + ms ELSE width - 1]

Projection(origin, tick64, winmm, width, counter) ==
  LET ms == ((counter - origin) * Second) \div Frequency
      t  == Saturate(tick64 + ms)
  IN  [tick64 |-> t, tick32 |-> t % width, winmm |-> (winmm + ms) % width]
=============================================================================
