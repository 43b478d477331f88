-------------------------- MODULE SpeedSessionProofs --------------------------
(***************************************************************************)
(* Theorems about SpeedSession and SpeedPolling for any presets, profile,  *)
(* clock width and requests.  The first lemmas say what each operator of   *)
(* SpeedModel keeps of a well-formed session.  The second part shows that  *)
(* a poll does not tell whether there was another one before it, and that  *)
(* an action does not either.  The third counts what rounding costs.       *)
(* The fourth is about SpeedHotkeys: a look at the keys is taken apart     *)
(* into the events it sends to the dispatcher, one code after the other,   *)
(* and put together again as one step of Keyboard.                         *)
(***************************************************************************)
EXTENDS SpeedPolling, SpeedHotkeys, FiniteSetTheorems, NaturalsInduction, WellFoundedInduction, TLAPS

GoodClock(c) ==
  /\ c \in Clocks
  /\ c.anchorReal <= c.lastReal
  /\ c.anchorVirtual <= c.lastVirtual

\* What is in force when nothing is bypassed is what a toggle will restore.
GoodControls(k) ==
  /\ k \in Controls
  /\ ~k.bypassed => k.selected # Unit /\ k.previous = k.selected

GoodSession(s) ==
  /\ s \in [controls : Controls, clock : Clocks, hold : Deadlines, startup : Deadlines]
  /\ GoodClock(s.clock)
  /\ GoodControls(s.controls)
  /\ s.clock.rate = Effective(s.controls)
  /\ s.controls.held = NoRate <=> s.hold = Never
  /\ s.clock.lastReal < MaxTick => s.hold > s.clock.lastReal /\ s.startup > s.clock.lastReal

LEMMA ScaledNat == ASSUME NEW e \in Nat, NEW r \in Nat PROVE Scaled(e, r) \in Nat
<1>1. e * r \in Nat
  OBVIOUS
<1>2. \A n \in Nat : n \div Unit \in Nat
  BY SettingsAssumption
<1>. QED
  BY <1>1, <1>2 DEF Scaled

LEMMA SampleFacts ==
  ASSUME NEW c, GoodClock(c), NEW real \in Ticks
  PROVE  /\ GoodClock(Sample(c, real))
         /\ Sample(c, real).lastReal = Larger(c.lastReal, real)
         /\ Sample(c, real).lastVirtual >= c.lastVirtual
         /\ Sample(c, real).rate = c.rate
<1> USE SettingsAssumption DEF GoodClock, Clocks, Ticks, Larger, Rates
<1>. DEFINE last == Larger(c.lastReal, real)
            projected == Saturate(c.anchorVirtual + Scaled(last - c.anchorReal, c.rate))
<1>1. last \in Ticks /\ last >= c.lastReal /\ last - c.anchorReal \in Nat
  OBVIOUS
<1>2. Scaled(last - c.anchorReal, c.rate) \in Nat
  BY <1>1, ScaledNat
<1>3. projected \in Ticks
  BY <1>2 DEF Saturate
<1>4. Sample(c, real) = [c EXCEPT !.lastReal = last, !.lastVirtual = Larger(c.lastVirtual, projected)]
  BY DEF Sample
<1>5. Larger(c.lastVirtual, projected) \in Ticks /\ Larger(c.lastVirtual, projected) >= c.lastVirtual
  BY <1>3
<1>. HIDE DEF last, projected
<1>6. Sample(c, real) = [anchorReal |-> c.anchorReal, anchorVirtual |-> c.anchorVirtual,
                         lastReal |-> last, lastVirtual |-> Larger(c.lastVirtual, projected),
                         rate |-> c.rate]
  BY <1>4
<1>7. c.anchorReal \in Ticks /\ c.anchorVirtual \in Ticks /\ c.rate \in Rates /\ c.lastVirtual \in Nat
  OBVIOUS
<1>8. last = Larger(c.lastReal, real)
  BY DEF last
<1>. HIDE DEF Larger, Rates
<1>. QED
  BY <1>1, <1>5, <1>6, <1>7, <1>8

LEMMA SetRateFacts ==
  ASSUME NEW c, GoodClock(c), NEW real \in Ticks, NEW rate \in Rates
  PROVE  /\ GoodClock(SetRate(c, real, rate))
         /\ SetRate(c, real, rate).lastReal = Larger(c.lastReal, real)
         /\ SetRate(c, real, rate).lastVirtual >= c.lastVirtual
         /\ SetRate(c, real, rate).rate = rate
<1>. DEFINE s == Sample(c, real)
<1>1. GoodClock(s) /\ s.lastReal = Larger(c.lastReal, real) /\ s.lastVirtual >= c.lastVirtual
  BY SampleFacts
<1>2. SetRate(c, real, rate) =
        [anchorReal |-> s.lastReal, anchorVirtual |-> s.lastVirtual,
         lastReal |-> s.lastReal, lastVirtual |-> s.lastVirtual, rate |-> rate]
  BY DEF SetRate
<1>. HIDE DEF s
<1>. QED
  BY <1>1, <1>2, SettingsAssumption DEF GoodClock, Clocks, Ticks

LEMMA RateFacts ==
  /\ Unit \in Rates /\ Unit # NoRate /\ Steps \subseteq Rates /\ NoRate \notin Steps
  /\ Initial \in Rates /\ Initial # NoRate /\ Unit \in Steps
BY SettingsAssumption, ProfileAssumption DEF Rates, NoRate

LEMMA NearestFacts ==
  ASSUME NEW S \in SUBSET Steps, S # {}
  PROVE  Lowest(S) \in S /\ Highest(S) \in S
<1>1. PICK low \in S : \A s \in S : low <= s
  BY SettingsAssumption
<1>2. PICK high \in S : \A s \in S : s <= high
  BY SettingsAssumption
<1>. QED
  BY <1>1, <1>2 DEF Lowest, Highest

LEMMA EffectiveRate == ASSUME NEW k \in Controls PROVE Effective(k) \in Rates
BY RateFacts DEF Effective, Controls

LEMMA EndHoldFacts ==
  ASSUME NEW k, GoodControls(k)
  PROVE  GoodControls(EndHold(k)) /\ EndHold(k).held = NoRate
BY DEF GoodControls, Controls, EndHold

LEMMA ActivateFacts ==
  ASSUME NEW k, GoodControls(k), NEW rate \in Steps
  PROVE  GoodControls(Activate(k, rate)) /\ Activate(k, rate).held = NoRate
<1>1. CASE rate = Unit
  BY <1>1 DEF GoodControls, Controls, Activate
<1>2. CASE rate # Unit
  BY <1>2 DEF GoodControls, Controls, Activate
<1>. QED
  BY <1>1, <1>2

LEMMA StepFacts ==
  ASSUME NEW k, GoodControls(k)
  PROVE  /\ GoodControls(Increase(k)) /\ Increase(k).held = NoRate
         /\ GoodControls(Decrease(k)) /\ Decrease(k).held = NoRate
<1>. DEFINE faster == {s \in Steps : s > Effective(EndHold(k))}
            slower == {s \in Steps : s < Effective(EndHold(k))}
<1>1. faster # {} => Lowest(faster) \in Steps
  BY NearestFacts
<1>2. slower # {} => Highest(slower) \in Steps
  BY NearestFacts
<1>3. Increase(k) = IF faster = {} THEN EndHold(k) ELSE Activate(k, Lowest(faster))
  BY DEF Increase
<1>4. Decrease(k) = IF slower = {} THEN EndHold(k) ELSE Activate(k, Highest(slower))
  BY DEF Decrease
<1>. HIDE DEF faster, slower
<1>. QED
  BY <1>1, <1>2, <1>3, <1>4, EndHoldFacts, ActivateFacts

LEMMA ToggleFacts ==
  ASSUME NEW k, GoodControls(k)
  PROVE  GoodControls(Toggle(k)) /\ Toggle(k).held = NoRate
<1> USE RateFacts DEF GoodControls, Controls, EndHold
<1>1. CASE ~k.bypassed
  BY <1>1 DEF Toggle
<1>2. CASE k.bypassed /\ k.previous # NoRate
  BY <1>2 DEF Toggle
<1>3. CASE k.bypassed /\ k.previous = NoRate
  BY <1>3 DEF Toggle
<1>. QED
  BY <1>1, <1>2, <1>3

LEMMA ResetFacts ==
  ASSUME NEW k, GoodControls(k)
  PROVE  GoodControls(Reset(k)) /\ Reset(k).held = NoRate
BY RateFacts DEF GoodControls, Controls, Reset, EndHold

\* What an accepted action leaves in the controls.
LEMMA AfterFacts ==
  ASSUME NEW k, GoodControls(k), NEW a \in Requests, Accepts(a)
  PROVE  /\ GoodControls(After(k, a))
         /\ After(k, a).held = NoRate <=> a.kind # "hold"
<1>1. CASE a.kind = "hold"
  <2>1. a.rate \in Steps /\ a.rate # NoRate
    BY <1>1, RateFacts DEF Accepts
  <2>. QED
    BY <1>1, <2>1 DEF After, BeginHold, GoodControls, Controls
<1>2. CASE a.kind = "select"
  BY <1>2, ActivateFacts DEF After, Accepts
<1>3. CASE a.kind \notin {"hold", "select"}
  BY <1>3, StepFacts, ToggleFacts, ResetFacts, EndHoldFacts DEF After
<1>. QED
  BY <1>1, <1>2, <1>3

\* Virtual time does not go back from s to t, nor does the last real reading.
Onward(s, t) ==
  /\ t.clock.lastReal >= s.clock.lastReal
  /\ t.clock.lastVirtual >= s.clock.lastVirtual

\* A change of controls at a tick no pending deadline precedes.
LEMMA SwitchFacts ==
  ASSUME NEW s, GoodSession(s), NEW k, GoodControls(k), NEW real \in Ticks,
         NEW hold \in Deadlines, NEW startup \in Deadlines,
         k.held = NoRate <=> hold = Never,
         Larger(s.clock.lastReal, real) < MaxTick
           => hold > Larger(s.clock.lastReal, real) /\ startup > Larger(s.clock.lastReal, real)
  PROVE  /\ GoodSession(Switch(s, k, real, hold, startup))
         /\ Onward(s, Switch(s, k, real, hold, startup))
         /\ Switch(s, k, real, hold, startup).clock.lastReal = Larger(s.clock.lastReal, real)
         /\ Switch(s, k, real, hold, startup).hold = hold
         /\ Switch(s, k, real, hold, startup).startup = startup
<1>. DEFINE c == SetRate(s.clock, real, Effective(k))
            t == Switch(s, k, real, hold, startup)
<1>1. GoodClock(s.clock) /\ Effective(k) \in Rates
  BY EffectiveRate DEF GoodSession, GoodControls
<1>2. /\ GoodClock(c) /\ c.lastReal = Larger(s.clock.lastReal, real)
      /\ c.lastVirtual >= s.clock.lastVirtual /\ c.rate = Effective(k)
  BY <1>1, SetRateFacts
<1>3. c.lastReal >= s.clock.lastReal
  BY <1>1, <1>2, SettingsAssumption DEF GoodClock, Clocks, Ticks, Larger
<1>4. t = [controls |-> k, clock |-> c, hold |-> hold, startup |-> startup]
  BY DEF Switch
<1>5. k \in Controls /\ c \in Clocks
  BY <1>2 DEF GoodControls, GoodClock
<1>. HIDE DEF c, t
<1>6. GoodSession(t) /\ Onward(s, t)
  BY <1>2, <1>3, <1>4, <1>5 DEF GoodSession, Onward
<1>7. t.clock.lastReal = Larger(s.clock.lastReal, real) /\ t.hold = hold /\ t.startup = startup
  BY <1>2, <1>4
<1>. QED
  BY <1>6, <1>7 DEF t

\* After the deadlines up to real have been dealt with, none of them is pending.
LEMMA AdvanceFacts ==
  ASSUME NEW s, GoodSession(s), NEW real \in Ticks
  PROVE  LET t == Advance(s, real)
         IN  /\ GoodSession(t) /\ Onward(s, t)
             /\ t.clock.lastReal <= Larger(s.clock.lastReal, real)
             /\ t.hold > real /\ t.startup > real
<1>. DEFINE held == s.hold <= real /\ s.hold < s.startup
            m == IF held THEN Switch(s, EndHold(s.controls), s.hold, Never, s.startup) ELSE s
            t == IF m.startup <= real THEN Switch(m, Reset(m.controls), m.startup, Never, Never) ELSE m
<1>1. t = Advance(s, real)
  BY DEF Advance
<1>2. /\ s.hold \in Deadlines /\ s.startup \in Deadlines /\ s.clock.lastReal \in Ticks
      /\ MaxTick \in Nat
  BY SettingsAssumption DEF GoodSession, Clocks
<1>3. /\ GoodSession(m) /\ Onward(s, m) /\ m.startup = s.startup
      /\ m.clock.lastReal <= Larger(s.clock.lastReal, real)
      /\ m.hold <= real => m.startup <= m.hold
  <2>1. CASE held
    <3>1. s.hold \in Ticks
      BY <1>2, <2>1 DEF Deadlines, Ticks, Never
    <3>2. Larger(s.clock.lastReal, s.hold) < MaxTick
            => Never > Larger(s.clock.lastReal, s.hold) /\ s.startup > Larger(s.clock.lastReal, s.hold)
      BY <1>2, <2>1, <3>1 DEF Larger, Never, Ticks, Deadlines, GoodSession
    <3>3. GoodControls(EndHold(s.controls)) /\ EndHold(s.controls).held = NoRate
      BY EndHoldFacts DEF GoodSession
    <3>4. Never \in Deadlines
      BY <1>2 DEF Deadlines, Never
    <3>5. m = Switch(s, EndHold(s.controls), s.hold, Never, s.startup)
      BY <2>1
    <3>. HIDE DEF m
    <3>6. /\ GoodSession(m) /\ Onward(s, m) /\ m.hold = Never /\ m.startup = s.startup
          /\ m.clock.lastReal = Larger(s.clock.lastReal, s.hold)
      BY <1>2, <3>1, <3>2, <3>3, <3>4, <3>5, SwitchFacts
    <3>. QED
      BY <1>2, <2>1, <3>1, <3>6 DEF Larger, Ticks, Never, Deadlines
  <2>2. CASE ~held
    BY <1>2, <2>2 DEF Onward, Larger, Ticks, GoodSession, GoodClock, Clocks, Deadlines, Never
  <2>. QED
    BY <2>1, <2>2
<1>4. /\ m.hold \in Deadlines /\ m.startup \in Deadlines /\ m.clock.lastReal \in Ticks
      /\ m.clock.lastVirtual \in Ticks /\ s.clock.lastVirtual \in Ticks
  BY <1>3 DEF GoodSession, Clocks
<1>. HIDE DEF m
<1>5. /\ GoodSession(t) /\ Onward(m, t)
      /\ t.clock.lastReal <= Larger(s.clock.lastReal, real)
      /\ t.hold > real /\ t.startup > real
  <2>1. CASE m.startup <= real
    <3>1. m.startup \in Ticks
      BY <1>2, <1>4, <2>1 DEF Deadlines, Ticks, Never
    <3>2. Larger(m.clock.lastReal, m.startup) < MaxTick => Never > Larger(m.clock.lastReal, m.startup)
      BY <1>2, <1>4, <3>1 DEF Larger, Never, Ticks
    <3>3. GoodControls(Reset(m.controls)) /\ Reset(m.controls).held = NoRate
      BY <1>3, ResetFacts DEF GoodSession
    <3>4. Never \in Deadlines
      BY <1>2 DEF Deadlines, Never
    <3>5. t = Switch(m, Reset(m.controls), m.startup, Never, Never)
      BY <1>3, <2>1
    <3>. HIDE DEF t
    <3>6. /\ GoodSession(t) /\ Onward(m, t) /\ t.hold = Never /\ t.startup = Never
          /\ t.clock.lastReal = Larger(m.clock.lastReal, m.startup)
      BY <1>3, <3>1, <3>2, <3>3, <3>4, <3>5, SwitchFacts
    <3>. QED
      BY <1>2, <1>3, <1>4, <2>1, <3>1, <3>6 DEF Larger, Ticks, Never, Deadlines
  <2>2. CASE ~(m.startup <= real)
    BY <1>2, <1>3, <1>4, <2>2 DEF Onward, Deadlines, Never, Ticks
  <2>. QED
    BY <2>1, <2>2
<1>6. t.clock.lastReal \in Ticks /\ t.clock.lastVirtual \in Ticks
  BY <1>5 DEF GoodSession, Clocks
<1>. HIDE DEF t
<1>7. Onward(s, t)
  BY <1>2, <1>3, <1>4, <1>5, <1>6 DEF Onward, Ticks
<1>. QED
  BY <1>1, <1>5, <1>7

LEMMA PollFacts ==
  ASSUME NEW s, GoodSession(s), NEW real \in Ticks
  PROVE  /\ GoodSession(Poll(s, real)) /\ Onward(s, Poll(s, real))
         /\ Poll(s, real).clock.lastReal = Larger(s.clock.lastReal, real)
<1>. DEFINE t == Advance(s, real)
            c == Sample(t.clock, real)
            u == [controls |-> t.controls, clock |-> c, hold |-> t.hold, startup |-> t.startup]
<1>1. /\ GoodSession(t) /\ Onward(s, t)
      /\ t.clock.lastReal <= Larger(s.clock.lastReal, real)
      /\ t.hold > real /\ t.startup > real
  BY AdvanceFacts
<1>2. /\ GoodClock(c) /\ c.lastReal = Larger(t.clock.lastReal, real)
      /\ c.lastVirtual >= t.clock.lastVirtual /\ c.rate = t.clock.rate
  BY <1>1, SampleFacts DEF GoodSession
<1>3. Poll(s, real) = [t EXCEPT !.clock = c]
  BY DEF Poll
<1>. HIDE DEF t, c
<1>9. [t EXCEPT !.clock = c] = u
  BY <1>1 DEF GoodSession
<1>4. /\ s.clock.lastReal \in Ticks /\ s.clock.lastVirtual \in Ticks
      /\ t.clock.lastReal \in Ticks /\ t.clock.lastVirtual \in Ticks
      /\ c.lastReal \in Ticks /\ c.lastVirtual \in Ticks /\ MaxTick \in Nat
  BY <1>1, <1>2, SettingsAssumption DEF GoodSession, GoodClock, Clocks
<1>5. c.lastReal = Larger(s.clock.lastReal, real) /\ c.lastVirtual >= s.clock.lastVirtual
  BY <1>1, <1>2, <1>4 DEF Onward, Larger, Ticks
<1>6. c.lastReal < MaxTick => t.hold > c.lastReal /\ t.startup > c.lastReal
  BY <1>1, <1>2, <1>4 DEF GoodSession, Larger, Ticks
<1>7. GoodSession(u)
  BY <1>1, <1>2, <1>6 DEF GoodSession, GoodClock
<1>8. Onward(s, u)
  BY <1>4, <1>5 DEF Onward, Larger, Ticks
<1>. QED
  BY <1>3, <1>5, <1>7, <1>8, <1>9

\* The deadline of a hold or of the startup rate lies ahead, where u64 allows it.
LEMMA DeadlineFacts ==
  ASSUME NEW real \in Ticks, NEW ms \in Nat
  PROVE  /\ DeadlineAfter(real, ms) \in Ticks
         /\ real < MaxTick => DeadlineAfter(real, ms) > real
<1>1. ms * Frequency \in Nat /\ (ms * Frequency) \div Second \in Nat
  <2>1. ms * Frequency \in Nat
    BY SettingsAssumption
  <2>2. \A n \in Nat : n \div Second \in Nat
    BY SettingsAssumption
  <2>. QED
    BY <2>1, <2>2
<1>. DEFINE d == (ms * Frequency) \div Second
<1>2. DurationTicks(ms) = Saturate(Larger(1, d))
  BY DEF DurationTicks
<1>. HIDE DEF d
<1>3. d \in Nat
  BY <1>1 DEF d
<1>4. DurationTicks(ms) \in Nat /\ DurationTicks(ms) >= 1
  BY <1>2, <1>3, SettingsAssumption DEF Saturate, Larger
<1>. QED
  BY <1>4, SettingsAssumption DEF DeadlineAfter, Saturate, Ticks

LEMMA ApplyFacts ==
  ASSUME NEW s, GoodSession(s), NEW real \in Ticks, s.clock.lastReal <= real, NEW a \in Requests
  PROVE  /\ GoodSession(Apply(s, real, a)) /\ Onward(s, Apply(s, real, a))
         /\ Apply(s, real, a).clock.lastReal <= real
<1>. DEFINE t == Advance(s, real)
            k == After(t.controls, a)
            hold == IF a.kind = "hold" THEN DeadlineAfter(real, a.ms) ELSE Never
            startup == IF a.kind \in {"hold", "release"} THEN t.startup ELSE Never
<1>1. /\ GoodSession(t) /\ Onward(s, t)
      /\ t.clock.lastReal <= Larger(s.clock.lastReal, real)
      /\ t.hold > real /\ t.startup > real
  BY AdvanceFacts
<1>2. /\ s.clock.lastReal \in Ticks /\ s.clock.lastVirtual \in Ticks
      /\ t.clock.lastReal \in Ticks /\ t.clock.lastVirtual \in Ticks /\ MaxTick \in Nat
      /\ t.startup \in Deadlines
  BY <1>1, SettingsAssumption DEF GoodSession, GoodClock, Clocks
<1>3. t.clock.lastReal <= real
  BY <1>1, <1>2 DEF Larger, Ticks
<1>4. Apply(s, real, a) = IF Accepts(a) THEN Switch(t, k, real, hold, startup) ELSE t
  BY DEF Apply
<1>5. CASE Accepts(a)
  <2>1. GoodControls(k) /\ (k.held = NoRate <=> a.kind # "hold")
    BY <1>1, <1>5, AfterFacts DEF GoodSession
  <2>2. a.kind = "hold" => DeadlineAfter(real, a.ms) \in Ticks /\ (real < MaxTick => DeadlineAfter(real, a.ms) > real)
    <3>1. a.kind = "hold" => a.ms \in Nat
      BY <1>5, SettingsAssumption DEF Accepts
    <3>. QED
      BY <3>1, DeadlineFacts
  <2>3. /\ hold \in Deadlines /\ (hold = Never <=> a.kind # "hold")
        /\ real < MaxTick => hold > real
    BY <1>2, <2>2 DEF Deadlines, Never, Ticks
  <2>4. startup \in Deadlines /\ (real < MaxTick => startup > real)
    BY <1>1, <1>2 DEF Deadlines, Never, Ticks
  <2>. HIDE DEF t, k, hold, startup
  <2>5. Larger(t.clock.lastReal, real) = real
    BY <1>2, <1>3 DEF Larger, Ticks
  <2>6. /\ GoodSession(Switch(t, k, real, hold, startup)) /\ Onward(t, Switch(t, k, real, hold, startup))
        /\ Switch(t, k, real, hold, startup).clock.lastReal = real
    BY <1>1, <2>1, <2>3, <2>4, <2>5, SwitchFacts
  <2>7. DEFINE u == Switch(t, k, real, hold, startup)
  <2>8. u.clock.lastReal \in Ticks /\ u.clock.lastVirtual \in Ticks
    BY <2>6 DEF GoodSession, GoodClock, Clocks
  <2>. HIDE DEF u
  <2>9. GoodSession(u) /\ Onward(t, u) /\ u.clock.lastReal = real /\ Apply(s, real, a) = u
    BY <1>4, <1>5, <2>6 DEF u
  <2>. QED
    BY <1>1, <1>2, <2>8, <2>9 DEF Onward, Ticks
<1>6. CASE ~Accepts(a)
  BY <1>1, <1>3, <1>4, <1>6
<1>. QED
  BY <1>5, <1>6
-----------------------------------------------------------------------------

\* Why the parts must go together: a deadline is met only because the clock last
\* ran at a reading no later than now, and the clock's rate is the controls' only
\* because every expiry goes through Switch.
IInv ==
  /\ now \in Origin .. MaxNow
  /\ GoodSession(session)
  /\ session.clock.lastReal <= now

LEMMA InitIInv == Init => IInv
<1>. SUFFICES ASSUME Init PROVE IInv
  OBVIOUS
<1>. DEFINE k == NewControls(Enabled, Initial)
            c == SetRate(NewClock(Origin), Origin, Effective(k))
            startup == IF Enabled /\ Initial # Unit /\ StartupMs > 0
                         THEN DeadlineAfter(Origin, StartupMs) ELSE Never
<1>1. session = [controls |-> k, clock |-> c, hold |-> Never, startup |-> startup] /\ now = Origin
  BY DEF Init, NewSession
<1>2. GoodControls(k) /\ k.held = NoRate
  <2>. DEFINE faster == {s \in Steps : s > Unit}
              slower == {s \in Steps : s < Unit}
              previous == CASE Initial # Unit -> Initial
                            [] Initial = Unit /\ faster # {} -> Lowest(faster)
                            [] Initial = Unit /\ faster = {} /\ slower # {} -> Highest(slower)
                            [] OTHER -> NoRate
  <2>1. faster # {} => Lowest(faster) \in faster
    BY NearestFacts
  <2>2. slower # {} => Highest(slower) \in slower
    BY NearestFacts
  <2>3. Unit \in Nat
    BY SettingsAssumption
  <2>4. /\ faster # {} => Lowest(faster) \in Steps /\ Lowest(faster) # Unit
        /\ slower # {} => Highest(slower) \in Steps /\ Highest(slower) # Unit
    BY <2>1, <2>2, <2>3
  <2>5. k = [selected |-> Initial, previous |-> previous,
             bypassed |-> (~Enabled \/ Initial = Unit), held |-> NoRate]
    BY DEF NewControls
  <2>. HIDE DEF faster, slower, k
  <2>6. previous \in (Steps \cup {Initial, NoRate}) \ {Unit} /\ (Initial # Unit => previous = Initial)
    BY <2>4, RateFacts
  <2>. HIDE DEF previous
  <2>. QED
    BY <2>5, <2>6, RateFacts DEF GoodControls, Controls
<1>3. Effective(k) \in Rates
  BY <1>2, EffectiveRate DEF GoodControls
<1>4. Origin \in Ticks /\ Origin <= MaxNow /\ StartupMs \in Nat /\ MaxTick \in Nat /\ MaxNow \in Ticks
  BY ProfileAssumption, SettingsAssumption
<1>5. GoodClock(NewClock(Origin)) /\ NewClock(Origin).lastReal = Origin
  BY <1>4, RateFacts DEF NewClock, GoodClock, Clocks, Ticks
<1>6. GoodClock(c) /\ c.lastReal = Origin /\ c.rate = Effective(k)
  BY <1>3, <1>4, <1>5, SetRateFacts DEF Larger
<1>7. startup \in Deadlines /\ (Origin < MaxTick => startup > Origin)
  BY <1>4, DeadlineFacts DEF Deadlines, Ticks, Never
<1>8. Never \in Deadlines /\ (Origin < MaxTick => Never > Origin)
  BY <1>4 DEF Deadlines, Ticks, Never
<1>9. k \in Controls /\ c \in Clocks
  BY <1>2, <1>6 DEF GoodControls, GoodClock
<1>. HIDE DEF k, c, startup
<1>10. GoodSession(session) /\ session.clock.lastReal = Origin
  BY <1>1, <1>2, <1>6, <1>7, <1>8, <1>9 DEF GoodSession
<1>. QED
  BY <1>1, <1>4, <1>10 DEF IInv, Ticks

LEMMA StepIInv == ASSUME IInv, [Next]_vars PROVE IInv' /\ Onward(session, session')
<1>1. /\ Origin \in Nat /\ MaxNow \in Ticks /\ MaxTick \in Nat /\ now \in Ticks
      /\ \A real \in Origin .. now : real \in Ticks
  BY ProfileAssumption, SettingsAssumption DEF IInv, Ticks
<1>2. /\ session.clock.lastReal \in Ticks /\ session.clock.lastVirtual \in Ticks
      /\ GoodSession(session) /\ now \in Origin .. MaxNow /\ session.clock.lastReal <= now
  BY DEF IInv, GoodSession, GoodClock, Clocks
<1>3. CASE Pass
  BY <1>1, <1>2, <1>3 DEF Pass, IInv, Onward, Ticks
<1>4. ASSUME NEW real \in Origin .. now, PollAt(real) PROVE IInv' /\ Onward(session, session')
  <2>1. real \in Ticks /\ real <= now
    BY <1>1
  <2>2. session' = Poll(session, real) /\ now' = now
    BY <1>4 DEF PollAt
  <2>3. /\ GoodSession(session') /\ Onward(session, session')
        /\ session'.clock.lastReal = Larger(session.clock.lastReal, real)
    BY <1>2, <2>1, <2>2, PollFacts
  <2>4. session'.clock.lastReal <= now
    BY <1>1, <1>2, <2>1, <2>3 DEF Larger, Ticks
  <2>. QED
    BY <1>2, <2>2, <2>3, <2>4 DEF IInv
<1>5. ASSUME NEW a \in Requests, Act(a) PROVE IInv' /\ Onward(session, session')
  <2>1. session' = Apply(session, now, a) /\ now' = now
    BY <1>5 DEF Act
  <2>2. /\ GoodSession(session') /\ Onward(session, session')
        /\ session'.clock.lastReal <= now
    BY <1>1, <1>2, <2>1, ApplyFacts
  <2>. QED
    BY <1>2, <2>1, <2>2 DEF IInv
<1>6. CASE UNCHANGED vars
  BY <1>1, <1>2, <1>6 DEF IInv, Onward, vars, Ticks
<1>. QED
  BY <1>3, <1>4, <1>5, <1>6 DEF Next
-----------------------------------------------------------------------------

LEMMA Inductive == Spec => []IInv
<1>1. IInv /\ [Next]_vars => IInv'
  BY StepIInv
<1>. QED
  BY InitIInv, <1>1, PTL DEF Spec

\* The session stays well typed, its anchors behind its last sample and its last
\* sample behind the counter: what the methods of speed.rs and speed_session.rs
\* assume of each other.
THEOREM TypeCorrect == Spec => []TypeOK
<1>1. IInv => TypeOK
  BY DEF IInv, GoodSession, GoodClock, TypeOK
<1>. QED
  BY Inductive, <1>1, PTL

\* Every method of SpeedSession that changes the controls re-anchors the clock at
\* their effective rate, whichever actions, refusals and expiries came before.
THEOREM ClockFollowsControlsAlways == Spec => []ClockFollowsControls
<1>1. IInv => ClockFollowsControls
  BY DEF IInv, GoodSession, ClockFollowsControls
<1>. QED
  BY Inductive, <1>1, PTL

\* SpeedSession::apply and advance_deadlines keep held and hold_deadline together.
THEOREM HoldHasDeadlineAlways == Spec => []HoldHasDeadline
<1>1. IInv => HoldHasDeadline
  BY DEF IInv, GoodSession, HoldHasDeadline
<1>. QED
  BY Inductive, <1>1, PTL

\* advance_deadlines leaves no deadline at or before the reading it was given,
\* even when that reading is older than an earlier one.
THEOREM NothingOverdueAlways == Spec => []NothingOverdue
<1>1. IInv => NothingOverdue
  BY DEF IInv, GoodSession, NothingOverdue
<1>. QED
  BY Inductive, <1>1, PTL

\* SpeedControlState::toggle undoes itself after any sequence of actions.
THEOREM ToggleReturnsAlways == Spec => []ToggleReturns
<1>1. IInv => ToggleReturns
  <2>. SUFFICES ASSUME IInv PROVE ToggleReturns
    OBVIOUS
  <2>. DEFINE k == EndHold(session.controls)
  <2>1. GoodControls(k) /\ k.held = NoRate
    BY EndHoldFacts DEF IInv, GoodSession
  <2>. HIDE DEF k
  <2>2. ASSUME Effective(k) # Unit
        PROVE  Effective(Toggle(k)) = Unit /\ Effective(Toggle(Toggle(k))) = Effective(k)
    <3>1. ~k.bypassed /\ k.previous = k.selected /\ k.previous # NoRate /\ Effective(k) = k.selected
      BY <2>1, <2>2, RateFacts DEF Effective, GoodControls, Controls
    <3>. DEFINE off == Toggle(k)
                on  == Toggle(off)
    <3>2. off.bypassed = TRUE /\ off.previous = k.previous /\ off.held = NoRate
      BY <2>1, <3>1 DEF Toggle, EndHold, GoodControls, Controls
    <3>3. GoodControls(off)
      BY <2>1, ToggleFacts
    <3>. HIDE DEF off
    <3>4. on.selected = k.selected /\ on.bypassed = FALSE /\ on.held = NoRate
      BY <3>1, <3>2, <3>3 DEF Toggle, EndHold, GoodControls, Controls
    <3>5. Effective(off) = Unit
      BY <3>2 DEF Effective
    <3>6. Effective(on) = Effective(k)
      BY <3>1, <3>4 DEF Effective
    <3>. QED
      BY <3>5, <3>6 DEF off
  <2>. QED
    BY <2>2 DEF ToggleReturns, k
<1>. QED
  BY Inductive, <1>1, PTL

\* The virtual clock never goes back, nor does the reading it last took into
\* account, whatever the preset rates, the order in which old readings arrive
\* and the actions in between (VirtualClock::sample and set_rate, speed.rs).
THEOREM NeverBack == Spec => [][Onward(session, session')]_vars
<1>1. IInv /\ [Next]_vars => [Onward(session, session')]_vars
  BY StepIInv
<1>. QED
  BY Inductive, <1>1, PTL DEF Spec

-----------------------------------------------------------------------------

LEMMA ScaledMonotone ==
  ASSUME NEW d \in Nat, NEW e \in Nat, d <= e, NEW r \in Nat
  PROVE  Scaled(d, r) <= Scaled(e, r)
<1>1. d * r \in Nat /\ e * r \in Nat /\ d * r <= e * r
  <2>1. PICK n \in Nat : e = d + n
    <3>1. e - d \in Nat /\ e = d + (e - d)
      OBVIOUS
    <3>. QED
      BY <3>1
  <2>2. e * r = d * r + n * r /\ d * r \in Nat /\ n * r \in Nat
    BY <2>1
  <2>. QED
    BY <2>2
<1>2. \A m, n \in Nat : m <= n => m \div Unit <= n \div Unit
  BY SettingsAssumption
<1>. QED
  BY <1>1, <1>2 DEF Scaled

\* What a clock shows does not depend on how often it was read before.
LEMMA SampleAgain ==
  ASSUME NEW c, GoodClock(c), NEW a \in Ticks, NEW b \in Ticks, a <= b
  PROVE  Sample(Sample(c, a), b) = Sample(c, b)
<1>. DEFINE early == Larger(c.lastReal, a)
            late  == Larger(c.lastReal, b)
            projected(last) == Saturate(c.anchorVirtual + Scaled(last - c.anchorReal, c.rate))
            swept(last, virtual) == [anchorReal |-> c.anchorReal, anchorVirtual |-> c.anchorVirtual,
                                     lastReal |-> last, lastVirtual |-> virtual, rate |-> c.rate]
<1>1. /\ c.anchorReal \in Nat /\ c.anchorVirtual \in Nat /\ c.lastReal \in Nat /\ c.lastVirtual \in Nat
      /\ c.rate \in Nat /\ c.anchorReal <= c.lastReal /\ a \in Nat /\ b \in Nat /\ MaxTick \in Nat
  BY SettingsAssumption DEF GoodClock, Clocks, Ticks, Rates
<1>2. /\ early \in Nat /\ late \in Nat /\ early <= late /\ Larger(early, b) = late
      /\ early - c.anchorReal \in Nat /\ late - c.anchorReal \in Nat
      /\ early - c.anchorReal <= late - c.anchorReal
  BY <1>1 DEF Larger
<1>3. /\ Scaled(early - c.anchorReal, c.rate) \in Nat /\ Scaled(late - c.anchorReal, c.rate) \in Nat
      /\ Scaled(early - c.anchorReal, c.rate) <= Scaled(late - c.anchorReal, c.rate)
  BY <1>1, <1>2, ScaledNat, ScaledMonotone
<1>4. projected(early) \in Nat /\ projected(late) \in Nat /\ projected(early) <= projected(late)
  BY <1>1, <1>3 DEF Saturate
<1>5. /\ Sample(c, a) = [c EXCEPT !.lastReal = early, !.lastVirtual = Larger(c.lastVirtual, projected(early))]
      /\ Sample(c, b) = [c EXCEPT !.lastReal = late, !.lastVirtual = Larger(c.lastVirtual, projected(late))]
  BY DEF Sample
<1>. HIDE DEF early, late, projected
<1>6. Sample(c, a) = swept(early, Larger(c.lastVirtual, projected(early)))
  BY <1>5 DEF GoodClock, Clocks
<1>7. Sample(c, b) = swept(late, Larger(c.lastVirtual, projected(late)))
  BY <1>5 DEF GoodClock, Clocks
<1>8. Sample(Sample(c, a), b) = swept(late, Larger(Larger(c.lastVirtual, projected(early)), projected(late)))
  <2>. DEFINE d == Sample(c, a)
  <2>1. Sample(d, b) = [d EXCEPT !.lastReal = Larger(d.lastReal, b),
                                 !.lastVirtual = Larger(d.lastVirtual,
                                   Saturate(d.anchorVirtual + Scaled(Larger(d.lastReal, b) - d.anchorReal, d.rate)))]
    BY DEF Sample
  <2>2. /\ d = swept(early, Larger(c.lastVirtual, projected(early)))
        /\ d.lastReal = early /\ d.lastVirtual = Larger(c.lastVirtual, projected(early))
        /\ d.anchorReal = c.anchorReal /\ d.anchorVirtual = c.anchorVirtual /\ d.rate = c.rate
    BY <1>6
  <2>. HIDE DEF d
  <2>3. Larger(d.lastReal, b) = late /\ Saturate(d.anchorVirtual + Scaled(late - d.anchorReal, d.rate)) = projected(late)
    BY <1>2, <2>2 DEF projected
  <2>4. Sample(d, b) = [d EXCEPT !.lastReal = late, !.lastVirtual = Larger(d.lastVirtual, projected(late))]
    BY <2>1, <2>3
  <2>5. Sample(d, b) = swept(late, Larger(d.lastVirtual, projected(late)))
    BY <2>2, <2>4
  <2>. QED
    BY <2>2, <2>5 DEF d
<1>9. Larger(Larger(c.lastVirtual, projected(early)), projected(late)) = Larger(c.lastVirtual, projected(late))
  BY <1>1, <1>4 DEF Larger
<1>. QED
  BY <1>7, <1>8, <1>9

\* A clock whose rate was changed now shows the same when it is read now.
LEMMA SetRateNow ==
  ASSUME NEW c, GoodClock(c), NEW real \in Ticks, c.lastReal <= real, NEW rate \in Rates
  PROVE  Sample(SetRate(c, real, rate), real) = SetRate(c, real, rate)
<1>. DEFINE s == SetRate(c, real, rate)
            v == Sample(c, real).lastVirtual
<1>1. GoodClock(Sample(c, real)) /\ Sample(c, real).lastReal = real
  BY SampleFacts, SettingsAssumption DEF Larger, GoodClock, Clocks, Ticks
<1>2. s = [anchorReal |-> real, anchorVirtual |-> v, lastReal |-> real, lastVirtual |-> v, rate |-> rate]
  BY <1>1 DEF SetRate
<1>3. v \in Ticks /\ real \in Nat /\ MaxTick \in Nat
  BY <1>1, SettingsAssumption DEF GoodClock, Clocks, Ticks
<1>4. Scaled(real - real, rate) = 0
  <2>1. real - real = 0 /\ 0 * rate = 0
    BY <1>3 DEF Rates
  <2>. QED
    BY <2>1, SettingsAssumption DEF Scaled
<1>. HIDE DEF s, v
<1>5. Sample(s, real) = [s EXCEPT !.lastReal = Larger(real, real),
                                  !.lastVirtual = Larger(v, Saturate(v + Scaled(real - real, rate)))]
  BY <1>2, <1>3 DEF Sample, Larger
<1>6. Larger(real, real) = real /\ Larger(v, Saturate(v + Scaled(real - real, rate))) = v
  BY <1>3, <1>4 DEF Larger, Saturate, Ticks
<1>7. Sample(s, real) = s
  BY <1>2, <1>5, <1>6
<1>. QED
  BY <1>7 DEF s

\* A session whose clock was read and that is otherwise as it was.
Sampled(s, real) == [s EXCEPT !.clock = Sample(s.clock, real)]

LEMMA SampledFields ==
  ASSUME NEW s, GoodSession(s), NEW real
  PROVE  Sampled(s, real) = [controls |-> s.controls, clock |-> Sample(s.clock, real),
                             hold |-> s.hold, startup |-> s.startup]
BY DEF Sampled, GoodSession

LEMMA SwitchLater ==
  ASSUME NEW s, GoodSession(s), NEW a \in Ticks, NEW b \in Ticks, a <= b, NEW k, NEW hold, NEW startup
  PROVE  Switch(Sampled(s, a), k, b, hold, startup) = Switch(s, k, b, hold, startup)
<1>1. Sampled(s, a).clock = Sample(s.clock, a)
  BY SampledFields
<1>2. Sample(Sample(s.clock, a), b) = Sample(s.clock, b)
  BY SampleAgain DEF GoodSession
<1>. QED
  BY <1>1, <1>2 DEF Switch, SetRate

LEMMA AdvanceIdle ==
  ASSUME NEW s, NEW real, ~(s.hold <= real)
  PROVE  Advance(s, real) = IF s.startup <= real
                              THEN Switch(s, Reset(s.controls), s.startup, Never, Never) ELSE s
BY DEF Advance

\* Deadlines that were dealt with at a need not be dealt with again.
LEMMA AdvanceAgain ==
  ASSUME NEW s, GoodSession(s), NEW a \in Ticks, NEW b \in Ticks, a <= b
  PROVE  Advance(Advance(s, a), b) = Advance(s, b)
<1>1. a \in Nat /\ b \in Nat /\ ~(Never <= b) /\ s.hold \in Nat /\ s.startup \in Nat
  BY SettingsAssumption DEF Ticks, Never, GoodSession, Deadlines
<1>2. \A t, r : /\ Switch(t, Reset(t.controls), r, Never, Never).hold = Never
                /\ Switch(t, Reset(t.controls), r, Never, Never).startup = Never
  BY DEF Switch
<1>3. \A t, r : Advance(Switch(t, Reset(t.controls), r, Never, Never), b)
                  = Switch(t, Reset(t.controls), r, Never, Never)
  BY <1>1, <1>2, AdvanceIdle
<1>4. CASE s.hold <= a /\ s.hold < s.startup
  <2>. DEFINE m == Switch(s, EndHold(s.controls), s.hold, Never, s.startup)
              z == Switch(m, Reset(m.controls), m.startup, Never, Never)
  <2>1. s.hold <= b
    BY <1>1, <1>4
  <2>2. /\ Advance(s, a) = IF m.startup <= a THEN z ELSE m
        /\ Advance(s, b) = IF m.startup <= b THEN z ELSE m
    BY <1>4, <2>1 DEF Advance
  <2>3. m.hold = Never /\ m.startup = s.startup
    BY DEF Switch
  <2>4. Advance(z, b) = z
    BY <1>3
  <2>5. Advance(m, b) = IF m.startup <= b THEN z ELSE m
    <3>. HIDE DEF m
    <3>. QED
      BY <1>1, <2>3, AdvanceIdle
  <2>6. m.startup <= a => m.startup <= b
    BY <1>1, <2>3
  <2>. HIDE DEF m, z
  <2>. QED
    BY <2>2, <2>4, <2>5, <2>6
<1>5. CASE ~(s.hold <= a /\ s.hold < s.startup) /\ s.startup <= a
  <2>1. ~(s.hold <= b /\ s.hold < s.startup) /\ s.startup <= b
    BY <1>1, <1>5
  <2>2. /\ Advance(s, a) = Switch(s, Reset(s.controls), s.startup, Never, Never)
        /\ Advance(s, b) = Switch(s, Reset(s.controls), s.startup, Never, Never)
    BY <1>5, <2>1 DEF Advance
  <2>. QED
    BY <1>3, <2>2
<1>6. CASE ~(s.hold <= a /\ s.hold < s.startup) /\ ~(s.startup <= a)
  BY <1>6 DEF Advance
<1>. QED
  BY <1>4, <1>5, <1>6

\* Reading the clock before its deadlines changes nothing they do.
LEMMA AdvanceSampled ==
  ASSUME NEW s, GoodSession(s), NEW a \in Ticks, NEW b \in Ticks, a <= b, s.hold > a, s.startup > a
  PROVE  Advance(Sampled(s, a), b) = IF s.hold <= b \/ s.startup <= b THEN Advance(s, b) ELSE Sampled(s, a)
<1>. DEFINE t == Sampled(s, a)
<1>1. t.controls = s.controls /\ t.hold = s.hold /\ t.startup = s.startup
  BY SampledFields
<1>2. a \in Nat /\ b \in Nat /\ b < Never /\ s.hold \in Nat /\ s.startup \in Nat
  BY SettingsAssumption DEF Ticks, Never, GoodSession, Deadlines
<1>3. ASSUME NEW d \in {s.hold, s.startup}, d <= b, NEW k, NEW hold, NEW startup
      PROVE  Switch(t, k, d, hold, startup) = Switch(s, k, d, hold, startup)
  <2>1. d \in Ticks /\ a <= d
    BY <1>2, <1>3, SettingsAssumption DEF Ticks
  <2>. QED
    BY <2>1, SwitchLater
<1>. HIDE DEF t
<1>4. CASE s.hold <= b /\ s.hold < s.startup
  <2>1. Switch(t, EndHold(s.controls), s.hold, Never, s.startup) = Switch(s, EndHold(s.controls), s.hold, Never, s.startup)
    BY <1>3, <1>4
  <2>. QED
    BY <1>1, <1>4, <2>1 DEF Advance, t
<1>5. CASE ~(s.hold <= b /\ s.hold < s.startup) /\ s.startup <= b
  <2>1. Switch(t, Reset(s.controls), s.startup, Never, Never) = Switch(s, Reset(s.controls), s.startup, Never, Never)
    BY <1>3, <1>5
  <2>. QED
    BY <1>1, <1>5, <2>1 DEF Advance, t
<1>6. CASE ~(s.hold <= b /\ s.hold < s.startup) /\ ~(s.startup <= b)
  BY <1>1, <1>2, <1>6 DEF Advance, t
<1>. QED
  BY <1>4, <1>5, <1>6

\* A poll does not tell whether there was another one before it.
LEMMA PollAgain ==
  ASSUME NEW s, GoodSession(s), NEW a \in Ticks, NEW b \in Ticks, a <= b
  PROVE  Poll(Poll(s, a), b) = Poll(s, b)
<1>. DEFINE t == Advance(s, a)
<1>1. GoodSession(t) /\ t.hold > a /\ t.startup > a
  BY AdvanceFacts
<1>2. Poll(s, a) = Sampled(t, a)
  BY DEF Poll, Sampled
<1>3. Advance(t, b) = Advance(s, b)
  BY AdvanceAgain
<1>. HIDE DEF t
<1>4. Advance(Sampled(t, a), b) = IF t.hold <= b \/ t.startup <= b THEN Advance(t, b) ELSE Sampled(t, a)
  BY <1>1, AdvanceSampled
<1>5. CASE t.hold <= b \/ t.startup <= b
  BY <1>2, <1>3, <1>4, <1>5 DEF Poll
<1>6. CASE ~(t.hold <= b \/ t.startup <= b)
  <2>1. Advance(t, b) = t
    BY <1>6 DEF Advance
  <2>2. Poll(Sampled(t, a), b) = [Sampled(t, a) EXCEPT !.clock = Sample(Sample(t.clock, a), b)]
    BY <1>1, <1>4, <1>6, SampledFields DEF Poll
  <2>3. Sample(Sample(t.clock, a), b) = Sample(t.clock, b)
    BY <1>1, SampleAgain DEF GoodSession
  <2>4. Poll(Sampled(t, a), b) = [t EXCEPT !.clock = Sample(t.clock, b)]
    BY <1>1, <2>2, <2>3, SampledFields DEF GoodSession
  <2>. QED
    BY <1>2, <1>3, <2>1, <2>4 DEF Poll
<1>. QED
  BY <1>5, <1>6

LEMMA PollQuiet ==
  ASSUME NEW s, GoodSession(s), NEW real \in Ticks, s.hold > real, s.startup > real
  PROVE  Advance(s, real) = s /\ Poll(s, real) = Sampled(s, real)
<1>1. s.hold \in Int /\ s.startup \in Int /\ real \in Int
  BY SettingsAssumption DEF GoodSession, Deadlines, Never, Ticks
<1>2. ~(s.hold <= real) /\ ~(s.startup <= real)
  BY <1>1
<1>3. Advance(s, real) = s
  BY <1>2 DEF Advance
<1>. QED
  BY <1>3 DEF Poll, Sampled

\* An action finds, and leaves, what it would have found and left after a poll.
LEMMA ApplyPolled ==
  ASSUME NEW s, GoodSession(s), NEW real \in Ticks, s.clock.lastReal <= real, real < MaxTick,
         NEW a \in Requests
  PROVE  Poll(Apply(s, real, a), real) = Apply(Poll(s, real), real, a)
<1>. DEFINE t == Advance(s, real)
            p == Sampled(t, real)
            k == After(t.controls, a)
            hold == IF a.kind = "hold" THEN DeadlineAfter(real, a.ms) ELSE Never
            startup == IF a.kind \in {"hold", "release"} THEN t.startup ELSE Never
            u == Switch(t, k, real, hold, startup)
<1>1. /\ GoodSession(t) /\ t.hold > real /\ t.startup > real
      /\ t.clock.lastReal <= Larger(s.clock.lastReal, real)
  BY AdvanceFacts
<1>2. real \in Nat /\ MaxTick \in Nat /\ s.clock.lastReal \in Nat /\ t.clock.lastReal \in Nat
  BY <1>1, SettingsAssumption DEF Ticks, GoodSession, Clocks
<1>3. t.clock.lastReal <= real
  BY <1>1, <1>2 DEF Larger
<1>4. Poll(s, real) = p
  BY DEF Poll, Sampled
<1>5. Apply(s, real, a) = IF Accepts(a) THEN u ELSE t
  BY DEF Apply
<1>6. GoodSession(Apply(s, real, a))
  BY ApplyFacts
<1>. HIDE DEF t
<1>7. p.controls = t.controls /\ p.startup = t.startup
  BY <1>1, SampledFields
<1>8. Advance(p, real) = p
  <2>1. real <= real /\ ~(t.hold <= real) /\ ~(t.startup <= real)
    BY <1>1, <1>2, SettingsAssumption DEF GoodSession, Deadlines, Never
  <2>. QED
    BY <1>1, <2>1, AdvanceSampled
<1>9. CASE Accepts(a)
  <2>1. Switch(p, k, real, hold, startup) = u
    <3>. HIDE DEF k, hold, startup
    <3>1. real <= real
      BY <1>2
    <3>. QED
      BY <1>1, <3>1, SwitchLater
  <2>2. Apply(p, real, a) = Switch(p, k, real, hold, startup)
    <3>. HIDE DEF p
    <3>. QED
      BY <1>7, <1>8, <1>9 DEF Apply
  <2>3. Effective(k) \in Rates
    BY <1>1, <1>9, AfterFacts, EffectiveRate DEF GoodSession, GoodControls
  <2>4. u.clock = SetRate(t.clock, real, Effective(k))
    BY DEF Switch
  <2>. HIDE DEF k, hold, startup, p
  <2>5. u.clock.lastReal = real /\ Sample(u.clock, real) = u.clock
    BY <1>1, <1>2, <1>3, <2>3, <2>4, SetRateFacts, SetRateNow DEF Larger, GoodSession
  <2>. HIDE DEF u
  <2>6. GoodSession(u)
    BY <1>5, <1>6, <1>9
  <2>7. u.hold > real /\ u.startup > real
    BY <1>2, <2>5, <2>6 DEF GoodSession
  <2>8. Poll(u, real) = Sampled(u, real)
    BY <2>6, <2>7, PollQuiet
  <2>9. Sampled(u, real) = u
    BY <2>5, <2>6, SampledFields DEF GoodSession
  <2>. QED
    BY <1>4, <1>5, <1>9, <2>1, <2>2, <2>8, <2>9
<1>10. CASE ~Accepts(a)
  <2>1. Poll(t, real) = p
    BY <1>1, PollQuiet
  <2>2. Apply(p, real, a) = p
    <3>. HIDE DEF p
    <3>. QED
      BY <1>8, <1>10 DEF Apply
  <2>. QED
    BY <1>4, <1>5, <1>10, <2>1, <2>2
<1>. QED
  BY <1>9, <1>10

\* A poll with an old reading takes nothing from what the prompt session shows, and
\* the prompt session does at every tick and action what the other one catches up on.
PInv == IInv /\ PollingInvisible

LEMMA InitPInv == MaxNow < MaxTick /\ PInit => PInv
<1>. SUFFICES ASSUME MaxNow < MaxTick, PInit PROVE PInv
  OBVIOUS
<1>1. IInv /\ now = Origin /\ prompt = session
  BY InitIInv DEF PInit, Init
<1>2. /\ Origin \in Ticks /\ Origin <= MaxNow /\ MaxNow \in Ticks /\ MaxTick \in Nat
  BY SettingsAssumption, ProfileAssumption
<1>. DEFINE k == NewControls(Enabled, Initial)
<1>3. session.clock = SetRate(NewClock(Origin), Origin, Effective(k)) /\ session.controls = k
  BY DEF PInit, Init, NewSession
<1>. HIDE DEF k
<1>4. Effective(k) \in Rates /\ GoodSession(session)
  BY <1>1, <1>3, EffectiveRate DEF IInv, GoodSession
<1>5. GoodClock(NewClock(Origin)) /\ NewClock(Origin).lastReal = Origin
  BY <1>2, RateFacts, SettingsAssumption DEF NewClock, GoodClock, Clocks, Ticks
<1>6. session.clock.lastReal = Origin /\ Sample(session.clock, Origin) = session.clock
  BY <1>2, <1>3, <1>4, <1>5, SetRateFacts, SetRateNow DEF Larger, Ticks
<1>7. session.hold > Origin /\ session.startup > Origin
  BY <1>2, <1>4, <1>6 DEF GoodSession, Ticks
<1>8. Poll(session, Origin) = Sampled(session, Origin)
  BY <1>2, <1>4, <1>7, PollQuiet
<1>9. Sampled(session, Origin) = session
  BY <1>4, <1>6, SampledFields DEF GoodSession
<1>. QED
  BY <1>1, <1>8, <1>9 DEF PInv, PollingInvisible

LEMMA StepPInv == ASSUME MaxNow < MaxTick, PInv, [PNext]_pollingVars PROVE PInv'
<1>1. [Next]_vars
  BY DEF PNext, PPass, PPoll, PAct, Next, pollingVars, vars
<1>2. IInv' /\ IInv
  BY <1>1, StepIInv DEF PInv
<1>3. /\ now \in Nat /\ now \in Ticks /\ now < MaxTick /\ MaxTick \in Nat /\ Origin \in Nat
      /\ GoodSession(session) /\ session.clock.lastReal <= now
      /\ prompt = Poll(session, now)
  BY SettingsAssumption, ProfileAssumption DEF PInv, IInv, PollingInvisible, Ticks
<1>4. CASE PPass
  <2>1. now' = now + 1 /\ session' = session /\ prompt' = Poll(prompt, now + 1)
    BY <1>4 DEF PPass, Pass
  <2>2. now + 1 \in Ticks /\ now <= now + 1
    BY <1>3 DEF Ticks
  <2>3. prompt' = Poll(session, now + 1)
    BY <1>3, <2>1, <2>2, PollAgain
  <2>. QED
    BY <1>2, <2>1, <2>3 DEF PInv, PollingInvisible
<1>5. CASE PPoll
  <2>1. PICK real \in Origin .. now : PollAt(real)
    BY <1>5 DEF PPoll
  <2>2. real \in Ticks /\ real <= now
    BY <1>3, <2>1 DEF Ticks
  <2>3. session' = Poll(session, real) /\ now' = now /\ prompt' = prompt
    BY <1>5, <2>1 DEF PollAt, PPoll
  <2>4. Poll(session', now) = Poll(session, now)
    BY <1>3, <2>2, <2>3, PollAgain
  <2>. QED
    BY <1>2, <1>3, <2>3, <2>4 DEF PInv, PollingInvisible
<1>6. ASSUME NEW a \in Requests, PAct(a) PROVE PInv'
  <2>1. session' = Apply(session, now, a) /\ now' = now /\ prompt' = Apply(prompt, now, a)
    BY <1>6 DEF PAct, Act
  <2>2. Poll(session', now) = Apply(prompt, now, a)
    BY <1>3, <2>1, ApplyPolled
  <2>. QED
    BY <1>2, <2>1, <2>2 DEF PInv, PollingInvisible
<1>7. CASE UNCHANGED pollingVars
  BY <1>2, <1>3, <1>7 DEF PInv, PollingInvisible, pollingVars, vars
<1>. QED
  BY <1>4, <1>5, <1>6, <1>7 DEF PNext

\* Whenever a SpeedSession is looked at, it shows what it would have shown had it
\* been polled on every tick, for any presets, profile and requests, as long as the
\* counter has not reached u64::MAX, where deadlines saturate.
THEOREM PollingInvisibleAlways == MaxNow < MaxTick => (PSpec => []PollingInvisible)
<1>. SUFFICES ASSUME MaxNow < MaxTick PROVE PSpec => []PollingInvisible
  OBVIOUS
<1>1. PInit => PInv
  BY InitPInv
<1>2. PInv /\ [PNext]_pollingVars => PInv'
  BY StepPInv
<1>3. PInv => PollingInvisible
  BY DEF PInv
<1>. QED
  BY <1>1, <1>2, <1>3, PTL DEF PSpec

-----------------------------------------------------------------------------
\* The arithmetic of the drift.

LEMMA DivMod ==
  ASSUME NEW n \in Int, NEW w \in Nat \ {0}
  PROVE  \E q \in Int, r \in 0 .. w - 1 : n \div w = q /\ n % w = r /\ n = w * q + r
<1>1. n \div w \in Int /\ n % w \in 0 .. w - 1
  OBVIOUS
<1>2. PICK q \in Int, r \in 0 .. w - 1 : n \div w = q /\ n % w = r
  BY <1>1
<1>3. n = w * q + r
  BY <1>2, SMTT(30)
<1>. QED
  BY <1>2, <1>3, Zenon

LEMMA DivisionIs ==
  ASSUME NEW w \in Nat \ {0}, NEW k \in Int, NEW m \in 0 .. w - 1
  PROVE  (w * k + m) % w = m
<1>1. PICK n \in Int : n = w * k + m
  OBVIOUS
<1>2. PICK j \in Int, r \in 0 .. w - 1 : n % w = r /\ n = w * j + r
  BY DivMod
<1>3. w * k + m = w * j + r
  BY <1>1, <1>2
<1>. SUFFICES r = m
  BY <1>1, <1>2
<1>4. w * (k - j) = r - m
  <2>1. w * (k - j) = w * k - w * j
    BY <1>2
  <2>. QED
    BY <1>2, <1>3, <2>1
<1>5. CASE k > j
  <2>1. PICK d \in Nat : k - j = d + 1
    <3>1. k - j - 1 \in Nat /\ k - j = (k - j - 1) + 1
      BY <1>2, <1>5
    <3>. QED
      BY <3>1
  <2>2. w * (d + 1) = w * d + w /\ w * d \in Nat
    OBVIOUS
  <2>. QED
    BY <1>2, <1>4, <2>1, <2>2
<1>6. CASE k < j
  <2>1. PICK d \in Nat : j - k = d + 1
    <3>1. j - k - 1 \in Nat /\ j - k = (j - k - 1) + 1
      BY <1>2, <1>6
    <3>. QED
      BY <3>1
  <2>2. w * (d + 1) = w * d + w /\ w * d \in Nat
    OBVIOUS
  <2>3. w * (j - k) = m - r
    BY <1>2, <1>4
  <2>. QED
    BY <1>2, <2>1, <2>2, <2>3
<1>7. CASE k = j
  BY <1>2, <1>3, <1>7
<1>. QED
  BY <1>2, <1>5, <1>6, <1>7

LEMMA Wraps ==
  ASSUME NEW w \in Nat \ {0}, NEW x \in Int, NEW y \in Int
  PROVE  ((x % w) - y) % w = (x - y) % w
<1>1. PICK q \in Int, r \in 0 .. w - 1 : x % w = r /\ x = w * q + r
  BY DivMod
<1>2. PICK z \in Int : z = r - y
  BY <1>1
<1>3. PICK p \in Int, m \in 0 .. w - 1 : z % w = m /\ z = w * p + m
  BY DivMod, ZenonT(40)
<1>4. x - y = w * (q + p) + m /\ q + p \in Int
  <2>1. w * (q + p) = w * q + w * p
    BY <1>1, <1>3
  <2>. QED
    BY <1>1, <1>2, <1>3, <2>1
<1>5. (w * (q + p) + m) % w = m
  BY <1>4, <1>3, DivisionIs
<1>6. (x - y) % w = m
  BY <1>4, <1>5
<1>. QED
  BY <1>1, <1>2, <1>3, <1>6

LEMMA Grows ==
  ASSUME NEW a \in Int, NEW b \in Int, a <= b, NEW g \in Nat
  PROVE  a * g <= b * g /\ a * g \in Int /\ b * g \in Int
<1>1. b - a \in Nat
  OBVIOUS
<1>2. PICK d \in Nat : b = a + d
  <2>1. b = a + (b - a)
    OBVIOUS
  <2>. QED
    BY <1>1, <2>1
<1>3. b * g = a * g + d * g /\ d * g \in Nat /\ a * g \in Int
  BY <1>2
<1>. QED
  BY <1>2, <1>3

\* The clock shows what its anchors and its rate make of the last reading, and what
\* its rounding keeps back is less than one tick.
Elapsed(c) == (c.lastReal - c.anchorReal) * c.rate
Tight(c) == c.lastVirtual = Saturate(c.anchorVirtual + Scaled(c.lastReal - c.anchorReal, c.rate))
Rest(c)  == Elapsed(c) % Unit
Total(c) == c.lastVirtual * Unit + Rest(c)

LEMMA RestFacts ==
  ASSUME NEW c, GoodClock(c)
  PROVE  /\ Elapsed(c) \in Nat /\ Rest(c) \in 0 .. Unit - 1 /\ Total(c) \in Int
         /\ Elapsed(c) = Unit * Scaled(c.lastReal - c.anchorReal, c.rate) + Rest(c)
<1>1. /\ c.lastReal - c.anchorReal \in Nat /\ c.rate \in Nat /\ Unit \in Nat \ {0}
      /\ c.lastVirtual \in Nat
  BY SettingsAssumption DEF GoodClock, Clocks, Ticks, Rates
<1>2. Elapsed(c) \in Nat
  BY <1>1 DEF Elapsed
<1>3. PICK q \in Int, r \in 0 .. Unit - 1 :
        Elapsed(c) \div Unit = q /\ Elapsed(c) % Unit = r /\ Elapsed(c) = Unit * q + r
  <2>1. Elapsed(c) \in Int
    BY <1>2
  <2>. HIDE DEF Elapsed
  <2>. QED
    BY <1>1, <2>1, DivMod, Zenon
<1>4. Scaled(c.lastReal - c.anchorReal, c.rate) = q /\ Rest(c) = r
  BY <1>3 DEF Scaled, Elapsed, Rest
<1>5. Total(c) \in Int
  BY <1>1, <1>3, <1>4 DEF Total
<1>. QED
  BY <1>2, <1>3, <1>4, <1>5

LEMMA TightTotal ==
  ASSUME NEW c, GoodClock(c), Tight(c), c.lastVirtual < MaxTick
  PROVE  Total(c) = c.anchorVirtual * Unit + Elapsed(c)
<1>. DEFINE q == Scaled(c.lastReal - c.anchorReal, c.rate)
<1>1. /\ Unit \in Nat /\ c.anchorVirtual \in Nat /\ c.lastVirtual \in Nat /\ MaxTick \in Nat
      /\ c.lastReal - c.anchorReal \in Nat /\ c.rate \in Nat
  BY SettingsAssumption DEF GoodClock, Clocks, Ticks, Rates
<1>2. q \in Nat
  BY <1>1, ScaledNat
<1>3. c.lastVirtual = Saturate(c.anchorVirtual + q)
  BY DEF Tight
<1>4. Elapsed(c) = Unit * q + Rest(c) /\ Rest(c) \in Nat
  BY <1>1, RestFacts
<1>. HIDE DEF q
<1>5. c.lastVirtual = c.anchorVirtual + q
  BY <1>1, <1>2, <1>3 DEF Saturate
<1>6. (c.anchorVirtual + q) * Unit = c.anchorVirtual * Unit + Unit * q
  BY <1>1, <1>2
<1>7. c.anchorVirtual * Unit \in Nat /\ Unit * q \in Nat
  BY <1>1, <1>2
<1>. QED
  BY <1>4, <1>5, <1>6, <1>7 DEF Total

LEMMA SampleTight ==
  ASSUME NEW c, GoodClock(c), Tight(c), NEW real \in Ticks
  PROVE  /\ Tight(Sample(c, real))
         /\ real <= c.lastReal => Sample(c, real) = c
<1>. DEFINE last == Larger(c.lastReal, real)
            projected(r) == Saturate(c.anchorVirtual + Scaled(r - c.anchorReal, c.rate))
<1>1. /\ c.anchorReal \in Nat /\ c.anchorVirtual \in Nat /\ c.lastReal \in Nat /\ c.lastVirtual \in Nat
      /\ c.rate \in Nat /\ c.anchorReal <= c.lastReal /\ real \in Nat /\ MaxTick \in Nat
  BY SettingsAssumption DEF GoodClock, Clocks, Ticks, Rates
<1>2. /\ last \in Nat /\ c.lastReal - c.anchorReal \in Nat /\ last - c.anchorReal \in Nat
      /\ c.lastReal - c.anchorReal <= last - c.anchorReal
  BY <1>1 DEF Larger
<1>3. /\ Scaled(c.lastReal - c.anchorReal, c.rate) \in Nat /\ Scaled(last - c.anchorReal, c.rate) \in Nat
      /\ Scaled(c.lastReal - c.anchorReal, c.rate) <= Scaled(last - c.anchorReal, c.rate)
  BY <1>1, <1>2, ScaledNat, ScaledMonotone
<1>4. c.lastVirtual = projected(c.lastReal)
  BY DEF Tight
<1>5. projected(last) \in Nat /\ projected(c.lastReal) <= projected(last)
  BY <1>1, <1>3 DEF Saturate
<1>6. Larger(c.lastVirtual, projected(last)) = projected(last)
  BY <1>1, <1>4, <1>5 DEF Larger
<1>7. Sample(c, real) = [c EXCEPT !.lastReal = last, !.lastVirtual = Larger(c.lastVirtual, projected(last))]
  BY DEF Sample
<1>8. real <= c.lastReal => last = c.lastReal
  BY <1>1 DEF Larger
<1>. HIDE DEF last, projected
<1>9. Sample(c, real) = [anchorReal |-> c.anchorReal, anchorVirtual |-> c.anchorVirtual,
                         lastReal |-> last, lastVirtual |-> projected(last), rate |-> c.rate]
  BY <1>6, <1>7 DEF GoodClock, Clocks
<1>10. Tight(Sample(c, real))
  BY <1>9 DEF Tight, projected
<1>11. ASSUME real <= c.lastReal PROVE Sample(c, real) = c
  BY <1>4, <1>8, <1>9, <1>11 DEF GoodClock, Clocks
<1>. QED
  BY <1>10, <1>11

\* A tick adds the rate to the total.
LEMMA TickTotal ==
  ASSUME NEW c, GoodClock(c), Tight(c), c.lastReal + 1 \in Ticks,
         Sample(c, c.lastReal + 1).lastVirtual < MaxTick
  PROVE  Total(Sample(c, c.lastReal + 1)) = Total(c) + c.rate
<1>. DEFINE d == Sample(c, c.lastReal + 1)
<1>1. /\ c.anchorReal \in Nat /\ c.anchorVirtual \in Nat /\ c.lastReal \in Nat /\ c.lastVirtual \in Nat
      /\ c.rate \in Nat /\ c.anchorReal <= c.lastReal /\ MaxTick \in Nat /\ Unit \in Nat
  BY SettingsAssumption DEF GoodClock, Clocks, Ticks, Rates
<1>2. GoodClock(d) /\ Tight(d) /\ d.lastReal = c.lastReal + 1 /\ d.lastVirtual >= c.lastVirtual
  BY <1>1, SampleFacts, SampleTight DEF Larger
<1>3. d.anchorReal = c.anchorReal /\ d.anchorVirtual = c.anchorVirtual /\ d.rate = c.rate
  BY DEF Sample, GoodClock, Clocks
<1>4. d.lastVirtual < MaxTick /\ d.lastVirtual \in Nat
  BY <1>2 DEF GoodClock, Clocks, Ticks
<1>. HIDE DEF d
<1>5. c.lastVirtual < MaxTick
  BY <1>1, <1>2, <1>4
<1>6. Elapsed(d) = Elapsed(c) + c.rate
  <2>1. PICK e \in Nat : e = c.lastReal - c.anchorReal
    BY <1>1
  <2>2. d.lastReal - d.anchorReal = e + 1
    BY <1>1, <1>2, <1>3, <2>1
  <2>3. (e + 1) * c.rate = e * c.rate + c.rate
    BY <1>1
  <2>. QED
    BY <1>3, <2>1, <2>2, <2>3 DEF Elapsed
<1>7. c.anchorVirtual * Unit \in Nat /\ Elapsed(c) \in Nat
  BY <1>1, RestFacts
<1>8. Total(c) = c.anchorVirtual * Unit + Elapsed(c) /\ Total(d) = c.anchorVirtual * Unit + Elapsed(d)
  BY <1>2, <1>3, <1>4, <1>5, TightTotal
<1>. QED
  BY <1>1, <1>6, <1>7, <1>8 DEF d

\* A change of rate loses what the rounding kept back, and nothing else.
LEMMA SetRateTotal ==
  ASSUME NEW c, GoodClock(c), NEW real \in Ticks, NEW rate \in Rates
  PROVE  LET d == Sample(c, real)
             e == SetRate(c, real, rate)
         IN  /\ Tight(e) /\ e.lastVirtual = d.lastVirtual /\ Rest(e) = 0
             /\ Total(e) = Total(d) - Rest(d)
<1>. DEFINE d == Sample(c, real)
            e == SetRate(c, real, rate)
<1>1. GoodClock(d)
  BY SampleFacts
<1>2. e = [anchorReal |-> d.lastReal, anchorVirtual |-> d.lastVirtual,
           lastReal |-> d.lastReal, lastVirtual |-> d.lastVirtual, rate |-> rate]
  BY DEF SetRate
<1>. HIDE DEF d, e
<1>3. /\ d.lastReal \in Nat /\ d.lastVirtual \in Ticks /\ MaxTick \in Nat /\ rate \in Nat
      /\ Unit \in Nat \ {0} /\ Rest(d) \in 0 .. Unit - 1
  BY <1>1, SettingsAssumption, RestFacts DEF GoodClock, Clocks, Ticks, Rates
<1>4. (e.lastReal - e.anchorReal) * e.rate = 0
  <2>1. d.lastReal - d.lastReal = 0 /\ 0 * rate = 0
    BY <1>3
  <2>. QED
    BY <1>2, <2>1
<1>5. 0 % Unit = 0 /\ 0 \div Unit = 0
  BY <1>3
<1>6. Rest(e) = 0 /\ Scaled(e.lastReal - e.anchorReal, e.rate) = 0
  BY <1>4, <1>5 DEF Rest, Elapsed, Scaled
<1>7. Tight(e)
  BY <1>2, <1>3, <1>6 DEF Tight, Saturate, Ticks
<1>8. d.lastVirtual * Unit \in Nat
  BY <1>3 DEF Ticks
<1>9. Total(e) = Total(d) - Rest(d)
  BY <1>2, <1>3, <1>6, <1>8 DEF Total
<1>. QED
  BY <1>2, <1>6, <1>7, <1>9 DEF d, e

\* How many changes of rate there can have been: an action may make one at once and
\* one when its hold is over, and the startup rate ends once.
Pending(deadline) == IF deadline = Never THEN 0 ELSE 1
Changes(s, n) == 2 * n + 1 - Pending(s.hold) - Pending(s.startup)

\* What the clock of s shows of the true virtual time w after n actions.
Close(s, n, w) ==
  s.clock.lastVirtual < MaxTick =>
    /\ Total(s.clock) <= w
    /\ w <= Total(s.clock) + Changes(s, n) * (Unit - 1)

LEMMA ChangesFacts ==
  ASSUME NEW s, NEW n \in Nat
  PROVE  Changes(s, n) \in Int /\ Changes(s, n) <= 2 * n + 1
BY DEF Changes, Pending

\* One change of rate costs no more than Unit - 1, and the budget allows it.
LEMMA ChangeClose ==
  ASSUME NEW s, GoodSession(s), NEW real \in Ticks, NEW rate \in Rates, NEW u,
         u.clock = SetRate(s.clock, real, rate),
         NEW n \in Nat, NEW m \in Nat, Changes(u, m) >= Changes(s, n) + 1, NEW w \in Int,
         Sample(s.clock, real).lastVirtual < MaxTick =>
           /\ Total(Sample(s.clock, real)) <= w
           /\ w <= Total(Sample(s.clock, real)) + Changes(s, n) * (Unit - 1)
  PROVE  Tight(u.clock) /\ Close(u, m, w)
<1>. DEFINE d == Sample(s.clock, real)
            g == Unit - 1
            before == Changes(s, n)
            after  == Changes(u, m)
<1>1. GoodClock(s.clock) /\ GoodClock(d)
  BY SampleFacts DEF GoodSession
<1>2. /\ Tight(u.clock) /\ u.clock.lastVirtual = d.lastVirtual
      /\ Total(u.clock) = Total(d) - Rest(d)
  BY <1>1, SetRateTotal
<1>3. g \in Nat /\ Rest(d) \in 0 .. g /\ Total(d) \in Int
  BY <1>1, RestFacts, SettingsAssumption
<1>4. before \in Int /\ after \in Int /\ before + 1 <= after
  BY ChangesFacts
<1>5. ASSUME d.lastVirtual < MaxTick
      PROVE  Total(u.clock) <= w /\ w <= Total(u.clock) + after * g
  <2>1. Total(d) <= w /\ w <= Total(d) + before * g
    BY <1>5
  <2>. HIDE DEF d, g, before, after
  <2>2. (before + 1) * g <= after * g /\ after * g \in Int
    BY <1>3, <1>4, Grows
  <2>3. (before + 1) * g = before * g + g /\ before * g \in Int
    BY <1>3, <1>4
  <2>. QED
    BY <1>2, <1>3, <2>1, <2>2, <2>3
<1>. QED
  BY <1>2, <1>5 DEF Close

LEMMA TickClose ==
  ASSUME NEW s, GoodSession(s), Tight(s.clock), s.clock.lastReal + 1 \in Ticks,
         NEW n \in Nat, NEW w \in Int, Close(s, n, w)
  PROVE  LET u == Poll(s, s.clock.lastReal + 1)
         IN  Tight(u.clock) /\ Close(u, n, w + s.clock.rate)
<1>. DEFINE real == s.clock.lastReal + 1
            d == Sample(s.clock, real)
            t == Advance(s, real)
            u == Poll(s, real)
            later == w + s.clock.rate
<1>. SUFFICES Tight(u.clock) /\ Close(u, n, later)
  OBVIOUS
<1>1. /\ GoodClock(s.clock) /\ s.clock.lastReal \in Nat /\ s.clock.lastVirtual \in Nat
      /\ s.clock.rate \in Nat /\ MaxTick \in Nat /\ real \in Ticks
      /\ s.hold \in Nat /\ s.startup \in Nat /\ Unit - 1 \in Nat
  BY SettingsAssumption DEF GoodSession, GoodClock, Clocks, Ticks, Rates, Deadlines, Never
<1>2. real <= s.hold /\ real <= s.startup /\ real < Never /\ real \in Nat /\ s.clock.lastReal <= real
  BY <1>1 DEF GoodSession, Ticks, Never
<1>3. GoodClock(d) /\ d.lastVirtual >= s.clock.lastVirtual /\ d.lastVirtual \in Nat /\ Tight(d)
  <2>. HIDE DEF real
  <2>1. GoodClock(d) /\ d.lastVirtual >= s.clock.lastVirtual /\ Tight(d)
    BY <1>1, SampleFacts, SampleTight
  <2>. HIDE DEF d
  <2>. QED
    BY <2>1, SettingsAssumption DEF GoodClock, Clocks, Ticks
<1>4. later \in Int /\ Changes(s, n) \in Int /\ Changes(s, n) * (Unit - 1) \in Int
  <2>1. Changes(s, n) \in Int
    BY ChangesFacts
  <2>. HIDE DEF Changes
  <2>. QED
    BY <1>1, <2>1
<1>5. d.lastVirtual < MaxTick =>
        Total(d) <= later /\ later <= Total(d) + Changes(s, n) * (Unit - 1)
  <2>1. SUFFICES ASSUME d.lastVirtual < MaxTick
                 PROVE  Total(d) <= later /\ later <= Total(d) + Changes(s, n) * (Unit - 1)
    OBVIOUS
  <2>2. s.clock.lastVirtual < MaxTick
    BY <1>1, <1>3, <2>1
  <2>3. Total(s.clock) <= w /\ w <= Total(s.clock) + Changes(s, n) * (Unit - 1)
    BY <2>2 DEF Close
  <2>4. Total(d) = Total(s.clock) + s.clock.rate
    BY <1>1, <2>1, TickTotal
  <2>5. Total(s.clock) \in Int
    BY <1>1, RestFacts
  <2>. HIDE DEF d, Changes, Total
  <2>. QED
    BY <1>1, <1>4, <2>3, <2>4, <2>5
<1>. HIDE DEF real, later
<1>6. \A r \in Rates : Sample(SetRate(s.clock, real, r), real) = SetRate(s.clock, real, r)
  BY <1>1, <1>2, SetRateNow
<1>7. GoodSession(t) /\ t.clock.rate \in Rates
  BY <1>1, AdvanceFacts DEF GoodSession, Clocks
<1>8. u.clock = Sample(t.clock, real) /\ u.hold = t.hold /\ u.startup = t.startup
  <2>. HIDE DEF t
  <2>1. u = [t EXCEPT !.clock = Sample(t.clock, real)]
    BY DEF Poll, t
  <2>. QED
    BY <1>7, <2>1 DEF GoodSession
<1>9. CASE s.hold # real /\ s.startup # real
  <2>1. s.hold > real /\ s.startup > real
    BY <1>1, <1>2, <1>9
  <2>2. t = s
    BY <1>1, <2>1, PollQuiet
  <2>3. u.clock = d /\ Changes(u, n) = Changes(s, n)
    BY <1>8, <2>2 DEF Changes
  <2>. HIDE DEF d, u
  <2>. QED
    BY <1>3, <1>5, <2>3 DEF Close
<1>10. ASSUME NEW k, NEW startup, t = Switch(s, k, real, Never, startup), Effective(k) \in Rates,
              (startup = s.startup /\ s.hold = real) \/ (startup = Never /\ s.startup = real)
       PROVE  Tight(u.clock) /\ Close(u, n, later)
  <2>1. t.clock = SetRate(s.clock, real, Effective(k)) /\ t.hold = Never /\ t.startup = startup
    BY <1>10 DEF Switch
  <2>2. u.clock = SetRate(s.clock, real, Effective(k)) /\ u.hold = Never /\ u.startup = startup
    BY <1>6, <1>8, <1>10, <2>1
  <2>3. Changes(u, n) >= Changes(s, n) + 1
    BY <1>2, <1>10, <2>2 DEF Changes, Pending
  <2>. HIDE DEF u
  <2>. QED
    BY <1>1, <1>4, <1>5, <1>10, <2>2, <2>3, ChangeClose
<1>11. CASE s.hold = real /\ s.startup # real
  <2>. DEFINE k == EndHold(s.controls)
              m == Switch(s, k, s.hold, Never, s.startup)
  <2>1. s.hold <= real /\ s.hold < s.startup /\ ~(s.startup <= real)
    BY <1>1, <1>2, <1>11
  <2>2. m.startup = s.startup
    BY DEF Switch
  <2>3. t = m
    BY <2>1, <2>2 DEF Advance
  <2>4. Effective(k) \in Rates
    BY EndHoldFacts, EffectiveRate DEF GoodSession, GoodControls
  <2>. HIDE DEF k, t
  <2>5. PICK startup : startup = s.startup
    OBVIOUS
  <2>6. t = Switch(s, k, real, Never, startup)
    BY <1>11, <2>3, <2>5
  <2>. HIDE DEF m, u
  <2>7. (startup = s.startup /\ s.hold = real) \/ (startup = Never /\ s.startup = real)
    BY <1>11, <2>5
  <2>. QED
    BY <1>10, <2>4, <2>6, <2>7
<1>12. CASE s.startup = real
  <2>. DEFINE k == Reset(s.controls)
  <2>1. ~(s.hold < s.startup) /\ s.startup <= real
    BY <1>1, <1>2, <1>12
  <2>2. t = Switch(s, k, s.startup, Never, Never)
    BY <2>1 DEF Advance
  <2>4. Effective(k) \in Rates
    BY ResetFacts, EffectiveRate DEF GoodSession, GoodControls
  <2>. HIDE DEF k, t, u
  <2>. QED
    BY <1>10, <1>12, <2>2, <2>4
<1>. QED
  BY <1>9, <1>11, <1>12

LEMMA ApplyClose ==
  ASSUME NEW s, GoodSession(s), Tight(s.clock), s.clock.lastReal < MaxTick,
         NEW n \in Nat, NEW w \in Int, Close(s, n, w), NEW a \in Requests
  PROVE  LET u == Apply(s, s.clock.lastReal, a)
         IN  Tight(u.clock) /\ Close(u, n + 1, w)
<1>. DEFINE real == s.clock.lastReal
            k == After(s.controls, a)
            hold == IF a.kind = "hold" THEN DeadlineAfter(real, a.ms) ELSE Never
            startup == IF a.kind \in {"hold", "release"} THEN s.startup ELSE Never
            u == Apply(s, real, a)
<1>. SUFFICES Tight(u.clock) /\ Close(u, n + 1, w)
  OBVIOUS
<1>1. /\ GoodClock(s.clock) /\ real \in Ticks /\ real \in Nat /\ MaxTick \in Nat
      /\ s.hold > real /\ s.startup > real /\ Unit - 1 \in Nat
  BY SettingsAssumption DEF GoodSession, GoodClock, Clocks, Ticks
<1>2. Advance(s, real) = s
  BY <1>1, PollQuiet
<1>3. u = IF Accepts(a) THEN Switch(s, k, real, hold, startup) ELSE s
  BY <1>2 DEF Apply
<1>4. Changes(s, n) \in Int
  BY ChangesFacts
<1>5. CASE Accepts(a)
  <2>1. Effective(k) \in Rates
    BY <1>5, AfterFacts, EffectiveRate DEF GoodSession, GoodControls
  <2>2. u.clock = SetRate(s.clock, real, Effective(k)) /\ u.hold = hold /\ u.startup = startup
    BY <1>3, <1>5 DEF Switch
  <2>3. Changes(u, n + 1) >= Changes(s, n) + 1
    <3>1. Pending(u.startup) <= Pending(s.startup) /\ Pending(u.hold) <= 1 /\ Pending(s.hold) >= 0
      BY <2>2 DEF Pending
    <3>2. \A x : Pending(x) \in {0, 1}
      BY DEF Pending
    <3>3. 2 * (n + 1) = 2 * n + 2
      OBVIOUS
    <3>. HIDE DEF u, Pending
    <3>. QED
      BY <3>1, <3>2, <3>3 DEF Changes
  <2>4. Sample(s.clock, real) = s.clock
    BY <1>1, SampleTight
  <2>5. s.clock.lastVirtual < MaxTick =>
          Total(s.clock) <= w /\ w <= Total(s.clock) + Changes(s, n) * (Unit - 1)
    BY DEF Close
  <2>6. n + 1 \in Nat
    OBVIOUS
  <2>. HIDE DEF u, k, real, Changes
  <2>. QED
    BY <1>1, <2>1, <2>2, <2>3, <2>4, <2>5, <2>6, ChangeClose
<1>6. CASE ~Accepts(a)
  <2>1. u = s
    BY <1>3, <1>6
  <2>2. Changes(s, n) <= Changes(s, n + 1) /\ Changes(s, n + 1) \in Int
    BY <1>4 DEF Changes, Pending
  <2>3. Changes(s, n) * (Unit - 1) <= Changes(s, n + 1) * (Unit - 1)
        /\ Changes(s, n) * (Unit - 1) \in Int /\ Changes(s, n + 1) * (Unit - 1) \in Int
    BY <1>1, <1>4, <2>2, Grows
  <2>4. Total(s.clock) \in Int
    BY <1>1, RestFacts
  <2>5. Close(s, n + 1, w)
    BY <2>3, <2>4 DEF Close
  <2>. QED
    BY <2>1, <2>5
<1>. QED
  BY <1>5, <1>6

\* Why NoDrift needs more: what is lost at a change of rate is what rounding kept
\* back until then, which the total of a tight clock accounts for, and a change that
\* is still pending must be counted before it comes.
DInv ==
  /\ PInv
  /\ applies \in Nat /\ ideal \in Int
  /\ Tight(prompt.clock)
  /\ Close(prompt, applies, ideal)

LEMMA PromptFacts ==
  ASSUME MaxNow < MaxTick, PInv
  PROVE  /\ GoodSession(prompt) /\ GoodSession(session)
         /\ now \in Nat /\ now \in Ticks /\ now < MaxTick /\ MaxTick \in Nat
         /\ prompt.clock.lastReal = now
<1>1. /\ now \in Nat /\ now \in Ticks /\ now < MaxTick /\ MaxTick \in Nat
      /\ GoodSession(session) /\ session.clock.lastReal <= now
      /\ prompt = Poll(session, now)
  BY SettingsAssumption, ProfileAssumption DEF PInv, IInv, PollingInvisible, Ticks
<1>2. session.clock.lastReal \in Nat
  BY <1>1 DEF GoodSession, Clocks, Ticks
<1>3. GoodSession(prompt) /\ prompt.clock.lastReal = Larger(session.clock.lastReal, now)
  BY <1>1, PollFacts
<1>. QED
  BY <1>1, <1>2, <1>3 DEF Larger

LEMMA InitDInv == MaxNow < MaxTick /\ PInit => DInv
<1>. SUFFICES ASSUME MaxNow < MaxTick, PInit PROVE DInv
  OBVIOUS
<1>1. PInv /\ GoodSession(prompt) /\ prompt = session /\ applies = 0 /\ ideal = Origin * Unit
  BY InitPInv, PromptFacts DEF PInit
<1>2. /\ Origin \in Ticks /\ Origin \in Nat /\ MaxTick \in Nat /\ Unit \in Nat \ {0}
      /\ 0 \div Unit = 0 /\ 0 % Unit = 0
  BY SettingsAssumption, ProfileAssumption DEF Ticks
<1>. DEFINE c == NewClock(Origin)
            k == NewControls(Enabled, Initial)
<1>3. /\ session.clock = SetRate(c, Origin, Effective(k)) /\ session.controls = k
      /\ session.hold = Never
  BY DEF PInit, Init, NewSession
<1>4. Effective(k) \in Rates
  BY <1>1, <1>3, EffectiveRate DEF GoodSession
<1>. HIDE DEF k
<1>5. c = [anchorReal |-> Origin, anchorVirtual |-> Origin,
           lastReal |-> Origin, lastVirtual |-> Origin, rate |-> Unit]
  BY DEF NewClock
<1>. HIDE DEF c
<1>6. GoodClock(c)
  BY <1>2, <1>5, RateFacts DEF GoodClock, Clocks, Ticks
<1>7. Tight(c)
  <2>1. (Origin - Origin) * Unit = 0
    BY <1>2
  <2>2. Scaled(c.lastReal - c.anchorReal, c.rate) = 0
    BY <1>2, <1>5, <2>1 DEF Scaled
  <2>. QED
    BY <1>2, <1>5, <2>2 DEF Tight, Saturate, Ticks
<1>8. Sample(c, Origin) = c
  BY <1>2, <1>5, <1>6, <1>7, SampleTight
<1>9. /\ Tight(session.clock) /\ session.clock.lastVirtual = Origin
      /\ Rest(session.clock) = 0
  BY <1>2, <1>3, <1>4, <1>5, <1>6, <1>8, SetRateTotal
<1>10. Total(session.clock) = Origin * Unit /\ Origin * Unit \in Nat
  BY <1>2, <1>9 DEF Total
<1>11. Changes(session, 0) \in Nat /\ Changes(session, 0) * (Unit - 1) \in Nat
  <2>1. Changes(session, 0) \in {0, 1}
    BY <1>3 DEF Changes, Pending
  <2>2. Unit - 1 \in Nat
    BY <1>2
  <2>. HIDE DEF Changes
  <2>. QED
    BY <2>1, <2>2
<1>12. Close(prompt, applies, ideal)
  BY <1>1, <1>10, <1>11 DEF Close
<1>. QED
  BY <1>1, <1>9, <1>10, <1>12 DEF DInv

LEMMA StepDInv == ASSUME MaxNow < MaxTick, DInv, [PNext]_pollingVars PROVE DInv'
<1>1. PInv /\ PInv'
  BY StepPInv DEF DInv
<1>2. /\ GoodSession(prompt) /\ now \in Nat /\ now < MaxTick /\ MaxTick \in Nat
      /\ prompt.clock.lastReal = now
      /\ applies \in Nat /\ ideal \in Int /\ Tight(prompt.clock) /\ Close(prompt, applies, ideal)
  BY <1>1, PromptFacts DEF DInv
<1>3. CASE PPass
  <2>1. prompt' = Poll(prompt, now + 1) /\ ideal' = ideal + prompt.clock.rate /\ applies' = applies
    BY <1>3 DEF PPass, Pass
  <2>2. now + 1 \in Ticks /\ prompt.clock.rate \in Nat
    BY <1>2 DEF Ticks, GoodSession, Clocks, Rates
  <2>3. Tight(prompt'.clock) /\ Close(prompt', applies, ideal + prompt.clock.rate)
    BY <1>2, <2>1, <2>2, TickClose
  <2>. QED
    BY <1>1, <1>2, <2>1, <2>2, <2>3 DEF DInv
<1>4. CASE PPoll \/ UNCHANGED pollingVars
  <2>1. prompt' = prompt /\ ideal' = ideal /\ applies' = applies
    BY <1>4 DEF PPoll, pollingVars
  <2>. QED
    BY <1>1, <1>2, <2>1 DEF DInv
<1>5. ASSUME NEW a \in Requests, PAct(a) PROVE DInv'
  <2>1. prompt' = Apply(prompt, now, a) /\ ideal' = ideal /\ applies' = applies + 1
    BY <1>5 DEF PAct, Act
  <2>2. Tight(prompt'.clock) /\ Close(prompt', applies + 1, ideal)
    BY <1>2, <2>1, ApplyClose
  <2>. QED
    BY <1>1, <1>2, <2>1, <2>2 DEF DInv
<1>. QED
  BY <1>3, <1>4, <1>5 DEF PNext

LEMMA MillisInStep ==
  ASSUME GoodSession(session)
  PROVE  LET t == Millis(session)
         IN  t.tick64 < MaxTick =>
               /\ (t.tick32 - Tick64) % Width = (t.tick64 - Tick64) % Width
               /\ (t.winmm - Winmm) % Width = (t.tick64 - Tick64) % Width
<1>. DEFINE t == Millis(session)
            ms == ((session.clock.lastVirtual - Origin) * Second) \div Frequency
<1>1. /\ Width \in Nat \ {0} /\ Tick64 \in Int /\ Winmm \in Int /\ MaxTick \in Nat
      /\ Frequency \in Nat \ {0} /\ Second \in Nat /\ Origin \in Int /\ session.clock.lastVirtual \in Int
  BY SettingsAssumption, ProfileAssumption DEF Ticks, GoodSession, Clocks
<1>2. ms \in Int
  <2>1. (session.clock.lastVirtual - Origin) * Second \in Int
    BY <1>1
  <2>2. \A n \in Int : n \div Frequency \in Int
    BY <1>1
  <2>. QED
    BY <2>1, <2>2
<1>3. /\ t.tick64 = Saturate(Tick64 + ms) /\ t.tick32 = Saturate(Tick64 + ms) % Width
      /\ t.winmm = (Winmm + ms) % Width
  BY DEF Millis, Projection
<1>. HIDE DEF t, ms
<1>4. ASSUME t.tick64 < MaxTick
      PROVE  /\ (t.tick32 - Tick64) % Width = (t.tick64 - Tick64) % Width
             /\ (t.winmm - Winmm) % Width = (t.tick64 - Tick64) % Width
  <2>1. PICK x \in Int : x = Tick64 + ms
    BY <1>1, <1>2
  <2>2. PICK y \in Int : y = Winmm + ms
    BY <1>1, <1>2
  <2>3. t.tick64 = x /\ t.tick32 = x % Width /\ t.winmm = y % Width
    BY <1>1, <1>3, <1>4, <2>1, <2>2 DEF Saturate
  <2>4. ((x % Width) - Tick64) % Width = (x - Tick64) % Width
    BY <1>1, Wraps
  <2>5. ((y % Width) - Winmm) % Width = (y - Winmm) % Width
    BY <1>1, Wraps
  <2>6. x - Tick64 = y - Winmm
    BY <1>1, <1>2, <2>1, <2>2
  <2>. QED
    BY <2>3, <2>4, <2>5, <2>6
<1>. QED
  BY <1>4 DEF t

\* Virtual time is the sum of the rates in force, less at most one tick's rounding
\* for each change of rate, and the millisecond families follow it through their
\* wraparounds, for any presets, widths and origins (VirtualClock in speed.rs, the
\* projections of speed_timers.rs), while the counter is below u64::MAX.
THEOREM NoDriftAlways == MaxNow < MaxTick => (PSpec => []NoDrift)
<1>. SUFFICES ASSUME MaxNow < MaxTick PROVE PSpec => []NoDrift
  OBVIOUS
<1>1. PInit => DInv
  BY InitDInv
<1>2. DInv /\ [PNext]_pollingVars => DInv'
  BY StepDInv
<1>3. DInv => NoDrift
  <2>. SUFFICES ASSUME DInv PROVE NoDrift
    OBVIOUS
  <2>. DEFINE c == prompt.clock
              g == Unit - 1
              n == Changes(prompt, applies)
              m == 2 * applies + 1
  <2>1. /\ GoodClock(c) /\ GoodSession(session) /\ applies \in Nat /\ ideal \in Int
        /\ Close(prompt, applies, ideal)
    BY PromptFacts DEF DInv, GoodSession
  <2>2. /\ c.lastVirtual \in Nat /\ Unit \in Nat /\ g \in Nat /\ Rest(c) \in 0 .. g
        /\ c.lastVirtual * Unit \in Nat /\ Total(c) = c.lastVirtual * Unit + Rest(c)
    <3>1. c.lastVirtual \in Nat /\ Unit \in Nat /\ g \in Nat /\ Rest(c) \in 0 .. g
      BY <2>1, RestFacts, SettingsAssumption DEF GoodClock, Clocks, Ticks
    <3>2. c.lastVirtual * Unit \in Nat
      BY <3>1
    <3>. QED
      BY <3>1, <3>2 DEF Total
  <2>3. n \in Int /\ m \in Int /\ n <= m
    BY <2>1, ChangesFacts
  <2>4. ASSUME c.lastVirtual < MaxTick
        PROVE  c.lastVirtual * Unit <= ideal /\ ideal - c.lastVirtual * Unit <= (m + 1) * g
    <3>1. Total(c) <= ideal /\ ideal <= Total(c) + n * g
      BY <2>1, <2>4 DEF Close
    <3>. HIDE DEF c, g, n, m
    <3>2. n * g <= m * g /\ n * g \in Int /\ m * g \in Int
      BY <2>2, <2>3, Grows
    <3>3. (m + 1) * g = m * g + g
      BY <2>2, <2>3
    <3>4. PICK v \in Nat : v = c.lastVirtual * Unit
      BY <2>2
    <3>. QED
      BY <2>1, <2>2, <3>1, <3>2, <3>3, <3>4
  <2>5. m + 1 = 2 * applies + 2
    BY <2>1
  <2>6. c.lastVirtual < MaxTick =>
          /\ c.lastVirtual * Unit <= ideal
          /\ ideal - c.lastVirtual * Unit <= (2 * applies + 2) * (Unit - 1)
    <3>. HIDE DEF m, c
    <3>. QED
      BY <2>4, <2>5
  <2>. QED
    BY <2>1, <2>6, MillisInStep DEF NoDrift
<1>. QED
  BY <1>1, <1>2, <1>3, PTL DEF PSpec

-----------------------------------------------------------------------------

\* Induction over the naturals, for a set of them.
LEMMA Counting ==
  ASSUME NEW S, 0 \in S, \A n \in Nat : n \in S => n + 1 \in S
  PROVE  Nat \subseteq S
<1>1. SUFFICES ASSUME Nat \ S # {} PROVE FALSE
  OBVIOUS
<1>2. PICK m \in Nat \ S : \A n \in Nat \ S : <<n, m>> \notin OpToRel(<, Nat)
  BY <1>1, WFMin, NatLessThanWellFounded, Zenon
<1>3. m \in Nat \ S /\ \A n \in Nat \ S : ~(n < m)
  <2>1. ASSUME NEW n \in Nat \ S, n < m PROVE FALSE
    BY <1>2, <2>1, Zenon DEF OpToRel
  <2>. QED
    BY <1>2, <2>1
<1>4. m # 0 /\ m \in Nat
  BY <1>3
<1>5. m - 1 \in Nat /\ m - 1 < m /\ (m - 1) + 1 = m
  BY <1>4
<1>6. m - 1 \in S
  BY <1>3, <1>5
<1>. QED
  BY <1>3, <1>5, <1>6

\* The events of OnKeys, one code after the other.
KeySteps(after, d, keys, mods, pressed) ==
  /\ OnKeys(d, keys, mods, pressed) = after[Len(Codes)]
  /\ after[0] = d
  /\ \A i \in 1 .. Len(Codes) :
       after[i] = IF Codes[i] \in keys THEN OnKey(after[i - 1], Codes[i], mods, pressed)
                  ELSE after[i - 1]

LEMMA OnKeysSteps ==
  ASSUME NEW d, NEW keys, NEW mods, NEW pressed, Len(Codes) \in Nat
  PROVE  \E after : KeySteps(after, d, keys, mods, pressed)
<1>. DEFINE Turn(f, i) == IF i = 0 THEN d
                          ELSE IF Codes[i] \in keys THEN OnKey(f[i - 1], Codes[i], mods, pressed)
                          ELSE f[i - 1]
            Known == {m \in Nat : \E f : f = [i \in 0 .. m |-> Turn(f, i)]}
<1>1. 0 \in Known
  <2>. DEFINE g == [i \in 0 .. 0 |-> d]
  <2>1. g = [i \in 0 .. 0 |-> Turn(g, i)]
    <3>1. \A i \in 0 .. 0 : i = 0
      OBVIOUS
    <3>. QED
      BY <3>1
  <2>. HIDE DEF g
  <2>2. \E e : e = [i \in 0 .. 0 |-> Turn(e, i)]
    BY <2>1, Zenon
  <2>3. 0 \in Nat
    OBVIOUS
  <2>. QED
    BY <2>2, <2>3, Zenon
<1>2. ASSUME NEW m \in Nat, m \in Known PROVE m + 1 \in Known
  <2>1. PICK f : f = [i \in 0 .. m |-> Turn(f, i)]
    BY <1>2
  <2>. DEFINE g == [i \in 0 .. m + 1 |-> IF i <= m THEN f[i] ELSE Turn(f, i)]
  <2>2. ASSUME NEW i \in 0 .. m + 1 PROVE g[i] = Turn(g, i)
    <3>1. i # 0 => i - 1 \in 0 .. m /\ i - 1 \in 0 .. m + 1 /\ i - 1 <= m
      OBVIOUS
    <3>2. i # 0 => g[i - 1] = f[i - 1]
      BY <3>1
    <3>3. Turn(g, i) = Turn(f, i)
      <4>. HIDE DEF g
      <4>. QED
        BY <3>2
    <3>4. i <= m => i \in 0 .. m
      OBVIOUS
    <3>5. i <= m => f[i] = Turn(f, i)
      <4>. HIDE DEF Turn
      <4>. QED
        BY <2>1, <3>4, Zenon
    <3>6. g[i] = IF i <= m THEN f[i] ELSE Turn(f, i)
      <4>. HIDE DEF Turn
      <4>. QED
        BY Zenon
    <3>. HIDE DEF g, Turn
    <3>. QED
      BY <3>3, <3>5, <3>6, Zenon
  <2>3. g = [i \in 0 .. m + 1 |-> Turn(g, i)]
    <3>. DEFINE h == [i \in 0 .. m + 1 |-> Turn(g, i)]
    <3>1. \A i \in 0 .. m + 1 : g[i] = h[i]
      <4>. HIDE DEF g, Turn
      <4>. QED
        BY <2>2, Zenon
    <3>2. DOMAIN g = 0 .. m + 1 /\ DOMAIN h = 0 .. m + 1 /\ g = [i \in DOMAIN g |-> g[i]] /\ h = [i \in DOMAIN h |-> h[i]]
      <4>. HIDE DEF Turn
      <4>. QED
        OBVIOUS
    <3>. HIDE DEF g, Turn, h
    <3>3. g = h
      BY <3>1, <3>2
    <3>. QED
      BY <3>3 DEF h
  <2>. HIDE DEF g, Turn
  <2>4. \E e : e = [i \in 0 .. m + 1 |-> Turn(e, i)]
    BY <2>3, Zenon
  <2>5. m + 1 \in Nat
    OBVIOUS
  <2>. QED
    BY <2>4, <2>5, Zenon
<1>3. Nat \subseteq Known
  <2>. HIDE DEF Known
  <2>. QED
    BY <1>1, <1>2, Counting
<1>4. \E f : f = [i \in 0 .. Len(Codes) |-> Turn(f, i)]
  <2>. HIDE DEF Turn
  <2>. QED
    BY <1>3, Zenon
<1>. DEFINE all == CHOOSE f : f = [i \in 0 .. Len(Codes) |-> Turn(f, i)]
<1>5. all = [i \in 0 .. Len(Codes) |-> Turn(all, i)]
  <2>. HIDE DEF Turn
  <2>. QED
    BY <1>4, Zenon
<1>6. OnKeys(d, keys, mods, pressed) = all[Len(Codes)]
  BY Zenon DEF OnKeys
<1>. HIDE DEF all, Known
<1>7. \A i \in 0 .. Len(Codes) : all[i] = Turn(all, i)
  <2>. HIDE DEF Turn
  <2>. QED
    BY <1>5, Zenon
<1>8. all[0] = d
  BY <1>7
<1>9. \A i \in 1 .. Len(Codes) : i \in 0 .. Len(Codes) /\ i # 0
  OBVIOUS
<1>10. \A i \in 1 .. Len(Codes) :
         all[i] = IF Codes[i] \in keys THEN OnKey(all[i - 1], Codes[i], mods, pressed) ELSE all[i - 1]
  BY <1>7, <1>9, Zenon
<1>. QED
  BY <1>6, <1>8, <1>10, Zenon DEF KeySteps
-----------------------------------------------------------------------------

LEMMA NoneOrOne ==
  /\ SetToSeq({}) = <<>>
  /\ \A x : SetToSeq({x}) = <<x>>
<1>1. Cardinality({}) = 0 /\ \A x : Cardinality({x}) = 1
  BY FS_EmptySet, FS_Singleton, Zenon
<1>2. SetToSeq({}) = <<>>
  <2>1. [1 .. 0 -> {}] = {<<>>} /\ IsInjective(<<>>)
    <3>1. 1 .. 0 = {} /\ DOMAIN <<>> = {}
      OBVIOUS
    <3>2. <<>> \in [{} -> {}] /\ \A f \in [{} -> {}] : f = <<>>
      BY <3>1
    <3>. QED
      BY <3>1, <3>2 DEF IsInjective
  <2>2. SetToSeq({}) = CHOOSE f \in [1 .. 0 -> {}] : IsInjective(f)
    BY <1>1 DEF SetToSeq
  <2>. QED
    BY <2>1, <2>2
<1>3. ASSUME NEW x PROVE SetToSeq({x}) = <<x>>
  <2>1. <<x>> \in [1 .. 1 -> {x}] /\ \A f \in [1 .. 1 -> {x}] : f = <<x>>
    OBVIOUS
  <2>2. IsInjective(<<x>>)
    BY DEF IsInjective
  <2>3. SetToSeq({x}) = CHOOSE f \in [1 .. 1 -> {x}] : IsInjective(f)
    BY <1>1, Zenon DEF SetToSeq
  <2>4. \E f \in [1 .. 1 -> {x}] : IsInjective(f)
    BY <2>1, <2>2, Zenon
  <2>5. SetToSeq({x}) \in [1 .. 1 -> {x}]
    BY <2>3, <2>4, Zenon
  <2>. QED
    BY <2>1, <2>5, Zenon
<1>. QED
  BY <1>2, <1>3, Zenon

\* What one event does to a dispatcher.
IsDispatcher(d) == d = [pressed |-> d.pressed, held |-> d.held, out |-> d.out]

LEMMA OnRelease ==
  ASSUME NEW d, IsDispatcher(d), NEW key, NEW mods
  PROVE  OnKey(d, key, mods, FALSE) =
           IF d.held # None /\ (key = d.held.key \/ ~(d.held.mods \subseteq mods))
             THEN [pressed |-> d.pressed \ {d.held.key, key}, held |-> None, out |-> Append(d.out, ReleaseAction)]
             ELSE [pressed |-> d.pressed \ {key}, held |-> d.held, out |-> d.out]
<1>1. CASE d.held # None /\ (key = d.held.key \/ ~(d.held.mods \subseteq mods))
  <2>1. OnKey(d, key, mods, FALSE) =
          [held |-> None, pressed |-> d.pressed \ ({d.held.key} \cup {key}), out |-> Append(d.out, ReleaseAction)]
    BY <1>1 DEF OnKey
  <2>2. {d.held.key} \cup {key} = {d.held.key, key}
    OBVIOUS
  <2>. QED
    BY <1>1, <2>1, <2>2
<1>2. CASE ~(d.held # None /\ (key = d.held.key \/ ~(d.held.mods \subseteq mods)))
  <2>1. OnKey(d, key, mods, FALSE) = [d EXCEPT !.pressed = @ \ {key}]
    BY <1>2 DEF OnKey
  <2>2. [d EXCEPT !.pressed = @ \ {key}] = [pressed |-> d.pressed \ {key}, held |-> d.held, out |-> d.out]
    BY DEF IsDispatcher
  <2>. QED
    BY <1>2, <2>1, <2>2
<1>. QED
  BY <1>1, <1>2

Bound(key, mods) == {b \in bindings : b.chord = [key |-> key, mods |-> mods]}

IsPressed(e, d, key, mods) ==
  LET begun == \E b \in Bound(key, mods) : b.action.kind = "hold"
  IN  /\ IsDispatcher(e)
      /\ e.pressed = d.pressed \cup {key}
      /\ begun => e.held = [key |-> key, mods |-> mods]
      /\ ~begun => e.held = d.held
      /\ e.out = d.out \o SetToSeq({b.action : b \in Bound(key, mods)})

LEMMA OnPress ==
  ASSUME NEW d, NEW key, NEW mods, key \notin d.pressed,
         d.held # None => d.held.mods \subseteq mods
  PROVE  IsPressed(OnKey(d, key, mods, TRUE), d, key, mods)
<1>. DEFINE e == OnKey(d, key, mods, TRUE)
            begun == \E b \in Bound(key, mods) : b.action.kind = "hold"
<1>1. e = [pressed |-> d.pressed \cup {key},
           held    |-> IF begun THEN [key |-> key, mods |-> mods] ELSE d.held,
           out     |-> d.out \o SetToSeq({b.action : b \in Bound(key, mods)})]
  BY DEF OnKey, Bound
<1>2. PICK out : out = d.out \o SetToSeq({b.action : b \in Bound(key, mods)})
  OBVIOUS
<1>3. CASE begun
  <2>1. e = [pressed |-> d.pressed \cup {key}, held |-> [key |-> key, mods |-> mods], out |-> out]
    BY <1>1, <1>2, <1>3, Zenon
  <2>. HIDE DEF e, begun
  <2>2. IsDispatcher(e) /\ e.pressed = d.pressed \cup {key} /\ e.held = [key |-> key, mods |-> mods] /\ e.out = out
    BY <2>1 DEF IsDispatcher
  <2>3. IsPressed(e, d, key, mods)
    BY <1>2, <1>3, <2>2, Zenon DEF IsPressed, begun
  <2>. QED
    BY <2>3 DEF e
<1>4. CASE ~begun
  <2>1. e = [pressed |-> d.pressed \cup {key}, held |-> d.held, out |-> out]
    BY <1>1, <1>2, <1>4, Zenon
  <2>. HIDE DEF e, begun
  <2>2. IsDispatcher(e) /\ e.pressed = d.pressed \cup {key} /\ e.held = d.held /\ e.out = out
    BY <2>1 DEF IsDispatcher
  <2>3. IsPressed(e, d, key, mods)
    BY <1>2, <1>4, <2>2, Zenon DEF IsPressed, begun
  <2>. QED
    BY <2>3 DEF e
<1>. HIDE DEF begun
<1>. QED
  BY <1>3, <1>4

Released(d, held, old, new) ==
  LET ended == held # None /\ ~({held.key} \cup held.mods \subseteq new)
  IN  /\ IsDispatcher(d)
      /\ d.pressed \subseteq old \cap new
      /\ d.held = IF ended THEN None ELSE held
      /\ d.out = IF ended THEN <<ReleaseAction>> ELSE <<>>

\* The releases of a look: the hold ends with the first one when its chord is no
\* longer down, and with none of them when it is.
LEMMA Releases ==
  ASSUME NEW pressed, NEW held, NEW old, NEW new,
         Codes \in Seq(Nat), old \subseteq ToSet(Codes), pressed \subseteq old,
         held # None => held \in Chords /\ {held.key} \cup held.mods \subseteq old
  PROVE  Released(OnKeys([pressed |-> pressed, held |-> held, out |-> <<>>], old \ new, new \cap Modifiers, FALSE),
                  held, old, new)
<1>. DEFINE mods == new \cap Modifiers
            start == [pressed |-> pressed, held |-> held, out |-> <<>>]
            ended == held # None /\ ~({held.key} \cup held.mods \subseteq new)
            d == OnKeys(start, old \ new, mods, FALSE)
<1>1. Len(Codes) \in Nat /\ DOMAIN Codes = 1 .. Len(Codes)
  OBVIOUS
<1>2. PICK after : KeySteps(after, start, old \ new, mods, FALSE)
  <2>. HIDE DEF start, mods
  <2>. QED
    BY <1>1, OnKeysSteps, Zenon
<1>3. d = after[Len(Codes)] /\ after[0] = start
  BY <1>2, Zenon DEF KeySteps
<1>4. \A i \in 1 .. Len(Codes) :
          after[i] = IF Codes[i] \in old \ new THEN OnKey(after[i - 1], Codes[i], mods, FALSE)
                     ELSE after[i - 1]
  BY <1>2, Zenon DEF KeySteps
<1>. DEFINE Untouched(m) == /\ after[m].held = held /\ after[m].out = <<>>
                            /\ held # None => \A j \in 1 .. m : Codes[j] \in old \ new =>
                                                 Codes[j] # held.key /\ held.mods \subseteq mods
            Touched(m) == ended /\ after[m].held = None /\ after[m].out = <<ReleaseAction>>
            Fits(m) == /\ IsDispatcher(after[m])
                       /\ after[m].pressed \subseteq old
                       /\ \A j \in 1 .. m : Codes[j] \in old \ new => Codes[j] \notin after[m].pressed
                       /\ Untouched(m) \/ Touched(m)
            Fitting == {m \in Nat : m <= Len(Codes) => Fits(m)}
<1>5. 0 \in Fitting
  <2>1. 1 .. 0 = {} /\ 0 \in Nat
    OBVIOUS
  <2>2. IsDispatcher(start) /\ start.pressed = pressed /\ start.held = held /\ start.out = <<>>
    BY DEF IsDispatcher
  <2>. QED
    BY <1>3, <2>1, <2>2
<1>6. ASSUME NEW m \in Nat, m \in Fitting PROVE m + 1 \in Fitting
  <2>1. SUFFICES ASSUME m + 1 <= Len(Codes) PROVE Fits(m + 1)
    OBVIOUS
  <2>2. /\ m <= Len(Codes) /\ m + 1 \in 1 .. Len(Codes) /\ (m + 1) - 1 = m
        /\ \A j \in 1 .. m + 1 : j \in 1 .. m \/ j = m + 1
    BY <1>1, <2>1
  <2>3. Fits(m)
    BY <1>6, <2>2
  <2>4. after[m + 1] = IF Codes[m + 1] \in old \ new THEN OnKey(after[m], Codes[m + 1], mods, FALSE) ELSE after[m]
    BY <1>4, <2>2
  <2>5. CASE Codes[m + 1] \notin old \ new
    <3>1. after[m + 1] = after[m]
      BY <2>4, <2>5
    <3>. HIDE DEF ended, mods
    <3>. QED
      BY <2>2, <2>3, <2>5, <3>1
  <2>6. CASE Codes[m + 1] \in old \ new
    <3>. DEFINE e == after[m]
                key == Codes[m + 1]
    <3>1. IsDispatcher(e) /\ e.pressed \subseteq old
      BY <2>3
    <3>2. after[m + 1] =
            IF e.held # None /\ (key = e.held.key \/ ~(e.held.mods \subseteq mods))
              THEN [pressed |-> e.pressed \ {e.held.key, key}, held |-> None, out |-> Append(e.out, ReleaseAction)]
              ELSE [pressed |-> e.pressed \ {key}, held |-> e.held, out |-> e.out]
      <4>1. after[m + 1] = OnKey(e, key, mods, FALSE)
        BY <2>4, <2>6
      <4>. HIDE DEF e, key, mods
      <4>. QED
        BY <3>1, <4>1, OnRelease
    <3>3. after[m + 1].pressed \subseteq e.pressed \ {key}
      BY <3>2
    <3>4. IsDispatcher(after[m + 1])
      <4>1. \A p, h, o : IsDispatcher([pressed |-> p, held |-> h, out |-> o])
        BY DEF IsDispatcher
      <4>. HIDE DEF e, key, mods
      <4>. QED
        BY <3>2, <4>1, Zenon
    <3>5. after[m + 1].pressed \subseteq old
      BY <3>1, <3>3
    <3>6. \A j \in 1 .. m + 1 : Codes[j] \in old \ new => Codes[j] \notin after[m + 1].pressed
      BY <2>2, <2>3, <3>3
    <3>7. CASE e.held # None /\ (key = e.held.key \/ ~(e.held.mods \subseteq mods))
      <4>1. Untouched(m) /\ e.held = held /\ e.out = <<>>
        BY <2>3, <3>7
      <4>2. after[m + 1].held = None /\ after[m + 1].out = Append(<<>>, ReleaseAction)
        BY <3>2, <3>7, <4>1
      <4>3. Append(<<>>, ReleaseAction) = <<ReleaseAction>>
        OBVIOUS
      <4>4. ended
        <5>1. held.mods \subseteq Modifiers /\ held # None
          BY <3>7, <4>1 DEF Chords
        <5>. QED
          BY <2>6, <3>7, <4>1, <5>1
      <4>. QED
        BY <3>4, <3>5, <3>6, <4>2, <4>3, <4>4
    <3>8. CASE ~(e.held # None /\ (key = e.held.key \/ ~(e.held.mods \subseteq mods)))
      <4>1. after[m + 1].held = e.held /\ after[m + 1].out = e.out
        BY <3>2, <3>8
      <4>2. CASE Touched(m)
        <5>1. Touched(m + 1)
          BY <4>1, <4>2
        <5>. QED
          BY <3>4, <3>5, <3>6, <5>1
      <4>3. CASE Untouched(m)
        <5>1. Untouched(m + 1)
          <6>. HIDE DEF mods
          <6>. QED
            BY <2>2, <3>8, <4>1, <4>3
        <5>. QED
          BY <3>4, <3>5, <3>6, <5>1
      <4>. QED
        BY <2>3, <4>2, <4>3
    <3>. QED
      BY <3>7, <3>8
  <2>. QED
    BY <2>5, <2>6
<1>7. Len(Codes) \in Fitting
  <2>. HIDE DEF Fitting
  <2>. QED
    BY <1>1, <1>5, <1>6, Counting
<1>8. Fits(Len(Codes))
  BY <1>1, <1>7
<1>9. \A c \in old : \E j \in 1 .. Len(Codes) : c = Codes[j]
  BY <1>1 DEF ToSet
<1>10. d.pressed \subseteq old \cap new
  <2>. HIDE DEF d, mods, ended
  <2>. QED
    BY <1>3, <1>8, <1>9
<1>11. IsDispatcher(d)
  <2>. HIDE DEF d, mods, ended
  <2>. QED
    BY <1>3, <1>8
<1>12. ASSUME Untouched(Len(Codes)) PROVE ~ended
  <2>1. SUFFICES ASSUME ended PROVE FALSE
    OBVIOUS
  <2>2. held.mods \subseteq Modifiers
    BY <2>1 DEF Chords
  <2>3. PICK c \in {held.key} \cup held.mods : c \notin new
    BY <2>1
  <2>4. c \in old \ new
    BY <2>1, <2>3
  <2>5. PICK j \in 1 .. Len(Codes) : c = Codes[j]
    BY <1>9, <2>4
  <2>6. c # held.key /\ held.mods \subseteq new
    BY <1>12, <2>1, <2>4, <2>5
  <2>. QED
    BY <2>3, <2>6
<1>13. d.held = (IF ended THEN None ELSE held) /\ d.out = IF ended THEN <<ReleaseAction>> ELSE <<>>
  <2>. HIDE DEF d
  <2>. QED
    BY <1>3, <1>8, <1>12
<1>14. Released(d, held, old, new)
  <2>. HIDE DEF d
  <2>. QED
    BY <1>10, <1>11, <1>13, Zenon DEF Released
<1>. QED
  BY <1>14
\* s has the bindings B in the order of their keys.
Lists(s, B) ==
  /\ s \in Seq(B)
  /\ \A i, j \in DOMAIN s : i < j => s[i].chord.key < s[j].chord.key
  /\ \A b \in B : \E i \in DOMAIN s : s[i] = b

Asked(s) == [i \in DOMAIN s |-> s[i].action]

LEMMA ListsOrders ==
  ASSUME NEW B, NEW s, Lists(s, B), \A b \in B : b.chord.key \in Nat
  PROVE  s \in K!Orders(B)
<1>1. s \in Seq(B) /\ Len(s) \in Nat /\ DOMAIN s = 1 .. Len(s) /\ s \in [1 .. Len(s) -> B]
  BY DEF Lists
<1>2. \A i, j \in 1 .. Len(s) : s[i] = s[j] => i = j
  <2>1. SUFFICES ASSUME NEW i \in 1 .. Len(s), NEW j \in 1 .. Len(s), s[i] = s[j], i < j PROVE FALSE
    OBVIOUS
  <2>2. s[i].chord.key < s[j].chord.key
    BY <1>1, <2>1 DEF Lists
  <2>3. s[i].chord.key \in Nat
    BY <1>1, <2>1
  <2>. QED
    BY <2>1, <2>2, <2>3
<1>3. \A b \in B : \E i \in 1 .. Len(s) : s[i] = b
  BY <1>1 DEF Lists
<1>4. ExistsBijection(1 .. Len(s), B)
  <2>1. s \in Bijection(1 .. Len(s), B)
    BY <1>1, <1>2, <1>3 DEF Bijection, Injection, Surjection, IsInjective
  <2>. QED
    BY <2>1, Zenon DEF ExistsBijection
<1>5. 1 \in Int /\ Len(s) \in Int /\ (IF 1 > Len(s) THEN 0 ELSE Len(s) - 1 + 1) = Len(s)
  BY <1>1
<1>6. IsFiniteSet(1 .. Len(s)) /\ Cardinality(1 .. Len(s)) = IF 1 > Len(s) THEN 0 ELSE Len(s) - 1 + 1
  BY <1>5, FS_Interval, Zenon
<1>7. Cardinality(1 .. Len(s)) = Len(s)
  BY <1>1, <1>6
<1>8. Cardinality(B) = Len(s)
  BY <1>4, <1>6, <1>7, FS_Bijection, Zenon
<1>9. s \in [1 .. K!Cardinality(B) -> B]
  <2>1. K!Cardinality(B) = Cardinality(B)
    BY Zenon DEF K!Cardinality, Cardinality, K!IsFiniteSet, IsFiniteSet
  <2>. QED
    BY <1>1, <1>8, <2>1, Zenon
<1>10. \A i, j \in DOMAIN s : i < j => s[i].chord.key < s[j].chord.key
  BY DEF Lists
<1>. QED
  BY <1>9, <1>10 DEF K!Orders

LEMMA ListsMore ==
  ASSUME NEW B, NEW s, Lists(s, B), NEW b, b.chord.key \in Nat,
         \A c \in B : c.chord.key \in Nat /\ c.chord.key < b.chord.key
  PROVE  Lists(Append(s, b), B \cup {b})
<1>. DEFINE t == Append(s, b)
<1>1. s \in Seq(B) /\ Len(s) \in Nat /\ DOMAIN s = 1 .. Len(s)
  BY DEF Lists
<1>2. t \in Seq(B \cup {b}) /\ Len(t) = Len(s) + 1 /\ DOMAIN t = 1 .. Len(s) + 1
  <2>1. s \in Seq(B \cup {b})
    BY <1>1
  <2>. QED
    BY <1>1, <2>1
<1>3. t[Len(s) + 1] = b /\ \A i \in 1 .. Len(s) : t[i] = s[i]
  BY <1>1
<1>. HIDE DEF t
<1>4. \A i, j \in DOMAIN t : i < j => t[i].chord.key < t[j].chord.key
  <2>1. SUFFICES ASSUME NEW i \in DOMAIN t, NEW j \in DOMAIN t, i < j PROVE t[i].chord.key < t[j].chord.key
    OBVIOUS
  <2>2. i \in 1 .. Len(s) /\ t[i] = s[i] /\ s[i] \in B
    BY <1>1, <1>2, <1>3, <2>1
  <2>3. CASE j = Len(s) + 1
    BY <1>3, <2>2, <2>3
  <2>4. CASE j # Len(s) + 1
    <3>1. j \in 1 .. Len(s) /\ t[j] = s[j]
      BY <1>1, <1>2, <1>3, <2>4
    <3>. QED
      BY <1>1, <2>1, <2>2, <3>1 DEF Lists
  <2>. QED
    BY <2>3, <2>4
<1>5. ASSUME NEW c \in B \cup {b} PROVE \E i \in DOMAIN t : t[i] = c
  <2>1. CASE c = b
    <3>1. Len(s) + 1 \in DOMAIN t
      BY <1>1, <1>2
    <3>. QED
      BY <1>3, <2>1, <3>1
  <2>2. CASE c \in B
    <3>1. PICK i \in DOMAIN s : s[i] = c
      BY <2>2 DEF Lists
    <3>2. i \in DOMAIN t /\ t[i] = c
      BY <1>1, <1>2, <1>3, <3>1
    <3>. QED
      BY <3>2
  <2>. QED
    BY <2>1, <2>2
<1>6. Lists(t, B \cup {b})
  BY <1>2, <1>4, <1>5, Zenon DEF Lists
<1>. QED
  BY <1>6 DEF t

LEMMA AskedMore ==
  ASSUME NEW B, NEW s \in Seq(B), NEW b, NEW A, NEW out \in Seq(A)
  PROVE  (out \o Asked(s)) \o <<b.action>> = out \o Asked(Append(s, b))
<1>. DEFINE t == Append(s, b)
            W == A \cup {e.action : e \in B} \cup {b.action}
<1>1. Len(s) \in Nat /\ DOMAIN s = 1 .. Len(s)
  OBVIOUS
<1>2. Len(t) = Len(s) + 1 /\ DOMAIN t = 1 .. Len(s) + 1 /\ t[Len(s) + 1] = b /\ \A i \in 1 .. Len(s) : t[i] = s[i]
  BY <1>1
<1>3. Asked(s) \in Seq(W) /\ Len(Asked(s)) = Len(s) /\ \A i \in 1 .. Len(s) : Asked(s)[i] = s[i].action
  <2>1. \A i \in 1 .. Len(s) : s[i].action \in W
    BY <1>1
  <2>. HIDE DEF W
  <2>2. Asked(s) \in [1 .. Len(s) -> W]
    BY <1>1, <2>1 DEF Asked
  <2>. QED
    BY <1>1, <2>2 DEF Asked
<1>4. Asked(t) \in Seq(W) /\ Len(Asked(t)) = Len(s) + 1 /\ \A i \in 1 .. Len(s) + 1 : Asked(t)[i] = t[i].action
  <2>1. \A i \in 1 .. Len(s) + 1 : t[i].action \in W
    <3>. HIDE DEF t
    <3>1. ASSUME NEW i \in 1 .. Len(s) + 1 PROVE t[i].action \in W
      <4>1. CASE i = Len(s) + 1
        BY <1>2, <4>1
      <4>2. CASE i # Len(s) + 1
        <5>1. i \in 1 .. Len(s) /\ s[i] \in B
          BY <1>1, <4>2
        <5>. QED
          BY <1>2, <5>1
      <4>. QED
        BY <4>1, <4>2
    <3>. QED
      BY <3>1
  <2>. HIDE DEF W, t
  <2>2. Asked(t) \in [1 .. Len(s) + 1 -> W]
    BY <1>2, <2>1 DEF Asked
  <2>3. Len(s) + 1 \in Nat
    BY <1>1
  <2>. QED
    BY <1>2, <2>2, <2>3 DEF Asked
<1>5. out \in Seq(W) /\ b.action \in W
  OBVIOUS
<1>. DEFINE x == Asked(s)
            y == Asked(t)
            a == b.action
<1>6. y = x \o <<a>>
  <2>1. x \o <<a>> \in Seq(W) /\ Len(x \o <<a>>) = Len(s) + 1
    <3>. HIDE DEF x, a, W
    <3>. QED
      BY <1>3, <1>5 DEF x, a
  <2>2. ASSUME NEW i \in 1 .. Len(s) + 1 PROVE y[i] = (x \o <<a>>)[i]
    <3>1. CASE i = Len(s) + 1
      <4>1. y[i] = a
        BY <1>2, <1>4, <3>1
      <4>. HIDE DEF x, a, W, y
      <4>. QED
        BY <1>1, <1>3, <1>5, <3>1, <4>1 DEF x
    <3>2. CASE i # Len(s) + 1
      <4>1. i \in 1 .. Len(s)
        BY <1>1, <3>2
      <4>2. y[i] = x[i]
        BY <1>2, <1>3, <1>4, <4>1
      <4>. HIDE DEF x, a, W, y
      <4>. QED
        BY <1>1, <1>3, <1>5, <4>1, <4>2 DEF x
    <3>. QED
      BY <3>1, <3>2
  <2>. HIDE DEF x, a, W, t
  <2>3. y \in Seq(W) /\ Len(y) = Len(s) + 1
    BY <1>4
  <2>. HIDE DEF y
  <2>. QED
    BY <1>1, <2>1, <2>2, <2>3
<1>7. out \in Seq(W) /\ x \in Seq(W) /\ <<a>> \in Seq(W)
  <2>. HIDE DEF W
  <2>. QED
    BY <1>3, <1>5
<1>. HIDE DEF x, y, a, W, t
<1>8. (out \o x) \o <<a>> = out \o (x \o <<a>>)
  BY <1>7
<1>9. (out \o x) \o <<a>> = out \o y
  BY <1>6, <1>8
<1>. QED
  BY <1>9 DEF x, y, a, t
-----------------------------------------------------------------------------

\* The bindings of a profile that compiled.
GoodBindings ==
  /\ \A b \in bindings : b.chord \in Chords
  /\ \A b, c \in bindings : b.chord = c.chord \/ b.action.kind = c.action.kind => b = c

Begun(keys, mods) == {b \in bindings : b.chord.key \in keys /\ b.chord.mods = mods}

LEMMA CodesFacts ==
  /\ Len(Codes) \in Nat /\ DOMAIN Codes = 1 .. Len(Codes)
  /\ \A i \in 1 .. Len(Codes) : Codes[i] \in Nat
  /\ \A i, j \in 1 .. Len(Codes) : i < j => Codes[i] < Codes[j]
  /\ \A c \in Keys \cup Modifiers : \E i \in 1 .. Len(Codes) : Codes[i] = c
  /\ Keys \cup Modifiers \subseteq Nat
<1>1. /\ Len(Codes) \in Nat /\ DOMAIN Codes = 1 .. Len(Codes)
      /\ \A i \in 1 .. Len(Codes) : Codes[i] \in Nat
      /\ \A i, j \in 1 .. Len(Codes) : i < j => Codes[i] < Codes[j]
  BY HotkeysAssumption
<1>2. \A c \in Keys \cup Modifiers : \E i \in 1 .. Len(Codes) : Codes[i] = c
  BY <1>1, HotkeysAssumption DEF ToSet
<1>. QED
  BY <1>1, <1>2

\* The presses of a look: every binding they complete acts, in the order of the keys.
LEMMA Presses ==
  ASSUME NEW d, IsDispatcher(d), NEW keys, keys \subseteq Keys \cup Modifiers, NEW mods,
         GoodBindings, d.pressed \cap keys = {}, d.out \in Seq({ReleaseAction}),
         d.held # None => d.held.mods \subseteq mods
  PROVE  LET e == OnKeys(d, keys, mods, TRUE)
             begun == Begun(keys, mods)
         IN  /\ IsDispatcher(e)
             /\ e.pressed \subseteq d.pressed \cup keys
             /\ \E s \in K!Orders(begun) : Lists(s, begun) /\ e.out = d.out \o Asked(s)
             /\ \/ \E b \in begun : b.action.kind = "hold" /\ e.held = b.chord
                \/ (\A b \in begun : b.action.kind # "hold") /\ e.held = d.held
<1>. DEFINE e == OnKeys(d, keys, mods, TRUE)
            n == Len(Codes)
<1>1. n \in Nat /\ \A i \in 1 .. n : Codes[i] \in Nat
  BY CodesFacts
<1>2. PICK after : KeySteps(after, d, keys, mods, TRUE)
  BY <1>1, OnKeysSteps, Zenon
<1>3. e = after[n] /\ after[0] = d
  BY <1>2, Zenon DEF KeySteps
<1>4. \A i \in 1 .. n :
        after[i] = IF Codes[i] \in keys THEN OnKey(after[i - 1], Codes[i], mods, TRUE) ELSE after[i - 1]
  BY <1>2, Zenon DEF KeySteps
<1>. DEFINE Seen(m) == {Codes[j] : j \in 1 .. m} \cap keys
            B(m) == Begun(Seen(m), mods)
            Held(m) == \/ \E b \in B(m) : b.action.kind = "hold" /\ after[m].held = b.chord
                       \/ (\A b \in B(m) : b.action.kind # "hold") /\ after[m].held = d.held
            Fits(m) == /\ IsDispatcher(after[m])
                       /\ after[m].pressed \subseteq d.pressed \cup Seen(m)
                       /\ \E s : Lists(s, B(m)) /\ after[m].out = d.out \o Asked(s)
                       /\ Held(m)
            Fitting == {m \in Nat : m <= n => Fits(m)}
<1>5. 0 \in Fitting
  <2>1. B(0) = {} /\ Seen(0) = {} /\ 0 \in Nat
    BY DEF Begun
  <2>2. Lists(<<>>, B(0)) /\ d.out \o Asked(<<>>) = d.out
    <3>1. <<>> \in Seq({}) /\ DOMAIN <<>> = {}
      OBVIOUS
    <3>2. Asked(<<>>) = <<>> /\ d.out \o <<>> = d.out
      BY <3>1 DEF Asked
    <3>. QED
      BY <2>1, <3>1, <3>2 DEF Lists
  <2>. HIDE DEF B, Seen
  <2>3. \E s : Lists(s, B(0)) /\ after[0].out = d.out \o Asked(s)
    BY <1>3, <2>2, Zenon
  <2>4. Held(0) /\ IsDispatcher(after[0]) /\ after[0].pressed \subseteq d.pressed \cup Seen(0)
    BY <1>3, <2>1
  <2>. HIDE DEF Held
  <2>. QED
    BY <2>1, <2>3, <2>4
<1>6. ASSUME NEW m \in Nat, m \in Fitting PROVE m + 1 \in Fitting
  <2>1. SUFFICES ASSUME m + 1 <= n PROVE Fits(m + 1)
    <3>1. m + 1 \in Nat
      OBVIOUS
    <3>. HIDE DEF Fits
    <3>. QED
      BY <3>1
  <2>2. /\ m <= n /\ m + 1 \in 1 .. n /\ (m + 1) - 1 = m
        /\ \A j \in 1 .. m + 1 : j \in 1 .. m \/ j = m + 1
        /\ \A j \in 1 .. m : j \in 1 .. m + 1 /\ j \in 1 .. n /\ j < m + 1
    BY <1>1, <2>1
  <2>3. Fits(m)
    BY <1>6, <2>2
  <2>. DEFINE key == Codes[m + 1]
  <2>4. after[m + 1] = IF key \in keys THEN OnKey(after[m], key, mods, TRUE) ELSE after[m]
    BY <1>4, <2>2
  <2>5. CASE key \notin keys
    <3>1. after[m + 1] = after[m]
      BY <2>4, <2>5
    <3>2. Seen(m + 1) = Seen(m)
      BY <2>2, <2>5
    <3>3. B(m + 1) = B(m)
      BY <3>2
    <3>. HIDE DEF Seen, B
    <3>. QED
      BY <2>3, <3>1, <3>2, <3>3
  <2>6. CASE key \in keys
    <3>. DEFINE p == after[m]
                q == after[m + 1]
                bound == Bound(key, mods)
    <3>1. Seen(m + 1) = Seen(m) \cup {key}
      BY <2>2, <2>6
    <3>2. \A c \in Seen(m) : c \in Nat /\ c < key
      BY <1>1, <2>2, CodesFacts
    <3>3. key \in Nat /\ key \notin Seen(m)
      BY <1>1, <2>2, <3>2
    <3>4. key \notin p.pressed
      <4>. HIDE DEF Seen, key
      <4>. QED
        BY <2>3, <2>6, <3>3
    <3>5. p.held # None => p.held.mods \subseteq mods
      <4>1. ASSUME NEW b \in B(m) PROVE b.chord.mods = mods
        BY DEF Begun
      <4>. HIDE DEF B
      <4>. QED
        BY <2>3, <4>1
    <3>6. /\ q = OnKey(p, key, mods, TRUE)
          /\ IsDispatcher(q)
          /\ q.pressed = p.pressed \cup {key}
          /\ (\E b \in bound : b.action.kind = "hold") => q.held = [key |-> key, mods |-> mods]
          /\ ~(\E b \in bound : b.action.kind = "hold") => q.held = p.held
          /\ q.out = p.out \o SetToSeq({b.action : b \in bound})
      <4>1. q = OnKey(p, key, mods, TRUE)
        BY <2>4, <2>6
      <4>. HIDE DEF p, q, key
      <4>2. IsPressed(q, p, key, mods)
        BY <3>4, <3>5, <4>1, OnPress
      <4>. QED
        BY <4>1, <4>2, Zenon DEF IsPressed, bound
    <3>7. B(m + 1) = B(m) \cup bound
      <4>1. ASSUME NEW b \in bindings PROVE b.chord = [key |-> key, mods |-> mods] <=> b.chord.key = key /\ b.chord.mods = mods
        <5>1. b.chord = [key |-> b.chord.key, mods |-> b.chord.mods]
          BY DEF GoodBindings, Chords
        <5>. HIDE DEF key
        <5>. QED
          BY <5>1
      <4>. HIDE DEF Seen, key
      <4>. QED
        BY <3>1, <4>1 DEF Begun, Bound
    <3>8. bound = {} \/ \E b \in bindings : bound = {b} /\ b.chord.key = key /\ b.chord.mods = mods
      <4>1. \A b, c \in bound : b = c
        BY DEF GoodBindings, Bound
      <4>2. \A b \in bound : b \in bindings /\ b.chord.key = key /\ b.chord.mods = mods
        BY DEF Bound
      <4>. HIDE DEF key, bound
      <4>. QED
        BY <4>1, <4>2
    <3>9. PICK s : Lists(s, B(m)) /\ p.out = d.out \o Asked(s)
      BY <2>3
    <3>. HIDE DEF p, q, key, bound
    <3>10. q.pressed \subseteq d.pressed \cup Seen(m + 1) /\ IsDispatcher(q)
      <4>1. p.pressed \subseteq d.pressed \cup Seen(m)
        BY <2>3 DEF p
      <4>. HIDE DEF Seen
      <4>. QED
        BY <3>1, <3>6, <4>1
    <3>11. Held(m) /\ p = after[m] /\ q = after[m + 1]
      BY <2>3 DEF p, q
    <3>12. CASE bound = {}
      <4>1. q.held = p.held
        BY <3>6, <3>12
      <4>2. {b.action : b \in bound} = {}
        BY <3>12
      <4>3. q.out = p.out \o <<>>
        BY <3>6, <4>2, NoneOrOne
      <4>4. B(m + 1) = B(m)
        BY <3>7, <3>12
      <4>5. p.out \o <<>> = p.out
        <5>. PICK C : C = B(m)
          OBVIOUS
        <5>. DEFINE W == {ReleaseAction} \cup {b.action : b \in C}
        <5>1. s \in Seq(C) /\ DOMAIN s = 1 .. Len(s) /\ Len(s) \in Nat /\ \A i \in 1 .. Len(s) : s[i] \in C
          <6>. HIDE DEF B
          <6>1. s \in Seq(C)
            BY <3>9 DEF Lists
          <6>. QED
            BY <6>1
        <5>. HIDE DEF B
        <5>2. \A i \in 1 .. Len(s) : s[i].action \in W
          BY <5>1
        <5>3. d.out \in Seq(W)
          OBVIOUS
        <5>. HIDE DEF W
        <5>4. Asked(s) \in [1 .. Len(s) -> W]
          BY <5>1, <5>2 DEF Asked
        <5>5. p.out \in Seq(W)
          BY <3>9, <5>1, <5>3, <5>4
        <5>. QED
          BY <5>5
      <4>6. Held(m + 1)
        <5>. HIDE DEF B
        <5>. QED
          BY <3>11, <4>1, <4>4
      <4>7. \E t : Lists(t, B(m + 1)) /\ q.out = d.out \o Asked(t)
        <5>. HIDE DEF B
        <5>. QED
          BY <3>9, <4>3, <4>4, <4>5, Zenon
      <4>. HIDE DEF B, Seen, Held
      <4>. QED
        BY <3>10, <3>11, <4>6, <4>7
    <3>13. ASSUME NEW b \in bindings, bound = {b}, b.chord.key = key, b.chord.mods = mods PROVE Fits(m + 1)
      <4>1. {c.action : c \in bound} = {b.action}
        BY <3>13
      <4>2. SetToSeq({b.action}) = <<b.action>>
        BY NoneOrOne, Zenon
      <4>3. q.out = p.out \o <<b.action>>
        BY <3>6, <4>1, <4>2
      <4>4. b.chord = [key |-> key, mods |-> mods]
        BY <3>13 DEF Bound, bound
      <4>5. q.held = IF b.action.kind = "hold" THEN b.chord ELSE p.held
        <5>1. (\E c \in bound : c.action.kind = "hold") <=> b.action.kind = "hold"
          BY <3>13
        <5>. QED
          BY <3>6, <4>4, <5>1
      <4>6. \A c \in B(m) : c.chord.key \in Nat /\ c.chord.key < b.chord.key
        <5>1. \A c \in B(m) : c.chord.key \in Seen(m)
          BY DEF Begun
        <5>. HIDE DEF Seen, B
        <5>. QED
          BY <3>2, <3>13, <5>1 DEF key
      <4>7. Lists(Append(s, b), B(m + 1))
        <5>1. b.chord.key \in Nat
          BY <3>3, <3>13 DEF key
        <5>2. Lists(Append(s, b), B(m) \cup {b})
          <6>. HIDE DEF B
          <6>. QED
            BY <3>9, <4>6, <5>1, ListsMore
        <5>. QED
          BY <3>7, <3>13, <5>2
      <4>8. q.out = d.out \o Asked(Append(s, b))
        <5>1. s \in Seq(B(m))
          BY <3>9 DEF Lists
        <5>. HIDE DEF B
        <5>. QED
          BY <3>9, <4>3, <5>1, AskedMore
      <4>9. Held(m + 1)
        <5>1. B(m + 1) = B(m) \cup {b}
          BY <3>7, <3>13
        <5>2. B(m) \subseteq bindings
          BY DEF Begun
        <5>3. b \notin B(m)
          BY <3>3, <3>13 DEF Begun, key
        <5>. HIDE DEF B
        <5>4. CASE b.action.kind = "hold"
          BY <3>11, <4>5, <5>1, <5>4
        <5>5. CASE b.action.kind # "hold"
          BY <3>11, <4>5, <5>1, <5>5
        <5>. QED
          BY <5>4, <5>5
      <4>10. \E t : Lists(t, B(m + 1)) /\ after[m + 1].out = d.out \o Asked(t)
        <5>. HIDE DEF B
        <5>. QED
          BY <3>11, <4>7, <4>8, Zenon
      <4>. HIDE DEF B, Seen, Held
      <4>. QED
        BY <3>10, <3>11, <4>9, <4>10
    <3>. QED
      <4>. HIDE DEF Fits
      <4>. QED
        BY <3>8, <3>12, <3>13
  <2>. QED
    BY <2>5, <2>6
<1>7. n \in Fitting
  <2>. HIDE DEF Fitting
  <2>. QED
    BY <1>1, <1>5, <1>6, Counting
<1>8. Fits(n)
  <2>1. n <= n
    BY <1>1
  <2>. HIDE DEF Fits
  <2>. QED
    BY <1>7, <2>1
<1>9. Seen(n) = keys
  BY CodesFacts
<1>10. B(n) = Begun(keys, mods)
  BY <1>9
<1>11. \A b \in Begun(keys, mods) : b.chord.key \in Nat
  BY CodesFacts DEF Begun
<1>. HIDE DEF e, n, Seen, B
<1>12. PICK s : Lists(s, Begun(keys, mods)) /\ e.out = d.out \o Asked(s)
  BY <1>3, <1>8, <1>10
<1>13. s \in K!Orders(Begun(keys, mods))
  BY <1>11, <1>12, ListsOrders
<1>14. IsDispatcher(e) /\ e.pressed \subseteq d.pressed \cup keys
  BY <1>3, <1>8, <1>9
<1>15. \/ \E b \in Begun(keys, mods) : b.action.kind = "hold" /\ e.held = b.chord
       \/ (\A b \in Begun(keys, mods) : b.action.kind # "hold") /\ e.held = d.held
  BY <1>3, <1>8, <1>10
<1>16. \E x \in K!Orders(Begun(keys, mods)) : Lists(x, Begun(keys, mods)) /\ e.out = d.out \o Asked(x)
  BY <1>12, <1>13, Zenon
<1>. QED
  BY <1>14, <1>15, <1>16 DEF e
\* A look at the keys, as the keyboard has it.
LEMMA EdgesFacts ==
  ASSUME GoodBindings, NEW new, new \subseteq Watched,
         input.previous \subseteq Watched, input.pressed \subseteq input.previous,
         input.held # None => /\ input.held \in Chords
                              /\ {input.held.key} \cup input.held.mods \subseteq input.previous
  PROVE  LET e == Edges(input.previous, new)
             begun == K!Started(new)
         IN  /\ e.pressed \subseteq new
             /\ e.held # None => e.held \in Chords /\ {e.held.key} \cup e.held.mods \subseteq new
             /\ \E s \in K!Orders(begun) :
                  Lists(s, begun) /\ e.out = (IF K!Ended(new) THEN <<ReleaseAction>> ELSE <<>>) \o Asked(s)
             /\ \/ \E b \in begun : b.action.kind = "hold" /\ e.held = b.chord
                \/ (\A b \in begun : b.action.kind # "hold") /\ e.held = IF K!Ended(new) THEN None ELSE input.held
<1>. DEFINE old == input.previous
            mods == new \cap Modifiers
            start == [pressed |-> input.pressed, held |-> input.held, out |-> <<>>]
            d == OnKeys(start, old \ new, mods, FALSE)
            e == OnKeys(d, new \ old, mods, TRUE)
            begun == Begun(new \ old, mods)
            ended == input.held # None /\ ~({input.held.key} \cup input.held.mods \subseteq new)
<1>1. Edges(input.previous, new) = e
  BY DEF Edges
<1>2. K!Started(new) = begun /\ (K!Ended(new) <=> ended)
  BY DEF K!Started, K!Ended, Begun
<1>3. Watched \subseteq Keys \cup Modifiers
  BY DEF Watched, GoodBindings, Chords
<1>4. Codes \in Seq(Nat) /\ old \subseteq ToSet(Codes)
  BY <1>3, HotkeysAssumption
<1>5. /\ IsDispatcher(d)
      /\ d.pressed \subseteq old \cap new
      /\ d.held = IF ended THEN None ELSE input.held
      /\ d.out = IF ended THEN <<ReleaseAction>> ELSE <<>>
  <2>1. Released(d, input.held, old, new)
    BY <1>4, Releases
  <2>. HIDE DEF d
  <2>. QED
    BY <2>1, Zenon DEF Released
<1>6. new \ old \subseteq Keys \cup Modifiers
  BY <1>3
<1>. HIDE DEF d
<1>7. d.pressed \cap (new \ old) = {} /\ d.out \in Seq({ReleaseAction})
  <2>1. <<ReleaseAction>> \in Seq({ReleaseAction}) /\ <<>> \in Seq({ReleaseAction})
    OBVIOUS
  <2>2. d.pressed \cap (new \ old) = {}
    BY <1>5
  <2>3. d.out \in {<<ReleaseAction>>, <<>>}
    BY <1>5, Zenon
  <2>. QED
    BY <2>1, <2>2, <2>3
<1>8. d.held # None => d.held \in Chords /\ d.held = input.held /\ {d.held.key} \cup d.held.mods \subseteq new
  BY <1>5
<1>9. d.held # None => d.held.mods \subseteq mods
  BY <1>8 DEF Chords
<1>10. /\ IsDispatcher(e)
       /\ e.pressed \subseteq d.pressed \cup (new \ old)
       /\ \E s \in K!Orders(begun) : Lists(s, begun) /\ e.out = d.out \o Asked(s)
       /\ \/ \E b \in begun : b.action.kind = "hold" /\ e.held = b.chord
          \/ (\A b \in begun : b.action.kind # "hold") /\ e.held = d.held
  <2>. HIDE DEF mods, old
  <2>. QED
    BY <1>5, <1>6, <1>7, <1>9, Presses
<1>. HIDE DEF e
<1>11. e.pressed \subseteq new
  BY <1>5, <1>10
<1>12. e.held # None => e.held \in Chords /\ {e.held.key} \cup e.held.mods \subseteq new
  <2>1. CASE \E b \in begun : e.held = b.chord
    <3>1. PICK b \in begun : e.held = b.chord
      BY <2>1
    <3>2. b.chord \in Chords /\ b.chord.key \in new /\ b.chord.mods \subseteq new
      BY DEF Begun, GoodBindings
    <3>. QED
      BY <3>1, <3>2
  <2>2. CASE e.held = d.held
    BY <1>8, <2>2
  <2>. QED
    BY <1>10, <2>1, <2>2
<1>. HIDE DEF begun, ended
<1>13. /\ \E s \in K!Orders(begun) : Lists(s, begun) /\ e.out = (IF ended THEN <<ReleaseAction>> ELSE <<>>) \o Asked(s)
       /\ \/ \E b \in begun : b.action.kind = "hold" /\ e.held = b.chord
          \/ (\A b \in begun : b.action.kind # "hold") /\ e.held = IF ended THEN None ELSE input.held
  BY <1>5, <1>10
<1>14. (IF K!Ended(new) THEN <<ReleaseAction>> ELSE <<>>) = (IF ended THEN <<ReleaseAction>> ELSE <<>>)
       /\ (IF K!Ended(new) THEN None ELSE input.held) = (IF ended THEN None ELSE input.held)
  BY <1>2
<1>. QED
  BY <1>1, <1>2, <1>11, <1>12, <1>13, <1>14

-----------------------------------------------------------------------------

\* What may happen to the temporary rate of a session.
HasHeld(k) == k = [selected |-> k.selected, previous |-> k.previous, bypassed |-> k.bypassed, held |-> k.held]

IsSession(s) ==
  /\ s = [controls |-> s.controls, clock |-> s.clock, hold |-> s.hold, startup |-> s.startup]
  /\ HasHeld(s.controls)

LEMMA EndedControls ==
  ASSUME NEW k, HasHeld(k)
  PROVE  /\ HasHeld(EndHold(k)) /\ EndHold(k).held = NoRate
         /\ HasHeld(Reset(k)) /\ Reset(k).held = NoRate
         /\ HasHeld(Toggle(k)) /\ Toggle(k).held = NoRate
         /\ HasHeld(Increase(k)) /\ Increase(k).held = NoRate
         /\ HasHeld(Decrease(k)) /\ Decrease(k).held = NoRate
         /\ \A rate : HasHeld(Activate(k, rate)) /\ Activate(k, rate).held = NoRate
         /\ \A rate : HasHeld(BeginHold(k, rate))
<1>1. \A a, b, c, d : LET r == [selected |-> a, previous |-> b, bypassed |-> c, held |-> d] IN HasHeld(r) /\ r.held = d
  BY DEF HasHeld
<1>2. /\ EndHold(k) = [selected |-> k.selected, previous |-> k.previous, bypassed |-> k.bypassed, held |-> NoRate]
      /\ Reset(k) = [selected |-> Unit, previous |-> k.previous, bypassed |-> TRUE, held |-> NoRate]
  <2>1. EndHold(k) = [selected |-> k.selected, previous |-> k.previous, bypassed |-> k.bypassed, held |-> NoRate]
    BY DEF EndHold, HasHeld
  <2>2. PICK r, yes : r = EndHold(k) /\ yes = TRUE
    OBVIOUS
  <2>3. [r EXCEPT !.selected = Unit, !.bypassed = yes] = [selected |-> Unit, previous |-> k.previous, bypassed |-> yes, held |-> NoRate]
    <3>1. r = [selected |-> k.selected, previous |-> k.previous, bypassed |-> k.bypassed, held |-> NoRate]
      BY <2>1, <2>2
    <3>2. PICK q : q = [r EXCEPT !.selected = Unit]
      OBVIOUS
    <3>3. q = [selected |-> Unit, previous |-> k.previous, bypassed |-> k.bypassed, held |-> NoRate]
      BY <3>1, <3>2
    <3>4. [q EXCEPT !.bypassed = yes] = [selected |-> Unit, previous |-> k.previous, bypassed |-> yes, held |-> NoRate]
      BY <3>3
    <3>5. [r EXCEPT !.selected = Unit, !.bypassed = yes] = [q EXCEPT !.bypassed = yes]
      BY <3>2, Zenon
    <3>. QED
      BY <3>4, <3>5, Zenon
  <2>4. Reset(k) = [EndHold(k) EXCEPT !.selected = Unit, !.bypassed = TRUE]
    BY DEF Reset
  <2>. QED
    BY <2>1, <2>4, <2>2, <2>3, Zenon
<1>3. \A rate : BeginHold(k, rate) = [selected |-> k.selected, previous |-> k.previous, bypassed |-> k.bypassed, held |-> rate]
  BY DEF BeginHold, HasHeld
<1>4. \A rate : HasHeld(Activate(k, rate)) /\ Activate(k, rate).held = NoRate
  <2>1. ASSUME NEW rate PROVE HasHeld(Activate(k, rate)) /\ Activate(k, rate).held = NoRate
    <3>1. PICK p, q : p = (rate = Unit) /\ q = (IF rate = Unit THEN k.previous ELSE rate)
      OBVIOUS
    <3>2. Activate(k, rate) = [selected |-> rate, previous |-> q, bypassed |-> p, held |-> NoRate]
      BY <3>1 DEF Activate
    <3>. QED
      BY <1>1, <3>2
  <2>. QED
    BY <2>1
<1>5. HasHeld(EndHold(k)) /\ EndHold(k).held = NoRate
  BY <1>1, <1>2
<1>6. HasHeld(Toggle(k)) /\ Toggle(k).held = NoRate
  <2>1. \/ Toggle(k) = [selected |-> k.selected, previous |-> k.previous, bypassed |-> TRUE, held |-> NoRate]
        \/ Toggle(k) = [selected |-> k.previous, previous |-> k.previous, bypassed |-> FALSE, held |-> NoRate]
        \/ Toggle(k) = EndHold(k)
    <3>1. CASE ~k.bypassed
      <4>1. PICK r, yes : r = EndHold(k) /\ yes = TRUE
        OBVIOUS
      <4>2. Toggle(k) = [r EXCEPT !.bypassed = yes]
        BY <3>1, <4>1 DEF Toggle
      <4>3. [r EXCEPT !.bypassed = yes] = [selected |-> k.selected, previous |-> k.previous, bypassed |-> yes, held |-> NoRate]
        <5>1. r = [selected |-> k.selected, previous |-> k.previous, bypassed |-> k.bypassed, held |-> NoRate]
          BY <1>2, <4>1
        <5>. QED
          BY <5>1
      <4>. QED
        BY <4>1, <4>2, <4>3, Zenon
    <3>2. CASE k.bypassed /\ k.previous # NoRate
      <4>1. PICK r, no : r = EndHold(k) /\ no = FALSE
        OBVIOUS
      <4>2. Toggle(k) = [r EXCEPT !.selected = k.previous, !.bypassed = no]
        BY <3>2, <4>1 DEF Toggle
      <4>3. [r EXCEPT !.selected = k.previous, !.bypassed = no]
              = [selected |-> k.previous, previous |-> k.previous, bypassed |-> no, held |-> NoRate]
        <5>1. r = [selected |-> k.selected, previous |-> k.previous, bypassed |-> k.bypassed, held |-> NoRate]
          BY <1>2, <4>1
        <5>2. PICK q : q = [r EXCEPT !.selected = k.previous]
          OBVIOUS
        <5>3. q = [selected |-> k.previous, previous |-> k.previous, bypassed |-> k.bypassed, held |-> NoRate]
          BY <5>1, <5>2
        <5>4. [q EXCEPT !.bypassed = no] = [selected |-> k.previous, previous |-> k.previous, bypassed |-> no, held |-> NoRate]
          BY <5>3
        <5>5. [r EXCEPT !.selected = k.previous, !.bypassed = no] = [q EXCEPT !.bypassed = no]
          BY <5>2, Zenon
        <5>. QED
          BY <5>4, <5>5, Zenon
      <4>. QED
        BY <4>1, <4>2, <4>3, Zenon
    <3>3. CASE k.bypassed /\ k.previous = NoRate
      BY <3>3 DEF Toggle
    <3>. QED
      BY <3>1, <3>2, <3>3
  <2>. QED
    BY <1>1, <1>5, <2>1
<1>7. HasHeld(Increase(k)) /\ Increase(k).held = NoRate
  BY <1>4, <1>5 DEF Increase
<1>8. HasHeld(Decrease(k)) /\ Decrease(k).held = NoRate
  BY <1>4, <1>5 DEF Decrease
<1>. QED
  BY <1>1, <1>2, <1>3, <1>4, <1>5, <1>6, <1>7, <1>8

LEMMA SwitchSession ==
  ASSUME NEW s, NEW k, HasHeld(k), NEW real, NEW hold, NEW startup
  PROVE  /\ IsSession(Switch(s, k, real, hold, startup))
         /\ Switch(s, k, real, hold, startup).controls = k
BY DEF Switch, IsSession

LEMMA AdvanceHold ==
  ASSUME NEW s, IsSession(s), NEW real
  PROVE  /\ IsSession(Advance(s, real))
         /\ Advance(s, real).controls.held \in {s.controls.held, NoRate}
<1>. DEFINE t == IF s.hold <= real /\ s.hold < s.startup
                   THEN Switch(s, EndHold(s.controls), s.hold, Never, s.startup) ELSE s
<1>1. HasHeld(s.controls)
  BY DEF IsSession
<1>2. IsSession(t) /\ t.controls.held \in {s.controls.held, NoRate}
  BY <1>1, EndedControls, SwitchSession
<1>3. HasHeld(t.controls)
  BY <1>2 DEF IsSession
<1>4. Advance(s, real) = IF t.startup <= real THEN Switch(t, Reset(t.controls), t.startup, Never, Never) ELSE t
  BY DEF Advance
<1>. HIDE DEF t
<1>. QED
  BY <1>2, <1>3, <1>4, EndedControls, SwitchSession

LEMMA PollHold ==
  ASSUME NEW s, IsSession(s), NEW real
  PROVE  /\ IsSession(Poll(s, real))
         /\ Poll(s, real).controls.held \in {s.controls.held, NoRate}
<1>1. PICK t : t = Advance(s, real)
  OBVIOUS
<1>2. IsSession(t) /\ t.controls.held \in {s.controls.held, NoRate}
  BY <1>1, AdvanceHold
<1>3. Poll(s, real) = [controls |-> t.controls, clock |-> Sample(t.clock, real), hold |-> t.hold, startup |-> t.startup]
  BY <1>1, <1>2 DEF Poll, IsSession
<1>. QED
  BY <1>2, <1>3 DEF IsSession

LEMMA ApplyHold ==
  ASSUME NEW s, IsSession(s), NEW real, NEW a
  PROVE  /\ IsSession(Apply(s, real, a))
         /\ a.kind # "hold" => Apply(s, real, a).controls.held \in {s.controls.held, NoRate}
         /\ a.kind \in {"release", "focusLost"} => Apply(s, real, a).controls.held = NoRate
<1>1. PICK t : t = Advance(s, real)
  OBVIOUS
<1>2. IsSession(t) /\ t.controls.held \in {s.controls.held, NoRate}
  BY <1>1, AdvanceHold
<1>3. PICK k : k = After(t.controls, a)
  OBVIOUS
<1>4. HasHeld(k) /\ (a.kind # "hold" => k.held = NoRate)
  <2>1. HasHeld(t.controls)
    BY <1>2 DEF IsSession
  <2>. QED
    BY <1>3, <2>1, EndedControls DEF After
<1>5. PICK hold, startup : hold = (IF a.kind = "hold" THEN DeadlineAfter(real, a.ms) ELSE Never)
                           /\ startup = (IF a.kind \in {"hold", "release"} THEN t.startup ELSE Never)
  OBVIOUS
<1>6. Apply(s, real, a) = IF Accepts(a) THEN Switch(t, k, real, hold, startup) ELSE t
  BY <1>1, <1>3, <1>5 DEF Apply
<1>7. a.kind \in {"release", "focusLost"} => Accepts(a)
  BY DEF Accepts
<1>. QED
  BY <1>2, <1>4, <1>6, <1>7, SwitchSession

LEMMA NewSessionHold ==
  ASSUME NEW enabled, NEW initial, NEW ms, NEW origin
  PROVE  /\ IsSession(NewSession(enabled, initial, ms, origin))
         /\ NewSession(enabled, initial, ms, origin).controls.held = NoRate
<1>1. PICK k : k = NewControls(enabled, initial)
  OBVIOUS
<1>2. HasHeld(k) /\ k.held = NoRate
  <2>1. \E p, b : k = [selected |-> initial, previous |-> p, bypassed |-> b, held |-> NoRate]
    BY <1>1 DEF NewControls
  <2>. QED
    BY <2>1 DEF HasHeld
<1>3. \E c, d : NewSession(enabled, initial, ms, origin) = [controls |-> k, clock |-> c, hold |-> Never, startup |-> d]
  BY <1>1 DEF NewSession
<1>. QED
  BY <1>2, <1>3 DEF IsSession
\* The actions of ApplyAll, one after the other.
AllSteps(after, s, actions) ==
  /\ ApplyAll(s, actions) = after[Len(actions)]
  /\ after[0] = s
  /\ \A i \in 1 .. Len(actions) : after[i] = Apply(after[i - 1], clock, actions[i])

LEMMA ApplyAllSteps ==
  ASSUME NEW s, NEW actions, Len(actions) \in Nat
  PROVE  \E after : AllSteps(after, s, actions)
<1>. DEFINE Turn(f, i) == IF i = 0 THEN s ELSE Apply(f[i - 1], clock, actions[i])
            Known == {m \in Nat : \E f : f = [i \in 0 .. m |-> Turn(f, i)]}
<1>1. 0 \in Known
  <2>. DEFINE g == [i \in 0 .. 0 |-> s]
  <2>1. g = [i \in 0 .. 0 |-> Turn(g, i)]
    <3>1. \A i \in 0 .. 0 : i = 0
      OBVIOUS
    <3>. QED
      BY <3>1
  <2>. HIDE DEF g
  <2>2. \E e : e = [i \in 0 .. 0 |-> Turn(e, i)]
    BY <2>1, Zenon
  <2>3. 0 \in Nat
    OBVIOUS
  <2>. QED
    BY <2>2, <2>3, Zenon
<1>2. ASSUME NEW m \in Nat, m \in Known PROVE m + 1 \in Known
  <2>1. PICK f : f = [i \in 0 .. m |-> Turn(f, i)]
    BY <1>2
  <2>. DEFINE g == [i \in 0 .. m + 1 |-> IF i <= m THEN f[i] ELSE Turn(f, i)]
  <2>2. ASSUME NEW i \in 0 .. m + 1 PROVE g[i] = Turn(g, i)
    <3>1. i # 0 => i - 1 \in 0 .. m /\ i - 1 \in 0 .. m + 1 /\ i - 1 <= m
      OBVIOUS
    <3>2. i # 0 => g[i - 1] = f[i - 1]
      BY <3>1
    <3>3. Turn(g, i) = Turn(f, i)
      <4>. HIDE DEF g
      <4>. QED
        BY <3>2
    <3>4. i <= m => i \in 0 .. m
      OBVIOUS
    <3>5. i <= m => f[i] = Turn(f, i)
      <4>. HIDE DEF Turn
      <4>. QED
        BY <2>1, <3>4, Zenon
    <3>6. g[i] = IF i <= m THEN f[i] ELSE Turn(f, i)
      <4>. HIDE DEF Turn
      <4>. QED
        BY Zenon
    <3>. HIDE DEF g, Turn
    <3>. QED
      BY <3>3, <3>5, <3>6, Zenon
  <2>3. g = [i \in 0 .. m + 1 |-> Turn(g, i)]
    <3>. DEFINE h == [i \in 0 .. m + 1 |-> Turn(g, i)]
    <3>1. \A i \in 0 .. m + 1 : g[i] = h[i]
      <4>. HIDE DEF g, Turn
      <4>. QED
        BY <2>2, Zenon
    <3>2. DOMAIN g = 0 .. m + 1 /\ DOMAIN h = 0 .. m + 1 /\ g = [i \in DOMAIN g |-> g[i]] /\ h = [i \in DOMAIN h |-> h[i]]
      <4>. HIDE DEF Turn
      <4>. QED
        OBVIOUS
    <3>. HIDE DEF g, Turn, h
    <3>3. g = h
      BY <3>1, <3>2
    <3>. QED
      BY <3>3 DEF h
  <2>. HIDE DEF g, Turn
  <2>4. \E e : e = [i \in 0 .. m + 1 |-> Turn(e, i)]
    BY <2>3, Zenon
  <2>5. m + 1 \in Nat
    OBVIOUS
  <2>. QED
    BY <2>4, <2>5, Zenon
<1>3. Nat \subseteq Known
  <2>. HIDE DEF Known
  <2>. QED
    BY <1>1, <1>2, Counting
<1>4. \E f : f = [i \in 0 .. Len(actions) |-> Turn(f, i)]
  <2>. HIDE DEF Turn
  <2>. QED
    BY <1>3, Zenon
<1>. DEFINE all == CHOOSE f : f = [i \in 0 .. Len(actions) |-> Turn(f, i)]
<1>5. all = [i \in 0 .. Len(actions) |-> Turn(all, i)]
  <2>. HIDE DEF Turn
  <2>. QED
    BY <1>4, Zenon
<1>6. ApplyAll(s, actions) = all[Len(actions)]
  BY Zenon DEF ApplyAll
<1>. HIDE DEF all, Known
<1>7. \A i \in 0 .. Len(actions) : all[i] = Turn(all, i)
  <2>. HIDE DEF Turn
  <2>. QED
    BY <1>5, Zenon
<1>8. all[0] = s
  BY <1>7
<1>9. \A i \in 1 .. Len(actions) : i \in 0 .. Len(actions) /\ i # 0
  OBVIOUS
<1>10. \A i \in 1 .. Len(actions) : all[i] = Apply(all[i - 1], clock, actions[i])
  BY <1>7, <1>9, Zenon
<1>. QED
  BY <1>6, <1>8, <1>10, Zenon DEF AllSteps

\* A batch without a hold begins none, and one that releases first leaves none.
LEMMA ApplyAllHold ==
  ASSUME NEW s, IsSession(s), NEW A, NEW actions \in Seq(A)
  PROVE  /\ IsSession(ApplyAll(s, actions))
         /\ (/\ \A i \in DOMAIN actions : actions[i].kind # "hold"
             /\ s.controls.held = NoRate \/ (actions # <<>> /\ actions[1].kind \in {"release", "focusLost"}))
              => ApplyAll(s, actions).controls.held = NoRate
<1>1. Len(actions) \in Nat /\ DOMAIN actions = 1 .. Len(actions)
  OBVIOUS
<1>2. PICK after : AllSteps(after, s, actions)
  BY <1>1, ApplyAllSteps, Zenon
<1>3. /\ ApplyAll(s, actions) = after[Len(actions)]
      /\ after[0] = s
      /\ \A i \in 1 .. Len(actions) : after[i] = Apply(after[i - 1], clock, actions[i])
  BY <1>2, Zenon DEF AllSteps
<1>. DEFINE quiet == /\ \A i \in DOMAIN actions : actions[i].kind # "hold"
                     /\ s.controls.held = NoRate \/ (actions # <<>> /\ actions[1].kind \in {"release", "focusLost"})
            Fits(m) == /\ IsSession(after[m])
                       /\ quiet => after[m].controls.held = NoRate \/ (m = 0 /\ actions # <<>> /\ actions[1].kind \in {"release", "focusLost"})
            Fitting == {m \in Nat : m <= Len(actions) => Fits(m)}
<1>4. 0 \in Fitting
  BY <1>3
<1>5. ASSUME NEW m \in Nat, m \in Fitting PROVE m + 1 \in Fitting
  <2>1. SUFFICES ASSUME m + 1 <= Len(actions) PROVE Fits(m + 1)
    <3>1. m + 1 \in Nat
      OBVIOUS
    <3>. HIDE DEF Fits
    <3>. QED
      BY <3>1
  <2>2. m <= Len(actions) /\ m + 1 \in 1 .. Len(actions) /\ (m + 1) - 1 = m /\ m + 1 # 0 /\ (m = 0 => m + 1 = 1)
    BY <1>1, <2>1
  <2>3. Fits(m)
    <3>. HIDE DEF Fits
    <3>. QED
      BY <1>5, <2>2
  <2>4. PICK a : a = actions[m + 1]
    OBVIOUS
  <2>5. after[m + 1] = Apply(after[m], clock, a)
    BY <1>3, <2>2, <2>4
  <2>6. /\ IsSession(after[m + 1])
        /\ a.kind # "hold" => after[m + 1].controls.held \in {after[m].controls.held, NoRate}
        /\ a.kind \in {"release", "focusLost"} => after[m + 1].controls.held = NoRate
    BY <2>3, <2>5, ApplyHold
  <2>7. ASSUME quiet PROVE after[m + 1].controls.held = NoRate
    <3>1. a.kind # "hold"
      BY <1>1, <2>2, <2>4, <2>7
    <3>2. CASE after[m].controls.held = NoRate
      BY <2>6, <3>1, <3>2
    <3>3. CASE m = 0 /\ actions[1].kind \in {"release", "focusLost"}
      BY <2>2, <2>4, <2>6, <3>3
    <3>. HIDE DEF quiet
    <3>. QED
      BY <2>3, <2>7, <3>2, <3>3
  <2>. HIDE DEF quiet
  <2>. QED
    BY <2>6, <2>7
<1>6. Len(actions) \in Fitting
  <2>. HIDE DEF Fitting
  <2>. QED
    BY <1>1, <1>4, <1>5, Counting
<1>7. Fits(Len(actions))
  <2>1. Len(actions) <= Len(actions)
    BY <1>1
  <2>. HIDE DEF Fits
  <2>. QED
    BY <1>6, <2>1
<1>8. actions # <<>> => Len(actions) # 0
  OBVIOUS
<1>9. quiet => after[Len(actions)].controls.held = NoRate
  <2>1. quiet => after[Len(actions)].controls.held = NoRate \/ (Len(actions) = 0 /\ actions # <<>>)
    <3>. HIDE DEF quiet
    <3>. QED
      BY <1>7
  <2>. HIDE DEF quiet
  <2>. QED
    BY <1>8, <2>1
<1>. QED
  BY <1>3, <1>7, <1>9
-----------------------------------------------------------------------------

\* What the pump knows is of the keys it watches in the window that is active.
GoodInput ==
  /\ input.focused \in BOOLEAN
  /\ input.previous \subseteq Watched /\ input.pressed \subseteq input.previous
  /\ input.held # None => /\ input.held \in Chords
                          /\ {input.held.key} \cup input.held.mods \subseteq input.previous
  /\ IF input.focused THEN active # None ELSE input.previous = {} /\ input.held = None

\* Inductive: what HoldBelongsToKey rests on.
KeysInv == GoodBindings /\ GoodInput /\ IsSession(keyed) /\ HoldBelongsToKey

LEMMA InitKeysInv == KeysInit => KeysInv
<1>1. SUFFICES ASSUME KeysInit PROVE KeysInv
  OBVIOUS
<1>2. GoodBindings
  <2>1. PICK config \in Configs : Compiles(config) /\ bindings = Compile(config)
    BY <1>1 DEF KeysInit
  <2>2. \A b \in bindings : \E e \in config : b = [chord |-> Parse(e.tokens), action |-> e.action]
    BY <2>1 DEF Compile
  <2>3. ASSUME NEW b \in bindings PROVE b.chord \in Chords
    <3>1. PICK e \in config : b = [chord |-> Parse(e.tokens), action |-> e.action]
      BY <2>2
    <3>2. Parse(e.tokens) # None
      BY <2>1 DEF Compiles
    <3>3. Parse(e.tokens) \in Chords \cup {None}
      <4>. DEFINE n == Len(e.tokens)
                  mods == {e.tokens[i] : i \in 1 .. n - 1}
      <4>1. PICK m : m = mods
        OBVIOUS
      <4>2. CASE n > 0 /\ e.tokens[n] \in Keys /\ m \subseteq Modifiers /\ Cardinality(m) = n - 1
        <5>1. Parse(e.tokens) = [key |-> e.tokens[n], mods |-> m]
          BY <4>1, <4>2, Zenon DEF Parse
        <5>2. [key |-> e.tokens[n], mods |-> m] \in Chords
          BY <4>2 DEF Chords
        <5>. QED
          BY <5>1, <5>2
      <4>3. CASE ~(n > 0 /\ e.tokens[n] \in Keys /\ m \subseteq Modifiers /\ Cardinality(m) = n - 1)
        <5>1. Parse(e.tokens) = None
          BY <4>1, <4>3, Zenon DEF Parse
        <5>. QED
          BY <5>1
      <4>. QED
        BY <4>2, <4>3
    <3>. QED
      BY <3>1, <3>2, <3>3
  <2>4. ASSUME NEW b \in bindings, NEW c \in bindings, b.chord = c.chord \/ b.action.kind = c.action.kind PROVE b = c
    <3>1. PICK d \in config : b = [chord |-> Parse(d.tokens), action |-> d.action]
      BY <2>2
    <3>2. PICK e \in config : c = [chord |-> Parse(e.tokens), action |-> e.action]
      BY <2>2
    <3>3. Parse(d.tokens) = Parse(e.tokens) \/ d.action.kind = e.action.kind
      BY <2>4, <3>1, <3>2
    <3>4. d = e
      BY <2>1, <3>3, HotkeysAssumption DEF Compiles
    <3>. QED
      BY <3>1, <3>2, <3>4
  <2>. QED
    BY <2>3, <2>4, Zenon DEF GoodBindings
<1>3. GoodInput
  <2>1. input = Unfocused
    BY <1>1 DEF KeysInit
  <2>. QED
    BY <2>1 DEF GoodInput, Unfocused
<1>4. IsSession(keyed)
  <2>1. keyed = NewSession(Opening.enabled, Opening.initial, Opening.ms, 0)
    BY <1>1 DEF KeysInit
  <2>. QED
    BY <2>1, NewSessionHold
<1>5. HoldBelongsToKey
  BY <1>1 DEF KeysInit, HoldBelongsToKey
<1>. QED
  BY <1>2, <1>3, <1>4, <1>5 DEF KeysInv

\* What a sample of the pump comes to.
PumpGives(s, snapshot) ==
  LET down == snapshot.down \cap Watched
      e == Edges(input.previous, down)
  IN  /\ ~snapshot.focused =>
           s.input = Unfocused /\ s.actions = IF input.focused THEN <<FocusLost>> ELSE <<>>
      /\ snapshot.focused /\ ~input.focused =>
           s.input = [focused |-> TRUE, previous |-> down, pressed |-> {}, held |-> None] /\ s.actions = <<>>
      /\ snapshot.focused /\ input.focused =>
           /\ s.input = [focused |-> TRUE, previous |-> down, pressed |-> e.pressed, held |-> e.held]
           /\ s.actions = e.out

LEMMA PumpFacts ==
  ASSUME KeysInv, NEW snapshot, snapshot.focused \in BOOLEAN
  PROVE  PumpGives(PumpSample(snapshot), snapshot)
<1>. DEFINE down == snapshot.down \cap Watched
            e == Edges(input.previous, down)
<1>1. CASE ~snapshot.focused
  <2>1. PumpSample(snapshot) = [input |-> Unfocused, actions |-> IF input.focused THEN <<FocusLost>> ELSE <<>>]
    BY <1>1 DEF PumpSample
  <2>. QED
    BY <1>1, <2>1 DEF PumpGives
<1>2. CASE snapshot.focused /\ ~input.focused
  <2>1. PumpSample(snapshot) = [input |-> [Unfocused EXCEPT !.focused = TRUE, !.previous = down], actions |-> <<>>]
    BY <1>2 DEF PumpSample
  <2>2. [Unfocused EXCEPT !.focused = TRUE, !.previous = down] = [focused |-> TRUE, previous |-> down, pressed |-> {}, held |-> None]
    <3>1. PICK yes, x : yes = TRUE /\ x = down
      OBVIOUS
    <3>2. PICK q : q = [Unfocused EXCEPT !.focused = yes]
      OBVIOUS
    <3>3. q = [focused |-> yes, previous |-> {}, pressed |-> {}, held |-> None]
      BY <3>2 DEF Unfocused
    <3>4. [q EXCEPT !.previous = x] = [focused |-> yes, previous |-> x, pressed |-> {}, held |-> None]
      BY <3>3
    <3>5. [Unfocused EXCEPT !.focused = yes, !.previous = x] = [q EXCEPT !.previous = x]
      BY <3>2, Zenon
    <3>. QED
      BY <3>1, <3>4, <3>5, Zenon
  <2>3. PICK x : x = [focused |-> TRUE, previous |-> down, pressed |-> {}, held |-> None]
    OBVIOUS
  <2>4. PumpSample(snapshot) = [input |-> x, actions |-> <<>>]
    BY <2>1, <2>2, <2>3, Zenon
  <2>5. PumpSample(snapshot).input = x /\ PumpSample(snapshot).actions = <<>>
    BY <2>4
  <2>. QED
    BY <1>2, <2>3, <2>5, Zenon DEF PumpGives
<1>3. CASE snapshot.focused /\ input.focused
  <2>1. PumpSample(snapshot) = [input |-> [focused |-> TRUE, previous |-> down, pressed |-> e.pressed, held |-> e.held],
                                actions |-> e.out]
    BY <1>3 DEF PumpSample
  <2>2. PICK x, y : x = [focused |-> TRUE, previous |-> down, pressed |-> e.pressed, held |-> e.held] /\ y = e.out
    OBVIOUS
  <2>3. PumpSample(snapshot) = [input |-> x, actions |-> y]
    BY <2>1, <2>2, Zenon
  <2>4. PumpSample(snapshot).input = x /\ PumpSample(snapshot).actions = y
    BY <2>3
  <2>. QED
    BY <1>3, <2>2, <2>4, Zenon DEF PumpGives
<1>. QED
  <2>1. input.focused \in BOOLEAN
    BY DEF KeysInv, GoodInput
  <2>. QED
    BY <1>1, <1>2, <1>3, <2>1, Zenon
\* What a sample does to the invariant and to the keyboard.
LEMMA SampleStep ==
  ASSUME KeysInv, NEW snapshot, snapshot.focused \in BOOLEAN, NEW refused \in BOOLEAN,
         SampleInput(snapshot, refused), UNCHANGED bindings,
         snapshot.focused => active' # None /\ (input.focused => active' = active)
  PROVE  /\ GoodInput' /\ IsSession(keyed)'
         /\ (byKey /\ keyed.controls.held # NoRate)' =>
              (/\ input.focused /\ active # None
               /\ input.held # None /\ {input.held.key} \cup input.held.mods \subseteq input.previous)'
         /\ K!KNext
<1>. DEFINE sample == PumpSample(snapshot)
            down == snapshot.down \cap Watched
            applied == ApplyAll(Poll(keyed, clock), sample.actions)
<1>1. /\ refused => sample.actions # <<>>
      /\ input' = sample.input /\ batch' = sample.actions
      /\ keyed' = Poll(IF refused THEN Apply(applied, clock, FocusLost) ELSE applied, clock)
      /\ byKey' = (byKey \/ \E i \in DOMAIN sample.actions : sample.actions[i].kind = "hold")
  BY DEF SampleInput
<1>2. /\ ~snapshot.focused => sample.input = Unfocused /\ sample.actions = IF input.focused THEN <<FocusLost>> ELSE <<>>
      /\ snapshot.focused /\ ~input.focused =>
           sample.input = [focused |-> TRUE, previous |-> down, pressed |-> {}, held |-> None] /\ sample.actions = <<>>
      /\ snapshot.focused /\ input.focused =>
           /\ sample.input = [focused |-> TRUE, previous |-> down, pressed |-> Edges(input.previous, down).pressed,
                               held |-> Edges(input.previous, down).held]
           /\ sample.actions = Edges(input.previous, down).out
  <2>1. PumpGives(sample, snapshot)
    BY PumpFacts
  <2>. HIDE DEF sample
  <2>. QED
    BY <2>1, Zenon DEF PumpGives
<1>3. Watched' = Watched
  BY DEF Watched
<1>4. PICK first : first = Poll(keyed, clock)
  OBVIOUS
<1>5. IsSession(first) /\ first.controls.held \in {keyed.controls.held, NoRate}
  BY <1>4, PollHold DEF KeysInv
<1>6. ASSUME NEW A, sample.actions \in Seq(A)
      PROVE  /\ IsSession(keyed')
             /\ keyed'.controls.held # NoRate => ~refused /\ applied.controls.held # NoRate
  <2>1. PICK actions \in Seq(A) : actions = sample.actions
    BY <1>6
  <2>2. PICK last : last = ApplyAll(first, actions)
    OBVIOUS
  <2>3. IsSession(last)
    BY <1>5, <2>2, ApplyAllHold
  <2>4. applied = last
    BY <1>4, <2>1, <2>2, Zenon
  <2>. HIDE DEF applied
  <2>5. IsSession(Apply(last, clock, FocusLost)) /\ Apply(last, clock, FocusLost).controls.held = NoRate
    BY <2>3, ApplyHold DEF FocusLost
  <2>6. PICK end : end = IF refused THEN Apply(last, clock, FocusLost) ELSE last
    OBVIOUS
  <2>7. IsSession(end) /\ (end.controls.held # NoRate => ~refused /\ last.controls.held # NoRate)
    BY <2>3, <2>5, <2>6
  <2>8. keyed' = Poll(end, clock)
    BY <1>1, <2>4, <2>6
  <2>9. IsSession(Poll(end, clock)) /\ Poll(end, clock).controls.held \in {end.controls.held, NoRate}
    BY <2>7, PollHold
  <2>. QED
    BY <2>4, <2>7, <2>8, <2>9
<1>7. IsSession(keyed)' <=> IsSession(keyed')
  BY DEF IsSession, HasHeld
<1>8. CASE ~snapshot.focused
  <2>1. input' = Unfocused /\ batch' = IF input.focused THEN <<FocusLost>> ELSE <<>>
    BY <1>1, <1>8, <1>2, Zenon
  <2>2. GoodInput'
    <3>1. input'.focused = FALSE /\ input'.previous = {} /\ input'.pressed = {} /\ input'.held = None
      BY <2>1 DEF Unfocused
    <3>. QED
      BY <3>1 DEF GoodInput
  <2>3. sample.actions = batch'
    BY <1>1
  <2>4. sample.actions \in Seq({FocusLost})
    <3>1. <<FocusLost>> \in Seq({FocusLost}) /\ <<>> \in Seq({FocusLost})
      OBVIOUS
    <3>. QED
      BY <2>1, <2>3, <3>1
  <2>. HIDE DEF sample
  <2>5. IsSession(keyed)'
    BY <1>6, <1>7, <2>4
  <2>6. ~(byKey' /\ keyed'.controls.held # NoRate)
    <3>1. SUFFICES ASSUME byKey', keyed'.controls.held # NoRate PROVE FALSE
      OBVIOUS
    <3>2. applied.controls.held # NoRate /\ ~refused
      BY <1>6, <2>4, <3>1
    <3>3. PICK actions \in Seq({FocusLost}) : actions = sample.actions
      BY <2>4
    <3>4. \A i \in DOMAIN actions : actions[i].kind = "focusLost"
      BY <3>3 DEF FocusLost
    <3>5. byKey
      BY <1>1, <3>1, <3>3, <3>4
    <3>6. first.controls.held = NoRate \/ (actions # <<>> /\ actions[1].kind \in {"release", "focusLost"})
      <4>1. CASE input.focused
        <5>1. actions = <<FocusLost>>
          BY <2>1, <2>3, <3>3, <4>1
        <5>. QED
          BY <5>1 DEF FocusLost
      <4>2. CASE ~input.focused
        <5>1. keyed.controls.held = NoRate
          BY <3>5, <4>2 DEF KeysInv, HoldBelongsToKey
        <5>. QED
          BY <1>5, <5>1
      <4>. QED
        BY <4>1, <4>2
    <3>7. ApplyAll(first, actions).controls.held = NoRate
      BY <1>5, <3>4, <3>6, ApplyAllHold
    <3>8. applied = ApplyAll(first, actions)
      BY <1>4, <3>3, Zenon
    <3>. HIDE DEF applied
    <3>. QED
      BY <3>2, <3>7, <3>8
  <2>7. K!KNext
    <3>1. input'.focused = FALSE /\ input'.previous = {} /\ input'.held = None
      BY <2>1 DEF Unfocused
    <3>2. K!Lose
      <4>1. batch' = IF (IF input.focused THEN active ELSE None) = None THEN <<>> ELSE <<K!FocusLost>>
        BY <2>1 DEF KeysInv, GoodInput, FocusLost, K!FocusLost
      <4>. QED
        BY <3>1, <4>1 DEF K!Lose
    <3>. QED
      BY <3>2 DEF K!KNext
  <2>. QED
    BY <2>2, <2>5, <2>6, <2>7
<1>9. CASE snapshot.focused /\ ~input.focused
  <2>1. input' = [focused |-> TRUE, previous |-> down, pressed |-> {}, held |-> None] /\ batch' = <<>> /\ sample.actions = <<>>
    BY <1>1, <1>9, <1>2, Zenon
  <2>2. input'.focused = TRUE /\ input'.previous = down /\ input'.pressed = {} /\ input'.held = None
    BY <2>1
  <2>3. GoodInput'
    BY <1>3, <1>9, <2>2 DEF GoodInput
  <2>. HIDE DEF sample
  <2>4. sample.actions \in Seq({}) /\ DOMAIN sample.actions = {}
    BY <2>1
  <2>5. IsSession(keyed)'
    BY <1>6, <1>7, <2>4
  <2>6. ~(byKey' /\ keyed'.controls.held # NoRate)
    <3>1. SUFFICES ASSUME byKey', keyed'.controls.held # NoRate PROVE FALSE
      OBVIOUS
    <3>2. applied.controls.held # NoRate
      BY <1>6, <2>4, <3>1
    <3>3. byKey
      BY <1>1, <2>4, <3>1
    <3>4. first.controls.held = NoRate
      BY <1>5, <1>9, <3>3 DEF KeysInv, HoldBelongsToKey
    <3>5. PICK actions \in Seq({}) : actions = sample.actions
      BY <2>4
    <3>6. \A i \in DOMAIN actions : actions[i].kind # "hold"
      BY <2>4, <3>5
    <3>7. ApplyAll(first, actions).controls.held = NoRate
      BY <1>5, <3>4, <3>6, ApplyAllHold
    <3>8. applied = ApplyAll(first, actions)
      BY <1>4, <3>5, Zenon
    <3>. HIDE DEF applied
    <3>. QED
      BY <3>2, <3>7, <3>8
  <2>7. K!KNext
    <3>1. K!Gain(IF input'.focused THEN active' ELSE None, input'.previous)
      BY <1>9, <2>1, <2>2 DEF K!Gain
    <3>2. (IF input'.focused THEN active' ELSE None) # None
      BY <1>9, <2>2
    <3>. QED
      BY <3>1, <3>2 DEF K!KNext
  <2>. QED
    BY <2>3, <2>5, <2>6, <2>7
<1>10. CASE snapshot.focused /\ input.focused
  <2>1. PICK new : new = down
    OBVIOUS
  <2>. DEFINE begun == K!Started(new)
              ended == K!Ended(new)
  <2>2. new \subseteq Watched
    BY <2>1
  <2>3. PICK e : e = Edges(input.previous, new)
    OBVIOUS
  <2>4. /\ e.pressed \subseteq new
        /\ e.held # None => e.held \in Chords /\ {e.held.key} \cup e.held.mods \subseteq new
        /\ \E s \in K!Orders(begun) :
             Lists(s, begun) /\ e.out = (IF ended THEN <<ReleaseAction>> ELSE <<>>) \o Asked(s)
        /\ \/ \E b \in begun : b.action.kind = "hold" /\ e.held = b.chord
           \/ (\A b \in begun : b.action.kind # "hold") /\ e.held = IF ended THEN None ELSE input.held
    BY <2>2, <2>3, EdgesFacts DEF KeysInv, GoodInput
  <2>5. input' = [focused |-> TRUE, previous |-> new, pressed |-> e.pressed, held |-> e.held] /\ sample.actions = e.out
    BY <1>1, <1>10, <1>2, <2>1, <2>3, Zenon
  <2>6. input'.focused = TRUE /\ input'.previous = new /\ input'.pressed = e.pressed /\ input'.held = e.held
    BY <2>5
  <2>7. active # None /\ active' = active /\ active' # None
    BY <1>10 DEF KeysInv, GoodInput
  <2>8. GoodInput'
    BY <1>3, <2>2, <2>4, <2>6, <2>7 DEF GoodInput
  <2>9. PICK s \in K!Orders(begun) :
          Lists(s, begun) /\ e.out = (IF ended THEN <<ReleaseAction>> ELSE <<>>) \o Asked(s)
    BY <2>4
  <2>10. PICK C, lead : C = begun /\ lead = IF ended THEN <<ReleaseAction>> ELSE <<>>
    OBVIOUS
  <2>11. s \in Seq(C) /\ Len(s) \in Nat /\ DOMAIN s = 1 .. Len(s) /\ \A i \in 1 .. Len(s) : s[i] \in C
    <3>1. s \in Seq(C)
      BY <2>9, <2>10 DEF Lists
    <3>. QED
      BY <3>1
  <2>. DEFINE W == {ReleaseAction} \cup {b.action : b \in C}
  <2>12. Asked(s) \in Seq(W) /\ Len(Asked(s)) = Len(s) /\ \A i \in 1 .. Len(s) : Asked(s)[i] = s[i].action
    <3>1. \A i \in 1 .. Len(s) : s[i].action \in W
      BY <2>11
    <3>. HIDE DEF W
    <3>2. Asked(s) \in [1 .. Len(s) -> W]
      BY <2>11, <3>1 DEF Asked
    <3>. QED
      BY <2>11, <3>2 DEF Asked
  <2>13. lead \in Seq(W) /\ (ended => lead = <<ReleaseAction>>) /\ (~ended => lead = <<>>)
    <3>1. <<ReleaseAction>> \in Seq(W) /\ <<>> \in Seq(W)
      OBVIOUS
    <3>. HIDE DEF W, ended
    <3>. QED
      BY <2>10, <3>1
  <2>14. PICK out : out = e.out
    OBVIOUS
  <2>15. out = lead \o Asked(s)
    BY <2>9, <2>10, <2>14, Zenon
  <2>16. out \in Seq(W)
    <3>. HIDE DEF W
    <3>. QED
      BY <2>12, <2>13, <2>15
  <2>17. sample.actions \in Seq(W)
    BY <2>5, <2>14, <2>16, Zenon
  <2>. HIDE DEF sample, W
  <2>18. IsSession(keyed)'
    BY <1>6, <1>7, <2>17
  <2>19. (byKey /\ keyed.controls.held # NoRate)' =>
           (/\ input.focused /\ active # None
            /\ input.held # None /\ {input.held.key} \cup input.held.mods \subseteq input.previous)'
    <3>1. SUFFICES ASSUME byKey', keyed'.controls.held # NoRate, e.held = None PROVE FALSE
      BY <2>4, <2>6, <2>7
    <3>2. applied.controls.held # NoRate
      BY <1>6, <2>17, <3>1
    <3>3. \A b \in C : b.action.kind # "hold"
      <4>1. \A b \in begun : b.chord \in Chords
        BY DEF KeysInv, GoodBindings, K!Started
      <4>. HIDE DEF begun
      <4>2. None \notin Chords
        BY HotkeysAssumption
      <4>. QED
        BY <2>4, <2>10, <3>1, <4>1, <4>2
    <3>4. \A i \in DOMAIN out : out[i].kind # "hold"
      <4>1. \A i \in DOMAIN out : out[i] = ReleaseAction \/ \E b \in C : out[i] = b.action
        <5>1. out \in Seq({ReleaseAction} \cup {b.action : b \in C})
          BY <2>16 DEF W
        <5>2. PICK V : V = {ReleaseAction} \cup {b.action : b \in C}
          OBVIOUS
        <5>3. \A i \in DOMAIN out : out[i] \in V
          BY <5>1, <5>2
        <5>. QED
          BY <5>2, <5>3
      <4>2. ReleaseAction.kind # "hold"
        BY DEF ReleaseAction
      <4>. QED
        BY <3>3, <4>1, <4>2
    <3>5. byKey
      BY <1>1, <2>5, <2>14, <3>1, <3>4, Zenon
    <3>6. first.controls.held = NoRate \/ (out # <<>> /\ out[1].kind \in {"release", "focusLost"})
      <4>1. CASE ended
        <5>1. lead = <<ReleaseAction>>
          BY <2>13, <4>1
        <5>2. out[1] = ReleaseAction /\ Len(out) = 1 + Len(s)
          BY <2>12, <2>15, <5>1
        <5>3. out # <<>>
          BY <2>11, <5>2
        <5>. QED
          BY <5>2, <5>3 DEF ReleaseAction
      <4>2. CASE ~ended
        <5>1. input.held = None
          <6>. HIDE DEF begun, ended
          <6>. QED
            BY <2>4, <2>10, <3>1, <3>3, <4>2
        <5>2. keyed.controls.held = NoRate
          BY <3>5, <5>1 DEF KeysInv, HoldBelongsToKey
        <5>. QED
          BY <1>5, <5>2
      <4>. QED
        BY <4>1, <4>2
    <3>7. ApplyAll(first, out).controls.held = NoRate
      BY <1>5, <2>16, <3>4, <3>6, ApplyAllHold
    <3>8. applied = ApplyAll(first, out)
      BY <1>4, <2>5, <2>14, Zenon
    <3>. HIDE DEF applied
    <3>. QED
      BY <3>2, <3>7, <3>8
  <2>20. K!KNext
    <3>. DEFINE holds == {b \in begun : b.action.kind = "hold"}
    <3>1. \A b, c \in holds : b = c
      BY DEF K!Started, KeysInv, GoodBindings
    <3>2. e.held = CASE holds # {} -> (CHOOSE b \in holds : TRUE).chord
                     [] holds = {} /\ ended -> None
                     [] OTHER -> input.held
      <4>1. CASE holds # {}
        <5>1. PICK h \in holds : h = CHOOSE b \in holds : TRUE
          BY <4>1
        <5>2. PICK b \in begun : b.action.kind = "hold" /\ e.held = b.chord
          <6>. HIDE DEF begun, ended
          <6>. QED
            BY <2>4, <4>1
        <5>3. b = h
          BY <3>1, <5>2
        <5>. HIDE DEF holds
        <5>. QED
          BY <4>1, <5>1, <5>2, <5>3
      <4>2. CASE holds = {}
        <5>1. e.held = IF ended THEN None ELSE input.held
          <6>. HIDE DEF begun, ended
          <6>. QED
            BY <2>4, <4>2
        <5>. HIDE DEF holds, begun, ended
        <5>. QED
          BY <4>2, <5>1
      <4>. QED
        BY <4>1, <4>2
    <3>3. batch' = (IF K!Ended(new) THEN <<K!ReleaseAction>> ELSE <<>>) \o [i \in DOMAIN s |-> s[i].action]
      <4>1. batch' = e.out
        BY <1>1, <2>5
      <4>2. K!ReleaseAction = ReleaseAction
        BY DEF K!ReleaseAction, ReleaseAction
      <4>. QED
        BY <2>9, <4>1, <4>2, Zenon DEF Asked
    <3>4. \E starts \in K!Orders(K!Started(new)) :
            batch' = (IF K!Ended(new) THEN <<K!ReleaseAction>> ELSE <<>>) \o [i \in DOMAIN starts |-> starts[i].action]
      BY <2>9, <3>3, Zenon
    <3>5. K!Look(new)
      <4>1. (IF input.focused THEN active ELSE None) # None
        BY <1>10, <2>7
      <4>2. (IF input'.focused THEN active' ELSE None) = (IF input.focused THEN active ELSE None)
        BY <1>10, <2>6, <2>7
      <4>. QED
        BY <2>6, <3>2, <3>4, <4>1, <4>2, Zenon DEF K!Look
    <3>6. K!Look(input'.previous)
      BY <2>6, <3>5, Zenon
    <3>. QED
      BY <3>6, Zenon DEF K!KNext
  <2>. QED
    BY <2>8, <2>18, <2>19, <2>20
<1>. QED
  <2>1. input.focused \in BOOLEAN
    BY DEF KeysInv, GoodInput
  <2>. QED
    BY <1>8, <1>9, <1>10, <2>1, Zenon

\* What the worker sees in a tick.
LEMMA ObserveFacts ==
  ASSUME NEW window, NEW read, read.focused \in BOOLEAN
  PROVE  /\ Observe(window, read).snapshot.focused \in BOOLEAN
         /\ Observe(window, read).snapshot.focused =>
              /\ Observe(window, read).active # None
              /\ active # None => Observe(window, read).active = active
<1>1. NoInput.focused = FALSE
  BY DEF NoInput
<1>2. PICK no : no = NoInput
  OBVIOUS
<1>3. no.focused = FALSE
  BY <1>1, <1>2, Zenon
<1>4. CASE window = None \/ ~read.focused
  <2>1. Observe(window, read) = [active |-> None, snapshot |-> no]
    BY <1>2, <1>4, Zenon DEF Observe
  <2>2. Observe(window, read).active = None /\ Observe(window, read).snapshot = no
    BY <2>1
  <2>. QED
    BY <1>3, <2>2
<1>5. CASE window # None /\ read.focused
  <2>1. PICK x : x = IF active \in {None, window} THEN read ELSE no
    OBVIOUS
  <2>2. Observe(window, read) = [active |-> window, snapshot |-> x]
    BY <1>2, <1>5, <2>1, Zenon DEF Observe
  <2>3. Observe(window, read).active = window /\ Observe(window, read).snapshot = x
    BY <2>2
  <2>4. CASE active \in {None, window}
    BY <1>5, <2>1, <2>3, <2>4
  <2>5. CASE active \notin {None, window}
    <3>1. x.focused = FALSE
      BY <1>3, <2>1, <2>5
    <3>. QED
      BY <2>3, <3>1
  <2>. QED
    BY <2>4, <2>5
<1>. QED
  BY <1>4, <1>5

\* Every step keeps the invariant and is one of the keyboard's, or none.
LEMMA StepKeysInv == ASSUME KeysInv, [KeysNext]_keyVars PROVE KeysInv' /\ [K!KNext]_K!kvars
<1>. DEFINE Kept == /\ UNCHANGED <<bindings, active, input, batch>>
            Same == Kept /\ UNCHANGED <<keyed, byKey>>
<1>1. UNCHANGED bindings => GoodBindings'
  BY DEF KeysInv, GoodBindings
<1>2. Kept => GoodInput' /\ UNCHANGED K!kvars
  BY DEF KeysInv, GoodInput, Watched, K!kvars
<1>3. Same /\ (worker' = "done" => worker = "done") => KeysInv'
  <2>1. Same => IsSession(keyed)'
    BY DEF KeysInv, IsSession, HasHeld
  <2>2. Same /\ (worker' = "done" => worker = "done") => HoldBelongsToKey'
    BY DEF KeysInv, HoldBelongsToKey
  <2>. QED
    BY <1>1, <1>2, <2>1, <2>2 DEF KeysInv
<1>4. CASE Elapse
  BY <1>2, <1>3, <1>4 DEF Elapse
<1>5. ASSUME NEW a \in Commands, Command(a) PROVE KeysInv' /\ UNCHANGED K!kvars
  <2>1. keyed' = Apply(keyed, clock, a) /\ byKey' = (byKey /\ a.kind # "hold") /\ Kept /\ worker' = worker
    BY <1>5 DEF Command
  <2>2. IsSession(Apply(keyed, clock, a))
    BY ApplyHold DEF KeysInv
  <2>3. IsSession(keyed)'
    BY <2>1, <2>2 DEF IsSession, HasHeld
  <2>4. byKey' /\ keyed'.controls.held # NoRate => byKey /\ keyed.controls.held # NoRate
    BY <2>1, ApplyHold DEF KeysInv
  <2>5. HoldBelongsToKey'
    BY <2>1, <2>4 DEF KeysInv, HoldBelongsToKey
  <2>. QED
    BY <1>1, <1>2, <2>1, <2>3, <2>5 DEF KeysInv
<1>6. CASE Stop
  BY <1>2, <1>3, <1>6 DEF Stop
<1>7. CASE Top
  <2>1. worker' # "done" /\ Same
    BY <1>7 DEF Top
  <2>. QED
    BY <1>2, <1>3, <2>1
<1>8. ASSUME NEW screen \in Screens, NEW down \in SUBSET Watched, NEW refused \in BOOLEAN, Tick(screen, down, refused)
      PROVE  KeysInv' /\ K!KNext
  <2>1. PICK window, read : window = Unique(screen.shown) /\ read = Read(window, screen.front, down)
    OBVIOUS
  <2>2. read.focused \in BOOLEAN
    BY <2>1 DEF Read, NoInput
  <2>3. PICK seen : seen = Observe(window, read)
    OBVIOUS
  <2>4. active' = seen.active /\ SampleInput(seen.snapshot, refused) /\ worker' # "done" /\ UNCHANGED bindings
    BY <1>8, <2>3, <2>1 DEF Tick
  <2>5. seen.snapshot.focused \in BOOLEAN /\ (seen.snapshot.focused => seen.active # None /\ (active # None => seen.active = active))
    BY <2>3, <2>2, ObserveFacts
  <2>6. seen.snapshot.focused => active' # None /\ (input.focused => active' = active)
    BY <2>4, <2>5 DEF KeysInv, GoodInput
  <2>7. /\ GoodInput' /\ IsSession(keyed)'
        /\ (byKey /\ keyed.controls.held # NoRate)' =>
             (/\ input.focused /\ active # None
              /\ input.held # None /\ {input.held.key} \cup input.held.mods \subseteq input.previous)'
        /\ K!KNext
    <3>1. PICK snapshot : snapshot = seen.snapshot
      OBVIOUS
    <3>2. SampleInput(snapshot, refused) /\ snapshot.focused \in BOOLEAN
          /\ (snapshot.focused => active' # None /\ (input.focused => active' = active))
      BY <2>4, <2>5, <2>6, <3>1
    <3>. QED
      BY <2>4, <3>2, SampleStep
  <2>8. HoldBelongsToKey'
    BY <2>4, <2>7 DEF HoldBelongsToKey
  <2>. QED
    BY <1>1, <2>4, <2>7, <2>8 DEF KeysInv
<1>9. ASSUME NEW refused \in BOOLEAN, Leave(refused) PROVE KeysInv' /\ K!KNext
  <2>1. SampleInput(NoInput, refused) /\ UNCHANGED bindings
    BY <1>9 DEF Leave
  <2>2. NoInput.focused = FALSE
    BY DEF NoInput
  <2>3. PICK no : no = NoInput
    OBVIOUS
  <2>4. no = NoInput /\ no.focused = FALSE /\ no.focused \in BOOLEAN
    BY <2>2, <2>3, Zenon
  <2>5. SampleInput(no, refused)
    BY <2>1, <2>4
  <2>6. /\ GoodInput' /\ IsSession(keyed)'
        /\ (byKey /\ keyed.controls.held # NoRate)' =>
             (/\ input.focused /\ active # None
              /\ input.held # None /\ {input.held.key} \cup input.held.mods \subseteq input.previous)'
        /\ K!KNext
    BY <2>1, <2>4, <2>5, SampleStep
  <2>7. input' = Unfocused
    <3>1. PumpSample(no).input = Unfocused
      <4>1. PumpGives(PumpSample(no), no)
        BY <2>4, PumpFacts
      <4>. QED
        BY <2>4, <4>1, Zenon DEF PumpGives
    <3>. QED
      BY <2>5, <3>1 DEF SampleInput
  <2>8. ~(byKey /\ keyed.controls.held # NoRate)'
    BY <2>6, <2>7 DEF Unfocused
  <2>9. HoldBelongsToKey'
    BY <2>8 DEF HoldBelongsToKey
  <2>. QED
    BY <1>1, <2>1, <2>6, <2>9 DEF KeysInv
<1>10. CASE UNCHANGED keyVars
  BY <1>2, <1>3, <1>10 DEF keyVars
<1>. HIDE DEF Same, Kept
<1>. QED
  BY <1>4, <1>5, <1>6, <1>7, <1>8, <1>9, <1>10 DEF KeysNext

LEMMA KeysInvAlways == KeysSpec => []KeysInv
<1>1. KeysInit => KeysInv
  BY InitKeysInv
<1>2. KeysInv /\ [KeysNext]_keyVars => KeysInv'
  BY StepKeysInv
<1>. QED
  BY <1>1, <1>2, PTL DEF KeysSpec

\* A speed that a key holds is never left in force: whatever ends the chord, the
\* session was told (SpeedHotkeyDispatcher, FocusedInputPump, run_worker).
THEOREM HoldsEndWithKeys == KeysSpec => []HoldBelongsToKey
<1>1. KeysInv => HoldBelongsToKey
  BY DEF KeysInv
<1>. QED
  BY <1>1, KeysInvAlways, PTL

\* The window's epoch, the pump and the dispatcher are the keyboard: every edge in
\* the window that has the focus acts once, in the order of the keys, releases first.
THEOREM KeysImplementKeyboard == KeysSpec => ImplementsKeyboard
<1>1. KeysInit => K!KInit
  BY DEF KeysInit, Unfocused, K!KInit
<1>2. KeysInv /\ [KeysNext]_keyVars => [K!KNext]_K!kvars
  BY StepKeysInv
<1>. QED
  BY <1>1, <1>2, KeysInvAlways, PTL DEF KeysSpec, ImplementsKeyboard
=============================================================================
