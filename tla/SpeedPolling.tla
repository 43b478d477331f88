----------------------------- MODULE SpeedPolling -----------------------------
(***************************************************************************)
(* SpeedSession beside its own ideal: a copy that is polled on every tick, *)
(* and the sum of the rates that were in force.  A game may leave the      *)
(* session alone for as long as it likes, so that deadlines are noticed    *)
(* late; what it then reads must not tell.                                 *)
(***************************************************************************)
EXTENDS SpeedSession

CONSTANT MaxApplies   \* bound: the actions of a behaviour

VARIABLES
  prompt,     \* the same session, polled on every tick
  ideal,      \* Unit times the virtual time, without any rounding
  applies     \* actions applied so far

pollingVars == <<vars, prompt, ideal, applies>>

PInit ==
  /\ Init
  /\ prompt = session
  /\ ideal = Origin * Unit
  /\ applies = 0

PPass ==
  /\ Pass
  /\ prompt' = Poll(prompt, now')
  /\ ideal' = ideal + prompt.clock.rate
  /\ UNCHANGED applies

PPoll == /\ \E real \in Origin .. now : PollAt(real)
         /\ UNCHANGED <<prompt, ideal, applies>>

PAct(a) ==
  /\ applies < MaxApplies
  /\ Act(a)
  /\ prompt' = Apply(prompt, now, a)
  /\ applies' = applies + 1
  /\ UNCHANGED ideal

PNext == PPass \/ PPoll \/ \E a \in Requests : PAct(a)

PSpec == PInit /\ [][PNext]_pollingVars

\* A session nobody looked at for a while shows, when it is looked at, exactly
\* what it would have shown had it been polled all the time: late polling does
\* not stretch a hold or the startup rate, and changes no reading of the clock.
PollingInvisible == Poll(session, now) = prompt

\* Virtual time is the sum of the rates in force; every change of speed loses
\* less than one tick to rounding and none is ever gained.  GetTickCount,
\* GetTickCount64 and timeGetTime stay in step with it through their wraparounds.
NoDrift ==
  /\ prompt.clock.lastVirtual < MaxTick =>
       /\ prompt.clock.lastVirtual * Unit <= ideal
       /\ ideal - prompt.clock.lastVirtual * Unit <= (2 * applies + 2) * (Unit - 1)
  /\ LET t == Millis(session)
     IN  t.tick64 < MaxTick =>
           /\ (t.tick32 - Tick64) % Width = (t.tick64 - Tick64) % Width
           /\ (t.winmm - Winmm) % Width = (t.tick64 - Tick64) % Width

=============================================================================
