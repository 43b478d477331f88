--------------------------- MODULE CommandPoolProofs ---------------------------
(***************************************************************************)
(* Theorems about CommandPool, for any sets of callers, stoppers and       *)
(* workers and any capacity.  They use no fairness.                        *)
(***************************************************************************)
EXTENDS CommandPool, SequenceTheorems, FiniteSetTheorems, TLAPS

\* Callers and stoppers keep to their own labels.
Roles ==
  /\ \A c \in Callers : pc[c] \in {"idle", "lock", "sending", "waiting"}
  /\ \A s \in Stoppers : pc[s] \in {"idle", "lock", "inner", "sendStops", "join", "joined"}

Winner(s) == pc[s] \in {"inner", "sendStops", "join", "joined"}

\* A caller that got past the flag holds submit_lock, so nobody can raise the
\* flag before its command is queued.
SendersFirst == \A c \in Callers : pc[c] = "sending" => submitOwner = c /\ ~stopping

\* Only the one stopper that raised the flag goes on, and only then are there
\* Stops in the queue.
OneWinner ==
  /\ \A s, t \in Stoppers : Winner(s) /\ Winner(t) => s = t
  /\ \A s \in Stoppers : Winner(s) => stopping
  /\ \A s \in Stoppers : pc[s] = "inner" => innerDowns = 0
  /\ innerDowns # 0 => stopping /\ innerDowns = 1

\* Only a worker that has taken a command and not answered it holds one.
Holding == \A w \in Workers : wstate[w] \notin {"got", "running"} => job[w] = Nobody

StopsMeanStopping == \A i \in DOMAIN queue : queue[i] = Stop => stopping

\* The inductive invariant behind the safety properties.
IInv ==
  /\ TypeOK
  /\ Roles
  /\ SendersFirst
  /\ OneWinner
  /\ Holding
  /\ StopsMeanStopping
  /\ StopsBehindWork
  /\ NoLostCaller

LEMMA AppendFacts ==
  ASSUME NEW S, NEW q \in Seq(S), NEW e \in S
  PROVE  /\ Append(q, e) \in Seq(S)
         /\ Len(Append(q, e)) = Len(q) + 1
         /\ DOMAIN Append(q, e) = 1 .. Len(q) + 1
         /\ \A i \in 1 .. Len(q) : Append(q, e)[i] = q[i]
         /\ Append(q, e)[Len(q) + 1] = e
OBVIOUS

LEMMA TailFacts ==
  ASSUME NEW S, NEW q \in Seq(S), q # <<>>
  PROVE  /\ Len(q) \in Nat /\ Len(q) > 0
         /\ Head(q) \in S /\ Head(q) = q[1]
         /\ Tail(q) \in Seq(S)
         /\ Len(Tail(q)) = Len(q) - 1
         /\ DOMAIN Tail(q) = 1 .. Len(q) - 1
         /\ \A i \in 1 .. Len(q) - 1 : Tail(q)[i] = q[i + 1]
<1>1. Len(q) \in Nat /\ Len(q) > 0
  BY EmptySeq
<1>. QED
  BY <1>1

LEMMA EmptyFits == << >> \in Seq(Callers \cup {Stop}) /\ Len(<< >>) <= Capacity
BY PoolAssumption, EmptySeq

LEMMA RoomForOne ==
  ASSUME NEW q \in Seq(Callers \cup {Stop}), Len(q) < Capacity, NEW e \in Callers \cup {Stop}
  PROVE  Append(q, e) \in Seq(Callers \cup {Stop}) /\ Len(Append(q, e)) <= Capacity
BY AppendFacts, PoolAssumption

LEMMA TypeStep == IInv /\ [Next]_vars => TypeOK'
<1> SUFFICES ASSUME IInv, [Next]_vars PROVE TypeOK'
  OBVIOUS
<1> USE PoolAssumption DEF IInv, workerVars, TypeOK
<1>1. ASSUME NEW c \in Callers, Call(c) PROVE TypeOK'
  BY <1>1 DEF Call
<1>2. ASSUME NEW c \in Callers, LockSubmit(c) PROVE TypeOK'
  <2>1. /\ pc' = [pc EXCEPT ![c] = pc'[c]] /\ pc'[c] \in {"sending", "waiting"}
        /\ pc'[c] = "sending" => submitOwner' = c
        /\ submitOwner' = c => pc'[c] = "sending"
        /\ submitOwner' \in {c, Nobody}
    BY <1>2 DEF LockSubmit
  <2>2. reply' \in [Callers -> {"none", "ok", "error"}]
    BY <1>2 DEF LockSubmit
  <2>3. submitOwner' \in {Nobody} \cup {d \in Callers : pc'[d] = "sending"}
    BY <2>1
  <2>4. pc' \in [Callers \cup Stoppers ->
                   {"idle", "lock", "sending", "waiting", "inner", "sendStops", "join", "joined"}]
    BY <1>2, <2>1 DEF LockSubmit
  <2>5. UNCHANGED <<queue, receiverOwner, wstate, job, stopping, innerDowns, stopsLeft>>
    BY <1>2 DEF LockSubmit
  <2>. QED
    BY <2>2, <2>3, <2>4, <2>5
<1>3. ASSUME NEW c \in Callers, Send(c) PROVE TypeOK'
  <2>1. \/ queue' = queue
        \/ queue' = Append(queue, c) /\ Len(queue) < Capacity
    BY <1>3 DEF Send, HasRoom
  <2>2. queue' \in Seq(Callers \cup {Stop}) /\ Len(queue') <= Capacity
    <3>1. c \in Callers \cup {Stop}
      OBVIOUS
    <3>2. CASE queue' = queue
      BY <3>2
    <3>3. CASE queue' = Append(queue, c) /\ Len(queue) < Capacity
      BY <3>1, <3>3, RoomForOne
    <3>. QED
      BY <2>1, <3>2, <3>3
  <2>3. reply' \in [Callers -> {"none", "ok", "error"}]
    BY <1>3 DEF Send
  <2>. QED
    BY <1>3, <2>2, <2>3 DEF Send
<1>4. ASSUME NEW c \in Callers, Return(c) PROVE TypeOK'
  BY <1>4 DEF Return
<1>5. ASSUME NEW w \in Workers, LockReceiver(w) PROVE TypeOK'
  BY <1>5 DEF LockReceiver
<1>6. ASSUME NEW w \in Workers, ReceiveWork(w) PROVE TypeOK'
  <2>1. queue' \in Seq(Callers \cup {Stop}) /\ Len(queue') <= Capacity
    BY <1>6, TailFacts DEF ReceiveWork
  <2>2. Head(queue) \in Callers
    BY <1>6, TailFacts DEF ReceiveWork
  <2>. QED
    BY <1>6, <2>1, <2>2 DEF ReceiveWork
<1>7. ASSUME NEW w \in Workers, ReceiveStop(w) PROVE TypeOK'
  <2>1. Tail(queue) \in Seq(Callers \cup {Stop}) /\ Len(Tail(queue)) <= Capacity
    BY <1>7, TailFacts DEF ReceiveStop
  <2>2. queue' \in Seq(Callers \cup {Stop}) /\ Len(queue') <= Capacity
    BY <1>7, <2>1, EmptyFits DEF ReceiveStop, LeaveLoop
  <2>3. reply' \in [Callers -> {"none", "ok", "error"}]
    BY <1>7 DEF ReceiveStop, LeaveLoop
  <2>4. job' \in [Workers -> Callers \cup {Nobody}]
    BY <1>7 DEF ReceiveStop, LeaveLoop
  <2>. QED
    BY <1>7, <2>2, <2>3, <2>4 DEF ReceiveStop, LeaveLoop
<1>8. ASSUME NEW w \in Workers, CheckStopping(w) PROVE TypeOK'
  <2>1. CASE stopping
    BY <1>8, <2>1 DEF CheckStopping, Answer
  <2>2. CASE ~stopping
    BY <1>8, <2>2 DEF CheckStopping
  <2>. QED
    BY <2>1, <2>2
<1>9. ASSUME NEW w \in Workers, Finish(w) PROVE TypeOK'
  BY <1>9 DEF Finish, Answer
<1>10. ASSUME NEW w \in Workers, Panic(w) PROVE TypeOK'
  <2>1. queue' \in Seq(Callers \cup {Stop}) /\ Len(queue') <= Capacity
    BY <1>10, EmptyFits DEF Panic, LeaveLoop
  <2>2. reply' \in [Callers -> {"none", "ok", "error"}]
    BY <1>10 DEF Panic, LeaveLoop
  <2>3. job' \in [Workers -> Callers \cup {Nobody}]
    BY <1>10 DEF Panic, LeaveLoop
  <2>. QED
    BY <1>10, <2>1, <2>2, <2>3 DEF Panic, LeaveLoop
<1>11. ASSUME NEW s \in Stoppers, CallShutdown(s) PROVE TypeOK'
  BY <1>11 DEF CallShutdown
<1>12. ASSUME NEW s \in Stoppers, SwapStopping(s) PROVE TypeOK'
  BY <1>12 DEF SwapStopping
<1>13. ASSUME NEW s \in Stoppers, InnerShutdown(s) PROVE TypeOK'
  BY <1>13, FS_CardinalityType DEF InnerShutdown, StopCount
<1>14. ASSUME NEW s \in Stoppers, SendStop(s) PROVE TypeOK'
  <2>1. queue' \in Seq(Callers \cup {Stop}) /\ Len(queue') <= Capacity
    BY <1>14, RoomForOne DEF SendStop, HasRoom
  <2>. QED
    BY <1>14, <2>1 DEF SendStop
<1>15. ASSUME NEW s \in Stoppers, StopsSent(s) PROVE TypeOK'
  BY <1>15 DEF StopsSent
<1>16. ASSUME NEW s \in Stoppers, Join(s) PROVE TypeOK'
  BY <1>16 DEF Join
<1>17. CASE UNCHANGED vars
  BY <1>17 DEF vars
<1>. QED
  BY <1>1, <1>2, <1>3, <1>4, <1>5, <1>6, <1>7, <1>8, <1>9,
     <1>10, <1>11, <1>12, <1>13, <1>14, <1>15, <1>16, <1>17
     DEF Next, CallerStep, WorkerStep, StopperStep

LEMMA ControlStep == IInv /\ [Next]_vars => (Roles /\ SendersFirst /\ OneWinner)'
<1> SUFFICES ASSUME IInv, [Next]_vars PROVE (Roles /\ SendersFirst /\ OneWinner)'
  OBVIOUS
<1> USE PoolAssumption DEF IInv, workerVars, TypeOK, Roles, SendersFirst, OneWinner, Winner
<1>1. ASSUME NEW c \in Callers, Call(c) PROVE (Roles /\ SendersFirst /\ OneWinner)'
  BY <1>1 DEF Call
<1>2. ASSUME NEW c \in Callers, LockSubmit(c) PROVE (Roles /\ SendersFirst /\ OneWinner)'
  <2>1. /\ c \notin Stoppers
        /\ pc' = [pc EXCEPT ![c] = pc'[c]] /\ pc'[c] \in {"sending", "waiting"}
        /\ pc'[c] = "sending" => ~stopping /\ submitOwner' = c
        /\ stopping' = stopping /\ innerDowns' = innerDowns
    BY <1>2 DEF LockSubmit
  <2>2. \A d \in Callers : pc[d] # "sending"
    BY <1>2 DEF LockSubmit
  <2>. QED
    BY <2>1, <2>2
<1>3. ASSUME NEW c \in Callers, Send(c) PROVE (Roles /\ SendersFirst /\ OneWinner)'
  BY <1>3 DEF Send, HasRoom
<1>4. ASSUME NEW c \in Callers, Return(c) PROVE (Roles /\ SendersFirst /\ OneWinner)'
  BY <1>4 DEF Return
<1>5. ASSUME NEW w \in Workers, LockReceiver(w) PROVE (Roles /\ SendersFirst /\ OneWinner)'
  BY <1>5 DEF LockReceiver
<1>6. ASSUME NEW w \in Workers, ReceiveWork(w) PROVE (Roles /\ SendersFirst /\ OneWinner)'
  BY <1>6 DEF ReceiveWork
<1>7. ASSUME NEW w \in Workers, ReceiveStop(w) PROVE (Roles /\ SendersFirst /\ OneWinner)'
  BY <1>7 DEF ReceiveStop, LeaveLoop
<1>8. ASSUME NEW w \in Workers, CheckStopping(w) PROVE (Roles /\ SendersFirst /\ OneWinner)'
  BY <1>8 DEF CheckStopping, Answer
<1>9. ASSUME NEW w \in Workers, Finish(w) PROVE (Roles /\ SendersFirst /\ OneWinner)'
  BY <1>9 DEF Finish, Answer
<1>10. ASSUME NEW w \in Workers, Panic(w) PROVE (Roles /\ SendersFirst /\ OneWinner)'
  BY <1>10 DEF Panic, LeaveLoop
<1>11. ASSUME NEW s \in Stoppers, CallShutdown(s) PROVE (Roles /\ SendersFirst /\ OneWinner)'
  BY <1>11 DEF CallShutdown
<1>12. ASSUME NEW s \in Stoppers, SwapStopping(s) PROVE (Roles /\ SendersFirst /\ OneWinner)'
  BY <1>12 DEF SwapStopping
<1>13. ASSUME NEW s \in Stoppers, InnerShutdown(s) PROVE (Roles /\ SendersFirst /\ OneWinner)'
  BY <1>13 DEF InnerShutdown, StopCount
<1>14. ASSUME NEW s \in Stoppers, SendStop(s) PROVE (Roles /\ SendersFirst /\ OneWinner)'
  BY <1>14 DEF SendStop, HasRoom
<1>15. ASSUME NEW s \in Stoppers, StopsSent(s) PROVE (Roles /\ SendersFirst /\ OneWinner)'
  BY <1>15 DEF StopsSent
<1>16. ASSUME NEW s \in Stoppers, Join(s) PROVE (Roles /\ SendersFirst /\ OneWinner)'
  BY <1>16 DEF Join
<1>17. CASE UNCHANGED vars
  BY <1>17 DEF vars
<1>. QED
  BY <1>1, <1>2, <1>3, <1>4, <1>5, <1>6, <1>7, <1>8, <1>9,
     <1>10, <1>11, <1>12, <1>13, <1>14, <1>15, <1>16, <1>17
     DEF Next, CallerStep, WorkerStep, StopperStep

LEMMA QueueStep == IInv /\ [Next]_vars => (StopsMeanStopping /\ StopsBehindWork)'
<1> SUFFICES ASSUME IInv, [Next]_vars PROVE (StopsMeanStopping /\ StopsBehindWork)'
  OBVIOUS
<1> USE PoolAssumption DEF IInv, workerVars, StopsMeanStopping, StopsBehindWork
<1>1. ASSUME NEW c \in Callers, Call(c) PROVE (StopsMeanStopping /\ StopsBehindWork)'
  BY <1>1 DEF Call
<1>2. ASSUME NEW c \in Callers, LockSubmit(c) PROVE (StopsMeanStopping /\ StopsBehindWork)'
  BY <1>2 DEF LockSubmit
<1>3. ASSUME NEW c \in Callers, Send(c) PROVE (StopsMeanStopping /\ StopsBehindWork)'
  <2>1. CASE queue' = queue
    BY <1>3, <2>1 DEF Send
  <2>2. CASE queue' = Append(queue, c)
    <3>. c \in Callers \cup {Stop}
      OBVIOUS
    <3>1. ~stopping
      BY <1>3 DEF Send, SendersFirst
    <3>2. \A i \in DOMAIN queue : queue[i] # Stop
      BY <3>1
    <3>3. \A i \in DOMAIN queue' : queue'[i] # Stop
      BY <2>2, <3>2, AppendFacts DEF TypeOK
    <3>. QED
      BY <3>3
  <2>. QED
    BY <1>3, <2>1, <2>2 DEF Send
<1>4. ASSUME NEW c \in Callers, Return(c) PROVE (StopsMeanStopping /\ StopsBehindWork)'
  BY <1>4 DEF Return
<1>5. ASSUME NEW w \in Workers, LockReceiver(w) PROVE (StopsMeanStopping /\ StopsBehindWork)'
  BY <1>5 DEF LockReceiver
<1>6. ASSUME NEW w \in Workers, ReceiveWork(w) PROVE (StopsMeanStopping /\ StopsBehindWork)'
  BY <1>6, TailFacts DEF ReceiveWork, TypeOK
<1>7. ASSUME NEW w \in Workers, ReceiveStop(w) PROVE (StopsMeanStopping /\ StopsBehindWork)'
  <2>1. \/ DOMAIN queue' = {}
        \/ queue' = Tail(queue)
    BY <1>7 DEF ReceiveStop, LeaveLoop
  <2>2. CASE queue' = Tail(queue)
    <3>1. \A i \in DOMAIN queue' : i \in Nat /\ i + 1 \in DOMAIN queue /\ queue'[i] = queue[i + 1]
      BY <1>7, <2>2, TailFacts DEF ReceiveStop, TypeOK
    <3>2. \A i \in DOMAIN queue' : queue'[i] = Stop => stopping'
      BY <1>7, <3>1 DEF ReceiveStop
    <3>3. \A i, j \in DOMAIN queue' : i < j /\ queue'[i] = Stop => queue'[j] = Stop
      BY <3>1
    <3>. QED
      BY <3>2, <3>3
  <2>. QED
    BY <2>1, <2>2
<1>8. ASSUME NEW w \in Workers, CheckStopping(w) PROVE (StopsMeanStopping /\ StopsBehindWork)'
  BY <1>8 DEF CheckStopping, Answer
<1>9. ASSUME NEW w \in Workers, Finish(w) PROVE (StopsMeanStopping /\ StopsBehindWork)'
  BY <1>9 DEF Finish, Answer
<1>10. ASSUME NEW w \in Workers, Panic(w) PROVE (StopsMeanStopping /\ StopsBehindWork)'
  <2>1. DOMAIN queue' = {} \/ queue' = queue
    BY <1>10 DEF Panic, LeaveLoop
  <2>. QED
    BY <1>10, <2>1 DEF Panic
<1>11. ASSUME NEW s \in Stoppers, CallShutdown(s) PROVE (StopsMeanStopping /\ StopsBehindWork)'
  BY <1>11 DEF CallShutdown
<1>12. ASSUME NEW s \in Stoppers, SwapStopping(s) PROVE (StopsMeanStopping /\ StopsBehindWork)'
  BY <1>12 DEF SwapStopping
<1>13. ASSUME NEW s \in Stoppers, InnerShutdown(s) PROVE (StopsMeanStopping /\ StopsBehindWork)'
  BY <1>13 DEF InnerShutdown
<1>14. ASSUME NEW s \in Stoppers, SendStop(s) PROVE (StopsMeanStopping /\ StopsBehindWork)'
  <2>1. stopping' /\ queue' = Append(queue, Stop)
    BY <1>14 DEF SendStop, OneWinner, Winner
  <2>3. DOMAIN queue = 1 .. Len(queue) /\ DOMAIN queue' = 1 .. Len(queue) + 1
    BY <2>1, AppendFacts DEF TypeOK
  <2>4. \A i \in 1 .. Len(queue) : queue'[i] = queue[i]
    BY <2>1, AppendFacts DEF TypeOK
  <2>5. queue'[Len(queue) + 1] = Stop /\ Len(queue) \in Nat
    BY <2>1, AppendFacts DEF TypeOK
  <2>. QED
    BY <2>1, <2>3, <2>4, <2>5
<1>15. ASSUME NEW s \in Stoppers, StopsSent(s) PROVE (StopsMeanStopping /\ StopsBehindWork)'
  BY <1>15 DEF StopsSent
<1>16. ASSUME NEW s \in Stoppers, Join(s) PROVE (StopsMeanStopping /\ StopsBehindWork)'
  BY <1>16 DEF Join
<1>17. CASE UNCHANGED vars
  BY <1>17 DEF vars
<1>. QED
  BY <1>1, <1>2, <1>3, <1>4, <1>5, <1>6, <1>7, <1>8, <1>9,
     <1>10, <1>11, <1>12, <1>13, <1>14, <1>15, <1>16, <1>17
     DEF Next, CallerStep, WorkerStep, StopperStep

LEMMA HoldingStep == IInv /\ [Next]_vars => Holding'
<1> SUFFICES ASSUME IInv, [Next]_vars PROVE Holding'
  OBVIOUS
<1> USE PoolAssumption DEF IInv, workerVars, Holding, TypeOK
<1>1. ASSUME NEW c \in Callers, Call(c) PROVE Holding'
  BY <1>1 DEF Call
<1>2. ASSUME NEW c \in Callers, LockSubmit(c) PROVE Holding'
  BY <1>2 DEF LockSubmit
<1>3. ASSUME NEW c \in Callers, Send(c) PROVE Holding'
  BY <1>3 DEF Send
<1>4. ASSUME NEW c \in Callers, Return(c) PROVE Holding'
  BY <1>4 DEF Return
<1>5. ASSUME NEW w \in Workers, LockReceiver(w) PROVE Holding'
  BY <1>5 DEF LockReceiver
<1>6. ASSUME NEW w \in Workers, ReceiveWork(w) PROVE Holding'
  BY <1>6 DEF ReceiveWork
<1>7. ASSUME NEW w \in Workers, ReceiveStop(w) PROVE Holding'
  BY <1>7 DEF ReceiveStop, LeaveLoop
<1>8. ASSUME NEW w \in Workers, CheckStopping(w) PROVE Holding'
  BY <1>8 DEF CheckStopping, Answer
<1>9. ASSUME NEW w \in Workers, Finish(w) PROVE Holding'
  BY <1>9 DEF Finish, Answer
<1>10. ASSUME NEW w \in Workers, Panic(w) PROVE Holding'
  BY <1>10 DEF Panic, LeaveLoop
<1>11. ASSUME NEW s \in Stoppers, CallShutdown(s) PROVE Holding'
  BY <1>11 DEF CallShutdown
<1>12. ASSUME NEW s \in Stoppers, SwapStopping(s) PROVE Holding'
  BY <1>12 DEF SwapStopping
<1>13. ASSUME NEW s \in Stoppers, InnerShutdown(s) PROVE Holding'
  BY <1>13 DEF InnerShutdown
<1>14. ASSUME NEW s \in Stoppers, SendStop(s) PROVE Holding'
  BY <1>14 DEF SendStop
<1>15. ASSUME NEW s \in Stoppers, StopsSent(s) PROVE Holding'
  BY <1>15 DEF StopsSent
<1>16. ASSUME NEW s \in Stoppers, Join(s) PROVE Holding'
  BY <1>16 DEF Join
<1>17. CASE UNCHANGED vars
  BY <1>17 DEF vars
<1>. QED
  BY <1>1, <1>2, <1>3, <1>4, <1>5, <1>6, <1>7, <1>8, <1>9,
     <1>10, <1>11, <1>12, <1>13, <1>14, <1>15, <1>16, <1>17
     DEF Next, CallerStep, WorkerStep, StopperStep

\* Somebody still knows of the caller's command.
Known(c) ==
  \/ \E i \in DOMAIN queue : queue[i] = c
  \/ \E w \in Workers : job[w] = c

LEMMA CallersStep == IInv /\ [Next]_vars => NoLostCaller'
<1> SUFFICES ASSUME IInv, [Next]_vars, NEW d \in Callers, pc'[d] = "waiting", reply'[d] = "none"
             PROVE  Known(d)'
  BY DEF NoLostCaller, Known
<1> USE PoolAssumption DEF IInv, workerVars, TypeOK
<1>0. pc[d] = "waiting" /\ reply[d] = "none" => Known(d)
  BY DEF NoLostCaller, Known
<1>1. ASSUME NEW c \in Callers, Call(c) PROVE Known(d)'
  BY <1>0, <1>1 DEF Call, Known
<1>2. ASSUME NEW c \in Callers, LockSubmit(c) PROVE Known(d)'
  <2>1. Known(d)
    BY <1>0, <1>2 DEF LockSubmit
  <2>. QED
    BY <1>0, <1>2, <2>1 DEF LockSubmit, Known
<1>3. ASSUME NEW c \in Callers, Send(c) PROVE Known(d)'
  <2>1. CASE d = c
    <3>1. queue' = Append(queue, c) /\ c \in Callers \cup {Stop}
      BY <1>0, <1>3, <2>1 DEF Send
    <3>2. Len(queue) + 1 \in DOMAIN queue' /\ queue'[Len(queue) + 1] = c
      BY <3>1, AppendFacts
    <3>. QED
      BY <2>1, <3>2 DEF Known
  <2>2. CASE d # c
    <3>1. Known(d)
      BY <1>0, <1>3, <2>2 DEF Send
    <3>2. \/ queue' = queue
          \/ queue' = Append(queue, c) /\ c \in Callers \cup {Stop}
      BY <1>0, <1>3 DEF Send
    <3>. QED
      BY <1>0, <1>3, <3>1, <3>2, AppendFacts, SMTT(30) DEF Send, Known
  <2>. QED
    BY <2>1, <2>2
<1>4. ASSUME NEW c \in Callers, Return(c) PROVE Known(d)'
  BY <1>0, <1>4 DEF Return, Known
<1>5. ASSUME NEW w \in Workers, LockReceiver(w) PROVE Known(d)'
  BY <1>0, <1>5 DEF LockReceiver, Known
<1>6. ASSUME NEW w \in Workers, ReceiveWork(w) PROVE Known(d)'
  <2>1. Known(d) /\ job[w] = Nobody
    BY <1>0, <1>6 DEF ReceiveWork, Holding
  <2>2. CASE \E v \in Workers : job[v] = d
    BY <1>0, <1>6, <2>1, <2>2 DEF ReceiveWork, Known
  <2>3. CASE \E i \in DOMAIN queue : queue[i] = d
    <3>1. PICK i \in DOMAIN queue : queue[i] = d
      BY <2>3
    <3>2. CASE i = 1
      BY <1>0, <1>6, <3>1, <3>2, TailFacts DEF ReceiveWork, Known
    <3>3. CASE i # 1
      <4>1. i - 1 \in DOMAIN Tail(queue) /\ Tail(queue)[i - 1] = d
        BY <1>0, <1>6, <3>1, <3>3, TailFacts DEF ReceiveWork
      <4>. QED
        BY <1>0, <1>6, <4>1 DEF ReceiveWork, Known
    <3>. QED
      BY <3>2, <3>3
  <2>. QED
    BY <2>1, <2>2, <2>3 DEF Known
<1>7. ASSUME NEW w \in Workers, ReceiveStop(w) PROVE Known(d)'
  <2>1. Known(d) /\ job[w] = Nobody
    BY <1>0, <1>7 DEF ReceiveStop, LeaveLoop, Holding
  <2>2. \A i \in DOMAIN queue : queue[i] = d => \E k \in DOMAIN Tail(queue) : Tail(queue)[k] = d
    <3>. SUFFICES ASSUME NEW i \in DOMAIN queue, queue[i] = d
                  PROVE  i - 1 \in DOMAIN Tail(queue) /\ Tail(queue)[i - 1] = d
      OBVIOUS
    <3>1. i # 1
      BY <1>0, <1>7, TailFacts DEF ReceiveStop
    <3>. QED
      BY <1>0, <1>7, <3>1, TailFacts DEF ReceiveStop
  <2>3. CASE \A v \in Workers \ {w} : Gone(v)
    <3>1. \A v \in Workers : job[v] = Nobody
      BY <2>1, <2>3 DEF Gone, Holding
    <3>2. \A k \in DOMAIN Tail(queue) : Tail(queue)[k] # d
      BY <1>0, <1>7, <2>3 DEF ReceiveStop, LeaveLoop
    <3>. QED
      BY <2>1, <2>2, <3>1, <3>2 DEF Known
  <2>4. CASE ~ \A v \in Workers \ {w} : Gone(v)
    <3>1. queue' = Tail(queue) /\ job' = [job EXCEPT ![w] = Nobody]
      BY <1>0, <1>7, <2>4 DEF ReceiveStop, LeaveLoop
    <3>. QED
      BY <2>1, <2>2, <3>1 DEF Known
  <2>. QED
    BY <2>3, <2>4
<1>8. ASSUME NEW w \in Workers, CheckStopping(w) PROVE Known(d)'
  <2>1. Known(d) /\ ~(stopping /\ job[w] = d)
    BY <1>0, <1>8 DEF CheckStopping, Answer
  <2>. QED
    BY <1>0, <1>8, <2>1 DEF CheckStopping, Answer, Known
<1>9. ASSUME NEW w \in Workers, Finish(w) PROVE Known(d)'
  <2>1. Known(d) /\ job[w] # d
    BY <1>0, <1>9 DEF Finish, Answer
  <2>. QED
    BY <1>0, <1>9, <2>1 DEF Finish, Answer, Known
<1>10. ASSUME NEW w \in Workers, Panic(w) PROVE Known(d)'
  <2>1. CASE \A v \in Workers \ {w} : Gone(v)
    <3>1. \A i \in DOMAIN queue : queue[i] # d
      BY <1>0, <1>10, <2>1 DEF Panic, LeaveLoop
    <3>2. reply[d] = "none" /\ job[w] # d
      BY <1>0, <1>10, <2>1, <3>1 DEF Panic, LeaveLoop
    <3>3. Known(d)
      BY <1>0, <1>10, <3>2 DEF Panic
    <3>4. \A v \in Workers : v # w => job[v] = Nobody
      BY <2>1 DEF Gone, Holding
    <3>. QED
      BY <3>1, <3>2, <3>3, <3>4 DEF Known
  <2>2. CASE ~ \A v \in Workers \ {w} : Gone(v)
    <3>1. queue' = queue /\ job' = [job EXCEPT ![w] = Nobody] /\ reply' = [reply EXCEPT ![job[w]] = "error"]
      BY <1>0, <1>10, <2>2 DEF Panic, LeaveLoop
    <3>2. Known(d) /\ job[w] # d
      BY <1>0, <1>10, <3>1 DEF Panic
    <3>. QED
      BY <3>1, <3>2 DEF Known
  <2>. QED
    BY <2>1, <2>2
<1>11. ASSUME NEW s \in Stoppers, CallShutdown(s) PROVE Known(d)'
  BY <1>0, <1>11 DEF CallShutdown, Known
<1>12. ASSUME NEW s \in Stoppers, SwapStopping(s) PROVE Known(d)'
  BY <1>0, <1>12 DEF SwapStopping, Known
<1>13. ASSUME NEW s \in Stoppers, InnerShutdown(s) PROVE Known(d)'
  BY <1>0, <1>13 DEF InnerShutdown, Known
<1>14. ASSUME NEW s \in Stoppers, SendStop(s) PROVE Known(d)'
  <2>1. Known(d)
    BY <1>0, <1>14 DEF SendStop
  <2>2. \A i \in DOMAIN queue : i \in DOMAIN queue' /\ queue'[i] = queue[i]
    <3>1. queue' = Append(queue, Stop) /\ queue \in Seq(Callers \cup {Stop})
      BY <1>14 DEF SendStop
    <3>. QED
      BY <3>1, AppendFacts
  <2>. QED
    BY <1>14, <2>1, <2>2 DEF SendStop, Known
<1>15. ASSUME NEW s \in Stoppers, StopsSent(s) PROVE Known(d)'
  BY <1>0, <1>15 DEF StopsSent, Known
<1>16. ASSUME NEW s \in Stoppers, Join(s) PROVE Known(d)'
  BY <1>0, <1>16 DEF Join, Known
<1>17. CASE UNCHANGED vars
  BY <1>0, <1>17 DEF vars, Known
<1>. QED
  BY <1>0, <1>1, <1>2, <1>3, <1>4, <1>5, <1>6, <1>7, <1>8, <1>9,
     <1>10, <1>11, <1>12, <1>13, <1>14, <1>15, <1>16, <1>17
     DEF Next, CallerStep, WorkerStep, StopperStep

LEMMA InitIInv == Init => IInv
<1> SUFFICES ASSUME Init PROVE IInv
  OBVIOUS
<1> USE PoolAssumption DEF Init
<1>1. TypeOK
  BY EmptyFits DEF TypeOK
<1>2. Roles /\ SendersFirst /\ Holding /\ NoLostCaller
  BY DEF Roles, SendersFirst, Holding, NoLostCaller
<1>3. OneWinner
  BY DEF OneWinner, Winner
<1>4. StopsMeanStopping /\ StopsBehindWork
  <2>1. DOMAIN queue = {}
    OBVIOUS
  <2>. QED
    BY <2>1 DEF StopsMeanStopping, StopsBehindWork
<1>. QED
  BY <1>1, <1>2, <1>3, <1>4 DEF IInv

LEMMA StepIInv == IInv /\ [Next]_vars => IInv'
BY TypeStep, ControlStep, QueueStep, HoldingStep, CallersStep DEF IInv

LEMMA Invariance == Spec => []IInv
BY InitIInv, StepIInv, PTL DEF Spec

\* The queue keeps within queue_capacity and both mutexes exclude, whatever the
\* numbers of callers, stoppers and workers.
THEOREM TypeCorrect == Spec => []TypeOK
<1>1. IInv => TypeOK
  BY DEF IInv
<1>. QED
  BY <1>1, Invariance, PTL

\* submit_lock puts every accepted command ahead of every Stop, so a worker that
\* meets a Stop leaves no accepted command behind it in the queue.
THEOREM StopsBehindWorkAlways == Spec => []StopsBehindWork
<1>1. IInv => StopsBehindWork
  BY DEF IInv
<1>. QED
  BY <1>1, Invariance, PTL

\* execute() never waits for an answer that nobody can give any more: its command
\* is queued or held by a live worker, or its response channel has an outcome,
\* also when commands panic and the last worker drops the receiver.
THEOREM NoLostCallerAlways == Spec => []NoLostCaller
<1>1. IInv => NoLostCaller
  BY DEF IInv
<1>. QED
  BY <1>1, Invariance, PTL

\* The inner executor is shut down at most once by any number of threads.
THEOREM InnerShutdownOnceAlways == Spec => []InnerShutdownOnce
<1>1. IInv => InnerShutdownOnce
  BY DEF IInv, TypeOK, OneWinner, InnerShutdownOnce
<1>. QED
  BY <1>1, Invariance, PTL

\* A command has one token: its place in the queue, or the worker that holds it; who has
\* an answer, or has not sent yet, has none.
Pending(c) == pc[c] = "waiting" /\ reply[c] = "none"

Tokens ==
  /\ \A c \in Callers : reply[c] # "none" => pc[c] = "waiting"
  /\ \A w \in Workers :
       /\ wstate[w] \in {"got", "running"} => job[w] \in Callers
       /\ job[w] \in Callers =>
            /\ Pending(job[w])
            /\ \A v \in Workers \ {w} : job[v] # job[w]
            /\ \A i \in DOMAIN queue : queue[i] # job[w]
       /\ wstate[w] = "exited" => stopping
  /\ \A i \in DOMAIN queue : queue[i] \in Callers =>
       Pending(queue[i]) /\ \A j \in DOMAIN queue : j # i => queue[j] # queue[i]

LEMMA TokensStep == IInv /\ Tokens /\ [Next]_vars => Tokens'
<1> SUFFICES ASSUME IInv, Tokens, [Next]_vars PROVE Tokens'
  OBVIOUS
<1> USE PoolAssumption DEF IInv, workerVars, TypeOK, Roles, Tokens, Pending
<1>1. ASSUME NEW c \in Callers, Call(c) PROVE Tokens'
  BY <1>1 DEF Call
<1>2. ASSUME NEW c \in Callers, LockSubmit(c) PROVE Tokens'
  <2>1. /\ pc[c] = "lock" /\ UNCHANGED <<queue, wstate, job, stopping>>
        /\ \A d \in Callers \ {c} : pc'[d] = pc[d] /\ reply'[d] = reply[d]
        /\ reply'[c] = reply[c] \/ pc'[c] = "waiting"
    BY <1>2 DEF LockSubmit
  <2>2. /\ reply[c] = "none"
        /\ \A w \in Workers : job[w] # c
        /\ \A i \in DOMAIN queue : queue[i] # c
    BY <2>1
  <2>3. \A d \in Callers : Pending(d) => Pending(d)'
    BY <2>1
  <2>. QED
    BY <2>1, <2>2, <2>3
<1>3. ASSUME NEW c \in Callers, Send(c) PROVE Tokens'
  <2>1. /\ pc[c] = "sending" /\ UNCHANGED <<wstate, job, stopping>>
        /\ pc' = [pc EXCEPT ![c] = "waiting"]
    BY <1>3 DEF Send
  <2>2. /\ reply[c] = "none"
        /\ \A w \in Workers : job[w] # c
        /\ \A i \in DOMAIN queue : queue[i] # c
    BY <2>1
  <2>3. CASE queue' = queue /\ reply' = [reply EXCEPT ![c] = "error"]
    BY <2>1, <2>2, <2>3
  <2>4. CASE queue' = Append(queue, c) /\ reply' = reply
    <3>. c \in Callers \cup {Stop}
      OBVIOUS
    <3>1. /\ DOMAIN queue = 1 .. Len(queue) /\ Len(queue) \in Nat
          /\ DOMAIN queue' = 1 .. Len(queue) + 1
          /\ \A i \in 1 .. Len(queue) : queue'[i] = queue[i]
          /\ queue'[Len(queue) + 1] = c
      BY <2>4, AppendFacts
    <3>2. \A i \in DOMAIN queue' : i \in DOMAIN queue \/ i = Len(queue) + 1
      BY <3>1
    <3>3. /\ \A d \in Callers : Pending(d) => Pending(d)'
          /\ Pending(c)'
          /\ \A d \in Callers : reply'[d] # "none" => pc'[d] = "waiting"
      BY <2>1, <2>2, <2>4
    <3>4. ASSUME NEW w \in Workers, job'[w] \in Callers
          PROVE  /\ Pending(job[w])'
                 /\ \A v \in Workers \ {w} : job'[v] # job'[w]
                 /\ \A i \in DOMAIN queue' : queue'[i] # job'[w]
      <4>1. job' = job /\ job[w] \in Callers /\ job[w] # c
        BY <2>1, <2>2, <3>4
      <4>2. /\ Pending(job[w])
            /\ \A v \in Workers \ {w} : job[v] # job[w]
            /\ \A i \in DOMAIN queue : queue[i] # job[w]
        BY <4>1
      <4>3. \A i \in DOMAIN queue' : queue'[i] # job[w]
        BY <3>1, <3>2, <4>1, <4>2
      <4>. QED
        BY <3>3, <4>1, <4>2, <4>3
    <3>5. ASSUME NEW i \in DOMAIN queue', queue'[i] \in Callers
          PROVE  Pending(queue[i])' /\ \A j \in DOMAIN queue' : j # i => queue'[j] # queue'[i]
      <4>1. CASE i = Len(queue) + 1
        BY <2>2, <3>1, <3>2, <3>3, <4>1
      <4>2. CASE i # Len(queue) + 1
        <5>1. i \in DOMAIN queue /\ queue'[i] = queue[i] /\ queue[i] # c
          BY <2>2, <3>1, <3>2, <4>2
        <5>2. Pending(queue[i]) /\ \A j \in DOMAIN queue : j # i => queue[j] # queue[i]
          BY <3>5, <5>1
        <5>3. \A j \in DOMAIN queue' : j # i => queue'[j] # queue[i]
          BY <3>1, <3>2, <5>1, <5>2
        <5>. QED
          BY <3>3, <3>5, <5>1, <5>2, <5>3
      <4>. QED
        BY <4>1, <4>2
    <3>6. \A w \in Workers :
            /\ wstate'[w] \in {"got", "running"} => job'[w] \in Callers
            /\ wstate'[w] = "exited" => stopping'
      BY <2>1
    <3>. QED
      BY <3>3, <3>4, <3>5, <3>6
  <2>. QED
    BY <1>3, <2>3, <2>4 DEF Send
<1>4. ASSUME NEW c \in Callers, Return(c) PROVE Tokens'
  BY <1>4 DEF Return
<1>5. ASSUME NEW w \in Workers, LockReceiver(w) PROVE Tokens'
  BY <1>5 DEF LockReceiver
<1>6. ASSUME NEW w \in Workers, ReceiveWork(w) PROVE Tokens'
  BY <1>6 DEF ReceiveWork
<1>7. ASSUME NEW w \in Workers, ReceiveStop(w) PROVE Tokens'
  <2>1. /\ stopping /\ Tail(queue) \in Seq(Callers \cup {Stop})
        /\ \A i \in DOMAIN Tail(queue) : Tail(queue)[i] = Stop
    <3>1. \A i \in DOMAIN Tail(queue) : i + 1 \in DOMAIN queue /\ i + 1 > 1 /\ Tail(queue)[i] = queue[i + 1]
      BY <1>7, TailFacts DEF ReceiveStop
    <3>2. 1 \in DOMAIN queue /\ queue[1] = Stop
      BY <1>7, TailFacts DEF ReceiveStop
    <3>. QED
      BY <1>7, <3>1, <3>2, TailFacts DEF ReceiveStop, StopsBehindWork, StopsMeanStopping
  <2>2. /\ pc' = pc /\ stopping' = stopping
        /\ wstate' = [wstate EXCEPT ![w] = "exited"] /\ job' = [job EXCEPT ![w] = Nobody]
        /\ \A d \in Callers : reply'[d] = reply[d]
        /\ DOMAIN queue' = {} \/ queue' = Tail(queue)
    BY <1>7, <2>1 DEF ReceiveStop, LeaveLoop
  <2>3. \A i \in DOMAIN queue' : queue'[i] = Stop
    BY <2>1, <2>2
  <2>4. \A d \in Callers : Pending(d)' <=> Pending(d)
    BY <2>2
  <2>. QED
    BY <2>1, <2>2, <2>3, <2>4
<1>8. ASSUME NEW w \in Workers, CheckStopping(w) PROVE Tokens'
  BY <1>8 DEF CheckStopping, Answer
<1>9. ASSUME NEW w \in Workers, Finish(w) PROVE Tokens'
  BY <1>9 DEF Finish, Answer
<1>10. ASSUME NEW w \in Workers, Panic(w) PROVE Tokens'
  BY <1>10, SMTT(30) DEF Panic, LeaveLoop
<1>11. ASSUME NEW s \in Stoppers, CallShutdown(s) PROVE Tokens'
  BY <1>11 DEF CallShutdown
<1>12. ASSUME NEW s \in Stoppers, SwapStopping(s) PROVE Tokens'
  BY <1>12 DEF SwapStopping
<1>13. ASSUME NEW s \in Stoppers, InnerShutdown(s) PROVE Tokens'
  BY <1>13 DEF InnerShutdown
<1>14. ASSUME NEW s \in Stoppers, SendStop(s) PROVE Tokens'
  BY <1>14 DEF SendStop
<1>15. ASSUME NEW s \in Stoppers, StopsSent(s) PROVE Tokens'
  BY <1>15 DEF StopsSent
<1>16. ASSUME NEW s \in Stoppers, Join(s) PROVE Tokens'
  BY <1>16 DEF Join
<1>17. CASE UNCHANGED vars
  BY <1>17 DEF vars
<1>. QED
  BY <1>1, <1>2, <1>3, <1>4, <1>5, <1>6, <1>7, <1>8, <1>9, <1>10, <1>11, <1>12, <1>13, <1>14, <1>15, <1>16, <1>17
     DEF Next, CallerStep, WorkerStep, StopperStep

\* What the service sees of caller c, of all callers, and of the workers.
Runs(c) == \E w \in Workers : job[w] = c /\ wstate[w] = "running"

PhaseOf(c) ==
  CASE pc[c] = "idle" -> "idle"
    [] reply[c] = "ok" -> "served"
    [] reply[c] = "error" -> "refused"
    [] Runs(c) -> "running"
    [] OTHER -> "asked"

Phases == [c \in Callers |-> PhaseOf(c)]

Crashed == \E w \in Workers : wstate[w] = "dead"

\* The cases of PhaseOf exclude each other.
PhaseCases ==
  \A c \in Callers :
    /\ pc[c] = "idle" => PhaseOf(c) = "idle" /\ reply[c] = "none" /\ ~Runs(c)
    /\ reply[c] = "ok" => PhaseOf(c) = "served"
    /\ reply[c] = "error" => PhaseOf(c) = "refused"
    /\ Runs(c) => PhaseOf(c) = "running" /\ Pending(c)
    /\ pc[c] # "idle" /\ reply[c] = "none" /\ ~Runs(c) => PhaseOf(c) = "asked"

LEMMA PhasesExclude == IInv /\ Tokens => PhaseCases
<1> SUFFICES ASSUME IInv, Tokens, NEW c \in Callers
             PROVE  /\ pc[c] = "idle" => PhaseOf(c) = "idle" /\ reply[c] = "none" /\ ~Runs(c)
                    /\ reply[c] = "ok" => PhaseOf(c) = "served"
                    /\ reply[c] = "error" => PhaseOf(c) = "refused"
                    /\ Runs(c) => PhaseOf(c) = "running" /\ Pending(c)
                    /\ pc[c] # "idle" /\ reply[c] = "none" /\ ~Runs(c) => PhaseOf(c) = "asked"
  BY DEF PhaseCases
<1>1. Runs(c) => Pending(c)
  BY DEF Runs, Tokens
<1>2. reply[c] # "none" => pc[c] = "waiting"
  BY DEF Tokens
<1>3. reply[c] \in {"none", "ok", "error"}
  BY DEF IInv, TypeOK
<1>. QED
  BY <1>1, <1>2, <1>3 DEF PhaseOf, Pending

\* A caller nothing happens to keeps its phase.
LEMMA SamePhase ==
  ASSUME PhaseCases, PhaseCases', TypeOK, NEW c \in Callers,
         pc'[c] = "idle" <=> pc[c] = "idle", reply'[c] = reply[c], Runs(c)' <=> Runs(c)
  PROVE  PhaseOf(c)' = PhaseOf(c)
<1>1. reply[c] \in {"none", "ok", "error"}
  BY DEF TypeOK
<1>. QED
  BY <1>1 DEF PhaseCases

\* A step that moves one caller from phase to phase is a step of the service.
LEMMA OneMoves ==
  ASSUME NEW c \in Callers, NEW from, NEW to, PhaseOf(c) = from, PhaseOf(c)' = to,
         \A d \in Callers \ {c} : PhaseOf(d)' = PhaseOf(d)
  PROVE  Service!Move(c, from, to)
<1>1. Phases[c] = from
  BY DEF Phases
<1>2. Phases' = [Phases EXCEPT ![c] = to]
  BY DEF Phases
<1>. QED
  BY <1>1, <1>2 DEF Service!Move, Phases, PhaseOf, Runs

LEMMA NoneMoves ==
  ASSUME \A d \in Callers : PhaseOf(d)' = PhaseOf(d)
  PROVE  Phases' = Phases
BY DEF Phases

LEMMA StepRefines ==
  ASSUME IInv, IInv', Tokens, Tokens', PhaseCases, PhaseCases', [Next]_vars
  PROVE  [Service!Next]_(Service!vars)
<1> USE PoolAssumption DEF workerVars
<1>0. TypeOK /\ TypeOK' /\ Roles
  BY DEF IInv
<1>a. ASSUME \A d \in Callers : PhaseOf(d)' = PhaseOf(d), stopping' = stopping, Crashed' = Crashed
      PROVE  UNCHANGED Service!vars
  BY <1>a, NoneMoves DEF Service!vars, Phases, PhaseOf, Runs, Crashed
\* Nothing happens to any caller, to a running command or to a worker that dies.
<1>b. ASSUME \A d \in Callers : (pc'[d] = "idle" <=> pc[d] = "idle"), reply' = reply,
             \A d \in Callers : Runs(d)' <=> Runs(d), stopping' = stopping, Crashed' = Crashed
      PROVE  UNCHANGED Service!vars
  BY <1>0, <1>a, <1>b, SamePhase
<1>1. ASSUME NEW c \in Callers, Call(c) PROVE Service!Next
  <2>1. pc[c] = "idle" /\ pc' = [pc EXCEPT ![c] = "lock"] /\ UNCHANGED <<reply, wstate, job, stopping>>
    BY <1>1 DEF Call
  <2>2. \A d \in Callers : Runs(d)' <=> Runs(d)
    BY <2>1 DEF Runs
  <2>3. \A d \in Callers \ {c} : PhaseOf(d)' = PhaseOf(d)
    BY <1>0, <2>1, <2>2, SamePhase DEF TypeOK
  <2>4. PhaseOf(c) = "idle" /\ PhaseOf(c)' = "asked"
    BY <1>0, <2>1, <2>2 DEF PhaseCases, TypeOK
  <2>5. Service!Move(c, "idle", "asked")
    BY <2>3, <2>4, OneMoves
  <2>. QED
    BY <2>1, <2>5 DEF Service!Next, Service!Ask
<1>2. ASSUME NEW c \in Callers, LockSubmit(c) PROVE [Service!Next]_(Service!vars)
  <2>1. /\ pc[c] = "lock" /\ UNCHANGED <<wstate, job, stopping>>
        /\ \A d \in Callers : d # c => pc'[d] = pc[d] /\ reply'[d] = reply[d]
        /\ pc'[c] # "idle"
    BY <1>0, <1>2 DEF LockSubmit, TypeOK
  <2>2. \A d \in Callers : Runs(d)' <=> Runs(d)
    BY <2>1 DEF Runs
  <2>3. \A d \in Callers \ {c} : PhaseOf(d)' = PhaseOf(d)
    BY <1>0, <2>1, <2>2, SamePhase
  <2>4. reply[c] = "none" /\ ~Runs(c)
    BY <2>1 DEF Tokens, Runs, Pending
  <2>5. CASE stopping
    <3>1. reply'[c] = "error"
      BY <1>0, <1>2, <2>5 DEF LockSubmit, TypeOK
    <3>2. PhaseOf(c) = "asked" /\ PhaseOf(c)' = "refused"
      BY <2>1, <2>4, <3>1 DEF PhaseCases
    <3>3. Service!Move(c, "asked", "refused")
      BY <2>3, <3>2, OneMoves
    <3>. QED
      BY <2>1, <2>5, <3>3 DEF Service!Next, Service!Refuse
  <2>6. CASE ~stopping
    <3>1. reply' = reply
      BY <1>2, <2>6 DEF LockSubmit
    <3>. QED
      BY <1>b, <2>1, <2>2, <3>1 DEF Crashed
  <2>. QED
    BY <2>5, <2>6
<1>3. ASSUME NEW c \in Callers, Send(c) PROVE [Service!Next]_(Service!vars)
  <2>1. /\ pc[c] = "sending" /\ UNCHANGED <<wstate, job, stopping>>
        /\ pc' = [pc EXCEPT ![c] = "waiting"]
    BY <1>3 DEF Send
  <2>2. \A d \in Callers : Runs(d)' <=> Runs(d)
    BY <2>1 DEF Runs
  <2>3. reply[c] = "none" /\ ~Runs(c)
    BY <2>1 DEF Tokens, Runs, Pending
  <2>4. CASE ReceiverGone /\ reply' = [reply EXCEPT ![c] = "error"]
    <3>1. \A d \in Callers \ {c} : PhaseOf(d)' = PhaseOf(d)
      BY <1>0, <2>1, <2>2, <2>4, SamePhase DEF TypeOK
    <3>2. PhaseOf(c) = "asked" /\ PhaseOf(c)' = "refused"
      BY <1>0, <2>1, <2>3, <2>4 DEF PhaseCases, TypeOK
    <3>3. stopping \/ Crashed
      <4>1. PICK w \in Workers : Gone(w)
        BY <2>4 DEF ReceiverGone
      <4>. QED
        BY <4>1 DEF Gone, Tokens, Crashed
    <3>4. Service!Move(c, "asked", "refused")
      BY <3>1, <3>2, OneMoves
    <3>. QED
      BY <2>1, <3>3, <3>4 DEF Service!Next, Service!Refuse, Crashed
  <2>5. CASE reply' = reply
    BY <1>0, <1>b, <2>1, <2>2, <2>5 DEF Crashed, TypeOK
  <2>. QED
    BY <1>3, <2>4, <2>5 DEF Send
<1>4. ASSUME NEW c \in Callers, Return(c) PROVE Service!Next
  <2>1. /\ pc[c] = "waiting" /\ reply[c] \in {"ok", "error"} /\ UNCHANGED <<wstate, job, stopping>>
        /\ pc' = [pc EXCEPT ![c] = "idle"] /\ reply' = [reply EXCEPT ![c] = "none"]
    BY <1>0, <1>4 DEF Return, TypeOK
  <2>2. \A d \in Callers : Runs(d)' <=> Runs(d)
    BY <2>1 DEF Runs
  <2>3. \A d \in Callers \ {c} : PhaseOf(d)' = PhaseOf(d)
    BY <1>0, <2>1, <2>2, SamePhase DEF TypeOK
  <2>4. PhaseOf(c) \in {"served", "refused"} /\ PhaseOf(c)' = "idle"
    BY <1>0, <2>1 DEF PhaseCases, TypeOK
  <2>5. Phases[c] \in {"served", "refused"} /\ Phases' = [Phases EXCEPT ![c] = "idle"]
    BY <2>3, <2>4 DEF Phases
  <2>. QED
    BY <2>1, <2>5 DEF Service!Next, Service!Return, Phases, PhaseOf, Runs
<1>5. ASSUME NEW w \in Workers, LockReceiver(w) PROVE UNCHANGED Service!vars
  <2>1. /\ UNCHANGED <<pc, reply, job, stopping>> /\ wstate[w] = "lock"
        /\ wstate' = [wstate EXCEPT ![w] = "recv"]
    BY <1>5 DEF LockReceiver
  <2>2. \A v \in Workers : wstate'[v] = wstate[v] \/ (v = w /\ wstate'[v] = "recv")
    BY <1>0, <2>1 DEF TypeOK
  <2>3. (\A d \in Callers : Runs(d)' <=> Runs(d)) /\ Crashed' = Crashed
    BY <2>1, <2>2 DEF Runs, Crashed
  <2>. QED
    BY <1>b, <2>1, <2>3
<1>6. ASSUME NEW w \in Workers, ReceiveWork(w) PROVE UNCHANGED Service!vars
  <2>1. /\ UNCHANGED <<pc, reply, stopping>> /\ wstate[w] = "recv"
        /\ wstate'[w] = "got"
        /\ \A v \in Workers \ {w} : wstate'[v] = wstate[v] /\ job'[v] = job[v]
    BY <1>0, <1>6 DEF ReceiveWork, TypeOK
  <2>2. (\A d \in Callers : Runs(d)' <=> Runs(d)) /\ Crashed' = Crashed
    BY <2>1 DEF Runs, Crashed
  <2>. QED
    BY <1>b, <2>1, <2>2
<1>7. ASSUME NEW w \in Workers, ReceiveStop(w) PROVE UNCHANGED Service!vars
  <2>1. /\ Tail(queue) \in Seq(Callers \cup {Stop})
        /\ \A i \in DOMAIN Tail(queue) : Tail(queue)[i] = Stop
    <3>1. \A i \in DOMAIN Tail(queue) : i + 1 \in DOMAIN queue /\ i + 1 > 1 /\ Tail(queue)[i] = queue[i + 1]
      BY <1>0, <1>7, TailFacts DEF ReceiveStop, TypeOK
    <3>2. 1 \in DOMAIN queue /\ queue[1] = Stop
      BY <1>0, <1>7, TailFacts DEF ReceiveStop, TypeOK
    <3>. QED
      BY <1>0, <1>7, <3>1, <3>2, TailFacts DEF ReceiveStop, IInv, StopsBehindWork, TypeOK
  <2>2. /\ UNCHANGED <<pc, stopping>> /\ wstate[w] = "recv" /\ wstate'[w] = "exited"
        /\ \A v \in Workers \ {w} : wstate'[v] = wstate[v] /\ job'[v] = job[v]
        /\ \A d \in Callers : reply'[d] = reply[d]
    BY <1>0, <1>7, <2>1 DEF ReceiveStop, LeaveLoop, TypeOK
  <2>3. reply' = reply
    BY <1>0, <2>2 DEF TypeOK
  <2>4. (\A d \in Callers : Runs(d)' <=> Runs(d)) /\ Crashed' = Crashed
    BY <2>2 DEF Runs, Crashed
  <2>. QED
    BY <1>b, <2>2, <2>3, <2>4
<1>8. ASSUME NEW w \in Workers, CheckStopping(w) PROVE Service!Next
  <2>1. PICK c \in Callers : job[w] = c
    BY <1>8 DEF CheckStopping, Tokens
  <2>2. /\ wstate[w] = "got" /\ UNCHANGED <<pc, stopping>>
        /\ Pending(c) /\ \A v \in Workers \ {w} : job[v] # c
        /\ \A v \in Workers \ {w} : wstate'[v] = wstate[v] /\ job'[v] = job[v]
        /\ \A d \in Callers \ {c} : reply'[d] = reply[d]
    BY <1>0, <1>8, <2>1 DEF CheckStopping, Answer, Tokens, TypeOK
  <2>3. ~Runs(c) /\ PhaseOf(c) = "asked"
    <3>1. ~Runs(c)
      BY <2>1, <2>2 DEF Runs
    <3>. QED
      BY <2>2, <3>1 DEF PhaseCases, Pending
  <2>4. CASE stopping
    <3>1. wstate'[w] = "lock" /\ reply'[c] = "error"
      BY <1>0, <1>8, <2>1, <2>4 DEF CheckStopping, Answer, TypeOK
    <3>2. (\A d \in Callers : Runs(d)' <=> Runs(d)) /\ Crashed' = Crashed
      BY <2>2, <3>1 DEF Runs, Crashed
    <3>3. \A d \in Callers \ {c} : PhaseOf(d)' = PhaseOf(d)
      BY <1>0, <2>2, <3>2, SamePhase
    <3>4. PhaseOf(c)' = "refused"
      BY <3>1 DEF PhaseCases
    <3>5. Service!Move(c, "asked", "refused")
      BY <2>3, <3>3, <3>4, OneMoves
    <3>. QED
      BY <2>2, <2>4, <3>2, <3>5 DEF Service!Next, Service!Refuse, Crashed
  <2>5. CASE ~stopping
    <3>1. wstate' = [wstate EXCEPT ![w] = "running"] /\ UNCHANGED <<job, reply>>
      BY <1>8, <2>5 DEF CheckStopping
    <3>2. /\ wstate'[w] = "running" /\ job'[w] = c
          /\ \A v \in Workers \ {w} : job'[v] # c
      BY <1>0, <2>1, <2>2, <3>1 DEF TypeOK
    <3>3. Runs(c)' /\ \A d \in Callers \ {c} : Runs(d)' <=> Runs(d)
      BY <2>1, <2>2, <3>1, <3>2 DEF Runs
    <3>4. \A d \in Callers \ {c} : PhaseOf(d)' = PhaseOf(d)
      BY <1>0, <2>2, <3>1, <3>3, SamePhase
    <3>5. PhaseOf(c)' = "running"
      BY <3>3 DEF PhaseCases
    <3>6. Crashed' = Crashed
      BY <2>2, <3>2 DEF Crashed
    <3>7. Service!Move(c, "asked", "running")
      BY <2>3, <3>4, <3>5, OneMoves
    <3>. QED
      BY <2>2, <3>6, <3>7 DEF Service!Next, Service!Start, Crashed
  <2>. QED
    BY <2>4, <2>5
<1>9. ASSUME NEW w \in Workers, Finish(w) PROVE Service!Next
  <2>1. PICK c \in Callers : job[w] = c
    BY <1>9 DEF Finish, Tokens
  <2>2. /\ wstate[w] = "running" /\ wstate'[w] = "lock" /\ UNCHANGED <<pc, stopping>>
        /\ \A v \in Workers \ {w} : job[v] # c
        /\ \A v \in Workers \ {w} : wstate'[v] = wstate[v] /\ job'[v] = job[v]
        /\ reply'[c] = "ok" /\ \A d \in Callers \ {c} : reply'[d] = reply[d]
    BY <1>0, <1>9, <2>1 DEF Finish, Answer, Tokens, TypeOK
  <2>3. Runs(c) /\ \A d \in Callers \ {c} : Runs(d)' <=> Runs(d)
    BY <2>1, <2>2 DEF Runs
  <2>4. \A d \in Callers \ {c} : PhaseOf(d)' = PhaseOf(d)
    BY <1>0, <2>2, <2>3, SamePhase
  <2>5. PhaseOf(c) = "running" /\ PhaseOf(c)' = "served"
    BY <2>2, <2>3 DEF PhaseCases
  <2>6. Crashed' = Crashed
    BY <2>2 DEF Crashed
  <2>7. Service!Move(c, "running", "served")
    BY <2>4, <2>5, OneMoves
  <2>. QED
    BY <2>2, <2>6, <2>7 DEF Service!Next, Service!Complete, Crashed
<1>10. ASSUME NEW w \in Workers, Panic(w) PROVE Service!Next
  <2>1. PICK c \in Callers : job[w] = c
    BY <1>10 DEF Panic, Tokens
  <2>2. PICK others \in SUBSET Callers :
           others = {d \in Callers : (\A v \in Workers \ {w} : Gone(v)) /\ \E i \in DOMAIN queue : queue[i] = d}
    OBVIOUS
  <2>3. /\ wstate[w] = "running" /\ wstate'[w] = "dead" /\ UNCHANGED <<pc, stopping>>
        /\ \A v \in Workers \ {w} : job[v] # c
        /\ \A v \in Workers \ {w} : wstate'[v] = wstate[v] /\ job'[v] = job[v]
    BY <1>0, <1>10, <2>1 DEF Panic, LeaveLoop, Tokens, TypeOK
  <2>4. Runs(c) /\ \A d \in Callers \ {c} : Runs(d)' <=> Runs(d)
    BY <2>1, <2>3 DEF Runs
  <2>5. \A d \in Callers : reply'[d] = IF d = c \/ d \in others THEN "error" ELSE reply[d]
    BY <1>0, <1>10, <2>1, <2>2 DEF Panic, LeaveLoop, TypeOK
  <2>6. \A d \in others : Pending(d) /\ ~Runs(d)
    BY <2>1, <2>2 DEF Tokens, Runs
  <2>7. \A d \in others : PhaseOf(d) = "asked"
    BY <2>6 DEF PhaseCases, Pending
  <2>8. \A d \in Callers : PhaseOf(d)' = IF d = c \/ d \in others THEN "refused" ELSE PhaseOf(d)
    <3>1. ASSUME NEW d \in Callers, d = c \/ d \in others PROVE PhaseOf(d)' = "refused"
      BY <2>5, <3>1 DEF PhaseCases
    <3>2. ASSUME NEW d \in Callers, ~(d = c \/ d \in others) PROVE PhaseOf(d)' = PhaseOf(d)
      BY <1>0, <2>3, <2>4, <2>5, <3>2, SamePhase
    <3>. QED
      BY <3>1, <3>2
  <2>9. Crashed' /\ PhaseOf(c) = "running"
    BY <2>3, <2>4 DEF Crashed, PhaseCases
  <2>10. /\ Phases[c] = "running" /\ \A d \in others : Phases[d] = "asked"
        /\ Phases' = [d \in Callers |-> IF d = c \/ d \in others THEN "refused" ELSE Phases[d]]
    BY <2>7, <2>8, <2>9 DEF Phases
  <2>11. Service!Crash(c, others)
    BY <2>3, <2>9, <2>10 DEF Service!Crash, Phases, PhaseOf, Runs, Crashed
  <2>. QED
    BY <2>11 DEF Service!Next
<1>11. ASSUME NEW s \in Stoppers, SwapStopping(s) PROVE Service!Next
  <2>1. /\ UNCHANGED <<reply, wstate, job>> /\ stopping' = TRUE
        /\ \A d \in Callers : pc'[d] = pc[d]
    BY <1>0, <1>11 DEF SwapStopping, TypeOK
  <2>2. (\A d \in Callers : Runs(d)' <=> Runs(d)) /\ Crashed' = Crashed
    BY <2>1 DEF Runs, Crashed
  <2>3. Phases' = Phases
    BY <1>0, <2>1, <2>2, SamePhase, NoneMoves
  <2>. QED
    BY <2>1, <2>2, <2>3 DEF Service!Next, Service!Close, Phases, PhaseOf, Runs, Crashed
<1>12. ASSUME NEW s \in Stoppers,
              CallShutdown(s) \/ InnerShutdown(s) \/ SendStop(s) \/ StopsSent(s) \/ Join(s)
       PROVE UNCHANGED Service!vars
  <2>1. /\ UNCHANGED <<reply, wstate, job, stopping>>
        /\ \A d \in Callers : pc'[d] = pc[d]
    BY <1>0, <1>12 DEF CallShutdown, InnerShutdown, SendStop, StopsSent, Join, TypeOK
  <2>2. (\A d \in Callers : Runs(d)' <=> Runs(d)) /\ Crashed' = Crashed
    BY <2>1 DEF Runs, Crashed
  <2>. QED
    BY <1>b, <2>1, <2>2
<1>13. CASE UNCHANGED vars
  <2>1. UNCHANGED <<pc, reply, wstate, job, stopping>>
    BY <1>13 DEF vars
  <2>2. (\A d \in Callers : Runs(d)' <=> Runs(d)) /\ Crashed' = Crashed
    BY <2>1 DEF Runs, Crashed
  <2>. QED
    BY <1>b, <2>1, <2>2
<1>. QED
  BY <1>1, <1>2, <1>3, <1>4, <1>5, <1>6, <1>7, <1>8, <1>9, <1>10, <1>11, <1>12, <1>13
     DEF Next, CallerStep, WorkerStep, StopperStep

LEMMA TokensInit == Init => Tokens
<1> SUFFICES ASSUME Init PROVE Tokens
  OBVIOUS
<1>1. DOMAIN queue = {}
  BY DEF Init
<1>. QED
  BY <1>1, PoolAssumption DEF Init, Tokens, Pending

LEMMA InitRefines == Init => Service!Init
<1> SUFFICES ASSUME Init PROVE Service!Init
  OBVIOUS
<1>1. \A c \in Callers : pc[c] = "idle"
  BY DEF Init
<1>2. \A c \in Callers : PhaseOf(c) = "idle"
  BY <1>1, InitIInv, TokensInit, PhasesExclude DEF PhaseCases
<1>3. stopping = FALSE /\ \A w \in Workers : wstate[w] # "dead"
  BY DEF Init
<1>4. Phases = [c \in Callers |-> "idle"]
  BY <1>2 DEF Phases
<1>5. Crashed = FALSE
  BY <1>3 DEF Crashed
<1>. QED
  BY <1>3, <1>4, <1>5 DEF Service!Init, Phases, PhaseOf, Runs, Crashed

\* For any number of callers, stoppers and workers, and any capacity, the pool implements
\* the service its frontends rely on: every step of backpressure.rs is one step of it, or
\* none; also the panic of the last worker, which refuses everything still queued.
THEOREM Implements == Spec => ImplementsService
<1>1. IInv /\ [Next]_vars => IInv'
  BY StepIInv
<1>2. IInv /\ Tokens /\ [Next]_vars => Tokens'
  BY TokensStep
<1>3. IInv /\ Tokens => PhaseCases
  BY PhasesExclude
<1>4. IInv /\ IInv' /\ Tokens /\ Tokens' /\ PhaseCases /\ PhaseCases' /\ [Next]_vars
        => [Service!Next]_(Service!vars)
  BY StepRefines
<1>. QED
  BY <1>1, <1>2, <1>3, <1>4, InitIInv, TokensInit, InitRefines, PTL
     DEF Spec, ImplementsService, Service!Spec
================================================================================
