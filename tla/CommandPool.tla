----------------------------- MODULE CommandPool -----------------------------
(***************************************************************************)
(* The bounded worker pool of backpressure.rs, which every frontend shares.*)
(* Callers hold submit_lock across a send that blocks while the queue is   *)
(* full; workers share one receiver behind a mutex and hold it while they  *)
(* wait; shutdown() closes the queue under submit_lock, shuts the inner    *)
(* executor down while workers may still be inside it, and then queues one *)
(* Stop per worker.  The inner executor is a call that ends or panics.     *)
(***************************************************************************)
EXTENDS Naturals, Sequences, FiniteSets

CONSTANTS
  Callers,    \* threads that call execute()
  Stoppers,   \* threads that call shutdown(), or drop the last Arc
  Workers,    \* the worker threads
  Capacity,   \* queue_capacity
  Stop,       \* WorkItem::Stop; WorkItem::Execute is its caller
  Nobody      \* no owner of a mutex, no job in a worker's hands

ASSUME PoolAssumption ==
  /\ Capacity \in Nat \ {0}
  /\ Workers # {} /\ IsFiniteSet(Workers)
  /\ Callers \cap Stoppers = {}
  /\ Callers \cap Workers = {} /\ Stoppers \cap Workers = {}
  /\ Stop \notin Callers
  /\ Nobody \notin Callers \cup Stoppers \cup Workers \cup {Stop}

VARIABLES
  queue,          \* the sync_channel
  submitOwner,    \* who holds submit_lock
  receiverOwner,  \* the worker that holds the receiver
  stopping,       \* the flag
  innerDowns,     \* completed calls of inner.shutdown()
  wstate,         \* each worker: "lock", "recv", "got", "running", "exited", "dead"
  job,            \* the caller whose command a worker holds
  pc,             \* where each caller and stopper is
  reply,          \* each caller's response channel
  stopsLeft       \* Stops a stopper has still to queue

vars == <<queue, submitOwner, receiverOwner, stopping, innerDowns, wstate, job, pc,
          reply, stopsLeft>>

workerVars == <<receiverOwner, wstate, job>>

Gone(w) == wstate[w] \in {"exited", "dead"}

\* The last worker drops the receiver with its Arc.
ReceiverGone == \A w \in Workers : Gone(w)

(***************************************************************************)
(* execute()                                                               *)
(***************************************************************************)

Call(c) ==
  /\ pc[c] = "idle"
  /\ pc' = [pc EXCEPT ![c] = "lock"]
  /\ UNCHANGED <<queue, submitOwner, workerVars, stopping, innerDowns, reply, stopsLeft>>

\* Inside submit_lock the flag decides: refuse, or go on to send.
LockSubmit(c) ==
  /\ pc[c] = "lock"
  /\ submitOwner = Nobody
  /\ IF stopping
       THEN /\ reply' = [reply EXCEPT ![c] = "error"]
            /\ pc' = [pc EXCEPT ![c] = "waiting"]
            /\ UNCHANGED submitOwner
       ELSE /\ submitOwner' = c
            /\ pc' = [pc EXCEPT ![c] = "sending"]
            /\ UNCHANGED reply
  /\ UNCHANGED <<queue, workerVars, stopping, innerDowns, stopsLeft>>

HasRoom == Len(queue) < Capacity

\* The blocking send, with submit_lock held; it fails once no receiver is left.
Send(c) ==
  /\ pc[c] = "sending"
  /\ \/ ReceiverGone /\ reply' = [reply EXCEPT ![c] = "error"] /\ UNCHANGED queue
     \/ ~ReceiverGone /\ HasRoom /\ queue' = Append(queue, c) /\ UNCHANGED reply
  /\ submitOwner' = Nobody
  /\ pc' = [pc EXCEPT ![c] = "waiting"]
  /\ UNCHANGED <<workerVars, stopping, innerDowns, stopsLeft>>

Return(c) ==
  /\ pc[c] = "waiting"
  /\ reply[c] # "none"
  /\ pc' = [pc EXCEPT ![c] = "idle"]
  /\ reply' = [reply EXCEPT ![c] = "none"]
  /\ UNCHANGED <<queue, submitOwner, workerVars, stopping, innerDowns, stopsLeft>>

(***************************************************************************)
(* run_worker()                                                            *)
(***************************************************************************)

LockReceiver(w) ==
  /\ wstate[w] = "lock"
  /\ receiverOwner = Nobody
  /\ receiverOwner' = w
  /\ wstate' = [wstate EXCEPT ![w] = "recv"]
  /\ UNCHANGED <<queue, submitOwner, stopping, innerDowns, job, pc, reply, stopsLeft>>

ReceiveWork(w) ==
  /\ wstate[w] = "recv"
  /\ queue # <<>>
  /\ Head(queue) # Stop
  /\ queue' = Tail(queue)
  /\ receiverOwner' = Nobody
  /\ job' = [job EXCEPT ![w] = Head(queue)]
  /\ wstate' = [wstate EXCEPT ![w] = "got"]
  /\ UNCHANGED <<submitOwner, stopping, innerDowns, pc, reply, stopsLeft>>

\* Fault: the pool keeps an Arc of the receiver, so nothing is ever dropped.
LeaveLoopKeepsQueue(w, how, pending, replies) ==
  /\ wstate' = [wstate EXCEPT ![w] = how]
  /\ job' = [job EXCEPT ![w] = Nobody]
  /\ queue' = pending
  /\ reply' = replies

\* Fault: the dropped requests leave their response channels open.
LeaveLoopForgets(w, how, pending, replies) ==
  /\ wstate' = [wstate EXCEPT ![w] = how]
  /\ job' = [job EXCEPT ![w] = Nobody]
  /\ queue' = IF \A v \in Workers \ {w} : Gone(v) THEN <<>> ELSE pending
  /\ reply' = replies

\* Leaving the loop; when no other worker is left the receiver is dropped, and
\* the requests still queued lose their response channels.
LeaveLoop(w, how, pending, replies) ==
  /\ wstate' = [wstate EXCEPT ![w] = how]
  /\ job' = [job EXCEPT ![w] = Nobody]
  /\ IF \A v \in Workers \ {w} : Gone(v)
       THEN /\ queue' = <<>>
            /\ reply' = [c \in Callers |->
                           IF \E i \in DOMAIN pending : pending[i] = c
                             THEN "error" ELSE replies[c]]
       ELSE queue' = pending /\ reply' = replies

ReceiveStop(w) ==
  /\ wstate[w] = "recv"
  /\ queue # <<>>
  /\ Head(queue) = Stop
  /\ receiverOwner' = Nobody
  /\ LeaveLoop(w, "exited", Tail(queue), reply)
  /\ UNCHANGED <<submitOwner, stopping, innerDowns, pc, stopsLeft>>

Answer(w, verdict) ==
  /\ reply' = [reply EXCEPT ![job[w]] = verdict]
  /\ job' = [job EXCEPT ![w] = Nobody]
  /\ wstate' = [wstate EXCEPT ![w] = "lock"]

\* Fault: a command met after the flag is acknowledged instead of refused.
CheckStoppingAnswersOk(w) ==
  /\ wstate[w] = "got"
  /\ IF stopping
       THEN Answer(w, "ok")
       ELSE wstate' = [wstate EXCEPT ![w] = "running"] /\ UNCHANGED <<job, reply>>
  /\ UNCHANGED <<queue, submitOwner, receiverOwner, stopping, innerDowns, pc, stopsLeft>>

\* The stopping flag is read after the item was taken.
CheckStopping(w) ==
  /\ wstate[w] = "got"
  /\ IF stopping
       THEN Answer(w, "error")
       ELSE wstate' = [wstate EXCEPT ![w] = "running"] /\ UNCHANGED <<job, reply>>
  /\ UNCHANGED <<queue, submitOwner, receiverOwner, stopping, innerDowns, pc, stopsLeft>>

\* inner.execute returns, with a result or with an error of its own.
Finish(w) ==
  /\ wstate[w] = "running"
  /\ Answer(w, "ok")
  /\ UNCHANGED <<queue, submitOwner, receiverOwner, stopping, innerDowns, pc, stopsLeft>>

\* inner.execute panics: the thread unwinds and the response channel is dropped.
Panic(w) ==
  /\ wstate[w] = "running"
  /\ LeaveLoop(w, "dead", queue, [reply EXCEPT ![job[w]] = "error"])
  /\ UNCHANGED <<submitOwner, receiverOwner, stopping, innerDowns, pc, stopsLeft>>

(***************************************************************************)
(* shutdown()                                                              *)
(***************************************************************************)

CallShutdown(s) ==
  /\ pc[s] = "idle"
  /\ pc' = [pc EXCEPT ![s] = "lock"]
  /\ UNCHANGED <<queue, submitOwner, workerVars, stopping, innerDowns, reply, stopsLeft>>

\* The swap under submit_lock: only the first caller goes on.
SwapStopping(s) ==
  /\ pc[s] = "lock"
  /\ submitOwner = Nobody
  /\ stopping' = TRUE
  /\ pc' = [pc EXCEPT ![s] = IF stopping THEN "idle" ELSE "inner"]
  /\ UNCHANGED <<queue, submitOwner, workerVars, innerDowns, reply, stopsLeft>>

\* Fault: one worker gets no Stop.
StopCountShort == Cardinality(Workers) - 1

StopCount == Cardinality(Workers)

InnerShutdown(s) ==
  /\ pc[s] = "inner"
  /\ innerDowns' = innerDowns + 1
  /\ stopsLeft' = [stopsLeft EXCEPT ![s] = StopCount]
  /\ pc' = [pc EXCEPT ![s] = "sendStops"]
  /\ UNCHANGED <<queue, submitOwner, workerVars, stopping, reply>>

SendStop(s) ==
  /\ pc[s] = "sendStops"
  /\ stopsLeft[s] > 0
  /\ ~ReceiverGone
  /\ HasRoom
  /\ queue' = Append(queue, Stop)
  /\ stopsLeft' = [stopsLeft EXCEPT ![s] = @ - 1]
  /\ UNCHANGED <<submitOwner, workerVars, stopping, innerDowns, pc, reply>>

StopsSent(s) ==
  /\ pc[s] = "sendStops"
  /\ stopsLeft[s] = 0 \/ ReceiverGone
  /\ pc' = [pc EXCEPT ![s] = "join"]
  /\ UNCHANGED <<queue, submitOwner, workerVars, stopping, innerDowns, reply, stopsLeft>>

Join(s) ==
  /\ pc[s] = "join"
  /\ ReceiverGone
  /\ pc' = [pc EXCEPT ![s] = "joined"]
  /\ UNCHANGED <<queue, submitOwner, workerVars, stopping, innerDowns, reply, stopsLeft>>

-----------------------------------------------------------------------------

Init ==
  /\ queue = <<>>
  /\ submitOwner = Nobody
  /\ receiverOwner = Nobody
  /\ stopping = FALSE
  /\ innerDowns = 0
  /\ wstate = [w \in Workers |-> "lock"]
  /\ job = [w \in Workers |-> Nobody]
  /\ pc = [p \in Callers \cup Stoppers |-> "idle"]
  /\ reply = [c \in Callers |-> "none"]
  /\ stopsLeft = [s \in Stoppers |-> 0]

CallerStep(c) == LockSubmit(c) \/ Send(c) \/ Return(c)

WorkerStep(w) ==
  LockReceiver(w) \/ ReceiveWork(w) \/ ReceiveStop(w) \/ CheckStopping(w) \/ Finish(w)

StopperStep(s) ==
  SwapStopping(s) \/ InnerShutdown(s) \/ SendStop(s) \/ StopsSent(s) \/ Join(s)

Next ==
  \/ \E c \in Callers : Call(c) \/ CallerStep(c)
  \/ \E w \in Workers : WorkerStep(w) \/ Panic(w)
  \/ \E s \in Stoppers : CallShutdown(s) \/ StopperStep(s)

\* Started threads keep running and a command ends; nobody has to call, and a
\* std::sync::Mutex promises no fairness to those who wait for it.
Fairness ==
  /\ \A c \in Callers : WF_vars(Send(c)) /\ WF_vars(Return(c))
  /\ \A w \in Workers : WF_vars(WorkerStep(w))
  /\ \A s \in Stoppers : WF_vars(InnerShutdown(s) \/ SendStop(s) \/ StopsSent(s) \/ Join(s))

Spec == Init /\ [][Next]_vars /\ Fairness

-----------------------------------------------------------------------------
(***************************************************************************)
(* Properties                                                              *)
(***************************************************************************)

\* Type invariant: the queue never exceeds its capacity, and each mutex is
\* owned exactly by a thread that is between its lock and its unlock.
TypeOK ==
  /\ queue \in Seq(Callers \cup {Stop})
  /\ Len(queue) <= Capacity
  /\ submitOwner \in {Nobody} \cup {c \in Callers : pc[c] = "sending"}
  /\ receiverOwner \in {Nobody} \cup {w \in Workers : wstate[w] = "recv"}
  /\ stopping \in BOOLEAN
  /\ innerDowns \in Nat
  /\ wstate \in [Workers -> {"lock", "recv", "got", "running", "exited", "dead"}]
  /\ job \in [Workers -> Callers \cup {Nobody}]
  /\ pc \in [Callers \cup Stoppers ->
              {"idle", "lock", "sending", "waiting", "inner", "sendStops", "join", "joined"}]
  /\ reply \in [Callers -> {"none", "ok", "error"}]
  /\ stopsLeft \in [Stoppers -> Nat]

\* No command is queued behind a Stop, so no worker leaves the loop before the
\* commands that were accepted have been answered: submit_lock orders every
\* accepted send before the flag and the flag before the first Stop.
StopsBehindWork ==
  \A i, j \in DOMAIN queue : i < j /\ queue[i] = Stop => queue[j] = Stop

\* A caller that waits for an answer is still known to somebody: its command is
\* queued or in the hands of a worker, also when workers panic.
NoLostCaller ==
  \A c \in Callers :
    pc[c] = "waiting" /\ reply[c] = "none" =>
      \/ \E i \in DOMAIN queue : queue[i] = c
      \/ \E w \in Workers : job[w] = c

\* inner.shutdown() runs once, however many threads shut the pool down.
InnerShutdownOnce == innerDowns <= 1

\* A submitted command is answered, and the shutdown() that won the swap returns,
\* whether workers are busy, the queue is full or all workers have panicked.
Answered ==
  /\ \A c \in Callers : pc[c] = "waiting" ~> pc[c] = "idle"
  /\ \A s \in Stoppers : pc[s] = "inner" ~> pc[s] = "joined"

\* The pool implements the service its callers rely on.
Service == INSTANCE CommandService WITH
  phase <- [c \in Callers |->
              CASE pc[c] = "idle" -> "idle"
                [] reply[c] = "ok" -> "served"
                [] reply[c] = "error" -> "refused"
                [] \E w \in Workers : job[w] = c /\ wstate[w] = "running" -> "running"
                [] OTHER -> "asked"],
  closed <- stopping,
  crashed <- \E w \in Workers : wstate[w] = "dead"

\* Every step of the pool is a step of the abstract service or invisible to it.
ImplementsService == Service!Spec
=============================================================================
