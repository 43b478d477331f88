------------------------------- MODULE Runtime -------------------------------
(***************************************************************************)
(* The lifecycle of the injected DLL: the atomics of lifecycle.rs, the     *)
(* bootstrap thread DllMain creates (dll.rs, runtime.rs), any number of    *)
(* threads that call runtime::shutdown(), and any number of remote threads *)
(* that arm the four timer hooks.  Every access to shared state (an atomic *)
(* operation, a critical section of the CONTEXT mutex) is one step, so the *)
(* threads interleave between any two of them.  The timer hooks appear     *)
(* only as the value the HOOKS mutex guards; TimerHooks.tla opens them up. *)
(***************************************************************************)
EXTENDS Naturals, FiniteSets

CONSTANTS
  Stoppers,   \* threads that call runtime::shutdown()
  Armers,     \* remote threads that call runtime::arm_selected_game_timers()
  Boot,       \* the bootstrap thread
  NoThread,   \* nobody holds the HOOKS mutex
  MaxCalls    \* BOUND on the calls one stopper makes

ASSUME ThreadsAssumption ==
  /\ Stoppers \cap Armers = {}
  /\ Boot \notin Stoppers \cup Armers
  /\ NoThread \notin Stoppers \cup Armers \cup {Boot}
  /\ MaxCalls \in Nat

Threads == Stoppers \cup Armers \cup {Boot}

States == {"Detached", "Attached", "Bootstrapping", "Running",
           "Stopping", "Stopped", "Failed"}

\* The fields of RuntimeContext that own threads, ranked in the order
\* bootstrap_inner starts them and in the order shutdown() stops them.
Subsystems == {"executor", "hotkeys", "rpc", "ui", "debuggerUi", "hud"}

StartRank == [executor |-> 1, hotkeys |-> 2, rpc |-> 3, ui |-> 4,
              debuggerUi |-> 5, hud |-> 6]

\* Fault: the executor is shut down before the threads that use it.
StopRankExecutorFirst == [rpc |-> 2, debuggerUi |-> 3, ui |-> 4, hotkeys |-> 5,
                          hud |-> 6, executor |-> 1]

StopRank == [rpc |-> 1, debuggerUi |-> 2, ui |-> 3, hotkeys |-> 4,
             hud |-> 5, executor |-> 6]

\* The subsystems that hold an Arc of the command executor.
ExecutorHolders == {"hotkeys", "rpc", "ui", "debuggerUi"}

\* Subsystems whose failed start only disables them.
Tolerated == {"hotkeys", "hud"}

VARIABLES
  state,              \* Lifecycle.state
  shutdownRequested,  \* Lifecycle.shutdown_requested
  context,            \* what CONTEXT owns: {} is None, else contains "executor"
  live,               \* subsystems whose threads run
  hooks,              \* HOOKS: "none", "installed", or "partial" (cleanup pending)
  hookOwner,          \* the thread inside the HOOKS mutex
  pc,                 \* where each thread is
  held,               \* subsystems a thread owns in a local RuntimeContext
  seq,                \* the bootstrap thread's progress through StartRank
  calls,              \* calls each stopper has begun
  result              \* what the last shutdown() of each stopper returned

vars == <<state, shutdownRequested, context, live, hooks, hookOwner, pc, held,
          seq, calls, result>>

lifecycle == <<state, shutdownRequested>>
owned     == <<context, live, held, seq>>
hookVars  == <<hooks, hookOwner>>
callVars  == <<calls, result>>

Goto(t, label) == pc' = [pc EXCEPT ![t] = label]

(***************************************************************************)
(* lifecycle.rs.  A compare-exchange loop is one atomic step: it retries   *)
(* until it acts on the value it read.                                     *)
(***************************************************************************)

\* The state begin_shutdown leaves, and whether it tells its caller to clean up.
BeginShutdownState(s) ==
  CASE s = "Detached"               -> "Stopped"
    [] s \in {"Stopping", "Stopped"} -> s
    [] OTHER                         -> "Stopping"

\* Fault: a thread that finds Stopping joins the cleanup.
BeginShutdownCleansTwice(s) == s \notin {"Detached", "Stopped"}

BeginShutdownCleans(s) == s \notin {"Detached", "Stopping", "Stopped"}

MarkFailedState(s) == IF s \in {"Stopping", "Stopped"} THEN s ELSE "Failed"

(***************************************************************************)
(* DllMain                                                                 *)
(***************************************************************************)

\* DLL_PROCESS_ATTACH: attach(), then CreateThread.
Attach ==
  /\ pc[Boot] = "unborn"
  /\ state = "Detached"
  /\ state' = "Attached"
  /\ shutdownRequested' = FALSE
  /\ Goto(Boot, "checkRequest")
  /\ UNCHANGED <<owned, hookVars, callVars>>

\* DLL_PROCESS_ATTACH when CreateThread fails: the DLL is refused.
AttachWithoutThread ==
  /\ pc[Boot] = "unborn"
  /\ state = "Detached"
  /\ state' = MarkFailedState("Attached")
  /\ shutdownRequested' = FALSE
  /\ Goto(Boot, "never")
  /\ UNCHANGED <<owned, hookVars, callVars>>

Loaded == pc[Boot] \notin {"unborn", "never"}

\* DLL_PROCESS_DETACH only raises the flag.
DetachRequest ==
  /\ Loaded
  /\ ~shutdownRequested
  /\ shutdownRequested' = TRUE
  /\ UNCHANGED <<state, owned, hookVars, callVars, pc>>

(***************************************************************************)
(* bootstrap(), on the bootstrap thread                                    *)
(***************************************************************************)

CheckRequest ==
  /\ pc[Boot] = "checkRequest"
  /\ Goto(Boot, IF shutdownRequested THEN "abortBegin" ELSE "beginBootstrap")
  /\ UNCHANGED <<lifecycle, owned, hookVars, callVars>>

\* begin_shutdown() with its verdict discarded, before or after bootstrap_inner.
AbortBegin ==
  /\ pc[Boot] = "abortBegin"
  /\ shutdownRequested' = TRUE
  /\ state' = BeginShutdownState(state)
  /\ Goto(Boot, "markStopped")
  /\ UNCHANGED <<owned, hookVars, callVars>>

\* CONTEXT is still None here (only this thread stores it), then the CAS from
\* Attached; a shutdown that already moved the state makes it fail, and the
\* thread procedure's mark_failed has no effect on it.
BeginBootstrap ==
  /\ pc[Boot] = "beginBootstrap"
  /\ context = {}
  /\ IF state = "Attached"
       THEN state' = "Bootstrapping" /\ Goto(Boot, "starting")
       ELSE state' = MarkFailedState(state) /\ Goto(Boot, "aborted")
  /\ UNCHANGED <<shutdownRequested, owned, hookVars, callVars>>

\* One subsystem of bootstrap_inner comes up, or is left out (disabled by the
\* configuration, or its failure is tolerated).  The command executor is not
\* optional.
StartSubsystem ==
  /\ pc[Boot] = "starting"
  /\ \E s \in Subsystems :
       /\ StartRank[s] = seq + 1
       /\ \/ held' = [held EXCEPT ![Boot] = @ \cup {s}] /\ live' = live \cup {s}
          \/ s # "executor" /\ UNCHANGED <<held, live>>
  /\ seq' = seq + 1
  /\ Goto(Boot, IF seq' = Cardinality(Subsystems) THEN "checkAgain" ELSE "starting")
  /\ UNCHANGED <<lifecycle, context, hookVars, callVars>>

\* An error of bootstrap_inner (or a panic in it): the locals are dropped
\* before the error reaches bootstrap(), which marks the lifecycle failed.
StartFails ==
  /\ pc[Boot] = "starting"
  /\ \A s \in Tolerated : StartRank[s] # seq + 1
  /\ Goto(Boot, "dropFailed")
  /\ UNCHANGED <<lifecycle, owned, hookVars, callVars>>

\* Dropping a handle stops and joins its thread: the step is the moment the join returns,
\* and nothing says that it does.  The executor goes with the last Arc that names it.
DropOne ==
  /\ pc[Boot] \in {"dropFailed", "dropAborted"}
  /\ \E s \in held[Boot] :
       /\ s = "executor" => held[Boot] \cap ExecutorHolders = {}
       /\ held' = [held EXCEPT ![Boot] = @ \ {s}]
       /\ live' = live \ {s}
  /\ UNCHANGED <<lifecycle, context, seq, hookVars, callVars, pc>>

MarkFailed ==
  /\ pc[Boot] = "dropFailed"
  /\ held[Boot] = {}
  /\ state' = MarkFailedState(state)
  /\ Goto(Boot, "aborted")
  /\ UNCHANGED <<shutdownRequested, owned, hookVars, callVars>>

AbortDone ==
  /\ pc[Boot] = "dropAborted"
  /\ held[Boot] = {}
  /\ Goto(Boot, "aborted")
  /\ UNCHANGED <<lifecycle, owned, hookVars, callVars>>

\* Fault: Running is announced before the context is stored.
CheckAgainSkipsStore ==
  /\ pc[Boot] = "checkAgain"
  /\ Goto(Boot, IF shutdownRequested THEN "abortBegin" ELSE "markRunning")
  /\ UNCHANGED <<lifecycle, owned, hookVars, callVars>>

CheckAgain ==
  /\ pc[Boot] = "checkAgain"
  /\ Goto(Boot, IF shutdownRequested THEN "abortBegin" ELSE "store")
  /\ UNCHANGED <<lifecycle, owned, hookVars, callVars>>

StoreContext ==
  /\ pc[Boot] = "store"
  /\ context' = held[Boot]
  /\ held' = [held EXCEPT ![Boot] = {}]
  /\ Goto(Boot, "markRunning")
  /\ UNCHANGED <<lifecycle, live, seq, hookVars, callVars>>

\* The CAS to Running.  When a shutdown got in between, it fails, bootstrap
\* returns the error and the context it stored stays in CONTEXT.
MarkRunning ==
  /\ pc[Boot] = "markRunning"
  /\ IF state = "Bootstrapping"
       THEN state' = "Running" /\ \E next \in {"armCheck", "armed"} : Goto(Boot, next)
       ELSE state' = MarkFailedState(state) /\ Goto(Boot, "aborted")
  /\ UNCHANGED <<shutdownRequested, owned, hookVars, callVars>>

(***************************************************************************)
(* mark_stopped(): a load, then a compare-exchange from Stopping.  A       *)
(* stopper returns its verdict; the bootstrap thread goes on to drop what  *)
(* it started.                                                             *)
(***************************************************************************)

MarkStoppedThen(t, ok) ==
  IF t = Boot
    THEN Goto(t, "dropAborted") /\ UNCHANGED result
    ELSE Goto(t, "idle") /\ result' = [result EXCEPT ![t] = IF ok THEN "ok" ELSE "error"]

MarkStoppedLoad(t) ==
  /\ pc[t] = "markStopped"
  /\ IF state = "Stopping"
       THEN Goto(t, "casStopped") /\ UNCHANGED result
       ELSE MarkStoppedThen(t, state = "Stopped")
  /\ UNCHANGED <<lifecycle, owned, hookVars, calls>>

MarkStoppedCas(t) ==
  /\ pc[t] = "casStopped"
  /\ state' = IF state = "Stopping" THEN "Stopped" ELSE state
  /\ MarkStoppedThen(t, state = "Stopping")
  /\ UNCHANGED <<shutdownRequested, owned, hookVars, calls>>

(***************************************************************************)
(* arm_selected_game_timers(), on a remote thread or at the end of         *)
(* bootstrap                                                               *)
(***************************************************************************)

ArmDone(t) == Goto(t, IF t = Boot THEN "armed" ELSE "idle")

ArmCall(t) ==
  /\ t \in Armers
  /\ pc[t] = "idle"
  /\ Loaded
  /\ Goto(t, "armCheck")
  /\ UNCHANGED <<lifecycle, owned, hookVars, callVars>>

ArmCheck(t) ==
  /\ pc[t] = "armCheck"
  /\ IF state = "Running" /\ ~shutdownRequested THEN Goto(t, "armContext") ELSE ArmDone(t)
  /\ UNCHANGED <<lifecycle, owned, hookVars, callVars>>

\* Clone the speed executor out of CONTEXT; its settings may refuse.
ArmContext(t) ==
  /\ pc[t] = "armContext"
  /\ \/ context # {} /\ Goto(t, "armLock")
     \/ ArmDone(t)
  /\ UNCHANGED <<lifecycle, owned, hookVars, callVars>>

\* enable_hook_set_with_fault: the gate is read again inside the HOOKS mutex.
ArmLock(t) ==
  /\ pc[t] = "armLock"
  /\ hookOwner = NoThread
  /\ IF shutdownRequested \/ state # "Running"
       THEN ArmDone(t) /\ UNCHANGED hookOwner
       ELSE IF hooks # "none"
         THEN UNCHANGED hookOwner
              /\ IF hooks = "installed" THEN Goto(t, "armSession") ELSE ArmDone(t)
         ELSE hookOwner' = t /\ Goto(t, "armPatch")
  /\ UNCHANGED <<lifecycle, owned, hooks, callVars>>

\* Patching succeeds, fails and is rolled back, or fails and keeps ownership.
ArmPatch(t) ==
  /\ pc[t] = "armPatch"
  /\ hookOwner' = NoThread
  /\ \/ hooks' = "installed" /\ Goto(t, "armSession")
     \/ hooks' \in {"none", "partial"} /\ ArmDone(t)
  /\ UNCHANGED <<lifecycle, owned, callVars>>

\* arm_selected_game_session resets the installed session under the same
\* mutex; with no hooks there is nothing to refuse, and a failure of the
\* preview session undoes the hooks.
ArmSession(t) ==
  /\ pc[t] = "armSession"
  /\ hookOwner = NoThread
  /\ \/ /\ hooks = "none" \/ (hooks = "installed" /\ ~shutdownRequested /\ state = "Running")
        /\ ArmDone(t)
     \/ Goto(t, "disable")
  /\ UNCHANGED <<lifecycle, owned, hookVars, callVars>>

\* A panic outside the critical sections, while arming or undoing it: a remote thread
\* reports a refusal, and the procedure of the bootstrap thread, which has announced Running
\* by then, marks the lifecycle failed.
ArmPanics(t) ==
  /\ t \notin Stoppers /\ pc[t] \in {"armCheck", "armContext", "armLock", "armSession", "disable"}
  /\ IF t = Boot
       THEN state' = MarkFailedState(state) /\ Goto(t, "panicked")
       ELSE ArmDone(t) /\ UNCHANGED state
  /\ UNCHANGED <<shutdownRequested, owned, hookVars, callVars>>

(***************************************************************************)
(* disable_probe(), called by shutdown() and by a failed arm               *)
(***************************************************************************)

\* Fault: shutdown() ignores the verdict of disable_probe().
DisableThenAlways(t, restored) ==
  IF t \in Stoppers THEN Goto(t, "begin") /\ UNCHANGED result
                    ELSE ArmDone(t) /\ UNCHANGED result

DisableThen(t, restored) ==
  IF t \notin Stoppers
    THEN ArmDone(t) /\ UNCHANGED result
    ELSE IF restored
      THEN Goto(t, "begin") /\ UNCHANGED result
      ELSE Goto(t, "idle") /\ result' = [result EXCEPT ![t] = "error"]

DisableLock(t) ==
  /\ pc[t] = "disable"
  /\ hookOwner = NoThread
  /\ IF hooks = "none"
       THEN DisableThen(t, TRUE) /\ UNCHANGED hookOwner
       ELSE hookOwner' = t /\ Goto(t, "restore") /\ UNCHANGED result
  /\ UNCHANGED <<lifecycle, owned, hooks, calls>>

\* Every import and page is back and the callbacks drained, or the record
\* stays owned for a later retry.
Restore(t) ==
  /\ pc[t] = "restore"
  /\ hookOwner' = NoThread
  /\ \/ hooks' = "none" /\ DisableThen(t, TRUE)
     \/ hooks' = "partial" /\ DisableThen(t, FALSE)
  /\ UNCHANGED <<lifecycle, owned, calls>>

(***************************************************************************)
(* shutdown()                                                              *)
(***************************************************************************)

ShutdownCall(t) ==
  /\ t \in Stoppers
  /\ pc[t] = "idle"
  /\ Loaded
  /\ calls[t] < MaxCalls
  /\ calls' = [calls EXCEPT ![t] = @ + 1]
  /\ result' = [result EXCEPT ![t] = "pending"]
  /\ shutdownRequested' = TRUE
  /\ Goto(t, "disable")
  /\ UNCHANGED <<state, owned, hookVars>>

\* Fault: who finds Stopping waits until the cleanup is over.
BeginShutdownWaits(t) ==
  /\ pc[t] = "begin" /\ state # "Stopping"
  /\ shutdownRequested' = TRUE
  /\ state' = BeginShutdownState(state)
  /\ IF BeginShutdownCleans(state)
       THEN Goto(t, "take") /\ UNCHANGED result
       ELSE Goto(t, "idle") /\ result' = [result EXCEPT ![t] = "ok"]
  /\ UNCHANGED <<owned, hookVars, calls>>

BeginShutdown(t) ==
  /\ pc[t] = "begin"
  /\ shutdownRequested' = TRUE
  /\ state' = BeginShutdownState(state)
  /\ IF BeginShutdownCleans(state)
       THEN Goto(t, "take") /\ UNCHANGED result
       ELSE Goto(t, "idle") /\ result' = [result EXCEPT ![t] = "ok"]
  /\ UNCHANGED <<owned, hookVars, calls>>

TakeContext(t) ==
  /\ pc[t] = "take"
  /\ held' = [held EXCEPT ![t] = context]
  /\ context' = {}
  /\ Goto(t, "stopping")
  /\ UNCHANGED <<lifecycle, live, seq, hookVars, callVars>>

\* The stops run in a fixed order, the command executor last.  Each asks a subsystem to stop
\* and joins its threads: the step is the moment that returns, and nothing says that it does.
StopNext(t) ==
  /\ pc[t] = "stopping"
  /\ \E s \in held[t] :
       /\ \A r \in held[t] : StopRank[s] <= StopRank[r]
       /\ held' = [held EXCEPT ![t] = @ \ {s}]
       /\ live' = live \ {s}
  /\ UNCHANGED <<lifecycle, context, seq, hookVars, callVars, pc>>

StopDone(t) ==
  /\ pc[t] = "stopping"
  /\ held[t] = {}
  /\ Goto(t, "markStopped")
  /\ UNCHANGED <<lifecycle, owned, hookVars, callVars>>

-----------------------------------------------------------------------------

Init ==
  /\ state = "Detached"
  /\ shutdownRequested = FALSE
  /\ context = {}
  /\ live = {}
  /\ hooks = "none"
  /\ hookOwner = NoThread
  /\ pc = [t \in Threads |-> IF t = Boot THEN "unborn" ELSE "idle"]
  /\ held = [t \in Threads |-> {}]
  /\ seq = 0
  /\ calls = [t \in Stoppers |-> 0]
  /\ result = [t \in Stoppers |-> "none"]

Loader == Attach \/ AttachWithoutThread \/ DetachRequest

BootGoes ==
  \/ CheckRequest \/ AbortBegin \/ BeginBootstrap \/ StartSubsystem
  \/ StartFails \/ MarkFailed \/ AbortDone \/ CheckAgain
  \/ StoreContext \/ MarkRunning
BootStep == BootGoes \/ DropOne

ArmStep(t) ==
  ArmCheck(t) \/ ArmContext(t) \/ ArmLock(t) \/ ArmPatch(t) \/ ArmSession(t)

HookStep(t) == DisableLock(t) \/ Restore(t)

StopGoes(t) ==
  \/ BeginShutdown(t) \/ TakeContext(t) \/ StopDone(t)
  \/ MarkStoppedLoad(t) \/ MarkStoppedCas(t)

ThreadGoes(t) == ArmStep(t) \/ HookStep(t) \/ StopGoes(t)
ThreadStep(t) == ThreadGoes(t) \/ ArmPanics(t) \/ StopNext(t)

Next ==
  \/ Loader
  \/ BootStep
  \/ \E t \in Threads : ThreadStep(t) \/ ArmCall(t) \/ ShutdownCall(t)

\* A started thread keeps running, up to a join, which may wait for ever (the RPC server's
\* waits for a client that neither reads nor leaves).  Nobody is obliged to load the DLL, to
\* arm it, to ask it to stop, or to panic.
Fairness == WF_vars(BootGoes) /\ \A t \in Threads : WF_vars(ThreadGoes(t))

Spec == Init /\ [][Next]_vars /\ Fairness

-----------------------------------------------------------------------------
(***************************************************************************)
(* Properties                                                              *)
(***************************************************************************)

Labels == {"unborn", "never", "idle", "checkRequest", "abortBegin",
           "beginBootstrap", "starting", "dropFailed", "dropAborted",
           "aborted", "checkAgain", "store", "markRunning", "markStopped",
           "casStopped", "armCheck", "armContext", "armLock", "armPatch",
           "armSession", "armed", "panicked", "disable", "restore", "begin",
           "take", "stopping"}

\* Where the bootstrap thread is once it has moved the lifecycle to Running.
Bootstrapped == pc[Boot] \in {"armCheck", "armContext", "armLock", "armPatch",
                             "armSession", "armed", "panicked", "disable", "restore"}

\* Type invariant.  The HOOKS mutex is owned only by a thread that is inside
\* the patching or the restoring critical section.
TypeOK ==
  /\ state \in States
  /\ shutdownRequested \in BOOLEAN
  /\ context \in SUBSET Subsystems
  /\ live \in SUBSET Subsystems
  /\ hooks \in {"none", "installed", "partial"}
  /\ pc \in [Threads -> Labels]
  /\ hookOwner \in {NoThread} \cup {t \in Threads : pc[t] \in {"armPatch", "restore"}}
  /\ held \in [Threads -> SUBSET Subsystems]
  /\ seq \in Nat
  /\ calls \in [Stoppers -> Nat]
  /\ result \in [Stoppers -> {"none", "pending", "ok", "error"}]

\* The runtime never reports Stopping or Stopped while the process still calls
\* into this DLL through a patched import: shutdown() raises the request flag
\* before it takes the HOOKS mutex, and arming re-reads it inside the mutex.
HooksReleased == state \in {"Stopping", "Stopped"} => hooks = "none"

\* Whoever sees Running finds the context: bootstrap stores it before the CAS,
\* and only the thread that moved the state to Stopping takes it out again.
RunningHasContext == state = "Running" => "executor" \in context

\* A runtime that reached Running and reports Stopped has stopped everything
\* it had started, however many threads asked it to stop; and on the way no thread
\* that sends commands outlives the command executor it sends to.
OrderlyStop ==
  /\ Bootstrapped /\ state = "Stopped" => live = {} /\ context = {}
  /\ live \cap ExecutorHolders # {} => "executor" \in live

\* The lifecycle moves only along the transitions lifecycle.rs names: a failure
\* never overrides a shutdown and Stopped is final.
LifecycleForward ==
  [][state' # state =>
       \/ state = "Detached" /\ state' \in {"Attached", "Failed"}
       \/ state = "Attached" /\ state' \in {"Bootstrapping", "Stopping", "Failed"}
       \/ state = "Bootstrapping" /\ state' \in {"Running", "Stopping", "Failed"}
       \/ state = "Running" /\ state' \in {"Stopping", "Failed"}
       \/ state = "Failed" /\ state' = "Stopping"
       \/ state = "Stopping" /\ state' = "Stopped"]_vars

\* A shutdown() call returns, but for the one that took the context and waits for a subsystem
\* to stop.  The HOOKS mutex, an arm, the bootstrap and another shutdown() that waits hold up
\* nobody: a call that finds the cleanup under way returns.
CallReturns ==
  \A t \in Stoppers :
    result[t] = "pending" ~> (result[t] # "pending" \/ (pc[t] = "stopping" /\ held[t] # {}))

\* Contradicted by the code: README.md says the Stopped state is recorded after
\* the subsystems are stopped, so a Stopped runtime should own no live one for
\* long, unless a thread still waits for one to stop.  A shutdown() between
\* bootstrap's last look at the request flag and its store into CONTEXT finds no
\* context, and the stored one is never taken.
StoppedReleases == state = "Stopped" ~> (live = {} \/ \E t \in Threads : held[t] # {})
=============================================================================
