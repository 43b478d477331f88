---------------------------- MODULE RuntimeProofs ----------------------------
(***************************************************************************)
(* Theorems about Runtime, for any sets of stoppers and armers and any     *)
(* bound on their calls, and about SpeedExecutor, which the runtime arms    *)
(* and takes down, for any presets, commands and input samples, about      *)
(* ProfileLaunch, which gives a game its profile, for any policies, bottles *)
(* and command lines, and about RpcServer, which the runtime stops, for any *)
(* connections and any limit.  They use no fairness.                        *)
(***************************************************************************)
EXTENDS Runtime, SpeedExecutor, ProfileLaunch, RpcServer, FiniteSetTheorems, TLAPS

Critical == {"armPatch", "restore"}

\* Before the DLL is loaded every other thread is idle; a loaded DLL is not
\* Detached.
NotLoadedYet ==
  /\ ~Loaded => \A t \in Threads \ {Boot} : pc[t] = "idle"
  /\ Loaded => state # "Detached"
  /\ pc[Boot] = "unborn" => state = "Detached"

\* A thread that stops the runtime never arms it.
StoppersNeverArm ==
  \A t \in Stoppers :
    pc[t] \notin {"armCheck", "armContext", "armLock", "armPatch", "armSession"}

\* The HOOKS mutex excludes: whoever is inside is the owner.
MutexHeld == \A t \in Threads : pc[t] \in Critical => hookOwner = t

\* A stopper on its way to begin_shutdown has closed the gate, and once
\* disable_probe told it the imports are restored nobody is patching or will patch again.
GateClosed ==
  \A t \in Threads :
    /\ t \in Stoppers /\ pc[t] \in {"disable", "restore"} => shutdownRequested
    /\ pc[t] = "begin" =>
         /\ t \in Stoppers
         /\ shutdownRequested
         /\ hooks = "none"
         /\ \A u \in Threads : pc[u] \notin Critical

\* Hooks exist, and are installed or removed, only while the lifecycle is Running, or once
\* it failed in the arm at the end of bootstrap; and Running is announced only by a
\* bootstrap that went through.
Began == state = "Running" \/ (state = "Failed" /\ pc[Boot] = "panicked")

HooksOnlyRunning ==
  /\ hooks # "none" => Began
  /\ \A t \in Threads : pc[t] \in Critical => Began
  /\ state = "Running" => Bootstrapped

\* The inductive invariant: HooksReleased alone is not inductive, because a
\* step to Stopping keeps it only when the mutex and the gate exclude an arm.
IInv == TypeOK /\ NotLoadedYet /\ StoppersNeverArm /\ MutexHeld /\ GateClosed
        /\ HooksOnlyRunning

LEMMA TypeStep == TypeOK /\ [Next]_vars => TypeOK'
<1> SUFFICES ASSUME TypeOK, [Next]_vars PROVE TypeOK'
  OBVIOUS
<1> USE ThreadsAssumption DEF TypeOK, Goto, Threads, lifecycle, owned, hookVars,
        callVars, States, Labels
<1>1. CASE Attach
  BY <1>1 DEF Attach
<1>2. CASE AttachWithoutThread
  BY <1>2 DEF AttachWithoutThread, MarkFailedState
<1>3. CASE DetachRequest
  BY <1>3 DEF DetachRequest
<1>4. CASE CheckRequest
  BY <1>4 DEF CheckRequest
<1>5. CASE AbortBegin
  BY <1>5 DEF AbortBegin, BeginShutdownState
<1>6. CASE BeginBootstrap
  BY <1>6 DEF BeginBootstrap, MarkFailedState
<1>7. CASE StartSubsystem
  <2>1. PICK s \in Subsystems :
          \/ held' = [held EXCEPT ![Boot] = @ \cup {s}] /\ live' = live \cup {s}
          \/ UNCHANGED <<held, live>>
    BY <1>7 DEF StartSubsystem
  <2>2. held' \in [Threads -> SUBSET Subsystems] /\ live' \in SUBSET Subsystems
    BY <2>1
  <2>3. pc' \in [Threads -> Labels] /\ seq' \in Nat
    BY <1>7 DEF StartSubsystem
  <2>. QED
    BY <1>7, <2>2, <2>3 DEF StartSubsystem
<1>8. CASE StartFails
  BY <1>8 DEF StartFails
<1>9. CASE DropOne
  BY <1>9 DEF DropOne
<1>10. CASE MarkFailed
  BY <1>10 DEF MarkFailed, MarkFailedState
<1>11. CASE AbortDone
  BY <1>11 DEF AbortDone
<1>12. CASE CheckAgain
  BY <1>12 DEF CheckAgain
<1>13. CASE StoreContext
  BY <1>13 DEF StoreContext
<1>14. CASE MarkRunning
  BY <1>14 DEF MarkRunning, MarkFailedState
<1>15. ASSUME NEW t \in Threads, ArmCheck(t) PROVE TypeOK'
  BY <1>15 DEF ArmCheck, ArmDone
<1>16. ASSUME NEW t \in Threads, ArmContext(t) PROVE TypeOK'
  BY <1>16 DEF ArmContext, ArmDone
<1>17. ASSUME NEW t \in Threads, ArmLock(t) PROVE TypeOK'
  BY <1>17 DEF ArmLock, ArmDone
<1>18. ASSUME NEW t \in Threads, ArmPatch(t) PROVE TypeOK'
  BY <1>18 DEF ArmPatch, ArmDone
<1>19. ASSUME NEW t \in Threads, ArmSession(t) PROVE TypeOK'
  BY <1>19 DEF ArmSession, ArmDone
<1>20. ASSUME NEW t \in Threads, DisableLock(t) PROVE TypeOK'
  BY <1>20 DEF DisableLock, DisableThen, ArmDone
<1>21. ASSUME NEW t \in Threads, Restore(t) PROVE TypeOK'
  BY <1>21 DEF Restore, DisableThen, ArmDone
<1>22. ASSUME NEW t \in Threads, BeginShutdown(t) PROVE TypeOK'
  BY <1>22 DEF BeginShutdown, BeginShutdownState, BeginShutdownCleans
<1>23. ASSUME NEW t \in Threads, TakeContext(t) PROVE TypeOK'
  BY <1>23 DEF TakeContext
<1>24. ASSUME NEW t \in Threads, StopNext(t) PROVE TypeOK'
  BY <1>24 DEF StopNext
<1>25. ASSUME NEW t \in Threads, StopDone(t) PROVE TypeOK'
  BY <1>25 DEF StopDone
<1>26. ASSUME NEW t \in Threads, MarkStoppedLoad(t) PROVE TypeOK'
  BY <1>26 DEF MarkStoppedLoad, MarkStoppedThen
<1>27. ASSUME NEW t \in Threads, MarkStoppedCas(t) PROVE TypeOK'
  BY <1>27 DEF MarkStoppedCas, MarkStoppedThen
<1>28. ASSUME NEW t \in Threads, ArmCall(t) PROVE TypeOK'
  BY <1>28 DEF ArmCall
<1>29. ASSUME NEW t \in Threads, ShutdownCall(t) PROVE TypeOK'
  BY <1>29 DEF ShutdownCall
<1>30. CASE UNCHANGED vars
  BY <1>30 DEF vars
<1>31. ASSUME NEW t \in Threads, ArmPanics(t) PROVE TypeOK'
  BY <1>31 DEF ArmPanics, ArmDone, MarkFailedState
<1>. QED
  BY <1>1, <1>2, <1>3, <1>4, <1>5, <1>6, <1>7, <1>8, <1>9, <1>10, <1>11, <1>12,
     <1>13, <1>14, <1>15, <1>16, <1>17, <1>18, <1>19, <1>20, <1>21, <1>22, <1>23,
     <1>24, <1>25, <1>26, <1>27, <1>28, <1>29, <1>30, <1>31
     DEF Next, Loader, BootStep, BootGoes, ThreadStep, ThreadGoes, ArmStep, HookStep, StopGoes

LEMMA InvStep == IInv /\ [Next]_vars => IInv'
<1> SUFFICES ASSUME IInv, [Next]_vars PROVE IInv'
  OBVIOUS
<1>0. TypeOK'
  BY TypeStep DEF IInv
<1> DEFINE Rest == NotLoadedYet /\ StoppersNeverArm /\ MutexHeld /\ GateClosed /\ HooksOnlyRunning
<1> SUFFICES Rest'
  BY <1>0 DEF IInv
<1> USE <1>0, ThreadsAssumption DEF IInv, TypeOK, Goto, Threads, lifecycle, owned, hookVars,
        callVars, Labels, NotLoadedYet, StoppersNeverArm, MutexHeld, GateClosed, HooksOnlyRunning, Began,
        Loaded, Bootstrapped, Critical
<1>1. CASE Attach
  BY <1>1 DEF Attach
<1>2. CASE AttachWithoutThread
  BY <1>2 DEF AttachWithoutThread, MarkFailedState
<1>3. CASE DetachRequest
  BY <1>3 DEF DetachRequest
<1>4. CASE CheckRequest
  BY <1>4 DEF CheckRequest
<1>5. CASE AbortBegin
  BY <1>5 DEF AbortBegin, BeginShutdownState
<1>6. CASE BeginBootstrap
  BY <1>6 DEF BeginBootstrap, MarkFailedState
<1>7. CASE StartSubsystem
  BY <1>7 DEF StartSubsystem
<1>8. CASE StartFails
  BY <1>8 DEF StartFails
<1>9. CASE DropOne
  BY <1>9 DEF DropOne
<1>10. CASE MarkFailed
  BY <1>10 DEF MarkFailed, MarkFailedState
<1>11. CASE AbortDone
  BY <1>11 DEF AbortDone
<1>12. CASE CheckAgain
  BY <1>12 DEF CheckAgain
<1>13. CASE StoreContext
  BY <1>13 DEF StoreContext
<1>14. CASE MarkRunning
  BY <1>14 DEF MarkRunning, MarkFailedState
<1>15. ASSUME NEW t \in Threads, ArmCheck(t) PROVE Rest'
  BY <1>15 DEF ArmCheck, ArmDone
<1>16. ASSUME NEW t \in Threads, ArmContext(t) PROVE Rest'
  BY <1>16 DEF ArmContext, ArmDone
<1>17. ASSUME NEW t \in Threads, ArmLock(t) PROVE Rest'
  BY <1>17 DEF ArmLock, ArmDone
<1>18. ASSUME NEW t \in Threads, ArmPatch(t) PROVE Rest'
  BY <1>18 DEF ArmPatch, ArmDone
<1>19. ASSUME NEW t \in Threads, ArmSession(t) PROVE Rest'
  BY <1>19 DEF ArmSession, ArmDone
<1>20. ASSUME NEW t \in Threads, DisableLock(t) PROVE Rest'
  <2>1. CASE hooks = "none"
    <3>1. hooks' = hooks /\ hookOwner' = NoThread /\ state' = state
          /\ shutdownRequested' = shutdownRequested
      BY <1>20, <2>1 DEF DisableLock
    <3>2. PICK label \in {"begin", "idle", "armed"} :
            /\ pc' = [pc EXCEPT ![t] = label]
            /\ label = "begin" => t \in Stoppers
            /\ t = Boot <=> label = "armed"
      BY <1>20, <2>1 DEF DisableLock, DisableThen, ArmDone
    <3>3. pc[t] = "disable" /\ hookOwner = NoThread
      BY <1>20 DEF DisableLock
    <3>. QED
      BY <2>1, <3>1, <3>2, <3>3
  <2>2. CASE hooks # "none"
    BY <1>20, <2>2 DEF DisableLock
  <2>. QED
    BY <2>1, <2>2
<1>21. ASSUME NEW t \in Threads, Restore(t) PROVE Rest'
  <2>1. pc[t] = "restore" /\ hookOwner = t /\ hookOwner' = NoThread /\ state' = state
        /\ shutdownRequested' = shutdownRequested
    BY <1>21 DEF Restore
  <2>2. PICK label \in {"begin", "idle", "armed"} :
          /\ pc' = [pc EXCEPT ![t] = label]
          /\ label = "begin" => t \in Stoppers /\ hooks' = "none"
          /\ t = Boot <=> label = "armed"
    BY <1>21 DEF Restore, DisableThen, ArmDone
  <2>3. Began
    BY <2>1
  <2>. QED
    BY <2>1, <2>2, <2>3
<1>22. ASSUME NEW t \in Threads, BeginShutdown(t) PROVE Rest'
  BY <1>22 DEF BeginShutdown, BeginShutdownState, BeginShutdownCleans
<1>23. ASSUME NEW t \in Threads, TakeContext(t) PROVE Rest'
  BY <1>23 DEF TakeContext
<1>24. ASSUME NEW t \in Threads, StopNext(t) PROVE Rest'
  BY <1>24 DEF StopNext
<1>25. ASSUME NEW t \in Threads, StopDone(t) PROVE Rest'
  BY <1>25 DEF StopDone
<1>26. ASSUME NEW t \in Threads, MarkStoppedLoad(t) PROVE Rest'
  BY <1>26 DEF MarkStoppedLoad, MarkStoppedThen
<1>27. ASSUME NEW t \in Threads, MarkStoppedCas(t) PROVE Rest'
  BY <1>27 DEF MarkStoppedCas, MarkStoppedThen
<1>28. ASSUME NEW t \in Threads, ArmCall(t) PROVE Rest'
  BY <1>28 DEF ArmCall
<1>29. ASSUME NEW t \in Threads, ShutdownCall(t) PROVE Rest'
  BY <1>29 DEF ShutdownCall
<1>30. CASE UNCHANGED vars
  BY <1>30 DEF vars
<1>31. ASSUME NEW t \in Threads, ArmPanics(t) PROVE Rest'
  BY <1>31 DEF ArmPanics, ArmDone, MarkFailedState
<1>. QED
  BY <1>1, <1>2, <1>3, <1>4, <1>5, <1>6, <1>7, <1>8, <1>9, <1>10, <1>11, <1>12,
     <1>13, <1>14, <1>15, <1>16, <1>17, <1>18, <1>19, <1>20, <1>21, <1>22, <1>23,
     <1>24, <1>25, <1>26, <1>27, <1>28, <1>29, <1>30, <1>31
     DEF Next, Loader, BootStep, BootGoes, ThreadStep, ThreadGoes, ArmStep, HookStep, StopGoes

LEMMA InvInit == Init => IInv
<1> SUFFICES ASSUME Init PROVE IInv
  OBVIOUS
<1> USE ThreadsAssumption DEF Init, Threads
<1>1. TypeOK
  BY DEF TypeOK, States, Labels
<1>2. NotLoadedYet /\ StoppersNeverArm /\ MutexHeld /\ GateClosed /\ HooksOnlyRunning
  BY DEF NotLoadedYet, StoppersNeverArm, MutexHeld, GateClosed, HooksOnlyRunning, Began,
         Loaded, Bootstrapped, Critical
<1>. QED
  BY <1>1, <1>2 DEF IInv

LEMMA InvAlways == Spec => []IInv
  BY InvInit, InvStep, PTL DEF Spec

\* Every reachable state has the types the module declares, and the HOOKS mutex
\* is owned only by a thread inside one of its critical sections.
THEOREM TypeCorrect == Spec => []TypeOK
<1>1. IInv => TypeOK
  BY DEF IInv
<1>. QED
  BY <1>1, InvAlways, PTL

\* For any number of threads: whoever reads Stopping or Stopped may rely on the
\* timer imports of the game being the original ones (shutdown() in runtime.rs,
\* enable_hook_set_with_fault and disable_probe in experimental_timer_probe.rs).
THEOREM HooksReleasedAlways == Spec => []HooksReleased
<1>1. IInv => HooksReleased
  BY DEF IInv, HooksOnlyRunning, Began, HooksReleased
<1>. QED
  BY <1>1, InvAlways, PTL

\* One transition of the lifecycle, as LifecycleForward allows it.
Forward ==
  state' # state =>
    \/ state = "Detached" /\ state' \in {"Attached", "Failed"}
    \/ state = "Attached" /\ state' \in {"Bootstrapping", "Stopping", "Failed"}
    \/ state = "Bootstrapping" /\ state' \in {"Running", "Stopping", "Failed"}
    \/ state = "Running" /\ state' \in {"Stopping", "Failed"}
    \/ state = "Failed" /\ state' = "Stopping"
    \/ state = "Stopping" /\ state' = "Stopped"

LEMMA ForwardStep == IInv /\ [Next]_vars => Forward
<1> SUFFICES ASSUME IInv, Next PROVE Forward
  BY DEF Forward, vars
<1> USE DEF Forward, IInv, TypeOK, States, lifecycle
<1>1. Loaded => state # "Detached"
  BY DEF NotLoadedYet
<1>2. state = "Running" => Bootstrapped
  BY DEF HooksOnlyRunning
<1>3. CASE Loader
  BY <1>3 DEF Loader, Attach, AttachWithoutThread, DetachRequest, MarkFailedState
<1>4. CASE BootStep
  BY <1>1, <1>2, <1>4 DEF BootStep, BootGoes, CheckRequest, AbortBegin, BeginBootstrap, StartSubsystem,
     StartFails, DropOne, MarkFailed, AbortDone, CheckAgain, StoreContext, MarkRunning,
     Loaded, Bootstrapped, BeginShutdownState, MarkFailedState
<1>5. ASSUME NEW t \in Threads, ArmStep(t) \/ HookStep(t) \/ ArmCall(t) \/ ShutdownCall(t)
      PROVE state' = state
  BY <1>5 DEF ArmStep, HookStep, ArmCall, ArmCheck, ArmContext, ArmLock, ArmPatch, ArmSession,
     DisableLock, Restore, ShutdownCall
<1>6. ASSUME NEW t \in Threads, BeginShutdown(t) PROVE Forward
  <2>1. t # Boot /\ pc[t] # "idle"
    BY <1>6, ThreadsAssumption DEF BeginShutdown, GateClosed
  <2>2. Loaded
    BY <2>1 DEF NotLoadedYet
  <2>. QED
    BY <1>1, <1>6, <2>2 DEF BeginShutdown, BeginShutdownState
<1>7. ASSUME NEW t \in Threads, StopGoes(t) \/ StopNext(t), ~BeginShutdown(t) PROVE Forward
  BY <1>7 DEF StopGoes, TakeContext, StopNext, StopDone, MarkStoppedLoad, MarkStoppedCas
<1>8. ASSUME NEW t \in Threads, ArmPanics(t) PROVE Forward
  BY <1>1, <1>8 DEF ArmPanics, MarkFailedState, Loaded
<1>. QED
  BY <1>3, <1>4, <1>5, <1>6, <1>7, <1>8 DEF Next, ThreadStep, ThreadGoes

\* For any number of threads the lifecycle only moves along the transitions of
\* lifecycle.rs: mark_failed never overrides a shutdown, and Stopped is final.
THEOREM LifecycleForwardAlways == Spec => LifecycleForward
<1>1. IInv /\ [Next]_vars => [Forward]_vars
  BY ForwardStep
<1>. QED
  BY <1>1, InvAlways, PTL DEF Spec, LifecycleForward, Forward

\* Before its store the bootstrap thread alone has started anything, and it has not
\* stored it; elsewhere it owns nothing.
Storing == {"starting", "dropFailed", "dropAborted", "checkAgain", "store", "abortBegin",
            "markStopped", "casStopped"}

NotStored ==
  /\ pc[Boot] \in Storing \cup {"unborn", "never", "checkRequest", "beginBootstrap"} =>
       context = {} /\ \A t \in Threads \ {Boot} : held[t] = {}
  /\ pc[Boot] \notin Storing => held[Boot] = {}
  /\ pc[Boot] \in {"unborn", "never", "checkRequest", "beginBootstrap"} => seq = 0
  /\ pc[Boot] \in {"checkAgain", "store"} \/ (pc[Boot] = "starting" /\ seq # 0) =>
       "executor" \in held[Boot]

\* What lives has one owner: the context, the bootstrap thread or one stopper.
OneOwner ==
  /\ \A t \in Threads : held[t] # {} =>
       /\ context = {} /\ live = held[t]
       /\ \A u \in Threads \ {t} : held[u] = {}
       /\ t # Boot => pc[t] = "stopping"
  /\ context # {} => live = context
  /\ context = {} /\ (\A t \in Threads : held[t] = {}) => live = {}

\* Threads that send commands go before the executor.
ExecutorLast == live \cap ExecutorHolders # {} => "executor" \in live

\* From a stored context to the first step to Stopping the context is complete, and
\* only one thread takes that step.
Cleaning == {"take", "stopping", "markStopped", "casStopped"}

OneCleaner ==
  /\ pc[Boot] = "markRunning" \/ Bootstrapped =>
       (state \in {"Bootstrapping", "Running", "Failed"} => "executor" \in context)
  /\ \A t \in Threads \ {Boot} : pc[t] \in Cleaning =>
       /\ state \in {"Stopping", "Stopped"}
       /\ \A u \in Threads \ {Boot, t} : pc[u] \notin Cleaning
  /\ Bootstrapped => state \in {"Running", "Stopping", "Stopped"} \/ Began
  /\ pc[Boot] \notin {"take", "stopping"}

\* How far that thread has come with a runtime that was Running.
Cleaned ==
  Bootstrapped =>
    /\ Began => live = context
    /\ state = "Stopped" => live = {} /\ context = {}
    /\ \A t \in Threads \ {Boot} :
         /\ pc[t] = "take" => live = context
         /\ pc[t] = "stopping" => context = {} /\ live = held[t]
         /\ pc[t] \in {"markStopped", "casStopped"} => context = {} /\ live = {}

Own == NotStored /\ OneOwner /\ ExecutorLast /\ OneCleaner /\ Cleaned

LEMMA OwnStep == IInv /\ IInv' /\ Own /\ [Next]_vars => Own'
<1> SUFFICES ASSUME IInv, IInv', Own, [Next]_vars PROVE Own'
  OBVIOUS
<1> USE ThreadsAssumption DEF IInv, TypeOK, Goto, Threads, lifecycle, owned, hookVars, callVars,
        Labels, StoppersNeverArm, HooksOnlyRunning, Began, GateClosed, NotLoadedYet, Loaded,
        Bootstrapped, Own, NotStored, OneOwner, ExecutorLast, OneCleaner, Cleaned, Storing, Cleaning
<1>1. CASE Attach
  BY <1>1 DEF Attach
<1>2. CASE AttachWithoutThread
  BY <1>2 DEF AttachWithoutThread, MarkFailedState
<1>3. CASE DetachRequest
  BY <1>3 DEF DetachRequest
<1>4. CASE CheckRequest
  BY <1>4 DEF CheckRequest
<1>5. CASE AbortBegin
  BY <1>5 DEF AbortBegin, BeginShutdownState
<1>6. CASE BeginBootstrap
  BY <1>6 DEF BeginBootstrap, MarkFailedState
<1>7. CASE StartSubsystem
  <2>1. PICK s \in Subsystems :
          /\ StartRank[s] = seq + 1
          /\ \/ held' = [held EXCEPT ![Boot] = @ \cup {s}] /\ live' = live \cup {s}
             \/ s # "executor" /\ UNCHANGED <<held, live>>
    BY <1>7 DEF StartSubsystem
  <2>2. /\ pc[Boot] = "starting" /\ context = {} /\ context' = {}
        /\ \A t \in Threads \ {Boot} : held[t] = {}
        /\ seq' = seq + 1 /\ state' = state
        /\ pc' \in {[pc EXCEPT ![Boot] = "starting"], [pc EXCEPT ![Boot] = "checkAgain"]}
    BY <1>7 DEF StartSubsystem
  <2>3. live = held[Boot]
    BY <2>2
  <2>4. s = "executor" \/ "executor" \in held[Boot]
    BY <2>1, <2>2 DEF Subsystems, StartRank
  <2>5. held' = [held EXCEPT ![Boot] = live'] /\ "executor" \in live'
    <3>1. CASE held' = [held EXCEPT ![Boot] = @ \cup {s}] /\ live' = live \cup {s}
      BY <2>3, <2>4, <3>1
    <3>2. CASE s # "executor" /\ UNCHANGED <<held, live>>
      <4>1. held = [held EXCEPT ![Boot] = held[Boot]]
        OBVIOUS
      <4>. QED
        BY <2>3, <2>4, <3>2, <4>1
    <3>. QED
      BY <2>1, <3>1, <3>2
  <2>6. NotStored' /\ ExecutorLast'
    BY <2>2, <2>5
  <2>7. OneOwner'
    BY <2>2, <2>5
  <2>8. OneCleaner' /\ Cleaned'
    BY <2>2
  <2>. QED
    BY <2>6, <2>7, <2>8
<1>8. CASE StartFails
  BY <1>8 DEF StartFails
<1>9. CASE DropOne
  BY <1>9 DEF DropOne
<1>10. CASE MarkFailed
  BY <1>10 DEF MarkFailed, MarkFailedState
<1>11. CASE AbortDone
  BY <1>11 DEF AbortDone
<1>12. CASE CheckAgain
  BY <1>12 DEF CheckAgain
<1>13. CASE StoreContext
  BY <1>13 DEF StoreContext
<1>14. CASE MarkRunning
  BY <1>14 DEF MarkRunning, MarkFailedState
<1>15. ASSUME NEW t \in Threads, ArmCheck(t) PROVE Own'
  BY <1>15 DEF ArmCheck, ArmDone
<1>16. ASSUME NEW t \in Threads, ArmContext(t) PROVE Own'
  BY <1>16 DEF ArmContext, ArmDone
<1>17. ASSUME NEW t \in Threads, ArmLock(t) PROVE Own'
  BY <1>17 DEF ArmLock, ArmDone
<1>18. ASSUME NEW t \in Threads, ArmPatch(t) PROVE Own'
  BY <1>18 DEF ArmPatch, ArmDone
<1>19. ASSUME NEW t \in Threads, ArmSession(t) PROVE Own'
  BY <1>19 DEF ArmSession, ArmDone
<1>20. ASSUME NEW t \in Threads, DisableLock(t) PROVE Own'
  BY <1>20 DEF DisableLock, DisableThen, ArmDone
<1>21. ASSUME NEW t \in Threads, Restore(t) PROVE Own'
  BY <1>21 DEF Restore, DisableThen, ArmDone
<1>22. ASSUME NEW t \in Threads, BeginShutdown(t) PROVE Own'
  BY <1>22 DEF BeginShutdown, BeginShutdownState, BeginShutdownCleans
<1>23. ASSUME NEW t \in Threads, TakeContext(t) PROVE Own'
  <2>1. /\ pc[t] = "take" /\ t # Boot /\ held' = [held EXCEPT ![t] = context] /\ context' = {}
        /\ pc' = [pc EXCEPT ![t] = "stopping"]
        /\ state' = state /\ live' = live /\ seq' = seq
    BY <1>23 DEF TakeContext
  <2>2. held[t] = {}
    BY <2>1
  <2>3. NotStored' /\ ExecutorLast' /\ OneCleaner'
    BY <2>1
  <2>4. OneOwner'
    BY <2>1, <2>2
  <2>5. Cleaned'
    BY <2>1
  <2>. QED
    BY <2>3, <2>4, <2>5
<1>24. ASSUME NEW t \in Threads, StopNext(t) PROVE Own'
  <2>1. PICK s \in held[t] :
          /\ \A r \in held[t] : StopRank[s] <= StopRank[r]
          /\ held' = [held EXCEPT ![t] = @ \ {s}] /\ live' = live \ {s}
    BY <1>24 DEF StopNext
  <2>2. /\ pc[t] = "stopping" /\ t # Boot
        /\ UNCHANGED <<pc, state, context, seq>>
    BY <1>24 DEF StopNext
  <2>3. /\ context = {} /\ live = held[t]
        /\ \A u \in Threads \ {t} : held[u] = {}
    BY <2>1
  <2>4. held' = [held EXCEPT ![t] = live']
    BY <2>1, <2>3
  <2>5. s = "executor" => held[t] \cap ExecutorHolders = {}
    BY <2>1 DEF StopRank, ExecutorHolders
  <2>6. ExecutorLast'
    BY <2>1, <2>3, <2>5
  <2>7. NotStored' /\ OneCleaner'
    BY <2>1, <2>2, <2>3
  <2>8. OneOwner'
    BY <2>2, <2>3, <2>4
  <2>9. Cleaned'
    BY <2>2, <2>3, <2>4
  <2>. QED
    BY <2>6, <2>7, <2>8, <2>9
<1>25. ASSUME NEW t \in Threads, StopDone(t) PROVE Own'
  <2>1. /\ pc[t] = "stopping" /\ t # Boot /\ held[t] = {}
        /\ pc' = [pc EXCEPT ![t] = "markStopped"]
        /\ UNCHANGED <<held, live, state, context, seq>>
    BY <1>25 DEF StopDone
  <2>2. NotStored' /\ ExecutorLast' /\ OneCleaner'
    BY <2>1
  <2>3. OneOwner' /\ Cleaned'
    BY <2>1
  <2>. QED
    BY <2>2, <2>3
<1>26. ASSUME NEW t \in Threads, MarkStoppedLoad(t) PROVE Own'
  BY <1>26 DEF MarkStoppedLoad, MarkStoppedThen
<1>27. ASSUME NEW t \in Threads, MarkStoppedCas(t) PROVE Own'
  BY <1>27 DEF MarkStoppedCas, MarkStoppedThen
<1>28. ASSUME NEW t \in Threads, ArmCall(t) PROVE Own'
  BY <1>28 DEF ArmCall
<1>29. ASSUME NEW t \in Threads, ShutdownCall(t) PROVE Own'
  BY <1>29 DEF ShutdownCall
<1>30. CASE UNCHANGED vars
  BY <1>30 DEF vars
<1>31. ASSUME NEW t \in Threads, ArmPanics(t) PROVE Own'
  BY <1>31 DEF ArmPanics, ArmDone, MarkFailedState
<1>. QED
  BY <1>1, <1>2, <1>3, <1>4, <1>5, <1>6, <1>7, <1>8, <1>9, <1>10, <1>11, <1>12, <1>13, <1>14, <1>15, <1>16, <1>17, <1>18, <1>19, <1>20, <1>21, <1>22, <1>23, <1>24, <1>25, <1>26, <1>27, <1>28, <1>29, <1>30, <1>31
     DEF Next, Loader, BootStep, BootGoes, ThreadStep, ThreadGoes, ArmStep, HookStep, StopGoes

LEMMA OwnInit == Init => Own
<1> SUFFICES ASSUME Init PROVE Own
  OBVIOUS
<1>. QED
  BY ThreadsAssumption DEF Init, Threads, Own, NotStored, OneOwner, ExecutorLast, OneCleaner, Cleaned,
     Storing, Cleaning, Bootstrapped, Began

LEMMA OwnAlways == Spec => []Own
<1>1. IInv /\ [Next]_vars => IInv'
  BY InvStep
<1>. QED
  BY <1>1, OwnInit, OwnStep, InvAlways, PTL DEF Spec

\* For any number of threads: whoever reads Running finds the executor in CONTEXT, because
\* bootstrap() stores it first and only the cleaner of shutdown() takes it out.
THEOREM RunningHasContextAlways == Spec => []RunningHasContext
<1>1. IInv /\ Own => RunningHasContext
  BY DEF IInv, HooksOnlyRunning, Own, OneCleaner, RunningHasContext
<1>. QED
  BY <1>1, InvAlways, OwnAlways, PTL

\* For any number of threads that call shutdown(), a runtime that was Running and is Stopped
\* has nothing left, and what sends commands never outlives the command executor.
THEOREM OrderlyStopAlways == Spec => []OrderlyStop
<1>1. Own => OrderlyStop
  BY DEF Own, Cleaned, ExecutorLast, OrderlyStop
<1>. QED
  BY <1>1, OwnAlways, PTL

-----------------------------------------------------------------------------
(***************************************************************************)
(* SpeedExecutor: what its sessions look like, and what an action makes of  *)
(* one as far as its rate goes.                                             *)
(***************************************************************************)

Controls == [selected : Nat, previous : Nat, bypassed : BOOLEAN, held : Nat]

Admitted == {a \in Actions : Accepts(a)}

\* As much of a session's shape as its rate depends on.
Session(s) ==
  /\ DOMAIN s = {"controls", "clock", "hold", "startup"}
  /\ s.controls \in Controls /\ s.hold \in Deadlines /\ s.startup \in Deadlines
  /\ s.controls.held = NoRate <=> s.hold = Never

Phases ==
  /\ now \in 0 .. MaxNow /\ reading \in 0 .. now /\ failures \in Nat
  /\ gate \in BOOLEAN /\ installed \in BOOLEAN /\ present \in BOOLEAN
  /\ gate <=> stopping # "running"
  /\ arming = "reset" <=> holder = "arm"

Sessions ==
  /\ Session(preview) /\ Session(clock) /\ clock.startup = Never
  /\ Profiled \/ preview.startup = Never

Queued ==
  /\ todo \in Seq(Actions) /\ pending \in Seq(Admitted)
  /\ (\A i \in 1 .. Len(todo) : Accepts(todo[i])) \/ (Len(todo) = 1 /\ pending = <<>>)
  /\ holder = "command" \/ (todo = <<>> /\ pending = <<>>)

ExecutorShape == Phases /\ Sessions /\ Queued

-----------------------------------------------------------------------------
LEMMA ExecutorNumbers ==
  /\ Unit \in Nat \ {0} /\ Steps \subseteq Nat \ {0} /\ MaxTick \in Nat \ {0} /\ MaxNow \in 0 .. MaxTick
  /\ NoRate = 0 /\ Never = MaxTick + 1 /\ Deadlines = 0 .. MaxTick + 1
  /\ Never \in Deadlines
BY SettingsAssumption, ExecutorAssumption DEF NoRate, Never, Deadlines, Ticks

LEMMA NearestSteps ==
  ASSUME NEW S \in SUBSET Steps, S # {}
  PROVE  Lowest(S) \in Steps /\ Highest(S) \in Steps
<1>1. PICK low \in S : \A s \in S : low <= s
  BY SettingsAssumption
<1>2. PICK high \in S : \A s \in S : s <= high
  BY SettingsAssumption
<1>. QED
  BY <1>1, <1>2 DEF Lowest, Highest

LEMMA EndHoldOnly ==
  ASSUME NEW k \in Controls
  PROVE  /\ EndHold(k) \in Controls /\ EndHold(k).held = NoRate /\ EndHold(EndHold(k)) = EndHold(k)
         /\ EndHold(k).selected = k.selected /\ EndHold(k).previous = k.previous
         /\ EndHold(k).bypassed = k.bypassed
         /\ k.held = NoRate => EndHold(k) = k
BY DEF Controls, EndHold, NoRate

LEMMA ActivateOnly ==
  ASSUME NEW k \in Controls, NEW rate \in Steps
  PROVE  /\ Activate(k, rate) \in Controls /\ Activate(k, rate).held = NoRate
         /\ Activate(EndHold(k), rate) = Activate(k, rate)
<1>1. EndHold(k).previous = k.previous /\ rate \in Nat
  BY EndHoldOnly, ExecutorNumbers
<1>. QED
  BY <1>1 DEF Activate, Controls, NoRate

\* What an action leaves in force beside a hold does not depend on the hold before.
Onto(k, a) == EndHold(After(k, a))

LEMMA AfterOnly ==
  ASSUME NEW k \in Controls, NEW a \in Admitted
  PROVE  /\ After(k, a) \in Controls
         /\ After(k, a).held = NoRate <=> a.kind # "hold"
         /\ Onto(EndHold(k), a) = Onto(k, a)
<1>1. a \in Actions /\ Accepts(a)
  BY DEF Admitted
<1>2. PICK e \in Controls : /\ e = EndHold(k) /\ e.held = NoRate /\ EndHold(e) = e
                            /\ e.selected = k.selected /\ e.previous = k.previous
                            /\ e.bypassed = k.bypassed
  BY EndHoldOnly
<1>3. CASE a.kind = "hold"
  <2>1. a.rate \in Nat \ {0}
    BY <1>1, <1>3, ExecutorNumbers DEF Accepts
  <2>2. After(k, a) = [k EXCEPT !.held = a.rate] /\ After(e, a) = [e EXCEPT !.held = a.rate]
    BY <1>3 DEF After, BeginHold
  <2>3. After(k, a) \in Controls /\ After(k, a).held = a.rate
    BY <2>1, <2>2 DEF Controls
  <2>4. Onto(e, a) = Onto(k, a)
    BY <1>2, <2>1, <2>2 DEF Onto, EndHold, Controls
  <2>. QED
    BY <1>2, <1>3, <2>1, <2>3, <2>4, ExecutorNumbers
<1>4. CASE a.kind = "select"
  <2>1. a.rate \in Steps /\ After(k, a) = Activate(k, a.rate) /\ After(e, a) = Activate(e, a.rate)
    BY <1>1, <1>4 DEF Accepts, After
  <2>. QED
    BY <1>2, <1>4, <2>1, ActivateOnly DEF Onto
<1>5. CASE a.kind = "increase"
  <2>1. PICK S \in SUBSET Steps : S = {s \in Steps : s > Effective(e)}
    OBVIOUS
  <2>2. /\ After(k, a) = IF S = {} THEN e ELSE Activate(k, Lowest(S))
        /\ After(e, a) = IF S = {} THEN e ELSE Activate(e, Lowest(S))
    BY <1>2, <1>5, <2>1 DEF After, Increase
  <2>3. CASE S = {}
    BY <1>2, <1>5, <2>2, <2>3 DEF Onto
  <2>4. CASE S # {}
    <3>1. PICK low \in Steps : low = Lowest(S)
      BY <2>1, <2>4, NearestSteps
    <3>2. After(k, a) = Activate(k, low) /\ After(e, a) = Activate(k, low)
      BY <1>2, <2>2, <2>4, <3>1, ActivateOnly
    <3>3. Activate(k, low) \in Controls /\ Activate(k, low).held = NoRate
      BY ActivateOnly
    <3>. QED
      BY <1>2, <1>5, <3>2, <3>3 DEF Onto
  <2>. QED
    BY <2>3, <2>4
<1>6. CASE a.kind = "decrease"
  <2>1. PICK S \in SUBSET Steps : S = {s \in Steps : s < Effective(e)}
    OBVIOUS
  <2>2. /\ After(k, a) = IF S = {} THEN e ELSE Activate(k, Highest(S))
        /\ After(e, a) = IF S = {} THEN e ELSE Activate(e, Highest(S))
    BY <1>2, <1>6, <2>1 DEF After, Decrease
  <2>3. CASE S = {}
    BY <1>2, <1>6, <2>2, <2>3 DEF Onto
  <2>4. CASE S # {}
    <3>1. PICK high \in Steps : high = Highest(S)
      BY <2>1, <2>4, NearestSteps
    <3>2. After(k, a) = Activate(k, high) /\ After(e, a) = Activate(k, high)
      BY <1>2, <2>2, <2>4, <3>1, ActivateOnly
    <3>3. Activate(k, high) \in Controls /\ Activate(k, high).held = NoRate
      BY ActivateOnly
    <3>. QED
      BY <1>2, <1>6, <3>2, <3>3 DEF Onto
  <2>. QED
    BY <2>3, <2>4
<1>7. CASE a.kind = "toggle"
  <2>1. After(k, a) = Toggle(k) /\ After(e, a) = Toggle(e)
    BY <1>7 DEF After
  <2>2. Toggle(e) = Toggle(k)
    BY <1>2 DEF Toggle
  <2>3. Toggle(k) \in Controls /\ Toggle(k).held = NoRate
    <3>1. /\ [e EXCEPT !.bypassed = TRUE] \in Controls
          /\ [e EXCEPT !.bypassed = TRUE].held = NoRate
          /\ [e EXCEPT !.selected = k.previous, !.bypassed = FALSE] \in Controls
          /\ [e EXCEPT !.selected = k.previous, !.bypassed = FALSE].held = NoRate
      BY <1>2 DEF Controls
    <3>. QED
      BY <1>2, <3>1 DEF Toggle, Controls
  <2>. QED
    BY <1>2, <1>7, <2>1, <2>2, <2>3 DEF Onto
<1>8. CASE a.kind = "release"
  BY <1>2, <1>8 DEF After, Onto
<1>9. CASE a.kind \in {"reset", "focusLost"}
  <2>1. After(k, a) = Reset(k) /\ After(e, a) = Reset(e) /\ Reset(e) = Reset(k)
    BY <1>2, <1>9 DEF After, Reset
  <2>2. Reset(k) \in Controls /\ Reset(k).held = NoRate
    BY <1>2, ExecutorNumbers DEF Reset, Controls
  <2>. QED
    BY <1>2, <1>9, <2>1, <2>2 DEF Onto
<1>. QED
  BY <1>1, <1>3, <1>4, <1>5, <1>6, <1>7, <1>8, <1>9 DEF Actions

\* A deadline that passes ends what it limits.
LEMMA AdvanceOnly ==
  ASSUME NEW s, Session(s), NEW r \in Ticks
  PROVE  /\ Session(Advance(s, r))
         /\ s.startup = Never =>
              /\ Advance(s, r).startup = Never
              /\ EndHold(Advance(s, r).controls) = EndHold(s.controls)
              /\ s.hold <= r => Advance(s, r).hold = Never
              /\ ~(s.hold <= r) => Advance(s, r).hold = s.hold
<1>. USE ExecutorNumbers
<1>1. PICK m : m = IF s.hold <= r /\ s.hold < s.startup
                     THEN Switch(s, EndHold(s.controls), s.hold, Never, s.startup) ELSE s
  OBVIOUS
<1>2. /\ Session(m) /\ m.startup = s.startup /\ EndHold(m.controls) = EndHold(s.controls)
      /\ s.hold <= r /\ s.hold < s.startup => m.hold = Never
      /\ ~(s.hold <= r /\ s.hold < s.startup) => m = s
  <2>1. CASE s.hold <= r /\ s.hold < s.startup
    <3>1. /\ DOMAIN m = {"controls", "clock", "hold", "startup"}
          /\ m.controls = EndHold(s.controls) /\ m.hold = Never /\ m.startup = s.startup
      BY <1>1, <2>1 DEF Switch
    <3>. QED
      BY <2>1, <3>1, EndHoldOnly DEF Session
  <2>2. CASE ~(s.hold <= r /\ s.hold < s.startup)
    BY <1>1, <2>2
  <2>. QED
    BY <2>1, <2>2
<1>3. Advance(s, r) = IF m.startup <= r THEN Switch(m, Reset(m.controls), m.startup, Never, Never) ELSE m
  BY <1>1 DEF Advance
<1>4. CASE m.startup <= r
  <2>1. PICK t : t = Switch(m, Reset(m.controls), m.startup, Never, Never)
    OBVIOUS
  <2>2. /\ DOMAIN t = {"controls", "clock", "hold", "startup"}
        /\ t.controls = Reset(m.controls) /\ t.hold = Never /\ t.startup = Never
    BY <2>1 DEF Switch
  <2>3. Reset(m.controls) \in Controls /\ Reset(m.controls).held = NoRate
    BY <1>2, EndHoldOnly DEF Reset, Controls, Session
  <2>4. Session(t)
    BY <2>2, <2>3 DEF Session
  <2>5. s.startup # Never
    BY <1>2, <1>4 DEF Ticks, Session
  <2>. QED
    BY <1>3, <1>4, <2>1, <2>4, <2>5
<1>5. CASE ~(m.startup <= r)
  <2>1. Advance(s, r) = m
    BY <1>3, <1>5
  <2>2. s.startup = Never /\ s.hold <= r => s.hold < s.startup
    BY DEF Ticks, Session
  <2>. QED
    BY <1>2, <2>1, <2>2
<1>. QED
  BY <1>4, <1>5

HoldOf(a, r) == IF a.kind = "hold" THEN DeadlineAfter(r, a.ms) ELSE Never

\* The deadline of a hold, which a later reading puts no earlier.
LEMMA HoldOfOnly ==
  ASSUME NEW a \in Admitted, NEW r \in Ticks
  PROVE  /\ HoldOf(a, r) \in Deadlines
         /\ HoldOf(a, r) = Never <=> a.kind # "hold"
         /\ \A q \in Ticks : q <= r => HoldOf(a, q) <= HoldOf(a, r)
<1>. USE ExecutorNumbers
<1>1. CASE a.kind # "hold"
  BY <1>1 DEF HoldOf
<1>2. CASE a.kind = "hold"
  <2>1. PICK d \in Nat : d = DurationTicks(a.ms)
    <3>1. (a.ms * Frequency) \div Second \in Int
      <4>1. PICK p \in Nat : p = a.ms * Frequency
        <5>1. a.ms \in Nat
          BY <1>2, SettingsAssumption DEF Admitted, Accepts
        <5>. QED
          BY <5>1, SettingsAssumption
      <4>2. Second \in Nat \ {0}
        BY SettingsAssumption
      <4>. QED
        BY <4>1, <4>2
    <3>2. Larger(1, (a.ms * Frequency) \div Second) \in Nat
      BY <3>1 DEF Larger
    <3>. QED
      BY <3>2 DEF DurationTicks, Saturate
  <2>2. \A q \in Ticks : HoldOf(a, q) = Saturate(q + d)
    BY <1>2, <2>1 DEF HoldOf, DeadlineAfter
  <2>3. \A q \in Ticks : Saturate(q + d) \in 0 .. MaxTick
    BY DEF Saturate, Ticks
  <2>4. \A q \in Ticks : q <= r => Saturate(q + d) <= Saturate(r + d)
    BY DEF Saturate, Ticks
  <2>. QED
    BY <1>2, <2>2, <2>3, <2>4
<1>. QED
  BY <1>1, <1>2

\* What an accepted action makes of a session.
LEMMA ApplyOnly ==
  ASSUME NEW s, Session(s), NEW r \in Ticks, NEW a \in Admitted
  PROVE  /\ Session(Apply(s, r, a))
         /\ Apply(s, r, a).hold = HoldOf(a, r)
         /\ s.startup = Never => /\ Apply(s, r, a).startup = Never
                                 /\ EndHold(Apply(s, r, a).controls) = Onto(EndHold(s.controls), a)
         /\ a.kind = "focusLost" \/ a.kind = "reset" => Rate(Apply(s, r, a)) = Unit
<1>. USE ExecutorNumbers
<1>1. PICK t : t = Advance(s, r)
  OBVIOUS
<1>2. Session(t) /\ t.controls \in Controls
  BY <1>1, AdvanceOnly DEF Session
<1>3. PICK startup \in Deadlines :
        startup = IF a.kind \in {"hold", "release"} THEN t.startup ELSE Never
  BY <1>2 DEF Session
<1>4. PICK u : u = Switch(t, After(t.controls, a), r, HoldOf(a, r), startup)
  OBVIOUS
<1>5. Apply(s, r, a) = u
  <2>1. Accepts(a)
    BY DEF Admitted
  <2>. QED
    BY <1>1, <1>3, <1>4, <2>1 DEF Apply, HoldOf
<1>6. /\ DOMAIN u = {"controls", "clock", "hold", "startup"}
      /\ u.controls = After(t.controls, a) /\ u.hold = HoldOf(a, r) /\ u.startup = startup
  BY <1>4 DEF Switch
<1>7. Session(u)
  BY <1>2, <1>6, AfterOnly, HoldOfOnly DEF Session
<1>8. ASSUME s.startup = Never
      PROVE  u.startup = Never /\ EndHold(u.controls) = Onto(EndHold(s.controls), a)
  <2>1. t.startup = Never /\ EndHold(t.controls) = EndHold(s.controls)
    BY <1>1, <1>8, AdvanceOnly
  <2>2. EndHold(u.controls) = Onto(EndHold(t.controls), a)
    BY <1>2, <1>6, AfterOnly DEF Onto
  <2>. QED
    BY <1>3, <1>6, <2>1, <2>2
<1>9. ASSUME a.kind = "focusLost" \/ a.kind = "reset"
      PROVE  Rate(u) = Unit
  <2>1. u.controls = Reset(t.controls)
    BY <1>6, <1>9 DEF After
  <2>2. Reset(t.controls).held = NoRate /\ Reset(t.controls).bypassed
    BY <1>2, EndHoldOnly DEF Reset, Controls
  <2>. QED
    BY <2>1, <2>2 DEF Rate, Effective
<1>. QED
  BY <1>5, <1>6, <1>7, <1>8, <1>9

LEMMA NewSessionOnly ==
  ASSUME NEW initial \in Steps, NEW ms \in Nat, NEW r \in Ticks
  PROVE  /\ Session(NewSession(TRUE, initial, ms, r))
         /\ NewSession(TRUE, initial, ms, r).controls = NewControls(TRUE, initial)
         /\ NewSession(TRUE, initial, ms, r).hold = Never
         /\ initial = Unit => NewSession(TRUE, initial, ms, r).startup = Never
<1>. USE ExecutorNumbers
<1>1. PICK faster \in SUBSET Steps, slower \in SUBSET Steps :
        faster = {s \in Steps : s > Unit} /\ slower = {s \in Steps : s < Unit}
  OBVIOUS
<1>2. PICK k : k = NewControls(TRUE, initial)
  OBVIOUS
<1>3. PICK previous \in Nat :
        k = [selected |-> initial, previous |-> previous, bypassed |-> initial = Unit, held |-> NoRate]
  <2>1. CASE initial # Unit
    BY <1>2, <2>1 DEF NewControls
  <2>2. CASE initial = Unit /\ faster # {}
    BY <1>1, <1>2, <2>2, NearestSteps DEF NewControls
  <2>3. CASE initial = Unit /\ faster = {} /\ slower # {}
    BY <1>1, <1>2, <2>3, NearestSteps DEF NewControls
  <2>4. CASE initial = Unit /\ faster = {} /\ slower = {}
    BY <1>1, <1>2, <2>4 DEF NewControls
  <2>. QED
    BY <2>1, <2>2, <2>3, <2>4
<1>4. k \in Controls /\ k.held = NoRate
  BY <1>3 DEF Controls
<1>5. DeadlineAfter(r, ms) \in Deadlines
  <2>1. PICK d \in Int : d = DurationTicks(ms) /\ d >= 0
    <3>1. (ms * Frequency) \div Second \in Int
      <4>1. PICK p \in Nat : p = ms * Frequency
        BY SettingsAssumption
      <4>2. Second \in Nat \ {0}
        BY SettingsAssumption
      <4>. QED
        BY <4>1, <4>2
    <3>. QED
      BY <3>1 DEF Larger, DurationTicks, Saturate
  <2>. QED
    BY <2>1 DEF DeadlineAfter, Saturate, Ticks
<1>6. PICK t : t = NewSession(TRUE, initial, ms, r)
  OBVIOUS
<1>7. /\ DOMAIN t = {"controls", "clock", "hold", "startup"} /\ t.controls = k /\ t.hold = Never
      /\ t.startup = IF initial # Unit /\ ms > 0 THEN DeadlineAfter(r, ms) ELSE Never
  BY <1>2, <1>6 DEF NewSession
<1>. QED
  BY <1>2, <1>4, <1>5, <1>6, <1>7 DEF Session

-----------------------------------------------------------------------------
\* A session that takes an action, accepted or not.
LEMMA TakesAction ==
  ASSUME NEW s, Session(s), NEW r \in Ticks, NEW a \in Actions
  PROVE  /\ Session(Apply(s, r, a))
         /\ s.startup = Never => Apply(s, r, a).startup = Never
<1>1. CASE Accepts(a)
  BY <1>1, ApplyOnly DEF Admitted
<1>2. CASE ~Accepts(a)
  <2>1. Apply(s, r, a) = Advance(s, r)
    BY <1>2 DEF Apply
  <2>. QED
    BY <2>1, AdvanceOnly
<1>. QED
  BY <1>1, <1>2

LEMMA ResetsAccepted ==
  /\ FocusLost \in Admitted /\ FocusLost.kind = "focusLost"
  /\ ResetAction \in Admitted /\ ResetAction.kind = "reset"
BY DEF FocusLost, ResetAction, Admitted, Actions, Accepts

LEMMA FreshSession ==
  ASSUME NEW r \in Ticks
  PROVE  /\ Session(NewSession(TRUE, Unit, 0, r))
         /\ NewSession(TRUE, Unit, 0, r).controls = NewControls(TRUE, Unit)
         /\ NewSession(TRUE, Unit, 0, r).hold = Never
         /\ NewSession(TRUE, Unit, 0, r).startup = Never
<1>1. Unit \in Steps /\ 0 \in Nat
  BY SettingsAssumption
<1>. QED
  BY <1>1, NewSessionOnly

LEMMA Queues ==
  ASSUME NEW S, NEW q \in Seq(S), q # <<>>
  PROVE  /\ Head(q) \in S /\ Head(q) = q[1] /\ Tail(q) \in Seq(S)
         /\ Len(q) \in Nat \ {0} /\ Len(Tail(q)) = Len(q) - 1
         /\ \A i \in 1 .. Len(Tail(q)) : Tail(q)[i] = q[i + 1]
OBVIOUS

LEMMA ExecutorShapeInitial == ExecutorInit => ExecutorShape
<1>. SUFFICES ASSUME ExecutorInit PROVE ExecutorShape
  OBVIOUS
<1>. USE ExecutorNumbers
<1>1. now = 0 /\ reading = 0 /\ 0 \in Ticks /\ 0 \in 0 .. MaxNow
  BY DEF ExecutorInit, Ticks
<1>2. Session(Plain) /\ Plain.startup = Never
  BY <1>1, FreshSession DEF Plain
<1>3. Initial \in Steps /\ StartupMs \in Nat /\ Profiled \in BOOLEAN
  BY ExecutorAssumption
<1>4. Session(NewSession(TRUE, Initial, StartupMs, 0))
  BY <1>1, <1>3, NewSessionOnly
<1>5. /\ Session(preview) /\ Session(clock) /\ clock.startup = Never
      /\ Profiled \/ preview.startup = Never
  BY <1>2, <1>4 DEF ExecutorInit
<1>6. /\ todo \in Seq(Actions) /\ pending \in Seq(Admitted) /\ Len(todo) = 0
      /\ todo = <<>> /\ pending = <<>>
  BY DEF ExecutorInit
<1>7. Phases
  <2>1. /\ failures = 0 /\ gate = FALSE /\ installed = FALSE /\ present = Profiled
        /\ holder = "none" /\ arming = "idle" /\ stopping = "running"
    BY DEF ExecutorInit
  <2>2. now \in 0 .. MaxNow /\ reading \in 0 .. now /\ failures \in Nat
    BY <1>1, <2>1
  <2>. QED
    BY <1>3, <2>1, <2>2 DEF Phases
<1>8. Queued
  <2>1. \A i \in 1 .. Len(todo) : Accepts(todo[i])
    BY <1>6
  <2>. QED
    BY <1>6, <2>1 DEF Queued
<1>. QED
  BY <1>5, <1>7, <1>8 DEF ExecutorShape, Sessions

LEMMA ExecutorShapeKept == ExecutorShape /\ [ExecutorNext]_executorVars => ExecutorShape'
<1>. SUFFICES ASSUME ExecutorShape, [ExecutorNext]_executorVars PROVE ExecutorShape'
  OBVIOUS
<1>. USE ExecutorNumbers
<1>1. /\ now \in Ticks /\ reading \in Ticks /\ Session(preview) /\ Session(clock)
  BY DEF ExecutorShape, Phases, Sessions, Queued, Ticks
<1>2. \A a \in Admitted : Session(Replayed(a)) /\ Replayed(a).startup = Never
  BY <1>1, ApplyOnly DEF ExecutorShape, Phases, Sessions, Queued, Replayed
<1>3. CASE UNCHANGED executorVars
  BY <1>3 DEF ExecutorShape, Phases, Sessions, Queued, executorVars, work
<1>4. CASE Pass
  BY <1>4, ExecutorAssumption DEF ExecutorShape, Phases, Sessions, Queued, Pass, work
<1>5. ASSUME NEW b, Begin(b), b \in Seq(Actions),
             (\A i \in 1 .. Len(b) : Accepts(b[i])) \/ Len(b) = 1
      PROVE  ExecutorShape'
  <2>1. Phases'
    BY <1>5 DEF ExecutorShape, Phases, Begin, work
  <2>2. Sessions'
    BY <1>5 DEF ExecutorShape, Sessions, Begin, work
  <2>3. Queued'
    BY <1>5 DEF ExecutorShape, Queued, Begin, work
  <2>. QED
    BY <2>1, <2>2, <2>3 DEF ExecutorShape
<1>6. CASE Preview
  <2>1. PICK a \in Actions : a = Head(todo)
    BY <1>6, Queues DEF ExecutorShape, Phases, Sessions, Queued, Preview
  <2>2. Session(preview') /\ (Profiled \/ preview'.startup = Never)
    BY <1>1, <1>6, <2>1, TakesAction DEF ExecutorShape, Phases, Sessions, Queued, Preview
  <2>3. CASE Accepts(a)
    <3>1. /\ todo' = Tail(todo) /\ pending' = Append(pending, a) /\ a \in Admitted
          /\ UNCHANGED <<holder, reading, answer>> /\ holder = "command"
      BY <1>6, <2>1, <2>3 DEF Preview, Admitted
    <3>2. \A i \in 1 .. Len(todo') : Accepts(todo'[i])
      <4>1. CASE \A i \in 1 .. Len(todo) : Accepts(todo[i])
        BY <1>6, <3>1, <4>1, Queues DEF ExecutorShape, Phases, Sessions, Queued, Preview
      <4>2. CASE Len(todo) = 1
        BY <1>6, <3>1, <4>2, Queues DEF ExecutorShape, Phases, Sessions, Queued, Preview
      <4>. QED
        BY <4>1, <4>2 DEF ExecutorShape, Phases, Sessions, Queued
    <3>3. todo' \in Seq(Actions) /\ pending' \in Seq(Admitted)
      BY <1>6, <3>1, Queues DEF ExecutorShape, Phases, Sessions, Queued, Preview
    <3>4. Phases'
      BY <1>6, <3>1 DEF ExecutorShape, Phases, Preview
    <3>5. Sessions'
      BY <1>6, <2>2 DEF ExecutorShape, Sessions, Preview
    <3>6. Queued'
      BY <3>1, <3>2, <3>3 DEF Queued
    <3>. QED
      BY <3>4, <3>5, <3>6 DEF ExecutorShape
  <2>4. CASE ~Accepts(a)
    <3>1. Phases'
      BY <1>1, <1>6, <2>1, <2>4 DEF ExecutorShape, Phases, Preview, Release
    <3>2. Sessions'
      BY <1>6, <2>2 DEF ExecutorShape, Sessions, Preview
    <3>3. Queued'
      BY <1>6, <2>1, <2>4 DEF Queued, Preview, Release
    <3>. QED
      BY <3>1, <3>2, <3>3 DEF ExecutorShape
  <2>. QED
    BY <2>3, <2>4
<1>7. CASE Replay
  <2>1. Head(pending) \in Admitted /\ Tail(pending) \in Seq(Admitted)
    BY <1>7, Queues DEF ExecutorShape, Phases, Sessions, Queued, Replay
  <2>2. Session(clock') /\ clock'.startup = Never
    BY <1>2, <1>7, <2>1 DEF Replay
  <2>. QED
    BY <1>7, <2>1, <2>2 DEF ExecutorShape, Phases, Sessions, Queued, Replay
<1>8. CASE Answered
  BY <1>8 DEF ExecutorShape, Phases, Sessions, Queued, Answered, Release
<1>9. ASSUME NEW again \in BOOLEAN, Fail(again)
      PROVE  ExecutorShape'
  <2>1. Session(preview') /\ (Profiled \/ preview'.startup = Never)
    BY <1>1, <1>9, ResetsAccepted, ApplyOnly DEF ExecutorShape, Phases, Sessions, Queued, Fail
  <2>2. Session(clock') /\ clock'.startup = Never
    BY <1>2, <1>9, ResetsAccepted DEF ExecutorShape, Phases, Sessions, Queued, Fail
  <2>3. failures' \in Nat
    BY <1>9 DEF ExecutorShape, Phases, Sessions, Queued, Fail, CountFailure
  <2>4. Phases'
    BY <1>9, <2>3 DEF ExecutorShape, Phases, Fail, Release
  <2>5. Sessions'
    BY <2>1, <2>2 DEF Sessions
  <2>6. Queued'
    BY <1>9 DEF Queued, Fail, Release
  <2>. QED
    BY <2>4, <2>5, <2>6 DEF ExecutorShape
<1>10. CASE Enable
  <2>1. Session(clock') /\ clock'.startup = Never
    BY <1>1, <1>10, FreshSession DEF ExecutorShape, Phases, Sessions, Queued, Enable
  <2>. QED
    BY <1>10, <2>1 DEF ExecutorShape, Phases, Sessions, Queued, Enable, work
<1>11. CASE ArmPreview
  <2>1. Session(preview') /\ (Profiled \/ preview'.startup = Never)
    BY <1>1, <1>11, FreshSession, ResetsAccepted, ApplyOnly DEF ExecutorShape, Phases, Sessions, Queued, ArmPreview
  <2>2. Phases'
    BY <1>11 DEF ExecutorShape, Phases, ArmPreview, work
  <2>3. Sessions'
    BY <1>11, <2>1 DEF ExecutorShape, Sessions, ArmPreview
  <2>4. Queued'
    BY <1>11 DEF ExecutorShape, Queued, ArmPreview, work
  <2>. QED
    BY <2>2, <2>3, <2>4 DEF ExecutorShape
<1>12. CASE ArmClock
  <2>1. Session(clock') /\ clock'.startup = Never
    BY <1>2, <1>12, ResetsAccepted DEF ExecutorShape, Phases, Sessions, Queued, ArmClock
  <2>. QED
    BY <1>12, <2>1 DEF ExecutorShape, Phases, Sessions, Queued, ArmClock, work
<1>13. CASE ArmFails
  BY <1>13 DEF ExecutorShape, Phases, Sessions, Queued, ArmFails, CountFailure, work
<1>14. CASE ArmUndo
  BY <1>14 DEF ExecutorShape, Phases, Sessions, Queued, ArmUndo, work
<1>15. CASE ArmAgain
  BY <1>15 DEF ExecutorShape, Phases, Sessions, Queued, ArmAgain, work
<1>16. CASE CloseGate
  BY <1>16 DEF ExecutorShape, Phases, Sessions, Queued, CloseGate, work
<1>17. CASE RemoveHooks
  BY <1>17 DEF ExecutorShape, Phases, Sessions, Queued, RemoveHooks, work
<1>18. CASE DropPreview
  <2>1. Session(preview') /\ (Profiled \/ preview'.startup = Never)
    BY <1>1, <1>18, ResetsAccepted, ApplyOnly DEF ExecutorShape, Phases, Sessions, Queued, DropPreview
  <2>2. Phases'
    BY <1>18 DEF ExecutorShape, Phases, DropPreview, work
  <2>3. Sessions'
    BY <1>18, <2>1 DEF ExecutorShape, Sessions, DropPreview
  <2>4. Queued'
    BY <1>18 DEF ExecutorShape, Queued, DropPreview, work
  <2>. QED
    BY <2>2, <2>3, <2>4 DEF ExecutorShape
<1>19. CASE \E a \in Commands : Begin(<<a>>)
  <2>1. PICK a \in Actions : Begin(<<a>>)
    BY <1>19, ExecutorAssumption
  <2>2. <<a>> \in Seq(Actions) /\ Len(<<a>>) = 1
    OBVIOUS
  <2>. QED
    BY <1>5, <2>1, <2>2
<1>20. CASE \E b \in Batches : Begin(b)
  BY <1>5, <1>20, ExecutorAssumption
<1>. QED
  BY <1>3, <1>4, <1>6, <1>7, <1>8, <1>9, <1>10, <1>11, <1>12, <1>13, <1>14, <1>15, <1>16, <1>17,
     <1>18, <1>19, <1>20 DEF ExecutorNext

-----------------------------------------------------------------------------
(***************************************************************************)
(* While nothing was refused, the preview is ahead of the hooks by exactly  *)
(* the actions still to be replayed.                                        *)
(***************************************************************************)

\* The actions of q, one after the other, take the controls k to l, holds apart.
Leads(q, k, l) ==
  \E path \in [0 .. Len(q) -> Controls] :
    /\ path[0] = k /\ path[Len(q)] = l
    /\ \A i \in 1 .. Len(q) : path[i] = Onto(path[i - 1], q[i])

\* The preview's hold ends no later than the one behind the hooks.
Behind(hold, other, time) ==
  hold = Never \/ hold <= time \/ (hold <= other /\ other # Never)

Same ==
  /\ EndHold(preview.controls) = EndHold(clock.controls)
  /\ Behind(preview.hold, clock.hold, now)

Ahead ==
  /\ present
  /\ Leads(pending, EndHold(clock.controls), EndHold(preview.controls))
  /\ pending = <<>> => Behind(preview.hold, clock.hold, now)
  /\ pending # <<>> => preview.hold = HoldOf(pending[Len(pending)], reading)

Lockstep ==
  /\ present => installed
  /\ arming \in {"idle", "enabled", "reset", "armed"}
  /\ arming # "idle" => installed
  /\ ~present => holder = "none"
  /\ (~present /\ installed) => clock.controls = NewControls(TRUE, Unit) /\ clock.hold = Never
  /\ (present /\ holder = "none") => Same
  /\ holder = "arm" => /\ EndHold(preview.controls) = Onto(EndHold(clock.controls), ResetAction)
                       /\ preview.hold = Never
  /\ holder = "command" => Ahead

Track == (failures = 0 /\ ~gate) => Lockstep

ExecutorInv == ExecutorShape /\ Track

LEMMA LeadsNowhere ==
  ASSUME NEW k \in Controls
  PROVE  \A l : Leads(<<>>, k, l) <=> l = k
<1>1. Len(<<>>) = 0
  OBVIOUS
<1>2. Leads(<<>>, k, k)
  <2>1. PICK path : path = [i \in 0 .. Len(<<>>) |-> k]
    OBVIOUS
  <2>2. path \in [0 .. Len(<<>>) -> Controls]
    BY <2>1
  <2>3. path[0] = k /\ path[Len(<<>>)] = k
    BY <1>1, <2>1
  <2>4. \A i \in 1 .. Len(<<>>) : path[i] = Onto(path[i - 1], <<>>[i])
    BY <1>1
  <2>. QED
    BY <2>2, <2>3, <2>4 DEF Leads
<1>3. ASSUME NEW l, Leads(<<>>, k, l) PROVE l = k
  BY <1>1, <1>3 DEF Leads
<1>. QED
  BY <1>2, <1>3

LEMMA LeadsFurther ==
  ASSUME NEW q \in Seq(Admitted), NEW k, NEW l, Leads(q, k, l), NEW a \in Admitted
  PROVE  Leads(Append(q, a), k, Onto(l, a))
<1>1. PICK n \in Nat : n = Len(q)
  OBVIOUS
<1>2. /\ Len(Append(q, a)) = n + 1 /\ Append(q, a)[n + 1] = a
      /\ \A i \in 1 .. n : Append(q, a)[i] = q[i]
  BY <1>1
<1>3. PICK path \in [0 .. n -> Controls] :
        /\ path[0] = k /\ path[n] = l
        /\ \A i \in 1 .. n : path[i] = Onto(path[i - 1], q[i])
  BY <1>1 DEF Leads
<1>4. PICK m \in Controls : m = Onto(l, a)
  <2>1. l \in Controls
    BY <1>3
  <2>. QED
    BY <2>1, AfterOnly, EndHoldOnly DEF Onto
<1>5. PICK further : further = [i \in 0 .. n + 1 |-> IF i <= n THEN path[i] ELSE m]
  OBVIOUS
<1>6. /\ further \in [0 .. n + 1 -> Controls] /\ further[n + 1] = m
      /\ \A i \in 0 .. n : further[i] = path[i]
  BY <1>5
<1>7. ASSUME NEW i \in 1 .. n + 1
      PROVE  further[i] = Onto(further[i - 1], Append(q, a)[i])
  <2>1. CASE i = n + 1
    <3>1. i - 1 = n /\ n \in 0 .. n
      BY <2>1
    <3>2. further[i - 1] = l
      BY <1>3, <1>6, <3>1
    <3>. QED
      BY <1>2, <1>4, <1>6, <2>1, <3>2
  <2>2. CASE i # n + 1
    <3>1. i \in 1 .. n /\ i \in 0 .. n /\ i - 1 \in 0 .. n
      BY <2>2
    <3>2. further[i] = path[i] /\ further[i - 1] = path[i - 1] /\ Append(q, a)[i] = q[i]
      BY <1>2, <1>6, <3>1
    <3>. QED
      BY <1>3, <3>1, <3>2
  <2>. QED
    BY <2>1, <2>2
<1>8. further[0] = k
  BY <1>3, <1>6
<1>. QED
  BY <1>2, <1>4, <1>6, <1>7, <1>8 DEF Leads

LEMMA LeadsOn ==
  ASSUME NEW q \in Seq(Admitted), NEW k, NEW l, Leads(q, k, l), q # <<>>
  PROVE  Leads(Tail(q), Onto(k, Head(q)), l)
<1>1. PICK n \in Nat \ {0} : n = Len(q)
  OBVIOUS
<1>2. Len(Tail(q)) = n - 1 /\ Head(q) = q[1] /\ \A i \in 1 .. n - 1 : Tail(q)[i] = q[i + 1]
  BY <1>1
<1>3. PICK path \in [0 .. n -> Controls] :
        /\ path[0] = k /\ path[n] = l
        /\ \A i \in 1 .. n : path[i] = Onto(path[i - 1], q[i])
  BY <1>1 DEF Leads
<1>4. PICK rest : rest = [i \in 0 .. n - 1 |-> path[i + 1]]
  OBVIOUS
<1>5. /\ rest \in [0 .. n - 1 -> Controls]
      /\ \A i \in 0 .. n - 1 : rest[i] = path[i + 1]
  BY <1>4
<1>6. rest[0] = Onto(k, Head(q))
  <2>1. 1 \in 1 .. n /\ 1 - 1 = 0 /\ 0 \in 0 .. n - 1 /\ 0 + 1 = 1
    OBVIOUS
  <2>2. path[1] = Onto(path[0], q[1])
    BY <1>3, <2>1
  <2>3. rest[0] = path[1]
    BY <1>5, <2>1
  <2>. QED
    BY <1>2, <1>3, <2>2, <2>3
<1>7. rest[n - 1] = l
  BY <1>3, <1>5
<1>8. ASSUME NEW i \in 1 .. n - 1
      PROVE  rest[i] = Onto(rest[i - 1], Tail(q)[i])
  <2>1. i \in 0 .. n - 1 /\ i - 1 \in 0 .. n - 1 /\ (i - 1) + 1 = i /\ i + 1 \in 1 .. n /\ (i + 1) - 1 = i
    OBVIOUS
  <2>2. rest[i] = path[i + 1] /\ rest[i - 1] = path[i] /\ Tail(q)[i] = q[i + 1]
    BY <1>2, <1>5, <2>1
  <2>3. path[i + 1] = Onto(path[i], q[i + 1])
    BY <1>3, <2>1
  <2>. QED
    BY <2>2, <2>3
<1>. QED
  BY <1>2, <1>5, <1>6, <1>7, <1>8 DEF Leads

LEMMA TrackInitial == ~Profiled /\ ExecutorInit => Track
<1>. SUFFICES ASSUME ~Profiled, ExecutorInit PROVE Lockstep
  BY DEF Track
<1>1. ~present /\ ~installed /\ holder = "none" /\ arming = "idle"
  BY DEF ExecutorInit
<1>. QED
  BY <1>1 DEF Lockstep

LEMMA FreshControls ==
  /\ NewControls(TRUE, Unit) \in Controls
  /\ Onto(EndHold(NewControls(TRUE, Unit)), ResetAction) = EndHold(NewControls(TRUE, Unit))
<1>. USE ExecutorNumbers
<1>1. 0 \in Ticks
  BY DEF Ticks
<1>2. PICK k \in Controls : k = NewControls(TRUE, Unit)
  BY <1>1, FreshSession DEF Session
<1>3. k.selected = Unit /\ k.bypassed = TRUE /\ k.held = NoRate
  BY <1>2 DEF NewControls
<1>4. EndHold(k) = k
  BY <1>3, EndHoldOnly
<1>5. After(k, ResetAction) = k
  BY <1>3, <1>4 DEF After, ResetAction, Reset, Controls
<1>. QED
  BY <1>2, <1>4, <1>5 DEF Onto

LEMMA TrackKept ==
  ASSUME ~Profiled, ExecutorShape, ExecutorShape', Track, [ExecutorNext]_executorVars
  PROVE  Track'
<1>. USE ExecutorNumbers
<1>. SUFFICES ASSUME failures' = 0, ~gate' PROVE Lockstep'
  BY DEF Track
<1>1. ExecutorNext \/ UNCHANGED executorVars
  OBVIOUS
<1>2. CASE UNCHANGED executorVars
  BY <1>2 DEF Track, Lockstep, Same, Ahead, executorVars, work
<1>3. /\ ~gate /\ failures = 0 /\ stopping = "running" /\ arming # "undo"
      /\ \A again : ~Fail(again)
      /\ ~ArmFails /\ ~ArmUndo /\ ~CloseGate /\ ~RemoveHooks /\ ~DropPreview
  <2>1. ExecutorNext => (gate => gate')
    BY DEF ExecutorNext, Pass, Begin, Preview, Replay, Answered, Fail, Enable, ArmPreview, ArmClock,
           ArmFails, ArmUndo, ArmAgain, CloseGate, RemoveHooks, DropPreview
  <2>2. ~gate
    BY <1>1, <1>2, <2>1 DEF executorVars
  <2>3. failures \in Nat /\ stopping = "running"
    BY <2>2 DEF ExecutorShape, Phases
  <2>4. ~ArmFails /\ \A again : ~Fail(again)
    BY <2>2, <2>3 DEF ArmFails, Fail, CountFailure
  <2>5. ~CloseGate /\ ~RemoveHooks /\ ~DropPreview
    BY <2>3 DEF CloseGate, RemoveHooks, DropPreview
  <2>6. failures = 0
    <3>1. CASE UNCHANGED failures
      BY <3>1
    <3>2. CASE failures' # failures
      BY <1>1, <2>4, <2>5, <3>2 DEF ExecutorNext, Pass, Begin, Preview, Replay, Answered, Enable,
           ArmPreview, ArmClock, ArmUndo, ArmAgain, executorVars
    <3>. QED
      BY <3>1, <3>2
  <2>7. arming # "undo"
    BY <2>2, <2>6 DEF Track, Lockstep
  <2>. QED
    BY <2>2, <2>3, <2>4, <2>5, <2>6, <2>7 DEF ArmUndo
<1>4. Lockstep
  BY <1>3 DEF Track
<1>5. /\ now \in Ticks /\ now' \in Ticks /\ reading \in Ticks /\ reading <= now
      /\ Session(preview) /\ Session(clock) /\ preview.startup = Never /\ clock.startup = Never
      /\ preview.controls \in Controls /\ clock.controls \in Controls
      /\ preview.hold \in Deadlines /\ clock.hold \in Deadlines
      /\ pending \in Seq(Admitted)
  BY DEF ExecutorShape, Phases, Sessions, Queued, Session, Ticks
<1>6. CASE Pass
  <2>1. Behind(preview.hold, clock.hold, now) => Behind(preview.hold, clock.hold, now')
    BY <1>5, <1>6 DEF Pass, Behind, Deadlines, Ticks
  <2>. QED
    BY <1>4, <1>6, <2>1 DEF Pass, Lockstep, Same, Ahead, work
<1>7. ASSUME NEW b, Begin(b)
      PROVE  Lockstep'
  <2>1. CASE ~present
    BY <1>4, <1>7, <2>1 DEF Begin, Lockstep, Same, Ahead, work
  <2>2. CASE present
    <3>1. pending = <<>>
      BY <1>7 DEF Begin, ExecutorShape, Queued
    <3>2. Same
      BY <1>4, <1>7, <2>2 DEF Begin, Lockstep
    <3>3. Leads(pending, EndHold(clock.controls), EndHold(preview.controls))
      BY <1>5, <3>1, <3>2, EndHoldOnly, LeadsNowhere DEF Same
    <3>. QED
      BY <1>4, <1>7, <2>2, <3>1, <3>2, <3>3 DEF Begin, Lockstep, Same, Ahead, work
  <2>. QED
    BY <2>1, <2>2
<1>8. CASE Preview
  <2>1. Ahead
    BY <1>4, <1>8 DEF Preview, Lockstep
  <2>2. PICK a \in Actions : a = Head(todo)
    BY <1>8, Queues DEF ExecutorShape, Queued, Preview
  <2>3. preview' = Apply(preview, reading, a)
    BY <1>8, <2>2 DEF Preview
  <2>4. CASE Accepts(a)
    <3>1. a \in Admitted /\ pending' = Append(pending, a) /\ UNCHANGED <<holder, reading, clock>>
      BY <1>8, <2>2, <2>4 DEF Preview, Admitted
    <3>2. /\ EndHold(preview'.controls) = Onto(EndHold(preview.controls), a)
          /\ preview'.hold = HoldOf(a, reading)
      BY <1>5, <2>3, <3>1, ApplyOnly
    <3>3. Leads(pending', EndHold(clock.controls), EndHold(preview'.controls))
      BY <1>5, <2>1, <3>1, <3>2, LeadsFurther DEF Ahead
    <3>4. pending' # <<>> /\ pending'[Len(pending')] = a
      BY <1>5, <3>1
    <3>. QED
      BY <1>4, <1>8, <2>1, <3>1, <3>2, <3>3, <3>4 DEF Preview, Lockstep, Ahead
  <2>5. CASE ~Accepts(a)
    <3>1. preview' = Advance(preview, reading) /\ UNCHANGED clock
      BY <1>8, <2>2, <2>5 DEF Apply, Preview
    <3>2. pending = <<>>
      <4>1. ~(\A i \in 1 .. Len(todo) : Accepts(todo[i]))
        BY <1>8, <2>2, <2>5, Queues DEF ExecutorShape, Queued, Preview
      <4>. QED
        BY <4>1 DEF ExecutorShape, Queued
    <3>3. /\ EndHold(preview.controls) = EndHold(clock.controls)
          /\ Behind(preview.hold, clock.hold, now)
      BY <1>5, <2>1, <3>2, EndHoldOnly, LeadsNowhere DEF Ahead
    <3>4. /\ EndHold(preview'.controls) = EndHold(preview.controls)
          /\ (preview'.hold = Never \/ preview'.hold = preview.hold)
      BY <1>5, <3>1, AdvanceOnly
    <3>5. Same'
      BY <1>8, <3>1, <3>3, <3>4 DEF Same, Behind, Preview
    <3>. QED
      BY <1>4, <1>8, <2>1, <2>2, <2>5, <3>1, <3>5 DEF Preview, Release, Lockstep, Ahead
  <2>. QED
    BY <2>4, <2>5
<1>9. CASE Replay
  <2>1. Ahead
    BY <1>4, <1>9 DEF Replay, Lockstep
  <2>2. PICK a \in Admitted : a = Head(pending) /\ a = pending[1]
    BY <1>5, <1>9, Queues DEF Replay
  <2>3. clock' = Apply(clock, now, a)
    BY <1>4, <1>9, <2>1, <2>2 DEF Replay, Replayed, Lockstep, Ahead
  <2>4. /\ EndHold(clock'.controls) = Onto(EndHold(clock.controls), a)
        /\ clock'.hold = HoldOf(a, now)
    BY <1>5, <2>3, ApplyOnly
  <2>5. pending' = Tail(pending) /\ UNCHANGED <<preview, now, reading, present, holder>>
    BY <1>9 DEF Replay
  <2>6. Leads(pending', EndHold(clock'.controls), EndHold(preview.controls))
    BY <1>5, <1>9, <2>1, <2>2, <2>4, <2>5, LeadsOn DEF Replay, Ahead
  <2>7. preview.hold = HoldOf(pending[Len(pending)], reading)
    BY <1>9, <2>1 DEF Replay, Ahead
  <2>8. ASSUME pending' = <<>> PROVE Behind(preview.hold, clock'.hold, now)
    <3>1. Len(pending) = 1
      <4>1. Len(pending') = 0
        BY <2>8
      <4>2. Len(Tail(pending)) = Len(pending) - 1 /\ Len(pending) \in Nat
        BY <1>5, <1>9, Queues DEF Replay
      <4>. QED
        BY <2>5, <4>1, <4>2
    <3>2. preview.hold = HoldOf(a, reading)
      BY <2>2, <2>7, <3>1
    <3>3. preview.hold <= clock'.hold /\ (clock'.hold = Never => preview.hold = Never)
      BY <1>5, <2>4, <3>2, HoldOfOnly
    <3>. QED
      BY <3>3 DEF Behind
  <2>9. ASSUME pending' # <<>> PROVE pending'[Len(pending')] = pending[Len(pending)]
    BY <1>5, <1>9, <2>5, <2>9, Queues DEF Replay
  <2>10. Ahead'
    BY <2>1, <2>5, <2>6, <2>7, <2>8, <2>9 DEF Ahead
  <2>. QED
    BY <1>4, <1>9, <2>1, <2>10 DEF Replay, Lockstep, Ahead
<1>10. CASE Answered
  <2>1. Ahead /\ pending = <<>>
    BY <1>4, <1>10 DEF Answered, Lockstep
  <2>2. Same
    BY <1>5, <2>1, EndHoldOnly, LeadsNowhere DEF Ahead, Same
  <2>. QED
    BY <1>4, <1>10, <2>1, <2>2 DEF Answered, Release, Lockstep, Ahead, Same
<1>11. CASE Enable
  <2>1. CASE installed
    BY <1>4, <1>11, <2>1 DEF Enable, Lockstep, Same, Ahead, work
  <2>2. CASE ~installed
    <3>1. ~present /\ holder = "none"
      BY <1>4, <2>2 DEF Lockstep
    <3>2. clock'.controls = NewControls(TRUE, Unit) /\ clock'.hold = Never
      BY <1>5, <1>11, <2>2, FreshSession DEF Enable
    <3>. QED
      BY <1>11, <3>1, <3>2 DEF Enable, Lockstep, work
  <2>. QED
    BY <2>1, <2>2
<1>12. CASE ArmPreview
  <2>1. installed /\ holder = "none" /\ arming = "enabled"
    BY <1>4, <1>12 DEF ArmPreview, Lockstep
  <2>2. /\ EndHold(preview'.controls) = Onto(EndHold(clock.controls), ResetAction)
        /\ preview'.hold = Never
    <3>1. CASE present
      <4>1. preview' = Apply(preview, now, ResetAction) /\ Same
        BY <1>4, <1>12, <3>1 DEF ArmPreview, Lockstep
      <4>2. HoldOf(ResetAction, now) = Never
        BY ResetsAccepted DEF HoldOf
      <4>3. /\ EndHold(preview'.controls) = Onto(EndHold(preview.controls), ResetAction)
            /\ preview'.hold = HoldOf(ResetAction, now)
        BY <1>5, <4>1, ResetsAccepted, ApplyOnly
      <4>. QED
        BY <4>1, <4>2, <4>3 DEF Same
    <3>2. CASE ~present
      <4>1. preview' = NewSession(TRUE, Unit, 0, now) /\ clock.controls = NewControls(TRUE, Unit)
        BY <1>4, <1>12, <2>1, <3>2 DEF ArmPreview, Lockstep
      <4>. QED
        BY <1>5, <4>1, FreshSession, FreshControls
    <3>. QED
      BY <3>1, <3>2
  <2>. QED
    BY <1>12, <2>1, <2>2 DEF ArmPreview, Lockstep, work
<1>13. CASE ArmClock
  <2>1. /\ EndHold(preview.controls) = Onto(EndHold(clock.controls), ResetAction)
        /\ preview.hold = Never /\ installed /\ present /\ UNCHANGED <<preview, now, installed, present>>
    BY <1>4, <1>13 DEF ArmClock, Lockstep, work
  <2>2. clock' = Apply(clock, now, ResetAction)
    BY <1>13, <2>1 DEF ArmClock, Replayed
  <2>3. EndHold(clock'.controls) = Onto(EndHold(clock.controls), ResetAction)
    BY <1>5, <2>2, ResetsAccepted, ApplyOnly
  <2>4. Same'
    BY <2>1, <2>3 DEF Same, Behind
  <2>. QED
    BY <1>13, <2>1, <2>4 DEF ArmClock, Lockstep, work
<1>14. CASE ArmAgain
  BY <1>4, <1>14 DEF ArmAgain, Lockstep, Same, Ahead, work
<1>. QED
  BY <1>1, <1>2, <1>3, <1>6, <1>7, <1>8, <1>9, <1>10, <1>11, <1>12, <1>13, <1>14 DEF ExecutorNext

-----------------------------------------------------------------------------
\* A session that a poll finds without a hold runs at the rate of the controls
\* beside the hold.
LEMMA PollOnly ==
  ASSUME NEW s, Session(s), s.startup = Never, NEW r \in Ticks
  PROVE  /\ Poll(s, r).hold = Never <=> (s.hold = Never \/ s.hold <= r)
         /\ Poll(s, r).hold = Never => Rate(Poll(s, r)) = Effective(EndHold(s.controls))
<1>. USE ExecutorNumbers
<1>1. PICK t : t = Advance(s, r)
  OBVIOUS
<1>2. /\ Session(t) /\ EndHold(t.controls) = EndHold(s.controls)
      /\ s.hold <= r => t.hold = Never
      /\ ~(s.hold <= r) => t.hold = s.hold
  BY <1>1, AdvanceOnly
<1>3. PICK p : p = [t EXCEPT !.clock = Sample(t.clock, r)]
  OBVIOUS
<1>4. p.controls = t.controls /\ p.hold = t.hold
  BY <1>2, <1>3 DEF Session
<1>5. Poll(s, r) = p
  BY <1>1, <1>3 DEF Poll
<1>6. ASSUME t.hold = Never PROVE Effective(t.controls) = Effective(EndHold(s.controls))
  <2>1. t.controls \in Controls /\ t.controls.held = NoRate
    BY <1>2, <1>6 DEF Session
  <2>. QED
    BY <1>2, <2>1, EndHoldOnly
<1>7. t.hold = Never <=> (s.hold = Never \/ s.hold <= r)
  BY <1>2
<1>. QED
  BY <1>4, <1>5, <1>6, <1>7 DEF Rate

LEMMA TrackInStep == ~Profiled /\ ExecutorShape /\ Track => InStep
<1>. SUFFICES ASSUME ~Profiled, ExecutorShape, Track,
                     Settled, installed, present, failures = 0, Poll(clock, now).hold = Never
              PROVE  Rate(Poll(preview, now)) = Rate(Poll(clock, now))
  BY DEF InStep
<1>. USE ExecutorNumbers
<1>1. /\ EndHold(preview.controls) = EndHold(clock.controls)
      /\ Behind(preview.hold, clock.hold, now)
  BY DEF Track, Lockstep, Same, Settled
<1>2. /\ now \in Ticks /\ Session(preview) /\ Session(clock)
      /\ preview.startup = Never /\ clock.startup = Never
      /\ preview.hold \in Deadlines /\ clock.hold \in Deadlines
  BY DEF ExecutorShape, Phases, Sessions, Session, Ticks
<1>3. clock.hold = Never \/ clock.hold <= now
  BY <1>2, PollOnly
<1>4. preview.hold = Never \/ preview.hold <= now
  BY <1>1, <1>2, <1>3 DEF Behind, Ticks
<1>5. Poll(preview, now).hold = Never
  BY <1>2, <1>4, PollOnly
<1>. QED
  BY <1>1, <1>2, <1>5, PollOnly

\* A DLL without a profile: whatever commands, input samples, arming and reset it
\* serves, and at whatever readings, while nothing was refused the preview session
\* that answers status and the session behind the hooks run at the same speed.
THEOREM StatusInStep == ~Profiled => (ExecutorSpec => []InStep)
<1>. SUFFICES ASSUME ~Profiled PROVE ExecutorSpec => []InStep
  OBVIOUS
<1>1. ExecutorInit => ExecutorInv
  BY ExecutorShapeInitial, TrackInitial DEF ExecutorInv
<1>2. ExecutorInv /\ [ExecutorNext]_executorVars => ExecutorInv'
  BY ExecutorShapeKept, TrackKept DEF ExecutorInv
<1>3. ExecutorInv => InStep
  BY TrackInStep DEF ExecutorInv
<1>. QED
  BY <1>1, <1>2, <1>3, PTL DEF ExecutorSpec

\* A command the hooks refused, and arming, leave the sessions they reach at 1x.
LEMMA StepFailsSafe ==
  ASSUME ExecutorShape, ExecutorShape', [ExecutorNext]_executorVars
  PROVE  /\ (holder = "command" /\ holder' = "none" /\ answer' = "failed") =>
               Rate(preview') = Unit /\ (Rate(clock') = Unit \/ clock' = clock)
         /\ (arming = "reset" /\ arming' = "armed" /\ installed) => Rate(clock') = Unit
<1>1. /\ now \in Ticks /\ reading \in Ticks /\ Session(preview) /\ Session(clock)
  BY ExecutorNumbers DEF ExecutorShape, Phases, Sessions, Ticks
<1>2. \A s, r : (Session(s) /\ r \in Ticks) =>
          Rate(Apply(s, r, FocusLost)) = Unit /\ Rate(Apply(s, r, ResetAction)) = Unit
  BY ResetsAccepted, ApplyOnly
<1>3. ASSUME holder = "command", holder' = "none", answer' = "failed"
      PROVE  Rate(preview') = Unit /\ (Rate(clock') = Unit \/ clock' = clock)
  <2>1. PICK again \in BOOLEAN : Fail(again)
    BY <1>3 DEF ExecutorShape, Phases, ExecutorNext, executorVars, Pass, Begin, Preview, Replay, Answered,
           Release, Enable, ArmPreview, ArmClock, ArmFails, ArmUndo, ArmAgain, CloseGate, RemoveHooks,
           DropPreview
  <2>. QED
    BY <1>1, <1>2, <2>1 DEF Fail, Replayed
<1>4. ASSUME arming = "reset", arming' = "armed", installed
      PROVE  Rate(clock') = Unit
  <2>1. ArmClock
    BY <1>4 DEF ExecutorNext, executorVars, Pass, Begin, Preview, Replay, Answered, Fail,
           Release, Enable, ArmPreview, ArmFails, ArmUndo, ArmAgain, CloseGate, RemoveHooks, DropPreview
  <2>. QED
    BY <1>1, <1>2, <1>4, <2>1 DEF ArmClock, Replayed
<1>. QED
  BY <1>3, <1>4

\* apply_with_fail_safe and arm_selected_game_timers: a command the hooks refused
\* leaves the preview at 1x and the hooks at 1x or as they were, and arming starts
\* the game at 1x, for every profile, every action and however often they refuse.
THEOREM RefusalsFailSafe == ExecutorSpec => FailSafe
<1>1. ExecutorInit => ExecutorShape
  BY ExecutorShapeInitial
<1>2. ExecutorShape /\ [ExecutorNext]_executorVars => ExecutorShape'
  BY ExecutorShapeKept
<1>3. /\ ExecutorShape /\ ExecutorShape' /\ [ExecutorNext]_executorVars
      => [/\ (holder = "command" /\ holder' = "none" /\ answer' = "failed") =>
               Rate(preview') = Unit /\ (Rate(clock') = Unit \/ clock' = clock)
          /\ (arming = "reset" /\ arming' = "armed" /\ installed) => Rate(clock') = Unit]_executorVars
  BY StepFailsSafe
<1>. QED
  BY <1>1, <1>2, <1>3, PTL DEF ExecutorSpec, FailSafe

(***************************************************************************)
(* ProfileLaunch: what a launch saw is so until it changes, and what it     *)
(* hands over, what the export wrote and what a check accepted follow from  *)
(* that.  No bound on edits, launches, rules or variables is used.          *)
(***************************************************************************)

\* How far the launch came; a game that runs has all its checks behind it.
Past(steps) == step \in steps \/ game # NoGame
PastPolicy    == Past({"delivered", "programs", "hud", "inventory", "ready"})
PastDelivered == Past({"programs", "hud", "inventory", "ready"})

Resolved(file, c) == ResolvedLaunchProfile(file, c.bottle, c.path)
Runnable(file, c) == Resolves(file, c.bottle, c.path) /\ Resolved(file, c).speed.enabled

LaunchShape ==
  /\ policy \in Policies /\ library \in Libraries /\ inventory \in Inventories
  /\ choice \in CommandLines /\ selection \in {Selected(c) : c \in CommandLines}
  /\ plain \in BOOLEAN

\* What each check saw is so, unless it changed since.
PastPlain == Past({"enabled", "policy", "delivered", "programs", "hud", "inventory", "ready"})
PlainSeen == PastPlain /\ "plain" \notin stale => plain = TRUE
PolicySeen ==
  PastPolicy /\ "policy" \notin stale => Runnable(policy, choice) /\ expected = Resolved(policy, choice)
ProfileSeen == PastDelivered /\ "profile" \notin stale => MatchesPolicy
ProgramsSeen == Past({"hud", "inventory", "ready"}) /\ "library" \notin stale => ProgramAccepted(choice)
HudSeen == Past({"inventory", "ready"}) /\ "hud" \notin stale => (ManagedHud(choice) => hudOurs)
InventorySeen == Past({"ready"}) /\ "inventory" \notin stale => InventoryAccepted(choice)
Verified == PlainSeen /\ PolicySeen /\ ProfileSeen /\ ProgramsSeen /\ HudSeen /\ InventorySeen

Underway ==
  /\ step \notin {"idle", "run"} => game = NoGame /\ ended = "running" /\ Accepted(choice)
  /\ game = NoGame => loaded = "no"
  /\ ended = "differs" => step = "idle"

\* Nothing a launch of c looks at would stop it.
AllWell(c) ==
  /\ Accepted(c) /\ plain /\ c.bottle \in inventory.names
  /\ Runnable(policy, c) /\ LoadPreview(profile) = "enabled"
  /\ profile.speed = Resolved(policy, c).speed /\ profile.hotkeys = Resolved(policy, c).hotkeys
  /\ ProgramAccepted(c) /\ (ManagedHud(c) => hudOurs) /\ InventoryAccepted(c)

CheckedWell == checked # {} => stale = {} /\ \A c \in checked : AllWell(c)

Exported ==
  exportStale = {} /\ export \in {"resolved", "created", "done"} =>
    /\ Resolves(policy, selection.bottle, selection.path) /\ rendered = Resolved(policy, selection)
    /\ export = "done" => profile = rendered

Delivered ==
  loaded # "no" /\ game.changed = {} /\ stale \cap {"policy", "profile", "plain"} = {} =>
    loaded = "configured"

LInv ==
  /\ LaunchShape /\ Verified /\ Underway /\ CheckedWell /\ Exported
  /\ StartsAsAsked /\ Delivered /\ ExportsWhatLaunchTakes /\ LaunchesWhatIsChecked

\* An identity belongs to one rule at most, which is the one that is found.
LEMMA OnlyOne ==
  ASSUME NEW S, S \subseteq Int, NEW x \in S, \A i, j \in S : i = j
  PROVE  Min(S) = x
<1>1. \A y \in S : x <= y
  BY SMT
<1>2. \A z \in S : z = x
  OBVIOUS
<1> QED BY <1>1, <1>2 DEF Min

LEMMA FoundRules ==
  ASSUME NEW p \in Policies, Parses(p), NEW bottle \in DOMAIN BottleKey, NEW path \in DOMAIN PathKey
  PROVE  /\ \/ MatchedBottle(p, bottle) = NoRule
            \/ \E i \in DOMAIN p.bottles : MatchedBottle(p, bottle) = p.bottles[i]
         /\ \/ MatchedGame(p, bottle, path) = NoRule
            \/ \E i \in DOMAIN p.games : MatchedGame(p, bottle, path) = p.games[i]
         /\ \A i \in DOMAIN p.bottles :
              BottleKey[p.bottles[i].name] = BottleKey[bottle] => MatchedBottle(p, bottle) = p.bottles[i]
         /\ \A i \in DOMAIN p.games :
              BottleKey[p.games[i].bottle] = BottleKey[bottle] /\ PathKey[p.games[i].path] = PathKey[path]
                => MatchedGame(p, bottle, path) = p.games[i]
<1> DEFINE B == {i \in DOMAIN p.bottles : BottleKey[p.bottles[i].name] = BottleKey[bottle]}
           G == {i \in DOMAIN p.games : /\ BottleKey[p.games[i].bottle] = BottleKey[bottle]
                                        /\ PathKey[p.games[i].path] = PathKey[path]}
<1>1. p \in Policies \ {Absent, Garbage} /\ DistinctRules(p)
  BY DEF Parses, ValidateOverrides
<1>2. DOMAIN p.bottles \subseteq Int /\ DOMAIN p.games \subseteq Int
  BY <1>1, LaunchAssumption DEF Rules
<1>3. B \subseteq Int /\ (\A i, j \in B : i = j) /\ G \subseteq Int /\ (\A i, j \in G : i = j)
  BY <1>1, <1>2 DEF DistinctRules
<1>4. MatchedBottle(p, bottle) = (IF B = {} THEN NoRule ELSE p.bottles[Min(B)])
  BY DEF MatchedBottle, FirstOf
<1>5. MatchedGame(p, bottle, path) = (IF G = {} THEN NoRule ELSE p.games[Min(G)])
  BY DEF MatchedGame, FirstOf
<1>6. \A i \in B : Min(B) = i
  BY <1>3, OnlyOne
<1>7. \A i \in G : Min(G) = i
  BY <1>3, OnlyOne
<1> QED BY <1>4, <1>5, <1>6, <1>7

\* What rules and global settings make together are settings.
LEMMA OverridesType ==
  ASSUME NEW s \in Settings, NEW o, Over(o, s) \in Settings, NEW q, Over(q, s) \in Settings
  PROVE  Over(q, Over(o, s)) \in Settings
<1>1. DOMAIN Over(q, s) = DOMAIN q \cup DOMAIN s /\ \A f \in DOMAIN q : Over(q, s)[f] = q[f]
  BY DEF Over
<1>2. DOMAIN q \subseteq DOMAIN s
  BY <1>1 DEF Settings
<1>3. (Over(q, Over(o, s))) = [f \in DOMAIN q \cup DOMAIN Over(o, s) |-> IF f \in DOMAIN q THEN q[f] ELSE Over(o, s)[f]]
  BY DEF Over
<1> DEFINE e == Over(q, Over(o, s))
<1>4. DOMAIN Over(o, s) = DOMAIN s /\ DOMAIN s = {"enabled", "initial", "min", "max", "startup", "steps"}
  BY DEF Settings
<1>5. e = [f \in DOMAIN s |-> IF f \in DOMAIN q THEN Over(q, s)[f] ELSE Over(o, s)[f]]
  BY <1>1, <1>2, <1>3, <1>4
<1> HIDE DEF e
<1>6. e = [enabled |-> e.enabled, initial |-> e.initial, min |-> e.min, max |-> e.max,
           startup |-> e.startup, steps |-> e.steps]
  BY <1>4, <1>5
<1>7. /\ e.enabled \in BOOLEAN /\ e.initial \in Nat /\ e.min \in Nat /\ e.max \in Nat
      /\ e.startup \in Nat /\ e.steps \in Seq(Nat)
  BY <1>4, <1>5 DEF Settings
<1>8. e \in Settings
  BY <1>6, <1>7 DEF Settings
<1> QED BY <1>8 DEF e

LEMMA NoOverride == ASSUME NEW s \in Settings PROVE Over(<<>>, s) = s
<1>1. DOMAIN <<>> = {}
  OBVIOUS
<1>2. Over(<<>>, s) = [f \in DOMAIN s |-> s[f]]
  BY <1>1 DEF Over
<1>3. s = [f \in DOMAIN s |-> s[f]]
  BY DEF Settings
<1> QED BY <1>2, <1>3

LEMMA EffectiveType ==
  ASSUME NEW p \in Policies, Parses(p), NEW bottle \in DOMAIN BottleKey, NEW path \in DOMAIN PathKey
  PROVE  EffectiveSpeed(p, bottle, path) \in Settings
<1> DEFINE b == MatchedBottle(p, bottle)
           g == MatchedGame(p, bottle, path)
<1>1. p \in Policies \ {Absent, Garbage}
  BY DEF Parses
<1>2. p.speed \in Settings /\ Rules(p.bottles, p) /\ Rules(p.games, p)
  BY <1>1, LaunchAssumption
<1>3. NoRule.speed = <<>>
  BY DEF NoRule
<1>4. Over(b.speed, p.speed) \in Settings
  BY <1>2, <1>3, FoundRules, NoOverride DEF Rules
<1>5. Over(g.speed, p.speed) \in Settings
  BY <1>2, <1>3, FoundRules, NoOverride DEF Rules
<1>6. Over(g.speed, Over(b.speed, p.speed)) \in Settings
  BY <1>2, <1>4, <1>5, OverridesType
<1> QED BY <1>6 DEF EffectiveSpeed

\* What a policy resolves to for one game.
LEMMA ResolvedType ==
  ASSUME NEW p \in Policies, NEW c, Resolves(p, c.bottle, c.path)
  PROVE  LET s == EffectiveSpeed(p, c.bottle, c.path)
             r == Resolved(p, c)
         IN  /\ s \in Settings /\ Usable(p, s)
             /\ r \in SingleGame /\ r.version = 1 /\ r.hotkeys = p.hotkeys
             /\ r.bottles = <<>> /\ r.games = <<>>
             /\ \A f \in {"initial", "min", "max", "startup", "steps"} : r.speed[f] = s[f]
             /\ r.speed.enabled = (s.enabled /\ ~Excluded(p, c.bottle, c.path))
<1> DEFINE s == EffectiveSpeed(p, c.bottle, c.path)
           x == ~Excluded(p, c.bottle, c.path)
           r == Resolved(p, c)
<1>1. Parses(p) /\ c.bottle \in DOMAIN BottleKey /\ c.path \in DOMAIN PathKey /\ Usable(p, s)
  BY DEF Resolves
<1>2. s \in Settings
  BY <1>1, EffectiveType
<1>3. p.version = 1 /\ p.hotkeys \in Hotkeys
  BY <1>1, LaunchAssumption DEF Parses
<1>4. PICK on \in BOOLEAN : on = (s.enabled /\ x)
  BY <1>2 DEF Settings
<1> HIDE DEF s, x
<1>5. PICK t : t = [s EXCEPT !.enabled = on]
  OBVIOUS
<1>6. /\ t \in Settings /\ t.enabled = on
      /\ \A f \in {"initial", "min", "max", "startup", "steps"} : t[f] = s[f]
  BY <1>2, <1>5 DEF Settings
<1>7. t = [s EXCEPT !.enabled = @ /\ x]
  BY <1>4, <1>5, Zenon
<1>8. r = [version |-> p.version, speed |-> t, hotkeys |-> p.hotkeys, bottles |-> <<>>, games |-> <<>>]
  BY <1>7, Zenon DEF Resolved, ResolvedLaunchProfile, s, x
<1>9. r \in SingleGame /\ r.version = 1 /\ r.hotkeys = p.hotkeys /\ r.bottles = <<>> /\ r.games = <<>> /\ r.speed = t
  BY <1>3, <1>6, <1>8 DEF SingleGame
<1> HIDE DEF r
<1>10. r.speed.enabled = (s.enabled /\ x) /\ \A f \in {"initial", "min", "max", "startup", "steps"} : r.speed[f] = s[f]
  BY <1>4, <1>6, <1>9
<1> QED BY <1>1, <1>2, <1>9, <1>10, Zenon DEF s, r, x

\* The DLL takes what the export resolved.
LEMMA ResolvedTaken ==
  ASSUME NEW p \in Policies, NEW c, Runnable(p, c)
  PROVE  LoadPreview(Resolved(p, c)) = "enabled"
<1> DEFINE s == EffectiveSpeed(p, c.bottle, c.path)
<1>1. PICK r : r = Resolved(p, c)
  OBVIOUS
<1>2. /\ r \in SingleGame /\ r.version = 1 /\ r.hotkeys = p.hotkeys /\ r.bottles = <<>> /\ r.games = <<>>
      /\ \A f \in {"initial", "min", "max", "startup", "steps"} : r.speed[f] = s[f]
      /\ Usable(p, s) /\ r.speed.enabled
  BY <1>1, ResolvedType, Zenon DEF Runnable
<1> HIDE DEF s
<1>3. r \notin {Absent, Garbage}
  BY <1>2, LaunchAssumption
<1>4. Usable(r, r.speed)
  BY <1>2 DEF Usable, ValidSettings, Compile
<1>5. ValidateOverrides(r)
  BY <1>2 DEF ValidateOverrides, DistinctRules, ToSet
<1>6. Parses(r) /\ r.bottles \o r.games = <<>>
  BY <1>2, <1>3, <1>4, <1>5 DEF Parses
<1> QED BY <1>1, <1>2, <1>6 DEF LoadPreview

LEMMA AskedSame ==
  ASSUME NEW c \in CommandLines
  PROVE  /\ Asked(c).launch /\ \A f \in {"offline", "bottle", "path", "program", "timers", "hud", "managed", "hudConfig", "host"} :
                Asked(c)[f] = c[f]
<1>1. PICK yes \in BOOLEAN : yes = TRUE
  OBVIOUS
<1>2. c \in [offline : BOOLEAN, launch : BOOLEAN, bottle : STRING, path : STRING, program : STRING,
             timers : BOOLEAN, hud : BOOLEAN, managed : BOOLEAN, hudConfig : BOOLEAN, host : SUBSET STRING]
  BY LaunchAssumption
<1>3. PICK a : a = [c EXCEPT !.launch = yes]
  OBVIOUS
<1>4. a.launch = yes /\ \A f \in {"offline", "bottle", "path", "program", "timers", "hud", "managed", "hudConfig", "host"} : a[f] = c[f]
  BY <1>2, <1>3
<1>5. a = Asked(c)
  BY <1>1, <1>3, Zenon DEF Asked
<1> QED BY <1>1, <1>4, <1>5

LEMMA AskedWell == ASSUME NEW c \in CommandLines, AllWell(c) PROVE AllWell(Asked(c))
<1>1. PICK a : a = Asked(c)
  OBVIOUS
<1>2. /\ a.offline = c.offline /\ a.bottle = c.bottle /\ a.path = c.path /\ a.program = c.program
      /\ a.timers = c.timers /\ a.hud = c.hud /\ a.managed = c.managed /\ a.hudConfig = c.hudConfig /\ a.host = c.host
  BY <1>1, AskedSame
<1>3. Accepted(a) = Accepted(c)
  BY <1>2, Zenon DEF Accepted
<1>4. Resolved(policy, a) = Resolved(policy, c) /\ Runnable(policy, a) = Runnable(policy, c)
  BY <1>2, Zenon DEF Resolved, Runnable
<1>5. ManagedHud(a) = ManagedHud(c) /\ Sets(a) = Sets(c)
  BY <1>2, Zenon DEF ManagedHud, Sets
<1>6. ProgramAccepted(a) = ProgramAccepted(c)
  BY <1>2, <1>5, Zenon DEF ProgramAccepted
<1>7. InventoryAccepted(a) = InventoryAccepted(c)
  BY <1>2, <1>5, Zenon DEF InventoryAccepted
<1> QED BY <1>1, <1>2, <1>3, <1>4, <1>5, <1>6, <1>7, Zenon DEF AllWell

\* What the program, Bottles and the launch make of the environment of the game.
LEMMA StartedAsAsked ==
  ASSUME NEW c \in CommandLines, NEW i \in Inventories, NEW l \in Libraries, NEW n \in DOMAIN l,
         \A v \in Sets(c) : BottleAccepts(i, v), ManagedHud(c) => "config" \notin DOMAIN i.explicit,
         DOMAIN l[n].env \cap (Sets(c) \cup If(ManagedHud(c), {"config"})) = {},
         NEW e, e = Environment(c, i, l[n])
  PROVE  /\ \A v \in Sets(c) : v \in DOMAIN e /\ e[v] = "ours"
         /\ "timers" \in DOMAIN e /\ ~c.timers => e["timers"] = "theirs"
         /\ ManagedHud(c) => "config" \notin DOMAIN e
<1> DEFINE h == HandedOver(c)
           through == {v \in DOMAIN h : i.limited => i.inherited[v] > 0}
           own == l[n].env
<1>1. DOMAIN h = Sets(c) \cup (c.host \ Removes(c)) /\ \A v \in Sets(c) : h[v] = "ours"
  BY DEF HandedOver
<1> HIDE DEF h
<1>2. e = [v \in DOMAIN own \cup (DOMAIN i.explicit \cup through) |->
             IF v \in DOMAIN own THEN own[v] ELSE IF v \in DOMAIN i.explicit THEN i.explicit[v] ELSE h[v]]
  BY DEF Environment, Over, Restrict, h
<1>3. ASSUME NEW v \in Sets(c) PROVE v \in through /\ v \notin DOMAIN own /\ v \notin DOMAIN i.explicit
  BY <1>1, <1>3 DEF BottleAccepts
<1> HIDE DEF own
<1>4. ASSUME NEW v \in Sets(c) PROVE v \in DOMAIN e /\ e[v] = "ours"
  BY <1>1, <1>2, <1>3
<1>5. "timers" \in Removes(c) /\ (~c.timers => "timers" \notin Sets(c))
  BY DEF Removes, Sets, If, Hud
<1>6. ~c.timers => "timers" \notin through
  BY <1>1, <1>5
<1>7. (\A v \in DOMAIN own : own[v] = "theirs") /\ \A v \in DOMAIN i.explicit : i.explicit[v] = "theirs"
  BY LaunchAssumption DEF own
<1>8. "timers" \in DOMAIN e /\ ~c.timers => e["timers"] = "theirs"
  BY <1>2, <1>6, <1>7
<1>9. ManagedHud(c) => "config" \in Removes(c) /\ "config" \notin Sets(c) /\ "config" \notin DOMAIN own
  BY DEF Removes, Sets, If, Hud, own
<1>10. ManagedHud(c) => "config" \notin DOMAIN e
  BY <1>1, <1>2, <1>9
<1> QED BY <1>4, <1>8, <1>10

\* A profile that matches what the policy resolves to says what the rules say.
RulesSay(p, c, file) ==
  /\ file.speed.enabled
  /\ \A r \in ToSet(p.games) :
       (BottleKey[r.bottle] = BottleKey[c.bottle] /\ PathKey[r.path] = PathKey[c.path]) =>
          ~r.exclude /\ \A f \in DOMAIN r.speed : file.speed[f] = r.speed[f]
  /\ \A r \in ToSet(p.bottles) : BottleKey[r.name] = BottleKey[c.bottle] => ~r.exclude

LEMMA RulesReach ==
  ASSUME NEW p \in Policies, NEW c, Runnable(p, c), NEW f, f.speed = Resolved(p, c).speed
  PROVE  RulesSay(p, c, f)
<1> DEFINE b == MatchedBottle(p, c.bottle)
           g == MatchedGame(p, c.bottle, c.path)
           s == EffectiveSpeed(p, c.bottle, c.path)
           Fields == {"initial", "min", "max", "startup", "steps"}
<1>1. Parses(p) /\ c.bottle \in DOMAIN BottleKey /\ c.path \in DOMAIN PathKey
  BY DEF Runnable, Resolves
<1>2. PICK t : t = Resolved(p, c).speed
  OBVIOUS
<1>3. /\ t.enabled /\ s \in Settings /\ t.enabled = (s.enabled /\ ~(b.exclude \/ g.exclude))
      /\ \A field \in Fields : t[field] = s[field]
  BY <1>2, ResolvedType, Zenon DEF Runnable, Excluded
<1>4. PICK on \in BOOLEAN : t.enabled = on
  BY <1>2, ResolvedType, Zenon DEF Runnable, SingleGame, Settings
<1>5. on = TRUE /\ s.enabled = TRUE /\ b.exclude = FALSE /\ g.exclude = FALSE
  BY <1>3, <1>4, FoundRules, LaunchAssumption, <1>1 DEF Rules, Parses, NoRule, Settings
<1>6. \A field \in DOMAIN s : t[field] = s[field]
  BY <1>3, <1>4, <1>5 DEF Settings
<1> HIDE DEF s
<1>7. \A field \in DOMAIN g.speed : field \in DOMAIN s /\ s[field] = g.speed[field]
  BY DEF s, EffectiveSpeed, Over
<1> HIDE DEF b, g
<1>8. ASSUME NEW i \in DOMAIN p.games, BottleKey[p.games[i].bottle] = BottleKey[c.bottle],
             PathKey[p.games[i].path] = PathKey[c.path]
      PROVE  g = p.games[i]
  BY <1>1, <1>8, FoundRules DEF g
<1>9. ASSUME NEW i \in DOMAIN p.bottles, BottleKey[p.bottles[i].name] = BottleKey[c.bottle]
      PROVE  b = p.bottles[i]
  BY <1>1, <1>9, FoundRules DEF b
<1>10. ASSUME NEW r \in ToSet(p.games), BottleKey[r.bottle] = BottleKey[c.bottle], PathKey[r.path] = PathKey[c.path]
       PROVE  ~r.exclude /\ \A field \in DOMAIN r.speed : f.speed[field] = r.speed[field]
  <2>1. r = g
    BY <1>8, <1>10 DEF ToSet
  <2> QED BY <2>1, <1>2, <1>5, <1>6, <1>7
<1>11. ASSUME NEW r \in ToSet(p.bottles), BottleKey[r.name] = BottleKey[c.bottle] PROVE ~r.exclude
  BY <1>5, <1>9, <1>11 DEF ToSet
<1> QED BY <1>2, <1>3, <1>10, <1>11 DEF RulesSay

LEMMA Frames ==
  /\ library' = library => \A c : ProgramAccepted(c)' = ProgramAccepted(c)
  /\ inventory' = inventory => \A c : InventoryAccepted(c)' = InventoryAccepted(c)
  /\ profile' = profile /\ expected' = expected => MatchesPolicy' = MatchesPolicy
  /\ UNCHANGED files => \A c : AllWell(c)' = AllWell(c)
<1>1. library' = library => \A c : ProgramAccepted(c)' = ProgramAccepted(c)
  BY Zenon DEF ProgramAccepted, Registered
<1>2. inventory' = inventory => \A c : InventoryAccepted(c)' = InventoryAccepted(c)
  BY Zenon DEF InventoryAccepted
<1>3. profile' = profile /\ expected' = expected => MatchesPolicy' = MatchesPolicy
  BY Zenon DEF MatchesPolicy
<1>4. UNCHANGED files => \A c : AllWell(c)' = AllWell(c)
  BY <1>1, <1>2 DEF AllWell, files
<1> QED BY <1>1, <1>2, <1>3, <1>4

LEMMA BeginLaunchKeeps == ASSUME LInv, NEW c \in CommandLines, BeginLaunch(c) PROVE LInv'
<1>1. LaunchShape' /\ Underway' /\ Exported'
  BY Frames DEF LInv, LaunchShape, Underway, Exported, BeginLaunch, End, launch, files, started, exporting, bounds
<1>2. Verified'
  BY Frames DEF LInv, Underway, Verified, PlainSeen, PolicySeen, ProfileSeen, ProgramsSeen, HudSeen, InventorySeen, Past, PastPlain, PastPolicy, PastDelivered, BeginLaunch, End, launch, files, started, exporting, bounds
<1>3. CheckedWell' /\ LaunchesWhatIsChecked'
  BY Frames DEF LInv, CheckedWell, LaunchesWhatIsChecked, Underway, AllWell, Verified, PolicySeen, Past, PastPolicy, BeginLaunch, End, launch, files, started, exporting, bounds
<1>4. ExportsWhatLaunchTakes'
  BY Frames DEF LInv, ExportsWhatLaunchTakes, Underway, Exported, Verified, PolicySeen, Past, PastPolicy, BeginLaunch, End, launch, files, started, exporting, bounds
<1>5. StartsAsAsked' /\ Delivered'
  BY Frames DEF LInv, StartsAsAsked, Delivered, Underway, BeginLaunch, End, launch, files, started, exporting, bounds
<1> QED BY <1>1, <1>2, <1>3, <1>4, <1>5 DEF LInv

LEMMA LocateKeeps == ASSUME LInv, Locate PROVE LInv'
<1>1. LaunchShape' /\ Underway' /\ Exported'
  BY Frames DEF LInv, LaunchShape, Underway, Exported, Locate, Examine, Others, End, launch, files, started, exporting, bounds
<1>2. Verified'
  BY Frames DEF LInv, Underway, Verified, PlainSeen, PolicySeen, ProfileSeen, ProgramsSeen, HudSeen, InventorySeen, Past, PastPlain, PastPolicy, PastDelivered, Locate, Examine, Others, End, launch, files, started, exporting, bounds
<1>3. CheckedWell' /\ LaunchesWhatIsChecked'
  BY Frames DEF LInv, CheckedWell, LaunchesWhatIsChecked, Underway, AllWell, Verified, PolicySeen, Past, PastPolicy, LoadPreview, Parses, Locate, Examine, Others, End, launch, files, started, exporting, bounds
<1>4. ExportsWhatLaunchTakes'
  BY Frames DEF LInv, ExportsWhatLaunchTakes, Underway, Exported, Verified, PolicySeen, Past, PastPolicy, Locate, Examine, Others, End, launch, files, started, exporting, bounds
<1>5. StartsAsAsked' /\ Delivered'
  BY Frames DEF LInv, StartsAsAsked, Delivered, Underway, Locate, Examine, Others, End, launch, files, started, exporting, bounds
<1> QED BY <1>1, <1>2, <1>3, <1>4, <1>5 DEF LInv

LEMMA ReadEnabledKeeps == ASSUME LInv, ReadEnabled PROVE LInv'
<1>1. LaunchShape' /\ Underway' /\ Exported'
  BY Frames DEF LInv, LaunchShape, Underway, Exported, ReadEnabled, Examine, Others, End, launch, files, started, exporting, bounds
<1>2. Verified'
  BY Frames DEF LInv, Underway, Verified, PlainSeen, PolicySeen, ProfileSeen, ProgramsSeen, HudSeen, InventorySeen, Past, PastPlain, PastPolicy, PastDelivered, ReadEnabled, Examine, Others, End, launch, files, started, exporting, bounds
<1>3. CheckedWell' /\ LaunchesWhatIsChecked'
  BY Frames DEF LInv, CheckedWell, LaunchesWhatIsChecked, Underway, AllWell, Verified, PolicySeen, Past, PastPolicy, ReadEnabled, Examine, Others, End, launch, files, started, exporting, bounds
<1>4. ExportsWhatLaunchTakes'
  BY Frames DEF LInv, ExportsWhatLaunchTakes, Underway, Exported, Verified, PolicySeen, Past, PastPolicy, ReadEnabled, Examine, Others, End, launch, files, started, exporting, bounds
<1>5. StartsAsAsked' /\ Delivered'
  BY Frames DEF LInv, StartsAsAsked, Delivered, Underway, ReadEnabled, Examine, Others, End, launch, files, started, exporting, bounds
<1> QED BY <1>1, <1>2, <1>3, <1>4, <1>5 DEF LInv

LEMMA ReadPolicyKeeps == ASSUME LInv, ReadPolicy PROVE LInv'
<1>1. LaunchShape' /\ Underway' /\ Exported'
  BY Frames DEF LInv, LaunchShape, Underway, Exported, ReadPolicy, Examine, Others, End, launch, files, started, exporting, bounds
<1>2. Verified'
  BY Frames DEF LInv, Underway, Verified, PlainSeen, PolicySeen, ProfileSeen, ProgramsSeen, HudSeen, InventorySeen, Past, PastPlain, PastPolicy, PastDelivered, Runnable, Resolved, ReadPolicy, Examine, Others, End, launch, files, started, exporting, bounds
<1>3. CheckedWell' /\ LaunchesWhatIsChecked'
  BY Frames DEF LInv, CheckedWell, LaunchesWhatIsChecked, Underway, AllWell, Verified, PolicySeen, Past, PastPolicy, Runnable, Resolved, ReadPolicy, Examine, Others, End, launch, files, started, exporting, bounds
<1>4. ExportsWhatLaunchTakes'
  BY Frames DEF LInv, ExportsWhatLaunchTakes, Underway, Exported, Verified, PolicySeen, Past, PastPolicy, ReadPolicy, Examine, Others, End, launch, files, started, exporting, bounds
<1>5. StartsAsAsked' /\ Delivered'
  BY Frames DEF LInv, StartsAsAsked, Delivered, Underway, ReadPolicy, Examine, Others, End, launch, files, started, exporting, bounds
<1> QED BY <1>1, <1>2, <1>3, <1>4, <1>5 DEF LInv

LEMMA ReadDeliveredKeeps == ASSUME LInv, ReadDelivered PROVE LInv'
<1>1. LaunchShape' /\ Underway' /\ Exported'
  BY Frames DEF LInv, LaunchShape, Underway, Exported, ReadDelivered, Examine, Others, End, launch, files, started, exporting, bounds
<1>2. Verified'
  BY Frames DEF LInv, Underway, Verified, PlainSeen, PolicySeen, ProfileSeen, ProgramsSeen, HudSeen, InventorySeen, Past, PastPlain, PastPolicy, PastDelivered, ReadDelivered, Examine, Others, End, launch, files, started, exporting, bounds
<1>3. CheckedWell' /\ LaunchesWhatIsChecked'
  BY Frames DEF LInv, CheckedWell, LaunchesWhatIsChecked, Underway, AllWell, Verified, PolicySeen, Past, PastPolicy, MatchesPolicy, ReadDelivered, Examine, Others, End, launch, files, started, exporting, bounds
<1>4. ExportsWhatLaunchTakes'
  <2>1. SUFFICES ASSUME export = "done", exportStale = {}, stale \subseteq {"profile"}, selection = Selected(choice)
                 PROVE  MatchesPolicy
    BY DEF LInv, Underway, ExportsWhatLaunchTakes, ReadDelivered, Examine, Others, End, files, exporting
  <2>2. Runnable(policy, choice) /\ expected = Resolved(policy, choice)
    BY <2>1 DEF LInv, Verified, PolicySeen, PastPolicy, Past, ReadDelivered
  <2>3. profile = Resolved(policy, choice)
    BY <2>1 DEF LInv, Exported, Resolved, Selected
  <2>4. policy \in Policies
    BY DEF LInv, LaunchShape
  <2> QED BY <2>2, <2>3, <2>4, ResolvedTaken DEF MatchesPolicy
<1>5. StartsAsAsked' /\ Delivered'
  BY Frames DEF LInv, StartsAsAsked, Delivered, Underway, ReadDelivered, Examine, Others, End, launch, files, started, exporting, bounds
<1> QED BY <1>1, <1>2, <1>3, <1>4, <1>5 DEF LInv

LEMMA ReadProgramsKeeps == ASSUME LInv, ReadPrograms PROVE LInv'
<1>1. LaunchShape' /\ Underway' /\ Exported'
  BY Frames DEF LInv, LaunchShape, Underway, Exported, ReadPrograms, Examine, Others, End, launch, files, started, exporting, bounds
<1>2. Verified'
  BY Frames DEF LInv, Underway, Verified, PlainSeen, PolicySeen, ProfileSeen, ProgramsSeen, HudSeen, InventorySeen, Past, PastPlain, PastPolicy, PastDelivered, ReadPrograms, Examine, Others, End, launch, files, started, exporting, bounds
<1>3. CheckedWell' /\ LaunchesWhatIsChecked'
  BY Frames DEF LInv, CheckedWell, LaunchesWhatIsChecked, Underway, AllWell, Verified, PolicySeen, Past, PastPolicy, ReadPrograms, Examine, Others, End, launch, files, started, exporting, bounds
<1>4. ExportsWhatLaunchTakes'
  BY Frames DEF LInv, ExportsWhatLaunchTakes, Underway, Exported, Verified, PolicySeen, Past, PastPolicy, ReadPrograms, Examine, Others, End, launch, files, started, exporting, bounds
<1>5. StartsAsAsked' /\ Delivered'
  BY Frames DEF LInv, StartsAsAsked, Delivered, Underway, ReadPrograms, Examine, Others, End, launch, files, started, exporting, bounds
<1> QED BY <1>1, <1>2, <1>3, <1>4, <1>5 DEF LInv

LEMMA ReadHudKeeps == ASSUME LInv, ReadHud PROVE LInv'
<1>1. LaunchShape' /\ Underway' /\ Exported'
  BY Frames DEF LInv, LaunchShape, Underway, Exported, ReadHud, Examine, Others, End, launch, files, started, exporting, bounds
<1>2. Verified'
  BY Frames DEF LInv, Underway, Verified, PlainSeen, PolicySeen, ProfileSeen, ProgramsSeen, HudSeen, InventorySeen, Past, PastPlain, PastPolicy, PastDelivered, ReadHud, Examine, Others, End, launch, files, started, exporting, bounds
<1>3. CheckedWell' /\ LaunchesWhatIsChecked'
  BY Frames DEF LInv, CheckedWell, LaunchesWhatIsChecked, Underway, AllWell, Verified, PolicySeen, Past, PastPolicy, ReadHud, Examine, Others, End, launch, files, started, exporting, bounds
<1>4. ExportsWhatLaunchTakes'
  BY Frames DEF LInv, ExportsWhatLaunchTakes, Underway, Exported, Verified, PolicySeen, Past, PastPolicy, ReadHud, Examine, Others, End, launch, files, started, exporting, bounds
<1>5. StartsAsAsked' /\ Delivered'
  BY Frames DEF LInv, StartsAsAsked, Delivered, Underway, ReadHud, Examine, Others, End, launch, files, started, exporting, bounds
<1> QED BY <1>1, <1>2, <1>3, <1>4, <1>5 DEF LInv

LEMMA ReadInventoryKeeps == ASSUME LInv, ReadInventory PROVE LInv'
<1>1. LaunchShape' /\ Underway' /\ Exported'
  BY Frames DEF LInv, LaunchShape, Underway, Exported, ReadInventory, Examine, Others, End, launch, files, started, exporting, bounds
<1>2. Verified'
  BY Frames DEF LInv, Underway, Verified, PlainSeen, PolicySeen, ProfileSeen, ProgramsSeen, HudSeen, InventorySeen, Past, PastPlain, PastPolicy, PastDelivered, ReadInventory, Examine, Others, End, launch, files, started, exporting, bounds
<1>3. CheckedWell' /\ LaunchesWhatIsChecked'
  BY Frames DEF LInv, CheckedWell, LaunchesWhatIsChecked, Underway, AllWell, Verified, PolicySeen, Past, PastPolicy, ReadInventory, Examine, Others, End, launch, files, started, exporting, bounds
<1>4. ExportsWhatLaunchTakes'
  BY Frames DEF LInv, ExportsWhatLaunchTakes, Underway, Exported, Verified, PolicySeen, Past, PastPolicy, ReadInventory, Examine, Others, End, launch, files, started, exporting, bounds
<1>5. StartsAsAsked' /\ Delivered'
  BY Frames DEF LInv, StartsAsAsked, Delivered, Underway, ReadInventory, Examine, Others, End, launch, files, started, exporting, bounds
<1> QED BY <1>1, <1>2, <1>3, <1>4, <1>5 DEF LInv

LEMMA ReportKeeps == ASSUME LInv, Report PROVE LInv'
<1>1. LaunchShape' /\ Underway' /\ Exported'
  BY Frames DEF LInv, LaunchShape, Underway, Exported, Report, End, launch, files, started, exporting, bounds
<1>2. Verified'
  BY Frames DEF LInv, Underway, Verified, PlainSeen, PolicySeen, ProfileSeen, ProgramsSeen, HudSeen, InventorySeen, Past, PastPlain, PastPolicy, PastDelivered, Report, End, launch, files, started, exporting, bounds
<1>3. CheckedWell'
  <2>1. UNCHANGED files /\ UNCHANGED stale /\ step = "ready" /\ choice \in CommandLines
    BY DEF Report, LInv, LaunchShape, files
  <2>2. CASE stale # {}
    BY <2>1, <2>2, Frames DEF Report, LInv, CheckedWell
  <2>3. CASE stale = {}
    <3>1. AllWell(choice)
      BY <2>1, <2>3 DEF LInv, Underway, Verified, PlainSeen, PolicySeen, ProfileSeen, ProgramsSeen, HudSeen,
         InventorySeen, PastPlain, PastPolicy, PastDelivered, Past, AllWell, MatchesPolicy, InventoryAccepted
    <3>2. AllWell(Asked(choice))
      BY <2>1, <3>1, AskedWell
    <3>3. checked' = checked \cup {Asked(choice)}
      BY <2>3 DEF Report
    <3> QED BY <2>1, <2>3, <3>2, <3>3, Frames DEF LInv, CheckedWell
  <2> QED BY <2>2, <2>3
<1>4. LaunchesWhatIsChecked'
  BY Frames DEF LInv, CheckedWell, LaunchesWhatIsChecked, Underway, AllWell, Verified, PolicySeen, Past, PastPolicy, Report, End, launch, files, started, exporting, bounds
<1>5. ExportsWhatLaunchTakes'
  BY Frames DEF LInv, ExportsWhatLaunchTakes, Underway, Exported, Verified, PolicySeen, Past, PastPolicy, Report, End, launch, files, started, exporting, bounds
<1>6. StartsAsAsked' /\ Delivered'
  BY Frames DEF LInv, StartsAsAsked, Delivered, Underway, Report, End, launch, files, started, exporting, bounds
<1> QED BY <1>1, <1>2, <1>3, <1>4, <1>5, <1>6 DEF LInv

LEMMA RunStartsKeeps == ASSUME LInv, RunStarts PROVE LInv'
<1>1. LaunchShape' /\ Underway' /\ Exported'
  BY Frames DEF LInv, LaunchShape, Underway, Exported, RunStarts, launch, files, started, exporting, bounds
<1>2. Verified'
  BY Frames DEF LInv, Underway, Verified, PlainSeen, PolicySeen, ProfileSeen, ProgramsSeen, HudSeen, InventorySeen, Past, PastPlain, PastPolicy, PastDelivered, RunStarts, launch, files, started, exporting, bounds
<1>3. CheckedWell' /\ LaunchesWhatIsChecked'
  BY Frames DEF LInv, CheckedWell, LaunchesWhatIsChecked, Underway, AllWell, Verified, PolicySeen, Past, PastPolicy, RunStarts, launch, files, started, exporting, bounds
<1>4. ExportsWhatLaunchTakes'
  BY Frames DEF LInv, ExportsWhatLaunchTakes, Underway, Exported, Verified, PolicySeen, Past, PastPolicy, RunStarts, launch, files, started, exporting, bounds
<1>5. StartsAsAsked'
  <2>1. /\ UNCHANGED choice /\ step = "ready"
        /\ choice \in CommandLines /\ inventory \in Inventories /\ library \in Libraries
    BY DEF RunStarts, LInv, LaunchShape
  <2>2. PICK n \in Registered(choice.program) :
          game' = [path |-> library[n].path, env |-> Environment(choice, inventory, library[n]),
                   changed |-> stale \cap {"library", "inventory"}]
    BY DEF RunStarts
  <2>3. SUFFICES ASSUME game'.changed = {} PROVE StartsAsAsked'
    BY DEF StartsAsAsked
  <2>4. ProgramAccepted(choice) /\ InventoryAccepted(choice)
    BY <2>1, <2>2, <2>3 DEF LInv, Verified, ProgramsSeen, InventorySeen, Past
  <2>5. /\ n \in DOMAIN library /\ PathKey[library[n].path] = PathKey[choice.path]
        /\ DOMAIN library[n].env \cap (Sets(choice) \cup If(ManagedHud(choice), {"config"})) = {}
    BY <2>2, <2>4 DEF ProgramAccepted, Registered
  <2>6. /\ \A v \in Sets(choice) : BottleAccepts(inventory, v)
        /\ ManagedHud(choice) => "config" \notin DOMAIN inventory.explicit
    BY <2>4 DEF InventoryAccepted
  <2>7. PICK e : e = Environment(choice, inventory, library[n])
    OBVIOUS
  <2>8. game'.path = library[n].path /\ game'.env = e
    BY <2>2, <2>7
  <2>9. /\ \A v \in Sets(choice) : v \in DOMAIN e /\ e[v] = "ours"
        /\ "timers" \in DOMAIN e /\ ~choice.timers => e["timers"] = "theirs"
        /\ ManagedHud(choice) => "config" \notin DOMAIN e
    BY <2>1, <2>5, <2>6, <2>7, StartedAsAsked
  <2> QED BY <2>1, <2>5, <2>8, <2>9 DEF StartsAsAsked
<1>6. Delivered'
  BY Frames DEF LInv, StartsAsAsked, Delivered, Underway, RunStarts, launch, files, started, exporting, bounds
<1> QED BY <1>1, <1>2, <1>3, <1>4, <1>5, <1>6 DEF LInv

LEMMA RunEndsKeeps == ASSUME LInv, RunEnds PROVE LInv'
<1>1. LaunchShape' /\ Underway' /\ Exported'
  BY Frames DEF LInv, LaunchShape, Underway, Exported, RunEnds, End, Others, launch, files, started, exporting, bounds
<1>2. Verified'
  BY Frames DEF LInv, Underway, Verified, PlainSeen, PolicySeen, ProfileSeen, ProgramsSeen, HudSeen, InventorySeen, Past, PastPlain, PastPolicy, PastDelivered, RunEnds, End, Others, launch, files, started, exporting, bounds
<1>3. CheckedWell' /\ LaunchesWhatIsChecked'
  BY Frames DEF LInv, CheckedWell, LaunchesWhatIsChecked, Underway, AllWell, Verified, PolicySeen, Past, PastPolicy, RunEnds, End, Others, launch, files, started, exporting, bounds
<1>4. ExportsWhatLaunchTakes'
  BY Frames DEF LInv, ExportsWhatLaunchTakes, Underway, Exported, Verified, PolicySeen, Past, PastPolicy, RunEnds, End, Others, launch, files, started, exporting, bounds
<1>5. StartsAsAsked' /\ Delivered'
  BY Frames DEF LInv, StartsAsAsked, Delivered, Underway, RunEnds, End, Others, launch, files, started, exporting, bounds
<1> QED BY <1>1, <1>2, <1>3, <1>4, <1>5 DEF LInv

LEMMA GameLoadsKeeps == ASSUME LInv, GameLoads PROVE LInv'
<1>1. LaunchShape' /\ Underway' /\ Exported'
  BY Frames DEF LInv, LaunchShape, Underway, Exported, GameLoads, launch, files, started, exporting, bounds
<1>2. Verified'
  BY Frames DEF LInv, Underway, Verified, PlainSeen, PolicySeen, ProfileSeen, ProgramsSeen, HudSeen, InventorySeen, Past, PastPlain, PastPolicy, PastDelivered, GameLoads, launch, files, started, exporting, bounds
<1>3. CheckedWell' /\ LaunchesWhatIsChecked'
  BY Frames DEF LInv, CheckedWell, LaunchesWhatIsChecked, Underway, AllWell, Verified, PolicySeen, Past, PastPolicy, GameLoads, launch, files, started, exporting, bounds
<1>4. ExportsWhatLaunchTakes'
  BY Frames DEF LInv, ExportsWhatLaunchTakes, Underway, Exported, Verified, PolicySeen, Past, PastPolicy, GameLoads, launch, files, started, exporting, bounds
<1>5. Delivered'
  <2>1. SUFFICES ASSUME game.changed = {}, stale \cap {"policy", "profile", "plain"} = {}
                 PROVE  loaded' = "configured"
    BY DEF GameLoads, Delivered
  <2>2. game # NoGame
    BY DEF GameLoads
  <2>3. "profile" \in DOMAIN game.env /\ game.env["profile"] = "ours"
    BY <2>1, <2>2 DEF LInv, StartsAsAsked, Sets
  <2>4. plain = TRUE /\ LoadPreview(profile) = "enabled"
    BY <2>1, <2>2 DEF LInv, Verified, PlainSeen, PastPlain, ProfileSeen, Past, PastDelivered, MatchesPolicy
  <2> QED BY <2>3, <2>4 DEF GameLoads
<1>6. StartsAsAsked'
  BY Frames DEF LInv, StartsAsAsked, Delivered, Underway, GameLoads, launch, files, started, exporting, bounds
<1> QED BY <1>1, <1>2, <1>3, <1>4, <1>5, <1>6 DEF LInv

LEMMA ExportReadsKeeps == ASSUME LInv, ExportReads PROVE LInv'
<1>1. Exported'
  <2>1. UNCHANGED <<policy, selection, profile>>
    BY DEF ExportReads, files
  <2>2. SUFFICES ASSUME export' \in {"resolved", "created", "done"}
                 PROVE  Resolves(policy, selection.bottle, selection.path) /\ rendered' = Resolved(policy, selection)
                        /\ export' = "resolved"
    BY <2>1 DEF Exported
  <2> QED BY <2>2 DEF ExportReads, Resolved
<1>2. LaunchShape' /\ Underway'
  BY Frames DEF LInv, LaunchShape, Underway, Exported, ExportReads, launch, files, started, exporting, bounds
<1>3. Verified'
  BY Frames DEF LInv, Underway, Verified, PlainSeen, PolicySeen, ProfileSeen, ProgramsSeen, HudSeen, InventorySeen, Past, PastPlain, PastPolicy, PastDelivered, ExportReads, launch, files, started, exporting, bounds
<1>4. CheckedWell' /\ LaunchesWhatIsChecked'
  BY Frames DEF LInv, CheckedWell, LaunchesWhatIsChecked, Underway, AllWell, Verified, PolicySeen, Past, PastPolicy, ExportReads, launch, files, started, exporting, bounds
<1>5. ExportsWhatLaunchTakes'
  BY Frames DEF LInv, ExportsWhatLaunchTakes, Underway, Exported, Verified, PolicySeen, Past, PastPolicy, ExportReads, launch, files, started, exporting, bounds
<1>6. StartsAsAsked' /\ Delivered'
  BY Frames DEF LInv, StartsAsAsked, Delivered, Underway, ExportReads, launch, files, started, exporting, bounds
<1> QED BY <1>1, <1>2, <1>3, <1>4, <1>5, <1>6 DEF LInv

LEMMA ExportCreatesKeeps == ASSUME LInv, ExportCreates PROVE LInv'
<1>1. LaunchShape' /\ Underway' /\ Exported'
  BY Frames DEF LInv, LaunchShape, Underway, Exported, ExportCreates, launch, files, started, exporting, bounds
<1>2. Verified'
  BY Frames DEF LInv, Underway, Verified, PlainSeen, PolicySeen, ProfileSeen, ProgramsSeen, HudSeen, InventorySeen, Past, PastPlain, PastPolicy, PastDelivered, ExportCreates, launch, files, started, exporting, bounds
<1>3. CheckedWell' /\ LaunchesWhatIsChecked'
  BY Frames DEF LInv, CheckedWell, LaunchesWhatIsChecked, Underway, AllWell, Verified, PolicySeen, Past, PastPolicy, ExportCreates, launch, files, started, exporting, bounds
<1>4. ExportsWhatLaunchTakes'
  BY Frames DEF LInv, ExportsWhatLaunchTakes, Underway, Exported, Verified, PolicySeen, Past, PastPolicy, ExportCreates, launch, files, started, exporting, bounds
<1>5. StartsAsAsked' /\ Delivered'
  BY Frames DEF LInv, StartsAsAsked, Delivered, Underway, ExportCreates, launch, files, started, exporting, bounds
<1> QED BY <1>1, <1>2, <1>3, <1>4, <1>5 DEF LInv

LEMMA ExportWritesKeeps == ASSUME LInv, NEW whole \in BOOLEAN, ExportWrites(whole) PROVE LInv'
<1>1. LaunchShape' /\ Underway' /\ Exported'
  BY Frames DEF LInv, LaunchShape, Underway, Exported, ExportWrites, launch, files, started, exporting, bounds
<1>2. Verified'
  BY Frames DEF LInv, Underway, Verified, PlainSeen, PolicySeen, ProfileSeen, ProgramsSeen, HudSeen, InventorySeen, Past, PastPlain, PastPolicy, PastDelivered, ExportWrites, launch, files, started, exporting, bounds
<1>3. CheckedWell' /\ LaunchesWhatIsChecked'
  BY Frames DEF LInv, CheckedWell, LaunchesWhatIsChecked, Underway, AllWell, Verified, PolicySeen, Past, PastPolicy, ExportWrites, launch, files, started, exporting, bounds
<1>4. ExportsWhatLaunchTakes'
  BY Frames DEF LInv, ExportsWhatLaunchTakes, Underway, Exported, Verified, PolicySeen, Past, PastPolicy, ExportWrites, launch, files, started, exporting, bounds
<1>5. StartsAsAsked' /\ Delivered'
  BY Frames DEF LInv, StartsAsAsked, Delivered, Underway, ExportWrites, launch, files, started, exporting, bounds
<1> QED BY <1>1, <1>2, <1>3, <1>4, <1>5 DEF LInv

LEMMA EditKeeps == ASSUME LInv, Edit PROVE LInv'
<1>1. LaunchShape' /\ Underway' /\ Exported'
  BY Frames DEF LInv, LaunchShape, Underway, Exported, Edit, Changed, launch, files, started, exporting, bounds
<1>2. Verified'
  BY Frames DEF LInv, Underway, Verified, PlainSeen, PolicySeen, ProfileSeen, ProgramsSeen, HudSeen, InventorySeen, Past, PastPlain, PastPolicy, PastDelivered, Edit, Changed, launch, files, started, exporting, bounds
<1>3. CheckedWell' /\ LaunchesWhatIsChecked'
  BY Frames DEF LInv, CheckedWell, LaunchesWhatIsChecked, Underway, AllWell, Verified, PolicySeen, Past, PastPolicy, Edit, Changed, launch, files, started, exporting, bounds
<1>4. ExportsWhatLaunchTakes'
  BY Frames DEF LInv, ExportsWhatLaunchTakes, Underway, Exported, Verified, PolicySeen, Past, PastPolicy, Edit, Changed, launch, files, started, exporting, bounds
<1>5. StartsAsAsked' /\ Delivered'
  BY Frames DEF LInv, StartsAsAsked, Delivered, Underway, Edit, Changed, launch, files, started, exporting, bounds
<1> QED BY <1>1, <1>2, <1>3, <1>4, <1>5 DEF LInv

LEMMA StutterKeeps == ASSUME LInv, UNCHANGED launchVars PROVE LInv'
<1>1. LaunchShape' /\ Underway' /\ Exported'
  BY Frames DEF LInv, LaunchShape, Underway, Exported, launchVars, launch, files, started, exporting, bounds
<1>2. Verified'
  BY Frames DEF LInv, Underway, Verified, PlainSeen, PolicySeen, ProfileSeen, ProgramsSeen, HudSeen, InventorySeen, Past, PastPlain, PastPolicy, PastDelivered, launchVars, launch, files, started, exporting, bounds
<1>3. CheckedWell' /\ LaunchesWhatIsChecked'
  BY Frames DEF LInv, CheckedWell, LaunchesWhatIsChecked, Underway, AllWell, Verified, PolicySeen, Past, PastPolicy, launchVars, launch, files, started, exporting, bounds
<1>4. ExportsWhatLaunchTakes'
  BY Frames DEF LInv, ExportsWhatLaunchTakes, Underway, Exported, Verified, PolicySeen, Past, PastPolicy, launchVars, launch, files, started, exporting, bounds
<1>5. StartsAsAsked' /\ Delivered'
  BY Frames DEF LInv, StartsAsAsked, Delivered, Underway, launchVars, launch, files, started, exporting, bounds
<1> QED BY <1>1, <1>2, <1>3, <1>4, <1>5 DEF LInv

\* In every behaviour of exports, launches and changes by others, for any policies,
\* bottles, programs and command lines: a game starts as it was asked for and with what
\* the user's rules say of it, what the export writes is taken, and a launch that was
\* checked goes through, each unless something changed in between.
THEOREM LaunchesAreTrue == LaunchSpec => []LaunchTrue
<1>1. LaunchInit => LInv
  <2> SUFFICES ASSUME LaunchInit PROVE LInv
    OBVIOUS
  <2>1. choice \in CommandLines
    BY LaunchAssumption DEF LaunchInit
  <2>2. LaunchShape
    BY <2>1 DEF LaunchInit, LaunchShape
  <2>3. game = NoGame /\ step = "idle" /\ ended = "none" /\ loaded = "no" /\ checked = {} /\ export = "idle"
    BY DEF LaunchInit
  <2>4. Verified
    BY <2>3 DEF Verified, PlainSeen, PastPlain, PolicySeen, ProfileSeen, ProgramsSeen, HudSeen,
       InventorySeen, Past, PastPolicy, PastDelivered
  <2>5. Underway /\ CheckedWell /\ Exported
    BY <2>3 DEF Underway, CheckedWell, Exported
  <2>6. StartsAsAsked /\ Delivered /\ ExportsWhatLaunchTakes /\ LaunchesWhatIsChecked
    BY <2>3 DEF StartsAsAsked, Delivered, ExportsWhatLaunchTakes, LaunchesWhatIsChecked
  <2> QED BY <2>2, <2>4, <2>5, <2>6 DEF LInv
<1>2. LInv /\ [LaunchNext]_launchVars => LInv'
  BY BeginLaunchKeeps, LocateKeeps, ReadEnabledKeeps, ReadPolicyKeeps, ReadDeliveredKeeps,
     ReadProgramsKeeps, ReadHudKeeps, ReadInventoryKeeps, ReportKeeps, RunStartsKeeps, RunEndsKeeps,
     GameLoadsKeeps, ExportReadsKeeps, ExportCreatesKeeps, ExportWritesKeeps, EditKeeps, StutterKeeps
     DEF LaunchNext
<1>3. LInv => LaunchTrue
  <2> SUFFICES ASSUME LInv PROVE LaunchTrue
    OBVIOUS
  <2>1. ASSUME game # NoGame, loaded # "no", game.changed = {}, stale \cap {"policy", "profile", "plain"} = {}
        PROVE  loaded = "configured" /\ Runnable(policy, choice) /\ expected = Resolved(policy, choice)
               /\ MatchesPolicy
    BY <2>1 DEF LInv, Delivered, Verified, PolicySeen, ProfileSeen, PastPolicy, PastDelivered, Past
  <2>2. RunsWithPolicy
    <3>1. SUFFICES ASSUME game # NoGame, loaded # "no", game.changed = {},
                          stale \cap {"policy", "profile", "plain"} = {}
                   PROVE  /\ loaded = "configured"
                          /\ profile.speed.enabled /\ profile.hotkeys = policy.hotkeys
                          /\ \A r \in ToSet(policy.games) :
                               (BottleKey[r.bottle] = BottleKey[choice.bottle] /\ PathKey[r.path] = PathKey[choice.path]) =>
                                  ~r.exclude /\ \A f \in DOMAIN r.speed : profile.speed[f] = r.speed[f]
                          /\ \A r \in ToSet(policy.bottles) :
                               BottleKey[r.name] = BottleKey[choice.bottle] => ~r.exclude
      BY Zenon DEF RunsWithPolicy
    <3>2. policy \in Policies /\ Runnable(policy, choice) /\ expected = Resolved(policy, choice)
          /\ profile.speed = Resolved(policy, choice).speed /\ profile.hotkeys = Resolved(policy, choice).hotkeys
      BY <2>1, <3>1 DEF LInv, LaunchShape, MatchesPolicy
    <3>3. Resolved(policy, choice).hotkeys = policy.hotkeys
      BY <3>2, ResolvedType, Zenon DEF Runnable
    <3>4. RulesSay(policy, choice, profile)
      BY <3>2, RulesReach
    <3> QED BY <2>1, <3>1, <3>2, <3>3, <3>4, Zenon DEF RulesSay
  <2> QED BY <2>2 DEF LInv, LaunchTrue
<1> QED BY <1>1, <1>2, <1>3, PTL DEF LaunchSpec

(***************************************************************************)
(* The RPC server                                                          *)
(***************************************************************************)

Servers == {"starting", "listening", "draining", "returned", "aborted", "ended"}
ClientStates == {"new", "queued", "open", "waiting", "left", "closed"}
TaskStates == {"none", "reading", "handling", "writing", "done"}
JobStates == {"none", "queued", "running"}

ServerTypes ==
  /\ server \in Servers
  /\ handle \in {"none", "held", "joining", "stopped"}
  /\ client \in [Clients -> ClientStates]
  /\ task \in [Clients -> TaskStates]
  /\ job \in [Clients -> JobStates]

\* A client that may call has a task, and no task outlives the accept loop.
Accounted ==
  /\ \A c \in Clients : client[c] \in {"open", "waiting"} => c \in Serving
  /\ server \in {"starting", "returned", "aborted", "ended"} => Serving = {}

\* The thread ends behind the blocking tasks, and stop() behind the thread.
ServerOver ==
  /\ server \in {"starting", "ended"} => \A c \in Clients : job[c] = "none"
  /\ handle = "stopped" => server = "ended"

ServerInv == ServerTypes /\ Accounted /\ ServerOver

-----------------------------------------------------------------------------

LEMMA ServerStarts == ServeInit => ServerInv
BY DEF ServeInit, ServerInv, ServerTypes, Accounted, ServerOver, Serving, Servers, ClientStates, TaskStates, JobStates

LEMMA ServerTypesStep == ServerInv /\ [ServeNext]_serverVars => ServerTypes'
<1> SUFFICES ASSUME ServerTypes, [ServeNext]_serverVars PROVE ServerTypes'
  BY DEF ServerInv
<1> USE DEF ServerTypes, Servers, ClientStates, TaskStates, JobStates
<1>1. CASE Bind \/ BindFails \/ AcceptFails \/ ServerSeesShutdown \/ Drained \/ ThreadEnds
  BY <1>1 DEF Bind, BindFails, AcceptFails, Abort, ServerSeesShutdown, Drained, ThreadEnds
<1>2. CASE HostStops \/ WorkerStops \/ WorkerReturns \/ Joined
  BY <1>2 DEF HostStops, WorkerStops, WorkerReturns, Stop, Joined
<1>3. ASSUME NEW c \in Clients, Admit(c) \/ Refuse(c) \/ InstanceFails(c)
      PROVE ServerTypes'
  BY <1>3 DEF Admit, Refuse, InstanceFails, Abort
<1>4. ASSUME NEW c \in Clients, Connect(c) \/ Call(c) \/ Leave(c)
      PROVE ServerTypes'
  BY <1>4 DEF Connect, Call, Leave
<1>5. ASSUME NEW c \in Clients, Read(c) \/ SeesEnd(c) \/ Write(c) \/ WriteFails(c) \/ SeesShutdown(c)
      PROVE ServerTypes'
  BY <1>5 DEF Read, SeesEnd, Write, WriteFails, SeesShutdown, Return
<1>6. ASSUME NEW c \in Clients, BeginWork(c) \/ Execute(c)
      PROVE ServerTypes'
  BY <1>6 DEF BeginWork, Execute
<1>7. CASE UNCHANGED serverVars
  BY <1>7 DEF serverVars
<1> QED
  BY <1>1, <1>2, <1>3, <1>4, <1>5, <1>6, <1>7 DEF ServeNext, Reactor, Connection, Blocking

LEMMA AccountedStep == ServerInv /\ [ServeNext]_serverVars => Accounted'
<1> SUFFICES ASSUME ServerTypes, Accounted, [ServeNext]_serverVars PROVE Accounted'
  BY DEF ServerInv
<1> USE DEF ServerTypes, Accounted, Serving
<1>1. CASE Bind \/ BindFails \/ AcceptFails \/ ServerSeesShutdown \/ Drained \/ ThreadEnds
  BY <1>1 DEF Bind, BindFails, AcceptFails, Abort, ServerSeesShutdown, Drained, ThreadEnds
<1>2. CASE HostStops \/ WorkerStops \/ WorkerReturns \/ Joined
  BY <1>2 DEF HostStops, WorkerStops, WorkerReturns, Stop, Joined
<1>3. ASSUME NEW c \in Clients, Admit(c) \/ Refuse(c) \/ InstanceFails(c)
      PROVE Accounted'
  BY <1>3 DEF Admit, Refuse, InstanceFails, Abort
<1>4. ASSUME NEW c \in Clients, Connect(c) \/ Call(c) \/ Leave(c)
      PROVE Accounted'
  BY <1>4 DEF Connect, Call, Leave
<1>5. ASSUME NEW c \in Clients, Read(c) \/ SeesEnd(c) \/ Write(c) \/ WriteFails(c) \/ SeesShutdown(c)
      PROVE Accounted'
  BY <1>5 DEF Read, SeesEnd, Write, WriteFails, SeesShutdown, Return
<1>6. ASSUME NEW c \in Clients, BeginWork(c) \/ Execute(c)
      PROVE Accounted'
  BY <1>6 DEF BeginWork, Execute
<1>7. CASE UNCHANGED serverVars
  BY <1>7 DEF serverVars
<1> QED
  BY <1>1, <1>2, <1>3, <1>4, <1>5, <1>6, <1>7 DEF ServeNext, Reactor, Connection, Blocking

LEMMA ServerOverStep == ServerInv /\ [ServeNext]_serverVars => ServerOver'
<1> SUFFICES ASSUME ServerTypes, Accounted, ServerOver, [ServeNext]_serverVars PROVE ServerOver'
  BY DEF ServerInv
<1> USE DEF ServerTypes, ServerOver
<1>1. CASE Bind \/ BindFails \/ AcceptFails \/ ServerSeesShutdown \/ Drained \/ ThreadEnds
  BY <1>1 DEF Bind, BindFails, AcceptFails, Abort, ServerSeesShutdown, Drained, ThreadEnds
<1>2. CASE HostStops \/ WorkerStops \/ WorkerReturns \/ Joined
  BY <1>2 DEF HostStops, WorkerStops, WorkerReturns, Stop, Joined
<1>3. ASSUME NEW c \in Clients, Admit(c) \/ Refuse(c) \/ InstanceFails(c)
      PROVE ServerOver'
  BY <1>3 DEF Admit, Refuse, InstanceFails, Abort
<1>4. ASSUME NEW c \in Clients, Connect(c) \/ Call(c) \/ Leave(c)
      PROVE ServerOver'
  BY <1>4 DEF Connect, Call, Leave
<1>5. ASSUME NEW c \in Clients, SeesEnd(c) \/ Write(c) \/ WriteFails(c) \/ SeesShutdown(c)
      PROVE ServerOver'
  BY <1>5 DEF SeesEnd, Write, WriteFails, SeesShutdown, Return
<1>6. ASSUME NEW c \in Clients, Read(c)
      PROVE ServerOver'
  <2>1. server \notin {"starting", "ended"}
    BY <1>6 DEF Read, Accounted, Serving
  <2> QED
    BY <1>6, <2>1 DEF Read, Return
<1>7. ASSUME NEW c \in Clients, BeginWork(c) \/ Execute(c)
      PROVE ServerOver'
  BY <1>7 DEF BeginWork, Execute
<1>8. CASE UNCHANGED serverVars
  BY <1>8 DEF serverVars
<1> QED
  BY <1>1, <1>2, <1>3, <1>4, <1>5, <1>6, <1>7, <1>8 DEF ServeNext, Reactor, Connection, Blocking

\* The states of the server, of its handle and of every connection.
THEOREM ServerTypesCorrect == ServeSpec => []ServerTypes
<1>1. ServerInv /\ [ServeNext]_serverVars => ServerInv'
  BY ServerTypesStep, AccountedStep, ServerOverStep DEF ServerInv
<1> QED
  BY ServerStarts, <1>1, PTL DEF ServeSpec, ServerInv

\* When stop() has returned, no connection is served, no client waits for an answer
\* and no command runs (RpcServerHandle::stop, shutdown_connections and the drop of
\* the tokio runtime): the executor can be shut down.
THEOREM QuietAlways == ServeSpec => []Quiet
<1>1. ServerInv /\ [ServeNext]_serverVars => ServerInv'
  BY ServerTypesStep, AccountedStep, ServerOverStep DEF ServerInv
<1>2. ServerInv => Quiet
  BY DEF ServerInv, Accounted, ServerOver, Quiet
<1> QED
  BY ServerStarts, <1>1, <1>2, PTL DEF ServeSpec

-----------------------------------------------------------------------------

\* A connection that was not accepted yet has no task.
Fresh == \A c \in Clients : client[c] \in {"new", "queued"} => task[c] = "none"

\* Every permit is free or belongs to a connection that is served.
LimitKept == permits \in Nat /\ permits + Cardinality(Serving) = MaxClients

LEMMA FreshStep == ServerTypes /\ Fresh /\ [ServeNext]_serverVars => Fresh'
<1> SUFFICES ASSUME ServerTypes, Fresh, [ServeNext]_serverVars PROVE Fresh'
  OBVIOUS
<1> USE DEF ServerTypes, Fresh
<1>1. CASE Bind \/ BindFails \/ AcceptFails \/ ServerSeesShutdown \/ Drained \/ ThreadEnds
  BY <1>1 DEF Bind, BindFails, AcceptFails, Abort, ServerSeesShutdown, Drained, ThreadEnds
<1>2. CASE HostStops \/ WorkerStops \/ WorkerReturns \/ Joined
  BY <1>2 DEF HostStops, WorkerStops, WorkerReturns, Stop, Joined
<1>3. ASSUME NEW c \in Clients, Admit(c) \/ Refuse(c) \/ InstanceFails(c)
      PROVE Fresh'
  BY <1>3 DEF Admit, Refuse, InstanceFails, Abort
<1>4. ASSUME NEW c \in Clients, Connect(c) \/ Call(c) \/ Leave(c)
      PROVE Fresh'
  BY <1>4 DEF Connect, Call, Leave
<1>5. ASSUME NEW c \in Clients, Read(c) \/ SeesEnd(c) \/ Write(c) \/ WriteFails(c) \/ SeesShutdown(c)
      PROVE Fresh'
  BY <1>5 DEF Read, SeesEnd, Write, WriteFails, SeesShutdown, Return
<1>6. ASSUME NEW c \in Clients, BeginWork(c) \/ Execute(c)
      PROVE Fresh'
  BY <1>6 DEF BeginWork, Execute
<1>7. CASE UNCHANGED serverVars
  BY <1>7 DEF serverVars
<1> QED
  BY <1>1, <1>2, <1>3, <1>4, <1>5, <1>6, <1>7 DEF ServeNext, Reactor, Connection, Blocking

\* A served connection that returns gives its permit back.
LEMMA ReturnKeeps ==
  ASSUME ServerTypes, LimitKept, NEW c \in Serving, Return(c)
  PROVE  LimitKept'
<1>1. Serving' = Serving \ {c}
  BY DEF Return, Serving, ServerTypes
<1>2. IsFiniteSet(Serving)
  BY ServerAssumption, FS_Subset DEF Serving
<1>3. Cardinality(Serving') = Cardinality(Serving) - 1
  BY <1>1, <1>2, FS_RemoveElement
<1>4. Cardinality(Serving) \in Nat
  BY <1>2, FS_CardinalityType
<1>5. Cardinality(Serving) # 0
  BY <1>2, FS_EmptySet
<1>6. permits' = permits + 1
  BY DEF Return
<1> QED
  BY <1>3, <1>4, <1>5, <1>6, ServerAssumption DEF LimitKept

LEMMA AdmitKeeps ==
  ASSUME ServerTypes, Fresh, LimitKept, NEW c \in Clients, Admit(c)
  PROVE  LimitKept'
<1>1. Serving' = Serving \cup {c} /\ c \notin Serving
  BY DEF Admit, Serving, ServerTypes, Fresh
<1>2. IsFiniteSet(Serving)
  BY ServerAssumption, FS_Subset DEF Serving
<1>3. Cardinality(Serving') = Cardinality(Serving) + 1
  BY <1>1, <1>2, FS_AddElement
<1>4. Cardinality(Serving) \in Nat
  BY <1>2, FS_CardinalityType
<1>5. permits > 0 /\ permits' = permits - 1
  BY DEF Admit
<1> QED
  BY <1>3, <1>4, <1>5, ServerAssumption DEF LimitKept

LEMMA AbortKeeps ==
  ASSUME ServerTypes, LimitKept, Abort
  PROVE  LimitKept'
<1>1. Serving' = {}
  BY DEF Abort, Serving, ServerTypes
<1>2. Cardinality(Serving') = 0
  BY <1>1, FS_EmptySet
<1>3. IsFiniteSet(Serving)
  BY ServerAssumption, FS_Subset DEF Serving
<1>4. Cardinality(Serving) \in Nat
  BY <1>3, FS_CardinalityType
<1>5. permits' = permits + Cardinality(Serving)
  BY DEF Abort
<1> QED
  BY <1>2, <1>4, <1>5, ServerAssumption DEF LimitKept

\* Whatever leaves the served connections and the permits alone.
LEMMA SameServing ==
  ASSUME LimitKept, UNCHANGED permits, Serving' = Serving
  PROVE  LimitKept'
BY DEF LimitKept

LEMMA LimitStep == ServerTypes /\ Fresh /\ LimitKept /\ [ServeNext]_serverVars => LimitKept'
<1> SUFFICES ASSUME ServerTypes, Fresh, LimitKept, [ServeNext]_serverVars PROVE LimitKept'
  OBVIOUS
<1>1. CASE Bind \/ BindFails \/ ServerSeesShutdown \/ Drained \/ ThreadEnds
  BY <1>1, SameServing DEF Bind, BindFails, ServerSeesShutdown, Drained, ThreadEnds, Serving
<1>2. CASE HostStops \/ WorkerStops \/ WorkerReturns \/ Joined
  BY <1>2, SameServing DEF HostStops, WorkerStops, WorkerReturns, Stop, Joined, Serving
<1>3. ASSUME NEW c \in Clients, Connect(c) \/ Call(c) \/ Leave(c) \/ Refuse(c) \/ BeginWork(c)
      PROVE LimitKept'
  BY <1>3, SameServing DEF Connect, Call, Leave, Refuse, BeginWork, Serving
<1>4. ASSUME NEW c \in Clients, Execute(c)
      PROVE LimitKept'
  <2>1. UNCHANGED permits /\ Serving' = Serving
    BY <1>4 DEF Execute, Serving, ServerTypes
  <2> QED
    BY <2>1, SameServing
<1>5. ASSUME NEW c \in Clients, Admit(c)
      PROVE LimitKept'
  BY <1>5, AdmitKeeps
<1>6. CASE AcceptFails \/ \E c \in Clients : InstanceFails(c)
  BY <1>6, AbortKeeps DEF AcceptFails, InstanceFails
<1>7. ASSUME NEW c \in Clients, SeesEnd(c) \/ SeesShutdown(c) \/ WriteFails(c)
      PROVE LimitKept'
  BY <1>7, ReturnKeeps DEF SeesEnd, SeesShutdown, WriteFails, Serving
<1>8. ASSUME NEW c \in Clients, Write(c)
      PROVE LimitKept'
  <2>1. UNCHANGED permits /\ Serving' = Serving
    BY <1>8 DEF Write, Serving, ServerTypes
  <2> QED
    BY <2>1, SameServing
<1>9. ASSUME NEW c \in Clients, Read(c)
      PROVE LimitKept'
  <2>1. c \in Serving
    BY <1>9 DEF Read, Serving
  <2>2. CASE request[c] = "malformed"
    BY <1>9, <2>1, <2>2, ReturnKeeps DEF Read
  <2>3. CASE request[c] # "malformed"
    <3>1. UNCHANGED permits /\ Serving' = Serving
      BY <1>9, <2>3 DEF Read, Serving, ServerTypes
    <3> QED
      BY <3>1, SameServing
  <2> QED
    BY <2>2, <2>3
<1>10. CASE UNCHANGED serverVars
  BY <1>10, SameServing DEF serverVars, Serving
<1> QED
  BY <1>1, <1>2, <1>3, <1>4, <1>5, <1>6, <1>7, <1>8, <1>9, <1>10
  DEF ServeNext, Reactor, Connection, Blocking

\* The limit on clients is exact: a permit is free or belongs to a connection that
\* is served, however connections end (run_tcp, run_named_pipe).
THEOREM LimitKeptAlways == ServeSpec => []LimitKept
<1>1. ServeInit => ServerTypes /\ Fresh /\ LimitKept
  <2>1. ServeInit => ServerTypes /\ Fresh /\ Serving = {}
    BY DEF ServeInit, ServerTypes, Fresh, Serving, Servers, ClientStates, TaskStates, JobStates
  <2> QED
    BY <2>1, FS_EmptySet, ServerAssumption DEF LimitKept, ServeInit
<1>2. ServerInv /\ [ServeNext]_serverVars => ServerInv'
  BY ServerTypesStep, AccountedStep, ServerOverStep DEF ServerInv
<1>3. ServerInv => ServerTypes
  BY DEF ServerInv
<1> QED
  BY ServerStarts, <1>1, <1>2, <1>3, FreshStep, LimitStep, PTL DEF ServeSpec

-----------------------------------------------------------------------------

\* A pipe server has a permit left, and so serves fewer clients than max_clients.
PermitLeft == transport = "namedPipe" => permits > 0

LEMMA PermitLeftStep == ServerTypes /\ LimitKept /\ PermitLeft /\ [ServeNext]_serverVars => PermitLeft'
<1> SUFFICES ASSUME ServerTypes, LimitKept, PermitLeft, [ServeNext]_serverVars PROVE PermitLeft'
  OBVIOUS
<1>1. IsFiniteSet(Serving) /\ Cardinality(Serving) \in Nat
  BY ServerAssumption, FS_Subset, FS_CardinalityType DEF Serving
<1> USE DEF PermitLeft, LimitKept
<1>2. CASE Bind \/ BindFails \/ AcceptFails \/ ServerSeesShutdown \/ Drained \/ ThreadEnds
  BY <1>1, <1>2 DEF Bind, BindFails, AcceptFails, Abort, ServerSeesShutdown, Drained, ThreadEnds
<1>3. CASE HostStops \/ WorkerStops \/ WorkerReturns \/ Joined
  BY <1>3 DEF HostStops, WorkerStops, WorkerReturns, Stop, Joined
<1>4. ASSUME NEW c \in Clients, Refuse(c) \/ InstanceFails(c)
      PROVE PermitLeft'
  BY <1>1, <1>4 DEF Refuse, InstanceFails, Abort
<1>5. ASSUME NEW c \in Clients, Admit(c)
      PROVE PermitLeft'
  BY <1>1, <1>5, ServerAssumption DEF Admit, NoInstance
<1>6. ASSUME NEW c \in Clients, Connect(c) \/ Call(c) \/ Leave(c) \/ BeginWork(c) \/ Execute(c)
      PROVE PermitLeft'
  BY <1>6 DEF Connect, Call, Leave, BeginWork, Execute
<1>7. ASSUME NEW c \in Clients, Read(c) \/ SeesEnd(c) \/ Write(c) \/ WriteFails(c) \/ SeesShutdown(c)
      PROVE PermitLeft'
  BY <1>7 DEF Read, SeesEnd, Write, WriteFails, SeesShutdown, Return
<1>8. CASE UNCHANGED serverVars
  BY <1>8 DEF serverVars
<1> QED
  BY <1>2, <1>3, <1>4, <1>5, <1>6, <1>7, <1>8 DEF ServeNext, Reactor, Connection, Blocking

\* Over a named pipe the branch of run_named_pipe that closes a client because
\* max_clients is reached is never taken: the instance that the client before it
\* needed could not be made, and ended the server.
THEOREM PipeNeverRefuses == ServeSpec => [][transport = "namedPipe" => \A c \in Clients : ~Refuse(c)]_serverVars
<1>1. ServeInit => ServerTypes /\ Fresh /\ LimitKept /\ PermitLeft
  <2>1. ServeInit => ServerTypes /\ Fresh /\ Serving = {}
    BY DEF ServeInit, ServerTypes, Fresh, Serving, Servers, ClientStates, TaskStates, JobStates
  <2> QED
    BY <2>1, FS_EmptySet, ServerAssumption DEF LimitKept, PermitLeft, ServeInit
<1>2. ServerInv /\ [ServeNext]_serverVars => ServerInv'
  BY ServerTypesStep, AccountedStep, ServerOverStep DEF ServerInv
<1>3. ServerInv => ServerTypes
  BY DEF ServerInv
<1>4. PermitLeft /\ LimitKept => (transport = "namedPipe" => \A c \in Clients : ~Refuse(c))
  BY DEF PermitLeft, LimitKept, Refuse
<1> QED
  BY ServerStarts, <1>1, <1>2, <1>3, <1>4, FreshStep, LimitStep, PermitLeftStep, PTL DEF ServeSpec

=============================================================================
