-------------------------------- MODULE Attach --------------------------------
(***************************************************************************)
(* Helper processes that act on a running game by its process id           *)
(* (intimatr_attach/helper.rs and remote_status.rs), from the manager's    *)
(* snapshot (game_attach.rs) to its report.  They run threads in the game  *)
(* and wait for them, each for a limited time; what they start goes on     *)
(* without them.  Meanwhile the game may end and its id be taken again,    *)
(* the runtime starts and stops on its own, and helpers are killed.        *)
(* Answers are the numbers the exports of dll.rs return.                   *)
(***************************************************************************)
EXTENDS GameRequests

CONSTANTS
  Clients,      \* each makes one request
  Options,      \* what they ask for: options of game_attach.rs, or Fixture (probe_attach.rs)
  Kinds,        \* records: what may run under the process id
  Rates,        \* the steps of the profile
  ExitCodes,    \* with which a process may end
  Tries,        \* how often the start of the runtime is looked for, 40 in the code
  Fixture, None, Gone,
  MaxProcesses, MaxTurns   \* bounds: processes; turns of the hotkeys and of the game's own windows

\* What a thread may see of the process it runs in.
Sights == [life : 0 .. 6, hooks : {"none", "pending", "installed"}, rate : Nat]

\* What parse leaves in the options.  A digest stands for the eight words of a SHA-256.
ASSUME AttachAssumption ==
  /\ None \notin Clients /\ Gone \notin Sights
  /\ \A o \in Options \ {Fixture} :
       /\ o.action \in {"attach", "stop", "status", "arm", "rate", "step"}
       /\ o.preset \in DOMAIN Presets \cup {NotGiven} /\ o.milli \in {0} \cup MilliRange
       /\ o.step \in Operations \cup {NotGiven}
  /\ \A k \in Kinds : k.digest \in Nat \ {0}
  /\ Rates \subseteq Nat /\ MaxProcesses \in Nat /\ MaxTurns \in Nat

VARIABLES
  target,       \* the process that has the id; created = 0: none
  threads,      \* remote threads in it
  buffers,      \* whose path buffers are allocated in it
  mutex,        \* Local\IntimatrAttach-<pid>
  phase, job,      \* by client
  processes, turns

attachVars == <<target, threads, buffers, mutex, phase, job, processes, turns>>

Life == [detached |-> 0, attached |-> 1, bootstrapping |-> 2, running |-> 3,
         stopping |-> 4, stopped |-> 5, failed |-> 6]
Unknown == 1000000   \* u32::MAX

Idle == [options |-> None, request |-> Refused, created |-> 0, handle |-> 0,
         tries |-> 0, answers |-> <<>>, saw |-> <<>>]

NewProcess(n, k) ==
  [created |-> n, kind |-> k, module |-> k.preloaded, life |-> 0, asked |-> FALSE,
   hooks |-> "none", rate |-> 0]

Nobody == [created |-> 0]

AttachInit ==
  /\ \E k \in Kinds : target = NewProcess(1, k)
  /\ threads = {} /\ buffers = {}
  /\ mutex = [owner |-> None, abandoned |-> FALSE]
  /\ phase = [c \in Clients |-> "idle"] /\ job = [c \in Clients |-> Idle]
  /\ processes = 1 /\ turns = 0

targetVars == <<target, threads, buffers, processes, turns>>

Step(c, to, j) == phase' = [phase EXCEPT ![c] = to] /\ job' = [job EXCEPT ![c] = j]

(***************************************************************************)
(* The manager: a selection, then a fresh snapshot that must agree         *)
(***************************************************************************)

Candidate(p) == p.created # 0 /\ p.kind.image = "game" /\ p.kind.x64

\* live-match told the user of the process; --created-100ns carries it over.
Select(c, o) ==
  /\ phase[c] = "idle" /\ target.created # 0
  /\ IF o = Fixture
       THEN Step(c, "launched", [Idle EXCEPT !.options = o, !.request = Asked("fixture", NotGiven, NotGiven)])
       ELSE /\ Valid(o) /\ Candidate(target)
            /\ Step(c, "selected", [Idle EXCEPT !.options = o, !.created = target.created])
  /\ UNCHANGED <<targetVars, mutex>>

\* Incomplete imports refuse an arm here; unknown ones are left to the DLL.
Snapshot(c) ==
  /\ phase[c] = "selected"
  /\ Candidate(target) /\ target.created = job[c].created
  /\ job[c].options.action = "arm" => target.kind.imports \in {15, Unknown}
  /\ Step(c, "launched", [job[c] EXCEPT !.request = Understood(CommandLine(job[c].options))])
  /\ UNCHANGED <<targetVars, mutex>>

(***************************************************************************)
(* The helper: identity, mutex, identity again                             *)
(***************************************************************************)

\* Fault: the creation time is not looked at on the handle.
FitsByImage(j, p) ==
  IF j.options = Fixture THEN p.kind.image = "fixture" ELSE p.kind.image = "game"

\* validate_target_image and validate_target_generation.
Fits(j, p) ==
  IF j.options = Fixture THEN p.kind.image = "fixture"
                           ELSE p.kind.image = "game" /\ p.created = j.created

\* While a handle is open, its process id is not given to another process.
Open(c) ==
  /\ phase[c] = "launched" /\ job[c].request # Refused
  /\ target.created # 0 /\ Fits(job[c], target) /\ target.kind.x64
  /\ Step(c, "waiting", [job[c] EXCEPT !.handle = target.created])
  /\ UNCHANGED <<targetVars, mutex>>

\* acquire_attach_mutex.  An abandoned mutex is taken, released and refused.
Acquire(c) ==
  /\ phase[c] = "waiting" /\ mutex.owner = None
  /\ IF mutex.abandoned
       THEN Step(c, "over", Idle) /\ mutex' = [mutex EXCEPT !.abandoned = FALSE]
       ELSE Step(c, "holding", job[c]) /\ mutex' = [mutex EXCEPT !.owner = c]
  /\ UNCHANGED targetVars

\* The last handle that is closed takes the mutex with it.
Release(c) ==
  mutex' = [owner     |-> IF mutex.owner = c THEN None ELSE mutex.owner,
            abandoned |-> mutex.abandoned /\ \E d \in Clients \ {c} : phase[d] = "waiting"]

Alive(c) == target.created # 0 /\ target.created = job[c].handle

\* reject_observed_protection_modules.
Vetoed(r, p) == r.action \notin {"fixture", "stop", "status"} /\ p.kind.guarded

Loads(r) == r.action \in {"attach", "fixture"}

\* target_intimatr_module: a module of the name is the helper's own DLL or another.
Presence(p) == p.module

\* The identity again, known protection, and which intimatr.dll is loaded.
Inspect(c) ==
  LET r == job[c].request
  IN  /\ phase[c] = "holding" /\ Alive(c) /\ ~Vetoed(r, target)
      /\ \/ Presence(target) = IF Loads(r) THEN "absent" ELSE "expected"
         \/ r.action = "status" /\ Presence(target) = "absent"
      /\ IF r.action = "status" /\ Presence(target) = "absent"
           THEN Step(c, "answered", job[c])
           ELSE Step(c, "calling", job[c])
      /\ UNCHANGED <<targetVars, mutex>>

(***************************************************************************)
(* Which exports a request calls, and which answers let it go on           *)
(***************************************************************************)

Call(export, arg, expect) == [export |-> export, arg |-> arg, expect |-> expect]
Ask(export, expect) == Call(export, NotGiven, expect)

Anything    == {}
IsRunning   == Ask("life", {Life.running})
IsInstalled == Ask("hooks", {1})

\* Fault: the profile is not looked at again after its words.
DigestOnce(expect) == <<Ask("profile", {1}), Call("word", 1, expect), Call("word", 2, expect)>>

\* query_explicit_profile_sha256: two of the eight words, between two looks.  A
\* required digest is compared word by word here and as a whole in the code.
Digest(expect) ==
  <<Ask("profile", {1}), Call("word", 1, expect), Call("word", 2, expect), Ask("profile", {1})>>

\* change_game_speed and its kind: the rate that is read must be the one that was set.
SetRate(export, arg, set, read) ==
  <<IsRunning, IsInstalled, Call(export, arg, set), Ask("rate", read)>>

\* status_selected: five questions, and the words of an accepted profile.
Status(r, answers) ==
  <<Ask("life", 0 .. 6), Ask("hooks", 0 .. 2), Ask("rate", {0} \cup MilliRange),
    Ask("imports", 0 .. 15 \cup {Unknown}), Ask("profile", 0 .. 3)>>
  \o IF r.arg = "digest" /\ Len(answers) >= 5 /\ answers[5] = 1
       THEN Digest(Anything) ELSE <<>>

Script(r, answers) ==
  CASE r.action = "attach"  -> <<Ask("load", Anything), IsRunning>>
    [] r.action = "fixture" -> <<Ask("load", Anything)>>
    [] r.action = "stop"    -> <<Ask("shutdown", {1}), Ask("life", {Life.stopped})>>
    [] r.action = "status"  -> Status(r, answers)
    [] r.action = "arm"     -> (IF r.digest = NotGiven THEN <<>> ELSE Digest({r.digest}))
                               \o <<IsRunning, Ask("hooks", {0}), Ask("imports", {15}), Ask("arm", {1}),
                                    IsRunning, IsInstalled>>
    [] r.action \in {"preset", "rate"} -> SetRate("setRate", r.arg, {1}, {r.arg})
    [] r.action = "step"    -> SetRate("step", r.arg, MilliRange, IF answers = <<>> THEN {} ELSE {Last(answers)})

NextCall(j) == Script(j.request, j.answers)[Len(j.answers) + 1]

\* An address in the target is the base of a module there plus the offset of the
\* export in the helper's own copy, which must be of the same size.
LoaderResolved(c) == Alive(c)
ExportResolved(c) == Alive(c) /\ Presence(target) = "expected"

\* Both are looked up anew before each call.
Begin(c) ==
  LET call == NextCall(job[c])
  IN  /\ phase[c] = "calling"
      /\ IF call.export = "load" THEN LoaderResolved(c) ELSE ExportResolved(c)
      /\ threads' = threads \cup {[owner |-> c, for |-> job[c].created, export |-> call.export, arg |-> call.arg,
                                   at |-> "start", answer |-> 0, saw |-> None]}
      /\ buffers' = IF call.export = "load" THEN buffers \cup {c} ELSE buffers
      /\ Step(c, "called", job[c])
      /\ UNCHANGED <<target, processes, turns, mutex>>

Waits(j, t) == j.request.action = "attach" /\ t.export = "life" /\ t.answer \in 0 .. 2 /\ j.tries + 1 < Tries

Free(c, t) == buffers' = IF t.export = "load" THEN buffers \ {c} ELSE buffers

\* WAIT_OBJECT_0.  A loader that ended must have left the exact DLL behind.
Collect(c) == \E t \in threads :
  /\ phase[c] = "called" /\ t.owner = c /\ t.at = "done"
  /\ threads' = threads \ {t} /\ Free(c, t)
  /\ LET j     == job[c]
         taken == [j EXCEPT !.answers = Append(@, t.answer), !.saw = Append(@, t.saw)]
         ok    == NextCall(j).expect = Anything \/ t.answer \in NextCall(j).expect
     IN  IF Waits(j, t) THEN Step(c, "calling", [j EXCEPT !.tries = @ + 1]) /\ UNCHANGED mutex
         ELSE IF ~ok \/ (t.export = "load" /\ ~ExportResolved(c))
                THEN Step(c, "over", Idle) /\ Release(c)
         ELSE IF Len(taken.answers) = Len(Script(j.request, taken.answers))
                THEN Step(c, "answered", taken) /\ UNCHANGED mutex
         ELSE Step(c, "calling", taken) /\ UNCHANGED mutex
  /\ UNCHANGED <<target, processes, turns>>

(***************************************************************************)
(* The process: the remote exports of dll.rs, runtime.rs and the hooks     *)
(***************************************************************************)

Full(p) == p.life = Life.running /\ ~p.asked /\ p.hooks = "installed"

Profile(p) ==
  IF p.life # Life.running THEN 3
  ELSE CASE p.kind.profile = "absent" -> 0 [] p.kind.profile = "accepted" -> 1 [] OTHER -> 2

\* Fault: the rate is read whatever became of the hooks.
QueryPastHooks(p, t) ==
  CASE t.export = "life"    -> p.life
    [] t.export = "hooks"   -> IF p.hooks = "none" THEN 0 ELSE IF Full(p) THEN 1 ELSE 2
    [] t.export = "rate"    -> p.rate
    [] t.export = "imports" -> IF p.hooks = "none" THEN p.kind.imports ELSE IF Full(p) THEN 15 ELSE Unknown
    [] t.export = "profile" -> Profile(p)
    [] t.export = "word"    -> IF Profile(p) = 1 THEN p.kind.digest ELSE 0

\* The exports that only look.
Query(p, t) ==
  CASE t.export = "life"    -> p.life
    [] t.export = "hooks"   -> IF p.hooks = "none" THEN 0 ELSE IF Full(p) THEN 1 ELSE 2
    [] t.export = "rate"    -> IF Full(p) THEN p.rate ELSE 0
    [] t.export = "imports" -> IF p.hooks = "none" THEN p.kind.imports ELSE IF Full(p) THEN 15 ELSE Unknown
    [] t.export = "profile" -> Profile(p)
    [] t.export = "word"    -> IF Profile(p) = 1 THEN p.kind.digest ELSE 0

Outcome(p, answer) == [target |-> p, answer |-> answer, at |-> "done"]

\* LoadLibraryW: a module that is loaded is not loaded again.
LoadOutcomes(p) ==
  {Outcome(p, 1)} \cup
  IF p.module = "absent" THEN {Outcome([p EXCEPT !.module = "expected", !.life = Life.attached], 1)} ELSE {}

\* arm_selected_game_timers: the hooks and then the session; either may fail, and
\* what was patched is then taken back, or not.
ArmOutcomes(p) ==
  IF p.life = Life.running /\ ~p.asked /\ p.kind.profile # "rejected" /\ p.hooks = "none"
    THEN {Outcome([p EXCEPT !.hooks = h], 0) : h \in {"none", "pending"}}
         \cup IF p.kind.imports = 7 THEN {}
              ELSE {Outcome([p EXCEPT !.hooks = "installed", !.rate = Presets.normal], 1)}
    ELSE {Outcome(p, 0)}

\* selected_game_select_rate and selected_game_step_action, through the executor.
RateOutcomes(p, rate, answer) ==
  IF Full(p) /\ rate \in Rates THEN {Outcome([p EXCEPT !.rate = rate], answer)} ELSE {Outcome(p, 0)}

\* runtime::shutdown: imports first, and a failure may be tried again.
Shutdown(p, at) ==
  LET asked == [p EXCEPT !.asked = TRUE]
  IN  CASE at = "start" ->
             {[target |-> [asked EXCEPT !.hooks = "none"], answer |-> 0, at |-> "restored"]}
             \cup IF p.hooks = "none" THEN {} ELSE {Outcome([asked EXCEPT !.hooks = "pending"], 0)}
        [] at = "restored" ->
             IF p.life \in {Life.stopping, Life.stopped} THEN {Outcome(p, 1)}
             ELSE {[target |-> [p EXCEPT !.life = Life.stopping], answer |-> 0, at |-> "stopping"]}
        [] at = "stopping" -> {Outcome([p EXCEPT !.life = Life.stopped], 1)}

Outcomes(p, t) ==
  CASE t.export = "load"     -> LoadOutcomes(p)
    [] t.export = "arm"      -> ArmOutcomes(p)
    [] t.export = "setRate"  -> RateOutcomes(p, t.arg, 1)
    [] t.export = "step"     -> UNION {RateOutcomes(p, rate, rate) : rate \in Rates}
    [] t.export = "shutdown" -> Shutdown(p, t.at)
    [] OTHER                 -> {Outcome(p, Query(p, t))}

Seen(p) == [life |-> p.life, hooks |-> p.hooks, rate |-> p.rate]

\* A remote thread takes a step, whether or not its helper still waits.
Execute(t) ==
  /\ t.at # "done"
  /\ \E o \in Outcomes(target, t) :
       /\ target' = o.target
       /\ threads' = (threads \ {t}) \cup
            IF o.at = "done" /\ (t.owner = None \/ phase[t.owner] # "called") THEN {}
            ELSE {[t EXCEPT !.at = o.at, !.answer = o.answer,
                            !.saw = IF o.at = "done" THEN Seen(o.target) ELSE None]}
  /\ UNCHANGED <<buffers, processes, turns, mutex, phase, job>>

Internal(export) ==
  [owner |-> None, for |-> target.created, export |-> export, arg |-> NotGiven,
   at |-> "start", answer |-> 0, saw |-> None]

\* The bootstrap thread; with consent in the environment it arms the hooks itself.
Bootstrap ==
  /\ target.created # 0
  /\ \/ /\ target.life = Life.attached
        /\ target' = [target EXCEPT !.life = Life.bootstrapping] /\ UNCHANGED threads
     \/ /\ target.life = Life.bootstrapping
        /\ \/ target' = [target EXCEPT !.life = Life.failed] /\ UNCHANGED threads
           \/ /\ ~target.asked
              /\ target' = [target EXCEPT !.life = Life.running]
              /\ \/ UNCHANGED threads
                 \/ target.kind.profile = "accepted" /\ threads' = threads \cup {Internal("arm")}
  /\ UNCHANGED <<buffers, processes, turns, mutex, phase, job>>

\* The hotkeys, and a shutdown from the game's own windows.
Inside ==
  /\ turns < MaxTurns /\ turns' = turns + 1
  /\ target.created # 0
  /\ \/ \E rate \in Rates : Full(target) /\ target' = [target EXCEPT !.rate = rate] /\ UNCHANGED threads
     \/ target.life = Life.running /\ threads' = threads \cup {Internal("shutdown")} /\ UNCHANGED target
  /\ UNCHANGED <<buffers, processes, mutex, phase, job>>

\* Every thread of a process that ends gets its exit code.
Exit(code) ==
  /\ target.created # 0
  /\ target' = Nobody /\ buffers' = {}
  /\ threads' = {[t EXCEPT !.at = "done", !.answer = IF t.at = "done" THEN @ ELSE code,
                           !.saw = IF t.at = "done" THEN @ ELSE Gone] :
                  t \in {u \in threads : u.owner # None /\ phase[u.owner] = "called"}}
  /\ UNCHANGED <<processes, turns, mutex, phase, job>>

Spawn(k) ==
  /\ target.created = 0 /\ processes < MaxProcesses
  /\ \A c \in Clients : phase[c] \notin {"waiting", "holding", "calling", "called", "answered"}
  /\ processes' = processes + 1
  /\ target' = NewProcess(processes + 1, k)
  /\ UNCHANGED <<threads, buffers, turns, mutex, phase, job>>

(***************************************************************************)
(* The end of a request                                                    *)
(***************************************************************************)

\* status_selected and the manager, of a target that has the DLL.
StatusAgrees(a) ==
  LET installed == a[2] = 1
  IN  /\ installed <=> a[3] # 0
      /\ installed => a[4] = 15 /\ a[1] = Life.running
      /\ a[1] = Life.running => a[5] # 3

Confirmed(j) ==
  j.request.action = "status" /\ j.answers # <<>> => StatusAgrees(j.answers)

\* The helper prints and exits; the manager compares and reports.
Report(c) ==
  /\ phase[c] = "answered"
  /\ Step(c, "over", Idle) /\ Release(c)
  /\ UNCHANGED targetVars

\* A helper that gives up takes the answer of its thread with it.
Forget(c) == {t \in threads : t.owner = c /\ t.at = "done"}

\* Fault: a loader that takes too long loses its argument.
GiveUpFreeing(c) ==
  /\ phase[c] \notin {"idle", "over"}
  /\ Step(c, "over", Idle) /\ Release(c)
  /\ threads' = threads \ Forget(c) /\ buffers' = buffers \ {c}
  /\ UNCHANGED <<target, processes, turns>>

\* Any check, call or wait may fail, also by its timeout: whatever runs in the
\* process goes on, and so the buffer of a loader stays.
GiveUp(c) ==
  /\ phase[c] \notin {"idle", "over"}
  /\ Step(c, "over", Idle) /\ Release(c)
  /\ threads' = threads \ Forget(c)
  /\ UNCHANGED <<target, buffers, processes, turns>>

\* A killed helper abandons the mutex; the object lives on if another has it open.
Kill(c) ==
  /\ phase[c] \in {"holding", "calling", "called", "answered"}
  /\ Step(c, "over", Idle)
  /\ mutex' = [owner |-> None, abandoned |-> \E d \in Clients \ {c} : phase[d] = "waiting"]
  /\ threads' = threads \ Forget(c)
  /\ UNCHANGED <<target, buffers, processes, turns>>

AttachNext ==
  \/ \E c \in Clients :
       \/ \E o \in Options : Select(c, o)
       \/ Snapshot(c) \/ Open(c) \/ Acquire(c) \/ Inspect(c) \/ Begin(c) \/ Collect(c)
       \/ Report(c) \/ GiveUp(c) \/ Kill(c)
  \/ \E t \in threads : Execute(t)
  \/ Bootstrap \/ Inside
  \/ \E code \in ExitCodes : Exit(code)
  \/ \E k \in Kinds : Spawn(k)

AttachSpec == AttachInit /\ [][AttachNext]_attachVars

(***************************************************************************)
(* Properties                                                              *)
(***************************************************************************)

\* Whatever helpers run in a process, they run in the one that was selected, however
\* often the process id changed hands since; and a loader, also one whose helper gave
\* up or was killed, finds its path where it was told it would be.
HelpersSelected == \A t \in threads :
  /\ t.at # "done" /\ t.owner # None =>
       IF t.for = 0 THEN target.kind.image = "fixture"
                    ELSE t.for = target.created /\ target.kind.image = "game"
  /\ t.export = "load" /\ t.at # "done" => t.owner \in buffers

\* What a report says was so at one instant, when the last question was answered: an
\* armed game was running with its hooks installed, a rate was in force in a running
\* game, a stopped runtime had given the imports back, and the words of a profile
\* were those of one profile.  A game that ended during that question is told from a
\* running one only by its exit code.
True(r, j) ==
  LET last == Last(j.saw)
      one  == j.saw[3]
  IN  CASE r.action = "attach" -> last.life = Life.running
        [] r.action = "arm" -> last.life = Life.running /\ last.hooks = "installed"
        [] r.action \in {"preset", "rate", "step"} ->
             /\ last.life = Life.running /\ last.hooks = "installed"
             /\ last.rate = Last(j.answers)
        [] r.action = "stop" -> last.life = Life.stopped /\ last.hooks = "none"
        [] r.action = "status" ->
             /\ j.answers[2] = 1 /\ one # Gone => one.life = Life.running /\ one.hooks = "installed"
             /\ Len(j.answers) > 5 => j.answers[7] = j.answers[8] /\ j.answers[7] # 0
        [] OTHER -> TRUE

Reported(c) ==
  phase[c] = "answered" /\ Confirmed(job[c]) /\ job[c].saw # <<>> /\ Last(job[c].saw) # Gone

\* And what the helper was told is what the user asked for.
Carried(o, r) ==
  /\ r.action \in {o.action, "preset"}
  /\ o.action = "rate" => r.arg = IF o.preset = NotGiven THEN o.milli ELSE Presets[o.preset]
  /\ o.action = "step" => r.arg = o.step
  /\ r.digest = o.require

ReportsTrue == \A c \in Clients :
  /\ phase[c] \notin {"idle", "selected", "over"} /\ job[c].options # Fixture =>
       Carried(job[c].options, job[c].request)
  /\ Reported(c) => True(job[c].request, job[c])

=============================================================================
