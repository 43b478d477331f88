# Intimatr: a verification development

Intimatr is a Rust DLL that runs inside a Windows (or Wine) process. It offers a
memory scanner, a debugger, a local RPC server, two native windows, and a virtual
clock that scales the timers the host program imports. Linux-side tools select a
Bottles/Wine game, deploy a launch proxy and drive the DLL through a helper process.

This directory holds TLA+ models of that program, the TLC configurations that check
them on small instances, and theorems TLAPS proves for every value of the constants.
`PROJECT.json` lists every component, run, fault variant, source mapping, hazard,
finding and theorem; this file explains them.

## 1. The system

| component | source | state | operations | hard because |
|---|---|---|---|---|
| Lifecycle and runtime | `lifecycle.rs`, `runtime.rs`, `dll.rs` | lifecycle state and request flag (atomics), `CONTEXT`, the started subsystems | attach, bootstrap, shutdown, arm timers, detach | threads race between any two atomics; bootstrap can fail half way; a failed hook restore must stay retryable |
| Timer hooks | `experimental_timer_probe.rs`, `speed_hook_lifecycle.rs` | `HOOKS` mutex, slots (pointer and page protection), callback count, published samples | enable, disable, callbacks, rate changes | game threads call in at any time; pointer and page restoration fail separately; contended callbacks read published values |
| Virtual clock and session | `speed.rs`, `speed_timers.rs`, `speed_session.rs` | anchors, last samples, multiplier, deadlines | sample, set multiplier, apply, expire deadlines | continuity, monotonicity, saturation and wrap-around; two deadlines expiring in one sample |
| Speed controls | `speed_controls.rs`, `speed_config.rs` | selected step, previous step, bypass, hold | increase, decrease, select, toggle, reset, hold | toggling and holding interact |
| Speed executor | `speed_commands.rs`, `speed_coordinator.rs` | preview session, backend session | status, commands, input sample, focus loss, arm | two sessions must agree; one of two steps may fail |
| Hotkeys and input | `speed_hotkeys.rs`, `speed_input.rs`, `speed_hotkey_worker.rs`, `speed_window.rs` | pressed keys, held binding, focus epoch | sample, focus gain and loss | key edges lost or duplicated around focus changes |
| Command pool | `backpressure.rs` | bounded queue, workers, stopping flag | execute, shutdown | backpressure blocks submitters; shutdown races submissions; workers may die |
| Command dispatcher | `command.rs` | scans, active scans, watches, policy | all RPC/UI commands | scans run outside the lock and are stored back later |
| Scanner | `scanner/*`, `memory.rs` | none (pure over memory) | first scan, next scan, predicates, patterns | chunk boundaries, alignment, overflow, cancellation |
| Debugger | `debugger.rs`, `debugger/windows.rs` | breakpoints, suspended threads, registries, exception handler | set/remove breakpoint, pause, resume, single step, shutdown | threads trap, exit and are suspended by others between any two system calls, each of which may fail |
| Debugger event feed | `debugger/windows.rs`, `command.rs`, `debugger_ui.rs` | event ring without locks, cursor of the window | push, poll, status | the exception handler writes slots while a command reads them; answers overtake each other |
| RPC | `rpc/*` | connections, client permits, shutdown watch | accept, serve, frame, stop | connections drain while shutdown waits; a post action after the answer |
| Analysis and workspaces | `analysis.rs` | files | pointer chains, modules, saved workspaces | interrupted writes, stale addresses |
| UI and debugger UI | `ui.rs`, `ui/speed.rs`, `debugger_ui.rs` | pending commands, view state | dispatch, poll, close | answers arrive out of order |
| Configuration and profiles | `config.rs`, `speed_policy.rs`, `speed_profile_load.rs`, `speed_profile_fingerprint.rs` | none | load, validate, resolve | precedence of rules |
| HUD telemetry | `speed_hud_telemetry.rs` | last written value | publish, stop | stale value after a crash |
| PE parsing | `pe_image.rs`, `pe_timer_imports.rs`, `windows_process_*.rs` | none | parse | bounds |
| Bottles tools | `bottles*.rs`, `bin/intimatr-bottles.rs`, `bin/intimatr_bottles/*` | files, child processes | select, preflight, attach, launch, deploy the launch proxy | crashes between renames; process identity reuse |
| Attach helpers | `bin/intimatr_attach/*`, `bin/wine-*` | remote process handles, per-target mutex | attach, status, stop, remote calls | two helpers race; timeouts leave remote threads running |
| Native launch proxy | `native/launch_proxy` | none | forward exports, load the DLL | loader lock |

The DLL's parts meet in four places: the lifecycle atomics (read by every export and
by the hook gate), the `CONTEXT` mutex (which owns the handles of the started
threads), the shared command executor (RPC connections, both windows, the hotkey
worker and the remote exports all submit to it) and the `HOOKS` mutex (which game
threads try to take from inside a timer callback).

## 2. The modules

| module | models | run | theorems |
|---|---|---|---|
| `Runtime` | lifecycle.rs, runtime.rs, dll.rs | `runtime`, `runtime_leak` | `RuntimeProofs` |
| `CommandService` | abstract: what a frontend may rely on when it calls `execute` | refined in `pool` | |
| `CommandPool` | backpressure.rs | `pool` | `CommandPoolProofs` |
| `SpeedModel` | speed.rs, speed_timers.rs, speed_controls.rs, speed_session.rs as operators from session to session | used by the next four and by `SpeedExecutor` | |
| `SpeedSession`, `SpeedPolling` | one session in use; the same beside its ideal | `speed` | `SpeedSessionProofs` |
| `Keyboard` | abstract: what the speed keys promise | refined in `speed` | `SpeedSessionProofs` |
| `SpeedHotkeys` | speed_hotkeys.rs, speed_input.rs, speed_input_windows.rs, speed_window.rs, speed_hotkey_worker.rs | `speed` | `SpeedSessionProofs` |
| `TimerHooks` | experimental_timer_probe.rs, speed_hook_lifecycle.rs | `hooks` | `TimerHooksProofs` |
| `SpeedExecutor` | speed_commands.rs, speed_coordinator.rs, arming in runtime.rs | `executor` | `RuntimeProofs` |
| `ProfileLaunch` | speed_policy.rs, speed_profile_load.rs, profile_export.rs, profile_launch.rs and the environment they set | `executor` | `RuntimeProofs` |
| `ScanPlan`, `ScanEngine` | scanner/engine.rs | `scan_engine` | `ScansProofs` |
| `Analysis` | the pattern scan and the pointer search of analysis.rs | `scan_engine` | `SearchProofs` |
| `ScanValues` | scanner/predicate.rs, the values of memory.rs | `scan_engine` | `SearchProofs` |
| `ExactSearch` | composes `Analysis` and `ScanValues`, the two ways to look for what is not one scan | `scan_engine` | `SearchProofs` |
| `Scans` | the scan commands of command.rs | `scans` | `ScansProofs` |
| `Watches` | watches, writes, templates and the workspace file: command.rs, analysis.rs, platform/windows/memory.rs | `scans` | `ScansProofs` |
| `LaunchProxyDeploy` | launch_proxy_deploy.rs | `deploy` | `LaunchProxyDeployProofs` |
| `Selection` | bottles_selection.rs | `deploy` | `LaunchProxyDeployProofs` |
| `LiveMatch` | live_match.rs, wine-process-list.rs | `deploy` | `LaunchProxyDeployProofs` |
| `GameRequests`, `Attach` | game_attach.rs, intimatr_attach/helper.rs and remote_status.rs, the exports of dll.rs | `deploy` | `LaunchProxyDeployProofs` |
| `GameSelection` | composes `Selection`, `LiveMatch` and `Attach`, the three ways to say which game is meant | `deploy` | `LaunchProxyDeployProofs` |
| `Debugger` | debugger.rs and the thread control and handler of debugger/windows.rs | `debugger` | `DebuggerProofs` |
| `Windows` | ui.rs, debugger_ui.rs | `debugger` | `DebuggerProofs` |
| `EventFeed` | the event ring of debugger/windows.rs, its two commands, the cursor of debugger_ui.rs | `events` | `DebuggerProofs` |
| `RpcServer` | rpc/server.rs, the calls of rpc/client.rs, the post action in runtime.rs | `rpc` | `RuntimeProofs` |

An `MC*` module gives the constants that a cfg file cannot write. Six of them also put components
that share no state side by side: a variable `subject` chooses in the initial state which of them a behaviour
is about, that one takes its own steps, and the others rest in one of their initial states. The states of
the run are the sum of those of its components, not their product, and what is found of one component is
what a run of its own would find. `subject` models nothing; where it appears in a property of an `MC`
module, the property speaks of that component only.

### How state and actions correspond to the code

**Runtime.** `state` and `shutdownRequested` are the two atomics of lifecycle.rs,
`context` is the `CONTEXT` mutex's content, `held` and `live` say which subsystem
handles a thread owns and which threads of them run. Each thread has a program counter
whose steps are the atomic accesses of `bootstrap`, `shutdown`, `arm_selected_game_timers`
and `DllMain`; everything between two accesses is one step. A stop or join of a subsystem is one step too, but one
that nothing obliges to end (`StopNext`, and `DropOne` in an aborted bootstrap). The bootstrap thread may panic at any point
before the lifecycle reads Running, and after it while it arms the profile's timers (`ArmPanics`). The hooks appear only as
the value behind the `HOOKS` mutex; `TimerHooks` opens that up.

**CommandPool.** `queue` is the sync channel, `submit` and `receiver` the owners of the two
mutexes. A send blocks while the queue is full *and keeps `submit_lock`*, as in the code. A
worker may panic inside the inner executor; when the last one is gone the receiver is
dropped. `CommandService` is the abstract specification: a command starts at most once, is
answered with a result only if it ran, and is refused only by a closing or damaged service.
`CommandPool` implements it under the mapping given at the end of the module.

**Speed.** A session is a record (controls, clock, deadlines) and every method of the code
that changes it is an operator. Rates are whole numbers over `Unit`, so the rounding of f64
is left out, while the truncation of virtual ticks, the saturation of u64 and the wrap of the
32-bit timers are kept. `SpeedPolling` runs a copy that is polled on every tick and adds up
the exact ideal, so that late polling, rounding and the overflow of expiries can be told.

**SpeedHotkeys.** One poll of the worker is a `Tick`: it looks at the windows on the screen, decides by
`speed_window.rs` which one is the game's and whether its epoch changed, reads the watched keys, and passes
what it finds through the pump and the dispatcher into the session. `Top` is the check of the stop flag,
`Leave` the last sample that lets a hold go. The session refuses at any of these points, and other clients
use it in between (`Command`). `bindings` are chords as they come out of `compile`, which is modelled on
tokens. `Keyboard` says the same without windows, epochs or edges: there is one window at a time, a key counts
when it goes down in it, a held speed ends with its chord or its window. `SpeedHotkeys` implements it with
the epoch for the window and the dispatcher's held chord for the chord.

**TimerHooks.** `iat` and `page` are what the process sees in each import slot, `record` is
`HookSlot`, `owner` is the `HOOKS` mutex. A game thread's call is `Load` (it reads the import
slot), then either the native function or the hook: `Enter`, `ReadNative`, then `Contended`
or `TryLock` and `Answer`, then `Leave`. Install, undo and restore go slot by slot and each
pointer swap and page change may fail by itself. Other overlays may overwrite a slot. A speed change looks at the
runtime's gate inside the mutex (`Command`), a status request only before it (`BeginStatus`, `Status`).

**SpeedExecutor.** `preview` is the session of the coordinator and `clock` the one behind the
hooks. A request is applied to the first, one action a step and all at one reading (`Preview`), and then replayed
into the second action by action, under one mutex; the second may refuse, after which the fail-safe resets both.

**ProfileLaunch.** The policy is global settings with rules for bottles and for games; `profile-export`
resolves it for one program into a file it creates (`ExportReads`, `ExportCreates`, `ExportWrites`), and
`profile-launch` reads everything again, one file or one answer of Bottles a step (`Begin`, `Locate`, ...,
`Report`, `RunStarts`); `GameLoads` is the DLL's own reading in the started game. Nothing is locked, so `Edit` may
change any of it between two steps. Names and paths are compared by what the code normalises them to
(`BottleKey`, `PathKey`), the environment is the set of variables with whose value each carries.

**ScanEngine.** A scan is a plan (`ScanPlan` computes it: chunks of a first scan with their
overlap, batches of a next scan), and each worker takes items from the counter, reads,
evaluates and reserves places. The channel to the caller has no buffer, so a worker's event
and the caller's receive are one step. Memory is the set of addresses that match now, which the
game may change, and the set of bytes that cannot be read.

**Analysis.** Both searches read the wanted regions window by window, each window one step, while the game
writes and unreadable bytes (`illegible`) swallow the window they are in. `windows` are those not read yet; the next
is the first by address, as the code sorts the regions. The pointer search is the code's queue: it takes the
head, collects the pointers that lead near it over all windows, then queues the new ones. The properties
compare with what lies in memory, written down without windows or queue.

**ScanValues.** `Decode`, `Encode` and `Verdict` (`ScanPredicate::matches`) are the code's cases for integers and
floats of a few bits, with the checks for width, sign, epsilon, NaN and infinity. A type of floats is what each of its
patterns stands for (`Floats`); whatever is computed or cast is rounded to the nearest of those (`Rounded`), to an infinity beyond
the largest: the value that is written as f32 (`Cast`), the sum of a previous value and a difference (`Plus`), the
distance of two values (`Close`). Finite floats are whole numbers here, however far apart; that two as near go to
the even one and that there are two zeroes is left out. A scan is one step; a session is narrowed by a series of
them while the memory changes and values are written.

**Scans.** The three mutexes (`scans`, `active_scans`, `analysis`) are held for single
accesses, so a command is a sequence of steps on a copy. A session is its candidates and the
two scans that produced its current and its previous values. The scan itself is one step here;
what it returns may be any subset of what it looked at, as `ScanEngine` allows.

**Watches.** `RefreshWatches` copies the list, then reads and writes one watch after the other, and stores the
samples in those watches that still exist. A write to memory is `Query`, `Protect`, `Store`, `Restore`,
each able to fail; two workers may be in one page. Addresses may be relative to a module, which `Move`
loads elsewhere; a template keeps an address by module, and the workspace file outlives the process (`Exit`,
which may tear the file).

**LaunchProxyDeploy.** `disk` is the game's directory, each of the ten names with what it holds; a
digest comparison is a comparison of contents. Each file operation of `install`, of its rollback and
of `remove` is one step that changes one entry: four staged files, then five renames with the marker
last. A call may fail before or, for a write, half way; the tool may be killed between any two calls,
after which a new command finds what is on the disk; Steam may put a DLL of its own back at any time.
`status` only reads and appears as `IsPristine` and `InstalledOver`.

**Selection.** A pattern is a sequence of characters with `*` and `?`, matched by the code's dynamic programme; the
reference says what a pattern means (`Means`): a cut of the name into pieces.

**LiveMatch.** `live-match` asks Bottles for the bottle, its root, its runner and its programs, lists the processes of
that Wine through the helper, and matches rows with programs; its report is the user's review. `attach-game` then
takes the reviewed process id and creation time and looks at everything again. Each look is one step. Processes
start and end, executables are replaced and Bottles is configured anew between any two. The rows of the helper
do not touch each other, so the model keeps one process id: a row is filled in through a handle (`InspectFile`,
`InspectImports`), which is what makes a row speak of one process although the list and the rest are read apart.

**Attach.** From the manager's request (`GameRequests`: which options go together, the helper's command line, what
the helper makes of it) through its fresh snapshot (`Snapshot`), the helper's handle and mutex (`Open`,
`Acquire`), the checks of the module (`Inspect`), to the script of remote calls: each starts a thread in the
game (`Begin`), which executes by itself (`Execute`) and is collected or given up. A helper that times out or is killed
leaves its thread behind. The game may exit, its id be taken again, the runtime start, stop, and change its rate
on its own (`Bootstrap`, `Inside`). Answers are the numbers that the exports return, the exit code of a thread
being all that a helper sees of it.

**Debugger.** Commands hold `operation_lock` to their end, so `op` is the one under way: it suspends its
thread (`Suspend`, or a `Rollback` if somebody else holds it), reads and writes the context (`WriteContext`),
and lets the thread go (`LetGo`), which also keeps the books; a call may fail at each stage. `context` is
what the processor uses (debug registers, trap flag), `registered` and `stepping` are the two registries the
exception handler reads. A thread in the handler has a `frame`: Windows puts that context back when the
handler is done, whatever was written meanwhile. The shutdown runs the same commands over two lists and
then removes the handler; the command pool calls it behind the last command. A breakpoint is its thread and
register: ids, kinds, sizes and addresses are data.

**Windows.** `view` is what a window shows and which kinds of command it has pending; `tasks` are the commands under
way and the answers in the channel. A `Frame` takes any of the answers that are there, in any order, and may send
new commands as each handler does; a click sends one. `Run` is a command's effect on `world`, which other clients
change as well (`Other`). A second command of one kind is dropped while the first is pending, a thread may fail
to start, and `Stop`, `CloseButton` and the frames that look at the flag end the window.

**EventFeed.** A push takes its number (`Claim`), stores the fields in two steps (`Store`) and publishes the
number (`Publish`); several threads may do so in one slot. A poll is the code's loop, one read a step. The
debugger window has one poll and one status request in flight at most, and takes either answer first.

**RpcServer.** `server` is `run_server` and its thread: it listens, drains its tasks after the shutdown or is
`aborted` by an error of the accept loop, and ends when the tokio runtime is dropped. Each connection has what
the client sees, its `serve_connection` task and the blocking task of its command, which survives the task
when that is aborted. `Read`, `SeesEnd` and `SeesShutdown` are the branches of the `select!`; `Write` is the
answer with the post action behind it. `handle` is the runtime's side: `Stop` sets the watch, `Joined` is the
join. That `stop()` leaves nothing behind (`Quiet`) is what the shutdown order of `Runtime` relies on, whose
executor goes after the RPC server. The command is executed by a `CommandService`, of which only the outcome
is left here.

## 3. What is checked

Each run's properties and their meaning stand in the comments of the modules; `PROJECT.json`
names for each one a plausible bug (a *fault* definition kept beside the right one) that
breaks it. States are TLC's distinct states.

| run | properties | instance | states | why it is enough |
|---|---|---|---|---|
| `runtime` | `HooksReleased`, `RunningHasContext`, `OrderlyStop`, `CallReturns` | one bootstrap, two stoppers with a retry, one armer | 312k | every pair of roles meets, and a third can overtake them |
| `pool` | `NoLostCaller`, `ImplementsService`, `Answered` | three callers, two workers, two stoppers, queue of two | 53k | a caller blocks on a full queue while another holds a result and a worker dies |
| `speed` | `ClockFollowsControls`, `ToggleReturns`, `PollingInvisible`, `NoDrift` | counter 0..8, four actions, presets below, at and above 1x | 111k | holds and startup deadlines overlap, pass unnoticed and meet saturation at `MaxTick` |
| | `HoldBelongsToKey`, `ImplementsKeyboard` | the game's window, a launcher, one of our own; two keys, two modifiers, six profiles | | chords that share keys, keys down while the focus moves, a hold that ends at each of its four ends |
| `hooks` | `HooksOwned`, `StaysNative`, `MonotoneWhileArmed` | two threads, two slots, two sessions of hooks | 3.00M | a thread is inside a hook while another reads natively and the control thread changes the speed or the imports |
| `executor` | `InStep` (until something is refused), `FailSafe` | three commands, batches of keys, two refusals | 3.39M | every mix of actions, holds and arming without a refusal; a refusal in the middle of a batch, and again in the fail-safe |
| | `LaunchTrue` | five policies, five bottles (one of them gone), three program lists, six command lines, two launches, two edits | | rules that agree, disagree, exclude and collide; two edits, so that one can hide another |
| `scan_engine` | `Exact`, `AllFinish` | two workers, regions of 1 to 4 bytes, limit of two | 599k | values across chunk ends, the limit reached by two workers at once, a hole in either chunk |
| | `SearchExact`, `AllFinish` | memories of ten bytes with circles, 22 searches and two over the configured limit, one write; whole numbers of one and two bytes of six values, an f32 of three finite values, an f64 of nine with gaps, epsilon 2, three scans | | patterns and pointers across windows, chains of three, a limit inside a level; every end of a type, a value f32 has to round and one it cannot hold, a sum f64 has to round and one that overflows |
| `scans` | `OneScanPerId`, `Lineage`, `CancelAimed` | two workers, two ids, two addresses, four commands | 1.74M | two commands on one id with a third before or after them; symmetric in workers and addresses |
| | `WritesWanted`, `ProtectionKept` | two workers, one watch, two pages, one module, three policies | | a refresh overtaken by an edit, two writes in one page, a template from a process that was allowed more |
| `deploy` | `OriginalKept`, `Reversible` | one tool, two versions of the game's DLL, three mishaps | 1.24M | a failure in the installation, another in its rollback and a Steam update meet; a command follows any wreck |
| | `OnlySelected`, `ReportsTrue` | two requests of nine, two processes after each other, one turn of the keys; beside it one look of `live-match` and one of `attach-game` with two processes and one edit; patterns of three characters | | an id that changes hands at every step, two helpers in one process, a stop during a report |
| `debugger` | `SuspensionsOwned`, `RegistryMatches`, `TrapsHandled` | two threads with one debug register each | 1.22M | a thread traps, exits or is held by others while a command works on it, and the shutdown has two of each to go through; the proof covers more registers |
| | `WindowsObey` | one scan with pages of one result, one watch or breakpoint, two moves | | two kinds of answers cross, one is dropped behind another, and the window is stopped meanwhile |
| `events` | `InOrderAndWhole`, `NothingPassedOver` | two threads, ring of two, polls of two, five events | 5.9M | the ring turns over twice, and a poll meets its limit, a lap and a push in its slot |
| `rpc` | `Quiet`, `StopReturns`, `ClientsAnswered` | three connections, limit of two, both transports | 65k | one is refused, or ends a pipe server, while two are served; a command runs beside another's answer when the stop comes |
| `runtime_leak` | `StoppedReleases` (violated) | as `runtime`, without retries | 104k | see Findings |

What is unbounded in the code is capped by constants (`MaxCalls`, `MaxNow`, `MaxClock`,
`MaxApplies`, `MaxInstalls`, `MaxFaults`, `MaxForeign`, `MaxCommands`, `MaxFailures`, `MaxEdits`, `MaxLaunches`,
`MaxIds`, `MaxId`, `MaxMoves`, `MaxFlips`, `MaxWrites`, `MaxScans`, `MaxMishaps`, `MaxProcesses`, `MaxTurns`,
`MaxBreakpoints`, `MaxEvents`), each named as a bound where it is declared. They only stop new work from being
begun. `MaxTick`, `MaxHits`, `MaxDepth`, `MaxLength`, `MaxPatterns`, `Tries`, `Capacity`, `Limit` and `PageSize` are limits of the
code itself, with smaller values.

**Fairness.** `runtime`: every thread that is inside a call keeps running, as the operating system schedules it,
but for the stop of a subsystem, which may never return: `stop()` of the RPC server waits for a client that neither reads nor
leaves, and the joins of the other threads wait for what those do. So `CallReturns` says that a `shutdown()` returns
or is one that waits for a subsystem it holds itself; that it can hold up no other one is what the property is
about. Nobody is obliged to call. `pool`: callers, workers and stoppers keep running once inside; a command that
was started ends or panics, and a mutex that is free again and again is eventually taken.
`scan_engine`: the scan's threads and a search run; the game and the user owe nothing. `rpc`: the reactor polls
what is ready, a command ends, and a client that waits for an answer reads it or leaves; the shutdown is
noticed by a connection however many requests keep arriving, because `select!` picks at random among the
branches that are ready (strong fairness of `SeesShutdown`). The other runs check safety only and assume none.

### Findings

One run ends with a violation that TLC must find, of a sentence in the repository; `PROJECT.json` has the
details.

* `runtime_leak`: a shutdown that falls between the last request check of the bootstrap and the
  store of its context reports Stopped and leaves every subsystem running.

More facts came up that no run keeps. Most of them are the reason for an exception in a property.

Speed and its profiles:

* A thread that read the native counter just before the imports were patched can be given the older
  baseline by its first contended hook, so its clock may go back once when the hooks are armed;
  `MonotoneWhileArmed` compares readings through one set of hooks only.
* With two imports of one timer function, what a failed undo leaves can pass for a complete set of hooks:
  its records cover all four functions while one import is native.
* A profile reaches the preview when the executor is made and the hooks only when they are armed. In between the
  preview's clock has run at the profile's rate, its deadlines may have passed, and a start above 1x leaves the two
  with different rates to toggle back to; `InStep` speaks of executors without a profile.
* Once the hooks have refused an action, status need not show what the game gets. Hooks that refuse the fail-safe as well
  (speed_commands.rs:126) keep their rate while the preview shows 1x; and as only the preview has seen the
  action, the two toggle back to different rates afterwards, even when the hooks are armed anew. `InStep` therefore
  speaks of executors whose hooks have refused nothing; `FailSafe` says what a refusal leaves behind.
* A status request that found the gate open samples and publishes even if the gate closes while it waits for the
  mutex (experimental_timer_probe.rs:792). No import is patched by it, and no clock goes back.
* A bottle or program that sets `INTIMATR_EXPERIMENTAL_STARTUP_TIMERS` itself arms timers at the start although
  the launch was not asked to; `LaunchTrue` excepts it.
* Two bottles whose names differ only in case share one rule of the policy (`bottle_key` lowers names).
* An export that is killed or meets a full disk leaves an empty or partial file, which a launch refuses and a
  second export will not overwrite.

Scans and memory:

* A next scan copies its session (command.rs:590) before it claims the id (596). Of two next scans of one
  id, the second can narrow the copy it took before the first stored its result: the first result is lost,
  and the previous values kept are not those of the session replaced.
* A pattern scan says that it was truncated also when exactly `max_results` places match. A pointer
  search passes over unreadable windows without a word and cannot say that it reached its limit.
* A value written as f32 is rounded first (scanner/value.rs:77): 0.1 is read back as another number, and what f32 cannot hold as an
  infinity, without a refusal. `ReadsWhatWasWritten` promises the nearest value.
* A float that rose by no more than epsilon has both stayed the same and increased, and a series of scans for
  unchanged values lets it drift by epsilon each time, and by what f64 takes from each sum and distance;
  `SeriesExact` allows for both.
* A saved session with a NaN or an infinity is written as JSON null, which `load_from_path` refuses together
  with the rest of the workspace (read in the source, not model-checked).
* Two writes in one read-only page at a time can leave it writable, as the second takes the first one's
  momentary protection for the page's own; `ProtectionKept` excepts such a page.

Debugger, windows and RPC:

* The debugger window can miss events that the ring still holds. It sets its cursor to the latest number of
  an answer, be it the status (debugger_ui.rs:336) or a poll that stopped at its limit or passed over a slot
  still being stored (383), and never asks for what lies before.
* `TrapsHandled` needs its two exceptions. A thread in the exception handler goes on with the context it
  trapped with: a breakpoint removed at that moment comes back, and its next hit is nobody's; a step armed
  there ends in the handler's own code. And a shutdown takes the handler away while a step is outstanding.
* A breakpoint on a thread that others hold suspended survives the shutdown, without its handler.
* A request for news that is made while one of its kind is on its way is dropped without notice (ui.rs:304), so the
  window may go on showing what is no longer so; a slow status answer can put an older list of breakpoints
  over a newer one.
* The main window shows the last of the active scans, and its Cancel button aims at that one, also when another client
  started it. The Watch button of an old result takes the type that is selected now.
* A named-pipe server ends when `max_clients` clients are connected: `run_named_pipe` makes the next instance
  before it looks at the permits (server.rs:229), the operating system refuses it (`max_instances`, 274), and
  the error takes the accept loop and all connections down. The branch that is meant to close a client over
  the limit (233) is never taken, which `PipeNeverRefuses` proves.
* `stop()` waits for a client that neither reads its answer nor leaves.
* A shutdown a client was granted is dropped if its answer cannot be written, and fails without notice if the
  hooks cannot be restored.
* An arm that races a shutdown can answer true with no hooks installed.

Bottles tools:

* Two installations of the launch proxy into one directory lose the game's DLL without any failure: the
  rollback of the second undoes the rename of the first, which then renames its proxy over the DLL.
* A staging file that was only half written is left by the rollback, which deletes what it recognises.
  It blocks every later installation, while `status` reports not_installed.
* A helper that times out or is killed leaves its remote loader running. An abandoned mutex tells the next helper only
  if another one has it open; otherwise a second `LoadLibrary` starts, which does no harm.
* The threads of a process that exits end with its exit code: a game that ends with 3 during the question for the
  state is reported running, with 1 during that for the hooks, armed. `ReportsTrue` excepts a game that ended.
* The process list may print the name of one process with the path of its successor under the same id; the matching
  does not use that name.

## 4. What is proved

TLAPS checks the theorems for every value of the constants, from the assumptions the modules
name (`ThreadsAssumption` and the like: sets of threads are disjoint, bounds are naturals). Each
proof shows an inductive invariant, one step per action.

* `RuntimeProofs`: types, `HooksReleased`, `RunningHasContext`, `OrderlyStop`, `LifecycleForward`. `HooksReleased`
  is kept by a step to Stopping only because whoever takes it has closed the gate and, under the mutex, seen the
  hooks gone; `GateClosed`, `MutexHeld` and `HooksOnlyRunning` carry that. `OrderlyStop` rests on `Own`: what
  lives is held by exactly one thread or by `CONTEXT`, and whoever holds the executor holds all that uses it; only
  one thread moves the state to Stopping, so there is one cleaner and it ends with everything. For the executor,
  `InStep` without a profile and while nothing was refused, and `FailSafe`: until then, the preview is ahead of the hooks by
  exactly the actions still to be replayed (`Leads`), and its hold ends no later (`Behind`). Of the launcher,
  `LaunchTrue` (`LInv`): what each check saw is so until it changes (`Verified`), a game that runs has all of them
  behind it, and what the export wrote, a check accepted or the game loaded follows from that (`Exported`,
  `CheckedWell`, `Delivered`). It needs that an identity belongs to one rule of a valid policy (`OnlyOne`), and
  assumes policies and command lines of the right form (`LaunchAssumption`). Of the RPC server, `Quiet`, the exact
  limit (`LimitKept`) and `PipeNeverRefuses`: no client is open without a task and no task outlives the accept loop
  (`Accounted`); the thread ends behind the commands (`ServerOver`).
* `CommandPoolProofs`: types, `StopsBehindWork`, `NoLostCaller`, `InnerShutdownOnce`, and `Implements`: every step is
  a step of `CommandService` or a stutter. A waiting caller is always known to the queue or to a worker; when the
  last worker goes, the queue goes with it. For the refinement each command has one token (`Tokens`) that
  is in the queue, with a worker, or spent; a worker that answers therefore ends exactly one command.
* `SpeedSessionProofs`: types, `ClockFollowsControls`, `HoldHasDeadline`, `NothingOverdue`,
  `ToggleReturns`, and that virtual time never goes back (`NeverBack`). The parts need each other: an expiry is
  exact only because the clock ran at the controls' rate up to it. Below u64::MAX, where deadlines saturate, also
  `PollingInvisible` and `NoDrift`. The first rests on two facts about single sessions: a poll at a later reading
  does not tell whether there was one before it (`PollAgain`), and neither does an action (`ApplyPolled`). The second
  carries the virtual time together with what rounding keeps back (`Total`): a tick adds exactly the rate to it,
  a change of rate loses less than one tick, and every change was paid for by an action or the profile (`Changes`).
  Of the keys, `HoldBelongsToKey` and the refinement of `Keyboard`, step by step (`KeysInv`): the pump knows only
  keys it watches in the window that is active, and the chord it holds is among those that were down. The events of
  one look are followed by induction over the codes. Its releases end the hold with the first one exactly if the chord
  is no longer down (`Releases`); its presses complete each binding once, in the order of the keys, and can no
  longer end what is held (`Presses`). Of the batch that comes out, one without a hold begins none, and one that
  releases first leaves none (`ApplyAllHold`). The assumption is that modifiers and keys are told by their codes and
  a profile has one action of each kind (`HotkeysAssumption`).
* `TimerHooksProofs`: `HooksOwned`, `StaysNative` and `MonotoneWhileArmed`. Whatever leads into the DLL, or is
  writable, is in a record that says so (`Recorded`), and only the owner of the mutex changes records. No reading
  goes back under one set of hooks: what is published is what the session behind the hooks last gave, and no thread
  has read beyond it (`ReadInv`).
* `ScansProofs`: `OneScanPerId`, `Lineage`, `CancelAimed`. Deregistering leaves other scans alone
  because tokens are unique (`OwnTokens`); ids are fresh because they are taken before anything is
  stored under them (`FreshIds`). Of the scan itself, `Exact` (`EngineInv`), from the assumption that plans are
  well-formed (`WellFormed`: each address is dealt to one place, and a chunk reads its values whole). `FirstPlanDeals`
  and `NextPlanDeals` prove that of every plan `ScanPlan` computes, from any layout over disjoint regions and from
  any session of distinct candidates; the recursion in `FlattenSeq` is followed by an induction stated with sets
  (`Counting`), as the library's theorems with operator parameters cannot be used.
  No two threads are in one item and none comes back to it (`Dealt`), so a result is a value of the plan that nobody
  will come to again (`Taken`, `Past`) and none is counted twice; what was dealt and matched is reported or still owed by a thread
  that did not end (`Handled`, `Owed`); and the results are as many as were accepted, or the limit
  (`Limited`). Of the watches, `WritesWanted` and `ProtectionKept` (`WatchInv`): what a refresh
  still has to write was asked for and frozen when it took its copy, and while one write at a time is in a page, that
  write knows the page's own protection.
* `LaunchProxyDeployProofs`: `OriginalKept` and `Reversible`, if no two tools work in one directory (`OneTool`;
  section 3 says why it is needed). The saved DLL is genuine from the third rename on and until
  a rollback or a removal has put it back (`Kept`), and the one in place is before that (`Untouched`). For
  `Reversible`, `Laid` says at each step which of the tool's files may be there and that they hold what the rollback
  looks for, `Found` where the DLL is that the tool found; a removal starts from a directory without
  staged files because the marker is renamed last (`Course`). Of the attach helpers, `ReportsTrue` and
  `HelpersSelected` (`AttachInv`): what each answer of a script says of the game (`AnswersTrue`), in what order the
  script asks, and that a helper has one remote thread at most (`OneThread`). The assumption is that model values
  differ, digests are not zero and rates are naturals (`AttachAssumption`). Of the way to that process,
  `SelectionTrue` (`MatchInv`): each process of the snapshot is looked at once (`Once`), all that a row says is
  of one process (`OneProcessPerRow`), and imports are only read of x64 files (`ImportsRead`); and
  `PlanExact`, for any filters and any inventory: `MatchesMeaning` shows that the table which the matcher fills row
  by row says of a text exactly whether some cut of it into pieces fits the pattern. The table is followed by
  induction over the tokens (`Counting`). The three together are `OnlySelected`. The assumptions are that ids are
  finitely many and files keep their form (`MatchAssumption`), and that words are sequences (`SelectionAssumption`).
* `DebuggerProofs`: `RegistryMatches`, `TrapsHandled` and `SuspensionsOwned`. `Books` says how far the registry may be
  ahead of the list or behind it at each stage of a command; `Known` says that whatever can make a thread trap, in
  its context or in the frame it will return to, is registered. The two are one induction: a removal may
  strike a breakpoint off only because the thread has lost it first. For the suspensions, `Counts` splits
  each thread's count into those of others, the listed ones and that of the command under way, and `Listed` and
  `Arms` say what the shutdown's two lists still have to undo. Of the event feed, `InOrderAndWhole` and
  `NothingPassedOver` (`FeedInv`): a slot holds an older event until the push that claimed it ends, so the number a
  poll finds is that of the fields it reads, or the ring has turned over since. Of the windows, `WindowsObey`
  (`WindowInv`), with no assumption on the constants. `Orderly` is the bookkeeping: what is pending is what is
  under way or answered, one of a kind. `News` says that what the screen shows is so, or an answer that says so is
  to come, or one that makes it ask again, unless a command that brings news was dropped (`missed`). A frame takes any of the answers in any order; that it keeps all this is shown for one answer
  (`MainTakes`, `DebuggerTakes`) and then by induction over the order in which they are taken (`AllTaken`).
* `SearchProofs`: `SearchExact`, of its three parts. Windows of a region overlap by one byte less than a value, so each
  place lies in exactly one (`WindowsApart`, `Covered`), and reading them in the order of their addresses keeps what
  was gathered ascending, ahead of all that is unread and, up to the limit, complete (`Gathered`, `Complete`,
  `GatheringGoesOn`): this is `PatternExact` already. The pointer search uses the same for each address it
  pursues. That its paths lead to the target is a way through what could be read (`WaysInv`); that none comes twice,
  that queued addresses differ and each path's first pointer leads to an address that has left the queue (`QueuedOnce`,
  `FoundOnce`). That none is missed is the argument of a breadth-first search (`WholeInv`): the queue is in the order
  of the lengths of its paths, which differ by one at most (`InOrder`), what is queued has a shortest path
  (`Shortest`), what has left has one no longer than what is still queued (`PoppedFirst`), and all that steadily
  leads to what has left has a path one link longer (`PoppedWhole`). At the end the queue is empty, and an
  induction from the target back along a steady way (`NoneMissed`) gives every address of it its path;
  `resolve_pointer_chain` is followed along a path by induction as well (`FollowsWay`). Of the values, `ValuesExact`
  (`ValuesInv`): what `Encode` accepts decodes to the same value, or for a float to the nearest the type has, for any
  radix (`EncodeIs`, `BytesOf`), a session holds values of its type, and a series of scans for differences the sum of
  them, but for epsilon and what rounding took (`SessionShape`, `SeriesShape`). The assumptions are that regions do not
  overlap and scannable ones are there (`SearchAssumption`); and that types have one or two bytes, each pattern of a
  float type stands for something, among it the infinities and a NaN, and f64 has every value of the others
  (`ValuesAssumption`). Which finite values a type of floats has, and how far apart, is open: nothing says that a
  float the user enters is among them.

`LifecycleForward`, `StopsBehindWork`, `InnerShutdownOnce`, `HoldHasDeadline`, `NothingOverdue`, `NeverBack`,
`LimitKept`, `PipeNeverRefuses` and the types of the runtime, the pool and the session are proved and no run lists
them: they say little that the listed properties do not. Types of `TimerHooks`, `Scans`, `LaunchProxyDeploy`,
`Debugger`, `RpcServer` and `Analysis` are the first part (`Shape`, `ServerTypes`, `SearchShape`) of the invariants
proved there.

Every invariant and every action property that a run checks is proved, under the hypotheses named above. Only
model-checked is liveness under fairness, which is out of the prover's reach: `CallReturns`, `Answered`,
`ClientsAnswered`, `AllFinish`, `StopReturns`.

## 5. What is not modelled

* The HUD telemetry: one thread of the DLL overwrites one small file for an overlay outside this repository;
  nothing in the program reads it back. The compatibility reports and `match-snapshot` look once and print.
  The speed clients pass one command to the RPC server, whose clients `RpcServer` models.
* Parsing of PE images, of JSON and TOML, and of words into options; hashing; logging; what is drawn; the fixtures
  that exist to be attached to; the native launch proxy, which forwards exports and loads the DLL once. Where a
  module needs what they yield it takes it as a constant or as a choice that may be refused.
* Windows and Bottles themselves: their calls are modelled from how the code uses them, each able to fail.
* The read-only exports for the status in `Runtime`; they are in `Attach`, as what a helper asks for.
* Rounding of f64 in rates; of the floats in memory, ties to even and the two zeroes; and the statistics of a scan.
* A panic inside a critical section, which poisons its mutex, and one inside `shutdown()`.
* Two next scans of one id, of which one may be lost (command.rs:590), is in `Scans` and no property speaks of it:
  the code does not prevent it. That a runtime which keeps retrying a failed teardown gets every import
  back in the end is not checked; `HooksOwned` says that the next try knows what is left.

What is left to do: `InStep` with a profile, once the code starts the preview and the hooks together.
