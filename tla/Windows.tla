------------------------------- MODULE Windows -------------------------------
(***************************************************************************)
(* The two windows, ui.rs and debugger_ui.rs.  A window's thread owns what *)
(* is on the screen, its view.  A click hands a command to a thread of its *)
(* own, one of a kind at a time; the answers come back over a channel, in  *)
(* any order, and are taken in the next frame.  `world` is what commands   *)
(* act on; other clients act on it too.  Layout is left out, and the event *)
(* list, which EventFeed models.                                           *)
(***************************************************************************)
EXTENDS Naturals, SequencesExt, FiniteSetsExt

CONSTANTS
  MaxScans, MaxIds,   \* bounds: scans; watches, or breakpoints
  Finds,              \* what a scan may find
  PageSize,           \* scan_page_size
  MaxMoves            \* bound: clicks, what other clients do, and what fails

VARIABLES
  window,     \* "main" or "debugger"
  thread,     \* of the window: "starting", "open", "closed"
  handle,     \* UiHandle: "held", "stopping", "asked", "stopped"
  shutdown,   \* the flag they share
  late,       \* frames begun since it was raised
  closing,    \* the window system was asked to close the window
  view,
  tasks,      \* commands under way, and answers that were not taken yet
  world, moves

windowVars == <<window, thread, handle, shutdown, late, closing, view, tasks, world, moves>>

Ask(kind, id) == [kind |-> kind, id |-> id, at |-> "sent", answer |-> 0]

Message(kind, is, id, count, ids, more) ==
  [kind |-> kind, is |-> is, id |-> id, count |-> count, ids |-> ids, more |-> more]

(***************************************************************************)
(* submit: dropped if the last of its kind was not answered yet            *)
(***************************************************************************)

\* What brings news to the screen.
Telling == {"ListWatches", "ScanResults", "RefreshWatches", "Status"}

\* Fault: the kind of a command that found no thread stays pending.
SubmitStuck(v, wanted) ==
  LET new == {r \in wanted : r.kind \notin v.pending}
  IN  [v EXCEPT !.pending = @ \cup {r.kind : r \in new},
                !.sent = IF v.spawns THEN @ \cup new ELSE @,
                !.missed = @ \/ \E r \in wanted : r.kind \in Telling /\ (r \notin new \/ ~v.spawns)]

\* `missed` keeps in mind that such a request was dropped or failed.
Submit(v, wanted) ==
  LET new == IF v.spawns THEN {r \in wanted : r.kind \notin v.pending} ELSE {}
  IN  [v EXCEPT !.pending = @ \cup {r.kind : r \in new}, !.sent = @ \cup new,
                !.missed = @ \/ \E r \in wanted \ new : r.kind \in Telling]

ShowPage(v)  == IF v.summary = 0 THEN v
                ELSE Submit(v, {Ask("ScanResults", v.summary * 10 + v.page)})
Refresh(v)   == Submit(v, {Ask("RefreshWatches", 0)})
RequestRegisters(v) == IF v.selected = 0 THEN v ELSE Submit(v, {Ask("Registers", v.selected)})
List(v)      == Submit(v, {Ask("ListBreakpoints", 0)})

Scanning(v) == {"FirstScan", "NextScan"} \cap v.pending # {}

Tabs(w) == IF w = "main" THEN {"Scan", "Watches", "Memory", "Lists", "Speed"}
           ELSE {"Threads", "Disassembly", "Breakpoints"}

Blank ==
  [visible |-> FALSE, tab |-> "none", pending |-> {}, sent |-> {}, spawns |-> TRUE, missed |-> FALSE,
   summary |-> 0, total |-> 0, page |-> 0, results |-> 0, active |-> 0,
   watches |-> {}, speed |-> "unknown",
   threads |-> {}, selected |-> 0, registers |-> 0, paused |-> {}, breakpoints |-> {}]

First(w) == IF w = "main" THEN {Ask("ListWatches", 0), Ask("Speed", 0)}
            ELSE {Ask("ListThreads", 0), Ask("Status", 0), Ask("ListBreakpoints", 0)}

World == [scans |-> <<>>, active |-> {}, ids |-> {}, given |-> 0, paused |-> {}]

WindowInit ==
  /\ window \in {"main", "debugger"}
  /\ thread = "starting" /\ handle = "held"
  /\ shutdown = FALSE /\ late = 0 /\ closing = FALSE
  /\ view = Blank /\ tasks = {}
  /\ world = World /\ moves = 0

screen == <<thread, handle, shutdown, late, closing>>
rest   == <<window, world>>

(***************************************************************************)
(* handle_result, for one answer                                           *)
(***************************************************************************)

\* ActiveScans shows the scan of the summary, or else the last of anyone.
Shown(v, ids) ==
  IF v.summary \in ids THEN v.summary ELSE IF ids = {} THEN 0 ELSE Max(ids)

HandleMain(v, a) ==
  CASE a.is = "scan"    -> ShowPage([v EXCEPT !.active = 0, !.summary = a.id, !.total = a.count, !.page = 0])
    [] a.is = "results" -> [v EXCEPT !.total = a.count, !.results = a.id]
    [] a.is = "active"  -> [v EXCEPT !.active = Shown(v, a.ids)]
    [] a.is = "watch"   -> Refresh(v)
    [] a.is = "watches" -> Refresh([v EXCEPT !.watches = a.ids])
    [] a.is = "values"  -> [v EXCEPT !.watches = a.ids]
    [] a.is = "written" -> Submit(v, {Ask("ReadMemory", 0)})
    [] a.is = "error"   -> IF a.kind = "Speed" THEN [v EXCEPT !.speed = "error"] ELSE v
    [] a.is = "speed"   -> [v EXCEPT !.speed = "known"]
    [] OTHER            -> v

\* Fault: only a pause asks for the status again.
HandleDebuggerPause(v, a) ==
  CASE a.is = "threads"     -> [v EXCEPT !.threads = a.ids,
                                         !.selected = IF @ \in a.ids THEN @ ELSE IF a.ids = {} THEN 0 ELSE Min(a.ids)]
    [] a.is = "status"      -> [v EXCEPT !.paused = a.more, !.breakpoints = a.ids]
    [] a.is = "control"     -> RequestRegisters(IF a.kind = "Pause" THEN Submit(v, {Ask("Status", 0)}) ELSE v)
    [] a.is = "changed"     -> List(v)
    [] a.is = "breakpoints" -> [v EXCEPT !.breakpoints = a.ids]
    [] OTHER                -> v

HandleDebugger(v, a) ==
  CASE a.is = "threads"     -> [v EXCEPT !.threads = a.ids,
                                         !.selected = IF @ \in a.ids THEN @ ELSE IF a.ids = {} THEN 0 ELSE Min(a.ids)]
    [] a.is = "registers"   -> [v EXCEPT !.registers = a.id]
    [] a.is = "status"      -> [v EXCEPT !.paused = a.more, !.breakpoints = a.ids]
    [] a.is = "control"     -> LET w == Submit(v, {Ask("Status", 0)})
                               IN  IF a.kind = "Step" THEN w ELSE RequestRegisters(w)
    [] a.is = "changed"     -> List(v)
    [] a.is = "breakpoints" -> [v EXCEPT !.breakpoints = a.ids]
    [] OTHER                -> v

Take(v, t) ==
  LET w == [v EXCEPT !.pending = @ \ {t.kind}]
  IN  IF window = "main" THEN HandleMain(w, t.answer) ELSE HandleDebugger(w, t.answer)

\* drain_responses: the answers, one after the other.
TakeAll(v, order) ==
  LET after[n \in 0 .. Len(order)] == IF n = 0 THEN v ELSE Take(after[n - 1], order[n])
  IN  after[Len(order)]

Move == moves < MaxMoves /\ moves' = moves + 1

(***************************************************************************)
(* A frame                                                                 *)
(***************************************************************************)

Views(spawns) == {[view EXCEPT !.spawns = ok] : ok \in spawns}

\* Where no thread can be started for a command, that is a move of its own.
Keep(v) ==
  /\ view' = [v EXCEPT !.sent = {}, !.spawns = TRUE]
  /\ tasks' = tasks \cup v.sent
  /\ v.spawns \/ moves < MaxMoves

\* Fault: only stop() closes the window.
EndsByHandle(down) == closing /\ down

\* A window that is asked to close hides, unless the runtime stops; the flag is
\* looked at in each frame, for stop() may have come before there was a context.
Ends(down) == down

\* What a frame asks for by itself, with its timers run out.
Due(v) ==
  LET of(kind, wanted) == IF wanted /\ kind \notin v.pending THEN {Ask(kind, 0)} ELSE {}
  IN  of("RefreshWatches", v.watches # {}) \cup of("ActiveScans", Scanning(v))
        \cup of("Speed", v.visible /\ v.tab = "Speed")

\* IntimatrApp::logic, DebuggerApp::logic, with the answers that were sent by now
\* in the order they were sent.
Frame(due, sent, spawns) ==
  /\ thread = "open" /\ (due => window = "main")
  /\ \E v \in {v \in Views(spawns) : v.spawns \/ moves < MaxMoves}, order \in SetToSeqs(sent) :
       LET hidden == [v EXCEPT !.visible = @ /\ (shutdown \/ ~closing)]
           taken  == TakeAll(hidden, order)
           kept   == IF due THEN Submit(taken, Due(taken)) ELSE taken
       IN  /\ view' = [kept EXCEPT !.sent = {}, !.spawns = TRUE]
           /\ tasks' = (tasks \ sent) \cup kept.sent
  /\ closing' = Ends(shutdown)
  /\ thread' = IF closing /\ shutdown THEN "closed" ELSE thread
  /\ late' = late + IF shutdown /\ late < 3 THEN 1 ELSE 0
  /\ UNCHANGED <<rest, handle, shutdown, moves>>

\* The toggle key goes down.
Toggle ==
  /\ thread = "open" /\ Move
  /\ view' = [view EXCEPT !.visible = ~@]
  /\ UNCHANGED <<rest, screen, tasks>>

Answers == {t \in tasks : t.at = "answered"}

\* IntimatrApp::new, DebuggerApp::new; the renderer may fail instead.
Open ==
  /\ thread = "starting"
  /\ \E v \in Views(BOOLEAN), visible \in BOOLEAN, tab \in Tabs(window) :
       \/ thread' = "open" /\ Keep(Submit([v EXCEPT !.visible = visible, !.tab = tab], First(window)))
       \/ thread' = "closed" /\ UNCHANGED <<view, tasks>>
  /\ UNCHANGED <<rest, handle, shutdown, late, closing, moves>>

\* The user closes the window.
CloseButton ==
  /\ thread = "open" /\ view.visible /\ ~closing /\ Move
  /\ closing' = TRUE
  /\ UNCHANGED <<rest, thread, handle, shutdown, late, view, tasks>>

\* stop(): the flag, a close if there is a context yet, then join.
Stop ==
  /\ \/ handle = "held" /\ handle' = "stopping" /\ shutdown' = TRUE /\ UNCHANGED closing
     \/ handle = "stopping" /\ handle' = "asked" /\ closing' = (closing \/ thread = "open") /\ UNCHANGED shutdown
     \/ handle = "asked" /\ thread = "closed" /\ handle' = "stopped" /\ UNCHANGED <<shutdown, closing>>
  /\ UNCHANGED <<rest, thread, late, view, tasks, moves>>

(***************************************************************************)
(* Clicks                                                                  *)
(***************************************************************************)

Clicking(tab) ==
  /\ thread = "open" /\ view.visible /\ view.tab = tab /\ Move
  /\ UNCHANGED <<rest, screen>>

SelectTab ==
  /\ Clicking(view.tab)
  /\ \E tab \in Tabs(window) \ {view.tab} : Keep([view EXCEPT !.tab = tab])

\* render_scan: the button is there while no scan of this window is under way.
FirstScan ==
  /\ Clicking("Scan")
  /\ ~Scanning(view)
  /\ \E v \in Views(BOOLEAN) :
       Keep([Submit(v, {Ask("FirstScan", 0)}) EXCEPT
               !.results = 0, !.summary = 0, !.total = 0, !.active = 0])

NextScan ==
  /\ Clicking("Scan")
  /\ ~Scanning(view) /\ view.summary # 0
  /\ \E v \in Views(BOOLEAN) : Keep([Submit(v, {Ask("NextScan", v.summary)}) EXCEPT !.active = 0])

CancelScan ==
  /\ Clicking("Scan")
  /\ Scanning(view) /\ view.active # 0
  /\ \E v \in Views(BOOLEAN) : Keep(Submit(v, {Ask("CancelScan", v.active)}))

Pages(total) == IF total = 0 THEN 1 ELSE (total + PageSize - 1) \div PageSize

\* render_scan_results: the page turns, also when the request is dropped.
TurnPage ==
  /\ Clicking("Scan")
  /\ \E v \in Views(BOOLEAN) :
       \/ v.page > 0 /\ Keep(ShowPage([v EXCEPT !.page = @ - 1]))
       \/ v.page + 1 < Pages(v.total) /\ Keep(ShowPage([v EXCEPT !.page = @ + 1]))

\* The Watch button of a result.
WatchResult ==
  /\ Clicking("Scan")
  /\ \E v \in Views(BOOLEAN) : v.results # 0 /\ Keep(Submit(v, {Ask("AddWatch", 0)}))

\* render_watches.
EditWatches ==
  /\ Clicking("Watches")
  /\ \E v \in Views(BOOLEAN) :
       \/ Keep(Submit(v, {Ask("AddWatch", 0)}))
       \/ \E kind \in {"SetWatchFreeze", "RemoveWatch"}, id \in v.watches : Keep(Submit(v, {Ask(kind, id)}))
       \/ Keep(Refresh(v))

\* render_memory.
EditMemory ==
  /\ Clicking("Memory")
  /\ \E v \in Views(BOOLEAN), kind \in {"ReadMemory", "WriteMemory"} : Keep(Submit(v, {Ask(kind, 0)}))

\* render_modules, render_threads.
ListAll ==
  /\ Clicking("Lists")
  /\ \E v \in Views(BOOLEAN) : Keep(Submit(v, {Ask("ListModules", 0)}))

\* SpeedView::render: nothing to press while an answer is missing, and only a
\* refresh before the first one.
PressSpeed ==
  /\ Clicking("Speed")
  /\ "Speed" \notin view.pending
  /\ \E v \in Views(BOOLEAN) : Keep(Submit(v, {Ask("Speed", 0)}))

\* render_threads of the debugger.
ControlThread ==
  /\ Clicking("Threads")
  /\ \E v \in Views(BOOLEAN) :
       \/ \E t \in v.threads : Keep([v EXCEPT !.selected = t])
       \/ \E kind \in {"Pause", "Resume", "Step"} :
            v.selected # 0 /\ Keep(Submit(v, {Ask(kind, v.selected)}))
       \/ Keep(RequestRegisters(v))
       \/ Keep(Submit(v, {Ask("ListThreads", 0)}))

\* render_disassembly.
Disassemble ==
  /\ Clicking("Disassembly")
  /\ \E v \in Views(BOOLEAN) : Keep(Submit(v, {Ask("Disassemble", 0)}))

\* render_breakpoints.
EditBreakpoints ==
  /\ Clicking("Breakpoints")
  /\ \E v \in Views(BOOLEAN) :
       \/ v.selected # 0 /\ Keep(Submit(v, {Ask("AddBreakpoint", 0)}))
       \/ \E id \in v.breakpoints : Keep(Submit(v, {Ask("RemoveBreakpoint", id)}))
       \/ Keep(List(v))

(***************************************************************************)
(* The threads of the commands                                             *)
(***************************************************************************)

Reply(t, is, id, count, ids, more) == Message(t.kind, is, id, count, ids, more)

Answered(t, a) == [t EXCEPT !.at = "answered", !.answer = a]

Plain(t, is)  == Reply(t, is, 0, 0, {}, {})
OfIds(t, is)  == Reply(t, is, 0, 0, world.ids, {})

\* A scan is registered, and later over, with a result or by a cancellation.
BeginScan(t) ==
  /\ t.kind \in {"FirstScan", "NextScan"} /\ t.at = "sent"
  /\ LET id == IF t.kind = "FirstScan" THEN Len(world.scans) + 1 ELSE t.id
     IN  /\ id <= MaxScans
         /\ world' = [world EXCEPT !.scans = IF id > Len(@) THEN Append(@, 0) ELSE @, !.active = @ \cup {id}]
         /\ tasks' = (tasks \ {t}) \cup {[t EXCEPT !.at = "scans", !.id = id]}

EndScan(t) ==
  /\ t.at = "scans"
  /\ \E n \in Finds :
       /\ world' = [world EXCEPT !.active = @ \ {t.id}, !.scans[t.id] = n]
       /\ tasks' = (tasks \ {t}) \cup {Answered(t, Reply(t, "scan", t.id, n, {}, {}))}

\* What the other commands answer, and what becomes of the world.
Outcomes(t) ==
  LET changed(w, is) == {[world |-> w, answer |-> Plain(t, is)]}
      read(a)        == {[world |-> world, answer |-> a]}
      fresh          == world.given + 1
      adding(is)     == IF fresh > MaxIds THEN {}
                        ELSE changed([world EXCEPT !.ids = @ \cup {fresh}, !.given = fresh], is)
  IN  CASE t.kind = "ScanResults" -> read(Reply(t, "results", t.id, world.scans[t.id \div 10], {}, {}))
        [] t.kind = "ActiveScans" -> read(Reply(t, "active", 0, 0, world.active, {}))
        [] t.kind = "AddWatch"    -> adding("watch")
        [] t.kind = "RemoveWatch" -> changed([world EXCEPT !.ids = @ \ {t.id}], "watch")
        [] t.kind = "SetWatchFreeze" -> read(Plain(t, "watch"))
        [] t.kind = "ListWatches"    -> read(OfIds(t, "watches"))
        [] t.kind = "RefreshWatches" -> read(OfIds(t, "values"))
        [] t.kind = "WriteMemory" -> read(Plain(t, "written"))
        [] t.kind = "Speed"       -> read(Plain(t, "speed"))
        [] t.kind = "ListThreads" -> read(Reply(t, "threads", 0, 0, {1, 2}, {})) \cup read(Reply(t, "threads", 0, 0, {2}, {}))
        [] t.kind = "Registers"   -> read(Reply(t, "registers", t.id, 0, {}, {}))
        [] t.kind = "Status"      -> read(Reply(t, "status", 0, 0, world.ids, world.paused))
        [] t.kind = "Pause"       -> changed([world EXCEPT !.paused = @ \cup {t.id}], "control")
        [] t.kind = "Resume"      -> changed([world EXCEPT !.paused = @ \ {t.id}], "control")
        [] t.kind = "Step"        -> read(Plain(t, "control"))
        [] t.kind = "AddBreakpoint"    -> adding("changed")
        [] t.kind = "RemoveBreakpoint" -> changed([world EXCEPT !.ids = @ \ {t.id}], "changed")
        [] t.kind = "ListBreakpoints"  -> read(OfIds(t, "breakpoints"))
        [] OTHER -> read(Plain(t, "done"))

Execute(t) ==
  \/ BeginScan(t) \/ EndScan(t)
  \/ /\ t.kind \notin {"FirstScan", "NextScan"} /\ t.at = "sent"
     /\ \E o \in Outcomes(t) :
          /\ world' = o.world
          /\ tasks' = (tasks \ {t}) \cup {Answered(t, o.answer)}

\* A command that is refused, and a scan that is cancelled.
Refuse(t) ==
  /\ t.at # "answered" /\ Move
  /\ world' = [world EXCEPT !.active = IF t.at = "scans" THEN @ \ {t.id} ELSE @]
  /\ tasks' = (tasks \ {t}) \cup {Answered(t, Plain(t, "error"))}
  /\ view' = [view EXCEPT !.missed = @ \/ t.kind \in Telling]

Run(t) ==
  /\ \/ Execute(t) /\ UNCHANGED <<view, moves>>
     \/ Refuse(t)
  /\ UNCHANGED <<window, screen>>

\* Another client adds or removes a watch or a breakpoint, or scans.
Other ==
  /\ Move
  /\ \/ \E id \in world.ids : world' = [world EXCEPT !.ids = @ \ {id}]
     \/ /\ world.given < MaxIds
        /\ world' = [world EXCEPT !.ids = @ \cup {world.given + 1}, !.given = @ + 1]
     \/ /\ Len(world.scans) < MaxScans
        /\ world' = [world EXCEPT !.scans = Append(@, 0), !.active = @ \cup {Len(world.scans) + 1}]
  /\ view' = [view EXCEPT !.missed = TRUE]
  /\ UNCHANGED <<window, screen, tasks>>

WindowNext ==
  \/ \E due \in BOOLEAN, sent \in SUBSET Answers : Frame(due, sent, BOOLEAN)
  \/ Toggle \/ Open \/ CloseButton \/ Stop
  \/ FirstScan \/ NextScan \/ CancelScan \/ TurnPage \/ WatchResult \/ EditWatches \/ EditMemory
  \/ ListAll \/ PressSpeed \/ SelectTab
  \/ ControlThread \/ Disassemble \/ EditBreakpoints
  \/ \E t \in tasks : Run(t)
  \/ Other

WindowSpec == WindowInit /\ [][WindowNext]_windowVars

(***************************************************************************)
(* Properties                                                              *)
(***************************************************************************)

\* A command is pending as long as it, or its answer, is under way, and never twice;
\* of first and next scans there is never more than one.
OneOfAKind ==
  LET taken == {t.kind : t \in tasks}
  IN  /\ thread = "open" => view.pending = taken
      /\ Cardinality(tasks) = Cardinality(taken)
      /\ ~({"FirstScan", "NextScan"} \subseteq taken)

\* The user may hide a window and not end it; stop() ends it within two frames,
\* whenever it comes, before the window is there included.
Ended ==
  /\ thread = "closed" => shutdown \/ view.tab = "none"
  /\ late <= 2

\* A window that waits for nothing shows what is so, unless a request for news was
\* dropped because one of its kind was on its way, failed, or another client did it.
Told ==
  thread = "open" /\ view.pending = {} /\ ~view.missed =>
    IF window = "debugger" THEN view.paused = world.paused
    ELSE /\ view.watches = world.ids
         /\ view.summary # 0 => view.results = view.summary * 10 + view.page

WindowsObey == OneOfAKind /\ Ended /\ Told

=============================================================================
