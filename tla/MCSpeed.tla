-------------------------------- MODULE MCSpeed --------------------------------
(* The session by itself, and the keys that drive one.  The two share no state: a *)
(* behaviour is one of the first or one of the second, and the other stands still. *)
EXTENDS SpeedPolling, SpeedHotkeys

VARIABLE subject

(* Two keys, one of them behind Ctrl, the game's window, a launcher that could be  *)
(* taken for it, and a window of our own.                                          *)
Window(id, ours) ==
  [id |-> id, mine |-> TRUE, visible |-> TRUE, owned |-> FALSE, tool |-> FALSE, ours |-> ours]

Game == Window(1, FALSE)
Launcher == Window(2, FALSE)
Own == Window(3, TRUE)

AllScreens == {[shown |-> {Game, Own}, front |-> 1], [shown |-> {Game, Own}, front |-> 3],
               [shown |-> {Launcher}, front |-> 2], [shown |-> {Game, Launcher}, front |-> 1]}

Toggles(t) == [tokens |-> t, action |-> [kind |-> "toggle"]]
Holds(t)   == [tokens |-> t, action |-> [kind |-> "hold", rate |-> 4, ms |-> 1]]

Profiles == {{Toggles(<<65>>), Holds(<<17, 72>>)}, {Toggles(<<17, 72>>), Holds(<<72>>)},
             {Toggles(<<65>>), Holds(<<16, 17, 65>>)}, {Toggles(<<16, 17, 65>>), Holds(<<17, 16, 65>>)},
             {Toggles(<<17>>)}, {}}

HoldRequests == {[kind |-> "hold", rate |-> 4, ms |-> 1]}

OrderedCodes == <<16, 17, 65, 72, 121>>
AllWindows == {Game, Launcher, Own}
Start == [enabled |-> Enabled, initial |-> Unit, ms |-> StartupMs]

MCInit ==
  /\ subject \in {"session", "keys"}
  /\ PInit /\ KeysInit
  /\ subject = "session" => bindings = {}

MCNext ==
  \/ subject = "session" /\ PNext /\ UNCHANGED <<subject, keyVars>>
  \/ subject = "keys" /\ KeysNext /\ UNCHANGED <<subject, pollingVars>>

MCSpec == MCInit /\ [][MCNext]_<<subject, pollingVars, keyVars>>
================================================================================
