---------------------------- MODULE MCSpeedExecutor ----------------------------
(* The command executor in the game, and the launch that gives the game its profile.   *)
(* The two share no state: a behaviour is one of the first or one of the second, and    *)
(* the other stands still.                                                             *)
(* Rates 1x, 3/2 and 2x over Unit = 2.  One input sample may release a hold and press  *)
(* another key, or lose the focus after a release.                                     *)
EXTENDS SpeedExecutor, ProfileLaunch

Select(r) == [kind |-> "select", rate |-> r]
Hold(r)   == [kind |-> "hold", rate |-> r, ms |-> 1]
Plainly(k) == [kind |-> k]

AllCommands ==
  {Plainly(k) : k \in {"increase", "decrease", "toggle", "reset", "release", "focusLost"}}
    \cup {Select(3), Select(4), Select(5), Hold(4)}

Keys == {<<Plainly("release"), Plainly("toggle")>>, <<Plainly("release"), Plainly("focusLost")>>}

(* The launch: five policies (a game that is enabled by its rule alone; rules that     *)
(* disagree, beside one that excludes another game; an excluded bottle; one bottle     *)
(* named twice; a rule whose steps lack the one a hotkey selects), a bottle that lets  *)
(* everything through, one that limits what is inherited and does not name the timers, *)
(* two that set a variable themselves, and one that is gone.                           *)
VARIABLE subject

Speed == [enabled |-> TRUE, initial |-> 2, min |-> 1, max |-> 4, startup |-> 0,
          steps |-> <<1, 2, 4>>]
Policy(speed, bottles, games) ==
  [version |-> 1, speed |-> speed, hotkeys |-> [hold |-> 4], bottles |-> bottles, games |-> games]
BottleRule(name, exclude, speed) == [name |-> name, exclude |-> exclude, speed |-> speed]
GameRule(path, exclude, speed) ==
  [bottle |-> "Games", path |-> path, exclude |-> exclude, speed |-> speed]

SomePolicies == {
  Policy([Speed EXCEPT !.enabled = FALSE], <<>>, <<GameRule("c:/g", FALSE, [enabled |-> TRUE])>>),
  Policy(Speed, <<BottleRule("games", FALSE, [initial |-> 4, startup |-> 5])>>,
         <<GameRule("C:/H", TRUE, <<>>), GameRule("c:/g", FALSE, [initial |-> 1])>>),
  Policy(Speed, <<BottleRule("Games", TRUE, <<>>)>>, <<GameRule("C:/G", FALSE, [enabled |-> TRUE])>>),
  Policy(Speed, <<BottleRule("Games", FALSE, <<>>), BottleRule("games", TRUE, <<>>)>>, <<>>),
  Policy(Speed, <<>>, <<GameRule("C:/G", FALSE, [steps |-> <<1, 2>>])>>)}

Names == [n \in {"Games", "games"} |-> "games"]
Paths == [p \in {"C:/G", "c:/g", "C:/H"} |-> IF p = "C:/H" THEN "h" ELSE "g"]

Variables == {"profile", "timers", "mangohud", "telemetry", "configFile", "config"}
Bottle(limited, sets) ==
  [names |-> {"Games"}, limited |-> limited, explicit |-> [v \in sets |-> "theirs"],
   inherited |-> [v \in Variables |-> IF v = "timers" THEN 0 ELSE 1]]
SomeInventories == {Bottle(FALSE, {}), Bottle(TRUE, {}), Bottle(FALSE, {"timers"}), Bottle(FALSE, {"config"}), [Bottle(FALSE, {}) EXCEPT !.names = {}]}

Program(name, path, sets) == [name |-> name, path |-> path, env |-> [v \in sets |-> "theirs"]]
SomeLibraries == {
  <<Program("G", "C:/G", {}), Program("H", "C:/H", {})>>,
  <<Program("G", "C:/G", {"profile"})>>,
  <<Program("G", "C:/G", {}), Program("G", "C:/H", {})>>}

PlainLaunch ==
  [offline |-> TRUE, launch |-> TRUE, bottle |-> "Games", path |-> "c:/g", program |-> "G",
   timers |-> FALSE, hud |-> FALSE, managed |-> FALSE, hudConfig |-> FALSE,
   host |-> {"timers", "config"}]
SomeChoices == {
  PlainLaunch, [PlainLaunch EXCEPT !.launch = FALSE], [PlainLaunch EXCEPT !.timers = TRUE],
  [PlainLaunch EXCEPT !.hud = TRUE, !.managed = TRUE], [PlainLaunch EXCEPT !.managed = TRUE],
  [PlainLaunch EXCEPT !.program = "H"]}

MCInit ==
  /\ subject \in {"executor", "launch"}
  /\ ExecutorInit /\ LaunchInit
  /\ library = <<Program("G", "C:/G", {}), Program("H", "C:/H", {})>>
  /\ subject = "executor" =>
       /\ policy = Policy(Speed, <<>>, <<GameRule("C:/G", FALSE, [steps |-> <<1, 2>>])>>)
       /\ profile = Absent /\ inventory = Bottle(FALSE, {})

MCNext ==
  \/ subject = "executor" /\ ExecutorNext /\ UNCHANGED <<subject, launchVars>>
  \/ subject = "launch" /\ LaunchNext /\ UNCHANGED <<subject, executorVars>>

MCSpec == MCInit /\ [][MCNext]_<<subject, executorVars, launchVars>>
=============================================================================
