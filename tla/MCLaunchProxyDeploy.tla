------------------------- MODULE MCLaunchProxyDeploy -------------------------
(* What a user does to a game's directory before it runs, to the game while it    *)
(* runs, and how the manager finds that game.  They share no state: a behaviour   *)
(* has one subject, and the others stand still.                                   *)
EXTENDS LaunchProxyDeploy, GameSelection, TLC

CONSTANTS t1, t2, v1, v2, c1, c2

VARIABLE subject

(* The game without and with an accepted profile, with protection, with imports  *)
(* that are incomplete and with the proxy's DLL in it; the fixture; another one.  *)
Kind(image, guarded, preloaded, imports, profile) ==
  [image |-> image, x64 |-> TRUE, guarded |-> guarded, preloaded |-> preloaded,
   imports |-> imports, profile |-> profile, digest |-> 71]

AllKinds == {Kind("game", FALSE, "absent", 15, "accepted"), Kind("game", FALSE, "absent", 1000000, "absent"),
             Kind("game", TRUE, "absent", 15, "rejected"), Kind("game", FALSE, "other", 7, "absent"),
             Kind("fixture", FALSE, "absent", 15, "absent"), Kind("other", FALSE, "absent", 15, "absent")}

Wish(action) ==
  [action |-> action, offline |-> TRUE, four |-> action \in {"arm", "rate", "step"}, preset |-> NotGiven,
   milli |-> 0, step |-> NotGiven, compare |-> NotGiven, require |-> NotGiven]

Wishes == {Wish("attach"), Wish("stop"), [Wish("status") EXCEPT !.compare = 71],
           Wish("arm"), [Wish("arm") EXCEPT !.require = 71],
           [Wish("rate") EXCEPT !.preset = "half"], [Wish("rate") EXCEPT !.milli = 1500],
           [Wish("step") EXCEPT !.step = "toggle"], Fixture}

(* A bottle with a runner that Bottles manages, one of Steam, and one that is     *)
(* only listed by its name; a program registered twice; a root with a link in it. *)
Bottle(config, root, programs) ==
  [bottles |-> {"Games"}, config |-> config, root |-> root, programs |-> programs]
Configured(runner, environment, path) == [runner |-> runner, environment |-> environment, path |-> path]
Caffe == Configured("caffe", "Gaming", Unset)

AllLibraries == {Bottle(Caffe, "home", <<"game">>), Bottle(Caffe, "home", <<"game", "GAME">>),
                 Bottle(Configured("proton", "Steam", "steamdir"), "home", <<"other">>),
                 Bottle(Nothing, "home", <<"game">>), Bottle(Caffe, "moved", <<"game">>)}

AllCandidates ==
  {[bottle |-> "Games", prefix |-> Unset, runner |-> "wine", id |-> 1, exe |-> "game"],
   [bottle |-> "Games", prefix |-> "home", runner |-> "proton", id |-> 1, exe |-> "other"]}

Image(path, machine) == [path |-> path, machine |-> machine]
File(machine, imports) == [machine |-> machine, imports |-> imports]

SomeLayout  == [home |-> "bottle", moved |-> "link"]
SteamWine   == [steamdir |-> "proton"]
ManagedWine == [caffe |-> "wine"]
AllImages   == {Image("game", "x64"), Image("other", "x64"), Image("game", "x86"), Image("unix", "x64")}
AllFiles    == {File("x64", 15), File("x64", 7), File("x86", 0)}
FirstDisks  == {[g |-> File("x64", 15), o |-> File("x64", 7)]}
Keys        == [game |-> "g", GAME |-> "g", other |-> "o"]

AllCharacters == {"a", "A", "b", "/", "\\", "?", "*"}
Words(characters, n) == UNION {[1 .. k -> characters] : k \in 1 .. n}

Filter(bottles, programs, notBottles, notPrograms) ==
  [all |-> bottles \o programs = <<>>, bottles |-> bottles, programs |-> programs,
   notBottles |-> notBottles, notPrograms |-> notPrograms]

Patterns == Words({"a", "?", "*", "/", "\\"}, 3)
AllFilters ==
  {Filter(<<>>, <<p>>, <<>>, <<>>) : p \in Patterns} \cup {Filter(<<>>, <<>>, <<>>, <<p>>) : p \in Patterns}
  \cup {Filter(<<p>>, <<<<"*", "a">>>>, <<<<"a", "b">>>>, <<>>) : p \in Words({"a", "*"}, 2)}

AllInventories ==
  {[bottle |-> b, programs |-> <<[name |-> n, executable |-> <<"b">>, path |-> <<"a", "\\", "b">>]>>] :
     n \in Words({"a", "A", "b", "/"}, 3), b \in {<<"a">>, <<"A", "b">>}}

Small == [c \in {"a", "A", "b", "/", "?", "*"} |-> IF c = "A" THEN "a" ELSE c]

MCInit ==
  /\ subject \in {"directory", "game", "candidate", "filters"}
  /\ Init /\ AttachInit /\ MatchInit
  /\ subject # "directory" => disk = Pristine(v1) /\ ~cfgDir /\ seen[t1] = v1
  /\ subject # "game" => target.kind.image = "other"
  /\ subject # "candidate" => /\ library = Bottle(Caffe, "home", <<"game">>)
                              /\ running[1].path = "unix" /\ review.choice.exe = "game"
  /\ IF subject = "filters" THEN SelectionInit
     ELSE /\ filters = Filter(<<>>, <<>>, <<>>, <<<<"a">>>>) /\ plan = Unplanned
          /\ inventory = [bottle |-> <<"a">>, programs |-> <<>>]

MCNext ==
  \/ subject = "directory" /\ Next /\ UNCHANGED <<subject, attachVars, matchVars, svars>>
  \/ subject = "game" /\ AttachNext /\ UNCHANGED <<subject, vars, matchVars, svars>>
  \/ subject = "candidate" /\ MatchNext /\ UNCHANGED <<subject, vars, attachVars, svars>>
  \/ subject = "filters" /\ Plan /\ UNCHANGED <<subject, vars, attachVars, matchVars>>

MCSpec == MCInit /\ [][MCNext]_<<subject, vars, attachVars, matchVars, svars>>

ClientSymmetry == Permutations({c1, c2})
=============================================================================
