----------------------------- MODULE ProfileLaunch -----------------------------
(***************************************************************************)
(* From the speed policy of the user to a game that runs with it:           *)
(* profile-export resolves the policy for one game into a file of its own,  *)
(* profile-launch checks that file, the policy, the program and the         *)
(* environment one after the other, hands the file's path to `bottles-cli   *)
(* run`, and the DLL in the game reads the file again.  Nothing is locked:  *)
(* others may change any of them between two steps.                         *)
(***************************************************************************)
EXTENDS Integers, Sequences, SequencesExt, Functions, TLC

CONSTANTS
  Policies,       \* contents the policy file may have
  Inventories,    \* what Bottles may say of the bottle
  Libraries,      \* lists of registered programs
  CommandLines,        \* command lines of profile-launch
  BottleKey,      \* bottle_key: the identity of each valid bottle name
  PathKey,        \* game_path_key: the identity of each valid path
  Normal,         \* the speed 1x
  Absent, Garbage,\* a file that is not there, or that does not parse
  MaxEdits,       \* bound: changes by others
  MaxLaunches     \* bound: runs of profile-launch

\* What a rule or a layer sets, and what it leaves to the one below.
Over(top, base) ==
  [f \in DOMAIN top \cup DOMAIN base |-> IF f \in DOMAIN top THEN top[f] ELSE base[f]]

Settings ==
  [enabled : BOOLEAN, initial : Nat, min : Nat, max : Nat, startup : Nat, steps : Seq(Nat)]
Hotkeys == [hold : Nat]
\* A profile for one game has no rules.
SingleGame == [version : Nat, speed : Settings, hotkeys : Hotkeys, bottles : {<<>>}, games : {<<>>}]

Rules(list, p) ==
  /\ DOMAIN list = 1 .. Len(list) /\ Len(list) \in Nat
  /\ \A i \in DOMAIN list : list[i].exclude \in BOOLEAN /\ Over(list[i].speed, p.speed) \in Settings

ASSUME LaunchAssumption ==
  /\ Absent \notin SingleGame /\ Garbage \notin SingleGame
  /\ \A p \in Policies \ {Absent, Garbage} :
       /\ p.version \in Nat /\ p.speed \in Settings /\ p.hotkeys \in Hotkeys
       /\ Rules(p.bottles, p) /\ Rules(p.games, p)
  /\ CommandLines # {}
  /\ CommandLines \subseteq
       [offline : BOOLEAN, launch : BOOLEAN, bottle : STRING, path : STRING, program : STRING,
        timers : BOOLEAN, hud : BOOLEAN, managed : BOOLEAN, hudConfig : BOOLEAN,
        host : SUBSET STRING]
  \* A variable that Bottles or a program sets is theirs.
  /\ \A i \in Inventories : \A v \in DOMAIN i.explicit : i.explicit[v] = "theirs"
  /\ \A l \in Libraries : \A n \in DOMAIN l : \A v \in DOMAIN l[n].env : l[n].env[v] = "theirs"

VARIABLES
  policy, profile,\* contents of the two files
  plain,          \* no link lies on the way to the bottle, its C: drive and the profile
  hudOurs,        \* MangoHud.conf is the file the marker vouches for
  inventory,      \* what Bottles knows of the bottle
  library,        \* its registered programs
  choice,         \* command line of the current profile-launch
  step,           \* its next step
  expected,       \* the launch profile it resolved
  ended,         \* how it ended
  game,           \* the started game: its executable and environment
  loaded,         \* what the DLL made of the profile
  export,         \* progress of one profile-export
  selection,      \* the bottle and the executable it is for
  rendered,       \* what it writes
  stale,          \* history: what changed since profile-launch last read it
  exportStale,    \* history: what changed since profile-export read or wrote it
  checked,        \* history: choices a --check accepted, nothing changed since
  edits, launches \* history: how many there were

files == <<policy, profile, plain, hudOurs, inventory, library>>
launch == <<choice, step, expected, ended>>
started == <<game, loaded>>
exporting == <<export, selection, rendered, exportStale>>
bounds == <<edits, launches>>
launchVars == <<files, launch, started, exporting, stale, checked, bounds>>

(***************************************************************************)
(* SpeedSettings::validate, SpeedHotkeyConfig::compile and SpeedOverride:   *)
(* an override is a record of the fields it sets.                          *)
(***************************************************************************)

ValidSettings(s) ==
  /\ s.initial > 0 /\ s.min > 0
  /\ s.min <= Normal /\ Normal <= s.max
  /\ s.initial \in s.min .. s.max
  /\ s.startup <= 60000
  /\ Normal \in ToSet(s.steps) /\ ToSet(s.steps) \subseteq s.min .. s.max
  /\ \A i \in 2 .. Len(s.steps) : s.steps[i - 1] < s.steps[i]

\* A held key selects one of the steps; without one, hold is 0.
Compile(hotkeys, s) == hotkeys.hold # 0 => hotkeys.hold \in ToSet(s.steps)
Usable(p, s) == ValidSettings(s) /\ Compile(p.hotkeys, s)

NoRule == [exclude |-> FALSE, speed |-> <<>>]
FirstOf(rules, fitting) == IF fitting = {} THEN NoRule ELSE rules[Min(fitting)]

MatchedBottle(p, bottle) ==
  FirstOf(p.bottles, {i \in DOMAIN p.bottles : BottleKey[p.bottles[i].name] = BottleKey[bottle]})
MatchedGame(p, bottle, path) ==
  FirstOf(p.games, {i \in DOMAIN p.games : /\ BottleKey[p.games[i].bottle] = BottleKey[bottle]
                                            /\ PathKey[p.games[i].path] = PathKey[path]})

\* Fault: the bottle's rule is applied after the game's.
EffectiveBottleLast(p, bottle, path) ==
  Over(MatchedBottle(p, bottle).speed, Over(MatchedGame(p, bottle, path).speed, p.speed))

\* What global settings, bottle rule and game rule make together.
EffectiveSpeed(p, bottle, path) ==
  Over(MatchedGame(p, bottle, path).speed, Over(MatchedBottle(p, bottle).speed, p.speed))

DistinctRules(p) ==
  /\ \A r \in ToSet(p.bottles) : r.name \in DOMAIN BottleKey
  /\ \A r \in ToSet(p.games) : r.bottle \in DOMAIN BottleKey /\ r.path \in DOMAIN PathKey
  /\ \A i, j \in DOMAIN p.bottles :
       BottleKey[p.bottles[i].name] = BottleKey[p.bottles[j].name] => i = j
  /\ \A i, j \in DOMAIN p.games :
       /\ BottleKey[p.games[i].bottle] = BottleKey[p.games[j].bottle]
       /\ PathKey[p.games[i].path] = PathKey[p.games[j].path]
       => i = j

ValidateOverrides(p) ==
  /\ DistinctRules(p)
  /\ \A r \in ToSet(p.bottles) : Usable(p, Over(r.speed, p.speed))
  /\ \A r \in ToSet(p.games) : Usable(p, Over(r.speed, Over(MatchedBottle(p, r.bottle).speed, p.speed)))

Parses(file) ==
  /\ file \notin {Absent, Garbage}
  /\ file.version = 1 /\ Usable(file, file.speed) /\ ValidateOverrides(file)

\* resolve_for succeeds.
Resolves(file, bottle, path) ==
  /\ Parses(file) /\ bottle \in DOMAIN BottleKey /\ path \in DOMAIN PathKey
  /\ Usable(file, EffectiveSpeed(file, bottle, path))

Excluded(p, bottle, path) == MatchedBottle(p, bottle).exclude \/ MatchedGame(p, bottle, path).exclude

\* Fault: an exclusion only sets the default, and a rule may enable speed again.
ResolvedRevived(p, bottle, path) ==
  [version |-> p.version, speed |-> EffectiveSpeed(p, bottle, path), hotkeys |-> p.hotkeys,
   bottles |-> <<>>, games |-> <<>>]

ResolvedLaunchProfile(p, bottle, path) ==
  [version |-> p.version,
   speed |-> [EffectiveSpeed(p, bottle, path) EXCEPT !.enabled = @ /\ ~Excluded(p, bottle, path)],
   hotkeys |-> p.hotkeys, bottles |-> <<>>, games |-> <<>>]

\* load_preview_profile: how the DLL takes a file.
LoadPreview(file) ==
  IF ~Parses(file) \/ file.bottles \o file.games # <<>> THEN "refused"
  ELSE IF file.speed.enabled THEN "enabled" ELSE "disabled"

(***************************************************************************)
(* The environment: a variable that Bottles or the registered program sets  *)
(* is theirs, one that was set before the command is the user's.            *)
(***************************************************************************)

If(condition, set) == IF condition THEN set ELSE {}
Hud == {"mangohud", "telemetry"}
ManagedHud(c) == c.managed \/ c.hudConfig

\* Variables the launch sets, and those it takes away.
Sets(c) == {"profile"} \cup If(c.timers, {"timers"}) \cup If(c.hud, Hud)
             \cup If(ManagedHud(c), {"configFile"})

\* Fault: a variable of the user's shell reaches the game.
RemovesNothing(c) == {}
Removes(c) == {"timers"} \cup If(ManagedHud(c), {"config"})

HandedOver(c) ==
  [v \in Sets(c) \cup (c.host \ Removes(c)) |-> IF v \in Sets(c) THEN "ours" ELSE "user"]

\* External: Bottles restricts what is inherited, then adds its own and the program's.
Environment(c, i, program) ==
  Over(program.env, Over(i.explicit,
    Restrict(HandedOver(c), {v \in DOMAIN HandedOver(c) : i.limited => i.inherited[v] > 0})))

\* Fault: a list that limits what is inherited is not looked at.
BottleAcceptsAny(i, v) == v \notin DOMAIN i.explicit

\* verify_named_bottle_environment
BottleAccepts(i, v) == v \notin DOMAIN i.explicit /\ (i.limited => i.inherited[v] = 1)

Registered(name) == {n \in DOMAIN library : library[n].name = name}

\* verify_registered_program and the checks of its environment.
ProgramAccepted(c) ==
  \E n \in DOMAIN library :
    /\ Registered(c.program) = {n}
    /\ library[n].path \in DOMAIN PathKey /\ PathKey[library[n].path] = PathKey[c.path]
    /\ DOMAIN library[n].env \cap (Sets(c) \cup If(ManagedHud(c), {"config"})) = {}

InventoryAccepted(c) ==
  /\ c.bottle \in inventory.names
  /\ \A v \in Sets(c) : BottleAccepts(inventory, v)
  /\ ManagedHud(c) => "config" \notin DOMAIN inventory.explicit

(***************************************************************************)
(* profile-launch                                                          *)
(***************************************************************************)

\* ProfileLaunchOptions::parse
Accepted(c) ==
  /\ c.offline /\ c.path \in DOMAIN PathKey
  /\ c.hudConfig => c.hud
  /\ c.managed => c.hud /\ ~c.hudConfig

End(how) == step' = "idle" /\ ended' = how

Selected(c) == [bottle |-> c.bottle, path |-> c.path]
NoGame == [path |-> "none", env |-> <<>>, changed |-> {}]
Others == <<files, started, exporting, checked, bounds>>

LaunchInit ==
  /\ policy \in Policies /\ profile \in {Absent, policy}
  /\ plain = TRUE /\ hudOurs = TRUE
  /\ inventory \in Inventories /\ library \in Libraries
  /\ choice = (CHOOSE c \in CommandLines : TRUE) /\ step = "idle" /\ expected = Absent /\ ended = "none"
  /\ game = NoGame /\ loaded = "no"
  /\ export = "idle" /\ selection \in {Selected(c) : c \in CommandLines} /\ rendered = Absent
  /\ stale = {} /\ exportStale = {} /\ checked = {}
  /\ edits = 0 /\ launches = 0

BeginLaunch(c) ==
  /\ step = "idle" /\ game = NoGame /\ launches < MaxLaunches
  /\ choice' = c /\ launches' = launches + 1 /\ expected' = Absent
  /\ IF Accepted(c) THEN step' = "locate" /\ ended' = "running" ELSE End("arguments")
  /\ UNCHANGED <<files, started, exporting, stale, checked, edits>>

\* One check: what is read now, the next step if it is as it should be, the refusal if not.
Examine(what, accepted, to, refusal) ==
  /\ IF accepted THEN step' = to /\ UNCHANGED ended ELSE End(refusal)
  /\ stale' = stale \ {what}
  /\ UNCHANGED choice /\ UNCHANGED Others

\* verify_bottle_profile_path: the bottle, its prefix, the way to the profile ...
Locate ==
  /\ step = "locate"
  /\ Examine("plain", plain /\ profile # Absent /\ choice.bottle \in inventory.names,
             "enabled", "place")
  /\ UNCHANGED expected

\* ... and whether it is enabled.
ReadEnabled ==
  /\ step = "enabled"
  /\ Examine("profile", LoadPreview(profile) = "enabled", "policy", "disabled")
  /\ UNCHANGED expected

ReadPolicy ==
  /\ step = "policy"
  /\ LET accepted == Resolves(policy, choice.bottle, choice.path)
         resolved == IF accepted THEN ResolvedLaunchProfile(policy, choice.bottle, choice.path)
                                 ELSE Absent
     IN /\ Examine("policy", accepted /\ resolved.speed.enabled, "delivered", "policy")
        /\ expected' = resolved

\* Fault: any enabled profile will do.
MatchesAny == LoadPreview(profile) = "enabled"

MatchesPolicy ==
  /\ LoadPreview(profile) = "enabled"
  /\ profile.speed = expected.speed /\ profile.hotkeys = expected.hotkeys

ReadDelivered ==
  /\ step = "delivered"
  /\ Examine("profile", MatchesPolicy, "programs", "differs")
  /\ UNCHANGED expected

ReadPrograms ==
  /\ step = "programs"
  /\ Examine("library", ProgramAccepted(choice), "hud", "program")
  /\ UNCHANGED expected

\* verified_managed_mangohud_config
ReadHud ==
  /\ step = "hud"
  /\ Examine("hud", ManagedHud(choice) => hudOurs, "inventory", "hud")
  /\ UNCHANGED expected

ReadInventory ==
  /\ step = "inventory"
  /\ Examine("inventory", InventoryAccepted(choice), "ready", "environment")
  /\ UNCHANGED expected

\* A choice without the word that says whether to launch.
Asked(c) == [c EXCEPT !.launch = TRUE]

\* --check: everything was verified, nothing is run.
Report ==
  /\ step = "ready" /\ ~choice.launch /\ End("checked")
  /\ checked' = IF stale = {} THEN checked \cup {Asked(choice)} ELSE checked
  /\ UNCHANGED <<files, started, exporting, choice, expected, stale, bounds>>

\* bottles-cli run starts the program it knows by that name now, ...
RunStarts ==
  /\ step = "ready" /\ choice.launch /\ Registered(choice.program) # {}
  /\ step' = "run"
  /\ \E n \in Registered(choice.program) :
       game' = [path |-> library[n].path, env |-> Environment(choice, inventory, library[n]),
                changed |-> stale \cap {"library", "inventory"}]
  /\ UNCHANGED <<files, choice, expected, ended, loaded, exporting, stale, checked, bounds>>

\* ... or nothing at all; and the command tells how it ended.
RunEnds ==
  /\ \/ step = "run" /\ \E how \in {"launched", "failed"} : End(how)
     \/ step = "ready" /\ choice.launch /\ End("failed")
  /\ UNCHANGED <<choice, expected, stale>> /\ UNCHANGED Others

\* wrap_explicit_preview_from_env, in the game.  A profile that others name, or
\* that a link leads away from, is some other file.
GameLoads ==
  /\ game # NoGame /\ loaded = "no"
  /\ loaded' = IF "profile" \notin DOMAIN game.env THEN "unconfigured"
               ELSE IF game.env["profile"] # "ours" \/ ~plain THEN "other"
               ELSE IF LoadPreview(profile) = "enabled" THEN "configured" ELSE "blocked"
  /\ UNCHANGED <<files, launch, game, exporting, stale, checked, bounds>>

(***************************************************************************)
(* profile-export                                                          *)
(***************************************************************************)

ExportReads ==
  /\ export = "idle"
  /\ IF Resolves(policy, selection.bottle, selection.path)
       THEN /\ export' = "resolved" /\ exportStale' = {}
            /\ rendered' = ResolvedLaunchProfile(policy, selection.bottle, selection.path)
       ELSE export' = "refused" /\ UNCHANGED <<rendered, exportStale>>
  /\ UNCHANGED selection
  /\ UNCHANGED <<files, launch, started, stale, checked, bounds>>

\* create_new: an existing file is never written over.
ExportCreates ==
  /\ export = "resolved"
  /\ IF profile = Absent
       THEN /\ export' = "created" /\ profile' = Garbage
            /\ stale' = stale \cup {"profile"} /\ checked' = {}
       ELSE export' = "refused" /\ UNCHANGED <<profile, stale, checked>>
  /\ UNCHANGED <<policy, plain, hudOurs, inventory, library, launch, started, rendered,
                 selection, exportStale, bounds>>

\* The whole text; without it (a full disk, a killed command) the empty file stays.
ExportWrites(whole) ==
  /\ export = "created"
  /\ export' = IF whole THEN "done" ELSE "failed"
  /\ IF whole /\ "profile" \notin exportStale
       THEN profile' = rendered /\ stale' = stale \cup {"profile"} /\ checked' = {}
       ELSE UNCHANGED <<profile, stale, checked>>
  /\ UNCHANGED <<policy, plain, hudOurs, inventory, library, launch, started, rendered,
                 selection, exportStale, bounds>>

(***************************************************************************)
(* Others: a file is replaced, Bottles is configured anew.                 *)
(***************************************************************************)

Changed(what) ==
  /\ edits < MaxEdits /\ edits' = edits + 1
  /\ stale' = stale \cup {what} /\ checked' = {}
  /\ exportStale' = exportStale \cup {what}
  /\ UNCHANGED <<launch, started, export, selection, rendered, launches>>

Edit ==
  \/ /\ Changed("policy") /\ \E p \in Policies \ {policy} : policy' = p
     /\ UNCHANGED <<profile, plain, hudOurs, inventory, library>>
  \/ /\ Changed("profile")
     /\ \E f \in {Absent, Garbage, policy, rendered} \ {profile} : profile' = f
     /\ UNCHANGED <<policy, plain, hudOurs, inventory, library>>
  \/ /\ Changed("plain") /\ plain' = ~plain
     /\ UNCHANGED <<policy, profile, hudOurs, inventory, library>>
  \/ /\ Changed("hud") /\ hudOurs' = ~hudOurs
     /\ UNCHANGED <<policy, profile, plain, inventory, library>>
  \/ /\ Changed("inventory") /\ \E i \in Inventories \ {inventory} : inventory' = i
     /\ UNCHANGED <<policy, profile, plain, hudOurs, library>>
  \/ /\ Changed("library") /\ \E l \in Libraries \ {library} : library' = l
     /\ UNCHANGED <<policy, profile, plain, hudOurs, inventory>>

LaunchNext ==
  \/ \E c \in CommandLines : BeginLaunch(c)
  \/ Locate \/ ReadEnabled \/ ReadPolicy \/ ReadDelivered \/ ReadPrograms \/ ReadHud
  \/ ReadInventory \/ Report \/ RunStarts \/ RunEnds \/ GameLoads
  \/ ExportReads \/ ExportCreates \/ \E whole \in BOOLEAN : ExportWrites(whole)
  \/ Edit

LaunchSpec == LaunchInit /\ [][LaunchNext]_launchVars

(***************************************************************************)
(* Properties                                                              *)
(***************************************************************************)

\* A game starts as it was asked for if neither its registration nor the bottle
\* changed after the launch read them: that executable, every variable of the
\* launch as the launch set it, startup timers only on request or where Bottles
\* itself sets them, and no other HUD configuration beside the verified one.
StartsAsAsked ==
  game # NoGame /\ game.changed = {} =>
    /\ PathKey[game.path] = PathKey[choice.path]
    /\ \A v \in Sets(choice) : v \in DOMAIN game.env /\ game.env[v] = "ours"
    /\ "timers" \in DOMAIN game.env /\ ~choice.timers => game.env["timers"] = "theirs"
    /\ ManagedHud(choice) => "config" \notin DOMAIN game.env

\* If nothing changed after it was read, the game runs with what the user's rules
\* say of it: no rule excludes it, and the most specific rule that sets a value wins.
RunsWithPolicy ==
  game # NoGame /\ loaded # "no" /\ game.changed = {} /\ stale \cap {"policy", "profile", "plain"} = {} =>
    /\ loaded = "configured"
    /\ profile.speed.enabled /\ profile.hotkeys = policy.hotkeys
    /\ \A r \in ToSet(policy.games) :
         (BottleKey[r.bottle] = BottleKey[choice.bottle] /\ PathKey[r.path] = PathKey[choice.path]) =>
            ~r.exclude /\ \A f \in DOMAIN r.speed : profile.speed[f] = r.speed[f]
    /\ \A r \in ToSet(policy.bottles) : BottleKey[r.name] = BottleKey[choice.bottle] => ~r.exclude

\* What profile-export writes is taken: a launch of the same game is never refused
\* because its profile differs, unless the policy or the file changed in between.
ExportsWhatLaunchTakes ==
  export = "done" /\ exportStale = {} /\ stale = {} /\ selection = Selected(choice) =>
    ended # "differs"

\* What --check accepted, --launch does not refuse before something changed.
LaunchesWhatIsChecked ==
  choice \in checked => ended \in {"running", "checked", "launched", "failed"}

LaunchTrue ==
  StartsAsAsked /\ RunsWithPolicy /\ ExportsWhatLaunchTakes /\ LaunchesWhatIsChecked

=============================================================================
