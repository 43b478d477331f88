----------------------------- MODULE GameRequests -----------------------------
(***************************************************************************)
(* What a user may ask of a running game (game_attach.rs), the command     *)
(* line the manager gives the helper for it, and what the helper makes of  *)
(* that line (helper.rs).  Rates are in thousandths, as on that line.      *)
(***************************************************************************)
EXTENDS Integers, SequencesExt

CONSTANT NotGiven   \* an option that is absent

Presets == [half |-> 500, normal |-> 1000, double |-> 2000]
Operations == {"increase", "decrease", "toggle", "reset"}
\* The rates in thousandths that both programs let pass; how the user's decimal is
\* read is left out.
MilliRange == 100 .. 10000

(***************************************************************************)
(* The options, and which of them go together                              *)
(***************************************************************************)

\* GameAttachOptions::parse and the head of run_game_action.
Valid(o) ==
  /\ o.offline
  /\ o.four <=> o.action \in {"arm", "rate", "step"}
  /\ o.action = "rate" <=> (o.preset # NotGiven \/ o.milli # 0)
  /\ o.preset = NotGiven \/ o.milli = 0
  /\ o.action = "step" <=> o.step # NotGiven
  /\ o.compare # NotGiven => o.action = "status"
  /\ o.require # NotGiven => o.action = "arm"

(***************************************************************************)
(* The command line                                                        *)
(***************************************************************************)

Four == "--experimental-four-timers"

\* Fault: the consent goes before the rate.
CommandLineConsentFirst(o) ==
  CASE o.action = "attach" -> <<>>
    [] o.action = "stop"   -> <<"--shutdown-only">>
    [] o.action = "status" -> <<"--status-only">>
                              \o IF o.compare = NotGiven THEN <<>> ELSE <<"--include-profile-sha256">>
    [] o.action = "arm"    -> <<"--arm-four-timers-only", Four>>
                              \o IF o.require = NotGiven THEN <<>> ELSE <<"--require-profile-sha256", o.require>>
    [] o.action = "rate"   -> <<Four>> \o IF o.preset # NotGiven THEN <<"--set-game-preset-only", o.preset>>
                                                                  ELSE <<"--set-game-rate-milli-only", o.milli>>
    [] o.action = "step"   -> <<"--step-game-speed-only", o.step, Four>>

\* run_game_action, after the flags that name the game.
CommandLine(o) ==
  CASE o.action = "attach" -> <<>>
    [] o.action = "stop"   -> <<"--shutdown-only">>
    [] o.action = "status" -> <<"--status-only">>
                              \o IF o.compare = NotGiven THEN <<>> ELSE <<"--include-profile-sha256">>
    [] o.action = "arm"    -> <<"--arm-four-timers-only", Four>>
                              \o IF o.require = NotGiven THEN <<>> ELSE <<"--require-profile-sha256", o.require>>
    [] o.action = "rate"   -> (IF o.preset # NotGiven THEN <<"--set-game-preset-only", o.preset>>
                                                      ELSE <<"--set-game-rate-milli-only", o.milli>>) \o <<Four>>
    [] o.action = "step"   -> <<"--step-game-speed-only", o.step, Four>>

Asked(action, arg, digest) == [action |-> action, arg |-> arg, digest |-> digest]
Refused == Asked("refused", NotGiven, NotGiven)

\* run_selected_game: the flags are positional.
Understood(line) ==
  LET flag == IF line = <<>> THEN "" ELSE Head(line)
      rest == IF line = <<>> THEN <<>> ELSE Tail(line)
      acknowledged == Len(rest) = 2 /\ Last(rest) = Four
  IN  CASE line = <<>> -> Asked("attach", NotGiven, NotGiven)
        [] flag = "--shutdown-only" /\ rest = <<>> -> Asked("stop", NotGiven, NotGiven)
        [] flag = "--status-only" /\ rest = <<>> -> Asked("status", NotGiven, NotGiven)
        [] flag = "--status-only" /\ rest = <<"--include-profile-sha256">> ->
             Asked("status", "digest", NotGiven)
        [] flag = "--arm-four-timers-only" /\ rest = <<Four>> -> Asked("arm", NotGiven, NotGiven)
        [] /\ flag = "--arm-four-timers-only" /\ Len(rest) = 3
           /\ rest[1] = Four /\ rest[2] = "--require-profile-sha256" ->
             Asked("arm", NotGiven, rest[3])
        [] flag = "--set-game-preset-only" /\ acknowledged /\ rest[1] \in DOMAIN Presets ->
             Asked("preset", Presets[rest[1]], NotGiven)
        [] flag = "--set-game-rate-milli-only" /\ acknowledged /\ rest[1] \in MilliRange ->
             Asked("rate", rest[1], NotGiven)
        [] flag = "--step-game-speed-only" /\ acknowledged /\ rest[1] \in Operations ->
             Asked("step", rest[1], NotGiven)
        [] OTHER -> Refused

=============================================================================
