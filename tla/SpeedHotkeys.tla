----------------------------- MODULE SpeedHotkeys -----------------------------
(***************************************************************************)
(* From the keyboard to the session: the worker looks for the game's window *)
(* (speed_window.rs), reads its keys (speed_input_windows.rs), and gives    *)
(* them to the pump and the dispatcher (speed_input.rs, speed_hotkeys.rs)   *)
(* behind the coordinator's session, which other frontends use as well.     *)
(***************************************************************************)
EXTENDS SpeedModel, FiniteSets, SequencesExt

CONSTANTS
  Modifiers, Keys,   \* virtual key codes
  Codes,             \* the codes in increasing order
  Reserved,          \* F10 and Insert
  Configs,           \* profiles: sets of [tokens, action], at most one per action
  Windows,           \* [id, mine, visible, owned, tool, ours]
  Screens,           \* [shown, front]: the windows there are and the foreground one
  None,
  Commands,          \* actions of the other frontends
  Opening,           \* what the session starts from: [enabled, initial, ms]
  MaxClock           \* bound: the last reading of the counter

Chords == [key : Keys, mods : SUBSET Modifiers]

\* Modifiers are told by their codes, and a profile has one action of each kind.
ASSUME HotkeysAssumption ==
  /\ Codes \in Seq(Nat) /\ \A i, j \in DOMAIN Codes : i < j => Codes[i] < Codes[j]
  /\ Keys \cup Modifiers \subseteq ToSet(Codes)
  /\ \A config \in Configs : \A d, e \in config : d.action.kind = e.action.kind => d = e
  /\ None \notin Chords

VARIABLES
  clock, keyed,  \* the counter, and the session that the keys drive
  bindings,    \* the dispatcher's bindings
  active,      \* FocusedWindowEpoch
  input,       \* FocusedInputPump and its dispatcher, whose focus flags move together
  stop, worker,\* the worker thread
  batch,       \* history: what the last sample asked for
  byKey        \* history: the last hold was begun by a key

keyVars == <<clock, keyed, bindings, active, input, stop, worker, batch, byKey>>

(***************************************************************************)
(* SpeedHotkeyConfig::compile                                              *)
(***************************************************************************)

\* parse_chord: modifiers in any order, each once, and a key behind them.
Parse(tokens) ==
  LET n == Len(tokens)
      mods == {tokens[i] : i \in 1 .. n - 1}
  IN  IF n > 0 /\ tokens[n] \in Keys /\ mods \subseteq Modifiers /\ Cardinality(mods) = n - 1
        THEN [key |-> tokens[n], mods |-> mods] ELSE None

\* add_binding, and the checks of a hold.
Compiles(config) ==
  /\ \A e \in config : /\ Parse(e.tokens) # None /\ Parse(e.tokens).key \notin Reserved
                       /\ Accepts(e.action)
  /\ \A d, e \in config : d # e => Parse(d.tokens) # Parse(e.tokens)

Compile(config) == {[chord |-> Parse(e.tokens), action |-> e.action] : e \in config}

\* FocusedInputPump::watched_keys
Watched == IF bindings = {} THEN {} ELSE {b.chord.key : b \in bindings} \cup Modifiers

(***************************************************************************)
(* FocusedInputPump::sample over SpeedHotkeyDispatcher                     *)
(***************************************************************************)

ReleaseAction == [kind |-> "release"]
FocusLost     == [kind |-> "focusLost"]

\* Fault: only its own key ends a hold.
OnKeyIgnoresModifiers(d, key, mods, pressed) ==
  LET bound == {b \in bindings : b.chord = [key |-> key, mods |-> mods]}
  IN  IF d.held # None /\ ~pressed /\ key = d.held.key
        THEN [d EXCEPT !.held = None, !.pressed = @ \ {key}, !.out = Append(@, ReleaseAction)]
      ELSE IF ~pressed THEN [d EXCEPT !.pressed = @ \ {key}]
      ELSE IF key \in d.pressed THEN d
      ELSE [pressed |-> d.pressed \cup {key},
            held    |-> IF \E b \in bound : b.action.kind = "hold" THEN [key |-> key, mods |-> mods] ELSE d.held,
            out     |-> d.out \o SetToSeq({b.action : b \in bound})]

\* on_key: the end of a hold uses the event up; a press counts once.
OnKey(d, key, mods, pressed) ==
  LET bound == {b \in bindings : b.chord = [key |-> key, mods |-> mods]}
  IN  IF d.held # None /\ ((~pressed /\ key = d.held.key) \/ ~(d.held.mods \subseteq mods))
        THEN [held    |-> None,
              pressed |-> d.pressed \ ({d.held.key} \cup (IF pressed THEN {} ELSE {key})),
              out     |-> Append(d.out, ReleaseAction)]
      ELSE IF ~pressed THEN [d EXCEPT !.pressed = @ \ {key}]
      ELSE IF key \in d.pressed THEN d
      ELSE [pressed |-> d.pressed \cup {key},
            held    |-> IF \E b \in bound : b.action.kind = "hold" THEN [key |-> key, mods |-> mods] ELSE d.held,
            out     |-> d.out \o SetToSeq({b.action : b \in bound})]

\* The events of some keys, in the order of the codes.
OnKeys(d, keys, mods, pressed) ==
  LET after[i \in 0 .. Len(Codes)] ==
        IF i = 0 THEN d
        ELSE IF Codes[i] \in keys THEN OnKey(after[i - 1], Codes[i], mods, pressed)
        ELSE after[i - 1]
  IN  after[Len(Codes)]

\* Releases before presses.
Edges(old, new) ==
  LET mods == new \cap Modifiers
      start == [pressed |-> input.pressed, held |-> input.held, out |-> <<>>]
  IN  OnKeys(OnKeys(start, old \ new, mods, FALSE), new \ old, mods, TRUE)

Unfocused == [focused |-> FALSE, previous |-> {}, pressed |-> {}, held |-> None]
NoInput   == [focused |-> FALSE, down |-> {}]

\* Fault: what is down when the focus comes is taken for pressed.
SampleUnseeded(snapshot) ==
  LET down == snapshot.down \cap Watched
      e == Edges(input.previous, down)
  IN  IF ~snapshot.focused
        THEN [input |-> Unfocused, actions |-> IF input.focused THEN <<FocusLost>> ELSE <<>>]
        ELSE [input |-> [focused |-> TRUE, previous |-> down, pressed |-> e.pressed, held |-> e.held],
              actions |-> e.out]

PumpSample(snapshot) ==
  LET down == snapshot.down \cap Watched
      e == Edges(input.previous, down)
  IN  CASE ~snapshot.focused ->
             [input |-> Unfocused, actions |-> IF input.focused THEN <<FocusLost>> ELSE <<>>]
        [] snapshot.focused /\ ~input.focused ->
             [input |-> [Unfocused EXCEPT !.focused = TRUE, !.previous = down], actions |-> <<>>]
        [] OTHER ->
             [input |-> [focused |-> TRUE, previous |-> down, pressed |-> e.pressed, held |-> e.held],
              actions |-> e.out]

(***************************************************************************)
(* The window: choose_unique, the reader and FocusedWindowEpoch::observe   *)
(***************************************************************************)

Eligible(w) == w.id # 0 /\ w.mine /\ w.visible /\ ~w.owned /\ ~w.tool /\ ~w.ours

\* Two windows that could be the game's are as good as none.
Unique(shown) ==
  LET eligible == {w \in shown : Eligible(w)}
  IN  IF Cardinality(eligible) = 1 THEN (CHOOSE w \in eligible : TRUE).id ELSE None

\* WindowsFocusedInput::sample: keys are read in front of the user only.
Read(window, foreground, down) ==
  IF window = foreground THEN [focused |-> TRUE, down |-> down] ELSE NoInput

\* Fault: the keys of another window are taken at once.
ObserveAnyWindow(window, snapshot) ==
  IF window = None \/ ~snapshot.focused
    THEN [active |-> None, snapshot |-> NoInput]
    ELSE [active |-> window, snapshot |-> snapshot]

\* A direct switch shows as one loss of focus.
Observe(window, snapshot) ==
  IF window = None \/ ~snapshot.focused
    THEN [active |-> None, snapshot |-> NoInput]
    ELSE [active |-> window,
          snapshot |-> IF active \in {None, window} THEN snapshot ELSE NoInput]

-----------------------------------------------------------------------------

KeysInit ==
  /\ clock = 0
  /\ keyed = NewSession(Opening.enabled, Opening.initial, Opening.ms, 0)
  /\ \E config \in Configs : Compiles(config) /\ bindings = Compile(config)
  /\ active = None /\ input = Unfocused
  /\ stop = FALSE
  /\ worker = IF bindings = {} THEN "done" ELSE "top"
  /\ batch = <<>> /\ byKey = FALSE

Elapse ==
  /\ clock < MaxClock
  /\ clock' = clock + 1
  /\ UNCHANGED <<keyed, bindings, active, input, stop, worker, batch, byKey>>

\* The executor's other callers.
Command(a) ==
  /\ keyed' = Apply(keyed, clock, a)
  /\ byKey' = (byKey /\ a.kind # "hold")
  /\ UNCHANGED <<clock, bindings, active, input, stop, worker, batch>>

Stop ==
  /\ stop' = TRUE
  /\ UNCHANGED <<clock, keyed, bindings, active, input, worker, batch, byKey>>

Top ==
  /\ worker = "top"
  /\ worker' = IF stop THEN "leave" ELSE "look"
  /\ UNCHANGED <<clock, keyed, bindings, active, input, stop, batch, byKey>>

ApplyAll(s, actions) ==
  LET after[i \in 0 .. Len(actions)] ==
        IF i = 0 THEN s ELSE Apply(after[i - 1], clock, actions[i])
  IN  after[Len(actions)]

\* sample_input: the batch is applied to the preview, and replayed behind it.
\* The hooks may refuse a part of it, after which the fail-safe has its turn.
SampleInput(snapshot, refused) ==
  LET s == PumpSample(snapshot)
      applied == ApplyAll(Poll(keyed, clock), s.actions)
  IN  /\ refused => s.actions # <<>>
      /\ input' = s.input /\ batch' = s.actions
      /\ keyed' = Poll(IF refused THEN Apply(applied, clock, FocusLost) ELSE applied, clock)
      /\ byKey' = (byKey \/ \E i \in DOMAIN s.actions : s.actions[i].kind = "hold")

Tick(screen, down, refused) ==
  LET window == Unique(screen.shown)
      seen == Observe(window, Read(window, screen.front, down))
  IN  /\ worker = "look"
      /\ active' = seen.active
      /\ SampleInput(seen.snapshot, refused)
      /\ worker' = IF refused THEN "leave" ELSE "top"
      /\ UNCHANGED <<clock, bindings, stop>>

\* Fault: the worker just goes.
LeaveAtOnce(refused) ==
  /\ worker = "leave" /\ worker' = "done" /\ ~refused
  /\ UNCHANGED <<clock, keyed, bindings, active, input, stop, batch, byKey>>

\* Whatever ended the loop, the last sample has no focus.
Leave(refused) ==
  /\ worker = "leave" /\ worker' = "done"
  /\ SampleInput(NoInput, refused)
  /\ UNCHANGED <<clock, bindings, active, stop>>

KeysNext ==
  \/ Elapse
  \/ \E a \in Commands : Command(a)
  \/ Stop \/ Top
  \/ \E screen \in Screens, down \in SUBSET Watched, refused \in BOOLEAN : Tick(screen, down, refused)
  \/ \E refused \in BOOLEAN : Leave(refused)

KeysSpec == KeysInit /\ [][KeysNext]_keyVars

-----------------------------------------------------------------------------

\* A speed that a key holds is in force only while the worker lives and the chord
\* is down, key and modifiers, in the window that has the focus: however the hold
\* ended, by its key, a modifier, another window, a refusal or the worker's end,
\* the session was told.
HoldBelongsToKey ==
  (byKey /\ keyed.controls.held # NoRate) =>
    /\ worker # "done" /\ input.focused /\ active # None
    /\ input.held # None /\ {input.held.key} \cup input.held.mods \subseteq input.previous

\* Through the window's epoch, the pump and the dispatcher, exactly the edges the
\* user made become actions: none twice, none lost, none from another window.
K == INSTANCE Keyboard WITH
       window <- IF input.focused THEN active ELSE None,
       down <- input.previous, chord <- input.held

ImplementsKeyboard ==
  K!KInit /\ [][K!KNext]_K!kvars
===============================================================================
