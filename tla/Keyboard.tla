------------------------------- MODULE Keyboard -------------------------------
(***************************************************************************)
(* What the speed keys promise: the user looks at one window at a time, a   *)
(* key counts when it goes down in that window and not before, and the      *)
(* speed that a key holds ends with the key, its modifiers or the window.   *)
(***************************************************************************)
EXTENDS Integers, Sequences, FiniteSets

CONSTANTS
  Modifiers,   \* Ctrl, Alt and Shift
  None         \* no window, no chord

VARIABLES
  bindings,    \* records of a chord (key and modifiers) and its action
  window,      \* the window whose keys count
  down,        \* the keys that were down in it at the last look
  chord,       \* the chord that holds a speed
  batch        \* what the last look asked the session to do

kvars == <<bindings, window, down, chord, batch>>

ReleaseAction == [kind |-> "release"]
FocusLost     == [kind |-> "focusLost"]

KInit == window = None /\ down = {} /\ chord = None /\ batch = <<>>

Lose ==
  /\ batch' = IF window = None THEN <<>> ELSE <<FocusLost>>
  /\ window' = None /\ down' = {} /\ chord' = None

\* Keys that are down already when the window comes to the front do not count.
Gain(w, keys) ==
  /\ window = None
  /\ window' = w /\ down' = keys /\ chord' = None /\ batch' = <<>>

Ended(keys) == chord # None /\ ~({chord.key} \cup chord.mods \subseteq keys)

Started(keys) ==
  {b \in bindings : b.chord.key \in keys \ down /\ b.chord.mods = keys \cap Modifiers}

\* Bindings in the order of their keys.
Orders(B) ==
  {s \in [1 .. Cardinality(B) -> B] : \A i, j \in DOMAIN s : i < j => s[i].chord.key < s[j].chord.key}

Look(keys) ==
  LET holds == {b \in Started(keys) : b.action.kind = "hold"}
  IN  /\ window # None
      /\ \E starts \in Orders(Started(keys)) :
           batch' = (IF Ended(keys) THEN <<ReleaseAction>> ELSE <<>>)
                      \o [i \in DOMAIN starts |-> starts[i].action]
      /\ chord' = CASE holds # {} -> (CHOOSE b \in holds : TRUE).chord
                    [] holds = {} /\ Ended(keys) -> None
                    [] OTHER -> chord
      /\ down' = keys
      /\ UNCHANGED window

\* Any window may come to the front, and any keys may be down in it.
KNext ==
  /\ UNCHANGED bindings
  /\ Lose \/ (window' # None /\ Gain(window', down')) \/ Look(down')
===============================================================================
