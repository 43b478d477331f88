------------------------------- MODULE EventFeed -------------------------------
(***************************************************************************)
(* The debugger's event feed.  Game threads push events from inside the    *)
(* exception handler into a ring without locks; the debugger window polls  *)
(* it with a cursor.  An event is known by its sequence number, and what a *)
(* slot holds by the number of the event that stored it: `where` for its   *)
(* thread and address, `what` for its kind and debug register.             *)
(***************************************************************************)
EXTENDS Naturals, Sequences

CONSTANTS
  GameThreads, \* game threads that hit breakpoints
  Capacity,    \* slots of the ring
  Limit,       \* events a poll may return
  MaxEvents    \* bound: events pushed

ASSUME FeedAssumption ==
  Capacity \in Nat \ {0} /\ Limit \in Nat \ {0} /\ MaxEvents \in Nat

VARIABLES
  next,        \* next_sequence: the last number given out
  slots,
  push,        \* the push each thread is in
  poll,        \* the DebuggerEvents command of the window
  status,      \* its DebuggerStatus command, once answered: the latest number
  cursor,      \* last_event_sequence
  shown,       \* the events the window received
  overlapped   \* a push was overtaken by a whole turn of the ring

feedVars == <<next, slots, push, poll, status, cursor, shown, overlapped>>

SlotOf(s) == ((s - 1) % Capacity) + 1

Larger(a, b) == IF a >= b THEN a ELSE b

NoPush == [at |-> "out", sequence |-> 0]

\* `owed` are the events the poll ought to find: published when it began.
NoPoll == [at |-> "none", sequence |-> 0, until |-> 0, latest |-> 0, what |-> 0,
           taken |-> <<>>, owed |-> {}]

FeedInit ==
  /\ next = 0
  /\ slots = [i \in 1 .. Capacity |-> [sequence |-> 0, where |-> 0, what |-> 0]]
  /\ push = [t \in GameThreads |-> NoPush]
  /\ poll = NoPoll
  /\ status = <<>>
  /\ cursor = 0
  /\ shown = <<>>
  /\ overlapped = FALSE

-----------------------------------------------------------------------------
(* EventRing::push *)

\* The number is taken first, whatever still goes on in its slot.
Claim(t) ==
  /\ push[t].at = "out" /\ next < MaxEvents
  /\ next' = next + 1
  /\ push' = [push EXCEPT ![t] = [at |-> "where", sequence |-> next + 1]]
  /\ overlapped' = (overlapped \/ \E u \in GameThreads :
                      push[u].at # "out" /\ SlotOf(push[u].sequence) = SlotOf(next + 1))
  /\ UNCHANGED <<slots, poll, status, cursor, shown>>

\* Fault: the number is published before the event is stored.
StoreEarly(t) ==
  LET i == SlotOf(push[t].sequence) IN
  /\ push[t].at \in {"where", "what"}
  /\ IF push[t].at = "where"
       THEN /\ slots' = [slots EXCEPT ![i].where = push[t].sequence, ![i].sequence = push[t].sequence]
            /\ push' = [push EXCEPT ![t].at = "what"]
       ELSE /\ slots' = [slots EXCEPT ![i].what = push[t].sequence]
            /\ push' = [push EXCEPT ![t].at = "publish"]
  /\ UNCHANGED <<next, poll, status, cursor, shown, overlapped>>

Store(t) ==
  LET i == SlotOf(push[t].sequence) IN
  /\ push[t].at \in {"where", "what"}
  /\ IF push[t].at = "where"
       THEN /\ slots' = [slots EXCEPT ![i].where = push[t].sequence]
            /\ push' = [push EXCEPT ![t].at = "what"]
       ELSE /\ slots' = [slots EXCEPT ![i].what = push[t].sequence]
            /\ push' = [push EXCEPT ![t].at = "publish"]
  /\ UNCHANGED <<next, poll, status, cursor, shown, overlapped>>

Publish(t) ==
  /\ push[t].at = "publish"
  /\ slots' = [slots EXCEPT ![SlotOf(push[t].sequence)].sequence = push[t].sequence]
  /\ push' = [push EXCEPT ![t] = NoPush]
  /\ UNCHANGED <<next, poll, status, cursor, shown, overlapped>>

-----------------------------------------------------------------------------
(* The DebuggerEvents command: EventRing::read, then the latest number. *)

\* Fault: the oldest slot of a full ring is passed over.
OldestLate(latest) == Larger(latest - Capacity + 2, 1)

\* The oldest number the ring can still hold.
Oldest(latest) == IF latest < Capacity THEN 1 ELSE latest - Capacity + 1

\* poll_events, one at a time; the cursor goes with the command.
BeginPoll ==
  /\ poll.at = "none"
  /\ poll' = [NoPoll EXCEPT !.at = "begin", !.sequence = cursor + 1]
  /\ UNCHANGED <<next, slots, push, status, cursor, shown, overlapped>>

\* A command the pool or the policy refuses.
PollFails ==
  /\ poll.at = "begin"
  /\ poll' = NoPoll
  /\ UNCHANGED <<next, slots, push, status, cursor, shown, overlapped>>

ReadLatest ==
  /\ poll.at = "begin"
  /\ LET first == Larger(poll.sequence, Oldest(next)) IN
     poll' = [poll EXCEPT !.at = "look", !.until = next, !.sequence = first,
                !.owed = {s \in poll.sequence .. next : slots[SlotOf(s)].sequence = s}]
  /\ UNCHANGED <<next, slots, push, status, cursor, shown, overlapped>>

\* A slot that does not hold the number is passed over.
Look ==
  /\ poll.at = "look"
  /\ poll' =
       IF poll.sequence > poll.until \/ Len(poll.taken) >= Limit
         THEN [poll EXCEPT !.at = "latest"]
         ELSE IF slots[SlotOf(poll.sequence)].sequence = poll.sequence
                THEN [poll EXCEPT !.at = "what"]
                ELSE [poll EXCEPT !.sequence = @ + 1]
  /\ UNCHANGED <<next, slots, push, status, cursor, shown, overlapped>>

ReadWhat ==
  /\ poll.at = "what"
  /\ poll' = [poll EXCEPT !.at = "where", !.what = slots[SlotOf(poll.sequence)].what]
  /\ UNCHANGED <<next, slots, push, status, cursor, shown, overlapped>>

ReadWhere ==
  /\ poll.at = "where"
  /\ poll' = [poll EXCEPT !.at = "look", !.sequence = @ + 1,
                !.taken = Append(@, [sequence |-> poll.sequence, what |-> poll.what,
                                     where |-> slots[SlotOf(poll.sequence)].where])]
  /\ UNCHANGED <<next, slots, push, status, cursor, shown, overlapped>>

AnswerPoll ==
  /\ poll.at = "latest"
  /\ poll' = [poll EXCEPT !.at = "answered", !.latest = next]
  /\ UNCHANGED <<next, slots, push, status, cursor, shown, overlapped>>

\* Fault: the cursor moves by as many events as came.
ReceiveEventsCounted ==
  /\ poll.at = "answered"
  /\ cursor' = cursor + Len(poll.taken)
  /\ shown' = shown \o poll.taken
  /\ poll' = NoPoll
  /\ UNCHANGED <<next, slots, push, status, overlapped>>

\* The window takes the answer; the cursor only moves forward.
ReceiveEvents ==
  /\ poll.at = "answered"
  /\ cursor' = Larger(cursor, poll.latest)
  /\ shown' = shown \o poll.taken
  /\ poll' = NoPoll
  /\ UNCHANGED <<next, slots, push, status, overlapped>>

-----------------------------------------------------------------------------
(* The DebuggerStatus command, which the window sends after others. *)

AnswerStatus ==
  /\ status = <<>>
  /\ status' = <<next>>
  /\ UNCHANGED <<next, slots, push, poll, cursor, shown, overlapped>>

ReceiveStatus ==
  /\ status # <<>>
  /\ cursor' = Larger(cursor, status[1])
  /\ status' = <<>>
  /\ UNCHANGED <<next, slots, push, poll, shown, overlapped>>

Poll == BeginPoll \/ PollFails \/ ReadLatest \/ Look \/ ReadWhat \/ ReadWhere
          \/ AnswerPoll \/ ReceiveEvents

FeedNext ==
  \/ \E t \in GameThreads : Claim(t) \/ Store(t) \/ Publish(t)
  \/ Poll
  \/ AnswerStatus \/ ReceiveStatus

FeedSpec == FeedInit /\ [][FeedNext]_feedVars

-----------------------------------------------------------------------------
(* Properties *)

Received == {shown[i] : i \in DOMAIN shown} \cup {poll.taken[i] : i \in DOMAIN poll.taken}

\* The window never receives an event twice or out of order, though answers of
\* polls and of status requests overtake each other.  Unless a push takes so long
\* that the ring turns over it, an event that mixes two pushes is one the ring was
\* already losing.
InOrderAndWhole ==
  /\ \A i, j \in DOMAIN shown : i < j => shown[i].sequence < shown[j].sequence
  /\ ~overlapped =>
       \A e \in Received :
         (e.where = e.sequence /\ e.what = e.sequence) \/ e.sequence + Capacity <= next

\* A poll below its limit returns every event that was published when it began
\* and was not overwritten meanwhile, unless a push took that long.
NothingPassedOver ==
  (poll.at \in {"latest", "answered"} /\ Len(poll.taken) < Limit /\ ~overlapped) =>
    \A s \in poll.owed :
      \/ \E i \in DOMAIN poll.taken : poll.taken[i].sequence = s
      \/ s + Capacity <= next

=============================================================================
