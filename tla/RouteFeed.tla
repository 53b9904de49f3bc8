------------------------------- MODULE RouteFeed --------------------------------
(***************************************************************************)
(* The sources of the route, as edd_state.c and the Display's README use   *)
(* them: a game that plots, jumps and clears, and EDDiscovery, which files *)
(* the game's events in its journal history and sends three kinds of       *)
(* messages about them.  All of it is outside the repository.              *)
(*                                                                         *)
(* history holds the events in their order; an event's place is its time.  *)
(* A message names events by their place: what it says follows from them.  *)
(***************************************************************************)
EXTENDS Integers, Sequences

CONSTANTS
  Systems,    \* names of star systems
  NoName,     \* the empty text
  Gap,        \* "..", in the place of the middle of a long route
  Routes,     \* what may be plotted: the systems still to visit
  Stray,      \* a system that is targeted off the route
  Listed,     \* the longest route whose summary lists every system
  Late,       \* events that may be filed after a live push or a status about them
  Rows,       \* journal rows in a reply ("length":50)
  MaxEvents,  \* bound on the events of the game
  MaxWire     \* bound on the messages on their way

ASSUME FeedAssumption ==
  /\ NoName \notin Systems /\ Gap \notin Systems /\ NoName # Gap
  /\ Routes \subseteq Seq(Systems) \ {<<>>} /\ Stray \in Systems
  /\ Listed \in Nat \ {0}
  /\ Late \subseteq {"NavRoute", "FSDJump", "NavRouteClear"}
  /\ Rows \in Nat \ {0} /\ MaxEvents \in Nat /\ MaxWire \in Nat

VARIABLES
  history,  \* the events of the game, oldest first
  filed,    \* how many of them are in the journal history
  link,     \* the WebSocket is open
  wire      \* the messages on their way

NoCount == -1

-------------------------------------------------------------------------------
\* What is true after the first v events.

Newest(S) == CHOOSE i \in S : \A j \in S : j <= i

\* The events of lo .. hi that set or clear the route.
Plots(lo, hi) == {i \in lo .. hi : history[i].event # "FSDJump"}

\* parse_journal_route: the jumps made are taken off the jumps of the route.
Left(route, jumps) == IF jumps < Len(route) THEN Len(route) - jumps ELSE 0

\* The route of the first v events, <<>> if there is none.
RouteAt(v) ==
  IF Plots(1, v) = {} THEN <<>> ELSE history[Newest(Plots(1, v))].route

JumpsAt(v) == v - Newest(Plots(1, v))

CountAt(v) ==
  IF RouteAt(v) = <<>> THEN NoCount ELSE Left(RouteAt(v), JumpsAt(v))

NextAt(v) == IF CountAt(v) > 0 THEN RouteAt(v)[JumpsAt(v) + 1] ELSE NoName

TargetAt(v) ==
  IF RouteAt(v) = <<>> THEN NoName ELSE RouteAt(v)[Len(RouteAt(v))]

Now == Len(history)

-------------------------------------------------------------------------------
\* The game.

Happen(event, route) ==
  /\ Now < MaxEvents
  /\ history' = Append(history, [event |-> event, route |-> route])
  /\ UNCHANGED <<filed, link, wire>>

Plot == \E r \in Routes : Happen("NavRoute", r)
Jump == Happen("FSDJump", <<>>)
Clear == Happen("NavRouteClear", <<>>)

-------------------------------------------------------------------------------
\* EDDiscovery.

Put(messages) ==
  /\ link /\ Len(wire) + Len(messages) <= MaxWire
  /\ wire' = wire \o messages

\* A reply with the rows that are filed, or a push of the last one.
Journal(lo, hi) == [kind |-> "journal", lo |-> lo, hi |-> hi]
Recent(hi) == Journal(IF hi > Rows THEN hi - Rows + 1 ELSE 1, hi)

File ==
  /\ filed < Now
  /\ filed' = filed + 1
  /\ \/ UNCHANGED wire
     \/ Put(<<Journal(filed', filed')>>)
  /\ UNCHANGED <<history, link>>

\* Every event that is not filed yet may be late.
LiveAllowed == \A i \in filed + 1 .. Now : history[i].event \in Late

\* genericui: FSDTarget, about the route as it is now, or about a system off it;
\* then there is no RemainingJumpsInRoute.
PushTarget ==
  /\ LiveAllowed /\ Now > 0
  /\ \E count \in BOOLEAN :
       /\ count => CountAt(Now) # NoCount
       /\ Put(<<[kind |-> "target", hi |-> Now, count |-> count]>>)
  /\ UNCHANGED <<history, filed, link>>

\* genericui: NavRouteClear.
PushClear ==
  /\ LiveAllowed /\ Now > 0
  /\ history[Now].event = "NavRouteClear"
  /\ Put(<<[kind |-> "clear", hi |-> Now]>>)
  /\ UNCHANGED <<history, filed, link>>

\* The reply to the periodic request.
Reply ==
  /\ Put(<<Recent(filed)>>)
  /\ UNCHANGED <<history, filed, link>>

\* The replies to the initial requests of a new connection: a status, about the
\* present like a live push, and the rows that are filed.  The status may tell
\* the count, and the next system while a jump is on its way.
Connect ==
  /\ ~link /\ LiveAllowed
  /\ link' = TRUE
  /\ \E count, next \in BOOLEAN :
       /\ count => CountAt(Now) # NoCount
       /\ next => NextAt(Now) # NoName
       /\ wire' = <<[kind |-> "status", hi |-> Now, count |-> count,
                     next |-> next],
                    Recent(filed)>>
  /\ UNCHANGED <<history, filed>>

Lose ==
  /\ link
  /\ link' = FALSE /\ wire' = <<>>
  /\ UNCHANGED <<history, filed>>

Feed ==
  \/ Plot \/ Jump \/ Clear \/ File
  \/ PushTarget \/ PushClear \/ Reply \/ Connect \/ Lose

FeedInit == history = <<>> /\ filed = 0 /\ link = FALSE /\ wire = <<>>
===============================================================================
