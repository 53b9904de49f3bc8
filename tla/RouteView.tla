------------------------------- MODULE RouteView --------------------------------
(***************************************************************************)
(* What a route display promises, whatever its sources: every count it     *)
(* shows was the true one at some event of the game, and it goes through   *)
(* the events in their order.  It may skip events, lag behind, forget      *)
(* everything in a restart, and go back from a count it has no date for.   *)
(***************************************************************************)
EXTENDS Integers, Sequences

CONSTANT NoCount  \* shown while no route is known

VARIABLES
  counts,  \* the true count after each event of the game
  seen,    \* the event the display has caught up with, 0 for none
  count,   \* what it shows
  dated    \* it knows when the route it shows was plotted

viewVars == <<counts, seen, count>>

Init == counts = <<>> /\ seen = 0 /\ count = NoCount

Happen ==
  /\ Len(counts') = Len(counts) + 1
  /\ \A v \in 1 .. Len(counts) : counts'[v] = counts[v]
  /\ UNCHANGED <<seen, count>>

Learn ==
  /\ seen' \in (IF dated THEN seen ELSE 1) .. Len(counts) /\ seen' > 0
  /\ count' = counts[seen']
  /\ UNCHANGED counts

Forget == seen' = 0 /\ count' = NoCount /\ UNCHANGED counts

Next == Happen \/ Learn \/ Forget

Spec == Init /\ [][Next]_viewVars
===============================================================================
