--------------------------- MODULE ReconnectingLink ---------------------------
(***************************************************************************)
(* What a link that reconnects by itself promises about time: attempts are *)
(* at least MinGap apart, and neither an attempt nor an established link   *)
(* survives more than its timeout, plus one iteration of the loop that     *)
(* looks at the clock, without hearing from the other side.                *)
(*                                                                         *)
(*   phase  "down", "trying" or "up"                                       *)
(*   quiet  time since the link last heard anything, while it is not down  *)
(*   gap    time since the last attempt, counted up to MinGap              *)
(***************************************************************************)
EXTENDS Naturals

CONSTANTS MinGap, TryTimeout, QuietTimeout, IterMax

VARIABLES phase, quiet, gap

linkVars == <<phase, quiet, gap>>

Init == phase = "down" /\ quiet = 0 /\ gap = MinGap

Attempt ==
  /\ phase = "down" /\ gap = MinGap
  /\ phase' \in {"down", "trying"}
  /\ quiet' = 0 /\ gap' = 0

Hear ==
  /\ phase # "down"
  /\ quiet' = 0
  /\ UNCHANGED <<phase, gap>>

Establish ==
  /\ phase = "trying"
  /\ phase' = "up" /\ quiet' = 0
  /\ UNCHANGED gap

Lose ==
  /\ phase # "down"
  /\ phase' = "down" /\ quiet' = 0
  /\ UNCHANGED gap

Timeout == IF phase = "up" THEN QuietTimeout ELSE TryTimeout

Elapse(d) ==
  /\ phase # "down" => quiet <= Timeout
  /\ quiet' = IF phase = "down" THEN 0 ELSE quiet + d
  /\ gap' = IF gap + d > MinGap THEN MinGap ELSE gap + d
  /\ UNCHANGED phase

Next ==
  \/ Attempt \/ Hear \/ Establish \/ Lose
  \/ \E d \in 0 .. IterMax : Elapse(d)

Spec == Init /\ [][Next]_linkVars
===============================================================================
