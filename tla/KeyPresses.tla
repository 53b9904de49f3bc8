------------------------------- MODULE KeyPresses -------------------------------
(***************************************************************************)
(* What a touch keyboard promises to its host: an accepted touch types at  *)
(* most one key, the key of the touched tile, and the host sees one key at *)
(* a time.                                                                 *)
(*                                                                         *)
(*   owed  the tile of an accepted touch the host has not seen yet         *)
(*   key   the tile whose key the host sees down                           *)
(***************************************************************************)
CONSTANTS Tile, NoTile

VARIABLES owed, key

keyVars == <<owed, key>>

Init == owed = NoTile /\ key = NoTile

Accept ==
  /\ owed = NoTile
  /\ owed' \in Tile
  /\ UNCHANGED key

Type ==
  /\ owed # NoTile /\ key = NoTile
  /\ key' = owed /\ owed' = NoTile

Release ==
  /\ key # NoTile
  /\ key' = NoTile
  /\ UNCHANGED owed

\* The finger leaves before the host could be told.
Cancel ==
  /\ owed # NoTile
  /\ owed' = NoTile
  /\ UNCHANGED key

\* A host that goes away sees no key, and may take an owed one with it.
Unplug ==
  /\ key' = NoTile
  /\ owed' \in {owed, NoTile}

Next == Accept \/ Type \/ Release \/ Cancel \/ Unplug

Spec == Init /\ [][Next]_keyVars
===============================================================================
