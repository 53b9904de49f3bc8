------------------------------- MODULE MCDisplay --------------------------------
(***************************************************************************)
(* Small instances of Display for TLC.                                     *)
(***************************************************************************)
EXTENDS Display, TLC

MCWide == {<<1, "full">>}
===============================================================================
