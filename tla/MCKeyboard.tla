------------------------------- MODULE MCKeyboard -------------------------------
(***************************************************************************)
(* Small instances of Keyboard for TLC.                                    *)
(***************************************************************************)
EXTENDS Keyboard, TLC

MCOne  == {1}
MCNone == {}
===============================================================================
