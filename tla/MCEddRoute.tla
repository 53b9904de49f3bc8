------------------------------- MODULE MCEddRoute -------------------------------
(***************************************************************************)
(* Small instances of EddRoute for TLC.                                    *)
(***************************************************************************)
EXTENDS EddRoute, TLC

MCTwoRoutes == {<<"a", "b">>, <<"d">>}
MCLongRoutes == {<<"a", "b", "c", "d">>}
===============================================================================
