----------------------------- MODULE MCConsole -----------------------------
(***************************************************************************)
(* Two characters, one of them the blank, and texts that wrap, scroll,     *)
(* step back, and end early at a NUL.                                      *)
(***************************************************************************)
EXTENDS Console

MCChar == {" ", "a"}
MCStrings == {<<"NUL", "a">>, <<"a", "LF", "a">>, <<"a", "NUL", "BS">>, <<"BS", "CR">>}
=============================================================================
