----------------------------- MODULE MCKbBuffer -----------------------------
(***************************************************************************)
(* Four slots and two scancodes: the indices wrap, the buffer is met empty,*)
(* in use and "full", and a scancode can be told from its successor.       *)
(***************************************************************************)
EXTENDS KbBuffer

CONSTANTS a, b

MCScancode == {a, b}
=============================================================================
