----------------------------- MODULE MCKeyboard -----------------------------
(***************************************************************************)
(* Three keys at a time: a letter with what changes its character and what *)
(* sends a sequence; the keys that share scancodes, left control and num   *)
(* lock with Pause, right control with left control, left shift with Print *)
(* Screen; and keys that have no character.                                *)
(***************************************************************************)
EXTENDS Keyboard

A == [e0 |-> FALSE, code |-> \h1E]
\* Two the decoder has no row for.
ScrollLock == [e0 |-> FALSE, code |-> \h46]
Home == [e0 |-> TRUE, code |-> \h47]

MCKeySets ==
    {{A, KeyOf("LSHIFT"), CapsLockKey},
     {A, KeyOf("LSHIFT"), PrintScreenKey},
     {A, KeyOf("LCONTROL"), CapsLockKey},
     {KeyOf("LCONTROL"), KeyOf("RCONTROL"), PauseKey},
     {KeyOf("LCONTROL"), NumLockKey, PauseKey},
     {KeyOf("RSHIFT"), ScrollLock, Home}}

MCScancode ==
    UNION {UNION {{Make(key)[i] : i \in 1 .. Len(Make(key))}
                  \cup {Break(key)[i] : i \in 1 .. Len(Break(key))} : key \in keys}
           : keys \in MCKeySets}
=============================================================================
