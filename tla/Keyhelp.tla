------------------------------- MODULE Keyhelp -------------------------------
(***************************************************************************)
(* 410kern/x86/keyhelp.c: the decoder of scancodes (set 1).  Its state kh  *)
(* is the static variables of the file,                                    *)
(*   state     key_state, as the set of the bits that are on,              *)
(*   internal  key_internal_state, likewise,                               *)
(*   sequence  key_sequence, how far a pause sequence has come.            *)
(*                                                                         *)
(* A character is named by the key and the column of the key's macro it is *)
(* taken from, <<keycode, "u" | "s" | "cc">>: unshifted, shifted, control. *)
(***************************************************************************)
EXTENDS Naturals

Modifier == {"LSHIFT", "RSHIFT", "LCONTROL", "RCONTROL", "LALT", "RALT"}
Lock == {"CAPS_LOCK", "NUM_LOCK"}
Internal == {"PRSCR_UP", "PRSCR_DOWN", "PAUSE", "EXTENDED"}

khInit == [state |-> {}, internal |-> {}, sequence |-> 0]

\* KHE_UNDEFINED, 0x80: also what code and rcode are before they are assigned.
UNDEFINED == <<"undefined">>
NUL == <<"nul">>

Step(kh, res) == [kh |-> kh, res |-> res]

\* return 0
Nothing == [hasraw |-> FALSE, raw |-> NUL, hasdata |-> FALSE, char |-> NUL,
            numpad |-> FALSE]
Result(code, rcode, numpad) ==
    LET hasdata == rcode # UNDEFINED /\ code # UNDEFINED
    IN  [hasraw  |-> TRUE,
         raw     |-> rcode,
         hasdata |-> hasdata,
         char    |-> IF hasdata THEN code ELSE NUL,
         numpad  |-> numpad]

KHS_SHIFT_CORE(kh) == kh.state \cap {"LSHIFT", "RSHIFT"} # {}
KHS_CTL_CORE(kh) == kh.state \cap {"LCONTROL", "RCONTROL"} # {}

KHS_SHIFT(kh) == IF KHS_SHIFT_CORE(kh) THEN "s" ELSE "u"
KHS_SHIFTCTL(kh) == IF KHS_CTL_CORE(kh) THEN "cc" ELSE KHS_SHIFT(kh)
\* Mutant: caps lock does not undo shift.
KHS_SHIFTCAPSCTL_Or(kh) ==
    IF KHS_CTL_CORE(kh) THEN "cc"
    ELSE IF KHS_SHIFT_CORE(kh) \/ "CAPS_LOCK" \in kh.state THEN "s" ELSE "u"
KHS_SHIFTCAPSCTL(kh) ==
    IF KHS_CTL_CORE(kh) THEN "cc"
    ELSE IF KHS_SHIFT_CORE(kh) # ("CAPS_LOCK" \in kh.state) THEN "s" ELSE "u"

\* The keys of each row of the keyboard, by the macro their case uses.
DigitRow   == [shift        |-> {2, 4, 5, 6, 8, 9, \h0A, \h0B, \h0D},
               shiftctl     |-> {3, 7, \h0C},
               shiftcapsctl |-> {},
               plain        |-> {1, \h0E, \h0F}]
UpperRow   == [shift        |-> {},
               shiftctl     |-> {},
               shiftcapsctl |-> \h10 .. \h1B,
               plain        |-> {\h1C}]
HomeRow    == [shift        |-> {\h27, \h28, \h29},
               shiftctl     |-> {},
               shiftcapsctl |-> \h1E .. \h26,
               plain        |-> {}]
LowerRow   == [shift        |-> {\h33, \h34, \h35},
               shiftctl     |-> {\h2B},
               shiftcapsctl |-> \h2C .. \h32,
               plain        |-> {}]
Functions == (\h3B .. \h44) \cup {\h57, \h58}
SpaceBar == \h39
Numpad == {\h37} \cup \h47 .. \h53

Rows == {DigitRow, UpperRow, HomeRow, LowerRow}
Shift == UNION {row.shift : row \in Rows}
ShiftCtl == UNION {row.shiftctl : row \in Rows}
ShiftCapsCtl == UNION {row.shiftcapsctl : row \in Rows}
Plain == (UNION {row.plain : row \in Rows}) \cup Functions \cup Numpad \cup {SpaceBar}

\* The column a key's character is taken from.
Column(kh, k) ==
    CASE k \in Shift        -> KHS_SHIFT(kh)
      [] k \in ShiftCtl     -> KHS_SHIFTCTL(kh)
      [] k \in ShiftCapsCtl -> KHS_SHIFTCAPSCTL(kh)
      [] k \in Plain        -> "u"

\* A key that is a modifier has a raw code only.
ModifierKey(kh, k, m, pressed) ==
    Step([kh EXCEPT !.state = IF pressed THEN @ \cup {m} ELSE @ \ {m}],
         Result(UNDEFINED, <<k, "u">>, FALSE))

LockKey(kh, k, m, pressed) ==
    Step([kh EXCEPT !.state = IF ~pressed THEN @
                              ELSE IF m \in @ THEN @ \ {m} ELSE @ \cup {m}],
         Result(UNDEFINED, <<k, "u">>, FALSE))

NextInPause(kh) == Step([kh EXCEPT !.sequence = @ + 1], Nothing)
OutOfPause(kh) == [kh EXCEPT !.internal = @ \ {"PAUSE"}, !.sequence = 0]
InPause(kh, stage) == "PAUSE" \in kh.internal /\ kh.sequence = stage

\* Mutant: the sequence goes on whatever its stage.
LeftControlInPause(kh, pressed) ==
    IF "PAUSE" \in kh.internal THEN NextInPause(kh)
    ELSE ModifierKey(OutOfPause(kh), \h1D, "LCONTROL", pressed)
LeftControl(kh, pressed) ==
    IF InPause(kh, 0) THEN NextInPause(kh)
    ELSE ModifierKey(OutOfPause(kh), \h1D, "LCONTROL", pressed)

NumLock(kh, pressed) ==
    IF InPause(kh, 1) THEN NextInPause(kh)
    ELSE LockKey(OutOfPause(kh), \h45, "NUM_LOCK", pressed)

PausePrefix(kh) ==
    CASE "PAUSE" \notin kh.internal ->
            Step([kh EXCEPT !.internal = @ \cup {"PAUSE"}, !.sequence = 0], Nothing)
      [] InPause(kh, 2) -> NextInPause(kh)
      [] OTHER -> Step(OutOfPause(kh), Result(UNDEFINED, UNDEFINED, FALSE))

process_simple_scan(kh, k, pressed) ==
    CASE k \in Shift \cup ShiftCtl \cup ShiftCapsCtl \cup Plain ->
            Step(kh, Result(<<k, Column(kh, k)>>, <<k, "u">>, k \in Numpad))
      [] k = \h1D -> LeftControl(kh, pressed)
      [] k = \h2A -> ModifierKey(kh, k, "LSHIFT", pressed)
      [] k = \h36 -> ModifierKey(kh, k, "RSHIFT", pressed)
      [] k = \h38 -> ModifierKey(kh, k, "LALT", pressed)
      [] k = \h3A -> LockKey(kh, k, "CAPS_LOCK", pressed)
      [] k = \h45 -> NumLock(kh, pressed)
      [] k = \h61 -> PausePrefix(kh)
      [] OTHER    -> Step(kh, Result(UNDEFINED, UNDEFINED, FALSE))

PRINT_SCREEN == <<"print screen">>
PAUSE == <<"pause">>
Extended(k) == <<k, "e0">>

Grey == {\h1C, \h35, \h48, \h4B, \h4D, \h50, \h53}
GreyNumpad == {\h1C, \h35}

\* Each half of PRINT SCREEN's make is also the other half of its break.
PrintScreenHalf(kh, before, after) ==
    IF before \in kh.internal
    THEN Step([kh EXCEPT !.internal = @ \ {before}],
              Result(PRINT_SCREEN, PRINT_SCREEN, FALSE))
    ELSE Step([kh EXCEPT !.internal = @ \cup {after}], Nothing)

\* Mutant: one scancode after the prefix is not the end of it.
process_extended_scan_sticky(kh, k, pressed) ==
    CASE k \in Grey -> Step(kh, Result(Extended(k), Extended(k), k \in GreyNumpad))
      [] OTHER      -> Step([kh EXCEPT !.internal = @ \ {"EXTENDED"}],
                            Result(UNDEFINED, UNDEFINED, FALSE))
process_extended_scan(kh0, k, pressed) ==
    LET kh == [kh0 EXCEPT !.internal = @ \ {"EXTENDED"}]
    IN  CASE k \in Grey -> Step(kh, Result(Extended(k), Extended(k), k \in GreyNumpad))
          [] k = \h1D   -> ModifierKey(kh, k + 128, "RCONTROL", pressed)
          [] k = \h38   -> ModifierKey(kh, k + 128, "RALT", pressed)
          [] k = \h2A   -> PrintScreenHalf(kh, "PRSCR_UP", "PRSCR_DOWN")
          [] k = \h37   -> PrintScreenHalf(kh, "PRSCR_DOWN", "PRSCR_UP")
          [] OTHER      -> Step(kh, Result(UNDEFINED, UNDEFINED, FALSE))

\* A simple scancode ends what there was of a PRINT SCREEN.
Simple(kh, k, pressed) ==
    process_simple_scan([kh EXCEPT !.internal = @ \ {"PRSCR_UP", "PRSCR_DOWN"}],
                        k, pressed)

\* The MAKE and state bits, or-ed into whatever the scan has returned.
Completed(st, pressed) ==
    [kh |-> st.kh, res |-> st.res, make |-> pressed, state |-> st.kh.state]
\* The early returns: without MAKE, or for a pause without the state either.
Returned(st, state) ==
    [kh |-> st.kh, res |-> st.res, make |-> FALSE, state |-> state]

process_scancode(kh, keypress) ==
    LET pressed == keypress < 128
        k == keypress % 128
    IN  CASE "EXTENDED" \in kh.internal ->
                Completed(process_extended_scan(kh, k, pressed), pressed)
          [] "EXTENDED" \notin kh.internal /\ keypress = \h9D ->
                IF InPause(kh, 3) THEN Returned(NextInPause(kh), {})
                ELSE Completed(Simple(OutOfPause(kh), k, pressed), pressed)
          [] "EXTENDED" \notin kh.internal /\ keypress = \hC5 ->
                IF InPause(kh, 4)
                THEN Completed(Step([kh EXCEPT !.internal = @ \ {"PAUSE"}],
                                    [Nothing EXCEPT !.hasdata = TRUE, !.raw = PAUSE,
                                                    !.char = PAUSE]),
                               pressed)
                ELSE Completed(Simple(OutOfPause(kh), k, pressed), pressed)
          [] "EXTENDED" \notin kh.internal /\ keypress = \hE0 ->
                Returned(Step([kh EXCEPT !.internal = @ \cup {"EXTENDED"}], Nothing),
                         kh.state)
          [] OTHER -> Completed(Simple(kh, k, pressed), pressed)
=============================================================================
