------------------------------ MODULE Keyboard ------------------------------
(***************************************************************************)
(* From the keys to readchar(): the keyboard sends each key's scancodes    *)
(* one by one (external), kb_handler puts them in the keyboard buffer, or  *)
(* drops them, and main's readchar (kern/kb.c) takes them out and decodes  *)
(* them with process_scancode (Keyhelp).                                   *)
(*                                                                         *)
(* The buffer is ScancodeQueue, which KbBuffer.tla shows kb_buffer.c to    *)
(* implement with a Capacity of one.                                       *)
(***************************************************************************)
EXTENDS ScancodeQueue, Keyhelp

CONSTANT KeySets       \* sets of keys; those of one of them are used

VARIABLES
    Keys,              \* the keys that are used
    held, locks,       \* the keys that are down; the locks that are on
    wire,              \* what the keyboard has still to send, with what it means
    means,             \* what the scancodes of the queue mean
    kh,                \* the state of the decoder
    lost,              \* a scancode has been dropped
    watched, cycle     \* how far a modifier has been pressed and released since

hwVars == <<Keys, held, locks, wire>>
historyVars == <<lost, watched, cycle>>
vars == <<qvars, hwVars, means, kh, historyVars>>

-----------------------------------------------------------------------------
(* The keyboard.  A key is [e0, code], or one of the two with sequences.   *)

PrintScreenKey == [e0 |-> TRUE, code |-> \h37]
PauseKey == [e0 |-> FALSE, code |-> \h61]

\* Above 0x5F a break would be a prefix; 0xE0 0x2A is Print Screen's, or a
\* shift that a grey key makes up, which this keyboard does not.
KeyboardKeys == ([e0 : BOOLEAN, code : 1 .. \h5F] \ {[e0 |-> TRUE, code |-> \h2A]})
                \cup {PauseKey}
ASSUME KeysAssumption == \A keys \in KeySets : keys \subseteq KeyboardKeys

Make(key) ==
    CASE key = PrintScreenKey -> <<\hE0, \h2A, \hE0, \h37>>
      [] key = PauseKey       -> <<\hE1, \h1D, \h45, \hE1, \h9D, \hC5>>
      [] OTHER -> IF key.e0 THEN <<\hE0, key.code>> ELSE <<key.code>>
Break(key) ==
    CASE key = PrintScreenKey -> <<\hE0, \hB7, \hE0, \hAA>>
      [] key = PauseKey       -> <<>>
      [] OTHER -> IF key.e0 THEN <<\hE0, key.code + 128>> ELSE <<key.code + 128>>

KeyOf(m) ==
    CASE m = "LSHIFT"   -> [e0 |-> FALSE, code |-> \h2A]
      [] m = "RSHIFT"   -> [e0 |-> FALSE, code |-> \h36]
      [] m = "LCONTROL" -> [e0 |-> FALSE, code |-> \h1D]
      [] m = "RCONTROL" -> [e0 |-> TRUE,  code |-> \h1D]
      [] m = "LALT"     -> [e0 |-> FALSE, code |-> \h38]
      [] m = "RALT"     -> [e0 |-> TRUE,  code |-> \h38]
CapsLockKey == [e0 |-> FALSE, code |-> \h3A]
NumLockKey == [e0 |-> FALSE, code |-> \h45]

\* The locks a make of this key turns over.
LocksOf(key) == (IF key = CapsLockKey THEN {"CAPS_LOCK"} ELSE {})
                \cup (IF key = NumLockKey THEN {"NUM_LOCK"} ELSE {})
Down(m) == KeyOf(m) \in held

\* What a key means to the person who presses it: readchar is to return it.
\* A modifier, a lock, Pause and a key the decoder has no row for mean nothing.
Meaning(key) ==
    CASE key = PrintScreenKey -> PRINT_SCREEN
      [] key.e0 /\ key.code \in Grey -> Extended(key.code)
      [] ~key.e0 /\ key.code \in Shift \cup ShiftCtl \cup ShiftCapsCtl \cup Plain ->
            <<key.code,
              CASE key.code \in ShiftCtl \cup ShiftCapsCtl
                        /\ (Down("LCONTROL") \/ Down("RCONTROL")) -> "cc"
                [] key.code \in Plain -> "u"
                [] OTHER -> IF (Down("LSHIFT") \/ Down("RSHIFT"))
                                  # (key.code \in ShiftCapsCtl /\ "CAPS_LOCK" \in locks)
                            THEN "s" ELSE "u">>
      [] OTHER -> NUL
\* Only the last scancode of a make means anything.
Sent(codes, meaning) ==
    [i \in 1 .. Len(codes) |->
        [code |-> codes[i], means |-> IF i = Len(codes) THEN meaning ELSE NUL]]

\* A key that is down repeats.
Press(key) ==
    /\ wire = <<>>
    /\ held' = IF key = PauseKey THEN held ELSE held \cup {key}
    /\ locks' = (locks \ LocksOf(key)) \cup (LocksOf(key) \ locks)
    /\ wire' = Sent(Make(key), Meaning(key))
    /\ cycle' = IF key = KeyOf(watched) /\ cycle \in {0, 2} THEN cycle + 1 ELSE cycle
    /\ UNCHANGED <<qvars, Keys, means, kh, lost, watched>>

Release(key) ==
    /\ wire = <<>>
    /\ key \in held
    /\ held' = held \ {key}
    /\ wire' = Sent(Break(key), NUL)
    /\ cycle' = IF key = KeyOf(watched) /\ cycle \in {1, 3} THEN cycle + 1 ELSE cycle
    /\ UNCHANGED <<qvars, Keys, locks, means, kh, lost, watched>>

-----------------------------------------------------------------------------
(* The driver.                                                             *)

kb_handler ==
    /\ wire # <<>>
    /\ wire' = Tail(wire)
    /\ \/ /\ Put(Head(wire).code)
          /\ means' = Append(means, Head(wire).means)
          /\ UNCHANGED <<lost, cycle>>
       \/ /\ Drop
          /\ lost' = TRUE
          /\ cycle' = 0
          /\ UNCHANGED means
    /\ UNCHANGED <<Keys, held, locks, kh, watched>>

\* Mutant: characters are returned for breaks, too.
AnswerOfEither(aug_char) == aug_char.res.char
\* What readchar returns for a scancode: NUL if it goes on to the next.
Answer(aug_char) ==
    IF aug_char.res.hasdata /\ aug_char.make THEN aug_char.res.char ELSE NUL

\* What readchar makes of the oldest scancode of the buffer.
Decoded == process_scancode(kh, Head(queue))

\* One round of readchar's loop: it returns if Answer(Decoded) is a character,
\* and -1 if there is no scancode.
readchar ==
    /\ \/ Get /\ kh' = Decoded.kh /\ means' = Tail(means)
       \/ GetNothing /\ UNCHANGED <<kh, means>>
    /\ UNCHANGED <<hwVars, historyVars>>

Init ==
    /\ QInit
    /\ Keys \in KeySets
    /\ held = {}
    /\ locks = {}
    /\ wire = <<>>
    /\ means = <<>>
    /\ kh = khInit
    /\ lost = FALSE
    /\ watched \in {m \in Modifier : KeyOf(m) \in Keys}
    /\ cycle = 0

Next ==
    \/ \E key \in Keys : Press(key) \/ Release(key)
    \/ kb_handler
    \/ readchar

Spec == Init /\ [][Next]_vars

-----------------------------------------------------------------------------
(* As long as no scancode is dropped, readchar returns exactly the         *)
(* characters that were typed, with the modifiers and locks of the moment  *)
(* they were typed at: nothing for breaks, modifiers and the scancodes     *)
(* inside a sequence, and nothing for Pause, whose last scancode is a      *)
(* break to process_scancode (keyhelp.c:603, 648).                         *)
CharsAreTheKeys ==
    ~lost /\ queue # <<>> => Answer(Decoded) = Head(means)

(* A dropped scancode can leave a modifier on or off, but not for good:    *)
(* once it has been pressed and released twice with nothing dropped since, *)
(* it is on when and only when it is held, whatever sequences the decoder  *)
(* was left in and whatever other keys are used in between.  Once is not   *)
(* enough: with EXTENDED and stage 3 of PAUSE both left over, the first    *)
(* press is taken for the right control and the release for a Pause's.     *)
ModifiersHeal ==
    cycle = 4 /\ wire = <<>> /\ queue = <<>> =>
        (watched \in kh.state <=> Down(watched))
=============================================================================
