--------------------------- MODULE KeyboardProofs ---------------------------
(***************************************************************************)
(* What readchar makes of the keyboard, for every set of keys, every       *)
(* capacity of the buffer and every interleaving: the characters typed as  *)
(* long as no scancode is dropped, and modifiers that heal once one is.    *)
(*                                                                         *)
(* The invariant is about the future: there is a run of the decoder over   *)
(* the scancodes that are queued and those the keyboard has still to send. *)
(* A key's scancodes, taken together, have an Effect on the decoder that   *)
(* does not depend on how many of them are where; so the run's last state  *)
(* is what Press and Release extend, its first state what readchar steps   *)
(* from, and kb_handler moves the point between queue and wire.            *)
(***************************************************************************)
EXTENDS Keyboard, SequenceTheorems, TLAPS

Byte == 0 .. 255
KH == [state : SUBSET (Modifier \cup Lock), internal : SUBSET Internal, sequence : Nat]
Characters == Shift \cup ShiftCtl \cup ShiftCapsCtl \cup Plain

\* The keys that have a character, code by code.
LEMMA RowsOfKeys ==
    /\ Shift = {2, 4, 5, 6, 8, 9, \h0A, \h0B, \h0D, \h27, \h28, \h29, \h33, \h34, \h35}
    /\ ShiftCtl = {3, 7, \h0C, \h2B}
    /\ ShiftCapsCtl = (\h10 .. \h1B) \cup (\h1E .. \h26) \cup (\h2C .. \h32)
    /\ Plain = {1, \h0E, \h0F, \h1C, \h39, \h37, \h57, \h58}
               \cup (\h3B .. \h44) \cup (\h47 .. \h53)
  BY DEF Shift, ShiftCtl, ShiftCapsCtl, Plain, Rows, DigitRow, UpperRow, HomeRow, LowerRow,
         Functions, Numpad, SpaceBar

next(d, c) == process_scancode(d, c).kh
says(d, c) == Answer(process_scancode(d, c))

Switched(bits, m, on) == IF on THEN bits \cup {m} ELSE bits \ {m}

ExtendedBits(bits, k, pressed) ==
    CASE k = \h1D -> Switched(bits, "RCONTROL", pressed)
      [] k = \h38 -> Switched(bits, "RALT", pressed)
      [] OTHER -> bits

-----------------------------------------------------------------------------
(* What readchar returns for the results of the decoder.                   *)

\* readchar returns nothing for a break and for an early return.
LEMMA Answers ==
    ASSUME NEW st, NEW bits
    PROVE  /\ Answer(Completed(st, FALSE)) = NUL
           /\ Answer(Completed(st, TRUE)) = IF st.res.hasdata THEN st.res.char ELSE NUL
           /\ Answer(Returned(st, bits)) = NUL
  BY DEF Answer, Completed, Returned

\* A result without a code has no character.
LEMMA Silent ==
    ASSUME NEW d, NEW raw, NEW numpad
    PROVE  /\ ~Step(d, Nothing).res.hasdata
           /\ ~Step(d, Result(UNDEFINED, raw, numpad)).res.hasdata
  BY DEF Step, Nothing, Result

\* A result with a code has it as its character.
LEMMA Spoken ==
    ASSUME NEW d, NEW code, NEW raw, NEW numpad, code # UNDEFINED, raw # UNDEFINED
    PROVE  LET res == Step(d, Result(code, raw, numpad)).res
           IN  res.hasdata /\ res.char = code
  BY DEF Step, Result

\* A character is not KHE_UNDEFINED.
LEMMA NotUndefined ==
    /\ PRINT_SCREEN # UNDEFINED
    /\ \A k : Extended(k) # UNDEFINED
    /\ \A k, column : <<k, column>> # UNDEFINED
  BY DEF Extended, UNDEFINED, PRINT_SCREEN

-----------------------------------------------------------------------------
(* After the prefix 0xE0: process_extended_scan.                           *)

\* With EXTENDED on, a scancode goes to process_extended_scan.
LEMMA ScanOfExtended ==
    ASSUME NEW d \in KH, "EXTENDED" \in d.internal, NEW k \in 0 .. 127
    PROVE  /\ process_scancode(d, k) = Completed(process_extended_scan(d, k, TRUE), TRUE)
           /\ \A c : c = k + 128 => process_scancode(d, c) =
                              Completed(process_extended_scan(d, k, FALSE), FALSE)
  <1>1. \A c : process_scancode(d, c) =
                 Completed(process_extended_scan(d, c % 128, c < 128), c < 128)
    BY DEF process_scancode
  <1>2. process_scancode(d, k) = Completed(process_extended_scan(d, k, TRUE), TRUE)
    <2>1. k % 128 = k /\ (k < 128) = TRUE
      OBVIOUS
    <2>2. QED
      BY <1>1, <2>1, Zenon
  <1>3. ASSUME NEW c, c = k + 128
        PROVE process_scancode(d, c) = Completed(process_extended_scan(d, k, FALSE), FALSE)
    <2>1. c % 128 = k /\ (c < 128) = FALSE
      BY <1>3
    <2>2. QED
      BY <1>1, <2>1, Zenon
  <1>4. QED
    BY <1>2, <1>3, Zenon

\* It turns EXTENDED off, and leaves a pause sequence alone.
LEMMA ExtendedScan ==
    ASSUME NEW d \in KH, "EXTENDED" \in d.internal, NEW c \in Byte
    PROVE  /\ next(d, c) \in KH
           /\ next(d, c).state = ExtendedBits(d.state, c % 128, c < 128)
           /\ next(d, c).sequence = d.sequence
           /\ "EXTENDED" \notin next(d, c).internal
           /\ "PAUSE" \in next(d, c).internal <=> "PAUSE" \in d.internal
  <1> DEFINE k == c % 128
             b == [d EXCEPT !.internal = @ \ {"EXTENDED"}]
  <1>1. next(d, c) = process_extended_scan(d, k, c < 128).kh
    BY DEF next, process_scancode, Completed
  <1>2. /\ b \in KH /\ b.state = d.state /\ b.sequence = d.sequence
        /\ "EXTENDED" \notin b.internal
        /\ "PAUSE" \in b.internal <=> "PAUSE" \in d.internal
        /\ b.internal = d.internal \ {"EXTENDED"}
    BY DEF KH
  <1>3. ASSUME NEW before \in {"PRSCR_UP", "PRSCR_DOWN"}, NEW after \in {"PRSCR_UP", "PRSCR_DOWN"}
        PROVE  LET e == PrintScreenHalf(b, before, after).kh
               IN /\ e \in KH /\ e.state = b.state /\ e.sequence = b.sequence
                  /\ "EXTENDED" \notin e.internal
                  /\ "PAUSE" \in e.internal <=> "PAUSE" \in b.internal
    BY <1>2, <1>3 DEF PrintScreenHalf, Step, KH, Internal
  <1>4. ASSUME NEW m \in Modifier, NEW j
        PROVE  LET e == ModifierKey(b, j, m, c < 128).kh
               IN /\ e \in KH /\ e.state = Switched(b.state, m, c < 128) /\ e.sequence = b.sequence
                  /\ e.internal = b.internal
    BY <1>2, <1>4 DEF ModifierKey, Step, KH, Switched
  <1> HIDE DEF b, k
  <1>5. process_extended_scan(d, k, c < 128).kh
           = CASE k \in Grey -> b
               [] k = \h1D   -> ModifierKey(b, k + 128, "RCONTROL", c < 128).kh
               [] k = \h38   -> ModifierKey(b, k + 128, "RALT", c < 128).kh
               [] k = \h2A   -> PrintScreenHalf(b, "PRSCR_UP", "PRSCR_DOWN").kh
               [] k = \h37   -> PrintScreenHalf(b, "PRSCR_DOWN", "PRSCR_UP").kh
               [] OTHER      -> b
    BY DEF process_extended_scan, Step, b, Grey
  <1>6. QED
    BY <1>1, <1>2, <1>3, <1>4, <1>5 DEF Modifier, ExtendedBits, Grey, k

\* After a prefix only the makes of the grey keys have a character.
LEMMA ExtendedSays ==
    ASSUME NEW d \in KH, "EXTENDED" \in d.internal, NEW c \in Byte
    PROVE  /\ c >= 128 => says(d, c) = NUL
           /\ c \in Grey => says(d, c) = Extended(c)
           /\ c < 128 /\ c \notin Grey \cup {\h2A, \h37} => says(d, c) = NUL
  <1>1. ASSUME c >= 128
        PROVE  says(d, c) = NUL
    <2>1. PICK k \in 0 .. 127 : c = k + 128
      <3>1. c - 128 \in 0 .. 127 /\ c = (c - 128) + 128
        BY <1>1 DEF Byte
      <3>2. QED
        BY <3>1
    <2>2. process_scancode(d, c) = Completed(process_extended_scan(d, k, FALSE), FALSE)
      BY <2>1, ScanOfExtended, Zenon
    <2>3. QED
      BY <2>2, Answers, Zenon DEF says
  <1> DEFINE e == [d EXCEPT !.internal = @ \ {"EXTENDED"}]
             st == process_extended_scan(d, c, TRUE)
  <1>2. ASSUME c < 128
        PROVE  says(d, c) = IF st.res.hasdata THEN st.res.char ELSE NUL
    <2>1. c \in 0 .. 127
      BY <1>2 DEF Byte
    <2>2. process_scancode(d, c) = Completed(st, TRUE)
      BY <2>1, ScanOfExtended, Zenon
    <2> HIDE DEF st
    <2>3. QED
      BY <2>2, Answers, Zenon DEF says
  <1>3. ASSUME c \in Grey PROVE says(d, c) = Extended(c)
    <2> DEFINE grey == Step(e, Result(Extended(c), Extended(c), c \in GreyNumpad))
    <2>1. Extended(c) # UNDEFINED
      BY NotUndefined
    <2>2. grey.res.hasdata /\ grey.res.char = Extended(c)
      BY <2>1 DEF Step, Result
    <2> DEFINE control == ModifierKey(e, c + 128, "RCONTROL", TRUE)
               alt == ModifierKey(e, c + 128, "RALT", TRUE)
               down == PrintScreenHalf(e, "PRSCR_UP", "PRSCR_DOWN")
               up == PrintScreenHalf(e, "PRSCR_DOWN", "PRSCR_UP")
               other == Step(e, Result(UNDEFINED, UNDEFINED, FALSE))
    <2>3. st = CASE c \in Grey -> grey [] c = \h1D -> control [] c = \h38 -> alt
                 [] c = \h2A -> down [] c = \h37 -> up [] OTHER -> other
      BY Zenon DEF process_extended_scan
    <2> HIDE DEF st, grey, control, alt, down, up, other
    <2>4. st = grey
      BY <1>3, <2>3 DEF Grey
    <2>5. c < 128
      BY <1>3 DEF Grey
    <2>6. QED
      BY <1>2, <2>2, <2>4, <2>5
  <1>4. ASSUME c \in {\h1D, \h38} PROVE says(d, c) = NUL
    <2>1. st.res.char = NUL
      BY <1>4 DEF process_extended_scan, Step, Result, ModifierKey, PrintScreenHalf, Nothing, Grey
    <2>2. c < 128
      BY <1>4
    <2> HIDE DEF st
    <2>3. QED
      BY <1>2, <2>1, <2>2
  <1>5. ASSUME c < 128, c \notin Grey \cup {\h1D, \h38, \h2A, \h37} PROVE says(d, c) = NUL
    <2>1. st.res.char = NUL
      BY <1>5 DEF process_extended_scan, Step, Result, ModifierKey, PrintScreenHalf, Nothing, Grey
    <2> HIDE DEF st
    <2>2. QED
      BY <1>2, <1>5, <2>1
  <1>6. QED
    BY <1>1, <1>3, <1>4, <1>5 DEF Byte, Grey

\* The two halves of PRINT SCREEN, pressed and released.
LEMMA PrintScreenScan ==
    ASSUME NEW d \in KH, "EXTENDED" \in d.internal
    PROVE  /\ d.internal = {"EXTENDED"} =>
                /\ says(d, \h2A) = NUL /\ next(d, \h2A).internal = {"PRSCR_DOWN"}
                /\ next(d, \hB7).internal = {"PRSCR_UP"}
           /\ d.internal = {"EXTENDED", "PRSCR_DOWN"} =>
                says(d, \h37) = PRINT_SCREEN /\ next(d, \h37).internal = {}
           /\ d.internal = {"EXTENDED", "PRSCR_UP"} => next(d, \hAA).internal = {}
  <1> DEFINE e == [d EXCEPT !.internal = @ \ {"EXTENDED"}]
             down == PrintScreenHalf(e, "PRSCR_UP", "PRSCR_DOWN")
             up == PrintScreenHalf(e, "PRSCR_DOWN", "PRSCR_UP")
  <1>1. process_scancode(d, \h2A) = Completed(down, TRUE)
    <2>1. \h2A \in 0 .. 127
      OBVIOUS
    <2>2. process_scancode(d, \h2A) = Completed(process_extended_scan(d, \h2A, TRUE), TRUE)
      BY <2>1, ScanOfExtended, Zenon
    <2>3. \A p : process_extended_scan(d, \h2A, p) = down
      BY DEF process_extended_scan, Grey
    <2>4. QED
      BY <2>2, <2>3, Zenon
  <1>2. process_scancode(d, \h37) = Completed(up, TRUE)
    <2>1. \h37 \in 0 .. 127
      OBVIOUS
    <2>2. process_scancode(d, \h37) = Completed(process_extended_scan(d, \h37, TRUE), TRUE)
      BY <2>1, ScanOfExtended, Zenon
    <2>3. \A p : process_extended_scan(d, \h37, p) = up
      BY DEF process_extended_scan, Grey
    <2>4. QED
      BY <2>2, <2>3, Zenon
  <1>3. process_scancode(d, \hAA) = Completed(down, FALSE)
    <2>1. \h2A \in 0 .. 127 /\ \hAA = \h2A + 128
      OBVIOUS
    <2>2. process_scancode(d, \hAA) = Completed(process_extended_scan(d, \h2A, FALSE), FALSE)
      BY <2>1, ScanOfExtended, Zenon
    <2>3. \A p : process_extended_scan(d, \h2A, p) = down
      BY DEF process_extended_scan, Grey
    <2>4. QED
      BY <2>2, <2>3, Zenon
  <1>4. process_scancode(d, \hB7) = Completed(up, FALSE)
    <2>1. \h37 \in 0 .. 127 /\ \hB7 = \h37 + 128
      OBVIOUS
    <2>2. process_scancode(d, \hB7) = Completed(process_extended_scan(d, \h37, FALSE), FALSE)
      BY <2>1, ScanOfExtended, Zenon
    <2>3. \A p : process_extended_scan(d, \h37, p) = up
      BY DEF process_extended_scan, Grey
    <2>4. QED
      BY <2>2, <2>3, Zenon
  <1>5. e \in KH /\ e.internal = d.internal \ {"EXTENDED"}
    BY DEF KH
  <1>6. \A st, b : Completed(st, b).kh = st.kh
    BY DEF Completed
  <1>7. \A b, res : Step(b, res).kh = b
    BY DEF Step
  <1> HIDE DEF e
  <1>8. CASE d.internal = {"EXTENDED"}
    <2>1. e.internal = {}
      BY <1>5, <1>8
    <2>2. /\ down = Step([e EXCEPT !.internal = {"PRSCR_DOWN"}], Nothing)
          /\ up = Step([e EXCEPT !.internal = {"PRSCR_UP"}], Nothing)
      BY <1>5, <2>1 DEF PrintScreenHalf
    <2> HIDE DEF up, down
    <2>3. ~down.res.hasdata
      BY <2>2, Silent, Zenon
    <2>4. says(d, \h2A) = NUL
      BY <1>1, <2>3, Answers, Zenon DEF says
    <2>5. down.kh.internal = {"PRSCR_DOWN"} /\ up.kh.internal = {"PRSCR_UP"}
      <3>1. /\ down.kh = [e EXCEPT !.internal = {"PRSCR_DOWN"}]
            /\ up.kh = [e EXCEPT !.internal = {"PRSCR_UP"}]
        BY <1>7, <2>2
      <3>2. QED
        BY <1>5, <3>1 DEF KH
    <2>6. next(d, \h2A) = down.kh /\ next(d, \hB7) = up.kh
      <3>1. next(d, \h2A) = down.kh
        BY <1>1, <1>6, Zenon DEF next
      <3>2. next(d, \hB7) = up.kh
        BY <1>4, <1>6, ZenonT(60) DEF next
      <3>3. QED
        BY <3>1, <3>2, Zenon
    <2>7. next(d, \h2A).internal = {"PRSCR_DOWN"} /\ next(d, \hB7).internal = {"PRSCR_UP"}
      BY <2>5, <2>6
    <2>8. d.internal # {"EXTENDED", "PRSCR_DOWN"} /\ d.internal # {"EXTENDED", "PRSCR_UP"}
      BY <1>8
    <2>9. QED
      BY <1>8, <2>4, <2>7, <2>8, Zenon
  <1>9. CASE d.internal = {"EXTENDED", "PRSCR_DOWN"}
    <2>1. e.internal = {"PRSCR_DOWN"}
      BY <1>5, <1>9
    <2>2. up = Step([e EXCEPT !.internal = {}], Result(PRINT_SCREEN, PRINT_SCREEN, FALSE))
      BY <1>5, <2>1 DEF PrintScreenHalf
    <2> HIDE DEF up
    <2>3. up.res.hasdata /\ up.res.char = PRINT_SCREEN
      BY <2>2, NotUndefined DEF Step, Result
    <2>4. says(d, \h37) = PRINT_SCREEN
      BY <1>2, <2>3, Answers, Zenon DEF says
    <2>5. up.kh.internal = {}
      <3>1. up.kh = [e EXCEPT !.internal = {}]
        BY <1>7, <2>2
      <3>2. QED
        BY <1>5, <3>1 DEF KH
    <2>6. next(d, \h37) = up.kh
      BY <1>2, <1>6, Zenon DEF next
    <2>7. QED
      BY <1>9, <2>4, <2>5, <2>6
  <1>10. CASE d.internal = {"EXTENDED", "PRSCR_UP"}
    <2>1. e.internal = {"PRSCR_UP"}
      BY <1>5, <1>10
    <2>2. down = Step([e EXCEPT !.internal = {}], Result(PRINT_SCREEN, PRINT_SCREEN, FALSE))
      BY <1>5, <2>1 DEF PrintScreenHalf
    <2> HIDE DEF down
    <2>3. down.kh.internal = {}
      <3>1. down.kh = [e EXCEPT !.internal = {}]
        BY <1>7, <2>2
      <3>2. QED
        BY <1>5, <3>1 DEF KH
    <2>4. next(d, \hAA) = down.kh
      BY <1>3, <1>6, ZenonT(60) DEF next
    <2>5. QED
      BY <1>10, <2>3, <2>4
  <1>11. QED
    BY <1>8, <1>9, <1>10

\* Only the halves of PRINT SCREEN turn another internal bit on or off.
LEMMA ExtendedLeaves ==
    ASSUME NEW d \in KH, "EXTENDED" \in d.internal, NEW c \in Byte, c % 128 \notin {\h2A, \h37}
    PROVE  next(d, c).internal = d.internal \ {"EXTENDED"}
  BY DEF KH, next, process_scancode, Completed, process_extended_scan, Step, ModifierKey

\* A prefix turns EXTENDED on, and nothing else.
LEMMA PrefixScan ==
    ASSUME NEW d \in KH, "EXTENDED" \notin d.internal
    PROVE  /\ next(d, \hE0) = [d EXCEPT !.internal = @ \cup {"EXTENDED"}]
           /\ next(d, \hE0) \in KH
           /\ says(d, \hE0) = NUL
  BY DEF KH, Internal, next, says, Answer, process_scancode, Returned, Step, Nothing

-----------------------------------------------------------------------------
(* Without a prefix: process_simple_scan, and the breaks that may be the   *)
(* end of a Pause.                                                         *)

Toggled(bits, m, on) == IF ~on THEN bits ELSE IF m \in bits THEN bits \ {m} ELSE bits \cup {m}
SimpleBits(bits, k, pressed) ==
    CASE k = \h1D -> Switched(bits, "LCONTROL", pressed)
      [] k = \h2A -> Switched(bits, "LSHIFT", pressed)
      [] k = \h36 -> Switched(bits, "RSHIFT", pressed)
      [] k = \h38 -> Switched(bits, "LALT", pressed)
      [] k = \h3A -> Toggled(bits, "CAPS_LOCK", pressed)
      [] k = \h45 -> Toggled(bits, "NUM_LOCK", pressed)
      [] OTHER -> bits

Pausing(d) == "PAUSE" \in d.internal
Stage(d, n) == Pausing(d) /\ d.sequence = n
Quiet(d) == ~Pausing(d) \/ d.sequence = 4

\* Modifiers, locks and the pause prefix have no character.
LEMMA SpecialKeys == Characters \cap {\h1D, \h2A, \h36, \h38, \h3A, \h45, \h61} = {}
  BY RowsOfKeys DEF Characters

Bits == SUBSET (Modifier \cup Lock)

\* Turning a bit on, off or over leaves a set of bits.
LEMMA BitsStayBits ==
    ASSUME NEW bits \in Bits, NEW on \in BOOLEAN
    PROVE  /\ \A m \in Modifier : Switched(bits, m, on) \in Bits
           /\ \A m \in Lock : Toggled(bits, m, on) \in Bits
  BY DEF Bits, Switched, Toggled

\* A change of the bits changes nothing else.
LEMMA StateChanged ==
    ASSUME NEW d \in KH, NEW bits \in Bits
    PROVE  LET e == [d EXCEPT !.state = bits]
           IN  e \in KH /\ e.state = bits /\ e.internal = d.internal /\ e.sequence = d.sequence
  BY DEF KH, Bits

\* Leaving a pause sequence keeps the bits.
LEMMA OutOfPauseIs ==
    ASSUME NEW d \in KH
    PROVE  /\ OutOfPause(d) \in KH /\ OutOfPause(d).state = d.state
           /\ OutOfPause(d).internal = d.internal \ {"PAUSE"} /\ OutOfPause(d).sequence = 0
           /\ d.state \in Bits
  BY DEF KH, OutOfPause, Bits

\* process_simple_scan on its own.
\* What a scancode of key k without a prefix makes of d.
Follows(d, k, pressed, e) ==
    /\ e \in KH /\ "EXTENDED" \notin e.internal
    /\ \A m \in Modifier \ {"LCONTROL"} :
           m \in e.state <=> m \in SimpleBits(d.state, k, pressed)
    /\ k # \h61 /\ Quiet(d) => e.state = SimpleBits(d.state, k, pressed)
    /\ k # \h61 /\ Quiet(d) => Quiet(e)
    /\ k # \h61 /\ ~Pausing(d) => ~Pausing(e)
    /\ k # \h61 => e.internal \subseteq d.internal
    /\ pressed /\ k = \h1D /\ ~Stage(d, 0) => ~Pausing(e)

\* process_simple_scan follows, key by key.
LEMMA SimpleStep ==
    ASSUME NEW d \in KH, "EXTENDED" \notin d.internal, NEW k \in 0 .. 127, NEW pressed \in BOOLEAN
    PROVE  Follows(d, k, pressed, process_simple_scan(d, k, pressed).kh)
  <1> DEFINE e == process_simple_scan(d, k, pressed).kh
  <1>0. SUFFICES
        /\ e \in KH /\ "EXTENDED" \notin e.internal
        /\ \A m \in Modifier \ {"LCONTROL"} :
               m \in e.state <=> m \in SimpleBits(d.state, k, pressed)
        /\ k # \h61 /\ Quiet(d) => e.state = SimpleBits(d.state, k, pressed)
        /\ k # \h61 /\ Quiet(d) => Quiet(e)
        /\ k # \h61 /\ ~Pausing(d) => ~Pausing(e)
        /\ k # \h61 => e.internal \subseteq d.internal
        /\ pressed /\ k = \h1D /\ ~Stage(d, 0) => ~Pausing(e)
    <2> HIDE DEF e
    <2>1. Follows(d, k, pressed, e)
      BY <1>0 DEF Follows
    <2>2. QED
      BY <2>1, Zenon DEF e
  <1>1. CASE k \in Characters \/ k \notin {\h1D, \h2A, \h36, \h38, \h3A, \h45, \h61}
    <2>1. e = d
      BY <1>1, SpecialKeys DEF Characters, process_simple_scan, Step
    <2>2. SimpleBits(d.state, k, pressed) = d.state
      BY <1>1, SpecialKeys DEF SimpleBits
    <2>3. QED
      BY <1>1, <2>1, <2>2, SpecialKeys
  <1>2. CASE k \in {\h2A, \h36, \h38}
    <2> DEFINE m == CASE k = \h2A -> "LSHIFT" [] k = \h36 -> "RSHIFT" [] k = \h38 -> "LALT"
    <2>5. d.state \in Bits
      BY OutOfPauseIs
    <2>1. e = [d EXCEPT !.state = Switched(@, m, pressed)]
      BY <1>2, SpecialKeys DEF Characters, process_simple_scan, ModifierKey, Step, Switched
    <2>2. e \in KH /\ e.internal = d.internal /\ e.sequence = d.sequence
           /\ e.state = Switched(d.state, m, pressed)
      <3>1. m \in Modifier
        BY <1>2 DEF Modifier
      <3>2. Switched(d.state, m, pressed) \in Bits
        BY <2>5, <3>1, BitsStayBits
      <3> DEFINE bits == Switched(d.state, m, pressed)
      <3> HIDE DEF bits
      <3>3. e = [d EXCEPT !.state = bits]
        BY <2>1 DEF bits
      <3>4. bits \in Bits
        BY <3>2 DEF bits
      <3>5. e \in KH /\ e.internal = d.internal /\ e.sequence = d.sequence /\ e.state = bits
        BY <3>3, <3>4, StateChanged
      <3>6. QED
        BY <3>5 DEF bits
    <2>3. SimpleBits(d.state, k, pressed) = Switched(d.state, m, pressed)
      BY <1>2 DEF SimpleBits
    <2>4. QED
      BY <1>2, <2>2, <2>3 DEF Pausing, Quiet
  <1>3. CASE k = \h3A
    <2>1. e = [d EXCEPT !.state = Toggled(@, "CAPS_LOCK", pressed)]
      BY <1>3, SpecialKeys DEF Characters, process_simple_scan, LockKey, Step, Toggled
    <2>2. e \in KH /\ e.internal = d.internal /\ e.sequence = d.sequence
           /\ e.state = Toggled(d.state, "CAPS_LOCK", pressed)
      BY <2>1, OutOfPauseIs, StateChanged, BitsStayBits DEF Lock
    <2>3. SimpleBits(d.state, k, pressed) = Toggled(d.state, "CAPS_LOCK", pressed)
      BY <1>3 DEF SimpleBits
    <2>4. QED
      BY <1>3, <2>2, <2>3 DEF Pausing, Quiet
  <1>4. CASE k = \h1D
    <2>1. e = LeftControl(d, pressed).kh
      BY <1>4, SpecialKeys DEF Characters, process_simple_scan
    <2>2. SimpleBits(d.state, k, pressed) = Switched(d.state, "LCONTROL", pressed)
      BY <1>4 DEF SimpleBits
    <2>3. CASE Stage(d, 0)
      <3>1. e = [d EXCEPT !.sequence = @ + 1]
        BY <2>1, <2>3 DEF LeftControl, InPause, Stage, Pausing, NextInPause, Step
      <3>2. QED
        BY <1>4, <2>2, <2>3, <3>1 DEF KH, Stage, Pausing, Quiet, Switched
    <2>4. CASE ~Stage(d, 0)
      <3>1. e = [OutOfPause(d) EXCEPT !.state = Switched(@, "LCONTROL", pressed)]
        BY <2>1, <2>4 DEF LeftControl, InPause, Stage, Pausing, ModifierKey, Step, Switched
      <3>2. e.state = Switched(d.state, "LCONTROL", pressed) /\ e.sequence = 0
            /\ e.internal = d.internal \ {"PAUSE"} /\ e \in KH
        BY <3>1, OutOfPauseIs, StateChanged, BitsStayBits DEF Modifier
      <3>3. QED
        BY <1>4, <2>2, <2>4, <3>2 DEF Stage, Pausing, Quiet
    <2>5. QED
      BY <2>3, <2>4
  <1>5. CASE k = \h45
    <2>1. e = NumLock(d, pressed).kh
      BY <1>5, SpecialKeys DEF Characters, process_simple_scan
    <2>2. SimpleBits(d.state, k, pressed) = Toggled(d.state, "NUM_LOCK", pressed)
      BY <1>5 DEF SimpleBits
    <2>3. CASE Stage(d, 1)
      <3>1. e = [d EXCEPT !.sequence = @ + 1]
        BY <2>1, <2>3 DEF NumLock, InPause, Stage, Pausing, NextInPause, Step
      <3>2. QED
        BY <1>5, <2>2, <2>3, <3>1 DEF KH, Stage, Pausing, Quiet, Toggled, Modifier
    <2>4. CASE ~Stage(d, 1)
      <3>1. e = [OutOfPause(d) EXCEPT !.state = Toggled(@, "NUM_LOCK", pressed)]
        BY <2>1, <2>4 DEF NumLock, InPause, Stage, Pausing, LockKey, Step, Toggled
      <3>2. e.state = Toggled(d.state, "NUM_LOCK", pressed) /\ e.sequence = 0
            /\ e.internal = d.internal \ {"PAUSE"} /\ e \in KH
        BY <3>1, OutOfPauseIs, StateChanged, BitsStayBits DEF Lock
      <3>3. QED
        BY <1>5, <2>2, <2>4, <3>2 DEF Stage, Pausing, Quiet
    <2>5. QED
      BY <2>3, <2>4
  <1>6. CASE k = \h61
    <2>1. e = PausePrefix(d).kh
      BY <1>6, SpecialKeys DEF Characters, process_simple_scan
    <2>2. SimpleBits(d.state, k, pressed) = d.state
      BY <1>6 DEF SimpleBits
    <2>3. e \in {[d EXCEPT !.internal = @ \cup {"PAUSE"}, !.sequence = 0],
                 [d EXCEPT !.sequence = @ + 1], OutOfPause(d)}
      BY <2>1 DEF PausePrefix, InPause, NextInPause, Step
    <2> HIDE DEF e
    <2>5. e.state = d.state /\ e \in KH /\ "EXTENDED" \notin e.internal
      <3>1. CASE e = [d EXCEPT !.internal = @ \cup {"PAUSE"}, !.sequence = 0]
        BY <3>1 DEF KH, Internal
      <3>2. CASE e = [d EXCEPT !.sequence = @ + 1]
        BY <3>2 DEF KH
      <3>3. CASE e = OutOfPause(d)
        BY <3>3, OutOfPauseIs
      <3>4. QED
        BY <2>3, <3>1, <3>2, <3>3
    <2>4. QED
      BY <1>6, <2>2, <2>5 DEF e
  <1>7. QED
    BY <1>1, <1>2, <1>3, <1>4, <1>5, <1>6

-----------------------------------------------------------------------------

\* With EXTENDED off, most scancodes go to process_simple_scan.
LEMMA ScanOfSimple ==
    ASSUME NEW d \in KH, "EXTENDED" \notin d.internal, NEW k \in 0 .. 127
    PROVE  /\ process_scancode(d, k) = Completed(Simple(d, k, TRUE), TRUE)
           /\ \A c : c = k + 128 /\ c \notin {\h9D, \hC5, \hE0} =>
                process_scancode(d, c) = Completed(Simple(d, k, FALSE), FALSE)
  <1>1. \A c : c \notin {\h9D, \hC5, \hE0} =>
            process_scancode(d, c) = Completed(Simple(d, c % 128, c < 128), c < 128)
    <2> SUFFICES ASSUME NEW c, c \notin {\h9D, \hC5, \hE0}
                 PROVE  process_scancode(d, c) = Completed(Simple(d, c % 128, c < 128), c < 128)
      OBVIOUS
    <2> DEFINE a == Completed(process_extended_scan(d, c % 128, c < 128), c < 128)
               b == IF InPause(d, 3) THEN Returned(NextInPause(d), {})
                    ELSE Completed(Simple(OutOfPause(d), c % 128, c < 128), c < 128)
               e == IF InPause(d, 4)
                    THEN Completed(Step([d EXCEPT !.internal = @ \ {"PAUSE"}],
                                        [Nothing EXCEPT !.hasdata = TRUE, !.raw = PAUSE,
                                                        !.char = PAUSE]),
                                   c < 128)
                    ELSE Completed(Simple(OutOfPause(d), c % 128, c < 128), c < 128)
               f == Returned(Step([d EXCEPT !.internal = @ \cup {"EXTENDED"}], Nothing), d.state)
               g == Completed(Simple(d, c % 128, c < 128), c < 128)
    <2>1. process_scancode(d, c) =
            CASE "EXTENDED" \in d.internal -> a
              [] "EXTENDED" \notin d.internal /\ c = \h9D -> b
              [] "EXTENDED" \notin d.internal /\ c = \hC5 -> e
              [] "EXTENDED" \notin d.internal /\ c = \hE0 -> f
              [] OTHER -> g
      BY Zenon DEF process_scancode
    <2> HIDE DEF a, b, e, f, g
    <2>2. process_scancode(d, c) = g
      BY <2>1
    <2>3. QED
      BY <2>2 DEF g
  <1>2. process_scancode(d, k) = Completed(Simple(d, k, TRUE), TRUE)
    <2>1. k % 128 = k /\ (k < 128) = TRUE /\ k \notin {\h9D, \hC5, \hE0}
      OBVIOUS
    <2>2. QED
      BY <1>1, <2>1, ZenonT(60)
  <1>3. ASSUME NEW c, c = k + 128, c \notin {\h9D, \hC5, \hE0}
        PROVE  process_scancode(d, c) = Completed(Simple(d, k, FALSE), FALSE)
    <2>1. c % 128 = k /\ (c < 128) = FALSE
      BY <1>3
    <2>2. QED
      BY <1>1, <1>3, <2>1, ZenonT(60)
  <1>4. QED
    BY <1>2, <1>3, Zenon

\* What Simple takes away first.
LEMMA SimpleIs ==
    ASSUME NEW d \in KH, "EXTENDED" \notin d.internal, NEW k \in 0 .. 127, NEW p
    PROVE  \E b \in KH :
              /\ Simple(d, k, p) = process_simple_scan(b, k, p)
              /\ b.state = d.state /\ b.sequence = d.sequence
              /\ b.internal = d.internal \ {"PRSCR_UP", "PRSCR_DOWN"}
  <1> DEFINE b == [d EXCEPT !.internal = @ \ {"PRSCR_UP", "PRSCR_DOWN"}]
  <1>1. Simple(d, k, p) = process_simple_scan(b, k, p)
    BY Zenon DEF Simple
  <1>2. /\ b \in KH /\ b.state = d.state /\ b.sequence = d.sequence
        /\ b.internal = d.internal \ {"PRSCR_UP", "PRSCR_DOWN"}
    BY DEF KH
  <1> HIDE DEF b
  <1>3. QED
    BY <1>1, <1>2, Zenon

\* 0x9D and 0xC5 look at the pause sequence first.
LEMMA ReleasesInPause ==
    ASSUME NEW d \in KH, "EXTENDED" \notin d.internal
    PROVE  /\ Stage(d, 3) => process_scancode(d, \h9D) = Returned(NextInPause(d), {})
           /\ ~Stage(d, 3) =>
                process_scancode(d, \h9D) = Completed(Simple(OutOfPause(d), \h1D, FALSE), FALSE)
           /\ Stage(d, 4) => next(d, \hC5) = [d EXCEPT !.internal = @ \ {"PAUSE"}]
           /\ ~Stage(d, 4) =>
                process_scancode(d, \hC5) = Completed(Simple(OutOfPause(d), \h45, FALSE), FALSE)
           /\ says(d, \hC5) = NUL
  <1> DEFINE leave(k, p) == Completed(Simple(OutOfPause(d), k, p), p)
             last(p) == Completed(Step([d EXCEPT !.internal = @ \ {"PAUSE"}],
                                        [Nothing EXCEPT !.hasdata = TRUE, !.raw = PAUSE,
                                                        !.char = PAUSE]), p)
  <1>1. process_scancode(d, \h9D) = IF InPause(d, 3) THEN Returned(NextInPause(d), {})
                                    ELSE leave(\h9D % 128, \h9D < 128)
    BY DEF process_scancode
  <1>2. process_scancode(d, \hC5) = IF InPause(d, 4) THEN last(\hC5 < 128)
                                    ELSE leave(\hC5 % 128, \hC5 < 128)
    BY DEF process_scancode
  <1>3. /\ \h9D % 128 = \h1D /\ (\h9D < 128) = FALSE
        /\ \hC5 % 128 = \h45 /\ (\hC5 < 128) = FALSE
    OBVIOUS
  <1>4. /\ process_scancode(d, \h9D) = IF InPause(d, 3) THEN Returned(NextInPause(d), {})
                                        ELSE leave(\h1D, FALSE)
        /\ process_scancode(d, \hC5) = IF InPause(d, 4) THEN last(FALSE) ELSE leave(\h45, FALSE)
    BY <1>1, <1>2, <1>3, ZenonT(60)
  <1>5. \A n : InPause(d, n) <=> Stage(d, n)
    BY DEF InPause, Stage, Pausing
  <1>6. last(FALSE).kh = [d EXCEPT !.internal = @ \ {"PAUSE"}]
    BY DEF Completed, Step
  <1>7. Answer(last(FALSE)) = NUL /\ Answer(leave(\h45, FALSE)) = NUL
    BY Answers, Zenon
  <1> HIDE DEF leave, last
  <1>8. QED
    BY <1>4, <1>5, <1>6, <1>7, ZenonT(60) DEF leave, next, says

\* The left control of a pause sequence.
LEMMA LeftReleaseInPause ==
    ASSUME NEW d \in KH, "EXTENDED" \notin d.internal, Stage(d, 3)
    PROVE  process_scancode(d, \h9D) = Returned(NextInPause(d), {})
  BY ReleasesInPause, Zenon

\* The left control outside of one.
LEMMA LeftRelease ==
    ASSUME NEW d \in KH, "EXTENDED" \notin d.internal, ~Stage(d, 3)
    PROVE  process_scancode(d, \h9D) = Completed(Simple(OutOfPause(d), \h1D, FALSE), FALSE)
  BY ReleasesInPause, Zenon

\* The num lock of a pause sequence.
LEMMA NumReleaseInPause ==
    ASSUME NEW d \in KH, "EXTENDED" \notin d.internal, Stage(d, 4)
    PROVE  next(d, \hC5) = [d EXCEPT !.internal = @ \ {"PAUSE"}]
  BY ReleasesInPause, Zenon

\* The num lock outside of one.
LEMMA NumRelease ==
    ASSUME NEW d \in KH, "EXTENDED" \notin d.internal, ~Stage(d, 4)
    PROVE  process_scancode(d, \hC5) = Completed(Simple(OutOfPause(d), \h45, FALSE), FALSE)
  BY ReleasesInPause, Zenon

\* In or out of a sequence it has no character: readchar never returns PAUSE.
LEMMA NumReleaseSays ==
    ASSUME NEW d \in KH, "EXTENDED" \notin d.internal
    PROVE  says(d, \hC5) = NUL
  BY ReleasesInPause, Zenon

\* A scancode that no EXTENDED stands before.
LEMMA SimpleFollows ==
    ASSUME NEW d \in KH, "EXTENDED" \notin d.internal, NEW k \in 0 .. 127, NEW p \in BOOLEAN
    PROVE  Follows(d, k, p, Simple(d, k, p).kh)
  <1>1. PICK b \in KH : /\ Simple(d, k, p) = process_simple_scan(b, k, p)
                        /\ b.state = d.state /\ b.sequence = d.sequence
                        /\ b.internal = d.internal \ {"PRSCR_UP", "PRSCR_DOWN"}
    BY SimpleIs, Zenon
  <1>2. "EXTENDED" \notin b.internal
    BY <1>1
  <1> DEFINE e == process_simple_scan(b, k, p).kh
  <1>3. Follows(b, k, p, e)
    BY <1>2, SimpleStep, Zenon
  <1>4. Simple(d, k, p).kh = e
    BY <1>1, Zenon
  <1> HIDE DEF e
  <1>5. Follows(d, k, p, e)
    BY <1>1, <1>3 DEF Follows, Quiet, Stage, Pausing
  <1>6. QED
    BY <1>4, <1>5, Zenon

\* So every make follows,
LEMMA MakeScan ==
    ASSUME NEW d \in KH, "EXTENDED" \notin d.internal, NEW k \in 0 .. 127
    PROVE  Follows(d, k, TRUE, next(d, k))
  <1>1. \A st, q : Completed(st, q).kh = st.kh
    BY DEF Completed
  <1>2. process_scancode(d, k) = Completed(Simple(d, k, TRUE), TRUE)
    BY ScanOfSimple, Zenon
  <1>3. process_scancode(d, k).kh = Simple(d, k, TRUE).kh
    BY <1>1, <1>2, Zenon
  <1>4. Follows(d, k, TRUE, Simple(d, k, TRUE).kh)
    BY SimpleFollows
  <1>5. QED
    BY <1>3, <1>4, Zenon DEF next

\* Out of a pause sequence first.
LEMMA OutOfPauseScan ==
    ASSUME NEW d \in KH, "EXTENDED" \notin d.internal, NEW k \in 0 .. 127, k # \h61
    PROVE  LET e == Simple(OutOfPause(d), k, FALSE).kh
           IN  Follows(d, k, FALSE, e) /\ ~Pausing(e)
  <1> DEFINE out == OutOfPause(d)
             e == Simple(out, k, FALSE).kh
  <1>1. /\ out \in KH /\ out.state = d.state
        /\ out.internal = d.internal \ {"PAUSE"}
    BY OutOfPauseIs, Zenon
  <1>2. "EXTENDED" \notin out.internal
    BY <1>1
  <1> HIDE DEF out
  <1>3. Follows(out, k, FALSE, e)
    BY <1>1, <1>2, SimpleFollows
  <1> HIDE DEF e
  <1>4. Follows(d, k, FALSE, e) /\ ~Pausing(e)
    BY <1>1, <1>3 DEF Follows, Quiet, Pausing, Stage
  <1>5. QED
    BY <1>4, Zenon DEF e, out

\* every break but three,
LEMMA BreakScan ==
    ASSUME NEW d \in KH, "EXTENDED" \notin d.internal, NEW k \in 0 .. 127, NEW c,
           c = k + 128, c \notin {\h9D, \hC5, \hE0}
    PROVE  Follows(d, k, FALSE, next(d, c))
  <1>1. \A st, q : Completed(st, q).kh = st.kh
    BY DEF Completed
  <1>2. process_scancode(d, c) = Completed(Simple(d, k, FALSE), FALSE)
    BY ScanOfSimple, Zenon
  <1>3. process_scancode(d, c).kh = Simple(d, k, FALSE).kh
    <2>1. Completed(Simple(d, k, FALSE), FALSE).kh = Simple(d, k, FALSE).kh
      BY <1>1, Zenon
    <2>2. QED
      BY <1>2, <2>1
  <1>4. Follows(d, k, FALSE, Simple(d, k, FALSE).kh)
    BY SimpleFollows
  <1>5. QED
    BY <1>3, <1>4, Zenon DEF next

\* the left control's break, after which no sequence is half way through,
LEMMA LeftReleaseScan ==
    ASSUME NEW d \in KH, "EXTENDED" \notin d.internal
    PROVE  Follows(d, \h1D, FALSE, next(d, \h9D)) /\ Quiet(next(d, \h9D))
  <1>1. \A st, q : Completed(st, q).kh = st.kh
    BY DEF Completed
  <1> DEFINE e == next(d, \h9D)
  <1>2. CASE Stage(d, 3)
    <2>1. process_scancode(d, \h9D) = Returned(NextInPause(d), {})
      BY <1>2, LeftReleaseInPause
    <2>2. e = [d EXCEPT !.sequence = @ + 1]
      BY <2>1 DEF next, Returned, NextInPause, Step
    <2> HIDE DEF e
    <2>3. /\ e \in KH /\ e.state = d.state /\ e.internal = d.internal /\ e.sequence = 4
      BY <1>2, <2>2 DEF KH, Stage
    <2>4. ~Quiet(d) /\ Pausing(d) /\ Quiet(e)
      BY <1>2, <2>3 DEF Quiet, Stage, Pausing
    <2>5. SimpleBits(d.state, \h1D, FALSE) = d.state \ {"LCONTROL"}
      BY DEF SimpleBits, Switched
    <2>6. Follows(d, \h1D, FALSE, e)
      BY <2>3, <2>4, <2>5 DEF Follows
    <2>7. QED
      BY <2>4, <2>6, Zenon DEF e
  <1>3. CASE ~Stage(d, 3)
    <2>1. process_scancode(d, \h9D) = Completed(Simple(OutOfPause(d), \h1D, FALSE), FALSE)
      BY <1>3, LeftRelease
    <2>2. e = Simple(OutOfPause(d), \h1D, FALSE).kh
      BY <1>1, <2>1, ZenonT(60) DEF next
    <2>3. Follows(d, \h1D, FALSE, e) /\ ~Pausing(e)
      <3>1. \h1D \in 0 .. 127 /\ \h1D # \h61
        OBVIOUS
      <3>2. QED
        BY <2>2, <3>1, OutOfPauseScan, ZenonT(60)
    <2> HIDE DEF e
    <2>4. Quiet(e)
      BY <2>3 DEF Quiet
    <2>5. QED
      BY <2>3, <2>4, Zenon DEF e
  <1>4. QED
    BY <1>2, <1>3, Zenon

\* the num lock's break, which ends every sequence,
LEMMA NumReleaseScan ==
    ASSUME NEW d \in KH, "EXTENDED" \notin d.internal
    PROVE  Follows(d, \h45, FALSE, next(d, \hC5)) /\ ~Pausing(next(d, \hC5))
  <1>1. \A st, q : Completed(st, q).kh = st.kh
    BY DEF Completed
  <1> DEFINE e == next(d, \hC5)
  <1>2. CASE Stage(d, 4)
    <2>1. e = [d EXCEPT !.internal = @ \ {"PAUSE"}]
      BY <1>2, NumReleaseInPause
    <2> HIDE DEF e
    <2>2. /\ e \in KH /\ e.state = d.state /\ e.internal = d.internal \ {"PAUSE"}
      BY <2>1 DEF KH
    <2>3. ~Pausing(e) /\ Quiet(e)
      BY <2>2 DEF Quiet, Pausing
    <2>4. SimpleBits(d.state, \h45, FALSE) = d.state
      BY DEF SimpleBits, Toggled
    <2>5. Follows(d, \h45, FALSE, e)
      BY <2>2, <2>3, <2>4 DEF Follows
    <2>6. QED
      BY <2>3, <2>5, Zenon DEF e
  <1>3. CASE ~Stage(d, 4)
    <2>1. process_scancode(d, \hC5) = Completed(Simple(OutOfPause(d), \h45, FALSE), FALSE)
      BY <1>3, NumRelease
    <2>2. e = Simple(OutOfPause(d), \h45, FALSE).kh
      BY <1>1, <2>1, ZenonT(60) DEF next
    <2>3. Follows(d, \h45, FALSE, e) /\ ~Pausing(e)
      <3>1. \h45 \in 0 .. 127 /\ \h45 # \h61
        OBVIOUS
      <3>2. QED
        BY <2>2, <3>1, OutOfPauseScan, ZenonT(60)
    <2>4. QED
      BY <2>3, Zenon DEF e
  <1>4. QED
    BY <1>2, <1>3, Zenon

\* and all the breaks together.
LEMMA BreaksFollow ==
    ASSUME NEW d \in KH, "EXTENDED" \notin d.internal, NEW k \in 0 .. 127, NEW c,
           c = k + 128, c # \hE0
    PROVE  Follows(d, k, FALSE, next(d, c))
  <1>1. CASE c = \h9D
    <2>1. k = \h1D
      BY <1>1
    <2>2. Follows(d, \h1D, FALSE, next(d, \h9D))
      BY LeftReleaseScan
    <2>3. QED
      BY <1>1, <2>1, <2>2
  <1>2. CASE c = \hC5
    <2>1. k = \h45
      BY <1>2
    <2>2. Follows(d, \h45, FALSE, next(d, \hC5))
      BY NumReleaseScan
    <2>3. QED
      BY <1>2, <2>1, <2>2
  <1>3. CASE c \notin {\h9D, \hC5, \hE0}
    BY <1>3, BreakScan, Zenon
  <1>4. QED
    BY <1>1, <1>2, <1>3

-----------------------------------------------------------------------------
(* What is said. *)

\* No break has a character.
LEMMA BreaksSayNothing ==
    ASSUME NEW d \in KH, "EXTENDED" \notin d.internal, NEW k \in 0 .. 127, NEW c,
           c = k + 128, c # \hE0
    PROVE  says(d, c) = NUL
  <1>1. says(d, \h9D) = NUL
    <2>1. CASE Stage(d, 3)
      <3>1. process_scancode(d, \h9D) = Returned(NextInPause(d), {})
        BY <2>1, LeftReleaseInPause
      <3>2. QED
        BY <3>1, Answers, ZenonT(60) DEF says
    <2>2. CASE ~Stage(d, 3)
      <3>1. process_scancode(d, \h9D) = Completed(Simple(OutOfPause(d), \h1D, FALSE), FALSE)
        BY <2>2, LeftRelease
      <3>2. QED
        BY <3>1, Answers, ZenonT(60) DEF says
    <2>3. QED
      BY <2>1, <2>2, Zenon
  <1>2. says(d, \hC5) = NUL
    BY NumReleaseSays
  <1>3. CASE c \notin {\h9D, \hC5, \hE0}
    <2>1. process_scancode(d, c) = Completed(Simple(d, k, FALSE), FALSE)
      BY <1>3, ScanOfSimple, Zenon
    <2>2. QED
      BY <2>1, Answers, Zenon DEF says
  <1>4. QED
    BY <1>1, <1>2, <1>3

\* A make has the character of its key and of the column of the bits.
LEMMA MakesSay ==
    ASSUME NEW d \in KH, "EXTENDED" \notin d.internal, NEW k \in 0 .. 127
    PROVE  /\ k \in Characters => says(d, k) = <<k, Column(d, k)>>
           /\ k \notin Characters => says(d, k) = NUL
  <1>1. PICK b \in KH : /\ Simple(d, k, TRUE) = process_simple_scan(b, k, TRUE)
                        /\ b.state = d.state /\ b.sequence = d.sequence
                        /\ b.internal = d.internal \ {"PRSCR_UP", "PRSCR_DOWN"}
    BY SimpleIs, Zenon
  <1> DEFINE st == process_simple_scan(b, k, TRUE)
  <1>2. process_scancode(d, k) = Completed(st, TRUE)
    <2>1. process_scancode(d, k) = Completed(Simple(d, k, TRUE), TRUE)
      BY ScanOfSimple, Zenon
    <2>2. QED
      BY <1>1, <2>1, Zenon
  <1> HIDE DEF st
  <1>3. says(d, k) = IF st.res.hasdata THEN st.res.char ELSE NUL
    BY <1>2, Answers, Zenon DEF says
  <1>4. CASE k \in Characters
    <2>1. st = Step(b, Result(<<k, Column(b, k)>>, <<k, "u">>, k \in Numpad))
      <3>1. k \notin {\h1D, \h2A, \h36, \h38, \h3A, \h45, \h61}
        BY <1>4, SpecialKeys
      <3>2. QED
        BY <1>4, <3>1 DEF st, Characters, process_simple_scan
    <2>2. <<k, Column(b, k)>> # UNDEFINED /\ <<k, "u">> # UNDEFINED
      BY NotUndefined
    <2>3. st.res.hasdata /\ st.res.char = <<k, Column(b, k)>>
      BY <2>1, <2>2, Spoken
    <2>4. Column(b, k) = Column(d, k)
      BY <1>1 DEF Column, KHS_SHIFT, KHS_SHIFTCTL, KHS_SHIFTCAPSCTL, KHS_SHIFT_CORE, KHS_CTL_CORE
    <2>5. QED
      BY <1>3, <1>4, <2>3, <2>4
  <1>5. CASE k \notin Characters
    <2>1. ~st.res.hasdata
      BY <1>5, SpecialKeys DEF st, Characters, process_simple_scan, LeftControl, NumLock,
                                   PausePrefix,
         ModifierKey, LockKey, NextInPause, Step, Result, Nothing
    <2>2. QED
      BY <1>3, <1>5, <2>1
  <1>6. QED
    BY <1>4, <1>5

-----------------------------------------------------------------------------
(* Runs of the decoder over a sequence of scancodes.                       *)

Said == {NUL, PRINT_SCREEN} \cup {Extended(k) : k \in Grey} \cup (Characters \X {"u", "s", "cc"})
Item == [code : Byte, means : Said]

\* ks are the states of the decoder before and after each scancode of s.
Run(s, ks, lossy) ==
    /\ ks \in [1 .. Len(s) + 1 -> KH]
    /\ \A i \in 1 .. Len(s) :
           /\ ks[i + 1] = next(ks[i], s[i].code)
           /\ lossy = FALSE => says(ks[i], s[i].code) = s[i].means
Decodes(s, d, f, lossy) ==
    \E ks : Run(s, ks, lossy) /\ ks[1] = d /\ ks[Len(s) + 1] = f

\* The decoder stays a decoder, whatever byte it is given.
LEMMA NextInKH ==
    ASSUME NEW d \in KH, NEW c \in Byte
    PROVE  next(d, c) \in KH
  <1>1. CASE "EXTENDED" \in d.internal
    BY <1>1, ExtendedScan
  <1>2. CASE "EXTENDED" \notin d.internal /\ c = \hE0
    BY <1>2, PrefixScan
  <1>3. CASE "EXTENDED" \notin d.internal /\ c < 128
    <2>1. c \in 0 .. 127
      BY <1>3 DEF Byte
    <2>2. Follows(d, c, TRUE, next(d, c))
      BY <1>3, <2>1, MakeScan
    <2>3. QED
      BY <2>2 DEF Follows
  <1>4. CASE "EXTENDED" \notin d.internal /\ c # \hE0 /\ c >= 128
    <2>1. PICK k \in 0 .. 127 : c = k + 128
      <3>1. c - 128 \in 0 .. 127 /\ c = (c - 128) + 128
        BY <1>4 DEF Byte
      <3>2. QED
        BY <3>1
    <2>2. Follows(d, k, FALSE, next(d, c))
      BY <1>4, <2>1, BreaksFollow
    <2>3. QED
      BY <2>2 DEF Follows
  <1>5. QED
    BY <1>1, <1>2, <1>3, <1>4 DEF Byte

\* Nothing to decode leaves the decoder where it is.
LEMMA DecodesNothing ==
    ASSUME NEW d \in KH, NEW lossy
    PROVE  Decodes(<<>>, d, d, lossy)
  <1>1. Run(<<>>, [i \in 1 .. 1 |-> d], lossy)
    BY DEF Run
  <1>2. QED
    BY <1>1 DEF Decodes

\* One more at the end.
LEMMA DecodesMore ==
    ASSUME NEW s \in Seq(Item), NEW x \in Item, NEW d, NEW f \in KH, NEW lossy,
           Decodes(s, d, f, lossy), lossy = FALSE => says(f, x.code) = x.means
    PROVE  Decodes(Append(s, x), d, next(f, x.code), lossy)
  <1>1. PICK ks : Run(s, ks, lossy) /\ ks[1] = d /\ ks[Len(s) + 1] = f
    BY DEF Decodes
  <1> DEFINE n == Len(s)
             t == Append(s, x)
             g == next(f, x.code)
             js == [i \in 1 .. n + 2 |-> IF i = n + 2 THEN g ELSE ks[i]]
  <1>2. /\ n \in Nat /\ Len(t) = n + 1 /\ t[n + 1] = x
        /\ \A i \in 1 .. n : t[i] = s[i]
    OBVIOUS
  <1>3. g \in KH
    BY NextInKH DEF Item
  <1>4. ks \in [1 .. n + 1 -> KH]
    BY <1>1 DEF Run
  <1>5. /\ \A i \in 1 .. n : ks[i + 1] = next(ks[i], s[i].code)
        /\ lossy = FALSE => \A i \in 1 .. n : says(ks[i], s[i].code) = s[i].means
    BY <1>1 DEF Run
  <1> HIDE DEF g, n, t
  <1>6. js \in [1 .. Len(t) + 1 -> KH]
    BY <1>2, <1>3, <1>4
  <1>7. ASSUME NEW i \in 1 .. Len(t)
        PROVE  /\ js[i + 1] = next(js[i], t[i].code)
               /\ lossy = FALSE => says(js[i], t[i].code) = t[i].means
    <2>1. CASE i = n + 1
      <3>1. js[i] = f /\ t[i] = x /\ js[i + 1] = g
        BY <1>1, <1>2, <2>1 DEF n
      <3>2. QED
        BY <3>1 DEF g
    <2>2. CASE i \in 1 .. n
      <3>1. js[i] = ks[i] /\ t[i] = s[i] /\ js[i + 1] = ks[i + 1]
        BY <1>2, <2>2
      <3>2. QED
        BY <1>5, <2>2, <3>1
    <2>3. i = n + 1 \/ i \in 1 .. n
      BY <1>2
    <2>4. QED
      BY <2>1, <2>2, <2>3
  <1>8. Run(t, js, lossy)
    BY <1>6, <1>7 DEF Run
  <1>9. js[1] = d /\ js[Len(t) + 1] = g
    BY <1>1, <1>2
  <1> HIDE DEF js
  <1>10. Decodes(t, d, g, lossy)
    BY <1>8, <1>9 DEF Decodes
  <1>11. QED
    BY <1>10 DEF t, g

\* One less at the beginning.
LEMMA DecodesRest ==
    ASSUME NEW s \in Seq(Item), s # <<>>, NEW d, NEW f, NEW lossy, Decodes(s, d, f, lossy)
    PROVE  /\ d \in KH /\ next(d, Head(s).code) \in KH
           /\ Decodes(Tail(s), next(d, Head(s).code), f, lossy)
           /\ lossy = FALSE => says(d, Head(s).code) = Head(s).means
  <1>1. PICK ks : Run(s, ks, lossy) /\ ks[1] = d /\ ks[Len(s) + 1] = f
    BY DEF Decodes
  <1> DEFINE n == Len(s)
             t == Tail(s)
             js == [i \in 1 .. n |-> ks[i + 1]]
  <1>2. /\ n \in Nat \ {0} /\ Len(t) = n - 1 /\ Head(s) = s[1]
        /\ \A i \in 1 .. n - 1 : t[i] = s[i + 1]
    BY HeadTailProperties, EmptySeq
  <1>3. ks \in [1 .. n + 1 -> KH]
    BY <1>1 DEF Run
  <1>4. /\ \A i \in 1 .. n : ks[i + 1] = next(ks[i], s[i].code)
        /\ lossy = FALSE => \A i \in 1 .. n : says(ks[i], s[i].code) = s[i].means
    BY <1>1 DEF Run
  <1>5. /\ d \in KH /\ next(d, Head(s).code) = ks[2] /\ ks[2] \in KH
        /\ lossy = FALSE => says(d, Head(s).code) = Head(s).means
    BY <1>1, <1>2, <1>3, <1>4
  <1> HIDE DEF n, t
  <1>6. js \in [1 .. Len(t) + 1 -> KH]
    BY <1>2, <1>3
  <1>7. ASSUME NEW i \in 1 .. Len(t)
        PROVE  /\ js[i + 1] = next(js[i], t[i].code)
               /\ lossy = FALSE => says(js[i], t[i].code) = t[i].means
    <2>1. js[i] = ks[i + 1] /\ t[i] = s[i + 1] /\ js[i + 1] = ks[(i + 1) + 1] /\ i + 1 \in 1 .. n
      BY <1>2
    <2>2. QED
      BY <1>4, <2>1
  <1>8. Run(t, js, lossy)
    BY <1>6, <1>7 DEF Run
  <1>9. js[1] = ks[2] /\ js[Len(t) + 1] = f
    BY <1>1, <1>2 DEF n
  <1> HIDE DEF js
  <1>10. Decodes(t, ks[2], f, lossy)
    BY <1>8, <1>9 DEF Decodes
  <1>11. QED
    BY <1>5, <1>10 DEF t

\* Once a scancode is lost, what the others mean does not matter.
LEMMA DecodesAnyway ==
    ASSUME NEW s, NEW d, NEW f, NEW lossy, Decodes(s, d, f, lossy)
    PROVE  Decodes(s, d, f, TRUE)
  <1>1. PICK ks : Run(s, ks, lossy) /\ ks[1] = d /\ ks[Len(s) + 1] = f
    BY DEF Decodes
  <1>2. Run(s, ks, TRUE)
    BY <1>1 DEF Run
  <1>3. QED
    BY <1>1, <1>2 DEF Decodes

\* Whatever it is sent, the decoder goes on.
Total(n) == \A s \in Seq(Item) : Len(s) <= n =>
                \A d \in KH : \E f \in KH : Decodes(s, d, f, TRUE)

\* One more scancode.
LEMMA TotalOfOneMore ==
    ASSUME NEW n \in Nat, Total(n)
    PROVE  Total(n + 1)
  <1> SUFFICES ASSUME NEW s \in Seq(Item), Len(s) <= n + 1, NEW d \in KH
               PROVE  \E f \in KH : Decodes(s, d, f, TRUE)
    BY DEF Total
  <1>1. CASE Len(s) <= n
    BY <1>1 DEF Total
  <1>2. CASE Len(s) = n + 1
    <2>1. PICK t \in Seq(Item), x \in Item : s = Append(t, x) /\ Len(t) = n
      <3> DEFINE t == SubSeq(s, 1, n)
                 x == s[n + 1]
      <3>1. x \in Item /\ \A i \in 1 .. n : s[i] \in Item
        BY <1>2, ElementOfSeq
      <3>2. t \in Seq(Item) /\ Len(t) = n /\ \A i \in 1 .. n : t[i] = s[i]
        BY <3>1, SubSeqProperties
      <3> HIDE DEF t, x
      <3>3. /\ Append(t, x) \in Seq(Item) /\ Len(Append(t, x)) = n + 1
            /\ \A i \in 1 .. n + 1 : Append(t, x)[i] = IF i <= n THEN t[i] ELSE x
        BY <3>1, <3>2
      <3>4. \A i \in 1 .. Len(s) : s[i] = Append(t, x)[i]
        BY <1>2, <3>2, <3>3 DEF x
      <3>5. s = Append(t, x)
        BY <1>2, <3>3, <3>4, SeqEqual
      <3>6. QED
        BY <3>1, <3>2, <3>5
    <2>2. PICK f \in KH : Decodes(t, d, f, TRUE)
      <3>1. Len(t) <= n
        BY <2>1
      <3>2. QED
        BY <3>1 DEF Total
    <2>3. x.code \in Byte
      BY DEF Item
    <2>4. Decodes(s, d, next(f, x.code), TRUE)
      BY <2>1, <2>2, DecodesMore
    <2>5. QED
      BY <2>3, <2>4, NextInKH
  <1>3. Len(s) \in Nat
    OBVIOUS
  <1>4. Len(s) <= n \/ Len(s) = n + 1
    BY <1>3
  <1>5. QED
    BY <1>1, <1>2, <1>4, Zenon

\* No key sends more than six: it goes on after all of them.
LEMMA TotalOfAll == Total(6)
  <1>1. Total(0)
    <2>1. \A s \in Seq(Item) : Len(s) <= 0 => s = <<>>
      BY EmptySeq
    <2>2. QED
      BY <2>1, DecodesNothing DEF Total
  <1>2. \A n \in Nat : Total(n) => Total(n + 1)
    BY TotalOfOneMore
  <1>3. Total(1)
    <2>1. Total(0 + 1)
      BY <1>1, <1>2
    <2>2. QED
      BY <2>1
  <1>4. Total(2)
    <2>1. Total(1 + 1)
      BY <1>2, <1>3
    <2>2. QED
      BY <2>1
  <1>5. Total(3)
    <2>1. Total(2 + 1)
      BY <1>2, <1>4
    <2>2. QED
      BY <2>1
  <1>6. Total(4)
    <2>1. Total(3 + 1)
      BY <1>2, <1>5
    <2>2. QED
      BY <2>1
  <1>7. Total(5)
    <2>1. Total(4 + 1)
      BY <1>2, <1>6
    <2>2. QED
      BY <2>1
  <1>8. Total(6)
    <2>1. Total(5 + 1)
      BY <1>2, <1>7
    <2>2. QED
      BY <2>1
  <1>9. QED
    BY <1>8

-----------------------------------------------------------------------------
(* The sequence of Pause, from a decoder at rest.                          *)

\* What is left of a pause sequence is its stage.
InStage(d, bits, n) ==
    d \in KH /\ d.state = bits /\ d.internal = {"PAUSE"} /\ d.sequence = n

\* The pause prefix is a break to process_scancode.
LEMMA PrefixOfPause ==
    ASSUME NEW d \in KH, "EXTENDED" \notin d.internal
    PROVE  /\ process_scancode(d, \hE1) = Completed(Simple(d, \h61, FALSE), FALSE)
           /\ says(d, \hE1) = NUL
  <1>1. \h61 \in 0 .. 127
    OBVIOUS
  <1>2. ASSUME NEW c, c = \hE1
        PROVE  /\ process_scancode(d, c) = Completed(Simple(d, \h61, FALSE), FALSE)
               /\ says(d, c) = NUL
    <2>1. c = \h61 + 128 /\ c \notin {\h9D, \hC5, \hE0} /\ c # \hE0
      BY <1>2
    <2>2. process_scancode(d, c) = Completed(Simple(d, \h61, FALSE), FALSE)
      BY <1>1, <2>1, ScanOfSimple, Zenon
    <2>3. says(d, c) = NUL
      BY <1>1, <2>1, BreaksSayNothing, Zenon
    <2>4. QED
      BY <2>2, <2>3, Zenon
  <1>3. QED
    BY <1>2, Zenon

\* It begins a sequence.
LEMMA PauseBegins ==
    ASSUME NEW d \in KH, "EXTENDED" \notin d.internal, ~Pausing(d)
    PROVE  InStage(next(d, \hE1), d.state, 0) /\ says(d, \hE1) = NUL
  <1>0. \h61 \in 0 .. 127
    OBVIOUS
  <1>1. process_scancode(d, \hE1) = Completed(Simple(d, \h61, FALSE), FALSE)
    BY PrefixOfPause, Zenon
  <1>2. PICK b \in KH : /\ Simple(d, \h61, FALSE) = process_simple_scan(b, \h61, FALSE)
                        /\ b.state = d.state /\ b.sequence = d.sequence
                        /\ b.internal = d.internal \ {"PRSCR_UP", "PRSCR_DOWN"}
    BY <1>0, SimpleIs, Zenon
  <1>3. \A st, q : Completed(st, q).kh = st.kh
    BY DEF Completed
  <1>4. process_simple_scan(b, \h61, FALSE) = PausePrefix(b)
    BY SpecialKeys DEF Characters, process_simple_scan
  <1>5. PausePrefix(b).kh = [b EXCEPT !.internal = @ \cup {"PAUSE"}, !.sequence = 0]
    <2>1. "PAUSE" \notin b.internal
      BY <1>2 DEF Pausing
    <2>2. PausePrefix(b) = Step([b EXCEPT !.internal = @ \cup {"PAUSE"}, !.sequence = 0], Nothing)
      BY <2>1 DEF PausePrefix, InPause
    <2>3. QED
      BY <2>2 DEF Step
  <1>6. next(d, \hE1) = PausePrefix(b).kh
    <2>1. process_scancode(d, \hE1) = Completed(PausePrefix(b), FALSE)
      BY <1>1, <1>2, <1>4, Zenon
    <2>2. QED
      BY <1>3, <2>1, ZenonT(60) DEF next
  <1> DEFINE e == next(d, \hE1)
  <1>7. e = [b EXCEPT !.internal = @ \cup {"PAUSE"}, !.sequence = 0]
    BY <1>5, <1>6, Zenon
  <1> HIDE DEF e
  <1>8. d.internal \subseteq Internal
    BY DEF KH
  <1>9. b.internal \cup {"PAUSE"} = {"PAUSE"}
    BY <1>2, <1>8 DEF Internal
  <1>10. InStage(e, d.state, 0)
    BY <1>2, <1>7, <1>9 DEF InStage, KH, Internal
  <1>11. says(d, \hE1) = NUL
    BY PrefixOfPause, Zenon
  <1>12. QED
    BY <1>10, <1>11, Zenon DEF e

\* In a stage, nothing is left of a PRINT SCREEN.
LEMMA InStageSimple ==
    ASSUME NEW d, NEW bits, NEW n, InStage(d, bits, n), NEW k, NEW p
    PROVE  Simple(d, k, p) = process_simple_scan(d, k, p)
  <1> DEFINE b == [d EXCEPT !.internal = @ \ {"PRSCR_UP", "PRSCR_DOWN"}]
  <1>1. b = d
    <2>1. d.internal \ {"PRSCR_UP", "PRSCR_DOWN"} = d.internal
      BY DEF InStage
    <2>2. QED
      BY <2>1 DEF InStage, KH
  <1>2. Simple(d, k, p) = process_simple_scan(b, k, p)
    BY Zenon DEF Simple
  <1> HIDE DEF b
  <1>3. QED
    BY <1>1, <1>2, Zenon

\* The next stage of a sequence.
LEMMA StageOn ==
    ASSUME NEW d, NEW bits, NEW n \in Nat, InStage(d, bits, n)
    PROVE  /\ InStage(NextInPause(d).kh, bits, n + 1)
           /\ InPause(d, n) /\ "PAUSE" \in d.internal /\ "EXTENDED" \notin d.internal
           /\ d \in KH /\ Stage(d, n) /\ Pausing(d)
  BY DEF InStage, NextInPause, Step, KH, InPause, Stage, Pausing

\* The two makes of a sequence.
LEMMA PauseMakes ==
    ASSUME NEW d, NEW bits
    PROVE  /\ InStage(d, bits, 0) => InStage(next(d, \h1D), bits, 1) /\ says(d, \h1D) = NUL
           /\ InStage(d, bits, 1) => InStage(next(d, \h45), bits, 2) /\ says(d, \h45) = NUL
  <1>1. \A st, q : Completed(st, q).kh = st.kh
    BY DEF Completed
  <1>2. ASSUME InStage(d, bits, 0)
        PROVE  InStage(next(d, \h1D), bits, 1) /\ says(d, \h1D) = NUL
    <2>0. \h1D \in 0 .. 127 /\ \h1D \notin Characters
      BY SpecialKeys
    <2>1. d \in KH /\ "EXTENDED" \notin d.internal /\ InPause(d, 0)
      BY <1>2, StageOn
    <2>2. process_scancode(d, \h1D) = Completed(Simple(d, \h1D, TRUE), TRUE)
      BY <2>0, <2>1, ScanOfSimple, Zenon
    <2>3. Simple(d, \h1D, TRUE) = process_simple_scan(d, \h1D, TRUE)
      BY <1>2, InStageSimple, Zenon
    <2>4. \A p : process_simple_scan(d, \h1D, p) = NextInPause(d)
      BY <2>1, SpecialKeys DEF Characters, process_simple_scan, LeftControl
    <2>5. next(d, \h1D) = NextInPause(d).kh
      <3>1. process_scancode(d, \h1D) = Completed(NextInPause(d), TRUE)
        BY <2>2, <2>3, <2>4, Zenon
      <3>2. QED
        BY <1>1, <3>1, Zenon DEF next
    <2>6. InStage(NextInPause(d).kh, bits, 1)
      BY <1>2, StageOn
    <2>7. says(d, \h1D) = NUL
      BY <2>0, <2>1, MakesSay, Zenon
    <2>8. QED
      BY <2>5, <2>6, <2>7, Zenon
  <1>3. ASSUME InStage(d, bits, 1)
        PROVE  InStage(next(d, \h45), bits, 2) /\ says(d, \h45) = NUL
    <2>0. \h45 \in 0 .. 127 /\ \h45 \notin Characters
      BY SpecialKeys
    <2>1. d \in KH /\ "EXTENDED" \notin d.internal /\ InPause(d, 1)
      BY <1>3, StageOn
    <2>2. process_scancode(d, \h45) = Completed(Simple(d, \h45, TRUE), TRUE)
      BY <2>0, <2>1, ScanOfSimple, Zenon
    <2>3. Simple(d, \h45, TRUE) = process_simple_scan(d, \h45, TRUE)
      BY <1>3, InStageSimple, Zenon
    <2>4. \A p : process_simple_scan(d, \h45, p) = NextInPause(d)
      BY <2>1, SpecialKeys DEF Characters, process_simple_scan, NumLock
    <2>5. next(d, \h45) = NextInPause(d).kh
      <3>1. process_scancode(d, \h45) = Completed(NextInPause(d), TRUE)
        BY <2>2, <2>3, <2>4, Zenon
      <3>2. QED
        BY <1>1, <3>1, Zenon DEF next
    <2>6. InStage(NextInPause(d).kh, bits, 2)
      BY <1>3, StageOn
    <2>7. says(d, \h45) = NUL
      BY <2>0, <2>1, MakesSay, Zenon
    <2>8. QED
      BY <2>5, <2>6, <2>7, Zenon
  <1>4. QED
    BY <1>2, <1>3, Zenon

\* The second prefix of a sequence.
LEMMA PausePrefixAgain ==
    ASSUME NEW d, NEW bits, InStage(d, bits, 2)
    PROVE  InStage(next(d, \hE1), bits, 3) /\ says(d, \hE1) = NUL
  <1>1. d \in KH /\ "EXTENDED" \notin d.internal /\ InPause(d, 2) /\ "PAUSE" \in d.internal
    BY StageOn
  <1>2. process_scancode(d, \hE1) = Completed(Simple(d, \h61, FALSE), FALSE)
    BY <1>1, PrefixOfPause, Zenon
  <1>3. Simple(d, \h61, FALSE) = process_simple_scan(d, \h61, FALSE)
    BY InStageSimple, Zenon
  <1>4. \A p : process_simple_scan(d, \h61, p) = NextInPause(d)
    BY <1>1, SpecialKeys DEF Characters, process_simple_scan, PausePrefix
  <1>5. \A st, q : Completed(st, q).kh = st.kh
    BY DEF Completed
  <1>6. next(d, \hE1) = NextInPause(d).kh
    <2>1. process_scancode(d, \hE1) = Completed(NextInPause(d), FALSE)
      BY <1>2, <1>3, <1>4, Zenon
    <2>2. QED
      BY <1>5, <2>1, ZenonT(60) DEF next
  <1>7. InStage(NextInPause(d).kh, bits, 3)
    BY StageOn
  <1>8. says(d, \hE1) = NUL
    BY <1>1, PrefixOfPause, Zenon
  <1>9. QED
    BY <1>6, <1>7, <1>8, Zenon

\* The two breaks of a sequence; the last ends it.
LEMMA PauseBreaks ==
    ASSUME NEW d, NEW bits
    PROVE  /\ InStage(d, bits, 3) => InStage(next(d, \h9D), bits, 4) /\ says(d, \h9D) = NUL
           /\ InStage(d, bits, 4) => /\ next(d, \hC5).state = bits /\ next(d, \hC5).internal = {}
                                     /\ says(d, \hC5) = NUL
  <1>1. ASSUME InStage(d, bits, 3)
        PROVE  InStage(next(d, \h9D), bits, 4) /\ says(d, \h9D) = NUL
    <2>1. d \in KH /\ "EXTENDED" \notin d.internal /\ Stage(d, 3)
      BY <1>1, StageOn
    <2>2. process_scancode(d, \h9D) = Returned(NextInPause(d), {})
      BY <2>1, LeftReleaseInPause
    <2>3. \A st, bs : Returned(st, bs).kh = st.kh
      BY DEF Returned
    <2>4. next(d, \h9D) = NextInPause(d).kh
      BY <2>2, <2>3, Zenon DEF next
    <2>5. InStage(NextInPause(d).kh, bits, 4)
      BY <1>1, StageOn
    <2>6. says(d, \h9D) = NUL
      BY <2>2, Answers, Zenon DEF says
    <2>7. QED
      BY <2>4, <2>5, <2>6, Zenon
  <1>2. ASSUME InStage(d, bits, 4)
        PROVE  /\ next(d, \hC5).state = bits /\ next(d, \hC5).internal = {}
               /\ says(d, \hC5) = NUL
    <2>1. d \in KH /\ "EXTENDED" \notin d.internal /\ Stage(d, 4)
      BY <1>2, StageOn
    <2>2. next(d, \hC5) = [d EXCEPT !.internal = @ \ {"PAUSE"}]
      BY <2>1, NumReleaseInPause
    <2>3. d.internal \ {"PAUSE"} = {} /\ d.state = bits
      BY <1>2 DEF InStage
    <2>4. QED
      BY <2>1, <2>2, <2>3, NumReleaseSays DEF KH
  <1>3. QED
    BY <1>1, <1>2, Zenon

-----------------------------------------------------------------------------
(* The effect of a key: what its scancodes, all together, make of a        *)
(* decoder in whatever state.                                              *)

ModifierKeys == {KeyOf(m) : m \in Modifier}

\* What pressing or releasing a key makes of the bits of an undisturbed decoder.
KeyBits(bits, key, p) ==
    IF key.e0 THEN ExtendedBits(bits, key.code, p) ELSE SimpleBits(bits, key.code, p)

\* g is what the scancodes of a key that is pressed, or released, make of d.
Effect(d, key, p, g) ==
    /\ g \in KH
    /\ p /\ key \in ModifierKeys => "EXTENDED" \notin g.internal
    /\ "EXTENDED" \notin d.internal =>
           /\ "EXTENDED" \notin g.internal
           /\ \A m \in Modifier \ {"LCONTROL"} : m \in g.state <=> m \in KeyBits(d.state, key, p)
           /\ Quiet(d) => Quiet(g)
           /\ ~Pausing(d) => ~Pausing(g) /\ g.state = KeyBits(d.state, key, p)
           /\ key = KeyOf("LCONTROL") /\ p /\ Quiet(d) =>
                  ~Pausing(g) /\ g.state = KeyBits(d.state, key, p)
           /\ key = KeyOf("LCONTROL") /\ ~p => Quiet(g)
    /\ d.internal = {} => g.internal = {}

\* What an undisturbed decoder says to the last scancode of a key.
Heard(d, key) ==
    CASE key = PrintScreenKey -> PRINT_SCREEN
      [] key.e0 /\ key.code \in Grey -> Extended(key.code)
      [] ~key.e0 /\ key.code \in Characters -> <<key.code, Column(d, key.code)>>
      [] OTHER -> NUL

\* The modifiers' keys, code by code.
LEMMA ModifierKeysAre ==
    /\ ModifierKeys = {[e0 |-> FALSE, code |-> \h2A], [e0 |-> FALSE, code |-> \h36],
                       [e0 |-> FALSE, code |-> \h1D], [e0 |-> TRUE, code |-> \h1D],
                       [e0 |-> FALSE, code |-> \h38], [e0 |-> TRUE, code |-> \h38]}
    /\ KeyOf("LCONTROL") = [e0 |-> FALSE, code |-> \h1D]
    /\ KeyOf("LSHIFT") = [e0 |-> FALSE, code |-> \h2A]
    /\ KeyOf("RSHIFT") = [e0 |-> FALSE, code |-> \h36]
    /\ KeyOf("RCONTROL") = [e0 |-> TRUE, code |-> \h1D]
    /\ KeyOf("LALT") = [e0 |-> FALSE, code |-> \h38]
    /\ KeyOf("RALT") = [e0 |-> TRUE, code |-> \h38]
  BY DEF ModifierKeys, Modifier, KeyOf

\* The three kinds of keys, and Pause.
SimpleKeys == {key \in KeyboardKeys : ~key.e0 /\ key # PauseKey}
GreyKeys == {key \in KeyboardKeys : key.e0 /\ key # PrintScreenKey}

\* There are no other keys, and their codes are below 0x60.
LEMMA KeyKinds ==
    /\ KeyboardKeys = SimpleKeys \cup GreyKeys \cup {PrintScreenKey, PauseKey}
    /\ \A key \in SimpleKeys : key.code \in 1 .. \h5F /\ ~key.e0
    /\ \A key \in GreyKeys : key.code \in (1 .. \h5F) \ {\h2A, \h37} /\ key.e0
  <1>1. ASSUME NEW key \in KeyboardKeys
        PROVE  /\ key = PauseKey \/ (key.code \in 1 .. \h5F /\ key.e0 \in BOOLEAN)
               /\ key # [e0 |-> TRUE, code |-> \h2A]
               /\ key = [e0 |-> key.e0, code |-> key.code]
    <2>1. CASE key = PauseKey
      BY <2>1 DEF PauseKey
    <2>2. CASE key \in [e0 : BOOLEAN, code : 1 .. \h5F] /\ key # [e0 |-> TRUE, code |-> \h2A]
      BY <2>2
    <2>3. QED
      BY <2>1, <2>2 DEF KeyboardKeys
  <1>2. KeyboardKeys = SimpleKeys \cup GreyKeys \cup {PrintScreenKey, PauseKey}
    <2>1. PauseKey \in KeyboardKeys
      BY DEF KeyboardKeys
    <2>2. PrintScreenKey \in KeyboardKeys
      <3>1. PrintScreenKey.code # \h2A /\ PrintScreenKey \in [e0 : BOOLEAN, code : 1 .. \h5F]
        BY DEF PrintScreenKey
      <3>2. PrintScreenKey # [e0 |-> TRUE, code |-> \h2A]
        BY <3>1
      <3>3. QED
        BY <3>1, <3>2 DEF KeyboardKeys
    <2> HIDE DEF PauseKey, PrintScreenKey
    <2>3. QED
      BY <2>1, <2>2 DEF SimpleKeys, GreyKeys
  <1>3. ASSUME NEW key \in SimpleKeys
        PROVE  key.code \in 1 .. \h5F /\ ~key.e0
    BY <1>1 DEF SimpleKeys
  <1>4. ASSUME NEW key \in GreyKeys
        PROVE  key.code \in (1 .. \h5F) \ {\h2A, \h37} /\ key.e0
    <2>1. key.e0 = TRUE /\ key # PrintScreenKey /\ key \in KeyboardKeys /\ key # PauseKey
      <3>1. key.e0 /\ key # PrintScreenKey /\ key \in KeyboardKeys
        BY DEF GreyKeys
      <3>2. key # PauseKey
        BY <3>1 DEF PauseKey
      <3>3. key.e0 \in BOOLEAN
        BY <1>1, <3>1, <3>2
      <3>4. QED
        BY <3>1, <3>2, <3>3
    <2>2. key.code # \h2A
      BY <1>1, <2>1
    <2>3. key.code # \h37
      BY <1>1, <2>1 DEF PrintScreenKey
    <2>4. QED
      BY <1>1, <2>1, <2>2, <2>3
  <1>5. QED
    BY <1>2, <1>3, <1>4, Zenon

\* The make of a simple key.
LEMMA SimpleMakeEffect ==
    ASSUME NEW d \in KH, NEW key \in SimpleKeys
    PROVE  /\ Effect(d, key, TRUE, next(d, key.code))
           /\ d.internal = {} => says(d, key.code) = Heard(d, key)
  <1> DEFINE k == key.code
             g == next(d, k)
  <1>1. k \in 0 .. 127 /\ k \in Byte /\ k < 128 /\ k # \h61 /\ ~key.e0 /\ k # \hE0
    BY KeyKinds DEF Byte
  <1>2. KeyBits(d.state, key, TRUE) = SimpleBits(d.state, k, TRUE)
    BY <1>1, Zenon DEF KeyBits
  <1> HIDE DEF k
  <1>3. CASE "EXTENDED" \in d.internal
    <2>1. g \in KH /\ "EXTENDED" \notin g.internal
      BY <1>1, <1>3, ExtendedScan
    <2> HIDE DEF g
    <2>2. Effect(d, key, TRUE, g)
      BY <1>3, <2>1 DEF Effect
    <2>3. d.internal # {}
      BY <1>3
    <2>4. QED
      BY <2>2, <2>3, Zenon DEF g, k
  <1>4. CASE "EXTENDED" \notin d.internal
    <2>1. Follows(d, k, TRUE, g)
      BY <1>1, <1>4, MakeScan
    <2> HIDE DEF g
    <2>2. key = KeyOf("LCONTROL") => k = \h1D
      BY ModifierKeysAre DEF k
    <2> DEFINE bits == SimpleBits(d.state, k, TRUE)
    <2>3. /\ g \in KH /\ "EXTENDED" \notin g.internal
          /\ \A m \in Modifier \ {"LCONTROL"} : m \in g.state <=> m \in bits
          /\ Quiet(d) => g.state = bits /\ Quiet(g)
          /\ ~Pausing(d) => ~Pausing(g)
          /\ g.internal \subseteq d.internal
          /\ k = \h1D /\ ~Stage(d, 0) => ~Pausing(g)
      BY <1>1, <2>1 DEF Follows
    <2>4. KeyBits(d.state, key, TRUE) = bits
      BY <1>2
    <2> HIDE DEF bits
    <2>5. Effect(d, key, TRUE, g)
      <3>1. /\ Pausing(d) /\ Quiet(d) => ~Stage(d, 0)
            /\ ~Pausing(d) => Quiet(d)
        BY DEF Quiet, Stage
      <3>2. /\ ~Pausing(d) => ~Pausing(g) /\ g.state = bits
            /\ key = KeyOf("LCONTROL") /\ Quiet(d) => ~Pausing(g) /\ g.state = bits
        BY <2>2, <2>3, <3>1
      <3>3. d.internal = {} => g.internal = {}
        BY <2>3
      <3>4. QED
        BY <2>3, <2>4, <3>2, <3>3 DEF Effect
    <2>6. says(d, k) = Heard(d, key)
      <3>1. CASE k \in Characters
        <4>1. says(d, k) = <<k, Column(d, k)>>
          BY <1>1, <1>4, <3>1, MakesSay
        <4>2. key # PrintScreenKey
          BY <1>1 DEF PrintScreenKey
        <4>3. QED
          BY <1>1, <3>1, <4>1, <4>2 DEF Heard, k
      <3>2. CASE k \notin Characters
        <4>1. says(d, k) = NUL
          BY <1>1, <1>4, <3>2, MakesSay
        <4>2. key # PrintScreenKey
          BY <1>1 DEF PrintScreenKey
        <4>3. QED
          BY <1>1, <3>2, <4>1, <4>2 DEF Heard, k
      <3>3. QED
        BY <3>1, <3>2
    <2>7. QED
      BY <2>5, <2>6, Zenon DEF g, k
  <1>5. QED
    BY <1>3, <1>4

\* The break of a simple key.
LEMMA SimpleBreakEffect ==
    ASSUME NEW d \in KH, NEW key \in SimpleKeys
    PROVE  /\ Effect(d, key, FALSE, next(d, key.code + 128))
           /\ d.internal = {} => says(d, key.code + 128) = NUL
  <1> DEFINE k == key.code
             c == k + 128
             g == next(d, c)
  <1>1. k \in 0 .. 127 /\ c \in Byte /\ c >= 128 /\ k # \h61 /\ ~key.e0 /\ c # \hE0
    BY KeyKinds DEF Byte
  <1>2. KeyBits(d.state, key, FALSE) = SimpleBits(d.state, k, FALSE)
    BY <1>1, Zenon DEF KeyBits
  <1>3. CASE "EXTENDED" \in d.internal
    <2>1. g \in KH /\ "EXTENDED" \notin g.internal
      BY <1>1, <1>3, ExtendedScan
    <2> HIDE DEF g
    <2>2. Effect(d, key, FALSE, g)
      BY <1>3, <2>1 DEF Effect
    <2>3. d.internal # {}
      BY <1>3
    <2>4. QED
      BY <2>2, <2>3, Zenon DEF g
  <1>4. CASE "EXTENDED" \notin d.internal
    <2>0. c = k + 128
      OBVIOUS
    <2> HIDE DEF c, k
    <2>1. Follows(d, k, FALSE, g)
      BY <1>1, <1>4, <2>0, BreaksFollow
    <2>2. says(d, c) = NUL
      BY <1>1, <1>4, <2>0, BreaksSayNothing
    <2>3. key = KeyOf("LCONTROL") => Quiet(g)
      <3>1. SUFFICES ASSUME key = KeyOf("LCONTROL") PROVE Quiet(g)
        OBVIOUS
      <3>2. c = \h9D
        BY <2>0, <3>1, ModifierKeysAre DEF k
      <3>3. Quiet(next(d, \h9D))
        BY <1>4, LeftReleaseScan
      <3>4. QED
        BY <3>2, <3>3
    <2> HIDE DEF g
    <2> DEFINE bits == SimpleBits(d.state, k, FALSE)
    <2>4. /\ g \in KH /\ "EXTENDED" \notin g.internal
          /\ \A m \in Modifier \ {"LCONTROL"} : m \in g.state <=> m \in bits
          /\ Quiet(d) => g.state = bits /\ Quiet(g)
          /\ ~Pausing(d) => ~Pausing(g)
          /\ g.internal \subseteq d.internal
      BY <1>1, <2>1 DEF Follows
    <2>5. KeyBits(d.state, key, FALSE) = bits
      BY <1>2
    <2> HIDE DEF bits
    <2>6. Effect(d, key, FALSE, g)
      <3>1. ~Pausing(d) => ~Pausing(g) /\ g.state = bits
        BY <2>4 DEF Quiet
      <3>2. d.internal = {} => g.internal = {}
        BY <2>4
      <3>3. QED
        BY <2>3, <2>4, <2>5, <3>1, <3>2 DEF Effect
    <2>7. QED
      BY <2>2, <2>6, Zenon DEF g, c, k
  <1>5. QED
    BY <1>3, <1>4

\* Two scancodes, the first of them the prefix 0xE0.
LEMMA GreyScan ==
    ASSUME NEW d \in KH, "EXTENDED" \notin d.internal, NEW c \in Byte
    PROVE  LET b == next(d, \hE0)
               g == next(b, c)
           IN  /\ b \in KH /\ "EXTENDED" \in b.internal /\ b.internal = d.internal \cup {"EXTENDED"}
               /\ says(d, \hE0) = NUL
               /\ g \in KH /\ g.state = ExtendedBits(d.state, c % 128, c < 128)
               /\ g.sequence = d.sequence /\ "EXTENDED" \notin g.internal
               /\ Pausing(g) <=> Pausing(d)
               /\ c % 128 \notin {\h2A, \h37} => g.internal = d.internal
  <1> DEFINE b == next(d, \hE0)
             g == next(b, c)
             bits == ExtendedBits(b.state, c % 128, c < 128)
  <1>1. b = [d EXCEPT !.internal = @ \cup {"EXTENDED"}] /\ b \in KH /\ says(d, \hE0) = NUL
    BY PrefixScan
  <1> HIDE DEF b
  <1>2. /\ "EXTENDED" \in b.internal /\ b.internal = d.internal \cup {"EXTENDED"}
        /\ b.state = d.state /\ b.sequence = d.sequence
    BY <1>1 DEF KH
  <1>3. /\ g \in KH /\ g.state = bits /\ g.sequence = b.sequence /\ "EXTENDED" \notin g.internal
        /\ "PAUSE" \in g.internal <=> "PAUSE" \in b.internal
    BY <1>1, <1>2, ExtendedScan, ZenonT(60)
  <1>4. c % 128 \notin {\h2A, \h37} => g.internal = b.internal \ {"EXTENDED"}
    BY <1>1, <1>2, ExtendedLeaves
  <1>5. bits = ExtendedBits(d.state, c % 128, c < 128)
    BY <1>2
  <1> HIDE DEF g, bits
  <1>6. /\ g.sequence = d.sequence
        /\ Pausing(g) <=> Pausing(d)
        /\ c % 128 \notin {\h2A, \h37} => g.internal = d.internal
    BY <1>2, <1>3, <1>4 DEF Pausing
  <1>7. QED
    BY <1>1, <1>2, <1>3, <1>5, <1>6 DEF b, g

\* The make of a grey key.
LEMMA GreyMakeEffect ==
    ASSUME NEW d \in KH, NEW key \in GreyKeys
    PROVE  LET b == next(d, \hE0)
           IN  /\ b \in KH
               /\ Effect(d, key, TRUE, next(b, key.code))
               /\ d.internal = {} => says(d, \hE0) = NUL /\ says(b, key.code) = Heard(d, key)
  <1> DEFINE k == key.code
             b == next(d, \hE0)
             g == next(b, k)
             bits == ExtendedBits(d.state, k, TRUE)
  <1>1. /\ k \in 0 .. 127 /\ k \in Byte /\ k < 128 /\ k \notin {\h2A, \h37} /\ key.e0 /\ k # \hE0
        /\ k % 128 = k /\ \hE0 \in Byte
    BY KeyKinds DEF Byte
  <1>2. KeyBits(d.state, key, TRUE) = bits
    BY <1>1, Zenon DEF KeyBits
  <1>3. b \in KH
    BY <1>1, NextInKH
  <1>4. CASE "EXTENDED" \in d.internal
    <2>1. "EXTENDED" \notin b.internal
      BY <1>1, <1>4, ExtendedScan
    <2> HIDE DEF b, k
    <2>2. Follows(b, k, TRUE, g)
      BY <1>1, <1>3, <2>1, MakeScan
    <2> HIDE DEF g
    <2>3. Effect(d, key, TRUE, g)
      BY <1>4, <2>2 DEF Effect, Follows
    <2>4. d.internal # {}
      BY <1>4
    <2>5. QED
      BY <1>3, <2>3, <2>4, Zenon DEF b, g, k
  <1>5. CASE "EXTENDED" \notin d.internal
    <2> HIDE DEF k
    <2>1. /\ "EXTENDED" \in b.internal /\ says(d, \hE0) = NUL
          /\ g \in KH /\ g.state = ExtendedBits(d.state, k % 128, k < 128)
          /\ g.sequence = d.sequence /\ "EXTENDED" \notin g.internal
          /\ Pausing(g) <=> Pausing(d)
          /\ g.internal = d.internal
      BY <1>1, <1>5, GreyScan
    <2>2. g.state = bits
      <3>1. (k < 128) = TRUE
        BY <1>1
      <3>2. g.state = ExtendedBits(d.state, k % 128, k < 128)
        BY <2>1
      <3>3. QED
        BY <1>1, <3>1, <3>2, Zenon
    <2>3. says(b, k) = Heard(d, key)
      <3> HIDE DEF b
      <3>1. CASE k \in Grey
        <4>1. says(b, k) = Extended(k)
          BY <1>1, <1>3, <2>1, <3>1, ExtendedSays
        <4>2. key # PrintScreenKey
          BY <1>1 DEF PrintScreenKey, k
        <4>3. QED
          BY <1>1, <3>1, <4>1, <4>2 DEF Heard, k
      <3>2. CASE k \notin Grey
        <4>1. says(b, k) = NUL
          BY <1>1, <1>3, <2>1, <3>2, ExtendedSays
        <4>2. key # PrintScreenKey
          BY <1>1 DEF PrintScreenKey, k
        <4>3. QED
          BY <1>1, <3>2, <4>1, <4>2 DEF Heard, k
      <3>3. QED
        BY <3>1, <3>2
    <2>4. key # KeyOf("LCONTROL")
      BY <1>1, ModifierKeysAre
    <2> HIDE DEF g, b, bits
    <2>5. Effect(d, key, TRUE, g)
      BY <1>2, <1>5, <2>1, <2>2, <2>4 DEF Effect, Quiet
    <2>6. QED
      BY <1>3, <2>1, <2>3, <2>5, Zenon DEF b, g, k
  <1>6. QED
    BY <1>4, <1>5, Zenon

\* The break of a grey key.
LEMMA GreyBreakEffect ==
    ASSUME NEW d \in KH, NEW key \in GreyKeys
    PROVE  LET b == next(d, \hE0)
           IN  /\ b \in KH
               /\ Effect(d, key, FALSE, next(b, key.code + 128))
               /\ d.internal = {} => says(d, \hE0) = NUL /\ says(b, key.code + 128) = NUL
  <1> DEFINE k == key.code
             c == k + 128
             b == next(d, \hE0)
             g == next(b, c)
             bits == ExtendedBits(d.state, k, FALSE)
  <1>1. /\ k \in 0 .. 127 /\ c \in Byte /\ c >= 128 /\ k \notin {\h2A, \h37} /\ key.e0 /\ c # \hE0
        /\ c % 128 = k /\ \hE0 \in Byte
    BY KeyKinds DEF Byte
  <1>2. KeyBits(d.state, key, FALSE) = bits
    BY <1>1, Zenon DEF KeyBits
  <1>3. b \in KH
    BY <1>1, NextInKH
  <1>4. CASE "EXTENDED" \in d.internal
    <2>1. "EXTENDED" \notin b.internal
      BY <1>1, <1>4, ExtendedScan
    <2>2. c = k + 128
      OBVIOUS
    <2> HIDE DEF b, c, k
    <2>3. Follows(b, k, FALSE, g)
      BY <1>1, <1>3, <2>1, <2>2, BreaksFollow
    <2> HIDE DEF g
    <2>4. Effect(d, key, FALSE, g)
      BY <1>4, <2>3 DEF Effect, Follows
    <2>5. d.internal # {}
      BY <1>4
    <2>6. QED
      BY <1>3, <2>4, <2>5, Zenon DEF b, g, c, k
  <1>5. CASE "EXTENDED" \notin d.internal
    <2> HIDE DEF c, k
    <2>1. /\ "EXTENDED" \in b.internal /\ says(d, \hE0) = NUL
          /\ g \in KH /\ g.state = ExtendedBits(d.state, c % 128, c < 128)
          /\ g.sequence = d.sequence /\ "EXTENDED" \notin g.internal
          /\ Pausing(g) <=> Pausing(d)
          /\ g.internal = d.internal
      BY <1>1, <1>5, GreyScan
    <2>2. g.state = bits
      <3>1. (c < 128) = FALSE
        BY <1>1 DEF Byte
      <3>2. g.state = ExtendedBits(d.state, c % 128, c < 128)
        BY <2>1
      <3>3. QED
        BY <1>1, <3>1, <3>2, Zenon
    <2>3. says(b, c) = NUL
      <3> HIDE DEF b
      <3>1. QED
        BY <1>1, <1>3, <2>1, ExtendedSays
    <2>4. key # KeyOf("LCONTROL")
      BY <1>1, ModifierKeysAre
    <2> HIDE DEF g, b, bits
    <2>5. Effect(d, key, FALSE, g)
      BY <1>2, <1>5, <2>1, <2>2, <2>4 DEF Effect, Quiet
    <2>6. QED
      BY <1>3, <2>1, <2>3, <2>5, Zenon DEF b, g, c, k
  <1>6. QED
    BY <1>4, <1>5, Zenon

\* Neither of the two keys with sequences of their own has a bit.
LEMMA NoBits ==
    ASSUME NEW bits, NEW p
    PROVE  /\ KeyBits(bits, PrintScreenKey, p) = bits
           /\ KeyBits(bits, PauseKey, p) = bits
           /\ PrintScreenKey \notin ModifierKeys /\ PauseKey \notin ModifierKeys
           /\ PrintScreenKey # KeyOf("LCONTROL") /\ PauseKey # KeyOf("LCONTROL")
  BY ModifierKeysAre DEF KeyBits, PrintScreenKey, PauseKey, ExtendedBits, SimpleBits

\* A key without a bit leaves the bits alone, unless it is Pause's left
\* control that an earlier sequence is in the way of.
Undisturbed(d, g) ==
    /\ "EXTENDED" \notin d.internal =>
           /\ "EXTENDED" \notin g.internal
           /\ \A m \in Modifier \ {"LCONTROL"} : m \in g.state <=> m \in d.state
           /\ Quiet(d) => Quiet(g)
           /\ ~Pausing(d) => ~Pausing(g) /\ g.state = d.state
    /\ d.internal = {} => g.internal = {}

\* Undisturbed is enough for the two keys with sequences of their own.
LEMMA NoEffect ==
    ASSUME NEW d, NEW g \in KH, Undisturbed(d, g), NEW key \in {PrintScreenKey, PauseKey}
    PROVE  Effect(d, key, TRUE, g) /\ Effect(d, key, FALSE, g)
  <1> DEFINE pressed == KeyBits(d.state, key, TRUE)
             released == KeyBits(d.state, key, FALSE)
  <1>1. pressed = d.state /\ released = d.state
    BY NoBits
  <1>2. key \notin ModifierKeys /\ key # KeyOf("LCONTROL")
    BY NoBits
  <1> HIDE DEF pressed, released
  <1>3. Effect(d, key, TRUE, g)
    BY <1>1, <1>2 DEF Effect, Undisturbed, pressed
  <1>4. Effect(d, key, FALSE, g)
    BY <1>1, <1>2 DEF Effect, Undisturbed, released
  <1>5. QED
    BY <1>3, <1>4, Zenon

PrintScreenMade(a, b, c, d, g) ==
    /\ b = next(a, \hE0) /\ c = next(b, \h2A) /\ d = next(c, \hE0)
    /\ g = next(d, \h37)
    /\ b \in KH /\ c \in KH /\ d \in KH /\ g \in KH
    /\ Effect(a, PrintScreenKey, TRUE, g)
    /\ a.internal = {} =>
           /\ says(a, \hE0) = NUL /\ says(b, \h2A) = NUL /\ says(c, \hE0) = NUL
           /\ says(d, \h37) = PRINT_SCREEN

\* Print Screen's make, from whatever state of the decoder.
LEMMA PrintScreenMakeEffect ==
    ASSUME NEW d1 \in KH
    PROVE  \E d2, d3, d4, d5 : PrintScreenMade(d1, d2, d3, d4, d5)
  <1> DEFINE d2 == next(d1, \hE0)
             d3 == next(d2, \h2A)
             d4 == next(d3, \hE0)
             d5 == next(d4, \h37)
  <1>0. /\ d2 = next(d1, \hE0) /\ d3 = next(d2, \h2A) /\ d4 = next(d3, \hE0)
        /\ d5 = next(d4, \h37)
    OBVIOUS
  <1> HIDE DEF d2, d3, d4, d5
  <1> USE <1>0
  <1>1. \hE0 \in Byte /\ \h2A \in Byte /\ \h37 \in Byte
    BY DEF Byte
  <1>2. d2 \in KH /\ d3 \in KH /\ d4 \in KH /\ d5 \in KH
    BY <1>1, NextInKH
  <1>3. ASSUME "EXTENDED" \notin d1.internal
        PROVE  /\ d2.internal = d1.internal \cup {"EXTENDED"}
               /\ says(d1, \hE0) = NUL
               /\ "EXTENDED" \notin d3.internal /\ d3.state = d1.state /\ d3.sequence = d1.sequence
               /\ Pausing(d3) <=> Pausing(d1)
    <2>1. /\ d2.internal = d1.internal \cup {"EXTENDED"}
          /\ says(d1, \hE0) = NUL
          /\ d3.state = ExtendedBits(d1.state, \h2A % 128, \h2A < 128)
          /\ "EXTENDED" \notin d3.internal /\ d3.sequence = d1.sequence
          /\ Pausing(d3) <=> Pausing(d1)
      BY <1>1, <1>3, GreyScan
    <2>2. \A p : ExtendedBits(d1.state, \h2A % 128, p) = d1.state
      BY DEF ExtendedBits
    <2>3. QED
      BY <2>1, <2>2
  <1>4. ASSUME "EXTENDED" \notin d3.internal
        PROVE  /\ d4.internal = d3.internal \cup {"EXTENDED"}
               /\ says(d3, \hE0) = NUL
               /\ "EXTENDED" \notin d5.internal /\ d5.state = d3.state /\ d5.sequence = d3.sequence
               /\ Pausing(d5) <=> Pausing(d3)
    <2>1. /\ d4.internal = d3.internal \cup {"EXTENDED"}
          /\ says(d3, \hE0) = NUL
          /\ d5.state = ExtendedBits(d3.state, \h37 % 128, \h37 < 128)
          /\ "EXTENDED" \notin d5.internal /\ d5.sequence = d3.sequence
          /\ Pausing(d5) <=> Pausing(d3)
      BY <1>1, <1>2, <1>4, GreyScan, SMTT(30)
    <2>2. \A p : ExtendedBits(d3.state, \h37 % 128, p) = d3.state
      BY DEF ExtendedBits
    <2>3. QED
      BY <2>1, <2>2
  <1>5. ASSUME d1.internal = {}
        PROVE  /\ says(d1, \hE0) = NUL /\ says(d2, \h2A) = NUL
               /\ says(d3, \hE0) = NUL /\ says(d4, \h37) = PRINT_SCREEN
               /\ d5.internal = {}
    <2>1. d2.internal = {"EXTENDED"} /\ says(d1, \hE0) = NUL
      BY <1>3, <1>5
    <2>2. says(d2, \h2A) = NUL /\ d3.internal = {"PRSCR_DOWN"}
      BY <1>2, <2>1, PrintScreenScan
    <2>3. d4.internal = {"EXTENDED", "PRSCR_DOWN"} /\ says(d3, \hE0) = NUL
      BY <1>4, <2>2
    <2>4. says(d4, \h37) = PRINT_SCREEN /\ d5.internal = {}
      BY <1>2, <2>3, PrintScreenScan
    <2>5. QED
      BY <2>1, <2>2, <2>3, <2>4
  <1>6. Effect(d1, PrintScreenKey, TRUE, d5)
    <2>1. "EXTENDED" \notin d1.internal =>
               /\ "EXTENDED" \notin d5.internal
               /\ d5.state = d1.state /\ d5.sequence = d1.sequence
               /\ Pausing(d5) <=> Pausing(d1)
      BY <1>3, <1>4
    <2>2. Undisturbed(d1, d5)
      BY <1>5, <2>1 DEF Undisturbed, Quiet
    <2>3. QED
      BY <1>2, <2>2, NoEffect, ZenonT(60)
  <1>7. PrintScreenMade(d1, d2, d3, d4, d5)
    BY <1>0, <1>2, <1>5, <1>6, Zenon DEF PrintScreenMade
  <1>8. QED
    BY <1>7, ZenonT(60)

PrintScreenBroken(a, b, c, d, g) ==
    /\ b = next(a, \hE0) /\ c = next(b, \hB7) /\ d = next(c, \hE0)
    /\ g = next(d, \hAA)
    /\ b \in KH /\ c \in KH /\ d \in KH /\ g \in KH
    /\ Effect(a, PrintScreenKey, FALSE, g)
    /\ a.internal = {} =>
           /\ says(a, \hE0) = NUL /\ says(b, \hB7) = NUL /\ says(c, \hE0) = NUL
           /\ says(d, \hAA) = NUL

\* Print Screen's break, from whatever state of the decoder.
LEMMA PrintScreenBreakEffect ==
    ASSUME NEW d1 \in KH
    PROVE  \E d2, d3, d4, d5 : PrintScreenBroken(d1, d2, d3, d4, d5)
  <1> DEFINE d2 == next(d1, \hE0)
             d3 == next(d2, \hB7)
             d4 == next(d3, \hE0)
             d5 == next(d4, \hAA)
  <1>0. /\ d2 = next(d1, \hE0) /\ d3 = next(d2, \hB7) /\ d4 = next(d3, \hE0)
        /\ d5 = next(d4, \hAA)
    OBVIOUS
  <1> HIDE DEF d2, d3, d4, d5
  <1> USE <1>0
  <1>1. \hE0 \in Byte /\ \hB7 \in Byte /\ \hAA \in Byte
    BY DEF Byte
  <1>2. d2 \in KH /\ d3 \in KH /\ d4 \in KH /\ d5 \in KH
    BY <1>1, NextInKH
  <1>3. ASSUME "EXTENDED" \notin d1.internal
        PROVE  /\ d2.internal = d1.internal \cup {"EXTENDED"}
               /\ says(d1, \hE0) = NUL
               /\ "EXTENDED" \notin d3.internal /\ d3.state = d1.state /\ d3.sequence = d1.sequence
               /\ Pausing(d3) <=> Pausing(d1)
    <2>1. /\ d2.internal = d1.internal \cup {"EXTENDED"}
          /\ says(d1, \hE0) = NUL
          /\ d3.state = ExtendedBits(d1.state, \hB7 % 128, \hB7 < 128)
          /\ "EXTENDED" \notin d3.internal /\ d3.sequence = d1.sequence
          /\ Pausing(d3) <=> Pausing(d1)
      BY <1>1, <1>3, GreyScan
    <2>2. \A p : ExtendedBits(d1.state, \hB7 % 128, p) = d1.state
      BY DEF ExtendedBits
    <2>3. QED
      BY <2>1, <2>2
  <1>4. ASSUME "EXTENDED" \notin d3.internal
        PROVE  /\ d4.internal = d3.internal \cup {"EXTENDED"}
               /\ says(d3, \hE0) = NUL
               /\ "EXTENDED" \notin d5.internal /\ d5.state = d3.state /\ d5.sequence = d3.sequence
               /\ Pausing(d5) <=> Pausing(d3)
    <2>1. /\ d4.internal = d3.internal \cup {"EXTENDED"}
          /\ says(d3, \hE0) = NUL
          /\ d5.state = ExtendedBits(d3.state, \hAA % 128, \hAA < 128)
          /\ "EXTENDED" \notin d5.internal /\ d5.sequence = d3.sequence
          /\ Pausing(d5) <=> Pausing(d3)
      BY <1>1, <1>2, <1>4, GreyScan, SMTT(30)
    <2>2. \A p : ExtendedBits(d3.state, \hAA % 128, p) = d3.state
      BY DEF ExtendedBits
    <2>3. QED
      BY <2>1, <2>2
  <1>5. ASSUME d1.internal = {}
        PROVE  /\ says(d1, \hE0) = NUL /\ says(d2, \hB7) = NUL
               /\ says(d3, \hE0) = NUL /\ says(d4, \hAA) = NUL
               /\ d5.internal = {}
    <2>1. d2.internal = {"EXTENDED"} /\ says(d1, \hE0) = NUL
      BY <1>3, <1>5
    <2>2. says(d2, \hB7) = NUL /\ d3.internal = {"PRSCR_UP"}
      BY <1>1, <1>2, <2>1, PrintScreenScan, ExtendedSays
    <2>3. d4.internal = {"EXTENDED", "PRSCR_UP"} /\ says(d3, \hE0) = NUL
      BY <1>4, <2>2
    <2>4. says(d4, \hAA) = NUL /\ d5.internal = {}
      BY <1>1, <1>2, <2>3, PrintScreenScan, ExtendedSays
    <2>5. QED
      BY <2>1, <2>2, <2>3, <2>4
  <1>6. Effect(d1, PrintScreenKey, FALSE, d5)
    <2>1. "EXTENDED" \notin d1.internal =>
               /\ "EXTENDED" \notin d5.internal
               /\ d5.state = d1.state /\ d5.sequence = d1.sequence
               /\ Pausing(d5) <=> Pausing(d1)
      BY <1>3, <1>4
    <2>2. Undisturbed(d1, d5)
      BY <1>5, <2>1 DEF Undisturbed, Quiet
    <2>3. QED
      BY <1>2, <2>2, NoEffect, ZenonT(60)
  <1>7. PrintScreenBroken(d1, d2, d3, d4, d5)
    BY <1>0, <1>2, <1>5, <1>6, Zenon DEF PrintScreenBroken
  <1>8. WITNESS d2, d3, d4, d5
  <1>9. QED
    BY <1>7

\* The pause prefix disturbs no bit.
LEMMA PrefixOfPauseFollows ==
    ASSUME NEW d \in KH, "EXTENDED" \notin d.internal
    PROVE  Follows(d, \h61, FALSE, next(d, \hE1))
  <1>1. \h61 \in 0 .. 127
    OBVIOUS
  <1>2. ASSUME NEW c, c = \hE1
        PROVE  Follows(d, \h61, FALSE, next(d, c))
    <2>1. c = \h61 + 128 /\ c # \hE0
      BY <1>2
    <2>2. QED
      BY <1>1, <2>1, BreaksFollow, Zenon
  <1>3. QED
    BY <1>2, Zenon

\* The end of a sequence leaves nothing on.
LEMMA PauseEnds ==
    ASSUME NEW d, NEW bits, InStage(d, bits, 4)
    PROVE  /\ next(d, \hC5).state = bits /\ next(d, \hC5).internal = {}
           /\ says(d, \hC5) = NUL
  BY PauseBreaks, ZenonT(60)

PauseMade(a, b, c, d, e, f, g) ==
    /\ b = next(a, \hE1) /\ c = next(b, \h1D) /\ d = next(c, \h45)
    /\ e = next(d, \hE1) /\ f = next(e, \h9D) /\ g = next(f, \hC5)
    /\ b \in KH /\ c \in KH /\ d \in KH /\ e \in KH /\ f \in KH /\ g \in KH
    /\ Effect(a, PauseKey, TRUE, g)
    /\ a.internal = {} =>
           /\ says(a, \hE1) = NUL /\ says(b, \h1D) = NUL /\ says(c, \h45) = NUL
           /\ says(d, \hE1) = NUL /\ says(e, \h9D) = NUL /\ says(f, \hC5) = NUL

\* Pause's make, from whatever state of the decoder.
LEMMA PauseEffect ==
    ASSUME NEW d1 \in KH
    PROVE  \E d2, d3, d4, d5, d6, d7 : PauseMade(d1, d2, d3, d4, d5, d6, d7)
  <1> DEFINE d2 == next(d1, \hE1)
             d3 == next(d2, \h1D)
             d4 == next(d3, \h45)
             d5 == next(d4, \hE1)
             d6 == next(d5, \h9D)
             d7 == next(d6, \hC5)
  <1>0. /\ d2 = next(d1, \hE1) /\ d3 = next(d2, \h1D) /\ d4 = next(d3, \h45)
        /\ d5 = next(d4, \hE1) /\ d6 = next(d5, \h9D) /\ d7 = next(d6, \hC5)
    OBVIOUS
  <1> HIDE DEF d2, d3, d4, d5, d6, d7
  <1> USE <1>0
  <1>1. \hE1 \in Byte /\ \h1D \in Byte /\ \h45 \in Byte /\ \h9D \in Byte /\ \hC5 \in Byte
    BY DEF Byte
  <1>2. /\ d2 \in KH /\ d3 \in KH /\ d4 \in KH /\ d5 \in KH /\ d6 \in KH /\ d7 \in KH
    <2>1. d2 \in KH /\ d3 \in KH /\ d4 \in KH
      BY <1>1, NextInKH
    <2>2. QED
      BY <1>1, <2>1, NextInKH
  <1>3. ASSUME "EXTENDED" \notin d1.internal, ~Pausing(d1)
        PROVE  /\ d7.internal = {} /\ d7.state = d1.state
               /\ says(d1, \hE1) = NUL /\ says(d2, \h1D) = NUL /\ says(d3, \h45) = NUL
               /\ says(d4, \hE1) = NUL /\ says(d5, \h9D) = NUL /\ says(d6, \hC5) = NUL
    <2>1. InStage(d2, d1.state, 0) /\ says(d1, \hE1) = NUL
      BY <1>3, PauseBegins
    <2>2. InStage(d3, d1.state, 1) /\ says(d2, \h1D) = NUL
      BY <2>1, PauseMakes
    <2>3. InStage(d4, d1.state, 2) /\ says(d3, \h45) = NUL
      BY <2>2, PauseMakes
    <2>4. InStage(d5, d1.state, 3) /\ says(d4, \hE1) = NUL
      BY <2>3, PausePrefixAgain
    <2>5. InStage(d6, d1.state, 4) /\ says(d5, \h9D) = NUL
      BY <2>4, PauseBreaks
    <2>6. d7.internal = {} /\ d7.state = d1.state /\ says(d6, \hC5) = NUL
      BY <2>5, PauseEnds
    <2>7. QED
      BY <2>1, <2>2, <2>3, <2>4, <2>5, <2>6
  <1>4. ASSUME "EXTENDED" \notin d1.internal
        PROVE  /\ "EXTENDED" \notin d7.internal /\ ~Pausing(d7)
               /\ \A m \in Modifier \ {"LCONTROL"} : m \in d7.state <=> m \in d1.state
    <2>1. /\ \A p : /\ \A bits : SimpleBits(bits, \h61, p) = bits
                    /\ \A bits : \A m \in Modifier \ {"LCONTROL"} :
                          /\ m \in SimpleBits(bits, \h1D, p) <=> m \in bits
                          /\ m \in SimpleBits(bits, \h45, p) <=> m \in bits
      BY DEF SimpleBits, Switched, Toggled, Modifier
    <2> DEFINE Same(a, b) == /\ "EXTENDED" \notin b.internal
                             /\ \A m \in Modifier \ {"LCONTROL"} : m \in b.state <=> m \in a.state
    <2>2. ASSUME NEW a, NEW b, NEW k \in {\h61, \h1D, \h45}, NEW p, Follows(a, k, p, b)
          PROVE  Same(a, b)
      <3> DEFINE bits == SimpleBits(a.state, k, p)
      <3>1. \A m \in Modifier \ {"LCONTROL"} : m \in bits <=> m \in a.state
        BY <2>1, <2>2
      <3> HIDE DEF bits
      <3>2. /\ "EXTENDED" \notin b.internal
            /\ \A m \in Modifier \ {"LCONTROL"} : m \in b.state <=> m \in bits
        BY <2>2 DEF Follows, bits
      <3>3. QED
        BY <3>1, <3>2
    <2> HIDE DEF Same
    <2>3. \h1D \in 0 .. 127 /\ \h45 \in 0 .. 127
      OBVIOUS
    <2>0. \A a, b : Same(a, b) => "EXTENDED" \notin b.internal
      BY DEF Same
    <2>4. Same(d1, d2)
      <3>1. Follows(d1, \h61, FALSE, next(d1, \hE1))
        BY <1>4, PrefixOfPauseFollows, Zenon
      <3>2. QED
        BY <2>2, <3>1, ZenonT(60)
    <2>5. Same(d2, d3)
      <3>1. Follows(d2, \h1D, TRUE, next(d2, \h1D))
        BY <1>2, <2>0, <2>3, <2>4, MakeScan, ZenonT(60)
      <3>2. QED
        BY <2>2, <3>1, ZenonT(60)
    <2>6. Same(d3, d4)
      <3>1. Follows(d3, \h45, TRUE, next(d3, \h45))
        BY <1>2, <2>0, <2>3, <2>5, MakeScan, ZenonT(60)
      <3>2. QED
        BY <2>2, <3>1, ZenonT(60)
    <2>7. Same(d4, d5)
      <3>1. Follows(d4, \h61, FALSE, next(d4, \hE1))
        BY <1>2, <2>0, <2>6, PrefixOfPauseFollows, ZenonT(60)
      <3>2. QED
        BY <2>2, <3>1, ZenonT(60)
    <2>8. Same(d5, d6)
      <3>1. Follows(d5, \h1D, FALSE, next(d5, \h9D))
        BY <1>2, <2>7, LeftReleaseScan, ZenonT(60) DEF Same
      <3>2. QED
        BY <2>2, <3>1, ZenonT(60)
    <2>9. Same(d6, d7) /\ ~Pausing(d7)
      <3>1. "EXTENDED" \notin d6.internal
        BY <2>0, <2>8
      <3>2. Follows(d6, \h45, FALSE, next(d6, \hC5))
        BY <1>2, <3>1, NumReleaseScan, ZenonT(60)
      <3>3. ~Pausing(next(d6, \hC5))
        BY <1>2, <3>1, NumReleaseScan, ZenonT(60)
      <3>4. Same(d6, d7)
        <4>1. \h45 \in {\h61, \h1D, \h45}
          OBVIOUS
        <4>2. \A a, b : Follows(a, \h45, FALSE, b) => Same(a, b)
          BY <2>2, <4>1, Zenon
        <4>3. Same(d6, next(d6, \hC5))
          BY <3>2, <4>2, ZenonT(60)
        <4>4. QED
          BY <4>3
      <3>5. QED
        BY <3>3, <3>4
    <2>10. QED
      BY <2>4, <2>5, <2>6, <2>7, <2>8, <2>9 DEF Same
  <1>5. Effect(d1, PauseKey, TRUE, d7)
    <2>3. d1.internal = {} => d7.internal = {}
      BY <1>3 DEF Pausing
    <2>4. "EXTENDED" \notin d1.internal =>
               /\ "EXTENDED" \notin d7.internal /\ ~Pausing(d7) /\ Quiet(d7)
               /\ \A m \in Modifier \ {"LCONTROL"} : m \in d7.state <=> m \in d1.state
               /\ ~Pausing(d1) => d7.state = d1.state
      BY <1>3, <1>4 DEF Quiet
    <2>5. Undisturbed(d1, d7)
      BY <2>3, <2>4 DEF Undisturbed
    <2>6. QED
      BY <1>2, <2>5, NoEffect, ZenonT(60)
  <1>6. d1.internal = {} =>
           /\ says(d1, \hE1) = NUL /\ says(d2, \h1D) = NUL /\ says(d3, \h45) = NUL
           /\ says(d4, \hE1) = NUL /\ says(d5, \h9D) = NUL /\ says(d6, \hC5) = NUL
    BY <1>3 DEF Pausing
  <1>7. PauseMade(d1, d2, d3, d4, d5, d6, d7)
    BY <1>0, <1>2, <1>5, <1>6, Zenon DEF PauseMade
  <1>8. WITNESS d2, d3, d4, d5, d6, d7
  <1>9. QED
    BY <1>7

-----------------------------------------------------------------------------
(* Every key has its effect.                                               *)

\* What the keyboard sends: the codes, the last one with a meaning.
LEMMA SentIs ==
    ASSUME NEW codes \in Seq(Byte), NEW meaning \in Said
    PROVE  LET s == Sent(codes, meaning)
           IN  /\ s \in Seq(Item) /\ Len(s) = Len(codes)
               /\ \A i \in 1 .. Len(codes) :
                      /\ s[i].code = codes[i]
                      /\ s[i].means = IF i = Len(codes) THEN meaning ELSE NUL
  <1> DEFINE s == Sent(codes, meaning)
             n == Len(codes)
  <1>1. n \in Nat /\ \A i \in 1 .. n : codes[i] \in Byte
    BY ElementOfSeq
  <1>2. NUL \in Said
    BY DEF Said
  <1>3. s = [i \in 1 .. n |-> [code |-> codes[i], means |-> IF i = n THEN meaning ELSE NUL]]
    BY DEF Sent
  <1> HIDE DEF s, n
  <1>4. s \in [1 .. n -> Item]
    BY <1>1, <1>2, <1>3 DEF Item
  <1>5. s \in Seq(Item) /\ Len(s) = n
    BY <1>1, <1>4
  <1>6. \A i \in 1 .. n : s[i].code = codes[i] /\ s[i].means = IF i = n THEN meaning ELSE NUL
    BY <1>3
  <1>7. QED
    BY <1>5, <1>6 DEF s, n

\* What is heard is a character, or nothing.
LEMMA HeardIsSaid ==
    ASSUME NEW d \in KH, NEW key \in KeyboardKeys
    PROVE  Heard(d, key) \in Said
  <1>1. CASE key = PrintScreenKey
    <2>1. Heard(d, key) = PRINT_SCREEN
      BY <1>1 DEF Heard, PrintScreenKey, Grey
    <2>2. QED
      BY <2>1 DEF Said
  <1>2. CASE key # PrintScreenKey /\ key.e0 /\ key.code \in Grey
    BY <1>2 DEF Heard, Said
  <1>3. CASE key # PrintScreenKey /\ ~key.e0 /\ key.code \in Characters
    <2>1. Column(d, key.code) \in {"u", "s", "cc"}
      <3>1. /\ KHS_SHIFT(d) \in {"u", "s", "cc"} /\ KHS_SHIFTCTL(d) \in {"u", "s", "cc"}
            /\ KHS_SHIFTCAPSCTL(d) \in {"u", "s", "cc"}
        BY DEF KHS_SHIFT, KHS_SHIFTCTL, KHS_SHIFTCAPSCTL
      <3>2. QED
        BY <1>3, <3>1 DEF Column, Characters
    <2>2. Heard(d, key) = <<key.code, Column(d, key.code)>>
      BY <1>3 DEF Heard
    <2>3. QED
      BY <1>3, <2>1, <2>2 DEF Said
  <1>4. CASE key # PrintScreenKey /\ ~(key.e0 /\ key.code \in Grey)
             /\ ~(~key.e0 /\ key.code \in Characters)
    <2>1. Heard(d, key) = NUL
      BY <1>4 DEF Heard
    <2>2. QED
      BY <2>1 DEF Said
  <1>5. QED
    BY <1>1, <1>2, <1>3, <1>4

\* A run over one scancode,
LEMMA RunsOne ==
    ASSUME NEW s \in Seq(Item), Len(s) = 1, NEW a \in KH, NEW g \in KH, NEW lossy,
           g = next(a, s[1].code), lossy = FALSE => says(a, s[1].code) = s[1].means
    PROVE  Decodes(s, a, g, lossy)
  <1> DEFINE ks == <<a, g>>
  <1>1. ks \in [1 .. Len(s) + 1 -> KH] /\ ks[1] = a /\ ks[2] = g
    OBVIOUS
  <1>2. \A i \in 1 .. Len(s) : i = 1 /\ ks[i] = a /\ ks[i + 1] = g
    OBVIOUS
  <1> HIDE DEF ks
  <1>3. Run(s, ks, lossy)
    BY <1>1, <1>2 DEF Run
  <1>4. QED
    BY <1>1, <1>3 DEF Decodes

\* over two,
LEMMA RunsTwo ==
    ASSUME NEW s \in Seq(Item), Len(s) = 2, NEW a \in KH, NEW b \in KH, NEW g \in KH, NEW lossy,
           b = next(a, s[1].code), g = next(b, s[2].code),
           lossy = FALSE => says(a, s[1].code) = s[1].means /\ says(b, s[2].code) = s[2].means
    PROVE  Decodes(s, a, g, lossy)
  <1> DEFINE ks == <<a, b, g>>
  <1>1. ks \in [1 .. Len(s) + 1 -> KH] /\ ks[1] = a /\ ks[2] = b /\ ks[3] = g
    OBVIOUS
  <1> HIDE DEF ks
  <1>2. ASSUME NEW i \in 1 .. Len(s)
        PROVE  /\ ks[i + 1] = next(ks[i], s[i].code)
               /\ lossy = FALSE => says(ks[i], s[i].code) = s[i].means
    <2>1. CASE i = 1
      <3>1. ks[i] = a /\ ks[i + 1] = b
        BY <1>1, <2>1
      <3>2. QED
        BY <2>1, <3>1
    <2>2. CASE i = 2
      <3>1. ks[i] = b /\ ks[i + 1] = g
        BY <1>1, <2>2
      <3>2. QED
        BY <2>2, <3>1
    <2>3. i = 1 \/ i = 2
      OBVIOUS
    <2>4. QED
      BY <2>1, <2>2, <2>3, Zenon
  <1>3. Run(s, ks, lossy)
    BY <1>1, <1>2 DEF Run
  <1>4. QED
    BY <1>1, <1>3 DEF Decodes

StepsFour(s, a, b, c, d, g, lossy) ==
    /\ s \in Seq(Item) /\ Len(s) = 4
    /\ a \in KH /\ b \in KH /\ c \in KH /\ d \in KH /\ g \in KH
    /\ b = next(a, s[1].code) /\ c = next(b, s[2].code) /\ d = next(c, s[3].code)
    /\ g = next(d, s[4].code)
    /\ lossy = FALSE => /\ says(a, s[1].code) = s[1].means /\ says(b, s[2].code) = s[2].means
                        /\ says(c, s[3].code) = s[3].means /\ says(d, s[4].code) = s[4].means

\* over the four of Print Screen,
LEMMA RunsFour ==
    ASSUME NEW s, NEW a, NEW b, NEW c, NEW d, NEW g, NEW lossy, StepsFour(s, a, b, c, d, g, lossy)
    PROVE  Decodes(s, a, g, lossy)
  <1>0. /\ s \in Seq(Item) /\ Len(s) = 4
        /\ a \in KH /\ b \in KH /\ c \in KH /\ d \in KH /\ g \in KH
        /\ b = next(a, s[1].code) /\ c = next(b, s[2].code) /\ d = next(c, s[3].code)
        /\ g = next(d, s[4].code)
        /\ lossy = FALSE => /\ says(a, s[1].code) = s[1].means /\ says(b, s[2].code) = s[2].means
                            /\ says(c, s[3].code) = s[3].means /\ says(d, s[4].code) = s[4].means
    BY DEF StepsFour
  <1> USE <1>0
  <1> DEFINE ks == <<a, b, c, d, g>>
  <1>1. /\ ks \in [1 .. Len(s) + 1 -> KH]
        /\ ks[1] = a /\ ks[2] = b /\ ks[3] = c /\ ks[4] = d /\ ks[5] = g
    OBVIOUS
  <1> HIDE DEF ks
  <1>2. ASSUME NEW i \in 1 .. Len(s)
        PROVE  /\ ks[i + 1] = next(ks[i], s[i].code)
               /\ lossy = FALSE => says(ks[i], s[i].code) = s[i].means
    <2>1. CASE i = 1
      <3>1. ks[i] = a /\ ks[i + 1] = b
        BY <1>1, <2>1
      <3>2. QED
        BY <2>1, <3>1
    <2>2. CASE i = 2
      <3>1. ks[i] = b /\ ks[i + 1] = c
        BY <1>1, <2>2
      <3>2. QED
        BY <2>2, <3>1
    <2>3. CASE i = 3
      <3>1. ks[i] = c /\ ks[i + 1] = d
        BY <1>1, <2>3
      <3>2. QED
        BY <2>3, <3>1
    <2>4. CASE i = 4
      <3>1. ks[i] = d /\ ks[i + 1] = g
        BY <1>1, <2>4
      <3>2. QED
        BY <2>4, <3>1
    <2>5. i = 1 \/ i = 2 \/ i = 3 \/ i = 4
      OBVIOUS
    <2>6. QED
      BY <2>1, <2>2, <2>3, <2>4, <2>5, Zenon
  <1>3. Run(s, ks, lossy)
    BY <1>1, <1>2 DEF Run
  <1>4. QED
    BY <1>1, <1>3 DEF Decodes

StepsSix(s, a, b, c, d, e, f, g, lossy) ==
    /\ s \in Seq(Item) /\ Len(s) = 6
    /\ a \in KH /\ b \in KH /\ c \in KH /\ d \in KH /\ e \in KH /\ f \in KH /\ g \in KH
    /\ b = next(a, s[1].code) /\ c = next(b, s[2].code) /\ d = next(c, s[3].code)
    /\ e = next(d, s[4].code) /\ f = next(e, s[5].code) /\ g = next(f, s[6].code)
    /\ lossy = FALSE => /\ says(a, s[1].code) = s[1].means /\ says(b, s[2].code) = s[2].means
                        /\ says(c, s[3].code) = s[3].means /\ says(d, s[4].code) = s[4].means
                        /\ says(e, s[5].code) = s[5].means /\ says(f, s[6].code) = s[6].means

\* over the six of Pause.
LEMMA RunsSix ==
    ASSUME NEW s, NEW a, NEW b, NEW c, NEW d, NEW e, NEW f, NEW g, NEW lossy,
           StepsSix(s, a, b, c, d, e, f, g, lossy)
    PROVE  Decodes(s, a, g, lossy)
  <1>0. /\ s \in Seq(Item) /\ Len(s) = 6
        /\ a \in KH /\ b \in KH /\ c \in KH /\ d \in KH /\ e \in KH /\ f \in KH /\ g \in KH
        /\ b = next(a, s[1].code) /\ c = next(b, s[2].code) /\ d = next(c, s[3].code)
        /\ e = next(d, s[4].code) /\ f = next(e, s[5].code) /\ g = next(f, s[6].code)
        /\ lossy = FALSE => /\ says(a, s[1].code) = s[1].means /\ says(b, s[2].code) = s[2].means
                            /\ says(c, s[3].code) = s[3].means /\ says(d, s[4].code) = s[4].means
                            /\ says(e, s[5].code) = s[5].means /\ says(f, s[6].code) = s[6].means
    BY DEF StepsSix
  <1> USE <1>0
  <1> DEFINE ks == <<a, b, c, d, e, f, g>>
  <1>1. /\ ks \in [1 .. Len(s) + 1 -> KH]
        /\ ks[1] = a /\ ks[2] = b /\ ks[3] = c /\ ks[4] = d /\ ks[5] = e /\ ks[6] = f /\ ks[7] = g
    OBVIOUS
  <1> HIDE DEF ks
  <1>2. ASSUME NEW i \in 1 .. Len(s)
        PROVE  /\ ks[i + 1] = next(ks[i], s[i].code)
               /\ lossy = FALSE => says(ks[i], s[i].code) = s[i].means
    <2>1. CASE i = 1
      <3>1. ks[i] = a /\ ks[i + 1] = b
        BY <1>1, <2>1
      <3>2. QED
        BY <2>1, <3>1
    <2>2. CASE i = 2
      <3>1. ks[i] = b /\ ks[i + 1] = c
        BY <1>1, <2>2
      <3>2. QED
        BY <2>2, <3>1
    <2>3. CASE i = 3
      <3>1. ks[i] = c /\ ks[i + 1] = d
        BY <1>1, <2>3
      <3>2. QED
        BY <2>3, <3>1
    <2>4. CASE i = 4
      <3>1. ks[i] = d /\ ks[i + 1] = e
        BY <1>1, <2>4
      <3>2. QED
        BY <2>4, <3>1
    <2>5. CASE i = 5
      <3>1. ks[i] = e /\ ks[i + 1] = f
        BY <1>1, <2>5
      <3>2. QED
        BY <2>5, <3>1
    <2>6. CASE i = 6
      <3>1. ks[i] = f /\ ks[i + 1] = g
        BY <1>1, <2>6
      <3>2. QED
        BY <2>6, <3>1
    <2>7. i = 1 \/ i = 2 \/ i = 3 \/ i = 4 \/ i = 5 \/ i = 6
      OBVIOUS
    <2>8. QED
      BY <2>1, <2>2, <2>3, <2>4, <2>5, <2>6, <2>7, Zenon
  <1>3. Run(s, ks, lossy)
    BY <1>1, <1>2 DEF Run
  <1>4. QED
    BY <1>1, <1>3 DEF Decodes

\* What each kind of key sends.
LEMMA MakesAndBreaks ==
    /\ \A key \in SimpleKeys : Make(key) = <<key.code>> /\ Break(key) = <<key.code + 128>>
    /\ \A key \in GreyKeys : Make(key) = <<\hE0, key.code>> /\ Break(key) = <<\hE0, key.code + 128>>
    /\ Make(PrintScreenKey) = <<\hE0, \h2A, \hE0, \h37>>
    /\ Break(PrintScreenKey) = <<\hE0, \hB7, \hE0, \hAA>>
    /\ Make(PauseKey) = <<\hE1, \h1D, \h45, \hE1, \h9D, \hC5>> /\ Break(PauseKey) = <<>>
  <1>1. PrintScreenKey # PauseKey
    BY DEF PrintScreenKey, PauseKey
  <1>2. \A key \in SimpleKeys : ~key.e0 /\ key # PrintScreenKey /\ key # PauseKey
    BY KeyKinds DEF SimpleKeys, PrintScreenKey
  <1>3. \A key \in GreyKeys : key.e0 /\ key # PrintScreenKey /\ key # PauseKey
    BY KeyKinds DEF GreyKeys, PauseKey
  <1> HIDE DEF PrintScreenKey, PauseKey
  <1>4. QED
    BY <1>1, <1>2, <1>3 DEF Make, Break

\* What a key sends takes the decoder to a state with the key's effect.
LEMMA PressDecoded ==
    ASSUME NEW a \in KH, NEW key \in KeyboardKeys, NEW meaning \in Said, NEW lossy,
           lossy = FALSE => a.internal = {} /\ meaning = Heard(a, key)
    PROVE  LET s == Sent(Make(key), meaning)
           IN  /\ s \in Seq(Item) /\ Len(s) \in 0 .. 6
               /\ \E g \in KH : Decodes(s, a, g, lossy) /\ Effect(a, key, TRUE, g)
  <1> DEFINE s == Sent(Make(key), meaning)
  <1>1. CASE key \in SimpleKeys
    <2> DEFINE k == key.code
               codes == <<k>>
               g == next(a, k)
    <2>1. Make(key) = codes /\ k \in Byte
      BY <1>1, MakesAndBreaks, KeyKinds DEF Byte
    <2>2. codes \in Seq(Byte) /\ Len(codes) = 1 /\ codes[1] = k
      BY <2>1
    <2>3. s \in Seq(Item) /\ Len(s) = 1 /\ s[1].code = k /\ s[1].means = meaning
      <3>1. s = Sent(codes, meaning)
        BY <2>1, Zenon
      <3> HIDE DEF s, codes
      <3>2. /\ s \in Seq(Item) /\ Len(s) = Len(codes)
            /\ \A i \in 1 .. Len(codes) :
                   s[i].code = codes[i] /\ s[i].means = IF i = Len(codes) THEN meaning ELSE NUL
        BY <2>2, <3>1, SentIs
      <3>3. QED
        BY <2>2, <3>2
    <2>4. /\ Effect(a, key, TRUE, g)
          /\ a.internal = {} => says(a, k) = Heard(a, key)
      BY <1>1, SimpleMakeEffect, Zenon
    <2>5. g \in KH
      BY <2>1, NextInKH
    <2> HIDE DEF s, k, g
    <2>6. lossy = FALSE => says(a, s[1].code) = s[1].means
      BY <2>3, <2>4
    <2>7. Decodes(s, a, g, lossy)
      BY <2>3, <2>5, <2>6, RunsOne DEF g
    <2>8. Len(s) \in 0 .. 6
      BY <2>3
    <2>9. QED
      BY <2>3, <2>4, <2>5, <2>7, <2>8, Zenon DEF s
  <1>2. CASE key \in GreyKeys
    <2> DEFINE k == key.code
               codes == <<\hE0, k>>
               b == next(a, \hE0)
               g == next(b, k)
    <2>1. Make(key) = codes /\ k \in Byte /\ \hE0 \in Byte
      BY <1>2, MakesAndBreaks, KeyKinds DEF Byte
    <2>2. codes \in Seq(Byte) /\ Len(codes) = 2 /\ codes[1] = \hE0 /\ codes[2] = k
      BY <2>1
    <2>3. /\ s \in Seq(Item) /\ Len(s) = 2 /\ s[1].code = \hE0 /\ s[1].means = NUL
          /\ s[2].code = k /\ s[2].means = meaning
      <3>1. s = Sent(codes, meaning)
        BY <2>1, Zenon
      <3> HIDE DEF s, codes
      <3>2. /\ s \in Seq(Item) /\ Len(s) = Len(codes)
            /\ \A i \in 1 .. Len(codes) :
                   s[i].code = codes[i] /\ s[i].means = IF i = Len(codes) THEN meaning ELSE NUL
        BY <2>2, <3>1, SentIs
      <3>3. QED
        BY <2>2, <3>2
    <2>4. /\ b \in KH /\ Effect(a, key, TRUE, g)
          /\ a.internal = {} => says(a, \hE0) = NUL /\ says(b, k) = Heard(a, key)
      BY <1>2, GreyMakeEffect, ZenonT(60)
    <2>5. g \in KH
      BY <2>1, <2>4, NextInKH
    <2> HIDE DEF s, k, b, g
    <2>6. lossy = FALSE => says(a, s[1].code) = s[1].means /\ says(b, s[2].code) = s[2].means
      BY <2>3, <2>4
    <2>7. b = next(a, s[1].code) /\ g = next(b, s[2].code)
      BY <2>3 DEF b, g
    <2>8. Decodes(s, a, g, lossy)
      BY <2>3, <2>4, <2>5, <2>6, <2>7, RunsTwo
    <2>9. Len(s) \in 0 .. 6
      BY <2>3
    <2>10. QED
      BY <2>3, <2>4, <2>5, <2>8, <2>9, Zenon DEF s
  <1>3. CASE key = PrintScreenKey
    <2> DEFINE codes == <<\hE0, \h2A, \hE0, \h37>>
    <2>1. Make(key) = codes
      BY <1>3, MakesAndBreaks, Zenon
    <2>2. codes \in Seq(Byte) /\ Len(codes) = 4
          /\ codes[1] = \hE0 /\ codes[2] = \h2A /\ codes[3] = \hE0 /\ codes[4] = \h37
      BY DEF Byte
    <2>3. /\ s \in Seq(Item) /\ Len(s) = 4
          /\ s[1].code = \hE0 /\ s[1].means = NUL /\ s[2].code = \h2A /\ s[2].means = NUL
          /\ s[3].code = \hE0 /\ s[3].means = NUL /\ s[4].code = \h37 /\ s[4].means = meaning
      <3>1. s = Sent(codes, meaning)
        BY <2>1, Zenon
      <3> HIDE DEF s, codes
      <3>2. /\ s \in Seq(Item) /\ Len(s) = Len(codes)
            /\ \A i \in 1 .. Len(codes) :
                   s[i].code = codes[i] /\ s[i].means = IF i = Len(codes) THEN meaning ELSE NUL
        BY <2>2, <3>1, SentIs, SMTT(30)
      <3>3. QED
        BY <2>2, <3>2
    <2>4. PICK b, c, d, g : PrintScreenMade(a, b, c, d, g)
      BY PrintScreenMakeEffect, Zenon
    <2>5. /\ b \in KH /\ c \in KH /\ d \in KH /\ g \in KH
          /\ Effect(a, PrintScreenKey, TRUE, g)
          /\ a.internal = {} => /\ says(a, \hE0) = NUL /\ says(b, \h2A) = NUL
                                /\ says(c, \hE0) = NUL /\ says(d, \h37) = PRINT_SCREEN
      BY <2>4, Zenon DEF PrintScreenMade
    <2>13. /\ b = next(a, \hE0) /\ c = next(b, \h2A) /\ d = next(c, \hE0)
          /\ g = next(d, \h37)
      BY <2>4, Zenon DEF PrintScreenMade
    <2>6. Heard(a, key) = PRINT_SCREEN
      BY <1>3 DEF Heard, PrintScreenKey, Grey
    <2> HIDE DEF s
    <2>7. lossy = FALSE => /\ says(a, s[1].code) = s[1].means /\ says(b, s[2].code) = s[2].means
                           /\ says(c, s[3].code) = s[3].means /\ says(d, s[4].code) = s[4].means
      BY <2>3, <2>5, <2>6
    <2>8. /\ b = next(a, s[1].code) /\ c = next(b, s[2].code) /\ d = next(c, s[3].code)
          /\ g = next(d, s[4].code)
      BY <2>3, <2>13
    <2>9. g \in KH
      BY <2>5, Zenon DEF Effect
    <2>10. Decodes(s, a, g, lossy)
      <3>1. StepsFour(s, a, b, c, d, g, lossy)
        BY <2>3, <2>5, <2>7, <2>8, <2>9 DEF StepsFour
      <3>2. QED
        BY <3>1, RunsFour, Zenon
    <2>11. Len(s) \in 0 .. 6
      BY <2>3
    <2>12. QED
      BY <1>3, <2>3, <2>5, <2>9, <2>10, <2>11, Zenon DEF s
  <1>4. CASE key = PauseKey
    <2> DEFINE codes == <<\hE1, \h1D, \h45, \hE1, \h9D, \hC5>>
    <2>1. Make(key) = codes
      BY <1>4, MakesAndBreaks, Zenon
    <2>2. codes \in Seq(Byte) /\ Len(codes) = 6
          /\ codes[1] = \hE1 /\ codes[2] = \h1D /\ codes[3] = \h45 /\ codes[4] = \hE1
          /\ codes[5] = \h9D /\ codes[6] = \hC5
      BY DEF Byte
    <2>3. /\ s \in Seq(Item) /\ Len(s) = 6
          /\ s[1].code = \hE1 /\ s[1].means = NUL /\ s[2].code = \h1D /\ s[2].means = NUL
          /\ s[3].code = \h45 /\ s[3].means = NUL /\ s[4].code = \hE1 /\ s[4].means = NUL
          /\ s[5].code = \h9D /\ s[5].means = NUL /\ s[6].code = \hC5 /\ s[6].means = meaning
      <3>1. s = Sent(codes, meaning)
        BY <2>1, Zenon
      <3> HIDE DEF s, codes
      <3>0. codes \in Seq(Byte)
        BY <2>2
      <3>2. /\ s \in Seq(Item) /\ Len(s) = Len(codes)
            /\ \A i \in 1 .. Len(codes) :
                   s[i].code = codes[i] /\ s[i].means = IF i = Len(codes) THEN meaning ELSE NUL
        BY <3>0, <3>1, SentIs
      <3>3. QED
        BY <2>2, <3>2
    <2>4. PICK b, c, d, e, f, g : PauseMade(a, b, c, d, e, f, g)
      BY PauseEffect, Zenon
    <2>5. /\ b \in KH /\ c \in KH /\ d \in KH /\ e \in KH /\ f \in KH /\ g \in KH
          /\ Effect(a, PauseKey, TRUE, g)
          /\ a.internal = {} =>
                /\ says(a, \hE1) = NUL /\ says(b, \h1D) = NUL /\ says(c, \h45) = NUL
                /\ says(d, \hE1) = NUL /\ says(e, \h9D) = NUL /\ says(f, \hC5) = NUL
      BY <2>4, Zenon DEF PauseMade
    <2>13. /\ b = next(a, \hE1) /\ c = next(b, \h1D) /\ d = next(c, \h45)
          /\ e = next(d, \hE1) /\ f = next(e, \h9D) /\ g = next(f, \hC5)
      BY <2>4, Zenon DEF PauseMade
    <2>6. Heard(a, key) = NUL
      BY <1>4, SpecialKeys DEF Heard, PrintScreenKey, PauseKey
    <2> HIDE DEF s
    <2>7. lossy = FALSE => /\ says(a, s[1].code) = s[1].means /\ says(b, s[2].code) = s[2].means
                           /\ says(c, s[3].code) = s[3].means /\ says(d, s[4].code) = s[4].means
                           /\ says(e, s[5].code) = s[5].means /\ says(f, s[6].code) = s[6].means
      BY <2>3, <2>5, <2>6
    <2>8. /\ b = next(a, s[1].code) /\ c = next(b, s[2].code) /\ d = next(c, s[3].code)
          /\ e = next(d, s[4].code) /\ f = next(e, s[5].code) /\ g = next(f, s[6].code)
      BY <2>3, <2>13
    <2>9. g \in KH
      BY <2>5, Zenon DEF Effect
    <2>10. Decodes(s, a, g, lossy)
      <3>1. StepsSix(s, a, b, c, d, e, f, g, lossy)
        BY <2>3, <2>5, <2>7, <2>8, <2>9 DEF StepsSix
      <3>2. QED
        BY <3>1, RunsSix, Zenon
    <2>11. Len(s) \in 0 .. 6
      BY <2>3
    <2>12. QED
      BY <1>4, <2>3, <2>5, <2>9, <2>10, <2>11, Zenon DEF s
  <1>5. QED
    BY <1>1, <1>2, <1>3, <1>4, KeyKinds

\* And so does what it sends when it is released.
LEMMA ReleaseDecoded ==
    ASSUME NEW a \in KH, NEW key \in KeyboardKeys, NEW lossy,
           lossy = FALSE => a.internal = {}
    PROVE  LET s == Sent(Break(key), NUL)
           IN  /\ s \in Seq(Item) /\ Len(s) \in 0 .. 6
               /\ \E g \in KH : Decodes(s, a, g, lossy) /\ Effect(a, key, FALSE, g)
  <1> DEFINE s == Sent(Break(key), NUL)
  <1>0. NUL \in Said
    BY DEF Said
  <1>1. CASE key \in SimpleKeys
    <2> DEFINE k == key.code + 128
               codes == <<k>>
               g == next(a, k)
    <2>1. Break(key) = codes /\ k \in Byte
      <3>1. k \in Byte
        BY <1>1, KeyKinds DEF Byte
      <3>2. Break(key) = codes
        BY <1>1, MakesAndBreaks, Zenon
      <3>3. QED
        BY <3>1, <3>2, Zenon
    <2>2. codes \in Seq(Byte) /\ Len(codes) = 1 /\ codes[1] = k
      BY <2>1
    <2>3. s \in Seq(Item) /\ Len(s) = 1 /\ s[1].code = k /\ s[1].means = NUL
      <3>1. s = Sent(codes, NUL)
        BY <2>1, Zenon
      <3> HIDE DEF s, codes
      <3>2. /\ s \in Seq(Item) /\ Len(s) = Len(codes)
            /\ \A i \in 1 .. Len(codes) :
                   s[i].code = codes[i] /\ s[i].means = IF i = Len(codes) THEN NUL ELSE NUL
        BY <1>0, <2>2, <3>1, SentIs
      <3>3. QED
        BY <2>2, <3>2
    <2>4. /\ Effect(a, key, FALSE, g)
          /\ a.internal = {} => says(a, k) = NUL
      BY <1>1, SimpleBreakEffect, Zenon
    <2>5. g \in KH
      BY <2>1, NextInKH
    <2> HIDE DEF s, k, g
    <2>6. lossy = FALSE => says(a, s[1].code) = s[1].means
      BY <2>3, <2>4
    <2>7. Decodes(s, a, g, lossy)
      BY <2>3, <2>5, <2>6, RunsOne DEF g
    <2>8. Len(s) \in 0 .. 6
      BY <2>3
    <2>9. QED
      BY <2>3, <2>4, <2>5, <2>7, <2>8, Zenon DEF s
  <1>2. CASE key \in GreyKeys
    <2> DEFINE k == key.code + 128
               codes == <<\hE0, k>>
               b == next(a, \hE0)
               g == next(b, k)
    <2>1. Break(key) = codes /\ k \in Byte /\ \hE0 \in Byte
      <3>1. k \in Byte /\ \hE0 \in Byte
        BY <1>2, KeyKinds DEF Byte
      <3>2. Break(key) = codes
        BY <1>2, MakesAndBreaks, ZenonT(60)
      <3>3. QED
        BY <3>1, <3>2, Zenon
    <2>2. codes \in Seq(Byte) /\ Len(codes) = 2 /\ codes[1] = \hE0 /\ codes[2] = k
      BY <2>1
    <2>3. /\ s \in Seq(Item) /\ Len(s) = 2 /\ s[1].code = \hE0 /\ s[1].means = NUL
          /\ s[2].code = k /\ s[2].means = NUL
      <3>1. s = Sent(codes, NUL)
        BY <2>1, Zenon
      <3> HIDE DEF s, codes
      <3>2. /\ s \in Seq(Item) /\ Len(s) = Len(codes)
            /\ \A i \in 1 .. Len(codes) :
                   s[i].code = codes[i] /\ s[i].means = IF i = Len(codes) THEN NUL ELSE NUL
        BY <1>0, <2>2, <3>1, SentIs
      <3>3. QED
        BY <2>2, <3>2
    <2>4. /\ b \in KH /\ Effect(a, key, FALSE, g)
          /\ a.internal = {} => says(a, \hE0) = NUL /\ says(b, k) = NUL
      BY <1>2, GreyBreakEffect, ZenonT(60)
    <2>5. g \in KH
      BY <2>1, <2>4, NextInKH
    <2> HIDE DEF s, k, b, g
    <2>6. lossy = FALSE => says(a, s[1].code) = s[1].means /\ says(b, s[2].code) = s[2].means
      BY <2>3, <2>4
    <2>7. b = next(a, s[1].code) /\ g = next(b, s[2].code)
      BY <2>3 DEF b, g
    <2>8. Decodes(s, a, g, lossy)
      BY <2>3, <2>4, <2>5, <2>6, <2>7, RunsTwo
    <2>9. Len(s) \in 0 .. 6
      BY <2>3
    <2>10. QED
      BY <2>3, <2>4, <2>5, <2>8, <2>9, Zenon DEF s
  <1>3. CASE key = PrintScreenKey
    <2> DEFINE codes == <<\hE0, \hB7, \hE0, \hAA>>
    <2>1. Break(key) = codes
      BY <1>3, MakesAndBreaks, Zenon
    <2>2. codes \in Seq(Byte) /\ Len(codes) = 4
          /\ codes[1] = \hE0 /\ codes[2] = \hB7 /\ codes[3] = \hE0 /\ codes[4] = \hAA
      BY DEF Byte
    <2>3. /\ s \in Seq(Item) /\ Len(s) = 4
          /\ s[1].code = \hE0 /\ s[1].means = NUL /\ s[2].code = \hB7 /\ s[2].means = NUL
          /\ s[3].code = \hE0 /\ s[3].means = NUL /\ s[4].code = \hAA /\ s[4].means = NUL
      <3>1. s = Sent(codes, NUL)
        BY <2>1, Zenon
      <3> HIDE DEF s, codes
      <3>2. /\ s \in Seq(Item) /\ Len(s) = Len(codes)
            /\ \A i \in 1 .. Len(codes) :
                   s[i].code = codes[i] /\ s[i].means = IF i = Len(codes) THEN NUL ELSE NUL
        BY <1>0, <2>2, <3>1, SentIs
      <3>3. QED
        BY <2>2, <3>2
    <2>4. PICK b, c, d, g : PrintScreenBroken(a, b, c, d, g)
      BY PrintScreenBreakEffect, Zenon
    <2>5. /\ b \in KH /\ c \in KH /\ d \in KH /\ g \in KH
          /\ Effect(a, PrintScreenKey, FALSE, g)
          /\ a.internal = {} => /\ says(a, \hE0) = NUL /\ says(b, \hB7) = NUL
                                /\ says(c, \hE0) = NUL /\ says(d, \hAA) = NUL
      BY <2>4, Zenon DEF PrintScreenBroken
    <2>13. /\ b = next(a, \hE0) /\ c = next(b, \hB7) /\ d = next(c, \hE0)
          /\ g = next(d, \hAA)
      BY <2>4, Zenon DEF PrintScreenBroken
    <2> HIDE DEF s
    <2>7. lossy = FALSE => /\ says(a, s[1].code) = s[1].means /\ says(b, s[2].code) = s[2].means
                           /\ says(c, s[3].code) = s[3].means /\ says(d, s[4].code) = s[4].means
      BY <2>3, <2>5
    <2>8. /\ b = next(a, s[1].code) /\ c = next(b, s[2].code) /\ d = next(c, s[3].code)
          /\ g = next(d, s[4].code)
      BY <2>3, <2>13
    <2>9. g \in KH
      BY <2>5, Zenon DEF Effect
    <2>10. Decodes(s, a, g, lossy)
      <3>1. StepsFour(s, a, b, c, d, g, lossy)
        BY <2>3, <2>5, <2>7, <2>8, <2>9 DEF StepsFour
      <3>2. QED
        BY <3>1, RunsFour, Zenon
    <2>11. Len(s) \in 0 .. 6
      BY <2>3
    <2>12. QED
      BY <1>3, <2>3, <2>5, <2>9, <2>10, <2>11, Zenon DEF s
  <1>4. CASE key = PauseKey
    <2>1. Break(key) = <<>>
      BY <1>4, MakesAndBreaks, Zenon
    <2> DEFINE codes == <<>>
    <2>2. codes \in Seq(Byte) /\ Len(codes) = 0
      OBVIOUS
    <2>3. s \in Seq(Item) /\ Len(s) = 0
      <3>1. s = Sent(codes, NUL)
        BY <2>1, Zenon
      <3> HIDE DEF s, codes
      <3>2. \A c \in Seq(Byte) : Sent(c, NUL) \in Seq(Item) /\ Len(Sent(c, NUL)) = Len(c)
        BY <1>0, SentIs, Zenon
      <3>3. QED
        BY <2>2, <3>1, <3>2, Zenon
    <2>4. s = <<>>
      BY <2>3, EmptySeq
    <2> HIDE DEF s
    <2>5. Decodes(s, a, a, lossy)
      BY <2>4, DecodesNothing
    <2>6. Effect(a, PauseKey, FALSE, a)
      <3>1. Undisturbed(a, a)
        BY DEF Undisturbed
      <3>2. QED
        BY <3>1, NoEffect, Zenon
    <2>7. Len(s) \in 0 .. 6
      BY <2>3
    <2>8. QED
      BY <1>4, <2>3, <2>5, <2>6, <2>7, Zenon DEF s
  <1>5. QED
    BY <1>1, <1>2, <1>3, <1>4, KeyKinds

-----------------------------------------------------------------------------
(* The bits of the decoder and the keys of the keyboard.                   *)

\* The bits of a decoder that has heard of everything.
HardwareBits(keys, on) == {m \in Modifier : KeyOf(m) \in keys} \cup on

\* A key is told by its code and its prefix.
LEMMA KeyIsItsCode ==
    ASSUME NEW key \in KeyboardKeys
    PROVE  /\ key = [e0 |-> key.e0, code |-> key.code]
           /\ key.e0 \in BOOLEAN /\ key.code \in 1 .. \h61
           /\ key = KeyOf("LSHIFT")   <=> ~key.e0 /\ key.code = \h2A
           /\ key = KeyOf("RSHIFT")   <=> ~key.e0 /\ key.code = \h36
           /\ key = KeyOf("LCONTROL") <=> ~key.e0 /\ key.code = \h1D
           /\ key = KeyOf("RCONTROL") <=> key.e0 /\ key.code = \h1D
           /\ key = KeyOf("LALT")     <=> ~key.e0 /\ key.code = \h38
           /\ key = KeyOf("RALT")     <=> key.e0 /\ key.code = \h38
           /\ key = CapsLockKey       <=> ~key.e0 /\ key.code = \h3A
           /\ key = NumLockKey        <=> ~key.e0 /\ key.code = \h45
  <1>1. key \in [e0 : BOOLEAN, code : 1 .. \h61]
    <2>1. CASE key = PauseKey
      BY <2>1 DEF PauseKey
    <2>2. CASE key \in [e0 : BOOLEAN, code : 1 .. \h5F]
      BY <2>2
    <2>3. QED
      BY <2>1, <2>2 DEF KeyboardKeys
  <1>2. key = [e0 |-> key.e0, code |-> key.code] /\ key.e0 \in BOOLEAN /\ key.code \in 1 .. \h61
    BY <1>1
  <1>3. /\ \A c \in Nat : key = [e0 |-> TRUE, code |-> c] <=> key.e0 /\ key.code = c
        /\ \A c \in Nat : key = [e0 |-> FALSE, code |-> c] <=> ~key.e0 /\ key.code = c
    BY <1>2
  <1>4. key = KeyOf("LSHIFT") <=> ~key.e0 /\ key.code = \h2A
    BY <1>3 DEF KeyOf
  <1>5. key = KeyOf("RSHIFT") <=> ~key.e0 /\ key.code = \h36
    BY <1>3 DEF KeyOf
  <1>6. key = KeyOf("LCONTROL") <=> ~key.e0 /\ key.code = \h1D
    BY <1>3 DEF KeyOf
  <1>7. key = KeyOf("RCONTROL") <=> key.e0 /\ key.code = \h1D
    BY <1>3 DEF KeyOf
  <1>8. key = KeyOf("LALT") <=> ~key.e0 /\ key.code = \h38
    BY <1>3 DEF KeyOf
  <1>9. key = KeyOf("RALT") <=> key.e0 /\ key.code = \h38
    BY <1>3 DEF KeyOf
  <1>10. key = CapsLockKey <=> ~key.e0 /\ key.code = \h3A
    BY <1>3 DEF CapsLockKey
  <1>11. key = NumLockKey <=> ~key.e0 /\ key.code = \h45
    BY <1>3 DEF NumLockKey
  <1>12. QED
    BY <1>2, <1>4, <1>5, <1>6, <1>7, <1>8, <1>9, <1>10, <1>11, Zenon

\* Every modifier has a key of its own.
LEMMA ModifiersHaveKeys ==
    /\ \A m \in Modifier : KeyOf(m) \in KeyboardKeys \ {PauseKey}
    /\ \A m, n \in Modifier : KeyOf(m) = KeyOf(n) => m = n
    /\ \A m \in Modifier : KeyOf(m) \in ModifierKeys
  <1>1. \A m \in Modifier : KeyOf(m) \in KeyboardKeys \ {PauseKey}
    BY DEF KeyboardKeys, PauseKey, Modifier, KeyOf
  <1>2. \A m, n \in Modifier : KeyOf(m) = KeyOf(n) => m = n
    BY ModifierKeysAre DEF Modifier
  <1>3. QED
    BY <1>1, <1>2 DEF ModifierKeys

\* Pressing a key turns the bit of a modifier on, and of a lock over.
\* Pressing a key turns the bit of a modifier on, and of a lock over.
\* Pressing a key turns the bit of a modifier on, and of a lock over.
\* Pressing a key turns the bit of a modifier on, and of a lock over.
LEMMA PressBits ==
    ASSUME NEW key \in KeyboardKeys, NEW bits \in Bits
    PROVE  /\ KeyBits(bits, key, TRUE) \in Bits
           /\ \A m \in Modifier : m \in KeyBits(bits, key, TRUE) <=> key = KeyOf(m) \/ m \in bits
           /\ \A m \in Lock : m \in KeyBits(bits, key, TRUE) <=>
                                  IF m \in LocksOf(key) THEN m \notin bits ELSE m \in bits
  <1> DEFINE Over(m) == IF m \in bits THEN bits \ {m} ELSE bits \cup {m}
  <1>1. key = [e0 |-> key.e0, code |-> key.code] /\ key.e0 \in BOOLEAN
    BY KeyIsItsCode
  <1>2. \A m : Switched(bits, m, TRUE) = bits \cup {m}
    BY DEF Switched
  <1>3. \A m : Toggled(bits, m, TRUE) = Over(m)
    BY DEF Toggled
  <1>4. CASE key.e0
    <2> DEFINE b == KeyBits(bits, key, TRUE)
    <2>1. b =
            CASE key.code = \h1D -> bits \cup {"RCONTROL"}
              [] key.code = \h38 -> bits \cup {"RALT"}
              [] OTHER -> bits
      BY <1>2, <1>4 DEF KeyBits, ExtendedBits
    <2> HIDE DEF b
    <2>2. \A m \in Lock : m \notin LocksOf(key)
      BY <1>4 DEF LocksOf, CapsLockKey, NumLockKey
    <2>3. /\ key = KeyOf("RCONTROL") => b = bits \cup {"RCONTROL"}
          /\ key = KeyOf("RALT") => b = bits \cup {"RALT"}
          /\ key # KeyOf("RCONTROL") /\ key # KeyOf("RALT") => b = bits
      BY <1>4, <2>1, KeyIsItsCode
    <2>4. key \notin {KeyOf("LSHIFT"), KeyOf("RSHIFT"), KeyOf("LCONTROL"), KeyOf("LALT")}
      BY <1>4, KeyIsItsCode
    <2>5. (\A m \in Modifier : key # KeyOf(m)) \/ key = KeyOf("RCONTROL") \/ key = KeyOf("RALT")
      BY <2>4 DEF Modifier
    <2>6. QED
      BY <2>2, <2>3, <2>5, ModifiersHaveKeys DEF b, Bits, Modifier, Lock
  <1>5. CASE ~key.e0
    <2> DEFINE b == KeyBits(bits, key, TRUE)
    <2>1. b =
            CASE key.code = \h1D -> bits \cup {"LCONTROL"}
              [] key.code = \h2A -> bits \cup {"LSHIFT"}
              [] key.code = \h36 -> bits \cup {"RSHIFT"}
              [] key.code = \h38 -> bits \cup {"LALT"}
              [] key.code = \h3A -> Over("CAPS_LOCK")
              [] key.code = \h45 -> Over("NUM_LOCK")
              [] OTHER -> bits
      BY <1>2, <1>3, <1>5 DEF KeyBits, SimpleBits
    <2> HIDE DEF b
    <2>2. /\ key = KeyOf("LCONTROL") => b = bits \cup {"LCONTROL"}
          /\ key = KeyOf("LSHIFT") => b = bits \cup {"LSHIFT"}
          /\ key = KeyOf("RSHIFT") => b = bits \cup {"RSHIFT"}
          /\ key = KeyOf("LALT") => b = bits \cup {"LALT"}
          /\ key = CapsLockKey => b = Over("CAPS_LOCK")
          /\ key = NumLockKey => b = Over("NUM_LOCK")
          /\ key # KeyOf("LCONTROL") /\ key # KeyOf("LSHIFT") /\ key # KeyOf("RSHIFT")
             /\ key # KeyOf("LALT")
             /\ key # CapsLockKey /\ key # NumLockKey => b = bits
      BY <1>5, <2>1, KeyIsItsCode
    <2>3. key # KeyOf("RCONTROL") /\ key # KeyOf("RALT")
      BY <1>5, KeyIsItsCode
    <2>4. \/ \A m \in Modifier : key # KeyOf(m)
          \/ key \in {KeyOf("LSHIFT"), KeyOf("RSHIFT"), KeyOf("LCONTROL"), KeyOf("LALT")}
      BY <2>3 DEF Modifier
    <2>5. /\ key = CapsLockKey => LocksOf(key) = {"CAPS_LOCK"}
          /\ key = NumLockKey => LocksOf(key) = {"NUM_LOCK"}
          /\ key # CapsLockKey /\ key # NumLockKey => LocksOf(key) = {}
      BY DEF LocksOf, CapsLockKey, NumLockKey
    <2>6. CASE key = CapsLockKey \/ key = NumLockKey
      <3>1. \A m \in Modifier : key # KeyOf(m)
        BY <2>6, KeyIsItsCode DEF Modifier
      <3>2. CASE key = CapsLockKey
        <4>1. \A m : m \in b <=> IF m = "CAPS_LOCK" THEN m \notin bits ELSE m \in bits
          BY <1>3, <2>2, <3>2
        <4>2. LocksOf(key) = {"CAPS_LOCK"}
          BY <2>5, <3>2
        <4>3. QED
          BY <3>1, <4>1, <4>2 DEF b, Bits, Modifier, Lock
      <3>3. CASE key = NumLockKey
        <4>1. \A m : m \in b <=> IF m = "NUM_LOCK" THEN m \notin bits ELSE m \in bits
          BY <1>3, <2>2, <3>3
        <4>2. LocksOf(key) = {"NUM_LOCK"}
          BY <2>5, <3>3
        <4>3. QED
          BY <3>1, <4>1, <4>2 DEF b, Bits, Modifier, Lock
      <3>4. QED
        BY <2>6, <3>2, <3>3
    <2>7. CASE key # CapsLockKey /\ key # NumLockKey
      <3>1. LocksOf(key) = {}
        BY <2>5, <2>7
      <3>2. QED
        BY <2>2, <2>4, <2>7, <3>1, ModifiersHaveKeys DEF b, Bits, Modifier, Lock
    <2>8. QED
      BY <2>6, <2>7
  <1>6. QED
    BY <1>1, <1>4, <1>5, Zenon

\* Releasing a key turns the bit of a modifier off.
LEMMA ReleaseBits ==
    ASSUME NEW key \in KeyboardKeys, NEW bits \in Bits
    PROVE  /\ KeyBits(bits, key, FALSE) \in Bits
           /\ \A m \in Modifier : m \in KeyBits(bits, key, FALSE) <=> key # KeyOf(m) /\ m \in bits
           /\ \A m \in Lock : m \in KeyBits(bits, key, FALSE) <=> m \in bits
  <1>1. key = [e0 |-> key.e0, code |-> key.code] /\ key.e0 \in BOOLEAN
    BY KeyIsItsCode
  <1>2. \A m : Switched(bits, m, FALSE) = bits \ {m}
    BY DEF Switched
  <1>3. \A m : Toggled(bits, m, FALSE) = bits
    BY DEF Toggled
  <1>4. CASE key.e0
    <2> DEFINE b == KeyBits(bits, key, FALSE)
    <2>1. b =
            CASE key.code = \h1D -> bits \ {"RCONTROL"}
              [] key.code = \h38 -> bits \ {"RALT"}
              [] OTHER -> bits
      BY <1>2, <1>4 DEF KeyBits, ExtendedBits
    <2> HIDE DEF b
    <2>2. \A m \in Lock : m \notin LocksOf(key)
      BY <1>4 DEF LocksOf, CapsLockKey, NumLockKey
    <2>3. /\ key = KeyOf("RCONTROL") => b = bits \ {"RCONTROL"}
          /\ key = KeyOf("RALT") => b = bits \ {"RALT"}
          /\ key # KeyOf("RCONTROL") /\ key # KeyOf("RALT") => b = bits
      BY <1>4, <2>1, KeyIsItsCode
    <2>4. key \notin {KeyOf("LSHIFT"), KeyOf("RSHIFT"), KeyOf("LCONTROL"), KeyOf("LALT")}
      BY <1>4, KeyIsItsCode
    <2>5. (\A m \in Modifier : key # KeyOf(m)) \/ key = KeyOf("RCONTROL") \/ key = KeyOf("RALT")
      BY <2>4 DEF Modifier
    <2>6. QED
      BY <2>2, <2>3, <2>5, ModifiersHaveKeys DEF b, Bits, Modifier, Lock
  <1>5. CASE ~key.e0
    <2> DEFINE b == KeyBits(bits, key, FALSE)
    <2>1. b =
            CASE key.code = \h1D -> bits \ {"LCONTROL"}
              [] key.code = \h2A -> bits \ {"LSHIFT"}
              [] key.code = \h36 -> bits \ {"RSHIFT"}
              [] key.code = \h38 -> bits \ {"LALT"}
              [] key.code = \h3A -> bits
              [] key.code = \h45 -> bits
              [] OTHER -> bits
      BY <1>2, <1>3, <1>5 DEF KeyBits, SimpleBits
    <2> HIDE DEF b
    <2>2. /\ key = KeyOf("LCONTROL") => b = bits \ {"LCONTROL"}
          /\ key = KeyOf("LSHIFT") => b = bits \ {"LSHIFT"}
          /\ key = KeyOf("RSHIFT") => b = bits \ {"RSHIFT"}
          /\ key = KeyOf("LALT") => b = bits \ {"LALT"}
          /\ key # KeyOf("LCONTROL") /\ key # KeyOf("LSHIFT") /\ key # KeyOf("RSHIFT")
             /\ key # KeyOf("LALT")
             => b = bits
      BY <1>5, <2>1, KeyIsItsCode
    <2>3. key # KeyOf("RCONTROL") /\ key # KeyOf("RALT")
      BY <1>5, KeyIsItsCode
    <2>4. \/ \A m \in Modifier : key # KeyOf(m)
          \/ key \in {KeyOf("LSHIFT"), KeyOf("RSHIFT"), KeyOf("LCONTROL"), KeyOf("LALT")}
      BY <2>3 DEF Modifier
    <2>5. QED
      BY <2>2, <2>4, ModifiersHaveKeys DEF b, Bits, Modifier, Lock
  <1>6. QED
    BY <1>1, <1>4, <1>5, Zenon

\* What Press makes of the keys that are down and the locks that are on.
DownAfter(keys, key) == IF key = PauseKey THEN keys ELSE keys \cup {key}
OnAfter(on, key) == (on \ LocksOf(key)) \cup (LocksOf(key) \ on)

\* Its bits, one by one.
LEMMA HardwareBitsAre ==
    ASSUME NEW keys, NEW on \in SUBSET Lock
    PROVE  /\ HardwareBits(keys, on) \in Bits
           /\ \A m \in Modifier : m \in HardwareBits(keys, on) <=> KeyOf(m) \in keys
           /\ \A m \in Lock : m \in HardwareBits(keys, on) <=> m \in on
  <1>1. Modifier \cap Lock = {}
    BY DEF Modifier, Lock
  <1>2. QED
    BY <1>1 DEF HardwareBits, Bits

\* Sets of bits are equal if they agree on every modifier and every lock.
LEMMA BitsAreEqual ==
    ASSUME NEW a \in Bits, NEW b \in Bits,
           \A m \in Modifier : m \in a <=> m \in b,
           \A m \in Lock : m \in a <=> m \in b
    PROVE  a = b
  BY DEF Bits

\* The bits of the decoder go with the keyboard when a key is pressed,
LEMMA PressedHardware ==
    ASSUME NEW keys, NEW on \in SUBSET Lock, NEW key \in KeyboardKeys
    PROVE  /\ OnAfter(on, key) \in SUBSET Lock
           /\ KeyBits(HardwareBits(keys, on), key, TRUE) =
                  HardwareBits(DownAfter(keys, key), OnAfter(on, key))
           /\ \A m \in Modifier : KeyOf(m) \in DownAfter(keys, key) <=>
                                      key = KeyOf(m) \/ KeyOf(m) \in keys
  <1> DEFINE bits == HardwareBits(keys, on)
             a == KeyBits(bits, key, TRUE)
             b == HardwareBits(DownAfter(keys, key), OnAfter(on, key))
  <1>1. OnAfter(on, key) \in SUBSET Lock
    BY DEF OnAfter, LocksOf, Lock
  <1>2. \A m \in Modifier :
            KeyOf(m) \in DownAfter(keys, key) <=> key = KeyOf(m) \/ KeyOf(m) \in keys
    BY ModifiersHaveKeys DEF DownAfter
  <1>3. /\ bits \in Bits
        /\ \A m \in Modifier : m \in bits <=> KeyOf(m) \in keys
        /\ \A m \in Lock : m \in bits <=> m \in on
    BY HardwareBitsAre
  <1> HIDE DEF bits
  <1>4. /\ a \in Bits
        /\ \A m \in Modifier : m \in a <=> key = KeyOf(m) \/ m \in bits
        /\ \A m \in Lock : m \in a <=> IF m \in LocksOf(key) THEN m \notin bits ELSE m \in bits
    BY <1>3, PressBits, Zenon
  <1> HIDE DEF a
  <1>5. /\ b \in Bits
        /\ \A m \in Modifier : m \in b <=> KeyOf(m) \in DownAfter(keys, key)
        /\ \A m \in Lock : m \in b <=> m \in OnAfter(on, key)
    BY <1>1, HardwareBitsAre
  <1> HIDE DEF b
  <1>6. \A m \in Modifier : m \in a <=> m \in b
    BY <1>2, <1>3, <1>4, <1>5
  <1>7. \A m \in Lock : m \in a <=> m \in b
    BY <1>3, <1>4, <1>5 DEF OnAfter
  <1>8. a = b
    BY <1>4, <1>5, <1>6, <1>7, BitsAreEqual
  <1>9. QED
    BY <1>1, <1>2, <1>8, Zenon DEF a, b, bits

\* and when one is released.
LEMMA ReleasedHardware ==
    ASSUME NEW keys, NEW on \in SUBSET Lock, NEW key \in KeyboardKeys
    PROVE  KeyBits(HardwareBits(keys, on), key, FALSE) = HardwareBits(keys \ {key}, on)
  <1> DEFINE bits == HardwareBits(keys, on)
             a == KeyBits(bits, key, FALSE)
             b == HardwareBits(keys \ {key}, on)
  <1>1. /\ bits \in Bits
        /\ \A m \in Modifier : m \in bits <=> KeyOf(m) \in keys
        /\ \A m \in Lock : m \in bits <=> m \in on
    BY HardwareBitsAre
  <1> HIDE DEF bits
  <1>2. /\ a \in Bits
        /\ \A m \in Modifier : m \in a <=> key # KeyOf(m) /\ m \in bits
        /\ \A m \in Lock : m \in a <=> m \in bits
    BY <1>1, ReleaseBits, Zenon
  <1> HIDE DEF a
  <1>3. /\ b \in Bits
        /\ \A m \in Modifier : m \in b <=> KeyOf(m) \in keys \ {key}
        /\ \A m \in Lock : m \in b <=> m \in on
    BY HardwareBitsAre
  <1> HIDE DEF b
  <1>4. \A m \in Modifier : m \in a <=> m \in b
    BY <1>1, <1>2, <1>3
  <1>5. \A m \in Lock : m \in a <=> m \in b
    BY <1>1, <1>2, <1>3
  <1>6. a = b
    BY <1>2, <1>3, <1>4, <1>5, BitsAreEqual
  <1>7. QED
    BY <1>6, Zenon DEF a, b, bits

\* A decoder at rest hears a key as the person who presses it means it.
LEMMA MeaningIsHeard ==
    ASSUME NEW d \in KH, d.state = HardwareBits(held, locks), locks \subseteq Lock,
           NEW key \in KeyboardKeys
    PROVE  Meaning(key) = Heard(d, key)
  <1> DEFINE k == key.code
  <1>1. /\ KHS_CTL_CORE(d) <=> Down("LCONTROL") \/ Down("RCONTROL")
        /\ KHS_SHIFT_CORE(d) <=> Down("LSHIFT") \/ Down("RSHIFT")
        /\ "CAPS_LOCK" \in d.state <=> "CAPS_LOCK" \in locks
    BY HardwareBitsAre DEF KHS_CTL_CORE, KHS_SHIFT_CORE, Down, Modifier, Lock
  <1>2. CASE ~key.e0 /\ k \in Characters /\ key # PrintScreenKey
    <2>1. Heard(d, key) = <<k, Column(d, k)>>
      BY <1>2 DEF Heard
    <2> DEFINE ctl == Down("LCONTROL") \/ Down("RCONTROL")
               shift == Down("LSHIFT") \/ Down("RSHIFT")
               caps == "CAPS_LOCK" \in locks
               column == CASE k \in ShiftCtl \cup ShiftCapsCtl /\ ctl -> "cc"
                           [] k \in Plain -> "u"
                           [] OTHER -> IF shift # (k \in ShiftCapsCtl /\ caps) THEN "s" ELSE "u"
    <2>2. Meaning(key) = <<k, column>>
      BY <1>2 DEF Meaning, Characters
    <2>3. column = Column(d, k)
      <3>1. k \in Shift \/ k \in ShiftCtl \/ k \in ShiftCapsCtl \/ k \in Plain
        BY <1>2 DEF Characters
      <3>2. /\ k \in Shift => k \notin ShiftCtl /\ k \notin ShiftCapsCtl /\ k \notin Plain
            /\ k \in ShiftCtl => k \notin Shift /\ k \notin ShiftCapsCtl /\ k \notin Plain
            /\ k \in ShiftCapsCtl => k \notin Shift /\ k \notin ShiftCtl /\ k \notin Plain
            /\ k \in Plain => k \notin Shift /\ k \notin ShiftCtl /\ k \notin ShiftCapsCtl
        BY RowsOfKeys
      <3> HIDE DEF k
      <3>3. CASE k \in Shift
        BY <1>1, <3>2, <3>3 DEF Column, KHS_SHIFT
      <3>4. CASE k \in ShiftCtl
        BY <1>1, <3>2, <3>4 DEF Column, KHS_SHIFT, KHS_SHIFTCTL
      <3>5. CASE k \in ShiftCapsCtl
        <4> DEFINE upper == KHS_SHIFT_CORE(d) # ("CAPS_LOCK" \in d.state)
                   typed == shift # (k \in ShiftCapsCtl /\ caps)
        <4>1. upper = typed
          <5>1. KHS_SHIFT_CORE(d) = shift
            BY <1>1, Zenon DEF KHS_SHIFT_CORE
          <5>2. ("CAPS_LOCK" \in d.state) = (k \in ShiftCapsCtl /\ caps)
            BY <1>1, <3>5
          <5>3. QED
            BY <5>1, <5>2, Zenon
        <4>2. Column(d, k) = IF ctl THEN "cc" ELSE IF upper THEN "s" ELSE "u"
          BY <1>1, <3>2, <3>5 DEF Column, KHS_SHIFTCAPSCTL
        <4>3. column = IF ctl THEN "cc" ELSE IF typed THEN "s" ELSE "u"
          BY <3>2, <3>5
        <4>4. QED
          BY <4>1, <4>2, <4>3, Zenon
      <3>6. CASE k \in Plain
        BY <3>2, <3>6 DEF Column
      <3>7. QED
        BY <3>1, <3>3, <3>4, <3>5, <3>6, Zenon
    <2>4. QED
      BY <2>1, <2>2, <2>3
  <1>3. CASE ~(~key.e0 /\ k \in Characters) \/ key = PrintScreenKey
    <2>1. key = PrintScreenKey => key.e0
      BY DEF PrintScreenKey
    <2>2. QED
      BY <1>3, <2>1 DEF Meaning, Heard, Characters
  <1>4. QED
    BY <1>2, <1>3

-----------------------------------------------------------------------------
(* How a modifier heals.                                                   *)

\* How far the decoder knows again of modifier w, pressed and released n times.
Heals(d, n, w, keys) ==
    /\ n >= 1 => "EXTENDED" \notin d.internal
    /\ n >= 2 /\ w = "LCONTROL" => Quiet(d)
    /\ n >= 3 /\ w = "LCONTROL" => ~Pausing(d)
    /\ n >= 2 /\ (w # "LCONTROL" \/ n >= 3) => (w \in d.state <=> KeyOf(w) \in keys)

\* A key that is pressed keeps what is known, and tells more if it is w's.
LEMMA PressHeals ==
    ASSUME NEW d \in KH, NEW e, NEW key \in KeyboardKeys, Effect(d, key, TRUE, e),
           NEW n \in 0 .. 4, NEW w \in Modifier, NEW keys, Heals(d, n, w, keys)
    PROVE  LET m == IF key = KeyOf(w) /\ n \in {0, 2} THEN n + 1 ELSE n
           IN  m \in 0 .. 4 /\ Heals(e, m, w, DownAfter(keys, key))
  <1> DEFINE m == IF key = KeyOf(w) /\ n \in {0, 2} THEN n + 1 ELSE n
             bits == KeyBits(d.state, key, TRUE)
  <1>1. m \in 0 .. 4
    OBVIOUS
  <1>2. /\ key \in ModifierKeys => "EXTENDED" \notin e.internal
        /\ "EXTENDED" \notin d.internal =>
               /\ "EXTENDED" \notin e.internal
               /\ \A b \in Modifier \ {"LCONTROL"} : b \in e.state <=> b \in bits
               /\ Quiet(d) => Quiet(e)
               /\ ~Pausing(d) => ~Pausing(e) /\ e.state = bits
               /\ key = KeyOf("LCONTROL") /\ Quiet(d) => ~Pausing(e) /\ e.state = bits
    BY Zenon DEF Effect
  <1>3. \A b \in Modifier : b \in bits <=> key = KeyOf(b) \/ b \in d.state
    <2>1. d.state \in Bits
      BY DEF KH, Bits
    <2>2. QED
      BY <2>1, PressBits, Zenon
  <1> HIDE DEF bits
  <1>4. KeyOf(w) \in DownAfter(keys, key) <=> key = KeyOf(w) \/ KeyOf(w) \in keys
    BY ModifiersHaveKeys DEF DownAfter
  <1>5. key = KeyOf(w) => key \in ModifierKeys
    BY DEF ModifierKeys
  <1>6. m >= 1 => "EXTENDED" \notin e.internal
    BY <1>2, <1>5 DEF Heals
  <1>7. m >= 2 /\ w = "LCONTROL" => Quiet(e)
    <2>1. m >= 2 => n >= 2
      OBVIOUS
    <2>2. QED
      BY <1>2, <2>1 DEF Heals
  <1>8. w = "LCONTROL" /\ m >= 3 => ~Pausing(e) /\ e.state = bits
    <2>1. m >= 3 => n >= 2 /\ (n >= 3 \/ key = KeyOf(w))
      OBVIOUS
    <2>2. n >= 2 => "EXTENDED" \notin d.internal
      BY DEF Heals
    <2>3. QED
      BY <1>2, <2>1, <2>2 DEF Heals
  <1>9. m >= 2 /\ (w # "LCONTROL" \/ m >= 3) =>
            (w \in e.state <=> KeyOf(w) \in DownAfter(keys, key))
    <2>1. m >= 2 => n >= 2
      OBVIOUS
    <2>2. n >= 2 => "EXTENDED" \notin d.internal
      BY DEF Heals
    <2>3. CASE w # "LCONTROL"
      <3>1. n >= 2 => (w \in d.state <=> KeyOf(w) \in keys)
        BY <2>3 DEF Heals
      <3>2. QED
        BY <1>2, <1>3, <1>4, <2>1, <2>2, <2>3, <3>1
    <2>4. CASE w = "LCONTROL" /\ m >= 3
      <3>1. e.state = bits
        BY <1>8, <2>4
      <3>2. n >= 3 => (w \in d.state <=> KeyOf(w) \in keys)
        BY <2>4 DEF Heals
      <3>3. n >= 3 \/ key = KeyOf(w)
        BY <2>4
      <3>4. QED
        BY <1>3, <1>4, <3>1, <3>2, <3>3
    <2>5. QED
      BY <2>3, <2>4
  <1> HIDE DEF m
  <1>10. Heals(e, m, w, DownAfter(keys, key))
    BY <1>6, <1>7, <1>8, <1>9, Zenon DEF Heals
  <1>11. QED
    BY <1>1, <1>10, Zenon DEF m

\* So does a key that is released.
LEMMA ReleaseHeals ==
    ASSUME NEW d \in KH, NEW e, NEW key \in KeyboardKeys, Effect(d, key, FALSE, e),
           NEW n \in 0 .. 4, NEW w \in Modifier, NEW keys, Heals(d, n, w, keys)
    PROVE  LET m == IF key = KeyOf(w) /\ n \in {1, 3} THEN n + 1 ELSE n
           IN  m \in 0 .. 4 /\ Heals(e, m, w, keys \ {key})
  <1> DEFINE m == IF key = KeyOf(w) /\ n \in {1, 3} THEN n + 1 ELSE n
             bits == KeyBits(d.state, key, FALSE)
  <1>1. m \in 0 .. 4
    OBVIOUS
  <1>2. "EXTENDED" \notin d.internal =>
               /\ "EXTENDED" \notin e.internal
               /\ \A b \in Modifier \ {"LCONTROL"} : b \in e.state <=> b \in bits
               /\ Quiet(d) => Quiet(e)
               /\ ~Pausing(d) => ~Pausing(e) /\ e.state = bits
               /\ key = KeyOf("LCONTROL") => Quiet(e)
    BY Zenon DEF Effect
  <1>3. \A b \in Modifier : b \in bits <=> key # KeyOf(b) /\ b \in d.state
    <2>1. d.state \in Bits
      BY DEF KH, Bits
    <2>2. QED
      BY <2>1, ReleaseBits, Zenon
  <1> HIDE DEF bits
  <1>4. KeyOf(w) \in keys \ {key} <=> key # KeyOf(w) /\ KeyOf(w) \in keys
    OBVIOUS
  <1>5. m >= 1 => n >= 1
    OBVIOUS
  <1>6. n >= 1 => "EXTENDED" \notin d.internal
    BY DEF Heals
  <1>7. m >= 1 => "EXTENDED" \notin e.internal
    BY <1>2, <1>5, <1>6
  <1>8. m >= 2 /\ w = "LCONTROL" => Quiet(e)
    <2>1. m >= 2 => n >= 1 /\ (n >= 2 \/ key = KeyOf(w))
      OBVIOUS
    <2>2. QED
      BY <1>2, <1>6, <2>1 DEF Heals
  <1>9. w = "LCONTROL" /\ m >= 3 => ~Pausing(e) /\ e.state = bits
    <2>1. m >= 3 => n >= 3
      OBVIOUS
    <2>2. QED
      BY <1>2, <1>6, <2>1 DEF Heals
  <1>10. m >= 2 /\ (w # "LCONTROL" \/ m >= 3) => (w \in e.state <=> KeyOf(w) \in keys \ {key})
    <2>1. CASE w # "LCONTROL" /\ m >= 2
      <3>1. n >= 1 /\ (n >= 2 \/ key = KeyOf(w))
        BY <2>1
      <3>2. n >= 2 => (w \in d.state <=> KeyOf(w) \in keys)
        BY <2>1 DEF Heals
      <3>3. w \in e.state <=> w \in bits
        BY <1>2, <1>6, <2>1, <3>1
      <3>4. QED
        BY <1>3, <1>4, <3>1, <3>2, <3>3
    <2>2. CASE w = "LCONTROL" /\ m >= 3
      <3>1. e.state = bits
        BY <1>9, <2>2
      <3>2. n >= 3
        BY <2>2
      <3>3. w \in d.state <=> KeyOf(w) \in keys
        BY <3>2 DEF Heals
      <3>4. QED
        BY <1>3, <1>4, <3>1, <3>3
    <2>3. QED
      BY <2>1, <2>2
  <1> HIDE DEF m
  <1>11. Heals(e, m, w, keys \ {key})
    BY <1>7, <1>8, <1>9, <1>10, Zenon DEF Heals
  <1>12. QED
    BY <1>1, <1>11, Zenon DEF m

\* Nothing to decode leaves it nowhere else.
LEMMA DecodesNothingElse ==
    ASSUME NEW d, NEW f, NEW lossy, Decodes(<<>>, d, f, lossy)
    PROVE  d = f
  BY DEF Decodes

-----------------------------------------------------------------------------
(* The invariant.                                                          *)

\* What the scancodes of the queue and their meanings are, as items.
Zipped(s, q, m) ==
    /\ s \in Seq(Item) /\ q \in Seq(Byte) /\ m \in Seq(Said)
    /\ Len(q) = Len(s) /\ Len(m) = Len(s)
    /\ \A i \in 1 .. Len(s) : q[i] = s[i].code /\ m[i] = s[i].means

\* Nothing is queued,
LEMMA ZippedNothing == Zipped(<<>>, <<>>, <<>>)
  BY DEF Zipped

\* one more is queued,
LEMMA ZippedMore ==
    ASSUME NEW s, NEW q, NEW m, Zipped(s, q, m), NEW x \in Item
    PROVE  Zipped(Append(s, x), Append(q, x.code), Append(m, x.means))
  <1>1. x.code \in Byte /\ x.means \in Said
    BY DEF Item
  <1> DEFINE s1 == Append(s, x)
             q1 == Append(q, x.code)
             m1 == Append(m, x.means)
  <1>2. /\ s1 \in Seq(Item) /\ q1 \in Seq(Byte) /\ m1 \in Seq(Said)
        /\ Len(s1) = Len(s) + 1 /\ Len(q1) = Len(s) + 1 /\ Len(m1) = Len(s) + 1
    BY <1>1 DEF Zipped
  <1>3. /\ s1[Len(s) + 1] = x /\ q1[Len(s) + 1] = x.code /\ m1[Len(s) + 1] = x.means
        /\ \A i \in 1 .. Len(s) : s1[i] = s[i] /\ q1[i] = q[i] /\ m1[i] = m[i]
    BY <1>1 DEF Zipped
  <1>4. Len(s) \in Nat /\ \A i \in 1 .. Len(s) : q[i] = s[i].code /\ m[i] = s[i].means
    BY DEF Zipped
  <1> HIDE DEF s1, q1, m1
  <1>5. \A i \in 1 .. Len(s1) : q1[i] = s1[i].code /\ m1[i] = s1[i].means
    BY <1>2, <1>3, <1>4
  <1>6. Zipped(s1, q1, m1)
    BY <1>2, <1>5 DEF Zipped
  <1>7. QED
    BY <1>6 DEF s1, q1, m1

\* the oldest one is taken.
LEMMA ZippedRest ==
    ASSUME NEW s, NEW q, NEW m, Zipped(s, q, m), q # <<>>
    PROVE  /\ s # <<>> /\ Head(s) \in Item
           /\ Head(q) = Head(s).code /\ Head(m) = Head(s).means
           /\ Zipped(Tail(s), Tail(q), Tail(m))
  <1>1. /\ s \in Seq(Item) /\ q \in Seq(Byte) /\ m \in Seq(Said)
        /\ Len(q) = Len(s) /\ Len(m) = Len(s)
        /\ \A i \in 1 .. Len(s) : q[i] = s[i].code /\ m[i] = s[i].means
    BY DEF Zipped
  <1>2. s # <<>> /\ m # <<>> /\ Len(s) \in Nat \ {0}
    BY <1>1, EmptySeq
  <1>3. /\ Tail(s) \in Seq(Item) /\ Tail(q) \in Seq(Byte) /\ Tail(m) \in Seq(Said)
        /\ Len(Tail(s)) = Len(s) - 1 /\ Len(Tail(q)) = Len(s) - 1 /\ Len(Tail(m)) = Len(s) - 1
        /\ Head(s) = s[1] /\ Head(q) = q[1] /\ Head(m) = m[1] /\ Head(s) \in Item
        /\ \A i \in 1 .. Len(s) - 1 :
               Tail(s)[i] = s[i + 1] /\ Tail(q)[i] = q[i + 1] /\ Tail(m)[i] = m[i + 1]
    BY <1>1, <1>2, HeadTailProperties
  <1>4. \A i \in 1 .. Len(s) - 1 : i + 1 \in 1 .. Len(s)
    BY <1>2
  <1>5. \A i \in 1 .. Len(Tail(s)) : Tail(q)[i] = Tail(s)[i].code /\ Tail(m)[i] = Tail(s)[i].means
    BY <1>1, <1>3, <1>4
  <1>6. Zipped(Tail(s), Tail(q), Tail(m))
    BY <1>3, <1>5 DEF Zipped
  <1>7. QED
    BY <1>1, <1>2, <1>3, <1>6

\* A decoder that is in no sequence and has the bits of the keyboard.
AtRest(d, keys, on) == d.internal = {} /\ d.state = HardwareBits(keys, on)

\* A decoder at rest is at rest again after the scancodes of a make,
LEMMA PressRests ==
    ASSUME NEW d, NEW e, NEW key \in KeyboardKeys, Effect(d, key, TRUE, e),
           NEW keys, NEW on \in SUBSET Lock, AtRest(d, keys, on)
    PROVE  AtRest(e, DownAfter(keys, key), OnAfter(on, key))
  <1>1. e.internal = {} /\ e.state = KeyBits(d.state, key, TRUE)
    <2>1. "EXTENDED" \notin d.internal /\ ~Pausing(d) /\ d.internal = {}
      BY DEF AtRest, Pausing
    <2>2. QED
      BY <2>1, Zenon DEF Effect
  <1>2. KeyBits(HardwareBits(keys, on), key, TRUE) =
            HardwareBits(DownAfter(keys, key), OnAfter(on, key))
    BY PressedHardware, Zenon
  <1>3. QED
    BY <1>1, <1>2, Zenon DEF AtRest

\* and after those of a break.
LEMMA ReleaseRests ==
    ASSUME NEW d, NEW e, NEW key \in KeyboardKeys, Effect(d, key, FALSE, e),
           NEW keys, NEW on \in SUBSET Lock, AtRest(d, keys, on)
    PROVE  AtRest(e, keys \ {key}, on)
  <1>1. e.internal = {} /\ e.state = KeyBits(d.state, key, FALSE)
    <2>1. "EXTENDED" \notin d.internal /\ ~Pausing(d) /\ d.internal = {}
      BY DEF AtRest, Pausing
    <2>2. QED
      BY <2>1, Zenon DEF Effect
  <1>2. KeyBits(HardwareBits(keys, on), key, FALSE) = HardwareBits(keys \ {key}, on)
    BY ReleasedHardware, Zenon
  <1>3. QED
    BY <1>1, <1>2, Zenon DEF AtRest

\* With s queued the decoder will be at f, and with what is on the wire at g.
Catches(s, f, g) ==
    /\ Zipped(s, queue, means)
    /\ f \in KH /\ g \in KH
    /\ Decodes(s, kh, f, lost)
    /\ Decodes(wire, f, g, lost)
    /\ lost = FALSE => AtRest(g, held, locks)
    /\ Heals(g, cycle, watched, held)

KeyboardTypeOK ==
    /\ wire \in Seq(Item) /\ Len(wire) <= 6
    /\ Keys \subseteq KeyboardKeys
    /\ locks \subseteq Lock
    /\ lost \in BOOLEAN
    /\ watched \in Modifier
    /\ cycle \in 0 .. 4

KeyboardInv == KeyboardTypeOK /\ \E s, f, g : Catches(s, f, g)

\* At the beginning the decoder is at rest and nothing is on its way.
LEMMA KeyboardInitInv == Init => KeyboardInv
  <1> SUFFICES ASSUME Init PROVE KeyboardInv
    OBVIOUS
  <1>1. khInit \in KH /\ khInit.internal = {} /\ khInit.state = {}
    BY DEF khInit, KH
  <1>2. KeyboardTypeOK
    <2>1. wire \in Seq(Item) /\ Len(wire) <= 6
      BY DEF Init
    <2>2. Keys \subseteq KeyboardKeys /\ watched \in Modifier
      BY KeysAssumption DEF Init
    <2>3. lost \in BOOLEAN
      BY Zenon DEF Init
    <2>4. locks \subseteq Lock /\ cycle \in 0 .. 4
      BY DEF Init
    <2>5. QED
      BY <2>1, <2>2, <2>3, <2>4 DEF KeyboardTypeOK
  <1>3. Decodes(<<>>, khInit, khInit, lost)
    BY <1>1, DecodesNothing
  <1>4. AtRest(khInit, held, locks)
    BY <1>1 DEF Init, AtRest, HardwareBits
  <1>5. Heals(khInit, cycle, watched, held)
    BY DEF Init, Heals
  <1>6. Catches(<<>>, khInit, khInit)
    BY <1>1, <1>3, <1>4, <1>5, ZippedNothing DEF Init, QInit, Catches
  <1>7. QED
    BY <1>2, <1>6 DEF KeyboardInv

\* What a key means is a character, or nothing.
LEMMA MeaningIsSaid ==
    ASSUME NEW key \in KeyboardKeys, locks \subseteq Lock
    PROVE  Meaning(key) \in Said
  <1> DEFINE d == [state |-> HardwareBits(held, locks), internal |-> {}, sequence |-> 0]
  <1>1. d \in KH /\ d.state = HardwareBits(held, locks)
    BY HardwareBitsAre DEF KH, Bits
  <1> HIDE DEF d
  <1>2. Meaning(key) = Heard(d, key)
    BY <1>1, MeaningIsHeard
  <1>3. QED
    BY <1>1, <1>2, HeardIsSaid

\* Press: the run of the decoder goes on over what the key sends.
LEMMA PressKeepsInv ==
    ASSUME KeyboardInv, NEW key \in Keys, Press(key)
    PROVE  KeyboardInv'
  <1>1. key \in KeyboardKeys
    BY DEF KeyboardInv, KeyboardTypeOK
  <1>2. PICK s, f, g : Catches(s, f, g)
    BY DEF KeyboardInv
  <1>3. f = g /\ g \in KH
    BY <1>2, DecodesNothingElse DEF Catches, Press
  <1> DEFINE meaning == Meaning(key)
             sent == Sent(Make(key), meaning)
  <1>4. meaning \in Said
    BY <1>1, MeaningIsSaid DEF KeyboardInv, KeyboardTypeOK
  <1>5. lost = FALSE => g.internal = {} /\ meaning = Heard(g, key)
    BY <1>1, <1>2, <1>3, MeaningIsHeard DEF Catches, AtRest, KeyboardInv, KeyboardTypeOK
  <1>6. /\ wire' = sent /\ held' = DownAfter(held, key) /\ locks' = OnAfter(locks, key)
        /\ cycle' = IF key = KeyOf(watched) /\ cycle \in {0, 2} THEN cycle + 1 ELSE cycle
        /\ UNCHANGED <<queue, Keys, means, kh, lost, watched>>
    BY DEF Press, DownAfter, OnAfter, qvars
  <1> HIDE DEF meaning
  <1>7. /\ sent \in Seq(Item) /\ Len(sent) \in 0 .. 6
        /\ \E e \in KH : Decodes(sent, g, e, lost) /\ Effect(g, key, TRUE, e)
    BY <1>1, <1>3, <1>4, <1>5, PressDecoded, Zenon
  <1> HIDE DEF sent
  <1>8. PICK e \in KH : Decodes(sent, g, e, lost) /\ Effect(g, key, TRUE, e)
    BY <1>7, Zenon
  <1>9. lost = FALSE => AtRest(e, held', locks')
    BY <1>1, <1>2, <1>6, <1>8, PressRests, Zenon DEF Catches, KeyboardInv, KeyboardTypeOK
  <1>10. cycle' \in 0 .. 4 /\ Heals(e, cycle', watched, held')
    <2>1. Heals(g, cycle, watched, held) /\ cycle \in 0 .. 4 /\ watched \in Modifier
      BY <1>2 DEF Catches, KeyboardInv, KeyboardTypeOK
    <2>2. QED
      BY <1>1, <1>3, <1>6, <1>8, <2>1, PressHeals, Zenon
  <1>11. KeyboardTypeOK'
    <2>1. locks' \in SUBSET Lock
      BY <1>1, <1>6, PressedHardware DEF KeyboardInv, KeyboardTypeOK
    <2>2. sent \in Seq(Item) /\ Len(sent) \in 0 .. 6
      BY <1>7, Zenon
    <2>3. wire' \in Seq(Item) /\ Len(wire') <= 6
      <3>1. Len(sent) <= 6
        <4>1. \A n \in 0 .. 6 : n <= 6
          OBVIOUS
        <4>2. QED
          BY <2>2, <4>1, Zenon
      <3>2. wire' = sent
        BY <1>6, Zenon
      <3>3. QED
        BY <2>2, <3>1, <3>2, Zenon
    <2>4. QED
      BY <1>6, <1>10, <2>1, <2>3 DEF KeyboardInv, KeyboardTypeOK
  <1>12. Catches(s, f, e)'
    BY <1>2, <1>3, <1>6, <1>8, <1>9, <1>10 DEF Catches
  <1>13. QED
    BY <1>11, <1>12 DEF KeyboardInv

\* Release: likewise.
LEMMA ReleaseKeepsInv ==
    ASSUME KeyboardInv, NEW key \in Keys, Release(key)
    PROVE  KeyboardInv'
  <1>1. key \in KeyboardKeys
    BY DEF KeyboardInv, KeyboardTypeOK
  <1>2. PICK s, f, g : Catches(s, f, g)
    BY DEF KeyboardInv
  <1>3. f = g /\ g \in KH
    BY <1>2, DecodesNothingElse DEF Catches, Release
  <1> DEFINE sent == Sent(Break(key), NUL)
  <1>4. lost = FALSE => g.internal = {}
    BY <1>2 DEF Catches, AtRest
  <1>5. /\ wire' = sent /\ held' = held \ {key}
        /\ cycle' = IF key = KeyOf(watched) /\ cycle \in {1, 3} THEN cycle + 1 ELSE cycle
        /\ UNCHANGED <<queue, Keys, locks, means, kh, lost, watched>>
    BY DEF Release, qvars
  <1>6. /\ sent \in Seq(Item) /\ Len(sent) \in 0 .. 6
        /\ \E e \in KH : Decodes(sent, g, e, lost) /\ Effect(g, key, FALSE, e)
    BY <1>1, <1>3, <1>4, ReleaseDecoded, Zenon
  <1> HIDE DEF sent
  <1>7. PICK e \in KH : Decodes(sent, g, e, lost) /\ Effect(g, key, FALSE, e)
    BY <1>6, Zenon
  <1>8. lost = FALSE => AtRest(e, held', locks)
    BY <1>1, <1>2, <1>5, <1>7, ReleaseRests, Zenon DEF Catches, KeyboardInv, KeyboardTypeOK
  <1>9. cycle' \in 0 .. 4 /\ Heals(e, cycle', watched, held')
    <2>1. Heals(g, cycle, watched, held) /\ cycle \in 0 .. 4 /\ watched \in Modifier
      BY <1>2 DEF Catches, KeyboardInv, KeyboardTypeOK
    <2>2. QED
      BY <1>1, <1>3, <1>5, <1>7, <2>1, ReleaseHeals, Zenon
  <1>10. KeyboardTypeOK'
    <2>1. sent \in Seq(Item) /\ Len(sent) \in 0 .. 6
      BY <1>6, Zenon
    <2>2. wire' \in Seq(Item) /\ Len(wire') <= 6
      <3>1. Len(sent) <= 6
        <4>1. \A n \in 0 .. 6 : n <= 6
          OBVIOUS
        <4>2. QED
          BY <2>1, <4>1, Zenon
      <3>2. wire' = sent
        BY <1>5, Zenon
      <3>3. QED
        BY <2>1, <3>1, <3>2, Zenon
    <2>3. QED
      BY <1>5, <1>9, <2>2 DEF KeyboardInv, KeyboardTypeOK
  <1>11. Catches(s, f, e)'
    BY <1>2, <1>3, <1>5, <1>7, <1>8, <1>9 DEF Catches
  <1>12. QED
    BY <1>10, <1>11 DEF KeyboardInv

\* kb_handler: a scancode that is put goes from the wire's run to the queue's; one
\* that is dropped leaves runs in which the meanings do not matter any more.
LEMMA HandlerKeepsInv ==
    ASSUME KeyboardInv, kb_handler
    PROVE  KeyboardInv'
  <1>1. PICK s, f, g : Catches(s, f, g)
    BY DEF KeyboardInv
  <1> DEFINE x == Head(wire)
             b == next(f, x.code)
  <1>2. /\ wire # <<>> /\ wire \in Seq(Item) /\ x \in Item
        /\ Tail(wire) \in Seq(Item) /\ Len(Tail(wire)) <= 6
    BY HeadTailProperties, EmptySeq DEF kb_handler, KeyboardInv, KeyboardTypeOK
  <1>3. /\ b \in KH /\ Decodes(Tail(wire), b, g, lost)
        /\ lost = FALSE => says(f, x.code) = x.means
    BY <1>1, <1>2, DecodesRest DEF Catches
  <1>4. /\ wire' = Tail(wire)
        /\ UNCHANGED <<Keys, held, locks, kh, watched>>
    BY DEF kb_handler
  <1>5. CASE Put(x.code) /\ means' = Append(means, x.means) /\ UNCHANGED <<lost, cycle>>
    <2>1. queue' = Append(queue, x.code)
      BY <1>5 DEF Put
    <2>2. Zipped(s, queue, means) /\ s \in Seq(Item)
      BY <1>1 DEF Catches, Zipped
    <2> HIDE DEF x
    <2>3. Zipped(Append(s, x), queue', means')
      BY <1>2, <1>5, <2>1, <2>2, ZippedMore
    <2>4. Decodes(Append(s, x), kh, b, lost)
      BY <1>1, <1>2, <1>3, <2>2, DecodesMore DEF Catches
    <2> HIDE DEF b
    <2>5. PICK t, e : /\ Zipped(t, queue', means') /\ e \in KH
                      /\ Decodes(t, kh, e, lost) /\ Decodes(Tail(wire), e, g, lost)
      BY <1>3, <2>3, <2>4, Zenon
    <2>6. Catches(t, e, g)'
      BY <1>1, <1>4, <1>5, <2>5 DEF Catches
    <2>7. KeyboardTypeOK'
      BY <1>2, <1>4, <1>5 DEF KeyboardInv, KeyboardTypeOK
    <2>8. QED
      BY <2>6, <2>7 DEF KeyboardInv
  <1>6. CASE Drop /\ lost' = TRUE /\ cycle' = 0 /\ UNCHANGED means
    <2>1. queue' = queue
      BY <1>6 DEF Drop
    <2>2. Decodes(s, kh, f, TRUE) /\ f \in KH
      BY <1>1, DecodesAnyway, Zenon DEF Catches
    <2>3. PICK e \in KH : Decodes(Tail(wire), f, e, TRUE)
      BY <1>2, <2>2, TotalOfAll, Zenon DEF Total
    <2>4. Decodes(s, kh, f, lost') /\ Decodes(Tail(wire), f, e, lost')
      BY <1>6, <2>2, <2>3, Zenon
    <2>5. Heals(e, 0, watched, held)
      BY DEF Heals
    <2>6. lost' # FALSE /\ lost' \in BOOLEAN
      BY <1>6
    <2>7. Catches(s, f, e)'
      BY <1>1, <1>4, <1>6, <2>1, <2>4, <2>5, <2>6 DEF Catches
    <2>8. KeyboardTypeOK'
      BY <1>2, <1>4, <1>6, <2>6 DEF KeyboardInv, KeyboardTypeOK
    <2>9. QED
      BY <2>7, <2>8 DEF KeyboardInv
  <1>7. QED
    BY <1>5, <1>6 DEF kb_handler

\* readchar: the decoder takes the first step of its run.
LEMMA ReaderKeepsInv ==
    ASSUME KeyboardInv, readchar
    PROVE  KeyboardInv'
  <1>1. PICK s, f, g : Catches(s, f, g)
    BY DEF KeyboardInv
  <1>2. UNCHANGED <<Keys, held, locks, wire, lost, watched, cycle>>
    BY DEF readchar, hwVars, historyVars
  <1>3. KeyboardTypeOK'
    BY <1>2 DEF KeyboardInv, KeyboardTypeOK
  <1>4. CASE Get /\ kh' = Decoded.kh /\ means' = Tail(means)
    <2>1. queue # <<>> /\ queue' = Tail(queue)
      BY <1>4 DEF Get
    <2>2. /\ s # <<>> /\ s \in Seq(Item)
          /\ Head(queue) = Head(s).code
          /\ Zipped(Tail(s), queue', means')
      BY <1>1, <1>4, <2>1, ZippedRest DEF Catches, Zipped
    <2>3. kh' = next(kh, Head(s).code)
      BY <1>4, <2>2 DEF Decoded, next
    <2>4. Decodes(Tail(s), kh', f, lost)
      BY <1>1, <2>2, <2>3, DecodesRest DEF Catches
    <2>5. Catches(Tail(s), f, g)'
      BY <1>1, <1>2, <2>2, <2>4 DEF Catches
    <2>6. QED
      BY <1>3, <2>5 DEF KeyboardInv
  <1>5. CASE GetNothing /\ UNCHANGED <<kh, means>>
    <2>1. queue' = queue
      BY <1>5 DEF GetNothing
    <2>2. Catches(s, f, g)'
      BY <1>1, <1>2, <1>5, <2>1 DEF Catches
    <2>3. QED
      BY <1>3, <2>2 DEF KeyboardInv
  <1>6. QED
    BY <1>4, <1>5 DEF readchar

\* So every step keeps the invariant.
LEMMA KeyboardNextInv == KeyboardInv /\ [Next]_vars => KeyboardInv'
  <1>1. ASSUME KeyboardInv, UNCHANGED vars
        PROVE  KeyboardInv'
    <2>1. PICK s, f, g : Catches(s, f, g)
      BY <1>1 DEF KeyboardInv
    <2>2. Catches(s, f, g)'
      BY <1>1, <2>1 DEF Catches, vars, qvars, hwVars, historyVars
    <2>3. KeyboardTypeOK'
      BY <1>1 DEF KeyboardInv, KeyboardTypeOK, vars, qvars, hwVars, historyVars
    <2>4. QED
      BY <2>2, <2>3 DEF KeyboardInv
  <1>2. QED
    BY <1>1, PressKeepsInv, ReleaseKeepsInv, HandlerKeepsInv, ReaderKeepsInv DEF Next

\* Whatever keys there are, however main and the interrupts interleave and whatever
\* is dropped, the decoder has a run over the queue and the wire: it meets what every
\* scancode means if none was dropped, and it has healed as far as the watched key
\* has been pressed and released since.
THEOREM KeyboardInvHolds == Spec => []KeyboardInv
  <1>1. QED
    BY KeyboardInitInv, KeyboardNextInv, PTL DEF Spec

\* readchar returns exactly what was typed, for every set of keys of the keyboard and
\* every capacity of the buffer, as long as nothing has been dropped: the decoder is
\* never taken by a sequence, a repeat or a modifier for what was not typed.
THEOREM CharactersReturned == Spec => []CharsAreTheKeys
  <1>1. KeyboardInv => CharsAreTheKeys
    <2> SUFFICES ASSUME KeyboardInv, ~lost, queue # <<>>
                 PROVE  Answer(Decoded) = Head(means)
      BY DEF CharsAreTheKeys
    <2>1. PICK s, f, g : Catches(s, f, g)
      BY DEF KeyboardInv
    <2>2. /\ s # <<>> /\ s \in Seq(Item)
          /\ Head(queue) = Head(s).code /\ Head(means) = Head(s).means
      BY <2>1, ZippedRest DEF Catches, Zipped
    <2>3. lost = FALSE
      BY DEF KeyboardInv, KeyboardTypeOK
    <2>4. says(kh, Head(s).code) = Head(s).means
      BY <2>1, <2>2, <2>3, DecodesRest DEF Catches
    <2>5. QED
      BY <2>2, <2>4 DEF says, Decoded
  <1>2. QED
    BY <1>1, KeyboardInvHolds, PTL

\* A modifier pressed and released twice since the last scancode was dropped is on
\* when and only when it is held, whatever the decoder was left in: no dropped
\* scancode leaves a key stuck for good.
THEOREM ModifiersHealed == Spec => []ModifiersHeal
  <1>1. KeyboardInv => ModifiersHeal
    <2> SUFFICES ASSUME KeyboardInv, cycle = 4, wire = <<>>, queue = <<>>
                 PROVE  watched \in kh.state <=> Down(watched)
      BY DEF ModifiersHeal
    <2>1. PICK s, f, g : Catches(s, f, g)
      BY DEF KeyboardInv
    <2>2. s = <<>>
      BY <2>1, EmptySeq DEF Catches, Zipped
    <2>3. kh = f /\ f = g
      BY <2>1, <2>2, DecodesNothingElse DEF Catches
    <2>4. Heals(kh, 4, watched, held)
      BY <2>1, <2>3 DEF Catches
    <2>5. QED
      BY <2>4 DEF Heals, Down
  <1>2. QED
    BY <1>1, KeyboardInvHolds, PTL
=============================================================================
