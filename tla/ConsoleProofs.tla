--------------------------- MODULE ConsoleProofs ---------------------------
(***************************************************************************)
(* Proofs about Console, for every size whose addresses fit the two cursor *)
(* registers, and every set of characters, colours and strings.            *)
(***************************************************************************)
EXTENDS Console, TLAPS, SequenceTheorems, FiniteSetTheorems, WellFoundedInduction

\* The offset of a square, and the one behind the last square, fit 16 bits.
Offset(row, col) == row * CONSOLE_WIDTH + col
Behind == CONSOLE_HEIGHT * CONSOLE_WIDTH

LEMMA OffsetsFit ==
    ASSUME NEW row \in Row, NEW col \in Col
    PROVE  /\ Offset(row, col) \in Nat /\ Offset(row, col) < 65536
           /\ Behind \in Nat /\ Behind < 65536
  <1> DEFINE H == CONSOLE_HEIGHT
             W == CONSOLE_WIDTH
             above == row * W
             below == (H - 1 - row) * W
             all == H * W
  <1>1. H \in Nat /\ W \in Nat /\ all < 65536
    BY SizeAssumption
  <1>2. row \in Nat /\ H - 1 - row \in Nat /\ col \in Nat /\ col <= W - 1
    BY SizeAssumption DEF Row, Col
  <1>3. \A a, b \in Nat : a * b \in Nat
    OBVIOUS
  <1>4. above \in Nat /\ below \in Nat /\ all \in Nat
    BY <1>1, <1>2, <1>3
  <1>5. below = all - W - above
    BY <1>1, <1>2
  <1>6. Offset(row, col) = above + col /\ Behind = all
    BY DEF Offset, Behind
  <1> HIDE DEF above, below, all, H, W
  <1>7. above + col \in Nat /\ above + col < 65536
    BY <1>1, <1>2, <1>4, <1>5
  <1>8. QED
    BY <1>1, <1>4, <1>6, <1>7

\* The two registers hold an address of up to 16 bits.
Address(regs) == 256 * regs.msb + regs.lsb

LEMMA HalvesOfAnAddress ==
    ASSUME NEW addr \in Nat, addr < 65536
    PROVE  Address(Halves(addr)) = addr
  <1> DEFINE high == addr \div 256
             low == addr % 256
  <1>1. high \in Nat /\ high < 256 /\ low \in Nat
    OBVIOUS
  <1>2. low = addr - 256 * high
    OBVIOUS
  <1>3. Halves(addr) = [msb |-> high % 256, lsb |-> low]
    BY DEF Halves
  <1> HIDE DEF high, low
  <1>4. high % 256 = high
    BY <1>1
  <1>5. Address([msb |-> high, lsb |-> low]) = 256 * high + low
    BY DEF Address
  <1>6. QED
    BY <1>1, <1>2, <1>3, <1>4, <1>5

-----------------------------------------------------------------------------
(* The cursor never leaves the console.  What the registers hold while     *)
(* putbytes is in its loop depends on whether the cursor is shown: then    *)
(* they are behind, otherwise they stay where hide_cursor put them.        *)
CursorInv ==
    /\ cursor_row \in Row
    /\ cursor_col \in Col
    /\ cursor_shown \in BOOLEAN

RegistersInv ==
    IF cursor_shown
    THEN ~writing => Address(crtc) = Offset(cursor_row, cursor_col)
    ELSE Address(crtc) = Behind

IInv == CursorInv /\ RegistersInv

\* clear_console leaves the registers at the first square.
LEMMA InitIInv == Init => IInv
  <1> SUFFICES ASSUME Init PROVE IInv
    OBVIOUS
  <1>1. CursorInv
    BY SizeAssumption DEF Init, CursorInv, Row, Col
  <1>2. crtc = Halves(0) /\ cursor_row = 0 /\ cursor_col = 0 /\ cursor_shown
    BY DEF Init
  <1>3. Address(Halves(0)) = 0
    BY HalvesOfAnAddress
  <1>4. Offset(0, 0) = 0
    BY SizeAssumption DEF Offset
  <1>5. QED
    BY <1>1, <1>2, <1>3, <1>4 DEF IInv, RegistersInv

\* One character moves the cursor to a square of the console, from the
\* corners as from anywhere else.
LEMMA WriteStaysOnConsole ==
    ASSUME CursorInv, NEW ch, write_char(ch)
    PROVE  cursor_row' \in Row /\ cursor_col' \in Col
  <1>1. CONSOLE_HEIGHT \in Nat \ {0} /\ CONSOLE_WIDTH \in Nat \ {0}
    BY SizeAssumption
  <1>2. ASSUME NEW m, NextRow(m)
        PROVE  cursor_row' \in Row /\ cursor_col' \in Col
    BY <1>1, <1>2 DEF NextRow, CursorInv, Row, Col
  <1>3. ASSUME Backspace
        PROVE  cursor_row' \in Row /\ cursor_col' \in Col
    BY <1>1, <1>3 DEF Backspace, CursorInv, Row, Col
  <1>4. ASSUME Glyph(ch)
        PROVE  cursor_row' \in Row /\ cursor_col' \in Col
    <2>1. CASE cursor_col < CONSOLE_WIDTH - 1
      BY <1>1, <1>4, <2>1 DEF Glyph, CursorInv, Row, Col
    <2>2. CASE ~(cursor_col < CONSOLE_WIDTH - 1)
      BY <1>2, <1>4, <2>2 DEF Glyph
    <2>3. QED
      BY <2>1, <2>2
  <1>5. CASE ch = "CR"
    BY <1>1, <1>5 DEF write_char, CursorInv, Row, Col
  <1>6. CASE ch = "LF"
    BY <1>2, <1>6 DEF write_char
  <1>7. CASE ch = "BS"
    BY <1>3, <1>7 DEF write_char
  <1>8. CASE ch \notin {"CR", "LF", "BS"}
    BY <1>4, <1>8 DEF write_char
  <1>9. QED
    BY <1>5, <1>6, <1>7, <1>8

\* The calls that write the registers leave the cursor's address in them,
\* unless it is hidden and stays so.
LEMMA UpdateFollows ==
    ASSUME IInv, NEW row \in Row, NEW col \in Col, Update(row, col),
           cursor_row' = row, cursor_col' = col, UNCHANGED cursor_shown
    PROVE  IInv'
  <1>1. Address(Halves(Offset(row, col))) = Offset(row, col)
    BY OffsetsFit, HalvesOfAnAddress
  <1>2. crtc' = IF cursor_shown THEN Halves(Offset(row, col)) ELSE crtc
    BY DEF Update, Offset
  <1>3. QED
    BY <1>1, <1>2 DEF IInv, CursorInv, RegistersInv

\* Each call keeps the cursor on the console and the registers with it.
LEMMA NextIInv == IInv /\ [Next]_vars => IInv'
  <1> SUFFICES ASSUME IInv, [Next]_vars PROVE IInv'
    OBVIOUS
  <1>1. cursor_row \in Row /\ cursor_col \in Col /\ cursor_shown \in BOOLEAN
    BY DEF IInv, CursorInv
  <1>2. ASSUME writing', UNCHANGED <<cursorVars, cursor_shown, crtc>>
        PROVE  IInv'
    BY <1>2 DEF IInv, CursorInv, RegistersInv, cursorVars
  <1>3. ASSUME NEW ch, putbyte(ch) PROVE IInv'
    BY <1>2, <1>3 DEF putbyte
  <1>4. ASSUME NEW str, putbytes(str) PROVE IInv'
    BY <1>2, <1>4 DEF putbytes
  <1>5. ASSUME WriteNext PROVE IInv'
    <2>1. cursor_row' \in Row /\ cursor_col' \in Col
      BY <1>5, WriteStaysOnConsole DEF WriteNext, IInv
    <2>2. writing' /\ writing = writing' /\ UNCHANGED <<cursor_shown, crtc>>
      BY <1>5 DEF WriteNext
    <2>3. QED
      BY <2>1, <2>2 DEF IInv, CursorInv, RegistersInv
  <1>6. ASSUME Return PROVE IInv'
    BY <1>1, <1>6, UpdateFollows DEF Return, cursorVars
  <1>7. ASSUME hide_cursor PROVE IInv'
    <2>1. Address(Halves(Behind)) = Behind
      BY <1>1, OffsetsFit, HalvesOfAnAddress
    <2>2. crtc' = Halves(Behind) /\ ~cursor_shown' /\ UNCHANGED <<cursor_row, cursor_col>>
      BY <1>7 DEF hide_cursor, Behind, cursorVars
    <2>3. cursor_shown' \in BOOLEAN
      BY <1>7 DEF hide_cursor
    <2>4. QED
      BY <1>1, <2>1, <2>2, <2>3 DEF IInv, CursorInv, RegistersInv
  <1>8. ASSUME show_cursor PROVE IInv'
    <2>1. Address(Halves(Offset(cursor_row, cursor_col))) = Offset(cursor_row, cursor_col)
      BY <1>1, OffsetsFit, HalvesOfAnAddress
    <2>2. /\ crtc' = Halves(Offset(cursor_row, cursor_col))
          /\ UNCHANGED <<cursor_row, cursor_col>>
      BY <1>8 DEF show_cursor, Offset, cursorVars
    <2>3. cursor_shown' = TRUE
      BY <1>8 DEF show_cursor
    <2>4. QED
      BY <1>1, <2>1, <2>2, <2>3 DEF IInv, CursorInv, RegistersInv
  <1>9. ASSUME clear_console PROVE IInv'
    <2>1. 0 \in Row /\ 0 \in Col
      BY SizeAssumption DEF Row, Col
    <2>2. QED
      BY <1>9, <2>1, UpdateFollows DEF clear_console
  <1>10. ASSUME NEW color, set_term_color(color) PROVE IInv'
    BY <1>10 DEF set_term_color, IInv, CursorInv, RegistersInv, cursorVars, callVars
  <1>11. ASSUME NEW row \in -1 .. CONSOLE_HEIGHT, NEW col \in -1 .. CONSOLE_WIDTH,
                set_cursor(row, col)
         PROVE  IInv'
    <2>1. row \in Row /\ col \in Col
      BY <1>11, SizeAssumption DEF set_cursor, in_range, Row, Col
    <2>2. QED
      BY <1>11, <2>1, UpdateFollows DEF set_cursor
  <1>12. ASSUME NEW row, NEW col, NEW ch, NEW color, draw_char(row, col, ch, color)
         PROVE  IInv'
    BY <1>12 DEF draw_char, IInv, CursorInv, RegistersInv, cursorVars, callVars
  <1>13. ASSUME UNCHANGED vars PROVE IInv'
    BY <1>13 DEF vars, IInv, CursorInv, RegistersInv, cursorVars, callVars
  <1>14. QED
    BY <1>3, <1>4, <1>5, <1>6, <1>7, <1>8, <1>9, <1>10, <1>11, <1>12, <1>13 DEF Next

-----------------------------------------------------------------------------
(* Whatever is written, and whoever hides the cursor when, the controller  *)
(* shows it between calls where the driver has it, or outside the console. *)
THEOREM CursorFollows == Spec => []HardwareFollows
  <1>1. IInv => HardwareFollows
    BY DEF IInv, RegistersInv, HardwareFollows, Address, Offset, Behind
  <1>2. QED
    BY <1>1, InitIInv, NextIInv, PTL DEF Spec

-----------------------------------------------------------------------------
(* The types of the variables.  They need facts about the addresses of the *)
(* squares and of the bytes that scroll moves, all within the memory, and  *)
(* about the text up to a NUL.                                             *)

\* What putbytes and putbyte type, character by character.
Typed == Char \cup {"CR", "LF", "BS"}

\* A set of numbers has a least one: the intervals up to its elements are
\* finite sets, which inclusion orders well.
LEMMA LeastOf ==
    ASSUME NEW T \in SUBSET Nat, T # {}
    PROVE  \E i \in T : \A j \in T : i <= j
  <1> DEFINE upTo == {1 .. i : i \in T}
             smaller == StrictSubsetOrdering(Nat)
  <1>1. upTo \subseteq FiniteSubsetsOf(Nat) /\ upTo # {}
    <2>1. ASSUME NEW i \in T
          PROVE  1 .. i \in FiniteSubsetsOf(Nat)
      <3>1. IsFiniteSet(1 .. i) /\ 1 .. i \subseteq Nat
        BY FS_Interval
      <3>2. QED
        BY <3>1 DEF FiniteSubsetsOf
    <2>2. QED
      BY <2>1
  <1>2. PICK few \in upTo : \A other \in upTo : <<other, few>> \notin smaller
    <2> HIDE DEF upTo, smaller
    <2>1. QED
      BY <1>1, FS_StrictSubsetOrderingWellFounded, WFMin DEF smaller
  <1>3. PICK i \in T : few = 1 .. i
    OBVIOUS
  <1>4. ASSUME NEW j \in T, j < i
        PROVE  FALSE
    <2>1. 1 .. j \subseteq 1 .. i /\ 1 .. j # 1 .. i
      <3>1. i \in 1 .. i /\ i \notin 1 .. j
        BY <1>4
      <3>2. QED
        BY <1>4, <3>1
    <2>2. 1 .. j \in SUBSET Nat /\ 1 .. i \in SUBSET Nat
      OBVIOUS
    <2>3. <<1 .. j, 1 .. i>> \in smaller
      BY <2>1, <2>2 DEF StrictSubsetOrdering
    <2>4. QED
      BY <1>2, <1>3, <2>3
  <1>5. QED
    BY <1>4

\* putbytes types characters only, and no NUL.
LEMMA TextsAreTyped ==
    ASSUME NEW str \in Strings
    PROVE  UpToNUL(str) \in Seq(Typed)
  <1> DEFINE nuls == {i \in 1 .. Len(str) : str[i] = NUL}
             first == CHOOSE i \in nuls : \A j \in nuls : i <= j
  <1>1. str \in Seq(Typed \cup {NUL})
    BY CharAssumption DEF Typed
  <1>2. Len(str) \in Nat /\ \A i \in 1 .. Len(str) : str[i] \in Typed \cup {NUL}
    BY <1>1, ElementOfSeq, LenProperties
  <1>3. UpToNUL(str) = IF nuls = {} THEN str ELSE SubSeq(str, 1, first - 1)
    BY DEF UpToNUL
  <1>4. CASE nuls = {}
    <2>1. \A i \in 1 .. Len(str) : str[i] \in Typed
      BY <1>2, <1>4
    <2>2. str = [i \in 1 .. Len(str) |-> str[i]]
      BY <1>1, LenProperties
    <2> HIDE DEF nuls, first
    <2>3. [i \in 1 .. Len(str) |-> str[i]] \in Seq(Typed)
      BY <1>2, <2>1
    <2>4. QED
      BY <1>3, <1>4, <2>2, <2>3
  <1>5. CASE nuls # {}
    <2>1. first \in nuls /\ \A j \in nuls : first <= j
      <3>1. nuls \in SUBSET Nat
        BY <1>2
      <3>2. \E i \in nuls : \A j \in nuls : i <= j
        <4> HIDE DEF nuls
        <4>1. QED
          BY <1>5, <3>1, LeastOf
      <3> HIDE DEF nuls
      <3>3. QED
        BY <3>2
    <2>2. first \in 1 .. Len(str)
      BY <2>1
    <2>3. ASSUME NEW i \in 1 .. first - 1
          PROVE  str[i] \in Typed
      <3>1. i \in 1 .. Len(str) /\ i < first
        <4> HIDE DEF first
        <4>1. QED
          BY <1>2, <2>2
      <3>2. i \notin nuls
        <4> HIDE DEF first, nuls
        <4>1. QED
          BY <1>2, <2>1, <2>2, <3>1
      <3>3. QED
        BY <1>2, <3>1, <3>2
    <2> HIDE DEF first, nuls
    <2>4. SubSeq(str, 1, first - 1) \in Seq(Typed)
      <3>1. first - 1 \in Int
        BY <1>2, <2>2
      <3>2. QED
        BY <2>3, <3>1, SubSeqProperties
    <2>5. QED
      BY <1>3, <1>5, <2>4
  <1>6. QED
    BY <1>4, <1>5

\* The bytes of the last row begin here.
LastRow == 2 * (CONSOLE_HEIGHT - 1) * CONSOLE_WIDTH

\* A square's two bytes are bytes of the memory, the character at an even
\* offset; the next row's are a row's length further on.
LEMMA Addresses ==
    ASSUME NEW row \in Row, NEW col \in Col
    PROVE  /\ Addr(row, col) \in Byte /\ Addr(row, col) + 1 \in Byte
           /\ Addr(row, col) % 2 = 0 /\ (Addr(row, col) + 1) % 2 = 1
           /\ IF row < CONSOLE_HEIGHT - 1
              THEN /\ row + 1 \in Row
                   /\ Addr(row, col) + 1 < LastRow
                   /\ Addr(row, col) + 2 * CONSOLE_WIDTH = Addr(row + 1, col)
              ELSE Addr(row, col) >= LastRow
  <1> DEFINE H == CONSOLE_HEIGHT
             W == CONSOLE_WIDTH
             above == row * W
             below == (H - 1 - row) * W
             further == (H - 2 - row) * W
             next == (row + 1) * W
             all == H * W
  <1>1. H \in Nat /\ W \in Nat
    BY SizeAssumption
  <1>2. row \in Nat /\ H - 1 - row \in Nat /\ col \in Nat /\ col <= W - 1
    BY SizeAssumption DEF Row, Col
  <1>3. \A a, b \in Nat : a * b \in Nat
    OBVIOUS
  <1>4. above \in Nat /\ below \in Nat /\ all \in Nat
    BY <1>1, <1>2, <1>3
  <1>5. below = all - W - above /\ next = above + W /\ further = all - 2 * W - above
    BY <1>1, <1>2
  <1>6. row < H - 1 => further \in Nat
    <2>1. row < H - 1 => H - 2 - row \in Nat
      BY <1>1, <1>2
    <2>2. QED
      BY <1>1, <1>3, <2>1
  <1>7. /\ Addr(row, col) = 2 * (above + col)
        /\ Addr(row + 1, col) = 2 * (next + col)
        /\ LastRow = 2 * all - 2 * W
        /\ Byte = 0 .. 2 * all - 1
    <2>1. LastRow = 2 * all - 2 * W
      BY <1>1 DEF LastRow
    <2>2. Byte = 0 .. 2 * all - 1
      BY <1>1 DEF Byte
    <2>3. QED
      BY <2>1, <2>2 DEF Addr
  <1>8. row = H - 1 => below = 0
    BY <1>1
  <1>9. row < H - 1 => row + 1 \in Row
    BY <1>1, <1>2 DEF Row
  <1> HIDE DEF above, below, further, next, all, H, W
  <1>10. Addr(row, col) \in Byte /\ Addr(row, col) + 1 \in Byte
    BY <1>1, <1>2, <1>4, <1>5, <1>7
  <1>11. Addr(row, col) % 2 = 0 /\ (Addr(row, col) + 1) % 2 = 1
    BY <1>2, <1>4, <1>7
  <1>12. ASSUME row < H - 1
         PROVE  /\ Addr(row, col) + 1 < LastRow
                /\ Addr(row, col) + 2 * W = Addr(row + 1, col)
    BY <1>1, <1>2, <1>4, <1>5, <1>6, <1>7, <1>12
  <1>13. ASSUME ~(row < H - 1)
         PROVE  Addr(row, col) >= LastRow
    BY <1>1, <1>2, <1>4, <1>5, <1>7, <1>8, <1>13
  <1>14. QED
    BY <1>9, <1>10, <1>11, <1>12, <1>13 DEF H, W

\* The square a byte belongs to.
LEMMA SquareOfOffset ==
    ASSUME NEW row \in Row, NEW col \in Col
    PROVE  /\ Offset(row, col) \div CONSOLE_WIDTH = row
           /\ Offset(row, col) % CONSOLE_WIDTH = col
           /\ Offset(row, col) < Behind
  <1> DEFINE W == CONSOLE_WIDTH
             a == row * W + col
             q == a \div W
             r == a % W
  <1>1. W \in Nat /\ W > 0 /\ row \in Nat /\ col \in Nat /\ col < W
    BY SizeAssumption DEF Row, Col
  <1>2. a \in Nat
    <2>1. \A i, j \in Nat : i * j \in Nat
      OBVIOUS
    <2>2. row * W \in Nat
      BY <1>1, <2>1
    <2>3. QED
      BY <1>1, <2>2
  <1>3. q \in Int /\ r \in Nat /\ r < W /\ a = W * q + r
    <2> HIDE DEF a, W
    <2>1. QED
      BY <1>1, <1>2
  <1>4. (row - q) * W = r - col
    <2> HIDE DEF q, r
    <2>1. QED
      BY <1>1, <1>3
  <1>5. row = q
    <2> HIDE DEF q, r, a, W
    <2>1. \A n \in Nat : n >= 1 => n * W >= W
      <3>1. \A n \in Nat : (n - 1) * W = n * W - W
        BY <1>1
      <3>2. \A i, j \in Nat : i * j >= 0
        OBVIOUS
      <3>3. QED
        BY <1>1, <3>1, <3>2
    <2>2. ~(row - q >= 1)
      BY <1>1, <1>3, <1>4, <2>1
    <2>3. ~(q - row >= 1)
      <3>1. (q - row) * W = col - r
        BY <1>1, <1>3, <1>4
      <3>2. QED
        BY <1>1, <1>3, <2>1, <3>1
    <2>4. QED
      BY <1>1, <1>3, <2>2, <2>3
  <1>6. col = r
    BY <1>1, <1>3, <1>4, <1>5
  <1>7. Offset(row, col) < Behind
    <2>1. Byte = 0 .. 2 * Behind - 1
      BY SizeAssumption DEF Byte, Behind
    <2>2. Addr(row, col) = 2 * Offset(row, col)
      BY DEF Addr, Offset
    <2>3. Offset(row, col) \in Nat /\ Behind \in Nat /\ Addr(row, col) \in Byte
      BY Addresses, OffsetsFit
    <2>4. QED
      BY <2>1, <2>2, <2>3
  <1>8. QED
    BY <1>5, <1>6, <1>7 DEF Offset

\* Two squares share no byte.
LEMMA SquaresApart ==
    ASSUME NEW row \in Row, NEW col \in Col, NEW row2 \in Row, NEW col2 \in Col
    PROVE  /\ Addr(row, col) # Addr(row2, col2) + 1
           /\ Addr(row, col) = Addr(row2, col2) => row = row2 /\ col = col2
  <1>1. Addr(row, col) # Addr(row2, col2) + 1
    <2>1. Addr(row, col) % 2 = 0 /\ (Addr(row2, col2) + 1) % 2 = 1
      BY Addresses
    <2>2. QED
      BY <2>1
  <1>2. ASSUME Addr(row, col) = Addr(row2, col2)
        PROVE  row = row2 /\ col = col2
    <2>1. Offset(row, col) \in Nat /\ Offset(row2, col2) \in Nat
      BY OffsetsFit
    <2>2. Offset(row, col) = Offset(row2, col2)
      BY <1>2, <2>1 DEF Addr, Offset
    <2>3. QED
      BY <2>2, SquareOfOffset
  <1>3. QED
    BY <1>1, <1>2

\* What the memory can hold.
Memory == [Byte -> Char \cup Color]

\* A row's length below the last row there are bytes still.
LEMMA NextRowIsThere ==
    ASSUME NEW i \in Byte, i < LastRow
    PROVE  i + 2 * CONSOLE_WIDTH \in Byte
  <1> DEFINE all == CONSOLE_HEIGHT * CONSOLE_WIDTH
  <1>1. CONSOLE_WIDTH \in Nat /\ all \in Nat
    <2>1. \A a, b \in Nat : a * b \in Nat
      OBVIOUS
    <2>2. QED
      BY SizeAssumption, <2>1
  <1>2. LastRow = 2 * all - 2 * CONSOLE_WIDTH /\ Byte = 0 .. 2 * all - 1
    BY SizeAssumption DEF LastRow, Byte
  <1> HIDE DEF all
  <1>3. QED
    BY <1>1, <1>2

\* What scroll leaves in each byte.
LEMMA ScrolledBytes ==
    ASSUME NEW m, NEW i \in Byte
    PROVE  scroll(m)[i] = IF i < LastRow THEN m[i + 2 * CONSOLE_WIDTH]
                          ELSE IF i % 2 = 0 THEN ASCII_SPACE ELSE m[i]
  <1>1. i \in Int /\ LastRow \in Int
    BY SizeAssumption DEF Byte, LastRow
  <1>2. scroll(m)[i] = CASE i < LastRow -> m[i + 2 * CONSOLE_WIDTH]
                         [] i >= LastRow /\ i % 2 = 0 -> ASCII_SPACE
                         [] OTHER -> m[i]
    BY DEF scroll, LastRow
  <1>3. QED
    BY <1>1, <1>2

\* scroll reads bytes of the memory only.
LEMMA ScrollTyped ==
    ASSUME NEW m \in Memory
    PROVE  scroll(m) \in Memory
  <1>1. ASSUME NEW i \in Byte
        PROVE  scroll(m)[i] \in Char \cup Color
    <2>1. i < LastRow => m[i + 2 * CONSOLE_WIDTH] \in Char \cup Color
      BY NextRowIsThere DEF Memory
    <2>2. m[i] \in Char \cup Color /\ ASCII_SPACE \in Char \cup Color
      BY CharAssumption DEF Memory
    <2>3. QED
      BY <2>1, <2>2, ScrolledBytes
  <1>2. scroll(m) = [i \in Byte |-> scroll(m)[i]]
    BY DEF scroll
  <1>3. QED
    BY <1>1, <1>2 DEF Memory

\* The character goes to the first byte of the square, the colour to the
\* second one, and nothing else changes.
LEMMA WrittenBytes ==
    ASSUME mem \in Memory, NEW row \in Row, NEW col \in Col, NEW ch, NEW color
    PROVE  \A i \in Byte : Written(row, col, ch, color)[i] =
               IF i = Addr(row, col) + 1 THEN color
               ELSE IF i = Addr(row, col) THEN ch ELSE mem[i]
  <1>1. Addr(row, col) \in Byte /\ Addr(row, col) + 1 \in Byte
    BY Addresses
  <1>2. QED
    BY <1>1 DEF Written, Memory

\* A square written is a character and a colour.
LEMMA WrittenTyped ==
    ASSUME mem \in Memory, NEW row \in Row, NEW col \in Col, NEW ch \in Char, NEW color \in Color
    PROVE  Written(row, col, ch, color) \in Memory
  <1>1. Addr(row, col) \in Byte /\ Addr(row, col) + 1 \in Byte
    BY Addresses
  <1>2. QED
    BY <1>1 DEF Written, Memory

\* One character typed leaves characters and colours in the memory.
LEMMA WriteTyped ==
    ASSUME TypeOK, NEW ch \in Typed, write_char(ch)
    PROVE  mem' \in Memory
  <1>1. /\ cursor_row \in Row /\ cursor_col \in Col /\ mem \in Memory
        /\ console_color \in Color /\ ASCII_SPACE \in Char
    BY CharAssumption DEF TypeOK, Memory
  <1>2. CONSOLE_HEIGHT \in Nat \ {0} /\ CONSOLE_WIDTH \in Nat \ {0}
    BY SizeAssumption
  <1>3. ASSUME NEW m \in Memory, NextRow(m)
        PROVE  mem' \in Memory
    BY <1>3, ScrollTyped DEF NextRow
  <1>4. ASSUME Backspace
        PROVE  mem' \in Memory
    <2>1. CASE cursor_col > 0
      <3>1. cursor_col - 1 \in Col
        BY <1>1, <1>2, <2>1 DEF Col
      <3>2. mem' = Written(cursor_row, cursor_col - 1, ASCII_SPACE, console_color)
        BY <1>4, <2>1 DEF Backspace
      <3>3. QED
        BY <1>1, <3>1, <3>2, WrittenTyped
    <2>2. CASE ~(cursor_col > 0) /\ cursor_row = 0
      BY <1>1, <1>4, <2>2 DEF Backspace
    <2>3. CASE ~(cursor_col > 0) /\ cursor_row # 0
      <3>1. cursor_row - 1 \in Row /\ CONSOLE_WIDTH - 1 \in Col
        BY <1>1, <1>2, <2>3 DEF Row, Col
      <3>2. mem' = Written(cursor_row - 1, CONSOLE_WIDTH - 1, ASCII_SPACE, console_color)
        BY <1>4, <2>3 DEF Backspace
      <3>3. QED
        BY <1>1, <3>1, <3>2, WrittenTyped
    <2>4. QED
      BY <2>1, <2>2, <2>3
  <1>5. ASSUME ch \in Char, Glyph(ch)
        PROVE  mem' \in Memory
    BY <1>1, <1>3, <1>5, WrittenTyped DEF Glyph
  <1>6. CASE ch = "CR"
    BY <1>1, <1>6 DEF write_char
  <1>7. CASE ch = "LF"
    BY <1>1, <1>3, <1>7 DEF write_char
  <1>8. CASE ch = "BS"
    BY <1>4, <1>8 DEF write_char
  <1>9. CASE ch \notin {"CR", "LF", "BS"}
    BY <1>5, <1>9 DEF write_char, Typed
  <1>10. QED
    BY <1>6, <1>7, <1>8, <1>9

\* Each register takes a byte.
LEMMA HalvesTyped ==
    ASSUME NEW addr \in Nat
    PROVE  Halves(addr) \in [msb : 0 .. 255, lsb : 0 .. 255]
  <1>1. addr \div 256 \in Nat /\ addr % 256 \in 0 .. 255
    OBVIOUS
  <1>2. \A n \in Nat : n % 256 \in 0 .. 255
    OBVIOUS
  <1>3. QED
    BY <1>1, <1>2 DEF Halves

\* So do they when a call moves the cursor.
LEMMA UpdateTyped ==
    ASSUME TypeOK, NEW row \in Row, NEW col \in Col, Update(row, col)
    PROVE  crtc' \in [msb : 0 .. 255, lsb : 0 .. 255]
  <1>1. Halves(row * CONSOLE_WIDTH + col) \in [msb : 0 .. 255, lsb : 0 .. 255]
    BY OffsetsFit, HalvesTyped DEF Offset
  <1>2. QED
    BY <1>1 DEF Update, TypeOK

\* clear_console leaves blanks and one colour.
LEMMA InitTypeOK == Init => TypeOK
  <1> SUFFICES ASSUME Init PROVE TypeOK
    OBVIOUS
  <1>1. PICK color \in Color : mem = [i \in Byte |-> IF i % 2 = 0 THEN ASCII_SPACE ELSE color]
    BY DEF Init
  <1>2. mem \in [Byte -> Char \cup Color]
    BY <1>1, CharAssumption
  <1>3. crtc \in [msb : 0 .. 255, lsb : 0 .. 255]
    BY HalvesTyped DEF Init
  <1>4. cursor_row \in Row /\ cursor_col \in Col
    BY SizeAssumption DEF Init, Row, Col
  <1>5. s \in Seq(Typed)
    BY EmptySeq DEF Init
  <1>6. QED
    BY <1>2, <1>3, <1>4, <1>5 DEF Init, TypeOK, Typed

\* One step per call, and one per character of putbytes.
LEMMA NextTypeOK == TypeOK /\ [Next]_vars => TypeOK'
  <1> SUFFICES ASSUME TypeOK, [Next]_vars PROVE TypeOK'
    OBVIOUS
  <1> USE DEF TypeOK
  <1>1. ASSUME NEW ch \in Char \cup {"CR", "LF", "BS"}, putbyte(ch) PROVE TypeOK'
    <2>1. <<ch>> \in Seq(Char \cup {"CR", "LF", "BS"})
      OBVIOUS
    <2>2. QED
      BY <1>1, <2>1 DEF putbyte, cursorVars
  <1>2. ASSUME NEW str \in Strings, putbytes(str) PROVE TypeOK'
    BY <1>2, TextsAreTyped DEF putbytes, cursorVars, Typed
  <1>3. ASSUME WriteNext PROVE TypeOK'
    <2>1. Head(s) \in Typed /\ Tail(s) \in Seq(Typed)
      <3>1. s \in Seq(Typed) /\ s # <<>>
        BY <1>3 DEF WriteNext, Typed
      <3> HIDE DEF TypeOK
      <3>2. QED
        BY <3>1, HeadTailProperties
    <2>2. /\ write_char(Head(s)) /\ s' = Tail(s)
          /\ UNCHANGED <<cursor_shown, console_color, crtc, writing>>
      BY <1>3 DEF WriteNext
    <2>3. cursor_row' \in Row /\ cursor_col' \in Col
      BY <2>2, WriteStaysOnConsole DEF CursorInv
    <2>4. mem' \in Memory
      BY <2>1, <2>2, WriteTyped
    <2>5. QED
      BY <2>1, <2>2, <2>3, <2>4 DEF Memory, Typed
  <1>4. ASSUME Return PROVE TypeOK'
    BY <1>4, UpdateTyped DEF Return, cursorVars
  <1>5. ASSUME hide_cursor PROVE TypeOK'
    <2>1. Halves(CONSOLE_HEIGHT * CONSOLE_WIDTH) \in [msb : 0 .. 255, lsb : 0 .. 255]
      BY OffsetsFit, HalvesTyped DEF Behind
    <2>2. QED
      BY <1>5, <2>1 DEF hide_cursor, cursorVars, callVars
  <1>6. ASSUME show_cursor PROVE TypeOK'
    <2>1. Halves(cursor_row * CONSOLE_WIDTH + cursor_col) \in [msb : 0 .. 255, lsb : 0 .. 255]
      BY OffsetsFit, HalvesTyped DEF Offset
    <2>2. QED
      BY <1>6, <2>1 DEF show_cursor, cursorVars, callVars
  <1>7. ASSUME clear_console PROVE TypeOK'
    <2>1. 0 \in Row /\ 0 \in Col
      BY SizeAssumption DEF Row, Col
    <2>2. mem' \in [Byte -> Char \cup Color]
      BY <1>7, CharAssumption DEF clear_console
    <2>3. crtc' \in [msb : 0 .. 255, lsb : 0 .. 255]
      BY <1>7, <2>1, UpdateTyped DEF clear_console
    <2>4. QED
      BY <1>7, <2>1, <2>2, <2>3 DEF clear_console, callVars
  <1>8. ASSUME NEW color \in Ink \cup BadColor, set_term_color(color) PROVE TypeOK'
    BY <1>8 DEF set_term_color, cursorVars, callVars
  <1>9. ASSUME NEW row \in -1 .. CONSOLE_HEIGHT, NEW col \in -1 .. CONSOLE_WIDTH,
               set_cursor(row, col)
        PROVE  TypeOK'
    <2>1. row \in Row /\ col \in Col
      BY <1>9, SizeAssumption DEF set_cursor, in_range, Row, Col
    <2>2. crtc' \in [msb : 0 .. 255, lsb : 0 .. 255]
      BY <1>9, <2>1, UpdateTyped DEF set_cursor
    <2>3. QED
      BY <1>9, <2>1, <2>2 DEF set_cursor, callVars
  <1>10. ASSUME NEW row \in -1 .. CONSOLE_HEIGHT, NEW col \in -1 .. CONSOLE_WIDTH,
                NEW ch \in Char, NEW color \in Ink \cup BadColor,
                draw_char(row, col, ch, color)
         PROVE  TypeOK'
    <2>1. row \in Row /\ col \in Col /\ color \in Color
      BY <1>10, SizeAssumption, CharAssumption DEF draw_char, in_range, Row, Col
    <2>2. mem' \in Memory
      BY <1>10, <2>1, WrittenTyped DEF draw_char, Memory
    <2>3. QED
      BY <1>10, <2>2 DEF draw_char, cursorVars, callVars, Memory
  <1>11. ASSUME UNCHANGED vars PROVE TypeOK'
    BY <1>11 DEF vars, cursorVars, callVars
  <1> HIDE DEF TypeOK
  <1>12. QED
    BY <1>1, <1>2, <1>3, <1>4, <1>5, <1>6, <1>7, <1>8, <1>9, <1>10, <1>11 DEF Next

(* Whatever is written where, the memory holds characters and colours, the *)
(* cursor is on the console, the registers hold bytes, and putbytes types  *)
(* characters.                                                             *)
THEOREM TypeCorrect == Spec => []TypeOK
  <1>1. QED
    BY InitTypeOK, NextTypeOK, PTL DEF Spec

-----------------------------------------------------------------------------
(* The refinement of Terminal.  Each of the memory's three changes is the  *)
(* corresponding change of the grid, because two squares share no byte and *)
(* the rows are a row's length apart; what a call does with them is then   *)
(* compared action by action.                                              *)

\* The memory m read as the terminal's grid, and the registers as its caret.
View(m) == [row \in Row |-> [col \in Col |->
               [ch |-> m[Addr(row, col)], color |-> m[Addr(row, col) + 1]]]]
Where(regs) == IF Address(regs) < Behind
               THEN <<Address(regs) \div CONSOLE_WIDTH, Address(regs) % CONSOLE_WIDTH>>
               ELSE <<>>

\* A square drawn in the grid is two bytes written in the memory.
LEMMA ViewWritten ==
    ASSUME mem \in Memory, NEW row \in Row, NEW col \in Col, NEW ch, NEW color
    PROVE  View(Written(row, col, ch, color)) =
               [View(mem) EXCEPT ![row][col] = [ch |-> ch, color |-> color]]
  <1> DEFINE square == [ch |-> ch, color |-> color]
             m == Written(row, col, ch, color)
             drawn == [View(mem) EXCEPT ![row][col] = square]
  <1>1. ASSUME NEW r \in Row, NEW c \in Col
        PROVE  View(m)[r][c] = drawn[r][c]
    <2>1. View(m)[r][c] = [ch |-> m[Addr(r, c)], color |-> m[Addr(r, c) + 1]]
      BY DEF View
    <2>2. View(mem)[r][c] = [ch |-> mem[Addr(r, c)], color |-> mem[Addr(r, c) + 1]]
      BY DEF View
    <2>3. CASE r = row /\ c = col
      <3>1. m[Addr(r, c)] = ch /\ m[Addr(r, c) + 1] = color
        BY <2>3, Addresses, SquaresApart, WrittenBytes
      <3>2. drawn[r][c] = square
        BY <2>3 DEF View
      <3>3. QED
        BY <2>1, <3>1, <3>2
    <2>4. CASE ~(r = row /\ c = col)
      <3>1. Addr(r, c) # Addr(row, col) /\ Addr(r, c) + 1 # Addr(row, col) + 1
        <4>1. Addr(r, c) \in Int /\ Addr(row, col) \in Int
          BY Addresses, SizeAssumption DEF Byte
        <4>2. QED
          BY <2>4, <4>1, SquaresApart
      <3>2. Addr(r, c) # Addr(row, col) + 1 /\ Addr(r, c) + 1 # Addr(row, col)
        BY SquaresApart
      <3>3. m[Addr(r, c)] = mem[Addr(r, c)] /\ m[Addr(r, c) + 1] = mem[Addr(r, c) + 1]
        <4>1. Addr(r, c) \in Byte /\ Addr(r, c) + 1 \in Byte
          BY Addresses
        <4> HIDE DEF m
        <4>2. \A i \in Byte : i # Addr(row, col) /\ i # Addr(row, col) + 1 => m[i] = mem[i]
          BY WrittenBytes DEF m
        <4>3. QED
          BY <3>1, <3>2, <4>1, <4>2
      <3>4. drawn[r][c] = View(mem)[r][c]
        BY <2>4 DEF View
      <3>5. QED
        BY <2>1, <2>2, <3>3, <3>4
    <2>5. QED
      BY <2>3, <2>4
  <1>2. /\ View(m) = [r \in Row |-> [c \in Col |-> View(m)[r][c]]]
        /\ drawn = [r \in Row |-> [c \in Col |-> drawn[r][c]]]
    BY DEF View
  <1> HIDE DEF m, drawn
  <1>3. View(m) = drawn
    BY <1>1, <1>2
  <1>4. QED
    BY <1>3 DEF m, drawn

\* The bytes of scroll are the rows moved up.
LEMMA ViewScrolled ==
    ASSUME NEW m
    PROVE  View(scroll(m)) = Grid!Scrolled(View(m))
  <1> DEFINE blank(r) == [c \in Col |-> [View(m)[r][c] EXCEPT !.ch = ASCII_SPACE]]
             up == [r \in Row |-> IF r < CONSOLE_HEIGHT - 1 THEN View(m)[r + 1] ELSE blank(r)]
  <1>1. Grid!Scrolled(View(m)) = up
    BY DEF Grid!Scrolled, Grid!Rows, Grid!Cols, Row, Col
  <1>2. ASSUME NEW r \in Row
        PROVE  View(scroll(m))[r] = up[r]
    <2>1. View(scroll(m))[r] = [c \in Col |-> View(scroll(m))[r][c]]
      BY DEF View
    <2>2. CASE r < CONSOLE_HEIGHT - 1
      <3>1. r + 1 \in Row
        BY <2>2, SizeAssumption DEF Row
      <3>2. ASSUME NEW c \in Col
            PROVE  View(scroll(m))[r][c] = View(m)[r + 1][c]
        <4>1. /\ scroll(m)[Addr(r, c)] = m[Addr(r + 1, c)]
              /\ scroll(m)[Addr(r, c) + 1] = m[Addr(r + 1, c) + 1]
          <5>1. /\ Addr(r, c) \in Byte /\ Addr(r, c) + 1 \in Byte
                /\ Addr(r, c) + 1 < LastRow
                /\ Addr(r, c) + 2 * CONSOLE_WIDTH = Addr(r + 1, c)
            BY <2>2, Addresses
          <5>2. Addr(r, c) \in Int /\ CONSOLE_WIDTH \in Int /\ LastRow \in Int
            BY <5>1, SizeAssumption DEF Byte, LastRow
          <5>3. /\ Addr(r, c) < LastRow
                /\ (Addr(r, c) + 1) + 2 * CONSOLE_WIDTH = Addr(r + 1, c) + 1
            BY <5>1, <5>2
          <5>4. QED
            BY <5>1, <5>3, ScrolledBytes
        <4>2. QED
          BY <3>1, <4>1 DEF View
      <3>3. View(m)[r + 1] = [c \in Col |-> View(m)[r + 1][c]]
        BY <3>1 DEF View
      <3>4. QED
        BY <2>1, <2>2, <3>2, <3>3
    <2>3. CASE ~(r < CONSOLE_HEIGHT - 1)
      <3>1. ASSUME NEW c \in Col
            PROVE  View(scroll(m))[r][c] = blank(r)[c]
        <4>1. /\ scroll(m)[Addr(r, c)] = ASCII_SPACE
              /\ scroll(m)[Addr(r, c) + 1] = m[Addr(r, c) + 1]
          <5>1. /\ Addr(r, c) \in Byte /\ Addr(r, c) + 1 \in Byte
                /\ Addr(r, c) >= LastRow
                /\ Addr(r, c) % 2 = 0 /\ (Addr(r, c) + 1) % 2 = 1
            BY <2>3, Addresses
          <5>2. Addr(r, c) \in Int /\ LastRow \in Int
            BY <5>1, SizeAssumption DEF Byte, LastRow
          <5>3. ~(Addr(r, c) < LastRow) /\ ~(Addr(r, c) + 1 < LastRow)
            BY <5>1, <5>2
          <5>4. QED
            BY <5>1, <5>3, ScrolledBytes
        <4>2. QED
          BY <4>1 DEF View
      <3>2. QED
        BY <2>1, <2>3, <3>1
    <2>4. QED
      BY <2>2, <2>3
  <1>3. View(scroll(m)) = [r \in Row |-> View(scroll(m))[r]]
    BY DEF View
  <1> HIDE DEF up
  <1>4. up = [r \in Row |-> up[r]]
    BY DEF up
  <1>5. View(scroll(m)) = up
    BY <1>2, <1>3, <1>4
  <1>6. QED
    BY <1>1, <1>5

\* The characters are in the even bytes.
LEMMA ViewCleared ==
    ASSUME NEW m
    PROVE  View([i \in Byte |-> IF i % 2 = 0 THEN ASCII_SPACE ELSE m[i]]) =
               [row \in Row |-> [col \in Col |->
                   [View(m)[row][col] EXCEPT !.ch = ASCII_SPACE]]]
  <1> DEFINE clear == [i \in Byte |-> IF i % 2 = 0 THEN ASCII_SPACE ELSE m[i]]
  <1>1. ASSUME NEW r \in Row, NEW c \in Col
        PROVE  View(clear)[r][c] = [View(m)[r][c] EXCEPT !.ch = ASCII_SPACE]
    <2>1. clear[Addr(r, c)] = ASCII_SPACE /\ clear[Addr(r, c) + 1] = m[Addr(r, c) + 1]
      BY Addresses
    <2> HIDE DEF clear
    <2>2. QED
      BY <2>1 DEF View
  <1>2. View(clear) = [r \in Row |-> [c \in Col |-> View(clear)[r][c]]]
    BY DEF View
  <1> HIDE DEF clear
  <1>3. View(clear) = [r \in Row |-> [c \in Col |-> [View(m)[r][c] EXCEPT !.ch = ASCII_SPACE]]]
    BY <1>1, <1>2
  <1>4. QED
    BY <1>3 DEF clear

\* The caret is where the registers' address is.
LEMMA CaretFollows ==
    ASSUME NEW regs, NEW row \in Row, NEW col \in Col
    PROVE  /\ Address(regs) = Offset(row, col) => Where(regs) = <<row, col>>
           /\ Address(regs) = Behind => Where(regs) = <<>>
  <1>1. /\ Offset(row, col) \div CONSOLE_WIDTH = row
        /\ Offset(row, col) % CONSOLE_WIDTH = col
        /\ Offset(row, col) < Behind
    BY SquareOfOffset
  <1>2. ~(Behind < Behind)
    BY OffsetsFit
  <1>3. QED
    BY <1>1, <1>2 DEF Where

-----------------------------------------------------------------------------
\* A row ends: the grid's rows move up if it was the last.
LEMMA NewLineRefines ==
    ASSUME NEW m, NextRow(m)
    PROVE  Grid!NewLine(View(m))
  <1>1. CASE cursor_row = CONSOLE_HEIGHT - 1
    <2>1. mem' = scroll(m) /\ cursor_row' = cursor_row /\ cursor_col' = 0
      BY <1>1 DEF NextRow
    <2>2. View(mem') = Grid!Scrolled(View(m))
      BY <2>1, ViewScrolled
    <2>3. QED
      BY <1>1, <2>1, <2>2 DEF Grid!NewLine, View, get_char
  <1>2. CASE cursor_row # CONSOLE_HEIGHT - 1
    <2>1. mem' = m /\ cursor_row' = cursor_row + 1 /\ cursor_col' = 0
      BY <1>2 DEF NextRow
    <2>2. View(mem') = View(m)
      BY <2>1
    <2>3. QED
      BY <1>2, <2>1, <2>2 DEF Grid!NewLine, View, get_char
  <1>3. QED
    BY <1>1, <1>2

\* A character typed at the cursor, or in the square the cursor steps back
\* to, is put in the square of the grid.
LEMMA PutRefines ==
    ASSUME mem \in Memory, NEW row \in Row, NEW col \in Col, NEW ch
    PROVE  View(Written(row, col, ch, console_color)) = Grid!Put(<<row, col>>, ch)
  <1>1. View(Written(row, col, ch, console_color)) =
            [View(mem) EXCEPT ![row][col] = [ch |-> ch, color |-> console_color]]
    BY ViewWritten
  <1>2. QED
    BY <1>1 DEF Grid!Put, View, get_char

\* The square a backspace blanks, around the end of a row as within it, is
\* the terminal's; in the first square neither does anything.
LEMMA BackspaceRefines ==
    ASSUME TypeOK, Backspace
    PROVE  Grid!Backspace
  <1>1. /\ cursor_row \in Row /\ cursor_col \in Col /\ mem \in Memory
    BY DEF TypeOK, Memory
  <1>2. CONSOLE_HEIGHT \in Nat \ {0} /\ CONSOLE_WIDTH \in Nat \ {0}
    BY SizeAssumption
  <1>3. ASSUME NEW row \in Row, NEW col \in Col, cursor_row' = row, cursor_col' = col,
               mem' = Written(row, col, ASCII_SPACE, console_color),
               Grid!Before = <<row, col>>, <<cursor_row, cursor_col>> # <<0, 0>>
        PROVE  Grid!Backspace
    <2>1. View(mem') = Grid!Put(<<row, col>>, ASCII_SPACE)
      BY <1>1, <1>3, PutRefines
    <2>2. View(mem') = Grid!Put(Grid!Before, ASCII_SPACE)
      BY <1>3, <2>1
    <2>3. QED
      BY <1>3, <2>2 DEF Grid!Backspace, View, get_char
  <1>4. CASE cursor_col > 0
    <2>1. cursor_col - 1 \in Col
      BY <1>1, <1>2, <1>4 DEF Col
    <2>2. /\ cursor_row' = cursor_row /\ cursor_col' = cursor_col - 1
          /\ mem' = Written(cursor_row, cursor_col - 1, ASCII_SPACE, console_color)
      BY <1>4 DEF Backspace
    <2>3. Grid!Before = <<cursor_row, cursor_col - 1>>
      BY <1>4 DEF Grid!Before
    <2>4. <<cursor_row, cursor_col>> # <<0, 0>>
      BY <1>4
    <2>5. QED
      BY <1>1, <1>3, <2>1, <2>2, <2>3, <2>4
  <1>5. CASE ~(cursor_col > 0) /\ cursor_row = 0
    <2>1. UNCHANGED <<mem, cursor_row, cursor_col>>
      BY <1>5 DEF Backspace
    <2>2. cursor_col = 0
      BY <1>1, <1>5 DEF Col
    <2>3. QED
      BY <1>5, <2>1, <2>2 DEF Grid!Backspace, get_char
  <1>6. CASE ~(cursor_col > 0) /\ cursor_row # 0
    <2>1. cursor_row - 1 \in Row /\ CONSOLE_WIDTH - 1 \in Col
      BY <1>1, <1>2, <1>6 DEF Row, Col
    <2>2. /\ cursor_row' = cursor_row - 1 /\ cursor_col' = CONSOLE_WIDTH - 1
          /\ mem' = Written(cursor_row - 1, CONSOLE_WIDTH - 1, ASCII_SPACE, console_color)
      BY <1>6 DEF Backspace
    <2>3. Grid!Before = <<cursor_row - 1, CONSOLE_WIDTH - 1>>
      BY <1>6 DEF Grid!Before
    <2>4. <<cursor_row, cursor_col>> # <<0, 0>>
      BY <1>6
    <2>5. QED
      BY <1>3, <2>1, <2>2, <2>3, <2>4
  <1>7. QED
    BY <1>4, <1>5, <1>6

\* A character in the last column ends the row.
LEMMA GlyphRefines ==
    ASSUME TypeOK, NEW ch, Glyph(ch)
    PROVE  Grid!Letter(ch)
  <1>1. /\ cursor_row \in Row /\ cursor_col \in Col /\ mem \in Memory
    BY DEF TypeOK, Memory
  <1>2. View(Written(cursor_row, cursor_col, ch, console_color)) =
            Grid!Put(<<cursor_row, cursor_col>>, ch)
    BY <1>1, PutRefines
  <1>3. CASE cursor_col < CONSOLE_WIDTH - 1
    <2>1. /\ mem' = Written(cursor_row, cursor_col, ch, console_color)
          /\ cursor_col' = cursor_col + 1 /\ cursor_row' = cursor_row
      BY <1>3 DEF Glyph
    <2>2. View(mem') = Grid!Put(<<cursor_row, cursor_col>>, ch)
      BY <1>2, <2>1
    <2>3. cursor_col # CONSOLE_WIDTH - 1
      BY <1>1, <1>3, SizeAssumption DEF Col
    <2>4. QED
      BY <2>1, <2>2, <2>3 DEF Grid!Letter, View, get_char
  <1>4. CASE ~(cursor_col < CONSOLE_WIDTH - 1)
    <2>1. NextRow(Written(cursor_row, cursor_col, ch, console_color))
      BY <1>4 DEF Glyph
    <2>2. Grid!NewLine(Grid!Put(<<cursor_row, cursor_col>>, ch))
      BY <1>2, <2>1, NewLineRefines
    <2>3. cursor_col = CONSOLE_WIDTH - 1
      BY <1>1, <1>4, SizeAssumption DEF Col
    <2>4. QED
      BY <2>2, <2>3 DEF Grid!Letter
  <1>5. QED
    BY <1>3, <1>4

\* The terminal types the same character, and leaves the same alone.
LEMMA WriteRefines ==
    ASSUME TypeOK, WriteNext
    PROVE  Grid!Type
  <1> DEFINE ch == Head(s)
  <1>1. /\ writing /\ s # <<>> /\ write_char(ch) /\ s' = Tail(s)
        /\ UNCHANGED <<cursor_shown, console_color, crtc, writing>>
    BY DEF WriteNext
  <1>2. UNCHANGED Shown
    BY <1>1 DEF Shown
  <1>3. CASE ch = "CR"
    <2>1. cursor_col' = 0 /\ UNCHANGED <<mem, cursor_row>>
      BY <1>1, <1>3 DEF write_char
    <2>2. Grid!Carriage
      BY <2>1 DEF Grid!Carriage, get_char
    <2>3. QED
      BY <1>1, <1>2, <1>3, <2>2 DEF Grid!Type
  <1>4. CASE ch = "LF"
    <2>1. NextRow(mem)
      BY <1>1, <1>4 DEF write_char
    <2>2. Grid!NewLine(View(mem))
      BY <2>1, NewLineRefines
    <2>3. View(mem) = [row \in Row |-> [col \in Col |->
                          [ch |-> get_char(row, col), color |-> mem[Addr(row, col) + 1]]]]
      BY DEF View, get_char
    <2>4. QED
      BY <1>1, <1>2, <1>4, <2>2, <2>3 DEF Grid!Type
  <1>5. CASE ch = "BS"
    <2>1. Backspace
      BY <1>1, <1>5 DEF write_char
    <2>2. Grid!Backspace
      BY <2>1, BackspaceRefines
    <2>3. QED
      BY <1>1, <1>2, <1>5, <2>2 DEF Grid!Type
  <1>6. CASE ch \notin {"CR", "LF", "BS"}
    <2>1. Glyph(ch)
      BY <1>1, <1>6 DEF write_char
    <2>2. Grid!Letter(ch)
      BY <2>1, GlyphRefines
    <2>3. QED
      BY <1>1, <1>2, <1>6, <2>2 DEF Grid!Type
  <1>7. QED
    BY <1>3, <1>4, <1>5, <1>6

-----------------------------------------------------------------------------
\* When a call returns the caret is at the cursor, or nowhere.
LEMMA ShowRefines ==
    ASSUME IInv', ~writing'
    PROVE  Grid!Show
  <1>1. CursorInv' /\ RegistersInv'
    BY DEF IInv
  <1>2. Shown' = Where(crtc')
    BY DEF Shown, Where, Address, Behind
  <1>3. cursor_row' \in Row /\ cursor_col' \in Col
    BY <1>1 DEF CursorInv
  <1>4. CASE cursor_shown'
    <2>1. Address(crtc') = Offset(cursor_row', cursor_col')
      BY <1>1, <1>4 DEF RegistersInv, Address, Offset
    <2>2. Where(crtc') = <<cursor_row', cursor_col'>>
      BY <1>3, <2>1, CaretFollows
    <2>3. QED
      BY <1>2, <1>4, <2>2 DEF Grid!Show
  <1>5. CASE ~cursor_shown'
    <2>1. Address(crtc') = Behind
      BY <1>1, <1>5 DEF RegistersInv, Address, Behind
    <2>2. Where(crtc') = <<>>
      BY <1>3, <2>1, CaretFollows
    <2>3. QED
      BY <1>2, <1>5, <2>2 DEF Grid!Show
  <1>6. QED
    BY <1>4, <1>5

\* The cleared console is a blank grid with its caret in the first square.
LEMMA InitRefines == Init => Grid!TInit
  <1> SUFFICES ASSUME Init PROVE Grid!TInit
    OBVIOUS
  <1>1. PICK color \in Color : mem = [i \in Byte |-> IF i % 2 = 0 THEN ASCII_SPACE ELSE color]
    BY DEF Init
  <1>2. cursor_row = 0 /\ cursor_col = 0 /\ 0 \in Row /\ 0 \in Col
    BY SizeAssumption DEF Init, Row, Col
  <1>3. \A row \in Row, col \in Col :
            [ch |-> get_char(row, col), color |-> mem[Addr(row, col) + 1]]
                \in [ch : {ASCII_SPACE}, color : Color]
    <2>1. ASSUME NEW row \in Row, NEW col \in Col
          PROVE  mem[Addr(row, col)] = ASCII_SPACE /\ mem[Addr(row, col) + 1] = color
      BY <1>1, Addresses
    <2>2. QED
      BY <2>1 DEF get_char
  <1>4. [row \in Row |-> [col \in Col |->
             [ch |-> get_char(row, col), color |-> mem[Addr(row, col) + 1]]]]
            \in [Grid!Rows -> [Grid!Cols -> [ch : {ASCII_SPACE}, color : Color]]]
    BY <1>3 DEF Grid!Rows, Grid!Cols, Row, Col
  <1>5. Shown = <<0, 0>>
    <2>1. Address(crtc) = Offset(0, 0)
      <3>1. Address(Halves(0)) = 0
        BY HalvesOfAnAddress
      <3>2. Offset(0, 0) = 0
        BY SizeAssumption DEF Offset
      <3>3. QED
        BY <3>1, <3>2 DEF Init
    <2>2. Where(crtc) = <<0, 0>>
      BY <1>2, <2>1, CaretFollows
    <2>3. QED
      BY <2>2 DEF Shown, Where, Address, Behind
  <1>6. QED
    BY <1>2, <1>4, <1>5 DEF Init, Grid!TInit

\* Each call is one of the terminal's; putbytes and putbyte begin to type,
\* and what is typed is one of the texts.
LEMMA StepRefines ==
    TypeOK /\ IInv' /\ [Next]_vars
        => [Grid!TNext]_(Grid!tvars)
  <1> SUFFICES ASSUME TypeOK, IInv', [Next]_vars
               PROVE  [Grid!TNext]_(Grid!tvars)
    OBVIOUS
  <1>1. ASSUME NEW ch \in Char \cup {"CR", "LF", "BS"}, putbyte(ch)
        PROVE  Grid!TNext
    <2>1. Grid!Begin(<<ch>>)
      BY <1>1 DEF putbyte, cursorVars, Grid!Begin, Shown, get_char
    <2>2. QED
      BY <2>1 DEF Grid!TNext
  <1>2. ASSUME NEW str \in Strings, putbytes(str)
        PROVE  Grid!TNext
    <2>1. Grid!Begin(UpToNUL(str))
      BY <1>2 DEF putbytes, cursorVars, Grid!Begin, Shown, get_char
    <2>2. QED
      BY <2>1 DEF Grid!TNext
  <1>3. ASSUME WriteNext
        PROVE  Grid!TNext
    BY <1>3, WriteRefines DEF Grid!TNext
  <1>4. ASSUME Return
        PROVE  Grid!TNext
    <2>1. Grid!Show
      BY <1>4, ShowRefines DEF Return
    <2>2. Grid!End
      BY <1>4, <2>1 DEF Return, cursorVars, Grid!End, get_char
    <2>3. QED
      BY <2>2 DEF Grid!TNext
  <1>5. ASSUME hide_cursor
        PROVE  Grid!TNext
    <2>1. Grid!Show
      BY <1>5, ShowRefines DEF hide_cursor, callVars
    <2>2. Grid!Visible(FALSE)
      BY <1>5, <2>1 DEF hide_cursor, cursorVars, callVars, Grid!Visible, Grid!Call, get_char
    <2>3. QED
      BY <2>2 DEF Grid!TNext
  <1>6. ASSUME show_cursor
        PROVE  Grid!TNext
    <2>1. Grid!Show
      BY <1>6, ShowRefines DEF show_cursor, callVars
    <2>2. Grid!Visible(TRUE)
      BY <1>6, <2>1 DEF show_cursor, cursorVars, callVars, Grid!Visible, Grid!Call, get_char
    <2>3. QED
      BY <2>2 DEF Grid!TNext
  <1>7. ASSUME clear_console
        PROVE  Grid!TNext
    <2>1. Grid!Show
      BY <1>7, ShowRefines DEF clear_console, callVars
    <2>2. mem' = [i \in Byte |-> IF i % 2 = 0 THEN ASCII_SPACE ELSE mem[i]]
      BY <1>7 DEF clear_console
    <2>3. View(mem') = [row \in Row |-> [col \in Col |->
                           [View(mem)[row][col] EXCEPT !.ch = ASCII_SPACE]]]
      BY <2>2, ViewCleared
    <2>4. Grid!Clear
      BY <1>7, <2>1, <2>3
         DEF clear_console, callVars, Grid!Clear, Grid!Call, Grid!Rows, Grid!Cols, Row, Col,
             View, get_char
    <2>5. QED
      BY <2>4 DEF Grid!TNext
  <1>8. ASSUME NEW color \in Ink \cup BadColor, set_term_color(color)
        PROVE  Grid!TNext
    <2>1. Grid!SetInk(color)
      BY <1>8 DEF set_term_color, cursorVars, callVars, Grid!SetInk, Grid!Call, Shown, get_char
    <2>2. color \in Ink
      BY <1>8 DEF set_term_color
    <2>3. QED
      BY <2>1, <2>2 DEF Grid!TNext
  <1>9. ASSUME NEW row \in -1 .. CONSOLE_HEIGHT, NEW col \in -1 .. CONSOLE_WIDTH,
               set_cursor(row, col)
        PROVE  Grid!TNext
    <2>1. row \in Grid!Rows /\ col \in Grid!Cols
      BY <1>9, SizeAssumption DEF set_cursor, in_range, Grid!Rows, Grid!Cols
    <2>2. Grid!Show
      BY <1>9, ShowRefines DEF set_cursor, callVars
    <2>3. Grid!MoveTo(row, col)
      BY <1>9, <2>2 DEF set_cursor, callVars, Grid!MoveTo, Grid!Call, get_char
    <2>4. QED
      BY <2>1, <2>3 DEF Grid!TNext
  <1>10. ASSUME NEW row \in -1 .. CONSOLE_HEIGHT, NEW col \in -1 .. CONSOLE_WIDTH,
                NEW ch \in Char, NEW color \in Ink \cup BadColor,
                draw_char(row, col, ch, color)
         PROVE  Grid!TNext
    <2>1. row \in Row /\ col \in Col /\ color \in Ink
      BY <1>10, SizeAssumption DEF draw_char, in_range, Row, Col
    <2>2. mem' = Written(row, col, ch, color) /\ mem \in Memory
      BY <1>10 DEF draw_char, TypeOK, Memory
    <2>3. View(mem') = [View(mem) EXCEPT ![row][col] = [ch |-> ch, color |-> color]]
      BY <2>1, <2>2, ViewWritten
    <2>4. Grid!Draw(row, col, ch, color)
      BY <1>10, <2>3
         DEF draw_char, cursorVars, callVars, Grid!Draw, Grid!Call, Shown, View, get_char
    <2>5. QED
      BY <2>1, <2>4 DEF Grid!TNext, Grid!Rows, Grid!Cols, Row, Col
  <1>11. ASSUME UNCHANGED vars
         PROVE  UNCHANGED Grid!tvars
    BY <1>11 DEF vars, cursorVars, callVars, Grid!tvars, Shown, get_char
  <1>12. QED
    BY <1>1, <1>2, <1>3, <1>4, <1>5, <1>6, <1>7, <1>8, <1>9, <1>10, <1>11 DEF Next

(* Byte by byte, the driver is a terminal of CONSOLE_HEIGHT rows and        *)
(* CONSOLE_WIDTH columns: each character typed changes one square, a row   *)
(* that is full or ends moves the rows up if it is the last, and when a    *)
(* call returns the caret is at the cursor or nowhere.                     *)
THEOREM Refinement == Spec => IsATerminal
  <1>1. Spec => []TypeOK
    BY TypeCorrect
  <1>2. Spec => []IInv
    BY InitIInv, NextIInv, PTL DEF Spec
  <1>3. QED
    BY <1>1, <1>2, InitRefines, StepRefines, PTL DEF Spec, IsATerminal, Grid!TSpec
=============================================================================
