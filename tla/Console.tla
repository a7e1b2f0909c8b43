------------------------------- MODULE Console -------------------------------
(***************************************************************************)
(* The console driver, kern/console.c: the video memory as the bytes it is,*)
(* a character and a colour per square, row after row; the cursor in       *)
(* variables of the driver, and in the registers of the video controller.  *)
(*                                                                         *)
(* One caller: what happens when a tick prints in the middle of another    *)
(* call is SokobanGame's subject.                                          *)
(***************************************************************************)
EXTENDS Integers, Sequences

CONSTANTS
    CONSOLE_HEIGHT, CONSOLE_WIDTH,   \* 25 and 80 in the code
    Char,                            \* the characters put on the screen
    ASCII_SPACE,
    NUL,                             \* ends a C string
    Color,                           \* the colours, at most 0xFF
    Ink,                             \* those that are asked for in calls
    BadColor,                        \* colours above 0xFF
    Strings                          \* what putbytes is called with

ASSUME SizeAssumption ==
    /\ CONSOLE_HEIGHT \in Nat \ {0}
    /\ CONSOLE_WIDTH \in Nat \ {0}
    \* hide_cursor's address must fit the two registers
    /\ CONSOLE_HEIGHT * CONSOLE_WIDTH < 65536
ASSUME CharAssumption ==
    /\ ASCII_SPACE \in Char
    /\ Char \cap {"CR", "LF", "BS"} = {}
    /\ NUL \notin Char \cup {"CR", "LF", "BS"}
    /\ Ink \subseteq Color
    /\ Color \cap BadColor = {}
    /\ Strings \subseteq Seq(Char \cup {"CR", "LF", "BS", NUL})

VARIABLES
    mem,                       \* the bytes from CONSOLE_MEM_BASE on
    cursor_row, cursor_col,
    cursor_shown,
    console_color,
    crtc,                      \* the cursor registers [msb, lsb]
    writing, s                 \* putbytes is in its loop; what is left of s

cursorVars == <<cursor_row, cursor_col>>
callVars == <<writing, s>>
vars == <<mem, cursorVars, cursor_shown, console_color, crtc, callVars>>

Row == 0 .. CONSOLE_HEIGHT - 1
Col == 0 .. CONSOLE_WIDTH - 1
Byte == 0 .. 2 * CONSOLE_HEIGHT * CONSOLE_WIDTH - 1

\* Mutant: a boundary is off by one.
in_range_wide(row, col) ==
    row >= 0 /\ row <= CONSOLE_HEIGHT /\ col >= 0 /\ col < CONSOLE_WIDTH
in_range(row, col) ==
    row >= 0 /\ row < CONSOLE_HEIGHT /\ col >= 0 /\ col < CONSOLE_WIDTH

-----------------------------------------------------------------------------
(* The video memory.                                                       *)

Addr(row, col) == 2 * (row * CONSOLE_WIDTH + col)

Written(row, col, ch, color) ==
    [mem EXCEPT ![Addr(row, col)] = ch, ![Addr(row, col) + 1] = color]

\* Mutant: only the first two rows take part.
scroll_top(m) ==
    [i \in Byte |->
        CASE i < 2 * CONSOLE_WIDTH -> m[i + 2 * CONSOLE_WIDTH]
          [] i >= 2 * (CONSOLE_HEIGHT - 1) * CONSOLE_WIDTH /\ i % 2 = 0 -> ASCII_SPACE
          [] OTHER -> m[i]]
\* memmove by a row, then spaces without colours in the last row.
scroll(m) ==
    [i \in Byte |->
        CASE i < 2 * (CONSOLE_HEIGHT - 1) * CONSOLE_WIDTH -> m[i + 2 * CONSOLE_WIDTH]
          [] i >= 2 * (CONSOLE_HEIGHT - 1) * CONSOLE_WIDTH /\ i % 2 = 0 -> ASCII_SPACE
          [] OTHER -> m[i]]

\* cursor_col = 0, and the next row, scrolling m if there is none.
NextRow(m) ==
    /\ cursor_col' = 0
    /\ IF cursor_row = CONSOLE_HEIGHT - 1
       THEN mem' = scroll(m) /\ cursor_row' = cursor_row
       ELSE mem' = m /\ cursor_row' = cursor_row + 1

Backspace ==
    IF cursor_col > 0
    THEN /\ cursor_col' = cursor_col - 1
         /\ cursor_row' = cursor_row
         /\ mem' = Written(cursor_row', cursor_col', ASCII_SPACE, console_color)
    ELSE IF cursor_row = 0
    THEN UNCHANGED <<mem, cursor_row, cursor_col>>
    ELSE /\ cursor_row' = cursor_row - 1
         /\ cursor_col' = CONSOLE_WIDTH - 1
         /\ mem' = Written(cursor_row', cursor_col', ASCII_SPACE, console_color)

Glyph(ch) ==
    IF cursor_col < CONSOLE_WIDTH - 1
    THEN /\ mem' = Written(cursor_row, cursor_col, ch, console_color)
         /\ cursor_col' = cursor_col + 1
         /\ cursor_row' = cursor_row
    ELSE NextRow(Written(cursor_row, cursor_col, ch, console_color))

write_char(ch) ==
    CASE ch = "CR" -> cursor_col' = 0 /\ UNCHANGED <<mem, cursor_row>>
      [] ch = "LF" -> NextRow(mem)
      [] ch = "BS" -> Backspace
      [] OTHER     -> Glyph(ch)

-----------------------------------------------------------------------------
(* The cursor.  Its address goes out in two bytes.                         *)

Halves(addr) == [msb |-> (addr \div 256) % 256, lsb |-> addr % 256]

\* The registers after a call that leaves the cursor at row, col.
\* Mutant: the registers follow even if the cursor is hidden.
UpdateAlways(row, col) == crtc' = Halves(row * CONSOLE_WIDTH + col)
Update(row, col) ==
    crtc' = IF cursor_shown THEN Halves(row * CONSOLE_WIDTH + col) ELSE crtc

set_cursor(row, col) ==
    /\ ~writing
    /\ in_range(row, col)
    /\ cursor_row' = row
    /\ cursor_col' = col
    /\ Update(row, col)
    /\ UNCHANGED <<mem, cursor_shown, console_color, callVars>>

hide_cursor ==
    /\ ~writing
    /\ cursor_shown' = FALSE
    /\ crtc' = Halves(CONSOLE_HEIGHT * CONSOLE_WIDTH)
    /\ UNCHANGED <<mem, cursorVars, console_color, callVars>>

show_cursor ==
    /\ ~writing
    /\ cursor_shown' = TRUE
    /\ crtc' = Halves(cursor_row * CONSOLE_WIDTH + cursor_col)
    /\ UNCHANGED <<mem, cursorVars, console_color, callVars>>

-----------------------------------------------------------------------------
(* putbyte and putbytes: the loop, then set_cursor at the cursor.          *)

\* The characters of str before its first NUL.
UpToNUL(str) ==
    LET nuls == {i \in 1 .. Len(str) : str[i] = NUL}
    IN  IF nuls = {} THEN str
        ELSE SubSeq(str, 1, (CHOOSE i \in nuls : \A j \in nuls : i <= j) - 1)

\* Nothing happens, not even set_cursor, if len <= 0.
putbytes(str) ==
    /\ ~writing
    /\ Len(str) > 0
    /\ writing' = TRUE
    /\ s' = UpToNUL(str)
    /\ UNCHANGED <<mem, cursorVars, cursor_shown, console_color, crtc>>

putbyte(ch) ==
    /\ ~writing
    /\ writing' = TRUE
    /\ s' = <<ch>>
    /\ UNCHANGED <<mem, cursorVars, cursor_shown, console_color, crtc>>

WriteNext ==
    /\ writing
    /\ s # <<>>
    /\ write_char(Head(s))
    /\ s' = Tail(s)
    /\ UNCHANGED <<cursor_shown, console_color, crtc, writing>>

Return ==
    /\ writing
    /\ s = <<>>
    /\ Update(cursor_row, cursor_col)
    /\ writing' = FALSE
    /\ UNCHANGED <<mem, cursorVars, cursor_shown, console_color, s>>

-----------------------------------------------------------------------------
set_term_color(color) ==
    /\ ~writing
    /\ color \notin BadColor
    /\ console_color' = color
    /\ UNCHANGED <<mem, cursorVars, cursor_shown, crtc, callVars>>

\* Every other byte: the colours stay.
clear_console ==
    /\ ~writing
    /\ mem' = [i \in Byte |-> IF i % 2 = 0 THEN ASCII_SPACE ELSE mem[i]]
    /\ cursor_row' = 0
    /\ cursor_col' = 0
    /\ Update(0, 0)
    /\ UNCHANGED <<cursor_shown, console_color, callVars>>

draw_char(row, col, ch, color) ==
    /\ ~writing
    /\ in_range(row, col)
    /\ color \notin BadColor
    /\ mem' = Written(row, col, ch, color)
    /\ UNCHANGED <<cursorVars, cursor_shown, console_color, crtc, callVars>>

get_char(row, col) == mem[Addr(row, col)]

\* The console as the first call of kernel_main, clear_console, leaves it.
Init ==
    /\ \E color \in Color :
          mem = [i \in Byte |-> IF i % 2 = 0 THEN ASCII_SPACE ELSE color]
    /\ cursor_row = 0 /\ cursor_col = 0
    /\ cursor_shown = TRUE
    /\ console_color \in Ink
    /\ crtc = Halves(0)
    /\ writing = FALSE
    /\ s = <<>>

\* Arguments one step out of range on each side are tried as well.
Next ==
    \/ \E ch \in Char \cup {"CR", "LF", "BS"} : putbyte(ch)
    \/ \E str \in Strings : putbytes(str)
    \/ WriteNext
    \/ Return
    \/ hide_cursor
    \/ show_cursor
    \/ clear_console
    \/ \E color \in Ink \cup BadColor : set_term_color(color)
    \/ \E row \in -1 .. CONSOLE_HEIGHT, col \in -1 .. CONSOLE_WIDTH :
          \/ set_cursor(row, col)
          \/ \E ch \in Char, color \in Ink \cup BadColor : draw_char(row, col, ch, color)

Spec == Init /\ [][Next]_vars

-----------------------------------------------------------------------------
(* The types of the variables.  The cursor stays on the console, whatever  *)
(* is written: every write_char goes to a byte of the video memory.        *)
TypeOK ==
    /\ mem \in [Byte -> Char \cup Color]
    /\ cursor_row \in Row
    /\ cursor_col \in Col
    /\ cursor_shown \in BOOLEAN
    /\ console_color \in Ink
    /\ crtc \in [msb : 0 .. 255, lsb : 0 .. 255]
    /\ writing \in BOOLEAN
    /\ s \in Seq(Char \cup {"CR", "LF", "BS"})

(* Between calls the controller shows the cursor where the driver has it,  *)
(* or, when it is hidden, just outside the console.                        *)
HardwareFollows ==
    ~writing => 256 * crtc.msb + crtc.lsb =
                    IF cursor_shown
                    THEN cursor_row * CONSOLE_WIDTH + cursor_col
                    ELSE CONSOLE_HEIGHT * CONSOLE_WIDTH

(* Read as a grid of characters and colours, the bytes change as a         *)
(* terminal's do: one square per character typed, rows moving up as rows   *)
(* when the last one is full, the caret following at the end of each call. *)
Shown == LET a == 256 * crtc.msb + crtc.lsb
         IN  IF a < CONSOLE_HEIGHT * CONSOLE_WIDTH
             THEN <<a \div CONSOLE_WIDTH, a % CONSOLE_WIDTH>>
             ELSE <<>>

Grid == INSTANCE Terminal WITH
            HEIGHT <- CONSOLE_HEIGHT,
            WIDTH  <- CONSOLE_WIDTH,
            Space  <- ASCII_SPACE,
            Texts  <- {<<ch>> : ch \in Char \cup {"CR", "LF", "BS"}}
                      \cup {UpToNUL(str) : str \in Strings},
            grid   <- [row \in Row |-> [col \in Col |->
                          [ch    |-> get_char(row, col),
                           color |-> mem[Addr(row, col) + 1]]]],
            at     <- <<cursor_row, cursor_col>>,
            ink    <- console_color,
            shown  <- cursor_shown,
            caret  <- Shown,
            typing <- writing,
            text   <- s

IsATerminal == Grid!TSpec
=============================================================================
