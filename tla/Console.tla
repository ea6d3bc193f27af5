-------------------------------- MODULE Console --------------------------------
(***************************************************************************)
(* The text screen (modules/drivers/VGA.c).  A character is a member of    *)
(* Symbol or one of the control characters.                                *)
(*                                                                         *)
(* Of the frame buffer only the row with the cursor is kept: the cursor    *)
(* goes up only in VGA_cls, so the rows above it are never read or written *)
(* again, but to be moved up, and those below are blank.                   *)
(***************************************************************************)
EXTENDS Integers, Sequences

CONSTANTS VGA_WIDTH, VGA_HEIGHT

(* VGA_x and VGA_y are unsigned.                                           *)
Unsigned == 65536   \* bound: the width of unsigned int, which TLC has not

ASSUME ConsoleAssumption ==
    /\ {VGA_WIDTH, VGA_HEIGHT} \subseteq Nat \ {0}
    /\ VGA_WIDTH < Unsigned

VARIABLE screen     \* VGA_x, VGA_y, and the row VGA_y of VGA_FRAMEBUFFER

Blank == " "
Backspace == "backspace"
Tab == "tab"
Newline == "newline"
BlankRow == [x \in 0 .. VGA_WIDTH - 1 |-> Blank]
Cleared == [x |-> 0, y |-> 0, row |-> BlankRow]

ConsoleInit == screen = Cleared

Scrolled_Late(y) == IF y > VGA_HEIGHT THEN VGA_HEIGHT - 1 ELSE y    \* faulty
Scrolled(y) == IF y >= VGA_HEIGHT THEN VGA_HEIGHT - 1 ELSE y
NextRow(s) == [x |-> 0, y |-> Scrolled(s.y + 1), row |-> BlankRow]

Left_None(x) == x       \* faulty: a backspace changes nothing
Left(x) == (x - 1) % Unsigned

Moved(s, c) ==
    CASE c = Backspace -> [s EXCEPT !.x = Left(@)]
      [] c = Tab -> [s EXCEPT !.x = @ + 8]
      [] c = Newline -> NextRow(s)
      [] OTHER    -> [s EXCEPT !.x = @ + 1, !.row[s.x] = c]

Wrapped(s) == IF s.x >= VGA_WIDTH THEN NextRow(s) ELSE s

PutChar(s, c) == Wrapped(Moved(s, c))
PutStr(s, text) ==
    LET put[i \in 0 .. Len(text)] == IF i = 0 THEN s ELSE PutChar(put[i - 1], text[i])
    IN  put[Len(text)]

VGA_putStr(text) == screen' = PutStr(screen, text)
VGA_cls == screen' = Cleared
-----------------------------------------------------------------------------
(* Every cell that is written lies on the screen, although a backspace in  *)
(* the first column makes the unsigned column wrap (VGA.c:70).             *)
CursorOnScreen ==
    /\ screen.x \in 0 .. VGA_WIDTH - 1
    /\ screen.y \in 0 .. VGA_HEIGHT - 1
    /\ DOMAIN screen.row = 0 .. VGA_WIDTH - 1
=============================================================================
