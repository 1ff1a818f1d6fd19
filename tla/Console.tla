------------------------------ MODULE Console -------------------------------
(***************************************************************************)
(* The text screen: screen.c and the output half of printf.c.  A screen is *)
(* a record of the cursor offset and the video memory; every operator maps *)
(* a screen to the screen after the call.                                  *)
(*                                                                         *)
(* cursor_offset is an unsigned 64-bit number in the code.  Here it is an  *)
(* integer, and a negative one stands for the number it wraps to, which    *)
(* set_cursor takes for a row far below the screen.                        *)
(***************************************************************************)
EXTENDS Integers

CONSTANTS SCREEN_ROW, SCREEN_COL,
          BG_BLACK,         \* an empty cell
          STATUS            \* a cell of the timer's status line

ASSUME ScreenAssumption == SCREEN_ROW \in Nat \ {0, 1} /\ SCREEN_COL \in Nat \ {0}

Size == SCREEN_ROW * SCREEN_COL
Cells == 0 .. Size - 1

\* What caos_printf does not put on the screen as a character.
NUL == "nul"
NL == "nl"
BS == "bs"

-----------------------------------------------------------------------------
\* Mutant: the last line is not cleared.
scroll_screen_Keep(video) ==
    [i \in Cells |-> IF i < Size - SCREEN_COL THEN video[i + SCREEN_COL] ELSE video[i]]

\* scroll_screen(1), the only call
scroll_screen(video) ==
    [i \in Cells |-> IF i < Size - SCREEN_COL THEN video[i + SCREEN_COL] ELSE BG_BLACK]

set_cursor(s, offset) ==
    IF offset < 0 \/ offset \div SCREEN_COL >= SCREEN_ROW
    THEN [cursor |-> offset - SCREEN_COL, video |-> scroll_screen(s.video)]
    ELSE [s EXCEPT !.cursor = offset]

caos_putchar(s, c) == set_cursor([s EXCEPT !.video[s.cursor] = c], s.cursor + 1)

\* caos_delchar(1), the only count in use
caos_delchar(s) == LET back == set_cursor(s, s.cursor - 1)
                   IN [back EXCEPT !.video[back.cursor] = BG_BLACK]

newline(s) == set_cursor(s, (s.cursor \div SCREEN_COL + 1) * SCREEN_COL)

\* caos_printf("%c", c), and caos_printf("\n") for NL
caos_printf(s, c) == CASE c = NUL -> s
                       [] c = NL -> newline(s)
                       [] c = BS -> caos_delchar(s)
                       [] OTHER -> caos_putchar(s, c)

\* The status line of bsp_local_timer, in the top row.
set_screen_line(s) ==
    [s EXCEPT !.video = [i \in Cells |-> IF i < SCREEN_COL THEN STATUS ELSE s.video[i]]]

=============================================================================
