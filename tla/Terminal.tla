------------------------------ MODULE Terminal ------------------------------
(***************************************************************************)
(* The text display, src/src/print/print.c.  A terminal is a record of the *)
(* cursor, row and col, and the frame buffer, a function from cell numbers *)
(* to characters; a write to a cell that the buffer does not have is lost. *)
(* Colours are left out.                                                   *)
(***************************************************************************)
EXTENDS Integers, Sequences, SequencesExt

CONSTANTS
    VGA_WIDTH,
    FrameRows,      \* rows of the frame buffer
    UINT16          \* number of values of a uint16_t

ASSUME TerminalAssumption ==
    /\ VGA_WIDTH \in Nat \ {0} /\ FrameRows \in Nat
    /\ UINT16 >= VGA_WIDTH * FrameRows

SPACE     == 32
NEWLINE   == 10
BACKSPACE == 8

terminal_initialize == [i \in 0..(VGA_WIDTH * FrameRows - 1) |-> SPACE]

terminal_put_char(t, c) ==
    LET cell == t.row * VGA_WIDTH + t.col
    IN  IF cell \in DOMAIN t.screen THEN [t EXCEPT !.screen[cell] = c] ELSE t

\* A printing character, and the cursor to the next place.
Advance(t, c) ==
    LET put  == terminal_put_char(t, c)
        next == (t.col + 1) % UINT16
    IN  IF next >= VGA_WIDTH THEN [put EXCEPT !.row = @ + 1, !.col = 0]
        ELSE [put EXCEPT !.col = next]

\* Mutant: the cursor stays after the place that is cleared.
terminal_backspace_NoStepBack(t) ==
    IF t.row = 0 /\ t.col = 0 THEN t
    ELSE Advance(IF t.col = 0 THEN [t EXCEPT !.row = @ - 1, !.col = VGA_WIDTH - 1]
                 ELSE [t EXCEPT !.col = @ - 1], SPACE)

\* The cursor goes back, writes a blank and goes back again.  In the first
\* column it goes to the end of the row above, from where the blank takes it
\* forth to the first column: the second step back wraps around.
terminal_backspace(t) ==
    LET back  == IF t.col = 0 THEN [t EXCEPT !.row = @ - 1, !.col = VGA_WIDTH - 1]
                 ELSE [t EXCEPT !.col = @ - 1]
        blank == Advance(back, SPACE)
    IN  IF t.row = 0 /\ t.col = 0 THEN t
        ELSE [blank EXCEPT !.col = (@ - 1) % UINT16]

terminal_write_char(t, c) ==
    CASE c = NEWLINE   -> [t EXCEPT !.row = @ + 1, !.col = 0]
      [] c = BACKSPACE -> terminal_backspace(t)
      [] OTHER         -> Advance(t, c)

\* Writes beyond the end of the frame buffer do not scroll.
print(t, str) == FoldLeft(terminal_write_char, t, str)
=============================================================================
