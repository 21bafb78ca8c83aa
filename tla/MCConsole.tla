------------------------------ MODULE MCConsole ------------------------------
(***************************************************************************)
(* Four keys: A, the space bar, backspace and Enter.                       *)
(***************************************************************************)
EXTENDS Console

MCScanSet == [s \in 0..5 |-> CASE s = 1 -> 65 [] s = 2 -> SPACE [] s = 3 -> BACKSPACE
                               [] s = 4 -> ENTER [] OTHER -> 0]

MCPathPrefix == <<47>>
MCBanner     == <<45, NEWLINE>>
MCEcho       == <<47, 65>>
MCCount      == <<47>>
MCNumbers    == {-32, -10, 0}
=============================================================================
