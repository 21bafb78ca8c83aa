------------------------------ MODULE MCKeyboard ------------------------------
EXTENDS Keyboard

\* Two keys, a scan code without a character, and 0 in the byte that follows.
TwoKeys == [s \in 0 .. 3 |-> IF s \in 1 .. 2 THEN s ELSE 0]
=============================================================================
