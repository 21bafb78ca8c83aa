----------------------------- MODULE MCContext -----------------------------
(* sum, execve, exit, and two numbers that are not those of a command.     *)
EXTENDS Context

MCCommandIds == {-1, 0, 6, 7, 8}
=============================================================================
