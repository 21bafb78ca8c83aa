----------------------------- MODULE PathParser -----------------------------
(***************************************************************************)
(* The path parser, src/src/fs/pparser.c.  A path is a sequence of         *)
(* characters.  The parts of a parsed path are never released: allocations *)
(* counts what a parse leaves on the kernel heap.                          *)
(***************************************************************************)
EXTENDS Integers, Sequences, FiniteSets, FiniteSetsExt, TLC

CONSTANTS
    MAX_FILE_PATH_CHARS,
    NULL

Digits == {"0", "1", "2", "3", "4", "5", "6", "7", "8", "9"}

is_digit(c) == c \in Digits

ctoi(c) == CHOOSE n \in 0..9 : ToString(n) = c

path_valid_form(path) ==
    /\ Len(path) > 2
    /\ is_digit(path[1])
    /\ path[2] = ":" /\ path[3] = "/"

\* The index of the character that ends the part beginning at index i.
PartEnd(path, i) ==
    Min({j \in i..Len(path) : path[j] = "/"} \cup {Len(path) + 1})

\* The parts from index i on, up to the first one that is empty.
PartsFrom(path, first) ==
    LET parts[i \in 1..(Len(path) + 2)] ==
          LET end == PartEnd(path, i)
          IN  IF i > Len(path) \/ end = i THEN <<>>
              ELSE <<SubSeq(path, i, end - 1)>> \o parts[end + 1]
    IN  parts[first]

\* A null result of a path without a part loses the root structure; every
\* part is a structure and a string.
pparser_parse(path) ==
    LET rejected == Len(path) > MAX_FILE_PATH_CHARS \/ ~path_valid_form(path)
        parts    == PartsFrom(path, 4)
    IN  CASE rejected                    -> [root |-> NULL, allocations |-> 0]
          [] ~rejected /\ parts = <<>>   -> [root |-> NULL, allocations |-> 1]
          [] OTHER -> [root |-> [drive_no |-> ctoi(path[1]), first |-> parts],
                       allocations |-> 1 + 2 * Len(parts)]
=============================================================================
