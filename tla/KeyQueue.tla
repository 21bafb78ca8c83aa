------------------------------- MODULE KeyQueue -------------------------------
(***************************************************************************)
(* What a process is promised about its keyboard input (keyboard.h,        *)
(* isr80h/io.h): a queue of characters of its own, in typing order, from   *)
(* which get_key takes the oldest, or 0 when there is none.                *)
(***************************************************************************)
EXTENDS Integers, Sequences

CONSTANTS Procs, Chars

VARIABLES queue, current, got

vars == <<queue, current, got>>

Init ==
  /\ queue = [p \in Procs |-> <<>>]
  /\ current \in Procs
  /\ got = 0

Type(c) ==
  /\ queue' = [queue EXCEPT ![current] = Append(@, c)]
  /\ UNCHANGED <<current, got>>

GetKey ==
  /\ IF queue[current] = <<>>
     THEN got' = 0 /\ UNCHANGED queue
     ELSE /\ got' = Head(queue[current])
          /\ queue' = [queue EXCEPT ![current] = Tail(@)]
  /\ UNCHANGED current

Run(p) == current' = p /\ UNCHANGED <<queue, got>>

Next == (\E c \in Chars : Type(c)) \/ GetKey \/ (\E p \in Procs : Run(p))

Spec == Init /\ [][Next]_vars
=============================================================================
