------------------------------- MODULE Keyboard -------------------------------
(***************************************************************************)
(* Keyboard input: the PS/2 interrupt handler (keyboard/ps2_keyboard.c),   *)
(* the circular buffer of every process (keyboard/keyboard.c) and the      *)
(* get_key system call (isr80h/io.c).  The interrupt may come between any  *)
(* two instructions of the running process, and what it types goes to the  *)
(* process that runs at that moment.  A slot that holds 0 is empty.        *)
(***************************************************************************)
EXTENDS Integers, Sequences, FiniteSets

CONSTANTS
  Procs,
  KEYBOARD_BUFFER_SIZE,
  BYTE,                   \* number of values of a uint8_t
  KEY_RELEASED_BIT,
  EINVARG,
  ScanSetSize,            \* number of entries of keyboard_scan_set_one
  ScanSet,                \* keyboard_scan_set_one, the byte after it included
  MaxUnread               \* bound: characters typed ahead of the reader

Bytes == 0 .. BYTE - 1
Slots == 0 .. KEYBOARD_BUFFER_SIZE - 1
Chars == Bytes \ {0}

ASSUME KeyboardAssumption ==
  /\ KEYBOARD_BUFFER_SIZE \in Nat \ {0}
  /\ KEY_RELEASED_BIT \in Nat \ {0} /\ BYTE = 2 * KEY_RELEASED_BIT
  /\ EINVARG \in 1 .. BYTE - 1
  /\ ScanSetSize \in Nat
  /\ ScanSet \in [0 .. ScanSetSize -> Bytes]
  /\ MaxUnread \in Nat

VARIABLES
  kb,        \* kb[p]: the keyboard buffer of p: buffer, head and tail
  current,   \* the running process, of current_process and of current_task
  got,       \* what the last get_key returned
  unread     \* history: the characters typed to p and not yet returned

vars == <<kb, current, got, unread>>

TypeOK ==
  /\ kb \in [Procs -> [buffer : [Slots -> Bytes], head : Slots, tail : Slots]]
  /\ current \in Procs
  /\ got \in Bytes
  /\ unread \in [Procs -> Seq(Chars)]

\* process_init clears struct process.
Init ==
  /\ kb = [p \in Procs |-> [buffer |-> [i \in Slots |-> 0], head |-> 0, tail |-> 0]]
  /\ current \in Procs
  /\ got = 0
  /\ unread = [p \in Procs |-> <<>>]

\* The result is a uint8_t, so the error code is a positive value.
ps2_keyboard_scancode_to_char(scancode) ==
  IF scancode > ScanSetSize THEN (BYTE - EINVARG) % BYTE ELSE ScanSet[scancode]

\* Mutant: head stays.
increment_head_Stays(b) == b

increment_tail(b) == [b EXCEPT !.tail = (b.tail + 1) % KEYBOARD_BUFFER_SIZE]
increment_head(b) == [b EXCEPT !.head = (b.head + 1) % KEYBOARD_BUFFER_SIZE]

\* A character typed to a full buffer overwrites one and takes its place in
\* the history.
keyboard_push(c) ==
  /\ LET b == kb[current] IN
     kb' = [kb EXCEPT ![current] = increment_tail([b EXCEPT !.buffer[b.tail] = c])]
  /\ unread' = [unread EXCEPT ![current] =
                  Append(IF Len(@) = KEYBOARD_BUFFER_SIZE THEN Tail(@) ELSE @, c)]

ps2_keyboard_handle_interrupt(scancode) ==
  LET c == ps2_keyboard_scancode_to_char(scancode) IN
  /\ Len(unread[current]) < MaxUnread
  /\ IF scancode >= KEY_RELEASED_BIT \/ c = 0
     THEN UNCHANGED <<kb, unread>>
     ELSE keyboard_push(c)
  /\ UNCHANGED <<current, got>>

\* Mutant: the slot that was read is not cleared.
get_key_press_SlotKept ==
  LET b == kb[current] IN
  /\ got' = b.buffer[b.head]
  /\ IF b.buffer[b.head] = 0
     THEN UNCHANGED <<kb, unread>>
     ELSE /\ kb' = [kb EXCEPT ![current] = increment_head(b)]
          /\ unread' = [unread EXCEPT ![current] = IF @ = <<>> THEN @ ELSE Tail(@)]
  /\ UNCHANGED current

\* The get_key system call: keyboard_pop.
get_key_press ==
  LET b == kb[current] IN
  /\ got' = b.buffer[b.head]
  /\ IF b.buffer[b.head] = 0
     THEN UNCHANGED <<kb, unread>>
     ELSE /\ kb' = [kb EXCEPT ![current] = increment_head([b EXCEPT !.buffer[b.head] = 0])]
          /\ unread' = [unread EXCEPT ![current] = IF @ = <<>> THEN @ ELSE Tail(@)]
  /\ UNCHANGED current

\* task_exec, as the execve and exit system calls do it.
Switch(p) == current' = p /\ UNCHANGED <<kb, got, unread>>

Next ==
  \/ \E scancode \in Bytes : ps2_keyboard_handle_interrupt(scancode)
  \/ get_key_press
  \/ \E p \in Procs : Switch(p)

Spec == Init /\ [][Next]_vars

-----------------------------------------------------------------------------
(* Properties.                                                             *)

Slot(h, k) == (h + k) % KEYBOARD_BUFFER_SIZE

\* Buffer b holds the characters u: the oldest is at head, the others follow
\* around the end of the array, the other slots hold 0.
Holds(b, u) ==
  /\ Len(u) <= KEYBOARD_BUFFER_SIZE
  /\ b.tail = Slot(b.head, Len(u))
  /\ \A k \in Slots : b.buffer[Slot(b.head, k)] = IF k < Len(u) THEN u[k + 1] ELSE 0

\* While no process has more unread characters than its buffer has slots, its
\* buffer holds exactly the unread characters, in typing order, and 0 in the
\* other slots, which is all keyboard_pop tests; keyboard_push never meets a
\* character at tail.
BufferHoldsUnread == \A p \in Procs : Holds(kb[p], unread[p])

\* The circular buffers of keyboard.c implement one first-in first-out queue
\* per process: get_key returns the oldest character typed while its caller
\* was running, and 0 only when there is none.
Queue == INSTANCE KeyQueue WITH queue <- unread
KeyQueueSpec == Queue!Spec
=============================================================================
