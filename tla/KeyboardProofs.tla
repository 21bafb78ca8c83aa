--------------------------- MODULE KeyboardProofs ---------------------------
(***************************************************************************)
(* The circular keyboard buffers implement the queues of module KeyQueue   *)
(* for every buffer size, as long as no more characters are typed ahead    *)
(* than the buffer has slots.                                              *)
(***************************************************************************)
EXTENDS Keyboard, TLAPS

Buffers == [buffer : [Slots -> Bytes], head : Slots, tail : Slots]

\* The buffer after keyboard_push(c) and after a keyboard_pop that returns a
\* character.
Pushed(b, c) == increment_tail([b EXCEPT !.buffer[b.tail] = c])
Popped(b) == increment_head([b EXCEPT !.buffer[b.head] = 0])

KeyboardInv == TypeOK /\ BufferHoldsUnread

\* Slots are counted around the end of the array.
LEMMA SlotWraps ==
  ASSUME NEW h \in Slots, NEW k \in 0 .. KEYBOARD_BUFFER_SIZE
  PROVE  /\ Slot(h, k) \in Slots
         /\ Slot(h, k) = IF h + k < KEYBOARD_BUFFER_SIZE THEN h + k
                         ELSE h + k - KEYBOARD_BUFFER_SIZE
<1> DEFINE n == KEYBOARD_BUFFER_SIZE
<1>1. n \in Nat \ {0} /\ h \in 0 .. n - 1 /\ k \in 0 .. n
  BY KeyboardAssumption DEF Slots
<1>2. CASE h + k < n
  <2>1. (h + k) % n = h + k
    BY <1>1, <1>2
  <2> QED
    BY <2>1, <1>1, <1>2 DEF Slot, Slots
<1>3. CASE ~(h + k < n)
  <2>1. h + k \in n .. 2 * n - 1
    BY <1>1, <1>3
  <2>2. (h + k) % n = h + k - n
    BY <2>1, <1>1
  <2> QED
    BY <2>1, <2>2, <1>1, <1>3 DEF Slot, Slots
<1> QED
  BY <1>2, <1>3

\* The fields of a buffer after a push and after a pop.
LEMMA PushedFields ==
  ASSUME NEW b \in Buffers, NEW c \in Bytes
  PROVE  /\ Pushed(b, c) \in Buffers
         /\ Pushed(b, c).head = b.head
         /\ Pushed(b, c).tail = Slot(b.tail, 1)
         /\ Pushed(b, c).buffer = [b.buffer EXCEPT ![b.tail] = c]
<1>1. Pushed(b, c) = [buffer |-> [b.buffer EXCEPT ![b.tail] = c], head |-> b.head,
                      tail |-> Slot(b.tail, 1)]
  <2>1. [b EXCEPT !.buffer[b.tail] = c] =
          [buffer |-> [b.buffer EXCEPT ![b.tail] = c], head |-> b.head, tail |-> b.tail]
    BY DEF Buffers
  <2>2. \A x, y, z : increment_tail([buffer |-> x, head |-> y, tail |-> z]) =
                       [buffer |-> x, head |-> y, tail |-> Slot(z, 1)]
    BY DEF increment_tail, Slot
  <2> QED
    BY <2>1, <2>2 DEF Pushed
<1>2. Slot(b.tail, 1) \in Slots
  <2>1. 1 \in 0 .. KEYBOARD_BUFFER_SIZE /\ b.tail \in Slots
    BY KeyboardAssumption DEF Buffers
  <2> QED
    BY <2>1, SlotWraps
<1>3. [b.buffer EXCEPT ![b.tail] = c] \in [Slots -> Bytes]
  BY DEF Buffers
<1> QED
  BY <1>1, <1>2, <1>3 DEF Buffers

\* The same for a pop.
LEMMA PoppedFields ==
  ASSUME NEW b \in Buffers
  PROVE  /\ Popped(b) \in Buffers
         /\ Popped(b).head = Slot(b.head, 1)
         /\ Popped(b).tail = b.tail
         /\ Popped(b).buffer = [b.buffer EXCEPT ![b.head] = 0]
<1>1. Popped(b) = [buffer |-> [b.buffer EXCEPT ![b.head] = 0], head |-> Slot(b.head, 1),
                   tail |-> b.tail]
  <2>1. [b EXCEPT !.buffer[b.head] = 0] =
          [buffer |-> [b.buffer EXCEPT ![b.head] = 0], head |-> b.head, tail |-> b.tail]
    BY DEF Buffers
  <2>2. \A x, y, z : increment_head([buffer |-> x, head |-> y, tail |-> z]) =
                       [buffer |-> x, head |-> Slot(y, 1), tail |-> z]
    BY DEF increment_head, Slot
  <2> QED
    BY <2>1, <2>2 DEF Popped
<1>2. Slot(b.head, 1) \in Slots
  <2>1. 1 \in 0 .. KEYBOARD_BUFFER_SIZE /\ b.head \in Slots
    BY KeyboardAssumption DEF Buffers
  <2> QED
    BY <2>1, SlotWraps
<1>3. 0 \in Bytes
  BY KeyboardAssumption DEF Bytes
<1>4. [b.buffer EXCEPT ![b.head] = 0] \in [Slots -> Bytes]
  BY <1>3 DEF Buffers
<1> QED
  BY <1>1, <1>2, <1>4 DEF Buffers

\* A push to a buffer with a free slot appends the character.
LEMMA PushAppends ==
  ASSUME NEW b \in Buffers, NEW u \in Seq(Chars), NEW c \in Chars,
         Holds(b, u), Len(u) < KEYBOARD_BUFFER_SIZE
  PROVE  Holds(Pushed(b, c), Append(u, c))
<1> DEFINE n == KEYBOARD_BUFFER_SIZE
           d == Pushed(b, c)
           v == Append(u, c)
           m == Len(u)
           h == b.head
<1>1. /\ n \in Nat \ {0} /\ m \in 0 .. n - 1 /\ h \in Slots /\ b.tail \in Slots
      /\ Slots = 0 .. n - 1 /\ c \in Bytes
  BY KeyboardAssumption DEF Buffers, Slots, Chars
<1>2. /\ Len(v) = m + 1 /\ v[m + 1] = c
      /\ \A k \in 1 .. m : v[k] = u[k]
  OBVIOUS
<1>3. d.head = h /\ d.tail = Slot(b.tail, 1) /\ d.buffer = [b.buffer EXCEPT ![b.tail] = c]
  BY <1>1, PushedFields
<1>4. b.tail = Slot(h, m)
  BY DEF Holds
<1> HIDE DEF d, v, m, h, n
<1>5. \A k \in 0 .. n : /\ Slot(h, k) \in Slots
                        /\ Slot(h, k) = IF h + k < n THEN h + k ELSE h + k - n
  BY <1>1, SlotWraps DEF n
<1>6. Slot(b.tail, 1) = IF b.tail + 1 < n THEN b.tail + 1 ELSE b.tail + 1 - n
  <2>1. 1 \in 0 .. n
    BY <1>1
  <2> QED
    BY <2>1, <1>1, SlotWraps DEF n
<1>7. d.tail = Slot(d.head, Len(v))
  <2>1. m \in 0 .. n /\ m + 1 \in 0 .. n
    BY <1>1
  <2>2. /\ Slot(h, m) = IF h + m < n THEN h + m ELSE h + m - n
        /\ Slot(h, m + 1) = IF h + (m + 1) < n THEN h + (m + 1) ELSE h + (m + 1) - n
    BY <2>1, <1>5
  <2>3. h \in 0 .. n - 1
    BY <1>1
  <2>4. Slot(Slot(h, m), 1) = Slot(h, m + 1)
    BY <2>2, <2>3, <1>1, <1>4, <1>6
  <2> QED
    BY <2>4, <1>2, <1>3, <1>4
<1>8. ASSUME NEW k \in Slots
      PROVE  d.buffer[Slot(d.head, k)] = IF k < Len(v) THEN v[k + 1] ELSE 0
  <2>1. k \in 0 .. n /\ m \in 0 .. n /\ k \in 0 .. n - 1
    BY <1>1
  <2>2. Slot(h, k) = Slot(h, m) <=> k = m
    <3>1. /\ Slot(h, m) = IF h + m < n THEN h + m ELSE h + m - n
          /\ Slot(h, k) = IF h + k < n THEN h + k ELSE h + k - n
      BY <2>1, <1>5
    <3>2. h \in 0 .. n - 1
      BY <1>1
    <3> QED
      BY <3>1, <3>2, <2>1, <1>1
  <2>3. b.buffer[Slot(h, k)] = IF k < m THEN u[k + 1] ELSE 0
    BY DEF Holds, m, h
  <2>4. d.buffer[Slot(h, k)] = IF k = m THEN c ELSE b.buffer[Slot(h, k)]
    BY <1>3, <1>4, <1>5, <2>1, <2>2 DEF Buffers
  <2>5. k < m => k + 1 \in 1 .. m
    BY <2>1, <1>1
  <2> QED
    BY <2>1, <2>3, <2>4, <2>5, <1>1, <1>2, <1>3
<1>9. Len(v) <= n
  BY <1>1, <1>2
<1> QED
  BY <1>7, <1>8, <1>9 DEF Holds, n, d, v

\* The slot at head holds the oldest character, or 0 if there is none.
LEMMA HeadIsOldest ==
  ASSUME NEW b \in Buffers, NEW u \in Seq(Chars), Holds(b, u)
  PROVE  /\ b.buffer[b.head] \in Bytes
         /\ b.buffer[b.head] = IF u = <<>> THEN 0 ELSE Head(u)
         /\ b.buffer[b.head] = 0 <=> u = <<>>
<1>1. 0 \in Slots /\ 0 \in 0 .. KEYBOARD_BUFFER_SIZE /\ b.head \in Slots
  BY KeyboardAssumption DEF Slots, Buffers
<1>2. Slot(b.head, 0) = b.head
  <2>1. Slot(b.head, 0) = IF b.head + 0 < KEYBOARD_BUFFER_SIZE THEN b.head + 0
                          ELSE b.head + 0 - KEYBOARD_BUFFER_SIZE
    BY <1>1, SlotWraps
  <2> QED
    BY <2>1, <1>1, KeyboardAssumption DEF Slots
<1>3. b.buffer[b.head] = IF 0 < Len(u) THEN u[0 + 1] ELSE 0
  BY <1>1, <1>2 DEF Holds
<1>4. u # <<>> => 0 < Len(u) /\ Head(u) = u[1] /\ Head(u) \in Chars
  OBVIOUS
<1>5. u = <<>> => Len(u) = 0
  OBVIOUS
<1> QED
  BY <1>1, <1>3, <1>4, <1>5 DEF Chars, Buffers

\* A pop from a buffer that is not empty removes the oldest character.
LEMMA PopRemovesOldest ==
  ASSUME NEW b \in Buffers, NEW u \in Seq(Chars), Holds(b, u), u # <<>>
  PROVE  Holds(Popped(b), Tail(u))
<1> DEFINE n == KEYBOARD_BUFFER_SIZE
           d == Popped(b)
           v == Tail(u)
           m == Len(u)
           h == b.head
<1>1. /\ n \in Nat \ {0} /\ m \in 1 .. n /\ h \in Slots /\ h \in 0 .. n - 1
      /\ Slots = 0 .. n - 1
  BY KeyboardAssumption DEF Buffers, Slots, Holds
<1>2. /\ Len(v) = m - 1
      /\ \A k \in 1 .. m - 1 : v[k] = u[k + 1]
  OBVIOUS
<1>3. d.head = Slot(h, 1) /\ d.tail = b.tail /\ d.buffer = [b.buffer EXCEPT ![h] = 0]
  BY PoppedFields
<1>4. b.tail = Slot(h, m)
  BY DEF Holds
<1> HIDE DEF d, v, m, h, n
<1>5. \A k \in 0 .. n : /\ Slot(h, k) \in Slots
                        /\ Slot(h, k) = IF h + k < n THEN h + k ELSE h + k - n
  BY <1>1, SlotWraps DEF n
<1>6. \A k \in 0 .. n : /\ Slot(d.head, k) \in Slots
                        /\ Slot(d.head, k) = IF d.head + k < n THEN d.head + k ELSE d.head + k - n
  <2>1. d.head \in Slots
    BY <1>1, <1>3, <1>5
  <2> QED
    BY <2>1, SlotWraps DEF n
<1>7. d.head = IF h + 1 < n THEN h + 1 ELSE h + 1 - n
  <2>1. 1 \in 0 .. n
    BY <1>1
  <2> QED
    BY <2>1, <1>3, <1>5
<1>8. d.tail = Slot(d.head, Len(v))
  <2>1. m \in 0 .. n /\ m - 1 \in 0 .. n
    BY <1>1
  <2>2. /\ Slot(h, m) = IF h + m < n THEN h + m ELSE h + m - n
        /\ Slot(d.head, m - 1) = IF d.head + (m - 1) < n THEN d.head + (m - 1)
                                 ELSE d.head + (m - 1) - n
    BY <2>1, <1>5, <1>6
  <2>3. Slot(h, m) = Slot(d.head, m - 1)
    BY <2>2, <1>1, <1>7
  <2> QED
    BY <2>3, <1>2, <1>3, <1>4
<1>9. ASSUME NEW k \in Slots
      PROVE  d.buffer[Slot(d.head, k)] = IF k < Len(v) THEN v[k + 1] ELSE 0
  <2>1. k \in 0 .. n /\ k + 1 \in 0 .. n /\ k \in 0 .. n - 1
    BY <1>1
  <2>2. /\ Slot(h, k + 1) = IF h + (k + 1) < n THEN h + (k + 1) ELSE h + (k + 1) - n
        /\ Slot(d.head, k) = IF d.head + k < n THEN d.head + k ELSE d.head + k - n
        /\ Slot(d.head, k) \in Slots
    BY <2>1, <1>5, <1>6
  <2>3. Slot(d.head, k) = Slot(h, k + 1)
    BY <2>1, <2>2, <1>1, <1>7
  <2>4. CASE k = n - 1
    <3>1. Slot(d.head, k) = h
      BY <2>1, <2>2, <2>3, <2>4, <1>1
    <3>2. d.buffer[Slot(d.head, k)] = 0
      BY <3>1, <1>1, <1>3 DEF Buffers
    <3>3. ~(k < Len(v))
      BY <2>4, <1>1, <1>2
    <3> QED
      BY <3>2, <3>3
  <2>5. CASE k # n - 1
    <3>1. Slot(d.head, k) # h /\ k + 1 \in Slots
      BY <2>1, <2>2, <2>3, <2>5, <1>1
    <3>2. d.buffer[Slot(d.head, k)] = b.buffer[Slot(h, k + 1)]
      BY <3>1, <2>2, <2>3, <1>3 DEF Buffers
    <3>3. b.buffer[Slot(h, k + 1)] = IF k + 1 < m THEN u[(k + 1) + 1] ELSE 0
      BY <3>1 DEF Holds, m, h
    <3>4. k + 1 < m => k + 1 \in 1 .. m - 1
      BY <2>1, <1>1
    <3>5. k + 1 < m <=> k < Len(v)
      BY <2>1, <1>1, <1>2
    <3> QED
      BY <3>2, <3>3, <3>4, <3>5, <1>2
  <2> QED
    BY <2>4, <2>5
<1>10. Len(v) <= n
  BY <1>1, <1>2
<1> QED
  BY <1>8, <1>9, <1>10 DEF Holds, n, d, v

\* A scan code is converted to a byte.
LEMMA CharType ==
  ASSUME NEW scancode \in Bytes
  PROVE  ps2_keyboard_scancode_to_char(scancode) \in Bytes
<1>1. scancode \in Nat /\ EINVARG \in 1 .. BYTE - 1 /\ BYTE \in Nat /\ ScanSetSize \in Nat
  BY KeyboardAssumption DEF Bytes
<1>2. BYTE - EINVARG \in 1 .. BYTE - 1
  BY <1>1
<1>3. (BYTE - EINVARG) % BYTE \in Bytes
  BY <1>1, <1>2 DEF Bytes
<1>4. scancode <= ScanSetSize => ScanSet[scancode] \in Bytes
  BY <1>1, KeyboardAssumption
<1> QED
  BY <1>1, <1>3, <1>4 DEF ps2_keyboard_scancode_to_char

\* Initially every buffer holds nothing.
LEMMA InitKeyboardInv == Init => KeyboardInv
<1> SUFFICES ASSUME Init PROVE KeyboardInv
  OBVIOUS
<1>1. /\ 0 \in Bytes /\ 0 \in Slots
      /\ <<>> \in Seq(Chars) /\ Len(<<>>) = 0
      /\ 0 <= KEYBOARD_BUFFER_SIZE /\ 0 \in 0 .. KEYBOARD_BUFFER_SIZE
  BY KeyboardAssumption DEF Bytes, Slots
<1> DEFINE b == [buffer |-> [i \in Slots |-> 0], head |-> 0, tail |-> 0]
<1>2. TypeOK
  BY <1>1 DEF Init, TypeOK
<1>3. Slot(0, 0) = 0
  <2>1. Slot(0, 0) = IF 0 + 0 < KEYBOARD_BUFFER_SIZE THEN 0 + 0
                     ELSE 0 + 0 - KEYBOARD_BUFFER_SIZE
    BY <1>1, SlotWraps
  <2> QED
    BY <2>1, KeyboardAssumption
<1>4. \A k \in Slots : Slot(0, k) \in Slots /\ ~(k < 0)
  <2>1. \A k \in Slots : k \in 0 .. KEYBOARD_BUFFER_SIZE /\ ~(k < 0)
    BY KeyboardAssumption DEF Slots
  <2> QED
    BY <2>1, <1>1, SlotWraps
<1>5. Holds(b, <<>>)
  BY <1>1, <1>3, <1>4 DEF Holds
<1>6. BufferHoldsUnread
  BY <1>5 DEF Init, BufferHoldsUnread
<1> QED
  BY <1>2, <1>6 DEF KeyboardInv

\* The interrupt handler changes nothing or appends one character to the
\* buffer and to the unread characters of the running process.
LEMMA InterruptStep ==
  ASSUME KeyboardInv, MaxUnread <= KEYBOARD_BUFFER_SIZE,
         NEW scancode \in Bytes, ps2_keyboard_handle_interrupt(scancode)
  PROVE  /\ KeyboardInv'
         /\ \/ UNCHANGED <<unread, current, got>>
            \/ \E c \in Chars : /\ unread' = [unread EXCEPT ![current] = Append(@, c)]
                                /\ UNCHANGED <<current, got>>
<1> USE DEF KeyboardInv
<1> DEFINE c == ps2_keyboard_scancode_to_char(scancode)
           u == unread[current]
           b == kb[current]
<1>1. c \in Bytes
  BY CharType
<1> HIDE DEF c
<1>2. /\ current \in Procs /\ u \in Seq(Chars) /\ b \in Buffers /\ Holds(b, u)
      /\ kb \in [Procs -> Buffers] /\ unread \in [Procs -> Seq(Chars)]
  BY DEF TypeOK, Buffers, BufferHoldsUnread
<1>3. Len(u) < KEYBOARD_BUFFER_SIZE /\ UNCHANGED <<current, got>>
  <2>1. Len(u) < MaxUnread /\ UNCHANGED <<current, got>>
    BY DEF ps2_keyboard_handle_interrupt
  <2>2. Len(u) \in Nat /\ MaxUnread \in Nat /\ KEYBOARD_BUFFER_SIZE \in Nat
    BY <1>2, KeyboardAssumption
  <2> QED
    BY <2>1, <2>2
<1>4. CASE UNCHANGED <<kb, unread>>
  BY <1>3, <1>4 DEF TypeOK, BufferHoldsUnread, Holds
<1>5. CASE c # 0 /\ keyboard_push(c)
  <2>1. c \in Chars
    BY <1>1, <1>5 DEF Chars
  <2>2. kb' = [kb EXCEPT ![current] = Pushed(b, c)]
    BY <1>5 DEF keyboard_push, Pushed
  <2>3. unread' = [unread EXCEPT ![current] = Append(u, c)]
    <3>1. Len(u) # KEYBOARD_BUFFER_SIZE
      BY <1>2, <1>3, KeyboardAssumption
    <3> QED
      BY <3>1, <1>5 DEF keyboard_push
  <2>4. Pushed(b, c) \in Buffers /\ Append(u, c) \in Seq(Chars)
    <3>1. Pushed(b, c) \in Buffers
      BY <1>1, <1>2, PushedFields
    <3>2. Append(u, c) \in Seq(Chars)
      BY <1>2, <2>1
    <3> QED
      BY <3>1, <3>2
  <2>5. Holds(Pushed(b, c), Append(u, c))
    BY <1>2, <1>3, <2>1, PushAppends
  <2>6. TypeOK'
    BY <1>2, <1>3, <2>2, <2>3, <2>4 DEF TypeOK, Buffers
  <2>7. BufferHoldsUnread'
    <3> SUFFICES ASSUME NEW p \in Procs PROVE Holds(kb'[p], unread'[p])
      BY DEF BufferHoldsUnread, Holds
    <3>1. CASE p = current
      BY <3>1, <1>2, <2>2, <2>3, <2>5
    <3>2. CASE p # current
      BY <3>2, <1>2, <2>2, <2>3 DEF BufferHoldsUnread
    <3> QED
      BY <3>1, <3>2
  <2> QED
    BY <1>3, <2>1, <2>3, <2>6, <2>7
<1> QED
  BY <1>4, <1>5 DEF ps2_keyboard_handle_interrupt, c

\* get_key is a step of the queue.
LEMMA GetKeyStep ==
  ASSUME KeyboardInv, get_key_press
  PROVE  KeyboardInv' /\ Queue!GetKey
<1> USE DEF KeyboardInv
<1> DEFINE u == unread[current]
           b == kb[current]
<1>1. /\ current \in Procs /\ u \in Seq(Chars) /\ b \in Buffers /\ Holds(b, u)
      /\ kb \in [Procs -> Buffers] /\ unread \in [Procs -> Seq(Chars)]
  BY DEF TypeOK, Buffers, BufferHoldsUnread
<1>2. /\ b.buffer[b.head] \in Bytes
      /\ b.buffer[b.head] = IF u = <<>> THEN 0 ELSE Head(u)
      /\ b.buffer[b.head] = 0 <=> u = <<>>
  BY <1>1, HeadIsOldest
<1>3. got' = b.buffer[b.head] /\ current' = current
  BY DEF get_key_press
<1>4. CASE u = <<>>
  <2>1. UNCHANGED <<kb, unread>>
    BY <1>2, <1>4 DEF get_key_press
  <2>2. KeyboardInv'
    BY <2>1, <1>2, <1>3 DEF TypeOK, BufferHoldsUnread, Holds
  <2> QED
    BY <2>1, <2>2, <1>2, <1>3, <1>4 DEF Queue!GetKey
<1>5. CASE u # <<>>
  <2>1. kb' = [kb EXCEPT ![current] = Popped(b)]
    BY <1>2, <1>5 DEF get_key_press, Popped
  <2>2. unread' = [unread EXCEPT ![current] = Tail(u)]
    BY <1>2, <1>5 DEF get_key_press
  <2>3. Popped(b) \in Buffers /\ Tail(u) \in Seq(Chars) /\ Holds(Popped(b), Tail(u))
    <3>1. Popped(b) \in Buffers
      BY <1>1, PoppedFields
    <3>2. Tail(u) \in Seq(Chars)
      BY <1>1, <1>5
    <3>3. Holds(Popped(b), Tail(u))
      BY <1>1, <1>5, PopRemovesOldest
    <3> QED
      BY <3>1, <3>2, <3>3
  <2>4. TypeOK'
    BY <1>1, <1>2, <1>3, <2>1, <2>2, <2>3 DEF TypeOK, Buffers
  <2>5. BufferHoldsUnread'
    <3> SUFFICES ASSUME NEW p \in Procs PROVE Holds(kb'[p], unread'[p])
      BY DEF BufferHoldsUnread, Holds
    <3>1. CASE p = current
      BY <3>1, <1>1, <2>1, <2>2, <2>3
    <3>2. CASE p # current
      BY <3>2, <1>1, <2>1, <2>2 DEF BufferHoldsUnread
    <3> QED
      BY <3>1, <3>2
  <2> QED
    BY <2>2, <2>4, <2>5, <1>2, <1>3, <1>5 DEF Queue!GetKey
<1> QED
  BY <1>4, <1>5

\* Every step preserves the invariant and is a step of the queue.
LEMMA NextKeyboardStep ==
  ASSUME MaxUnread <= KEYBOARD_BUFFER_SIZE, KeyboardInv, [Next]_vars
  PROVE  KeyboardInv' /\ [Queue!Next]_(Queue!vars)
<1>1. ASSUME NEW scancode \in Bytes, ps2_keyboard_handle_interrupt(scancode)
      PROVE  KeyboardInv' /\ [Queue!Next]_(Queue!vars)
  BY <1>1, InterruptStep DEF Queue!Next, Queue!Type, Queue!vars
<1>2. CASE get_key_press
  BY <1>2, GetKeyStep DEF Queue!Next
<1>3. ASSUME NEW p \in Procs, Switch(p)
      PROVE  KeyboardInv' /\ [Queue!Next]_(Queue!vars)
  <2>1. KeyboardInv'
    BY <1>3 DEF Switch, KeyboardInv, TypeOK, BufferHoldsUnread, Holds
  <2> QED
    BY <2>1, <1>3 DEF Switch, Queue!Next, Queue!Run
<1>4. CASE UNCHANGED vars
  BY <1>4 DEF vars, KeyboardInv, TypeOK, BufferHoldsUnread, Holds, Queue!vars
<1> QED
  BY <1>1, <1>2, <1>3, <1>4 DEF Next

\* The circular buffers hold exactly the unread characters in typing order.
THEOREM KeyboardInvariant ==
  ASSUME MaxUnread <= KEYBOARD_BUFFER_SIZE
  PROVE  Spec => [](TypeOK /\ BufferHoldsUnread)
<1>1. KeyboardInv /\ [Next]_vars => KeyboardInv'
  BY NextKeyboardStep
<1>2. KeyboardInv => TypeOK /\ BufferHoldsUnread
  BY DEF KeyboardInv
<1> QED
  BY <1>1, <1>2, InitKeyboardInv, PTL DEF Spec

\* keyboard.c implements one first-in first-out queue per process.
THEOREM KeyboardImplementsQueue ==
  ASSUME MaxUnread <= KEYBOARD_BUFFER_SIZE
  PROVE  Spec => KeyQueueSpec
<1>1. Init => Queue!Init
  BY DEF Init, Queue!Init
<1>2. KeyboardInv /\ [Next]_vars => KeyboardInv' /\ [Queue!Next]_(Queue!vars)
  BY NextKeyboardStep
<1> QED
  BY <1>1, <1>2, InitKeyboardInv, PTL DEF Spec, KeyQueueSpec, Queue!Spec
=============================================================================
