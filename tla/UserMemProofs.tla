--------------------------- MODULE UserMemProofs ---------------------------
(***************************************************************************)
(* Proofs about module UserMem, for every heap, every number of processes  *)
(* and allocation slots and all sizes, malloc(0) and calls of terminated   *)
(* processes included.                                                     *)
(***************************************************************************)
EXTENDS UserMem, HeapOpsProofs

Slot(p, i) == mem_allocs[p][i]

\* live says what the heap has given out: the table describes it, each entry
\* belongs to the kernel or to one slot that holds memory, and the pages of
\* such a slot are the blocks of its allocation.
Accounts(live) ==
  /\ Encodes(table, live)
  /\ \A b \in Blocks : kernel[b] > 0 => live[b] = kernel[b]
  /\ \A p \in Procs, i \in AllocSlots : Holds(p, i) =>
       /\ live[Slot(p, i).ptr] > 0 /\ kernel[Slot(p, i).ptr] = 0
       /\ Pages(Slot(p, i).ptr, Slot(p, i).size) =
            Slot(p, i).ptr .. Slot(p, i).ptr + live[Slot(p, i).ptr] - 1
  /\ \A p, q \in Procs, i, j \in AllocSlots :
       Holds(p, i) /\ Holds(q, j) /\ Slot(p, i).ptr = Slot(q, j).ptr => p = q /\ i = j
  /\ \A b \in Blocks : live[b] > 0 =>
       kernel[b] > 0 \/ \E p \in Procs, i \in AllocSlots : Holds(p, i) /\ Slot(p, i).ptr = b

\* A slot without a pointer is empty, and a stale one is of a terminated process.
SlotsInv ==
  \A p \in Procs, i \in AllocSlots :
    /\ Slot(p, i).ptr = Null => Slot(p, i) = NoAlloc /\ <<p, i>> \notin stale
    /\ <<p, i>> \in stale => p \notin alive

\* What a process may write is what its slots hold, and the memory that slots
\* hold is accounted for.
Owned ==
  /\ \A p \in alive : writable[p] = UNION {SlotPages(p, i) : i \in AllocSlots}
  /\ \E live \in [Blocks -> Nat] : Accounts(live)

\* The inductive invariant.
Inv ==
  /\ TypeOK
  /\ BootSignature \notin high
  /\ SlotsInv
  /\ stray = {} => Owned

-----------------------------------------------------------------------------
(* Bytes, blocks and pages.                                                *)

\* Quotient and remainder of a multiple of the block size plus a rest.
LEMMA DivMod ==
  ASSUME NEW a \in Int, NEW r \in Int, 0 <= r, r < BlockSize
  PROVE  (a * BlockSize + r) \div BlockSize = a /\ (a * BlockSize + r) % BlockSize = r
BY HeapAssumption

\* Every number is one.
LEMMA DivModParts ==
  ASSUME NEW a \in Nat
  PROVE  /\ a \div BlockSize \in Nat /\ a % BlockSize \in Int
         /\ a = (a \div BlockSize) * BlockSize + (a % BlockSize)
         /\ 0 <= a % BlockSize /\ a % BlockSize < BlockSize
BY HeapAssumption

\* What malloc maps is what the heap gives: as many pages as blocks, from the
\* same start, although the two are computed by different roundings.
LEMMA PagesAreBlocks ==
  ASSUME NEW ptr \in Int, NEW size \in Nat \ {0}, size + BlockSize <= WordSize
  PROVE  /\ TotalBlocks(size) \in Nat \ {0}
         /\ Pages(ptr, size) = ptr .. ptr + TotalBlocks(size) - 1
<1> DEFINE q == size \div BlockSize
           r == size % BlockSize
           B == BlockSize
<1>1. /\ q \in Nat /\ r \in Int /\ size = q * B + r /\ 0 <= r /\ r < B
  BY DivModParts
<1>2. B \in Nat \ {0} /\ WordSize \in Nat \ {0}
  BY HeapAssumption
<1>3. ptr * B + size = (ptr + q) * B + r /\ ptr + q \in Int
  BY <1>1, <1>2
<1>4. (ptr * B + size) \div B = ptr + q /\ (ptr * B + size) % B = r
  BY <1>1, <1>3, DivMod
<1>5. CASE r = 0
  <2>1. q > 0
    BY <1>1, <1>2, <1>5
  <2>2. TotalBlocks(size) = q
    BY <1>5 DEF TotalBlocks, align_upper_block_boundary
  <2>3. paging_align_address(ptr * B + size) = ptr * B + size
    BY <1>4, <1>5 DEF paging_align_address
  <2>4. QED
    BY <1>1, <1>4, <2>1, <2>2, <2>3 DEF Pages
<1>6. CASE r # 0
  <2>1. size - r + B \in Nat /\ size - r + B < WordSize /\ size - r + B = (q + 1) * B + 0
    BY <1>1, <1>2, <1>6
  <2>2. align_upper_block_boundary(size) = (q + 1) * B + 0
    <3>1. (size - r + B) % WordSize = size - r + B
      BY <1>2, <2>1
    <3>2. QED
      BY <1>6, <2>1, <3>1 DEF align_upper_block_boundary
  <2>3. TotalBlocks(size) = q + 1
    BY <1>1, <1>2, <2>2, DivMod DEF TotalBlocks
  <2>4. paging_align_address(ptr * B + size) = (ptr + q + 1) * B + 0
    BY <1>1, <1>2, <1>3, <1>4, <1>6 DEF paging_align_address
  <2>5. paging_align_address(ptr * B + size) \div B = ptr + q + 1
    BY <1>1, <1>2, <2>4, DivMod
  <2>6. QED
    BY <1>1, <2>3, <2>5 DEF Pages
<1>7. QED
  BY <1>5, <1>6

\* An allocation of 0 bytes has no pages; nor has 0.
LEMMA NoBytesNoPages ==
  ASSUME NEW ptr \in Int
  PROVE  Pages(ptr, 0) = {}
<1>1. BlockSize \in Nat \ {0}
  BY HeapAssumption
<1>2. (ptr * BlockSize + 0) \div BlockSize = ptr /\ (ptr * BlockSize + 0) % BlockSize = 0
  BY <1>1, DivMod
<1>3. Pages(ptr, 0) = ptr .. ptr - 1
  BY <1>2 DEF Pages, paging_align_address
<1>4. QED
  BY <1>3

\* malloc(0) asks for no blocks.
LEMMA NoBytesNoBlocks == TotalBlocks(0) = 0
<1>1. BlockSize \in Nat \ {0}
  BY HeapAssumption
<1>2. (0 * BlockSize + 0) \div BlockSize = 0 /\ (0 * BlockSize + 0) % BlockSize = 0
  BY <1>1, DivMod
<1>3. QED
  BY <1>1, <1>2 DEF TotalBlocks, align_upper_block_boundary

-----------------------------------------------------------------------------
(* Type correctness needs no assumption on the sizes.                      *)

\* 0 points before the table.
LEMMA NullOutside == Null \in Int /\ Null \notin Blocks
BY HeapAssumption DEF Null, Blocks

\* The first state is well typed.
LEMMA InitType == Init => TypeOK
BY DEF Init, TypeOK, NoAlloc, Entry, Flags, FREE

\* So is the table after the loops that mark blocks.
LEMMA MarkedType ==
  ASSUME NEW t \in [Blocks -> Entry], NEW h, NEW b, NEW n
  PROVE  /\ heap_mark_blocks_taken(t, b, n) \in [Blocks -> Entry]
         /\ heap_mark_blocks_free(t, h, b) \in [Blocks -> Entry]
<1>1. \A i : TakenEntry(b, n, i) \in Entry
  BY TakenEntryType
<1>2. FREE \in Entry
  BY DEF FREE, Entry
<1>3. QED
  BY <1>1, <1>2 DEF heap_mark_blocks_taken, heap_mark_blocks_free

\* The pages of an allocation are numbers of pages.
LEMMA PagesType ==
  ASSUME NEW b \in Blocks, NEW size
  PROVE  Pages(b, size) \subseteq Nat
BY DEF Pages, Blocks

\* Every step keeps the types.
LEMMA NextType == TypeOK /\ [Next]_vars => TypeOK'
<1> SUFFICES ASSUME TypeOK, [Next]_vars PROVE TypeOK'
  OBVIOUS
<1>0. /\ UserSizes \subseteq Nat /\ KernelSizes \subseteq Nat
      /\ \A t \in [Blocks -> Entry] : \A b, n : heap_mark_blocks_taken(t, b, n) \in [Blocks -> Entry]
      /\ \A t \in [Blocks -> Entry] : \A b : heap_mark_blocks_free(t, high, b) \in [Blocks -> Entry]
  BY MarkedType, UserMemAssumption
<1>1. ASSUME NEW p \in Procs, NEW size \in UserSizes, process_malloc(p, size)
      PROVE  TypeOK'
  <2>1. PICK b \in Blocks, i \in AllocSlots :
          /\ table' = heap_mark_blocks_taken(table, b, TotalBlocks(size))
          /\ writable' = [writable EXCEPT ![p] = @ \cup Pages(b, size)]
          /\ mem_allocs' = [mem_allocs EXCEPT ![p][i] = [ptr |-> b, size |-> size]]
          /\ UNCHANGED <<high, alive, kernel, stale, stray>>
    BY <1>1 DEF process_malloc
  <2>2. [ptr |-> b, size |-> size] \in [ptr : Blocks \cup {Null}, size : Nat]
    BY <1>0
  <2>3. mem_allocs' \in [Procs -> [AllocSlots -> [ptr : Blocks \cup {Null}, size : Nat]]]
    BY <2>1, <2>2 DEF TypeOK
  <2>4. writable' \in [Procs -> SUBSET Nat]
    BY <2>1, PagesType DEF TypeOK
  <2>5. QED
    BY <1>0, <2>1, <2>3, <2>4 DEF TypeOK
<1>2. ASSUME NEW p \in Procs, NEW size \in UserSizes, process_malloc_fails(p, size)
      PROVE  TypeOK'
  <2>1. PICK t, b : t \in [Blocks -> Entry] /\ heap_free(t, b)
    BY <1>0, <1>2 DEF process_malloc_fails, TypeOK
  <2>2. UNCHANGED <<mem_allocs, writable, alive, kernel, stale, stray>>
    BY <1>2 DEF process_malloc_fails
  <2>3. QED
    BY <1>0, <2>1, <2>2 DEF heap_free, TypeOK
<1>3. ASSUME NEW p \in Procs, NEW ptr \in Blocks \cup {Null}, process_free_syscall(p, ptr)
      PROVE  TypeOK'
  <2>1. PICK i \in AllocSlots :
          /\ writable' = [writable EXCEPT ![p] = @ \ Pages(ptr, mem_allocs[p][i].size)]
          /\ FreesSlot(p, i)
    BY <1>3 DEF process_free_syscall
  <2>2. /\ heap_free(table, mem_allocs[p][i].ptr)
        /\ mem_allocs' = [mem_allocs EXCEPT ![p][i] = NoAlloc]
        /\ UNCHANGED <<alive, kernel>>
    BY <2>1 DEF FreesSlot
  <2>3. stale' \subseteq Procs \X AllocSlots /\ stray' \subseteq Procs \X AllocSlots
    BY <2>1 DEF FreesSlot, TypeOK
  <2>4. mem_allocs' \in [Procs -> [AllocSlots -> [ptr : Blocks \cup {Null}, size : Nat]]]
    BY <2>2 DEF TypeOK, NoAlloc
  <2>5. writable' \in [Procs -> SUBSET Nat]
    BY <2>1 DEF TypeOK
  <2>6. QED
    BY <1>0, <2>2, <2>3, <2>4, <2>5 DEF TypeOK, heap_free
<1>4. ASSUME NEW p \in Procs, process_terminate(p)
      PROVE  TypeOK'
  BY <1>4 DEF process_terminate, TypeOK, FREE, Entry
<1>5. ASSUME NEW size \in KernelSizes, kmalloc(size)
      PROVE  TypeOK'
  <2>1. TotalBlocks(size) \in Nat
    BY <1>0, TotalBlocksType
  <2>2. QED
    BY <1>0, <1>5, <2>1 DEF kmalloc, TypeOK
<1>6. ASSUME NEW b \in Blocks, kfree(b)
      PROVE  TypeOK'
  BY <1>0, <1>6 DEF kfree, heap_free, TypeOK
<1>7. CASE UNCHANGED vars
  BY <1>7 DEF vars, TypeOK
<1>8. QED
  BY <1>1, <1>2, <1>3, <1>4, <1>5, <1>6, <1>7 DEF Next, process_free_ignored

\* Type correctness of the user memory, for all sizes.
THEOREM UserMemTypeCorrect == Spec => []TypeOK
BY InitType, NextType, PTL DEF Spec

-----------------------------------------------------------------------------
(* The invariant.                                                          *)

\* The first state satisfies the invariant.
LEMMA InitInv == Init => Inv
<1> SUFFICES ASSUME Init PROVE Inv
  OBVIOUS
<1>1. TypeOK
  BY InitType
<1>2. \A p \in Procs, i \in AllocSlots : Slot(p, i) = NoAlloc /\ Slot(p, i).ptr = Null
  BY DEF Init, Slot, NoAlloc
<1>3. \A p \in alive : writable[p] = UNION {SlotPages(p, i) : i \in AllocSlots}
  BY <1>2 DEF Init, SlotPages, Slot
<1>4. Accounts([b \in Blocks |-> 0])
  <2>1. Encodes(table, [b \in Blocks |-> 0])
    BY EmptyTableEncodes DEF Init
  <2>2. \A p \in Procs, i \in AllocSlots : ~Holds(p, i)
    BY <1>2 DEF Holds, Slot
  <2>3. QED
    BY <2>1, <2>2 DEF Accounts, Init
<1>5. [b \in Blocks |-> 0] \in [Blocks -> Nat]
  OBVIOUS
<1>6. SlotsInv
  BY <1>2 DEF SlotsInv, Init
<1>7. QED
  BY <1>1, <1>3, <1>4, <1>5, <1>6 DEF Inv, Owned, Init

\* What every step does to the slots and the records: a slot that is cleared or
\* filled is not stale, and nothing below the table gets a new bit.
LEMMA NextSlots ==
  ASSUME TypeOK, SlotsInv, [Next]_vars
  PROVE  SlotsInv' /\ high' \subseteq high /\ stray \subseteq stray'
<1>1. ASSUME UNCHANGED <<mem_allocs, alive, stale, stray>>, high' \subseteq high
      PROVE  SlotsInv' /\ high' \subseteq high /\ stray \subseteq stray'
  BY <1>1 DEF SlotsInv, Slot
<1>2. ASSUME NEW p \in Procs, NEW size \in UserSizes, process_malloc(p, size)
      PROVE  SlotsInv' /\ high' \subseteq high /\ stray \subseteq stray'
  <2>1. PICK b \in Blocks, i \in AllocSlots :
          /\ mem_allocs[p][i].ptr = Null
          /\ mem_allocs' = [mem_allocs EXCEPT ![p][i] = [ptr |-> b, size |-> size]]
          /\ UNCHANGED <<high, alive, kernel, stale, stray>>
    BY <1>2 DEF process_malloc, get_process_allocation
  <2>2. \A q \in Procs, j \in AllocSlots :
          Slot(q, j)' = IF q = p /\ j = i THEN [ptr |-> b, size |-> size] ELSE Slot(q, j)
    BY <2>1 DEF TypeOK, Slot
  <2>3. b # Null /\ [ptr |-> b, size |-> size].ptr = b
    BY NullOutside
  <2>4. SlotsInv'
    <3> SUFFICES ASSUME NEW q \in Procs, NEW j \in AllocSlots
                 PROVE  /\ Slot(q, j)'.ptr = Null => Slot(q, j)' = NoAlloc /\ <<q, j>> \notin stale'
                        /\ <<q, j>> \in stale' => q \notin alive'
      BY DEF SlotsInv
    <3>1. /\ Slot(q, j).ptr = Null => Slot(q, j) = NoAlloc /\ <<q, j>> \notin stale
          /\ <<q, j>> \in stale => q \notin alive
      BY DEF SlotsInv
    <3>2. QED
      BY <2>1, <2>2, <2>3, <3>1
  <2>5. QED
    BY <2>1, <2>4
<1>3. ASSUME NEW p \in Procs, NEW ptr \in Blocks \cup {Null}, process_free_syscall(p, ptr)
      PROVE  SlotsInv' /\ high' \subseteq high /\ stray \subseteq stray'
  <2>1. PICK i \in AllocSlots : FreesSlot(p, i)
    BY <1>3 DEF process_free_syscall
  <2>2. /\ mem_allocs' = [mem_allocs EXCEPT ![p][i] = NoAlloc]
        /\ stale' = stale \ {<<p, i>>} /\ alive' = alive
        /\ high' \subseteq high /\ stray \subseteq stray'
    BY <2>1 DEF FreesSlot, heap_free
  <2>3. \A q \in Procs, j \in AllocSlots :
          Slot(q, j)' = IF q = p /\ j = i THEN NoAlloc ELSE Slot(q, j)
    BY <2>2 DEF TypeOK, Slot
  <2>4. SlotsInv'
    <3> SUFFICES ASSUME NEW q \in Procs, NEW j \in AllocSlots
                 PROVE  /\ Slot(q, j)'.ptr = Null => Slot(q, j)' = NoAlloc /\ <<q, j>> \notin stale'
                        /\ <<q, j>> \in stale' => q \notin alive'
      BY DEF SlotsInv
    <3>1. /\ Slot(q, j).ptr = Null => Slot(q, j) = NoAlloc /\ <<q, j>> \notin stale
          /\ <<q, j>> \in stale => q \notin alive
      BY DEF SlotsInv
    <3>2. QED
      BY <2>2, <2>3, <3>1
  <2>5. QED
    BY <2>2, <2>4
<1>4. ASSUME NEW p \in Procs, process_terminate(p)
      PROVE  SlotsInv' /\ high' \subseteq high /\ stray \subseteq stray'
  <2>1. /\ alive' = alive \ {p} /\ mem_allocs' = mem_allocs /\ high' = high
        /\ stale' = stale \cup {<<p, i>> : i \in {j \in AllocSlots : mem_allocs[p][j].ptr # Null}}
        /\ stray \subseteq stray'
    BY <1>4 DEF process_terminate
  <2>2. \A q \in Procs, j \in AllocSlots :
          <<q, j>> \in stale' <=> <<q, j>> \in stale \/ (q = p /\ Slot(q, j).ptr # Null)
    BY <2>1 DEF Slot
  <2>3. \A q \in Procs, j \in AllocSlots : Slot(q, j)' = Slot(q, j)
    BY <2>1 DEF Slot
  <2>4. SlotsInv'
    <3> SUFFICES ASSUME NEW q \in Procs, NEW j \in AllocSlots
                 PROVE  /\ Slot(q, j)'.ptr = Null => Slot(q, j)' = NoAlloc /\ <<q, j>> \notin stale'
                        /\ <<q, j>> \in stale' => q \notin alive'
      BY DEF SlotsInv
    <3>1. /\ Slot(q, j).ptr = Null => Slot(q, j) = NoAlloc /\ <<q, j>> \notin stale
          /\ <<q, j>> \in stale => q \notin alive
      BY DEF SlotsInv
    <3>2. QED
      BY <2>1, <2>2, <2>3, <3>1
  <2>5. QED
    BY <2>1, <2>4
<1>5. QED
  BY <1>1, <1>2, <1>3, <1>4
     DEF Next, process_malloc_fails, process_free_ignored, kmalloc, kfree, heap_free, vars

\* A step that changes neither slots nor page tables.
LEMMA SamePages ==
  ASSUME Owned, alive' \subseteq alive, UNCHANGED <<mem_allocs, writable>>
  PROVE  \A p \in alive' : writable'[p] = UNION {SlotPages(p, i)' : i \in AllocSlots}
<1>1. \A p, i : SlotPages(p, i)' = SlotPages(p, i)
  BY DEF SlotPages
<1>2. QED
  BY <1>1 DEF Owned

\* A step that changes neither what the heap has given out nor who holds it.
LEMMA SameHolders ==
  ASSUME Owned, NEW live \in [Blocks -> Nat], Accounts(live), Encodes(table', live),
         UNCHANGED <<mem_allocs, writable, alive, kernel, stale>>
  PROVE  Owned'
<1>1. \A p, i : (Holds(p, i)' <=> Holds(p, i)) /\ Slot(p, i)' = Slot(p, i)
  BY DEF Holds, Slot
<1>2. Accounts(live)'
  BY <1>1 DEF Accounts
<1>3. QED
  BY <1>2, SamePages DEF Owned

\* A slot of a process that was not terminated has no pages if it holds nothing.
LEMMA EmptyHasNoPages ==
  ASSUME TypeOK, SlotsInv, NEW p \in alive, NEW i \in AllocSlots, ~Holds(p, i)
  PROVE  SlotPages(p, i) = {}
<1>1. p \in Procs /\ Slot(p, i).ptr \in Blocks \cup {Null} /\ Slot(p, i).size \in Nat
  BY DEF TypeOK, Slot
<1>2. <<p, i>> \notin stale
  BY <1>1 DEF SlotsInv
<1>3. Slot(p, i).ptr = Null \/ Slot(p, i).size = 0
  BY <1>1, <1>2 DEF Holds, Slot
<1>4. Slot(p, i).ptr \in Int
  BY <1>1, NullOutside DEF Blocks
<1>5. QED
  BY <1>3, <1>4, NoBytesNoPages DEF SlotPages, Slot

\* malloc, of no bytes too: then no block is taken and the slot holds nothing.
LEMMA MallocOwned ==
  ASSUME Inv, stray = {}, NEW p \in Procs, NEW size \in UserSizes, process_malloc(p, size)
  PROVE  Owned'
<1> DEFINE n == TotalBlocks(size)
<1>1. PICK b \in Blocks, i \in AllocSlots :
        /\ heap_get_start_block_index(table, n, b)
        /\ Slot(p, i).ptr = Null
        /\ table' = heap_mark_blocks_taken(table, b, n)
        /\ writable' = [writable EXCEPT ![p] = @ \cup Pages(b, size)]
        /\ mem_allocs' = [mem_allocs EXCEPT ![p][i] = [ptr |-> b, size |-> size]]
        /\ UNCHANGED <<high, alive, kernel, stale, stray>>
  BY DEF process_malloc, get_process_allocation, Slot
<1>2. /\ n \in Nat /\ size \in Nat /\ (n > 0 <=> size > 0)
      /\ Pages(b, size) = b .. b + n - 1
  <2>1. size \in Nat /\ size + BlockSize <= WordSize /\ b \in Int
    BY UserMemAssumption DEF Blocks
  <2>2. CASE size = 0
    <3>1. n = 0 /\ Pages(b, size) = {}
      BY <2>1, <2>2, NoBytesNoPages, NoBytesNoBlocks
    <3> HIDE DEF n
    <3>2. b .. b + 0 - 1 = {}
      BY <2>1
    <3>3. QED
      BY <2>1, <2>2, <3>1, <3>2
  <2>3. CASE size # 0
    BY <2>1, <2>3, PagesAreBlocks
  <2>4. QED
    BY <2>2, <2>3
<1> HIDE DEF n
<1>3. TypeOK /\ SlotsInv /\ Owned /\ b # Null
  BY NullOutside DEF Inv
<1>4. PICK live \in [Blocks -> Nat] : Accounts(live)
  BY <1>3 DEF Owned
<1> DEFINE after == [live EXCEPT ![b] = n]
<1>5. live[b] = 0 /\ Encodes(table', after)
  <2>1. Encodes(table, live)
    BY <1>4 DEF Accounts
  <2>2. /\ live[b] = 0
        /\ n > 0 => Encodes(heap_mark_blocks_taken(table, b, n), after)
        /\ n = 0 => Encodes(heap_mark_blocks_taken(table, b, n), live)
    BY <1>1, <1>2, <2>1, TakenEncodes
  <2>3. n = 0 => after = live
    BY <2>2
  <2> HIDE DEF after
  <2>4. QED
    BY <1>1, <1>2, <2>2, <2>3
<1>6. kernel[b] = 0
  BY <1>3, <1>4, <1>5 DEF Accounts, TypeOK
<1>7. \A q \in Procs, j \in AllocSlots :
        Slot(q, j)' = IF q = p /\ j = i THEN [ptr |-> b, size |-> size] ELSE Slot(q, j)
  BY <1>1, <1>3 DEF TypeOK, Slot
<1>8. /\ \A q \in Procs, j \in AllocSlots :
           Holds(q, j)' <=> IF q = p /\ j = i THEN n > 0 ELSE Holds(q, j)
      /\ ~Holds(p, i)
  <2>1. <<p, i>> \notin stale /\ [ptr |-> b, size |-> size].ptr = b /\ [ptr |-> b, size |-> size].size = size
    BY <1>1, <1>3 DEF SlotsInv
  <2>2. \A q, j : Holds(q, j)' <=> Slot(q, j)'.ptr # Null /\ Slot(q, j)'.size > 0 /\ <<q, j>> \notin stale
    BY <1>1 DEF Holds, Slot
  <2>3. \A q, j : Holds(q, j) <=> Slot(q, j).ptr # Null /\ Slot(q, j).size > 0 /\ <<q, j>> \notin stale
    BY DEF Holds, Slot
  <2>4. QED
    BY <1>1, <1>2, <1>3, <1>7, <2>1, <2>2, <2>3
<1>9. \A q \in Procs, j \in AllocSlots : Holds(q, j) => Slot(q, j).ptr \in Blocks \ {b}
  <2>1. \A q \in Procs, j \in AllocSlots : Holds(q, j) => Slot(q, j).ptr \in Blocks
    BY <1>3 DEF TypeOK, Slot, Holds
  <2>2. QED
    BY <1>4, <1>5, <2>1 DEF Accounts
<1>10. /\ after[b] = n /\ after \in [Blocks -> Nat]
       /\ \A c \in Blocks : c # b => after[c] = live[c]
  BY <1>2
<1> HIDE DEF after
<1>11. Accounts(after)'
  <2>1. \A c \in Blocks : kernel[c] > 0 => after[c] = kernel[c]
    BY <1>4, <1>6, <1>10 DEF Accounts
  <2>2. ASSUME NEW q \in Procs, NEW j \in AllocSlots, Holds(q, j)'
        PROVE  /\ after[Slot(q, j)'.ptr] > 0 /\ kernel[Slot(q, j)'.ptr] = 0
               /\ Pages(Slot(q, j)'.ptr, Slot(q, j)'.size) =
                    Slot(q, j)'.ptr .. Slot(q, j)'.ptr + after[Slot(q, j)'.ptr] - 1
    <3>1. CASE q = p /\ j = i
      BY <1>2, <1>6, <1>7, <1>8, <1>10, <2>2, <3>1
    <3>2. CASE ~(q = p /\ j = i)
      <4>1. Slot(q, j)' = Slot(q, j) /\ Holds(q, j) /\ Slot(q, j).ptr \in Blocks \ {b}
        BY <1>7, <1>8, <1>9, <2>2, <3>2
      <4>2. QED
        BY <1>4, <1>10, <4>1 DEF Accounts
    <3>3. QED
      BY <3>1, <3>2
  <2>3. ASSUME NEW q \in Procs, NEW s \in Procs, NEW j \in AllocSlots, NEW k \in AllocSlots,
               Holds(q, j)', Holds(s, k)', Slot(q, j)'.ptr = Slot(s, k)'.ptr
        PROVE  q = s /\ j = k
    BY <1>4, <1>7, <1>8, <1>9, <2>3 DEF Accounts
  <2>4. ASSUME NEW c \in Blocks, after[c] > 0
        PROVE  kernel[c] > 0 \/ \E q \in Procs, j \in AllocSlots : Holds(q, j)' /\ Slot(q, j)'.ptr = c
    <3>1. CASE c = b
      BY <1>7, <1>8, <1>10, <2>4, <3>1
    <3>2. CASE c # b
      <4>1. kernel[c] > 0 \/ \E q \in Procs, j \in AllocSlots : Holds(q, j) /\ Slot(q, j).ptr = c
        BY <1>4, <1>10, <2>4, <3>2 DEF Accounts
      <4>2. QED
        BY <1>7, <1>8, <4>1
    <3>3. QED
      BY <3>1, <3>2
  <2>5. QED
    BY <1>1, <1>5, <2>1, <2>2, <2>3, <2>4 DEF Accounts
<1>12. ASSUME NEW q \in alive
       PROVE  writable'[q] = UNION {SlotPages(q, j)' : j \in AllocSlots}
  <2>1. writable[q] = UNION {SlotPages(q, j) : j \in AllocSlots} /\ q \in Procs
    BY <1>3 DEF Owned, TypeOK
  <2>2. \A j \in AllocSlots : SlotPages(q, j)' =
          IF q = p /\ j = i THEN Pages(b, size) ELSE SlotPages(q, j)
    BY <1>3, <1>7, <2>1 DEF SlotPages, Slot
  <2>3. q = p => SlotPages(q, i) = {}
    BY <1>1 DEF SlotPages, Slot
  <2>4. writable'[q] = IF q = p THEN writable[q] \cup Pages(b, size) ELSE writable[q]
    BY <1>1, <1>3, <2>1 DEF TypeOK
  <2>5. QED
    BY <2>1, <2>2, <2>3, <2>4
<1>13. QED
  BY <1>1, <1>10, <1>11, <1>12 DEF Owned

\* heap_free of a pointer to a free block changes nothing.
LEMMA FreeOfFreeBlock ==
  ASSUME NEW t, NEW h, NEW live, Encodes(t, live), NEW b \in Blocks, IsFree(t[b]),
         NEW i \in FreedFrom(t, h, b)
  PROVE  i = b /\ t[i] = FREE
<1>1. \A c \in Blocks : ~Covered(live, c, b)
  BY FreeBlockUncovered
<1>2. t[b] = FREE /\ b >= 0 /\ b \in Int
  BY <1>1 DEF Encodes, Blocks
<1>3. ~HasNext(t, h, b)
  BY <1>2 DEF HasNext, FREE
<1>4. i \in Int /\ b <= i /\ \A j \in b .. i - 1 : HasNext(t, h, j)
  BY <1>2, HeapAssumption DEF FreedFrom
<1>5. i = b
  BY <1>2, <1>3, <1>4
<1>6. QED
  BY <1>2, <1>5

\* malloc that fails: without memory heap_free(NULL) changes nothing, without
\* a slot the blocks that were taken, if any, are the ones that are freed.
LEMMA MallocFailsOwned ==
  ASSUME Inv, stray = {}, NEW p \in Procs, NEW size \in UserSizes, process_malloc_fails(p, size)
  PROVE  Owned'
<1> DEFINE n == TotalBlocks(size)
<1>1. TypeOK /\ BootSignature \notin high /\ Owned
  BY DEF Inv
<1>2. PICK live \in [Blocks -> Nat] : Accounts(live)
  BY <1>1 DEF Owned
<1>3. UNCHANGED <<mem_allocs, writable, alive, kernel, stale>>
  BY DEF process_malloc_fails
<1>4. Encodes(table, live)
  BY <1>2 DEF Accounts
<1>5. n \in Nat
  BY UserMemAssumption, TotalBlocksType
<1> HIDE DEF n
<1>6. CASE heap_free(table, Null)
  <2>1. table' = table
    BY <1>1, <1>6, NullFreeStopsBelowTable DEF heap_free, heap_mark_blocks_free, TypeOK, Null
  <2>2. QED
    BY <1>1, <1>2, <1>3, <1>4, <2>1, SameHolders
<1>7. ASSUME NEW b \in Blocks, heap_get_start_block_index(table, n, b),
             heap_free(heap_mark_blocks_taken(table, b, n), b)
      PROVE  Owned'
  <2> DEFINE u == heap_mark_blocks_taken(table, b, n)
             taken == [live EXCEPT ![b] = n]
  <2>1. /\ live[b] = 0
        /\ n > 0 => Encodes(u, taken)
        /\ n = 0 => Encodes(u, live)
    BY <1>4, <1>5, <1>7, TakenEncodes
  <2>2. table' = heap_mark_blocks_free(u, high, b)
    BY <1>7 DEF heap_free
  <2>3. n = 0 => IsFree(u[b])
    BY <1>4, <1>5, <1>7, ScanFindsFreeBlocks DEF heap_mark_blocks_taken, Blocks
  <2> HIDE DEF u
  <2>4. CASE n > 0
    <3>1. taken \in [Blocks -> Nat] /\ {b} \in SUBSET Blocks /\ \A s \in {b} : taken[s] > 0
      BY <1>5, <2>4
    <3>2. Without(taken, {b}) = live
      BY <2>1 DEF Without
    <3> HIDE DEF taken
    <3>3. Encodes(FreedAll(u, high, {b}), Without(taken, {b}))
      BY <2>1, <2>4, <3>1, FreedEncodes
    <3>4. table' = FreedAll(u, high, {b})
      BY <2>2 DEF FreedAll, heap_mark_blocks_free
    <3>5. QED
      BY <1>1, <1>2, <1>3, <3>2, <3>3, <3>4, SameHolders
  <2>5. CASE n = 0
    <3>1. \A i \in FreedFrom(u, high, b) : u[i] = FREE
      BY <2>1, <2>3, <2>5, FreeOfFreeBlock
    <3>2. \A i \in Blocks : table'[i] = u[i]
      BY <2>2, <3>1 DEF heap_mark_blocks_free
    <3>3. Encodes(table', live)
      BY <2>1, <2>5, <3>2 DEF Encodes
    <3>4. QED
      BY <1>1, <1>2, <1>3, <3>3, SameHolders
  <2>6. QED
    BY <1>5, <2>4, <2>5
<1>8. QED
  BY <1>6, <1>7 DEF process_malloc_fails, n

\* A step that frees the allocations at the blocks of S, of slots that hold
\* nothing after it or of the kernel.
LEMMA FreesOwned ==
  ASSUME TypeOK, NEW live \in [Blocks -> Nat], Accounts(live),
         NEW S \in SUBSET Blocks, \A s \in S : live[s] > 0,
         table' = FreedAll(table, high, S),
         \A b \in Blocks : kernel'[b] = IF b \in S THEN 0 ELSE kernel[b],
         \A p \in Procs, i \in AllocSlots :
           /\ Holds(p, i)' <=> Holds(p, i) /\ Slot(p, i).ptr \notin S
           /\ Holds(p, i)' => Slot(p, i)' = Slot(p, i)
  PROVE  \E after \in [Blocks -> Nat] : Accounts(after)'
<1> DEFINE after == Without(live, S)
<1>1. Encodes(table', after)
  BY FreedEncodes DEF Accounts
<1>2. after \in [Blocks -> Nat] /\ \A b \in Blocks : after[b] = IF b \in S THEN 0 ELSE live[b]
  BY DEF Without
<1> HIDE DEF after
<1>3. \A b \in Blocks : kernel'[b] > 0 => after[b] = kernel'[b]
  BY <1>2 DEF Accounts
<1>4. ASSUME NEW p \in Procs, NEW i \in AllocSlots, Holds(p, i)'
      PROVE  Slot(p, i)' = Slot(p, i) /\ Holds(p, i) /\ Slot(p, i).ptr \in Blocks \ S
  BY <1>4 DEF Holds, Slot, TypeOK
<1>5. ASSUME NEW p \in Procs, NEW i \in AllocSlots, Holds(p, i)'
      PROVE  /\ after[Slot(p, i)'.ptr] > 0 /\ kernel'[Slot(p, i)'.ptr] = 0
             /\ Pages(Slot(p, i)'.ptr, Slot(p, i)'.size) =
                  Slot(p, i)'.ptr .. Slot(p, i)'.ptr + after[Slot(p, i)'.ptr] - 1
  BY <1>2, <1>4, <1>5 DEF Accounts
<1>6. ASSUME NEW p \in Procs, NEW q \in Procs, NEW i \in AllocSlots, NEW j \in AllocSlots,
             Holds(p, i)', Holds(q, j)', Slot(p, i)'.ptr = Slot(q, j)'.ptr
      PROVE  p = q /\ i = j
  BY <1>4, <1>6 DEF Accounts
<1>7. ASSUME NEW b \in Blocks, after[b] > 0
      PROVE  kernel'[b] > 0 \/ \E p \in Procs, i \in AllocSlots : Holds(p, i)' /\ Slot(p, i)'.ptr = b
  <2>1. b \notin S /\ live[b] > 0
    BY <1>2, <1>7
  <2>2. CASE kernel[b] > 0
    BY <2>1, <2>2
  <2>3. ASSUME NEW p \in Procs, NEW i \in AllocSlots, Holds(p, i), Slot(p, i).ptr = b
        PROVE  Holds(p, i)' /\ Slot(p, i)'.ptr = b
    BY <2>1, <2>3
  <2>4. QED
    BY <2>1, <2>2, <2>3 DEF Accounts
<1>8. Accounts(after)'
  BY <1>1, <1>3, <1>5, <1>6, <1>7 DEF Accounts
<1>9. QED
  BY <1>2, <1>8

\* The pages of a slot that holds memory are the blocks of its allocation.
LEMMA SlotPagesCovered ==
  ASSUME TypeOK, NEW live \in [Blocks -> Nat], Accounts(live),
         NEW p \in Procs, NEW i \in AllocSlots, Holds(p, i), NEW x
  PROVE  /\ Slot(p, i).ptr \in Blocks
         /\ x \in SlotPages(p, i) <=> x \in Int /\ Covered(live, Slot(p, i).ptr, x)
<1>1. Slot(p, i).ptr \in Blocks /\ Slot(p, i).ptr # Null
  BY DEF TypeOK, Slot, Holds
<1>2. SlotPages(p, i) = Slot(p, i).ptr .. Slot(p, i).ptr + live[Slot(p, i).ptr] - 1
  BY <1>1 DEF SlotPages, Slot, Accounts
<1>3. Slot(p, i).ptr \in Int /\ live[Slot(p, i).ptr] \in Int
  BY <1>1 DEF Blocks
<1>4. QED
  BY <1>1, <1>2, <1>3 DEF Covered

\* No page belongs to two slots that hold memory, of one process or of two.
LEMMA SlotsShareNoPage ==
  ASSUME TypeOK, Owned, NEW p \in Procs, NEW q \in Procs, NEW i \in AllocSlots, NEW j \in AllocSlots,
         Holds(p, i), Holds(q, j), ~(p = q /\ i = j)
  PROVE  SlotPages(p, i) \cap SlotPages(q, j) = {}
<1> SUFFICES ASSUME NEW x, x \in SlotPages(p, i), x \in SlotPages(q, j) PROVE FALSE
  OBVIOUS
<1>1. PICK live \in [Blocks -> Nat] : Accounts(live)
  BY DEF Owned
<1>2. Encodes(table, live)
  BY <1>1 DEF Accounts
<1>3. /\ Slot(p, i).ptr \in Blocks /\ Slot(q, j).ptr \in Blocks /\ x \in Int
      /\ Covered(live, Slot(p, i).ptr, x) /\ Covered(live, Slot(q, j).ptr, x)
  BY <1>1, SlotPagesCovered
<1>4. Slot(p, i).ptr # Slot(q, j).ptr
  BY <1>1, <1>3 DEF Accounts
<1>5. QED
  BY <1>2, <1>3, <1>4, AllocationsShareNoBlock

\* free of a pointer that a slot has, or of 0.  A slot without memory is freed
\* only if nobody has the block it points to, and then nothing changes.
LEMMA FreeOwned ==
  ASSUME Inv, stray = {}, stray' = {}, NEW p \in Procs, NEW ptr \in Blocks \cup {Null},
         process_free_syscall(p, ptr)
  PROVE  Owned'
<1>1. PICK i \in AllocSlots :
        /\ Slot(p, i).ptr = ptr
        /\ writable' = [writable EXCEPT ![p] = @ \ Pages(ptr, Slot(p, i).size)]
        /\ FreesSlot(p, i)
  BY DEF process_free_syscall, get_process_allocation, Slot
<1>2. /\ table' = heap_mark_blocks_free(table, high, ptr)
      /\ mem_allocs' = [mem_allocs EXCEPT ![p][i] = NoAlloc]
      /\ stale' = stale \ {<<p, i>>}
      /\ ~Strays(p, i)
      /\ UNCHANGED <<alive, kernel>>
  BY <1>1 DEF FreesSlot, heap_free, Slot
<1>3. TypeOK /\ BootSignature \notin high /\ SlotsInv /\ Owned /\ alive \subseteq Procs
  BY DEF Inv, TypeOK
<1>4. PICK live \in [Blocks -> Nat] : Accounts(live)
  BY <1>3 DEF Owned
<1>5. \A q \in Procs, j \in AllocSlots :
        Slot(q, j)' = IF q = p /\ j = i THEN NoAlloc ELSE Slot(q, j)
  BY <1>2, <1>3 DEF TypeOK, Slot
<1>6. \A q \in Procs, j \in AllocSlots : Holds(q, j)' <=> Holds(q, j) /\ ~(q = p /\ j = i)
  <2>1. \A q, j : Holds(q, j)' <=> Slot(q, j)'.ptr # Null /\ Slot(q, j)'.size > 0 /\ <<q, j>> \notin stale'
    BY DEF Holds, Slot
  <2>2. \A q, j : Holds(q, j) <=> Slot(q, j).ptr # Null /\ Slot(q, j).size > 0 /\ <<q, j>> \notin stale
    BY DEF Holds, Slot
  <2>3. NoAlloc.ptr = Null
    BY DEF NoAlloc
  <2> SUFFICES ASSUME NEW q \in Procs, NEW j \in AllocSlots
               PROVE  Holds(q, j)' <=> Holds(q, j) /\ ~(q = p /\ j = i)
    OBVIOUS
  <2>4. CASE q = p /\ j = i
    BY <1>5, <2>1, <2>3, <2>4
  <2>5. CASE ~(q = p /\ j = i)
    <3>1. Slot(q, j)' = Slot(q, j) /\ (<<q, j>> \in stale' <=> <<q, j>> \in stale)
      BY <1>2, <1>5, <2>5
    <3>2. QED
      BY <2>1, <2>2, <2>5, <3>1
  <2>6. QED
    BY <2>4, <2>5
<1>7. /\ ptr # Null /\ Holds(p, i) => live[ptr] > 0 /\ kernel[ptr] = 0
      /\ ptr # Null /\ ~Holds(p, i) => IsFree(table[ptr])
      /\ ptr = Null => ~Holds(p, i)
  BY <1>1, <1>2, <1>4 DEF Accounts, Strays, Slot, Holds
<1> DEFINE S == IF Holds(p, i) THEN {ptr} ELSE {}
<1>8. \A b \in S : b = ptr /\ Holds(p, i) /\ b \in Blocks /\ live[b] > 0 /\ kernel[b] = 0
  BY <1>7
<1>9. table' = FreedAll(table, high, S)
  <2>1. CASE Holds(p, i)
    BY <1>2, <2>1 DEF FreedAll, heap_mark_blocks_free
  <2>2. CASE ~Holds(p, i)
    <3>1. \A b \in Blocks : b \in FreedFrom(table, high, ptr) => table[b] = FREE
      <4>1. CASE ptr = Null
        BY <1>3, <4>1, NullFreeStopsBelowTable DEF Null
      <4>2. CASE ptr # Null
        BY <1>4, <1>7, <2>2, <4>2, FreeOfFreeBlock DEF Accounts
      <4>3. QED
        BY <4>1, <4>2
    <3>2. QED
      BY <1>2, <2>2, <3>1 DEF FreedAll, heap_mark_blocks_free
  <2>3. QED
    BY <2>1, <2>2
<1>10. \E after \in [Blocks -> Nat] : Accounts(after)'
  <2>1. S \in SUBSET Blocks /\ \A s \in S : live[s] > 0
    BY <1>8
  <2>2. \A b \in Blocks : kernel'[b] = IF b \in S THEN 0 ELSE kernel[b]
    BY <1>2, <1>8
  <2>3. ASSUME NEW q \in Procs, NEW j \in AllocSlots
        PROVE  /\ Holds(q, j)' <=> Holds(q, j) /\ Slot(q, j).ptr \notin S
               /\ Holds(q, j)' => Slot(q, j)' = Slot(q, j)
    <3>1. Holds(p, i) /\ Holds(q, j) /\ Slot(q, j).ptr = ptr => q = p /\ j = i
      BY <1>1, <1>4 DEF Accounts
    <3>2. QED
      BY <1>1, <1>5, <1>6, <3>1
  <2> HIDE DEF S
  <2>4. QED
    BY <1>3, <1>4, <1>9, <2>1, <2>2, <2>3, FreesOwned
<1>11. ASSUME NEW q \in alive
       PROVE  writable'[q] = UNION {SlotPages(q, j)' : j \in AllocSlots}
  <2>1. writable[q] = UNION {SlotPages(q, j) : j \in AllocSlots} /\ q \in Procs
    BY <1>3 DEF Owned
  <2>2. \A j \in AllocSlots : SlotPages(q, j)' = IF q = p /\ j = i THEN {} ELSE SlotPages(q, j)
    BY <1>5, <2>1 DEF SlotPages, Slot, NoAlloc
  <2>3. q = p => Pages(ptr, Slot(p, i).size) = SlotPages(p, i)
    <3>1. CASE ptr = Null
      <4>1. Slot(p, i).size = 0 /\ SlotPages(p, i) = {}
        <5>1. Slot(p, i) = NoAlloc
          BY <1>1, <1>3, <3>1 DEF SlotsInv
        <5>2. QED
          BY <1>1, <3>1, <5>1 DEF NoAlloc, SlotPages, Slot
      <4>2. QED
        BY <3>1, <4>1, NullOutside, NoBytesNoPages
    <3>2. CASE ptr # Null
      BY <1>1, <3>2 DEF SlotPages, Slot
    <3>3. QED
      BY <3>1, <3>2
  <2>4. writable'[q] = IF q = p THEN writable[q] \ SlotPages(p, i) ELSE writable[q]
    BY <1>1, <1>3, <2>1, <2>3 DEF TypeOK
  <2>5. q = p => \A j \in AllocSlots : j # i => SlotPages(q, j) \cap SlotPages(p, i) = {}
    BY <1>3, SlotsShareNoPage, EmptyHasNoPages
  <2>6. QED
    BY <2>1, <2>2, <2>4, <2>5
<1>12. QED
  BY <1>2, <1>10, <1>11 DEF Owned

\* A process that ends, or ends again: the memory its slots hold is freed, and
\* nothing else.
LEMMA TerminateOwned ==
  ASSUME Inv, stray = {}, stray' = {}, NEW p \in Procs, process_terminate(p)
  PROVE  Owned'
<1>1. /\ table' = FreedAll(table, high, Held(p))
      /\ alive' \subseteq alive
      /\ stale' = stale \cup {<<p, i>> : i \in {j \in AllocSlots : mem_allocs[p][j].ptr # Null}}
      /\ \A i \in AllocSlots : ~Strays(p, i)
      /\ UNCHANGED <<high, mem_allocs, writable, kernel>>
  BY DEF process_terminate, FreedAll
<1>2. TypeOK /\ Owned
  BY DEF Inv
<1>3. PICK live \in [Blocks -> Nat] : Accounts(live)
  BY <1>2 DEF Owned
<1> DEFINE S == {s \in Held(p) : \E i \in AllocSlots : Holds(p, i) /\ Slot(p, i).ptr = s}
<1>4. \A s \in Held(p) : s \in Blocks /\ \E i \in AllocSlots : s = Slot(p, i).ptr /\ s # Null
  BY <1>2 DEF Held, Slot, TypeOK
<1>5. \A i \in AllocSlots : Holds(p, i) => Slot(p, i).ptr \in Held(p)
  BY DEF Held, Slot, Holds
<1>6. \A s \in Held(p) \ S : IsFree(table[s])
  BY <1>1, <1>4 DEF Strays, Slot
<1>7. S \in SUBSET Blocks /\ \A s \in S : live[s] > 0 /\ kernel[s] = 0
  BY <1>3, <1>4 DEF Accounts
<1>8. \A i \in AllocSlots : Holds(p, i) => Slot(p, i).ptr \in S
  BY <1>5
<1>9. \A s \in S : s \in Held(p) /\ \E i \in AllocSlots : Holds(p, i) /\ Slot(p, i).ptr = s
  OBVIOUS
<1> HIDE DEF S
<1>10. table' = FreedAll(table, high, S)
  <2>1. ASSUME NEW i \in Blocks, NEW s \in Held(p), i \in FreedFrom(table, high, s)
        PROVE  table[i] = FREE \/ \E r \in S : i \in FreedFrom(table, high, r)
    BY <1>3, <1>4, <1>6, <2>1, FreeOfFreeBlock DEF Accounts
  <2>2. QED
    BY <1>1, <1>9, <2>1 DEF FreedAll
<1>11. ASSUME NEW q \in Procs, NEW j \in AllocSlots
       PROVE  /\ Holds(q, j)' <=> Holds(q, j) /\ Slot(q, j).ptr \notin S
              /\ Slot(q, j)' = Slot(q, j)
  <2>1. Slot(q, j)' = Slot(q, j)
    BY <1>1 DEF Slot
  <2>2. Holds(q, j)' <=> Holds(q, j) /\ q # p
    BY <1>1 DEF Holds
  <2>3. q # p /\ Holds(q, j) => Slot(q, j).ptr \notin S
    BY <1>3, <1>9 DEF Accounts
  <2>4. QED
    BY <1>8, <2>1, <2>2, <2>3
<1>12. \E after \in [Blocks -> Nat] : Accounts(after)'
  <2>1. \A b \in Blocks : kernel'[b] = IF b \in S THEN 0 ELSE kernel[b]
    BY <1>1, <1>7
  <2>2. QED
    BY <1>2, <1>3, <1>7, <1>10, <1>11, <2>1, FreesOwned
<1>13. QED
  BY <1>1, <1>2, <1>12, SamePages DEF Owned

\* The kernel allocates, no blocks included.
LEMMA KmallocOwned ==
  ASSUME Inv, stray = {}, NEW size \in KernelSizes, kmalloc(size)
  PROVE  Owned'
<1> DEFINE n == TotalBlocks(size)
<1>1. PICK b \in Blocks :
        /\ heap_get_start_block_index(table, n, b)
        /\ table' = heap_mark_blocks_taken(table, b, n)
        /\ kernel' = [kernel EXCEPT ![b] = n]
        /\ UNCHANGED <<mem_allocs, writable, alive, stale>>
  BY DEF kmalloc
<1>2. n \in Nat
  BY UserMemAssumption, TotalBlocksType
<1> HIDE DEF n
<1>3. TypeOK /\ Owned
  BY DEF Inv
<1>4. PICK live \in [Blocks -> Nat] : Accounts(live)
  BY <1>3 DEF Owned
<1> DEFINE after == [live EXCEPT ![b] = n]
<1>5. live[b] = 0 /\ Encodes(table', after)
  <2>1. Encodes(table, live)
    BY <1>4 DEF Accounts
  <2>2. /\ live[b] = 0
        /\ n > 0 => Encodes(heap_mark_blocks_taken(table, b, n), after)
        /\ n = 0 => Encodes(heap_mark_blocks_taken(table, b, n), live)
    BY <1>1, <1>2, <2>1, TakenEncodes
  <2>3. n = 0 => after = live
    BY <2>2
  <2> HIDE DEF after
  <2>4. QED
    BY <1>1, <1>2, <2>2, <2>3
<1>6. after \in [Blocks -> Nat] /\ after[b] = n /\ \A c \in Blocks : c # b => after[c] = live[c]
  BY <1>2
<1> HIDE DEF after
<1>7. kernel'[b] = n /\ \A c \in Blocks : c # b => kernel'[c] = kernel[c]
  BY <1>1, <1>3 DEF TypeOK
<1>8. \A p \in Procs, i \in AllocSlots : Holds(p, i) => Slot(p, i).ptr \in Blocks \ {b}
  <2>1. \A p \in Procs, i \in AllocSlots : Holds(p, i) => Slot(p, i).ptr \in Blocks
    BY <1>3 DEF TypeOK, Slot, Holds
  <2>2. QED
    BY <1>4, <1>5, <2>1 DEF Accounts
<1>9. Accounts(after)'
  <2>1. \A p \in Procs, i \in AllocSlots : (Holds(p, i)' <=> Holds(p, i)) /\ Slot(p, i)' = Slot(p, i)
    BY <1>1 DEF Slot, Holds
  <2>2. \A p \in Procs, i \in AllocSlots : Holds(p, i) =>
          after[Slot(p, i).ptr] = live[Slot(p, i).ptr] /\ kernel'[Slot(p, i).ptr] = kernel[Slot(p, i).ptr]
    BY <1>6, <1>7, <1>8
  <2>3. \A c \in Blocks : kernel'[c] > 0 => after[c] = kernel'[c]
    BY <1>4, <1>6, <1>7 DEF Accounts
  <2>4. \A p \in Procs, i \in AllocSlots : Holds(p, i) =>
          /\ after[Slot(p, i).ptr] > 0 /\ kernel'[Slot(p, i).ptr] = 0
          /\ Pages(Slot(p, i).ptr, Slot(p, i).size) =
               Slot(p, i).ptr .. Slot(p, i).ptr + after[Slot(p, i).ptr] - 1
    BY <1>4, <2>2 DEF Accounts
  <2>5. \A c \in Blocks : after[c] > 0 =>
          kernel'[c] > 0 \/ \E p \in Procs, i \in AllocSlots : Holds(p, i) /\ Slot(p, i).ptr = c
    BY <1>4, <1>6, <1>7 DEF Accounts
  <2>6. \A p, q \in Procs, i, j \in AllocSlots :
          Holds(p, i) /\ Holds(q, j) /\ Slot(p, i).ptr = Slot(q, j).ptr => p = q /\ i = j
    BY <1>4 DEF Accounts
  <2>7. QED
    BY <1>5, <2>1, <2>3, <2>4, <2>5, <2>6 DEF Accounts
<1>10. QED
  BY <1>1, <1>3, <1>6, <1>9, SamePages DEF Owned

\* The kernel frees what it holds.
LEMMA KfreeOwned ==
  ASSUME Inv, stray = {}, NEW b \in Blocks, kfree(b)
  PROVE  Owned'
<1>1. /\ kernel[b] > 0
      /\ table' = heap_mark_blocks_free(table, high, b)
      /\ kernel' = [kernel EXCEPT ![b] = 0]
      /\ UNCHANGED <<mem_allocs, writable, alive, stale>>
  BY DEF kfree, heap_free
<1>2. TypeOK /\ Owned
  BY DEF Inv
<1>3. PICK live \in [Blocks -> Nat] : Accounts(live)
  BY <1>2 DEF Owned
<1> DEFINE S == {b}
<1>4. S \in SUBSET Blocks /\ \A s \in S : live[s] > 0
  BY <1>1, <1>3 DEF Accounts
<1>5. table' = FreedAll(table, high, S)
  BY <1>1 DEF FreedAll, heap_mark_blocks_free
<1>6. \A c \in Blocks : kernel'[c] = IF c \in S THEN 0 ELSE kernel[c]
  BY <1>1, <1>2 DEF TypeOK
<1>7. \A p \in Procs, i \in AllocSlots : (Holds(p, i)' <=> Holds(p, i)) /\ Slot(p, i)' = Slot(p, i)
  BY <1>1 DEF Slot, Holds
<1>8. \A p \in Procs, i \in AllocSlots : Holds(p, i) => Slot(p, i).ptr \notin S
  BY <1>1, <1>3 DEF Accounts
<1> HIDE DEF S
<1>9. \E after \in [Blocks -> Nat] : Accounts(after)'
  BY <1>2, <1>3, <1>4, <1>5, <1>6, <1>7, <1>8, FreesOwned
<1>10. QED
  BY <1>1, <1>2, <1>9, SamePages DEF Owned

\* Every step preserves the invariant.
LEMMA NextInv == Inv /\ [Next]_vars => Inv'
<1> SUFFICES ASSUME Inv, [Next]_vars PROVE Inv'
  OBVIOUS
<1>0. TypeOK' /\ SlotsInv' /\ high' \subseteq high /\ stray \subseteq stray'
  BY NextType, NextSlots DEF Inv
<1>1. BootSignature \notin high'
  BY <1>0 DEF Inv
<1> SUFFICES ASSUME stray' = {} PROVE Owned'
  BY <1>0, <1>1 DEF Inv
<1>2. stray = {}
  BY <1>0
<1>3. ASSUME NEW p \in Procs, NEW size \in UserSizes,
             process_malloc(p, size) \/ process_malloc_fails(p, size)
      PROVE  Owned'
  BY <1>2, <1>3, MallocOwned, MallocFailsOwned
<1>4. ASSUME NEW p \in Procs, NEW ptr \in Blocks \cup {Null}, process_free_syscall(p, ptr)
      PROVE  Owned'
  BY <1>2, <1>4, FreeOwned
<1>5. ASSUME NEW p \in Procs, process_terminate(p)
      PROVE  Owned'
  BY <1>2, <1>5, TerminateOwned
<1>6. ASSUME NEW size \in KernelSizes, kmalloc(size)
      PROVE  Owned'
  BY <1>2, <1>6, KmallocOwned
<1>7. ASSUME NEW b \in Blocks, kfree(b)
      PROVE  Owned'
  BY <1>2, <1>7, KfreeOwned
<1>8. CASE UNCHANGED vars
  <2>1. Owned
    BY <1>2 DEF Inv
  <2>2. PICK live \in [Blocks -> Nat] : Accounts(live)
    BY <2>1 DEF Owned
  <2>3. Encodes(table', live) /\ UNCHANGED <<mem_allocs, writable, alive, kernel, stale>>
    BY <1>8, <2>2 DEF vars, Accounts
  <2>4. QED
    BY <2>1, <2>2, <2>3, SameHolders
<1>9. QED
  BY <1>3, <1>4, <1>5, <1>6, <1>7, <1>8 DEF Next, process_free_ignored

-----------------------------------------------------------------------------
\* The inductive invariant holds of every behaviour.
THEOREM UserMemInvariant == Spec => []Inv
BY InitInv, NextInv, PTL DEF Spec

\* Until a stray free, what a process that was not terminated may write by the
\* mappings of process_malloc_syscall_handler is what it holds, for any sizes
\* and any sequence of calls of any processes and of the kernel.
THEOREM UserMemWritable == Spec => []WritableIsHeld
<1>1. Inv => WritableIsHeld
  BY DEF Inv, Owned, WritableIsHeld
<1>2. QED
  BY <1>1, UserMemInvariant, PTL

\* Until a stray free, a page that a process may write before it is terminated is
\* in no memory that another process, terminated or not, or the kernel holds.
THEOREM UserMemIsolated == Spec => []Isolation
<1>1. Inv => Isolation
  <2> SUFFICES ASSUME Inv, stray = {}, NEW p \in alive
               PROVE  /\ \A q \in Procs \ {p}, i \in AllocSlots :
                           Holds(q, i) => writable[p] \cap SlotPages(q, i) = {}
                      /\ \A b \in Blocks : writable[p] \cap (b .. b + kernel[b] - 1) = {}
    BY DEF Isolation
  <2>0. TypeOK /\ SlotsInv /\ Owned /\ p \in Procs
    BY DEF Inv, TypeOK
  <2>1. writable[p] = UNION {SlotPages(p, i) : i \in AllocSlots}
    BY <2>0 DEF Owned
  <2>2. \A x \in writable[p] : \E i \in AllocSlots : Holds(p, i) /\ x \in SlotPages(p, i)
    BY <2>0, <2>1, EmptyHasNoPages
  <2>3. ASSUME NEW q \in Procs \ {p}, NEW j \in AllocSlots, Holds(q, j)
        PROVE  writable[p] \cap SlotPages(q, j) = {}
    <3>1. \A i \in AllocSlots : Holds(p, i) => SlotPages(p, i) \cap SlotPages(q, j) = {}
      BY <2>0, <2>3, SlotsShareNoPage
    <3>2. QED
      BY <2>2, <3>1
  <2>4. ASSUME NEW b \in Blocks, NEW x \in writable[p], x \in b .. b + kernel[b] - 1
        PROVE  FALSE
    <3>1. PICK live \in [Blocks -> Nat] : Accounts(live)
      BY <2>0 DEF Owned
    <3>2. Encodes(table, live) /\ kernel[b] \in Nat /\ b \in Int
      <4>1. Encodes(table, live)
        BY <3>1 DEF Accounts
      <4>2. kernel[b] \in Nat /\ b \in Int
        <5>1. kernel \in [Blocks -> Nat]
          BY <2>0 DEF TypeOK
        <5>2. b \in Int
          BY HeapAssumption DEF Blocks
        <5>3. QED
          BY <5>1, <5>2
      <4>3. QED
        BY <4>1, <4>2
    <3>3. PICK i \in AllocSlots : Holds(p, i) /\ x \in SlotPages(p, i)
      BY <2>2
    <3>4. Slot(p, i).ptr \in Blocks /\ x \in Int /\ Covered(live, Slot(p, i).ptr, x)
      BY <2>0, <3>1, <3>3, SlotPagesCovered
    <3>5. kernel[b] > 0 /\ live[b] = kernel[b] /\ Slot(p, i).ptr # b
      BY <2>0, <2>4, <3>1, <3>2, <3>3, <3>4 DEF Accounts
    <3>6. Covered(live, b, x)
      BY <2>4, <3>2, <3>5 DEF Covered
    <3>7. QED
      BY <3>2, <3>4, <3>5, <3>6, AllocationsShareNoBlock
  <2>5. QED
    BY <2>3, <2>4
<1>2. QED
  BY <1>1, UserMemInvariant, PTL

\* Until a stray free, no block is lost and none is released while somebody holds
\* it, in the failing paths of process_malloc_syscall_handler and in a first or
\* another process_terminate too.
THEOREM UserMemTaken == Spec => []TakenIsHeld
<1>1. Inv => TakenIsHeld
  <2> SUFFICES ASSUME Inv, stray = {}, NEW c \in Blocks
               PROVE  ~IsFree(table[c]) <=>
                        \/ \E p \in Procs, i \in AllocSlots : Holds(p, i) /\ c \in SlotPages(p, i)
                        \/ \E b \in Blocks : c \in b .. b + kernel[b] - 1
    BY DEF TakenIsHeld
  <2>1. TypeOK /\ Owned
    BY DEF Inv
  <2>2. PICK live \in [Blocks -> Nat] : Accounts(live)
    BY <2>1 DEF Owned
  <2>3. Encodes(table, live) /\ c \in Int
    BY <2>2 DEF Accounts, Blocks
  <2>4. ~IsFree(table[c]) <=> \E b \in Blocks : Covered(live, b, c)
    BY <2>3 DEF Encodes, IsFree, TakenEntry, FREE
  <2>5. \A p \in Procs, i \in AllocSlots : Holds(p, i) =>
          /\ Slot(p, i).ptr \in Blocks
          /\ c \in SlotPages(p, i) <=> Covered(live, Slot(p, i).ptr, c)
    BY <2>1, <2>2, <2>3, SlotPagesCovered
  <2>6. \A b \in Blocks : c \in b .. b + kernel[b] - 1 <=> kernel[b] > 0 /\ Covered(live, b, c)
    <3> TAKE b \in Blocks
    <3>1. b \in Int /\ kernel[b] \in Nat /\ (kernel[b] > 0 => live[b] = kernel[b])
      BY <2>1, <2>2 DEF Accounts, TypeOK, Blocks
    <3>2. QED
      BY <2>3, <3>1 DEF Covered
  <2>7. \A b \in Blocks : Covered(live, b, c) => live[b] > 0
    BY <2>3 DEF Covered, Blocks
  <2>8. \A b \in Blocks : Covered(live, b, c) =>
          kernel[b] > 0 \/ \E p \in Procs, i \in AllocSlots : Holds(p, i) /\ Slot(p, i).ptr = b
    BY <2>2, <2>7 DEF Accounts
  <2>9. QED
    BY <2>4, <2>5, <2>6, <2>8
<1>2. QED
  BY <1>1, UserMemInvariant, PTL
=============================================================================
