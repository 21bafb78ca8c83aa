------------------------------- MODULE UserMem -------------------------------
(***************************************************************************)
(* Memory that processes get with the malloc system call: the handlers of  *)
(* task/process.c on the kernel heap (HeapOps), with the pages they make   *)
(* writable in the process's page tables (memory/paging/paging.c).  The    *)
(* kernel allocates from the same heap.  Pages and heap blocks have the    *)
(* same size and the mappings are 1:1, so a page is named by its block; a  *)
(* pointer is named by the block it points to, and 0 by Null.              *)
(***************************************************************************)
EXTENDS HeapOps, FiniteSets

CONSTANTS
  Procs,
  PROCESS_MAX_ALLOCATIONS,
  UserSizes,    \* sizes that processes ask for
  KernelSizes   \* sizes that the kernel asks for

Null == -Gap
AllocSlots == 0 .. PROCESS_MAX_ALLOCATIONS - 1
NoAlloc == [ptr |-> Null, size |-> 0]

\* ptr + size does not wrap: sizes are far below 4 GB.
ASSUME UserMemAssumption ==
  /\ PROCESS_MAX_ALLOCATIONS \in Nat
  /\ UserSizes \subseteq Nat /\ KernelSizes \subseteq Nat
  /\ \A s \in UserSizes \cup KernelSizes : s + BlockSize <= WordSize

VARIABLES
  table,       \* the entries of the heap table
  high,        \* indices below the table whose byte has bit 7 set
  mem_allocs,  \* mem_allocs[p][i]: process->mem_allocs[i]
  writable,    \* writable[p]: pages that p may write by one of these mappings
  alive,       \* processes that were not terminated
  kernel,      \* kernel[b]: blocks of the kernel's allocation at b, 0 if none
  stale,       \* history: the slots <<p, i>> whose memory a termination of p
               \* has given back
  stray        \* history: the slots <<p, i>> whose pointer kfree was given when
               \* they held no memory and the block they point to was in use

vars == <<table, high, mem_allocs, writable, alive, kernel, stale, stray>>

TypeOK ==
  /\ table \in [Blocks -> Entry]
  /\ high \subseteq BelowTable
  /\ mem_allocs \in [Procs -> [AllocSlots -> [ptr : Blocks \cup {Null}, size : Nat]]]
  /\ writable \in [Procs -> SUBSET Nat]
  /\ alive \subseteq Procs
  /\ kernel \in [Blocks -> Nat]
  /\ stale \subseteq Procs \X AllocSlots
  /\ stray \subseteq Procs \X AllocSlots

Init ==
  /\ table = [i \in Blocks |-> FREE]
  /\ high \in SUBSET BelowTable
  /\ BootSignature \notin high
  /\ mem_allocs = [p \in Procs |-> [i \in AllocSlots |-> NoAlloc]]
  /\ writable = [p \in Procs |-> {}]
  /\ alive = Procs
  /\ kernel = [b \in Blocks |-> 0]
  /\ stale = {} /\ stray = {}

-----------------------------------------------------------------------------
paging_align_address(addr) ==
  IF addr % BlockSize = 0 THEN addr ELSE addr + BlockSize - (addr % BlockSize)

\* The pages that paging_create_mapping sets for size bytes at ptr.
Pages(ptr, size) ==
  ptr .. (paging_align_address(ptr * BlockSize + size) \div BlockSize) - 1

\* Mutant: the bits below the table are set, not cleared.
heap_free_SetsBits(t, s) ==
  /\ table' = heap_mark_blocks_free(t, high, s)
  /\ high' = high \cup FreedFrom(t, high, s)

\* The table and the bytes below it when heap_free is called on table t.
heap_free(t, s) ==
  /\ table' = heap_mark_blocks_free(t, high, s)
  /\ high' = high \ FreedFrom(t, high, s)

\* The slot that the handlers find with a pointer: the first that holds it.
HasSlot(p, ptr) == \E i \in AllocSlots : mem_allocs[p][i].ptr = ptr
get_process_allocation(p, ptr, i) ==
  /\ mem_allocs[p][i].ptr = ptr
  /\ \A j \in 0 .. i - 1 : mem_allocs[p][j].ptr # ptr

\* Slot i of p holds memory: malloc(0) gives a pointer and takes no block, and
\* process_free leaves the pointers it has freed in their slots.
Holds(p, i) ==
  mem_allocs[p][i].ptr # Null /\ mem_allocs[p][i].size > 0 /\ <<p, i>> \notin stale

\* The slot's pointer is given to kfree, holds nothing, and leads to a block
\* that is in use.
Strays(p, i) ==
  mem_allocs[p][i].ptr # Null /\ ~Holds(p, i) /\ ~IsFree(table[mem_allocs[p][i].ptr])

\* The handlers look neither at processes[] nor at who runs: a process that
\* was terminated, and is scheduled again, makes the same calls.
process_malloc(p, size) ==
  LET n == TotalBlocks(size) IN
  \E b \in Blocks, i \in AllocSlots :
    /\ heap_get_start_block_index(table, n, b)
    /\ get_process_allocation(p, Null, i)
    /\ table' = heap_mark_blocks_taken(table, b, n)
    /\ writable' = [writable EXCEPT ![p] = @ \cup Pages(b, size)]
    /\ mem_allocs' = [mem_allocs EXCEPT ![p][i] = [ptr |-> b, size |-> size]]
    /\ UNCHANGED <<high, alive, kernel, stale, stray>>

\* Mutant: without a slot the blocks are not given back.
process_malloc_fails_Leaks(p, size) ==
  LET n == TotalBlocks(size) IN
  /\ \/ /\ heap_get_start_block_index(table, n, NoBlock)
        /\ heap_free(table, Null)
     \/ \E b \in Blocks :
          /\ heap_get_start_block_index(table, n, b)
          /\ ~HasSlot(p, Null)
          /\ table' = heap_mark_blocks_taken(table, b, n)
          /\ UNCHANGED high
  /\ UNCHANGED <<mem_allocs, writable, alive, kernel, stale, stray>>

\* No memory: kfree(0).  No slot left: the blocks are given back.
process_malloc_fails(p, size) ==
  LET n == TotalBlocks(size) IN
  /\ \/ /\ heap_get_start_block_index(table, n, NoBlock)
        /\ heap_free(table, Null)
     \/ \E b \in Blocks :
          /\ heap_get_start_block_index(table, n, b)
          /\ ~HasSlot(p, Null)
          /\ heap_free(heap_mark_blocks_taken(table, b, n), b)
  /\ UNCHANGED <<mem_allocs, writable, alive, kernel, stale, stray>>

\* kfree, and the slot is cleared.
FreesSlot(p, i) ==
  /\ heap_free(table, mem_allocs[p][i].ptr)
  /\ mem_allocs' = [mem_allocs EXCEPT ![p][i] = NoAlloc]
  /\ stale' = stale \ {<<p, i>>}
  /\ stray' = IF Strays(p, i) THEN stray \cup {<<p, i>>} ELSE stray
  /\ UNCHANGED <<alive, kernel>>

\* Mutants: free unmaps the first page only; free unmaps nothing.
process_free_syscall_FirstPage(p, ptr) ==
  \E i \in AllocSlots :
    /\ get_process_allocation(p, ptr, i)
    /\ writable' = [writable EXCEPT ![p] = @ \ {ptr}]
    /\ FreesSlot(p, i)
process_free_syscall_KeepsPages(p, ptr) ==
  \E i \in AllocSlots :
    /\ get_process_allocation(p, ptr, i)
    /\ FreesSlot(p, i)
    /\ UNCHANGED writable

\* A pointer that is in no slot is ignored.  0 is in every free slot.
process_free_syscall(p, ptr) ==
  \E i \in AllocSlots :
    /\ get_process_allocation(p, ptr, i)
    /\ writable' = [writable EXCEPT ![p] = @ \ Pages(ptr, mem_allocs[p][i].size)]
    /\ FreesSlot(p, i)
process_free_ignored(p, ptr) == ~HasSlot(p, ptr) /\ UNCHANGED vars

\* process_free, for the allocations of a process that ends, or ends again: the
\* slots are freed in turn, and neither they nor the page tables are cleared.
Held(p) == {mem_allocs[p][i].ptr : i \in AllocSlots} \ {Null}
process_terminate(p) ==
  /\ table' = [i \in Blocks |->
                 IF \E s \in Held(p) : i \in FreedFrom(table, high, s) THEN FREE ELSE table[i]]
  /\ alive' = alive \ {p}
  /\ stale' = stale \cup {<<p, i>> : i \in {j \in AllocSlots : mem_allocs[p][j].ptr # Null}}
  /\ stray' = stray \cup {<<p, i>> : i \in {j \in AllocSlots : Strays(p, j)}}
  /\ UNCHANGED <<high, mem_allocs, writable, kernel>>

\* The kernel allocates and frees for itself.
kmalloc(size) ==
  \E b \in Blocks :
    /\ heap_get_start_block_index(table, TotalBlocks(size), b)
    /\ table' = heap_mark_blocks_taken(table, b, TotalBlocks(size))
    /\ kernel' = [kernel EXCEPT ![b] = TotalBlocks(size)]
    /\ UNCHANGED <<high, mem_allocs, writable, alive, stale, stray>>
kfree(b) ==
  /\ kernel[b] > 0
  /\ heap_free(table, b)
  /\ kernel' = [kernel EXCEPT ![b] = 0]
  /\ UNCHANGED <<mem_allocs, writable, alive, stale, stray>>

Next ==
  \/ \E p \in Procs, size \in UserSizes :
       process_malloc(p, size) \/ process_malloc_fails(p, size)
  \/ \E p \in Procs, ptr \in Blocks \cup {Null} :
       process_free_syscall(p, ptr) \/ process_free_ignored(p, ptr)
  \/ \E p \in Procs : process_terminate(p)
  \/ \E size \in KernelSizes : kmalloc(size)
  \/ \E b \in Blocks : kfree(b)

Spec == Init /\ [][Next]_vars

-----------------------------------------------------------------------------
(* Properties.  They hold while stray is {}: once kfree has the pointer    *)
(* of a slot without memory, and somebody else has the block, the blocks   *)
(* of others are released.  A free or an exit after malloc(0) does this,   *)
(* and a free or another exit of a process that was terminated.            *)

\* The pages that process p's allocation in slot i consists of.
SlotPages(p, i) ==
  IF mem_allocs[p][i].ptr = Null THEN {}
  ELSE Pages(mem_allocs[p][i].ptr, mem_allocs[p][i].size)

\* What a process that has not been terminated may write are the pages of the
\* allocations it holds and nothing else: malloc maps and free unmaps exactly
\* the blocks that the heap gave and takes back, in whatever order, 0 bytes
\* included (process_malloc_syscall_handler, process_free_syscall_handler).
\* Nothing is said of terminated processes, which keep their mappings.
WritableIsHeld ==
  stray = {} => \A p \in alive : writable[p] = UNION {SlotPages(p, i) : i \in AllocSlots}

\* No page that a process may write before it is terminated is part of memory
\* that another process, terminated or not, or the kernel holds: they share
\* the heap, and a terminated process may go on to allocate from it.
Isolation ==
  stray = {} => \A p \in alive :
    /\ \A q \in Procs \ {p}, i \in AllocSlots :
         Holds(q, i) => writable[p] \cap SlotPages(q, i) = {}
    /\ \A b \in Blocks : writable[p] \cap (b .. b + kernel[b] - 1) = {}

\* Every block inside the heap that somebody holds is taken and every other
\* block is free: a first exit, an exit of a process that was terminated
\* before, a failed malloc, malloc(0) and a free of a pointer that was not
\* allocated lose no block and release no block of others, but for the frees
\* that `stray` records.
TakenIsHeld ==
  stray = {} => \A c \in Blocks :
    ~IsFree(table[c]) <=> \/ \E p \in Procs, i \in AllocSlots : Holds(p, i) /\ c \in SlotPages(p, i)
                          \/ \E b \in Blocks : c \in b .. b + kernel[b] - 1
=============================================================================
