--------------------------------- MODULE Heap ---------------------------------
(***************************************************************************)
(* The kernel heap (memory/heap/heap.c, kernel_heap.c) and its clients.    *)
(* The kernel runs with interrupts off, so a call of kmalloc or kfree is   *)
(* one step.  A client frees the pointers it holds, each once, and NULL,   *)
(* which several error paths of the kernel pass to kfree.                  *)
(***************************************************************************)
EXTENDS HeapOps

CONSTANT Sizes   \* the sizes in bytes clients ask for

ASSUME ClientAssumption == Sizes \subseteq 0 .. WordSize - 1

VARIABLES
  table,  \* kernel_heap_table.entries
  live,   \* live[b]: blocks of the allocation a client holds at b, 0 if none
  high    \* indices below the table whose byte has bit 7 set

vars == <<table, live, high>>

TypeOK ==
  /\ table \in [Blocks -> Entry]
  /\ live \in [Blocks -> Nat]
  /\ high \subseteq BelowTable

Init ==
  /\ table = [i \in Blocks |-> FREE]
  /\ live = [i \in Blocks |-> 0]
  /\ high \in SUBSET BelowTable
  /\ BootSignature \notin high

\* heap_malloc returns the address of block b.  An allocation of no blocks
\* leaves the table as it is, and nobody holds anything at b.
kmalloc(size, b) ==
  LET n == TotalBlocks(size) IN
  /\ b \in Blocks
  /\ heap_get_start_block_index(table, n, b)
  /\ table' = heap_mark_blocks_taken(table, b, n)
  /\ live' = IF n > 0 THEN [live EXCEPT ![b] = n] ELSE live
  /\ UNCHANGED high

\* heap_malloc returns NULL.
kmalloc_fails(size) ==
  /\ heap_get_start_block_index(table, TotalBlocks(size), NoBlock)
  /\ UNCHANGED vars

heap_free(s) ==
  /\ table' = heap_mark_blocks_free(table, high, s)
  /\ high' = high \ FreedFrom(table, high, s)

kfree(b) ==
  /\ live[b] > 0
  /\ heap_free(b)
  /\ live' = [live EXCEPT ![b] = 0]

kfree_null ==
  /\ heap_free(-Gap)
  /\ UNCHANGED live

Next ==
  \/ \E size \in Sizes : \E b \in Blocks : kmalloc(size, b)
  \/ \E size \in Sizes : kmalloc_fails(size)
  \/ \E b \in Blocks : kfree(b)
  \/ kfree_null

Spec == Init /\ [][Next]_vars

-----------------------------------------------------------------------------
Covers(b, i) == b <= i /\ i < b + live[b]

\* The table says exactly what the clients hold: every block of a live
\* allocation inside the heap has the entry that heap_mark_blocks_taken gives
\* it, and every other block is FREE.  Whatever the order of the calls, a
\* block is neither lost (taken and held by nobody) nor handed out while held.
TableEncodesLive ==
  \A i \in Blocks :
    /\ \A b \in Blocks : Covers(b, i) => table[i] = TakenEntry(b, live[b], i)
    /\ (\A b \in Blocks : ~Covers(b, i)) => table[i] = FREE

\* No two allocations that clients hold share a block, also when the later one
\* was given the short run at the end of the heap and reaches past it.
LiveDisjoint ==
  \A b, c \in Blocks :
    b < c /\ live[b] > 0 /\ live[c] > 0 => b + live[b] <= c

\* heap_free(NULL) walks the bytes below the table for as long as they have
\* bit 7 set.  It stops at the boot signature at the latest, so no call but
\* one that hands out or takes back an allocation changes the table.
TableChangesWithLive == [][table' # table => live' # live]_vars
=============================================================================
