------------------------------- MODULE HeapOps -------------------------------
(***************************************************************************)
(* The block heap of memory/heap/heap.c as operators on an entry table:    *)
(* what each static function of that file computes.  A table entry is the  *)
(* set of the flags that are set in its byte, so `|` is union and `&` is   *)
(* membership.  Module HeapCall runs the loops of the same functions step  *)
(* by step and relates them to these definitions.                          *)
(***************************************************************************)
EXTENDS Integers

CONSTANTS
  TotalEntries,  \* entries of the table: KERNEL_HEAP_SIZE / HEAP_BLOCK_SIZE
  BlockSize,     \* HEAP_BLOCK_SIZE
  WordSize,      \* one more than the largest size_t: 2^32 on the target
  Gap            \* -Gap is the index heap_address_to_block gives NULL:
                 \* KERNEL_HEAP_ADDRESS / HEAP_BLOCK_SIZE, 4096 in config.h

ASSUME HeapAssumption ==
  /\ TotalEntries \in Nat \ {0}
  /\ BlockSize \in Nat \ {0}
  /\ WordSize \in Nat \ {0}
  /\ Gap \in Nat /\ Gap >= 2

Blocks == 0 .. TotalEntries - 1

\* The bytes between the entry that NULL maps to and the table.
BelowTable == (-Gap) .. (-1)

\* The boot sector stays in memory right below the table: its last two bytes
\* are the signature 0x55, 0xAA at indices -2 and -1.  0x55 has bit 7 clear.
BootSignature == -2

Flags == {"TAKEN", "IS_FIRST", "HAS_NEXT"}
Entry == SUBSET Flags
FREE == {}

\* The result of heap_get_start_block_index that means -ENOMEM.
NoBlock == -1

IsFree(entry) == "TAKEN" \notin entry

-----------------------------------------------------------------------------
(* Bytes to blocks.  The addition is done in uint32_t and wraps.           *)

align_upper_block_boundary(val) ==
  IF val % BlockSize = 0 THEN val
  ELSE (val - (val % BlockSize) + BlockSize) % WordSize

TotalBlocks(size) == align_upper_block_boundary(size) \div BlockSize

-----------------------------------------------------------------------------
(* The first-fit scan.  The loop leaves with a break at the first run of n *)
(* free blocks; when there is none it leaves with bs at the start of the   *)
(* run of free blocks that ends the table, or with bs = -1 when the last   *)
(* block is taken.  A request for 0 blocks never meets bc = n.             *)

\* Mutant: the scan does not look at the last block of the run.
RunFits_LastUnchecked(t, b, n) ==
  /\ n > 0
  /\ b + n <= TotalEntries
  /\ \A j \in b .. b + n - 2 : IsFree(t[j])

RunFits(t, b, n) ==
  /\ n > 0
  /\ b + n <= TotalEntries
  /\ \A j \in b .. b + n - 1 : IsFree(t[j])

NoRunFits(t, n) == \A b \in Blocks : ~RunFits(t, b, n)

StartsTail(t, b) ==
  /\ \A j \in b .. TotalEntries - 1 : IsFree(t[j])
  /\ b > 0 => ~IsFree(t[b - 1])

heap_get_start_block_index(t, n, b) ==
  \/ /\ b \in Blocks
     /\ RunFits(t, b, n)
     /\ \A c \in 0 .. b - 1 : ~RunFits(t, c, n)
  \/ /\ NoRunFits(t, n)
     /\ b \in Blocks
     /\ StartsTail(t, b)
  \/ /\ NoRunFits(t, n)
     /\ ~IsFree(t[TotalEntries - 1])
     /\ b = NoBlock

-----------------------------------------------------------------------------
(* Marking.  The entry that block i gets in an allocation of n blocks at b *)
(* does not depend on the end of the table: the loop runs past it.         *)

\* Mutant: the last block of an allocation gets HAS_NEXT too.
TakenEntry_LastHasNext(b, n, i) ==
  {"TAKEN", "HAS_NEXT"} \cup (IF i = b THEN {"IS_FIRST"} ELSE {})

TakenEntry(b, n, i) ==
  {"TAKEN"} \cup (IF i = b THEN {"IS_FIRST"} ELSE {})
            \cup (IF i < b + n - 1 THEN {"HAS_NEXT"} ELSE {})

heap_mark_blocks_taken(t, b, n) ==
  [i \in Blocks |-> IF b <= i /\ i < b + n THEN TakenEntry(b, n, i) ELSE t[i]]

\* The entries the freeing loop visits from s: up to the first without
\* HAS_NEXT.  s may lie before the table; `high` is the set of negative
\* indices whose byte has the HAS_NEXT bit set.
HasNext(t, high, j) == IF j < 0 THEN j \in high ELSE "HAS_NEXT" \in t[j]

\* Mutant: the freeing loop does not stop.
FreedFrom_NoStop(t, high, s) == s .. TotalEntries - 1

FreedFrom(t, high, s) ==
  {i \in s .. TotalEntries - 1 : \A j \in s .. i - 1 : HasNext(t, high, j)}

\* Mutant: the freeing loop runs to i <= total.
heap_mark_blocks_free_OneMore(t, high, s) ==
  [i \in Blocks \cup {TotalEntries} |->
     IF i \in Blocks \ FreedFrom(t, high, s) THEN t[i] ELSE FREE]

heap_mark_blocks_free(t, high, s) ==
  [i \in Blocks |-> IF i \in FreedFrom(t, high, s) THEN FREE ELSE t[i]]
=============================================================================
