------------------------------- MODULE HeapCall -------------------------------
(***************************************************************************)
(* One call of heap_malloc or of heap_free, one loop iteration of the C    *)
(* functions at a time, on any table that clients can have produced.       *)
(* Module Heap takes the whole call as one step and describes its effect   *)
(* with the operators of HeapOps; here those operators are the reference   *)
(* the loops are compared with.                                            *)
(***************************************************************************)
EXTENDS HeapOps

CONSTANT Sizes   \* sizes in bytes that heap_malloc is called with

ASSUME CallAssumption == Sizes \subseteq 0 .. WordSize - 1

VARIABLES
  call,    \* the function called
  pc,      \* "scan", "mark", "free": the loop that runs; "done": returned
  table,   \* heap->table->entries
  high,    \* indices below the table whose byte has bit 7 set
  past,    \* indices at or after the end of the table that were written
  size,    \* the argument of heap_malloc
  bs, bc,  \* the locals of heap_get_start_block_index; bs is start_block_index
           \* of the marking functions too
  i,       \* the loop counter
  entry,   \* the local of heap_mark_blocks_taken
  table0,  \* table and high when the call began
  high0

vars == <<call, pc, table, high, past, size, bs, bc, i, entry, table0, high0>>

total_blocks == TotalBlocks(size)

\* HAS_NEXT is set exactly on the entries whose right neighbour in the table
\* continues the allocation, and free entries are 0.
WellFormed(t) ==
  \A j \in Blocks :
    /\ IsFree(t[j]) => t[j] = FREE
    /\ j + 1 \in Blocks =>
         ("HAS_NEXT" \in t[j] <=> "TAKEN" \in t[j + 1] /\ "IS_FIRST" \notin t[j + 1])
    /\ j = 0 /\ ~IsFree(t[j]) => "IS_FIRST" \in t[j]

TypeOK ==
  /\ call \in {"heap_malloc", "heap_free"}
  /\ pc \in {"scan", "mark", "free", "done"}
  /\ table \in [Blocks -> Entry] /\ table0 \in [Blocks -> Entry]
  /\ high \subseteq BelowTable /\ high0 \subseteq BelowTable
  /\ past \subseteq Nat
  /\ size \in Nat
  /\ bs \in Int /\ bc \in Nat /\ i \in Int
  /\ entry \in Entry

CallBegins ==
  /\ table0 \in {t \in [Blocks -> Entry] : WellFormed(t)}
  /\ high0 \in {h \in SUBSET BelowTable : BootSignature \notin h}
  /\ table = table0
  /\ high = high0
  /\ past = {}
  /\ bc = 0
  /\ entry = FREE

MallocBegins ==
  /\ call = "heap_malloc"
  /\ pc = "scan"
  /\ size \in Sizes
  /\ bs = NoBlock
  /\ i = 0

\* The pointer is NULL or the address of the first block of an allocation.
FreeBegins ==
  /\ call = "heap_free"
  /\ pc = "free"
  /\ size = 0
  /\ bs \in {-Gap} \cup {b \in Blocks : "IS_FIRST" \in table0[b]}
  /\ i = bs

Init == CallBegins /\ (MallocBegins \/ FreeBegins)

\* Mutant: a taken block does not restart the count.
ScanTaken_KeepsCount ==
  /\ pc = "scan" /\ i < TotalEntries
  /\ ~IsFree(table[i])
  /\ bs' = NoBlock
  /\ i' = i + 1
  /\ UNCHANGED <<call, pc, table, high, past, size, bc, entry, table0, high0>>

ScanTaken ==
  /\ pc = "scan" /\ i < TotalEntries
  /\ ~IsFree(table[i])
  /\ bc' = 0
  /\ bs' = NoBlock
  /\ i' = i + 1
  /\ UNCHANGED <<call, pc, table, high, past, size, entry, table0, high0>>

\* heap_malloc_blocks calls heap_mark_blocks_taken with the block found.
StartMarking(b) ==
  /\ pc' = "mark"
  /\ i' = b
  /\ entry' = {"TAKEN", "IS_FIRST"} \cup (IF total_blocks > 1 THEN {"HAS_NEXT"} ELSE {})

ScanFree ==
  /\ pc = "scan" /\ i < TotalEntries
  /\ IsFree(table[i])
  /\ bs' = IF bs = NoBlock THEN i ELSE bs
  /\ bc' = bc + 1
  /\ IF bc' = total_blocks
     THEN StartMarking(bs')
     ELSE i' = i + 1 /\ UNCHANGED <<pc, entry>>
  /\ UNCHANGED <<call, table, high, past, size, table0, high0>>

ScanEnds ==
  /\ pc = "scan" /\ i = TotalEntries
  /\ IF bs = NoBlock
     THEN pc' = "done" /\ UNCHANGED <<i, entry>>
     ELSE StartMarking(bs)
  /\ UNCHANGED <<call, table, high, past, size, bs, bc, table0, high0>>

Mark ==
  /\ pc = "mark"
  /\ IF i <= bs + total_blocks - 1
     THEN /\ IF i \in Blocks
             THEN table' = [table EXCEPT ![i] = entry] /\ UNCHANGED past
             ELSE past' = past \cup {i} /\ UNCHANGED table
          /\ entry' = {"TAKEN"} \cup (IF i # bs + total_blocks - 2 THEN {"HAS_NEXT"} ELSE {})
          /\ i' = i + 1
          /\ UNCHANGED pc
     ELSE pc' = "done" /\ UNCHANGED <<table, past, entry, i>>
  /\ UNCHANGED <<call, high, size, bs, bc, table0, high0>>

\* Mutant: the loop ends before it clears the last block.
Free_LastKept ==
  /\ pc = "free"
  /\ IF i < TotalEntries /\ HasNext(table, high, i)
     THEN /\ table' = IF i >= 0 THEN [table EXCEPT ![i] = FREE] ELSE table
          /\ high' = high \ {i}
          /\ i' = i + 1 /\ UNCHANGED pc
     ELSE pc' = "done" /\ UNCHANGED <<table, high, i>>
  /\ UNCHANGED <<call, past, size, bs, bc, entry, table0, high0>>

Free ==
  /\ pc = "free"
  /\ IF i < TotalEntries
     THEN /\ table' = IF i >= 0 THEN [table EXCEPT ![i] = FREE] ELSE table
          /\ high' = high \ {i}
          /\ IF HasNext(table, high, i)
             THEN i' = i + 1 /\ UNCHANGED pc
             ELSE pc' = "done" /\ UNCHANGED i
     ELSE pc' = "done" /\ UNCHANGED <<table, high, i>>
  /\ UNCHANGED <<call, past, size, bs, bc, entry, table0, high0>>

Returned == pc = "done" /\ UNCHANGED vars

Next == ScanTaken \/ ScanFree \/ ScanEnds \/ Mark \/ Free \/ Returned

Spec == Init /\ [][Next]_vars

-----------------------------------------------------------------------------
\* What heap.c promises of heap_malloc, where the loops keep it.  If some run of
\* total_blocks free blocks exists, the call takes the first one and writes its
\* entries and nothing else.  If the call fails, no such run exists and nothing
\* is written.  In every case only free entries change.  When no run fits but
\* the last block is free, "< 0 on failure" (the comment on
\* heap_get_start_block_index) asks for a failure and the loop returns the
\* short run that ends the table: the property leaves that answer open.
MallocMeetsSpec ==
  pc = "done" /\ call = "heap_malloc" =>
    /\ ~NoRunFits(table0, total_blocks) =>
         /\ RunFits(table0, bs, total_blocks)
         /\ \A b \in 0 .. bs - 1 : ~RunFits(table0, b, total_blocks)
         /\ table = heap_mark_blocks_taken(table0, bs, total_blocks)
         /\ past = {}
    /\ bs = NoBlock => NoRunFits(table0, total_blocks) /\ table = table0 /\ past = {}
    /\ \A j \in Blocks : table[j] # table0[j] => IsFree(table0[j])

\* When heap_free has returned, the entries up to the first without HAS_NEXT
\* are cleared, and no other byte in or around the table has changed.
FreeMeetsSpec ==
  pc = "done" /\ call = "heap_free" =>
    /\ table = heap_mark_blocks_free(table0, high0, bs)
    /\ high = high0 \ FreedFrom(table0, high0, bs)
    /\ past = {}
=============================================================================
