---------------------------- MODULE HeapOpsProofs ----------------------------
(* Facts about the operators of HeapOps.                                    *)
EXTENDS HeapOps, TLAPS

\* heap_malloc turns a size in bytes into a natural number of blocks, also
\* when the uint32_t addition of align_upper_block_boundary wraps.
LEMMA TotalBlocksType ==
  ASSUME NEW size \in Nat
  PROVE  TotalBlocks(size) \in Nat
<1>1. align_upper_block_boundary(size) \in Nat
  BY HeapAssumption DEF align_upper_block_boundary
<1>2. QED
  BY <1>1, HeapAssumption DEF TotalBlocks

\* The entries of an allocation are entries.
LEMMA TakenEntryType ==
  ASSUME NEW b, NEW k, NEW i
  PROVE  TakenEntry(b, k, i) \in Entry
BY DEF TakenEntry, Entry, Flags

\* heap_free(NULL) stops at the boot signature, before the table.
LEMMA NullFreeStopsBelowTable ==
  ASSUME NEW t, NEW h, BootSignature \notin h, NEW i \in Blocks
  PROVE  i \notin FreedFrom(t, h, -Gap)
<1>1. BootSignature \in (-Gap) .. (i - 1) /\ BootSignature < 0
  BY HeapAssumption DEF BootSignature, Blocks
<1>2. QED
  BY <1>1 DEF FreedFrom, HasNext
-----------------------------------------------------------------------------
(* Tables that describe allocations.  live[b] is the number of blocks of   *)
(* the allocation at b, 0 when there is none.                              *)

Covered(live, b, i) == b <= i /\ i < b + live[b]

\* Table t has for every block the entry of the allocation it belongs to.
Encodes(t, live) ==
  \A i \in Blocks :
    /\ \A b \in Blocks : Covered(live, b, i) => t[i] = TakenEntry(b, live[b], i)
    /\ (\A b \in Blocks : ~Covered(live, b, i)) => t[i] = FREE

\* Every block of the table that heap_malloc is about to mark is free, and so
\* is the block it returns: at the break of the scan, and also when the scan
\* ran out of blocks.
LEMMA ScanFindsFreeBlocks ==
  ASSUME NEW t, NEW n \in Nat, NEW b \in Blocks,
         heap_get_start_block_index(t, n, b),
         NEW i \in Blocks, b <= i, i = b \/ i < b + n
  PROVE  IsFree(t[i])
<1>1. CASE RunFits(t, b, n)
  BY <1>1 DEF RunFits, Blocks
<1>2. CASE StartsTail(t, b)
  BY <1>2, HeapAssumption DEF StartsTail, Blocks
<1>3. b # NoBlock
  BY HeapAssumption DEF Blocks, NoBlock
<1>4. QED
  BY <1>1, <1>2, <1>3 DEF heap_get_start_block_index

\* A free block belongs to no live allocation.
LEMMA FreeBlockUncovered ==
  ASSUME NEW t, NEW live, Encodes(t, live), NEW i \in Blocks, IsFree(t[i]), NEW b \in Blocks
  PROVE  ~Covered(live, b, i)
BY DEF Encodes, IsFree, TakenEntry

\* A block belongs to at most one live allocation, one past the table too: the
\* first block of the second would have an entry with and without IS_FIRST.
LEMMA AllocationsShareNoBlock ==
  ASSUME NEW t, NEW live \in [Blocks -> Nat], Encodes(t, live),
         NEW b \in Blocks, NEW c \in Blocks, b # c,
         NEW i \in Int, Covered(live, b, i), Covered(live, c, i)
  PROVE  FALSE
<1>1. ASSUME NEW x \in Blocks, NEW y \in Blocks, x < y, Covered(live, x, i), Covered(live, y, i)
      PROVE  FALSE
  <2>1. Covered(live, x, y) /\ Covered(live, y, y)
    BY <1>1 DEF Covered, Blocks
  <2>2. t[y] = TakenEntry(x, live[x], y) /\ t[y] = TakenEntry(y, live[y], y)
    BY <2>1 DEF Encodes
  <2>3. "IS_FIRST" \notin TakenEntry(x, live[x], y)
    BY <1>1 DEF TakenEntry, Blocks
  <2>4. "IS_FIRST" \in TakenEntry(y, live[y], y)
    BY DEF TakenEntry
  <2>5. QED
    BY <2>2, <2>3, <2>4
<1>2. b < c \/ c < b
  BY DEF Blocks
<1>3. QED
  BY <1>1, <1>2

\* The loop of heap_mark_blocks_free that starts at the first block of a live
\* allocation visits that allocation's blocks, to the last one in the table.
LEMMA FreedIsTheAllocation ==
  ASSUME NEW t, NEW h, NEW live \in [Blocks -> Nat], Encodes(t, live),
         NEW b \in Blocks, live[b] > 0, NEW i \in Int
  PROVE  i \in FreedFrom(t, h, b) <=> i \in Blocks /\ Covered(live, b, i)
<1> USE HeapAssumption
<1>1. ASSUME i \in Blocks, Covered(live, b, i)
      PROVE  i \in FreedFrom(t, h, b)
  <2>1. ASSUME NEW j \in b .. i - 1
        PROVE  HasNext(t, h, j)
    <3>1. j \in Blocks /\ Covered(live, b, j) /\ j < b + live[b] - 1 /\ ~(j < 0)
      BY <1>1, <2>1 DEF Blocks, Covered
    <3>2. "HAS_NEXT" \in TakenEntry(b, live[b], j)
      BY <3>1 DEF TakenEntry
    <3>3. QED
      BY <3>1, <3>2 DEF Encodes, HasNext
  <2>2. QED
    BY <1>1, <2>1 DEF FreedFrom, Blocks, Covered
<1>2. ASSUME i \in FreedFrom(t, h, b)
      PROVE  i \in Blocks /\ Covered(live, b, i)
  <2>1. i \in b .. TotalEntries - 1 /\ \A j \in b .. i - 1 : HasNext(t, h, j)
    BY <1>2 DEF FreedFrom
  <2>2. i \in Blocks
    BY <2>1 DEF Blocks
  <2>3. ASSUME i >= b + live[b]
        PROVE  FALSE
    <3> DEFINE last == b + live[b] - 1
    <3>1. last \in Blocks /\ last \in b .. i - 1 /\ Covered(live, b, last) /\ ~(last < 0)
      BY <2>1, <2>3 DEF Blocks, Covered
    <3>2. "HAS_NEXT" \notin TakenEntry(b, live[b], last)
      BY <3>1 DEF TakenEntry
    <3>3. HasNext(t, h, last)
      BY <2>1, <3>1
    <3>4. QED
      BY <3>1, <3>2, <3>3 DEF Encodes, HasNext
  <2>4. QED
    BY <2>1, <2>2, <2>3 DEF Covered, Blocks
<1>3. QED
  BY <1>1, <1>2

\* The empty table describes that nothing is allocated.
LEMMA EmptyTableEncodes ==
  ASSUME NEW t, \A i \in Blocks : t[i] = FREE,
         NEW live, \A b \in Blocks : live[b] = 0
  PROVE  Encodes(t, live)
BY DEF Encodes, Covered, Blocks

\* Marking the blocks that the scan has found describes the old allocations
\* and the new one.  An allocation of no blocks changes nothing.
LEMMA TakenEncodes ==
  ASSUME NEW t, NEW live \in [Blocks -> Nat], Encodes(t, live),
         NEW n \in Nat, NEW b \in Blocks, heap_get_start_block_index(t, n, b)
  PROVE  /\ live[b] = 0
         /\ n > 0 => Encodes(heap_mark_blocks_taken(t, b, n), [live EXCEPT ![b] = n])
         /\ n = 0 => Encodes(heap_mark_blocks_taken(t, b, n), live)
<1> DEFINE u == heap_mark_blocks_taken(t, b, n)
<1>1. \A i \in Blocks : b <= i /\ i < b + n => ~ \E c \in Blocks : Covered(live, c, i)
  BY ScanFindsFreeBlocks, FreeBlockUncovered
<1>2. \A i \in Blocks : u[i] = IF b <= i /\ i < b + n THEN TakenEntry(b, n, i) ELSE t[i]
  BY DEF heap_mark_blocks_taken
<1> HIDE DEF u
<1>0. live[b] = 0
  <2>1. IsFree(t[b])
    BY ScanFindsFreeBlocks DEF Blocks
  <2>2. ~Covered(live, b, b)
    BY <2>1, FreeBlockUncovered
  <2>3. QED
    BY <2>2 DEF Covered, Blocks
<1>3. ASSUME n > 0
      PROVE  Encodes(u, [live EXCEPT ![b] = n])
  <2> DEFINE after == [live EXCEPT ![b] = n]
  <2>2. /\ after[b] = n
        /\ \A c \in Blocks : c # b => after[c] = live[c]
    OBVIOUS
  <2> HIDE DEF after
  <2>3. \A i \in Blocks : Covered(after, b, i) <=> b <= i /\ i < b + n
    BY <2>2 DEF Covered
  <2>4. \A c \in Blocks : c # b => \A i \in Blocks : Covered(after, c, i) <=> Covered(live, c, i)
    BY <2>2 DEF Covered
  <2>5. ASSUME NEW i \in Blocks, NEW c \in Blocks, Covered(after, c, i)
        PROVE  u[i] = TakenEntry(c, after[c], i)
    <3>1. CASE c = b
      BY <1>2, <2>2, <2>3, <2>5, <3>1
    <3>2. CASE c # b
      <4>1. Covered(live, c, i)
        BY <2>4, <2>5, <3>2
      <4>2. QED
        BY <1>1, <1>2, <2>2, <3>2, <4>1 DEF Encodes
    <3>3. QED
      BY <3>1, <3>2
  <2>6. ASSUME NEW i \in Blocks, \A c \in Blocks : ~Covered(after, c, i)
        PROVE  u[i] = FREE
    <3>1. \A c \in Blocks : ~Covered(live, c, i)
      BY <1>0, <2>4, <2>6 DEF Covered, Blocks
    <3>2. QED
      BY <1>2, <2>3, <2>6, <3>1 DEF Encodes
  <2>7. Encodes(u, after)
    BY <2>5, <2>6 DEF Encodes
  <2>8. QED
    BY <2>7 DEF after
<1>4. ASSUME n = 0
      PROVE  Encodes(u, live)
  <2>1. \A i \in Blocks : u[i] = t[i]
    BY <1>2, <1>4 DEF Blocks
  <2>2. QED
    BY <2>1 DEF Encodes
<1>5. QED
  BY <1>0, <1>3, <1>4 DEF u

\* The table after the freeing loop has run from each block of S, and the
\* allocations without those at the blocks of S.
FreedAll(t, h, S) ==
  [i \in Blocks |-> IF \E s \in S : i \in FreedFrom(t, h, s) THEN FREE ELSE t[i]]
Without(live, S) == [b \in Blocks |-> IF b \in S THEN 0 ELSE live[b]]

\* Freeing the blocks that the loop visits from the first blocks of some live
\* allocations describes the others.
LEMMA FreedEncodes ==
  ASSUME NEW t, NEW h, NEW live \in [Blocks -> Nat], Encodes(t, live),
         NEW S \in SUBSET Blocks, \A s \in S : live[s] > 0
  PROVE  Encodes(FreedAll(t, h, S), Without(live, S))
<1> DEFINE u == FreedAll(t, h, S)
<1> DEFINE after == Without(live, S)
<1>0. /\ \A i \in Blocks : u[i] = IF \E s \in S : i \in FreedFrom(t, h, s)
                                  THEN FREE ELSE t[i]
      /\ \A b \in Blocks : after[b] = IF b \in S THEN 0 ELSE live[b]
  BY DEF FreedAll, Without
<1> HIDE DEF u, after
<1>1. \A i \in Blocks : (\E s \in S : i \in FreedFrom(t, h, s)) <=> \E s \in S : Covered(live, s, i)
  <2>1. ASSUME NEW i \in Blocks, NEW s \in S
        PROVE  i \in FreedFrom(t, h, s) <=> Covered(live, s, i)
    <3>1. i \in Int /\ s \in Blocks /\ live[s] > 0
      BY HeapAssumption DEF Blocks
    <3>2. QED
      BY <3>1, FreedIsTheAllocation
  <2>2. QED
    BY <2>1
<1>2. \A b \in S : \A i \in Blocks : ~Covered(after, b, i)
  BY <1>0 DEF Covered, Blocks
<1>3. \A b \in Blocks \ S : \A i \in Blocks : Covered(after, b, i) <=> Covered(live, b, i)
  BY <1>0 DEF Covered
<1>4. ASSUME NEW i \in Blocks, NEW c \in Blocks, Covered(after, c, i)
      PROVE  u[i] = TakenEntry(c, after[c], i)
  <2>1. c \notin S /\ Covered(live, c, i) /\ after[c] = live[c]
    BY <1>0, <1>2, <1>3, <1>4
  <2>2. ~ \E s \in S : Covered(live, s, i)
    BY <2>1, AllocationsShareNoBlock DEF Blocks
  <2>3. QED
    BY <1>0, <1>1, <2>1, <2>2 DEF Encodes
<1>5. ASSUME NEW i \in Blocks, \A c \in Blocks : ~Covered(after, c, i)
      PROVE  u[i] = FREE
  <2>1. CASE \E s \in S : Covered(live, s, i)
    BY <1>0, <1>1, <2>1
  <2>2. CASE ~ \E s \in S : Covered(live, s, i)
    <3>1. \A c \in Blocks : ~Covered(live, c, i)
      BY <1>3, <1>5, <2>2
    <3>2. QED
      BY <1>0, <1>1, <2>2, <3>1 DEF Encodes
  <2>3. QED
    BY <2>1, <2>2
<1>6. Encodes(u, after)
  BY <1>4, <1>5 DEF Encodes
<1>7. QED
  BY <1>6 DEF u, after
=============================================================================
