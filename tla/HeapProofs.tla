------------------------------ MODULE HeapProofs ------------------------------
(***************************************************************************)
(* Proofs about module Heap, for every table size, block size, word size   *)
(* and set of request sizes.                                               *)
(***************************************************************************)
EXTENDS Heap, HeapOpsProofs

\* The inductive invariant: the table encodes what clients hold, and the byte
\* that stops heap_free(NULL) is still there.
Inv ==
  /\ TypeOK
  /\ TableEncodesLive
  /\ BootSignature \notin high

-----------------------------------------------------------------------------
\* What the clients hold is what the table describes, in the words of the
\* lemmas on tables.
LEMMA EncodesLive == TableEncodesLive <=> Encodes(table, live)
BY DEF TableEncodesLive, Covers, Encodes, Covered

\* The empty heap satisfies the invariant.
LEMMA InitInv == Init => Inv
<1> USE HeapAssumption
<1> SUFFICES ASSUME Init PROVE Inv
  OBVIOUS
<1>1. TypeOK
  BY DEF Init, TypeOK, Entry, Flags, FREE
<1>2. TableEncodesLive
  BY EmptyTableEncodes, EncodesLive DEF Init
<1>3. QED
  BY <1>1, <1>2 DEF Init, Inv

\* An allocation preserves it.
LEMMA KmallocInv ==
  ASSUME Inv, NEW size \in Sizes, NEW b \in Blocks, kmalloc(size, b)
  PROVE  Inv'
<1> DEFINE n == TotalBlocks(size)
<1>1. n \in Nat
  BY TotalBlocksType, ClientAssumption, HeapAssumption
<1> HIDE DEF n
<1>2. /\ heap_get_start_block_index(table, n, b)
      /\ table' = heap_mark_blocks_taken(table, b, n)
      /\ live' = IF n > 0 THEN [live EXCEPT ![b] = n] ELSE live
      /\ high' = high
  BY DEF kmalloc, n
<1>3. TypeOK /\ Encodes(table, live)
  BY EncodesLive DEF Inv
<1>4. TypeOK'
  <2>1. \A i : TakenEntry(b, n, i) \in Entry
    BY TakenEntryType
  <2>2. table' \in [Blocks -> Entry]
    BY <1>2, <1>3, <2>1 DEF heap_mark_blocks_taken, TypeOK
  <2>3. QED
    BY <1>1, <1>2, <1>3, <2>2 DEF TypeOK
<1>5. Encodes(table', live')
  <2>1. live \in [Blocks -> Nat]
    BY <1>3 DEF TypeOK
  <2>2. /\ n > 0 => Encodes(heap_mark_blocks_taken(table, b, n), [live EXCEPT ![b] = n])
        /\ n = 0 => Encodes(heap_mark_blocks_taken(table, b, n), live)
    BY <1>1, <1>2, <1>3, <2>1, TakenEncodes
  <2>3. QED
    BY <1>1, <1>2, <2>2
<1>6. TableEncodesLive'
  BY <1>5 DEF TableEncodesLive, Covers, Encodes, Covered
<1>7. QED
  BY <1>2, <1>4, <1>6 DEF Inv

\* Freeing a held allocation preserves it.
LEMMA KfreeInv ==
  ASSUME Inv, NEW b \in Blocks, kfree(b)
  PROVE  Inv'
<1>1. TypeOK /\ Encodes(table, live)
  BY EncodesLive DEF Inv
<1>2. /\ live[b] > 0
      /\ table' = heap_mark_blocks_free(table, high, b)
      /\ high' = high \ FreedFrom(table, high, b)
      /\ live' = [live EXCEPT ![b] = 0]
  BY DEF kfree, heap_free
<1>3. TypeOK'
  <2>1. table' \in [Blocks -> Entry]
    BY <1>1, <1>2 DEF heap_mark_blocks_free, TypeOK, FREE, Entry
  <2>2. QED
    BY <1>1, <1>2, <2>1 DEF TypeOK
<1>4. Encodes(table', live')
  <2>1. live \in [Blocks -> Nat] /\ {b} \in SUBSET Blocks /\ \A s \in {b} : live[s] > 0
    BY <1>1, <1>2 DEF TypeOK
  <2>2. Encodes(FreedAll(table, high, {b}), Without(live, {b}))
    BY <1>1, <2>1, FreedEncodes
  <2>3. table' = FreedAll(table, high, {b})
    BY <1>2 DEF heap_mark_blocks_free, FreedAll
  <2>4. live' = Without(live, {b})
    BY <1>2, <2>1 DEF Without
  <2>5. QED
    BY <2>2, <2>3, <2>4
<1>5. TableEncodesLive'
  BY <1>4 DEF TableEncodesLive, Covers, Encodes, Covered
<1>6. QED
  BY <1>2, <1>3, <1>5 DEF Inv

\* Freeing NULL preserves it.
LEMMA KfreeNullInv ==
  ASSUME Inv, kfree_null
  PROVE  Inv' /\ table' = table
<1>1. TypeOK /\ TableEncodesLive /\ BootSignature \notin high
  BY DEF Inv
<1>2. /\ table' = heap_mark_blocks_free(table, high, -Gap)
      /\ high' = high \ FreedFrom(table, high, -Gap)
      /\ live' = live
  BY DEF kfree_null, heap_free
<1>3. table' = table
  BY <1>1, <1>2, NullFreeStopsBelowTable DEF heap_mark_blocks_free, TypeOK
<1>4. QED
  BY <1>1, <1>2, <1>3 DEF Inv, TypeOK, TableEncodesLive, Covers

\* Every step preserves it.
LEMMA NextInv == Inv /\ [Next]_vars => Inv'
<1> SUFFICES ASSUME Inv, [Next]_vars PROVE Inv'
  OBVIOUS
<1>1. ASSUME NEW size \in Sizes, NEW b \in Blocks, kmalloc(size, b)
      PROVE  Inv'
  BY <1>1, KmallocInv
<1>2. ASSUME NEW b \in Blocks, kfree(b)
      PROVE  Inv'
  BY <1>2, KfreeInv
<1>3. CASE kfree_null
  BY <1>3, KfreeNullInv
<1>4. CASE UNCHANGED vars
  BY <1>4 DEF vars, Inv, TypeOK, TableEncodesLive, Covers
<1>5. QED
  BY <1>1, <1>2, <1>3, <1>4 DEF Next, kmalloc_fails

-----------------------------------------------------------------------------
\* The inductive invariant holds of every behaviour of the heap.
THEOREM HeapInvariant == Spec => []Inv
BY InitInv, NextInv, PTL DEF Spec

\* Type correctness of the heap's state.
THEOREM HeapTypeCorrect == Spec => []TypeOK
<1>1. Inv => TypeOK
  BY DEF Inv
<1>2. QED
  BY <1>1, HeapInvariant, PTL

\* The entry table always describes exactly the allocations clients hold,
\* for any sequence of kmalloc, kfree and kfree(NULL) on any heap.
THEOREM HeapTableCorrect == Spec => []TableEncodesLive
<1>1. Inv => TableEncodesLive
  BY DEF Inv
<1>2. QED
  BY <1>1, HeapInvariant, PTL

\* kmalloc never hands out a block that a client holds.
THEOREM HeapDisjoint == Spec => []LiveDisjoint
<1>1. Inv => LiveDisjoint
  <2> SUFFICES ASSUME Inv, NEW b \in Blocks, NEW c \in Blocks,
                      b < c, live[b] > 0, live[c] > 0, ~(b + live[b] <= c)
               PROVE  FALSE
    BY DEF LiveDisjoint
  <2>1. live \in [Blocks -> Nat] /\ Encodes(table, live)
    BY EncodesLive DEF Inv, TypeOK
  <2>2. Covered(live, b, c) /\ Covered(live, c, c) /\ b # c
    BY <2>1 DEF Covered, Blocks
  <2>3. QED
    BY <2>1, <2>2, AllocationsShareNoBlock DEF Blocks
<1>2. QED
  BY <1>1, HeapInvariant, PTL

\* Neither kfree(NULL), nor a failed or an empty allocation changes the table.
THEOREM HeapTableStable == Spec => TableChangesWithLive
<1>1. Inv /\ [Next]_vars => [table' # table => live' # live]_vars
  <2> SUFFICES ASSUME Inv, Next, live' = live
               PROVE  table' = table
    BY DEF vars
  <2>1. TypeOK /\ Encodes(table, live)
    BY EncodesLive DEF Inv
  <2>2. ASSUME NEW size \in Sizes, NEW b \in Blocks, kmalloc(size, b)
        PROVE  table' = table
    <3> DEFINE n == TotalBlocks(size)
    <3>1. n \in Nat
      BY TotalBlocksType, ClientAssumption, HeapAssumption
    <3>2. n > 0 => live[b] = 0
      BY <2>1, <2>2, <3>1, TakenEncodes DEF kmalloc, TypeOK
    <3>3. n > 0 => live[b] = n
      BY <2>1, <2>2 DEF kmalloc, TypeOK
    <3>4. n = 0
      BY <3>1, <3>2, <3>3
    <3>5. \A i \in Blocks : ~(b <= i /\ i < b + n)
      BY <3>4 DEF Blocks
    <3>6. QED
      BY <2>1, <2>2, <3>5 DEF kmalloc, heap_mark_blocks_taken, TypeOK
  <2>3. ASSUME NEW b \in Blocks, kfree(b)
        PROVE  FALSE
    BY <2>1, <2>3 DEF kfree, TypeOK
  <2>4. QED
    BY <2>2, <2>3, KfreeNullInv DEF Next, kmalloc_fails, vars
<1>2. QED
  BY <1>1, HeapInvariant, PTL DEF Spec, TableChangesWithLive
=============================================================================
