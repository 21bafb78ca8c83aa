---------------------------- MODULE HeapCallProofs ----------------------------
(***************************************************************************)
(* The loops of heap.c compute what HeapOps says, for every table: the     *)
(* loop invariants and their proofs.                                       *)
(***************************************************************************)
EXTENDS HeapCall, HeapOpsProofs

\* The scan: bs is the start of the run of free blocks that ends before i and
\* bc its length, and no run of total_blocks free blocks ends at or before i.
ScanInv ==
  /\ call = "heap_malloc"
  /\ table = table0 /\ past = {}
  /\ i \in 0 .. TotalEntries
  /\ \A b \in Blocks : RunFits(table, b, total_blocks) => b + total_blocks > i
  /\ bs = NoBlock => bc = 0 /\ (i > 0 => ~IsFree(table[i - 1]))
  /\ bs # NoBlock => /\ bs \in 0 .. i - 1
                     /\ bc = i - bs
                     /\ total_blocks > 0 => bc < total_blocks
                     /\ \A j \in bs .. i - 1 : IsFree(table[j])
                     /\ bs > 0 => ~IsFree(table[bs - 1])

\* The marking loop: the entries from bs to i - 1 are written, entry is the
\* one that block i gets.
MarkInv ==
  /\ call = "heap_malloc"
  /\ bs \in Blocks
  /\ heap_get_start_block_index(table0, total_blocks, bs)
  /\ bs <= i /\ i <= bs + total_blocks
  /\ i < bs + total_blocks => entry = TakenEntry(bs, total_blocks, i)
  /\ \A j \in Blocks : table[j] = IF bs <= j /\ j < i THEN TakenEntry(bs, total_blocks, j)
                                                       ELSE table0[j]
  /\ past = TotalEntries .. (i - 1)

\* The freeing loop: every entry from bs to i - 1 had HAS_NEXT and is cleared.
FreeInv ==
  /\ call = "heap_free"
  /\ past = {}
  /\ bs <= i /\ i <= TotalEntries /\ -Gap <= bs
  /\ \A j \in bs .. i - 1 : HasNext(table0, high0, j)
  /\ \A j \in Blocks : table[j] = IF bs <= j /\ j < i THEN FREE ELSE table0[j]
  /\ high = high0 \ (bs .. i - 1)

\* What heap_malloc has done when it returns, the case without a fitting run
\* included: the block is one heap_get_start_block_index allows, and the entries
\* written are that allocation's, the part inside the table as
\* heap_mark_blocks_taken says and the rest past the table's end.
MallocComputes ==
  pc = "done" /\ call = "heap_malloc" =>
    /\ heap_get_start_block_index(table0, total_blocks, bs)
    /\ bs = NoBlock => table = table0 /\ past = {}
    /\ bs # NoBlock => /\ table = heap_mark_blocks_taken(table0, bs, total_blocks)
                       /\ past = TotalEntries .. (bs + total_blocks - 1)

CallInv ==
  /\ TypeOK
  /\ pc = "scan" => ScanInv
  /\ pc = "mark" => MarkInv
  /\ pc = "free" => FreeInv
  /\ MallocComputes
  /\ FreeMeetsSpec

-----------------------------------------------------------------------------
\* Both calls start with their loop invariants true.
LEMMA InitCallInv == Init => CallInv
<1> USE HeapAssumption
<1> SUFFICES ASSUME Init PROVE CallInv
  OBVIOUS
<1>1. TypeOK
  <2>1. size \in Nat /\ bs \in Int /\ i \in Int
    <3>1. \A x \in Sizes : x \in Nat
      BY CallAssumption
    <3>2. CASE MallocBegins
      BY <3>1, <3>2 DEF MallocBegins, NoBlock
    <3>3. CASE FreeBegins
      BY <3>3 DEF FreeBegins, Blocks
    <3>4. QED
      BY <3>2, <3>3 DEF Init
  <2>2. FREE \in Entry
    BY DEF FREE, Entry
  <2>3. QED
    BY <2>1, <2>2 DEF Init, CallBegins, MallocBegins, FreeBegins, TypeOK
<1>2. CASE MallocBegins
  <2>1. size \in Nat /\ total_blocks \in Nat
    BY <1>1, TotalBlocksType DEF TypeOK, total_blocks
  <2>2. ScanInv
    BY <1>2, <2>1 DEF Init, CallBegins, MallocBegins, ScanInv, RunFits, Blocks
  <2>3. QED
    BY <1>1, <1>2, <2>2 DEF MallocBegins, CallInv, MallocComputes, FreeMeetsSpec
<1>3. CASE FreeBegins
  <2>1. FreeInv
    BY <1>1, <1>3 DEF Init, CallBegins, FreeBegins, FreeInv, Blocks, TypeOK
  <2>2. QED
    BY <1>1, <1>3, <2>1 DEF FreeBegins, CallInv, MallocComputes, FreeMeetsSpec
<1>4. QED
  BY <1>2, <1>3 DEF Init

\* The number of blocks is a natural number.
LEMMA BlockCountType == TypeOK => total_blocks \in Nat
BY TotalBlocksType DEF TypeOK, total_blocks

\* The scan passes a taken block.
LEMMA ScanTakenInv == CallInv /\ ScanTaken => CallInv'
<1> USE HeapAssumption
<1> SUFFICES ASSUME CallInv, ScanTaken PROVE CallInv'
  OBVIOUS
<1>1. TypeOK /\ ScanInv /\ total_blocks \in Nat /\ total_blocks' = total_blocks
  BY BlockCountType DEF CallInv, ScanTaken, total_blocks
<1>2. TypeOK'
  BY <1>1 DEF TypeOK, ScanTaken, NoBlock
<1>3. ASSUME NEW b \in Blocks, RunFits(table, b, total_blocks)
      PROVE  b + total_blocks > i + 1
  <2>1. b + total_blocks > i
    BY <1>1, <1>3 DEF ScanInv
  <2>2. b + total_blocks # i + 1
    BY <1>1, <1>3, <2>1 DEF RunFits, ScanTaken, Blocks, ScanInv
  <2>3. QED
    BY <1>1, <2>1, <2>2 DEF ScanInv, Blocks
<1>4. ScanInv'
  BY <1>1, <1>3 DEF ScanInv, ScanTaken, RunFits, Blocks
<1>5. QED
  BY <1>2, <1>4 DEF CallInv, ScanTaken, MallocComputes, FreeMeetsSpec

\* What the marking loop starts from.
LEMMA StartMarkingInv ==
  ASSUME CallInv, NEW b \in Blocks, StartMarking(b), bs' = b, bc' \in Nat,
         heap_get_start_block_index(table0, total_blocks, b), call = "heap_malloc",
         table = table0, past = {},
         UNCHANGED <<call, table, high, past, size, table0, high0>>
  PROVE  CallInv'
<1> USE HeapAssumption
<1>1. TypeOK /\ total_blocks \in Nat /\ total_blocks' = total_blocks
  BY BlockCountType DEF CallInv, total_blocks
<1>2. TypeOK'
  BY <1>1 DEF TypeOK, StartMarking, Blocks, Entry, Flags
<1>3. total_blocks > 0 => entry' = TakenEntry(b, total_blocks, b)
  BY <1>1 DEF StartMarking, TakenEntry, Blocks
<1>4. past' = TotalEntries .. (i' - 1)
  BY DEF StartMarking, Blocks
<1>5. MarkInv'
  BY <1>1, <1>3, <1>4 DEF MarkInv, StartMarking, Blocks, TypeOK
<1>6. QED
  BY <1>2, <1>5 DEF CallInv, StartMarking, MallocComputes, FreeMeetsSpec

\* The scan passes a free block or finds the run it looks for.
LEMMA ScanFreeInv == CallInv /\ ScanFree => CallInv'
<1> USE HeapAssumption
<1> SUFFICES ASSUME CallInv, ScanFree PROVE CallInv'
  OBVIOUS
<1>1. TypeOK /\ ScanInv /\ total_blocks \in Nat /\ total_blocks' = total_blocks
  BY BlockCountType DEF CallInv, ScanFree, total_blocks
<1> DEFINE start == IF bs = NoBlock THEN i ELSE bs
<1>2. bs' = start /\ bc' = bc + 1
  BY DEF ScanFree
<1>3. i \in Blocks /\ start \in 0 .. i /\ bc + 1 = i + 1 - start
  BY <1>1 DEF ScanFree, ScanInv, Blocks, TypeOK
<1>4. total_blocks > 0 => bc + 1 <= total_blocks
  BY <1>1 DEF ScanInv, TypeOK
<1>5. \A j \in start .. i : IsFree(table[j])
  BY <1>1 DEF ScanFree, ScanInv, TypeOK
<1>6. start > 0 => ~IsFree(table[start - 1])
  BY <1>1 DEF ScanInv
<1>7. \A b \in Blocks : RunFits(table, b, total_blocks) => b + total_blocks > i
  BY <1>1 DEF ScanInv
<1> HIDE DEF start
<1>8. CASE bc + 1 = total_blocks
  <2>1. RunFits(table, start, total_blocks)
    BY <1>1, <1>3, <1>5, <1>8 DEF RunFits, Blocks, TypeOK
  <2>2. ASSUME NEW c \in 0 .. start - 1
        PROVE  ~RunFits(table, c, total_blocks)
    BY <1>1, <1>3, <1>7, <1>8 DEF Blocks, TypeOK
  <2>3. start \in Blocks /\ bc + 1 \in Nat
    BY <1>1, <1>3 DEF Blocks, TypeOK
  <2>4. heap_get_start_block_index(table0, total_blocks, start)
    BY <1>1, <2>1, <2>2, <2>3 DEF heap_get_start_block_index, ScanInv
  <2>5. QED
    BY <1>1, <1>2, <1>8, <2>3, <2>4, StartMarkingInv DEF ScanFree, ScanInv
<1>9. CASE bc + 1 # total_blocks
  <2>1. ASSUME NEW b \in Blocks, RunFits(table, b, total_blocks)
        PROVE  b + total_blocks > i + 1
    <3>1. b + total_blocks > i
      BY <1>7, <2>1
    <3>2. ASSUME b + total_blocks = i + 1 PROVE FALSE
      <4>1. total_blocks > 0 /\ bc + 1 < total_blocks
        BY <1>1, <1>4, <1>9, <2>1 DEF RunFits, TypeOK
      <4>2. start > 0 /\ start - 1 \in b .. b + total_blocks - 1
        BY <1>1, <1>3, <3>2, <4>1 DEF Blocks, TypeOK
      <4>3. QED
        BY <1>6, <2>1, <4>2 DEF RunFits
    <3>3. QED
      BY <1>1, <1>3, <3>1, <3>2 DEF Blocks
  <2>2. i' = i + 1 /\ UNCHANGED <<call, pc, table, high, past, size, entry, table0, high0>>
    BY <1>2, <1>9 DEF ScanFree
  <2>3. start # NoBlock
    BY <1>3 DEF NoBlock, Blocks
  <2>4. total_blocks > 0 => bc + 1 < total_blocks
    BY <1>1, <1>4, <1>9 DEF TypeOK
  <2>5. \A b \in Blocks : RunFits(table', b, total_blocks') => b + total_blocks' > i'
    BY <1>1, <2>1, <2>2
  <2>6. ScanInv'
    BY <1>1, <1>2, <1>3, <1>5, <1>6, <2>2, <2>3, <2>4, <2>5 DEF ScanInv, Blocks
  <2>7. TypeOK'
    BY <1>1, <1>2, <1>3, <2>2 DEF TypeOK, Blocks
  <2>8. QED
    BY <2>2, <2>6, <2>7 DEF CallInv, ScanFree, MallocComputes, FreeMeetsSpec
<1>10. QED
  BY <1>8, <1>9

\* The scan reaches the end of the table.
LEMMA ScanEndsInv == CallInv /\ ScanEnds => CallInv'
<1> USE HeapAssumption
<1> SUFFICES ASSUME CallInv, ScanEnds PROVE CallInv'
  OBVIOUS
<1>1. TypeOK /\ ScanInv /\ total_blocks \in Nat /\ total_blocks' = total_blocks /\ i = TotalEntries
  BY BlockCountType DEF CallInv, ScanEnds, total_blocks
<1>2. NoRunFits(table, total_blocks)
  <2>1. \A b \in Blocks : RunFits(table, b, total_blocks) => b + total_blocks > TotalEntries
    BY <1>1 DEF ScanInv
  <2>2. \A b \in Blocks : RunFits(table, b, total_blocks) => b + total_blocks <= TotalEntries
    BY DEF RunFits
  <2>3. QED
    BY <1>1, <2>1, <2>2 DEF NoRunFits, Blocks
<1>3. CASE bs = NoBlock
  <2>1. heap_get_start_block_index(table0, total_blocks, bs)
    BY <1>1, <1>2, <1>3 DEF heap_get_start_block_index, ScanInv
  <2>2. MallocComputes'
    BY <1>1, <1>3, <2>1 DEF MallocComputes, ScanEnds, ScanInv
  <2>3. TypeOK'
    BY <1>1, <1>3 DEF TypeOK, ScanEnds
  <2>4. QED
    BY <1>1, <1>3, <2>2, <2>3 DEF CallInv, ScanEnds, ScanInv, FreeMeetsSpec
<1>4. CASE bs # NoBlock
  <2>1. bs \in Blocks /\ StartsTail(table, bs)
    BY <1>1, <1>4 DEF ScanInv, StartsTail, Blocks
  <2>2. heap_get_start_block_index(table0, total_blocks, bs)
    BY <1>1, <1>2, <2>1 DEF heap_get_start_block_index, ScanInv
  <2>3. QED
    BY <1>1, <1>4, <2>1, <2>2, StartMarkingInv DEF ScanEnds, ScanInv, TypeOK
<1>5. QED
  BY <1>3, <1>4

\* The marking loop writes one entry or ends.
LEMMA MarkPreservesInv == CallInv /\ Mark => CallInv'
<1> USE HeapAssumption
<1> SUFFICES ASSUME CallInv, Mark PROVE CallInv'
  OBVIOUS
<1> DEFINE n == total_blocks
<1>1. TypeOK /\ MarkInv /\ n \in Nat /\ n' = n
  BY BlockCountType DEF CallInv, Mark, total_blocks
<1> HIDE DEF n
<1>2. /\ bs \in Blocks /\ bs <= i /\ i <= bs + n /\ i \in Nat
      /\ past = TotalEntries .. (i - 1)
      /\ i < bs + n => entry = TakenEntry(bs, n, i)
  BY <1>1 DEF MarkInv, TypeOK, Blocks, n
<1>3. \A j \in Blocks : table[j] = IF bs <= j /\ j < i THEN TakenEntry(bs, n, j)
                                                       ELSE table0[j]
  BY <1>1 DEF MarkInv, n
<1>4. CASE i <= bs + n - 1
  <2>1. entry = TakenEntry(bs, n, i)
    BY <1>1, <1>2, <1>4 DEF Blocks
  <2>2. /\ i' = i + 1 /\ pc' = "mark" /\ pc = "mark"
        /\ entry' = {"TAKEN"} \cup (IF i # bs + n - 2 THEN {"HAS_NEXT"} ELSE {})
        /\ UNCHANGED <<call, high, size, bs, bc, table0, high0>>
    BY <1>4 DEF Mark, n
  <2>3. i + 1 < bs + n => entry' = TakenEntry(bs, n, i + 1)
    BY <1>1, <1>2, <2>2 DEF TakenEntry, Blocks
  <2>4. past' = TotalEntries .. i
    <3>1. CASE i \in Blocks
      <4>1. TotalEntries .. (i - 1) = {} /\ TotalEntries .. i = {}
        BY <3>1 DEF Blocks
      <4>2. past' = past
        BY <1>4, <3>1 DEF Mark, n
      <4>3. QED
        BY <1>2, <4>1, <4>2
    <3>2. CASE i \notin Blocks
      <4>1. i >= TotalEntries
        BY <1>2, <3>2 DEF Blocks
      <4>2. past' = (TotalEntries .. (i - 1)) \cup {i}
        BY <1>2, <1>4, <3>2 DEF Mark, n
      <4>3. \A x : x \in (TotalEntries .. (i - 1)) \cup {i} <=> x \in TotalEntries .. i
        BY <1>2, <4>1
      <4>4. QED
        BY <4>2, <4>3
    <3>3. QED
      BY <3>1, <3>2
  <2>5. table' \in [Blocks -> Entry] /\
        \A j \in Blocks : table'[j] = IF j = i THEN entry ELSE table[j]
    BY <1>1, <1>4 DEF Mark, TypeOK, n
  <2>6. \A j \in Blocks : table'[j] = IF bs <= j /\ j < i + 1 THEN TakenEntry(bs, n, j)
                                                               ELSE table0[j]
    BY <1>2, <1>3, <2>1, <2>5 DEF Blocks
  <2>7. TypeOK'
    BY <1>1, <1>2, <2>2, <2>4, <2>5 DEF TypeOK, Entry, Flags
  <2>8. MarkInv'
    BY <1>1, <1>2, <1>4, <2>2, <2>3, <2>4, <2>6 DEF MarkInv, n, Blocks
  <2>9. QED
    BY <2>2, <2>7, <2>8 DEF CallInv, MallocComputes, FreeMeetsSpec
<1>5. CASE ~(i <= bs + n - 1)
  <2>1. i = bs + n
    BY <1>1, <1>2, <1>5 DEF Blocks
  <2>2. pc' = "done" /\ UNCHANGED <<call, table, high, past, size, bs, bc, i, entry, table0, high0>>
    BY <1>5 DEF Mark, n
  <2>3. table = heap_mark_blocks_taken(table0, bs, n)
    BY <1>1, <1>3, <2>1 DEF heap_mark_blocks_taken, TypeOK
  <2>4. bs # NoBlock
    BY <1>2 DEF NoBlock, Blocks
  <2>5. MallocComputes'
    <3>1. heap_get_start_block_index(table0, n, bs)
      BY <1>1 DEF MarkInv, n
    <3>2. past = TotalEntries .. (bs + n - 1)
      <4>1. i - 1 = bs + n - 1
        BY <1>1, <1>2, <2>1 DEF Blocks
      <4>2. QED
        BY <1>2, <4>1
    <3>3. UNCHANGED <<n, bs, table, table0, past>>
      BY <1>1, <2>2
    <3>4. QED
      BY <2>3, <2>4, <3>1, <3>2, <3>3 DEF MallocComputes, n
  <2>6. QED
    BY <1>1, <2>2, <2>5 DEF CallInv, MarkInv, TypeOK, FreeMeetsSpec
<1>6. QED
  BY <1>4, <1>5

\* The freeing loop clears one entry or ends.
LEMMA FreePreservesInv == CallInv /\ Free => CallInv'
<1> USE HeapAssumption
<1> SUFFICES ASSUME CallInv, Free PROVE CallInv'
  OBVIOUS
<1>1. TypeOK /\ FreeInv
  BY DEF CallInv, Free
<1>2. /\ call = "heap_free" /\ past = {}
      /\ bs \in Int /\ i \in Int /\ bs <= i /\ i <= TotalEntries /\ -Gap <= bs
      /\ high = high0 \ (bs .. i - 1)
  BY <1>1 DEF FreeInv, TypeOK
<1>3. \A j \in bs .. i - 1 : HasNext(table0, high0, j)
  BY <1>1 DEF FreeInv
<1>4. \A j \in Blocks : table[j] = IF bs <= j /\ j < i THEN FREE ELSE table0[j]
  BY <1>1 DEF FreeInv
<1>5. UNCHANGED <<call, past, size, bs, bc, entry, table0, high0>> /\ pc = "free"
  BY DEF Free
<1>6. CASE i < TotalEntries
  <2>1. /\ table' \in [Blocks -> Entry]
        /\ \A j \in Blocks : table'[j] = IF j = i THEN FREE ELSE table[j]
    <3>1. CASE i >= 0
      <4>1. i \in Blocks /\ table' = [table EXCEPT ![i] = FREE]
        BY <1>2, <1>6, <3>1 DEF Free, Blocks
      <4>2. FREE \in Entry
        BY DEF FREE, Entry
      <4>3. QED
        BY <1>1, <4>1, <4>2 DEF TypeOK
    <3>2. CASE ~(i >= 0)
      BY <1>1, <1>2, <1>6, <3>2 DEF Free, Blocks, TypeOK
    <3>3. QED
      BY <3>1, <3>2
  <2>2. high' = high \ {i}
    BY <1>6 DEF Free
  <2>3. HasNext(table, high, i) <=> HasNext(table0, high0, i)
    <3>1. CASE i < 0
      BY <1>2, <3>1 DEF HasNext
    <3>2. CASE ~(i < 0)
      <4>1. i \in Blocks
        BY <1>2, <1>6, <3>2 DEF Blocks
      <4>2. QED
        BY <1>2, <1>4, <3>2, <4>1 DEF HasNext
    <3>3. QED
      BY <3>1, <3>2
  <2>4. \A j \in Blocks : table'[j] = IF bs <= j /\ j <= i THEN FREE ELSE table0[j]
    BY <1>2, <1>4, <2>1 DEF Blocks
  <2>5. high' = high0 \ (bs .. i)
    BY <1>2, <2>2
  <2>6. TypeOK'
    <3>1. high' \subseteq BelowTable
      BY <1>1, <2>2 DEF TypeOK
    <3>2. i' \in Int /\ pc' \in {"free", "done"}
      BY <1>2, <1>5, <1>6 DEF Free
    <3>3. QED
      BY <1>1, <1>5, <2>1, <3>1, <3>2 DEF TypeOK
  <2>7. CASE HasNext(table, high, i)
    <3>1. i' = i + 1 /\ pc' = "free"
      BY <1>5, <1>6, <2>7 DEF Free
    <3>2. \A j \in bs .. i : HasNext(table0, high0, j)
      BY <1>2, <1>3, <2>3, <2>7
    <3>3. FreeInv'
      BY <1>2, <1>5, <1>6, <2>4, <2>5, <3>1, <3>2 DEF FreeInv, Blocks
    <3>4. QED
      BY <2>6, <3>1, <3>3 DEF CallInv, MallocComputes, FreeMeetsSpec
  <2>8. CASE ~HasNext(table, high, i)
    <3>1. i' = i /\ pc' = "done"
      BY <1>6, <2>8 DEF Free
    <3>2. FreedFrom(table0, high0, bs) = bs .. i
      <4>1. ASSUME NEW j \in bs .. TotalEntries - 1, j > i
            PROVE  ~\A k \in bs .. j - 1 : HasNext(table0, high0, k)
        BY <1>2, <2>3, <2>8, <4>1
      <4>2. ASSUME NEW j \in bs .. i
            PROVE  \A k \in bs .. j - 1 : HasNext(table0, high0, k)
        BY <1>2, <1>3, <4>2
      <4>3. \A j \in bs .. i : j \in bs .. TotalEntries - 1
        BY <1>2, <1>6
      <4>4. QED
        BY <1>2, <4>1, <4>2, <4>3 DEF FreedFrom
    <3>3. FreeMeetsSpec'
      <4>1. table' = heap_mark_blocks_free(table0, high0, bs)
        BY <1>2, <2>1, <2>4, <3>2 DEF heap_mark_blocks_free, Blocks
      <4>2. QED
        BY <1>2, <1>5, <2>5, <3>2, <4>1 DEF FreeMeetsSpec
    <3>4. QED
      BY <1>2, <1>5, <2>6, <3>1, <3>3 DEF CallInv, MallocComputes
  <2>9. QED
    BY <2>7, <2>8
<1>7. CASE ~(i < TotalEntries)
  <2>1. i = TotalEntries /\ pc' = "done" /\ UNCHANGED <<table, high, i>>
    BY <1>2, <1>7 DEF Free
  <2>2. FreedFrom(table0, high0, bs) = bs .. (i - 1)
    <3>1. ASSUME NEW j \in bs .. i - 1
          PROVE  \A k \in bs .. j - 1 : HasNext(table0, high0, k)
      BY <1>2, <1>3, <3>1
    <3>2. QED
      BY <1>2, <2>1, <3>1 DEF FreedFrom
  <2>3. table = heap_mark_blocks_free(table0, high0, bs)
    BY <1>1, <1>2, <1>4, <2>2 DEF heap_mark_blocks_free, Blocks, TypeOK
  <2>4. FreeMeetsSpec'
    BY <1>2, <1>5, <2>1, <2>2, <2>3 DEF FreeMeetsSpec
  <2>5. TypeOK'
    BY <1>1, <1>5, <2>1 DEF TypeOK
  <2>6. QED
    BY <1>2, <1>5, <2>1, <2>4, <2>5 DEF CallInv, MallocComputes
<1>8. QED
  BY <1>6, <1>7

\* Every iteration preserves the invariant.
LEMMA NextCallInv == CallInv /\ [Next]_vars => CallInv'
<1> SUFFICES ASSUME CallInv, [Next]_vars PROVE CallInv'
  OBVIOUS
<1>1. CASE UNCHANGED vars
  <2>1. total_blocks' = total_blocks
    BY <1>1 DEF vars, total_blocks
  <2>2. QED
    BY <1>1, <2>1 DEF vars, CallInv, TypeOK, ScanInv, MarkInv, FreeInv,
                      MallocComputes, FreeMeetsSpec
<1>2. QED
  BY <1>1, ScanTakenInv, ScanFreeInv, ScanEndsInv, MarkPreservesInv, FreePreservesInv
  DEF Next, Returned

\* The loop invariants hold throughout every call.
THEOREM CallInvariant == Spec => []CallInv
BY InitCallInv, NextCallInv, PTL DEF Spec

\* heap_malloc's scan and marking loops compute, on every table and for every
\* size, what Heap takes them to compute in one step.
THEOREM MallocAsInHeap == Spec => []MallocComputes
<1>1. CallInv => MallocComputes
  BY DEF CallInv
<1>2. QED
  BY <1>1, CallInvariant, PTL

\* heap_malloc keeps heap.c's promise on every table and for every size: the
\* first run that fits, or a failure that changes nothing, and never a block
\* that was taken.
THEOREM MallocCorrect == Spec => []MallocMeetsSpec
<1> USE HeapAssumption
<1>1. ASSUME CallInv, pc = "done", call = "heap_malloc"
      PROVE  MallocMeetsSpec
  <2> DEFINE n == total_blocks
  <2>1. TypeOK /\ n \in Nat
    BY <1>1, BlockCountType DEF CallInv
  <2>2. /\ heap_get_start_block_index(table0, n, bs)
        /\ bs = NoBlock => table = table0 /\ past = {}
        /\ bs # NoBlock => /\ table = heap_mark_blocks_taken(table0, bs, n)
                           /\ past = TotalEntries .. (bs + n - 1)
    BY <1>1 DEF CallInv, MallocComputes
  <2> HIDE DEF n
  <2>3. ASSUME ~NoRunFits(table0, n)
        PROVE  /\ RunFits(table0, bs, n)
               /\ \A b \in 0 .. bs - 1 : ~RunFits(table0, b, n)
               /\ table = heap_mark_blocks_taken(table0, bs, n)
               /\ past = {}
    <3>1. /\ bs \in Blocks /\ RunFits(table0, bs, n)
          /\ \A b \in 0 .. bs - 1 : ~RunFits(table0, b, n)
      BY <2>2, <2>3 DEF heap_get_start_block_index
    <3>2. bs # NoBlock
      BY <3>1 DEF Blocks, NoBlock
    <3>3. TotalEntries .. (bs + n - 1) = {}
      BY <2>1, <3>1 DEF RunFits, Blocks
    <3>4. QED
      BY <2>2, <3>1, <3>2, <3>3
  <2>4. ASSUME bs = NoBlock
        PROVE  NoRunFits(table0, n) /\ table = table0 /\ past = {}
    BY <2>2, <2>4 DEF heap_get_start_block_index, Blocks, NoBlock
  <2>5. ASSUME NEW j \in Blocks, table[j] # table0[j]
        PROVE  IsFree(table0[j])
    <3>1. bs # NoBlock
      BY <2>2, <2>5
    <3>2. bs \in Blocks /\ bs <= j /\ j < bs + n
      BY <2>2, <2>5, <3>1 DEF heap_mark_blocks_taken, heap_get_start_block_index
    <3>3. CASE RunFits(table0, bs, n)
      BY <2>1, <3>2, <3>3 DEF RunFits, Blocks
    <3>4. CASE StartsTail(table0, bs)
      BY <3>2, <3>4 DEF StartsTail, Blocks
    <3>5. QED
      BY <2>2, <3>1, <3>3, <3>4 DEF heap_get_start_block_index
  <2>6. QED
    BY <2>3, <2>4, <2>5 DEF MallocMeetsSpec, n
<1>2. CallInv => MallocMeetsSpec
  BY <1>1 DEF MallocMeetsSpec
<1>3. QED
  BY <1>2, CallInvariant, PTL

\* heap_free's loop computes what Heap takes it to compute, from a block of
\* the table and from NULL.
THEOREM FreeCorrect == Spec => []FreeMeetsSpec
<1>1. CallInv => FreeMeetsSpec
  BY DEF CallInv
<1>2. QED
  BY <1>1, CallInvariant, PTL
=============================================================================
