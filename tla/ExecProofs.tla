----------------------------- MODULE ExecProofs -----------------------------
(***************************************************************************)
(* Page tables and the loading of programs, for every size of page, table, *)
(* stack and file: the loops of paging.c and process.c, and the invariant  *)
(* by which a task can write to no page that is not its own.               *)
(***************************************************************************)
EXTENDS Exec, WellFoundedInduction, TLAPS

-----------------------------------------------------------------------------
(* Loops.                                                                  *)

\* A set of numbers that has 0 and with a number the next one has them all.
LEMMA SetInduction ==
  ASSUME NEW A, 0 \in A, \A n \in Nat : n \in A => n + 1 \in A
  PROVE  Nat \subseteq A
<1> SUFFICES ASSUME Nat \ A # {} PROVE FALSE
  OBVIOUS
<1>1. PICK n \in Nat \ A : \A m \in Nat \ A : ~(<<m, n>> \in OpToRel(<, Nat))
  BY NatLessThanWellFounded, WFMin, Zenon
<1>2. n # 0 /\ n - 1 \in Nat
  OBVIOUS
<1>3. n - 1 \in A
  <2>1. <<n - 1, n>> \in OpToRel(<, Nat)
    BY <1>2 DEF OpToRel
  <2>2. QED
    BY <1>1, <1>2, <2>1, Zenon
<1>4. QED
  BY <1>2, <1>3

\* g is the state after every round of a loop.
IsRun(g, N, start, round) ==
  g[0] = start /\ \A n \in 1..N : g[n] = round[n][g[n - 1]]

\* A loop of N rounds over states of S has a state after every round.
LEMMA Loop ==
  ASSUME NEW N \in Nat, NEW S, NEW start \in S, NEW round \in [1..N -> [S -> S]]
  PROVE  \E g \in [0..N -> S] : IsRun(g, N, start, round)
<1> DEFINE Runs(n) == \E g \in [0..n -> S] :
                        g[0] = start /\ \A k \in 1..n : g[k] = round[k][g[k - 1]]
           A == {n \in Nat : n <= N => Runs(n)}
<1>1. 0 \in A
  <2> DEFINE g == [k \in 0..0 |-> start]
  <2>1. g \in [0..0 -> S] /\ g[0] = start /\ 1..0 = {}
    OBVIOUS
  <2>2. Runs(0)
    BY <2>1, Zenon
  <2>3. QED
    BY <2>2
<1>2. ASSUME NEW n \in Nat, n \in A PROVE n + 1 \in A
  <2>1. SUFFICES ASSUME n + 1 <= N PROVE Runs(n + 1)
    OBVIOUS
  <2>2. PICK g \in [0..n -> S] : g[0] = start /\ \A k \in 1..n : g[k] = round[k][g[k - 1]]
    BY <1>2, <2>1
  <2> DEFINE h == [k \in 0..(n + 1) |-> IF k = n + 1 THEN round[n + 1][g[n]] ELSE g[k]]
  <2>3. round[n + 1][g[n]] \in S
    BY <2>1
  <2>4. h \in [0..(n + 1) -> S]
    BY <2>3
  <2>5. h[0] = start /\ \A k \in 1..(n + 1) : h[k] = round[k][h[k - 1]]
    BY <2>2
  <2>6. QED
    BY <2>4, <2>5, Zenon
<1> HIDE DEF A
<1>3. Nat \subseteq A
  BY <1>1, <1>2, SetInduction
<1>4. QED
  BY <1>3 DEF A, IsRun

\* What holds before the first round and survives each of them holds after all.
LEMMA Rounds ==
  ASSUME NEW N \in Nat, NEW A, 0 \in A, \A n \in 1..N : n - 1 \in A => n \in A
  PROVE  0..N \subseteq A
<1> DEFINE B == {n \in Nat : n <= N => n \in A}
<1>1. 0 \in B
  OBVIOUS
<1>2. ASSUME NEW n \in Nat, n \in B PROVE n + 1 \in B
  <2>1. SUFFICES ASSUME n + 1 <= N PROVE n + 1 \in A
    OBVIOUS
  <2>2. n \in A /\ n + 1 \in 1..N /\ (n + 1) - 1 = n
    BY <1>2, <2>1
  <2>3. QED
    BY <2>2
<1> HIDE DEF B
<1>3. Nat \subseteq B
  BY <1>1, <1>2, SetInduction
<1>4. QED
  BY <1>3 DEF B

-----------------------------------------------------------------------------
(* Addresses and pages.                                                    *)

\* Quotient and remainder of an address.
LEMMA PageParts ==
  ASSUME NEW a \in Int
  PROVE  /\ a \div PAGING_PAGE_SIZE \in Int /\ a % PAGING_PAGE_SIZE \in 0..(PAGING_PAGE_SIZE - 1)
         /\ a = (a \div PAGING_PAGE_SIZE) * PAGING_PAGE_SIZE + (a % PAGING_PAGE_SIZE)
BY PagingAssumption

\* They are determined by this.
LEMMA PageOf ==
  ASSUME NEW p \in Int, NEW r \in 0..(PAGING_PAGE_SIZE - 1)
  PROVE  /\ (p * PAGING_PAGE_SIZE + r) \div PAGING_PAGE_SIZE = p
         /\ (p * PAGING_PAGE_SIZE + r) % PAGING_PAGE_SIZE = r
BY PagingAssumption

\* The address of a page is aligned.
LEMMA PageAligned ==
  ASSUME NEW p \in Int
  PROVE  /\ paging_is_aligned(p * PAGING_PAGE_SIZE)
         /\ (p * PAGING_PAGE_SIZE) \div PAGING_PAGE_SIZE = p
<1>1. 0 \in 0..(PAGING_PAGE_SIZE - 1) /\ p * PAGING_PAGE_SIZE + 0 = p * PAGING_PAGE_SIZE
  BY PagingAssumption
<1>2. QED
  BY <1>1, PageOf DEF paging_is_aligned

\* Aligning to the lower page gives the page of the address.
LEMMA AlignDown ==
  ASSUME NEW a \in Int
  PROVE  paging_align_to_lower_page(a) = (a \div PAGING_PAGE_SIZE) * PAGING_PAGE_SIZE
BY PageParts, PagingAssumption DEF paging_align_to_lower_page

\* Aligning up gives the page after the one of the cell before the address.
LEMMA AlignUp ==
  ASSUME NEW a \in Int
  PROVE  paging_align_address(a) = ((a - 1) \div PAGING_PAGE_SIZE + 1) * PAGING_PAGE_SIZE
<1> DEFINE q == a \div PAGING_PAGE_SIZE
           r == a % PAGING_PAGE_SIZE
<1>1. q \in Int /\ r \in 0..(PAGING_PAGE_SIZE - 1) /\ a = q * PAGING_PAGE_SIZE + r
  BY PageParts
<1>2. CASE r = 0
  <2>1. /\ a - 1 = (q - 1) * PAGING_PAGE_SIZE + (PAGING_PAGE_SIZE - 1)
        /\ PAGING_PAGE_SIZE - 1 \in 0..(PAGING_PAGE_SIZE - 1)
    BY <1>1, <1>2, PagingAssumption
  <2>2. (a - 1) \div PAGING_PAGE_SIZE = q - 1
    BY <1>1, <2>1, PageOf
  <2>3. paging_align_address(a) = a
    BY <1>2 DEF paging_align_address, paging_is_aligned
  <2>4. a = ((q - 1) + 1) * PAGING_PAGE_SIZE
    BY <1>1, <1>2, PagingAssumption
  <2>5. QED
    BY <2>2, <2>3, <2>4
<1>3. CASE r # 0
  <2>1. a - 1 = q * PAGING_PAGE_SIZE + (r - 1) /\ r - 1 \in 0..(PAGING_PAGE_SIZE - 1)
    BY <1>1, <1>3, PagingAssumption
  <2>2. (a - 1) \div PAGING_PAGE_SIZE = q
    BY <1>1, <2>1, PageOf
  <2>3. paging_align_address(a) = a + PAGING_PAGE_SIZE - r
    BY <1>3 DEF paging_align_address, paging_is_aligned
  <2>4. a + PAGING_PAGE_SIZE - r = (q + 1) * PAGING_PAGE_SIZE
    BY <1>1, PagingAssumption
  <2>5. QED
    BY <2>2, <2>3, <2>4
<1>4. QED
  BY <1>2, <1>3

\* Every address has a place in the tables.
LEMMA Indexes ==
  ASSUME NEW a \in Int
  PROVE  /\ paging_get_indexes(a).pgd \in 0..(PAGING_DIR_ENTRIES - 1)
         /\ paging_get_indexes(a).table \in 0..(PAGING_TABLE_ENTRIES - 1)
<1> DEFINE r == a % TableSpan
           q == r \div PAGING_PAGE_SIZE
<1>1. TableSpan \in Nat \ {0} /\ TableSpan = PAGING_TABLE_ENTRIES * PAGING_PAGE_SIZE
  BY PagingAssumption DEF TableSpan
<1>2. r \in 0..(TableSpan - 1) /\ a \div TableSpan \in Int
  BY <1>1
<1>3. (a \div TableSpan) % PAGING_DIR_ENTRIES \in 0..(PAGING_DIR_ENTRIES - 1)
  BY <1>2, PagingAssumption
<1>4. q \in 0..(PAGING_TABLE_ENTRIES - 1)
  <2>1. q \in Int /\ q * PAGING_PAGE_SIZE <= r /\ r < (q + 1) * PAGING_PAGE_SIZE
    <3> HIDE DEF r
    <3>1. r \in Int
      BY <1>1, <1>2
    <3>2. QED
      BY <3>1, PageParts, PagingAssumption
  <2> HIDE DEF q, r
  <2>2. q * PAGING_PAGE_SIZE < PAGING_TABLE_ENTRIES * PAGING_PAGE_SIZE
    BY <1>1, <1>2, <2>1, PagingAssumption
  <2>3. q < PAGING_TABLE_ENTRIES
    BY <2>1, <2>2, PagingAssumption
  <2>4. 0 < (q + 1) * PAGING_PAGE_SIZE
    BY <1>1, <1>2, <2>1, PagingAssumption
  <2>5. 0 <= q
    BY <2>1, <2>4, PagingAssumption
  <2>6. QED
    BY <2>1, <2>3, <2>5, PagingAssumption
<1>5. QED
  BY <1>3, <1>4 DEF paging_get_indexes

-----------------------------------------------------------------------------
(* Page tables.                                                            *)

\* Entries that map to a page, and if they can be written through to one of P.
EntryIn(P) ==
  {e \in [frame : Nat, flags : SUBSET UserRW] :
     /\ paging_is_aligned(e.frame)
     /\ "write" \in e.flags => e.frame \div PAGING_PAGE_SIZE \in P}

\* Page tables through which only pages of P can be written.
TablesIn(P) == [0..(PAGING_DIR_ENTRIES - 1) -> [0..(PAGING_TABLE_ENTRIES - 1) -> EntryIn(P)]]

\* More pages, more tables.
LEMMA TablesGrow ==
  ASSUME NEW P, NEW Q, P \subseteq Q
  PROVE  TablesIn(P) \subseteq TablesIn(Q)
<1>1. EntryIn(P) \subseteq EntryIn(Q)
  BY DEF EntryIn
<1>2. QED
  BY <1>1 DEF TablesIn

\* The entry of an address.
LEMMA GetPte ==
  ASSUME NEW P, NEW pgd \in TablesIn(P), NEW a \in Int
  PROVE  paging_get_pte(pgd, a) \in EntryIn(P)
BY Indexes, Zenon DEF paging_get_pte, TablesIn

\* Setting an entry.
LEMMA SetPte ==
  ASSUME NEW P, NEW pgd \in TablesIn(P), NEW a \in Int, NEW e \in EntryIn(P)
  PROVE  /\ paging_set(pgd, a, e).pgd \in TablesIn(P)
         /\ paging_set(pgd, a, e).ok \in BOOLEAN
BY Indexes DEF paging_set, TablesIn

\* Putting the old entry back undoes it.
LEMMA SetBack ==
  ASSUME NEW P, NEW pgd \in TablesIn(P), NEW a \in Int, NEW e, paging_is_aligned(a)
  PROVE  paging_set(paging_set(pgd, a, e).pgd, a, paging_get_pte(pgd, a)).pgd = pgd
<1> DEFINE d == paging_get_indexes(a).pgd
           b == paging_get_indexes(a).table
<1>1. d \in 0..(PAGING_DIR_ENTRIES - 1) /\ b \in 0..(PAGING_TABLE_ENTRIES - 1)
  BY Indexes
<1>2. paging_set(pgd, a, e).pgd = [pgd EXCEPT ![d][b] = e]
  BY DEF paging_set
<1>3. paging_get_pte(pgd, a) = pgd[d][b]
  BY DEF paging_get_pte
<1>4. paging_set(paging_set(pgd, a, e).pgd, a, paging_get_pte(pgd, a)).pgd
        = [[pgd EXCEPT ![d][b] = e] EXCEPT ![d][b] = pgd[d][b]]
  BY <1>2, <1>3 DEF paging_set
<1> HIDE DEF d, b
<1>5. [[pgd EXCEPT ![d][b] = e] EXCEPT ![d][b] = pgd[d][b]] = pgd
  BY <1>1, Zenon DEF TablesIn
<1>6. QED
  BY <1>4, <1>5

\* What the functions of paging.c answer.
LEMMA Results ==
  ASSUME NEW S, NEW pgd \in S
  PROVE  /\ [ok |-> TRUE, pgd |-> pgd] \in [ok : BOOLEAN, pgd : S]
         /\ [ok |-> FALSE, pgd |-> pgd] \in [ok : BOOLEAN, pgd : S]
OBVIOUS

\* The entry that round n of paging_map_range sets.
RoundSets(n, m, virt, phys, flags) ==
  paging_set(m, virt + (n - 1) * PAGING_PAGE_SIZE,
    [frame |-> phys + (n - 1) * PAGING_PAGE_SIZE, flags |-> flags]).pgd

\* map is the page tables after every round, and the last of them the outcome.
IsMapping(map, pgd, virt, phys, N, flags) ==
  /\ map[0] = pgd
  /\ \A n \in 1..N : map[n] = RoundSets(n, map[n - 1], virt, phys, flags)
  /\ paging_map_range(pgd, virt, phys, N, flags)
       = IF paging_is_aligned(virt) THEN [ok |-> TRUE, pgd |-> map[N]]
                                    ELSE [ok |-> FALSE, pgd |-> pgd]

\* The loop of paging_map_range goes through page tables.
LEMMA MapRangeRounds ==
  ASSUME NEW P, NEW pgd \in TablesIn(P), NEW virt \in Int, NEW f \in Nat, NEW N \in Nat,
         NEW flags \in SUBSET UserRW, "write" \in flags => f..(f + N - 1) \subseteq P
  PROVE  \E map \in [0..N -> TablesIn(P)] :
           IsMapping(map, pgd, virt, f * PAGING_PAGE_SIZE, N, flags)
<1> DEFINE phys == f * PAGING_PAGE_SIZE
           S    == TablesIn(P)
           Round(n, m) == RoundSets(n, m, virt, phys, flags)
           IsMap(map) == map = [n \in 0..N |-> IF n = 0 THEN pgd ELSE Round(n, map[n - 1])]
           map == CHOOSE map : IsMap(map)
           round == [n \in 1..N |-> [m \in S |-> Round(n, m)]]
<1>1. ASSUME NEW n \in 1..N, NEW m \in S
      PROVE  Round(n, m) \in S
  <2>1. /\ phys + (n - 1) * PAGING_PAGE_SIZE = (f + n - 1) * PAGING_PAGE_SIZE
        /\ f + n - 1 \in f..(f + N - 1) /\ f + n - 1 \in Nat
        /\ (f + n - 1) * PAGING_PAGE_SIZE \in Nat
    BY PagingAssumption
  <2>2. [frame |-> (f + n - 1) * PAGING_PAGE_SIZE, flags |-> flags] \in EntryIn(P)
    <3>1. /\ paging_is_aligned((f + n - 1) * PAGING_PAGE_SIZE)
          /\ ((f + n - 1) * PAGING_PAGE_SIZE) \div PAGING_PAGE_SIZE = f + n - 1
      BY <2>1, PageAligned
    <3>2. QED
      BY <2>1, <3>1 DEF EntryIn
  <2>3. virt + (n - 1) * PAGING_PAGE_SIZE \in Int
    BY PagingAssumption
  <2>4. QED
    BY <2>1, <2>2, <2>3, SetPte DEF RoundSets
<1>2. paging_map_range(pgd, virt, phys, N, flags)
        = IF paging_is_aligned(virt) THEN [ok |-> TRUE, pgd |-> map[N]]
                                     ELSE [ok |-> FALSE, pgd |-> pgd]
  <2>1. paging_map_range(pgd, virt, phys, N, flags)
          = IF paging_is_aligned(virt) /\ paging_is_aligned(phys)
            THEN [ok |-> TRUE, pgd |-> map[N]]
            ELSE [ok |-> FALSE, pgd |-> pgd]
    BY DEF paging_map_range, RoundSets
  <2>2. paging_is_aligned(phys)
    BY PageAligned
  <2>3. QED
    BY <2>1, <2>2, Zenon
<1>3. pgd \in S
  OBVIOUS
<1> HIDE DEF Round, S, phys
<1>4. round \in [1..N -> [S -> S]]
  BY <1>1
<1>5. PICK g \in [0..N -> S] : IsRun(g, N, pgd, round)
  <2> HIDE DEF round
  <2>1. QED
    BY <1>3, <1>4, Loop
<1>6. IsMap(g)
  <2>1. ASSUME NEW n \in 1..N PROVE g[n] = Round(n, g[n - 1])
    <3>1. g[n - 1] \in S
      OBVIOUS
    <3>2. g[n] = round[n][g[n - 1]]
      BY <1>5 DEF IsRun
    <3>3. QED
      BY <3>1, <3>2
  <2>2. g[0] = pgd
    BY <1>5 DEF IsRun
  <2>3. QED
    BY <2>1, <2>2
<1>7. IsMap(map)
  BY <1>6
<1>8. map[0] = pgd /\ \A n \in 1..N : map[n] = Round(n, map[n - 1])
  <2> HIDE DEF map
  <2>1. QED
    BY <1>7
<1> HIDE DEF map, IsMap
<1>9. map \in [0..N -> S]
  <2> DEFINE A == {n \in 0..N : map[n] \in S}
  <2>1. ASSUME NEW n \in 1..N, map[n - 1] \in S PROVE map[n] \in S
    BY <1>1, <1>8, <2>1
  <2>2. 0 \in A /\ \A n \in 1..N : n - 1 \in A => n \in A
    BY <1>3, <1>8, <2>1
  <2> HIDE DEF A
  <2>3. 0..N \subseteq A
    BY <2>2, Rounds, Zenon
  <2>4. map = [n \in 0..N |-> map[n]]
    BY <1>7 DEF IsMap
  <2>5. QED
    BY <2>3, <2>4 DEF A
<1>10. QED
  BY <1>2, <1>8, <1>9, Zenon DEF Round, S, phys, IsMapping

\* So its outcome is page tables, through which only pages of P can be written.
LEMMA MapRange ==
  ASSUME NEW P, NEW pgd \in TablesIn(P), NEW virt \in Int, NEW f \in Nat, NEW N \in Nat,
         NEW flags \in SUBSET UserRW, "write" \in flags => f..(f + N - 1) \subseteq P
  PROVE  paging_map_range(pgd, virt, f * PAGING_PAGE_SIZE, N, flags)
           \in [ok : BOOLEAN, pgd : TablesIn(P)]
<1> DEFINE out == paging_map_range(pgd, virt, f * PAGING_PAGE_SIZE, N, flags)
           S   == TablesIn(P)
<1>1. \E map \in [0..N -> S] : IsMapping(map, pgd, virt, f * PAGING_PAGE_SIZE, N, flags)
  BY MapRangeRounds, Zenon
<1>2. pgd \in S /\ \E x \in S : out = [ok |-> TRUE, pgd |-> x] \/ out = [ok |-> FALSE, pgd |-> pgd]
  <2> HIDE DEF S
  <2>1. pgd \in S
    BY DEF S
  <2>2. PICK map \in [0..N -> S] : IsMapping(map, pgd, virt, f * PAGING_PAGE_SIZE, N, flags)
    BY <1>1
  <2>3. map[N] \in S
    OBVIOUS
  <2>4. out = [ok |-> TRUE, pgd |-> map[N]] \/ out = [ok |-> FALSE, pgd |-> pgd]
    BY <2>2 DEF IsMapping
  <2>5. QED
    BY <2>1, <2>3, <2>4, Zenon
<1> HIDE DEF out, S
<1>3. out \in [ok : BOOLEAN, pgd : S]
  BY <1>2, Results, Zenon
<1>4. QED
  BY <1>3 DEF out, S

\* A range of one page.
LEMMA MapPage ==
  ASSUME NEW P, NEW pgd \in TablesIn(P), NEW f \in Nat
  PROVE  paging_map_range(pgd, f * PAGING_PAGE_SIZE, f * PAGING_PAGE_SIZE, 1, UserRW)
           = [ok |-> TRUE,
              pgd |-> paging_set(pgd, f * PAGING_PAGE_SIZE,
                        [frame |-> f * PAGING_PAGE_SIZE, flags |-> UserRW]).pgd]
<1> DEFINE a == f * PAGING_PAGE_SIZE
           Q == P \cup {f}
<1>1. pgd \in TablesIn(Q)
  BY TablesGrow
<1>2. a \in Int /\ f..(f + 1 - 1) \subseteq Q /\ UserRW \in SUBSET UserRW /\ 1 \in Nat
  BY PagingAssumption
<1>3. paging_is_aligned(a)
  BY PageAligned
<1> HIDE DEF Q
<1>4. PICK map \in [0..1 -> TablesIn(Q)] :
        IsMapping(map, pgd, a, f * PAGING_PAGE_SIZE, 1, UserRW)
  <2> HIDE DEF a
  <2>1. QED
    BY <1>1, <1>2, MapRangeRounds, Zenon
<1>5. map[1] = RoundSets(1, pgd, a, a, UserRW)
  BY <1>4 DEF IsMapping
<1>6. a + (1 - 1) * PAGING_PAGE_SIZE = a
  BY <1>2, PagingAssumption
<1>7. map[1] = paging_set(pgd, a, [frame |-> a, flags |-> UserRW]).pgd
  BY <1>5, <1>6 DEF RoundSets
<1>8. QED
  BY <1>3, <1>4, <1>7, Zenon DEF IsMapping

\* Lower addresses are in lower pages.
LEMMA PagesInOrder ==
  ASSUME NEW a \in Int, NEW b \in Int, a <= b
  PROVE  a \div PAGING_PAGE_SIZE <= b \div PAGING_PAGE_SIZE
<1> DEFINE p == a \div PAGING_PAGE_SIZE
           q == b \div PAGING_PAGE_SIZE
           i == a % PAGING_PAGE_SIZE
           j == b % PAGING_PAGE_SIZE
<1>1. /\ p \in Int /\ i \in 0..(PAGING_PAGE_SIZE - 1) /\ a = p * PAGING_PAGE_SIZE + i
      /\ q \in Int /\ j \in 0..(PAGING_PAGE_SIZE - 1) /\ b = q * PAGING_PAGE_SIZE + j
  BY PageParts
<1> HIDE DEF p, q, i, j
<1>2. SUFFICES ASSUME q + 1 <= p PROVE FALSE
  BY <1>1 DEF p, q
<1>3. (q + 1) * PAGING_PAGE_SIZE <= p * PAGING_PAGE_SIZE
  BY <1>1, <1>2, PagingAssumption
<1>4. (q + 1) * PAGING_PAGE_SIZE = q * PAGING_PAGE_SIZE + PAGING_PAGE_SIZE
  BY <1>1, PagingAssumption
<1>5. QED
  BY <1>1, <1>3, <1>4, PagingAssumption

\* Memory is mapped from the page f to the page l.
LEMMA CreateMapping ==
  ASSUME NEW P, NEW pgd \in TablesIn(P), NEW virt \in Int, NEW f \in Nat, NEW l \in Int,
         NEW flags \in SUBSET UserRW, "write" \in flags => f..l \subseteq P
  PROVE  paging_create_mapping(pgd, virt, f * PAGING_PAGE_SIZE, (l + 1) * PAGING_PAGE_SIZE, flags)
           \in [ok : BOOLEAN, pgd : TablesIn(P)]
<1> DEFINE phys  == f * PAGING_PAGE_SIZE
           end   == (l + 1) * PAGING_PAGE_SIZE
           Guard == /\ paging_is_aligned(virt) /\ paging_is_aligned(phys) /\ paging_is_aligned(end)
                    /\ end >= phys
           S     == TablesIn(P)
<1>1. CASE Guard
  <2>1. l + 1 - f \in Nat
    BY <1>1, PagingAssumption
  <2>2. end - phys = (l + 1 - f) * PAGING_PAGE_SIZE
    BY PagingAssumption
  <2>3. (end - phys) \div PAGING_PAGE_SIZE = l + 1 - f
    BY <2>1, <2>2, PageAligned
  <2>4. f + (l + 1 - f) - 1 = l
    OBVIOUS
  <2>5. paging_map_range(pgd, virt, phys, l + 1 - f, flags) \in [ok : BOOLEAN, pgd : S]
    BY <2>1, <2>4, MapRange
  <2>6. QED
    BY <1>1, <2>3, <2>5 DEF paging_create_mapping
<1>2. CASE ~Guard
  <2>1. [ok |-> FALSE, pgd |-> pgd] \in [ok : BOOLEAN, pgd : S]
    BY Results
  <2>2. paging_create_mapping(pgd, virt, phys, end, flags) = [ok |-> FALSE, pgd |-> pgd]
    BY <1>2 DEF paging_create_mapping
  <2>3. QED
    BY <2>1, <2>2, Zenon
<1>3. QED
  BY <1>1, <1>2

\* The pages of size cells from addr on are mapped, wherever in its page addr
\* is, and no others.
LEMMA MapCells ==
  ASSUME NEW P, NEW pgd \in TablesIn(P), NEW virt \in Int, NEW addr \in Nat, NEW size \in Nat,
         NEW flags \in SUBSET UserRW, "write" \in flags => Pages(addr, size) \subseteq P
  PROVE  paging_create_mapping(pgd, virt, paging_align_to_lower_page(addr),
                               paging_align_address(addr + size), flags)
           \in [ok : BOOLEAN, pgd : TablesIn(P)]
<1> DEFINE f == addr \div PAGING_PAGE_SIZE
           l == (addr + size - 1) \div PAGING_PAGE_SIZE
<1>1. f \in Nat /\ l \in Int
  BY PagingAssumption
<1>2. paging_align_to_lower_page(addr) = f * PAGING_PAGE_SIZE
  BY AlignDown
<1>3. paging_align_address(addr + size) = (l + 1) * PAGING_PAGE_SIZE
  BY AlignUp
<1>4. "write" \in flags => f..l \subseteq P
  BY DEF Pages
<1> HIDE DEF f, l
<1>5. QED
  BY <1>1, <1>2, <1>3, <1>4, CreateMapping

\* Memory that begins with a page needs no alignment.
LEMMA MapAligned ==
  ASSUME NEW P, NEW pgd \in TablesIn(P), NEW virt \in Int, NEW k \in Nat, NEW size \in Nat,
         NEW flags \in SUBSET UserRW,
         "write" \in flags => Pages(k * PAGING_PAGE_SIZE, size) \subseteq P
  PROVE  paging_create_mapping(pgd, virt, k * PAGING_PAGE_SIZE,
                               paging_align_address(k * PAGING_PAGE_SIZE + size), flags)
           \in [ok : BOOLEAN, pgd : TablesIn(P)]
<1> DEFINE addr == k * PAGING_PAGE_SIZE
<1>1. addr \in Nat
  BY PagingAssumption
<1>2. paging_align_to_lower_page(addr) = addr
  <2>1. addr \div PAGING_PAGE_SIZE = k
    BY PageAligned
  <2>2. QED
    BY <1>1, <2>1, AlignDown
<1> HIDE DEF addr
<1>3. paging_create_mapping(pgd, virt, paging_align_to_lower_page(addr),
                            paging_align_address(addr + size), flags)
        \in [ok : BOOLEAN, pgd : TablesIn(P)]
  BY <1>1, MapCells, Zenon DEF addr
<1>4. QED
  BY <1>2, <1>3 DEF addr

\* The tables that a task begins with let it write nowhere.
LEMMA InitTables == init_page_tables(User) \in TablesIn({})
<1>1. ASSUME NEW i \in 0..(PAGING_DIR_ENTRIES - 1), NEW b \in 0..(PAGING_TABLE_ENTRIES - 1)
      PROVE  [frame |-> i * TableSpan + b * PAGING_PAGE_SIZE, flags |-> User] \in EntryIn({})
  <2>1. /\ i * PAGING_TABLE_ENTRIES + b \in Nat
        /\ i * TableSpan + b * PAGING_PAGE_SIZE = (i * PAGING_TABLE_ENTRIES + b) * PAGING_PAGE_SIZE
        /\ i * TableSpan + b * PAGING_PAGE_SIZE \in Nat
    BY PagingAssumption DEF TableSpan
  <2>2. paging_is_aligned(i * TableSpan + b * PAGING_PAGE_SIZE)
    BY <2>1, PageAligned
  <2>3. User \in SUBSET UserRW /\ "write" \notin User
    BY DEF User, UserRW
  <2>4. QED
    BY <2>1, <2>2, <2>3 DEF EntryIn
<1>2. QED
  BY <1>1, Zenon DEF init_page_tables, TablesIn

-----------------------------------------------------------------------------
(* The mapping of a program.                                               *)

\* The program headers of a file.
Phdr == [p_offset : Nat, p_vaddr : Nat, p_filesz : Nat, p_memsz : Nat, write : BOOLEAN]

\* A segment is mapped to its pages of the image.
LEMMA MapSegment ==
  ASSUME NEW P, NEW pgd \in TablesIn(P), NEW image \in Nat, NEW phdr \in Phdr,
         Pages(image + phdr.p_offset, phdr.p_memsz) \subseteq P
  PROVE  process_map_segment(pgd, image, phdr) \in [ok : BOOLEAN, pgd : TablesIn(P)]
<1> DEFINE phys  == image + phdr.p_offset
           flags == IF phdr.write THEN UserRW ELSE User
           virt  == paging_align_to_lower_page(phdr.p_vaddr)
<1>1. phys \in Nat /\ phdr.p_memsz \in Nat /\ phdr.p_vaddr \in Nat
  BY DEF Phdr
<1>2. virt \in Int
  BY <1>1, AlignDown, PagingAssumption
<1>3. flags \in SUBSET UserRW
  BY DEF User, UserRW
<1>4. process_map_segment(pgd, image, phdr)
        = paging_create_mapping(pgd, virt, paging_align_to_lower_page(phys),
            paging_align_address(phys + phdr.p_memsz), flags)
  BY DEF process_map_segment, elf_file_get_segment_phys_addr
<1>5. Pages(phys, phdr.p_memsz) \subseteq P
  OBVIOUS
<1> HIDE DEF phys, flags, virt
<1>6. QED
  BY <1>1, <1>2, <1>3, <1>4, <1>5, MapCells

\* So are all of them, up to the first that cannot be mapped.
LEMMA MapElf ==
  ASSUME NEW P, NEW pgd \in TablesIn(P), NEW image \in Nat, NEW phdrs \in Seq(Phdr),
         \A i \in 1..Len(phdrs) : Pages(image + phdrs[i].p_offset, phdrs[i].p_memsz) \subseteq P
  PROVE  process_map_task_elf(pgd, image, phdrs) \in [ok : BOOLEAN, pgd : TablesIn(P)]
<1> DEFINE N == Len(phdrs)
           S == [ok : BOOLEAN, pgd : TablesIn(P)]
           start == [ok |-> TRUE, pgd |-> pgd]
           Round(n, m) == IF ~m.ok THEN m ELSE process_map_segment(m.pgd, image, phdrs[n])
           IsMap(map) == map = [n \in 0..N |-> IF n = 0 THEN start ELSE Round(n, map[n - 1])]
           map == CHOOSE map : IsMap(map)
           round == [n \in 1..N |-> [m \in S |-> Round(n, m)]]
<1>1. ASSUME NEW n \in 1..N, NEW m \in S PROVE Round(n, m) \in S
  <2>1. m.pgd \in TablesIn(P) /\ phdrs[n] \in Phdr
    OBVIOUS
  <2>2. process_map_segment(m.pgd, image, phdrs[n]) \in S
    BY <2>1, MapSegment
  <2>3. QED
    BY <2>2
<1>2. process_map_task_elf(pgd, image, phdrs) = map[N]
  BY DEF process_map_task_elf
<1>3. start \in S /\ N \in Nat
  BY Results
<1> HIDE DEF Round, S, start, N
<1>4. round \in [1..N -> [S -> S]]
  BY <1>1
<1>5. PICK g \in [0..N -> S] : IsRun(g, N, start, round)
  <2> HIDE DEF round
  <2>1. QED
    BY <1>3, <1>4, Loop, Zenon
<1>6. IsMap(g)
  <2>1. ASSUME NEW n \in 1..N PROVE g[n] = Round(n, g[n - 1])
    <3>1. g[n - 1] \in S
      BY <1>3
    <3>2. g[n] = round[n][g[n - 1]]
      BY <1>5 DEF IsRun
    <3>3. QED
      BY <3>1, <3>2
  <2>2. g[0] = start
    BY <1>5 DEF IsRun
  <2>3. QED
    BY <1>3, <2>1, <2>2
<1>7. IsMap(map)
  BY <1>6, Zenon
<1>8. map[0] = start /\ \A n \in 1..N : map[n] = Round(n, map[n - 1])
  <2> HIDE DEF map
  <2>1. QED
    BY <1>3, <1>7
<1> HIDE DEF map, IsMap
<1>9. map[N] \in S
  <2> DEFINE A == {n \in 0..N : map[n] \in S}
  <2>1. ASSUME NEW n \in 1..N, map[n - 1] \in S PROVE map[n] \in S
    BY <1>1, <1>8, <2>1
  <2>2. 0 \in A /\ \A n \in 1..N : n - 1 \in A => n \in A
    BY <1>3, <1>8, <2>1
  <2> HIDE DEF A
  <2>3. 0..N \subseteq A
    BY <1>3, <2>2, Rounds, Zenon
  <2>4. QED
    BY <1>3, <2>3 DEF A
<1>10. QED
  BY <1>2, <1>9 DEF S

\* The pages that a program may be given write access to: the ones of its
\* stack and arguments, and of its segments or its whole image.
MapsTo(program, stack, arg_block, image) ==
  Pages(stack, TASK_STACK_SIZE) \cup Pages(arg_block, ArgBlockSize)
    \cup (IF program.format = "ELF"
          THEN UNION {Pages(image + program.phdrs[i].p_offset, program.phdrs[i].p_memsz) :
                        i \in 1..Len(program.phdrs)}
          ELSE Pages(image, Len(program.file)))

\* A new task can write to no others.
LEMMA MapTaskMemory ==
  ASSUME NEW program \in Program, NEW s \in Nat, NEW a \in Nat, NEW k \in Nat
  PROVE  process_map_task_memory(init_page_tables(User), s * PAGING_PAGE_SIZE,
           a * PAGING_PAGE_SIZE, k * PAGING_PAGE_SIZE, program)
           \in [ok : BOOLEAN, pgd : TablesIn(MapsTo(program, s * PAGING_PAGE_SIZE,
                                              a * PAGING_PAGE_SIZE, k * PAGING_PAGE_SIZE))]
<1> DEFINE stack     == s * PAGING_PAGE_SIZE
           arg_block == a * PAGING_PAGE_SIZE
           image     == k * PAGING_PAGE_SIZE
           P         == MapsTo(program, stack, arg_block, image)
           S         == TablesIn(P)
           R         == [ok : BOOLEAN, pgd : S]
           stacked   == paging_create_mapping(init_page_tables(User),
                          TASK_STACK_VIRT_ADDR - TASK_STACK_SIZE, stack,
                          paging_align_address(stack + TASK_STACK_SIZE), UserRW)
           args      == paging_create_mapping(stacked.pgd, COMMAND_LINE_ARG_VIRTUAL_ADDR, arg_block,
                          paging_align_address(arg_block + ArgBlockSize), UserRW)
<1>1. init_page_tables(User) \in S
  <2>1. {} \subseteq P
    OBVIOUS
  <2> HIDE DEF P
  <2>2. QED
    BY <2>1, InitTables, TablesGrow
<1>2. /\ TASK_STACK_VIRT_ADDR - TASK_STACK_SIZE \in Int /\ COMMAND_LINE_ARG_VIRTUAL_ADDR \in Int
      /\ TASK_LOAD_VIRTUAL_ADDRESS \in Int
      /\ TASK_STACK_SIZE \in Nat /\ ArgBlockSize \in Nat /\ UserRW \in SUBSET UserRW
  BY ExecAssumption DEF ArgBlockSize
<1>3. Pages(stack, TASK_STACK_SIZE) \subseteq P /\ Pages(arg_block, ArgBlockSize) \subseteq P
  BY DEF MapsTo
<1>4. stacked \in R
  <2> HIDE DEF P
  <2>1. QED
    BY <1>1, <1>2, <1>3, MapAligned
<1>5. stacked.pgd \in S
  <2> HIDE DEF stacked, S
  <2>1. QED
    BY <1>4
<1>6. args \in R
  <2> HIDE DEF P, stacked
  <2>1. QED
    BY <1>2, <1>3, <1>5, MapAligned
<1>7. args.pgd \in S
  <2> HIDE DEF args, S
  <2>1. QED
    BY <1>6
<1>8. image \in Nat /\ program.format \in {"BINARY", "ELF"} /\ program.file \in Seq(Nat)
      /\ program.phdrs \in Seq(Phdr) /\ Len(program.file) \in Nat
  BY PagingAssumption DEF Program, Phdr
<1>9. ASSUME program.format = "ELF"
      PROVE  process_map_task_elf(args.pgd, image, program.phdrs) \in R
  <2>1. \A i \in 1..Len(program.phdrs) :
          Pages(image + program.phdrs[i].p_offset, program.phdrs[i].p_memsz) \subseteq P
    BY <1>9 DEF MapsTo
  <2> HIDE DEF P, args, image
  <2>2. QED
    BY <1>7, <1>8, <2>1, MapElf, Zenon
<1>10. ASSUME program.format = "BINARY"
       PROVE  process_map_task_binary(args.pgd, image, Len(program.file)) \in R
  <2>1. Pages(image, Len(program.file)) \subseteq P
    BY <1>10 DEF MapsTo
  <2> HIDE DEF P, args
  <2>2. QED
    BY <1>2, <1>7, <1>8, <2>1, MapAligned DEF process_map_task_binary
<1>11. process_map_task_memory(init_page_tables(User), stack, arg_block, image, program)
         = CASE ~stacked.ok -> stacked
             [] stacked.ok /\ ~args.ok -> args
             [] stacked.ok /\ args.ok /\ program.format = "ELF" ->
                  process_map_task_elf(args.pgd, image, program.phdrs)
             [] stacked.ok /\ args.ok /\ program.format = "BINARY" ->
                  process_map_task_binary(args.pgd, image, Len(program.file))
  BY DEF process_map_task_memory
<1> HIDE DEF R, stacked, args, image, stack, arg_block
<1>12. process_map_task_memory(init_page_tables(User), stack, arg_block, image, program) \in R
  BY <1>4, <1>6, <1>8, <1>9, <1>10, <1>11
<1>13. QED
  BY <1>12 DEF R, S, P, image, stack, arg_block

-----------------------------------------------------------------------------
(* Memory.                                                                 *)

\* Memory whose cells hold numbers.
Memories == UNION {[D -> Nat] : D \in SUBSET Int}

\* Every virtual address is translated.
LEMMA PhysicalAddress ==
  ASSUME NEW P, NEW pgd \in TablesIn(P), NEW v \in Int
  PROVE  paging_get_physical_address(pgd, v) \in Int
<1> DEFINE page == paging_align_to_lower_page(v)
<1>1. page \in Int
  BY AlignDown, PagingAssumption
<1> HIDE DEF page
<1>2. paging_get_pte(pgd, page) \in EntryIn(P)
  BY <1>1, GetPte
<1>3. paging_get_pte(pgd, page).frame \in Nat
  BY <1>2 DEF EntryIn
<1>4. QED
  BY <1>1, <1>3 DEF paging_get_physical_address, page

\* A program reads numbers.
LEMMA LoadCell ==
  ASSUME NEW P, NEW pgd \in TablesIn(P), NEW m \in Memories, NEW v \in Int
  PROVE  Load(m, pgd, v) \in Nat
BY Zenon DEF Load, Memories

\* Numbers are written to memory.
LEMMA WriteCells ==
  ASSUME NEW m \in Memories, NEW addr \in Int, NEW s \in Seq(Nat)
  PROVE  Write(m, addr, s) \in Memories
<1> DEFINE written == addr..(addr + Len(s) - 1)
           D == DOMAIN m \cup written
           w == [a \in D |-> IF a \in written THEN s[a - addr + 1] ELSE m[a]]
<1>1. DOMAIN m \in SUBSET Int /\ \A a \in DOMAIN m : m[a] \in Nat
  BY DEF Memories
<1>2. D \in SUBSET Int
  BY <1>1
<1>3. ASSUME NEW a \in written PROVE s[a - addr + 1] \in Nat
  <2>1. a - addr + 1 \in 1..Len(s)
    OBVIOUS
  <2>2. QED
    BY <2>1
<1>4. w \in [D -> Nat]
  BY <1>1, <1>3
<1>5. Write(m, addr, s) = w
  BY DEF Write
<1> HIDE DEF w, D
<1>6. QED
  BY <1>2, <1>4, <1>5 DEF Memories

\* So they are through page tables.
LEMMA StoreCells ==
  ASSUME NEW P, NEW pgd \in TablesIn(P), NEW m \in Memories, NEW virt \in Int, NEW s \in Seq(Nat)
  PROVE  Store(m, pgd, virt, s) \in Memories
<1> DEFINE N == Len(s)
           S == Memories
           start == m
           Round(n, x) == Write(x, paging_get_physical_address(pgd, virt + n - 1), <<s[n]>>)
           IsStored(stored) ==
             stored = [n \in 0..N |-> IF n = 0 THEN start ELSE Round(n, stored[n - 1])]
           stored == CHOOSE stored : IsStored(stored)
           round == [n \in 1..N |-> [x \in S |-> Round(n, x)]]
<1>1. ASSUME NEW n \in 1..N, NEW x \in S PROVE Round(n, x) \in S
  <2>1. virt + n - 1 \in Int /\ <<s[n]>> \in Seq(Nat)
    OBVIOUS
  <2>2. paging_get_physical_address(pgd, virt + n - 1) \in Int
    BY <2>1, PhysicalAddress
  <2>3. QED
    BY <2>1, <2>2, WriteCells, Zenon
<1>2. Store(m, pgd, virt, s) = stored[N]
  BY DEF Store
<1>3. start \in S /\ N \in Nat
  OBVIOUS
<1> HIDE DEF Round, S, start, N
<1>4. round \in [1..N -> [S -> S]]
  BY <1>1
<1>5. PICK g \in [0..N -> S] : IsRun(g, N, start, round)
  <2> HIDE DEF round
  <2>1. QED
    BY <1>3, <1>4, Loop, Zenon
<1>6. IsStored(g)
  <2>1. ASSUME NEW n \in 1..N PROVE g[n] = Round(n, g[n - 1])
    <3>1. g[n - 1] \in S
      BY <1>3
    <3>2. g[n] = round[n][g[n - 1]]
      BY <1>5 DEF IsRun
    <3>3. QED
      BY <3>1, <3>2
  <2>2. g[0] = start
    BY <1>5 DEF IsRun
  <2>3. QED
    BY <1>3, <2>1, <2>2
<1>7. IsStored(stored)
  BY <1>6, Zenon
<1>8. stored[0] = start /\ \A n \in 1..N : stored[n] = Round(n, stored[n - 1])
  <2> HIDE DEF stored
  <2>1. QED
    BY <1>3, <1>7
<1> HIDE DEF stored, IsStored
<1>9. stored[N] \in S
  <2> DEFINE A == {n \in 0..N : stored[n] \in S}
  <2>1. ASSUME NEW n \in 1..N, stored[n - 1] \in S PROVE stored[n] \in S
    BY <1>1, <1>8, <2>1
  <2>2. 0 \in A /\ \A n \in 1..N : n - 1 \in A => n \in A
    BY <1>3, <1>8, <2>1
  <2> HIDE DEF A
  <2>3. 0..N \subseteq A
    BY <1>3, <2>2, Rounds, Zenon
  <2>4. QED
    BY <1>3, <2>3 DEF A
<1>10. QED
  BY <1>2, <1>9 DEF S

\* strcpy writes numbers.
LEMMA StrcpyCells ==
  ASSUME NEW m \in Memories, NEW addr \in Int, NEW s \in Seq(Nat)
  PROVE  strcpy(m, addr, s) \in Memories
<1>1. Append(s, 0) \in Seq(Nat)
  OBVIOUS
<1>2. QED
  BY <1>1, WriteCells, Zenon DEF strcpy

\* So does load_arg_block.
LEMMA LoadArgsCells ==
  ASSUME NEW m \in Memories, NEW arg_block \in Nat, NEW argv \in Seq(Seq(Nat))
  PROVE  load_arg_block(m, arg_block, argv) \in Memories
<1> DEFINE N == Len(argv)
           S == Memories
           start == m
           String_(n) == arg_block + MAX_NUM_ARGS + (n - 1) * MAX_CMMD_ARG_LEN
           Round(n, x) ==
             Write(strcpy(x, String_(n), argv[n]), arg_block + n - 1,
                   <<translate_arg_block_addr_to_userspace_addr(String_(n), arg_block)>>)
           IsStored(stored) ==
             stored = [n \in 0..N |-> IF n = 0 THEN start ELSE Round(n, stored[n - 1])]
           stored == CHOOSE stored : IsStored(stored)
           round == [n \in 1..N |-> [x \in S |-> Round(n, x)]]
<1>1. ASSUME NEW n \in 1..N, NEW x \in S PROVE Round(n, x) \in S
  <2>1. String_(n) \in Nat /\ arg_block + n - 1 \in Int /\ argv[n] \in Seq(Nat)
    <3>1. /\ MAX_NUM_ARGS \in Nat /\ MAX_CMMD_ARG_LEN \in Nat
          /\ n \in Nat /\ n - 1 \in Nat /\ argv[n] \in Seq(Nat)
      BY ExecAssumption
    <3>2. \A i, k \in Nat : i * k \in Nat
      OBVIOUS
    <3>3. (n - 1) * MAX_CMMD_ARG_LEN \in Nat
      BY <3>1, <3>2
    <3>4. \A i, k, l \in Nat : i + k + l \in Nat
      OBVIOUS
    <3>5. String_(n) \in Nat
      BY <3>1, <3>3, <3>4, Zenon
    <3>6. QED
      BY <3>1, <3>5
  <2> HIDE DEF String_
  <2>2. translate_arg_block_addr_to_userspace_addr(String_(n), arg_block) \in Nat
    <3>1. COMMAND_LINE_ARG_VIRTUAL_ADDR \in Nat
      BY ExecAssumption
    <3>2. QED
      BY <2>1, <3>1 DEF translate_arg_block_addr_to_userspace_addr
  <2>3. <<translate_arg_block_addr_to_userspace_addr(String_(n), arg_block)>> \in Seq(Nat)
    BY <2>2
  <2>4. strcpy(x, String_(n), argv[n]) \in S
    BY <2>1, StrcpyCells
  <2>5. QED
    BY <2>1, <2>3, <2>4, WriteCells, Zenon
<1>2. load_arg_block(m, arg_block, argv) = stored[N]
  BY DEF load_arg_block, LoadArgs
<1>3. start \in S /\ N \in Nat
  OBVIOUS
<1> HIDE DEF Round, S, start, N
<1>4. round \in [1..N -> [S -> S]]
  BY <1>1
<1>5. PICK g \in [0..N -> S] : IsRun(g, N, start, round)
  <2> HIDE DEF round
  <2>1. QED
    BY <1>3, <1>4, Loop, Zenon
<1>6. IsStored(g)
  <2>1. ASSUME NEW n \in 1..N PROVE g[n] = Round(n, g[n - 1])
    <3>1. g[n - 1] \in S
      BY <1>3
    <3>2. g[n] = round[n][g[n - 1]]
      BY <1>5 DEF IsRun
    <3>3. QED
      BY <3>1, <3>2
  <2>2. g[0] = start
    BY <1>5 DEF IsRun
  <2>3. QED
    BY <1>3, <2>1, <2>2
<1>7. IsStored(stored)
  BY <1>6, Zenon
<1>8. stored[0] = start /\ \A n \in 1..N : stored[n] = Round(n, stored[n - 1])
  <2> HIDE DEF stored
  <2>1. QED
    BY <1>3, <1>7
<1> HIDE DEF stored, IsStored
<1>9. stored[N] \in S
  <2> DEFINE A == {n \in 0..N : stored[n] \in S}
  <2>1. ASSUME NEW n \in 1..N, stored[n - 1] \in S PROVE stored[n] \in S
    BY <1>1, <1>8, <2>1
  <2>2. 0 \in A /\ \A n \in 1..N : n - 1 \in A => n \in A
    BY <1>3, <1>8, <2>1
  <2> HIDE DEF A
  <2>3. 0..N \subseteq A
    BY <1>3, <2>2, Rounds, Zenon
  <2>4. QED
    BY <1>3, <2>3 DEF A
<1>10. QED
  BY <1>2, <1>9 DEF S

\* So does a program that makes an argument vector.
LEMMA ArgVectorCells ==
  ASSUME NEW P, NEW pgd \in TablesIn(P), NEW m \in Memories, NEW args \in Seq(Seq(Nat)),
         NEW place \in Nat
  PROVE  ArgVector(m, pgd, args, place) \in Memories
<1> DEFINE N == Len(args)
           S == [m : Memories, free : Nat]
           start == [m |-> m, free |-> place + Len(args)]
           Round(n, x) == [m    |-> Store(Store(x.m, pgd, place + n - 1, <<x.free>>),
                                          pgd, x.free, Append(args[n], 0)),
                           free |-> x.free + Len(args[n]) + 1]
           IsStored(stored) ==
             stored = [n \in 0..N |-> IF n = 0 THEN start ELSE Round(n, stored[n - 1])]
           stored == CHOOSE stored : IsStored(stored)
           round == [n \in 1..N |-> [x \in S |-> Round(n, x)]]
<1>1. ASSUME NEW n \in 1..N, NEW x \in S PROVE Round(n, x) \in S
  <2>1. /\ x.m \in Memories /\ x.free \in Nat /\ <<x.free>> \in Seq(Nat)
        /\ place + n - 1 \in Int /\ args[n] \in Seq(Nat) /\ Len(args[n]) \in Nat
        /\ Append(args[n], 0) \in Seq(Nat)
    OBVIOUS
  <2>2. Store(x.m, pgd, place + n - 1, <<x.free>>) \in Memories
    BY <2>1, StoreCells, Zenon
  <2>3. Store(Store(x.m, pgd, place + n - 1, <<x.free>>), pgd, x.free, Append(args[n], 0))
          \in Memories
    <3> DEFINE first == Store(x.m, pgd, place + n - 1, <<x.free>>)
               s     == Append(args[n], 0)
    <3>1. first \in Memories /\ s \in Seq(Nat) /\ x.free \in Int
      BY <2>1, <2>2
    <3> HIDE DEF first, s
    <3>2. Store(first, pgd, x.free, s) \in Memories
      BY <3>1, StoreCells
    <3>3. QED
      BY <3>2 DEF first, s
  <2>4. x.free + Len(args[n]) + 1 \in Nat
    BY <2>1
  <2>5. QED
    BY <2>3, <2>4
<1>2. ArgVector(m, pgd, args, place) = stored[N].m
  BY DEF ArgVector
<1>3. start \in S /\ N \in Nat
  OBVIOUS
<1> HIDE DEF Round, S, start, N
<1>4. round \in [1..N -> [S -> S]]
  BY <1>1
<1>5. PICK g \in [0..N -> S] : IsRun(g, N, start, round)
  <2> HIDE DEF round
  <2>1. QED
    BY <1>3, <1>4, Loop, Zenon
<1>6. IsStored(g)
  <2>1. ASSUME NEW n \in 1..N PROVE g[n] = Round(n, g[n - 1])
    <3>1. g[n - 1] \in S
      BY <1>3
    <3>2. g[n] = round[n][g[n - 1]]
      BY <1>5 DEF IsRun
    <3>3. QED
      BY <3>1, <3>2
  <2>2. g[0] = start
    BY <1>5 DEF IsRun
  <2>3. QED
    BY <1>3, <2>1, <2>2
<1>7. IsStored(stored)
  BY <1>6, Zenon
<1>8. stored[0] = start /\ \A n \in 1..N : stored[n] = Round(n, stored[n - 1])
  <2> HIDE DEF stored
  <2>1. QED
    BY <1>3, <1>7
<1> HIDE DEF stored, IsStored
<1>9. stored[N] \in S
  <2> DEFINE A == {n \in 0..N : stored[n] \in S}
  <2>1. ASSUME NEW n \in 1..N, stored[n - 1] \in S PROVE stored[n] \in S
    BY <1>1, <1>8, <2>1
  <2>2. 0 \in A /\ \A n \in 1..N : n - 1 \in A => n \in A
    BY <1>3, <1>8, <2>1
  <2> HIDE DEF A
  <2>3. 0..N \subseteq A
    BY <1>3, <2>2, Rounds, Zenon
  <2>4. QED
    BY <1>3, <2>3 DEF A
<1> HIDE DEF stored
<1>10. QED
  BY <1>2, <1>9 DEF S

\* A set of numbers has a least one.
LEMMA Least ==
  ASSUME NEW E, E \subseteq Nat, E # {}
  PROVE  \E n \in E : \A m \in E : n <= m
<1>1. PICK n \in E : \A m \in E : ~(<<m, n>> \in OpToRel(<, Nat))
  BY NatLessThanWellFounded, WFMin, Zenon
<1>2. ASSUME NEW m \in E, m < n PROVE FALSE
  <2>1. <<m, n>> \in OpToRel(<, Nat)
    BY <1>2 DEF OpToRel
  <2>2. QED
    BY <1>1, <2>1, Zenon
<1>3. QED
  BY <1>2

\* The kernel copies strings of numbers.
LEMMA StrncpyType ==
  ASSUME NEW P, NEW pgd \in TablesIn(P), NEW m \in Memories, NEW virt \in Int, NEW max \in Nat
  PROVE  strncpy(m, pgd, virt, max) \in Seq(Nat)
<1> DEFINE char(i) == Load(m, pgd, virt + i - 1)
           Ends(n) == (\A i \in 1..n : char(i) # 0) /\ (n < max => char(n + 1) = 0)
           len     == CHOOSE n \in 0..max : Ends(n)
           E       == {n \in 0..max : n < max => char(n + 1) = 0}
<1>1. strncpy(m, pgd, virt, max) = [i \in 1..len |-> char(i)]
  BY DEF strncpy
<1>2. \A i \in Int : char(i) \in Nat
  BY LoadCell
<1> HIDE DEF char
<1>3. \E n \in 0..max : Ends(n)
  <2>1. E \subseteq Nat /\ max \in E
    OBVIOUS
  <2>2. PICK n \in E : \A k \in E : n <= k
    BY <2>1, Least, Zenon
  <2>3. ASSUME NEW i \in 1..n PROVE char(i) # 0
    <3>1. i - 1 \in 0..max /\ i - 1 < n /\ (i - 1) + 1 = i
      BY <2>2
    <3>2. i - 1 \notin E
      BY <2>2, <3>1
    <3>3. QED
      BY <3>1, <3>2
  <2>4. QED
    BY <2>2, <2>3
<1> HIDE DEF Ends
<1>4. len \in 0..max
  BY <1>3
<1> HIDE DEF len
<1>5. \A i \in 1..len : char(i) \in Nat
  BY <1>2, <1>4
<1>6. QED
  BY <1>1, <1>4, <1>5

-----------------------------------------------------------------------------
(* The inductive invariant.                                                *)

Fields == {"pgd", "esp", "program", "own", "mallocs", "passed", "moved", "seen"}

\* The pages that a task was given.
Given(t) == t.own \cup t.mallocs

\* The pages that its tables may let it write to: where a segment needs more
\* memory than the file has, nothing is said about them.
MayWrite(t) == IF WithinFile(Programs[t.program]) THEN Given(t) ELSE Nat

\* A task has page tables for its own pages, pages that the heap has given out,
\* its stack pointer, and numbers as the arguments of main.  The heap is at page h.
IsTask(t, h) ==
  /\ DOMAIN t = Fields
  /\ t.esp = TASK_STACK_VIRT_ADDR - 2
  /\ Given(t) \subseteq 0..(h - 1)
  /\ t.pgd \in TablesIn(MayWrite(t))
  /\ t.seen # NoCall => t.seen.argc \in Nat /\ t.seen.argv \in Nat

Elements(s) == {s[i] : i \in 1..Len(s)}

MemoryInv == heap \in Nat /\ mem \in Memories

\* No page was given to two tasks.
TasksInv ==
  /\ tasks \in Seq(Elements(tasks))
  /\ \A i \in 1..Len(tasks) : IsTask(tasks[i], heap)
  /\ \A i, j \in 1..Len(tasks) : i # j => Given(tasks[i]) \cap Given(tasks[j]) = {}

\* A call in progress is the call of a task, and what it has copied so far are
\* numbers and strings of numbers.
CallInv ==
  \/ call = NoCall
  \/ tasks # <<>> /\ call.step = "filename"
  \/ tasks # <<>> /\ call.step = "pointers" /\ call.argc \in Nat /\ call.argv \in Nat
  \/ /\ tasks # <<>> /\ call.step = "strings"
     /\ DOMAIN call = {"step", "passed", "file", "ptrs", "strs", "moved"}
     /\ call.ptrs \in Seq(Nat) /\ call.strs \in Seq(Seq(Nat))

Inv == MemoryInv /\ TasksInv /\ CallInv

\* Every page that can be written is a page.
LEMMA AnyTables ==
  ASSUME NEW P
  PROVE  TablesIn(P) \subseteq TablesIn(Nat)
<1>1. ASSUME NEW e \in EntryIn(P) PROVE e \in EntryIn(Nat)
  <2>1. e.frame \in Nat
    BY DEF EntryIn
  <2>2. e.frame \div PAGING_PAGE_SIZE \in Nat
    BY <2>1, PagingAssumption
  <2>3. QED
    BY <2>2 DEF EntryIn
<1>2. QED
  BY <1>1 DEF TablesIn

\* copy_string_from_user_task puts the tables back as they were.
LEMMA CopyKeepsTables ==
  ASSUME MemoryInv, NEW P, NEW pgd \in TablesIn(P), NEW virt \in Int, NEW max \in Nat
  PROVE  /\ copy_string_from_user_task(pgd, virt, max).pgd = pgd
         /\ copy_string_from_user_task(pgd, virt, max).string \in Seq(Nat)
<1> DEFINE tmp    == heap * PAGING_PAGE_SIZE
           entry  == [frame |-> tmp, flags |-> UserRW]
           Q      == P \cup {heap}
           mapped == paging_map_range(pgd, tmp, tmp, 1, UserRW).pgd
<1>1. heap \in Nat /\ tmp \in Nat /\ paging_is_aligned(tmp)
      /\ tmp \div PAGING_PAGE_SIZE = heap
  <2>1. heap \in Nat /\ heap \in Int /\ heap * PAGING_PAGE_SIZE \in Nat
    BY PagingAssumption DEF MemoryInv
  <2>2. QED
    BY <2>1, PageAligned
<1>2. mapped = paging_set(pgd, tmp, entry).pgd
  <2> DEFINE set == paging_set(pgd, tmp, entry).pgd
  <2>1. paging_map_range(pgd, tmp, tmp, 1, UserRW) = [ok |-> TRUE, pgd |-> set]
    BY <1>1, MapPage, Zenon
  <2> HIDE DEF set
  <2>2. mapped = set
    BY <2>1
  <2>3. QED
    BY <2>2 DEF set
<1>3. entry \in EntryIn(Q)
  BY <1>1 DEF EntryIn, UserRW
<1>4. pgd \in TablesIn(Q)
  BY TablesGrow
<1> HIDE DEF entry, tmp, Q
<1>5. mapped \in TablesIn(Q)
  <2>1. tmp \in Int
    BY <1>1
  <2>2. paging_set(pgd, tmp, entry).pgd \in TablesIn(Q)
    BY <2>1, <1>3, <1>4, SetPte
  <2>3. QED
    BY <1>2, <2>2
<1>6. paging_set(mapped, tmp, paging_get_pte(pgd, tmp)).pgd = pgd
  BY <1>1, <1>2, SetBack
<1> HIDE DEF mapped
<1>7. strncpy(mem, mapped, virt, max) \in Seq(Nat)
  BY <1>5, StrncpyType DEF MemoryInv
<1>8. copy_string_from_user_task(pgd, virt, max)
        = [string |-> strncpy(mem, mapped, virt, max),
           pgd    |-> paging_set(mapped, tmp, paging_get_pte(pgd, tmp)).pgd,
           moved  |-> paging_align_to_lower_page(virt) = tmp]
  BY DEF copy_string_from_user_task, CopyString, mapped, tmp
<1>9. QED
  BY <1>6, <1>7, <1>8

\* The pages of cells that begin at a page.
LEMMA PagesFrom ==
  ASSUME NEW k \in Int, NEW size \in Int
  PROVE  Pages(k * PAGING_PAGE_SIZE, size)
           = k..((k * PAGING_PAGE_SIZE + size - 1) \div PAGING_PAGE_SIZE)
BY PageAligned DEF Pages

\* The pages of a number of whole pages.
LEMMA PagesWhole ==
  ASSUME NEW k \in Int, NEW z \in Int
  PROVE  Pages(k * PAGING_PAGE_SIZE, z * PAGING_PAGE_SIZE) = k..(k + z - 1)
<1> DEFINE r == PAGING_PAGE_SIZE - 1
<1>1. /\ k * PAGING_PAGE_SIZE + z * PAGING_PAGE_SIZE - 1 = (k + z - 1) * PAGING_PAGE_SIZE + r
      /\ r \in 0..(PAGING_PAGE_SIZE - 1) /\ k + z - 1 \in Int /\ z * PAGING_PAGE_SIZE \in Int
  BY PagingAssumption
<1> HIDE DEF r
<1>2. ((k + z - 1) * PAGING_PAGE_SIZE + r) \div PAGING_PAGE_SIZE = k + z - 1
  BY <1>1, PageOf
<1>3. QED
  BY <1>1, <1>2, PagesFrom

\* The cells of a page at most lie in one page.
LEMMA PagesOne ==
  ASSUME NEW k \in Int, NEW size \in 0..PAGING_PAGE_SIZE
  PROVE  Pages(k * PAGING_PAGE_SIZE, size) \subseteq k..k
<1> DEFINE a == k * PAGING_PAGE_SIZE + size - 1
           b == k * PAGING_PAGE_SIZE + (PAGING_PAGE_SIZE - 1)
<1>1. /\ a \in Int /\ b \in Int /\ a <= b /\ size \in Int
      /\ PAGING_PAGE_SIZE - 1 \in 0..(PAGING_PAGE_SIZE - 1)
  BY PagingAssumption
<1>2. b \div PAGING_PAGE_SIZE = k
  BY <1>1, PageOf
<1>3. a \div PAGING_PAGE_SIZE \in Int
  BY <1>1, PageParts
<1> HIDE DEF b
<1>4. Pages(k * PAGING_PAGE_SIZE, size) = k..(a \div PAGING_PAGE_SIZE)
  BY <1>1, PagesFrom
<1> HIDE DEF a
<1>5. a \div PAGING_PAGE_SIZE <= k
  BY <1>1, <1>2, PagesInOrder
<1>6. QED
  BY <1>3, <1>4, <1>5

\* Cells within others lie in pages within theirs.
LEMMA PagesWithin ==
  ASSUME NEW addr \in Int, NEW size \in Int, NEW a \in Int, NEW n \in Int,
         addr <= a, a + n <= addr + size
  PROVE  Pages(a, n) \subseteq Pages(addr, size)
<1> DEFINE f == addr \div PAGING_PAGE_SIZE
           l == (addr + size - 1) \div PAGING_PAGE_SIZE
           g == a \div PAGING_PAGE_SIZE
           h == (a + n - 1) \div PAGING_PAGE_SIZE
<1>1. f \in Int /\ l \in Int /\ g \in Int /\ h \in Int
  BY PageParts
<1>2. f <= g
  BY PagesInOrder
<1>3. h <= l
  <2>1. a + n - 1 \in Int /\ addr + size - 1 \in Int /\ a + n - 1 <= addr + size - 1
    OBVIOUS
  <2>2. QED
    BY <2>1, PagesInOrder
<1>4. Pages(a, n) = g..h /\ Pages(addr, size) = f..l
  BY DEF Pages
<1> HIDE DEF f, g, h, l
<1>5. QED
  BY <1>1, <1>2, <1>3, <1>4

-----------------------------------------------------------------------------
(* Loading a program, with the heap at page h.                             *)

Image(h) == (h + 1) * PAGING_PAGE_SIZE

Stack(h, program) == paging_align_address(Image(h) + Len(program.file))

ArgBlock(h, program) == Stack(h, program) + TASK_STACK_SIZE

Own(h, program) ==
  Pages(Image(h), Len(program.file)) \cup Pages(Stack(h, program), TASK_STACK_SIZE)
    \cup Pages(ArgBlock(h, program), ArgBlockSize)

\* Stack and arguments begin at the pages s and a, after the image and after
\* the stack.
IsLayout(s, a, h, program) ==
  /\ h + 1 <= s /\ s <= a
  /\ Stack(h, program) = s * PAGING_PAGE_SIZE
  /\ ArgBlock(h, program) = a * PAGING_PAGE_SIZE
  /\ Own(h, program) \subseteq (h + 1)..a

LEMMA Layout ==
  ASSUME NEW h \in Nat, NEW program \in Program
  PROVE  \E s, a \in Nat : IsLayout(s, a, h, program)
<1> DEFINE L    == Len(program.file)
           last == Image(h) + L - 1
           s    == last \div PAGING_PAGE_SIZE + 1
           z    == TASK_STACK_SIZE \div PAGING_PAGE_SIZE
           a    == s + z
<1>1. L \in Nat /\ h + 1 \in Int
  BY DEF Program
<1>2. Image(h) \in Nat
  BY PagingAssumption DEF Image
<1>3. last \in Int /\ Image(h) + L \in Int /\ last = (Image(h) + L) - 1
  BY <1>1, <1>2
<1>4. s \in Int /\ Stack(h, program) = s * PAGING_PAGE_SIZE
  <2>1. last \div PAGING_PAGE_SIZE \in Int
    BY <1>3, PageParts
  <2>2. Stack(h, program) = (((Image(h) + L) - 1) \div PAGING_PAGE_SIZE + 1) * PAGING_PAGE_SIZE
    BY <1>3, AlignUp DEF Stack
  <2>3. QED
    BY <1>3, <2>1, <2>2
<1>5. h + 1 <= s
  <2> DEFINE first == h * PAGING_PAGE_SIZE + (PAGING_PAGE_SIZE - 1)
  <2>1. first \in Int /\ first <= last /\ PAGING_PAGE_SIZE - 1 \in 0..(PAGING_PAGE_SIZE - 1)
    <3>1. first = Image(h) - 1 /\ first \in Int
      BY PagingAssumption DEF Image
    <3>2. PAGING_PAGE_SIZE - 1 \in 0..(PAGING_PAGE_SIZE - 1)
      BY PagingAssumption
    <3> HIDE DEF first
    <3>3. QED
      BY <1>1, <1>2, <3>1, <3>2
  <2>2. first \div PAGING_PAGE_SIZE = h
    BY <2>1, PageOf
  <2> HIDE DEF first
  <2> DEFINE p == last \div PAGING_PAGE_SIZE
  <2>3. h <= p /\ p \in Int
    BY <1>3, <2>1, <2>2, PagesInOrder, PageParts, Zenon
  <2> HIDE DEF last
  <2>4. s = p + 1
    OBVIOUS
  <2> HIDE DEF p, s
  <2>5. QED
    BY <2>3, <2>4
<1>6. z \in Nat /\ TASK_STACK_SIZE = z * PAGING_PAGE_SIZE
  <2>1. TASK_STACK_SIZE \in Nat /\ TASK_STACK_SIZE % PAGING_PAGE_SIZE = 0
    BY ExecAssumption DEF paging_is_aligned
  <2>2. TASK_STACK_SIZE = z * PAGING_PAGE_SIZE + (TASK_STACK_SIZE % PAGING_PAGE_SIZE)
    BY <2>1, PageParts
  <2>3. z \in Nat
    BY <2>1, PagingAssumption
  <2> HIDE DEF z
  <2>4. z * PAGING_PAGE_SIZE \in Nat
    BY <2>3, PagingAssumption
  <2>5. QED
    BY <2>1, <2>2, <2>3, <2>4
<1>7. Pages(Image(h), L) = (h + 1)..(s - 1)
  <2>1. Pages(Image(h), L) = (h + 1)..(last \div PAGING_PAGE_SIZE)
    BY <1>1, PagesFrom DEF Image
  <2>2. last \div PAGING_PAGE_SIZE \in Int
    BY <1>3, PageParts
  <2>3. s - 1 = last \div PAGING_PAGE_SIZE
    BY <2>2
  <2>4. QED
    BY <2>1, <2>3
<1> HIDE DEF L, s, z, last
<1>8. a \in Nat /\ s \in Nat /\ s <= a
  BY <1>4, <1>5, <1>6
<1>9. ArgBlock(h, program) = a * PAGING_PAGE_SIZE
  BY <1>4, <1>6, PagingAssumption DEF ArgBlock
<1>10. Pages(s * PAGING_PAGE_SIZE, z * PAGING_PAGE_SIZE) = s..(a - 1)
  <2>1. Pages(s * PAGING_PAGE_SIZE, z * PAGING_PAGE_SIZE) = s..(s + z - 1)
    BY <1>4, <1>6, PagesWhole
  <2>2. s + z - 1 = a - 1
    BY <1>4, <1>6
  <2>3. QED
    BY <2>1, <2>2
<1>11. Pages(a * PAGING_PAGE_SIZE, ArgBlockSize) \subseteq a..a
  <2>1. MAX_CMMD_ARG_LEN \in Nat /\ MAX_NUM_ARGS \in Nat /\ ArgBlockSize <= PAGING_PAGE_SIZE
    BY ExecAssumption DEF ArgBlockSize
  <2>2. ArgBlockSize \in Nat
    BY <2>1 DEF ArgBlockSize
  <2>3. ArgBlockSize \in 0..PAGING_PAGE_SIZE
    BY <2>1, <2>2, PagingAssumption
  <2>4. QED
    BY <1>8, <2>3, PagesOne
<1>12. Own(h, program)
         = (h + 1)..(s - 1) \cup s..(a - 1) \cup Pages(a * PAGING_PAGE_SIZE, ArgBlockSize)
  BY <1>4, <1>6, <1>7, <1>9, <1>10 DEF Own, L
<1> HIDE DEF a
<1>13. Own(h, program) \subseteq (h + 1)..a
  BY <1>5, <1>8, <1>11, <1>12
<1>14. IsLayout(s, a, h, program)
  BY <1>4, <1>5, <1>8, <1>9, <1>13 DEF IsLayout
<1>15. QED
  BY <1>8, <1>14

\* Segments within the file lie in the pages of the image.
LEMMA MapsToOwn ==
  ASSUME NEW h \in Nat, NEW program \in Program, WithinFile(program)
  PROVE  MapsTo(program, Stack(h, program), ArgBlock(h, program), Image(h))
           \subseteq Own(h, program)
<1> DEFINE L == Len(program.file)
<1>1. /\ L \in Nat /\ program.phdrs \in Seq(Phdr)
      /\ program.format \in {"BINARY", "ELF"}
  BY DEF Program, Phdr
<1>2. Image(h) \in Nat
  BY PagingAssumption DEF Image
<1>3. ASSUME program.format = "ELF", NEW i \in 1..Len(program.phdrs)
      PROVE  Pages(Image(h) + program.phdrs[i].p_offset, program.phdrs[i].p_memsz)
               \subseteq Pages(Image(h), L)
  <2> DEFINE o == program.phdrs[i].p_offset
             n == program.phdrs[i].p_memsz
  <2>1. program.phdrs[i] \in Phdr
    BY <1>1
  <2>2. o \in Nat /\ n \in Nat
    BY <2>1 DEF Phdr
  <2>3. o + n <= L
    BY <1>3 DEF WithinFile
  <2> HIDE DEF o, n, L
  <2>4. /\ Image(h) + o \in Int /\ Image(h) <= Image(h) + o
        /\ (Image(h) + o) + n <= Image(h) + L /\ L \in Int /\ Image(h) \in Int /\ n \in Int
    BY <1>1, <1>2, <2>2, <2>3 DEF L
  <2>5. Pages(Image(h) + o, n) \subseteq Pages(Image(h), L)
    BY <2>4, PagesWithin
  <2>6. QED
    BY <2>5 DEF o, n
<1>4. CASE program.format = "ELF"
  BY <1>3, <1>4 DEF MapsTo, Own
<1>5. CASE program.format # "ELF"
  BY <1>5 DEF MapsTo, Own
<1>6. QED
  BY <1>4, <1>5

\* The task that process_load_for_slot makes.
NewTask(pgd, h, name, passed, moved) ==
  [pgd |-> pgd, esp |-> TASK_STACK_VIRT_ADDR - 2, program |-> name,
   own |-> Own(h, Programs[name]), mallocs |-> {}, passed |-> passed, moved |-> moved,
   seen |-> NoCall]

\* It is one, with pages that the heap had not given out before.
LEMMA NewTaskIsTask ==
  ASSUME NEW h \in Nat, NEW name \in DOMAIN Programs, NEW passed, NEW moved, NEW a \in Nat,
         NEW pgd \in TablesIn(MapsTo(Programs[name], Stack(h, Programs[name]),
                                     ArgBlock(h, Programs[name]), Image(h))),
         Own(h, Programs[name]) \subseteq (h + 1)..a
  PROVE  /\ IsTask(NewTask(pgd, h, name, passed, moved), a + 2)
         /\ Given(NewTask(pgd, h, name, passed, moved)) \cap 0..(h - 1) = {}
<1> DEFINE program == Programs[name]
           P == MapsTo(program, Stack(h, program), ArgBlock(h, program), Image(h))
           t == NewTask(pgd, h, name, passed, moved)
<1>1. /\ DOMAIN t = Fields /\ t.pgd = pgd /\ t.esp = TASK_STACK_VIRT_ADDR - 2
      /\ t.program = name /\ t.own = Own(h, program) /\ t.mallocs = {} /\ t.seen = NoCall
  BY DEF NewTask, Fields
<1>2. program \in Program
  BY ExecAssumption
<1> HIDE DEF t
<1>3. Given(t) = Own(h, program)
  BY <1>1 DEF Given
<1>4. WithinFile(program) => P \subseteq Own(h, program)
  BY <1>2, MapsToOwn
<1>5. pgd \in TablesIn(Nat)
  BY AnyTables
<1> HIDE DEF P
<1>6. WithinFile(program) => pgd \in TablesIn(Own(h, program))
  BY <1>4, TablesGrow DEF P
<1>7. t.pgd \in TablesIn(MayWrite(t))
  BY <1>1, <1>3, <1>5, <1>6 DEF MayWrite
<1>8. Given(t) \subseteq 0..((a + 2) - 1) /\ Given(t) \cap 0..(h - 1) = {}
  BY <1>3
<1>9. IsTask(t, a + 2)
  BY <1>1, <1>7, <1>8 DEF IsTask
<1>10. QED
  BY <1>8, <1>9, Zenon DEF t

\* A task stays one when the heap gives out more pages.
LEMMA IsTaskGrows ==
  ASSUME NEW t, NEW g \in Nat, NEW h \in Nat, g <= h, IsTask(t, g)
  PROVE  IsTask(t, h)
<1>1. 0..(g - 1) \subseteq 0..(h - 1)
  OBVIOUS
<1>2. QED
  BY <1>1 DEF IsTask

\* A sequence is one of its elements.
LEMMA OwnElements ==
  ASSUME NEW S, NEW s \in Seq(S)
  PROVE  s \in Seq(Elements(s))
<1>1. DOMAIN s = 1..Len(s) /\ Len(s) \in Nat /\ s = [i \in 1..Len(s) |-> s[i]]
  OBVIOUS
<1>2. s \in [1..Len(s) -> Elements(s)]
  BY <1>1 DEF Elements
<1>3. QED
  BY <1>1, <1>2

\* A task more.
LEMMA AppendTask ==
  ASSUME TasksInv, heap \in Nat, NEW t, NEW h \in Nat, heap <= h, IsTask(t, h),
         Given(t) \cap 0..(heap - 1) = {},
         tasks' = Append(tasks, t), heap' = h
  PROVE  /\ TasksInv' /\ tasks' # <<>>
         /\ \A i \in 1..Len(tasks) : tasks'[i] = tasks[i]
<1> DEFINE S == Elements(tasks) \cup {t}
           n == Len(tasks)
<1>1. tasks \in Seq(S) /\ n \in Nat
  <2>1. tasks \in Seq(Elements(tasks))
    BY DEF TasksInv
  <2> DEFINE E == Elements(tasks)
  <2> HIDE DEF E
  <2>2. tasks \in Seq(E \cup {t}) /\ Len(tasks) \in Nat
    BY <2>1 DEF E
  <2>3. QED
    BY <2>2 DEF E
<1> HIDE DEF S
<1>2. t \in S
  BY DEF S
<1>3. /\ tasks' \in Seq(S) /\ Len(tasks') = n + 1 /\ tasks'[n + 1] = t
      /\ \A i \in 1..n : tasks'[i] = tasks[i]
  BY <1>1, <1>2
<1>4. tasks' \in Seq(Elements(tasks'))
  BY <1>3, OwnElements, Zenon
<1>5. \A i \in 1..n : IsTask(tasks'[i], h) /\ Given(tasks'[i]) \subseteq 0..(heap - 1)
  <2>1. ASSUME NEW i \in 1..n PROVE IsTask(tasks[i], heap)
    BY DEF TasksInv
  <2>2. ASSUME NEW i \in 1..n
        PROVE  IsTask(tasks[i], h) /\ Given(tasks[i]) \subseteq 0..(heap - 1)
    <3>1. IsTask(tasks[i], heap)
      BY <2>1
    <3>2. Given(tasks[i]) \subseteq 0..(heap - 1)
      BY <3>1 DEF IsTask
    <3>3. QED
      BY <3>1, <3>2, IsTaskGrows
  <2>3. QED
    BY <1>3, <2>2
<1>6. \A i \in 1..(n + 1) : i \in 1..n \/ i = n + 1
  BY <1>1
<1>7. \A i \in 1..(n + 1) : IsTask(tasks'[i], h)
  BY <1>3, <1>5, <1>6
<1>8. ASSUME NEW i \in 1..(n + 1), NEW j \in 1..(n + 1), i # j
      PROVE  Given(tasks'[i]) \cap Given(tasks'[j]) = {}
  <2>1. CASE i \in 1..n /\ j \in 1..n
    <3>1. Given(tasks[i]) \cap Given(tasks[j]) = {}
      BY <1>8, <2>1, Zenon DEF TasksInv
    <3>2. QED
      BY <1>3, <2>1, <3>1
  <2>2. CASE i \in 1..n /\ j = n + 1
    BY <1>3, <1>5, <2>2
  <2>3. CASE i = n + 1 /\ j \in 1..n
    BY <1>3, <1>5, <2>3
  <2>4. QED
    BY <1>6, <1>8, <2>1, <2>2, <2>3, Zenon
<1>9. tasks' # <<>>
  BY <1>1, <1>3
<1>10. TasksInv'
  BY <1>3, <1>4, <1>7, <1>8, Zenon DEF TasksInv
<1>11. QED
  BY <1>3, <1>9, <1>10

\* A task changes, and gets at most pages that the heap had not given out.
LEMMA ReplaceTask ==
  ASSUME TasksInv, heap \in Nat, NEW c \in 1..Len(tasks), NEW t, NEW h \in Nat, heap <= h,
         IsTask(t, h), Given(t) \subseteq Given(tasks[c]) \cup heap..(h - 1),
         tasks' = [tasks EXCEPT ![c] = t], heap' = h
  PROVE  TasksInv' /\ Len(tasks') = Len(tasks) /\ tasks' # <<>>
<1> DEFINE S == Elements(tasks) \cup {t}
           n == Len(tasks)
<1>1. tasks \in Seq(S) /\ n \in Nat
  <2>1. tasks \in Seq(Elements(tasks))
    BY DEF TasksInv
  <2> DEFINE E == Elements(tasks)
  <2> HIDE DEF E
  <2>2. tasks \in Seq(E \cup {t}) /\ Len(tasks) \in Nat
    BY <2>1 DEF E
  <2>3. QED
    BY <2>2 DEF E
<1> HIDE DEF S
<1>2. t \in S
  BY DEF S
<1>3. /\ tasks' \in Seq(S) /\ Len(tasks') = n /\ tasks'[c] = t
      /\ \A i \in 1..n : i # c => tasks'[i] = tasks[i]
  BY <1>1, <1>2
<1>4. tasks' \in Seq(Elements(tasks'))
  BY <1>3, OwnElements, Zenon
<1>5. \A i \in 1..n : IsTask(tasks[i], heap) /\ Given(tasks[i]) \subseteq 0..(heap - 1)
  BY DEF TasksInv, IsTask
<1>6. ASSUME NEW i \in 1..n PROVE IsTask(tasks'[i], h)
  <2>1. IsTask(tasks[i], h)
    BY <1>5, IsTaskGrows
  <2>2. QED
    BY <1>3, <2>1
<1>7. \A i, j \in 1..n : i # j => Given(tasks[i]) \cap Given(tasks[j]) = {}
  BY Zenon DEF TasksInv
<1>8. 0..(heap - 1) \cap heap..(h - 1) = {}
  OBVIOUS
<1>9. ASSUME NEW i \in 1..n, i # c
      PROVE  tasks'[i] = tasks[i] /\ Given(tasks[i]) \cap Given(t) = {}
  BY <1>3, <1>5, <1>7, <1>8, <1>9
<1>10. ASSUME NEW i \in 1..n, NEW j \in 1..n, i # j
       PROVE  Given(tasks'[i]) \cap Given(tasks'[j]) = {}
  <2>1. CASE i # c /\ j # c
    <3>1. tasks'[i] = tasks[i] /\ tasks'[j] = tasks[j]
      BY <1>9, <2>1
    <3>2. QED
      BY <1>7, <1>10, <3>1, Zenon
  <2>2. CASE i = c
    <3>1. j # c
      BY <1>10, <2>2
    <3>2. QED
      BY <1>3, <1>9, <2>2, <3>1
  <2>3. CASE j = c
    <3>1. i # c
      BY <1>10, <2>3
    <3>2. QED
      BY <1>3, <1>9, <2>3, <3>1
  <2>4. QED
    BY <2>1, <2>2, <2>3
<1>11. tasks' # <<>>
  BY <1>1, <1>3
<1>12. TasksInv'
  BY <1>3, <1>4, <1>6, <1>10, Zenon DEF TasksInv
<1>13. QED
  BY <1>3, <1>11, <1>12

\* What the tables of the running task are.
LEMMA Running ==
  ASSUME TasksInv, tasks # <<>>
  PROVE  /\ current \in 1..Len(tasks) /\ IsTask(tasks[current], heap)
         /\ tasks[current].pgd \in TablesIn(MayWrite(tasks[current]))
<1>1. tasks \in Seq(Elements(tasks))
  BY DEF TasksInv
<1> DEFINE E == Elements(tasks)
<1> HIDE DEF E
<1>2. Len(tasks) \in 1..Len(tasks)
  BY <1>1 DEF E
<1>3. QED
  BY <1>2 DEF TasksInv, IsTask, current

\* A copy from the running task.
LEMMA Copies ==
  ASSUME MemoryInv, TasksInv, tasks # <<>>, NEW virt \in Int, NEW max \in Nat,
         heap' = heap + 1,
         tasks' = [tasks EXCEPT ![current].pgd =
                     copy_string_from_user_task(tasks[current].pgd, virt, max).pgd]
  PROVE  /\ TasksInv' /\ tasks' # <<>>
         /\ \A i \in 1..Len(tasks) : tasks'[i].pgd = tasks[i].pgd
         /\ copy_string_from_user_task(tasks[current].pgd, virt, max).string \in Seq(Nat)
<1> DEFINE c    == current
           old  == tasks[current]
           copy == copy_string_from_user_task(tasks[current].pgd, virt, max)
           t    == [old EXCEPT !.pgd = copy.pgd]
           h    == heap + 1
<1>1. c \in 1..Len(tasks) /\ IsTask(old, heap) /\ old.pgd \in TablesIn(MayWrite(old))
  BY Running
<1>2. heap \in Nat /\ h \in Nat /\ heap <= h
  BY DEF MemoryInv
<1>3. copy.pgd = old.pgd /\ copy.string \in Seq(Nat)
  BY <1>1, CopyKeepsTables
<1> HIDE DEF copy
<1>4. tasks' = [tasks EXCEPT ![c] = t]
  BY DEF copy
<1>5. DOMAIN old = Fields
  BY <1>1 DEF IsTask
<1>6. /\ DOMAIN t = Fields /\ t.pgd = old.pgd /\ t.esp = old.esp /\ t.program = old.program
      /\ t.own = old.own /\ t.mallocs = old.mallocs /\ t.seen = old.seen
  BY <1>3, <1>5 DEF Fields
<1> HIDE DEF t, old, c
<1>7. Given(t) = Given(old) /\ MayWrite(t) = MayWrite(old)
  BY <1>6 DEF Given, MayWrite
<1>8. IsTask(t, heap)
  BY <1>1, <1>5, <1>6, <1>7 DEF IsTask
<1>9. IsTask(t, h)
  BY <1>2, <1>8, IsTaskGrows
<1>10. Given(t) \subseteq Given(tasks[c]) \cup heap..(h - 1)
  BY <1>7 DEF old, c
<1>11. heap' = h
  OBVIOUS
<1> HIDE DEF h
<1>12. TasksInv' /\ tasks' # <<>>
  BY <1>1, <1>2, <1>4, <1>9, <1>10, <1>11, ReplaceTask, Zenon
<1>13. ASSUME NEW i \in 1..Len(tasks) PROVE tasks'[i].pgd = tasks[i].pgd
  <2>1. DOMAIN tasks = 1..Len(tasks)
    <3>1. tasks \in Seq(Elements(tasks))
      BY DEF TasksInv
    <3> DEFINE E == Elements(tasks)
    <3> HIDE DEF E
    <3>2. QED
      BY <3>1 DEF E
  <2>2. tasks'[i] = IF i = c THEN t ELSE tasks[i]
    BY <1>4, <2>1
  <2>3. QED
    BY <1>6, <2>2, Zenon DEF old, c
<1>14. QED
  BY <1>3, <1>12, <1>13 DEF copy

-----------------------------------------------------------------------------
(* The steps.                                                              *)

\* A program is loaded.
LEMMA Loads ==
  ASSUME MemoryInv, TasksInv, NEW name \in DOMAIN Programs, NEW argv \in Seq(Seq(Nat)),
         NEW passed, NEW moved, process_load_for_slot(name, argv, passed, moved)
  PROVE  /\ MemoryInv' /\ TasksInv' /\ tasks' # <<>>
         /\ \A i \in 1..Len(tasks) : tasks'[i] = tasks[i]
<1> DEFINE h         == heap
           program   == Programs[name]
           image     == Image(h)
           stack     == Stack(h, program)
           arg_block == ArgBlock(h, program)
           mapped    == process_map_task_memory(init_page_tables(User), stack, arg_block,
                                                image, program)
           t         == NewTask(mapped.pgd, h, name, passed, moved)
           m1        == Write(mem, image, program.file)
           m2        == put_argv_argc_in_stack_mem(m1, stack, Len(argv),
                                                   COMMAND_LINE_ARG_VIRTUAL_ADDR)
<1>1. /\ mem' = load_arg_block(m2, arg_block, argv)
      /\ heap' = arg_block \div PAGING_PAGE_SIZE + 2
      /\ tasks' = Append(tasks, t)
  BY DEF process_load_for_slot, Image, Stack, ArgBlock, NewTask, Own
<1>2. h \in Nat /\ program \in Program
  BY ExecAssumption DEF MemoryInv
<1>3. PICK s, a \in Nat : IsLayout(s, a, h, program)
  BY <1>2, Layout
<1>4. /\ stack = s * PAGING_PAGE_SIZE /\ arg_block = a * PAGING_PAGE_SIZE
      /\ image = (h + 1) * PAGING_PAGE_SIZE
      /\ h + 1 <= s /\ s <= a /\ Own(h, program) \subseteq (h + 1)..a
  BY <1>3 DEF IsLayout, Image
<1>5. stack \in Nat /\ arg_block \in Nat /\ image \in Nat /\ h + 1 \in Nat
  BY <1>2, <1>4, PagingAssumption
<1>6. heap' = a + 2
  <2>1. (a * PAGING_PAGE_SIZE) \div PAGING_PAGE_SIZE = a
    BY PageAligned
  <2> HIDE DEF arg_block
  <2>2. QED
    BY <1>1, <1>4, <2>1
<1>7. MemoryInv'
  <2>1. program.file \in Seq(Nat)
    BY <1>2 DEF Program
  <2>2. m1 \in Memories
    BY <1>5, <2>1, WriteCells DEF MemoryInv
  <2> HIDE DEF m1
  <2>3. m2 \in Memories
    <3>1. TASK_STACK_SIZE \in Nat /\ COMMAND_LINE_ARG_VIRTUAL_ADDR \in Nat /\ Len(argv) \in Nat
      BY ExecAssumption
    <3> HIDE DEF stack
    <3>2. /\ stack + TASK_STACK_SIZE - 2 \in Int
          /\ <<COMMAND_LINE_ARG_VIRTUAL_ADDR, Len(argv)>> \in Seq(Nat)
      BY <1>5, <3>1
    <3>3. QED
      BY <2>2, <3>2, WriteCells, Zenon DEF put_argv_argc_in_stack_mem
  <2> HIDE DEF m2, arg_block
  <2>4. mem' \in Memories
    BY <1>1, <1>5, <2>3, LoadArgsCells
  <2>5. heap' \in Nat
    BY <1>6
  <2>6. QED
    BY <2>4, <2>5 DEF MemoryInv
<1>8. mapped \in [ok : BOOLEAN, pgd : TablesIn(MapsTo(program, stack, arg_block, image))]
  <2>1. process_map_task_memory(init_page_tables(User), s * PAGING_PAGE_SIZE,
           a * PAGING_PAGE_SIZE, (h + 1) * PAGING_PAGE_SIZE, program)
           \in [ok : BOOLEAN, pgd : TablesIn(MapsTo(program, s * PAGING_PAGE_SIZE,
                                    a * PAGING_PAGE_SIZE, (h + 1) * PAGING_PAGE_SIZE))]
    BY <1>2, <1>5, MapTaskMemory, Zenon
  <2> HIDE DEF stack, arg_block, image, program
  <2>2. QED
    BY <1>4, <2>1
<1> HIDE DEF mapped
<1>9. mapped.pgd \in TablesIn(MapsTo(program, stack, arg_block, image))
  BY <1>8
<1>10. IsTask(t, a + 2) /\ Given(t) \cap 0..(h - 1) = {}
  BY <1>2, <1>4, <1>9, NewTaskIsTask, Zenon
<1> HIDE DEF t, arg_block, stack, image, program
<1>11. a + 2 \in Nat /\ heap <= a + 2 /\ heap \in Nat
  BY <1>2, <1>4
<1>12. QED
  BY <1>1, <1>6, <1>7, <1>10, <1>11, AppendTask

\* kernel_main loads the shell.
LEMMA LoadStep ==
  ASSUME Inv, process_load
  PROVE  Inv'
<1>1. Shell \in DOMAIN Programs /\ <<>> \in Seq(Seq(Nat))
  BY ExecAssumption
<1>2. process_load_for_slot(Shell, <<>>, <<>>, FALSE) /\ tasks = <<>> /\ UNCHANGED call
  BY Zenon DEF process_load
<1>3. MemoryInv' /\ TasksInv' /\ tasks' # <<>>
  BY <1>1, <1>2, Loads, Zenon DEF Inv
<1>4. CallInv'
  BY <1>2, <1>3 DEF Inv, CallInv
<1>5. QED
  BY <1>3, <1>4 DEF Inv

\* _start calls main.
LEMMA StartStep ==
  ASSUME Inv, _start
  PROVE  Inv'
<1> DEFINE c    == current
           old  == tasks[current]
           argv == Load(mem, old.pgd, old.esp)
           argc == Load(mem, old.pgd, old.esp + 1)
           args == [i \in 1..argc |-> String(mem, old.pgd, Load(mem, old.pgd, argv + i - 1))]
           seen == [step |-> "main", argc |-> argc, argv |-> argv, args |-> args]
           t    == [old EXCEPT !.seen = seen]
<1>1. MemoryInv /\ TasksInv /\ CallInv /\ heap \in Nat /\ mem \in Memories
  BY DEF Inv, MemoryInv
<1>2. tasks # <<>>
  BY DEF _start
<1>3. c \in 1..Len(tasks) /\ IsTask(old, heap) /\ old.pgd \in TablesIn(MayWrite(old))
  BY <1>1, <1>2, Running
<1>4. argc \in Nat /\ argv \in Nat
  <2>1. old.esp \in Int /\ old.esp + 1 \in Int
    <3>1. TASK_STACK_VIRT_ADDR \in Nat
      BY ExecAssumption
    <3>2. old.esp = TASK_STACK_VIRT_ADDR - 2
      BY <1>3 DEF IsTask
    <3>3. QED
      BY <3>1, <3>2
  <2>2. QED
    BY <1>1, <1>3, <2>1, LoadCell, Zenon
<1>5. UNCHANGED <<mem, heap, call>>
  BY DEF _start
<1>6. tasks' = [tasks EXCEPT ![current].seen = seen]
  BY DEF _start
<1> HIDE DEF args, argc, argv
<1>7. seen.argc \in Nat /\ seen.argv \in Nat
  BY <1>4
<1> HIDE DEF seen
<1>8. tasks' = [tasks EXCEPT ![c] = t]
  BY <1>6
<1>9. DOMAIN old = Fields
  BY <1>3 DEF IsTask
<1>10. /\ DOMAIN t = Fields /\ t.pgd = old.pgd /\ t.esp = old.esp /\ t.program = old.program
       /\ t.own = old.own /\ t.mallocs = old.mallocs /\ t.seen = seen
  BY <1>9 DEF Fields
<1> HIDE DEF t, old, c
<1>11. Given(t) = Given(old) /\ MayWrite(t) = MayWrite(old)
  BY <1>10 DEF Given, MayWrite
<1>12. IsTask(t, heap)
  BY <1>3, <1>7, <1>9, <1>10, <1>11 DEF IsTask
<1>13. Given(t) \subseteq Given(tasks[c]) \cup heap..(heap - 1)
  BY <1>11 DEF old, c
<1>14. heap' = heap /\ heap <= heap
  BY <1>1, <1>5
<1>15. TasksInv' /\ tasks' # <<>>
  BY <1>1, <1>3, <1>8, <1>12, <1>13, <1>14, ReplaceTask, Zenon
<1>16. MemoryInv' /\ CallInv'
  BY <1>1, <1>2, <1>5, <1>15 DEF MemoryInv, CallInv
<1>17. QED
  BY <1>15, <1>16 DEF Inv

\* A task is given a page, which it may write to.
LEMMA MallocStep ==
  ASSUME Inv, process_malloc_syscall_handler
  PROVE  Inv'
<1> DEFINE c   == current
           old == tasks[current]
           p   == heap * PAGING_PAGE_SIZE
           pgd == paging_create_mapping(old.pgd, p, p,
                    paging_align_address(p + PAGING_PAGE_SIZE), UserRW).pgd
           t   == [old EXCEPT !.pgd = pgd, !.mallocs = old.mallocs \cup {heap}]
           h   == heap + 1
<1>1. MemoryInv /\ TasksInv /\ CallInv /\ heap \in Nat
  BY DEF Inv, MemoryInv
<1>2. /\ tasks # <<>> /\ heap' = h /\ UNCHANGED <<mem, call>>
  BY DEF process_malloc_syscall_handler, InMain
<1>3. tasks' = [tasks EXCEPT ![c].pgd = pgd, ![c].mallocs = @ \cup {heap}]
  BY DEF process_malloc_syscall_handler
<1>4. c \in 1..Len(tasks) /\ IsTask(old, heap) /\ old.pgd \in TablesIn(MayWrite(old))
  BY <1>1, <1>2, Running
<1>5. DOMAIN old = Fields
  BY <1>4 DEF IsTask
<1> DEFINE P == MayWrite(old) \cup {heap}
<1>6. pgd \in TablesIn(P)
  <2>1. /\ old.pgd \in TablesIn(P) /\ p \in Int /\ PAGING_PAGE_SIZE \in Nat
        /\ UserRW \in SUBSET UserRW
    BY <1>1, <1>4, TablesGrow, PagingAssumption
  <2>2. Pages(heap * PAGING_PAGE_SIZE, PAGING_PAGE_SIZE) \subseteq P
    <3>1. PAGING_PAGE_SIZE \in 0..PAGING_PAGE_SIZE /\ heap \in Int
      BY <1>1, PagingAssumption
    <3>2. Pages(heap * PAGING_PAGE_SIZE, PAGING_PAGE_SIZE) \subseteq heap..heap
      BY <3>1, PagesOne
    <3>3. heap..heap = {heap}
      BY <1>1
    <3>4. QED
      BY <3>2, <3>3
  <2> HIDE DEF P, old
  <2>3. paging_create_mapping(old.pgd, p, heap * PAGING_PAGE_SIZE,
          paging_align_address(heap * PAGING_PAGE_SIZE + PAGING_PAGE_SIZE), UserRW)
          \in [ok : BOOLEAN, pgd : TablesIn(P)]
    BY <1>1, <2>1, <2>2, MapAligned, Zenon
  <2>4. QED
    BY <2>3
<1> HIDE DEF pgd
<1>7. tasks' = [tasks EXCEPT ![c] = t]
  <2>1. DOMAIN tasks = 1..Len(tasks)
    <3>1. tasks \in Seq(Elements(tasks))
      BY <1>1 DEF TasksInv
    <3> DEFINE E == Elements(tasks)
    <3> HIDE DEF E
    <3>2. QED
      BY <3>1 DEF E
  <2>2. QED
    BY <1>3, <1>4, <1>5, <2>1, Zenon DEF Fields
<1>8. /\ DOMAIN t = Fields /\ t.pgd = pgd /\ t.esp = old.esp /\ t.program = old.program
      /\ t.own = old.own /\ t.mallocs = old.mallocs \cup {heap} /\ t.seen = old.seen
  BY <1>5 DEF Fields
<1> HIDE DEF t, old, c
<1>9. Given(t) = Given(old) \cup {heap}
  BY <1>8 DEF Given
<1>10. MayWrite(t) = P
  BY <1>1, <1>8, <1>9 DEF MayWrite
<1>11. Given(t) \subseteq 0..(h - 1)
  BY <1>1, <1>4, <1>9 DEF IsTask
<1>12. IsTask(t, h)
  BY <1>4, <1>5, <1>6, <1>8, <1>10, <1>11 DEF IsTask
<1>13. Given(t) \subseteq Given(tasks[c]) \cup heap..(h - 1)
  <2>1. heap \in heap..(h - 1)
    BY <1>1
  <2>2. QED
    BY <1>9, <2>1 DEF old, c
<1>14. h \in Nat /\ heap <= h
  BY <1>1
<1> HIDE DEF h
<1>15. TasksInv' /\ tasks' # <<>>
  BY <1>1, <1>2, <1>4, <1>7, <1>12, <1>13, <1>14, ReplaceTask, Zenon
<1>16. MemoryInv' /\ CallInv'
  BY <1>1, <1>2, <1>14, <1>15 DEF MemoryInv, CallInv
<1>17. QED
  BY <1>15, <1>16 DEF Inv

\* A program writes its stack and calls execve.
LEMMA ExecveStep ==
  ASSUME Inv, tasks # <<>>, NEW m \in Memories, NEW name \in DOMAIN Programs \cup {Missing},
         NEW argc \in Nat, NEW argv \in Nat, CallsExecve(m, name, argc, argv)
  PROVE  Inv'
<1> DEFINE t    == tasks[current]
           P    == MayWrite(t)
           file == Frame(t) - Len(name) - 1
           m1   == Store(m, t.pgd, file, Append(name, 0))
           m2   == Store(m1, t.pgd, Frame(t), <<argc, argv, file>>)
<1>1. MemoryInv /\ TasksInv /\ heap \in Nat
  BY DEF Inv, MemoryInv
<1>2. mem' = m2 /\ call'.step = "filename" /\ UNCHANGED <<heap, tasks>>
  BY DEF CallsExecve
<1>3. t.pgd \in TablesIn(P) /\ IsTask(t, heap)
  BY <1>1, Running
<1>4. /\ Frame(t) \in Int /\ file \in Nat /\ Append(name, 0) \in Seq(Nat)
      /\ <<argc, argv, file>> \in Seq(Nat)
  <2>1. /\ TASK_STACK_VIRT_ADDR \in Nat /\ TASK_STACK_SIZE \in Nat
        /\ TASK_STACK_SIZE <= TASK_STACK_VIRT_ADDR
    BY ExecAssumption
  <2>2. name \in Seq(Nat) /\ Len(name) + 6 <= TASK_STACK_SIZE
    BY ExecAssumption
  <2>3. Len(name) \in Nat /\ Append(name, 0) \in Seq(Nat)
    BY <2>2
  <2>4. Frame(t) = TASK_STACK_VIRT_ADDR - 5
    <3>1. t.esp = TASK_STACK_VIRT_ADDR - 2
      BY <1>3 DEF IsTask
    <3>2. QED
      BY <2>1, <3>1 DEF Frame
  <2>5. file \in Nat
    BY <2>1, <2>2, <2>3, <2>4
  <2> HIDE DEF file
  <2>6. QED
    BY <2>1, <2>3, <2>4, <2>5
<1> HIDE DEF t, P, file
<1>5. m1 \in Memories
  <2> DEFINE s == Append(name, 0)
  <2>1. s \in Seq(Nat) /\ file \in Int
    BY <1>4
  <2> HIDE DEF s
  <2>2. Store(m, t.pgd, file, s) \in Memories
    BY <1>3, <2>1, StoreCells
  <2>3. QED
    BY <2>2 DEF s
<1> HIDE DEF m1
<1>6. m2 \in Memories
  BY <1>3, <1>4, <1>5, StoreCells, Zenon
<1> HIDE DEF m2
<1>7. MemoryInv' /\ TasksInv' /\ CallInv'
  BY <1>1, <1>2, <1>6, Zenon DEF MemoryInv, TasksInv, CallInv
<1>8. QED
  BY <1>7 DEF Inv

\* With the arguments that the program got.
LEMMA PassesArgsOnStep ==
  ASSUME Inv, NEW name \in DOMAIN Programs \cup {Missing}, PassesArgsOn(name)
  PROVE  Inv'
<1> DEFINE t == tasks[current]
<1>1. /\ tasks # <<>> /\ t.seen # NoCall
      /\ CallsExecve(mem, name, t.seen.argc, t.seen.argv)
  BY DEF PassesArgsOn, InMain
<1>2. IsTask(t, heap) /\ mem \in Memories
  BY <1>1, Running DEF Inv, MemoryInv
<1>3. t.seen.argc \in Nat /\ t.seen.argv \in Nat
  BY <1>1, <1>2 DEF IsTask
<1> HIDE DEF t
<1>4. QED
  BY <1>1, <1>2, <1>3, ExecveStep, Zenon

\* With arguments that it makes.
LEMMA MakesArgsStep ==
  ASSUME Inv, NEW name \in DOMAIN Programs, NEW args \in ArgLists, tasks # <<>>,
         NEW place \in Places, MakesArgs(name, args, place)
  PROVE  Inv'
<1> DEFINE t == tasks[current]
           m == ArgVector(mem, t.pgd, args, place)
<1>1. CallsExecve(m, name, Len(args), place)
  BY DEF MakesArgs
<1>2. /\ IsTask(t, heap) /\ t.pgd \in TablesIn(MayWrite(t))
      /\ mem \in Memories /\ heap \in Nat
  BY Running DEF Inv, MemoryInv
<1>3. place \in Nat
  <2>1. CASE t.mallocs = {}
    <3>1. place = TASK_STACK_VIRT_ADDR - TASK_STACK_SIZE
      BY <2>1 DEF Places
    <3>2. /\ TASK_STACK_VIRT_ADDR \in Nat /\ TASK_STACK_SIZE \in Nat
          /\ TASK_STACK_SIZE <= TASK_STACK_VIRT_ADDR
      BY ExecAssumption
    <3>3. QED
      BY <3>1, <3>2
  <2>2. CASE t.mallocs # {}
    <3>1. PICK p \in t.mallocs : place = p * PAGING_PAGE_SIZE
      BY <2>2 DEF Places
    <3>2. p \in Nat
      BY <1>2 DEF IsTask, Given
    <3>3. QED
      BY <3>1, <3>2, PagingAssumption
  <2>3. QED
    BY <2>1, <2>2
<1>4. args \in Seq(Seq(Nat)) /\ Len(args) \in Nat
  <2>1. args \in Seq(Seq(Nat))
    BY ExecAssumption
  <2>2. QED
    BY <2>1
<1> HIDE DEF t
<1>5. m \in Memories
  BY <1>2, <1>3, <1>4, ArgVectorCells
<1> HIDE DEF m
<1>6. QED
  BY <1>1, <1>3, <1>4, <1>5, ExecveStep

\* What the running task has on its stack.
LEMMA StackItem ==
  ASSUME MemoryInv, TasksInv, tasks # <<>>, NEW index \in Int
  PROVE  task_get_stack_item(tasks[current], index) \in Nat
<1> DEFINE t == tasks[current]
<1>1. IsTask(t, heap) /\ t.pgd \in TablesIn(MayWrite(t))
  BY Running
<1>2. Frame(t) + index \in Int
  <2>1. t.esp = TASK_STACK_VIRT_ADDR - 2
    BY <1>1 DEF IsTask
  <2>2. TASK_STACK_VIRT_ADDR \in Nat
    BY ExecAssumption
  <2>3. QED
    BY <2>1, <2>2 DEF Frame
<1> HIDE DEF t
<1>3. Load(mem, t.pgd, Frame(t) + index) \in Nat
  BY <1>1, <1>2, LoadCell, Zenon DEF MemoryInv
<1>4. QED
  BY <1>3 DEF task_get_stack_item, t

\* The kernel takes the arguments of the call.
LEMMA CommandStep ==
  ASSUME Inv, isr80h_command_6_execve
  PROVE  /\ Inv'
         /\ \A i \in 1..Len(tasks) : tasks'[i].pgd = tasks[i].pgd
<1> DEFINE t    == tasks[current]
           virt == task_get_stack_item(t, 2)
           copy == copy_string_from_user_task(t.pgd, virt, MAX_FILE_PATH_CHARS)
           argc == task_get_stack_item(t, 0)
           argv == task_get_stack_item(t, 1)
<1>1. /\ call.step = "filename" /\ heap' = heap + 1
      /\ tasks' = [tasks EXCEPT ![current].pgd = copy.pgd]
      /\ call' = [step   |-> "pointers", passed |-> call.passed, file |-> copy.string,
                  argc   |-> argc, argv |-> argv, moved  |-> copy.moved]
      /\ UNCHANGED mem
  BY DEF isr80h_command_6_execve
<1>2. MemoryInv /\ TasksInv /\ tasks # <<>>
  BY <1>1 DEF Inv, CallInv, NoCall
<1>3. virt \in Nat /\ argc \in Nat /\ argv \in Nat
  BY <1>2, StackItem
<1>4. virt \in Int /\ MAX_FILE_PATH_CHARS \in Nat
  BY <1>3, ExecAssumption
<1> HIDE DEF virt, argc, argv
<1>5. /\ TasksInv' /\ tasks' # <<>>
      /\ \A i \in 1..Len(tasks) : tasks'[i].pgd = tasks[i].pgd
  BY <1>1, <1>2, <1>4, Copies, Zenon
<1> HIDE DEF copy
<1>6. call'.step = "pointers" /\ call'.argc \in Nat /\ call'.argv \in Nat
  BY <1>1, <1>3
<1>7. CallInv' /\ MemoryInv'
  BY <1>1, <1>2, <1>5, <1>6 DEF CallInv, MemoryInv
<1>8. QED
  BY <1>5, <1>7 DEF Inv

\* It copies the pointers.
LEMMA PointersStep ==
  ASSUME Inv, copy_argv_pointers_from_user_task
  PROVE  Inv' /\ tasks' = tasks
<1> DEFINE t    == tasks[current]
           argc == call.argc
           argv == call.argv
           ptrs == [i \in 1..argc |-> Load(mem, t.pgd, argv + i - 1)]
<1>1. /\ call.step = "pointers" /\ heap' = heap + 1 + argc /\ UNCHANGED <<mem, tasks>>
      /\ call' = [step |-> "strings", passed |-> call.passed, file |-> call.file,
                  ptrs |-> ptrs, strs |-> <<>>, moved |-> call.moved]
  BY DEF copy_argv_pointers_from_user_task
<1>2. /\ MemoryInv /\ TasksInv /\ tasks # <<>> /\ argc \in Nat /\ argv \in Nat
  BY <1>1 DEF Inv, CallInv, NoCall
<1>3. t.pgd \in TablesIn(MayWrite(t)) /\ mem \in Memories /\ heap \in Nat
  BY <1>2, Running DEF MemoryInv
<1> HIDE DEF t, argc, argv
<1>4. ptrs \in Seq(Nat)
  <2>1. ASSUME NEW i \in 1..argc PROVE Load(mem, t.pgd, argv + i - 1) \in Nat
    <3>1. argv + i - 1 \in Int
      BY <1>2
    <3>2. QED
      BY <1>3, <3>1, LoadCell
  <2>2. QED
    BY <1>2, <2>1
<1> HIDE DEF ptrs
<1>5. heap + 1 + argc \in Nat /\ heap <= heap + 1 + argc
  BY <1>2, <1>3
<1>6. /\ call'.step = "strings" /\ call'.ptrs \in Seq(Nat) /\ call'.strs \in Seq(Seq(Nat))
      /\ DOMAIN call' = {"step", "passed", "file", "ptrs", "strs", "moved"}
  BY <1>1, <1>4
<1>7. MemoryInv' /\ CallInv'
  BY <1>1, <1>2, <1>3, <1>5, <1>6 DEF MemoryInv, CallInv
<1>8. TasksInv'
  <2>1. \A i \in 1..Len(tasks) : IsTask(tasks[i], heap')
    BY <1>1, <1>2, <1>3, <1>5, IsTaskGrows DEF TasksInv
  <2>2. QED
    BY <1>1, <1>2, <2>1, Zenon DEF TasksInv
<1>9. QED
  BY <1>1, <1>7, <1>8 DEF Inv

\* It copies a string.
LEMMA CopiesStringStep ==
  ASSUME Inv, CopiesString
  PROVE  /\ Inv'
         /\ \A i \in 1..Len(tasks) : tasks'[i].pgd = tasks[i].pgd
<1> DEFINE t    == tasks[current]
           virt == call.ptrs[Len(call.strs) + 1]
           copy == copy_string_from_user_task(t.pgd, virt, MAX_CMMD_ARG_LEN)
<1>1. /\ call.step = "strings" /\ Len(call.strs) < Len(call.ptrs) /\ heap' = heap + 1
      /\ tasks' = [tasks EXCEPT ![current].pgd = copy.pgd]
      /\ call' = [call EXCEPT !.strs = Append(@, copy.string), !.moved = @ \/ copy.moved]
      /\ UNCHANGED mem
  BY DEF CopiesString
<1>2. /\ MemoryInv /\ TasksInv /\ tasks # <<>>
      /\ DOMAIN call = {"step", "passed", "file", "ptrs", "strs", "moved"}
      /\ call.ptrs \in Seq(Nat) /\ call.strs \in Seq(Seq(Nat))
  BY <1>1 DEF Inv, CallInv, NoCall
<1>3. virt \in Nat
  BY <1>1, <1>2
<1>4. virt \in Int /\ MAX_CMMD_ARG_LEN \in Nat
  BY <1>3, ExecAssumption
<1> HIDE DEF virt
<1>5. /\ TasksInv' /\ tasks' # <<>> /\ copy.string \in Seq(Nat)
      /\ \A i \in 1..Len(tasks) : tasks'[i].pgd = tasks[i].pgd
  BY <1>1, <1>2, <1>4, Copies, Zenon
<1> HIDE DEF copy
<1>6. /\ DOMAIN call' = {"step", "passed", "file", "ptrs", "strs", "moved"}
      /\ call'.step = "strings" /\ call'.ptrs = call.ptrs
      /\ call'.strs = Append(call.strs, copy.string)
  BY <1>1, <1>2
<1>7. call'.strs \in Seq(Seq(Nat))
  <2> DEFINE s == copy.string
             S == Seq(Nat)
             q == call.strs
  <2>1. s \in S /\ q \in Seq(S)
    BY <1>2, <1>5
  <2> HIDE DEF s, S, q
  <2>2. Append(q, s) \in Seq(S)
    BY <2>1
  <2>3. QED
    BY <1>6, <2>2 DEF s, S, q
<1>8. CallInv' /\ MemoryInv'
  BY <1>1, <1>2, <1>5, <1>6, <1>7 DEF CallInv, MemoryInv
<1>9. QED
  BY <1>5, <1>8 DEF Inv

\* The program that was named is loaded.
LEMMA LoadWithArgsStep ==
  ASSUME Inv, process_load_with_args
  PROVE  /\ Inv'
         /\ \A i \in 1..Len(tasks) : tasks'[i] = tasks[i]
<1>1. /\ call.step = "strings" /\ call.file \in DOMAIN Programs /\ call' = NoCall
      /\ process_load_for_slot(call.file, call.strs, call.passed, call.moved)
  BY DEF process_load_with_args, Copied
<1>2. MemoryInv /\ TasksInv /\ call.strs \in Seq(Seq(Nat))
  BY <1>1 DEF Inv, CallInv, NoCall
<1>3. MemoryInv' /\ TasksInv' /\ \A i \in 1..Len(tasks) : tasks'[i] = tasks[i]
  BY <1>1, <1>2, Loads
<1>4. QED
  BY <1>1, <1>3 DEF Inv, CallInv

\* It cannot be read.
LEMMA LoadFailsStep ==
  ASSUME Inv, LoadFails
  PROVE  Inv' /\ tasks' = tasks
<1>1. heap' = heap + 1 /\ call' = NoCall /\ UNCHANGED <<mem, tasks>>
  BY DEF LoadFails
<1>2. MemoryInv /\ TasksInv /\ heap \in Nat /\ heap + 1 \in Nat /\ heap <= heap + 1
  BY DEF Inv, MemoryInv
<1>3. \A i \in 1..Len(tasks) : IsTask(tasks[i], heap')
  BY <1>1, <1>2, IsTaskGrows DEF TasksInv
<1>4. TasksInv'
  BY <1>1, <1>2, <1>3, Zenon DEF TasksInv
<1>5. QED
  BY <1>1, <1>2, <1>4 DEF Inv, MemoryInv, CallInv

-----------------------------------------------------------------------------
(* The theorems.                                                           *)

\* The invariant holds at the start.
LEMMA ExecInit == Init => Inv
<1> SUFFICES ASSUME Init PROVE Inv
  OBVIOUS
<1>1. heap \in Nat /\ mem = <<>> /\ tasks = <<>> /\ call = NoCall
  BY ExecAssumption DEF Init
<1>2. mem \in Memories
  <2>1. <<>> \in [{} -> Nat] /\ {} \in SUBSET Int
    OBVIOUS
  <2>2. QED
    BY <1>1, <2>1 DEF Memories
<1>3. TasksInv
  <2>1. <<>> \in Seq(Elements(tasks)) /\ Len(<<>>) = 0
    OBVIOUS
  <2>2. QED
    BY <1>1, <2>1 DEF TasksInv
<1>4. QED
  BY <1>1, <1>2, <1>3 DEF Inv, MemoryInv, CallInv

\* Every step keeps it.
LEMMA ExecNext == Inv /\ [Next]_vars => Inv'
<1> SUFFICES ASSUME Inv, [Next]_vars PROVE Inv'
  OBVIOUS
<1>1. CASE process_load
  BY <1>1, LoadStep
<1>2. CASE _start
  BY <1>2, StartStep
<1>3. CASE process_malloc_syscall_handler
  BY <1>3, MallocStep
<1>4. ASSUME NEW name \in DOMAIN Programs \cup {Missing}, PassesArgsOn(name) PROVE Inv'
  BY <1>4, PassesArgsOnStep
<1>5. ASSUME NEW name \in DOMAIN Programs, NEW args \in ArgLists, tasks # <<>>,
             NEW place \in Places, MakesArgs(name, args, place)
      PROVE  Inv'
  BY <1>5, MakesArgsStep
<1>6. CASE isr80h_command_6_execve
  BY <1>6, CommandStep
<1>7. CASE copy_argv_pointers_from_user_task
  BY <1>7, PointersStep
<1>8. CASE CopiesString
  BY <1>8, CopiesStringStep
<1>9. CASE process_load_with_args
  BY <1>9, LoadWithArgsStep
<1>10. CASE LoadFails
  BY <1>10, LoadFailsStep
<1>11. CASE UNCHANGED vars
  BY <1>11, Zenon DEF vars, Inv, MemoryInv, TasksInv, CallInv
<1>12. QED
  BY <1>1, <1>2, <1>3, <1>4, <1>5, <1>6, <1>7, <1>8, <1>9, <1>10, <1>11 DEF Next

\* The inductive invariant, for any programs, page size and addresses: memory
\* holds numbers, every task has page tables that let it write to no page but
\* its own, and no page was given to two tasks (process_load_for_slot,
\* process_malloc_syscall_handler, isr80h_command_6_execve).
THEOREM ExecInvariant == Spec => []Inv
BY ExecInit, ExecNext, PTL DEF Spec

\* A task can write to no page but the ones that were allocated for its image,
\* stack and arguments or given to it by malloc, and to no page of another
\* task, if its segments need no more memory than the file has
\* (process_map_task_memory, process_malloc_syscall_handler).
THEOREM ExecWritesOwnPages == Spec => []WritesOwnPages
<1>1. ASSUME Inv PROVE WritesOwnPages
  <2>1. ASSUME NEW i \in 1..Len(tasks), WithinFile(Programs[tasks[i].program])
        PROVE  Writable(tasks[i]) \subseteq Given(tasks[i])
    <3> DEFINE t == tasks[i]
    <3>1. t.pgd \in TablesIn(Given(t))
      BY <1>1, <2>1 DEF Inv, TasksInv, IsTask, MayWrite
    <3> HIDE DEF t
    <3>2. ASSUME NEW p \in PageAddresses, "write" \in Entry(t, p).flags
          PROVE  Entry(t, p).frame \div PAGING_PAGE_SIZE \in Given(t)
      <4>1. p \in Int
        BY PagingAssumption DEF PageAddresses
      <4>2. Entry(t, p) \in EntryIn(Given(t))
        BY <3>1, <4>1, GetPte DEF Entry
      <4>3. QED
        BY <3>2, <4>2 DEF EntryIn
    <3>3. QED
      BY <3>2 DEF Writable, t
  <2>2. \A i, j \in 1..Len(tasks) : i # j => Given(tasks[i]) \cap Given(tasks[j]) = {}
    BY <1>1, Zenon DEF Inv, TasksInv
  <2>3. QED
    BY <2>1, <2>2 DEF WritesOwnPages, Given
<1>2. QED
  BY <1>1, ExecInvariant, PTL

\* A system call that copies from a task leaves the address space of the task,
\* and of every other one, as it found it (the entry that is put back at the
\* end of copy_string_from_user_task), whether or not the load succeeds.
THEOREM ExecCallKeepsTables == Spec => CallKeepsTables
<1> DEFINE Kept == \A i \in 1..Len(tasks) : tasks'[i].pgd = tasks[i].pgd
<1>1. ASSUME Inv, [Next]_vars, call # NoCall PROVE Kept
  <2>1. CASE process_load
    <3>1. tasks = <<>>
      BY <2>1 DEF process_load
    <3>2. QED
      BY <3>1
  <2>2. CASE _start
    <3>1. PICK s : tasks' = [tasks EXCEPT ![current].seen = s]
      BY <2>2, Zenon DEF _start
    <3>2. ASSUME NEW i \in 1..Len(tasks) PROVE tasks'[i].pgd = tasks[i].pgd
      <4>1. DOMAIN tasks = 1..Len(tasks)
        <5>1. tasks \in Seq(Elements(tasks))
          BY <1>1 DEF Inv, TasksInv
        <5> DEFINE E == Elements(tasks)
        <5> HIDE DEF E
        <5>2. QED
          BY <5>1 DEF E
      <4>2. DOMAIN tasks[i] = Fields
        BY <1>1 DEF Inv, TasksInv, IsTask
      <4>3. QED
        BY <3>1, <4>1, <4>2 DEF Fields
    <3>3. QED
      BY <3>2
  <2>3. CASE isr80h_command_6_execve
    BY <1>1, <2>3, CommandStep
  <2>4. CASE copy_argv_pointers_from_user_task
    BY <1>1, <2>4, PointersStep
  <2>5. CASE CopiesString
    BY <1>1, <2>5, CopiesStringStep
  <2>6. CASE process_load_with_args
    BY <1>1, <2>6, LoadWithArgsStep
  <2>7. CASE LoadFails
    BY <1>1, <2>7, LoadFailsStep
  <2>8. CASE UNCHANGED vars
    BY <2>8 DEF vars
  <2>9. QED
    BY <1>1, <2>1, <2>2, <2>3, <2>4, <2>5, <2>6, <2>7, <2>8
       DEF Next, process_malloc_syscall_handler, PassesArgsOn, MakesArgs, InMain
<1>2. Inv /\ [Next]_vars => [call # NoCall => Kept]_vars
  BY <1>1
<1>3. QED
  BY <1>2, ExecInvariant, PTL DEF Spec, CallKeepsTables
=============================================================================
