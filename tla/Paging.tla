------------------------------- MODULE Paging -------------------------------
(***************************************************************************)
(* Page tables, src/src/memory/paging/paging.c.  A page directory is a     *)
(* function from directory indexes to page tables, and a page table a      *)
(* function from table indexes to entries [frame, flags]; where the tables *)
(* themselves lie is left out.                                             *)
(***************************************************************************)
EXTENDS Integers, Sequences

CONSTANTS
    PAGING_PAGE_SIZE,
    PAGING_TABLE_ENTRIES,
    PAGING_DIR_ENTRIES

ASSUME PagingAssumption ==
    /\ PAGING_PAGE_SIZE \in Nat \ {0}
    /\ PAGING_TABLE_ENTRIES \in Nat \ {0}
    /\ PAGING_DIR_ENTRIES \in Nat \ {0}

TableSpan == PAGING_TABLE_ENTRIES * PAGING_PAGE_SIZE

\* The page addresses of the address space.
PageAddresses ==
    {i * PAGING_PAGE_SIZE : i \in 0..(PAGING_DIR_ENTRIES * PAGING_TABLE_ENTRIES - 1)}

\* Mutant: consecutive addresses in place of consecutive pages.
init_page_tables_Bytes(flags) ==
    [i \in 0..(PAGING_DIR_ENTRIES - 1) |->
       [b \in 0..(PAGING_TABLE_ENTRIES - 1) |->
          [frame |-> i * TableSpan + b, flags |-> flags]]]

\* Every linear address is mapped to the same physical address.
init_page_tables(flags) ==
    [i \in 0..(PAGING_DIR_ENTRIES - 1) |->
       [b \in 0..(PAGING_TABLE_ENTRIES - 1) |->
          [frame |-> i * TableSpan + b * PAGING_PAGE_SIZE, flags |-> flags]]]

paging_is_aligned(addr) == addr % PAGING_PAGE_SIZE = 0

\* Mutant: an aligned address moves to the next page.
paging_align_address_AlwaysUp(addr) == addr + PAGING_PAGE_SIZE - (addr % PAGING_PAGE_SIZE)

paging_align_address(addr) ==
    IF paging_is_aligned(addr) THEN addr
    ELSE addr + PAGING_PAGE_SIZE - (addr % PAGING_PAGE_SIZE)

\* Mutant: up, as paging_align_address.
paging_align_to_lower_page_Up(addr) == paging_align_address(addr)

paging_align_to_lower_page(addr) == addr - (addr % PAGING_PAGE_SIZE)

\* An address is a machine word: the tables cover all of them.
paging_get_indexes(addr) ==
    [pgd   |-> (addr \div TableSpan) % PAGING_DIR_ENTRIES,
     table |-> (addr % TableSpan) \div PAGING_PAGE_SIZE]

\* An address that is not aligned sets nothing and is reported.
paging_set(pgd, addr, entry) ==
    LET at == paging_get_indexes(addr)
    IN  IF paging_is_aligned(addr)
        THEN [ok |-> TRUE, pgd |-> [pgd EXCEPT ![at.pgd][at.table] = entry]]
        ELSE [ok |-> FALSE, pgd |-> pgd]

paging_get_pte(pgd, addr) ==
    LET at == paging_get_indexes(addr)
    IN  pgd[at.pgd][at.table]

paging_get_physical_address(pgd, addr) ==
    LET page == paging_align_to_lower_page(addr)
    IN  paging_get_pte(pgd, page).frame + (addr - page)

\* num_pages pages from virt on.
paging_map_range(pgd, virt, phys, num_pages, flags) ==
    LET map[n \in 0..num_pages] ==
          IF n = 0 THEN pgd
          ELSE LET i == (n - 1) * PAGING_PAGE_SIZE
               IN  paging_set(map[n - 1], virt + i, [frame |-> phys + i, flags |-> flags]).pgd
    IN  IF paging_is_aligned(virt) /\ paging_is_aligned(phys)
        THEN [ok |-> TRUE, pgd |-> map[num_pages]]
        ELSE [ok |-> FALSE, pgd |-> pgd]

paging_create_mapping(pgd, virt, phys, phys_end, flags) ==
    IF /\ paging_is_aligned(virt) /\ paging_is_aligned(phys) /\ paging_is_aligned(phys_end)
       /\ phys_end >= phys
    THEN paging_map_range(pgd, virt, phys, (phys_end - phys) \div PAGING_PAGE_SIZE, flags)
    ELSE [ok |-> FALSE, pgd |-> pgd]
=============================================================================
