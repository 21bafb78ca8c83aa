------------------------------- MODULE MCExec -------------------------------
(***************************************************************************)
(* Five page tables of twelve pages of twelve cells.  The stack is pages 1 *)
(* and 2, the image page 3, the heap begins at page 5 or later, and the    *)
(* arguments are mapped at a page inside the heap's range, as in config.h. *)
(***************************************************************************)
EXTENDS Exec, TLC

\* The cells of a file that does not begin with zero cells.
Bytes(n) == [i \in 1..n |-> 1000 + i]

phdr(offset, vaddr, filesz, memsz, write) ==
    [p_offset |-> offset, p_vaddr |-> vaddr, p_filesz |-> filesz, p_memsz |-> memsz,
     write |-> write]

\* A flat binary; a program with read-only text and writable data that share a
\* page of the file, the data running on into a second page; and one whose data
\* needs more memory than the file has.
MCPrograms ==
    (<<11>> :> [format |-> "BINARY", file |-> Bytes(14), phdrs |-> <<>>])
    @@ (<<12>> :> [format |-> "ELF", file |-> Bytes(20),
                   phdrs |-> <<phdr(2, 38, 5, 5, FALSE), phdr(7, 55, 9, 12, TRUE)>>])
    @@ (<<13>> :> [format |-> "ELF", file |-> Bytes(10),
                   phdrs |-> <<phdr(2, 38, 8, 14, TRUE)>>])

\* None, two of the greatest length that fits, one too long before another
\* one, and one argument more than fits.
MCArgLists ==
    {<<>>, <<<<1, 2>>, <<3, 4>>>>, <<<<1, 2, 3>>, <<4>>>>, <<<<1>>, <<2>>, <<3>>>>}

MCShell   == <<11>>
MCMissing == <<19>>
=============================================================================
