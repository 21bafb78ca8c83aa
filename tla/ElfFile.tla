------------------------------- MODULE ElfFile -------------------------------
(***************************************************************************)
(* The ELF parser, src/src/loader/formats/elf_file.c.  A file in memory is *)
(* a sequence of cells: the header, the program headers and the bytes of   *)
(* the segments, each header in one cell.  File offsets count cells from   *)
(* 0.  A cell is a record; kind tells headers from bytes.                  *)
(***************************************************************************)
EXTENDS Integers, Sequences

elf_get_ehdr(buffer) == buffer[1]

elf_valid_signature(ehdr) == ehdr.kind = "ehdr" /\ ehdr.magic = "ELF"

elf_valid_class(ehdr) == ehdr.class \in {"ELFCLASSNONE", "ELFCLASS32"}

elf_valid_encoding(ehdr) == ehdr.data \in {"ELFDATANONE", "ELFDATA2LSB"}

elf_is_executable(ehdr) == ehdr.e_type = "ET_EXEC"

elf_has_program_header_table(ehdr) == ehdr.e_phoff # 0

\* Mutant: relocatable files and libraries pass.
valid_elf_file_AnyType(ehdr) ==
    /\ elf_valid_signature(ehdr)
    /\ elf_valid_class(ehdr)
    /\ elf_valid_encoding(ehdr)
    /\ elf_has_program_header_table(ehdr)

valid_elf_file(ehdr) ==
    /\ elf_valid_signature(ehdr)
    /\ elf_valid_class(ehdr)
    /\ elf_valid_encoding(ehdr)
    /\ elf_is_executable(ehdr)
    /\ elf_has_program_header_table(ehdr)

\* The i-th program header, from 0.
elf_get_phdr(buffer, i) == buffer[elf_get_ehdr(buffer).e_phoff + i + 1]

\* The address range of the loadable segments after one more of them; phys
\* is relative to the buffer.
elf_process_pheader_pt_load(range, phdr) ==
    LET end   == phdr.p_vaddr + phdr.p_filesz
        lower == range.base >= phdr.p_vaddr \/ range.base = 0
        upper == range.end <= end \/ range.end = 0
    IN  [base      |-> IF lower THEN phdr.p_vaddr ELSE range.base,
         phys_base |-> IF lower THEN phdr.p_offset ELSE range.phys_base,
         end       |-> IF upper THEN end ELSE range.end,
         phys_end  |-> IF upper THEN phdr.p_offset + phdr.p_filesz ELSE range.phys_end]

elf_process_pheader(range, phdr) ==
    IF phdr.p_type = "PT_LOAD" THEN elf_process_pheader_pt_load(range, phdr) ELSE range

\* One round for every program header, each of them with the first one.
elf_process_pheaders(buffer) ==
    LET range[i \in 0..elf_get_ehdr(buffer).e_phnum] ==
          IF i = 0 THEN [base |-> 0, phys_base |-> 0, end |-> 0, phys_end |-> 0]
          ELSE elf_process_pheader(range[i - 1], elf_get_phdr(buffer, 0))
    IN  range[elf_get_ehdr(buffer).e_phnum]

\* Where a segment lies in the buffer.
elf_file_get_segment_phys_addr(buffer_addr, phdr) == buffer_addr + phdr.p_offset
=============================================================================
