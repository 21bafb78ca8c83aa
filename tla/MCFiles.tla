------------------------------- MODULE MCFiles -------------------------------
(***************************************************************************)
(* Volumes for Files.  Sectors have three cells, clusters two sectors.     *)
(* Sector 0 is the boot sector with the header, sectors 1-3 and 4-6 the    *)
(* two allocation tables, sectors 7-8 the root directory; cluster 2 begins *)
(* at sector 9.  Names have two characters and extensions one.             *)
(***************************************************************************)
EXTENDS Files

Header == [extended_boot_signature |-> 41, fat_copies |-> 2, sectors_per_fat |-> 3,
           reserved_sectors |-> 1, root_dir_entries |-> 6, sectors_per_cluster |-> 2]

Entry(name, ext, attr, cluster, size) ==
    [name |-> name, ext |-> <<ext>>, attr |-> attr, cluster |-> cluster, filesize |-> size]

ClusterPos(c) == 27 + (c - 2) * 6

\* A volume from its allocation table (from cluster 2 on), the entries of the
\* root directory and the cells of the clusters.
Format(header, fat, root, clusters) ==
    [pos \in 0..56 |->
       CASE pos = 0                           -> header
         [] pos \in 5..(4 + Len(fat))         -> fat[pos - 4]
         [] pos \in 14..(13 + Len(fat))       -> fat[pos - 13]
         [] pos \in 21..(20 + Len(root))      -> root[pos - 20]
         [] pos >= 27 ->
              LET c == 2 + (pos - 27) \div 6
                  i == pos - ClusterPos(c) + 1
              IN  IF c \in DOMAIN clusters /\ i \in DOMAIN clusters[c]
                  THEN clusters[c][i] ELSE Blank
         [] OTHER -> Blank]

Byte(v) == [kind |-> "byte", v |-> v]
Bytes(from, to) == [i \in 1..(to - from + 1) |-> Byte(from + i - 1)]

Ehdr(type, phnum) ==
    [kind |-> "ehdr", magic |-> "ELF", class |-> "ELFCLASS32", data |-> "ELFDATA2LSB",
     e_type |-> type, e_phoff |-> 1, e_phnum |-> phnum]

Phdr(type, offset, vaddr, size) ==
    [kind |-> "phdr", p_type |-> type, p_offset |-> offset, p_vaddr |-> vaddr,
     p_filesz |-> size, p_memsz |-> size]

File(names, entry, data, segments) ==
    [names |-> names, type |-> "file", entry |-> entry, data |-> data, segments |-> segments]

Directory(names, entry) ==
    [names |-> names, type |-> "directory", entry |-> entry, data |-> <<>>, segments |-> {}]

\* An executable, a library, a file of two clusters that are not neighbours,
\* and a directory that holds a flat binary and an empty file.
ElfData     == <<Ehdr("ET_EXEC", 2), Phdr("PT_LOAD", 3, 40, 2), Phdr("PT_NOTE", 3, 0, 1)>>
                 \o Bytes(1, 2)
LibraryData == <<Ehdr("ET_DYN", 1), Phdr("PT_LOAD", 2, 40, 1)>> \o Bytes(3, 3)
LongData    == Bytes(11, 19)
BinaryData  == Bytes(4, 7)

ElfEntry     == Entry(<<"A", " ">>, " ", {"archived"}, 3, 5)
LibraryEntry == Entry(<<"A", " ">>, "X", {"archived", "read_only"}, 6, 3)
LongEntry    == Entry(<<"B", "A">>, " ", {"archived"}, 4, 9)
DirEntry     == Entry(<<"D", " ">>, " ", {"subdirectory"}, 2, 0)
BinaryEntry  == Entry(<<"B", " ">>, "X", {"archived"}, 5, 4)
EmptyEntry   == Entry(<<"C", " ">>, " ", {}, 0, 0)
DotEntry     == Entry(<<".", " ">>, " ", {"subdirectory"}, 2, 0)
DeletedEntry == Entry(<<FREE, " ">>, " ", {"archived"}, 3, 5)

EOC == 65535

\* An extension that fills its field is read up to the attribute, which ends
\* it only when it is "archived" or nothing.
Plain ==
    [plain |-> TRUE,
     cells |-> Format(Header, <<EOC, EOC, 6, EOC, EOC, EOC>>,
                      <<LongEntry, DirEntry, ElfEntry>>,
                      (2 :> <<DotEntry, EmptyEntry, BinaryEntry>>) @@ (3 :> ElfData)
                        @@ (4 :> SubSeq(LongData, 1, 6)) @@ (5 :> BinaryData)
                        @@ (6 :> SubSeq(LongData, 7, 9))),
     files |-> {File(<<<<"A">>>>, ElfEntry, ElfData, {[from |-> 40, to |-> 42]}),
                File(<<<<"B", "A">>>>, LongEntry, LongData, {}),
                Directory(<<<<"D">>>>, DirEntry),
                File(<<<<"D">>, <<"C">>>>, EmptyEntry, <<>>, {}),
                File(<<<<"D">>, <<"B", ".", "X">>>>, BinaryEntry, BinaryData, {})}]

\* A library and a directory in the first places.
Libraries ==
    [plain |-> TRUE,
     cells |-> Format(Header, <<EOC, EOC, EOC, EOC, EOC>>,
                      <<[LibraryEntry EXCEPT !.attr = {"archived"}], DirEntry>>,
                      (2 :> <<DotEntry, ElfEntry>>) @@ (3 :> ElfData) @@ (6 :> LibraryData)),
     files |-> {File(<<<<"A", ".", "X">>>>,
                     [LibraryEntry EXCEPT !.attr = {"archived"}], LibraryData, {}),
                Directory(<<<<"D">>>>, DirEntry),
                File(<<<<"D">>, <<"A">>>>, ElfEntry, ElfData, {[from |-> 40, to |-> 42]}),
                File(<<<<"D">>, <<".">>, <<"A">>>>, ElfEntry, ElfData,
                     {[from |-> 40, to |-> 42]})}]

\* A deleted entry, a read-only file whose extension fills its field, a name
\* that fills its field before an extension, and one name twice.
Awkward ==
    [plain |-> FALSE,
     cells |-> Format(Header, <<EOC, EOC, EOC, EOC, EOC>>,
                      <<DeletedEntry, LibraryEntry,
                        Entry(<<"B", "A">>, "X", {"archived"}, 5, 4),
                        ElfEntry, [ElfEntry EXCEPT !.cluster = 4]>>,
                      (3 :> ElfData) @@ (5 :> BinaryData) @@ (6 :> LibraryData)),
     files |-> {}]

\* A disk with another file system.
Foreign == [plain |-> FALSE, files |-> {},
            cells |-> Format([Header EXCEPT !.extended_boot_signature = 0], <<>>, <<>>, <<>>)]

\* A directory of more entries than a cluster holds.
Crowded ==
    [plain |-> FALSE, files |-> {},
     cells |-> Format(Header, <<3, EOC, EOC>>, <<DirEntry>>,
                      (2 :> <<DotEntry, EmptyEntry, EmptyEntry, EmptyEntry, EmptyEntry, EmptyEntry>>)
                        @@ (3 :> <<[ElfEntry EXCEPT !.cluster = 4]>>) @@ (4 :> ElfData))]

MCVolumes == [plain |-> Plain, libraries |-> Libraries, awkward |-> Awkward,
              crowded |-> Crowded, foreign |-> Foreign]

P(chars) == <<"0", ":", "/">> \o chars

MCPaths == {P(<<"A">>), P(<<"b", "a">>), P(<<"A", ".", "X">>), P(<<"d", "/">>), P(<<"D", "/", "C">>),
            P(<<"D", "/", "b", ".", "x">>), P(<<"D", "/", "A">>), P(<<"D", "/", ".", "/", "A">>),
            P(<<"A", "/", "B">>), P(<<"D", "/", "X", "/", "A">>), P(<<"D", "/", "/", "A">>),
            P(<<>>), <<"1", ":", "/", "A">>, <<"A">>, P(<<"D", "/", "A", "A", "A", "A", "A">>)}
=============================================================================
