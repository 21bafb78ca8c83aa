-------------------------------- MODULE Fat16 --------------------------------
(***************************************************************************)
(* The FAT16 driver, src/src/fs/fat/fat16.c: what its functions compute    *)
(* from a disk.  fp is the driver's private data of a mounted disk: the    *)
(* volume header and the root directory.                                   *)
(*                                                                         *)
(* A directory entry is a record with the padded fields name and ext, the  *)
(* set attr of its attribute flags, its first cluster and its size.  An    *)
(* easy entry is what the driver makes of one: for a file a copy of the    *)
(* entry, for a directory the entries it holds.  The driver's structures   *)
(* live on the kernel heap; net counts the allocations a call leaves       *)
(* behind, less the ones it releases.                                      *)
(***************************************************************************)
EXTENDS DiskStream, PathParser, SequencesExt

EIO      == 1
EINVARG  == 2
ENOMEM   == 3
EFSNOTUS == 5
ERDONLY  == 6
EUNIMP   == 7
EIFORMAT == 9

NUL   == "nul"
SPACE == " "
FREE  == "0xE5"     \* first byte of the name of a deleted entry

\* Entries of the allocation table: a bad cluster, reserved values, and the
\* marks for the last cluster of a chain.
FAT16_BAD_SECTOR == 65527
Unusable         == {0, FAT16_BAD_SECTOR} \cup 65520..65526 \cup 65528..65535

-----------------------------------------------------------------------------
(* Directories.                                                            *)

\* The attribute byte, as the character that stands after the extension.
AttributeByte(attr) == CASE attr = {}           -> NUL
                         [] attr = {"archived"} -> SPACE
                         [] OTHER               -> "#"

\* The bytes of an entry from its name on.
RawBytes(e) == e.name \o e.ext \o <<AttributeByte(e.attr), NUL>>

\* The bytes from index i up to a NUL or a space.  Nothing stops the copy at
\* the end of the field it starts in.
fat16_convert_spaces_to_null(e, i) ==
    LET raw  == RawBytes(e)
        stop == Min({j \in i..Len(raw) : raw[j] \in {NUL, SPACE}})
    IN  SubSeq(raw, i, stop - 1)

fat16_get_filename(e) ==
    fat16_convert_spaces_to_null(e, 1)
      \o (IF e.ext[1] \in {NUL, SPACE} THEN <<>>
          ELSE <<".">> \o fat16_convert_spaces_to_null(e, Len(e.name) + 1))

\* The first byte of what lies at a position of a directory.
FirstByte(cell) == IF cell = Blank THEN NUL ELSE cell.name[1]

\* The entries before the first one that begins with a zero byte, without
\* the deleted ones.
fat16_get_total_items_for_directory(disk, sector) ==
    LET count[pos \in Nat] ==
          LET first == FirstByte(disk_stream_read(disk, pos, 1)[1])
          IN  IF first = NUL THEN 0
              ELSE IF first = FREE THEN count[pos + 1] ELSE 1 + count[pos + 1]
    IN  count[sector * DISK_SECTOR_SIZE]

\* The entries array holds the deleted entries too.
fat16_get_root_directory(disk, header) ==
    LET sector == header.fat_copies * header.sectors_per_fat + header.reserved_sectors
    IN  [entry      |-> disk_stream_read(disk, sector * DISK_SECTOR_SIZE,
                                         header.root_dir_entries),
         total      |-> fat16_get_total_items_for_directory(disk, sector),
         end_sector |-> sector + header.root_dir_entries \div DISK_SECTOR_SIZE]

\* The driver's private data of a disk, or NULL when the disk is not its own.
fat16_resolve(disk) ==
    LET header == disk_stream_read(disk, 0, 1)[1]
    IN  IF header.extended_boot_signature # 41 THEN NULL
        ELSE [header |-> header, root_directory |-> fat16_get_root_directory(disk, header)]

-----------------------------------------------------------------------------
(* Cluster chains.                                                         *)

ClusterSize(fp) == fp.header.sectors_per_cluster * DISK_SECTOR_SIZE

fat16_cluster_to_start_sector(fp, cluster) ==
    fp.root_directory.end_sector + (cluster - 2) * fp.header.sectors_per_cluster

\* The entry that is read is overwritten by the return value of the read.
fat16_get_fat_entry(disk, fp, cluster) ==
    LET entry == disk_stream_read(disk, fp.header.reserved_sectors * DISK_SECTOR_SIZE
                                          + cluster, 1)
        rc    == 0
    IN  rc

\* The cluster that holds position offset of a chain, or a negative error.
fat16_get_cluster_in_chain(disk, fp, start, offset) ==
    LET cluster[k \in Nat] ==
          IF k = 0 THEN start
          ELSE LET last  == cluster[k - 1]
                   entry == fat16_get_fat_entry(disk, fp, last)
               IN  IF last < 0 THEN last
                   ELSE IF entry \in Unusable THEN -EIO ELSE entry
    IN  cluster[offset \div ClusterSize(fp)]

Joined(here, rest) == [rc |-> rest.rc, data |-> here \o rest.data]

\* n cells of a chain from offset on, at most a cluster's size at a time
\* wherever in its cluster the read starts.
fat16_read_internal(disk, fp, start, offset, n) ==
    LET read[o \in Nat, m \in Nat] ==
          LET cluster == fat16_get_cluster_in_chain(disk, fp, start, o)
              pos     == fat16_cluster_to_start_sector(fp, cluster) * DISK_SECTOR_SIZE
                           + (o % ClusterSize(fp))
              len     == IF m > ClusterSize(fp) THEN ClusterSize(fp) ELSE m
              here    == disk_stream_read(disk, pos, len)
          IN  IF cluster < 0 THEN [rc |-> cluster, data |-> <<>>]
              ELSE IF m > len THEN Joined(here, read[o + len, m - len])
              ELSE [rc |-> 0, data |-> here]
    IN  read[offset, n]

-----------------------------------------------------------------------------
(* Looking a path up.                                                      *)

\* The entries of a subdirectory, or NULL when they cannot be read.
fat16_load_fat_directory(disk, fp, e) ==
    LET loaded(read, total) ==
          IF read.rc < 0 THEN NULL ELSE [entry |-> read.data, total |-> total]
        sector == fat16_cluster_to_start_sector(fp, e.cluster)
        total  == fat16_get_total_items_for_directory(disk, sector)
    IN  loaded(fat16_read_internal(disk, fp, e.cluster, 0, total), total)

fat16_get_easy_entry(disk, fp, e) ==
    IF "subdirectory" \in e.attr
    THEN [type |-> "directory", directory |-> fat16_load_fat_directory(disk, fp, e)]
    ELSE [type |-> "file", entry |-> e]

\* Heap allocations of an easy entry, and what freeing it releases: itself,
\* and the copy of the entry or the directory with its array.
EasyAllocations(easy) ==
    CASE easy.type = "file"      -> 2
      [] easy.type = "directory" -> IF easy.directory = NULL THEN 1 ELSE 3

\* Mutant: a directory is freed without the array of its entries.
fat16_easy_dir_entry_free_KeepsArray(easy) ==
    IF easy.type = "directory" THEN 2 ELSE EasyAllocations(easy)

fat16_easy_dir_entry_free(easy) == EasyAllocations(easy)

Lower == ("A" :> "a") @@ ("B" :> "b") @@ ("C" :> "c") @@ ("D" :> "d") @@ ("X" :> "x")

tolower(c) == IF c \in DOMAIN Lower THEN Lower[c] ELSE c

LowerCase(s) == [i \in DOMAIN s |-> tolower(s[i])]

\* Mutant: names are compared as they stand.
strnicmp_MindsCase(s, t) == s = t

strnicmp(s, t) == LowerCase(s) = LowerCase(t)

\* The last entry with the name: the search goes on after a match, and the
\* easy entries of earlier matches are lost.
fat16_find_entry_in_directory(disk, fp, directory, name) ==
    LET same == {i \in 1..directory.total :
                   strnicmp(fat16_get_filename(directory.entry[i]), name)}
        easy(i) == fat16_get_easy_entry(disk, fp, directory.entry[i])
    IN  [entry |-> IF same = {} THEN NULL ELSE easy(Max(same)),
         net   |-> MapThenSumSet(LAMBDA i : EasyAllocations(easy(i)), same)]

\* One more part of the path.  A file in the middle of a path ends the walk
\* without being freed; when there is no entry, or a directory that could not
\* be read, the code goes on with a null pointer.
NextPart(disk, fp, walk, part) ==
    IF walk.stop THEN walk
    ELSE IF walk.entry = NULL \/ (walk.entry.type = "directory" /\ walk.entry.directory = NULL)
    THEN [walk EXCEPT !.stop = TRUE, !.null = TRUE]
    ELSE IF walk.entry.type = "file"
    THEN [walk EXCEPT !.entry = NULL, !.stop = TRUE]
    ELSE LET found == fat16_find_entry_in_directory(disk, fp, walk.entry.directory, part)
         IN  [walk EXCEPT !.entry = found.entry,
                          !.net   = @ + found.net - fat16_easy_dir_entry_free(walk.entry)]

\* The walk after the first part, which is looked up in the root directory.
FirstPart(found) ==
    [entry |-> found.entry, net |-> found.net, null |-> FALSE, stop |-> found.entry = NULL]

fat16_get_directory_entry(disk, fp, parts) ==
    FoldLeft(LAMBDA walk, part : NextPart(disk, fp, walk, part),
             FirstPart(fat16_find_entry_in_directory(disk, fp, fp.root_directory, parts[1])),
             Tail(parts))

-----------------------------------------------------------------------------
(* The operations of an open file.  A result has the return value rc; the  *)
(* descriptor is [easy, pos].                                              *)

\* The descriptor for the entry at the end of the walk.
Opened(walk) ==
    IF walk.null \/ walk.entry = NULL
    THEN [rc |-> -EIO, desc |-> NULL, net |-> walk.net, null |-> walk.null]
    ELSE [rc |-> 0, desc |-> [easy |-> walk.entry, pos |-> 0], net |-> walk.net + 1,
          null |-> FALSE]

fat16_fopen(disk, fp, parts, mode, memory) ==
    LET fails(e) == [rc |-> -e, desc |-> NULL, net |-> 0, null |-> FALSE]
    IN  CASE mode # "READ"            -> fails(ERDONLY)
          [] mode = "READ" /\ ~memory -> fails(ENOMEM)
          [] OTHER -> Opened(fat16_get_directory_entry(disk, fp, parts))

\* nmemb items of size cells each; the position does not move.
fat16_fread(disk, fp, desc, size, nmemb) ==
    LET item(k) == fat16_read_internal(disk, fp, desc.easy.entry.cluster,
                                       desc.pos + (k - 1) * size, size)
        failed  == {k \in 1..nmemb : item(k).rc < 0}
        count   == IF failed = {} THEN nmemb ELSE Min(failed) - 1
    IN  IF desc.easy.type = "directory" THEN [rc |-> -EINVARG, data |-> <<>>]
        ELSE [rc |-> count, data |-> FlattenSeq([k \in 1..count |-> item(k).data])]

fat16_fseek(desc, offset, whence) ==
    LET fails(e) == [rc |-> -e, pos |-> desc.pos]
    IN  CASE desc.easy.type = "directory"          -> fails(EINVARG)
          [] desc.easy.type = "file" /\ offset >= desc.easy.entry.filesize -> fails(EIO)
          [] OTHER -> CASE whence = "SEEK_SET" -> [rc |-> 0, pos |-> offset]
                        [] whence = "SEEK_CUR" -> [rc |-> 0, pos |-> desc.pos + offset]
                        [] whence = "SEEK_END" -> fails(EUNIMP)
                        [] OTHER               -> fails(EINVARG)

fat16_fstat(desc) ==
    IF desc.easy.type = "directory" THEN [rc |-> -EINVARG, filesize |-> 0, readonly |-> FALSE]
    ELSE [rc |-> 0, filesize |-> desc.easy.entry.filesize,
          readonly |-> "read_only" \in desc.easy.entry.attr]

\* Allocations that closing releases.
fat16_fclose(desc) == fat16_easy_dir_entry_free(desc.easy) + 1
=============================================================================
