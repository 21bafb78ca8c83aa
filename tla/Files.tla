-------------------------------- MODULE Files --------------------------------
(***************************************************************************)
(* The virtual file system, src/src/fs/file.c, over the FAT16 driver and   *)
(* the path parser, and the loading of an executable file into memory      *)
(* (src/src/task/process.c, src/src/loader/formats/elf_file.c).            *)
(*                                                                         *)
(* The kernel runs each call with interrupts off, so a call is one step.   *)
(* last records the call that was made and its result, until the caller    *)
(* has looked at it; last.net is what the call left on the kernel heap, in *)
(* allocations.  A volume is a disk with the files it was formatted with:  *)
(* the properties compare what the code returns with those.                *)
(***************************************************************************)
EXTENDS Fat16, ElfFile

CONSTANTS
    Volumes,            \* disks by name: records [cells, files, plain]
    MAX_OPEN_FILES,
    Paths, Modes,       \* arguments of fopen
    Sizes, Counts,      \* arguments of fread
    Offsets, Whences,   \* arguments of fseek
    MaxPos              \* bound: no seek goes further

ASSUME FilesAssumption ==
    /\ MAX_OPEN_FILES \in Nat \ {0}
    /\ Sizes \subseteq Nat /\ Counts \subseteq Nat /\ Offsets \subseteq Nat

VARIABLES
    volume,             \* the name of the disk
    fs,                 \* disk->fs_private, NULL when no driver took the disk
    file_descriptors,   \* the table: NULL or the driver's descriptor
    mode,               \* "boot", "up", or "wild" after a null dereference
    last

vars == <<volume, fs, file_descriptors, mode, last>>

Descriptors == 0..(MAX_OPEN_FILES - 1)

Idle == [op |-> "none"]

Closed == [i \in Descriptors |-> NULL]

Init ==
    /\ volume \in DOMAIN Volumes
    /\ fs = NULL
    /\ file_descriptors = Closed
    /\ mode = "boot"
    /\ last = Idle

\* fs_init inserts the one driver; disk_search_and_init lets it look at the
\* disk.
disk_search_and_init ==
    /\ mode = "boot"
    /\ fs' = fat16_resolve(Volumes[volume].cells)
    /\ mode' = "up"
    /\ UNCHANGED <<volume, file_descriptors, last>>

-----------------------------------------------------------------------------
(* The calls, as functions of the descriptor table fds.                    *)

disk_get(index) == index = 0

file_get_descriptor(fds, fd) == IF fd \in Descriptors THEN fds[fd] ELSE NULL

file_get_mode_by_string(str) ==
    CASE str = "r" -> "READ" [] str = "w" -> "WRITE" [] str = "a" -> "APPEND"
      [] OTHER -> "INVALID"

FreeSlots(fds) == {i \in Descriptors : fds[i] = NULL}

\* Mutant: the slots are not tested.
file_new_descriptor_AnySlot(fds) == 0

file_new_descriptor(fds) ==
    IF FreeSlots(fds) = {} THEN -ENOMEM ELSE Min(FreeSlots(fds))

\* The end of an open: the driver's answer open gets a slot of the table.
\* allocated is what the path took.
WithDescriptor(fds, allocated, open) ==
    LET fd == file_new_descriptor(fds)
        fails(rc) == [rc |-> rc, fds |-> fds, null |-> open.null, net |-> allocated + open.net]
    IN  IF open.rc < 0    THEN fails(open.rc)
        ELSE IF fd < 0    THEN fails(fd)
        ELSE [rc |-> fd, fds |-> [fds EXCEPT ![fd] = open.desc], null |-> FALSE,
              net |-> allocated + open.net + 1]

\* memory: whether the driver gets its descriptor from the heap.
Fopen(fds, path, mode_str, memory) ==
    LET parsed   == pparser_parse(path)
        fm       == file_get_mode_by_string(mode_str)
        fails(e) == [rc |-> -e, fds |-> fds, null |-> FALSE, net |-> parsed.allocations]
    IN  IF parsed.root = NULL                        THEN fails(EINVARG)
        ELSE IF ~disk_get(parsed.root.drive_no)      THEN fails(EIO)
        ELSE IF fs = NULL                            THEN fails(EIO)
        ELSE IF fm = "INVALID"                       THEN fails(EINVARG)
        ELSE WithDescriptor(fds, parsed.allocations,
                            fat16_fopen(Volumes[volume].cells, fs, parsed.root.first, fm, memory))

Fread(fds, size, nmemb, fd) ==
    LET desc == file_get_descriptor(fds, fd)
    IN  IF size = 0 \/ nmemb = 0 \/ fd < 0 \/ desc = NULL
        THEN [rc |-> -EINVARG, data |-> <<>>]
        ELSE fat16_fread(Volumes[volume].cells, fs, desc, size, nmemb)

Fstat(fds, fd) ==
    LET desc == file_get_descriptor(fds, fd)
    IN  IF desc = NULL THEN [rc |-> -EINVARG, filesize |-> 0, readonly |-> FALSE]
        ELSE fat16_fstat(desc)

\* Mutant: the structure is freed and its slot stays taken.
Fclose_KeepsSlot(fds, fd) ==
    LET desc == file_get_descriptor(fds, fd)
    IN  IF desc = NULL THEN [rc |-> -EINVARG, fds |-> fds, net |-> 0]
        ELSE [rc |-> 0, fds |-> fds, net |-> -(fat16_fclose(desc) + 1)]

Fclose(fds, fd) ==
    LET desc == file_get_descriptor(fds, fd)
    IN  IF desc = NULL THEN [rc |-> -EINVARG, fds |-> fds, net |-> 0]
        ELSE [rc |-> 0, fds |-> [fds EXCEPT ![fd] = NULL], net |-> -(fat16_fclose(desc) + 1)]

-----------------------------------------------------------------------------
(* Loading an executable.                                                  *)

\* The calls that read an opened file whole.  On a file that could not be
\* opened each of them answers an error; the callers below use the results
\* up to the first error.
ReadWhole(open) ==
    LET stat == Fstat(open.fds, open.rc)
    IN  [open |-> open, stat |-> stat,
         read  |-> Fread(open.fds, stat.filesize, 1, open.rc),
         close |-> Fclose(open.fds, open.rc)]

\* elf_file_init: the file is read whole and parsed.  The structure and the
\* buffer are freed on every error; the file stays open when its status or
\* its data cannot be read.
ElfOf(fds, calls) ==
    LET open  == calls.open
        stat  == calls.stat
        read  == calls.read
        close == calls.close
        fails(rc, f, net) == [rc |-> rc, fds |-> f, net |-> net, null |-> open.null,
                              image |-> <<>>, range |-> <<>>]
    IN  IF open.rc < 0          THEN fails(open.rc, fds, open.net)
        ELSE IF stat.rc < 0     THEN fails(stat.rc, open.fds, open.net)
        ELSE IF read.rc # 1     THEN fails(-EINVARG, open.fds, open.net)
        ELSE IF ~valid_elf_file(elf_get_ehdr(read.data))
                                THEN fails(-EIFORMAT, close.fds, open.net + close.net)
        ELSE [rc |-> 0, fds |-> close.fds, net |-> open.net + close.net + 2, null |-> FALSE,
              image |-> read.data, range |-> elf_process_pheaders(read.data)]

elf_file_init(fds, path, memory) ==
    ElfOf(fds, ReadWhole(Fopen(fds, path, "r", memory)))

\* The file as a flat binary; the buffer is lost when the read fails.
BinaryOf(fds, calls) ==
    LET open  == calls.open
        stat  == calls.stat
        read  == calls.read
        close == calls.close
        fails(rc, f, net) == [rc |-> rc, fds |-> f, net |-> net, null |-> open.null,
                              image |-> <<>>, range |-> <<>>]
    IN  IF open.rc < 0          THEN fails(-EIO, fds, open.net)
        ELSE IF stat.rc < 0     THEN fails(stat.rc, close.fds, open.net + close.net)
        ELSE IF read.rc < 0     THEN fails(read.rc, close.fds, open.net + close.net + 1)
        ELSE [rc |-> read.rc, fds |-> close.fds, net |-> open.net + close.net + 1,
              null |-> FALSE, image |-> read.data, range |-> <<>>]

process_load_binary_executable(fds, path, memory) ==
    BinaryOf(fds, ReadWhole(Fopen(fds, path, "r", memory)))

\* A file that is not of the ELF format is read again.
process_load_data(fds, path, memory) ==
    LET decide(elf) ==
          IF elf.rc # -EIFORMAT THEN elf @@ [format |-> "ELF"]
          ELSE [process_load_binary_executable(elf.fds, path, memory) EXCEPT !.net = @ + elf.net]
                 @@ [format |-> "BINARY"]
    IN  decide(elf_file_init(fds, path, memory))

-----------------------------------------------------------------------------
(* The steps.                                                              *)

\* The system is up and the last call has returned.
Ready == mode = "up" /\ last = Idle

\* After a null dereference the kernel may take the word it finds for a file
\* and report an error, or go astray.
Outcome(null) == \/ mode' = "up"
                 \/ null /\ mode' = "wild"

fopen(path, mode_str, memory) ==
    /\ Ready
    /\ \E call \in {Fopen(file_descriptors, path, mode_str, memory)} :
         /\ file_descriptors' = call.fds
         /\ Outcome(call.null)
         /\ last' = [op |-> "fopen", path |-> path, mode |-> mode_str, memory |-> memory,
                     rc |-> call.rc, net |-> call.net]
    /\ UNCHANGED <<volume, fs>>

fread(size, nmemb, fd) ==
    /\ Ready
    /\ \E call \in {Fread(file_descriptors, size, nmemb, fd)} :
         last' = [op |-> "fread", fd |-> fd, size |-> size, nmemb |-> nmemb,
                  rc |-> call.rc, data |-> call.data]
    /\ UNCHANGED <<volume, fs, file_descriptors, mode>>

fseek(fd, offset, whence) ==
    LET desc == file_get_descriptor(file_descriptors, fd)
        call == fat16_fseek(desc, offset, whence)
    IN  /\ Ready
        /\ IF desc = NULL
           THEN last' = [op |-> "fseek", fd |-> fd, rc |-> -EINVARG] /\ UNCHANGED file_descriptors
           ELSE /\ call.pos <= MaxPos
                /\ last' = [op |-> "fseek", fd |-> fd, rc |-> call.rc]
                /\ file_descriptors' = [file_descriptors EXCEPT ![fd].pos = call.pos]
        /\ UNCHANGED <<volume, fs, mode>>

fstat(fd) ==
    /\ Ready
    /\ last' = [op |-> "fstat", fd |-> fd, stat |-> Fstat(file_descriptors, fd)]
    /\ UNCHANGED <<volume, fs, file_descriptors, mode>>

fclose(fd) ==
    LET call == Fclose(file_descriptors, fd)
    IN  /\ Ready
        /\ file_descriptors' = call.fds
        /\ last' = [op |-> "fclose", fd |-> fd, rc |-> call.rc, net |-> call.net,
                    was |-> file_get_descriptor(file_descriptors, fd)]
        /\ UNCHANGED <<volume, fs, mode>>

load(path, memory) ==
    /\ Ready
    /\ \E call \in {process_load_data(file_descriptors, path, memory)} :
         /\ file_descriptors' = call.fds
         /\ Outcome(call.null)
         /\ last' = [op |-> "load", path |-> path, memory |-> memory, rc |-> call.rc,
                     net |-> call.net, format |-> call.format, image |-> call.image,
                     range |-> call.range, before |-> file_descriptors]
    /\ UNCHANGED <<volume, fs>>

Returned ==
    /\ last # Idle /\ mode = "up"
    /\ last' = Idle
    /\ UNCHANGED <<volume, fs, file_descriptors, mode>>

Next ==
    \/ disk_search_and_init
    \/ Returned
    \/ \E path \in Paths, mode_str \in Modes, memory \in BOOLEAN : fopen(path, mode_str, memory)
    \/ \E size \in Sizes, nmemb \in Counts, fd \in (-1)..MAX_OPEN_FILES : fread(size, nmemb, fd)
    \/ \E fd \in Descriptors, offset \in Offsets, whence \in Whences : fseek(fd, offset, whence)
    \/ \E fd \in Descriptors : fstat(fd) \/ fclose(fd)
    \/ \E path \in Paths, memory \in BOOLEAN : load(path, memory)

Spec == Init /\ [][Next]_vars

-----------------------------------------------------------------------------
(* Properties.                                                             *)

\* The path of a file the volume was formatted with, and the paths that name
\* it: any case, and a separator at the end.
PathOf(f) == <<"0", ":">> \o FlattenSeq([i \in DOMAIN f.names |-> <<"/">> \o f.names[i]])

Named(path) ==
    {f \in Volumes[volume].files : LowerCase(path) \in {LowerCase(PathOf(f)),
                                               LowerCase(PathOf(f) \o <<"/">>)}}

\* Paths without an empty part; the parser ends a path there.
NoEmptyPart(path) == ~ \E i \in 1..(Len(path) - 1) : path[i] = "/" /\ path[i + 1] = "/"

\* The volumes the driver was written for: no deleted entries, no two entries
\* of one name, and no name or extension that runs into the next field.
Served(path) ==
    /\ mode = "up" /\ fs # NULL /\ Volumes[volume].plain
    /\ NoEmptyPart(path) /\ Len(path) <= MAX_FILE_PATH_CHARS

IsFile(desc, f) == desc.easy.type = "file" /\ f.type = "file" /\ desc.easy.entry = f.entry

\* fopen opens the file that the path names on the volume, whatever directory
\* it is in, and refuses a path that names none; it fails for want of a
\* descriptor only when every one is in use (fat16_get_directory_entry,
\* file_new_descriptor).
FopenMeetsVolume ==
    (last.op = "fopen" /\ last.mode = "r" /\ last.memory /\ Served(last.path)) =>
      /\ last.rc >= 0 =>
           \E f \in Named(last.path) :
             \/ IsFile(file_descriptors[last.rc], f)
             \/ f.type = "directory" /\ file_descriptors[last.rc].easy.type = "directory"
      /\ (last.rc < 0 /\ Named(last.path) # {}) =>
           last.rc = -ENOMEM /\ FreeSlots(file_descriptors) = {}

\* Where the cells of a file that are read lie, and whether they are all in
\* the file and in its first cluster.
InFile(f, from, n) == from + n <= f.entry.filesize

InFirstCluster(from, n) == from + n <= ClusterSize(fs)

Slice(f, from, n) == SubSeq(f.data, from + 1, from + n)

\* fread returns the cells of the file that follow the position, across the
\* sectors of the file's first cluster (fat16_fread, disk_stream_read).
FreadMeetsVolume ==
    (last.op = "fread" /\ last.rc >= 0 /\ Volumes[volume].plain) =>
      LET desc == file_descriptors[last.fd]
          n    == last.size * last.nmemb
      IN  \A f \in Volumes[volume].files :
            (IsFile(desc, f) /\ InFile(f, desc.pos, n) /\ InFirstCluster(desc.pos, n)) =>
              last.rc = last.nmemb /\ last.data = Slice(f, desc.pos, n)

\* What an open leaves on the heap is the parsed path and what its descriptor
\* leads to, and a close releases what its descriptor leads to: nothing of a
\* lookup through directories stays behind.  Two cases are left out, in which
\* the code loses the driver's data: no free descriptor, and a file in the
\* middle of a path (fat16_easy_dir_entry_free, free_file_descriptor).
AllocationsBalance ==
    LET throughFile(path) == \E f \in Volumes[volume].files :
          /\ f.type = "file" /\ Len(PathOf(f)) + 1 < Len(path)
          /\ LowerCase(SubSeq(path, 1, Len(PathOf(f)) + 1)) = LowerCase(PathOf(f) \o <<"/">>)
    IN  /\ (last.op = "fopen" /\ last.rc # -ENOMEM /\ Served(last.path)
               /\ ~throughFile(last.path)) =>
             last.net = pparser_parse(last.path).allocations
                          + (IF last.rc < 0 THEN 0
                             ELSE EasyAllocations(file_descriptors[last.rc].easy) + 2)
        /\ (last.op = "fclose" /\ last.rc = 0) =>
             last.net = -(EasyAllocations(last.was.easy) + 2)

\* Files that a load can read: not empty, and in one cluster.
Loadable(f) == f.type = "file" /\ f.entry.filesize \in 1..ClusterSize(fs)

\* Loading an executable brings the file's cells into memory unchanged, as an
\* ELF image just if the file is one that the loader supports; a path that
\* names nothing is refused (process_load_data, elf_file_init).  The range of a
\* single loadable segment lies between its first address and the one after
\* its last.  Which of the two is the base is left open: elf_file.h says that
\* "the end of this range has a lower address than the base", and
\* elf_process_pheader_pt_load computes the opposite.  Images of several
\* loadable segments are left out: only the first of them enters the range.
LoadMeetsVolume ==
    (last.op = "load" /\ last.memory /\ Served(last.path)
       /\ FreeSlots(last.before) # {}) =>
      /\ Named(last.path) = {} => last.rc < 0
      /\ \A f \in Named(last.path) : Loadable(f) =>
           /\ last.rc >= 0 /\ last.image = f.data
           /\ last.format = (IF f.segments # {} THEN "ELF" ELSE "BINARY")
           /\ Cardinality(f.segments) = 1 =>
                \E s \in f.segments : {last.range.base, last.range.end} = {s.from, s.to}

\* A load leaves the table of open files as it was, whatever becomes of it, if
\* the path names a file it can read or nothing at all (elf_file_init,
\* process_load_binary_executable).
LoadClosesFile ==
    (last.op = "load" /\ Served(last.path) /\ \A f \in Named(last.path) : Loadable(f)) =>
      file_descriptors = last.before

\* A file stays open, at its position, until a seek or a close that is given
\* its own descriptor; opening, loading and closing other files, and every
\* failure of these, leave it alone (file_new_descriptor, fclose).
OpenFilesKeep ==
    [][\A i \in Descriptors :
         (file_descriptors[i] # NULL /\ ~(last'.op \in {"fseek", "fclose"} /\ last'.fd = i)) =>
           file_descriptors'[i] = file_descriptors[i]]_vars

-----------------------------------------------------------------------------
(* What the comments say and the code does not do.                         *)

\* "Reads n bytes from the cluster chain": any part of a file can be read.
FreadReadsChain ==
    (last.op = "fread" /\ last.rc >= 0 /\ Volumes[volume].plain) =>
      LET desc == file_descriptors[last.fd]
          n    == last.size * last.nmemb
      IN  \A f \in Volumes[volume].files :
            (IsFile(desc, f) /\ InFile(f, desc.pos, n)) =>
              last.rc = last.nmemb /\ last.data = Slice(f, desc.pos, n)
=============================================================================
