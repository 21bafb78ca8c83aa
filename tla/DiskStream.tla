----------------------------- MODULE DiskStream -----------------------------
(***************************************************************************)
(* The disk (src/src/disk/disk.c) and the byte streams over it             *)
(* (src/src/disk/disk_stream.c).                                           *)
(*                                                                         *)
(* A disk is a function from positions to cells.  A cell is a byte of a    *)
(* file, or one of the structures that the file system reads in one piece: *)
(* the volume header, a directory entry, an entry of the allocation table. *)
(* The structures take one cell each, so a position counts cells.          *)
(***************************************************************************)
EXTENDS Integers, Sequences

CONSTANTS
    DISK_SECTOR_SIZE,   \* cells in a sector
    Blank               \* a cell that was never written

ASSUME SectorAssumption == DISK_SECTOR_SIZE \in Nat \ {0}

Cell(disk, pos) == IF pos \in DOMAIN disk THEN disk[pos] ELSE Blank

\* The cells of one sector, as disk_read_sector copies them from the
\* controller's data port.
disk_read_sector(disk, lba) ==
    [i \in 1..DISK_SECTOR_SIZE |-> Cell(disk, lba * DISK_SECTOR_SIZE + i - 1)]

\* Mutant: the rest of a read that crosses a sector starts in the same place
\* of the next sector.
disk_stream_read_KeepsOffset(disk, pos, total) ==
    LET read[p \in Nat, n \in Nat] ==
          LET offset == p % DISK_SECTOR_SIZE
              buf    == disk_read_sector(disk, p \div DISK_SECTOR_SIZE)
              room   == DISK_SECTOR_SIZE - offset
          IN  IF offset + n > DISK_SECTOR_SIZE
              THEN SubSeq(buf, offset + 1, DISK_SECTOR_SIZE)
                     \o read[p + DISK_SECTOR_SIZE, n - room]
              ELSE SubSeq(buf, offset + 1, offset + n)
    IN  read[pos, total]

\* The cells that a read of total cells at pos delivers: what the sector of
\* pos holds from there on, and the rest by a read of the next sector.
disk_stream_read(disk, pos, total) ==
    LET read[p \in Nat, n \in Nat] ==
          LET offset == p % DISK_SECTOR_SIZE
              buf    == disk_read_sector(disk, p \div DISK_SECTOR_SIZE)
              room   == DISK_SECTOR_SIZE - offset
          IN  IF offset + n > DISK_SECTOR_SIZE
              THEN SubSeq(buf, offset + 1, DISK_SECTOR_SIZE)
                     \o read[p + room, n - room]
              ELSE SubSeq(buf, offset + 1, offset + n)
    IN  read[pos, total]
=============================================================================
