---------------------------- MODULE MCVskPolicy -----------------------------
(***************************************************************************)
(* A small instance of VskPolicy: four-bit words, two cells, one slot      *)
(* each, three capabilities in all and two generations of the disk.        *)
(***************************************************************************)
EXTENDS VskPolicy

Record(name, usable, size, first, blocks, ro) ==
    [identity |-> name, sector_bytes |-> 4, read_only |-> ro, trusted |-> 1,
     fua_verified |-> 0, device_generation |-> 0, disk_blocks |-> 14,
     usable_first_lba |-> usable, usable_blocks |-> size,
     first_lba |-> first, blocks |-> blocks]

\* The partition, the same one moved and read-only, an unrelated one, and
\* records whose bounds run off the disk only when a sum wraps.
Good == Record("guest", 1, 12, 3, 5, 0)
Moved == Record("guest", 1, 12, 9, 4, 1)
Other == Record("other", 1, 12, 8, 3, 0)
Wraps == Record("guest", 1, 12, 3, 14, 0)

\* After the reset the partition has moved.
MCInventories == <<{{Good, Other}, {Wraps}}, {{Moved}}>>

MCSelected == [identity |-> "guest", sector_bytes |-> 4, read_only |-> 0]

Ask(op, lba, n) == [opcode |-> op, flags |-> 0, sector_bytes |-> 4,
                    guest_lba |-> lba, blocks |-> n]

\* The last block of Good, a range past its end, one whose end wraps, and
\* a range that is past the end of Moved.
MCRequests == {Ask("write", 4, 1), Ask("write", 4, 4), Ask("write", 15, 4),
               Ask("read", 1, 3), Ask("flush", 0, 0)}

\* A payload that fits the grant and one whose end wraps.
MCSpans == {[offset |-> 0, bytes |-> 2], [offset |-> 15, bytes |-> 2]}

\* A first holder has every right, or may neither write nor start DMA; a
\* duplicate asked for with "write" is narrower than the one and wider than
\* the other.
MCFirstRights == {{"read", "write", "dma", "dup"}, {"read", "dup"}}
MCDupRights == {{"write", "dup"}}
=============================================================================
