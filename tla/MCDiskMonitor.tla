--------------------------- MODULE MCDiskMonitor ---------------------------
(* Ints of five bits and a KiB of two bytes.  Tables with another block     *)
(* device before the root or behind it, a line that is skipped, and no root *)
(* at all; a root with room, one short of space and one that is too large   *)
(* for the int; another file system with blocks below a KiB and one that is *)
(* too large for an unsigned int.                                           *)
EXTENDS DiskMonitor

Line(dir, block) == [dir |-> dir, block |-> block]

MountTables ==
    {<<Line("/proc", FALSE), Line("/", TRUE), Line("/boot", TRUE)>>,
     <<Line("/boot", TRUE), Line("/", FALSE)>>,
     <<Line("/boot", TRUE)>>}

Size(blocks, avail, bsize) == [blocks |-> blocks, avail |-> avail, bsize |-> bsize]

UsageOf(root, boot) == [d \in {"/", "/boot", "/proc"} |->
                        IF d = "/" THEN root ELSE IF d = "/boot" THEN boot ELSE Size(0, 0, 2)]

DiskUsages ==
    {UsageOf(Size(5, 4, 4), Size(4, 0, 1)), UsageOf(Size(10, 1, 2), Size(40, 30, 2)),
     UsageOf(Size(20, 19, 2), Size(4, 0, 1))}

HomeListings == {<<>>, <<"8">>}

=============================================================================
