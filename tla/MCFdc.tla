------------------------------- MODULE MCFdc -------------------------------
(* A two-sided disk of two 2-sector tracks a side; drive 1 is empty.       *)
EXTENDS FdcProps, TLC

DiskA == [tracks |-> 2, heads |-> 2, spt |-> 2, secsz |-> 2, szcode |-> 1]

MCOneDisk == 0 :> DiskA @@ 1 :> EmptyDrive

ArgTuple(u, c, h, r, n, e) ==
  1 :> u @@ 2 :> c @@ 3 :> h @@ 4 :> r @@ 5 :> n @@ 6 :> e

\* Both sides of drive 0, the empty drive 1 and unit 2 (an alias of drive 0);
\* cylinder 2 and sector 3 are past the end of the disk.
MCArgs ==
  {ArgTuple(u, c, u \div 4, r, 1, 3) : u \in {0, 1, 2, 4}, c \in 0..2, r \in 1..3}
  \cup {ArgTuple(u, c, h, r, n, 1) : u \in {0, 1}, c \in 0..1, h \in 0..1, r \in 1..2, n \in 0..1}

MCFewArgs == {ArgTuple(u, c, 0, r, 1, 2) : u \in {0, 1}, c \in 0..2, r \in 1..2}

\* SPECIFY, SENSE DRIVE, RECALIBRATE, SEEK, SENSE INT, READ ID, READ, WRITE,
\* FORMAT and an unimplemented nine-byte command (READ TRACK).
MCOpcodes == {2, 3, 4, 5, 6, 7, 8, 10, 13, 15}
=============================================================================
