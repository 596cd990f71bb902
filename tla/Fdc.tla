-------------------------------- MODULE Fdc --------------------------------
(***************************************************************************)
(* The uPD765/i8272 floppy controller of the HC disk interface (fdc.c,     *)
(* fdc.h): a polled chip that collects the bytes of a command, executes it,*)
(* moves data one byte at a time and hands back a result.                  *)
(*                                                                         *)
(* The CPU drives it through two ports: the data register (DataWrite,      *)
(* DataRead) and the control latch (SelWrite: reset, terminal count, motor *)
(* bits).  Between two CPU accesses the chip does nothing by itself.       *)
(*                                                                         *)
(* Data is abstracted: sector contents are only "differs from the file or  *)
(* not" (changed), and since cmd_done is the first to look at a parameter  *)
(* byte, the bytes after the opcode are chosen when the last one arrives;  *)
(* until then the chip only counts them (got).                             *)
(***************************************************************************)
EXTENDS Integers, Sequences

CONSTANTS
  Geometry,   \* per drive: tracks, heads, spt, secsz, szcode; zeros if empty
  Inserted,   \* the drives holding an image (fixed at start-up, main.c)
  Opcodes,    \* the opcodes (v & 0x1F) the CPU sends
  Args,       \* the parameter bytes cmd[1..6] the CPU sends
  LatchBytes  \* the control-latch values the CPU writes

Drives == 0..1                                 \* FDC_DRIVES
Byte == 0..255

EmptyDrive == [tracks |-> 0, heads |-> 0, spt |-> 0, secsz |-> 0, szcode |-> 0]

GeometryRecord == [tracks : 0..255, heads : 0..255, spt : 0..255,
                   secsz : Nat, szcode : Byte]

ASSUME GeometryAssumption ==
  /\ Inserted \subseteq Drives
  /\ Geometry \in [Drives -> GeometryRecord]
  /\ \A d \in Inserted : /\ Geometry[d].tracks > 0
                         /\ Geometry[d].heads > 0
                         /\ Geometry[d].spt > 0
                         /\ Geometry[d].secsz > 0
  /\ \A d \in Drives \ Inserted : Geometry[d] = EmptyDrive

ASSUME InputAssumption ==
  /\ Opcodes \subseteq 0..31
  /\ Args \subseteq [1..6 -> Byte]
  /\ LatchBytes \subseteq Byte

VARIABLES
  phase,    \* "idle", "command", "exec" or "result"
  op,       \* the opcode being collected
  got,      \* bytes of the command received so far (cmdlen)
  xfer,     \* the transfer under way in the exec phase
  res,      \* the result bytes the CPU has not read yet
  seekSt0,  \* int_st0 while int_pending is set, NoSeek otherwise
  drive,    \* the unit number of the last command that set it
  track,    \* the head position of each drive
  idcnt,    \* the READ ID rotation, modulo IdPeriod
  latch,    \* the last byte written to the control latch
  dirty,    \* the drives marked for write-back
  changed,  \* the drives whose image differs from the file
  power     \* "on", "off" after the exit, "trapped" after a divide fault

vars == <<phase, op, got, xfer, res, seekSt0, drive, track, idcnt, latch,
          dirty, changed, power>>

-----------------------------------------------------------------------------
(* Status bits and the fields of a command.                                *)

SeekEnd == 32            \* ST0: seek end
Abnormal == 64           \* ST0: abnormal termination
Invalid == 128           \* ST0: invalid command
NoData == 4              \* ST1
NotReady == 8            \* ST1
EndOfCylinder == 128     \* ST1

NoSeek == -1

Bit(v, i) == (v \div 2^i) % 2 = 1

UnitOf(a) == a[1] % 4
HeadOf(a) == (a[1] \div 4) % 2
Slot(u) == u % 2                               \* cur_drive: drv[drive & 1]

\* Bytes in a command, by opcode.
CmdLen(o) ==
  CASE o \in {2, 5, 6, 9, 12, 17, 25, 29} -> 9
    [] o = 13 -> 6
    [] o \in {3, 15} -> 3
    [] o \in {4, 7, 10} -> 2
    [] OTHER -> 1

\* Any common multiple of the sectors per track will do as a period.
IdPeriod == LET s(d) == IF d \in Inserted THEN Geometry[d].spt ELSE 1
            IN s(0) * s(1)

XferRecord == [kind : {"none", "read", "write", "format"}, base : Nat, len : Nat,
               pos : Nat, st0 : Byte, c : Byte, h : Byte, r : Byte, n : Byte,
               hd : 0..1]

NoXfer == [kind |-> "none", base |-> 0, len |-> 0, pos |-> 0, st0 |-> 0,
           c |-> 0, h |-> 0, r |-> 0, n |-> 0, hd |-> 0]

\* The main status register, as the driver polls it.
Status ==
  CASE phase = "command" -> 144                           \* RQM CB
    [] phase = "exec" /\ xfer.kind = "read" -> 240        \* RQM DIO EXM CB
    [] phase = "exec" /\ xfer.kind # "read" -> 176        \* RQM EXM CB
    [] phase = "result" -> 208                            \* RQM DIO CB
    [] OTHER -> 128                                       \* RQM

\* Reading the control latch: bit 0 is low while a motor runs.
SelRead == IF Bit(latch, 3) /\ (Bit(latch, 1) \/ Bit(latch, 2)) THEN 254 ELSE 255

-----------------------------------------------------------------------------
Init ==
  /\ phase = "idle" /\ op = 0 /\ got = 0
  /\ xfer = NoXfer
  /\ res = <<>>
  /\ seekSt0 = NoSeek
  /\ drive = 0
  /\ track = [d \in Drives |-> 0]
  /\ idcnt = 0
  /\ latch = 0
  /\ dirty = {} /\ changed = {}
  /\ power = "on"

(* How a command may leave the chip. *)

\* Seeded faults: a reset that forgets the transfer, a seven-byte result without
\* its last byte.
GoIdle_KeepXfer == /\ phase' = "idle" /\ op' = 0 /\ got' = 0
                   /\ xfer' = xfer /\ res' = <<>>

GoIdle == /\ phase' = "idle" /\ op' = 0 /\ got' = 0
          /\ xfer' = NoXfer /\ res' = <<>>

Return(bytes) == /\ phase' = "result" /\ op' = 0 /\ got' = 0
                 /\ xfer' = NoXfer /\ res' = bytes

ReturnChrn_Short(st0, st1, c, h, r, n) == Return(<<st0, st1, 0, c, h, r>>)
ReturnChrn(st0, st1, c, h, r, n) == Return(<<st0, st1, 0, c, h, r, n>>)

StartXfer(x) == /\ phase' = "exec" /\ op' = 0 /\ got' = 0
                /\ xfer' = x /\ res' = <<>>

-----------------------------------------------------------------------------
(* The commands (cmd_done).  a is the parameter bytes.                     *)

Specify_DropsSeek ==                           \* seeded fault
  /\ GoIdle /\ seekSt0' = NoSeek
  /\ UNCHANGED <<drive, track, idcnt, dirty, changed>>

Specify_Stays ==                               \* seeded fault
  UNCHANGED <<phase, op, got, xfer, res, seekSt0, drive, track, idcnt, dirty, changed>>

Specify ==
  /\ GoIdle
  /\ UNCHANGED <<seekSt0, drive, track, idcnt, dirty, changed>>

SenseDrive(a) ==
  LET u == UnitOf(a)
      d == Slot(u)
  IN /\ drive' = u
     /\ Return(<<u + 4 * HeadOf(a) + 32
                 + (IF d \in Inserted /\ track[d] = 0 THEN 16 ELSE 0)
                 + (IF Geometry[d].heads > 1 THEN 8 ELSE 0)>>)
     /\ UNCHANGED <<seekSt0, track, idcnt, dirty, changed>>

Recalibrate(a) ==
  /\ drive' = UnitOf(a)
  /\ track' = [track EXCEPT ![Slot(UnitOf(a))] = 0]
  /\ seekSt0' = SeekEnd + UnitOf(a)
  /\ GoIdle
  /\ UNCHANGED <<idcnt, dirty, changed>>

\* The cylinder a seek to c ends on.
SoughtTrack_OffByOne(d, c) ==                  \* seeded fault: <= for <
  IF c <= Geometry[d].tracks \/ d \notin Inserted THEN c ELSE Geometry[d].tracks - 1
SoughtTrack(d, c) ==
  IF c < Geometry[d].tracks \/ d \notin Inserted THEN c ELSE Geometry[d].tracks - 1

Seek(a) ==
  /\ drive' = UnitOf(a)
  /\ track' = [track EXCEPT ![Slot(UnitOf(a))] = SoughtTrack(Slot(UnitOf(a)), a[2])]
  /\ seekSt0' = SeekEnd + UnitOf(a)
  /\ GoIdle
  /\ UNCHANGED <<idcnt, dirty, changed>>

SenseInterrupt ==
  /\ IF seekSt0 # NoSeek
       THEN Return(<<seekSt0, track[Slot(drive)]>>)
       ELSE Return(<<Invalid>>)
  /\ seekSt0' = NoSeek
  /\ UNCHANGED <<drive, track, idcnt, dirty, changed>>

ReadId(a) ==
  LET d == Slot(UnitOf(a))
      st0 == UnitOf(a) + 4 * HeadOf(a)
  IN /\ drive' = UnitOf(a)
     /\ IF d \notin Inserted
          THEN /\ ReturnChrn(st0 + Abnormal, NotReady, 0, 0, 0, 0)
               /\ idcnt' = idcnt
          ELSE /\ ReturnChrn(st0, 0, track[d], HeadOf(a),
                             (idcnt % Geometry[d].spt) + 1, Geometry[d].szcode)
               /\ idcnt' = (idcnt + 1) % IdPeriod
     /\ UNCHANGED <<seekSt0, track, dirty, changed>>

\* The sector the parameters address exists on the disk in the drive.
Addressable(a) ==
  LET d == Slot(UnitOf(a))
      g == Geometry[d]
  IN /\ d \in Inserted
     /\ a[2] < g.tracks /\ a[3] < g.heads
     /\ a[4] \in 1..g.spt
     /\ a[5] = g.szcode

\* Number of a sector in the raw image.
Lba(g, c, h, r) == (c * g.heads + h) * g.spt + (r - 1)

\* EOT clipped to the first sector of the transfer and the last of the track.
LastSector_NoClip(g, r, eot) == IF eot < r THEN r ELSE eot   \* seeded fault
LastSector(g, r, eot) ==
  IF eot < r THEN r ELSE IF eot > g.spt THEN g.spt ELSE eot

\* The drives to write back once drive d is given a transfer.
Marked_Never(d, kind) == dirty                 \* seeded fault
Marked(d, kind) == IF kind = "write" THEN dirty \cup {d} ELSE dirty

Transfer(a, kind) ==
  LET d == Slot(UnitOf(a))
      g == Geometry[d]
      st0 == UnitOf(a) + 4 * HeadOf(a)
  IN /\ drive' = UnitOf(a)
     /\ IF Addressable(a)
          THEN /\ StartXfer(
                    [kind |-> kind, base |-> Lba(g, a[2], a[3], a[4]),
                     len |-> (LastSector(g, a[4], a[6]) - a[4] + 1) * g.secsz,
                     pos |-> 0, st0 |-> st0,
                     c |-> a[2], h |-> a[3], r |-> a[4], n |-> a[5],
                     hd |-> HeadOf(a)])
               /\ dirty' = Marked(d, kind)
          ELSE /\ ReturnChrn(st0 + Abnormal,
                             IF d \in Inserted THEN NoData ELSE NotReady,
                             a[2], a[3], a[4], a[5])
               /\ dirty' = dirty
     /\ UNCHANGED <<seekSt0, track, idcnt, changed>>

\* The track is filled at once; the exec phase swallows 4 ID bytes a sector.
\* In xfer, c, h, r and n are cmd[2..5] by position, so here N, SC, GPL and
\* the filler: xfer_end does not know it is looking at a FORMAT.
Format(a) ==
  LET d == Slot(UnitOf(a))
      g == Geometry[d]
      ok == d \in Inserted /\ HeadOf(a) < g.heads /\ a[2] = g.szcode
      sectors == IF a[3] # 0 THEN a[3] ELSE IF d \in Inserted THEN g.spt ELSE 9
  IN /\ drive' = UnitOf(a)
     /\ dirty' = IF ok THEN dirty \cup {d} ELSE dirty
     /\ changed' = IF ok THEN changed \cup {d} ELSE changed
     /\ StartXfer([kind |-> "format", base |-> 0, len |-> 4 * sectors, pos |-> 0,
                   st0 |-> UnitOf(a) + 4 * HeadOf(a) + (IF ok THEN 0 ELSE Abnormal),
                   c |-> a[2], h |-> a[3], r |-> a[4], n |-> a[5],
                   hd |-> HeadOf(a)])
     /\ UNCHANGED <<seekSt0, track, idcnt>>

InvalidCommand ==
  /\ Return(<<Invalid>>)
  /\ UNCHANGED <<seekSt0, drive, track, idcnt, dirty, changed>>

\* cmd_done: the last byte of command o has arrived.
Execute(o, a) ==
  CASE o = 3 -> Specify
    [] o = 4 -> SenseDrive(a)
    [] o = 7 -> Recalibrate(a)
    [] o = 15 -> Seek(a)
    [] o = 8 -> SenseInterrupt
    [] o = 10 -> ReadId(a)
    [] o \in {6, 12} -> Transfer(a, "read")
    [] o \in {5, 9} -> Transfer(a, "write")
    [] o = 13 -> Format(a)
    [] OTHER -> InvalidCommand

-----------------------------------------------------------------------------
(* The end of the exec phase (xfer_end).  Integer division by the sector   *)
(* size of an empty drive is a divide fault that ends the emulator.        *)

SectorsDone_Floor(g) == xfer.pos \div g.secsz   \* seeded fault: rounds down
SectorsDone(g) == (xfer.pos + g.secsz - 1) \div g.secsz

XferEnd(tc) ==
  LET g == Geometry[Slot(drive)]
      r == (xfer.r + SectorsDone(g)) % 256
  IN IF g.secsz = 0
       THEN /\ power' = "trapped"
            /\ UNCHANGED <<phase, op, got, xfer, res>>
       ELSE /\ ReturnChrn(IF tc THEN xfer.st0 ELSE xfer.st0 + Abnormal,
                          IF tc THEN 0 ELSE EndOfCylinder,
                          IF r > g.spt THEN (xfer.c + 1) % 256 ELSE xfer.c,
                          xfer.h,
                          IF r > g.spt THEN 1 ELSE r,
                          xfer.n)
            /\ power' = power

-----------------------------------------------------------------------------
(* Port 0x87, write (fdc_data_write).  A write in any other state of the   *)
(* chip is ignored.                                                        *)

FirstByte(o) ==
  /\ phase = "idle"
  /\ IF CmdLen(o) = 1
       THEN \E a \in Args : Execute(o, a)
       ELSE /\ phase' = "command" /\ op' = o /\ got' = 1
            /\ UNCHANGED <<xfer, res, seekSt0, drive, track, idcnt, dirty, changed>>
  /\ UNCHANGED <<latch, power>>

NextByte ==
  /\ phase = "command"
  /\ IF got + 1 >= CmdLen(op)
       THEN \E a \in Args : Execute(op, a)
       ELSE /\ got' = got + 1
            /\ UNCHANGED <<phase, op, xfer, res, seekSt0, drive, track, idcnt,
                           dirty, changed>>
  /\ UNCHANGED <<latch, power>>

SwallowId ==
  /\ phase = "exec" /\ xfer.kind = "format"
  /\ IF xfer.pos + 1 >= xfer.len
       THEN ReturnChrn(xfer.st0, 0, track[Slot(drive)], xfer.hd, 1, xfer.c)
       ELSE /\ xfer' = [xfer EXCEPT !.pos = @ + 1]
            /\ UNCHANGED <<phase, op, got, res>>
  /\ UNCHANGED <<seekSt0, drive, track, idcnt, latch, dirty, changed, power>>

StoreByte ==
  /\ phase = "exec" /\ xfer.kind = "write"
  /\ IF xfer.pos < xfer.len
       THEN /\ xfer' = [xfer EXCEPT !.pos = @ + 1]
            /\ changed' = changed \cup {Slot(drive)}
            /\ UNCHANGED <<phase, op, got, res, power>>
       ELSE /\ XferEnd(FALSE)
            /\ changed' = changed
  /\ UNCHANGED <<seekSt0, drive, track, idcnt, latch, dirty>>

DataWrite == (\E o \in Opcodes : FirstByte(o)) \/ NextByte \/ SwallowId \/ StoreByte

(* Port 0x87, read (fdc_data_read).  In any other state it reads 0xFF.     *)

FetchByte ==
  /\ phase = "exec" /\ xfer.kind = "read"
  /\ IF xfer.pos < xfer.len
       THEN /\ xfer' = [xfer EXCEPT !.pos = @ + 1]
            /\ UNCHANGED <<phase, op, got, res, power>>
       ELSE XferEnd(FALSE)
  /\ UNCHANGED <<seekSt0, drive, track, idcnt, latch, dirty, changed>>

ResultByte ==
  /\ phase = "result"
  /\ res' = Tail(res)
  /\ phase' = IF Len(res) = 1 THEN "idle" ELSE "result"
  /\ UNCHANGED <<op, got, xfer, seekSt0, drive, track, idcnt, latch, dirty,
                 changed, power>>

DataRead == FetchByte \/ ResultByte

(* Ports 0x05/0x07, write (fdc_sel_write): /reset, then TC, then the latch. *)

SelWrite(v) ==
  /\ IF ~Bit(v, 4)
       THEN /\ GoIdle                          \* fdc_reset
            /\ seekSt0' = NoSeek
            /\ power' = power
       ELSE /\ IF Bit(v, 0) /\ phase = "exec"
                 THEN XferEnd(TRUE)
                 ELSE UNCHANGED <<phase, op, got, xfer, res, power>>
            /\ seekSt0' = seekSt0
  /\ latch' = v
  /\ UNCHANGED <<drive, track, idcnt, dirty, changed>>

-----------------------------------------------------------------------------
(* The end of the session.  main.c frees the controller last, which writes *)
(* the dirty images back (opened: the files that can be opened); a failed  *)
(* output file makes main return before that.                              *)

Free(opened) ==
  /\ changed' = changed \ (dirty \cap opened)
  /\ dirty' = {}
  /\ power' = "off"
  /\ UNCHANGED <<phase, op, got, xfer, res, seekSt0, drive, track, idcnt, latch>>

ReturnEarly ==
  /\ power' = "off"
  /\ UNCHANGED <<phase, op, got, xfer, res, seekSt0, drive, track, idcnt, latch,
                 dirty, changed>>

Running == power = "on"

CpuAccess == DataWrite \/ DataRead \/ (\E v \in LatchBytes : SelWrite(v))

Exit == (\E opened \in SUBSET Drives : Free(opened)) \/ ReturnEarly

Next == Running /\ (CpuAccess \/ Exit)

Spec == Init /\ [][Next]_vars

\* A driver that goes by the status register alone and keeps going: every
\* byte the chip asks for or offers is eventually moved.
Polled == Running /\ (DataWrite \/ DataRead)
=============================================================================
