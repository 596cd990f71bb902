------------------------------ MODULE FdcProps ------------------------------
(* What the floppy controller of Fdc must do, and what the sources say of it *)
(* that it does not.                                                        *)
EXTENDS Fdc

\* Types of the controller's state (struct Fdc, fdc.h).
TypeOK ==
  /\ phase \in {"idle", "command", "exec", "result"}
  /\ op \in 0..31
  /\ got \in 0..9
  /\ xfer \in XferRecord
  /\ res \in Seq(Byte)
  /\ seekSt0 \in {NoSeek} \cup Byte
  /\ drive \in 0..3
  /\ track \in [Drives -> Byte]
  /\ idcnt \in Nat
  /\ latch \in Byte
  /\ dirty \subseteq Drives /\ changed \subseteq Drives
  /\ power \in {"on", "off", "trapped"}

\* The registers agree with the phase the status register announces: a command
\* is never collected beyond its length, a transfer never runs past its end
\* and carries no error before it ends (xfer_end ORs the error in),
\* a result phase always has a byte to give (the driver polls only the status,
\* so a phase with nothing behind it would hang it).
PhaseConsistent ==
  /\ phase = "command" => got \in 1..(CmdLen(op) - 1)
  /\ (phase = "exec") <=> (xfer.kind # "none")
  /\ phase = "exec" => xfer.pos <= xfer.len /\ xfer.len > 0
  /\ xfer.kind = "format" => xfer.pos < xfer.len
  /\ xfer.kind \in {"read", "write"} => xfer.st0 < Abnormal
  /\ phase = "result" <=> res # <<>>

\* SEEK clips to the last cylinder and FORMAT fills the track under the head
\* without looking: over an image the head never stands past its end.
HeadOnDisk == \A d \in Inserted : track[d] < Geometry[d].tracks

\* A READ or WRITE DATA moves bytes of the commanded track only (xfer_start
\* bounds the run once, the byte loop only counts), and that track is part of
\* the image of the drive now selected, marked for write-back if it is written.
TransferOnTrack ==
  xfer.kind \in {"read", "write"} =>
    LET d == Slot(drive)
        g == Geometry[d]
        first == Lba(g, xfer.c, xfer.h, 1)
    IN /\ d \in Inserted
       /\ xfer.kind = "write" /\ power = "on" => d \in dirty
       /\ xfer.c < g.tracks /\ xfer.h < g.heads
       /\ first <= xfer.base
       /\ xfer.base * g.secsz + xfer.len <= (first + g.spt) * g.secsz

\* While the emulator runs, an image that differs from its file is marked for
\* write-back, by whichever command changed it.
DirtyCoversChanges == power = "on" => changed \subseteq dirty

\* A seek completion disappears only into the answer of a SENSE INTERRUPT
\* STATUS, by a newer seek or by a reset: no other command eats it.
SeekDelivered ==
  [][seekSt0 # NoSeek /\ seekSt0' = NoSeek =>
       \/ Len(res') = 2 /\ res'[1] = seekSt0
       \/ ~Bit(latch', 4)]_vars

\* A transfer that ends reports where to go on: a READ DATA with the C, H and R
\* of the result starts at the sector after the last one touched, or at the
\* first sector of the next cylinder when the track is used up.
ResultContinues ==
  [][xfer.kind \in {"read", "write"} /\ phase' = "result" =>
       LET g == Geometry[Slot(drive)]
           done == CHOOSE k \in 0..(xfer.pos + 1) :
                     (k - 1) * g.secsz < xfer.pos /\ xfer.pos <= k * g.secsz
       IN IF xfer.r + done > g.spt
            THEN res'[4] = xfer.c + 1 /\ res'[6] = 1
            ELSE Lba(g, res'[4], res'[5], res'[6]) = xfer.base + done]_vars

\* Once the driver goes by the status register alone, without terminal count and without
\* reset, every command comes back to idle, with a disk or without, unless the emulator ends.
CommandCompletes ==
  <>[][Polled]_vars /\ WF_vars(Polled)
    => ((phase # "idle") ~> (phase = "idle" \/ power # "on"))

\* The controller implements the bus protocol of FdcBus.
Bus == INSTANCE FdcBus WITH msr <- Status, owed <- Len(res)

BusProtocol == Bus!Spec

(* Statements of the sources that the code does not keep.                  *)

\* fdc.c "End the exec phase (TC pulse or data exhausted)": a TC pulse in the
\* exec phase ends it, and the emulator goes on.
TcEndsExec == power # "trapped"

\* ARCHITECTURE.md "dirty images are written back at exit".
WrittenBackAtExit == power = "off" => changed = {}
=============================================================================
