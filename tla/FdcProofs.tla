----------------------------- MODULE FdcProofs -----------------------------
(***************************************************************************)
(* Proofs about Fdc for every geometry, every set of inserted disks and    *)
(* every choice of command bytes.  The inductive invariant is the          *)
(* conjunction of the invariants the runs check:                           *)
(*   Chip   the phase machine: types of its registers and PhaseConsistent; *)
(*   Media  everything a command changes about the drives, HeadOnDisk and  *)
(*          DirtyCoversChanges among it;                                   *)
(*   TransferOnTrack, which ties the two together.                         *)
(***************************************************************************)
EXTENDS FdcProps, TLAPS

Chip ==
  /\ phase \in {"idle", "command", "exec", "result"}
  /\ op \in 0..31
  /\ got \in 0..9
  /\ xfer \in XferRecord
  /\ res \in Seq(Byte)
  /\ PhaseConsistent

Media ==
  /\ seekSt0 \in {NoSeek} \cup Byte
  /\ drive \in 0..3
  /\ track \in [Drives -> Byte]
  /\ idcnt \in Nat
  /\ dirty \subseteq Drives /\ changed \subseteq Drives
  /\ HeadOnDisk

Inv == /\ Chip /\ Media
       /\ latch \in Byte
       /\ power \in {"on", "off", "trapped"}
       /\ TransferOnTrack
       /\ DirtyCoversChanges

-----------------------------------------------------------------------------
(* Arithmetic of commands and of the image.                                *)

LEMMA UnitBits ==
  ASSUME NEW a \in [1..6 -> Byte]
  PROVE  /\ UnitOf(a) \in 0..3 /\ HeadOf(a) \in 0..1
         /\ Slot(UnitOf(a)) \in Drives
BY DEF UnitOf, HeadOf, Slot, Drives, Byte

LEMMA SlotDrive ==
  ASSUME NEW u \in 0..3
  PROVE  Slot(u) \in Drives
BY DEF Slot, Drives

LEMMA CmdLenBounds == \A o \in 0..31 : CmdLen(o) \in 1..9
BY DEF CmdLen

LEMMA GeometryType ==
  ASSUME NEW d \in Drives
  PROVE  /\ Geometry[d].tracks \in 0..255 /\ Geometry[d].heads \in 0..255
         /\ Geometry[d].spt \in 0..255 /\ Geometry[d].secsz \in Nat
         /\ Geometry[d].szcode \in Byte
         /\ d \in Inserted => /\ Geometry[d].tracks > 0 /\ Geometry[d].heads > 0
                              /\ Geometry[d].spt > 0 /\ Geometry[d].secsz > 0
<1>1. Geometry[d] \in GeometryRecord
  BY GeometryAssumption
<1>2. /\ Geometry[d].tracks \in 0..255 /\ Geometry[d].heads \in 0..255
      /\ Geometry[d].spt \in 0..255 /\ Geometry[d].secsz \in Nat
      /\ Geometry[d].szcode \in Byte
  BY <1>1 DEF GeometryRecord
<1>3. ASSUME d \in Inserted
      PROVE  /\ Geometry[d].tracks > 0 /\ Geometry[d].heads > 0
             /\ Geometry[d].spt > 0 /\ Geometry[d].secsz > 0
  BY <1>3, GeometryAssumption
<1>4. QED
  BY <1>2, <1>3

\* The product of two naturals, kept apart from the larger obligations.
LEMMA MulNat == \A m, n \in Nat : m * n \in Nat
OBVIOUS

LEMMA MulPos == \A m, n \in Nat : m > 0 /\ n > 0 => m * n > 0
OBVIOUS

LEMMA MulMono == \A m, n, k \in Nat : m <= n => m * k <= n * k
OBVIOUS
-----------------------------------------------------------------------------
(* The three ways a command leaves the chip.                               *)

LEMMA NoXferType == NoXfer \in XferRecord /\ NoXfer.kind = "none"
BY DEF NoXfer, XferRecord, Byte

LEMMA IdleChip ==
  ASSUME GoIdle
  PROVE  Chip' /\ xfer' = NoXfer
BY NoXferType DEF GoIdle, Chip, PhaseConsistent

LEMMA ReturnChip ==
  ASSUME NEW bytes \in Seq(Byte), bytes # <<>>, Return(bytes)
  PROVE  Chip' /\ xfer' = NoXfer
BY NoXferType DEF Return, Chip, PhaseConsistent

LEMMA ChrnChip ==
  ASSUME NEW st0 \in Byte, NEW st1 \in Byte, NEW c \in Byte, NEW h \in Byte,
         NEW r \in Byte, NEW n \in Byte, ReturnChrn(st0, st1, c, h, r, n)
  PROVE  Chip' /\ xfer' = NoXfer
<1>1. <<st0, st1, 0, c, h, r, n>> \in Seq(Byte)
  BY DEF Byte
<1>2. QED
  BY <1>1, ReturnChip DEF ReturnChrn

LEMMA StartChip ==
  ASSUME NEW x \in XferRecord, x.kind # "none", x.pos = 0, x.len > 0,
         x.kind \in {"read", "write"} => x.st0 < Abnormal, StartXfer(x)
  PROVE  Chip' /\ xfer' = x
BY DEF StartXfer, Chip, PhaseConsistent, XferRecord

\* Without a data transfer under way TransferOnTrack says nothing.
LEMMA NoTransfer ==
  ASSUME xfer' = NoXfer
  PROVE  TransferOnTrack'
BY DEF TransferOnTrack, NoXfer

-----------------------------------------------------------------------------
(* The commands.                                                           *)

LEMMA SpecifyInv ==
  ASSUME Inv, Specify, UNCHANGED <<latch, power>>
  PROVE  Inv'
<1>1. Chip' /\ xfer' = NoXfer
  BY IdleChip DEF Specify
<1>2. TransferOnTrack'
  BY <1>1, NoTransfer
<1>3. Media' /\ DirtyCoversChanges'
  BY DEF Inv, Specify, Media, HeadOnDisk, DirtyCoversChanges
<1>4. QED
  BY <1>1, <1>2, <1>3 DEF Inv

LEMMA SenseDriveInv ==
  ASSUME Inv, NEW a \in [1..6 -> Byte], SenseDrive(a), UNCHANGED <<latch, power>>
  PROVE  Inv'
<1> DEFINE u == UnitOf(a)
           d == Slot(UnitOf(a))
           v == u + 4 * HeadOf(a) + 32
                 + (IF d \in Inserted /\ track[d] = 0 THEN 16 ELSE 0)
                 + (IF Geometry[d].heads > 1 THEN 8 ELSE 0)
<1>1. v \in Byte
  <2>1. u + 4 * HeadOf(a) + 32 \in 0..39
    BY UnitBits
  <2>2. QED
    BY <2>1 DEF Byte
<1>2. <<v>> \in Seq(Byte) /\ <<v>> # <<>>
  BY <1>1
<1>3. Return(<<v>>)
  BY DEF SenseDrive
<1>4. Chip' /\ xfer' = NoXfer
  BY <1>2, <1>3, ReturnChip
<1>5. TransferOnTrack'
  BY <1>4, NoTransfer
<1>6. Media' /\ DirtyCoversChanges'
  BY UnitBits DEF Inv, SenseDrive, Media, HeadOnDisk, DirtyCoversChanges
<1>7. QED
  BY <1>4, <1>5, <1>6 DEF Inv

LEMMA RecalibrateInv ==
  ASSUME Inv, NEW a \in [1..6 -> Byte], Recalibrate(a), UNCHANGED <<latch, power>>
  PROVE  Inv'
<1>1. Chip' /\ xfer' = NoXfer
  BY IdleChip DEF Recalibrate
<1>2. TransferOnTrack'
  BY <1>1, NoTransfer
<1>3. /\ seekSt0' \in {NoSeek} \cup Byte /\ drive' \in 0..3
      /\ idcnt' \in Nat
      /\ dirty' \subseteq Drives /\ changed' \subseteq Drives
      /\ DirtyCoversChanges'
  BY UnitBits DEF Inv, Recalibrate, Media, DirtyCoversChanges, SeekEnd, Byte
<1>4. track' \in [Drives -> Byte] /\ HeadOnDisk'
  <2>1. track' = [track EXCEPT ![Slot(UnitOf(a))] = 0] /\ 0 \in Byte
    BY DEF Recalibrate, Byte
  <2>2. track \in [Drives -> Byte] /\ HeadOnDisk
    BY DEF Inv, Media
  <2>3. ASSUME NEW d \in Inserted
        PROVE  track'[d] < Geometry[d].tracks
    BY <2>1, <2>2, GeometryAssumption DEF HeadOnDisk
  <2>4. QED
    BY <2>1, <2>2, <2>3 DEF HeadOnDisk
<1>5. QED
  BY <1>1, <1>2, <1>3, <1>4 DEF Inv, Media

LEMMA SeekInv ==
  ASSUME Inv, NEW a \in [1..6 -> Byte], Seek(a), UNCHANGED <<latch, power>>
  PROVE  Inv'
<1> DEFINE d == Slot(UnitOf(a))
           t == SoughtTrack(d, a[2])
<1>1. Chip' /\ xfer' = NoXfer
  BY IdleChip DEF Seek
<1>2. TransferOnTrack'
  BY <1>1, NoTransfer
<1>3. /\ seekSt0' \in {NoSeek} \cup Byte /\ drive' \in 0..3
      /\ idcnt' \in Nat
      /\ dirty' \subseteq Drives /\ changed' \subseteq Drives
      /\ DirtyCoversChanges'
  BY UnitBits DEF Inv, Seek, Media, DirtyCoversChanges, SeekEnd, Byte
<1>4. track' \in [Drives -> Byte] /\ HeadOnDisk'
  <2>1. track' = [track EXCEPT ![d] = t]
    BY DEF Seek
  <2>2. track \in [Drives -> Byte] /\ HeadOnDisk
    BY DEF Inv, Media
  <2>3. t \in Byte /\ (d \in Inserted => t < Geometry[d].tracks)
    BY UnitBits, GeometryType, a[2] \in Byte DEF Byte, SoughtTrack
  <2>4. ASSUME NEW e \in Inserted
        PROVE  track'[e] < Geometry[e].tracks
    BY <2>1, <2>2, <2>3, GeometryAssumption DEF HeadOnDisk
  <2>5. QED
    BY <2>1, <2>2, <2>3, <2>4 DEF HeadOnDisk
<1>5. QED
  BY <1>1, <1>2, <1>3, <1>4 DEF Inv, Media
LEMMA SenseInterruptInv ==
  ASSUME Inv, SenseInterrupt, UNCHANGED <<latch, power>>
  PROVE  Inv'
<1> DEFINE answer == IF seekSt0 # NoSeek THEN <<seekSt0, track[Slot(drive)]>>
                                         ELSE <<Invalid>>
<1>1. answer \in Seq(Byte) /\ answer # <<>>
  <2>1. track[Slot(drive)] \in Byte
    BY SlotDrive DEF Inv, Media
  <2>2. CASE seekSt0 # NoSeek
    <3>1. seekSt0 \in Byte
      BY <2>2 DEF Inv, Media
    <3>2. QED
      BY <2>1, <2>2, <3>1
  <2>3. CASE seekSt0 = NoSeek
    <3>1. Invalid \in Byte
      BY DEF Invalid, Byte
    <3>2. QED
      BY <2>3, <3>1
  <2>4. QED
    BY <2>2, <2>3
<1>2. Return(answer)
  BY DEF SenseInterrupt
<1>3. Chip' /\ xfer' = NoXfer
  BY <1>1, <1>2, ReturnChip
<1>4. TransferOnTrack'
  BY <1>3, NoTransfer
<1>5. Media' /\ DirtyCoversChanges'
  BY DEF Inv, SenseInterrupt, Media, HeadOnDisk, DirtyCoversChanges
<1>6. QED
  BY <1>3, <1>4, <1>5 DEF Inv

LEMMA InvalidInv ==
  ASSUME Inv, InvalidCommand, UNCHANGED <<latch, power>>
  PROVE  Inv'
<1>1. <<Invalid>> \in Seq(Byte) /\ <<Invalid>> # <<>>
  BY DEF Invalid, Byte
<1>2. Chip' /\ xfer' = NoXfer
  BY <1>1, ReturnChip DEF InvalidCommand
<1>3. TransferOnTrack'
  BY <1>2, NoTransfer
<1>4. Media' /\ DirtyCoversChanges'
  BY DEF Inv, InvalidCommand, Media, HeadOnDisk, DirtyCoversChanges
<1>5. QED
  BY <1>2, <1>3, <1>4 DEF Inv

LEMMA IdPeriodPositive == IdPeriod \in Nat /\ IdPeriod > 0
<1> DEFINE s(d) == IF d \in Inserted THEN Geometry[d].spt ELSE 1
<1>1. s(0) \in Nat /\ s(0) > 0 /\ s(1) \in Nat /\ s(1) > 0
  BY GeometryType, 0 \in Drives, 1 \in Drives DEF Drives
<1>2. s(0) * s(1) \in Nat /\ s(0) * s(1) > 0
  <2> HIDE DEF s
  <2> QED BY <1>1, MulNat, MulPos
<1>3. QED
  BY <1>2 DEF IdPeriod

LEMMA ReadIdInv ==
  ASSUME Inv, NEW a \in [1..6 -> Byte], ReadId(a), UNCHANGED <<latch, power>>
  PROVE  Inv'
<1> DEFINE d == Slot(UnitOf(a))
           st0 == UnitOf(a) + 4 * HeadOf(a)
<1>1. st0 \in Byte /\ st0 + Abnormal \in Byte
  BY UnitBits DEF Byte, Abnormal
<1>2. Chip' /\ xfer' = NoXfer /\ idcnt' \in Nat
  <2>1. CASE d \notin Inserted
    <3>1. ReturnChrn(st0 + Abnormal, NotReady, 0, 0, 0, 0) /\ idcnt' = idcnt
      BY <2>1 DEF ReadId
    <3>2. NotReady \in Byte /\ 0 \in Byte
      BY DEF NotReady, Byte
    <3>3. QED
      BY <1>1, <3>1, <3>2, ChrnChip DEF Inv, Media
  <2>2. CASE d \in Inserted
    <3> DEFINE g == Geometry[d]
               id == (idcnt % g.spt) + 1
    <3>1. /\ ReturnChrn(st0, 0, track[d], HeadOf(a), id, g.szcode)
          /\ idcnt' = (idcnt + 1) % IdPeriod
      BY <2>2 DEF ReadId
    <3>2. d \in Drives /\ idcnt \in Nat /\ track[d] \in Byte
      BY UnitBits DEF Inv, Media
    <3>3. g.spt \in 1..255 /\ g.szcode \in Byte
      BY <2>2, <3>2, GeometryType
    <3>4. id \in Byte
      BY <3>2, <3>3, g.spt \in Nat /\ g.spt > 0, idcnt % g.spt \in 0..(g.spt - 1)
         DEF Byte
    <3>5. HeadOf(a) \in Byte /\ 0 \in Byte
      BY UnitBits DEF Byte
    <3>6. Chip' /\ xfer' = NoXfer
      <4> HIDE DEF id, g, d, st0
      <4> QED BY <1>1, <3>1, <3>2, <3>3, <3>4, <3>5, ChrnChip
    <3>7. idcnt' \in Nat
      BY <3>1, <3>2, IdPeriodPositive
    <3>8. QED
      BY <3>6, <3>7
  <2>3. QED
    BY <2>1, <2>2
<1>3. TransferOnTrack'
  BY <1>2, NoTransfer
<1>4. Media' /\ DirtyCoversChanges'
  BY <1>2, UnitBits DEF Inv, ReadId, Media, HeadOnDisk, DirtyCoversChanges
<1>5. QED
  BY <1>2, <1>3, <1>4 DEF Inv
-----------------------------------------------------------------------------
(* READ and WRITE DATA: the run of bytes set up by xfer_start.             *)

LEMMA MulAdd == \A m, n, k \in Nat : m * k + n * k = (m + n) * k
OBVIOUS

\* The last sector of the run is on the track and not before the first.
LEMMA LastSectorBounds ==
  ASSUME NEW d \in Inserted, NEW r \in 1..Geometry[d].spt, NEW eot \in Byte
  PROVE  LastSector(Geometry[d], r, eot) \in r..Geometry[d].spt
<1>1. Geometry[d].spt \in Nat
  BY GeometryType, GeometryAssumption
<1>2. QED
  BY <1>1 DEF LastSector, Byte

\* The run of a transfer: where it starts, and that it ends on its track.
LEMMA RunOnTrack ==
  ASSUME NEW d \in Inserted, NEW c \in Byte, NEW h \in Byte,
         NEW r \in 1..Geometry[d].spt, NEW last \in r..Geometry[d].spt
  PROVE  LET g == Geometry[d]
             base == Lba(g, c, h, r)
             len == (last - r + 1) * g.secsz
             first == Lba(g, c, h, 1)
         IN /\ base \in Nat /\ len \in Nat /\ len > 0 /\ first \in Nat
            /\ first <= base
            /\ base * g.secsz + len <= (first + g.spt) * g.secsz
<1> DEFINE g == Geometry[d]
           t == (c * g.heads + h) * g.spt
           n == last - r + 1
<1>1. g.heads \in Nat /\ g.spt \in Nat /\ g.secsz \in Nat /\ g.secsz > 0
  BY GeometryType, GeometryAssumption
<1>2. t \in Nat
  <2>1. c * g.heads \in Nat
    BY <1>1, MulNat DEF Byte
  <2>2. c * g.heads + h \in Nat
    BY <2>1 DEF Byte
  <2>3. QED
    <3> HIDE DEF g
    <3> QED BY <1>1, <2>2, MulNat
<1>3. Lba(g, c, h, r) = t + (r - 1) /\ Lba(g, c, h, 1) = t
  BY <1>1, <1>2 DEF Lba
<1>4. /\ n \in Nat /\ n > 0
      /\ t + (r - 1) \in Nat /\ t <= t + (r - 1)
      /\ (t + (r - 1)) + n = t + last /\ t + last \in Nat
      /\ t + last <= t + g.spt /\ t + g.spt \in Nat
  <2> HIDE DEF t
  <2> QED BY <1>1, <1>2
<1>5. n * g.secsz \in Nat /\ n * g.secsz > 0
  <2> HIDE DEF n, g
  <2> QED BY <1>1, <1>4, MulNat, MulPos
<1>6. (t + (r - 1)) * g.secsz + n * g.secsz <= (t + g.spt) * g.secsz
  <2>1. (t + (r - 1)) * g.secsz + n * g.secsz = (t + last) * g.secsz
    <3> HIDE DEF t, n, g
    <3> QED BY <1>1, <1>4, MulAdd
  <2>2. (t + last) * g.secsz <= (t + g.spt) * g.secsz
    <3> HIDE DEF t, g
    <3> QED BY <1>1, <1>4, MulMono
  <2>3. QED
    BY <2>1, <2>2
<1>7. QED
  BY <1>2, <1>3, <1>4, <1>5, <1>6

LEMMA TransferInv ==
  ASSUME Inv, NEW a \in [1..6 -> Byte], NEW kind \in {"read", "write"},
         Transfer(a, kind), UNCHANGED <<latch, power>>
  PROVE  Inv'
<1> DEFINE d == Slot(UnitOf(a))
           g == Geometry[d]
           st0 == UnitOf(a) + 4 * HeadOf(a)
           last == LastSector(g, a[4], a[6])
           x == [kind |-> kind, base |-> Lba(g, a[2], a[3], a[4]),
                 len |-> (last - a[4] + 1) * g.secsz,
                 pos |-> 0, st0 |-> st0,
                 c |-> a[2], h |-> a[3], r |-> a[4], n |-> a[5],
                 hd |-> HeadOf(a)]
<1>1. /\ st0 \in Byte /\ st0 + Abnormal \in Byte
      /\ a[2] \in Byte /\ a[3] \in Byte /\ a[4] \in Byte /\ a[5] \in Byte
      /\ a[6] \in Byte
      /\ UnitOf(a) \in 0..3 /\ HeadOf(a) \in 0..1 /\ d \in Drives
  BY UnitBits DEF Byte, Abnormal
<1>2. Media'
  BY <1>1 DEF Inv, Transfer, Media, HeadOnDisk, Marked
<1>3. DirtyCoversChanges'
  BY DEF Inv, Transfer, DirtyCoversChanges, Marked
<1>4. CASE ~Addressable(a)
  <2>1. \E st1 \in Byte : ReturnChrn(st0 + Abnormal, st1, a[2], a[3], a[4], a[5])
    <3>1. NoData \in Byte /\ NotReady \in Byte
      BY DEF NoData, NotReady, Byte
    <3>2. QED
      BY <1>4, <3>1 DEF Transfer
  <2>2. Chip' /\ xfer' = NoXfer
    <3> HIDE DEF st0
    <3> QED BY <1>1, <2>1, ChrnChip
  <2>3. QED
    BY <1>2, <1>3, <2>2, NoTransfer DEF Inv
<1>5. CASE Addressable(a)
  <2>1. /\ d \in Inserted /\ a[2] < g.tracks /\ a[3] < g.heads
        /\ a[4] \in 1..g.spt
    BY <1>5 DEF Addressable
  <2>2. last \in a[4]..g.spt
    BY <1>1, <2>1, LastSectorBounds
  <2>3. /\ x.base \in Nat /\ x.len \in Nat /\ x.len > 0
        /\ Lba(g, a[2], a[3], 1) <= x.base
        /\ x.base * g.secsz + x.len <= (Lba(g, a[2], a[3], 1) + g.spt) * g.secsz
    <3> HIDE DEF last
    <3> QED BY <1>1, <2>1, <2>2, RunOnTrack
  <2>4. /\ x \in XferRecord /\ x.kind # "none" /\ x.pos = 0
        /\ x.st0 < Abnormal
    <3>1. st0 < Abnormal
      BY <1>1 DEF Abnormal
    <3>2. st0 \in Byte
      BY <1>1
    <3>3. x.base \in Nat /\ x.len \in Nat
      BY <2>3
    <3> HIDE DEF st0, last
    <3> QED BY <1>1, <3>1, <3>2, <3>3 DEF XferRecord
  <2>5. StartXfer(x) /\ drive' = UnitOf(a)
    BY <1>5 DEF Transfer
  <2>6. Chip' /\ xfer' = x
    <3> HIDE DEF x
    <3> QED BY <2>3, <2>4, <2>5, StartChip
  <2>7. TransferOnTrack'
    <3>1. kind = "write" => d \in dirty'
      BY <1>5 DEF Transfer, Marked
    <3>2. QED
      BY <2>1, <2>3, <2>5, <2>6, <3>1 DEF TransferOnTrack
  <2>8. QED
    BY <1>2, <1>3, <2>6, <2>7 DEF Inv
<1>6. QED
  BY <1>4, <1>5

LEMMA FormatInv ==
  ASSUME Inv, NEW a \in [1..6 -> Byte], Format(a), UNCHANGED <<latch, power>>
  PROVE  Inv'
<1> DEFINE d == Slot(UnitOf(a))
           g == Geometry[d]
           ok == d \in Inserted /\ HeadOf(a) < g.heads /\ a[2] = g.szcode
           sectors == IF a[3] # 0 THEN a[3] ELSE IF d \in Inserted THEN g.spt ELSE 9
           x == [kind |-> "format", base |-> 0, len |-> 4 * sectors, pos |-> 0,
                 st0 |-> UnitOf(a) + 4 * HeadOf(a) + (IF ok THEN 0 ELSE Abnormal),
                 c |-> a[2], h |-> a[3], r |-> a[4], n |-> a[5],
                 hd |-> HeadOf(a)]
<1>1. /\ a[2] \in Byte /\ a[3] \in Byte /\ a[4] \in Byte /\ a[5] \in Byte
      /\ UnitOf(a) \in 0..3 /\ HeadOf(a) \in 0..1 /\ d \in Drives
  BY UnitBits
<1>2. 4 * sectors \in Nat /\ 4 * sectors > 0
  BY <1>1, GeometryType DEF Byte
<1>3. x.st0 \in Byte
  BY <1>1 DEF Byte, Abnormal
<1>4. /\ x \in XferRecord /\ x.kind # "none" /\ x.pos = 0 /\ x.len > 0
      /\ x.kind \notin {"read", "write"}
  <2> HIDE DEF sectors, ok
  <2> QED BY <1>1, <1>2, <1>3 DEF XferRecord
<1>5. StartXfer(x)
  BY DEF Format
<1>6. Chip' /\ xfer' = x
  <2> HIDE DEF x
  <2> QED BY <1>4, <1>5, StartChip
<1>7. TransferOnTrack'
  BY <1>6 DEF TransferOnTrack
<1>8. Media' /\ DirtyCoversChanges'
  BY <1>1 DEF Inv, Format, Media, HeadOnDisk, DirtyCoversChanges
<1>9. QED
  BY <1>6, <1>7, <1>8 DEF Inv
LEMMA ExecuteInv ==
  ASSUME Inv, NEW o \in 0..31, NEW a \in Args, Execute(o, a),
         UNCHANGED <<latch, power>>
  PROVE  Inv'
<1>1. a \in [1..6 -> Byte]
  BY InputAssumption
<1>2. CASE o = 3
  BY <1>2, SpecifyInv DEF Execute
<1>3. CASE o = 4
  BY <1>1, <1>3, SenseDriveInv DEF Execute
<1>4. CASE o = 7
  BY <1>1, <1>4, RecalibrateInv DEF Execute
<1>5. CASE o = 15
  BY <1>1, <1>5, SeekInv DEF Execute
<1>6. CASE o = 8
  BY <1>6, SenseInterruptInv DEF Execute
<1>7. CASE o = 10
  BY <1>1, <1>7, ReadIdInv DEF Execute
<1>8. CASE o \in {6, 12}
  BY <1>1, <1>8, TransferInv DEF Execute
<1>9. CASE o \in {5, 9}
  BY <1>1, <1>9, TransferInv DEF Execute
<1>10. CASE o = 13
  BY <1>1, <1>10, FormatInv DEF Execute
<1>11. CASE o \notin {3, 4, 5, 6, 7, 8, 9, 10, 12, 13, 15}
  BY <1>11, InvalidInv DEF Execute
<1>12. QED
  BY <1>2, <1>3, <1>4, <1>5, <1>6, <1>7, <1>8, <1>9, <1>10, <1>11

-----------------------------------------------------------------------------
(* The bytes of a command and of a transfer.                               *)

LEMMA FirstByteInv ==
  ASSUME Inv, NEW o \in Opcodes, FirstByte(o)
  PROVE  Inv'
<1>1. o \in 0..31 /\ CmdLen(o) \in 1..9
  BY InputAssumption, CmdLenBounds
<1>2. UNCHANGED <<latch, power>>
  BY DEF FirstByte
<1>3. CASE CmdLen(o) = 1
  BY <1>1, <1>2, <1>3, ExecuteInv DEF FirstByte
<1>4. CASE CmdLen(o) # 1
  <2>1. /\ phase = "idle" /\ phase' = "command" /\ op' = o /\ got' = 1
        /\ UNCHANGED <<xfer, res, seekSt0, drive, track, idcnt, dirty, changed>>
    BY <1>4 DEF FirstByte
  <2>2. xfer.kind = "none" /\ res = <<>>
    BY <2>1 DEF Inv, Chip, PhaseConsistent
  <2>3. Chip'
    BY <1>1, <1>4, <2>1, <2>2 DEF Inv, Chip, PhaseConsistent
  <2>4. Media' /\ TransferOnTrack' /\ DirtyCoversChanges'
    BY <1>2, <2>1 DEF Inv, Media, HeadOnDisk, TransferOnTrack, DirtyCoversChanges
  <2>5. QED
    BY <1>2, <2>3, <2>4 DEF Inv
<1>5. QED
  BY <1>3, <1>4

LEMMA NextByteInv ==
  ASSUME Inv, NextByte
  PROVE  Inv'
<1>1. op \in 0..31 /\ CmdLen(op) \in 1..9 /\ got \in 1..(CmdLen(op) - 1)
  BY CmdLenBounds DEF Inv, Chip, PhaseConsistent, NextByte
<1>2. UNCHANGED <<latch, power>>
  BY DEF NextByte
<1>3. CASE got + 1 >= CmdLen(op)
  BY <1>1, <1>2, <1>3, ExecuteInv DEF NextByte
<1>4. CASE ~(got + 1 >= CmdLen(op))
  <2>1. /\ phase = "command" /\ got' = got + 1
        /\ UNCHANGED <<phase, op, xfer, res, seekSt0, drive, track, idcnt, dirty,
                       changed>>
    BY <1>4 DEF NextByte
  <2>2. got' \in 1..(CmdLen(op) - 1) /\ got' \in 0..9
    BY <1>1, <1>4, <2>1
  <2>3. CmdLen(op)' = CmdLen(op)
    BY <2>1 DEF CmdLen
  <2>4. Chip'
    BY <2>1, <2>2, <2>3 DEF Inv, Chip, PhaseConsistent
  <2>5. Media' /\ TransferOnTrack' /\ DirtyCoversChanges'
    BY <1>2, <2>1 DEF Inv, Media, HeadOnDisk, TransferOnTrack, DirtyCoversChanges
  <2>6. QED
    BY <1>2, <2>4, <2>5 DEF Inv
<1>5. QED
  BY <1>3, <1>4

\* A transfer that ends leaves a result, or nothing at all when the division
\* by the sector size of an empty drive kills the emulator.
LEMMA XferEndChip ==
  ASSUME Inv, NEW tc \in BOOLEAN, XferEnd(tc), UNCHANGED <<drive, dirty>>,
         tc \/ xfer.kind \in {"read", "write"}
  PROVE  /\ Chip' /\ TransferOnTrack'
         /\ power' \in {power, "trapped"}
<1> DEFINE g == Geometry[Slot(drive)]
           r == (xfer.r + SectorsDone(g)) % 256
<1>1. CASE g.secsz = 0
  <2>1. power' = "trapped" /\ UNCHANGED <<phase, op, got, xfer, res>>
    BY <1>1 DEF XferEnd
  <2>2. Chip'
    BY <2>1 DEF Inv, Chip, PhaseConsistent, CmdLen
  <2>3. TransferOnTrack'
    BY <2>1 DEF Inv, TransferOnTrack
  <2>4. QED
    BY <2>1, <2>2, <2>3
<1>2. CASE g.secsz # 0
  <2>1. Slot(drive) \in Drives
    BY SlotDrive DEF Inv, Media
  <2>2. g.secsz \in Nat /\ g.secsz > 0 /\ g.spt \in 0..255
    BY <1>2, <2>1, GeometryType
  <2>3. /\ xfer.pos \in Nat /\ xfer.st0 \in Byte
        /\ xfer.c \in Byte /\ xfer.h \in Byte /\ xfer.r \in Byte /\ xfer.n \in Byte
    BY DEF Inv, Chip, XferRecord
  <2>4. SectorsDone(g) \in Nat
    BY <2>2, <2>3 DEF SectorsDone
  <2>5. r \in Byte /\ (xfer.c + 1) % 256 \in Byte
    <3> DEFINE done == SectorsDone(g)
    <3>1. done \in Nat
      BY <2>4
    <3> HIDE DEF done
    <3>2. xfer.r + done \in Nat /\ xfer.c + 1 \in Nat
      BY <2>3, <3>1 DEF Byte
    <3>3. \A m \in Nat : m % 256 \in 0..255
      OBVIOUS
    <3>4. (xfer.r + done) % 256 \in 0..255 /\ (xfer.c + 1) % 256 \in 0..255
      BY <3>2, <3>3
    <3> USE DEF done
    <3> QED BY <3>4 DEF Byte
  <2>6. /\ ReturnChrn(IF tc THEN xfer.st0 ELSE xfer.st0 + Abnormal,
                      IF tc THEN 0 ELSE EndOfCylinder,
                      IF r > g.spt THEN (xfer.c + 1) % 256 ELSE xfer.c,
                      xfer.h,
                      IF r > g.spt THEN 1 ELSE r,
                      xfer.n)
        /\ power' = power
    BY <1>2 DEF XferEnd
  <2>7. ASSUME tc = FALSE
        PROVE  xfer.st0 + Abnormal \in Byte
    <3>1. xfer.kind \in {"read", "write"}
      BY <2>7
    <3>2. xfer.st0 < Abnormal
      BY <3>1 DEF Inv, Chip, PhaseConsistent
    <3>3. QED
      BY <2>3, <3>2 DEF Byte, Abnormal
  <2>8. Chip' /\ xfer' = NoXfer
    <3>1. 0 \in Byte /\ EndOfCylinder \in Byte /\ 1 \in Byte
      BY DEF Byte, EndOfCylinder
    <3> HIDE DEF r, g
    <3> QED BY <2>3, <2>5, <2>6, <2>7, <3>1, ChrnChip
  <2>9. QED
    BY <2>6, <2>8, NoTransfer
<1>3. QED
  BY <1>1, <1>2
\* One byte of a transfer moved, the transfer going on.
LEMMA MoveByte ==
  ASSUME Inv, phase = "exec",
         xfer.kind = "format" => xfer.pos + 1 < xfer.len,
         xfer.pos < xfer.len,
         xfer' = [xfer EXCEPT !.pos = @ + 1],
         UNCHANGED <<phase, op, got, res, drive, dirty, power>>
  PROVE  Chip' /\ TransferOnTrack'
<1>1. xfer \in XferRecord
  BY DEF Inv, Chip
<1>2. /\ xfer' \in XferRecord /\ xfer'.kind = xfer.kind
      /\ xfer'.pos = xfer.pos + 1 /\ xfer'.len = xfer.len
      /\ xfer'.base = xfer.base /\ xfer'.st0 = xfer.st0
      /\ xfer'.c = xfer.c /\ xfer'.h = xfer.h
  BY <1>1 DEF XferRecord
<1>3. xfer'.pos <= xfer'.len /\ (xfer'.kind = "format" => xfer'.pos < xfer'.len)
  BY <1>1, <1>2 DEF XferRecord
<1>4. Chip'
  BY <1>2, <1>3 DEF Inv, Chip, PhaseConsistent, CmdLen
<1>5. TransferOnTrack'
  BY <1>2 DEF Inv, TransferOnTrack
<1>6. QED
  BY <1>4, <1>5

LEMMA SwallowIdInv ==
  ASSUME Inv, SwallowId
  PROVE  Inv'
<1>1. /\ phase = "exec" /\ xfer.kind = "format"
      /\ UNCHANGED <<seekSt0, drive, track, idcnt, latch, dirty, changed, power>>
  BY DEF SwallowId
<1>2. Media' /\ latch' = latch /\ power' = power /\ DirtyCoversChanges'
  BY <1>1 DEF Inv, Media, HeadOnDisk, DirtyCoversChanges
<1>3. CASE xfer.pos + 1 >= xfer.len
  <2>1. ReturnChrn(xfer.st0, 0, track[Slot(drive)], xfer.hd, 1, xfer.c)
    BY <1>3 DEF SwallowId
  <2>2. /\ xfer.st0 \in Byte /\ xfer.c \in Byte /\ xfer.hd \in Byte
        /\ 0 \in Byte /\ 1 \in Byte
    BY DEF Inv, Chip, XferRecord, Byte
  <2>3. track[Slot(drive)] \in Byte
    BY SlotDrive DEF Inv, Media
  <2>4. Chip' /\ xfer' = NoXfer
    BY <2>1, <2>2, <2>3, ChrnChip
  <2>5. QED
    BY <1>2, <2>4, NoTransfer DEF Inv
<1>4. CASE ~(xfer.pos + 1 >= xfer.len)
  <2>1. xfer' = [xfer EXCEPT !.pos = @ + 1] /\ UNCHANGED <<phase, op, got, res>>
    BY <1>4 DEF SwallowId
  <2>2. xfer.pos \in Nat /\ xfer.len \in Nat
    BY DEF Inv, Chip, XferRecord
  <2>3. Chip' /\ TransferOnTrack'
    BY <1>1, <1>4, <2>1, <2>2, MoveByte
  <2>4. QED
    BY <1>2, <2>3 DEF Inv
<1>5. QED
  BY <1>3, <1>4

LEMMA StoreByteInv ==
  ASSUME Inv, power = "on", StoreByte
  PROVE  Inv'
<1>1. /\ phase = "exec" /\ xfer.kind = "write"
      /\ UNCHANGED <<seekSt0, drive, track, idcnt, latch, dirty>>
  BY DEF StoreByte
<1>2. CASE xfer.pos < xfer.len
  <2>1. /\ xfer' = [xfer EXCEPT !.pos = @ + 1]
        /\ changed' = changed \cup {Slot(drive)}
        /\ UNCHANGED <<phase, op, got, res, power>>
    BY <1>2 DEF StoreByte
  <2>2. Chip' /\ TransferOnTrack'
    BY <1>1, <1>2, <2>1, MoveByte
  <2>3. Media'
    BY <1>1, <2>1, SlotDrive DEF Inv, Media, HeadOnDisk
  <2>4. DirtyCoversChanges'
    BY <1>1, <2>1 DEF Inv, DirtyCoversChanges, TransferOnTrack
  <2>5. QED
    BY <1>1, <2>1, <2>2, <2>3, <2>4 DEF Inv
<1>3. CASE ~(xfer.pos < xfer.len)
  <2>1. XferEnd(FALSE) /\ changed' = changed
    BY <1>3 DEF StoreByte
  <2>2. Chip' /\ TransferOnTrack' /\ power' \in {power, "trapped"}
    BY <1>1, <2>1, XferEndChip
  <2>3. Media'
    BY <1>1, <2>1 DEF Inv, Media, HeadOnDisk
  <2>4. DirtyCoversChanges'
    BY <1>1, <2>1, <2>2 DEF Inv, DirtyCoversChanges
  <2>5. QED
    BY <1>1, <2>2, <2>3, <2>4 DEF Inv
<1>4. QED
  BY <1>2, <1>3
LEMMA FetchByteInv ==
  ASSUME Inv, FetchByte
  PROVE  Inv'
<1>1. /\ phase = "exec" /\ xfer.kind = "read"
      /\ UNCHANGED <<seekSt0, drive, track, idcnt, latch, dirty, changed>>
  BY DEF FetchByte
<1>2. Media'
  BY <1>1 DEF Inv, Media, HeadOnDisk
<1>3. CASE xfer.pos < xfer.len
  <2>1. /\ xfer' = [xfer EXCEPT !.pos = @ + 1]
        /\ UNCHANGED <<phase, op, got, res, power>>
    BY <1>3 DEF FetchByte
  <2>2. Chip' /\ TransferOnTrack'
    BY <1>1, <1>3, <2>1, MoveByte
  <2>3. QED
    BY <1>1, <1>2, <2>1, <2>2 DEF Inv, DirtyCoversChanges
<1>4. CASE ~(xfer.pos < xfer.len)
  <2>1. XferEnd(FALSE)
    BY <1>4 DEF FetchByte
  <2>2. Chip' /\ TransferOnTrack' /\ power' \in {power, "trapped"}
    BY <1>1, <2>1, XferEndChip
  <2>3. QED
    BY <1>1, <1>2, <2>2 DEF Inv, DirtyCoversChanges
<1>5. QED
  BY <1>3, <1>4

LEMMA ResultByteInv ==
  ASSUME Inv, ResultByte
  PROVE  Inv'
<1>1. /\ phase = "result" /\ res \in Seq(Byte) /\ res # <<>> /\ xfer.kind = "none"
  BY DEF Inv, Chip, PhaseConsistent, ResultByte
<1>2. /\ res' = Tail(res)
      /\ phase' = IF Len(res) = 1 THEN "idle" ELSE "result"
      /\ UNCHANGED <<op, got, xfer, seekSt0, drive, track, idcnt, latch, dirty,
                     changed, power>>
  BY DEF ResultByte
<1>3. Tail(res) \in Seq(Byte) /\ (Tail(res) = <<>> <=> Len(res) = 1)
  <2>1. Len(res) \in Nat /\ Len(res) > 0
    BY <1>1
  <2>2. Tail(res) \in Seq(Byte) /\ Len(Tail(res)) = Len(res) - 1
    BY <1>1
  <2>3. Tail(res) = <<>> <=> Len(Tail(res)) = 0
    BY <2>2
  <2>4. QED
    BY <2>1, <2>2, <2>3
<1>4. Chip'
  BY <1>1, <1>2, <1>3 DEF Inv, Chip, PhaseConsistent, CmdLen
<1>5. Media' /\ TransferOnTrack' /\ DirtyCoversChanges'
  BY <1>2 DEF Inv, Media, HeadOnDisk, TransferOnTrack, DirtyCoversChanges
<1>6. QED
  BY <1>2, <1>4, <1>5 DEF Inv

LEMMA SelWriteInv ==
  ASSUME Inv, NEW v \in LatchBytes, SelWrite(v)
  PROVE  Inv'
<1>1. latch' \in Byte /\ UNCHANGED <<drive, track, idcnt, dirty, changed>>
  BY InputAssumption DEF SelWrite
<1>2. seekSt0' \in {seekSt0, NoSeek}
  BY DEF SelWrite
<1>3. Media'
  BY <1>1, <1>2 DEF Inv, Media, HeadOnDisk
<1>4. Chip' /\ TransferOnTrack' /\ power' \in {power, "trapped"}
  <2>1. CASE ~Bit(v, 4)
    BY <2>1, IdleChip, NoTransfer DEF SelWrite
  <2>2. CASE Bit(v, 4) /\ Bit(v, 0) /\ phase = "exec"
    <3>1. XferEnd(TRUE)
      BY <2>2 DEF SelWrite
    <3>2. QED
      BY <1>1, <3>1, XferEndChip
  <2>3. CASE Bit(v, 4) /\ ~(Bit(v, 0) /\ phase = "exec")
    <3>1. UNCHANGED <<phase, op, got, xfer, res, power>>
      BY <2>3 DEF SelWrite
    <3>2. QED
      BY <1>1, <3>1 DEF Inv, Chip, PhaseConsistent, CmdLen, TransferOnTrack
  <2>4. QED
    BY <2>1, <2>2, <2>3
<1>5. QED
  BY <1>1, <1>3, <1>4 DEF Inv, DirtyCoversChanges

LEMMA ExitInv ==
  ASSUME Inv, Exit
  PROVE  Inv'
<1> DEFINE Left ==
             /\ power' = "off"
             /\ UNCHANGED <<phase, op, got, xfer, res, seekSt0, drive, track, idcnt,
                            latch>>
             /\ dirty' \subseteq dirty /\ changed' \subseteq changed
<1>1. Left
  <2>1. ASSUME NEW opened \in SUBSET Drives, Free(opened)
        PROVE  Left
    BY <2>1 DEF Free
  <2>2. CASE ReturnEarly
    BY <2>2 DEF ReturnEarly
  <2>3. QED
    BY <2>1, <2>2 DEF Exit
<1>2. Chip' /\ Media'
  BY <1>1 DEF Inv, Chip, PhaseConsistent, CmdLen, Media, HeadOnDisk
<1>3. TransferOnTrack' /\ DirtyCoversChanges'
  BY <1>1 DEF Inv, TransferOnTrack, DirtyCoversChanges
<1>4. QED
  BY <1>1, <1>2, <1>3 DEF Inv

-----------------------------------------------------------------------------
(* The invariant and what it implies.                                      *)

LEMMA InitInv == Init => Inv
<1> SUFFICES ASSUME Init PROVE Inv
  OBVIOUS
<1>1. Chip
  BY NoXferType DEF Init, Chip, PhaseConsistent
<1>2. Media
  BY GeometryAssumption DEF Init, Media, HeadOnDisk, Byte, Drives
<1>3. TransferOnTrack
  BY DEF Init, TransferOnTrack, NoXfer
<1>4. QED
  BY <1>1, <1>2, <1>3 DEF Init, Inv, DirtyCoversChanges, Byte

LEMMA StepInv == Inv /\ [Next]_vars => Inv'
<1> SUFFICES ASSUME Inv, [Next]_vars PROVE Inv'
  OBVIOUS
<1>1. ASSUME NEW o \in Opcodes, FirstByte(o) PROVE Inv'
  BY <1>1, FirstByteInv
<1>2. CASE NextByte
  BY <1>2, NextByteInv
<1>3. CASE SwallowId
  BY <1>3, SwallowIdInv
<1>4. CASE power = "on" /\ StoreByte
  BY <1>4, StoreByteInv
<1>5. CASE FetchByte
  BY <1>5, FetchByteInv
<1>6. CASE ResultByte
  BY <1>6, ResultByteInv
<1>7. ASSUME NEW v \in LatchBytes, SelWrite(v) PROVE Inv'
  BY <1>7, SelWriteInv
<1>8. CASE Exit
  BY <1>8, ExitInv
<1>9. CASE UNCHANGED vars
  BY <1>9 DEF vars, Inv, Chip, PhaseConsistent, CmdLen, Media, HeadOnDisk,
              TransferOnTrack, DirtyCoversChanges
<1>10. QED
  BY <1>1, <1>2, <1>3, <1>4, <1>5, <1>6, <1>7, <1>8, <1>9
  DEF Next, CpuAccess, DataWrite, DataRead, Running

THEOREM Invariance == Spec => []Inv
BY InitInv, StepInv, PTL DEF Spec

\* The registers keep their types, whatever disks are inserted and whatever
\* bytes the CPU sends (struct Fdc).
THEOREM TypeCorrect == Spec => []TypeOK
<1>1. Inv => TypeOK
  BY DEF Inv, Chip, Media, TypeOK
<1>2. QED
  BY <1>1, Invariance, PTL

\* No phase of the chip can strand a driver that polls the status register.
THEOREM PhasesConsistent == Spec => []PhaseConsistent
<1>1. Inv => PhaseConsistent
  BY DEF Inv, Chip
<1>2. QED
  BY <1>1, Invariance, PTL

\* FORMAT never fills past the end of an image: the head is always on it.
THEOREM HeadStaysOnDisk == Spec => []HeadOnDisk
<1>1. Inv => HeadOnDisk
  BY DEF Inv, Media
<1>2. QED
  BY <1>1, Invariance, PTL

\* The byte loop of a transfer never leaves the track it was set up for, on any
\* geometry (xfer_start, fdc_data_write, fdc_data_read).
THEOREM TransfersStayOnTrack == Spec => []TransferOnTrack
<1>1. Inv => TransferOnTrack
  BY DEF Inv
<1>2. QED
  BY <1>1, Invariance, PTL

\* No command changes an image without marking it for write-back.
THEOREM ChangesAreDirty == Spec => []DirtyCoversChanges
<1>1. Inv => DirtyCoversChanges
  BY DEF Inv
<1>2. QED
  BY <1>1, Invariance, PTL
-----------------------------------------------------------------------------
(* The controller implements the bus protocol: each way a command, a byte  *)
(* or a latch write may leave the chip is a step of FdcBus or a stutter.   *)

Collecting == Status \in {Bus!IdleMsr, Bus!CommandMsr}

LEMMA IdleOnBus ==
  ASSUME GoIdle
  PROVE  Bus!ToIdle
BY DEF GoIdle, Status, Bus!ToIdle, Bus!IdleMsr

LEMMA ReturnOnBus ==
  ASSUME NEW bytes, Return(bytes)
  PROVE  Bus!ToResult(Len(bytes))
BY DEF Return, Status, Bus!ToResult, Bus!ResultMsr

LEMMA StartOnBus ==
  ASSUME Collecting, NEW x, x.kind \in {"read", "write", "format"}, StartXfer(x)
  PROVE  Bus!CommandByte
<1>1. Status' \in {176, 240} /\ Len(res') = 0
  BY DEF StartXfer, Status
<1>2. QED
  BY <1>1 DEF Collecting, Bus!CommandByte, Bus!ExecInMsr, Bus!ExecOutMsr,
              Bus!IdleMsr, Bus!CommandMsr

\* The results commands return, by length.
ReturnsLen(n) == \E bytes : Return(bytes) /\ Len(bytes) = n

LEMMA OneByte ==
  ASSUME NEW v, Return(<<v>>)
  PROVE  ReturnsLen(1)
<1>1. Len(<<v>>) = 1
  OBVIOUS
<1>2. QED
  BY <1>1 DEF ReturnsLen

LEMMA TwoBytes ==
  ASSUME NEW v, NEW w, Return(<<v, w>>)
  PROVE  ReturnsLen(2)
<1>1. Len(<<v, w>>) = 2
  OBVIOUS
<1>2. QED
  BY <1>1 DEF ReturnsLen

LEMMA SevenBytes ==
  ASSUME NEW s0, NEW s1, NEW c, NEW h, NEW r, NEW n, ReturnChrn(s0, s1, c, h, r, n)
  PROVE  ReturnsLen(7)
<1>1. Len(<<s0, s1, 0, c, h, r, n>>) = 7
  OBVIOUS
<1>2. Return(<<s0, s1, 0, c, h, r, n>>)
  BY DEF ReturnChrn
<1>3. QED
  BY <1>1, <1>2 DEF ReturnsLen

LEMMA ReturnsOnBus ==
  ASSUME NEW n, ReturnsLen(n)
  PROVE  Bus!ToResult(n)
BY ReturnOnBus DEF ReturnsLen

LEMMA ExecuteOnBus ==
  ASSUME Collecting, NEW o, NEW a, Execute(o, a)
  PROVE  Bus!CommandByte
<1>1. \/ GoIdle
      \/ \E n \in {1, 2, 7} : ReturnsLen(n)
      \/ \E x : StartXfer(x) /\ x.kind \in {"read", "write", "format"}
  <2>1. CASE o = 3 \/ o = 7 \/ o = 15
    BY <2>1 DEF Execute, Specify, Recalibrate, Seek
  <2>2. CASE o = 4
    <3> DEFINE d == Slot(UnitOf(a))
               v == UnitOf(a) + 4 * HeadOf(a) + 32
                     + (IF d \in Inserted /\ track[d] = 0 THEN 16 ELSE 0)
                     + (IF Geometry[d].heads > 1 THEN 8 ELSE 0)
    <3>1. Return(<<v>>)
      BY <2>2 DEF Execute, SenseDrive
    <3>2. QED
      BY <3>1, OneByte
  <2>3. CASE o = 8
    <3>1. Return(<<seekSt0, track[Slot(drive)]>>) \/ Return(<<Invalid>>)
      BY <2>3 DEF Execute, SenseInterrupt
    <3>2. QED
      BY <3>1, OneByte, TwoBytes
  <2>4. CASE o = 10
    BY <2>4, SevenBytes DEF Execute, ReadId
  <2>5. CASE o \in {5, 6, 9, 12}
    <3>1. PICK kind \in {"read", "write"} : Transfer(a, kind)
      BY <2>5 DEF Execute
    <3>2. CASE Addressable(a)
      BY <3>1, <3>2 DEF Transfer
    <3>3. CASE ~Addressable(a)
      BY <3>1, <3>3, SevenBytes DEF Transfer
    <3>4. QED
      BY <3>2, <3>3
  <2>6. CASE o = 13
    BY <2>6 DEF Execute, Format
  <2>7. CASE o \notin {3, 4, 5, 6, 7, 8, 9, 10, 12, 13, 15}
    BY <2>7, OneByte DEF Execute, InvalidCommand
  <2>8. QED
    BY <2>1, <2>2, <2>3, <2>4, <2>5, <2>6, <2>7
<1>2. CASE GoIdle
  BY <1>2, IdleOnBus DEF Collecting, Bus!CommandByte
<1>3. ASSUME NEW n \in {1, 2, 7}, ReturnsLen(n)
      PROVE  Bus!CommandByte
  BY <1>3, ReturnsOnBus DEF Collecting, Bus!CommandByte
<1>4. ASSUME NEW x, StartXfer(x), x.kind \in {"read", "write", "format"}
      PROVE  Bus!CommandByte
  BY <1>4, StartOnBus
<1>5. QED
  BY <1>1, <1>2, <1>3, <1>4

LEMMA XferEndOnBus ==
  ASSUME Inv, phase = "exec", NEW tc, XferEnd(tc)
  PROVE  Bus!ExecEnds \/ UNCHANGED Bus!bus
<1> DEFINE g == Geometry[Slot(drive)]
<1>1. CASE g.secsz = 0
  BY <1>1 DEF XferEnd, Status, Bus!bus
<1>2. CASE g.secsz # 0
  <2>1. ReturnsLen(7)
    BY <1>2, SevenBytes DEF XferEnd
  <2>2. Bus!ToResult(7)
    BY <2>1, ReturnsOnBus
  <2>3. Bus!InExec
    BY DEF Inv, Chip, PhaseConsistent, XferRecord, Status, Bus!InExec,
           Bus!ExecInMsr, Bus!ExecOutMsr
  <2>4. QED
    BY <2>2, <2>3 DEF Bus!ExecEnds
<1>3. QED
  BY <1>1, <1>2
LEMMA StepOnBus == Inv /\ [Next]_vars => [Bus!Next]_(Bus!bus)
<1> SUFFICES ASSUME Inv, [Next]_vars
             PROVE  Bus!Next \/ UNCHANGED Bus!bus
  OBVIOUS
<1> USE DEF Bus!Next
<1>1. ASSUME NEW o \in Opcodes, FirstByte(o)
      PROVE  Bus!Next \/ UNCHANGED Bus!bus
  <2>1. Collecting
    BY <1>1 DEF FirstByte, Collecting, Status, Bus!IdleMsr
  <2>2. CASE CmdLen(o) = 1
    BY <1>1, <2>1, <2>2, ExecuteOnBus DEF FirstByte
  <2>3. CASE CmdLen(o) # 1
    <3>1. phase = "idle" /\ phase' = "command" /\ res' = res
      BY <1>1, <2>3 DEF FirstByte
    <3>2. Status' = Bus!CommandMsr /\ Len(res') = 0
      BY <3>1 DEF Inv, Chip, PhaseConsistent, Status, Bus!CommandMsr
    <3>3. QED
      BY <2>1, <3>2 DEF Collecting, Bus!CommandByte
  <2>4. QED
    BY <2>2, <2>3
<1>2. ASSUME NextByte
      PROVE  Bus!Next \/ UNCHANGED Bus!bus
  <2>1. Collecting
    BY <1>2 DEF NextByte, Collecting, Status, Bus!CommandMsr
  <2>2. CASE got + 1 >= CmdLen(op)
    BY <1>2, <2>1, <2>2, ExecuteOnBus DEF NextByte
  <2>3. CASE ~(got + 1 >= CmdLen(op))
    BY <1>2, <2>3 DEF NextByte, Status, Bus!bus
  <2>4. QED
    BY <2>2, <2>3
<1>3. ASSUME SwallowId
      PROVE  Bus!Next \/ UNCHANGED Bus!bus
  <2>1. phase = "exec" /\ xfer.kind = "format"
    BY <1>3 DEF SwallowId
  <2>2. CASE xfer.pos + 1 >= xfer.len
    <3>1. ReturnsLen(7)
      BY <1>3, <2>2, SevenBytes DEF SwallowId
    <3>2. Bus!InExec
      BY <2>1 DEF Status, Bus!InExec, Bus!ExecInMsr
    <3>3. QED
      BY <3>1, <3>2, ReturnsOnBus DEF Bus!ExecEnds
  <2>3. CASE ~(xfer.pos + 1 >= xfer.len)
    <3>1. xfer' = [xfer EXCEPT !.pos = @ + 1] /\ UNCHANGED <<phase, res>>
      BY <1>3, <2>3 DEF SwallowId
    <3>2. xfer'.kind = xfer.kind
      BY <3>1 DEF Inv, Chip, XferRecord
    <3>3. QED
      BY <3>1, <3>2 DEF Status, Bus!bus
  <2>4. QED
    BY <2>2, <2>3
<1>4. ASSUME StoreByte \/ FetchByte
      PROVE  Bus!Next \/ UNCHANGED Bus!bus
  <2>1. phase = "exec"
    BY <1>4 DEF StoreByte, FetchByte
  <2>2. CASE xfer.pos < xfer.len
    <3>1. xfer' = [xfer EXCEPT !.pos = @ + 1] /\ UNCHANGED <<phase, res>>
      BY <1>4, <2>2 DEF StoreByte, FetchByte
    <3>2. xfer'.kind = xfer.kind
      BY <3>1 DEF Inv, Chip, XferRecord
    <3>3. QED
      BY <3>1, <3>2 DEF Status, Bus!bus
  <2>3. CASE ~(xfer.pos < xfer.len)
    <3>1. XferEnd(FALSE)
      BY <1>4, <2>3 DEF StoreByte, FetchByte
    <3>2. QED
      BY <2>1, <3>1, XferEndOnBus
  <2>4. QED
    BY <2>2, <2>3
<1>5. ASSUME ResultByte
      PROVE  Bus!Next \/ UNCHANGED Bus!bus
  <2>1. /\ phase = "result" /\ res' = Tail(res)
        /\ phase' = IF Len(res) = 1 THEN "idle" ELSE "result"
    BY <1>5 DEF ResultByte
  <2>2. res \in Seq(Byte) /\ res # <<>>
    BY <2>1 DEF Inv, Chip, PhaseConsistent
  <2>3. Len(res') = Len(res) - 1
    BY <2>1, <2>2
    <2>4. Status = Bus!ResultMsr
    BY <2>1 DEF Status, Bus!ResultMsr
  <2>5. Status' = IF Len(res) = 1 THEN Bus!IdleMsr ELSE Bus!ResultMsr
    BY <2>1 DEF Status, Bus!ResultMsr, Bus!IdleMsr
  <2>6. Bus!ResultByte
    <3>1. CASE Len(res) = 1
      BY <2>3, <2>4, <2>5, <3>1 DEF Bus!ResultByte, Bus!ToIdle
    <3>2. CASE Len(res) # 1
      BY <2>3, <2>4, <2>5, <3>2 DEF Bus!ResultByte, Bus!ToResult
    <3>3. QED
      BY <3>1, <3>2
  <2>7. QED
    BY <2>6
<1>6. ASSUME NEW v \in LatchBytes, SelWrite(v)
      PROVE  Bus!Next \/ UNCHANGED Bus!bus
  <2>1. CASE ~Bit(v, 4)
    BY <1>6, <2>1, IdleOnBus DEF SelWrite, Bus!Reset
  <2>2. CASE Bit(v, 4) /\ Bit(v, 0) /\ phase = "exec"
    BY <1>6, <2>2, XferEndOnBus DEF SelWrite
  <2>3. CASE Bit(v, 4) /\ ~(Bit(v, 0) /\ phase = "exec")
    <3>1. UNCHANGED <<phase, xfer, res>>
      BY <1>6, <2>3 DEF SelWrite
    <3>2. QED
      BY <3>1 DEF Status, Bus!bus
  <2>4. QED
    BY <2>1, <2>2, <2>3
<1>7. ASSUME Exit
      PROVE  Bus!Next \/ UNCHANGED Bus!bus
  BY <1>7 DEF Exit, Free, ReturnEarly, Status, Bus!bus
<1>8. ASSUME UNCHANGED vars
      PROVE  Bus!Next \/ UNCHANGED Bus!bus
  BY <1>8 DEF vars, Status, Bus!bus
<1>9. QED
  BY <1>1, <1>2, <1>3, <1>4, <1>5, <1>6, <1>7, <1>8
  DEF Next, CpuAccess, DataWrite, DataRead

\* The status register and the result bytes of the chip follow the protocol of
\* FdcBus: in particular an exec phase always ends with a seven-byte result and
\* no result byte is skipped.
THEOREM ImplementsBus == Spec => BusProtocol
<1>1. Init => Bus!Init
  BY DEF Init, Status, Bus!Init, Bus!IdleMsr
<1>2. Inv /\ [Next]_vars => [Bus!Next]_(Bus!bus)
  BY StepOnBus
<1>3. QED
  BY <1>1, <1>2, Invariance, PTL DEF Spec, BusProtocol, Bus!Spec

-----------------------------------------------------------------------------
(* Seek completions.                                                       *)

LEMMA ExecuteSeek ==
  ASSUME Inv, NEW o \in 0..31, NEW a \in [1..6 -> Byte], Execute(o, a),
         seekSt0 # NoSeek, seekSt0' = NoSeek
  PROVE  Len(res') = 2 /\ res'[1] = seekSt0
<1>1. CASE o = 8
  BY <1>1 DEF Execute, SenseInterrupt, Return
<1>2. CASE o \in {7, 15}
  <2>1. UnitOf(a) \in 0..3 /\ seekSt0' = SeekEnd + UnitOf(a)
    BY <1>2, UnitBits DEF Execute, Recalibrate, Seek
  <2> QED BY <2>1 DEF SeekEnd, NoSeek
<1>3. CASE o \notin {7, 8, 15}
  <2>1. seekSt0' = seekSt0
    BY <1>3 DEF Execute, Specify, SenseDrive, ReadId, Transfer, Format, InvalidCommand
  <2> QED BY <2>1
<1> QED BY <1>1, <1>2, <1>3

\* A completion is lost to no command and no transfer, whatever the CPU sends: only a
\* SENSE INTERRUPT STATUS, which hands it over, and a reset end it.
THEOREM SeeksDelivered == Spec => SeekDelivered
<1>1. ASSUME Inv, Next, seekSt0 # NoSeek, seekSt0' = NoSeek
      PROVE  (Len(res') = 2 /\ res'[1] = seekSt0) \/ ~Bit(latch', 4)
  <2>1. ASSUME NEW o \in Opcodes, FirstByte(o) PROVE Len(res') = 2 /\ res'[1] = seekSt0
    BY <1>1, <2>1, InputAssumption, ExecuteSeek DEF FirstByte
  <2>2. CASE NextByte
    <3>1. op \in 0..31
      BY <1>1 DEF Inv, Chip
    <3> QED BY <1>1, <2>2, <3>1, InputAssumption, ExecuteSeek DEF NextByte
  <2>3. CASE SwallowId \/ StoreByte \/ FetchByte \/ ResultByte \/ Exit
    BY <1>1, <2>3 DEF SwallowId, StoreByte, FetchByte, ResultByte, Exit, Free, ReturnEarly
  <2>4. ASSUME NEW v \in LatchBytes, SelWrite(v) PROVE ~Bit(latch', 4)
    BY <1>1, <2>4 DEF SelWrite
  <2> QED BY <1>1, <2>1, <2>2, <2>3, <2>4 DEF Next, CpuAccess, DataWrite, DataRead
<1>2. Inv /\ [Next]_vars =>
        [seekSt0 # NoSeek /\ seekSt0' = NoSeek =>
           \/ Len(res') = 2 /\ res'[1] = seekSt0
           \/ ~Bit(latch', 4)]_vars
  BY <1>1
<1> QED BY <1>2, Invariance, PTL DEF Spec, SeekDelivered

-----------------------------------------------------------------------------
(* Where a transfer ends.                                                  *)

\* Sector numbers and their successor fit a byte: geos[] (fdc.c) has tracks of 16 sectors
\* at most.
SectorsFit == \A d \in Inserted : Geometry[d].spt < 255

\* A transfer began at the sector of its command and ends with a sector of the track.
FromSector ==
  xfer.kind \in {"read", "write"} =>
    LET g == Geometry[Slot(drive)]
    IN /\ xfer.r >= 1 /\ xfer.base = Lba(g, xfer.c, xfer.h, xfer.r)
       /\ \E n \in Nat : xfer.len = n * g.secsz /\ xfer.r + n <= g.spt + 1

LEMMA ExecuteXfer ==
  ASSUME NEW o \in 0..31, NEW a \in [1..6 -> Byte], Execute(o, a)
  PROVE  \/ xfer'.kind \notin {"read", "write"}
         \/ \E kind \in {"read", "write"} : Transfer(a, kind) /\ Addressable(a)
<1>1. NoXfer.kind \notin {"read", "write"}
  BY DEF NoXfer
<1>2. CASE o \in {3, 7, 15}
  BY <1>1, <1>2 DEF Execute, Specify, Recalibrate, Seek, GoIdle
<1>3. CASE o \in {4, 8, 10}
  BY <1>1, <1>3 DEF Execute, SenseDrive, SenseInterrupt, ReadId, ReturnChrn, Return
<1>4. CASE o = 13
  BY <1>4 DEF Execute, Format, StartXfer
<1>5. ASSUME NEW kind \in {"read", "write"}, Transfer(a, kind), ~Addressable(a)
      PROVE  xfer'.kind \notin {"read", "write"}
  BY <1>1, <1>5 DEF Transfer, ReturnChrn, Return
<1>6. CASE o \in {5, 6, 9, 12}
  BY <1>5, <1>6 DEF Execute
<1>7. CASE o \notin {3, 4, 5, 6, 7, 8, 9, 10, 12, 13, 15}
  BY <1>1, <1>7 DEF Execute, InvalidCommand, Return
<1> QED BY <1>2, <1>3, <1>4, <1>6, <1>7

\* What a step may do to the transfer: end it, leave it, move one byte of it, begin one.
LEMMA NextXfer ==
  ASSUME Inv, Next
  PROVE  \/ xfer'.kind \notin {"read", "write"}
         \/ drive' = drive /\ xfer' \in {xfer, [xfer EXCEPT !.pos = @ + 1]}
         \/ \E a \in [1..6 -> Byte], kind \in {"read", "write"} : Transfer(a, kind) /\ Addressable(a)
<1>1. NoXfer.kind \notin {"read", "write"}
  BY DEF NoXfer
<1>2. ASSUME NEW tc, XferEnd(tc) PROVE xfer' = xfer \/ xfer' = NoXfer
  BY <1>2 DEF XferEnd, ReturnChrn, Return
<1>3. CASE \E o \in Opcodes : FirstByte(o)
  BY <1>3, InputAssumption, ExecuteXfer DEF FirstByte
<1>4. CASE NextByte
  <2>1. op \in 0..31
    BY DEF Inv, Chip
  <2> QED BY <1>4, <2>1, InputAssumption, ExecuteXfer DEF NextByte
<1>5. CASE SwallowId
  BY <1>1, <1>5 DEF SwallowId, ReturnChrn, Return
<1>6. CASE StoreByte
  BY <1>1, <1>2, <1>6 DEF StoreByte
<1>7. CASE FetchByte
  BY <1>1, <1>2, <1>7 DEF FetchByte
<1>8. CASE ResultByte \/ Exit
  BY <1>8 DEF ResultByte, Exit, Free, ReturnEarly
<1>9. CASE \E v \in LatchBytes : SelWrite(v)
  BY <1>1, <1>2, <1>9 DEF SelWrite, GoIdle
<1> QED BY <1>3, <1>4, <1>5, <1>6, <1>7, <1>8, <1>9 DEF Next, CpuAccess, DataWrite, DataRead

LEMMA NextFromSector ==
  ASSUME Inv, FromSector, [Next]_vars
  PROVE  FromSector'
<1>1. CASE xfer'.kind \notin {"read", "write"}
  BY <1>1 DEF FromSector
<1>2. CASE drive' = drive /\ xfer' \in {xfer, [xfer EXCEPT !.pos = @ + 1]}
  <2>1. xfer \in XferRecord
    BY DEF Inv, Chip
  <2>2. /\ xfer'.kind = xfer.kind /\ xfer'.r = xfer.r /\ xfer'.base = xfer.base
        /\ xfer'.c = xfer.c /\ xfer'.h = xfer.h /\ xfer'.len = xfer.len
    BY <1>2, <2>1 DEF XferRecord
  <2> QED BY <1>2, <2>2 DEF FromSector
<1>3. ASSUME NEW a \in [1..6 -> Byte], NEW kind \in {"read", "write"}, Transfer(a, kind), Addressable(a)
      PROVE  FromSector'
  <2> DEFINE d == Slot(UnitOf(a))
             g == Geometry[d]
             last == LastSector(g, a[4], a[6])
             n == last - a[4] + 1
  <2>1. d \in Inserted /\ a[4] \in 1..g.spt /\ a[6] \in Byte
    BY <1>3 DEF Addressable
  <2>2. last \in a[4]..g.spt /\ g.spt \in Nat
    <3>1. d \in Drives /\ g.spt \in Nat
      BY <2>1, GeometryType, GeometryAssumption
    <3>2. last \in a[4]..g.spt
      BY <2>1, LastSectorBounds
    <3> QED BY <3>1, <3>2
  <2>3. /\ xfer'.base = Lba(g, a[2], a[3], a[4]) /\ xfer'.len = n * g.secsz
        /\ xfer'.c = a[2] /\ xfer'.h = a[3] /\ xfer'.r = a[4] /\ drive' = UnitOf(a)
    BY <1>3 DEF Transfer, StartXfer
  <2>4. n \in Nat /\ a[4] + n <= g.spt + 1 /\ a[4] >= 1
    <3> HIDE DEF last, g
    <3> QED BY <2>1, <2>2
  <2>5. Geometry[Slot(drive')] = g
    BY <2>3
  <2> HIDE DEF n, g
  <2> QED BY <2>3, <2>4, <2>5 DEF FromSector
<1>4. CASE UNCHANGED vars
  BY <1>4 DEF vars, FromSector
<1> QED BY <1>1, <1>2, <1>3, <1>4, NextXfer

\* The sectors that pos bytes touch: counted up, and there is only one such count.
LEMMA SectorCount ==
  ASSUME NEW pos \in Nat, NEW s \in Nat, s > 0
  PROVE  LET q == (pos + s - 1) \div s
         IN /\ q \in 0..(pos + 1) /\ (q - 1) * s < pos /\ pos <= q * s
            /\ \A k \in Nat : (k - 1) * s < pos /\ pos <= k * s => k = q
            /\ \A n \in Nat : pos <= n * s => q <= n
<1> DEFINE x == pos + s - 1
           q == x \div s
<1>1. x \in Nat
  OBVIOUS
<1>2. q \in Nat /\ q * s <= x /\ x < q * s + s
  BY <1>1
<1> HIDE DEF q
<1>3. (q - 1) * s = q * s - s
  BY <1>2
<1>4. (q - 1) * s < pos /\ pos <= q * s
  BY <1>2, <1>3
<1>5. ASSUME NEW k \in Int, NEW m \in Int, k <= m PROVE k * s <= m * s
  BY <1>5
<1>6. ASSUME NEW k \in Nat, (k - 1) * s < pos, pos <= k * s PROVE k = q
  <2>1. CASE k < q
    <3>1. k * s <= (q - 1) * s
      BY <1>2, <1>5, <2>1
    <3> QED BY <1>2, <1>4, <1>6, <3>1
  <2>2. CASE q < k
    <3>1. q * s <= (k - 1) * s
      BY <1>2, <1>5, <2>2
    <3> QED BY <1>2, <1>4, <1>6, <3>1
  <2> QED BY <1>2, <2>1, <2>2
<1>7. ASSUME NEW n \in Nat, pos <= n * s PROVE q <= n
  <2>1. SUFFICES ASSUME n < q PROVE FALSE
    BY <1>2
  <2>2. n * s <= (q - 1) * s
    BY <1>2, <1>5, <2>1
  <2> QED BY <1>2, <1>4, <1>7, <2>2
<1>8. q <= pos + 1
  <2>1. pos + 1 \in Nat /\ (pos + 1) * s >= pos
    <3>1. (pos + 1) * s >= (pos + 1) * 1
      OBVIOUS
    <3> QED BY <3>1
  <2> QED BY <1>7, <2>1
<1> QED BY <1>2, <1>4, <1>6, <1>7, <1>8 DEF q

\* Only the end of a transfer leaves a result of it.
LEMMA ResultOfTransfer ==
  ASSUME Inv, Next, xfer.kind \in {"read", "write"}, phase' = "result"
  PROVE  (\E tc \in BOOLEAN : XferEnd(tc)) /\ Geometry[Slot(drive)].secsz # 0
<1>1. phase = "exec"
  BY DEF Inv, Chip, PhaseConsistent
<1>2. \E tc \in BOOLEAN : XferEnd(tc)
  BY <1>1 DEF Next, CpuAccess, Exit, Free, ReturnEarly, DataWrite, DataRead, FirstByte, NextByte, SwallowId,
     StoreByte, FetchByte, ResultByte, SelWrite, GoIdle
<1> QED BY <1>1, <1>2 DEF XferEnd

\* Wherever the CPU or the terminal count ends a transfer, and whatever sector it began
\* with, the C, H and R of its result go on where it ended.
THEOREM ResultsContinue ==
  ASSUME SectorsFit
  PROVE  Spec => ResultContinues
<1> DEFINE g == Geometry[Slot(drive)]
           done == CHOOSE k \in 0..(xfer.pos + 1) :
                     (k - 1) * g.secsz < xfer.pos /\ xfer.pos <= k * g.secsz
           Goes == IF xfer.r + done > g.spt
                     THEN res'[4] = xfer.c + 1 /\ res'[6] = 1
                     ELSE Lba(g, res'[4], res'[5], res'[6]) = xfer.base + done
<1>1. ASSUME Inv, FromSector, Next, xfer.kind \in {"read", "write"}, phase' = "result"
      PROVE  Goes
  <2> DEFINE q == SectorsDone(g)
             r == (xfer.r + q) % 256
  <2>1. PICK tc \in BOOLEAN : XferEnd(tc)
    BY <1>1, ResultOfTransfer
  <2>2. Slot(drive) \in Inserted /\ xfer.c < g.tracks
    BY <1>1 DEF Inv, TransferOnTrack
  <2>3. /\ g.secsz \in Nat /\ g.secsz > 0 /\ g.spt \in Nat /\ g.spt < 255 /\ g.tracks \in 0..255
        /\ g.heads \in Nat
    BY <2>2, GeometryType, GeometryAssumption, SectorsFit DEF SectorsFit
  <2>4. /\ xfer.pos \in Nat /\ xfer.len \in Nat /\ xfer.pos <= xfer.len
        /\ xfer.c \in Nat /\ xfer.h \in Nat /\ xfer.r \in Nat
    <3>1. xfer \in XferRecord
      BY <1>1 DEF Inv, Chip
    <3>2. xfer.pos <= xfer.len
      BY <1>1 DEF Inv, Chip, PhaseConsistent
    <3> QED BY <3>1, <3>2 DEF XferRecord, Byte
  <2>5. PICK n \in Nat : xfer.len = n * g.secsz /\ xfer.r + n <= g.spt + 1
    BY <1>1 DEF FromSector
  <2>6. q = (xfer.pos + g.secsz - 1) \div g.secsz
    BY DEF SectorsDone
  <2> HIDE DEF g, q
  <2>7. /\ q \in 0..(xfer.pos + 1) /\ (q - 1) * g.secsz < xfer.pos /\ xfer.pos <= q * g.secsz
        /\ \A k \in Nat : (k - 1) * g.secsz < xfer.pos /\ xfer.pos <= k * g.secsz => k = q
        /\ \A m \in Nat : xfer.pos <= m * g.secsz => q <= m
    BY <2>3, <2>4, <2>6, SectorCount
  <2>8. done = q
    <3>1. \A k \in 0..(xfer.pos + 1) : (k - 1) * g.secsz < xfer.pos /\ xfer.pos <= k * g.secsz => k = q
      BY <2>4, <2>7
    <3> QED BY <2>7, <3>1
  <2>9. q <= n
    BY <2>4, <2>5, <2>7
  <2>10. r = xfer.r + q /\ (xfer.c + 1) % 256 = xfer.c + 1
    <3>1. \A m \in 0..255 : m % 256 = m
      OBVIOUS
    <3>2. xfer.r + q \in 0..255
      <4>1. q \in Nat /\ xfer.r \in Nat /\ n \in Nat /\ xfer.r + n <= g.spt + 1 /\ g.spt \in Nat /\ g.spt < 255
        BY <2>3, <2>4, <2>5, <2>7
      <4>2. \A i, k, m, l \in Nat : k <= m /\ i + m <= l + 1 /\ l < 255 => i + k \in 0..255
        OBVIOUS
      <4> QED BY <2>9, <4>1, <4>2
    <3>3. xfer.c + 1 \in 0..255
      BY <2>2, <2>3, <2>4
    <3> QED BY <3>1, <3>2, <3>3
  <2>11. /\ res'[4] = (IF r > g.spt THEN (xfer.c + 1) % 256 ELSE xfer.c)
         /\ res'[5] = xfer.h
         /\ res'[6] = (IF r > g.spt THEN 1 ELSE r)
    BY <2>1, <2>3 DEF XferEnd, ReturnChrn, Return, g, q
  <2>12. Lba(g, xfer.c, xfer.h, xfer.r + q) = Lba(g, xfer.c, xfer.h, xfer.r) + q
    <3> DEFINE t == (xfer.c * g.heads + xfer.h) * g.spt
    <3>1. t \in Nat
      <4>1. xfer.c * g.heads \in Nat
        BY <2>3, <2>4, MulNat
      <4> QED BY <2>3, <2>4, <4>1, MulNat
    <3>2. \A s : Lba(g, xfer.c, xfer.h, s) = t + (s - 1)
      BY DEF Lba
    <3> HIDE DEF t
    <3> QED BY <2>4, <2>7, <3>1, <3>2
  <2>13. xfer.base = Lba(g, xfer.c, xfer.h, xfer.r)
    BY <1>1 DEF FromSector, g
  <2> HIDE DEF done
  <2> QED BY <2>8, <2>10, <2>11, <2>12, <2>13
<1>2. Init => FromSector
  BY DEF Init, FromSector, NoXfer
<1>3. Inv /\ FromSector /\ [Next]_vars => FromSector'
  BY NextFromSector
<1>4. Inv /\ FromSector /\ [Next]_vars =>
        [xfer.kind \in {"read", "write"} /\ phase' = "result" => Goes]_vars
  BY <1>1
<1> QED BY <1>2, <1>3, <1>4, Invariance, PTL DEF Spec, ResultContinues
=============================================================================
