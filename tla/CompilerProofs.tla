--------------------------- MODULE CompilerProofs ---------------------------
(***************************************************************************)
(* Proofs about the tape compiler, for every file and every recording: the *)
(* types, that a compiled tape is one the player can turn, that a file's   *)
(* marks are kept, that every loop is played out, and that the pulses make *)
(* the signal that the file describes.                                     *)
(***************************************************************************)
EXTENDS CompilerProps, InflateProofs, SequenceTheorems, TLAPS

BoundType == [at : Nat, stop : BOOLEAN]

\* Boundaries that ascend and lie on a tape of n pulses.
Good(bs, n) ==
  /\ bs \in Seq(BoundType)
  /\ \A b \in 1 .. Len(bs) : bs[b].at <= n
  /\ \A b, c \in 1 .. Len(bs) : b < c => bs[b].at < bs[c].at

Stream == pulses \in Seq(Nat) /\ Good(bounds, Len(pulses))

Parser ==
  /\ status \in {"blocks", "samples", "parsed", "attached", "failed"}
  /\ off \in Nat \ {0} /\ loopOff \in Nat /\ loopLeft \in Nat /\ nblocks \in Nat
  /\ symbols \in Seq(SymbolType) /\ tail \in Seq(Nat)
  /\ status = "blocks" => body \in Files
  /\ status = "attached" => nblocks > 0 \/ pulses # <<>>

Trigger ==
  /\ lastT \in Nat /\ high \in {0, 1}
  /\ status = "samples" => body \in Samples /\ lastT < off

Inv == Stream /\ Parser /\ Trigger

----------------------------------------------------------------------------
(* Boundaries. *)

\* A longer tape keeps its boundaries.
LEMMA GoodGrows ==
  ASSUME NEW bs, NEW n \in Nat, NEW k \in Nat, Good(bs, n), n <= k
  PROVE Good(bs, k)
<1>1. bs \in Seq(BoundType) BY DEF Good
<1>2. ASSUME NEW b \in 1 .. Len(bs) PROVE bs[b].at <= k
  <2>1. bs[b] \in BoundType BY <1>1, ElementOfSeq
  <2>2. bs[b].at \in Nat BY <2>1 DEF BoundType
  <2>3. bs[b].at <= n BY DEF Good
  <2> QED BY <2>2, <2>3
<1> QED BY <1>1, <1>2 DEF Good

\* A boundary beyond all the others keeps them ascending.
LEMMA GoodAppend ==
  ASSUME NEW bs, NEW n \in Nat, Good(bs, n), NEW e \in BoundType, e.at >= n,
         \A b \in 1 .. Len(bs) : bs[b].at < e.at
  PROVE Good(Append(bs, e), e.at)
<1> DEFINE cs == Append(bs, e)
<1>1. bs \in Seq(BoundType) /\ Len(bs) \in Nat BY LenProperties DEF Good
<1>2. cs \in Seq(BoundType) /\ Len(cs) = Len(bs) + 1 /\ cs[Len(bs) + 1] = e
      /\ \A b \in 1 .. Len(bs) : cs[b] = bs[b]
  BY <1>1, AppendProperties
<1>3. e.at \in Nat /\ \A b \in 1 .. Len(bs) : bs[b].at \in Nat
  <2>1. \A b \in 1 .. Len(bs) : bs[b] \in BoundType BY <1>1, ElementOfSeq
  <2> QED BY <2>1 DEF BoundType
<1> HIDE DEF cs
<1>4. ASSUME NEW b \in 1 .. Len(cs) PROVE cs[b].at <= e.at
  <2>1. CASE b \in 1 .. Len(bs) BY <1>2, <1>3, <2>1
  <2>2. CASE b = Len(bs) + 1 BY <1>2, <1>3, <2>2
  <2> QED BY <1>1, <1>2, <2>1, <2>2
<1>5. ASSUME NEW b \in 1 .. Len(cs), NEW c \in 1 .. Len(cs), b < c PROVE cs[b].at < cs[c].at
  <2>1. b \in 1 .. Len(bs) BY <1>1, <1>2, <1>5
  <2>2. CASE c \in 1 .. Len(bs) BY <1>2, <1>5, <2>1, <2>2 DEF Good
  <2>3. CASE c = Len(bs) + 1 BY <1>2, <2>1, <2>3
  <2> QED BY <1>1, <1>2, <2>2, <2>3
<1>6. Good(cs, e.at) BY <1>2, <1>4, <1>5 DEF Good
<1> QED BY <1>6 DEF cs

\* bound_push, merged or not, keeps the boundaries of the tape as it is.
LEMMA BoundPush ==
  ASSUME Stream, NEW stop \in BOOLEAN, bound_push(stop)
  PROVE Good(bounds', Len(pulses))
<1>1. Good(bounds, Len(pulses)) /\ bounds \in Seq(BoundType) /\ Len(bounds) \in Nat /\ Len(pulses) \in Nat
  BY LenProperties DEF Stream, Good
<1>2. bounds' = Bounded(stop) BY DEF bound_push
<1>3. CASE Merges
  <2> DEFINE l == Len(bounds)
             e == [at |-> bounds[l].at, stop |-> (bounds[l].stop \/ stop)]
  <2>1. l \in 1 .. Len(bounds) BY <1>1, <1>3, EmptySeq DEF Merges
  <2>2. bounds[l] \in BoundType BY <1>1, <2>1, ElementOfSeq
  <2>3. e \in BoundType /\ e.at = bounds[l].at BY <2>2 DEF BoundType
  <2>4. [bounds[l] EXCEPT !.stop = (bounds[l].stop \/ stop)] = e BY <2>2 DEF BoundType
  <2>5. bounds' = [bounds EXCEPT ![l] = [bounds[l] EXCEPT !.stop = (bounds[l].stop \/ stop)]]
    BY <1>2, <1>3 DEF Bounded
  <2>6. bounds' = [bounds EXCEPT ![l] = e] BY <2>4, <2>5
  <2> HIDE DEF e, l
  <2>7. bounds' \in Seq(BoundType) /\ Len(bounds') = Len(bounds)
        /\ \A j \in 1 .. Len(bounds) : bounds'[j] = IF j = l THEN e ELSE bounds[j]
    BY <1>1, <2>1, <2>3, <2>6, ExceptSeq
  <2>8. \A j \in 1 .. Len(bounds) : bounds'[j].at = bounds[j].at BY <2>3, <2>7
  <2> QED BY <1>1, <2>7, <2>8 DEF Good
<1>4. CASE ~Merges
  <2> DEFINE e == [at |-> Len(pulses), stop |-> stop]
  <2>1. bounds' = Append(bounds, e) BY <1>2, <1>4 DEF Bounded
  <2>2. e \in BoundType /\ e.at = Len(pulses) BY <1>1 DEF BoundType
  <2>3. ASSUME NEW b \in 1 .. Len(bounds) PROVE bounds[b].at < Len(pulses)
    <3> DEFINE l == Len(bounds)
    <3>1. bounds # <<>> /\ l \in 1 .. l BY <1>1, <2>3, EmptySeq
    <3>2. bounds[l].at # Len(pulses) BY <1>4, <3>1 DEF Merges, LastOf
    <3>3. bounds[l].at \in Nat /\ bounds[b].at \in Nat
      <4>1. bounds[l] \in BoundType /\ bounds[b] \in BoundType BY <1>1, <2>3, <3>1, ElementOfSeq
      <4> QED BY <4>1 DEF BoundType
    <3>4. bounds[l].at <= Len(pulses) BY <1>1, <3>1 DEF Good
    <3>5. b < l => bounds[b].at < bounds[l].at BY <1>1, <2>3, <3>1 DEF Good
    <3> QED BY <1>1, <2>3, <3>2, <3>3, <3>4, <3>5
  <2> HIDE DEF e
  <2>4. Good(Append(bounds, e), e.at) BY <1>1, <2>2, <2>3, GoodAppend
  <2> QED BY <2>1, <2>2, <2>4
<1> QED BY <1>3, <1>4

----------------------------------------------------------------------------
(* Pulses. *)

\* Emitting lengthens the tape.
LEMMA EmitGrows ==
  ASSUME pulses \in Seq(Nat), NEW ds \in Seq(Nat), Emit(ds)
  PROVE pulses' \in Seq(Nat) /\ Len(pulses) \in Nat /\ Len(pulses') \in Nat /\ Len(pulses) <= Len(pulses')
<1>1. pulses' = pulses \o ds BY DEF Emit
<1>2. pulses \o ds \in Seq(Nat) /\ Len(pulses \o ds) = Len(pulses) + Len(ds) BY ConcatProperties
<1>3. Len(pulses) \in Nat /\ Len(ds) \in Nat BY LenProperties
<1> QED BY <1>1, <1>2, <1>3

\* Optional pulses and pauses are pulses.
LEMMA OptionalType == ASSUME NEW d \in Nat PROVE Optional(d) \in Seq(Nat)
  BY DEF Optional
LEMMA PauseType == ASSUME NEW ms \in Nat PROVE Pause(ms) \in Seq(Nat)
<1>1. ms * MS \in Nat BY RomAssumption
<1> QED BY <1>1, OptionalType DEF Pause

\* Of every block of data some number of bits is emitted.
LEMMA BitsType ==
  ASSUME NEW b, b.bytes \in Bytes, b.last \in Nat, b.b0 \in Nat, b.b1 \in Nat
  PROVE BitPulses(b) \in Seq(Nat)
<1>1. LastBits(b) \in Nat BY RomAssumption DEF LastBits
<1>2. Len(b.bytes) \in Nat /\ (b.bytes # <<>> => Len(b.bytes) > 0)
  <2>1. b.bytes \in Seq([1 .. BYTE -> {0, 1}]) BY DEF Bytes
  <2> QED BY <2>1, LenProperties, EmptySeq
<1>3. b.bytes # <<>> => (Len(b.bytes) - 1) * BYTE \in Nat
  <2>1. \A x \in Nat, y \in Nat : x * y \in Nat OBVIOUS
  <2>2. b.bytes # <<>> => Len(b.bytes) - 1 \in Nat BY <1>2
  <2> QED BY <2>1, <2>2, RomAssumption
<1>4. Bits(b) \in Nat
  <2>1. CASE b.bytes = <<>> BY <2>1 DEF Bits
  <2>2. CASE b.bytes # <<>>
    <3>1. Bits(b) = (Len(b.bytes) - 1) * BYTE + LastBits(b) BY <2>2 DEF Bits
    <3>2. (Len(b.bytes) - 1) * BYTE \in Nat BY <1>3, <2>2
    <3> DEFINE x == (Len(b.bytes) - 1) * BYTE
    <3> HIDE DEF x
    <3>3. x \in Nat /\ Bits(b) = x + LastBits(b) BY <3>1, <3>2 DEF x
    <3> QED BY <1>1, <3>3
  <2> QED BY <2>1, <2>2
<1>5. 2 * Bits(b) \in Nat BY <1>4
<1> DEFINE n == 2 * Bits(b)
           e(j) == IF BitAt(b, (j - 1) \div 2) = 1 THEN b.b1 ELSE b.b0
<1>6. n \in Nat /\ BitPulses(b) = [j \in 1 .. n |-> e(j)] BY <1>5 DEF BitPulses
<1>7. \A j \in 1 .. n : e(j) \in Nat OBVIOUS
<1>8. [j \in 1 .. n |-> e(j)] \in [1 .. n -> Nat] BY <1>7
<1> HIDE DEF n, e
<1>9. BitPulses(b) \in UNION {[1 .. k -> Nat] : k \in Nat} BY <1>6, <1>8
<1> QED BY <1>9, SeqDef

\* What emit_data emits is a list of pulses.
LEMMA DataType ==
  ASSUME NEW b, b.bytes \in Bytes, b.last \in Nat, b.b0 \in Nat, b.b1 \in Nat,
         b.pilot \in Nat, b.count \in Nat, b.s1 \in Nat, b.s2 \in Nat, b.pause \in Nat
  PROVE DataPulses(b) \in Seq(Nat)
<1> DEFINE t == [k \in 1 .. b.count |-> b.pilot]
<1>1. t \in Seq(Nat)
  <2>1. t \in [1 .. b.count -> Nat] OBVIOUS
  <2> QED BY <2>1, SeqDef
<1>2. Optional(b.s1) \in Seq(Nat) /\ Optional(b.s2) \in Seq(Nat) /\ Pause(b.pause) \in Seq(Nat)
  BY OptionalType, PauseType
<1>3. BitPulses(b) \in Seq(Nat) BY BitsType
<1>4. DataPulses(b) = t \o Optional(b.s1) \o Optional(b.s2) \o BitPulses(b) \o Pause(b.pause)
  BY DEF DataPulses
<1> HIDE DEF t
<1>5. t \o Optional(b.s1) \in Seq(Nat) BY <1>1, <1>2, ConcatProperties
<1>6. t \o Optional(b.s1) \o Optional(b.s2) \in Seq(Nat) BY <1>2, <1>5, ConcatProperties
<1>7. t \o Optional(b.s1) \o Optional(b.s2) \o BitPulses(b) \in Seq(Nat) BY <1>3, <1>6, ConcatProperties
<1> QED BY <1>2, <1>4, <1>7, ConcatProperties

\* Data of any kind of block keeps the tape playable.
LEMMA DataKeeps ==
  ASSUME Stream, NEW b, Data(b), DataPulses(b) \in Seq(Nat)
  PROVE Stream'
<1>1. Good(bounds', Len(pulses)) BY BoundPush DEF Data
<1>2. pulses' \in Seq(Nat) /\ Len(pulses) \in Nat /\ Len(pulses') \in Nat /\ Len(pulses) <= Len(pulses')
  BY EmitGrows DEF Data, Stream
<1> QED BY <1>1, <1>2, GoodGrows DEF Stream

\* So does emitting pulses with the boundaries left alone, or set before.
LEMMA EmitKeeps ==
  ASSUME Stream, NEW ds \in Seq(Nat), Emit(ds), Good(bounds', Len(pulses))
  PROVE Stream'
<1>1. pulses' \in Seq(Nat) /\ Len(pulses) \in Nat /\ Len(pulses') \in Nat /\ Len(pulses) <= Len(pulses')
  BY EmitGrows DEF Stream
<1> QED BY <1>1, GoodGrows DEF Stream

----------------------------------------------------------------------------
(* Blocks. *)

\* What the block at hand is made of.
LEMMA BlockHere ==
  ASSUME Parser, NEW kind, Block(kind)
  PROVE body[off] \in BlockType /\ body[off].kind = kind /\ status = "blocks"
<1>1. status = "blocks" /\ off <= Len(body) /\ body[off].kind = kind BY DEF Block, InBlocks
<1>2. body \in Seq(BlockType) BY <1>1, FileAssumption DEF Parser
<1>3. off \in 1 .. Len(body) BY <1>1, <1>2, LenProperties DEF Parser
<1> QED BY <1>1, <1>2, <1>3, ElementOfSeq

LEMMA StandardFields ==
  ASSUME NEW b \in BlockType, b.kind = "standard"
  PROVE b.header \in BOOLEAN /\ b.bytes \in Bytes /\ b.pause \in Nat
  BY DEF BlockType, DataBlock

LEMMA DataFields ==
  ASSUME NEW b \in BlockType, b.kind \in {"turbo", "pure"}
  PROVE b \in DataBlock
  BY DEF BlockType, DataBlock

LEMMA OtherFields ==
  ASSUME NEW b \in BlockType
  PROVE /\ b.kind = "pulses" => b.durs \in Seq(Nat)
        /\ b.kind = "csw" => b.durs \in Seq(Nat) /\ b.pause \in Nat
        /\ b.kind = "gdb" => b.symbols \in Seq(SymbolType) /\ b.pause \in Nat
        /\ b.kind = "pause" => b.ms \in Nat
        /\ b.kind = "loop" => b.n \in Nat
  BY DEF BlockType, DataBlock

\* The ROM's format is a block of data.
LEMMA StandardType ==
  ASSUME NEW b \in BlockType, b.kind = "standard"
  PROVE DataPulses(Standard(b)) \in Seq(Nat)
<1> DEFINE s == Standard(b)
<1>1. b.bytes \in Bytes /\ b.pause \in Nat BY StandardFields
<1>2. /\ s.bytes = b.bytes /\ s.last = BYTE /\ s.b0 = Rom.b0 /\ s.b1 = Rom.b1 /\ s.pilot = Rom.pilot
      /\ s.s1 = Rom.s1 /\ s.s2 = Rom.s2
      /\ s.count = (IF b.header THEN Rom.hdr ELSE Rom.data)
      /\ s.pause = (IF b.pause = 0 THEN Rom.pause ELSE b.pause)
  BY DEF Standard
<1>3. /\ Rom.b0 \in Nat /\ Rom.b1 \in Nat /\ Rom.pilot \in Nat /\ Rom.s1 \in Nat /\ Rom.s2 \in Nat
      /\ Rom.hdr \in Nat /\ Rom.data \in Nat /\ Rom.pause \in Nat /\ BYTE \in Nat
  BY RomAssumption
<1> HIDE DEF s
<1>4. s.count \in Nat /\ s.pause \in Nat BY <1>1, <1>2, <1>3
<1>5. DataPulses(s) \in Seq(Nat) BY <1>1, <1>2, <1>3, <1>4, DataType
<1> QED BY <1>5 DEF s

\* Going on to the next block, or giving up, keeps the parser.
LEMMA OnwardKeeps ==
  ASSUME Parser, status = "blocks", Onward \/ GiveUp, body' = body, nblocks' \in Nat
  PROVE Parser' /\ status' \in {"blocks", "parsed"}
<1>1. /\ off' = off + 1 /\ status' \in {"blocks", "parsed"}
      /\ UNCHANGED <<loopOff, loopLeft, symbols, tail>>
  BY DEF Onward, GiveUp, loop, gdb
<1>2. off' \in Nat \ {0} BY <1>1 DEF Parser
<1> QED BY <1>1, <1>2 DEF Parser

\* The Schmitt trigger is out of the parser's way.
LEMMA TriggerKeeps ==
  ASSUME Trigger, status' # "samples", UNCHANGED wav
  PROVE Trigger'
  BY DEF Trigger, wav

\* What every action of a block starts from.
LEMMA BlockKeeps == ASSUME NEW kind, Block(kind) PROVE body' = body /\ UNCHANGED wav
  BY DEF Block

\* A block of data.
LEMMA DataBlockKeeps ==
  ASSUME Inv, StandardData \/ TurboData \/ PureData
  PROVE Inv'
<1>1. CASE StandardData
  <2>1. Block("standard") /\ Data(Standard(body[off])) /\ nblocks' = nblocks + 1 /\ Onward BY <1>1 DEF StandardData
  <2>2. body[off] \in BlockType /\ body[off].kind = "standard" /\ status = "blocks" BY <2>1, BlockHere DEF Inv
  <2>3. DataPulses(Standard(body[off])) \in Seq(Nat) BY <2>2, StandardType
  <2>4. Stream' BY <2>1, <2>3, DataKeeps DEF Inv
  <2>5. body' = body /\ UNCHANGED wav /\ nblocks' \in Nat BY <2>1, BlockKeeps DEF Inv, Parser
  <2>6. Parser' /\ status' \in {"blocks", "parsed"} BY <2>1, <2>2, <2>5, OnwardKeeps DEF Inv
  <2> QED BY <2>4, <2>5, <2>6, TriggerKeeps DEF Inv
<1>2. CASE TurboData
  <2>1. Block("turbo") /\ Data(body[off]) /\ nblocks' = nblocks + 1 /\ Onward BY <1>2 DEF TurboData
  <2>2. body[off] \in BlockType /\ body[off].kind = "turbo" /\ status = "blocks" BY <2>1, BlockHere DEF Inv
  <2>3. body[off] \in DataBlock BY <2>2, DataFields
  <2>4. DataPulses(body[off]) \in Seq(Nat) BY <2>3, DataType DEF DataBlock
  <2>5. Stream' BY <2>1, <2>4, DataKeeps DEF Inv
  <2>6. body' = body /\ UNCHANGED wav /\ nblocks' \in Nat BY <2>1, BlockKeeps DEF Inv, Parser
  <2>7. Parser' /\ status' \in {"blocks", "parsed"} BY <2>1, <2>2, <2>6, OnwardKeeps DEF Inv
  <2> QED BY <2>5, <2>6, <2>7, TriggerKeeps DEF Inv
<1>3. CASE PureData
  <2> DEFINE b == [body[off] EXCEPT !.count = 0, !.s1 = 0, !.s2 = 0]
  <2>1. Block("pure") /\ Data(b) /\ nblocks' = nblocks /\ Onward BY <1>3 DEF PureData
  <2>2. body[off] \in BlockType /\ body[off].kind = "pure" /\ status = "blocks" BY <2>1, BlockHere DEF Inv
  <2>3. b \in DataBlock BY <2>2, DataFields DEF DataBlock
  <2> HIDE DEF b
  <2>4. DataPulses(b) \in Seq(Nat) BY <2>3, DataType DEF DataBlock
  <2>5. Stream' BY <2>1, <2>4, DataKeeps DEF Inv
  <2>6. body' = body /\ UNCHANGED wav /\ nblocks' \in Nat BY <2>1, BlockKeeps DEF Inv, Parser
  <2>7. Parser' /\ status' \in {"blocks", "parsed"} BY <2>1, <2>2, <2>6, OnwardKeeps DEF Inv
  <2> QED BY <2>5, <2>6, <2>7, TriggerKeeps DEF Inv
<1> QED BY <1>1, <1>2, <1>3

\* A block of pulses, a CSW recording, a pause or a stop.
LEMMA PulseBlockKeeps ==
  ASSUME Inv, Pulses \/ Csw \/ StopOrPause
  PROVE Inv'
<1>1. Stream /\ Good(bounds, Len(pulses)) /\ nblocks \in Nat /\ Parser /\ Trigger BY DEF Inv, Stream, Parser
<1>2. CASE Pulses
  <2>1. Block("pulses") /\ Emit(body[off].durs) /\ UNCHANGED <<bounds, nblocks>> /\ Onward BY <1>2 DEF Pulses
  <2>2. body[off].durs \in Seq(Nat) /\ status = "blocks" BY <1>1, <2>1, BlockHere, OtherFields
  <2>3. Stream' BY <1>1, <2>1, <2>2, EmitKeeps
  <2>4. body' = body /\ UNCHANGED wav BY <2>1, BlockKeeps
  <2>5. Parser' /\ status' \in {"blocks", "parsed"} BY <1>1, <2>1, <2>2, <2>4, OnwardKeeps
  <2> QED BY <1>1, <2>3, <2>4, <2>5, TriggerKeeps DEF Inv
<1>3. CASE Csw
  <2> DEFINE ds == body[off].durs \o Pause(body[off].pause)
  <2>1. /\ Block("csw") /\ bound_push(FALSE) /\ nblocks' = nblocks
        /\ (Emit(ds) /\ Onward) \/ (pulses' = pulses /\ GiveUp)
    BY <1>3 DEF Csw
  <2>2. body[off].durs \in Seq(Nat) /\ body[off].pause \in Nat /\ status = "blocks"
    BY <1>1, <2>1, BlockHere, OtherFields
  <2>3. ds \in Seq(Nat) BY <2>2, PauseType, ConcatProperties
  <2> HIDE DEF ds
  <2>4. Good(bounds', Len(pulses)) BY <1>1, <2>1, BoundPush
  <2>5. Stream'
    <3>1. CASE Emit(ds) BY <1>1, <2>3, <2>4, <3>1, EmitKeeps
    <3>2. CASE pulses' = pulses BY <1>1, <2>4, <3>2 DEF Stream
    <3> QED BY <2>1, <3>1, <3>2
  <2>6. body' = body /\ UNCHANGED wav BY <2>1, BlockKeeps
  <2>7. Parser' /\ status' \in {"blocks", "parsed"} BY <1>1, <2>1, <2>2, <2>6, OnwardKeeps
  <2> QED BY <1>1, <2>5, <2>6, <2>7, TriggerKeeps DEF Inv
<1>4. CASE StopOrPause
  <2> DEFINE ds == Pause(body[off].ms)
  <2>1. /\ Block("pause") /\ nblocks' = nblocks /\ Onward
        /\ (bound_push(TRUE) /\ pulses' = pulses) \/ (Emit(ds) /\ bounds' = bounds)
    BY <1>4 DEF StopOrPause
  <2>2. body[off].ms \in Nat /\ status = "blocks" BY <1>1, <2>1, BlockHere, OtherFields
  <2>3. ds \in Seq(Nat) BY <2>2, PauseType
  <2> HIDE DEF ds
  <2>4. Stream'
    <3>1. CASE bound_push(TRUE) /\ pulses' = pulses
      <4>1. Good(bounds', Len(pulses)) BY <1>1, <3>1, BoundPush
      <4> QED BY <1>1, <3>1, <4>1 DEF Stream
    <3>2. CASE Emit(ds) /\ bounds' = bounds BY <1>1, <2>3, <3>2, EmitKeeps
    <3> QED BY <2>1, <3>1, <3>2
  <2>5. body' = body /\ UNCHANGED wav BY <2>1, BlockKeeps
  <2>6. Parser' /\ status' \in {"blocks", "parsed"} BY <1>1, <2>1, <2>2, <2>5, OnwardKeeps
  <2> QED BY <1>1, <2>4, <2>5, <2>6, TriggerKeeps DEF Inv
<1> QED BY <1>2, <1>3, <1>4

\* A loop, a comment, the end of what can be read.
LEMMA ControlBlockKeeps ==
  ASSUME Inv, LoopStart \/ LoopEnd \/ Info \/ Unknown
  PROVE Inv'
<1>1. Stream /\ Parser /\ Trigger BY DEF Inv
<1>2. pulses' = pulses /\ bounds' = bounds /\ nblocks' = nblocks
  BY DEF LoopStart, LoopEnd, Info, Unknown, tape
<1>3. Stream' BY <1>1, <1>2 DEF Stream, Good
<1>4. body' = body /\ UNCHANGED wav /\ status = "blocks"
  BY DEF LoopStart, LoopEnd, Info, Unknown, Block, InBlocks
<1>5. nblocks' \in Nat BY <1>1, <1>2 DEF Parser
<1>6. Parser' /\ status' \in {"blocks", "parsed"}
  <2>1. CASE LoopStart
    <3>1. Block("loop") BY <2>1 DEF LoopStart
    <3>2. body[off].n \in Nat BY <1>1, <3>1, BlockHere, OtherFields
    <3>3. /\ loopLeft' = (IF body[off].n > 0 THEN body[off].n - 1 ELSE 0)
          /\ loopOff' = off + 1 /\ off' = off + 1 /\ UNCHANGED <<symbols, tail, status>>
      BY <2>1 DEF LoopStart, gdb
    <3>4. loopLeft' \in Nat /\ loopOff' \in Nat /\ off' \in Nat \ {0} BY <1>1, <3>2, <3>3 DEF Parser
    <3> QED BY <1>1, <1>2, <1>4, <3>3, <3>4 DEF Parser
  <2>2. CASE LoopEnd
    <3>1. /\ loopLeft' = (IF LoopsBack THEN loopLeft - 1 ELSE loopLeft)
          /\ off' = (IF LoopsBack THEN loopOff ELSE off + 1)
          /\ UNCHANGED <<symbols, tail, status, loopOff>>
      BY <2>2 DEF LoopEnd, gdb
    <3>2. loopLeft' \in Nat /\ off' \in Nat \ {0} BY <1>1, <3>1 DEF Parser, LoopsBack
    <3> QED BY <1>1, <1>2, <1>4, <3>1, <3>2 DEF Parser
  <2>3. CASE Info \/ Unknown
    <3>1. Onward \/ GiveUp BY <2>3 DEF Info, Unknown
    <3> QED BY <1>1, <1>4, <1>5, <3>1, OnwardKeeps
  <2> QED BY <2>1, <2>2, <2>3
<1> QED BY <1>1, <1>3, <1>4, <1>6, TriggerKeeps DEF Inv

\* A generalized block: its boundary now, its symbols to come.
LEMMA GeneralizedKeeps == ASSUME Inv, Generalized PROVE Inv'
<1>1. Stream /\ Parser /\ Trigger BY DEF Inv
<1>2. /\ Block("gdb") /\ bound_push(FALSE) /\ off' = off + 1
      /\ UNCHANGED <<pulses, nblocks, loopOff, loopLeft>>
      /\ \/ symbols' = body[off].symbols /\ tail' = Pause(body[off].pause) /\ status' = status
         \/ status' = "parsed" /\ UNCHANGED <<symbols, tail>>
  BY DEF Generalized, loop, gdb
<1>3. body[off].symbols \in Seq(SymbolType) /\ body[off].pause \in Nat /\ status = "blocks"
  BY <1>1, <1>2, BlockHere, OtherFields
<1>4. Pause(body[off].pause) \in Seq(Nat) BY <1>3, PauseType
<1>5. Good(bounds', Len(pulses)) BY <1>1, <1>2, BoundPush
<1>6. Stream' BY <1>1, <1>2, <1>5 DEF Stream
<1>7. body' = body /\ UNCHANGED wav BY <1>2, BlockKeeps
<1>8. off' \in Nat \ {0} BY <1>1, <1>2 DEF Parser
<1>9. symbols' \in Seq(SymbolType) /\ tail' \in Seq(Nat) /\ status' \in {"blocks", "parsed"}
  BY <1>1, <1>2, <1>3, <1>4 DEF Parser
<1>10. Parser' BY <1>1, <1>2, <1>3, <1>7, <1>8, <1>9 DEF Parser
<1> QED BY <1>1, <1>6, <1>7, <1>9, <1>10, TriggerKeeps DEF Inv

\* A symbol lengthens the tape, or its last pulse.
LEMMA SymbolGrows ==
  ASSUME pulses \in Seq(Nat), NEW s, NEW ds \in Seq(Nat), Symbol(s, ds)
  PROVE pulses' \in Seq(Nat) /\ Len(pulses) \in Nat /\ Len(pulses') \in Nat /\ Len(pulses) <= Len(pulses')
<1>1. Len(pulses) \in Nat /\ Len(ds) \in Nat BY LenProperties
<1>2. CASE Extends(s, ds)
  <2> DEFINE l == Len(pulses)
             stretched == [pulses EXCEPT ![l] = pulses[l] + Head(ds)]
  <2>1. l \in 1 .. Len(pulses) BY <1>1, <1>2, EmptySeq DEF Extends
  <2>2. Head(ds) \in Nat /\ Tail(ds) \in Seq(Nat) BY <1>2, HeadTailProperties DEF Extends
  <2>3. pulses[l] + Head(ds) \in Nat BY <2>1, <2>2, ElementOfSeq
  <2>4. stretched \in Seq(Nat) /\ Len(stretched) = Len(pulses) BY <2>1, <2>3, ExceptSeq
  <2>5. pulses' = stretched \o Tail(ds) BY <1>2 DEF Symbol
  <2> HIDE DEF stretched
  <2>6. pulses' \in Seq(Nat) /\ Len(pulses') = Len(stretched) + Len(Tail(ds)) BY <2>2, <2>4, <2>5, ConcatProperties
  <2>7. Len(Tail(ds)) \in Nat BY <2>2, LenProperties
  <2> QED BY <1>1, <2>4, <2>6, <2>7
<1>3. CASE ~Extends(s, ds)
  <2> DEFINE flip == IF Flips(s) THEN <<0>> ELSE <<>>
  <2>1. flip \in Seq(Nat) OBVIOUS
  <2>2. pulses' = pulses \o flip \o ds BY <1>3 DEF Symbol
  <2> HIDE DEF flip
  <2>3. pulses \o flip \in Seq(Nat) /\ Len(pulses \o flip) = Len(pulses) + Len(flip) BY <2>1, ConcatProperties
  <2>4. pulses' \in Seq(Nat) /\ Len(pulses') = Len(pulses \o flip) + Len(ds) BY <2>2, <2>3, ConcatProperties
  <2>5. Len(flip) \in Nat BY <2>1, LenProperties
  <2> QED BY <1>1, <2>3, <2>4, <2>5
<1> QED BY <1>2, <1>3

\* A symbol of a generalized block.
LEMMA NextSymbolKeeps == ASSUME Inv, NextSymbol PROVE Inv'
<1>1. Stream /\ Parser /\ Trigger BY DEF Inv
<1> DEFINE e == Head(symbols)
<1>2. status = "blocks" /\ symbols # <<>>
      /\ UNCHANGED <<body, status, off, loopOff, loopLeft, tail, bounds, nblocks>> /\ UNCHANGED wav
  BY DEF NextSymbol, loop
<1>3. e \in SymbolType /\ Tail(symbols) \in Seq(SymbolType)
  BY <1>1, <1>2, HeadTailProperties DEF Parser
<1>4. e.sym.durs \in Seq(Nat) /\ e.rep \in Nat BY <1>3 DEF SymbolType
<1>5. PICK n \in 0 .. Len(e.sym.durs) : Symbol(e.sym, SubSeq(e.sym.durs, 1, n)) BY DEF NextSymbol
<1>6. SubSeq(e.sym.durs, 1, n) \in Seq(Nat)
  <2>1. \A i \in 1 .. n : e.sym.durs[i] \in Nat
    <3>1. Len(e.sym.durs) \in Nat BY <1>4, LenProperties
    <3>2. \A i \in 1 .. n : i \in 1 .. Len(e.sym.durs) BY <3>1
    <3> QED BY <1>4, <3>2, ElementOfSeq
  <2>2. n \in Int BY <1>4, LenProperties
  <2> QED BY <2>1, <2>2, SubSeqProperties
<1>7. symbols' = (IF e.rep > 1 THEN <<[e EXCEPT !.rep = @ - 1]>> \o Tail(symbols) ELSE Tail(symbols))
  BY DEF NextSymbol
<1>8. symbols' \in Seq(SymbolType)
  <2>1. CASE e.rep > 1
    <3> DEFINE f == [e EXCEPT !.rep = @ - 1]
    <3>1. f \in SymbolType
      <4>1. e.rep - 1 \in Nat BY <1>4, <2>1
      <4>2. f = [e EXCEPT !.rep = e.rep - 1] BY <1>3 DEF SymbolType
      <4> HIDE DEF e, f
      <4> QED BY <1>3, <4>1, <4>2, Zenon DEF SymbolType
    <3> HIDE DEF f
    <3>2. <<f>> \in Seq(SymbolType) BY <3>1
    <3>3. <<f>> \o Tail(symbols) \in Seq(SymbolType) BY <1>3, <3>2, ConcatProperties
    <3> QED BY <1>7, <2>1, <3>3 DEF f
  <2>2. CASE ~(e.rep > 1) BY <1>3, <1>7, <2>2
  <2> QED BY <2>1, <2>2
<1> HIDE DEF e
<1>9. pulses' \in Seq(Nat) /\ Len(pulses) \in Nat /\ Len(pulses') \in Nat /\ Len(pulses) <= Len(pulses')
  BY <1>1, <1>5, <1>6, SymbolGrows DEF Stream
<1>10. Stream' BY <1>1, <1>2, <1>9, GoodGrows DEF Stream
<1>11. Parser' BY <1>1, <1>2, <1>8 DEF Parser
<1> QED BY <1>1, <1>2, <1>10, <1>11, TriggerKeeps DEF Inv

\* The pause after the symbols.
LEMMA AfterSymbolsKeeps == ASSUME Inv, AfterSymbols PROVE Inv'
<1>1. Stream /\ Parser /\ Trigger /\ Good(bounds, Len(pulses)) BY DEF Inv, Stream
<1>2. Emit(tail) /\ tail' = <<>> /\ status = "blocks"
      /\ UNCHANGED <<body, status, off, loopOff, loopLeft, symbols, bounds, nblocks>> /\ UNCHANGED wav
  BY DEF AfterSymbols, loop
<1>3. tail \in Seq(Nat) BY <1>1 DEF Parser
<1>4. Stream' BY <1>1, <1>2, <1>3, EmitKeeps
<1>5. Parser' BY <1>1, <1>2 DEF Parser
<1> QED BY <1>1, <1>2, <1>4, <1>5, TriggerKeeps DEF Inv

\* A sample of a recording.
LEMMA TakeSampleKeeps == ASSUME Inv, TakeSample PROVE Inv'
<1>1. /\ pulses \in Seq(Nat) /\ Good(bounds, Len(pulses)) /\ bounds \in Seq(BoundType)
      /\ Parser /\ Trigger /\ Len(pulses) \in Nat
  BY LenProperties DEF Inv, Stream, Good
<1>2. status = "samples" /\ off' = off + 1
      /\ UNCHANGED <<body, status, loopOff, loopLeft, symbols, tail, nblocks>>
  BY DEF TakeSample, loop, gdb
<1>3. off \in Nat /\ lastT \in Nat /\ lastT < off BY <1>1, <1>2 DEF Parser, Trigger
<1>4. Parser' BY <1>1, <1>2, <1>3 DEF Parser
<1>5. CASE UNCHANGED wav /\ pulses' = pulses /\ bounds' = bounds
  <2>1. Stream' BY <1>1, <1>5 DEF Stream
  <2>2. Trigger' BY <1>1, <1>2, <1>3, <1>5 DEF Trigger, wav
  <2> QED BY <1>4, <2>1, <2>2 DEF Inv
<1>6. CASE high' = 1 - high /\ lastT' = off /\ SamplePulse
  <2>1. Trigger' BY <1>1, <1>2, <1>3, <1>6 DEF Trigger
  <2> DEFINE d == IF Lasted > GAP THEN GAP ELSE Lasted
  <2>2. Lasted \in Nat BY <1>3, RomAssumption DEF Lasted
  <2>3. d \in Nat BY <2>2, RomAssumption
  <2>4. pulses' = Append(pulses, d) BY <1>6 DEF SamplePulse
  <2> HIDE DEF d
  <2>5. pulses' \in Seq(Nat) /\ Len(pulses') = Len(pulses) + 1 BY <1>1, <2>3, <2>4, AppendProperties
  <2>6. Stream'
    <3> DEFINE e == [at |-> Len(pulses) + 1, stop |-> FALSE]
    <3>1. CASE bounds' = bounds
      <4>1. Good(bounds, Len(pulses'))
        <5>1. Len(pulses') \in Nat /\ Len(pulses) <= Len(pulses') BY <1>1, <2>5
        <5> QED BY <1>1, <5>1, GoodGrows
      <4> QED BY <2>5, <3>1, <4>1 DEF Stream
    <3>2. CASE bounds' = Append(bounds, e)
      <4>1. e \in BoundType /\ e.at = Len(pulses) + 1 BY <1>1 DEF BoundType
      <4>2. ASSUME NEW b \in 1 .. Len(bounds) PROVE bounds[b].at < e.at
        <5>1. bounds[b] \in BoundType BY <1>1, ElementOfSeq
        <5>2. bounds[b].at \in Nat BY <5>1 DEF BoundType
        <5>3. bounds[b].at <= Len(pulses) BY <1>1 DEF Good
        <5> QED BY <1>1, <4>1, <5>2, <5>3
      <4>3. e.at >= Len(pulses) BY <1>1, <4>1
      <4> HIDE DEF e
      <4>4. Good(Append(bounds, e), e.at) BY <1>1, <4>1, <4>2, <4>3, GoodAppend
      <4> QED BY <2>5, <3>2, <4>1, <4>4 DEF Stream
    <3> QED BY <1>6, <3>1, <3>2 DEF SamplePulse, GapEnd
  <2> QED BY <1>4, <2>1, <2>6 DEF Inv
<1> QED BY <1>5, <1>6 DEF TakeSample

\* The end of the samples, of the blocks, and of the load.
LEMMA EndKeeps == ASSUME Inv, Sampled \/ EndOfFile \/ Attach PROVE Inv'
<1>1. Stream /\ Parser /\ Trigger BY DEF Inv
<1>2. CASE Sampled
  <2>1. UNCHANGED <<body, off, loopOff, loopLeft, symbols, tail, nblocks>> /\ UNCHANGED wav
        /\ \/ status' = "failed" /\ pulses' = <<>> /\ bounds' = <<>>
           \/ status' = "parsed" /\ UNCHANGED <<pulses, bounds>>
    BY <1>2 DEF Sampled, loop, gdb
  <2>2. Stream'
    <3>1. CASE pulses' = <<>> /\ bounds' = <<>> BY <3>1, EmptySeq DEF Stream, Good
    <3>2. CASE UNCHANGED <<pulses, bounds>> BY <1>1, <3>2 DEF Stream
    <3> QED BY <2>1, <3>1, <3>2
  <2>3. Parser' /\ status' # "samples" BY <1>1, <2>1 DEF Parser
  <2> QED BY <1>1, <2>1, <2>2, <2>3, TriggerKeeps DEF Inv
<1>3. CASE EndOfFile
  <2>1. UNCHANGED <<body, off, loopOff, loopLeft, symbols, tail, nblocks, pulses, bounds>> /\ UNCHANGED wav
        /\ status' = "parsed"
    BY <1>3 DEF EndOfFile, loop, gdb, tape
  <2>2. Stream' BY <1>1, <2>1 DEF Stream
  <2>3. Parser' BY <1>1, <2>1 DEF Parser
  <2> QED BY <1>1, <2>1, <2>2, <2>3, TriggerKeeps DEF Inv
<1>4. CASE Attach
  <2>1. UNCHANGED <<body, off, loopOff, loopLeft, symbols, tail, nblocks, pulses, bounds>> /\ UNCHANGED wav
        /\ status' = (IF nblocks = 0 /\ pulses = <<>> THEN "failed" ELSE "attached")
    BY <1>4 DEF Attach, loop, gdb, tape
  <2>2. Stream' BY <1>1, <2>1 DEF Stream
  <2>3. Parser'
    <3>1. nblocks = 0 \/ nblocks > 0 BY <1>1 DEF Parser
    <3> QED BY <1>1, <2>1, <3>1 DEF Parser
  <2> QED BY <1>1, <2>1, <2>2, <2>3, TriggerKeeps DEF Inv
<1> QED BY <1>2, <1>3, <1>4

----------------------------------------------------------------------------
(* The invariant and the theorems. *)

\* An empty tape, with the one boundary of a recording.
LEMMA InitInv == ASSUME Init PROVE Inv
<1>1. /\ pulses = <<>> /\ off = 1 /\ loopOff = 0 /\ loopLeft = 0 /\ symbols = <<>> /\ tail = <<>>
      /\ nblocks = 0 /\ high = 0 /\ lastT = 0
      /\ \/ body \in Files /\ status = "blocks" /\ bounds = <<>>
         \/ body \in Samples /\ status = "samples" /\ bounds = <<[at |-> 0, stop |-> FALSE]>>
  BY DEF Init, OfFile, OfRecording
<1>2. Stream
  <2>1. CASE bounds = <<>> BY <1>1, <2>1, EmptySeq DEF Stream, Good
  <2>2. CASE bounds = <<[at |-> 0, stop |-> FALSE]>>
    <3> DEFINE e == [at |-> 0, stop |-> FALSE]
    <3>1. e \in BoundType /\ e.at = 0 BY DEF BoundType
    <3>2. bounds = <<e>> BY <2>2
    <3> HIDE DEF e
    <3>3. bounds \in Seq(BoundType) /\ Len(bounds) = 1 /\ bounds[1] = e BY <3>1, <3>2
    <3>4. Len(pulses) = 0 /\ pulses \in Seq(Nat) BY <1>1, EmptySeq
    <3> QED BY <3>1, <3>3, <3>4 DEF Stream, Good
  <2> QED BY <1>1, <2>1, <2>2
<1>3. Parser BY <1>1 DEF Parser
<1>4. Trigger BY <1>1 DEF Trigger
<1> QED BY <1>2, <1>3, <1>4 DEF Inv

\* Every block, symbol and sample keeps the invariant.
LEMMA NextInv == ASSUME Inv, [Next]_vars PROVE Inv'
<1>1. CASE UNCHANGED vars
  BY <1>1 DEF vars, Inv, Stream, Good, Parser, Trigger, loop, gdb, tape, wav
<1>2. CASE Step
  BY <1>2, DataBlockKeeps, PulseBlockKeeps, ControlBlockKeeps, GeneralizedKeeps, NextSymbolKeeps,
     AfterSymbolsKeeps, TakeSampleKeeps, EndKeeps, Zenon
  DEF Step, ReadBlock
<1> QED BY <1>1, <1>2 DEF Next, Loaded

THEOREM Invariant == Spec => []Inv
<1>1. Init => Inv BY InitInv
<1>2. Inv /\ [Next]_vars => Inv' BY NextInv
<1> QED BY <1>1, <1>2, PTL DEF Spec

\* Whatever is in a file, the parser's registers and what it has compiled keep their
\* types, and no tape is attached that has nothing on it.
THEOREM TypeCorrect == Spec => []TypeOK
<1>1. Inv => TypeOK BY DEF Inv, Stream, Good, Parser, Trigger, TypeOK, BoundType
<1> QED BY <1>1, Invariant, PTL

\* Whatever is in a file, the boundaries of the compiled tape ascend and lie on the tape:
\* what the proofs about the player assume of every tape.
THEOREM TapesArePlayable == Spec => []Playable
<1>1. Inv => Playable BY DEF Inv, Stream, Good, Playable
<1> QED BY <1>1, Invariant, PTL

----------------------------------------------------------------------------
(* The boundaries are the marks of the file. *)

\* MarksKept, boundary by boundary and mark by mark.
Kept(bs, ms) ==
  /\ \A b \in 1 .. Len(bs) : \E m \in ms : m.at = bs[b].at
  /\ \A m \in ms : \E b \in 1 .. Len(bs) : bs[b].at = m.at
  /\ \A b \in 1 .. Len(bs) : bs[b].stop => \E m \in ms : m.at = bs[b].at /\ m.stop
  /\ \A m \in ms : m.stop => \E b \in 1 .. Len(bs) : bs[b].at = m.at /\ bs[b].stop

LEMMA KeptMarks == ASSUME Kept(bounds, marked) PROVE MarksKept
<1> DEFINE ats(ms) == {m.at : m \in ms}
           stops(ms) == ats({m \in ms : m.stop})
           kept == {bounds[b] : b \in 1 .. Len(bounds)}
<1>1. ats(kept) = ats(marked)
  <2>1. ASSUME NEW x \in ats(kept) PROVE x \in ats(marked) BY <2>1 DEF Kept
  <2>2. ASSUME NEW x \in ats(marked) PROVE x \in ats(kept)
    <3>1. PICK m \in marked : x = m.at BY <2>2
    <3>2. PICK b \in 1 .. Len(bounds) : bounds[b].at = m.at BY DEF Kept
    <3> QED BY <3>1, <3>2
  <2> QED BY <2>1, <2>2
<1>2. stops(kept) = stops(marked)
  <2>1. ASSUME NEW x \in stops(kept) PROVE x \in stops(marked)
    <3>1. PICK b \in 1 .. Len(bounds) : x = bounds[b].at /\ bounds[b].stop BY <2>1
    <3>2. PICK m \in marked : m.at = bounds[b].at /\ m.stop BY <3>1 DEF Kept
    <3> QED BY <3>1, <3>2
  <2>2. ASSUME NEW x \in stops(marked) PROVE x \in stops(kept)
    <3>1. PICK m \in marked : x = m.at /\ m.stop BY <2>2
    <3>2. PICK b \in 1 .. Len(bounds) : bounds[b].at = m.at /\ bounds[b].stop BY <3>1 DEF Kept
    <3> QED BY <3>1, <3>2
  <2> QED BY <2>1, <2>2
<1> QED BY <1>1, <1>2 DEF MarksKept

\* A boundary and its mark, appended together.
LEMMA KeptAppend ==
  ASSUME NEW bs \in Seq(BoundType), NEW ms, Kept(bs, ms), NEW e \in BoundType
  PROVE Kept(Append(bs, e), ms \cup {e})
<1> DEFINE cs == Append(bs, e)
<1>1. Len(bs) \in Nat /\ Len(cs) = Len(bs) + 1 /\ cs[Len(bs) + 1] = e
      /\ \A b \in 1 .. Len(bs) : cs[b] = bs[b]
  BY AppendProperties, LenProperties
<1> HIDE DEF cs
<1>2. \A b \in 1 .. Len(cs) : b \in 1 .. Len(bs) \/ cs[b] = e BY <1>1
<1>3. \A b \in 1 .. Len(bs) : b \in 1 .. Len(cs) BY <1>1
<1>4. Len(bs) + 1 \in 1 .. Len(cs) BY <1>1
<1>5. \A b \in 1 .. Len(cs) : \E m \in ms \cup {e} : m.at = cs[b].at
  <2>1. SUFFICES ASSUME NEW b \in 1 .. Len(cs), b \in 1 .. Len(bs) PROVE \E m \in ms \cup {e} : m.at = cs[b].at BY <1>2
  <2>2. PICK m \in ms : m.at = bs[b].at BY <2>1 DEF Kept
  <2> QED BY <1>1, <2>1, <2>2
<1>6. \A m \in ms \cup {e} : \E b \in 1 .. Len(cs) : cs[b].at = m.at
  <2>1. SUFFICES ASSUME NEW m \in ms PROVE \E b \in 1 .. Len(cs) : cs[b].at = m.at BY <1>1, <1>4
  <2>2. PICK b \in 1 .. Len(bs) : bs[b].at = m.at BY <2>1 DEF Kept
  <2> QED BY <1>1, <1>3, <2>2
<1>7. \A b \in 1 .. Len(cs) : cs[b].stop => \E m \in ms \cup {e} : m.at = cs[b].at /\ m.stop
  <2>1. SUFFICES ASSUME NEW b \in 1 .. Len(cs), cs[b].stop, b \in 1 .. Len(bs)
                 PROVE \E m \in ms \cup {e} : m.at = cs[b].at /\ m.stop BY <1>2
  <2>2. PICK m \in ms : m.at = bs[b].at /\ m.stop BY <1>1, <2>1 DEF Kept
  <2> QED BY <1>1, <2>1, <2>2
<1>8. \A m \in ms \cup {e} : m.stop => \E b \in 1 .. Len(cs) : cs[b].at = m.at /\ cs[b].stop
  <2>1. SUFFICES ASSUME NEW m \in ms, m.stop PROVE \E b \in 1 .. Len(cs) : cs[b].at = m.at /\ cs[b].stop BY <1>1, <1>4
  <2>2. PICK b \in 1 .. Len(bs) : bs[b].at = m.at /\ bs[b].stop BY <2>1 DEF Kept
  <2> QED BY <1>1, <1>3, <2>2
<1> QED BY <1>5, <1>6, <1>7, <1>8 DEF Kept, cs

\* Whether bound_push appends or merges, the place is a boundary, and stops if either does.
LEMMA PushKept ==
  ASSUME Stream, Kept(bounds, marked), NEW stop \in BOOLEAN, bound_push(stop)
  PROVE Kept(bounds', marked')
<1> DEFINE e == [at |-> Len(pulses), stop |-> stop]
<1>1. bounds \in Seq(BoundType) /\ Len(bounds) \in Nat /\ Len(pulses) \in Nat
  BY LenProperties DEF Stream, Good
<1>2. bounds' = Bounded(stop) /\ marked' = marked \cup {e} BY DEF bound_push
<1>3. e \in BoundType /\ e.at = Len(pulses) /\ e.stop = stop BY <1>1 DEF BoundType
<1>4. CASE ~Merges
  <2>1. bounds' = Append(bounds, e) BY <1>2, <1>4 DEF Bounded
  <2> HIDE DEF e
  <2> QED BY <1>1, <1>2, <1>3, <2>1, KeptAppend
<1>5. CASE Merges
  <2> DEFINE l == Len(bounds)
             f == [at |-> bounds[l].at, stop |-> (bounds[l].stop \/ stop)]
  <2>1. l \in 1 .. Len(bounds) /\ bounds[l].at = Len(pulses) BY <1>1, <1>5, EmptySeq DEF Merges, LastOf
  <2>2. bounds[l] \in BoundType BY <1>1, <2>1, ElementOfSeq
  <2>3. [bounds[l] EXCEPT !.stop = (bounds[l].stop \/ stop)] = f BY <2>2 DEF BoundType
  <2>4. bounds' = [bounds EXCEPT ![l] = f] BY <1>2, <1>5, <2>3 DEF Bounded
  <2>5. f \in BoundType /\ f.at = e.at /\ (f.stop <=> bounds[l].stop \/ e.stop) BY <1>3, <2>1, <2>2 DEF BoundType
  <2>6. Len(bounds') = Len(bounds) /\ \A j \in 1 .. Len(bounds) : bounds'[j] = IF j = l THEN f ELSE bounds[j]
    BY <1>1, <2>1, <2>4, <2>5, ExceptSeq
  <2>8. bounds'[l] = f /\ bounds[l].at = e.at BY <1>3, <2>1, <2>6
  <2>9. \A j \in 1 .. Len(bounds) : j # l => bounds'[j] = bounds[j] BY <2>6
  <2>10. l \in 1 .. Len(bounds') BY <2>1, <2>6
  <2> HIDE DEF e, f, l
  <2>7. Kept(bounds', marked \cup {e})
    <3>1. \A b \in 1 .. Len(bounds') : \E m \in marked \cup {e} : m.at = bounds'[b].at
      <4>1. ASSUME NEW b \in 1 .. Len(bounds), b # l PROVE \E m \in marked : m.at = bounds'[b].at BY <2>9, <4>1 DEF Kept
      <4> QED BY <2>5, <2>6, <2>8, <4>1
    <3>2. \A m \in marked \cup {e} : \E b \in 1 .. Len(bounds') : bounds'[b].at = m.at
      <4>1. ASSUME NEW m \in marked PROVE \E b \in 1 .. Len(bounds') : bounds'[b].at = m.at
        <5>1. PICK b \in 1 .. Len(bounds) : bounds[b].at = m.at BY <4>1 DEF Kept
        <5>2. bounds'[b].at = m.at BY <2>5, <2>8, <2>9, <5>1
        <5> QED BY <2>6, <5>2
      <4> QED BY <2>5, <2>8, <2>10, <4>1
    <3>3. \A b \in 1 .. Len(bounds') : bounds'[b].stop => \E m \in marked \cup {e} : m.at = bounds'[b].at /\ m.stop
      <4>1. ASSUME NEW b \in 1 .. Len(bounds), b # l, bounds'[b].stop PROVE \E m \in marked : m.at = bounds'[b].at /\ m.stop
        BY <2>9, <4>1 DEF Kept
      <4>2. ASSUME bounds[l].stop PROVE \E m \in marked : m.at = bounds'[l].at /\ m.stop
        BY <2>1, <2>5, <2>8, <4>2 DEF Kept
      <4> QED BY <2>5, <2>6, <2>8, <4>1, <4>2
    <3>4. \A m \in marked \cup {e} : m.stop => \E b \in 1 .. Len(bounds') : bounds'[b].at = m.at /\ bounds'[b].stop
      <4>1. ASSUME NEW m \in marked, m.stop PROVE \E b \in 1 .. Len(bounds') : bounds'[b].at = m.at /\ bounds'[b].stop
        <5>1. PICK b \in 1 .. Len(bounds) : bounds[b].at = m.at /\ bounds[b].stop BY <4>1 DEF Kept
        <5>2. bounds'[b].at = m.at /\ bounds'[b].stop BY <2>5, <2>8, <2>9, <5>1
        <5> QED BY <2>6, <5>2
      <4>2. e.stop => bounds'[l].at = e.at /\ bounds'[l].stop BY <2>5, <2>8
      <4> QED BY <2>10, <4>1, <4>2
    <3> QED BY <3>1, <3>2, <3>3, <3>4 DEF Kept
  <2> QED BY <1>2, <2>7
<1> QED BY <1>4, <1>5

\* A gap of a recording is a boundary after its pulse, at the length the tape then has.
LEMMA GapKept ==
  ASSUME Inv, Kept(bounds, marked), SamplePulse
  PROVE Kept(bounds', marked')
<1> DEFINE d == IF Lasted > GAP THEN GAP ELSE Lasted
           e == [at |-> Len(pulses) + 1, stop |-> FALSE]
<1>1. pulses \in Seq(Nat) /\ bounds \in Seq(BoundType) BY DEF Inv, Stream, Good
<1>2. CASE UNCHANGED <<bounds, marked>> BY <1>2
<1>3. CASE bounds' = Append(bounds, e) /\ marked' = marked \cup {[at |-> Len(pulses'), stop |-> FALSE]}
  <2>1. pulses' = Append(pulses, d) BY DEF SamplePulse
  <2>2. Len(pulses') = Len(pulses) + 1 BY <1>1, <2>1 DEF Append
  <2>3. marked' = marked \cup {e} BY <1>3, <2>2
  <2>4. e \in BoundType BY <1>1, LenProperties DEF BoundType
  <2> HIDE DEF e
  <2> QED BY <1>1, <1>3, <2>3, <2>4, KeptAppend
<1> QED BY <1>2, <1>3 DEF SamplePulse, GapEnd

\* Whatever is read, boundaries and marks change together.
LEMMA NextKept == ASSUME Inv, Kept(bounds, marked), [Next]_vars PROVE Kept(bounds', marked')
<1>1. Stream BY DEF Inv
<1>2. CASE \E stop \in BOOLEAN : bound_push(stop) BY <1>1, <1>2, PushKept
<1>3. CASE UNCHANGED <<bounds, marked>> BY <1>3
<1>4. CASE SamplePulse BY <1>4, GapKept
<1>5. CASE bounds' = <<>> /\ marked' = {} BY <1>5, EmptySeq DEF Kept
<1>6. CASE ReadBlock
  BY <1>2, <1>3, <1>6 DEF ReadBlock, StandardData, TurboData, PureData, Data, Pulses, Csw, StopOrPause,
     LoopStart, LoopEnd, Info, Unknown, Generalized, tape
<1>7. CASE NextSymbol \/ AfterSymbols \/ EndOfFile \/ Attach \/ Loaded \/ UNCHANGED vars
  BY <1>3, <1>7 DEF NextSymbol, AfterSymbols, EndOfFile, Attach, Loaded, vars, tape
<1>8. CASE TakeSample BY <1>3, <1>4, <1>8 DEF TakeSample
<1>9. CASE Sampled BY <1>3, <1>5, <1>9 DEF Sampled
<1> QED BY <1>6, <1>7, <1>8, <1>9 DEF Next, Step

\* For every file and recording: each block and stop marker is a boundary of the tape at its
\* place, also where an empty block was merged with it, and there are no other boundaries.
THEOREM FileMarksKept == Spec => []MarksKept
<1>1. Init => Kept(bounds, marked)
  <2>1. CASE OfFile BY <2>1, EmptySeq DEF OfFile, Kept
  <2>2. CASE OfRecording
    <3> DEFINE e == [at |-> 0, stop |-> FALSE]
    <3>1. bounds = <<e>> /\ marked = {e} BY <2>2 DEF OfRecording
    <3> HIDE DEF e
    <3>2. Len(bounds) = 1 /\ bounds[1] = e BY <3>1
    <3> QED BY <3>1, <3>2 DEF Kept
  <2> QED BY <2>1, <2>2 DEF Init
<1>2. Inv /\ Kept(bounds, marked) /\ [Next]_vars => Kept(bounds, marked)' BY NextKept
<1>3. Kept(bounds, marked) => MarksKept BY KeptMarks
<1> QED BY <1>1, <1>2, <1>3, Invariant, PTL DEF Spec

----------------------------------------------------------------------------
(* Loops: what the reads of each block add up to while the file is read. *)

\* The open loop is the one that started last, as long as no end of a loop was read since.
Start == loopOff - 1
Count(s) == IF body[s].n > 1 THEN body[s].n ELSE 1
Open == loopOff > 0 /\ \A j \in loopOff .. off - 1 : ~Structural(j)
ClosesFrom(k) == \E e \in k .. Len(body) : Closes(Start, e)

\* The passes of the open loop that are complete.
Pass == IF Open THEN Count(Start) - 1 - loopLeft ELSE 0

\* How often block k has been read: before the reader, all its passes or, in the open loop,
\* one more than the complete ones; from the reader on, those only.
Due(k) ==
  IF k < off THEN IF Open /\ loopOff <= k THEN Pass + 1 ELSE Passes(k)
  ELSE IF Open /\ ClosesFrom(k) THEN Pass ELSE 0

Loops ==
  /\ loopOff > 0 => loopOff \in 2 .. off /\ body[Start].kind = "loop"
  /\ \A j \in 1 .. off - 1 : loopOff <= j => body[j].kind # "loop"
  /\ loopLeft > 0 => Open
  /\ Open => loopLeft < Count(Start) /\ (Pass > 0 => ClosesFrom(off))

Account ==
  /\ body \in Seq(BlockType) /\ off \in 1 .. Len(body) + 1 /\ loopOff \in Nat /\ loopLeft \in Nat
  /\ Loops
  /\ times \in [1 .. Len(body) -> Nat] /\ \A k \in 1 .. Len(body) : times[k] = Due(k)

----------------------------------------------------------------------------
(* How often a block is inside a loop. *)

\* Loops do not nest: a block is in at most one.
LEMMA OneLoop ==
  ASSUME NEW k \in Nat, Len(body) \in Nat,
         NEW s \in 1 .. k - 1, NEW e \in k .. Len(body), Closes(s, e),
         NEW r \in 1 .. k - 1, NEW f \in k .. Len(body), Closes(r, f)
  PROVE s = r
<1>1. CASE s < r
  <2>1. r \in s + 1 .. e - 1 /\ Structural(r) BY <1>1 DEF Closes, Structural
  <2> QED BY <2>1 DEF Closes
<1>2. CASE r < s
  <2>1. s \in r + 1 .. f - 1 /\ Structural(s) BY <1>2 DEF Closes, Structural
  <2> QED BY <2>1 DEF Closes
<1> QED BY <1>1, <1>2

LEMMA PassesIn ==
  ASSUME NEW k \in Nat, Len(body) \in Nat,
         NEW s \in 1 .. k - 1, NEW e \in k .. Len(body), Closes(s, e)
  PROVE Passes(k) = Count(s)
<1> DEFINE around == {r \in 1 .. k - 1 : \E f \in k .. Len(body) : Closes(r, f)}
<1>1. s \in around OBVIOUS
<1>2. \A r \in around : r = s BY OneLoop
<1>3. (CHOOSE r \in around : TRUE) = s BY <1>1, <1>2
<1>4. around # {} BY <1>1
<1> QED BY <1>3, <1>4 DEF Passes, Count

LEMMA PassesOut ==
  ASSUME NEW k \in Nat, \A s \in 1 .. k - 1 : \A e \in k .. Len(body) : ~Closes(s, e)
  PROVE Passes(k) = 1
<1> DEFINE around == {r \in 1 .. k - 1 : \E f \in k .. Len(body) : Closes(r, f)}
<1>1. around = {} OBVIOUS
<1> QED BY <1>1 DEF Passes

\* A loop without a count runs once.
LEMMA CountType ==
  ASSUME body \in Seq(BlockType), NEW s \in 1 .. Len(body), body[s].kind = "loop"
  PROVE Count(s) \in Nat \ {0}
<1>1. body[s] \in BlockType BY ElementOfSeq
<1>2. body[s].n \in Nat BY <1>1 DEF BlockType, DataBlock
<1> QED BY <1>2 DEF Count

LEMMA PassesType ==
  ASSUME body \in Seq(BlockType), NEW k \in 1 .. Len(body)
  PROVE Passes(k) \in Nat \ {0}
<1>1. Len(body) \in Nat BY LenProperties
<1>2. CASE \E s \in 1 .. k - 1 : \E e \in k .. Len(body) : Closes(s, e)
  <2>1. PICK s \in 1 .. k - 1, e \in k .. Len(body) : Closes(s, e) BY <1>2
  <2>2. Passes(k) = Count(s) BY <1>1, <2>1, PassesIn
  <2>3. s \in 1 .. Len(body) /\ body[s].kind = "loop" BY <1>1, <2>1 DEF Closes
  <2> QED BY <2>2, <2>3, CountType
<1>3. CASE \A s \in 1 .. k - 1 : \A e \in k .. Len(body) : ~Closes(s, e) BY <1>3, PassesOut
<1> QED BY <1>2, <1>3

\* A loop around the reader is the open one.
LEMMA Around ==
  ASSUME Account, NEW s \in 1 .. off - 1, NEW e \in off .. Len(body), Closes(s, e)
  PROVE s = Start /\ Open
<1>1. Len(body) \in Nat /\ off \in Nat /\ loopOff \in Nat BY LenProperties DEF Account
<1>2. s < loopOff BY <1>1 DEF Account, Loops, Closes
<1>3. loopOff \in 2 .. off /\ Structural(Start) BY <1>1, <1>2 DEF Account, Loops, Structural
<1>4. s = Start
  <2>1. SUFFICES ASSUME s # Start PROVE FALSE OBVIOUS
  <2>2. Start \in s + 1 .. e - 1 BY <1>1, <1>2, <1>3, <2>1 DEF Start
  <2> QED BY <1>3, <2>2 DEF Closes
<1>5. \A j \in loopOff .. off - 1 : j \in s + 1 .. e - 1 BY <1>1, <1>3, <1>4 DEF Start
<1> QED BY <1>1, <1>3, <1>4, <1>5 DEF Closes, Open

\* A block of an open loop that nothing closes is in no loop.
LEMMA Unclosed ==
  ASSUME Account, Open, ~ClosesFrom(off), NEW k \in loopOff .. off
  PROVE Passes(k) = 1
<1>1. Len(body) \in Nat /\ off \in Nat /\ loopOff \in Nat /\ k \in Nat BY LenProperties DEF Account
<1>2. ASSUME NEW s \in 1 .. k - 1, NEW e \in k .. Len(body), Closes(s, e) PROVE FALSE
  <2>1. CASE e < off
    <3>1. e \in loopOff .. off - 1 /\ Structural(e) BY <1>1, <1>2, <2>1 DEF Closes, Structural
    <3> QED BY <3>1 DEF Open
  <2>2. CASE e >= off
    <3>1. e \in off .. Len(body) /\ s \in 1 .. off - 1 BY <1>1, <2>2
    <3>2. s = Start BY <1>2, <3>1, Around
    <3> QED BY <1>2, <3>1, <3>2 DEF ClosesFrom
  <2> QED BY <1>1, <2>1, <2>2
<1> QED BY <1>1, <1>2, PassesOut

\* So is the block at the reader when no loop is open.
LEMMA NoneOpen ==
  ASSUME Account, ~Open
  PROVE Passes(off) = 1
<1>1. off \in Nat BY LenProperties DEF Account
<1>2. \A s \in 1 .. off - 1 : \A e \in off .. Len(body) : ~Closes(s, e) BY Around
<1> QED BY <1>1, <1>2, PassesOut

\* The passes of the open loop are counted down.
LEMMA PassType ==
  ASSUME Account
  PROVE /\ Pass \in Nat
        /\ Open => Start \in 1 .. off - 1 /\ Count(Start) \in Nat /\ Pass = Count(Start) - 1 - loopLeft
<1>1. Len(body) \in Nat /\ off \in 1 .. Len(body) + 1 /\ loopOff \in Nat /\ loopLeft \in Nat
  BY LenProperties DEF Account
<1>2. CASE Open
  <2>1. Start \in 1 .. off - 1 /\ body[Start].kind = "loop" BY <1>1, <1>2 DEF Account, Loops, Open, Start
  <2>2. Start \in 1 .. Len(body) BY <1>1, <2>1
  <2>3. Count(Start) \in Nat BY <2>1, <2>2, CountType DEF Account
  <2>4. loopLeft < Count(Start) BY <1>2 DEF Account, Loops
  <2> QED BY <1>1, <1>2, <2>1, <2>3, <2>4 DEF Pass
<1>3. CASE ~Open BY <1>3 DEF Pass
<1> QED BY <1>2, <1>3

\* Where the file is read, the first half of LoopsPlayOut; at its end, the second half.
LEMMA NeverMore ==
  ASSUME Account, NEW k \in 1 .. Len(body)
  PROVE times[k] <= Passes(k)
<1>1. Len(body) \in Nat /\ off \in 1 .. Len(body) + 1 /\ loopOff \in Nat /\ loopLeft \in Nat
      /\ body \in Seq(BlockType) /\ times[k] = Due(k)
  BY LenProperties DEF Account
<1>2. Passes(k) \in Nat \ {0} BY <1>1, PassesType
<1>3. Pass \in Nat BY PassType
<1>4. ASSUME NEW e \in k .. Len(body), Closes(Start, e), Open, loopOff <= k
      PROVE Pass + 1 <= Passes(k)
  <2>1. Start \in 1 .. k - 1 BY <1>1, <1>4, PassType DEF Start
  <2>2. Passes(k) = Count(Start) BY <1>1, <1>4, <2>1, PassesIn
  <2> QED BY <1>1, <1>4, <2>2, PassType
<1>5. CASE k < off /\ Open /\ loopOff <= k
  <2>1. Due(k) = Pass + 1 BY <1>5 DEF Due
  <2>2. CASE Pass = 0 BY <1>1, <1>2, <2>1, <2>2
  <2>3. CASE Pass > 0
    <3>1. PICK e \in off .. Len(body) : Closes(Start, e) BY <1>5, <2>3 DEF Account, Loops, ClosesFrom
    <3>2. e \in k .. Len(body) BY <1>1, <1>5
    <3> QED BY <1>1, <1>4, <1>5, <2>1, <3>1, <3>2
  <2> QED BY <1>3, <2>2, <2>3
<1>6. CASE k < off /\ ~(Open /\ loopOff <= k) BY <1>1, <1>2, <1>6 DEF Due
<1>7. CASE k >= off /\ Open /\ ClosesFrom(k)
  <2>1. Due(k) = Pass BY <1>1, <1>7 DEF Due
  <2>2. PICK e \in k .. Len(body) : Closes(Start, e) BY <1>7 DEF ClosesFrom
  <2>3. loopOff <= k BY <1>1, <1>7 DEF Account, Loops, Open
  <2> QED BY <1>1, <1>2, <1>3, <1>4, <1>7, <2>1, <2>2, <2>3
<1>8. CASE k >= off /\ ~(Open /\ ClosesFrom(k)) BY <1>1, <1>2, <1>8 DEF Due
<1> QED BY <1>1, <1>5, <1>6, <1>7, <1>8

LEMMA AllRead ==
  ASSUME Account, off = Len(body) + 1, NEW k \in 1 .. Len(body)
  PROVE times[k] = Passes(k)
<1>1. Len(body) \in Nat /\ loopOff \in Nat /\ k < off /\ times[k] = Due(k) BY LenProperties DEF Account
<1>2. ~ClosesFrom(off) BY <1>1 DEF ClosesFrom
<1>3. CASE Open /\ loopOff <= k
  <2>1. Pass = 0 BY <1>2, <1>3, PassType DEF Account, Loops
  <2>2. Passes(k) = 1 BY <1>1, <1>2, <1>3, Unclosed
  <2> QED BY <1>1, <1>3, <2>1, <2>2 DEF Due
<1>4. CASE ~(Open /\ loopOff <= k) BY <1>1, <1>4 DEF Due
<1> QED BY <1>3, <1>4

----------------------------------------------------------------------------
(* Every block keeps the account. *)

\* What a block leaves alone and what it counts.
Reads ==
  /\ body' = body /\ off \in 1 .. Len(body)
  /\ times' = [times EXCEPT ![off] = @ + 1]

LEMMA ReadsFacts ==
  ASSUME Account, Reads
  PROVE /\ Len(body) \in Nat /\ off \in 1 .. Len(body) /\ loopOff \in Nat /\ loopLeft \in Nat
        /\ times' \in [1 .. Len(body) -> Nat] /\ times'[off] = times[off] + 1
        /\ \A k \in 1 .. Len(body) : k # off => times'[k] = times[k]
        /\ \A k : Passes(k)' = Passes(k) /\ Count(k)' = Count(k)
        /\ \A s, e : Closes(s, e)' <=> Closes(s, e)
<1>1. Len(body) \in Nat /\ off \in 1 .. Len(body) /\ loopOff \in Nat /\ loopLeft \in Nat
      /\ times \in [1 .. Len(body) -> Nat]
  BY LenProperties DEF Account, Reads
<1>2. times' \in [1 .. Len(body) -> Nat] /\ times'[off] = times[off] + 1
      /\ \A k \in 1 .. Len(body) : k # off => times'[k] = times[k]
  BY <1>1 DEF Reads
<1>3. ASSUME NEW k PROVE Passes(k)' = Passes(k) /\ Count(k)' = Count(k)
  BY DEF Reads, Passes, Count, Closes, Structural
<1>4. ASSUME NEW s, NEW e PROVE Closes(s, e)' <=> Closes(s, e) BY DEF Reads, Closes, Structural
<1> QED BY <1>1, <1>2, <1>3, <1>4

\* No loop is closed across the start or the end of another.
LEMMA NotAcross ==
  ASSUME NEW s \in Int, NEW e \in Int, NEW k \in Int, Structural(k), s < k, k < e
  PROVE ~Closes(s, e)
<1>1. k \in s + 1 .. e - 1 OBVIOUS
<1> QED BY <1>1 DEF Closes

\* A block that is no part of a loop.
LEMMA OtherKeeps ==
  ASSUME Account, Reads, ~Structural(off), off' = off + 1, loopOff' = loopOff, loopLeft' = loopLeft
  PROVE Account'
<1>1. /\ Len(body) \in Nat /\ off \in 1 .. Len(body) /\ loopOff \in Nat /\ loopLeft \in Nat
      /\ times' \in [1 .. Len(body) -> Nat] /\ times'[off] = times[off] + 1
      /\ \A k \in 1 .. Len(body) : k # off => times'[k] = times[k]
      /\ \A k : Passes(k)' = Passes(k) /\ Count(k)' = Count(k)
      /\ \A s, e : Closes(s, e)' <=> Closes(s, e)
  BY ReadsFacts
<1>2. Start' = Start BY DEF Start
<1>3. Open' <=> Open
  <2>1. \A j : Structural(j)' <=> Structural(j) BY DEF Structural, Reads
  <2>2. loopOff > 0 => loopOff \in 2 .. off BY DEF Account, Loops
  <2>3. loopOff > 0 => \A j : j \in loopOff .. off <=> j \in loopOff .. off - 1 \/ j = off BY <1>1, <2>2
  <2> QED BY <1>1, <2>1, <2>3 DEF Open
<1>4. Pass' = Pass BY <1>1, <1>2, <1>3 DEF Pass
<1>5. \A k : ClosesFrom(k)' <=> ClosesFrom(k) BY <1>1, <1>2 DEF ClosesFrom, Reads
<1>6. ClosesFrom(off) => ClosesFrom(off + 1)
  <2>1. SUFFICES ASSUME NEW e \in off .. Len(body), Closes(Start, e) PROVE ClosesFrom(off + 1) BY DEF ClosesFrom
  <2>2. e # off BY <2>1 DEF Closes, Structural
  <2>3. e \in off + 1 .. Len(body) BY <1>1, <2>2
  <2> QED BY <2>1, <2>3 DEF ClosesFrom
<1>7. Loops'
  <2>1. (loopOff > 0 => loopOff \in 2 .. off /\ body[Start].kind = "loop")' BY <1>1, <1>2 DEF Account, Loops, Reads
  <2>2. (\A j \in 1 .. off - 1 : loopOff <= j => body[j].kind # "loop")'
    <3>1. SUFFICES ASSUME NEW j \in 1 .. off, loopOff <= j PROVE body[j].kind # "loop" BY <1>1 DEF Reads
    <3>2. CASE j = off BY <3>2 DEF Structural
    <3>3. CASE j # off
      <4>1. j \in 1 .. off - 1 BY <1>1, <3>3
      <4> QED BY <3>1, <4>1 DEF Account, Loops
    <3> QED BY <3>2, <3>3
  <2>3. (loopLeft > 0 => Open)' BY <1>3 DEF Account, Loops
  <2>4. (Open => loopLeft < Count(Start) /\ (Pass > 0 => ClosesFrom(off)))'
    <3>1. Count(Start)' = Count(Start) BY <1>2 DEF Count, Reads
    <3>2. ClosesFrom(off)' <=> ClosesFrom(off + 1) BY <1>1, <1>2 DEF ClosesFrom, Reads
    <3> QED BY <1>3, <1>4, <1>6, <3>1, <3>2 DEF Account, Loops
  <2> QED BY <2>1, <2>2, <2>3, <2>4 DEF Loops
<1>8. ASSUME NEW k \in 1 .. Len(body) PROVE times'[k] = Due(k)'
  <2>1. times[k] = Due(k) BY DEF Account
  <2>2. Due(k)' = IF k < off + 1 THEN IF Open /\ loopOff <= k THEN Pass + 1 ELSE Passes(k)
                  ELSE IF Open /\ ClosesFrom(k) THEN Pass ELSE 0
    BY <1>1, <1>3, <1>4, <1>5 DEF Due
  <2>3. CASE k = off
    <3>1. CASE Open
      <4>1. loopOff <= off BY <1>1 DEF Account, Loops
      <4>2. times[off] = Pass BY <1>1, <2>1, <2>3, <3>1, PassType DEF Due, Account, Loops
      <4> QED BY <1>1, <2>2, <2>3, <3>1, <4>1, <4>2
    <3>2. CASE ~Open
      <4>1. times[off] = 0 BY <1>1, <2>1, <2>3, <3>2 DEF Due
      <4>2. Passes(off) = 1 BY <3>2, NoneOpen
      <4> QED BY <1>1, <2>2, <2>3, <3>2, <4>1, <4>2
    <3> QED BY <3>1, <3>2
  <2>4. CASE k # off
    <3>1. (k < off + 1) <=> (k < off) BY <1>1, <2>4
    <3> QED BY <1>1, <2>1, <2>2, <2>4, <3>1 DEF Due
  <2> QED BY <2>3, <2>4
<1> QED BY <1>1, <1>7, <1>8 DEF Account, Reads

\* A loop starts: the one before it, if it was never closed, is forgotten.
LEMMA StartKeeps ==
  ASSUME Account, Reads, body[off].kind = "loop", off' = off + 1, loopOff' = off + 1,
         loopLeft' = IF body[off].n > 0 THEN body[off].n - 1 ELSE 0
  PROVE Account'
<1>1. /\ Len(body) \in Nat /\ off \in 1 .. Len(body) /\ loopOff \in Nat /\ loopLeft \in Nat
      /\ times' \in [1 .. Len(body) -> Nat] /\ times'[off] = times[off] + 1
      /\ \A k \in 1 .. Len(body) : k # off => times'[k] = times[k]
      /\ \A k : Passes(k)' = Passes(k) /\ Count(k)' = Count(k)
      /\ \A s, e : Closes(s, e)' <=> Closes(s, e)
  BY ReadsFacts
<1>2. Start' = off BY <1>1 DEF Start
<1>3. Open' BY <1>1 DEF Open
<1>4. Count(off) \in Nat \ {0} /\ loopLeft' = Count(off) - 1
  <2>1. body[off] \in BlockType BY <1>1, ElementOfSeq DEF Account
  <2>2. body[off].n \in Nat BY <2>1 DEF BlockType, DataBlock
  <2> QED BY <2>2 DEF Count
<1>5. Count(Start)' = Count(off) BY <1>2 DEF Count, Reads
<1>6. Pass' = 0 BY <1>3, <1>4, <1>5 DEF Pass
<1>7. Structural(off) BY DEF Structural
<1>8. ASSUME NEW s \in 1 .. off - 1, NEW e \in off .. Len(body) PROVE ~Closes(s, e)
  <2>1. CASE e = off BY <2>1 DEF Closes
  <2>2. CASE e # off BY <1>1, <1>7, <2>2, NotAcross
  <2> QED BY <2>1, <2>2
<1>9. Open => \A k \in off .. Len(body) : ~ClosesFrom(k)
  <2>1. SUFFICES ASSUME Open, NEW k \in off .. Len(body), NEW e \in k .. Len(body), Closes(Start, e) PROVE FALSE
    BY DEF ClosesFrom
  <2>2. Start \in 1 .. off - 1 /\ e \in off .. Len(body) BY <1>1, <2>1, PassType
  <2> QED BY <1>8, <2>1, <2>2
<1>10. Loops'
  <2>1. (loopOff > 0 => loopOff \in 2 .. off /\ body[Start].kind = "loop")' BY <1>1, <1>2 DEF Reads
  <2>2. (\A j \in 1 .. off - 1 : loopOff <= j => body[j].kind # "loop")' BY <1>1
  <2>3. (Open => loopLeft < Count(Start) /\ (Pass > 0 => ClosesFrom(off)))' BY <1>4, <1>5, <1>6
  <2> QED BY <1>3, <2>1, <2>2, <2>3 DEF Loops
<1>11. ASSUME NEW k \in 1 .. Len(body) PROVE times'[k] = Due(k)'
  <2>1. times[k] = Due(k) BY DEF Account
  <2>2. Due(k)' = IF k < off + 1 THEN Passes(k) ELSE 0 BY <1>1, <1>3, <1>6 DEF Due
  <2>3. CASE k = off
    <3>1. times[off] = 0 BY <1>1, <1>9, <2>1, <2>3 DEF Due
    <3>2. Passes(off) = 1 BY <1>1, <1>8, PassesOut
    <3> QED BY <1>1, <2>2, <2>3, <3>1, <3>2
  <2>4. CASE k < off
    <3>1. CASE Open /\ loopOff <= k
      <4>1. ~ClosesFrom(off) BY <1>1, <1>9, <3>1
      <4>2. Pass = 0 BY <3>1, <4>1, PassType DEF Account, Loops
      <4>3. Passes(k) = 1 BY <1>1, <2>4, <3>1, <4>1, Unclosed
      <4> QED BY <1>1, <2>1, <2>2, <2>4, <3>1, <4>2, <4>3 DEF Due
    <3>2. CASE ~(Open /\ loopOff <= k) BY <1>1, <2>1, <2>2, <2>4, <3>2 DEF Due
    <3> QED BY <3>1, <3>2
  <2>5. CASE k > off BY <1>1, <1>9, <2>1, <2>2, <2>5 DEF Due
  <2> QED BY <1>1, <2>3, <2>4, <2>5
<1> QED BY <1>1, <1>4, <1>10, <1>11 DEF Account, Reads

\* The end of a loop with passes left: one pass more is complete, and the reader goes back.
LEMMA BackKeeps ==
  ASSUME Account, Reads, body[off].kind = "endloop", LoopsBack,
         off' = loopOff, loopOff' = loopOff, loopLeft' = loopLeft - 1
  PROVE Account'
<1>1. /\ Len(body) \in Nat /\ off \in 1 .. Len(body) /\ loopOff \in Nat /\ loopLeft \in Nat
      /\ times' \in [1 .. Len(body) -> Nat] /\ times'[off] = times[off] + 1
      /\ \A k \in 1 .. Len(body) : k # off => times'[k] = times[k]
      /\ \A k : Passes(k)' = Passes(k) /\ Count(k)' = Count(k)
      /\ \A s, e : Closes(s, e)' <=> Closes(s, e)
  BY ReadsFacts
<1>2. Open /\ loopLeft > 0 /\ loopOff \in 2 .. off /\ body[Start].kind = "loop" BY <1>1 DEF LoopsBack, Account, Loops
<1>3. Start \in 1 .. off - 1 /\ Count(Start) \in Nat /\ Pass = Count(Start) - 1 - loopLeft /\ Pass \in Nat
      /\ loopLeft < Count(Start)
  BY <1>2, PassType DEF Account, Loops
<1>4. Start' = Start BY DEF Start
<1>5. Open' BY <1>1, <1>2 DEF Open
<1>6. Count(Start)' = Count(Start) BY <1>4 DEF Count, Reads
<1>7. Pass' = Pass + 1 BY <1>1, <1>3, <1>5, <1>6 DEF Pass
<1>8. Closes(Start, off)
  <2>1. \A j \in Start + 1 .. off - 1 : j \in loopOff .. off - 1 BY <1>1, <1>2 DEF Start
  <2> QED BY <1>2, <2>1 DEF Closes, Open
<1>9. \A k : ClosesFrom(k)' <=> ClosesFrom(k) BY <1>1, <1>4 DEF ClosesFrom, Reads
<1>10. ASSUME NEW k \in 1 .. Len(body) PROVE ClosesFrom(k) <=> k <= off
  <2>1. CASE k <= off
    <3>1. off \in k .. Len(body) BY <1>1, <2>1
    <3> QED BY <1>8, <2>1, <3>1 DEF ClosesFrom
  <2>2. CASE k > off
    <3>1. Structural(off) BY DEF Structural
    <3>2. \A e \in k .. Len(body) : ~Closes(Start, e) BY <1>1, <1>3, <2>2, <3>1, NotAcross
    <3> QED BY <1>1, <2>2, <3>2 DEF ClosesFrom
  <2> QED BY <1>1, <2>1, <2>2
<1>11. Loops'
  <2>1. (loopOff > 0 => loopOff \in 2 .. off /\ body[Start].kind = "loop")' BY <1>1, <1>2, <1>4 DEF Reads
  <2>2. (\A j \in 1 .. off - 1 : loopOff <= j => body[j].kind # "loop")' BY <1>1
  <2>3. (Open => loopLeft < Count(Start) /\ (Pass > 0 => ClosesFrom(off)))'
    <3>1. loopOff \in 1 .. Len(body) /\ loopOff <= off BY <1>1, <1>2
    <3>2. ClosesFrom(loopOff) BY <1>10, <3>1
    <3>3. ClosesFrom(off)'
      <4>1. ClosesFrom(off)' <=> ClosesFrom(loopOff) BY <1>1, <1>4 DEF ClosesFrom, Reads
      <4> QED BY <3>2, <4>1
    <3> QED BY <1>1, <1>3, <1>6, <3>3
  <2> QED BY <1>5, <2>1, <2>2, <2>3 DEF Loops
<1>12. ASSUME NEW k \in 1 .. Len(body) PROVE times'[k] = Due(k)'
  <2>1. times[k] = Due(k) BY DEF Account
  <2>2. Due(k)' = IF k < loopOff THEN Passes(k) ELSE IF k <= off THEN Pass + 1 ELSE 0
    BY <1>1, <1>2, <1>5, <1>7, <1>9, <1>10 DEF Due
  <2>3. CASE k < loopOff BY <1>1, <1>2, <2>1, <2>2, <2>3 DEF Due
  <2>4. CASE k >= loopOff /\ k < off BY <1>1, <1>2, <2>1, <2>2, <2>4 DEF Due
  <2>5. CASE k = off
    <3>1. times[off] = Pass BY <1>1, <1>2, <1>10, <2>1, <2>5 DEF Due
    <3> QED BY <1>1, <1>2, <2>2, <2>5, <3>1
  <2>6. CASE k > off BY <1>1, <1>2, <1>10, <2>1, <2>2, <2>6 DEF Due
  <2> QED BY <1>1, <1>2, <2>3, <2>4, <2>5, <2>6
<1> QED BY <1>1, <1>2, <1>11, <1>12 DEF Account, Reads

\* The end of the last pass, or of no loop at all.
LEMMA OverKeeps ==
  ASSUME Account, Reads, body[off].kind = "endloop", ~LoopsBack,
         off' = off + 1, loopOff' = loopOff, loopLeft' = loopLeft
  PROVE Account'
<1>1. /\ Len(body) \in Nat /\ off \in 1 .. Len(body) /\ loopOff \in Nat /\ loopLeft \in Nat
      /\ times' \in [1 .. Len(body) -> Nat] /\ times'[off] = times[off] + 1
      /\ \A k \in 1 .. Len(body) : k # off => times'[k] = times[k]
      /\ \A k : Passes(k)' = Passes(k) /\ Count(k)' = Count(k)
      /\ \A s, e : Closes(s, e)' <=> Closes(s, e)
  BY ReadsFacts
<1>2. loopLeft = 0 BY <1>1 DEF LoopsBack, Account, Loops, Open
<1>3. Structural(off) BY DEF Structural
<1>4. loopOff > 0 => loopOff \in 2 .. off /\ body[Start].kind = "loop" BY DEF Account, Loops
<1>5. ~Open' BY <1>1, <1>3, <1>4 DEF Open, Structural, Reads
<1>6. Loops'
  <2>1. (loopOff > 0 => loopOff \in 2 .. off /\ body[Start].kind = "loop")' BY <1>1, <1>4 DEF Start, Reads
  <2>2. (\A j \in 1 .. off - 1 : loopOff <= j => body[j].kind # "loop")'
    <3>1. SUFFICES ASSUME NEW j \in 1 .. off, loopOff <= j PROVE body[j].kind # "loop" BY <1>1 DEF Reads
    <3>2. CASE j = off BY <3>2
    <3>3. CASE j # off
      <4>1. j \in 1 .. off - 1 BY <1>1, <3>3
      <4> QED BY <3>1, <4>1 DEF Account, Loops
    <3> QED BY <3>2, <3>3
  <2> QED BY <1>2, <1>5, <2>1, <2>2 DEF Loops
<1>7. ASSUME NEW k \in 1 .. Len(body) PROVE times'[k] = Due(k)'
  <2>1. times[k] = Due(k) BY DEF Account
  <2>2. Due(k)' = IF k < off + 1 THEN Passes(k) ELSE 0 BY <1>1, <1>5 DEF Due
  <2>3. CASE Open
    <3>1. Start \in 1 .. off - 1 /\ Count(Start) \in Nat /\ Pass + 1 = Count(Start) /\ loopOff \in 2 .. off
          /\ Start = loopOff - 1
      BY <1>1, <1>2, <1>4, <2>3, PassType DEF Open, Start
    <3>2. Closes(Start, off)
      <4>1. \A j \in Start + 1 .. off - 1 : j \in loopOff .. off - 1 BY <1>1, <3>1
      <4> QED BY <1>4, <2>3, <3>1, <4>1 DEF Closes, Open
    <3>3. CASE k < loopOff BY <1>1, <2>1, <2>2, <3>1, <3>3 DEF Due
    <3>4. CASE k >= loopOff /\ k <= off
      <4>1. Start \in 1 .. k - 1 /\ off \in k .. Len(body) BY <1>1, <3>1, <3>4
      <4>2. Passes(k) = Count(Start) BY <1>1, <3>2, <4>1, PassesIn
      <4>3. k = off => ClosesFrom(k) BY <1>1, <3>2 DEF ClosesFrom
      <4>4. Due(k) = IF k < off THEN Pass + 1 ELSE Pass BY <1>1, <2>3, <3>4, <4>3 DEF Due
      <4> QED BY <1>1, <2>1, <2>2, <3>1, <3>4, <4>2, <4>4
    <3>5. CASE k > off
      <4>1. \A e \in k .. Len(body) : ~Closes(Start, e) BY <1>1, <1>3, <3>1, <3>5, NotAcross
      <4> QED BY <1>1, <2>1, <2>2, <3>5, <4>1 DEF Due, ClosesFrom
    <3> QED BY <1>1, <3>1, <3>3, <3>4, <3>5
  <2>4. CASE ~Open
    <3>1. Passes(off) = 1 BY <2>4, NoneOpen
    <3> QED BY <1>1, <2>1, <2>2, <2>4, <3>1 DEF Due
  <2> QED BY <2>3, <2>4
<1> QED BY <1>1, <1>6, <1>7 DEF Account, Reads

----------------------------------------------------------------------------
(* The account of a whole file. *)

\* The account while the file is read, what follows from it afterwards, and a recording,
\* which has no blocks.
Accounted ==
  /\ status = "blocks" => Account
  /\ status # "blocks" => LoopsPlayOut
  /\ status = "samples" => times = <<>>

\* The account says of the tape so far what LoopsPlayOut does.
LEMMA PlayedOut ==
  ASSUME Account, status = "parsed" => off = Len(body) + 1 \/ \E k \in DOMAIN times : Broken(k)
  PROVE LoopsPlayOut
<1>1. DOMAIN times = 1 .. Len(body) BY DEF Account
<1>2. \A k \in DOMAIN times : times[k] <= Passes(k) BY <1>1, NeverMore
<1>3. (status = "parsed" /\ \A k \in DOMAIN times : ~Broken(k)) => \A k \in DOMAIN times : times[k] = Passes(k)
  BY <1>1, AllRead
<1> QED BY <1>2, <1>3 DEF LoopsPlayOut

\* The account is kept, whatever becomes of the rest.
LEMMA AccountSame ==
  ASSUME Account, UNCHANGED <<body, off, loopOff, loopLeft, times>>
  PROVE Account'
<1>1. \A k : Structural(k)' <=> Structural(k) BY DEF Structural
<1>2. \A s, e : Closes(s, e)' <=> Closes(s, e) BY DEF Closes, Structural
<1>3. ASSUME NEW k PROVE Passes(k)' = Passes(k) BY DEF Passes, Closes, Structural
<1>4. Start' = Start /\ (Open' <=> Open) BY <1>1 DEF Start, Open
<1>5. Pass' = Pass BY <1>4 DEF Pass, Count
<1>6. ASSUME NEW k PROVE ClosesFrom(k)' <=> ClosesFrom(k) BY <1>2, <1>4 DEF ClosesFrom
<1>7. ASSUME NEW k PROVE Due(k)' = Due(k) BY <1>3, <1>4, <1>5, <1>6 DEF Due
<1>8. Count(Start)' = Count(Start) BY <1>4 DEF Count
<1>9. ClosesFrom(off)' <=> ClosesFrom(off) BY <1>2, <1>4 DEF ClosesFrom
<1>10. Loops' BY <1>4, <1>5, <1>8, <1>9 DEF Account, Loops
<1> QED BY <1>7, <1>10 DEF Account

LEMMA LoopsPlayOutSame ==
  ASSUME LoopsPlayOut, UNCHANGED <<body, times>>, status' # "parsed" \/ status = "parsed"
  PROVE LoopsPlayOut'
BY DEF LoopsPlayOut, Passes, Closes, Structural, Broken

\* A block is read: the ordinary kinds go on or give up the file, the loops go back.
LEMMA ReadBlockAccounted ==
  ASSUME Account, ReadBlock
  PROVE Accounted'
<1>1. status = "blocks" /\ Reads
  <2>1. PICK kind : Block(kind)
    BY DEF ReadBlock, StandardData, TurboData, PureData, Pulses, Csw, StopOrPause, LoopStart, LoopEnd, Info, Unknown,
       Generalized
  <2>2. Len(body) \in Nat /\ off \in 1 .. Len(body) + 1 BY LenProperties DEF Account
  <2>3. off <= Len(body) /\ body' = body BY <2>1 DEF Block
  <2>4. times' = [times EXCEPT ![off] = @ + 1] /\ status = "blocks" BY <2>1 DEF Block, InBlocks
  <2> QED BY <2>2, <2>3, <2>4 DEF Reads
<1>2. times' \in [1 .. Len(body) -> Nat] /\ off \in DOMAIN times' BY <1>1, ReadsFacts
<1>3. CASE LoopStart
  <2>1. status' = "blocks" BY <1>1, <1>3 DEF LoopStart
  <2>2. Account' BY <1>1, <1>3, StartKeeps DEF LoopStart, Block
  <2> QED BY <2>1, <2>2 DEF Accounted
<1>4. CASE LoopEnd
  <2>1. status' = "blocks" BY <1>1, <1>4 DEF LoopEnd
  <2>2. CASE LoopsBack BY <1>1, <1>4, <2>2, BackKeeps DEF LoopEnd, Block, Accounted
  <2>3. CASE ~LoopsBack BY <1>1, <1>4, <2>3, OverKeeps DEF LoopEnd, Block, Accounted
  <2> QED BY <2>1, <2>2, <2>3 DEF Accounted
<1>5. ASSUME ~Structural(off), off' = off + 1, loopOff' = loopOff, loopLeft' = loopLeft,
             status' = "blocks" \/ (status' = "parsed" /\ Broken(off))
      PROVE Accounted'
  <2>1. Account' BY <1>1, <1>5, OtherKeeps
  <2>2. CASE status' = "blocks" BY <2>1, <2>2 DEF Accounted
  <2>3. CASE status' = "parsed" /\ Broken(off)
    <3>1. \A k : Broken(k)' <=> Broken(k) BY <1>1 DEF Broken, Reads
    <3>2. (\E k \in DOMAIN times : Broken(k))' BY <1>2, <2>3, <3>1
    <3>3. LoopsPlayOut' BY <2>1, <3>2, PlayedOut, PTL
    <3> QED BY <2>3, <3>3 DEF Accounted
  <2> QED BY <1>5, <2>2, <2>3
<1>6. CASE StandardData \/ TurboData \/ PureData \/ Pulses \/ Csw \/ StopOrPause \/ Info \/ Unknown \/ Generalized
  <2>1. ~Structural(off) BY <1>6 DEF StandardData, TurboData, PureData, Pulses, Csw, StopOrPause, Info, Unknown,
     Generalized, Block, Structural
  <2>2. off' = off + 1 /\ loopOff' = loopOff /\ loopLeft' = loopLeft
    BY <1>6 DEF StandardData, TurboData, PureData, Pulses, Csw, StopOrPause, Info, Unknown, Generalized, Onward, GiveUp, loop
  <2>3. status' = "blocks" \/ (status' = "parsed" /\ Broken(off))
    BY <1>1, <1>6 DEF StandardData, TurboData, PureData, Pulses, Csw, StopOrPause, Info, Unknown, Generalized,
       Onward, GiveUp, Block, Broken
  <2> QED BY <1>5, <2>1, <2>2, <2>3
<1> QED BY <1>3, <1>4, <1>6 DEF ReadBlock

LEMMA NextAccounted == ASSUME Inv, Accounted, [Next]_vars PROVE Accounted'
<1>1. CASE ReadBlock BY <1>1, ReadBlockAccounted
        DEF Accounted, ReadBlock, StandardData, TurboData, PureData, Pulses, Csw, StopOrPause, LoopStart, LoopEnd,
            Info, Unknown, Generalized, Block, InBlocks
<1>2. CASE (NextSymbol \/ AfterSymbols)
  <2>1. status = "blocks" /\ status' = "blocks" /\ UNCHANGED <<body, off, loopOff, loopLeft, times>>
    BY <1>2 DEF NextSymbol, AfterSymbols, loop
  <2> QED BY <2>1, AccountSame DEF Accounted
<1>3. CASE EndOfFile
  <2>1. status = "blocks" /\ status' = "parsed" /\ UNCHANGED <<body, off, loopOff, loopLeft, times>> /\ off > Len(body)
    BY <1>3 DEF EndOfFile, InBlocks, loop
  <2>2. Account BY <2>1 DEF Accounted
  <2>3. off = Len(body) + 1 BY <2>1, <2>2, LenProperties DEF Account
  <2>4. Account' BY <2>1, <2>2, AccountSame
  <2>5. (off = Len(body) + 1)' BY <2>1, <2>3
  <2>6. LoopsPlayOut' BY <2>4, <2>5, PlayedOut, PTL
  <2> QED BY <2>1, <2>6 DEF Accounted
<1>4. CASE TakeSample \/ Sampled
  <2>1. status = "samples" /\ times' = <<>> /\ status' # "blocks" BY <1>4 DEF TakeSample, Sampled, Accounted
  <2>2. LoopsPlayOut'
    <3>1. \A k \in DOMAIN times' : FALSE BY <2>1, EmptySeq
    <3> QED BY <3>1 DEF LoopsPlayOut
  <2> QED BY <2>1, <2>2 DEF Accounted
<1>5. CASE Attach
  <2>1. status = "parsed" /\ status' \in {"failed", "attached"} /\ UNCHANGED <<body, times>> BY <1>5 DEF Attach
  <2> QED BY <2>1, LoopsPlayOutSame DEF Accounted
<1>6. CASE Loaded \/ UNCHANGED vars
  <2>1. UNCHANGED <<status, body, off, loopOff, loopLeft, times>> BY <1>6 DEF Loaded, vars, loop
  <2> QED BY <2>1, AccountSame, LoopsPlayOutSame DEF Accounted
<1> QED BY <1>1, <1>2, <1>3, <1>4, <1>5, <1>6 DEF Next, Step

\* For every file: no block is ever read more often than the loop around it says, and once
\* a file without a broken block is parsed every block has been read exactly that often.
THEOREM FileLoopsPlayOut == Spec => []LoopsPlayOut
<1>1. Init => Accounted
  <2>1. CASE OfFile /\ Init
    <3>1. body \in Seq(BlockType) BY <2>1, FileAssumption DEF OfFile
    <3>2. Len(body) \in Nat BY <3>1, LenProperties
    <3>3. off = 1 /\ loopOff = 0 /\ loopLeft = 0 /\ status = "blocks" /\ times = [k \in 1 .. Len(body) |-> 0]
      BY <2>1 DEF Init, OfFile
    <3>4. ~Open BY <3>3 DEF Open
    <3>5. Loops BY <3>3, <3>4 DEF Loops
    <3>6. \A k \in 1 .. Len(body) : times[k] = Due(k) BY <3>2, <3>3, <3>4 DEF Due
    <3> QED BY <3>1, <3>2, <3>3, <3>5, <3>6 DEF Account, Accounted
  <2>2. CASE OfRecording
    <3>1. \A k \in DOMAIN times : FALSE BY <2>2, EmptySeq DEF OfRecording
    <3> QED BY <2>2, <3>1 DEF OfRecording, Accounted, LoopsPlayOut
  <2> QED BY <2>1, <2>2 DEF Init
<1>2. Inv /\ Accounted /\ [Next]_vars => Accounted' BY NextAccounted
<1>3. Accounted => LoopsPlayOut
  <2>1. CASE status = "blocks" BY <2>1, PlayedOut DEF Accounted
  <2> QED BY <2>1 DEF Accounted
<1> QED BY <1>1, <1>2, <1>3, Invariant, PTL DEF Spec

----------------------------------------------------------------------------
(* The signal of a list of pulses. *)

Total(ds) == Ends(ds)[Len(ds)]
High(ds, L) == UNION {Ends(ds)[k - 1] .. Ends(ds)[k] - 1 : k \in {j \in 1 .. Len(ds) : L[j] = 1}}

\* Ends is what its recursion says.
LEMMA EndsStep ==
  ASSUME NEW ds \in Seq(Nat)
  PROVE  /\ Len(ds) \in Nat /\ Ends(ds) \in [0 .. Len(ds) -> Nat] /\ Ends(ds)[0] = 0
         /\ \A k \in 1 .. Len(ds) : k - 1 \in 0 .. Len(ds) /\ ds[k] \in Nat /\ Ends(ds)[k] = Ends(ds)[k - 1] + ds[k]
<1> DEFINE n == Len(ds)
           g == [k \in 1 .. n |-> [x \in Nat |-> x + ds[k]]]
           e == CHOOSE e : e = [k \in 0 .. n |-> IF k = 0 THEN 0 ELSE e[k - 1] + ds[k]]
<1>1. n \in Nat /\ \A k \in 1 .. n : ds[k] \in Nat BY LenProperties, ElementOfSeq
<1> HIDE DEF n
<1>2. \A k \in 0 .. n : k # 0 => k \in 1 .. n /\ k - 1 \in 0 .. n BY <1>1
<1>3. \A k \in 1 .. n : k \in 0 .. n /\ k # 0 /\ k - 1 \in 0 .. n BY <1>1
<1>4. PICK f \in [0 .. n -> Nat] : f[0] = 0 /\ \A k \in 1 .. n : f[k] = g[k][f[k - 1]]
  <2>1. g \in [1 .. n -> [Nat -> Nat]] BY <1>1
  <2>2. Recursions(n, Nat, 0, g) # {}
    <3> HIDE DEF g
    <3> QED BY <1>1, <2>1, Recursive
  <2> QED BY <2>2 DEF Recursions
<1>5. \A k \in 1 .. n : f[k] = f[k - 1] + ds[k]
  <2>1. \A k \in 1 .. n : f[k - 1] \in Nat BY <1>3, <1>4
  <2> QED BY <1>4, <2>1
<1>6. f = [k \in 0 .. n |-> IF k = 0 THEN 0 ELSE f[k - 1] + ds[k]]
  <2>1. \A k \in 0 .. n : f[k] = IF k = 0 THEN 0 ELSE f[k - 1] + ds[k] BY <1>2, <1>4, <1>5
  <2> QED BY <1>4, <2>1
<1>7. e = [k \in 0 .. n |-> IF k = 0 THEN 0 ELSE e[k - 1] + ds[k]]
  <2>1. \E x : x = [k \in 0 .. n |-> IF k = 0 THEN 0 ELSE x[k - 1] + ds[k]] BY <1>6, Zenon
  <2> QED BY <2>1, Zenon
<1>8. Ends(ds) = e BY Zenon DEF Ends, n
<1> HIDE DEF e
<1>9. 0 \in 0 .. n BY <1>1
<1>10. e[0] = 0 /\ \A k \in 1 .. n : e[k] = e[k - 1] + ds[k] BY <1>3, <1>7, <1>9, Zenon
<1>11. \A k \in 1 .. n : e[k - 1] = f[k - 1] => e[k] = f[k] BY <1>5, <1>10
<1>12. \A k \in 0 .. n : e[k] = f[k]
  <2>1. n \in Nat /\ e[0] = f[0] BY <1>1, <1>4, <1>10
  <2> QED BY <1>11, <2>1, SameRecursion, Zenon
<1>13. e \in [0 .. n -> Nat]
  <2>1. e = [k \in 0 .. n |-> e[k]] BY <1>7
  <2>2. \A k \in 0 .. n : e[k] \in Nat BY <1>4, <1>12
  <2> QED BY <2>1, <2>2
<1> QED BY <1>1, <1>3, <1>8, <1>10, <1>13 DEF n

LEMMA TotalNat == ASSUME NEW ds \in Seq(Nat) PROVE Total(ds) \in Nat
<1>1. Len(ds) \in 0 .. Len(ds) BY EndsStep
<1> QED BY <1>1, EndsStep DEF Total

\* What is joined to a tape begins where the tape ends.
LEMMA EndsJoined ==
  ASSUME NEW ds \in Seq(Nat), NEW es \in Seq(Nat)
  PROVE  /\ ds \o es \in Seq(Nat) /\ Len(ds \o es) = Len(ds) + Len(es)
         /\ \A k \in 0 .. Len(ds) : Ends(ds \o es)[k] = Ends(ds)[k]
         /\ \A j \in 0 .. Len(es) : Ends(ds \o es)[Len(ds) + j] = Total(ds) + Ends(es)[j]
<1> DEFINE a == Ends(ds)
           b == Ends(es)
           c == Ends(ds \o es)
           n == Len(ds)
           m == Len(es)
<1>1. /\ ds \o es \in Seq(Nat) /\ Len(ds \o es) = n + m /\ n \in Nat /\ m \in Nat
      /\ \A k \in 1 .. n : (ds \o es)[k] = ds[k]
      /\ \A j \in 1 .. m : (ds \o es)[n + j] = es[j]
  <2>1. n \in Nat /\ m \in Nat BY LenProperties
  <2>2. \A k \in 1 .. n + m : (ds \o es)[k] = IF k <= n THEN ds[k] ELSE es[k - n]
    BY ConcatProperties
  <2>3. \A k \in 1 .. n : k \in 1 .. n + m /\ k <= n BY <2>1
  <2>4. \A j \in 1 .. m : n + j \in 1 .. n + m /\ ~(n + j <= n) /\ (n + j) - n = j BY <2>1
  <2> QED BY <2>1, <2>2, <2>3, <2>4, ConcatProperties
<1>2. /\ a[0] = 0 /\ \A k \in 1 .. n : a[k] = a[k - 1] + ds[k]
      /\ b[0] = 0 /\ \A j \in 1 .. m : b[j] = b[j - 1] + es[j]
      /\ \A k \in 0 .. n : a[k] \in Nat
      /\ \A j \in 0 .. m : b[j] \in Nat
      /\ \A j \in 1 .. m : es[j] \in Nat /\ j - 1 \in 0 .. m
      /\ Total(ds) = a[n] /\ Total(ds) \in Nat
  BY EndsStep, TotalNat DEF Total
<1>3. c[0] = 0 /\ \A k \in 1 .. n + m : c[k] = c[k - 1] + (ds \o es)[k]
  <2> DEFINE s == ds \o es
  <2> HIDE DEF s
  <2>1. s \in Seq(Nat) /\ Len(s) = n + m BY <1>1 DEF s
  <2>2. Ends(s)[0] = 0 /\ \A k \in 1 .. n + m : Ends(s)[k] = Ends(s)[k - 1] + s[k] BY <2>1, EndsStep
  <2> QED BY <2>2 DEF s
<1> HIDE DEF a, b, c, n, m
<1>4. \A k \in 0 .. n : c[k] = a[k]
  <2>1. \A k \in 1 .. n : k \in 1 .. n + m BY <1>1
  <2>2. \A k \in 1 .. n : c[k - 1] = a[k - 1] => c[k] = a[k] BY <1>1, <1>2, <1>3, <2>1
  <2>3. n \in Nat /\ c[0] = a[0] BY <1>1, <1>2, <1>3
  <2> QED BY <2>2, <2>3, SameRecursion, Zenon
<1>5. \A j \in 0 .. m : c[n + j] = Total(ds) + b[j]
  <2> DEFINE f == [j \in 0 .. m |-> c[n + j]]
             h == [j \in 0 .. m |-> Total(ds) + b[j]]
  <2>1. f[0] = h[0]
    <3>1. n \in 0 .. n /\ 0 \in 0 .. m /\ n + 0 = n BY <1>1
    <3>2. c[n] = Total(ds) /\ Total(ds) + 0 = Total(ds) BY <1>2, <1>4, <3>1
    <3> QED BY <1>2, <3>1, <3>2
  <2>2. ASSUME NEW j \in 1 .. m, f[j - 1] = h[j - 1] PROVE f[j] = h[j]
    <3>1. j \in 0 .. m /\ j - 1 \in 0 .. m /\ n + j \in 1 .. n + m /\ (n + j) - 1 = n + (j - 1) BY <1>1
    <3>2. c[n + j] = c[n + (j - 1)] + es[j] BY <1>1, <1>3, <3>1
    <3>3. c[n + (j - 1)] = Total(ds) + b[j - 1] BY <2>2, <3>1
    <3>4. b[j] = b[j - 1] + es[j] /\ b[j - 1] \in Nat /\ es[j] \in Nat /\ Total(ds) \in Nat BY <1>2, <3>1
    <3>5. c[n + j] = Total(ds) + b[j] BY <3>2, <3>3, <3>4
    <3> QED BY <3>1, <3>5
  <2>3. \A j \in 1 .. m : f[j - 1] = h[j - 1] => f[j] = h[j] BY <2>2
  <2> HIDE DEF f, h
  <2>4. m \in Nat BY <1>1
  <2>5. \A j \in 0 .. m : f[j] = h[j] BY <2>1, <2>3, <2>4, SameRecursion, Zenon
  <2> QED BY <2>5 DEF f, h
<1> QED BY <1>1, <1>4, <1>5 DEF a, b, c, n, m

LEMMA HighIn ==
  ASSUME NEW ds, NEW L, NEW t
  PROVE  t \in High(ds, L) <=> \E k \in 1 .. Len(ds) : L[k] = 1 /\ t \in Ends(ds)[k - 1] .. Ends(ds)[k] - 1
  BY DEF High

\* Only the levels of the pulses matter.
LEMMA HighSame ==
  ASSUME NEW ds, NEW L, NEW M, \A k \in 1 .. Len(ds) : L[k] = M[k]
  PROVE  High(ds, L) = High(ds, M)
<1>1. {j \in 1 .. Len(ds) : L[j] = 1} = {j \in 1 .. Len(ds) : M[j] = 1} OBVIOUS
<1> QED BY <1>1 DEF High

\* The signal of two tapes in a row.
LEMMA HighJoined ==
  ASSUME NEW ds \in Seq(Nat), NEW es \in Seq(Nat), NEW L, NEW M, \A j \in 1 .. Len(es) : L[Len(ds) + j] = M[j]
  PROVE  /\ Total(ds \o es) = Total(ds) + Total(es)
         /\ High(ds \o es, L) = High(ds, L) \cup {Total(ds) + t : t \in High(es, M)}
<1> DEFINE n == Len(ds)
           m == Len(es)
           a == Ends(ds)
           b == Ends(es)
           c == Ends(ds \o es)
           T == Total(ds)
<1>1. /\ n \in Nat /\ m \in Nat /\ Len(ds \o es) = n + m /\ T \in Nat
      /\ \A k \in 0 .. n : c[k] = a[k] /\ a[k] \in Nat
      /\ \A j \in 0 .. m : c[n + j] = T + b[j] /\ b[j] \in Nat
  BY EndsJoined, EndsStep, TotalNat
<1>2. Total(ds \o es) = T + Total(es)
  <2>1. m \in 0 .. m BY <1>1
  <2> QED BY <1>1, <2>1 DEF Total
<1>3. \A t : t \in High(ds, L) <=> \E k \in 1 .. n : L[k] = 1 /\ t \in a[k - 1] .. a[k] - 1 BY HighIn
<1>4. \A t : t \in High(es, M) <=> \E j \in 1 .. m : M[j] = 1 /\ t \in b[j - 1] .. b[j] - 1 BY HighIn
<1>5. \A t : t \in High(ds \o es, L) <=> \E k \in 1 .. n + m : L[k] = 1 /\ t \in c[k - 1] .. c[k] - 1
  <2>1. \A t : t \in High(ds \o es, L) <=> \E k \in 1 .. Len(ds \o es) : L[k] = 1 /\ t \in c[k - 1] .. c[k] - 1
    BY HighIn
  <2> HIDE DEF c
  <2> QED BY <1>1, <2>1
<1>6. \A j \in 1 .. m : L[n + j] = M[j] OBVIOUS
<1> HIDE DEF a, b, c, T, n, m
<1>7. \A k \in 1 .. n : c[k - 1] = a[k - 1] /\ c[k] = a[k] /\ k \in 1 .. n + m
  <2>1. \A k \in 1 .. n : k - 1 \in 0 .. n /\ k \in 0 .. n /\ k \in 1 .. n + m BY <1>1
  <2> QED BY <1>1, <2>1
<1>8. \A j \in 1 .. m : /\ c[(n + j) - 1] = T + b[j - 1] /\ c[n + j] = T + b[j]
                        /\ b[j - 1] \in Nat /\ b[j] \in Nat /\ n + j \in 1 .. n + m
  <2>1. \A j \in 1 .. m : j - 1 \in 0 .. m /\ j \in 0 .. m /\ (n + j) - 1 = n + (j - 1) /\ n + j \in 1 .. n + m
    BY <1>1
  <2> QED BY <1>1, <2>1
<1>9. ASSUME NEW t, t \in High(ds, L) PROVE t \in High(ds \o es, L)
  <2>1. PICK k \in 1 .. n : L[k] = 1 /\ t \in a[k - 1] .. a[k] - 1 BY <1>3, <1>9
  <2> QED BY <1>5, <1>7, <2>1
<1>10. ASSUME NEW t \in High(es, M) PROVE T + t \in High(ds \o es, L)
  <2>1. PICK j \in 1 .. m : M[j] = 1 /\ t \in b[j - 1] .. b[j] - 1 BY <1>4
  <2>2. T + t \in c[(n + j) - 1] .. c[n + j] - 1
    <3>1. c[(n + j) - 1] = T + b[j - 1] /\ c[n + j] = T + b[j] /\ b[j - 1] \in Nat /\ b[j] \in Nat BY <1>8
    <3>2. \A x \in Nat, y \in Nat, z \in Nat : \A u \in y .. z - 1 : x + u \in x + y .. (x + z) - 1 OBVIOUS
    <3>3. T + t \in T + b[j - 1] .. (T + b[j]) - 1 BY <1>1, <2>1, <3>1, <3>2, Zenon
    <3> QED BY <3>1, <3>3
  <2>3. L[n + j] = 1 /\ n + j \in 1 .. n + m BY <1>6, <1>8, <2>1
  <2> QED BY <1>5, <2>2, <2>3
<1>11. ASSUME NEW t, t \in High(ds \o es, L)
       PROVE  t \in High(ds, L) \/ t \in {T + x : x \in High(es, M)}
  <2>1. PICK k \in 1 .. n + m : L[k] = 1 /\ t \in c[k - 1] .. c[k] - 1 BY <1>5, <1>11
  <2>2. CASE k <= n
    <3>1. k \in 1 .. n BY <1>1, <2>2
    <3> QED BY <1>3, <1>7, <2>1, <3>1
  <2>3. CASE ~(k <= n)
    <3> DEFINE j == k - n
    <3>1. j \in 1 .. m /\ n + j = k BY <1>1, <2>3
    <3> HIDE DEF j
    <3>2. /\ c[k - 1] = T + b[j - 1] /\ c[k] = T + b[j] /\ b[j - 1] \in Nat /\ b[j] \in Nat
          /\ M[j] = 1
      <4>1. L[n + j] = M[j] /\ (n + j) - 1 = k - 1 BY <1>6, <3>1
      <4>2. /\ c[(n + j) - 1] = T + b[j - 1] /\ c[n + j] = T + b[j]
            /\ b[j - 1] \in Nat /\ b[j] \in Nat
        BY <1>8, <3>1
      <4> QED BY <2>1, <3>1, <4>1, <4>2
    <3>3. t - T \in b[j - 1] .. b[j] - 1 /\ T + (t - T) = t BY <1>1, <2>1, <3>2
    <3>4. t - T \in High(es, M) BY <1>4, <3>1, <3>2, <3>3
    <3> QED BY <3>3, <3>4
  <2> QED BY <2>2, <2>3
<1>12. High(ds \o es, L) = High(ds, L) \cup {T + t : t \in High(es, M)} BY <1>9, <1>10, <1>11
<1> QED BY <1>2, <1>12 DEF T

LEMMA OnePulse ==
  ASSUME NEW d \in Nat, NEW M
  PROVE  /\ <<d>> \in Seq(Nat) /\ Len(<<d>>) = 1 /\ Total(<<d>>) = d
         /\ High(<<d>>, M) = IF M[1] = 1 THEN 0 .. d - 1 ELSE {}
<1> DEFINE s == <<d>>
<1>1. s \in Seq(Nat) /\ Len(s) = 1 /\ s[1] = d BY SMT
<1> HIDE DEF s
<1>2. Ends(s)[0] = 0 /\ Ends(s)[1] = d
  <2>1. Ends(s)[0] = 0 /\ \A k \in 1 .. 1 : Ends(s)[k] = Ends(s)[k - 1] + s[k] BY <1>1, EndsStep
  <2>2. 1 \in 1 .. 1 /\ 1 - 1 = 0 OBVIOUS
  <2>3. Ends(s)[1] = 0 + d BY <1>1, <2>1, <2>2
  <2> QED BY <2>1, <2>3
<1>3. Total(s) = d BY <1>1, <1>2 DEF Total
<1>4. \A t : t \in High(s, M) <=> M[1] = 1 /\ t \in 0 .. d - 1
  <2>1. \A t : t \in High(s, M) <=> \E k \in 1 .. 1 : M[k] = 1 /\ t \in Ends(s)[k - 1] .. Ends(s)[k] - 1 BY <1>1, HighIn
  <2>2. \A k : k \in 1 .. 1 <=> k = 1 OBVIOUS
  <2>3. 1 - 1 = 0 OBVIOUS
  <2> QED BY <1>2, <2>1, <2>2, <2>3
<1>5. High(s, M) = IF M[1] = 1 THEN 0 .. d - 1 ELSE {} BY <1>4
<1> QED BY <1>1, <1>3, <1>5 DEF s

----------------------------------------------------------------------------
(* The signal that toggles and the one the file describes. *)

Part == [level : {0, 1}, dur : Nat]
Durs(w) == [k \in 1 .. Len(w) |-> w[k].dur]
Levels(w) == [k \in 1 .. Len(w) |-> w[k].level]
Parity == [k \in Nat |-> (k - 1) % 2]

\* A list of pulses sounds like a list of levels, and the next pulse toggles both alike.
Same(ps, w) ==
  /\ ps \in Seq(Nat) /\ w \in Seq(Part)
  /\ Total(ps) = Total(Durs(w))
  /\ High(ps, Parity) = High(Durs(w), Levels(w))
InStep(ps, w) == (ps = <<>> <=> w = <<>>) /\ NextLevel(w) = Len(ps) % 2

LEMMA DursType ==
  ASSUME NEW w \in Seq(Part)
  PROVE  /\ Durs(w) \in Seq(Nat) /\ Len(Durs(w)) = Len(w) /\ Len(w) \in Nat
         /\ \A k \in 1 .. Len(w) : Durs(w)[k] = w[k].dur /\ Levels(w)[k] = w[k].level /\ w[k] \in Part
<1>1. Len(w) \in Nat /\ \A k \in 1 .. Len(w) : w[k] \in Part BY LenProperties, ElementOfSeq
<1>2. \A k \in 1 .. Len(w) : w[k].dur \in Nat BY <1>1 DEF Part
<1> DEFINE n == Len(w)
<1>3. Durs(w) \in [1 .. n -> Nat] BY <1>2 DEF Durs
<1> HIDE DEF n
<1>4. Durs(w) \in Seq(Nat)
  <2>1. n \in Nat BY <1>1 DEF n
  <2> QED BY <1>3, <2>1, SeqDef
<1>5. DOMAIN Durs(w) = 1 .. n /\ n \in Nat BY <1>1 DEF n, Durs
<1>6. Len(Durs(w)) = n
  <2>1. DOMAIN Durs(w) = 1 .. Len(Durs(w)) /\ Len(Durs(w)) \in Nat BY <1>4, LenProperties
  <2>2. \A x \in Nat, y \in Nat : 1 .. x = 1 .. y => x = y
    <3>1. ASSUME NEW x \in Nat, NEW y \in Nat, 1 .. x = 1 .. y, x < y PROVE FALSE
      <4>1. y \in 1 .. y /\ y \notin 1 .. x BY <3>1
      <4> QED BY <3>1, <4>1
    <3>2. ASSUME NEW x \in Nat, NEW y \in Nat, 1 .. x = 1 .. y, y < x PROVE FALSE
      <4>1. x \in 1 .. x /\ x \notin 1 .. y BY <3>2
      <4> QED BY <3>2, <4>1
    <3> QED BY <3>1, <3>2
  <2> QED BY <1>5, <2>1, <2>2
<1> QED BY <1>1, <1>4, <1>6 DEF n, Durs, Levels

\* What the two lists are to the property.
LEMMA SameIsKept == ASSUME Same(pulses, wave) PROVE SignalKept
<1>1. Len(pulses) \in Nat /\ Len(wave) \in Nat /\ Len(Durs(wave)) = Len(wave) BY LenProperties, DursType DEF Same
<1>2. Heard = {Total(pulses)} \X High(pulses, Parity)
  <2>1. \A j \in 1 .. Len(pulses) : Parity[j] = (j - 1) % 2 BY <1>1 DEF Parity
  <2>2. {j \in 1 .. Len(pulses) : Parity[j] = 1} = {j \in 1 .. Len(pulses) : (j - 1) % 2 = 1} BY <2>1
  <2> QED BY <2>2, Zenon DEF Heard, HighDuring, Total, High
<1>3. Described = {Total(Durs(wave))} \X High(Durs(wave), Levels(wave))
  <2> DEFINE d == Durs(wave)
             g == Ends(d)
  <2>1. Described = {g[Len(d)]} \X UNION {g[k - 1] .. g[k] - 1 : k \in {j \in 1 .. Len(d) : wave[j].level = 1}}
    BY Zenon DEF Described, HighDuring, Durs
  <2>2. \A j \in 1 .. Len(wave) : Levels(wave)[j] = wave[j].level BY DEF Levels
  <2>3. {j \in 1 .. Len(Durs(wave)) : Levels(wave)[j] = 1} = {j \in 1 .. Len(Durs(wave)) : wave[j].level = 1}
    BY <1>1, <2>2
  <2>4. High(d, Levels(wave)) = UNION {g[k - 1] .. g[k] - 1 : k \in {j \in 1 .. Len(d) : Levels(wave)[j] = 1}}
    BY Zenon DEF High
  <2>5. Total(d) = g[Len(d)] BY Zenon DEF Total
  <2> QED BY <2>1, <2>3, <2>4, <2>5, Zenon
<1> QED BY <1>2, <1>3 DEF Same, SignalKept

\* The signal described in two parts.
LEMMA PartsJoined ==
  ASSUME NEW w \in Seq(Part), NEW x \in Seq(Part)
  PROVE  /\ w \o x \in Seq(Part) /\ Len(w \o x) = Len(w) + Len(x)
         /\ Total(Durs(w \o x)) = Total(Durs(w)) + Total(Durs(x))
         /\ High(Durs(w \o x), Levels(w \o x)) = High(Durs(w), Levels(w)) \cup {Total(Durs(w)) + t : t \in High(Durs(x), Levels(x))}
<1>1. Len(w) \in Nat /\ Len(x) \in Nat BY LenProperties
<1>2. /\ Durs(w) \in Seq(Nat) /\ Len(Durs(w)) = Len(w) /\ Durs(x) \in Seq(Nat) /\ Len(Durs(x)) = Len(x)
      /\ \A k \in 1 .. Len(w) : Durs(w)[k] = w[k].dur /\ Levels(w)[k] = w[k].level
      /\ \A j \in 1 .. Len(x) : Durs(x)[j] = x[j].dur /\ Levels(x)[j] = x[j].level
  BY DursType
<1>3. /\ w \o x \in Seq(Part) /\ Len(w \o x) = Len(w) + Len(x)
      /\ \A k \in 1 .. Len(w) : (w \o x)[k] = w[k]
      /\ \A j \in 1 .. Len(x) : (w \o x)[Len(w) + j] = x[j]
  <2> DEFINE n == Len(w)
             m == Len(x)
  <2>1. w \o x \in Seq(Part) /\ Len(w \o x) = n + m /\ \A k \in 1 .. n + m : (w \o x)[k] = IF k <= n THEN w[k] ELSE x[k - n]
    BY <1>1, ConcatProperties
  <2>2. n \in Nat /\ m \in Nat BY <1>1
  <2> HIDE DEF n, m
  <2>3. \A k \in 1 .. n : k \in 1 .. n + m /\ k <= n BY <2>2
  <2>4. \A j \in 1 .. m : n + j \in 1 .. n + m /\ ~(n + j <= n) /\ (n + j) - n = j BY <2>2
  <2>5. \A k \in 1 .. n : (w \o x)[k] = w[k] BY <2>1, <2>3
  <2>6. \A j \in 1 .. m : (w \o x)[n + j] = x[j] BY <2>1, <2>4
  <2> QED BY <2>1, <2>5, <2>6 DEF n, m
<1>6. Durs(w \o x) = Durs(w) \o Durs(x)
  <2> DEFINE a == Durs(w \o x)
             b == Durs(w) \o Durs(x)
             n == Len(w)
             m == Len(x)
  <2>1. a \in Seq(Nat) /\ Len(a) = n + m /\ \A k \in 1 .. n + m : a[k] = (w \o x)[k].dur
    <3> DEFINE s == w \o x
    <3> HIDE DEF s
    <3>1. s \in Seq(Part) /\ Len(s) = n + m BY <1>3 DEF s
    <3>2. Durs(s) \in Seq(Nat) /\ Len(Durs(s)) = Len(s) /\ \A k \in 1 .. Len(s) : Durs(s)[k] = s[k].dur BY <3>1, DursType
    <3>3. Durs(s) \in Seq(Nat) /\ Len(Durs(s)) = n + m /\ \A k \in 1 .. n + m : Durs(s)[k] = s[k].dur BY <3>1, <3>2
    <3> QED BY <3>3 DEF s
  <2>2. b \in Seq(Nat) /\ Len(b) = n + m /\ \A k \in 1 .. n + m : b[k] = IF k <= n THEN Durs(w)[k] ELSE Durs(x)[k - n]
    <3> DEFINE u == Durs(w)
               v == Durs(x)
    <3>1. u \in Seq(Nat) /\ v \in Seq(Nat) /\ Len(u) = n /\ Len(v) = m BY <1>2
    <3> HIDE DEF u, v, n, m
    <3>2. /\ u \o v \in Seq(Nat) /\ Len(u \o v) = Len(u) + Len(v)
          /\ \A k \in 1 .. Len(u) + Len(v) : (u \o v)[k] = IF k <= Len(u) THEN u[k] ELSE v[k - Len(u)]
      BY <3>1, ConcatProperties
    <3> QED BY <3>1, <3>2 DEF u, v
  <2>3. n \in Nat /\ m \in Nat BY <1>1
  <2>4. ASSUME NEW k \in 1 .. n + m PROVE a[k] = b[k]
    <3> HIDE DEF a, b
    <3>1. CASE k <= n
      <4>1. k \in 1 .. n BY <2>3, <3>1
      <4> QED BY <1>2, <1>3, <2>1, <2>2, <3>1, <4>1
    <3>2. CASE ~(k <= n)
      <4> DEFINE j == k - n
      <4>1. j \in 1 .. m /\ n + j = k BY <2>3, <3>2
      <4>2. b[k] = Durs(x)[j] BY <2>2, <3>2
      <4> HIDE DEF j
      <4>3. (w \o x)[n + j] = x[j] /\ Durs(x)[j] = x[j].dur BY <1>2, <1>3, <4>1
      <4> QED BY <2>1, <4>1, <4>2, <4>3
    <3> QED BY <3>1, <3>2
  <2> HIDE DEF a, b
  <2>5. a = b BY <2>1, <2>2, <2>4, SeqEqual
  <2> QED BY <2>5 DEF a, b
<1>7. /\ Total(Durs(w \o x)) = Total(Durs(w)) + Total(Durs(x))
      /\ High(Durs(w \o x), Levels(w \o x)) = High(Durs(w), Levels(w)) \cup {Total(Durs(w)) + t : t \in High(Durs(x), Levels(x))}
  <2>1. \A k \in 1 .. Len(w) + Len(x) : Levels(w \o x)[k] = (w \o x)[k].level BY <1>3, DursType
  <2>2. \A k \in 1 .. Len(w) : k \in 1 .. Len(w) + Len(x) BY <1>1
  <2>3. \A j \in 1 .. Len(x) : Len(w) + j \in 1 .. Len(w) + Len(x) BY <1>1
  <2>4. \A j \in 1 .. Len(Durs(x)) : Levels(w \o x)[Len(Durs(w)) + j] = Levels(x)[j]
    <3>1. \A j \in 1 .. Len(x) : Levels(w \o x)[Len(w) + j] = Levels(x)[j] BY <1>2, <1>3, <2>1, <2>3
    <3> QED BY <1>2, <3>1
  <2>5. \A k \in 1 .. Len(Durs(w)) : Levels(w \o x)[k] = Levels(w)[k]
    <3>1. \A k \in 1 .. Len(w) : Levels(w \o x)[k] = Levels(w)[k] BY <1>2, <1>3, <2>1, <2>2
    <3> QED BY <1>2, <3>1
  <2>6. High(Durs(w), Levels(w \o x)) = High(Durs(w), Levels(w)) BY <2>5, HighSame
  <2>7. /\ Total(Durs(w) \o Durs(x)) = Total(Durs(w)) + Total(Durs(x))
        /\ High(Durs(w) \o Durs(x), Levels(w \o x)) =
             High(Durs(w), Levels(w \o x)) \cup {Total(Durs(w)) + t : t \in High(Durs(x), Levels(x))}
    BY <1>2, <2>4, HighJoined
  <2> QED BY <1>6, <2>6, <2>7
<1> QED BY <1>3, <1>7

\* One level.
LEMMA OnePart ==
  ASSUME NEW l \in {0, 1}, NEW d \in Nat, NEW x, x = <<[level |-> l, dur |-> d]>>
  PROVE  /\ x \in Seq(Part) /\ Len(x) = 1 /\ x[1].level = l /\ x[1].dur = d
         /\ Durs(x) = <<d>> /\ Total(Durs(x)) = d
         /\ High(Durs(x), Levels(x)) = IF l = 1 THEN 0 .. d - 1 ELSE {}
<1> DEFINE e == [level |-> l, dur |-> d]
<1>1. e \in Part /\ e.level = l /\ e.dur = d BY DEF Part
<1>2. x = <<e>> OBVIOUS
<1> HIDE DEF e
<1>3. x \in Seq(Part) /\ Len(x) = 1 /\ x[1] = e BY <1>1, <1>2
<1>4. Durs(x) \in Seq(Nat) /\ Len(Durs(x)) = 1 /\ Durs(x)[1] = d /\ Levels(x)[1] = l
  <2>1. 1 \in 1 .. 1 OBVIOUS
  <2>2. Durs(x) \in Seq(Nat) /\ Len(Durs(x)) = 1 /\ \A k \in 1 .. 1 : Durs(x)[k] = x[k].dur /\ Levels(x)[k] = x[k].level
    BY <1>3, DursType
  <2> QED BY <1>1, <1>3, <2>1, <2>2
<1>5. Durs(x) = <<d>>
  <2> DEFINE y == <<d>>
  <2>1. y \in Seq(Nat) /\ Len(y) = 1 /\ y[1] = d BY SMT
  <2> HIDE DEF y
  <2>2. \A k \in 1 .. 1 : Durs(x)[k] = y[k] BY <1>4, <2>1
  <2>3. Durs(x) = y BY <1>4, <2>1, <2>2, SeqEqual
  <2> QED BY <2>3 DEF y
<1>6. Total(<<d>>) = d /\ High(<<d>>, Levels(x)) = IF Levels(x)[1] = 1 THEN 0 .. d - 1 ELSE {} BY OnePulse
<1> QED BY <1>1, <1>3, <1>4, <1>5, <1>6

\* Levels that go on toggling go on sounding the same.
LEMMA Longer ==
  ASSUME NEW ps, NEW w, Same(ps, w), NEW x \in Seq(Part),
         \A j \in 1 .. Len(x) : x[j].level = (Len(ps) + j - 1) % 2
  PROVE  Same(ps \o Durs(x), w \o x)
<1>1. /\ ps \in Seq(Nat) /\ w \in Seq(Part) /\ Len(ps) \in Nat
      /\ Total(ps) = Total(Durs(w)) /\ High(ps, Parity) = High(Durs(w), Levels(w))
  BY LenProperties DEF Same
<1>2. /\ Durs(x) \in Seq(Nat) /\ Len(Durs(x)) = Len(x)
      /\ \A j \in 1 .. Len(x) : Levels(x)[j] = x[j].level
  BY DursType
<1>3. ps \o Durs(x) \in Seq(Nat) BY <1>1, <1>2, ConcatProperties
<1>4. /\ Total(ps \o Durs(x)) = Total(ps) + Total(Durs(x))
      /\ High(ps \o Durs(x), Parity) = High(ps, Parity) \cup {Total(ps) + t : t \in High(Durs(x), Levels(x))}
  <2>1. ASSUME NEW j \in 1 .. Len(x) PROVE Parity[Len(ps) + j] = Levels(x)[j]
    <3>1. Len(ps) + j \in Nat /\ (Len(ps) + j) - 1 = Len(ps) + j - 1 BY <1>1
    <3>2. Parity[Len(ps) + j] = (Len(ps) + j - 1) % 2 BY <3>1 DEF Parity
    <3> QED BY <1>2, <3>2
  <2>2. \A j \in 1 .. Len(Durs(x)) : Parity[Len(ps) + j] = Levels(x)[j] BY <1>2, <2>1
  <2> QED BY <1>1, <1>2, <2>2, HighJoined
<1>5. /\ w \o x \in Seq(Part) /\ Total(Durs(w \o x)) = Total(Durs(w)) + Total(Durs(x))
      /\ High(Durs(w \o x), Levels(w \o x)) = High(Durs(w), Levels(w)) \cup {Total(Durs(w)) + t : t \in High(Durs(x), Levels(x))}
  BY <1>1, PartsJoined
<1> QED BY <1>1, <1>3, <1>4, <1>5 DEF Same

\* One more pulse.
LEMMA OneMore ==
  ASSUME NEW ps, NEW w, Same(ps, w), NEW d \in Nat, NEW l, l = Len(ps) % 2
  PROVE  Same(ps \o <<d>>, Append(w, [level |-> l, dur |-> d]))
<1> DEFINE e == [level |-> l, dur |-> d]
           x == <<e>>
<1>1. ps \in Seq(Nat) /\ Len(ps) \in Nat /\ w \in Seq(Part) BY LenProperties DEF Same
<1>2. l \in {0, 1}
  <2>1. \A n \in Nat : n % 2 \in {0, 1} BY SMT
  <2> QED BY <1>1, <2>1
<1>3. x \in Seq(Part) /\ Len(x) = 1 /\ x[1].level = l /\ Durs(x) = <<d>> BY <1>2, OnePart
<1>4. Append(w, e) = w \o x
  <2>1. e \in Part BY <1>2 DEF Part
  <2> HIDE DEF e
  <2> QED BY <1>1, <2>1
<1> HIDE DEF x
<1>5. \A j \in 1 .. Len(x) : x[j].level = (Len(ps) + j - 1) % 2
  <2>1. \A j \in 1 .. 1 : j = 1 /\ Len(ps) + j - 1 = Len(ps) BY <1>1
  <2> QED BY <1>3, <2>1
<1>6. Same(ps \o Durs(x), w \o x) BY <1>3, <1>5, Longer
<1> QED BY <1>3, <1>4, <1>6

\* An empty pulse is not heard.
LEMMA Blank ==
  ASSUME NEW ps, NEW w, Same(ps, w)
  PROVE  Same(ps \o <<0>>, w)
<1> DEFINE y == <<0>>
           L == [k \in Nat |-> Parity[Len(ps) + k]]
<1>1. ps \in Seq(Nat) /\ Len(ps) \in Nat /\ Total(ps) \in Nat BY LenProperties, TotalNat DEF Same
<1>2. y \in Seq(Nat) /\ Len(y) = 1 /\ Total(y) = 0 /\ High(y, L) = IF L[1] = 1 THEN 0 .. 0 - 1 ELSE {}
  BY OnePulse
<1>3. High(y, L) = {}
  <2>1. 0 .. 0 - 1 = {} BY SMT
  <2> HIDE DEF y, L
  <2> QED BY <1>2, <2>1
<1>4. \A j \in 1 .. Len(y) : Parity[Len(ps) + j] = L[j]
  <2>1. \A j \in 1 .. Len(y) : j \in Nat BY <1>2
  <2> QED BY <2>1
<1> HIDE DEF y, L
<1>5. ps \o y \in Seq(Nat) BY <1>1, <1>2, ConcatProperties
<1>6. /\ Total(ps \o y) = Total(ps) + Total(y)
      /\ High(ps \o y, Parity) = High(ps, Parity) \cup {Total(ps) + t : t \in High(y, L)}
  BY <1>1, <1>2, <1>4, HighJoined
<1>7. Total(ps \o y) = Total(ps) /\ High(ps \o y, Parity) = High(ps, Parity) BY <1>1, <1>2, <1>3, <1>6
<1> QED BY <1>5, <1>7 DEF Same, y

\* A pulse that is lengthened.
LEMMA Stretched ==
  ASSUME NEW ps, NEW w, Same(ps, w), ps # <<>>, NEW d \in Nat, NEW l, l = (Len(ps) - 1) % 2
  PROVE  Same([ps EXCEPT ![Len(ps)] = ps[Len(ps)] + d], Append(w, [level |-> l, dur |-> d]))
<1> DEFINE n == Len(ps)
           a == ps[n]
           z == [ps EXCEPT ![n] = a + d]
           q == SubSeq(ps, 1, n - 1)
           e == [level |-> l, dur |-> d]
           x == <<e>>
           T == Total(q)
           M == [k \in Nat |-> l]
<1>1. /\ ps \in Seq(Nat) /\ n \in Nat \ {0} /\ w \in Seq(Part) /\ n \in 1 .. Len(ps)
      /\ Total(ps) = Total(Durs(w)) /\ High(ps, Parity) = High(Durs(w), Levels(w))
  BY LenProperties, EmptySeq DEF Same
<1>2. a \in Nat /\ a + d \in Nat
  <2>1. a \in Nat BY <1>1, ElementOfSeq
  <2> HIDE DEF a
  <2> QED BY <2>1
<1>3. q \in Seq(Nat) /\ Len(q) = n - 1 /\ \A k \in 1 .. n - 1 : q[k] = ps[k]
  <2>1. \A k \in 1 .. n - 1 : ps[k] \in Nat
    <3>1. \A k \in 1 .. n - 1 : k \in 1 .. Len(ps) BY <1>1
    <3> QED BY <1>1, <3>1, ElementOfSeq
  <2>2. 1 \in Int /\ n - 1 \in Int BY <1>1
  <2>3. /\ q \in Seq(Nat) /\ Len(q) = (IF 1 <= n - 1 THEN (n - 1) - 1 + 1 ELSE 0)
        /\ \A k \in 1 .. (n - 1) - 1 + 1 : q[k] = ps[1 + k - 1]
    BY <2>1, <2>2, SubSeqProperties
  <2> HIDE DEF q
  <2>4. \A k \in 1 .. n - 1 : k \in 1 .. (n - 1) - 1 + 1 /\ 1 + k - 1 = k BY <1>1
  <2> HIDE DEF n
  <2>5. (IF 1 <= n - 1 THEN (n - 1) - 1 + 1 ELSE 0) = n - 1 BY <1>1
  <2>6. \A k \in 1 .. n - 1 : q[k] = ps[k] BY <2>3, <2>4
  <2> QED BY <2>3, <2>5, <2>6
<1>4. z \in Seq(Nat) /\ Len(z) = n /\ \A k \in 1 .. n : z[k] = IF k = n THEN a + d ELSE ps[k]
  BY <1>1, <1>2, ExceptSeq
<1> HIDE DEF z, q, a
<1>5. \A v \in Nat : /\ q \o <<v>> \in Seq(Nat) /\ Len(q \o <<v>>) = n
                     /\ \A k \in 1 .. n : (q \o <<v>>)[k] = IF k = n THEN v ELSE ps[k]
  <2> SUFFICES ASSUME NEW v \in Nat
               PROVE  /\ q \o <<v>> \in Seq(Nat) /\ Len(q \o <<v>>) = n
                      /\ \A k \in 1 .. n : (q \o <<v>>)[k] = IF k = n THEN v ELSE ps[k]
    OBVIOUS
  <2> DEFINE y == <<v>>
  <2>1. y \in Seq(Nat) /\ Len(y) = 1 /\ y[1] = v BY SMT
  <2> HIDE DEF y
  <2>2. /\ q \o y \in Seq(Nat) /\ Len(q \o y) = Len(q) + Len(y)
        /\ \A k \in 1 .. Len(q) + Len(y) : (q \o y)[k] = IF k <= Len(q) THEN q[k] ELSE y[k - Len(q)]
    BY <1>3, <2>1, ConcatProperties
  <2>3. Len(q) + Len(y) = n BY <1>1, <1>3, <2>1
  <2>4. ASSUME NEW k \in 1 .. n PROVE (q \o y)[k] = IF k = n THEN v ELSE ps[k]
    <3>1. CASE k = n
      <4>1. ~(k <= Len(q)) /\ k - Len(q) = 1 BY <1>1, <1>3, <3>1
      <4> QED BY <2>1, <2>2, <2>3, <3>1, <4>1
    <3>2. CASE k # n
      <4>1. k <= Len(q) /\ k \in 1 .. n - 1 BY <1>1, <1>3, <3>2
      <4> QED BY <1>3, <2>2, <2>3, <3>2, <4>1
    <3> QED BY <3>1, <3>2
  <2> QED BY <2>2, <2>3, <2>4 DEF y
<1>6. ps = q \o <<a>>
  <2> DEFINE s == q \o <<a>>
  <2>1. s \in Seq(Nat) /\ Len(s) = n /\ \A k \in 1 .. n : s[k] = IF k = n THEN a ELSE ps[k] BY <1>2, <1>5
  <2> HIDE DEF s
  <2>2. \A k \in 1 .. Len(ps) : ps[k] = s[k] BY <2>1 DEF a
  <2>3. ps = s BY <1>1, <2>1, <2>2, SeqEqual
  <2> QED BY <2>3 DEF s
<1>7. z = q \o <<a + d>>
  <2> DEFINE s == q \o <<a + d>>
  <2>1. s \in Seq(Nat) /\ Len(s) = n /\ \A k \in 1 .. n : s[k] = IF k = n THEN a + d ELSE ps[k] BY <1>2, <1>5
  <2> HIDE DEF s
  <2>2. \A k \in 1 .. Len(z) : z[k] = s[k] BY <1>4, <2>1
  <2>3. z = s BY <1>4, <2>1, <2>2, SeqEqual
  <2> QED BY <2>3 DEF s
<1>8. \A v \in Nat : /\ Total(q \o <<v>>) = T + v
                     /\ High(q \o <<v>>, Parity) = High(q, Parity) \cup {T + t : t \in (IF l = 1 THEN 0 .. v - 1 ELSE {})}
  <2> SUFFICES ASSUME NEW v \in Nat
               PROVE  /\ Total(q \o <<v>>) = T + v
                      /\ High(q \o <<v>>, Parity) = High(q, Parity) \cup {T + t : t \in (IF l = 1 THEN 0 .. v - 1 ELSE {})}
    OBVIOUS
  <2>1. M[1] = l OBVIOUS
  <2> DEFINE y == <<v>>
  <2> HIDE DEF M
  <2>2. y \in Seq(Nat) /\ Len(y) = 1 /\ Total(y) = v /\ High(y, M) = IF M[1] = 1 THEN 0 .. v - 1 ELSE {} BY OnePulse
  <2> HIDE DEF y
  <2>3. \A j \in 1 .. Len(y) : Parity[Len(q) + j] = M[j]
    <3>1. \A j \in 1 .. 1 : j = 1 /\ Len(q) + j = n BY <1>1, <1>3
    <3>2. Parity[n] = l BY <1>1 DEF Parity
    <3> QED BY <2>1, <2>2, <3>1, <3>2
  <2>4. /\ Total(q \o y) = Total(q) + Total(y)
        /\ High(q \o y, Parity) = High(q, Parity) \cup {Total(q) + t : t \in High(y, M)}
    <3>1. q \in Seq(Nat) /\ y \in Seq(Nat) BY <1>3, <2>2
    <3> HIDE DEF n, T
    <3> QED BY <2>3, <3>1, HighJoined
  <2> QED BY <2>1, <2>2, <2>4 DEF y
<1>9. l \in {0, 1}
  <2>1. \A m \in Nat : m % 2 \in {0, 1} BY SMT
  <2>2. n - 1 \in Nat BY <1>1
  <2> QED BY <2>1, <2>2
<1>10. /\ x \in Seq(Part) /\ Total(Durs(x)) = d
       /\ High(Durs(x), Levels(x)) = IF l = 1 THEN 0 .. d - 1 ELSE {}
  BY <1>9, OnePart
<1>11. Append(w, e) = w \o x
  <2>1. e \in Part BY <1>9 DEF Part
  <2> HIDE DEF e
  <2> QED BY <1>1, <2>1
<1> HIDE DEF x
<1>12. /\ w \o x \in Seq(Part)
       /\ Total(Durs(w \o x)) = Total(Durs(w)) + Total(Durs(x))
       /\ High(Durs(w \o x), Levels(w \o x)) = High(Durs(w), Levels(w)) \cup {Total(Durs(w)) + t : t \in High(Durs(x), Levels(x))}
  BY <1>1, <1>10, PartsJoined
<1>13. T \in Nat /\ Total(ps) = T + a /\ Total(z) = T + (a + d)
  <2>1. T \in Nat BY <1>3, TotalNat
  <2> HIDE DEF T
  <2> QED BY <1>2, <1>6, <1>7, <1>8, <2>1
<1>14. /\ High(ps, Parity) = High(q, Parity) \cup {T + t : t \in (IF l = 1 THEN 0 .. a - 1 ELSE {})}
       /\ High(z, Parity) = High(q, Parity) \cup {T + t : t \in (IF l = 1 THEN 0 .. (a + d) - 1 ELSE {})}
  BY <1>2, <1>6, <1>7, <1>8
<1> HIDE DEF T
<1>15. Total(z) = Total(Durs(w \o x))
  <2>1. Total(z) = Total(ps) + d BY <1>2, <1>13
  <2> QED BY <1>1, <1>10, <1>12, <2>1
<1>16. High(z, Parity) = High(ps, Parity) \cup {Total(ps) + t : t \in (IF l = 1 THEN 0 .. d - 1 ELSE {})}
  <2>1. CASE l = 1
    <3>1. \A t : t \in {T + u : u \in 0 .. (a + d) - 1} <=> t \in {T + u : u \in 0 .. a - 1} \/ t \in {(T + a) + u : u \in 0 .. d - 1}
      <4>1. ASSUME NEW u \in 0 .. (a + d) - 1 PROVE T + u \in {T + v : v \in 0 .. a - 1} \/ T + u \in {(T + a) + v : v \in 0 .. d - 1}
        <5>1. CASE u < a
          <6>1. u \in 0 .. a - 1 BY <1>2, <5>1
          <6> QED BY <6>1
        <5>2. CASE ~(u < a)
          <6>1. u - a \in 0 .. d - 1 /\ T + u = (T + a) + (u - a) BY <1>2, <1>13, <5>2
          <6> QED BY <6>1
        <5> QED BY <5>1, <5>2
      <4>2. ASSUME NEW u \in 0 .. a - 1 PROVE T + u \in {T + v : v \in 0 .. (a + d) - 1}
        <5>1. u \in 0 .. (a + d) - 1 BY <1>2
        <5> QED BY <5>1
      <4>3. ASSUME NEW u \in 0 .. d - 1 PROVE (T + a) + u \in {T + v : v \in 0 .. (a + d) - 1}
        <5>1. a + u \in 0 .. (a + d) - 1 /\ (T + a) + u = T + (a + u) BY <1>2, <1>13
        <5> QED BY <5>1
      <4> QED BY <4>1, <4>2, <4>3
    <3>2. {T + u : u \in 0 .. (a + d) - 1} = {T + u : u \in 0 .. a - 1} \cup {(T + a) + u : u \in 0 .. d - 1}
      BY <3>1, Zenon
    <3> QED BY <1>13, <1>14, <2>1, <3>2
  <2>2. CASE l # 1
    BY <1>14, <2>2
  <2> QED BY <2>1, <2>2
<1>17. High(z, Parity) = High(Durs(w \o x), Levels(w \o x)) BY <1>1, <1>10, <1>12, <1>16
<1> QED BY <1>4, <1>11, <1>12, <1>15, <1>17 DEF Same, z, a

\* A list and its end.
LEMMA LastOfParts ==
  ASSUME NEW w \in Seq(Part), w # <<>>
  PROVE  LastOf(w) \in Part /\ LastOf(w).level \in {0, 1} /\ NextLevel(w) = 1 - LastOf(w).level
<1>1. Len(w) \in 1 .. Len(w) BY EmptySeq
<1>2. w[Len(w)] \in Part BY <1>1, ElementOfSeq
<1> QED BY <1>2 DEF LastOf, NextLevel, Part

LEMMA InStepAppend ==
  ASSUME NEW ps \in Seq(Nat), ps # <<>>, NEW w \in Seq(Part), NEW e \in Part, e.level = (Len(ps) - 1) % 2
  PROVE  InStep(ps, Append(w, e))
<1> DEFINE v == Append(w, e)
<1>1. v \in Seq(Part) /\ Len(v) = Len(w) + 1 /\ v[Len(w) + 1] = e /\ Len(w) \in Nat /\ Len(ps) \in Nat \ {0}
  BY AppendProperties, LenProperties, EmptySeq
<1> HIDE DEF v
<1>2. v # <<>> /\ LastOf(v) = e BY <1>1, EmptySeq DEF LastOf
<1>3. \A n \in Nat \ {0} : 1 - ((n - 1) % 2) = n % 2 BY SMT
<1>4. NextLevel(v) = Len(ps) % 2
  <2>1. NextLevel(v) = 1 - ((Len(ps) - 1) % 2) BY <1>2 DEF NextLevel
  <2> QED BY <1>1, <1>3, <2>1
<1> QED BY <1>2, <1>4 DEF InStep, v

\* Ordinary edges.
LEMMA EdgesStep ==
  ASSUME NEW ps, NEW w, Same(ps, w), InStep(ps, w), NEW ds \in Seq(Nat)
  PROVE  Same(ps \o ds, Edges(w, ds)) /\ InStep(ps \o ds, Edges(w, ds))
<1> DEFINE n == Len(ps)
           m == Len(ds)
           x == [k \in 1 .. m |-> [level |-> (NextLevel(w) + k - 1) % 2, dur |-> ds[k]]]
<1>1. ps \in Seq(Nat) /\ w \in Seq(Part) /\ n \in Nat /\ m \in Nat /\ NextLevel(w) = n % 2
      /\ \A k \in 1 .. m : ds[k] \in Nat
  BY LenProperties, ElementOfSeq DEF Same, InStep
<1>2. \A k \in 1 .. m : (NextLevel(w) + k - 1) % 2 = (n + k - 1) % 2 /\ (n + k - 1) % 2 \in {0, 1}
  <2>1. \A a \in Nat, k \in Nat \ {0} : ((a % 2) + k - 1) % 2 = (a + k - 1) % 2 /\ (a + k - 1) % 2 \in {0, 1} BY SMT
  <2> QED BY <1>1, <2>1
<1>3. x \in [1 .. m -> Part] /\ \A k \in 1 .. m : x[k].level = (n + k - 1) % 2 /\ x[k].dur = ds[k]
  BY <1>1, <1>2 DEF Part
<1>4. Edges(w, ds) = w \o x BY DEF Edges
<1> HIDE DEF x
<1>5. x \in Seq(Part) /\ Len(x) = m
  <2>1. x \in Seq(Part)
    <3> HIDE DEF m
    <3>1. x \in UNION {[1 .. k -> Part] : k \in Nat} BY <1>1, <1>3
    <3> QED BY <3>1, SeqDef
  <2> QED BY <1>1, <1>3, <2>1
<1>6. Durs(x) = ds
  <2>1. Durs(x) \in Seq(Nat) /\ Len(Durs(x)) = Len(x) /\ \A k \in 1 .. Len(x) : Durs(x)[k] = x[k].dur BY <1>5, DursType
  <2> DEFINE y == Durs(x)
  <2> HIDE DEF y
  <2>2. y \in Seq(Nat) /\ Len(y) = Len(ds) /\ \A k \in 1 .. Len(y) : y[k] = ds[k] BY <1>3, <1>5, <2>1 DEF y
  <2>3. y = ds BY <2>2, SeqEqual
  <2> QED BY <2>3 DEF y
<1>7. Same(ps \o Durs(x), w \o x) BY <1>3, <1>5, Longer
<1>8. InStep(ps \o ds, w \o x)
  <2>1. CASE ds = <<>>
    <3>1. m = 0 BY <2>1, EmptySeq
    <3>2. x = <<>>
      <4>1. Len(x) = 0 BY <1>5, <3>1
      <4> QED BY <1>5, <4>1, EmptySeq
    <3>3. ps \o ds = ps /\ w \o x = w BY <1>1, <2>1, <3>2, ConcatEmptySeq
    <3> QED BY <3>3
  <2>2. CASE ds # <<>>
    <3> DEFINE p == ps \o ds
               v == w \o x
    <3>1. m \in Nat \ {0} BY <2>2, EmptySeq
    <3>2. p \in Seq(Nat) /\ Len(p) = n + m BY <1>1, ConcatProperties
    <3>3. v \in Seq(Part) /\ Len(v) = Len(w) + m /\ v[Len(w) + m] = x[m]
      <4>1. /\ w \o x \in Seq(Part) /\ Len(w \o x) = Len(w) + Len(x)
            /\ \A k \in 1 .. Len(w) + Len(x) : (w \o x)[k] = IF k <= Len(w) THEN w[k] ELSE x[k - Len(w)]
        BY <1>1, <1>5, ConcatProperties
      <4>2. Len(w) \in Nat BY <1>1, LenProperties
      <4> DEFINE k == Len(w) + m
      <4>3. k \in 1 .. Len(w) + Len(x) /\ ~(k <= Len(w)) /\ k - Len(w) = m BY <1>5, <3>1, <4>2
      <4> HIDE DEF k
      <4>4. (w \o x)[k] = x[m] BY <4>1, <4>3
      <4> QED BY <1>5, <4>1, <4>4 DEF k
    <3> HIDE DEF p, v
    <3>4. p # <<>> /\ v # <<>>
      <4>1. Len(w) \in Nat BY <1>1, LenProperties
      <4>2. Len(p) # 0 /\ Len(v) # 0 BY <1>1, <3>1, <3>2, <3>3, <4>1
      <4> QED BY <4>2, EmptySeq
    <3>5. LastOf(v) = x[m] BY <3>3 DEF LastOf
    <3>6. x[m].level = (n + m - 1) % 2 BY <1>3, <3>1
    <3>7. NextLevel(v) = 1 - ((n + m - 1) % 2) BY <3>4, <3>5, <3>6 DEF NextLevel
    <3>8. \A a \in Nat, b \in Nat \ {0} : 1 - ((a + b - 1) % 2) = (a + b) % 2 BY SMT
    <3>9. NextLevel(v) = Len(p) % 2 BY <1>1, <3>1, <3>2, <3>7, <3>8
    <3> QED BY <3>4, <3>9 DEF InStep, p, v
  <2> QED BY <2>1, <2>2
<1> QED BY <1>4, <1>6, <1>7, <1>8

\* Three lists in a row.
LEMMA ThreeLists ==
  ASSUME NEW a \in Seq(Nat), NEW b \in Seq(Nat), NEW c \in Seq(Nat)
  PROVE  (a \o b) \o c = a \o (b \o c)
<1> DEFINE l == a \o b
           r == b \o c
           i == Len(a)
           j == Len(b)
           k == Len(c)
<1>1. i \in Nat /\ j \in Nat /\ k \in Nat BY LenProperties
<1>2. l \in Seq(Nat) /\ Len(l) = i + j /\ \A n \in 1 .. i + j : l[n] = IF n <= i THEN a[n] ELSE b[n - i]
  BY ConcatProperties
<1>3. r \in Seq(Nat) /\ Len(r) = j + k /\ \A n \in 1 .. j + k : r[n] = IF n <= j THEN b[n] ELSE c[n - j]
  BY ConcatProperties
<1> HIDE DEF l, r
<1> DEFINE x == l \o c
           y == a \o r
<1>4. x \in Seq(Nat) /\ Len(x) = Len(l) + k /\ \A n \in 1 .. Len(l) + k : x[n] = IF n <= Len(l) THEN l[n] ELSE c[n - Len(l)]
  <2>1. l \in Seq(Nat) BY <1>2
  <2> QED BY <2>1, ConcatProperties
<1>5. y \in Seq(Nat) /\ Len(y) = i + Len(r) /\ \A n \in 1 .. i + Len(r) : y[n] = IF n <= i THEN a[n] ELSE r[n - i]
  <2>1. r \in Seq(Nat) BY <1>3
  <2> QED BY <2>1, ConcatProperties
<1> HIDE DEF x, y, i, j, k
<1>6. Len(x) = (i + j) + k /\ Len(y) = (i + j) + k BY <1>1, <1>2, <1>3, <1>4, <1>5
<1>7. ASSUME NEW n \in 1 .. (i + j) + k PROVE x[n] = y[n]
  <2>1. n \in 1 .. Len(l) + k /\ n \in 1 .. i + Len(r) BY <1>1, <1>2, <1>3
  <2>2. CASE n <= i
    <3>1. n \in 1 .. i + j /\ n <= i + j BY <1>1, <2>2
    <3> QED BY <1>2, <1>4, <1>5, <2>1, <2>2, <3>1
  <2>3. CASE ~(n <= i) /\ n <= i + j
    <3>1. n \in 1 .. i + j /\ n - i \in 1 .. j + k /\ n - i <= j BY <1>1, <2>3
    <3>2. x[n] = b[n - i] BY <1>2, <1>4, <2>1, <2>3, <3>1
    <3>3. y[n] = b[n - i] BY <1>3, <1>5, <2>1, <2>3, <3>1
    <3> QED BY <3>2, <3>3
  <2>4. CASE ~(n <= i + j)
    <3>1. ~(n <= i) /\ n - i \in 1 .. j + k /\ ~(n - i <= j) /\ (n - i) - j = n - (i + j) BY <1>1, <2>4
    <3>2. x[n] = c[n - (i + j)] BY <1>2, <1>4, <2>1, <2>4
    <3>3. y[n] = c[(n - i) - j] BY <1>3, <1>5, <2>1, <3>1
    <3> QED BY <3>1, <3>2, <3>3
  <2> QED BY <2>2, <2>3, <2>4
<1>8. x = y BY <1>4, <1>5, <1>6, <1>7, SeqEqual
<1> QED BY <1>8 DEF x, y, l, r

\* A symbol that sounds, or that does not force a level, is heard as it is meant.
LEMMA SymbolStep ==
  ASSUME Same(pulses, wave), InStep(pulses, wave), NEW s, s.flags \in 0 .. 3, NEW ds \in Seq(Nat),
         s.flags \in {2, 3} => ds # <<>>, Symbol(s, ds), Means(s, ds)
  PROVE  Same(pulses', wave') /\ InStep(pulses', wave')
<1> DEFINE n == Len(pulses)
<1>1. pulses \in Seq(Nat) /\ wave \in Seq(Part) /\ n \in Nat /\ (pulses = <<>> <=> n = 0)
  BY LenProperties, EmptySeq DEF Same
<1>2. CASE ds = <<>>
  <2>1. ~Extends(s, ds) /\ ~Flips(s) BY <1>2 DEF Extends, Flips
  <2>2. pulses' = pulses \o <<>> \o <<>> BY <1>2, <2>1 DEF Symbol
  <2>3. pulses \o <<>> = pulses BY <1>1, ConcatEmptySeq
  <2>4. wave' = wave BY <1>2 DEF Means
  <2> QED BY <2>2, <2>3, <2>4
<1>3. CASE ds # <<>>
  <2> DEFINE h == Head(ds)
             tl == Tail(ds)
             l == FirstLevel(s)
             e == [level |-> l, dur |-> h]
             w1 == Append(wave, e)
  <2>1. h \in Nat /\ tl \in Seq(Nat) BY <1>3, HeadTailProperties
  <2>2. wave' = Edges(w1, tl) BY <1>3 DEF Means
  <2> HIDE DEF h, tl
  <2>3. CASE Extends(s, ds)
    <3> DEFINE p1 == [pulses EXCEPT ![n] = pulses[n] + h]
    <3>1. pulses # <<>> /\ s.flags = 1 /\ wave # <<>> /\ n \in Nat \ {0}
      BY <1>1, <2>3 DEF Extends, InStep
    <3>2. pulses' = p1 \o tl BY <2>3 DEF Symbol, h, tl
    <3>3. l = (n - 1) % 2 /\ l \in {0, 1}
      <4>1. l = LastOf(wave).level BY <3>1 DEF FirstLevel
      <4>2. l \in {0, 1} /\ NextLevel(wave) = 1 - l BY <1>1, <3>1, <4>1, LastOfParts
      <4>3. 1 - l = n % 2 BY <4>2 DEF InStep
      <4>4. \A a \in Nat \ {0}, b \in {0, 1} : 1 - b = a % 2 => b = (a - 1) % 2 BY SMT
      <4> QED BY <3>1, <4>2, <4>3, <4>4
    <3>4. e \in Part /\ e.level = l BY <2>1, <3>3 DEF Part
    <3> HIDE DEF l
    <3>5. Same(p1, w1) BY <2>1, <3>1, <3>3, Stretched
    <3>6. p1 \in Seq(Nat) /\ Len(p1) = n
      <4>1. n \in 1 .. Len(pulses) BY <3>1
      <4>2. pulses[n] \in Nat BY <1>1, <4>1, ElementOfSeq
      <4>3. pulses[n] + h \in Nat BY <2>1, <4>2
      <4> QED BY <1>1, <4>1, <4>3, ExceptSeq
    <3> HIDE DEF p1, e
    <3>7. p1 # <<>> BY <3>1, <3>6, EmptySeq
    <3>8. InStep(p1, w1) BY <1>1, <3>3, <3>4, <3>6, <3>7, InStepAppend
    <3> HIDE DEF w1
    <3> QED BY <2>1, <2>2, <3>2, <3>5, <3>8, EdgesStep
  <2>4. CASE ~Extends(s, ds)
    <3> DEFINE flip == IF Flips(s) THEN <<0>> ELSE <<>>
               p0 == pulses \o flip
               p1 == p0 \o <<h>>
    <3>1. pulses' = p0 \o ds BY <2>4 DEF Symbol
    <3>2. Same(p0, wave) /\ p0 \in Seq(Nat) /\ Len(p0) = (IF Flips(s) THEN n + 1 ELSE n)
      <4>1. CASE Flips(s)
        <5>1. Same(pulses \o <<0>>, wave) BY Blank
        <5> DEFINE y == <<0>>
        <5>2. y \in Seq(Nat) /\ Len(y) = 1 BY SMT
        <5> HIDE DEF y
        <5>3. pulses \o y \in Seq(Nat) /\ Len(pulses \o y) = Len(pulses) + Len(y) BY <1>1, <5>2, ConcatProperties
        <5>4. p0 = pulses \o y BY <4>1 DEF y
        <5>5. p0 \in Seq(Nat) /\ Len(p0) = n + 1 BY <5>2, <5>3, <5>4
        <5>6. Same(p0, wave) BY <5>1, <5>4 DEF y
        <5> QED BY <4>1, <5>5, <5>6
      <4>2. CASE ~Flips(s)
        <5>1. p0 = pulses BY <1>1, <4>2, ConcatEmptySeq
        <5> QED BY <1>1, <4>2, <5>1
      <4> QED BY <4>1, <4>2
    <3>3. l = Len(p0) % 2 /\ l \in {0, 1}
      <4>1. \A a \in Nat : /\ a % 2 \in {0, 1} /\ (a % 2 = 1 => (a + 1) % 2 = 0) /\ (a % 2 = 0 => (a + 1) % 2 = 1)
        BY SMT
      <4>2. n % 2 \in {0, 1} /\ (n % 2 = 1 => (n + 1) % 2 = 0) /\ (n % 2 = 0 => (n + 1) % 2 = 1) BY <1>1, <4>1
      <4>3. CASE s.flags \in {2, 3}
        <5>1. l = (IF s.flags = 2 THEN 0 ELSE 1) BY <4>3 DEF FirstLevel
        <5>2. Flips(s) <=> n % 2 # l BY <4>2, <4>3, <5>1 DEF Flips
        <5> HIDE DEF l, p0, n
        <5> QED BY <3>2, <4>2, <4>3, <5>1, <5>2
      <4>4. CASE s.flags \in {0, 1}
        <5>1. ~Flips(s) BY <4>4 DEF Flips
        <5>2. s.flags = 1 => wave = <<>> BY <1>3, <2>4 DEF Extends, InStep
        <5>3. l = NextLevel(wave) BY <4>4, <5>2 DEF FirstLevel
        <5>4. l = n % 2 BY <5>3 DEF InStep
        <5> HIDE DEF l, p0, n
        <5> QED BY <3>2, <4>2, <5>1, <5>4
      <4>5. s.flags \in {0, 1} \/ s.flags \in {2, 3}
        <5>1. \A f \in 0 .. 3 : f \in {0, 1} \/ f \in {2, 3} BY SMT
        <5> QED BY <5>1
      <4> HIDE DEF l
      <4> QED BY <4>3, <4>4, <4>5
    <3> HIDE DEF p0
    <3>4. e \in Part /\ e.level = l BY <2>1, <3>3 DEF Part
    <3> HIDE DEF l
    <3>5. Same(p1, w1) BY <2>1, <3>2, <3>3, OneMore
    <3>6. p1 \in Seq(Nat) /\ Len(p1) = Len(p0) + 1 /\ Len(p0) \in Nat
      <4> DEFINE y == <<h>>
      <4>1. y \in Seq(Nat) /\ Len(y) = 1 BY <2>1, SMT
      <4> HIDE DEF y
      <4>2. p0 \o y \in Seq(Nat) /\ Len(p0 \o y) = Len(p0) + Len(y) BY <3>2, <4>1, ConcatProperties
      <4>3. Len(p0) \in Nat BY <3>2, LenProperties
      <4> QED BY <4>1, <4>2, <4>3 DEF y
    <3> HIDE DEF e
    <3>7. InStep(p1, w1)
      <4>1. p1 # <<>> /\ Len(p1) - 1 = Len(p0) BY <3>6, EmptySeq
      <4> HIDE DEF p1
      <4>2. e.level = (Len(p1) - 1) % 2 BY <3>3, <3>4, <4>1
      <4> QED BY <1>1, <3>4, <3>6, <4>1, <4>2, InStepAppend
    <3>8. p0 \o ds = p1 \o tl
      <4> DEFINE y == <<h>>
      <4>1. y \in Seq(Nat) BY <2>1
      <4>2. ds = y \o tl
        <5>1. 1 \in 1 .. Len(ds) /\ Len(ds) \in 1 .. Len(ds) BY <1>3, EmptySeq
        <5>2. SubSeq(ds, 1, Len(ds)) = <<ds[1]>> \o SubSeq(ds, 1 + 1, Len(ds)) BY <5>1, SubSeqRecursiveFirst
        <5>3. SubSeq(ds, 1, Len(ds)) = ds BY SubSeqFull
        <5>4. tl = SubSeq(ds, 2, Len(ds)) BY <1>3, TailIsSubSeq DEF tl
        <5>5. h = ds[1] BY <1>3 DEF h
        <5> QED BY <5>2, <5>3, <5>4, <5>5
      <4> HIDE DEF y
      <4>3. (p0 \o y) \o tl = p0 \o (y \o tl)
        <5>1. p0 \in Seq(Nat) /\ tl \in Seq(Nat) BY <2>1, <3>2
        <5> QED BY <4>1, <5>1, ThreeLists
      <4> QED BY <4>2, <4>3 DEF y
    <3> HIDE DEF w1, p1
    <3> QED BY <2>1, <2>2, <3>1, <3>5, <3>7, <3>8, EdgesStep
  <2> QED BY <2>3, <2>4
<1> QED BY <1>2, <1>3

----------------------------------------------------------------------------
(* The tape as it is compiled. *)

\* The symbols of a list sound.
AllSound(list) == \A j \in 1 .. Len(list) : Sounds(list[j].sym)

Linked ==
  /\ Same(pulses, wave) /\ InStep(pulses, wave)
  /\ status = "samples" => high = Len(pulses) % 2
  /\ AllSound(symbols)

\* An empty tape, as it begins and as a refused recording leaves it.
LEMMA NothingSame == Same(<<>>, <<>>) /\ InStep(<<>>, <<>>) /\ AllSound(<<>>)
<1> DEFINE w == <<>>
           d == Durs(w)
<1>1. w \in Seq(Part) /\ w \in Seq(Nat) /\ Len(w) = 0 BY EmptySeq
<1> HIDE DEF w
<1>2. d \in Seq(Nat) /\ Len(d) = 0 BY <1>1, DursType
<1>3. d = <<>> BY <1>2, EmptySeq
<1> HIDE DEF d
<1>4. \A L : High(d, L) = {}
  <2>1. \A L, t : t \in High(d, L) <=> \E k \in 1 .. Len(d) : L[k] = 1 /\ t \in Ends(d)[k - 1] .. Ends(d)[k] - 1 BY HighIn
  <2>2. \A k \in 1 .. Len(d) : FALSE BY <1>2
  <2> QED BY <2>1, <2>2
<1>5. d = w BY <1>3 DEF w
<1>6. Same(w, w)
  <2>1. Total(w) = Total(Durs(w)) BY <1>5 DEF d
  <2>2. High(w, Parity) = {} /\ High(Durs(w), Levels(w)) = {} BY <1>4, <1>5 DEF d
  <2> QED BY <1>1, <2>1, <2>2 DEF Same
<1>7. InStep(w, w) BY <1>1 DEF InStep, NextLevel, w
<1>8. AllSound(w) BY <1>1 DEF AllSound
<1> QED BY <1>6, <1>7, <1>8 DEF w

\* Ordinary edges of a block.
LEMMA EmitLinked ==
  ASSUME Linked, NEW ds \in Seq(Nat), Emit(ds), symbols' = symbols, status' # "samples"
  PROVE  Linked'
<1>1. pulses' = pulses \o ds /\ wave' = Edges(wave, ds) BY DEF Emit
<1>2. Same(pulses \o ds, Edges(wave, ds)) /\ InStep(pulses \o ds, Edges(wave, ds)) BY EdgesStep DEF Linked
<1>3. Same(pulses', wave') /\ InStep(pulses', wave') BY <1>1, <1>2
<1>4. AllSound(symbols') BY DEF Linked
<1> QED BY <1>3, <1>4 DEF Linked, Same, InStep, NextLevel, AllSound, Sounds

\* A block without any.
LEMMA SilentLinked ==
  ASSUME Linked, UNCHANGED <<pulses, wave>>, AllSound(symbols'), status' # "samples"
  PROVE  Linked'
<1>1. Same(pulses', wave') /\ InStep(pulses', wave') BY DEF Linked
<1> QED BY <1>1 DEF Linked, Same, InStep, NextLevel, AllSound, Sounds

LEMMA BlockLinked ==
  ASSUME Inv, Linked, ForcedSounds, ReadBlock
  PROVE  Linked'
<1>1. Parser /\ AllSound(symbols) BY DEF Inv, Linked
<1>2. CASE StandardData
  <2>1. Block("standard") /\ Emit(DataPulses(Standard(body[off]))) /\ symbols' = symbols /\ status' = status
    BY <1>2 DEF StandardData, Data, Onward, gdb
  <2>2. body[off] \in BlockType /\ body[off].kind = "standard" /\ status = "blocks" BY <1>1, <2>1, BlockHere
  <2>3. DataPulses(Standard(body[off])) \in Seq(Nat) BY <2>2, StandardType
  <2> QED BY <2>1, <2>2, <2>3, EmitLinked
<1>3. CASE TurboData
  <2>1. Block("turbo") /\ Emit(DataPulses(body[off])) /\ symbols' = symbols /\ status' = status
    BY <1>3 DEF TurboData, Data, Onward, gdb
  <2>2. body[off] \in BlockType /\ body[off].kind = "turbo" /\ status = "blocks" BY <1>1, <2>1, BlockHere
  <2>3. body[off] \in DataBlock BY <2>2, DataFields
  <2>4. DataPulses(body[off]) \in Seq(Nat) BY <2>3, DataType DEF DataBlock
  <2> QED BY <2>1, <2>2, <2>4, EmitLinked
<1>4. CASE PureData
  <2> DEFINE b == [body[off] EXCEPT !.count = 0, !.s1 = 0, !.s2 = 0]
  <2>1. Block("pure") /\ Emit(DataPulses(b)) /\ symbols' = symbols /\ status' = status
    BY <1>4 DEF PureData, Data, Onward, gdb
  <2>2. body[off] \in BlockType /\ body[off].kind = "pure" /\ status = "blocks" BY <1>1, <2>1, BlockHere
  <2>3. b \in DataBlock BY <2>2, DataFields DEF DataBlock
  <2> HIDE DEF b
  <2>4. DataPulses(b) \in Seq(Nat) BY <2>3, DataType DEF DataBlock
  <2> QED BY <2>1, <2>2, <2>4, EmitLinked
<1>5. CASE Pulses
  <2>1. Block("pulses") /\ Emit(body[off].durs) /\ symbols' = symbols /\ status' = status
    BY <1>5 DEF Pulses, Onward, gdb
  <2>2. body[off].durs \in Seq(Nat) /\ status = "blocks" BY <1>1, <2>1, BlockHere, OtherFields
  <2> QED BY <2>1, <2>2, EmitLinked
<1>6. CASE Csw
  <2> DEFINE ds == body[off].durs \o Pause(body[off].pause)
  <2>1. /\ Block("csw") /\ symbols' = symbols
        /\ \/ Emit(ds) /\ status' = status
           \/ UNCHANGED <<pulses, wave>> /\ status' = "parsed"
    BY <1>6 DEF Csw, Onward, GiveUp, gdb
  <2>2. body[off].durs \in Seq(Nat) /\ body[off].pause \in Nat /\ status = "blocks"
    BY <1>1, <2>1, BlockHere, OtherFields
  <2>3. ds \in Seq(Nat) BY <2>2, PauseType, ConcatProperties
  <2> HIDE DEF ds
  <2> QED BY <1>1, <2>1, <2>2, <2>3, EmitLinked, SilentLinked
<1>7. CASE StopOrPause
  <2> DEFINE ds == Pause(body[off].ms)
  <2>1. /\ Block("pause") /\ symbols' = symbols /\ status' = status
        /\ UNCHANGED <<pulses, wave>> \/ Emit(ds)
    BY <1>7 DEF StopOrPause, Onward, gdb
  <2>2. body[off].ms \in Nat /\ status = "blocks" BY <1>1, <2>1, BlockHere, OtherFields
  <2>3. ds \in Seq(Nat) BY <2>2, PauseType
  <2> HIDE DEF ds
  <2> QED BY <1>1, <2>1, <2>2, <2>3, EmitLinked, SilentLinked
<1>8. CASE LoopStart \/ LoopEnd \/ Info \/ Unknown
  <2>1. UNCHANGED <<pulses, wave>> /\ symbols' = symbols /\ status = "blocks" /\ status' \in {"blocks", "parsed"}
    BY <1>8 DEF LoopStart, LoopEnd, Info, Unknown, Onward, GiveUp, gdb, tape, Block, InBlocks
  <2> QED BY <1>1, <2>1, SilentLinked
<1>9. CASE Generalized
  <2>1. /\ Block("gdb") /\ UNCHANGED <<pulses, wave>>
        /\ \/ symbols' = body[off].symbols /\ status' = status
           \/ symbols' = symbols /\ status' = "parsed"
    BY <1>9 DEF Generalized, gdb
  <2>2. status = "blocks" /\ off <= Len(body) /\ body[off].kind = "gdb" BY <2>1 DEF Block, InBlocks
  <2>3. body \in Files /\ off \in 1 .. Len(body)
    <3>1. body \in Files /\ off \in Nat \ {0} BY <1>1, <2>2 DEF Parser
    <3>2. Len(body) \in Nat BY <3>1, FileAssumption, LenProperties
    <3> QED BY <2>2, <3>1, <3>2
  <2>4. AllSound(body[off].symbols) BY <2>2, <2>3 DEF ForcedSounds, AllSound
  <2>5. AllSound(symbols') BY <1>1, <2>1, <2>4
  <2> QED BY <2>1, <2>2, <2>5, SilentLinked
<1> QED BY <1>2, <1>3, <1>4, <1>5, <1>6, <1>7, <1>8, <1>9 DEF ReadBlock

\* A symbol, and the others still to come.
LEMMA NextSymbolLinked == ASSUME Inv, Linked, NextSymbol PROVE Linked'
<1> DEFINE e == Head(symbols)
           s == e.sym
           ts == Tail(symbols)
<1>1. /\ symbols \in Seq(SymbolType) /\ symbols # <<>> /\ status = "blocks" /\ status' = status
      /\ Same(pulses, wave) /\ InStep(pulses, wave) /\ AllSound(symbols)
  BY DEF Inv, Parser, Linked, NextSymbol
<1>2. /\ e \in SymbolType /\ ts \in Seq(SymbolType) /\ Len(ts) = Len(symbols) - 1 /\ Len(symbols) \in Nat \ {0}
      /\ \A j \in 1 .. Len(ts) : ts[j] = symbols[j + 1]
  BY <1>1, HeadTailProperties, EmptySeq
<1>3. s.flags \in 0 .. 3 /\ s.durs \in Seq(Nat) /\ e.rep \in Nat BY <1>2 DEF SymbolType
<1>4. Sounds(s)
  <2>1. 1 \in 1 .. Len(symbols) /\ e = symbols[1] BY <1>1, <1>2
  <2> QED BY <1>1, <2>1 DEF AllSound
<1>5. AllSound(ts)
  <2>1. \A j \in 1 .. Len(ts) : j + 1 \in 1 .. Len(symbols) BY <1>2
  <2> QED BY <1>1, <1>2, <2>1 DEF AllSound
<1>6. PICK n \in 0 .. Len(s.durs) : /\ Ended(s, n)
                                    /\ Symbol(s, SubSeq(s.durs, 1, n)) /\ Means(s, SubSeq(s.durs, 1, n))
  BY DEF NextSymbol
<1>7. symbols' = (IF e.rep > 1 THEN <<[e EXCEPT !.rep = @ - 1]>> \o ts ELSE ts) BY DEF NextSymbol
<1> HIDE DEF s, ts
<1> DEFINE ds == SubSeq(s.durs, 1, n)
<1>8. ds \in Seq(Nat) /\ (s.flags \in {2, 3} => ds # <<>>)
  <2>1. Len(s.durs) \in Nat /\ n \in Int BY <1>3, LenProperties
  <2>2. \A i \in 1 .. n : s.durs[i] \in Nat
    <3>1. \A i \in 1 .. n : i \in 1 .. Len(s.durs) BY <2>1
    <3> QED BY <1>3, <3>1, ElementOfSeq
  <2>3. ds \in Seq(Nat) /\ Len(ds) = IF 1 <= n THEN n - 1 + 1 ELSE 0
    BY <2>1, <2>2, SubSeqProperties
  <2>4. ASSUME s.flags \in {2, 3} PROVE ds # <<>>
    <3>1. s.durs # <<>> /\ s.durs[1] # 0 BY <1>4, <2>4 DEF Sounds
    <3>2. Len(s.durs) > 0 BY <1>3, <3>1, EmptySeq
    <3>3. n # 0
      <4>1. ASSUME n = 0 PROVE FALSE
        <5>1. n < Len(s.durs) /\ n + 1 = 1 BY <2>1, <3>2, <4>1
        <5>2. s.durs[1] = 0 BY <1>6, <5>1 DEF Ended
        <5> QED BY <3>1, <5>2
      <4> QED BY <4>1
    <3>4. 1 <= n BY <1>6, <2>1, <3>3
    <3> HIDE DEF ds
    <3>5. Len(ds) # 0 BY <2>1, <2>3, <3>4
    <3> QED BY <3>5, EmptySeq
  <2> QED BY <2>3, <2>4
<1>9. Same(pulses', wave') /\ InStep(pulses', wave')
  <2>1. Symbol(s, ds) /\ Means(s, ds) BY <1>6
  <2> HIDE DEF ds
  <2> QED BY <1>1, <1>3, <1>8, <2>1, SymbolStep
<1>10. AllSound(symbols')
  <2>1. CASE e.rep > 1
    <3> DEFINE f == [e EXCEPT !.rep = @ - 1]
    <3>1. f \in SymbolType /\ f.sym = s
      <4>1. e.rep - 1 \in Nat BY <1>3, <2>1
      <4>2. f = [e EXCEPT !.rep = e.rep - 1] BY <1>2 DEF SymbolType
      <4> HIDE DEF e, f
      <4>3. f \in SymbolType BY <1>2, <4>1, <4>2, Zenon DEF SymbolType
      <4>4. f.sym = e.sym BY <1>2, <4>2 DEF SymbolType
      <4> QED BY <4>3, <4>4 DEF s
    <3> HIDE DEF f, e
    <3> DEFINE y == <<f>>
    <3>2. y \in Seq(SymbolType) /\ Len(y) = 1 /\ y[1] = f BY <3>1
    <3>3. symbols' = y \o ts BY <1>7, <2>1 DEF f
    <3> HIDE DEF y
    <3>4. /\ Len(y \o ts) = Len(y) + Len(ts)
          /\ \A k \in 1 .. Len(y) + Len(ts) : (y \o ts)[k] = IF k <= Len(y) THEN y[k] ELSE ts[k - Len(y)]
      BY <1>2, <3>2, ConcatProperties
    <3>5. ASSUME NEW k \in 1 .. Len(symbols') PROVE Sounds(symbols'[k].sym)
      <4>1. Len(ts) \in Nat BY <1>2, LenProperties
      <4>2. k \in 1 .. Len(y) + Len(ts) /\ symbols'[k] = IF k <= Len(y) THEN y[k] ELSE ts[k - Len(y)] BY <3>3, <3>4
      <4>3. CASE k = 1
        <5>1. symbols'[k] = f BY <3>2, <4>2, <4>3
        <5> QED BY <1>4, <3>1, <5>1
      <4>4. CASE k # 1
        <5>1. k - 1 \in 1 .. Len(ts) /\ ~(k <= 1) BY <3>2, <4>1, <4>2, <4>4
        <5>2. symbols'[k] = ts[k - 1] BY <3>2, <4>2, <5>1
        <5> QED BY <1>5, <5>1, <5>2 DEF AllSound
      <4> QED BY <4>3, <4>4
    <3> QED BY <3>5 DEF AllSound
  <2>2. CASE ~(e.rep > 1) BY <1>5, <1>7, <2>2
  <2> QED BY <2>1, <2>2
<1>11. status' # "samples" BY <1>1
<1> QED BY <1>9, <1>10, <1>11 DEF Linked, Same, InStep, NextLevel, AllSound, Sounds

\* A sample: between two edges the trigger's state is the parity of the tape.
LEMMA SampleLinked == ASSUME Inv, Linked, TakeSample PROVE Linked'
<1>1. /\ status = "samples" /\ status' = status /\ symbols' = symbols /\ AllSound(symbols)
      /\ Same(pulses, wave) /\ InStep(pulses, wave) /\ high = Len(pulses) % 2
      /\ pulses \in Seq(Nat) /\ Len(pulses) \in Nat /\ wave \in Seq(Part)
  BY LenProperties DEF TakeSample, gdb, Linked, Same
<1>2. CASE high' = 1 - high /\ SamplePulse
  <2> DEFINE d == IF Lasted > GAP THEN GAP ELSE Lasted
             e == [level |-> high, dur |-> d]
  <2>1. off \in Nat /\ lastT \in Nat /\ lastT < off BY <1>1 DEF Inv, Parser, Trigger
  <2>2. Lasted \in Nat BY <2>1, RomAssumption DEF Lasted
  <2>3. d \in Nat BY <2>2, RomAssumption
  <2>4. pulses' = Append(pulses, d) /\ wave' = Append(wave, e) BY <1>2 DEF SamplePulse
  <2> HIDE DEF d
  <2>5. e \in Part /\ e.level = high
    <3>1. high \in {0, 1} BY DEF Inv, Trigger
    <3> QED BY <2>3, <3>1 DEF Part
  <2>6. Same(pulses \o <<d>>, wave') BY <1>1, <2>3, <2>4, OneMore
  <2> HIDE DEF e
  <2>7. pulses' \in Seq(Nat) /\ Len(pulses') = Len(pulses) + 1 BY <1>1, <2>3, <2>4, AppendProperties
  <2>8. pulses \o <<d>> = pulses' BY <1>1, <2>3, <2>4
  <2>9. Same(pulses', wave') BY <2>6, <2>8
  <2>10. pulses' # <<>> /\ Len(pulses') - 1 = Len(pulses) BY <1>1, <2>7, EmptySeq
  <2>11. InStep(pulses', wave')
    <3> DEFINE p == pulses'
    <3>1. p \in Seq(Nat) /\ p # <<>> /\ e.level = (Len(p) - 1) % 2 BY <1>1, <2>5, <2>7, <2>10
    <3> HIDE DEF p
    <3>2. InStep(p, Append(wave, e)) BY <1>1, <2>5, <3>1, InStepAppend
    <3> QED BY <2>4, <3>2 DEF p
  <2>12. high' = Len(pulses') % 2
    <3>1. \A n \in Nat : 1 - (n % 2) = (n + 1) % 2 BY SMT
    <3> QED BY <1>1, <1>2, <2>7, <3>1
  <2> QED BY <1>1, <2>9, <2>11, <2>12 DEF Linked, Same, InStep, NextLevel, AllSound, Sounds
<1>3. CASE UNCHANGED <<high, pulses, wave>>
  <2>1. Same(pulses', wave') /\ InStep(pulses', wave') /\ high' = Len(pulses') % 2 BY <1>1, <1>3
  <2> QED BY <1>1, <2>1 DEF Linked, Same, InStep, NextLevel, AllSound, Sounds
<1> QED BY <1>2, <1>3 DEF TakeSample, wav

LEMMA NextLinked == ASSUME Inv, Linked, ForcedSounds, [Next]_vars PROVE Linked'
<1>1. CASE ReadBlock BY <1>1, BlockLinked
<1>2. CASE NextSymbol BY <1>2, NextSymbolLinked
<1>3. CASE AfterSymbols
  <2>1. Emit(tail) /\ symbols' = symbols /\ status' # "samples" /\ tail \in Seq(Nat)
    BY <1>3 DEF AfterSymbols, Inv, Parser
  <2> QED BY <2>1, EmitLinked
<1>4. CASE EndOfFile \/ Attach
  <2>1. UNCHANGED <<pulses, wave, symbols>> /\ status' # "samples"
    BY <1>4 DEF EndOfFile, Attach, gdb, tape
  <2>2. AllSound(symbols') BY <2>1 DEF Linked
  <2> QED BY <2>1, <2>2, SilentLinked
<1>5. CASE TakeSample BY <1>5, SampleLinked
<1>6. CASE Sampled
  <2>1. /\ symbols' = symbols /\ status' # "samples"
        /\ \/ pulses' = <<>> /\ wave' = <<>>
           \/ UNCHANGED <<pulses, wave>>
    BY <1>6 DEF Sampled, gdb
  <2>2. AllSound(symbols') BY <2>1 DEF Linked
  <2>3. CASE pulses' = <<>> /\ wave' = <<>>
    <3>1. Same(pulses', wave') /\ InStep(pulses', wave') BY <2>3, NothingSame
    <3> QED BY <2>1, <2>2, <3>1 DEF Linked, Same, InStep, NextLevel, AllSound, Sounds
  <2>4. CASE UNCHANGED <<pulses, wave>> BY <2>1, <2>2, <2>4, SilentLinked
  <2> QED BY <2>1, <2>3, <2>4
<1>7. CASE UNCHANGED vars
  <2>1. UNCHANGED <<pulses, wave, symbols, status, high>> BY <1>7 DEF vars, gdb, tape, wav
  <2>2. Same(pulses', wave') /\ InStep(pulses', wave') /\ AllSound(symbols') /\ (status' = "samples" => high' = Len(pulses') % 2)
    BY <2>1 DEF Linked
  <2> QED BY <2>2 DEF Linked, Same, InStep, NextLevel, AllSound, Sounds
<1> QED BY <1>1, <1>2, <1>3, <1>4, <1>5, <1>6, <1>7 DEF Next, Step, Loaded

\* Of every file whose forced symbols sound, and of every recording, the list of pulses
\* that the player toggles through is the signal that the file describes: its levels are
\* right at every moment, and it lasts as long.
THEOREM FileSignalKept == ASSUME ForcedSounds PROVE Spec => []SignalKept
<1>1. Init => Linked
  <2> SUFFICES ASSUME Init PROVE Linked OBVIOUS
  <2>1. pulses = <<>> /\ wave = <<>> /\ symbols = <<>> /\ high = 0 BY DEF Init
  <2>2. Len(pulses) = 0 BY <2>1, EmptySeq
  <2>3. 0 = 0 % 2 BY SMT
  <2>4. Same(pulses, wave) /\ InStep(pulses, wave) /\ AllSound(symbols) BY <2>1, NothingSame
  <2> QED BY <2>1, <2>2, <2>3, <2>4 DEF Linked
<1>2. Inv /\ Linked /\ [Next]_vars => Linked' BY NextLinked
<1>3. Linked => SignalKept BY SameIsKept DEF Linked
<1> QED BY <1>1, <1>2, <1>3, Invariant, PTL DEF Spec
=============================================================================
