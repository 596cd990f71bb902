---------------------------- MODULE TapeCompiler ----------------------------
(***************************************************************************)
(* How a tape file becomes the list of pulses and block boundaries that    *)
(* the player turns: tape_load, tzx_parse and wav_parse.  A .tzx file is a *)
(* sequence of blocks, run like a program (it has loops and may end early);*)
(* a .tap file is one of standard blocks only; a .wav file is a sequence   *)
(* of samples.  Bytes are blocks, samples and symbols here: how they are   *)
(* coded is left out, what the loader makes of them is not.                *)
(***************************************************************************)
EXTENDS Integers, Sequences

CONSTANTS
  Files,      \* block sequences of .tzx and .tap files
  Samples,    \* sample sequences of .wav files: 1 above the threshold, -1 below, 0 between
  Rom,        \* the ROM's timings: pilot, hdr, data, s1, s2, b0, b1, pause
  BYTE,       \* bits of a byte
  MS,         \* T_PER_MS
  GAP, LEAD   \* WAV_GAP_T, and the pulse that stands for the leading silence

ASSUME RomAssumption ==
  /\ Rom \in [pilot : Nat, hdr : Nat, data : Nat, s1 : Nat, s2 : Nat, b0 : Nat, b1 : Nat, pause : Nat]
  /\ BYTE \in Nat \ {0} /\ MS \in Nat /\ GAP \in Nat /\ LEAD \in Nat

\* The blocks of a file, as far as they can be told apart.
Bytes == Seq([1 .. BYTE -> {0, 1}])
DataBlock ==
  [kind : {"turbo", "pure"}, pilot : Nat, count : Nat, s1 : Nat, s2 : Nat, b0 : Nat, b1 : Nat,
   last : Nat, bytes : Bytes, pause : Nat]
SymbolType == [sym : [flags : 0 .. 3, durs : Seq(Nat)], rep : Nat]
BlockType ==
  [kind : {"standard"}, header : BOOLEAN, bytes : Bytes, pause : Nat]
  \cup DataBlock
  \cup [kind : {"pulses"}, durs : Seq(Nat)]
  \cup [kind : {"csw"}, sound : BOOLEAN, durs : Seq(Nat), pause : Nat]
  \cup [kind : {"gdb"}, fits : BOOLEAN, symbols : Seq(SymbolType), pause : Nat]
  \cup [kind : {"pause"}, ms : Nat]
  \cup [kind : {"loop"}, n : Nat]
  \cup [kind : {"endloop", "info", "unknown"}]

ASSUME FileAssumption == Files \subseteq Seq(BlockType) /\ Samples \subseteq Seq({-1, 0, 1})

VARIABLES
  body,              \* what is read: blocks or samples
  status,            \* "blocks" or "samples", then "parsed", then "attached" or "failed"
  off,               \* the next block or sample
  loopOff, loopLeft, \* loop_off, loop_left
  symbols, tail,     \* symbols of a generalized data block still to be emitted, and its pause
  pulses,            \* the durations; the level of a pulse is the parity of its index
  bounds,            \* bounds and bstop
  nblocks,           \* the trap loader's list
  high, lastT,       \* the Schmitt trigger: state, and the time of its last edge
  wave,              \* history: the signal the file describes, [level, dur] after [level, dur]
  marked,            \* history: where a block began or the file said stop
  times              \* history: how often each block was read, of no sample

tape == <<pulses, bounds, nblocks>>
gdb == <<symbols, tail>>
loop == <<loopOff, loopLeft>>
wav == <<high, lastT>>
vars == <<body, status, off, loop, gdb, tape, wav, wave, marked, times>>

LastOf(s) == s[Len(s)]

----------------------------------------------------------------------------
(* The pulse stream. *)

\* What the next edge leads to, and the signal after a number of ordinary edges.
NextLevel(w) == IF w = <<>> THEN 0 ELSE 1 - LastOf(w).level
Edges(w, ds) == w \o [k \in 1 .. Len(ds) |-> [level |-> (NextLevel(w) + k - 1) % 2, dur |-> ds[k]]]

Emit(ds) == pulses' = pulses \o ds /\ wave' = Edges(wave, ds)

Merges_Never == FALSE
Merges == bounds # <<>> /\ LastOf(bounds).at = Len(pulses)

\* A boundary at the end of the stream; one that is there already is merged with.
Bounded_LoseStop(stop) ==
  IF Merges THEN bounds ELSE Append(bounds, [at |-> Len(pulses), stop |-> stop])
Bounded(stop) ==
  IF Merges THEN [bounds EXCEPT ![Len(bounds)].stop = @ \/ stop]
  ELSE Append(bounds, [at |-> Len(pulses), stop |-> stop])

bound_push(stop) ==
  /\ bounds' = Bounded(stop)
  /\ marked' = marked \cup {[at |-> Len(pulses), stop |-> stop]}

\* A pulse that is left out when it has no length.
Optional(d) == IF d = 0 THEN <<>> ELSE <<d>>
Pause(ms) == Optional(ms * MS)

\* Two equal pulses per bit; of the last byte only some bits count.
LastBits(b) == IF b.last \in 1 .. BYTE THEN b.last ELSE BYTE
Bits(b) == IF b.bytes = <<>> THEN 0 ELSE (Len(b.bytes) - 1) * BYTE + LastBits(b)
BitAt(b, n) == b.bytes[(n \div BYTE) + 1][(n % BYTE) + 1]
BitPulses(b) == [j \in 1 .. 2 * Bits(b) |-> IF BitAt(b, (j - 1) \div 2) = 1 THEN b.b1 ELSE b.b0]

\* emit_data
DataPulses(b) ==
  [k \in 1 .. b.count |-> b.pilot] \o Optional(b.s1) \o Optional(b.s2) \o BitPulses(b) \o Pause(b.pause)

\* Block 0x10 and every block of a .tap file: the ROM's own format.
Standard(b) ==
  [pilot |-> Rom.pilot, count |-> IF b.header THEN Rom.hdr ELSE Rom.data, s1 |-> Rom.s1, s2 |-> Rom.s2,
   b0 |-> Rom.b0, b1 |-> Rom.b1, last |-> BYTE, bytes |-> b.bytes,
   pause |-> IF b.pause = 0 THEN Rom.pause ELSE b.pause]

----------------------------------------------------------------------------
(* tzx_parse: one action per kind of block. *)

InBlocks == status = "blocks" /\ symbols = <<>> /\ tail = <<>>

Block(kind) ==
  /\ InBlocks
  /\ off <= Len(body) /\ body[off].kind = kind
  /\ times' = [times EXCEPT ![off] = @ + 1]
  /\ UNCHANGED <<body, wav>>

Onward == off' = off + 1 /\ UNCHANGED <<status, loop, gdb>>
GiveUp == off' = off + 1 /\ status' = "parsed" /\ UNCHANGED <<loop, gdb>>

Data(b) == bound_push(FALSE) /\ Emit(DataPulses(b))

\* 0x10, 0x11 and 0x14: the first two also for the trap loader.
StandardData == Block("standard") /\ Data(Standard(body[off])) /\ nblocks' = nblocks + 1 /\ Onward
TurboData == Block("turbo") /\ Data(body[off]) /\ nblocks' = nblocks + 1 /\ Onward
PureData == Block("pure") /\ Data([body[off] EXCEPT !.count = 0, !.s1 = 0, !.s2 = 0]) /\ UNCHANGED nblocks /\ Onward

\* 0x12 and 0x13.
Pulses == Block("pulses") /\ Emit(body[off].durs) /\ UNCHANGED <<bounds, marked, nblocks>> /\ Onward

\* 0x18: the boundary is there even when the recording is refused.
Csw ==
  /\ Block("csw")
  /\ bound_push(FALSE)
  /\ UNCHANGED nblocks
  /\ \/ body[off].sound /\ Emit(body[off].durs \o Pause(body[off].pause)) /\ Onward
     \/ ~body[off].sound /\ UNCHANGED <<pulses, wave>> /\ GiveUp

\* 0x20 and 0x2A.
StopOrPause ==
  /\ Block("pause")
  /\ UNCHANGED nblocks
  /\ Onward
  /\ \/ body[off].ms = 0 /\ bound_push(TRUE) /\ UNCHANGED <<pulses, wave>>
     \/ body[off].ms # 0 /\ Emit(Pause(body[off].ms)) /\ UNCHANGED <<bounds, marked>>

\* 0x24 and 0x25: one loop at a time; the first pass is the one that is read now.
LoopStart ==
  /\ Block("loop")
  /\ loopLeft' = IF body[off].n > 0 THEN body[off].n - 1 ELSE 0
  /\ loopOff' = off + 1
  /\ off' = off + 1
  /\ UNCHANGED <<tape, wave, marked, gdb, status>>

LoopsBack_Once == loopLeft > 1 /\ loopOff > 0
LoopsBack == loopLeft > 0 /\ loopOff > 0

LoopEnd ==
  /\ Block("endloop")
  /\ loopLeft' = IF LoopsBack THEN loopLeft - 1 ELSE loopLeft
  /\ off' = IF LoopsBack THEN loopOff ELSE off + 1
  /\ UNCHANGED <<tape, wave, marked, gdb, status, loopOff>>

\* Blocks of text are skipped; an unknown or truncated block ends the tape.
Info == Block("info") /\ Onward /\ UNCHANGED <<tape, wave, marked>>
Unknown == Block("unknown") /\ GiveUp /\ UNCHANGED <<tape, wave, marked>>

\* 0x19: the symbols are emitted one by one; a repeat count of 0 means one, and a
\* symbol that is not in the table emits nothing, like one without durations.
Generalized ==
  /\ Block("gdb")
  /\ bound_push(FALSE)
  /\ UNCHANGED <<pulses, wave, nblocks, loop>>
  /\ off' = off + 1
  /\ IF body[off].fits
     THEN symbols' = body[off].symbols /\ tail' = Pause(body[off].pause) /\ UNCHANGED status
     ELSE status' = "parsed" /\ UNCHANGED gdb

----------------------------------------------------------------------------
(* gdb_symbol *)

\* A duration of 0 ends the symbol.
Ended(s, n) ==
  /\ \A j \in 1 .. n : s.durs[j] # 0
  /\ n < Len(s.durs) => s.durs[n + 1] = 0

Flips_Always(s) == s.flags \in {2, 3}
\* 2 and 3 force a level: an empty pulse sets the parity.
Flips(s) == (s.flags = 2 /\ Len(pulses) % 2 = 1) \/ (s.flags = 3 /\ Len(pulses) % 2 = 0)

Extends(s, ds) == s.flags = 1 /\ ds # <<>> /\ pulses # <<>>

Symbol(s, ds) ==
  pulses' = IF Extends(s, ds)
            THEN [pulses EXCEPT ![Len(pulses)] = @ + Head(ds)] \o Tail(ds)
            ELSE pulses \o (IF Flips(s) THEN <<0>> ELSE <<>>) \o ds

\* What the symbol means: its first pulse toggles, keeps, or forces the level.
FirstLevel(s) ==
  CASE s.flags = 1 /\ wave # <<>> -> LastOf(wave).level
    [] s.flags = 2 -> 0
    [] s.flags = 3 -> 1
    [] OTHER -> NextLevel(wave)

Means(s, ds) ==
  wave' = IF ds = <<>> THEN wave
          ELSE Edges(Append(wave, [level |-> FirstLevel(s), dur |-> Head(ds)]), Tail(ds))

NextSymbol ==
  /\ status = "blocks" /\ symbols # <<>>
  /\ LET e == Head(symbols)
     IN /\ \E n \in 0 .. Len(e.sym.durs) :
             /\ Ended(e.sym, n)
             /\ LET ds == SubSeq(e.sym.durs, 1, n) IN Symbol(e.sym, ds) /\ Means(e.sym, ds)
        /\ symbols' = IF e.rep > 1 THEN <<[e EXCEPT !.rep = @ - 1]>> \o Tail(symbols) ELSE Tail(symbols)
  /\ UNCHANGED <<body, status, off, loop, tail, bounds, nblocks, wav, marked, times>>

AfterSymbols ==
  /\ status = "blocks" /\ symbols = <<>> /\ tail # <<>>
  /\ Emit(tail)
  /\ tail' = <<>>
  /\ UNCHANGED <<body, status, off, loop, symbols, bounds, nblocks, wav, marked, times>>

----------------------------------------------------------------------------
(* wav_parse: a Schmitt trigger; the time between two edges is a pulse. *)

Crosses(x) == (high = 0 /\ x = 1) \/ (high = 1 /\ x = -1)

Lasted == IF pulses = <<>> THEN LEAD ELSE off - lastT

\* A gap is cut to GAP and ends in a block boundary.
GapEnd_Early == Len(pulses)
GapEnd == Len(pulses) + 1

SamplePulse ==
  LET d == IF Lasted > GAP THEN GAP ELSE Lasted
  IN /\ pulses' = Append(pulses, d)
     /\ wave' = Append(wave, [level |-> high, dur |-> d])
     /\ IF Lasted > GAP
        THEN /\ bounds' = Append(bounds, [at |-> GapEnd, stop |-> FALSE])
             /\ marked' = marked \cup {[at |-> Len(pulses'), stop |-> FALSE]}
        ELSE UNCHANGED <<bounds, marked>>

TakeSample ==
  /\ status = "samples" /\ off <= Len(body)
  /\ off' = off + 1
  /\ \/ Crosses(body[off]) /\ high' = 1 - high /\ lastT' = off /\ SamplePulse
     \/ ~Crosses(body[off]) /\ UNCHANGED <<wav, pulses, bounds, wave, marked>>
  /\ UNCHANGED <<body, status, loop, gdb, nblocks, times>>

\* A recording of fewer than two edges is refused, and the deck left empty.
Sampled ==
  /\ status = "samples" /\ off > Len(body)
  /\ IF Len(pulses) < 2
     THEN status' = "failed" /\ pulses' = <<>> /\ bounds' = <<>> /\ wave' = <<>> /\ marked' = {}
     ELSE status' = "parsed" /\ UNCHANGED <<pulses, bounds, wave, marked>>
  /\ UNCHANGED <<body, off, loop, gdb, nblocks, wav, times>>

----------------------------------------------------------------------------
(* tape_load *)

EndOfFile ==
  /\ InBlocks /\ off > Len(body)
  /\ status' = "parsed"
  /\ UNCHANGED <<body, off, loop, gdb, tape, wav, wave, marked, times>>

Attach ==
  /\ status = "parsed"
  /\ status' = IF nblocks = 0 /\ pulses = <<>> THEN "failed" ELSE "attached"
  /\ UNCHANGED <<body, off, loop, gdb, tape, wav, wave, marked, times>>

Loaded == status \in {"attached", "failed"} /\ UNCHANGED vars

OfFile ==
  /\ body \in Files /\ status = "blocks"
  /\ bounds = <<>> /\ marked = {}
  /\ times = [k \in 1 .. Len(body) |-> 0]

OfRecording ==
  /\ body \in Samples /\ status = "samples"
  /\ bounds = <<[at |-> 0, stop |-> FALSE]>> /\ marked = {[at |-> 0, stop |-> FALSE]}
  /\ times = <<>>

Init ==
  /\ OfFile \/ OfRecording
  /\ off = 1 /\ loopOff = 0 /\ loopLeft = 0
  /\ symbols = <<>> /\ tail = <<>>
  /\ pulses = <<>> /\ nblocks = 0
  /\ high = 0 /\ lastT = 0
  /\ wave = <<>>

ReadBlock ==
  \/ StandardData \/ TurboData \/ PureData \/ Pulses \/ Csw \/ StopOrPause
  \/ LoopStart \/ LoopEnd \/ Info \/ Unknown \/ Generalized
Step == ReadBlock \/ NextSymbol \/ AfterSymbols \/ EndOfFile \/ TakeSample \/ Sampled \/ Attach
Next == Step \/ Loaded

Spec == Init /\ [][Next]_vars
=============================================================================
