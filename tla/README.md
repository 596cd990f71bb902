# hc91emu: models, model checking and proofs

hc91emu emulates four Romanian Spectrum clones (HC-91, HC-91 with the disk
interface, HC-2000, HC-128): a Z80, its memory maps and ports, a cassette player,
a floppy controller, snapshots, and RZX session recordings, behind a command line
and an SDL window. This directory holds TLA+ models of the parts of it that keep
state over many steps, the TLC runs that check them on small instances, and TLAPS
proofs of what the runs suggest holds in general.

All paths below are relative to the repository (`src/fdc.c` is the file that
`PROJECT.json` calls `src/src/fdc.c`).

## 1. The system

One thread does everything. `main` (or the SDL event loop) calls
`machine_run_frame` fifty times a second; that calls `z80_step`, and the CPU calls
back into `bus_mem_read/write` and `bus_io_read/write`, which reach the devices.
Nothing in a device moves by itself: a device catches up with the T-state clock
when the CPU looks at it. What makes the system hard is therefore not preemption.
It is that several actors act on the same few variables in orders nobody chose:
the emulated program (any byte to any port at any time), the user (F4-F8, dropped
files, reset, exit), schedules by frame number, and files written elsewhere.

| Component | State it keeps | Operations | Who calls it |
|---|---|---|---|
| Floppy controller (`fdc.c`, `fdc.h`) | phase, command bytes, transfer position, result bytes, pending seek completion, head positions, control latch, dirty marks, images | data port read/write, latch read/write, flush, free | CPU through ports 0x85/0x87; `main` at exit |
| Cassette player (`tape.c`, `machine.h`) | pulses, boundaries, head, level, time of the next edge, playing/paused, poll-rate window | `tape_player_ear` (in a port read), start, toggle, rewind, reset | CPU through port 0xFE; F6, F7; frame schedule |
| Cassette sides (`tape.c`, `sdl.c`) | name in the deck, name of the other side, scheduled start | swap, drop, scheduled start, reset | F8, `--swap-at`, SDL drop events |
| Tape compiler (`tape.c`) | parser position, loop counter, pulses, boundaries, level parity | one step per TZX block, WAV sample, generalized symbol | `tape_load` |
| Memory maps and latches (`machine.c`, `machine.h`) | RAM, ROM and shadow paging, latches of four machines, screen page, border, beeper level | reads, writes, port outputs, hook paging, reset | CPU; everything that loads a file |
| Snapshots (`snapshot.c`) | a file: registers, latches, pages | save and load `.sna`, `.z80`, `.szx`; load `.scr` | `main`, F2/F4, drops |
| Frame loop (`machine.c`) | start of the frame, frame counter, interrupt taken | `machine_run_frame` | `main`, SDL loop |
| RZX sessions (`rzx.c`) | frames: fetch count and port values; recording or playing | `rzx_record_start` .. `rzx_frame_end`, `rzx_play_frame` | frame loop, bus |
| RZX file loader (`rzx.c`) | file blocks to frames | `rzx_load`, `parse_frames` | `main` |
| Z80 core (`z80.c`) | registers, EI shadow, HALT | `z80_step`, `z80_int`, `z80_reset` | both frame loops |
| Contention, floating bus (`machine.c`) | none of its own: functions of the clock | `contention_delay`, bus reads | CPU |
| Beam painter (`video.c`) | frame buffer, painted up to where, display memory, page, border | `video_beam_catchup`, `video_beam_finish`, `video_render` | bus writes, frame loop, `main`, SDL loop |
| Beeper and AY (`wav.c`, `ay.c`) | level, synthesised up to where, sample begun, sample buffer, registers | `beep_edge`, `beep_flush`, `beep_save`, register writes | bus writes, SDL loop, `main` |
| Keyboard and joystick (`keys.c`, `sdl.c`) | matrix, typed-text schedule | once per frame | frame loop |
| Monitor (`debug.c`, `disasm.c`) | breakpoints, watches, step count, pending hit, script | before each instruction; noted by the bus | frame loop, bus |
| ROM tape traps (`tape.c`) | blocks of the tape and how many were taken; the file saved to | `tape_trap`, `tape_save_trap` | frame loop |
| Inflate (`inflate.c`) | bit buffer, code tables, output | `zlib_inflate`, `zlib_inflate_alloc` | `.szx`, RZX, CSW blocks of a tape |
| Command line (`main.c`) | the machine it builds | parse, run, outputs at exit | - |

### What is hard, and what would make each part correct

* **Controller.** A program may send any bytes in any phase, pulse terminal count or
  reset in the middle of a transfer, and the exec phase is shared by READ, WRITE and
  FORMAT. Correct means: the status register never announces something that is not
  there; a transfer stays on the track it addressed; FORMAT, which checks no
  cylinder, stays inside the image; a changed image is marked for write-back; a
  seek's completion reaches the driver; a polling driver never hangs.
* **Player.** All the edges since the last read are replayed inside one read, a
  boundary is recognised by an equality test on a cached index, and whether the tape
  pauses depends on the *rate of earlier reads*. Correct means: no boundary slips
  behind the head; the level is the parity of the pulse; no time is gained or lost;
  a key wait does not start a tape; a loader that polls gets the whole tape.
* **Sides.** The deck gives up a tape before the next one is known to be readable,
  with borrowed file names. Correct means: the pulses in the deck are those of the
  name in the deck, and two swaps bring back the first side.
* **Compiler.** The level of a generalized symbol depends on the parity of all that
  was emitted before. Correct means: the toggling signal is the one the file
  describes, boundaries ascend and none is lost, loops play out.
* **Maps and latches.** Reads and writes are decoded by two hand-written functions,
  machine by machine; the displayed page is a cached copy of a latch bit. Correct
  means: a byte is written where it is read, the screen follows the latch, a locked
  latch stays locked, a reset undoes every map.
* **Snapshots.** Formats differ in what they carry. Correct means: a machine goes on
  from its own file as it was.
* **Picture and sound.** Both are made in arrears: nothing is drawn or synthesised while
  time passes, and everyone who changes what is seen or heard has to have the arrears
  made up first, at five places each with a condition of its own. Correct means: nobody
  can tell; no sample is lost, repeated or kept for ever.
* **Monitor and traps.** A step count, breakpoints, watches noted by the bus and a script
  share one stop; a trap replaces a ROM routine between the hook and the instruction.
  Correct means: every due stop happens and no other, a scripted run never waits, what
  one run saves a later one loads.
* **Inflate.** Codes are decoded from counts of lengths alone. Correct means: a sound
  stream gives its text, everything else is refused.
* **Frame loop and RZX.** One loop ends frames by T-states and one by fetch counts,
  and the interrupt is offered for a window whose start the overshoot of the last
  instruction moves. Correct means: no drift, handlers do not nest, HALT wakes, and
  playback reproduces the recording.

## 2. Plan

The order is by how much state is kept over how many steps, and how little of it the
repository's own tests can reach.

| # | Modules | Status |
|---|---|---|
| 1 | `FdcBus` (abstract bus protocol), `Fdc`, `FdcProps`, `MCFdc`, `FdcProofs` | done |
| 2 | `TapePlayer`, `TapeProps`, `MCTape`, `TapeProofs` | done |
| 3 | `TapeDeck` (extends the player; its abstract specification is the player), `TapePolls` (the deck with a history of the reads), `MCDeck`, proofs in `TapeProofs` | done |
| 4 | `TapeCompiler`, `CompilerProps`, `MCCompiler`, `CompilerProofs` | done |
| 5 | `Frame` (loop, recorder, player of recordings), `FrameProps`, `MCFrame`, `FrameProofs` | done |
| 6 | `Machine` (maps, latches, reset, snapshots), `MachineProps`, `MCMachine`, `MachineProofs` | done |
| 7 | `Picture`, `Raster` (abstract screen), `Beam`; `Psg`, `Speaker` (abstract sound), `Sound`; `Outputs` composes the two, `OutputsProps`, `MCOutputs`, `OutputsProofs` | done |
| 8 | `Monitor`, `TapeTraps`, composed by `Stepper`; `StepperProps`, `MCStepper`, `StepperProofs` | done |
| 9 | `Deflate` (the format), `Inflate` (the decoder), `Readers` (with the tape compiler), `InflateProofs` | done |
| 10 | RZX file loader: frames and repeat counts (done, in `Frame`); several input blocks, empty recordings, a failure after the snapshot | partly |
| 11 | Keys: the typed-text schedule against resets and drops | not done |
| 12 | Sessions: `Machine` composed with `Frame` (F4, reset, drop and the traps during a recording) | not done |

Abstract specifications worth stating: the i8272 bus protocol for the controller
(`FdcBus`), the plain player for the deck, a screen that is drawn as the beam passes
(`Raster`) and a speaker that is heard as it moves (`Speaker`) for the two renderers in
arrears, the meaning of a compressed stream (`Deflate`), the recorded trace for RZX
playback (`marks` in `Frame`), "a tape" for the compiler's output (`IsTape` of
`TapePlayer`; `Playable` is its boundary half). Not stated: a memory with an address map
for `Machine`.

Type invariants are proved rather than checked by the runs, except in `rzx_session`,
where the type of a recorded frame is itself a bound.

## 3. Floppy controller

**Modules.** `Fdc` is `fdc.c`: `FirstByte`, `NextByte`, `SwallowId` and the write half
of a transfer are `fdc_data_write`; the read half and the result are `fdc_data_read`;
`cmd_done` is `Execute`, one operator per command; `xfer_start` is `Transfer`,
`xfer_end` is `XferEnd`, the latch `SelWrite`/`SelRead`, and the exit is `fdc_flush`
with the exit paths of `main`. `FdcBus` is what a driver sees: the status register
and how many result bytes are owed.

**Abstractions.** Sector contents are "as in the file" or "changed". Since only
`cmd_done` looks at parameter bytes, they are chosen when the last one arrives.
`idcnt` is kept modulo a common multiple of the sectors per track. The divide fault
of `xfer_end` on an empty drive is the terminal value `"trapped"` of `power`.

**Runs.**

* `fdc_protocol` - a disk of 2 cylinders x 2 sides x 2 sectors of 2 bytes and an empty
  drive, all commands, all parameters that tell cases apart
  (cylinder, head, sector, size and EOT in and out of range, unit 2 as an alias of
  unit 0), reset and terminal count at every point (936 thousand states): `PhaseConsistent`,
  `HeadOnDisk`, `TransferOnTrack`, `DirtyCoversChanges`, `SeekDelivered`,
  `ResultContinues`, `BusProtocol`, the refinement of `FdcBus`, and `CommandCompletes`:
  from wherever it takes over, a driver that goes by RQM/DIO and does not reset gets
  every command to its end.
* `fdc_format_tc`, `fdc_exit` - see Findings.

Bounds. Two sectors of two bytes are the least that separate "end of sector", "end of
run" and "end of track", two sides the least for a transfer that goes on from one to the
other; two drives are the least for a command on one with a
completion or dirty mark of the other. A third would be an alias (`drv[drive & 1]`).

**Fairness.** `CommandCompletes` is an implication: *if* from some time on every step is one
of a polling driver (`Polled`) and that driver goes on (WF), a command ends. A driver in
a polling loop does access the port again, and the chip does nothing between accesses.

**Proved** (`FdcProofs`, for every geometry, set of inserted disks and byte stream):
`TypeOK`, `PhaseConsistent`, `HeadOnDisk`, `TransferOnTrack`, `DirtyCoversChanges`,
`SeekDelivered`, `ResultContinues`, and that the controller implements `FdcBus`. The inductive invariant is `Chip` (phase
machine) and `Media` (drives) and `TransferOnTrack` and `DirtyCoversChanges`. None of
the checked invariants is inductive alone: that a transfer stays on its track needs
that nothing but a command changes `drive`, that the run in `xfer` was clipped when it
was set up, and that an exec phase always has one. The arithmetic (a run from sector R
to a clipped EOT ends on the track) is in lemmas of their own. Assumed: only
`GeometryAssumption` (a disk image has non-zero geometry, which `fdc_insert` checks). For
`ResultContinues` the invariant also says where the transfer began (`FromSector`), so that
the sector after the last one done is a quotient; it assumes `SectorsFit` (fewer than 255
sectors to a track: the result byte is one past the last, and wraps on an image that
claims 255). Only model-checked: `CommandCompletes`, a liveness property.

## 4. Cassette player and sides

**Modules.** `TapePlayer` is the player of `tape.c`. Time is relative: `due` is
`edge_ts - now`, `winAge` is `now - win_start`, every action takes the time `d` since
the previous one. `EarRead(d, scanner)` is the whole of `tape_player_ear`: the rate
window (`PollRate`), then `Resume` or the catch-up loop. The loop is stated by where it
lands (`LandsOn`): the end of the tape, the first boundary it pauses at, or the first
pulse that is not over; it is a function of the state, so this is exact.
`PlayStart`, `ToggleKey`, `RewindKey`, `Reset`, `Insert`, `InsertPaused` are the other
hands. `TapeDeck` adds names and schedules around it; reading a *dropped* name may
give any file or none, since SDL has freed the string.

`TapePolls` adds history, so that "a loader polls" does not have to mean the player's own
flag `hot`: the times of the last `HotReads - 1` loader reads (`heard`), of the last read of
any kind (`lull`), how long before that one a loader had read `HotReads` times within
`HotWindow` (`since`), and whether the tape was wound back and not started since
(`rewound`). `Polled` is "within the last three windows, a silence counting as one". Three
are what the code grants and no more: a count reached early in one window is looked at by
the first read after it, holds through the next window, and, if then nobody reads, is
still `hot` for the read that ends the silence.

**Runs.**

* `tape_deck` - the player under every hand, in the deck: two sides, files to drop, a
  scheduled start, tapes with two blocks, with stop markers and a zero-length pulse, with
  no boundary at all, with boundaries but no pulse, and one that opens with a pure tone, so
  that its first boundary, a stop marker, is not at its start. Player: `LevelIsParity`,
  `KeepsTime`. Against the history: `BoundaryHeard` (the head passes a boundary only where a
  loader polls, and a stop marker never) and `KeyWaitHolds` (a read resumes a waiting tape
  only where a loader polls). Deck: `DeckHoldsCur`, `SwapExchanges`, and `DeckIsPlayer`, the
  refinement. `TapeComesRound`: a loader that takes over at any point and polls steadily
  gets every tape, also one without boundaries, to its end and rewound.
* `tape_pauses` - see Findings.

`BoundaryHeard` has one exception in it, `Unlooked`, and it is the code's: a rewind and a
reset set `nextb = 1`, so on a `.tzx` that opens with a pure tone the first boundary is run
over after a rewind, unheard and even if it is a stop marker, against "at a boundary the
player pauses" (`machine.h`). The run reaches that case, and without the exception TLC
finds it; the property says that it is the only one.

Bounds. `HotWindow` 2 and `HotReads` 2 stand for 10000 T and 32 reads; the gaps
{0, 1, 3} are "same instant", inside the window, and longer than it, so that one read may
cross several pulses and boundaries. (`tape_pauses` has a window of 4 and a gap of 12.)
The run has two halves, chosen at the start (`remembered`): one keeps the history, with one
file on both sides and the tone the only file to drop; the other exchanges and drops all
others and keeps none.
`winReads` is capped at `HotReads`, `winAge` at `MaxAge` > window, `due` at -`MaxLate`,
longer than any tape: beyond them nothing the code compares changes.

**Fairness.** `TapeComesRound` is an implication as well: `LoaderTakesOver` says that from
some time on only the loader acts and its polls go on, each within `HotWindow / HotReads`
of the one before. Edge loops of loaders read the port every 50 to 200 T; the code's own
threshold is 32 in 10000 T, one in 312.

**Proved.** `TapeProofs`, for every set of tapes, window and pattern of reads: `TypeOK`,
`NextBoundaryAhead`, `LevelIsParity`, `KeepsTime`. The invariant adds `DueInPulse` (the edge
is never further away than the pulse is long) to the first three. `BoundaryHeard` and
`KeyWaitHolds` are proved of the deck with its history, for every set of tapes, with no
hypothesis on where boundaries are: `NoneSkipped` says that a boundary no longer looked for
is under or behind the head, but for the first of a tape wound back, and `PollsInv` ties
the rate window to the history: the reads counted were made in the window
(`CountedInWindow`), a full count was polling within it (`FullWindow`), and a set `hot` is
polling within two windows before the one that runs (`HotHeard`). The deck: `DeckHoldsCur`,
`SwapExchanges` (sides trade places, and a tape with pulses starts over in a pause), and
that the deck implements the player, which lifts all of the above to the deck. Assumed:
tapes are well formed (`IsTape`; the compiler's `Playable` is the half of it about
boundaries) and no longer than `MaxLate`.
Only model-checked: `TapeComesRound`.

## 5. Tape compiler and Inflate

**Modules.** `TapeCompiler`: one action per kind of TZX block (`tzx_parse`), one per
generalized symbol (`gdb_symbol`), one per sample (`wav_parse`), and `Attach` for the
end of `tape_load`. Pulses are durations, their level is the parity of their index, as
in the code. History variables keep what the file *means*: `wave` (levels with
durations), `marked` (where it begins blocks and says stop), `times` (how often each
block was read).

**Run** `tape_compiler`: all sequences of up to three of some 25 block descriptions, all
sequences of five loop-related blocks, all recordings of up to six samples: `Playable`,
`MarksKept`, `SignalKept`, `LoopsPlayOut`. Three blocks are the least in which a
generalized block follows a merged marker after a pulse of either parity; five are the
least for a loop abandoned by another loop, with both ends. A byte has two bits here;
durations only need to be zero, equal or different.

**Proved** (`CompilerProofs`, for every file and recording): `TypeOK` and `Playable`, from
`Stream` (boundaries ascend and lie on the stream, which only grows), `Parser` and
`Trigger` (the last edge is in the past). `MarksKept` from `Kept`: the boundaries are the
file's marks with those of one place merged, the stop kept. `LoopsPlayOut` from `Account`:
what each block has been read so far, what the open loop still owes its body, and how the
two add up to the file's own counts, for loops that are abandoned as well. `SignalKept` from
`Linked`: the two lists of durations are as long and as high (`Same`), the next level the
file means is the parity of the pulses (`InStep`), and while samples are read so is the
trigger. The core is how the signal of two lists in a row is made of theirs (`HighJoined`,
an induction over the second list), for edges that are added, an empty pulse, and a last pulse
that is lengthened. It assumes `ForcedSounds`: a symbol that forces a level has a first
duration, since without one it inverts what follows (see Findings). Not modelled: checksums and byte layout of the formats, the run lengths of
CSW (its result is a list of durations or a refusal), archive info, byte lengths.

**Inflate.** `Deflate` is the format, defined apart from any decoder: what bits a writer
produces for a sequence of blocks (`Encoded`) and what text they mean (`StreamMeans`),
with prefix codes from their lengths by the ordering rule. `Inflate` is `inflate.c`:
`bits`, `huff_build`, `huff_decode` as operators on a reader, one action per header, field
group, symbol or byte. A compressed CSW block is one of its users, so `Readers` puts it
beside the compiler in the run `tape_compiler`; the two share nothing. `Inflates`: it is done,
with the text, only when the stream is sound, whole and fits, and in error only when it is
not; it never writes past the room. The four thousand streams are small versions of the format: bytes of two bits
(four literals), codes of up to four bits, two lengths, two distances; all sequences of
three tokens in the fixed code, every assignment of lengths 0, 1, 3 to six symbols with
several distance codes (incomplete, oversubscribed, empty, a lone distance), every way
four items of lengths and runs fill the two tables or overrun them, stored blocks after
any alignment with good and bad length checks, mixtures of blocks cut at every byte and
written to every smaller buffer. Not modelled: the values in the zlib header (a flag),
growth of the buffer; the checksum behind the last block is not read by the code.

**Proved** (`InflateProofs`): `InflatesAll`, the property `Inflates` for every stream, every
cut, every room and every size of the format. What a stream may be is `Written`: at least
one block, each field with a value it has bits for (`IsBlock`, `IsTable`, `Fits`), the list
of lengths as long as a decoder reads on, and a symbol without a code written as bits that
begin none (`Spare`); codes need not be codes, matches may reach before the text, checks and
block kinds may be wrong. The format is any for which `FormatAssumption` holds: the order of
the code lengths is a permutation, the code lengths' fields cannot exceed the longest code,
the fixed codes are codes and have an end, and no distance is 0. `NoStreamAssumption`: the
stream beside a file that is compiled is no zlib file. The argument has four parts.

* *Bytes.* The bits of the stream are cut into bytes and put together again by the reader
  (`BytesInOrder`, `Takes`): a reader that stands at place p of the bits (`ReadsAt`) and takes n
  of them gets those and stands at p + n, or fails just when there are not so many.
  `GetsField` then reads a field back as it was written.
* *Codes.* The decoder knows only how many codes each length has. The first code of a length
  is what the shorter ones leave (`FirstStep` against `Claimed`), a symbol's number is that
  and its rank, and no shorter start of a code is below the codes of its own length; so
  `GetsSymbol`, and `GetsNothing` for the bits of a symbol without a code.
  `FailsUnlessCode`: the running count of codes left over goes negative just when the weight
  of the lengths is too great.
* *Places.* Blocks, tokens and items are concatenated; each stands at the sum of the lengths
  before it (`StandsFlattened`, `BlocksStand`, `TokensStand`, `ItemStands`), the padding of a
  stored block at the byte boundary that the decoder jumps to.
* *The inductive invariant* `Decodes` says where in the stream the decoder is (`Somewhere`):
  before a header, behind one, at byte j of a stored block, at item j of the list or at token
  j of a block; the reader stands at that place, the tables are those of the block, and what is
  written is what the stream means up to there. Each action goes to the next place or refuses,
  and refuses only what is not `Accepts`: out of input, or something without a meaning (`Errs`).
  `Inflates` alone is not inductive, since it says nothing before the end.

The match that reaches into its own output is `CopiedIs`: byte by byte, the copy is the
repetition that the format means. A text never shrinks, so one that is too long for the room
stays so (`TokensAre`, `BlocksAre`), and the decoder may refuse it when it meets the end of
the room. TLC found `Decodes` to hold on the run's streams. That the decoder ends at all is not
stated.

## 6. Frame loop and RZX

**Module.** `Frame` is both loops. `RunBegin`/`RunStep`/`RunEnd` are `machine_run_frame`
with `rzx_frame_end`; `Load`, `ParseFrame` and `Loaded` are `rzx_record_finish` and
`rzx_load` in a new process; `PlayBegin`/`PlayStep`/`PlayEnd` are `rzx_play_frame`. An
instruction counts a fetch for its opcode and each prefix (`m1`) and takes at least `HALT_T`
for each; its contention is one delay. hc91emu writes every port value of every frame but
reads files of other programs too, which may say "as the frame before" (`REPEAT`), so `Load`
marks any set of frames that repeat and `ParseFrame` has to find their values again.
Instructions are classes the loops tell apart: EI, DI, HALT, IN (whose value steers the
program), jumps, contended or not; a program is a constant, what a port answers is free.
`marks` keeps the CPU at each recorded boundary. Left out: OUT, so a ROM is mapped low
throughout (the guard of IF1 paging); and the recorder's stop at a frame whose counts do not
fit 16 bits, which no frame is (`TypeOK`, proved).

**Run** `rzx_session`: two main programs (wait in HALT; poll with interrupts off and on)
with two handlers (one pass; wait for a key), two starting states (16 thousand states):
`NoDrift`, `TypeOK` (which bounds what a frame of a file holds), `HandlersDoNotNest`,
`Reproduces`, `NeverDesyncs`, `HaltWakes`. Bounds: 24 T-states to a frame, interrupt window
8, acknowledge 7, instructions up to 8 + 6, one of them behind a prefix, a HALT in contended
memory, three frames: a frame holds a handler and some of the program, the window can open
in an EI shadow, the overshoot takes every value an instruction allows, and the second frame
starts from an overshoot that the third inherits. `rzx_if1` - see Findings.

**Fairness.** WF of the two loops: each is a loop of the one thread.

**Proved** (`FrameProofs`, for every program, frame length, contention pattern and port
input): `TypeOK` (with "every frame's counts fit 16 bits", as an inequality between
fetches and T-states), `NoDrift`, `WakesAtFrame` (a halted CPU is awake as soon as the
next frame has begun), `Reproduces` and `NeverDesyncs`. The invariant is `Shape`, `File` (what is written and what is
parsed), `Position` (how far each of them is), `Shadow` (a halted CPU is out of EI's
shadow, which is why the next frame wakes it) and `Clock`. Assumed: `LoopAssumption`, an
interrupt taken at the end of the window is over before the frame is. That playback
reproduces the recording adds `Faithful`: the program run from a mark over the values
still in the file ends at the next mark, for what is recorded, filed, parsed and played.
It assumes `HaveIf1 = FALSE` (with the interface it is not so, finding `rzx_if1`) and
`Embeddable`: a recording starts neither halted nor behind an EI, since a `.z80` keeps the
one as a PC that is one lower and the other not at all. `HandlersDoNotNest` is a property of
programs that keep to a discipline, `Disciplined(main, handler)`: the main program stays
out of the handler, which is left by RET and turns interrupts on right before it or not at
all. Then no handler is running, or one is, with interrupts off or in the shadow before its
RET (`Calm`), through instructions, interrupts, the snapshot and the playback. TLC checks
that the programs of `rzx_session` are such. Only model-checked: `HaltWakes`.

## 7. Maps, latches and snapshots

**Module.** `Machine`: `machine_peek` is `ReadCell`, `bus_mem_write` is `WriteCell`, each by
machine as in the code; a cell is (chip, bank, offset), so "same byte" is "same cell".
Outputs are one action per decoded port; every even port is also the ULA's. `Execute`
is an instruction with the shadow ROM paged in before a hook and out after 0x0700.
`Save` and `Load` carry the state through a file in one slot; a refused 128K `.z80` has
already overwritten the registers, as in the code. `slot.seen` is history: what the
saved machine was like. The CPU is the environment: instructions take it anywhere in
`CpuStates`, but a HALT is read from memory, since files depend on where it stands.

**Run** `machine_maps` (693 thousand states): `WriteReadsBack`, `ScreenFollowsLatch`,
`GuestView` (a 48K program on the HC-128 cannot page), `ResetRestarts`, `Resumes`.
Bounds: a page is two addresses, so that first, last and inner addresses of every map
differ; bytes have four values, a word sixteen, which is the address space; two CPU
states (at a hook with a stack against the ROM; in the paged bank after EI); one byte to
poke, a HALT where the CPU stands, in the page that moves; the outputs take every latch
bit that is decoded on and off, with the lock; foreign files: 48K with a missing page,
`.sna`, and two 128K. One snapshot per behaviour (`CanSave`), loaded any number of
times. `machine_halt` - see Findings.

**Proved** (`MachineProofs`, for every page size, set of machines, outputs, pokes and
foreign files): `TypeOK`, `WriteReadsBack`, `ScreenFollowsLatch`, `GuestView`,
`ResetRestarts`, `Resumes`. The invariant is `TypeOK`, `SlotOK` (the slot holds a well-formed file, so
that a load types what it sets), `ScreenFollowsLatch`, and `GuestLocked` (the latch of a
guest is 48, lock bit included, which is what makes its view stable: `GuestView` alone
says nothing of the lock). Assumed: `ScaleAssumption` (a word addresses exactly the
memory) and `InputAssumption` (inputs are bytes; foreign files are well formed).
For `Resumes` it adds `OwnSlot`: the registers, the stack and the memory in a file the
emulator wrote are those of `slot.seen`, for every kind of file, with the PC of a `.sna`
on the stack of its own memory image. Nothing is left to the model checker alone.

## 8. Picture and sound

**Modules.** `Picture` is the geometry: at which T-state the beam reaches a spot (the pair
of pixels of one T-state) and what it shows. `Raster` is a screen that is drawn as time
passes; `Beam` is `video.c` and its clients: `Painted` is `paint_span` over a stretch of
time, `CatchUp` is `video_beam_catchup`, `WriteCell`, `SetBorder` and `FlipPage` are the
writes of `bus_mem_write` and `bus_io_write` with the condition under which each catches
up, `LoadState` a file loaded between frames, `EndFrame` is `video_beam_finish`,
`Fallback` the renderer of `video_render` that knows no beam. `Psg` is what the sound path
sees of the AY (registers, and the envelope that a write restarts), `Speaker` a listener
who hears moment by moment, `Sound` is `wav.c` with the drain of `sdl.c`. `Outputs` is one
machine with both, in the batch loop of `main` or in the window, with or without `--wav`.
Every action takes the time since the one before.

**Run** `outputs`: `PictureIsRaster` and `SoundIsSpeaker` are refinements under which what
is still owed counts as drawn and heard (`Owed`, `Sounded`), so that they say that nobody
can tell the arrears from the real thing at any moment; `RenderersAgree` (a frame without
changes is the same from both renderers), `DeviceHearsTheFile` (with `--wav` in a window
the device has a prefix of what is kept) and `BufferDrained`. Bounds: a frame of five
lines of seven T-states, three of them visible, two with display, two fetch blocks of two
T-states each, a right and a left border; so every kind of line follows every other and a
span can begin and end in any part of one. Accesses come at the times at which these parts
begin and end, two per session, over two frames; a sample is twelve and a half T-states,
so that samples and lines do not meet. The last instruction reaches up to one T-state into
the next frame.

**Proved** (`OutputsProofs`, for every geometry that fits a frame and every content):
`PictureIsRaster` and `RenderersAgree`, from `BeamInv`: the clock stays within a frame and
an overrun, and in a frame that somebody looks at the painter is not ahead of it. The core
is that the spots of two successive spans are those of their union, each lit at its own
time. The sound: `DeviceHearsTheFile` and `BufferDrained`, which together with the
types (`sent` lies within the buffer) are inductive. `SoundIsSpeaker` from `EarInv`: the
clocks' types, nothing is sent without a file (`Settled`), and between frames a window owes
nothing. The core is that one moment of the listener is one step of what the synthesiser
counts as heard, and the stretch an action lasts is a recursion over its moments.

Left out: flashing attributes, ULA snow, the tone and noise generators, continuous
envelope shapes and volume curve of the AY, the mixer's initial value, rounding of the
doubles in `wav.c` (time is counted in exact fractions of a sample), muting, a window
without an audio device (its buffer grows until exit), playback of an RZX file, whose
frames end by fetch count and may leave the clock behind the start of the next one.

## 9. Monitor and ROM traps

**Modules.** `Monitor` is `debug.c`: `Stops` and `StepHook` are `debug_step_hook`, `Noted`
is what the `debug_note_*` functions keep of an instruction's traffic, `Prompt` a command
of the script. Commands that only print are one. `TapeTraps` is `tape_trap` and
`tape_save_trap` over a whole memory, and the parser of the `.tap` file in between.
`Stepper` is one round of `machine_run_frame`: hook, the two traps, `z80_step`, with
interrupts accepted between rounds; a run of the emulator may save a tape, end, and
another may load it. `asked` (a bag for each list), `seen`, `left` and `before` are history:
what the user asked for, what has happened on the bus since the last hook, what is left of
the last `s N`, and what the coming instruction comes after: a hook, the prompt or a trap.

**Run** `stepper` (985 thousand states): `StopsWhenDue`, `SavedLoads`, `NeverHangs`.
`StopsWhenDue` judges every hook against the history, and every instruction too: none runs
while a stop is owed, but for the one a trap returns to. The loop calls the hook before the
traps and does not call it again, so a breakpoint at the return address is passed and a
watch the trap hit is reported one instruction late, against "step_hook runs before every
instruction" (`debug.h:35`). The property names that exception and no other; sessions put a
breakpoint at such an address, loading and saving, and watch what a trap reads and writes.
Bounds: two-bit bytes, sixteen addresses of which eight are ROM; lists of two entries, one
with the same address twice; every script of two commands out of seven and three longer
ones; a program that writes, uses a port, enables interrupts, halts, and calls loader and
saver; two runs of the emulator, with two saved blocks. A block of the full two-byte length
wraps and is not saved whole; `Fits` excludes it.

**Fairness.** WF of the loop's stages: one thread, and a scripted prompt never waits for
input. Prompts at a terminal are left out: they wait as long as their user does.

**Proved** (`StepperProofs`, for every program, script, set of options and size of a byte).
`StopsWhenDue`, from `MonitorInv`: the lists are what was asked for (`ListsAsked`), the
count is what is left (`CountsLeft`), the pending hit is the first access heard since the
last hook (`FirstHeard`), nothing is pending without a monitor, and past a hook that did not
stop nothing is owed until a trap has run (`NothingMissed`). Lists and bags are compared by
counting: a toggle takes out one of an address that `-b` gave twice. `SavedLoads`, from
`TapeInv`: the file is a `Chain` of the blocks saved to it, and the tape's blocks are the
`Images` of what was saved when it was loaded. The core is that the parser cuts a chain of
blocks back into these blocks and that a length of two bytes is read as it was written. The
parser and the parity are recursive functions; what they return is shown with lemmas that
state induction and recursion for a set of naturals and a function (`InductTo`,
`Recursive`), where the library's theorems take operators. `InflateProofs` begins with the
same ones, and `CompilerProofs` uses them. Only model-checked: `NeverHangs`.

## 10. Findings

Runs that expect a violation; each shows a statement of the sources that the code does
not keep.

* `fdc_format_tc` (bug): FORMAT on an empty drive enters the exec phase; terminal count
  there makes `xfer_end` divide by a sector size of 0.
* `fdc_exit` (bug): `main` returns from a failing output step before `fdc_free`, and
  `fdc_flush` drops the dirty mark of a file it cannot open: changes are lost, against
  "dirty images are written back at exit".
* `tape_pauses` (divergence): a stop marker pauses "unconditionally", but for one read
  only if the loader keeps polling, because `hot` stays set; F6 likewise.
* `rzx_if1` (divergence): playback does not page the shadow ROM, against "everything else
  mirrors machine_run_frame".
* `machine_halt` (divergence): a CPU parked by a `.scr` is halted with no HALT behind its
  PC, so a saved `.sna` or `.z80` resumes one byte early, running.

Met while modelling and visible in the models, without a run of their own:

* `hot` is only recomputed at a read: after a burst of reads and a silence, however long,
  the next read still counts as polled, rolls the tape over a boundary or sets a paused
  tape rolling, even if it is one of KEY-SCAN. `BoundaryHeard` and `KeyWaitHolds` bound it:
  three windows, a silence counting as one.
* After a rewind the first boundary of a tape that opens with a pure tone is not looked for
  (`nextb = 1`): it is run over unheard, stop marker or not. A start or a swap looks for it.
* Two seeks before a SENSE INTERRUPT leave one completion (`SeekDelivered` allows it: a newer
  seek takes the place of one not yet sensed); SENSE INTERRUPT reports the
  cylinder of the drive selected when it runs, not the one that sought.
* A failed F8 has already given up the old tape (`LeaveEmpty` in `Swap`); a scheduled
  start un-pauses a side swapped in meanwhile.
* After a drop, `tape_cur` (and after F8 `tape_next`) points into a freed string.
* `machine_reset` leaves the beeper level and the controller's latch; `--boot-cpm` holds
  until the first reset only; on an HC-128 with the interface `if1_paged` toggles although
  its maps never show the ROM.
* A 128K `.z80` is refused after the registers were overwritten, and no loader takes the
  shadow ROM or the low RAM maps out before it fills memory.
* A forced generalized symbol without durations still inverts what follows; the trap
  loader's copy of a turbo block of 64K or more is cut.
* The two traps look at the PC only: they also fire with RAM or another ROM at that address.
* After a trap's RET the next instruction runs without a hook: a breakpoint there never
  stops, and a watch the trap hit is reported one instruction late, against "step_hook runs
  before every instruction" (`debug.h`); `StopsWhenDue` excepts this instruction alone. `c` does not clear a step count that is still running. A breakpoint given twice
  on the command line survives one toggle.
* A `.szx` sets the speaker's level without telling the synthesiser.
* A `.rzx` file that is refused has already loaded its snapshot; one dropped during a
  playback has also replaced frames that are still played, with the old count.

## 11. Not modelled, and why

The rest of the RZX file loader (several input blocks, refusals) is short and sequential:
what can go wrong in it are refused and empty files, and no document says what they leave
behind. Typed keys are a list of events consulted once a frame, which touches the machine
through the keyboard matrix only. Sessions that record while F4, a reset, a drop or a trap
changes the machine would need `Machine` and `Frame` in one state. The disassembler
formats one instruction. The Z80 instruction set is a sequential interpreter that the
repository compares with ZEXALL; only what the loops rest on is modelled. Contention is a
free delay at given positions in a frame. SDL's dynamic loading, pacing and drawing, PNG
output, argument parsing, the test driver and the chess program have no state of the
machine's.

## 12. Out of the prover's reach

Liveness (`CommandCompletes`, `TapeComesRound`, `HaltWakes`, `NeverHangs`) is
model-checked only. Inductions over data are at the edge: where a property of all numbers
can stand as a set and a step as a function, the lemmas that begin `InflateProofs` make
them, and `SavedLoads`, `SoundIsSpeaker`, `SignalKept` and `Inflates` are proved that way. What
the five runs that expect a violation show are counterexamples; nothing is proved of them.
No module uses RECURSIVE.

## 13. Running it

    tlc -workers 2 -config Fdc_protocol.cfg MCFdc      # and so for each run of PROJECT.json
    tlapm FdcProofs.tla                                # and the other *Proofs modules

`PROJECT.json` lists the components, runs, the seeded faults that show each property can
fail (`X_Fault` stands before the definition `X` it replaces), the source lines of every
definition, the hazards with the properties that watch them, and the theorems.
