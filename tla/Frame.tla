------------------------------- MODULE Frame -------------------------------
(***************************************************************************)
(* The frame loop of the machine and the RZX recorder and player that run  *)
(* it twice: machine_run_frame counts T-states and logs every value the    *)
(* CPU reads from a port; rzx_play_frame counts instruction fetches        *)
(* instead and feeds the log back.  A recording is the promise that both   *)
(* loops take the CPU through the same states.                             *)
(*                                                                         *)
(* A session is: the snapshot taken when recording starts, a number of     *)
(* recorded frames, the file, and the playback in a fresh process.  Instructions are *)
(* the classes the loop can tell apart; a program is a constant.           *)
(***************************************************************************)
EXTENDS Integers, Sequences

CONSTANTS
  TOP,              \* addresses are 0 .. TOP - 1 and wrap
  Programs,         \* memory contents: [BOOLEAN -> [Addr -> instruction]], TRUE with the IF1 ROM in
  Starts,           \* CPU states in which a recording may start
  Hooks, Exit,      \* 0x0008, 0x1708: the IF1 ROM pages in; 0x0700: it pages out
  HaveIf1,          \* have_if1
  Vector,           \* where an accepted interrupt goes
  FRAME,            \* HC91_FRAME_TSTATES
  WINDOW,           \* HC91_INT_WINDOW
  ACK,              \* T-states of an accepted interrupt
  Contended,        \* the T-states of a frame at which a contended access is delayed, with the delay
  MAXT, MAXDELAY,   \* the longest instruction, and the longest of the delays in Contended
  REPEAT,           \* 0xFFFF: a frame with the values of the frame before it
  Last              \* bound: frames of a recording

Ops == {"nop", "ei", "di", "halt", "in", "jp", "ret"}
Inputs == {0, 255}                 \* what a port read can return, as far as a program tells
Floating == 255                    \* rzx_in without a recorded value
HALT_T == 4

Addr == 0 .. TOP - 1
\* m1: the fetches an instruction is counted with, one for each prefix and one for its opcode.
Instr ==
  {i \in [op : Ops, t : HALT_T .. MAXT, m1 : 1 .. MAXT, slow : BOOLEAN, to : Addr] : HALT_T * i.m1 <= i.t}
CpuType ==
  [pc : Addr, iff : BOOLEAN, ei : BOOLEAN, halted : BOOLEAN, stack : Seq(Addr), tstates : Nat, fetches : Nat]

\* An interrupt taken at the end of its window is over before the frame is; every memory
\* cycle takes time; the clock starts with the recording, in reset or in the snapshot that
\* the command line names; no CPU halts in the shadow of an EI.
ASSUME LoopAssumption ==
  /\ TOP \in Nat \ {0} /\ FRAME \in Nat /\ WINDOW \in Nat /\ ACK \in Nat
  /\ MAXT \in Nat /\ MAXDELAY \in Nat /\ Last \in Nat
  /\ HALT_T <= MAXT /\ HALT_T <= ACK /\ WINDOW + ACK <= FRAME
  /\ HaveIf1 \in BOOLEAN /\ Vector \in Addr

ASSUME ProgramAssumption ==
  /\ Programs \subseteq [BOOLEAN -> [Addr -> Instr]]
  /\ \A t \in DOMAIN Contended : Contended[t] \in 0 .. MAXDELAY
  /\ \A c \in Starts : c \in CpuType /\ (c.halted => ~c.ei) /\ c.tstates = 0 /\ c.fetches = 0

\* The file's mark of a repeated frame is a count, never a list of values.
ASSUME RepeatAssumption == REPEAT \notin Seq(Inputs)

VARIABLES
  memory,           \* the program
  cpu,              \* Z80: pc, iff, ei, halted, the stack, tstates, fetches
  if1,              \* if1_paged
  frameStart, frame,\* frame_start_ts, frame_counter
  inFrame, taken,   \* inside the loop, and its int_taken
  base, ins,        \* the fetch count at the start of the frame, the reads since then (rin, in_pos)
  mode,             \* "record", "load", "replay" or "over"
  snap, log,        \* the recording: the embedded snapshot and the frames
  frames,           \* the frames as the player has read them
  marks,            \* history: the CPU at the end of each recorded frame
  desync            \* the player has warned

loop == <<frameStart, frame, inFrame, taken, base>>
file == <<snap, log, marks, frames>>
vars == <<memory, cpu, if1, frameStart, frame, inFrame, taken, base, ins, mode, file, desync>>

----------------------------------------------------------------------------
(* The CPU. *)

\* contention_delay: by the position in the frame, nothing before its start.
Delay(c) == LET t == c.tstates - frameStart IN IF t \in DOMAIN Contended THEN Contended[t] ELSE 0

\* ... of what is read at PC, by a halted CPU too.  The delays of an instruction's accesses
\* are one delay.
Cost(c, i) == (IF c.halted THEN HALT_T ELSE i.t) + (IF i.slow THEN Delay(c) ELSE 0)

\* Every step starts by ending the shadow of an EI, and counts its fetches.
Fetch(c, n, t) == [c EXCEPT !.ei = FALSE, !.fetches = @ + n, !.tstates = @ + t]

Reads(c, i) == ~c.halted /\ i.op = "in"

After(pc) == (pc + 1) % TOP

Execute(c, i, v) ==
  CASE i.op = "ei"   -> [c EXCEPT !.pc = After(c.pc), !.iff = TRUE, !.ei = TRUE]
    [] i.op = "di"   -> [c EXCEPT !.pc = After(c.pc), !.iff = FALSE]
    [] i.op = "halt" -> [c EXCEPT !.pc = After(c.pc), !.halted = TRUE]
    [] i.op = "jp"   -> [c EXCEPT !.pc = i.to]
    [] i.op = "in"   -> [c EXCEPT !.pc = IF v = 0 THEN After(c.pc) ELSE i.to]
    [] i.op = "ret" /\ c.stack # <<>> -> [c EXCEPT !.pc = Head(c.stack), !.stack = Tail(c.stack)]
    [] OTHER -> [c EXCEPT !.pc = After(c.pc)]

\* z80_step
z80_step(c, i, v) ==
  IF c.halted THEN Fetch(c, 1, Cost(c, i)) ELSE Execute(Fetch(c, i.m1, Cost(c, i)), i, v)

Accepts_InShadow(c) == c.iff
Accepts_Awake(c) == c.iff /\ ~c.ei /\ ~c.halted
Accepts(c) == c.iff /\ ~c.ei

\* z80_int
z80_int(c) ==
  IF ~Accepts(c) THEN c
  ELSE [c EXCEPT !.pc = Vector, !.iff = FALSE, !.halted = FALSE, !.stack = <<c.pc>> \o @,
                 !.tstates = @ + ACK, !.fetches = @ + 1]

----------------------------------------------------------------------------
(* What both loops do at the start of a frame, at an instruction, and at the end. *)

\* The interrupt is offered once, whatever the overshoot of the frame before.
Begin ==
  /\ ~inFrame
  /\ inFrame' = TRUE
  /\ base' = cpu.fetches
  /\ ins' = <<>>
  /\ cpu' = z80_int(cpu)
  /\ taken' = Accepts(cpu)
  /\ UNCHANGED <<memory, if1, frameStart, frame, mode, file, desync>>

\* ... and after every instruction while the ULA still holds the line, until it is taken.
Offered(c) == ~taken /\ c.tstates - frameStart >= 0 /\ c.tstates - frameStart < WINDOW

OneStep(i, v) ==
  LET after == z80_step(cpu, i, v)
  IN /\ cpu' = IF Offered(after) THEN z80_int(after) ELSE after
     /\ taken' = (taken \/ (Offered(after) /\ Accepts(after)))
     /\ ins' = IF Reads(cpu, i) THEN Append(ins, v) ELSE ins
     /\ UNCHANGED <<memory, frameStart, frame, inFrame, base, mode, file>>

NextFrame_FromNow == cpu.tstates
NextFrame == frameStart + FRAME

EndFrame ==
  /\ inFrame' = FALSE
  /\ frameStart' = NextFrame
  /\ frame' = frame + 1
  /\ UNCHANGED <<memory, cpu, if1, taken, base, ins>>

----------------------------------------------------------------------------
(* Recording: machine_run_frame. *)

RunBegin == mode = "record" /\ frame < Last /\ Begin

\* Only while a ROM is mapped low, which it is throughout a recording: no OUT is modelled.
PagesIn == HaveIf1 /\ ~if1 /\ cpu.pc \in Hooks

RunStep ==
  /\ mode = "record" /\ inFrame
  /\ cpu.tstates < frameStart + FRAME
  /\ LET i == memory[if1 \/ PagesIn][cpu.pc]
     IN \E v \in IF Reads(cpu, i) THEN Inputs ELSE {0} : OneStep(i, v)
  /\ if1' = ((if1 \/ PagesIn) /\ cpu.pc # Exit)
  /\ UNCHANGED desync

\* rzx_frame_end.  The recorder stops at a frame whose counts do not fit 16 bits; no frame
\* is that long (FitsTheFile in FrameProps), so there is no action for it.
Logged_NoInt == [fetches |-> cpu.fetches - base - (IF taken THEN 1 ELSE 0), ins |-> ins]
Logged_NoBase == [fetches |-> cpu.fetches, ins |-> ins]
Logged == [fetches |-> cpu.fetches - base, ins |-> ins]

RunEnd ==
  /\ mode = "record" /\ inFrame
  /\ cpu.tstates >= frameStart + FRAME
  /\ log' = Append(log, Logged)
  /\ marks' = Append(marks, cpu)
  /\ EndFrame
  /\ UNCHANGED <<mode, snap, frames, desync>>

\* A .z80 snapshot has no halted flag: PC goes back to the HALT.
Saved(c) == [c EXCEPT !.halted = FALSE, !.ei = FALSE, !.pc = IF c.halted THEN (@ + TOP - 1) % TOP ELSE @]

\* rzx_record_finish writes every value.  Other programs write REPEAT for a frame with
\* the values of the frame before it.
Repeatable == {k \in 2 .. Len(log) : log[k].ins = log[k - 1].ins}
Written(S) == [k \in 1 .. Len(log) |-> IF k \in S THEN [log[k] EXCEPT !.ins = REPEAT] ELSE log[k]]

\* rzx_load in a new process, whose clock starts at 0: the snapshot ...
Load ==
  /\ mode = "record" /\ ~inFrame /\ frame > 0
  /\ mode' = "load"
  /\ \E S \in SUBSET Repeatable : log' = Written(S)
  /\ cpu' = snap
  /\ if1' = FALSE /\ frameStart' = 0 /\ frame' = 0
  /\ taken' = FALSE /\ base' = 0 /\ ins' = <<>>
  /\ UNCHANGED <<memory, inFrame, snap, marks, frames, desync>>

\* ... and the frames (parse_frames).
Expanded_First(f) == IF f.ins = REPEAT THEN frames[1].ins ELSE f.ins
Expanded(f) == IF f.ins = REPEAT THEN frames[Len(frames)].ins ELSE f.ins

ParseFrame ==
  /\ mode = "load" /\ Len(frames) < Len(log)
  /\ LET f == log[Len(frames) + 1]
     IN /\ f.ins = REPEAT => frames # <<>>
        /\ frames' = Append(frames, [fetches |-> f.fetches, ins |-> Expanded(f)])
  /\ UNCHANGED <<memory, cpu, if1, loop, ins, mode, snap, log, marks, desync>>

Loaded ==
  /\ mode = "load" /\ Len(frames) = Len(log)
  /\ mode' = "replay"
  /\ UNCHANGED <<memory, cpu, if1, loop, ins, file, desync>>

----------------------------------------------------------------------------
(* Playback: rzx_play_frame. *)

This == frames[frame + 1]

PlayBegin == mode = "replay" /\ Begin

\* rzx_in: the next recorded value, or the floating bus.
Unrecorded == Len(ins) >= Len(This.ins)
Fed == IF Unrecorded THEN Floating ELSE This.ins[Len(ins) + 1]

\* rzx_play_frame stops at the recorded number of fetches.
MorePlay == cpu.fetches - base < This.fetches

PlayStep ==
  /\ mode = "replay" /\ inFrame
  /\ MorePlay
  /\ LET i == memory[if1][cpu.pc]
     IN /\ OneStep(i, Fed)
        /\ desync' = (desync \/ (Reads(cpu, i) /\ Unrecorded))
  /\ UNCHANGED if1

PlayEnd ==
  /\ mode = "replay" /\ inFrame
  /\ ~MorePlay
  /\ desync' = (desync \/ Len(ins) < Len(This.ins))
  /\ EndFrame
  /\ mode' = IF frame + 1 >= Len(frames) THEN "over" ELSE "replay"
  /\ UNCHANGED file

\* The session is over; the machine would run on without a recording.
Over == mode = "over" /\ UNCHANGED vars

----------------------------------------------------------------------------
Init ==
  /\ memory \in Programs
  /\ \E c \in Starts :
       /\ cpu = c
       /\ snap = Saved(c)
  /\ if1 = FALSE
  /\ frameStart = 0 /\ frame = 0
  /\ inFrame = FALSE /\ taken = FALSE
  /\ base = 0 /\ ins = <<>>
  /\ mode = "record"
  /\ log = <<>> /\ marks = <<>> /\ frames = <<>>
  /\ desync = FALSE

Running == RunBegin \/ RunStep \/ RunEnd
Playing == ParseFrame \/ Loaded \/ PlayBegin \/ PlayStep \/ PlayEnd

Next == Running \/ Load \/ Playing \/ Over

\* Both loops are loops of one thread: they go on until the user saves and quits.
Spec == Init /\ [][Next]_vars /\ WF_vars(Running) /\ WF_vars(Playing)
=============================================================================
