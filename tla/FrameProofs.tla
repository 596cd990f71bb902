---------------------------- MODULE FrameProofs ----------------------------
(***************************************************************************)
(* Proofs about the frame loop, for every program, frame length, interrupt *)
(* window and contention pattern: the types, the drift-free clock with the *)
(* bound on a frame's counts, that a halted CPU wakes, and that playback   *)
(* goes through the recorded states and asks for the recorded values, and  *)
(* that handlers which return do not nest.                                 *)
(***************************************************************************)
EXTENDS FrameProps, SequenceTheorems, TLAPS

----------------------------------------------------------------------------
(* The CPU. *)

\* After, Saved and the handlers stay inside the address space.
LEMMA Wraps == \A a \in Addr : After(a) \in Addr /\ (a + TOP - 1) % TOP \in Addr
  BY LoopAssumption DEF Addr, After

\* No delay is longer than MAXDELAY, whatever the position in the frame.
LEMMA DelayBound == ASSUME NEW c PROVE Delay(c) \in 0 .. MAXDELAY
<1>1. 0 \in 0 .. MAXDELAY BY LoopAssumption
<1> QED BY <1>1, ProgramAssumption DEF Delay

\* An instruction takes at least the T-states of a fetch, and a bounded time.
LEMMA CostBound == ASSUME NEW c, NEW i \in Instr PROVE Cost(c, i) \in HALT_T .. MAXT + MAXDELAY
  BY DelayBound, LoopAssumption DEF Cost, Instr, HALT_T

\* Fetch changes the shadow of EI and the two counters.
LEMMA FetchType ==
  ASSUME NEW c \in CpuType, NEW n \in Nat, NEW t \in Nat
  PROVE /\ Fetch(c, n, t) \in CpuType
        /\ Fetch(c, n, t).ei = FALSE /\ Fetch(c, n, t).halted = c.halted
        /\ Fetch(c, n, t).tstates = c.tstates + t /\ Fetch(c, n, t).fetches = c.fetches + n
<1>1. c.tstates + t \in Nat /\ c.fetches + n \in Nat BY DEF CpuType
<1>2. Fetch(c, n, t) = [c EXCEPT !.ei = FALSE, !.fetches = c.fetches + n, !.tstates = c.tstates + t]
  BY DEF Fetch, CpuType
<1>3. c = [pc |-> c.pc, iff |-> c.iff, ei |-> c.ei, halted |-> c.halted, stack |-> c.stack,
           tstates |-> c.tstates, fetches |-> c.fetches]
  BY DEF CpuType
<1>4. Fetch(c, n, t) \in CpuType BY <1>1, <1>2, Zenon DEF CpuType
<1> QED BY <1>2, <1>3, <1>4

\* What an instruction does takes no time of its own, and only EI leaves a shadow.
LEMMA ExecuteType ==
  ASSUME NEW c \in CpuType, NEW i \in Instr, NEW v, c.ei = FALSE, c.halted = FALSE
  PROVE /\ Execute(c, i, v) \in CpuType
        /\ Execute(c, i, v).halted => ~Execute(c, i, v).ei
        /\ Execute(c, i, v).tstates = c.tstates /\ Execute(c, i, v).fetches = c.fetches
<1>1. After(c.pc) \in Addr /\ i.to \in Addr BY Wraps DEF CpuType, Instr
<1>2. ASSUME NEW p \in Addr PROVE
        /\ [c EXCEPT !.pc = p] \in CpuType
        /\ [c EXCEPT !.pc = p, !.iff = TRUE, !.ei = TRUE] \in CpuType
        /\ [c EXCEPT !.pc = p, !.iff = FALSE] \in CpuType
        /\ [c EXCEPT !.pc = p, !.halted = TRUE] \in CpuType
  BY DEF CpuType
<1>3. ASSUME c.stack # <<>> PROVE [c EXCEPT !.pc = Head(c.stack), !.stack = Tail(c.stack)] \in CpuType
  BY <1>3, HeadTailProperties DEF CpuType
<1>4. (IF v = 0 THEN After(c.pc) ELSE i.to) \in Addr BY <1>1
<1>5. Execute(c, i, v) \in CpuType BY <1>1, <1>2, <1>3, <1>4, Zenon DEF Execute
<1>6. c = [pc |-> c.pc, iff |-> c.iff, ei |-> c.ei, halted |-> c.halted, stack |-> c.stack,
           tstates |-> c.tstates, fetches |-> c.fetches]
  BY DEF CpuType
<1> QED BY <1>5, <1>6 DEF Execute

\* From a to b the clock went on, by HALT_T at least for every fetch that was counted.
Paced(a, b) == a.fetches < b.fetches /\ HALT_T * (b.fetches - a.fetches) <= b.tstates - a.tstates

\* z80_step: time for the fetches it counts, bounded, and a halted CPU has no shadow.
LEMMA StepType ==
  ASSUME NEW c \in CpuType, NEW i \in Instr, NEW v
  PROVE /\ z80_step(c, i, v) \in CpuType
        /\ z80_step(c, i, v).halted => ~z80_step(c, i, v).ei
        /\ Paced(c, z80_step(c, i, v))
        /\ z80_step(c, i, v).tstates \in c.tstates + HALT_T .. c.tstates + MAXT + MAXDELAY
<1>1. c.tstates \in Nat /\ c.fetches \in Nat BY DEF CpuType
<1>2. Cost(c, i) \in HALT_T .. MAXT + MAXDELAY /\ Cost(c, i) \in Nat /\ HALT_T \in Nat
  BY CostBound, LoopAssumption DEF HALT_T
<1>3. c.tstates + Cost(c, i) \in c.tstates + HALT_T .. c.tstates + MAXT + MAXDELAY
  BY <1>1, <1>2, LoopAssumption DEF HALT_T
<1>4. CASE c.halted
  <2> DEFINE f == Fetch(c, 1, Cost(c, i))
  <2>1. z80_step(c, i, v) = f BY <1>4 DEF z80_step
  <2>2. f \in CpuType /\ f.ei = FALSE /\ f.tstates = c.tstates + Cost(c, i) /\ f.fetches = c.fetches + 1
    <3>1. 1 \in Nat /\ Cost(c, i) \in Nat BY <1>2
    <3> QED BY <3>1, FetchType, Zenon
  <2> HIDE DEF f
  <2>3. Paced(c, f)
    <3> DEFINE x == Cost(c, i)
    <3>1. x \in Nat /\ HALT_T <= x BY <1>2, LoopAssumption DEF HALT_T
    <3> HIDE DEF x
    <3>2. c.fetches < c.fetches + 1 /\ HALT_T * ((c.fetches + 1) - c.fetches) <= (c.tstates + x) - c.tstates
      BY <1>1, <3>1 DEF HALT_T
    <3> QED BY <2>2, <3>2 DEF Paced, x
  <2> QED BY <1>3, <2>1, <2>2, <2>3
<1>5. CASE ~c.halted
  <2> DEFINE f == Fetch(c, i.m1, Cost(c, i))
             e == Execute(f, i, v)
  <2>1. z80_step(c, i, v) = e BY <1>5 DEF z80_step
  <2>2. i.m1 \in Nat \ {0} /\ HALT_T * i.m1 <= i.t /\ i.t \in Nat BY LoopAssumption DEF Instr, HALT_T
  <2>3. f \in CpuType /\ f.ei = FALSE /\ f.halted = FALSE
        /\ f.tstates = c.tstates + Cost(c, i) /\ f.fetches = c.fetches + i.m1
    <3>1. i.m1 \in Nat /\ Cost(c, i) \in Nat /\ c.halted = FALSE BY <1>2, <1>5, <2>2 DEF CpuType
    <3> QED BY <3>1, FetchType, Zenon
  <2>4. i.t <= Cost(c, i) BY <1>5, <2>2, DelayBound, LoopAssumption DEF Cost
  <2> HIDE DEF f
  <2>5. e \in CpuType /\ (e.halted => ~e.ei) /\ e.tstates = f.tstates /\ e.fetches = f.fetches
    BY <2>3, ExecuteType
  <2> HIDE DEF e
  <2>6. Paced(c, e)
    <3> DEFINE x == Cost(c, i)  n == i.m1  t == i.t
    <3>1. x \in Nat /\ n \in Nat /\ n > 0 /\ HALT_T * n <= t /\ t <= x /\ t \in Nat BY <1>2, <2>2, <2>4
    <3>2. e.fetches = c.fetches + n /\ e.tstates = c.tstates + x BY <2>3, <2>5
    <3> HIDE DEF x, n, t
    <3>3. c.fetches < c.fetches + n /\ HALT_T * ((c.fetches + n) - c.fetches) <= (c.tstates + x) - c.tstates
      BY <1>1, <3>1 DEF HALT_T
    <3> QED BY <3>2, <3>3 DEF Paced
  <2> QED BY <1>3, <2>1, <2>3, <2>5, <2>6
<1> QED BY <1>4, <1>5

\* z80_int: nothing, or one fetch and ACK T-states, and the CPU is awake.
LEMMA IntType ==
  ASSUME NEW c \in CpuType
  PROVE /\ z80_int(c) \in CpuType
        /\ ~Accepts(c) => z80_int(c) = c
        /\ Accepts(c) => /\ z80_int(c).halted = FALSE
                         /\ z80_int(c).fetches = c.fetches + 1
                         /\ z80_int(c).tstates = c.tstates + ACK
<1>1. CASE ~Accepts(c) BY <1>1 DEF z80_int
<1>2. CASE Accepts(c)
  <2> DEFINE s == <<c.pc>> \o c.stack
  <2>1. s \in Seq(Addr) BY DEF CpuType
  <2>2. z80_int(c) = [c EXCEPT !.pc = Vector, !.iff = FALSE, !.halted = FALSE, !.stack = s,
                               !.tstates = c.tstates + ACK, !.fetches = c.fetches + 1]
    BY <1>2 DEF z80_int, CpuType
  <2>3. c.tstates + ACK \in Nat /\ c.fetches + 1 \in Nat BY LoopAssumption DEF CpuType
  <2>4. Vector \in Addr BY LoopAssumption
  <2>5. c = [pc |-> c.pc, iff |-> c.iff, ei |-> c.ei, halted |-> c.halted, stack |-> c.stack,
             tstates |-> c.tstates, fetches |-> c.fetches]
    BY DEF CpuType
  <2> HIDE DEF s
  <2>6. z80_int(c) \in CpuType BY <2>1, <2>2, <2>3, <2>4, Zenon DEF CpuType
  <2>7. z80_int(c).halted = FALSE /\ z80_int(c).fetches = c.fetches + 1 /\ z80_int(c).tstates = c.tstates + ACK
    BY <2>2, <2>5
  <2> QED BY <1>2, <2>6, <2>7
<1> QED BY <1>1, <1>2

\* A halted CPU has no shadow, also after an interrupt.
LEMMA IntShadow ==
  ASSUME NEW c \in CpuType, c.halted => ~c.ei
  PROVE z80_int(c).halted => ~z80_int(c).ei
  BY IntType

\* What the snapshot holds is a CPU between two instructions.
LEMMA SavedType ==
  ASSUME NEW c \in CpuType
  PROVE Saved(c) \in CpuType /\ Saved(c).ei = FALSE /\ Saved(c).halted = FALSE
<1>1. c.pc \in Addr /\ (c.pc + TOP - 1) % TOP \in Addr BY Wraps DEF CpuType
<1> QED BY <1>1 DEF Saved, CpuType

----------------------------------------------------------------------------
(* One instruction of either loop. *)

\* The interrupt, if any, follows the instruction in the same step.
StepTo(i, v) == LET after == z80_step(cpu, i, v) IN IF Offered(after) THEN z80_int(after) ELSE after

\* Its type, its shadow, and the most it can advance the clock: an instruction, or, in
\* the window only, an interrupt on top of it.
LEMMA StepToType ==
  ASSUME cpu \in CpuType, frameStart \in Nat, NEW i \in Instr, NEW v
  PROVE /\ StepTo(i, v) \in CpuType
        /\ StepTo(i, v).halted => ~StepTo(i, v).ei
        /\ Paced(cpu, StepTo(i, v))
        /\ \/ StepTo(i, v).tstates <= cpu.tstates + MAXT + MAXDELAY
           \/ StepTo(i, v).tstates < frameStart + WINDOW + ACK
<1> DEFINE a == z80_step(cpu, i, v)
<1>1. /\ a \in CpuType /\ (a.halted => ~a.ei)
      /\ Paced(cpu, a)
      /\ a.tstates \in cpu.tstates + HALT_T .. cpu.tstates + MAXT + MAXDELAY
  BY StepType
<1>2. StepTo(i, v) = IF Offered(a) THEN z80_int(a) ELSE a BY DEF StepTo
<1> HIDE DEF a
<1>3. CASE ~(Offered(a) /\ Accepts(a))
  <2>1. StepTo(i, v) = a BY <1>1, <1>2, <1>3, IntType
  <2> QED BY <1>1, <2>1
<1>4. CASE Offered(a) /\ Accepts(a)
  <2>1. StepTo(i, v) = z80_int(a) BY <1>2, <1>4
  <2>2. z80_int(a) \in CpuType /\ (z80_int(a).halted => ~z80_int(a).ei) BY <1>1, IntType, IntShadow
  <2>3. z80_int(a).fetches = a.fetches + 1 /\ z80_int(a).tstates = a.tstates + ACK
    BY <1>1, <1>4, IntType
  <2>4. a.tstates - frameStart < WINDOW BY <1>4 DEF Offered
  <2>5. a.tstates \in Nat /\ cpu.tstates \in Nat /\ a.fetches \in Nat /\ cpu.fetches \in Nat BY <1>1 DEF CpuType
  <2>6. Paced(cpu, z80_int(a)) /\ z80_int(a).tstates < frameStart + WINDOW + ACK
    BY <1>1, <2>3, <2>4, <2>5, LoopAssumption DEF Paced, HALT_T
  <2> QED BY <2>1, <2>2, <2>6
<1> QED BY <1>3, <1>4

----------------------------------------------------------------------------
(* The inductive invariant. *)

Shape ==
  /\ memory \in Programs /\ cpu \in CpuType /\ snap \in CpuType
  /\ if1 \in BOOLEAN /\ inFrame \in BOOLEAN /\ taken \in BOOLEAN /\ desync \in BOOLEAN
  /\ frameStart \in Nat /\ frame \in Nat /\ base \in Nat
  /\ mode \in {"record", "load", "replay", "over"}

Played == [fetches : Nat, ins : Seq(Inputs)]
Filed == [fetches : Nat, ins : Seq(Inputs) \cup {REPEAT}]

File ==
  /\ ins \in Seq(Inputs)
  /\ log \in Seq(Filed)
  /\ frames \in Seq(Played)
  /\ marks \in Seq(CpuType)
  /\ \A k \in DOMAIN log : FitsTheFile(log[k])

\* Where the loops are in the recording.
Position ==
  /\ Len(log) = Len(marks) /\ Len(log) <= Last /\ frame <= Last
  /\ mode = "record" => Len(log) = frame /\ (inFrame => frame < Last)
  /\ Len(frames) <= Len(log)
  /\ mode = "load" => frame = 0 /\ Len(log) > 0
  /\ mode = "replay" => frame < Len(frames)

\* HALT is executed out of the shadow of EI, so no halted CPU refuses an interrupt for it.
Shadow == (cpu.halted => ~cpu.ei) /\ ~snap.halted /\ ~snap.ei

\* The clock, and what the frame has cost and read so far.
ClockIn(fetches, t, n) ==
  /\ frameStart = FRAME * frame
  /\ frameStart <= t
  /\ ~inFrame => t < frameStart + MAXT + MAXDELAY
  /\ inFrame => /\ t < frameStart + FRAME + MAXT + MAXDELAY
                /\ base <= fetches
                /\ HALT_T * (fetches - base) <= t - frameStart
                /\ n <= fetches - base
Clock == mode = "record" => ClockIn(cpu.fetches, cpu.tstates, Len(ins))

Inv == Shape /\ File /\ Position /\ Shadow /\ Clock

\* What is in memory at PC is an instruction, with the IF1 ROM paged in or out.
LEMMA AtPc ==
  ASSUME Shape, NEW shadow \in BOOLEAN
  PROVE memory[shadow][cpu.pc] \in Instr
<1>1. memory \in [BOOLEAN -> [Addr -> Instr]] BY ProgramAssumption DEF Shape
<1>2. cpu.pc \in Addr BY DEF Shape, CpuType
<1> QED BY <1>1, <1>2

\* What playback feeds the CPU is a value a port can have.
LEMMA FedType == ASSUME Shape, File, Position, mode = "replay" PROVE Fed \in Inputs
<1>1. frame + 1 \in 1 .. Len(frames)
  <2>1. frames \in Seq(Played) /\ frame < Len(frames) BY DEF File, Position
  <2>2. Len(frames) \in Nat /\ frame \in Nat BY <2>1, LenProperties DEF Shape
  <2> QED BY <2>1, <2>2
<1>2. This \in Played BY <1>1, ElementOfSeq DEF This, File
<1>3. CASE Unrecorded BY <1>3 DEF Fed, Inputs, Floating
<1>4. CASE ~Unrecorded
  <2>1. Len(ins) + 1 \in 1 .. Len(This.ins) BY <1>2, <1>4 DEF Unrecorded, File, Played
  <2> QED BY <1>2, <1>4, <2>1 DEF Fed, Played
<1> QED BY <1>3, <1>4

\* What OneStep does to the variables it changes.
LEMMA OneStepMoves ==
  ASSUME Shape, NEW i \in Instr, NEW v \in Inputs, OneStep(i, v)
  PROVE /\ cpu' = StepTo(i, v) /\ taken' \in BOOLEAN
        /\ UNCHANGED <<memory, frameStart, frame, inFrame, base, mode, snap, log, marks, frames>>
        /\ File => ins' \in Seq(Inputs) /\ Len(ins') \in {Len(ins), Len(ins) + 1}
<1>1. cpu' = StepTo(i, v) BY DEF OneStep, StepTo
<1>2. taken' \in BOOLEAN BY DEF OneStep
<1>3. UNCHANGED <<memory, frameStart, frame, inFrame, base, mode, snap, log, marks, frames>>
  BY DEF OneStep, file
<1>4. ASSUME File PROVE ins' \in Seq(Inputs) /\ Len(ins') \in {Len(ins), Len(ins) + 1}
  <2>1. ins \in Seq(Inputs) BY <1>4 DEF File
  <2>2. Append(ins, v) \in Seq(Inputs) /\ Len(Append(ins, v)) = Len(ins) + 1
    BY <2>1, AppendProperties
  <2> QED BY <2>1, <2>2 DEF OneStep
<1> QED BY <1>1, <1>2, <1>3, <1>4

\* The start of a frame, in either loop.
LEMMA BeginKeeps == ASSUME Inv, Begin, mode = "record" => frame < Last PROVE Inv'
<1> DEFINE c == z80_int(cpu)
<1>1. cpu \in CpuType /\ (cpu.halted => ~cpu.ei) BY DEF Inv, Shape, Shadow
<1>2. cpu' = c /\ c \in CpuType /\ (c.halted => ~c.ei) BY <1>1, IntType, IntShadow DEF Begin
<1>3. UNCHANGED <<memory, if1, frameStart, frame, mode, snap, log, marks, frames, desync>>
  BY DEF Begin, file
<1>4. inFrame' = TRUE /\ taken' \in BOOLEAN /\ base' = cpu.fetches /\ ins' = <<>> /\ ~inFrame
  BY DEF Begin, Accepts, Shape, Inv, CpuType
<1>5. cpu.fetches \in Nat /\ cpu.tstates \in Nat BY <1>1 DEF CpuType
<1>6. \/ c.fetches = cpu.fetches /\ c.tstates = cpu.tstates
      \/ c.fetches = cpu.fetches + 1 /\ c.tstates = cpu.tstates + ACK
  BY <1>1, IntType
<1> HIDE DEF c
<1>7. Shape' BY <1>2, <1>3, <1>4, <1>5 DEF Inv, Shape
<1>8. File' BY <1>3, <1>4 DEF Inv, File
<1>9. Position' BY <1>3 DEF Inv, Position
<1>10. Shadow' BY <1>2, <1>3 DEF Inv, Shadow
<1>11. Clock'
  <2>1. SUFFICES ASSUME mode = "record" PROVE Clock' BY <1>3 DEF Clock
  <2>2. frameStart \in Nat /\ frame \in Nat /\ frameStart = FRAME * frame /\ frameStart <= cpu.tstates
        /\ cpu.tstates < frameStart + MAXT + MAXDELAY
    BY <2>1, <1>4 DEF Inv, Clock, ClockIn, Shape
  <2>3. /\ frameStart <= c.tstates /\ c.tstates < frameStart + FRAME + MAXT + MAXDELAY
        /\ cpu.fetches <= c.fetches /\ HALT_T * (c.fetches - cpu.fetches) <= c.tstates - frameStart
        /\ Len(<<>>) <= c.fetches - cpu.fetches
    BY <1>5, <1>6, <2>2, LoopAssumption DEF HALT_T
  <2> QED BY <1>2, <1>3, <1>4, <2>2, <2>3 DEF Clock, ClockIn
<1> QED BY <1>7, <1>8, <1>9, <1>10, <1>11 DEF Inv

\* An instruction of either loop: everything but the clock.
LEMMA StepKeeps ==
  ASSUME Inv, NEW i \in Instr, NEW v \in Inputs, OneStep(i, v), if1' \in BOOLEAN, desync' \in BOOLEAN
  PROVE Shape' /\ File' /\ Position' /\ Shadow'
<1>1. cpu \in CpuType /\ frameStart \in Nat BY DEF Inv, Shape
<1>2. /\ cpu' = StepTo(i, v) /\ taken' \in BOOLEAN
      /\ UNCHANGED <<memory, frameStart, frame, inFrame, base, mode, snap, log, marks, frames>>
      /\ ins' \in Seq(Inputs)
  BY OneStepMoves DEF Inv
<1>3. StepTo(i, v) \in CpuType /\ (StepTo(i, v).halted => ~StepTo(i, v).ei) BY <1>1, StepToType
<1> QED BY <1>2, <1>3 DEF Inv, Shape, File, Position, Shadow

\* An instruction of the recording loop.
LEMMA RunStepKeeps == ASSUME Inv, RunStep PROVE Inv'
<1>1. (if1 \/ PagesIn) \in BOOLEAN /\ if1' \in BOOLEAN /\ desync' \in BOOLEAN
  BY DEF RunStep, Inv, Shape
<1>2. PICK v \in Inputs : OneStep(memory[if1 \/ PagesIn][cpu.pc], v) BY DEF RunStep, Inputs
<1> DEFINE i == memory[if1 \/ PagesIn][cpu.pc]
<1>3. i \in Instr BY <1>1, AtPc DEF Inv
<1>4. OneStep(i, v) BY <1>2
<1> HIDE DEF i
<1>5. Shape' /\ File' /\ Position' /\ Shadow' BY <1>1, <1>3, <1>4, StepKeeps
<1>6. /\ cpu' = StepTo(i, v) /\ Len(ins') \in {Len(ins), Len(ins) + 1}
      /\ UNCHANGED <<memory, frameStart, frame, inFrame, base, mode, snap, log, marks, frames>>
  BY <1>3, <1>4, OneStepMoves DEF Inv
<1>7. cpu \in CpuType /\ cpu' \in CpuType /\ frameStart \in Nat /\ base \in Nat /\ frame \in Nat
  BY <1>5 DEF Inv, Shape
<1>8. /\ cpu.fetches < cpu'.fetches
      /\ HALT_T * (cpu'.fetches - cpu.fetches) <= cpu'.tstates - cpu.tstates
      /\ \/ cpu'.tstates <= cpu.tstates + MAXT + MAXDELAY
         \/ cpu'.tstates < frameStart + WINDOW + ACK
  BY <1>3, <1>6, <1>7, StepToType DEF Paced
<1>9. mode = "record" /\ inFrame /\ cpu.tstates < frameStart + FRAME BY DEF RunStep
<1>10. /\ frameStart <= cpu.tstates /\ base <= cpu.fetches
       /\ HALT_T * (cpu.fetches - base) <= cpu.tstates - frameStart
       /\ Len(ins) <= cpu.fetches - base
  BY <1>9 DEF Inv, Clock, ClockIn
<1>15. frameStart = FRAME * frame BY <1>9 DEF Inv, Clock, ClockIn
<1>11. Len(ins) \in Nat /\ Len(ins') \in Nat BY <1>5, LenProperties DEF Inv, File
<1>12. cpu.fetches \in Nat /\ cpu'.fetches \in Nat /\ cpu.tstates \in Nat /\ cpu'.tstates \in Nat
  BY <1>7 DEF CpuType
<1>13. /\ frameStart <= cpu'.tstates /\ cpu'.tstates < frameStart + FRAME + MAXT + MAXDELAY
       /\ base <= cpu'.fetches /\ HALT_T * (cpu'.fetches - base) <= cpu'.tstates - frameStart
       /\ Len(ins') <= cpu'.fetches - base
  <2>1. Len(ins') \in {Len(ins), Len(ins) + 1} /\ cpu.tstates < frameStart + FRAME BY <1>6, <1>9
  <2>2. frameStart \in Nat /\ base \in Nat BY <1>7
  <2> DEFINE f == cpu.fetches  t == cpu.tstates  n == Len(ins)
             f2 == cpu'.fetches  t2 == cpu'.tstates  n2 == Len(ins')
  <2>3. /\ frameStart <= t /\ t < frameStart + FRAME /\ base <= f
        /\ HALT_T * (f - base) <= t - frameStart /\ n <= f - base /\ n2 \in {n, n + 1}
        /\ f < f2 /\ HALT_T * (f2 - f) <= t2 - t
        /\ t2 <= t + MAXT + MAXDELAY \/ t2 < frameStart + WINDOW + ACK
    BY <1>8, <1>10, <2>1
  <2>4. f \in Nat /\ t \in Nat /\ n \in Nat /\ f2 \in Nat /\ t2 \in Nat /\ n2 \in Nat BY <1>11, <1>12
  <2> HIDE DEF f, t, n, f2, t2, n2
  <2>5. frameStart <= t2 /\ t2 < frameStart + FRAME + MAXT + MAXDELAY /\ base <= f2
        /\ HALT_T * (f2 - base) <= t2 - frameStart /\ n2 <= f2 - base
    BY <2>2, <2>3, <2>4, LoopAssumption DEF HALT_T
  <2> QED BY <2>5 DEF f2, t2, n2
<1>14. Clock' BY <1>6, <1>9, <1>13, <1>15 DEF Clock, ClockIn
<1> QED BY <1>5, <1>14 DEF Inv

\* The end of a recorded frame.
LEMMA RunEndKeeps == ASSUME Inv, RunEnd PROVE Inv'
<1>1. /\ mode = "record" /\ inFrame /\ cpu.tstates >= frameStart + FRAME
      /\ log' = Append(log, Logged) /\ marks' = Append(marks, cpu)
      /\ inFrame' = FALSE /\ frameStart' = frameStart + FRAME /\ frame' = frame + 1
      /\ UNCHANGED <<memory, cpu, if1, taken, base, ins, mode, snap, frames, desync>>
  BY DEF RunEnd, EndFrame, NextFrame
<1>2. /\ cpu.fetches \in Nat /\ cpu.tstates \in Nat /\ base \in Nat /\ frameStart \in Nat /\ frame \in Nat
      /\ cpu \in CpuType
  BY DEF Inv, Shape, CpuType
<1>3. /\ frameStart = FRAME * frame /\ cpu.tstates < frameStart + FRAME + MAXT + MAXDELAY
      /\ base <= cpu.fetches /\ HALT_T * (cpu.fetches - base) <= cpu.tstates - frameStart
      /\ Len(ins) <= cpu.fetches - base
  BY <1>1 DEF Inv, Clock, ClockIn
<1>4. ins \in Seq(Inputs) /\ log \in Seq(Filed) /\ frames \in Seq(Played) /\ marks \in Seq(CpuType)
  BY DEF Inv, File
<1>5. cpu.fetches - base \in Nat BY <1>2, <1>3
<1>6. Logged \in Filed BY <1>4, <1>5 DEF Logged, Filed
<1>7. FitsTheFile(Logged)
  <2>1. HALT_T * (cpu.fetches - base) < FRAME + MAXT + MAXDELAY
    BY <1>2, <1>3, LoopAssumption DEF HALT_T
  <2> QED BY <1>3, <2>1 DEF FitsTheFile, Logged
<1>8. Shape'
  <2>1. frameStart + FRAME \in Nat /\ frame + 1 \in Nat BY <1>2, LoopAssumption
  <2> QED BY <1>1, <2>1, Zenon DEF Inv, Shape
<1>9. /\ log' \in Seq(Filed) /\ Len(log') = Len(log) + 1
      /\ \A k \in 1 .. Len(log) : log'[k] = log[k]
      /\ log'[Len(log) + 1] = Logged
  BY <1>1, <1>4, <1>6, AppendProperties
<1>10. marks' \in Seq(CpuType) /\ Len(marks') = Len(marks) + 1 BY <1>1, <1>2, <1>4, AppendProperties
<1>11. Len(log) \in Nat /\ Len(marks) \in Nat /\ Len(frames) \in Nat BY <1>4, LenProperties
<1>12. File'
  <2>1. ASSUME NEW k \in DOMAIN log' PROVE FitsTheFile(log'[k])
    <3>1. k \in 1 .. Len(log) + 1 BY <1>9, <1>11
    <3>2. CASE k \in 1 .. Len(log)
      <4>1. k \in DOMAIN log BY <1>4, <3>2, LenProperties
      <4> QED BY <1>9, <3>2, <4>1 DEF Inv, File
    <3>3. CASE k = Len(log) + 1 BY <1>7, <1>9, <3>3
    <3> QED BY <1>11, <3>1, <3>2, <3>3
  <2> QED BY <1>1, <1>4, <1>9, <1>10, <2>1 DEF File, FitsTheFile
<1>13. Position'
  <2>1. Len(log) = frame /\ Len(log) = Len(marks) /\ frame < Last /\ Len(frames) <= Len(log) BY <1>1 DEF Inv, Position
  <2> QED BY <1>1, <1>2, <1>9, <1>10, <1>11, <2>1, LoopAssumption DEF Position
<1>14. Shadow' BY <1>1 DEF Inv, Shadow
<1>15. Clock'
  <2>1. frameStart + FRAME = FRAME * (frame + 1) BY <1>2, <1>3, LoopAssumption
  <2>2. cpu.tstates < frameStart + FRAME + MAXT + MAXDELAY /\ frameStart + FRAME <= cpu.tstates
    BY <1>1, <1>2, <1>3, LoopAssumption
  <2> QED BY <1>1, <2>1, <2>2 DEF Clock, ClockIn
<1> QED BY <1>8, <1>12, <1>13, <1>14, <1>15 DEF Inv

\* However the values of the frames are written, the counts fit.
LEMMA WrittenFits ==
  ASSUME File, NEW S \in SUBSET Repeatable
  PROVE  /\ Written(S) \in Seq(Filed) /\ Len(Written(S)) = Len(log)
         /\ \A k \in DOMAIN Written(S) : FitsTheFile(Written(S)[k])
<1>1. log \in Seq(Filed) /\ Len(log) \in Nat /\ DOMAIN log = 1 .. Len(log) BY LenProperties DEF File
<1>2. ASSUME NEW k \in 1 .. Len(log)
      PROVE Written(S)[k] \in Filed /\ FitsTheFile(Written(S)[k])
  <2>1. Written(S)[k] = IF k \in S THEN [log[k] EXCEPT !.ins = REPEAT] ELSE log[k] BY DEF Written
  <2>2. log[k] \in Filed /\ FitsTheFile(log[k]) BY <1>1, ElementOfSeq DEF File
  <2>3. [log[k] EXCEPT !.ins = REPEAT] = [fetches |-> log[k].fetches, ins |-> REPEAT] BY <2>2 DEF Filed
  <2>4. [fetches |-> log[k].fetches, ins |-> REPEAT] \in Filed BY <2>2 DEF Filed
  <2>5. FitsTheFile([fetches |-> log[k].fetches, ins |-> REPEAT]) BY <2>2 DEF FitsTheFile
  <2> QED BY <2>1, <2>2, <2>3, <2>4, <2>5
<1>3. DOMAIN Written(S) = 1 .. Len(log) BY DEF Written
<1>4. Written(S) \in [1 .. Len(log) -> Filed] BY <1>2 DEF Written
<1>5. Written(S) \in Seq(Filed) BY <1>1, <1>4, IsASeq
<1> QED BY <1>1, <1>2, <1>3, <1>5, LenProperties

\* Loading the snapshot into a new process.
LEMMA LoadKeeps == ASSUME Inv, Load PROVE Inv'
<1>1. /\ mode = "record" /\ ~inFrame /\ frame > 0 /\ mode' = "load" /\ cpu' = snap
      /\ if1' = FALSE /\ frameStart' = 0 /\ frame' = 0 /\ taken' = FALSE /\ base' = 0 /\ ins' = <<>>
      /\ UNCHANGED <<memory, inFrame, snap, marks, frames, desync>>
  BY DEF Load
<1>2. PICK S \in SUBSET Repeatable : log' = Written(S) BY DEF Load
<1>3. Shape' BY <1>1 DEF Inv, Shape
<1>4. /\ log' \in Seq(Filed) /\ Len(log') = Len(log) /\ \A k \in DOMAIN log' : FitsTheFile(log'[k])
  BY <1>2, WrittenFits DEF Inv
<1>5. File' BY <1>1, <1>4 DEF Inv, File, FitsTheFile
<1>6. Len(log) = frame /\ frame \in Nat BY <1>1 DEF Inv, Position, Shape
<1>7. Position' BY <1>1, <1>4, <1>6, LoopAssumption DEF Inv, Position
<1>8. Shadow' BY <1>1 DEF Inv, Shadow
<1>9. Clock' BY <1>1 DEF Clock
<1> QED BY <1>3, <1>5, <1>7, <1>8, <1>9 DEF Inv

\* Reading one frame: a repeated one has the values of a frame already read.
LEMMA ParseKeeps == ASSUME Inv, ParseFrame PROVE Inv'
<1> DEFINE n == Len(frames) + 1
<1> DEFINE f == log[n]
<1> DEFINE g == [fetches |-> f.fetches, ins |-> Expanded(f)]
<1>1. /\ mode = "load" /\ Len(frames) < Len(log) /\ (f.ins = REPEAT => frames # <<>>)
      /\ frames' = Append(frames, g)
      /\ UNCHANGED <<memory, cpu, if1, frameStart, frame, inFrame, taken, base, ins, mode, snap, log, marks, desync>>
  BY DEF ParseFrame, loop
<1>2. log \in Seq(Filed) /\ frames \in Seq(Played) /\ Len(log) \in Nat /\ Len(frames) \in Nat
  BY LenProperties DEF Inv, File
<1>3. n \in 1 .. Len(log) BY <1>1, <1>2
<1>4. f \in Filed BY <1>2, <1>3, ElementOfSeq
<1>5. Expanded(f) \in Seq(Inputs)
  <2>1. CASE f.ins = REPEAT
    <3>1. Len(frames) \in 1 .. Len(frames) BY <1>1, <1>2, <2>1, EmptySeq
    <3>2. frames[Len(frames)] \in Played BY <1>2, <3>1, ElementOfSeq
    <3> QED BY <2>1, <3>2 DEF Expanded, Played
  <2>2. CASE f.ins # REPEAT BY <1>4, <2>2 DEF Expanded, Filed
  <2> QED BY <2>1, <2>2
<1>6. g \in Played BY <1>4, <1>5 DEF Played, Filed
<1> HIDE DEF g, n, f
<1>7. frames' \in Seq(Played) /\ Len(frames') = Len(frames) + 1 BY <1>1, <1>2, <1>6, AppendProperties
<1>8. Shape' BY <1>1 DEF Inv, Shape
<1>9. File'
  <2>1. UNCHANGED <<ins, log, marks>> BY <1>1
  <2> QED BY <1>7, <2>1 DEF Inv, File, FitsTheFile
<1>10. Position' BY <1>1, <1>2, <1>7 DEF Inv, Position
<1>11. Shadow' BY <1>1 DEF Inv, Shadow
<1>12. Clock' BY <1>1 DEF Clock
<1> QED BY <1>8, <1>9, <1>10, <1>11, <1>12 DEF Inv

\* All frames are read and there is at least one: playback has a frame to begin with.
LEMMA LoadedKeeps == ASSUME Inv, Loaded PROVE Inv'
<1>1. /\ mode = "load" /\ Len(frames) = Len(log) /\ mode' = "replay"
      /\ UNCHANGED <<memory, cpu, if1, frameStart, frame, inFrame, taken, base, ins, snap, log, marks, frames, desync>>
  BY DEF Loaded, loop, file
<1>2. Shape' BY <1>1 DEF Inv, Shape
<1>3. File'
  <2>1. UNCHANGED <<ins, log, marks, frames>> BY <1>1
  <2> QED BY <2>1 DEF Inv, File, FitsTheFile
<1>4. Position' BY <1>1 DEF Inv, Position
<1>5. Shadow' BY <1>1 DEF Inv, Shadow
<1>6. Clock' BY <1>1 DEF Clock
<1> QED BY <1>2, <1>3, <1>4, <1>5, <1>6 DEF Inv

\* An instruction of the playback loop.
LEMMA PlayStepKeeps == ASSUME Inv, PlayStep PROVE Inv'
<1>1. mode = "replay" /\ if1' = if1 /\ if1 \in BOOLEAN BY DEF PlayStep, Inv, Shape
<1> DEFINE i == memory[if1][cpu.pc]
<1>2. OneStep(i, Fed) /\ desync' \in BOOLEAN BY DEF PlayStep, Inv, Shape
<1>3. i \in Instr BY <1>1, AtPc DEF Inv
<1>4. Fed \in Inputs BY <1>1, FedType DEF Inv
<1> HIDE DEF i
<1>5. Shape' /\ File' /\ Position' /\ Shadow' BY <1>1, <1>2, <1>3, <1>4, StepKeeps
<1>6. mode' = mode BY <1>2 DEF OneStep
<1>7. Clock' BY <1>1, <1>6 DEF Clock
<1> QED BY <1>5, <1>7 DEF Inv

\* The end of a played frame.
LEMMA PlayEndKeeps == ASSUME Inv, PlayEnd PROVE Inv'
<1>1. /\ mode = "replay" /\ inFrame' = FALSE /\ frameStart' = frameStart + FRAME /\ frame' = frame + 1
      /\ mode' = (IF frame + 1 >= Len(frames) THEN "over" ELSE "replay")
      /\ UNCHANGED <<memory, cpu, if1, taken, base, ins, snap, log, marks, frames>>
  BY DEF PlayEnd, EndFrame, NextFrame, file
<1>2. desync' \in BOOLEAN BY DEF PlayEnd, Inv, Shape
<1>3. frame \in Nat /\ frameStart \in Nat BY DEF Inv, Shape
<1>4. Shape'
  <2>1. frameStart + FRAME \in Nat /\ frame + 1 \in Nat BY <1>3, LoopAssumption
  <2> QED BY <1>1, <1>2, <2>1, Zenon DEF Inv, Shape
<1>5. File'
  <2>1. UNCHANGED <<ins, log, marks, frames>> BY <1>1
  <2> QED BY <2>1 DEF Inv, File, FitsTheFile
<1>6. Position'
  <2>1. frame < Len(frames) /\ Len(frames) <= Len(log) /\ Len(log) <= Last /\ Len(log) = Len(marks)
    BY <1>1 DEF Inv, Position
  <2>2. Len(log) \in Nat /\ Len(frames) \in Nat BY LenProperties DEF Inv, File
  <2> QED BY <1>1, <1>3, <2>1, <2>2, LoopAssumption DEF Position
<1>7. Shadow' BY <1>1 DEF Inv, Shadow
<1>8. Clock' BY <1>1 DEF Clock
<1> QED BY <1>4, <1>5, <1>6, <1>7, <1>8 DEF Inv

\* The start of a recording.
LEMMA InitInv == ASSUME Init PROVE Inv
<1>1. PICK c \in Starts : cpu = c /\ snap = Saved(c) BY DEF Init
<1>2. c \in CpuType /\ (c.halted => ~c.ei) /\ c.tstates = 0 /\ c.fetches = 0 BY ProgramAssumption
<1>3. Saved(c) \in CpuType /\ Saved(c).ei = FALSE /\ Saved(c).halted = FALSE BY <1>2, SavedType
<1>4. Shape BY <1>1, <1>2, <1>3 DEF Init, Shape
<1>5. File BY DEF Init, File
<1>6. Position BY LoopAssumption DEF Init, Position
<1>7. Shadow BY <1>1, <1>2, <1>3 DEF Shadow
<1>8. Clock
  <2>1. cpu.tstates = 0 BY <1>1, <1>2
  <2> QED BY <2>1, LoopAssumption DEF Init, Clock, ClockIn, HALT_T
<1> QED BY <1>4, <1>5, <1>6, <1>7, <1>8 DEF Inv

\* Every step keeps the invariant.
LEMMA NextInv == ASSUME Inv, [Next]_vars PROVE Inv'
<1>1. CASE RunBegin BY <1>1, BeginKeeps DEF RunBegin
<1>2. CASE RunStep BY <1>2, RunStepKeeps
<1>3. CASE RunEnd BY <1>3, RunEndKeeps
<1>4. CASE Load BY <1>4, LoadKeeps
<1>5. CASE PlayBegin BY <1>5, BeginKeeps DEF PlayBegin
<1>6. CASE PlayStep BY <1>6, PlayStepKeeps
<1>7. CASE PlayEnd BY <1>7, PlayEndKeeps
<1>9. CASE ParseFrame BY <1>9, ParseKeeps
<1>10. CASE Loaded BY <1>10, LoadedKeeps
<1>8. CASE UNCHANGED vars
  BY <1>8 DEF vars, file, Inv, Shape, File, FitsTheFile, Position, Shadow, Clock, ClockIn
<1> QED BY <1>1, <1>2, <1>3, <1>4, <1>5, <1>6, <1>7, <1>8, <1>9, <1>10 DEF Next, Running, Playing, Over

\* The invariant of the session.
THEOREM Invariant == Spec => []Inv
<1>1. Init => Inv BY InitInv
<1>2. Inv /\ [Next]_vars => Inv' BY NextInv
<1> QED BY <1>1, <1>2, PTL DEF Spec

----------------------------------------------------------------------------
(* The theorems. *)

\* For every program and every frame the loop's registers and the recording keep their
\* types, the player never looks past the end of the recording, and the counts of every
\* recorded frame fit the file.
THEOREM TypeCorrect == Spec => []TypeOK
<1>1. Inv => TypeOK BY DEF Inv, Shape, File, Filed, Played, Position, TypeOK
<1> QED BY <1>1, Invariant, PTL

\* Recording is drift-free for every program and contention pattern: frame boundaries are
\* exactly FRAME apart and only the instruction that crosses one reaches past it.
THEOREM ClockDoesNotDrift == Spec => []NoDrift
<1>1. Inv => NoDrift BY DEF Inv, Clock, ClockIn, NoDrift
<1> QED BY <1>1, Invariant, PTL

\* In every program, recorded or played, a CPU halted with interrupts on is woken by the
\* start of the next frame.
THEOREM FrameWakes == Spec => WakesAtFrame
<1>1. Inv => WakeUp
  <2>1. SUFFICES ASSUME Inv, Begin, cpu.halted, cpu.iff PROVE ~cpu'.halted BY DEF WakeUp
  <2>2. cpu \in CpuType /\ Accepts(cpu) BY <2>1 DEF Inv, Shape, Shadow, Accepts
  <2>3. cpu' = z80_int(cpu) BY <2>1 DEF Begin
  <2> QED BY <2>2, <2>3, IntType
<1> QED BY <1>1, Invariant, PTL DEF WakesAtFrame

----------------------------------------------------------------------------
(* Playback repeats the recording.  The player sees neither the T-states    *)
(* that cut the recorded frames nor what answered its port reads; it has    *)
(* counts and values.  The invariant remembers, for every recorded frame,   *)
(* a path: the loop states the recording went through, each with its        *)
(* successor under the recorded value, fewer fetches and fewer reads behind *)
(* it than the end of the frame.  Playback is on that path, and the end of  *)
(* it is the only state at which the fetches run out.                       *)

\* What an instruction of either loop reads and changes, with the IF1 ROM out.
LoopState == [cpu : CpuType, taken : BOOLEAN, ins : Seq(Inputs)]
Loop(c, t, n) == [cpu |-> c, taken |-> t, ins |-> n]
Now == Loop(cpu, taken, ins)
Begun(c) == Loop(z80_int(c), Accepts(c), <<>>)

Code(m, s) == m[FALSE][s.cpu.pc]
Asks(m, s) == Reads(s.cpu, Code(m, s))

\* OneStep as a function of the loop state, in a frame that started at fs.
DelayAt(fs, c) == LET t == c.tstates - fs IN IF t \in DOMAIN Contended THEN Contended[t] ELSE 0
CostAt(fs, c, i) == (IF c.halted THEN HALT_T ELSE i.t) + (IF i.slow THEN DelayAt(fs, c) ELSE 0)
CpuStep(fs, c, i, v) ==
  IF c.halted THEN Fetch(c, 1, CostAt(fs, c, i)) ELSE Execute(Fetch(c, i.m1, CostAt(fs, c, i)), i, v)
OfferedAt(fs, t, c) == ~t /\ c.tstates - fs >= 0 /\ c.tstates - fs < WINDOW
LoopStep(m, fs, s, v) ==
  LET c == CpuStep(fs, s.cpu, Code(m, s), v)
      o == OfferedAt(fs, s.taken, c)
  IN Loop(IF o THEN z80_int(c) ELSE c, s.taken \/ (o /\ Accepts(c)), IF Asks(m, s) THEN Append(s.ins, v) ELSE s.ins)

\* The value that answered the read of loop state s in a frame that read n.
Answer(m, s, n) == IF Asks(m, s) THEN n[Len(s.ins) + 1] ELSE 0

\* s is before the end e of its frame, and its successor is on the path too.
Before(m, fs, s, e, R) ==
  /\ s.cpu.fetches < e.cpu.fetches
  /\ Asks(m, s) => Len(s.ins) < Len(e.ins)
  /\ LoopStep(m, fs, s, Answer(m, s, e.ins)) \in R

Path(m, fs, e, R) == R \in SUBSET LoopState /\ e \in R /\ \A s \in R : s = e \/ Before(m, fs, s, e, R)

\* Frame k takes the CPU from c to d, reads n and counts f fetches, on path R.
RunsOn(m, k, c, d, n, f, R) ==
  \E e \in LoopState : /\ Path(m, FRAME * (k - 1), e, R) /\ Begun(c) \in R
                       /\ e.cpu = d /\ e.ins = n /\ f = d.fetches - c.fetches
Runs(m, k, c, d, n, f) == \E R \in SUBSET LoopState : RunsOn(m, k, c, d, n, f, R)

StartOf(k) == IF k = 1 THEN snap ELSE marks[k - 1]

\* Every recorded frame has a path from the mark before it to its own; the file has its
\* values, or the repeat mark for the values of the frame before; the player, those values.
Recorded(vals) ==
  /\ vals \in Seq(Seq(Inputs)) /\ Len(vals) = Len(log)
  /\ \A k \in 1 .. Len(log) : Runs(memory, k, StartOf(k), marks[k], vals[k], log[k].fetches)
  /\ \A k \in 1 .. Len(log) : \/ log[k].ins = vals[k]
                              \/ mode # "record" /\ k > 1 /\ log[k].ins = REPEAT /\ vals[k] = vals[k - 1]
  /\ \A k \in 1 .. Len(frames) : frames[k].ins = vals[k] /\ frames[k].fetches = log[k].fetches

\* The player is on the path of the frame it plays.
OnPath(vals) ==
  mode = "replay" /\ inFrame =>
    LET k == frame + 1
    IN \E R \in SUBSET LoopState :
         Now \in R /\ RunsOn(memory, k, StartOf(k), marks[k], vals[k], log[k].fetches, R)

\* What the two loops have in common, and the path of the frame that is being recorded.
Together ==
  /\ if1 = FALSE /\ ~desync /\ frameStart = FRAME * frame
  /\ mode = "record" => frames = <<>>
  /\ mode = "replay" => Len(frames) = Len(log)
  /\ mode \in {"load", "over"} => ~inFrame
  /\ ~inFrame => cpu = StartOf(frame + 1)
  /\ inFrame => base = StartOf(frame + 1).fetches
  /\ mode = "record" /\ inFrame =>
       \E R \in SUBSET LoopState : Path(memory, frameStart, Now, R) /\ Begun(StartOf(frame + 1)) \in R

Faithful == Together /\ \E vals : Recorded(vals) /\ OnPath(vals)

\* A step of either loop is LoopStep when the IF1 ROM is out.
LEMMA OneStepIsLoopStep ==
  ASSUME NEW v, OneStep(memory[FALSE][cpu.pc], v)
  PROVE Now' = LoopStep(memory, frameStart, Now, v)
<1> DEFINE i == memory[FALSE][cpu.pc]
<1>1. Now.cpu = cpu /\ Now.taken = taken /\ Now.ins = ins BY DEF Now, Loop
<1>2. Code(memory, Now) = i /\ (Asks(memory, Now) <=> Reads(cpu, i)) BY <1>1 DEF Code, Asks
<1>3. CpuStep(frameStart, cpu, i, v) = z80_step(cpu, i, v) BY DEF CpuStep, CostAt, DelayAt, z80_step, Cost, Delay
<1> DEFINE a == z80_step(cpu, i, v)
<1>4. OfferedAt(frameStart, taken, a) <=> Offered(a) BY DEF OfferedAt, Offered
<1>5. LoopStep(memory, frameStart, Now, v) =
        Loop(IF Offered(a) THEN z80_int(a) ELSE a, taken \/ (Offered(a) /\ Accepts(a)),
             IF Reads(cpu, i) THEN Append(ins, v) ELSE ins)
  BY <1>1, <1>2, <1>3, <1>4, Zenon DEF LoopStep
<1>6. /\ cpu' = IF Offered(a) THEN z80_int(a) ELSE a
      /\ taken' = (taken \/ (Offered(a) /\ Accepts(a)))
      /\ ins' = IF Reads(cpu, i) THEN Append(ins, v) ELSE ins
  BY DEF OneStep
<1> HIDE DEF i, a
<1> QED BY <1>5, <1>6 DEF Now, Loop

\* A value nobody reads changes nothing.
LEMMA Unread ==
  ASSUME NEW m, NEW fs, NEW s, NEW v, NEW w, ~Asks(m, s)
  PROVE LoopStep(m, fs, s, v) = LoopStep(m, fs, s, w)
<1> DEFINE i == Code(m, s)
<1>1. s.cpu.halted \/ i.op # "in" BY DEF Asks, Reads
<1>2. ASSUME i.op # "in", NEW c PROVE Execute(c, i, v) = Execute(c, i, w) BY <1>2 DEF Execute
<1>3. CpuStep(fs, s.cpu, i, v) = CpuStep(fs, s.cpu, i, w) BY <1>1, <1>2 DEF CpuStep
<1> QED BY <1>3 DEF LoopStep

\* A frame that begins is a path of one state.
LEMMA PathBegins == ASSUME NEW m, NEW fs, NEW e \in LoopState PROVE Path(m, fs, e, {e})
  BY DEF Path

\* An instruction extends the path by its end.
LEMMA PathGrows ==
  ASSUME NEW m, NEW fs, NEW e \in LoopState, NEW R, Path(m, fs, e, R), NEW v \in Inputs,
         LoopStep(m, fs, e, v) \in LoopState, e.cpu.fetches < LoopStep(m, fs, e, v).cpu.fetches
  PROVE Path(m, fs, LoopStep(m, fs, e, v), R \cup {LoopStep(m, fs, e, v)})
<1> DEFINE e2 == LoopStep(m, fs, e, v)
<1> DEFINE R2 == R \cup {e2}
<1>1. e2 \in LoopState /\ e.cpu.fetches < e2.cpu.fetches OBVIOUS
<1>2. e2.ins = IF Asks(m, e) THEN Append(e.ins, v) ELSE e.ins BY DEF LoopStep, Loop
<1>3. e.ins \in Seq(Inputs) /\ Len(e.ins) \in Nat /\ e.cpu.fetches \in Nat /\ e2.cpu.fetches \in Nat
  BY <1>1, LenProperties DEF LoopState, CpuType
<1>4. /\ Len(e.ins) <= Len(e2.ins)
      /\ \A j \in 1 .. Len(e.ins) : e2.ins[j] = e.ins[j]
      /\ Asks(m, e) => Len(e2.ins) = Len(e.ins) + 1 /\ e2.ins[Len(e.ins) + 1] = v
  BY <1>2, <1>3, AppendProperties
<1>5. LoopStep(m, fs, e, Answer(m, e, e2.ins)) = e2
  <2>1. CASE Asks(m, e) BY <1>4, <2>1 DEF Answer
  <2>2. CASE ~Asks(m, e) BY <2>2, Unread
  <2> QED BY <2>1, <2>2
<1> HIDE DEF e2
<1>6. Before(m, fs, e, e2, R2) BY <1>1, <1>3, <1>4, <1>5 DEF Before
<1>7. ASSUME NEW s \in R, s # e PROVE Before(m, fs, s, e2, R2)
  <2>1. Before(m, fs, s, e, R) /\ s \in LoopState BY <1>7 DEF Path
  <2>2. s.cpu.fetches \in Nat /\ Len(s.ins) \in Nat BY <2>1, LenProperties DEF LoopState, CpuType
  <2>3. Answer(m, s, e2.ins) = Answer(m, s, e.ins)
    <3>1. ASSUME Asks(m, s) PROVE Len(s.ins) + 1 \in 1 .. Len(e.ins)
      BY <1>3, <2>1, <2>2, <3>1 DEF Before
    <3> QED BY <1>4, <3>1 DEF Answer
  <2>4. s.cpu.fetches < e2.cpu.fetches BY <1>1, <1>3, <2>1, <2>2 DEF Before
  <2>5. Asks(m, s) => Len(s.ins) < Len(e2.ins)
    <3>1. Len(e2.ins) \in Nat BY <1>1, LenProperties DEF LoopState
    <3> QED BY <1>3, <1>4, <2>1, <2>2, <3>1 DEF Before
  <2>6. LoopStep(m, fs, s, Answer(m, s, e2.ins)) \in R2 BY <2>1, <2>3 DEF Before
  <2> QED BY <2>4, <2>5, <2>6 DEF Before
<1>8. Path(m, fs, e2, R2) BY <1>1, <1>6, <1>7 DEF Path
<1> QED BY <1>8 DEF e2

\* What a frame starts from, after its interrupt.
LEMMA BegunType == ASSUME NEW c \in CpuType PROVE Begun(c) \in LoopState
<1>1. z80_int(c) \in CpuType BY IntType
<1>2. Accepts(c) \in BOOLEAN BY DEF Accepts, CpuType
<1>3. <<>> \in Seq(Inputs) BY EmptySeq
<1> QED BY <1>1, <1>2, <1>3 DEF Begun, Loop, LoopState

\* Every frame starts at a CPU state.
LEMMA StartType ==
  ASSUME Inv, NEW k \in Nat, k \in 1 .. Len(marks) + 1
  PROVE StartOf(k) \in CpuType
<1>1. snap \in CpuType /\ marks \in Seq(CpuType) BY DEF Inv, Shape, File
<1>2. CASE k = 1 BY <1>1, <1>2 DEF StartOf
<1>3. CASE k # 1
  <2>1. k - 1 \in 1 .. Len(marks) BY <1>1, <1>3, LenProperties
  <2> QED BY <1>1, <1>3, <2>1, ElementOfSeq DEF StartOf
<1> QED BY <1>2, <1>3

\* What a .z80 snapshot can say of a CPU: neither that it waits in HALT nor that the
\* instruction after an EI is due.
Embeddable == \A c \in Starts : ~c.halted /\ ~c.ei

\* Then a recording embeds exactly the CPU it starts with.
LEMMA InitFaithful == ASSUME Init, Embeddable PROVE Faithful
<1>1. PICK c \in Starts : cpu = c /\ snap = Saved(c) BY DEF Init
<1>2. c \in CpuType /\ c.ei = FALSE /\ c.halted = FALSE BY <1>1, ProgramAssumption DEF CpuType, Embeddable
<1>3. snap = c BY <1>1, <1>2 DEF Saved, CpuType
<1>4. StartOf(0 + 1) = snap BY DEF StartOf
<1>5. Together
  <2>1. frame = 0 /\ frameStart = 0 /\ if1 = FALSE /\ desync = FALSE /\ frames = <<>> /\ inFrame = FALSE /\ mode = "record"
    BY DEF Init
  <2>2. FRAME * 0 = 0 BY LoopAssumption
  <2> QED BY <1>1, <1>3, <1>4, <2>1, <2>2 DEF Together
<1>6. Recorded(<<>>)
  <2>1. log = <<>> /\ frames = <<>> BY DEF Init
  <2>2. Len(<<>>) = 0 /\ <<>> \in Seq(Seq(Inputs)) BY EmptySeq
  <2> QED BY <2>1, <2>2 DEF Recorded
<1>7. OnPath(<<>>) BY DEF Init, OnPath
<1> QED BY <1>5, <1>6, <1>7 DEF Faithful

\* The start of a frame of either loop: recording starts a path, playback enters one.
LEMMA BeginFaithful == ASSUME Inv, Faithful, Begin, mode \in {"record", "replay"} PROVE Faithful'
<1>1. /\ ~inFrame /\ inFrame' = TRUE /\ base' = cpu.fetches /\ ins' = <<>> /\ cpu' = z80_int(cpu)
      /\ taken' = Accepts(cpu)
      /\ UNCHANGED <<memory, if1, frameStart, frame, mode, snap, log, marks, frames, desync>>
  BY DEF Begin, file
<1>2. PICK vals : Recorded(vals) /\ OnPath(vals) BY DEF Faithful
<1>3. cpu = StartOf(frame + 1) /\ cpu \in CpuType /\ frameStart = FRAME * frame BY <1>1 DEF Faithful, Together, Inv, Shape
<1>4. Now' = Begun(cpu) /\ Now' \in LoopState BY <1>1, <1>3, BegunType DEF Now, Begun
<1>5. StartOf(frame + 1)' = StartOf(frame + 1) BY <1>1 DEF StartOf
<1>6. Together'
  <2>1. mode = "record" =>
          \E R \in SUBSET LoopState : Path(memory, frameStart, Now', R) /\ Begun(StartOf(frame + 1)) \in R
    BY <1>3, <1>4, PathBegins
  <2>2. mode' = "record" /\ inFrame' =>
          \E R \in SUBSET LoopState : Path(memory', frameStart', Now', R) /\ Begun(StartOf(frame + 1)') \in R
    BY <1>1, <1>5, <2>1
  <2>3. base' = StartOf(frame + 1)'.fetches BY <1>1, <1>3, <1>5
  <2>4. /\ if1' = FALSE /\ ~desync' /\ frameStart' = FRAME * frame'
        /\ mode' = "record" => frames' = <<>>
        /\ mode' = "replay" => Len(frames') = Len(log')
        /\ mode' \in {"record", "replay"} /\ inFrame'
    BY <1>1 DEF Faithful, Together
  <2> QED BY <2>2, <2>3, <2>4 DEF Together
<1>7. Recorded(vals)' BY <1>1, <1>2, <1>5 DEF Recorded, StartOf
<1>8. OnPath(vals)'
  <2>1. SUFFICES ASSUME mode = "replay" PROVE OnPath(vals)' BY <1>1 DEF OnPath
  <2> DEFINE k == frame + 1
  <2>2. k \in 1 .. Len(log)
    <3>1. frame < Len(frames) /\ Len(frames) = Len(log) BY <2>1 DEF Inv, Position, Faithful, Together
    <3>2. frame \in Nat /\ Len(log) \in Nat BY LenProperties DEF Inv, Shape, File
    <3> QED BY <3>1, <3>2
  <2>3. Runs(memory, k, StartOf(k), marks[k], vals[k], log[k].fetches) BY <1>2, <2>2 DEF Recorded
  <2>4. PICK R \in SUBSET LoopState : RunsOn(memory, k, StartOf(k), marks[k], vals[k], log[k].fetches, R)
    BY <2>3 DEF Runs
  <2>5. Now' \in R BY <1>3, <1>4, <2>4 DEF RunsOn
  <2> QED BY <1>1, <1>5, <2>4, <2>5 DEF OnPath
<1> QED BY <1>6, <1>7, <1>8 DEF Faithful

\* An instruction of the recording: the path grows by it.
LEMMA RunStepFaithful == ASSUME Inv, Faithful, RunStep, HaveIf1 = FALSE PROVE Faithful'
<1>1. mode = "record" /\ inFrame /\ if1 = FALSE /\ ~PagesIn BY DEF RunStep, Faithful, Together, PagesIn
<1>2. PICK v \in Inputs : OneStep(memory[FALSE][cpu.pc], v) BY <1>1 DEF RunStep, Inputs
<1>3. if1' = FALSE /\ desync' = desync BY <1>1 DEF RunStep
<1> DEFINE i == memory[FALSE][cpu.pc]
<1>4. i \in Instr BY AtPc DEF Inv
<1>5. /\ cpu' = StepTo(i, v) /\ taken' \in BOOLEAN /\ ins' \in Seq(Inputs)
      /\ UNCHANGED <<memory, frameStart, frame, inFrame, base, mode, snap, log, marks, frames>>
  BY <1>2, <1>4, OneStepMoves DEF Inv
<1>6. cpu \in CpuType /\ frameStart \in Nat /\ taken \in BOOLEAN /\ ins \in Seq(Inputs) BY DEF Inv, Shape, File
<1>7. cpu' \in CpuType /\ cpu.fetches < cpu'.fetches
  <2>1. cpu.fetches \in Nat BY <1>6 DEF CpuType
  <2> HIDE DEF i
  <2>2. StepTo(i, v) \in CpuType /\ cpu.fetches < StepTo(i, v).fetches
    BY <1>4, <1>6, StepToType DEF Paced
  <2> QED BY <1>5, <2>1, <2>2
<1>8. Now' = LoopStep(memory, frameStart, Now, v) BY <1>2, OneStepIsLoopStep
<1>9. Now \in LoopState /\ Now' \in LoopState /\ Now.cpu = cpu /\ Now'.cpu = cpu'
  BY <1>5, <1>6, <1>7 DEF Now, Loop, LoopState
<1>10. PICK R \in SUBSET LoopState : Path(memory, frameStart, Now, R) /\ Begun(StartOf(frame + 1)) \in R
  BY <1>1 DEF Faithful, Together
<1>11. Path(memory, frameStart, Now', R \cup {Now'}) BY <1>7, <1>8, <1>9, <1>10, PathGrows
<1>12. StartOf(frame + 1)' = StartOf(frame + 1) BY <1>5 DEF StartOf
<1>13. Together'
  <2>1. R \cup {Now'} \in SUBSET LoopState /\ Begun(StartOf(frame + 1)) \in R \cup {Now'} BY <1>9, <1>10
  <2>2. \E Q \in SUBSET LoopState : Path(memory', frameStart', Now', Q) /\ Begun(StartOf(frame + 1)') \in Q
    BY <1>5, <1>11, <1>12, <2>1
  <2>3. ~desync /\ frameStart = FRAME * frame /\ frames = <<>> /\ base = StartOf(frame + 1).fetches
    BY <1>1 DEF Faithful, Together
  <2> QED BY <1>1, <1>3, <1>5, <1>12, <2>2, <2>3 DEF Together
<1>14. PICK vals : Recorded(vals) /\ OnPath(vals) BY DEF Faithful
<1>15. Recorded(vals)' BY <1>5, <1>14 DEF Recorded, StartOf
<1>16. OnPath(vals)' BY <1>1, <1>5 DEF OnPath
<1> QED BY <1>13, <1>15, <1>16 DEF Faithful

\* The end of a recorded frame: its path is complete, its values are what it read.
LEMMA RunEndFaithful == ASSUME Inv, Faithful, RunEnd PROVE Faithful'
<1>1. /\ mode = "record" /\ inFrame /\ inFrame' = FALSE /\ frameStart' = frameStart + FRAME /\ frame' = frame + 1
      /\ log' = Append(log, Logged) /\ marks' = Append(marks, cpu)
      /\ UNCHANGED <<memory, cpu, if1, taken, base, ins, mode, snap, frames, desync>>
  BY DEF RunEnd, EndFrame, NextFrame
<1>15. PICK n : n = frame + 1 OBVIOUS
<1>2. PICK vals : Recorded(vals) /\ OnPath(vals) BY DEF Faithful
<1>3. /\ vals \in Seq(Seq(Inputs)) /\ ins \in Seq(Inputs) /\ log \in Seq(Filed) /\ marks \in Seq(CpuType)
      /\ Len(vals) = frame /\ Len(log) = frame /\ Len(marks) = frame /\ frame \in Nat
      /\ cpu \in CpuType /\ frameStart \in Nat /\ taken \in BOOLEAN /\ frames = <<>>
  BY <1>1, <1>2 DEF Recorded, Inv, Shape, File, Position, Faithful, Together
<1>4. base = StartOf(n).fetches /\ frameStart = FRAME * frame /\ n = frame + 1 /\ n \in Nat
  BY <1>1, <1>3, <1>15 DEF Faithful, Together
<1>5. cpu.fetches \in Nat /\ base \in Nat /\ cpu.fetches - base \in Nat
  BY <1>1 DEF Inv, Shape, CpuType, Clock, ClockIn
<1>6. Logged \in Filed /\ Logged.ins = ins /\ Logged.fetches = cpu.fetches - StartOf(n).fetches
  BY <1>3, <1>4, <1>5 DEF Logged, Filed
<1>14. PICK vals2 : vals2 = Append(vals, ins) OBVIOUS
<1>7. /\ vals2 \in Seq(Seq(Inputs)) /\ Len(vals2) = n /\ vals2[n] = ins /\ \A k \in 1 .. frame : vals2[k] = vals[k]
      /\ Len(log') = n /\ log'[n] = Logged /\ \A k \in 1 .. frame : log'[k] = log[k]
      /\ Len(marks') = n /\ marks'[n] = cpu /\ \A k \in 1 .. frame : marks'[k] = marks[k]
  BY <1>1, <1>3, <1>4, <1>6, <1>14, AppendProperties
<1>8. \A k \in 1 .. n : StartOf(k)' = StartOf(k)
  <2>1. ASSUME NEW k \in 1 .. n, k # 1 PROVE marks'[k - 1] = marks[k - 1]
    <3>1. k - 1 \in 1 .. frame BY <1>3, <1>4, <2>1
    <3> QED BY <1>7, <3>1
  <2> QED BY <1>1, <2>1 DEF StartOf
<1>9. StartOf(n + 1)' = cpu
  <2>1. n + 1 # 1 /\ (n + 1) - 1 = n BY <1>3, <1>4
  <2> QED BY <1>7, <2>1 DEF StartOf
<1>10. Runs(memory, n, StartOf(n), cpu, ins, Logged.fetches)
  <2>1. PICK R \in SUBSET LoopState : Path(memory, frameStart, Now, R) /\ Begun(StartOf(n)) \in R
    BY <1>1, <1>15 DEF Faithful, Together
  <2>2. Now \in LoopState /\ Now.cpu = cpu /\ Now.ins = ins BY <1>3 DEF Now, Loop, LoopState
  <2>3. frameStart = FRAME * (n - 1) BY <1>3, <1>4
  <2> QED BY <1>6, <2>1, <2>2, <2>3 DEF Runs, RunsOn
<1>11. Recorded(vals2)'
  <2>1. ASSUME NEW k \in 1 .. n
        PROVE Runs(memory', k, StartOf(k)', marks'[k], vals2[k], log'[k].fetches) /\ log'[k].ins = vals2[k]
    <3>1. CASE k = n BY <1>1, <1>6, <1>7, <1>8, <1>10, <3>1
    <3>2. CASE k \in 1 .. frame
      <4>1. Runs(memory, k, StartOf(k), marks[k], vals[k], log[k].fetches) /\ log[k].ins = vals[k]
        BY <1>1, <1>2, <1>3, <3>2 DEF Recorded
      <4> QED BY <1>1, <1>7, <1>8, <3>2, <4>1
    <3> QED BY <1>3, <1>4, <3>1, <3>2
  <2>2. Len(frames') = 0 BY <1>1, <1>3, EmptySeq
  <2> QED BY <1>7, <2>1, <2>2 DEF Recorded
<1>12. OnPath(vals2)' BY <1>1 DEF OnPath
<1>13. Together'
  <2>1. frameStart' = FRAME * frame' BY <1>1, <1>3, <1>4, LoopAssumption
  <2>2. if1 = FALSE /\ ~desync BY DEF Faithful, Together
  <2>3. cpu' = StartOf(frame + 1)' BY <1>1, <1>9, <1>15
  <2> QED BY <1>1, <1>3, <2>1, <2>2, <2>3 DEF Together
<1> QED BY <1>11, <1>12, <1>13 DEF Faithful

\* The file and the new process: repeat marks for repeated values, the embedded CPU.
LEMMA LoadFaithful == ASSUME Inv, Faithful, Load PROVE Faithful'
<1>1. /\ mode = "record" /\ ~inFrame /\ mode' = "load" /\ cpu' = snap
      /\ if1' = FALSE /\ frameStart' = 0 /\ frame' = 0
      /\ UNCHANGED <<memory, inFrame, snap, marks, frames, desync>>
  BY DEF Load
<1>2. PICK S \in SUBSET Repeatable : log' = Written(S) BY DEF Load
<1>3. PICK vals : Recorded(vals) /\ OnPath(vals) BY DEF Faithful
<1>4. frames = <<>> /\ ~desync BY <1>1 DEF Faithful, Together
<1>5. /\ Len(log) \in Nat /\ log \in Seq(Filed) BY LenProperties DEF Inv, File
<1>6. Len(log') = Len(log) BY <1>2, WrittenFits DEF Inv
<1>7. ASSUME NEW k \in 1 .. Len(log)
      PROVE /\ log'[k].fetches = log[k].fetches
            /\ \/ log'[k].ins = vals[k]
               \/ k > 1 /\ log'[k].ins = REPEAT /\ vals[k] = vals[k - 1]
  <2>1. log'[k] = IF k \in S THEN [log[k] EXCEPT !.ins = REPEAT] ELSE log[k] BY <1>2 DEF Written
  <2>2. log[k] \in Filed /\ log[k].ins = vals[k] BY <1>1, <1>3, <1>5, ElementOfSeq DEF Recorded
  <2>3. CASE k \notin S BY <2>1, <2>2, <2>3
  <2>4. CASE k \in S
    <3>1. k \in 2 .. Len(log) /\ log[k].ins = log[k - 1].ins BY <2>4 DEF Repeatable
    <3>2. k - 1 \in 1 .. Len(log) BY <1>5, <3>1
    <3>3. log[k - 1].ins = vals[k - 1] BY <1>1, <1>3, <3>2 DEF Recorded
    <3>4. log'[k].ins = REPEAT /\ log'[k].fetches = log[k].fetches BY <2>1, <2>2, <2>4 DEF Filed
    <3> QED BY <2>2, <3>1, <3>3, <3>4
  <2> QED BY <2>3, <2>4
<1>8. Recorded(vals)'
  <2>1. Len(frames') = 0 BY <1>1, <1>4, EmptySeq
  <2>2. \A k \in 1 .. Len(log) : Runs(memory, k, StartOf(k), marks[k], vals[k], log[k].fetches)
    BY <1>3 DEF Recorded
  <2>3. \A k : StartOf(k)' = StartOf(k) BY <1>1 DEF StartOf
  <2>4. \A k \in 1 .. Len(log') : Runs(memory', k, StartOf(k)', marks'[k], vals[k], log'[k].fetches)
    BY <1>1, <1>6, <1>7, <2>2, <2>3
  <2>5. vals \in Seq(Seq(Inputs)) /\ Len(vals) = Len(log') BY <1>3, <1>6 DEF Recorded
  <2> QED BY <1>1, <1>6, <1>7, <2>1, <2>4, <2>5 DEF Recorded
<1>9. OnPath(vals)' BY <1>1 DEF OnPath
<1>10. Together'
  <2>1. StartOf(frame + 1)' = snap BY <1>1 DEF StartOf
  <2>2. FRAME * 0 = 0 BY LoopAssumption
  <2> QED BY <1>1, <1>4, <2>1, <2>2 DEF Together
<1> QED BY <1>8, <1>9, <1>10 DEF Faithful

\* A repeated frame is read back as the values it was recorded with.
LEMMA ParseFaithful == ASSUME Inv, Faithful, ParseFrame PROVE Faithful'
<1> DEFINE n == Len(frames) + 1
<1> DEFINE f == log[n]
<1> DEFINE g == [fetches |-> f.fetches, ins |-> Expanded(f)]
<1>1. /\ mode = "load" /\ Len(frames) < Len(log) /\ (f.ins = REPEAT => frames # <<>>)
      /\ frames' = Append(frames, g)
      /\ UNCHANGED <<memory, cpu, if1, frameStart, frame, inFrame, taken, base, ins, mode, snap, log, marks, desync>>
  BY DEF ParseFrame, loop
<1>2. PICK vals : Recorded(vals) /\ OnPath(vals) BY DEF Faithful
<1>3. /\ frames \in Seq(Played) /\ Len(frames) \in Nat /\ Len(log) \in Nat /\ log \in Seq(Filed)
      /\ vals \in Seq(Seq(Inputs)) /\ Len(vals) = Len(log)
  BY <1>2, LenProperties DEF Inv, File, Recorded
<1>4. n \in 1 .. Len(log) BY <1>1, <1>3
<1>5. vals[n] \in Seq(Inputs) /\ f \in Filed BY <1>3, <1>4, ElementOfSeq
<1>6. f.ins = vals[n] \/ (n > 1 /\ f.ins = REPEAT /\ vals[n] = vals[n - 1]) BY <1>2, <1>4 DEF Recorded
<1>7. Expanded(f) = vals[n]
  <2>1. CASE f.ins = REPEAT
    <3>1. n > 1 /\ vals[n] = vals[n - 1] BY <1>5, <1>6, <2>1, RepeatAssumption
    <3>2. Len(frames) \in 1 .. Len(frames) /\ Len(frames) = n - 1 BY <1>3, <3>1
    <3>3. frames[Len(frames)].ins = vals[Len(frames)] BY <1>2, <3>2 DEF Recorded
    <3> QED BY <2>1, <3>1, <3>2, <3>3 DEF Expanded
  <2>2. CASE f.ins # REPEAT BY <1>6, <2>2 DEF Expanded
  <2> QED BY <2>1, <2>2
<1>8. g \in Played /\ g.ins = vals[n] /\ g.fetches = log[n].fetches BY <1>5, <1>7 DEF Played, Filed
<1> HIDE DEF g, f
<1>9. Len(frames') = n /\ frames'[n] = g /\ \A k \in 1 .. Len(frames) : frames'[k] = frames[k]
  BY <1>1, <1>3, <1>8, AppendProperties
<1>10. ASSUME NEW k \in 1 .. Len(frames') PROVE frames'[k].ins = vals[k] /\ frames'[k].fetches = log[k].fetches
  <2>1. CASE k = n BY <1>8, <1>9, <2>1
  <2>2. CASE k \in 1 .. Len(frames) BY <1>2, <1>9, <2>2 DEF Recorded
  <2> QED BY <1>3, <1>9, <2>1, <2>2
<1>11. Recorded(vals)' BY <1>1, <1>2, <1>10 DEF Recorded, StartOf
<1>12. OnPath(vals)' BY <1>1 DEF OnPath
<1>13. Together' BY <1>1 DEF Faithful, Together, StartOf
<1> QED BY <1>11, <1>12, <1>13 DEF Faithful

\* All the frames are there.
LEMMA LoadedFaithful == ASSUME Inv, Faithful, Loaded PROVE Faithful'
<1>1. /\ mode = "load" /\ Len(frames) = Len(log) /\ mode' = "replay"
      /\ UNCHANGED <<memory, cpu, if1, frameStart, frame, inFrame, taken, base, ins, snap, log, marks, frames, desync>>
  BY DEF Loaded, loop, file
<1>2. PICK vals : Recorded(vals) /\ OnPath(vals) BY DEF Faithful
<1>3. ~inFrame BY <1>1 DEF Faithful, Together
<1>4. Recorded(vals)' BY <1>1, <1>2 DEF Recorded, StartOf
<1>5. OnPath(vals)' BY <1>1, <1>3 DEF OnPath
<1>6. Together' BY <1>1, <1>3 DEF Faithful, Together, StartOf
<1> QED BY <1>4, <1>5, <1>6 DEF Faithful

\* The player's position on the path of its frame, and what that says of the frame's end.
LEMMA Playing_OnPath ==
  ASSUME Inv, Faithful, mode = "replay", inFrame, NEW vals, Recorded(vals), OnPath(vals)
  PROVE \E R \in SUBSET LoopState, e \in LoopState :
          /\ Path(memory, frameStart, e, R) /\ Now \in R
          /\ RunsOn(memory, frame + 1, StartOf(frame + 1), marks[frame + 1], vals[frame + 1], log[frame + 1].fetches, R)
          /\ e.cpu = marks[frame + 1] /\ e.ins = This.ins
          /\ This.fetches = e.cpu.fetches - base
<1>1. PICK R \in SUBSET LoopState : Now \in R /\
        RunsOn(memory, frame + 1, StartOf(frame + 1), marks[frame + 1], vals[frame + 1], log[frame + 1].fetches, R)
  BY DEF OnPath
<1>2. PICK e \in LoopState :
        /\ Path(memory, FRAME * ((frame + 1) - 1), e, R)
        /\ e.cpu = marks[frame + 1] /\ e.ins = vals[frame + 1]
        /\ log[frame + 1].fetches = marks[frame + 1].fetches - StartOf(frame + 1).fetches
  BY <1>1 DEF RunsOn
<1>3. /\ frame \in Nat /\ frame < Len(frames) /\ Len(frames) \in Nat
      /\ frameStart = FRAME * frame /\ base = StartOf(frame + 1).fetches
  BY LenProperties DEF Inv, Shape, File, Position, Faithful, Together
<1>4. frameStart = FRAME * ((frame + 1) - 1) /\ frame + 1 \in 1 .. Len(frames) BY <1>3
<1>5. This.ins = vals[frame + 1] /\ This.fetches = log[frame + 1].fetches BY <1>4 DEF Recorded, This
<1> QED BY <1>1, <1>2, <1>3, <1>4, <1>5

\* An instruction of the player: the fetches have not run out, so the path goes on, and
\* the recorded value is there when the program asks for it.
LEMMA PlayStepFaithful == ASSUME Inv, Faithful, PlayStep PROVE Faithful'
<1>1. mode = "replay" /\ inFrame /\ MorePlay /\ if1 = FALSE /\ if1' = FALSE BY DEF PlayStep, Faithful, Together
<1>2. PICK vals : Recorded(vals) /\ OnPath(vals) BY DEF Faithful
<1>3. PICK R \in SUBSET LoopState, e \in LoopState :
          /\ Path(memory, frameStart, e, R) /\ Now \in R
          /\ RunsOn(memory, frame + 1, StartOf(frame + 1), marks[frame + 1], vals[frame + 1], log[frame + 1].fetches, R)
          /\ e.cpu = marks[frame + 1] /\ e.ins = This.ins
          /\ This.fetches = e.cpu.fetches - base
  BY <1>1, <1>2, Playing_OnPath
<1>4. Now.cpu = cpu /\ Now.ins = ins BY DEF Now, Loop
<1>5. OneStep(memory[FALSE][cpu.pc], Fed) BY <1>1 DEF PlayStep
<1>6. /\ UNCHANGED <<memory, frameStart, frame, inFrame, base, mode, snap, log, marks, frames>>
  BY <1>5 DEF OneStep, file
<1>7. Before(memory, frameStart, Now, e, R)
  <2>1. cpu.fetches - base < e.cpu.fetches - base BY <1>1, <1>3 DEF MorePlay
  <2>2. Now # e BY <1>4, <2>1 DEF Inv, Shape, CpuType
  <2> QED BY <1>3, <2>2 DEF Path
<1>8. Reads(cpu, memory[FALSE][cpu.pc]) => ~Unrecorded /\ Fed = Answer(memory, Now, e.ins)
  <2>1. SUFFICES ASSUME Asks(memory, Now) PROVE ~Unrecorded /\ Fed = Answer(memory, Now, e.ins)
    BY <1>4 DEF Asks, Code
  <2>2. Len(ins) < Len(This.ins) BY <1>3, <1>4, <1>7, <2>1 DEF Before
  <2>3. Len(ins) \in Nat /\ Len(This.ins) \in Nat
    BY <1>3, LenProperties DEF Inv, File, LoopState
  <2>4. ~Unrecorded BY <2>2, <2>3 DEF Unrecorded
  <2> QED BY <1>3, <1>4, <2>1, <2>4 DEF Fed, Answer
<1>9. Now' = LoopStep(memory, frameStart, Now, Answer(memory, Now, e.ins))
  <2>1. Now' = LoopStep(memory, frameStart, Now, Fed) BY <1>5, OneStepIsLoopStep
  <2>2. CASE Asks(memory, Now) BY <1>4, <1>8, <2>1, <2>2 DEF Asks, Code
  <2>3. CASE ~Asks(memory, Now) BY <2>1, <2>3, Unread
  <2> QED BY <2>2, <2>3
<1>10. Now' \in R BY <1>7, <1>9 DEF Before
<1>11. Together'
  <2>1. desync' = (desync \/ (Reads(cpu, memory[FALSE][cpu.pc]) /\ Unrecorded)) /\ ~desync
    BY <1>1 DEF PlayStep, Faithful, Together
  <2>2. ~desync' BY <1>8, <2>1
  <2> QED BY <1>1, <1>6, <2>2 DEF Faithful, Together, StartOf
<1>12. Recorded(vals)' BY <1>2, <1>6 DEF Recorded, StartOf
<1>13. StartOf(frame + 1)' = StartOf(frame + 1) BY <1>6 DEF StartOf
<1>14. OnPath(vals)' BY <1>3, <1>6, <1>10, <1>13 DEF OnPath
<1> QED BY <1>11, <1>12, <1>14 DEF Faithful

\* The fetches have run out: the player is at the end of the path, in the recorded state.
LEMMA PlayEndFaithful == ASSUME Inv, Faithful, PlayEnd PROVE Faithful'
<1>1. /\ mode = "replay" /\ inFrame /\ ~MorePlay /\ inFrame' = FALSE
      /\ frameStart' = frameStart + FRAME /\ frame' = frame + 1
      /\ mode' \in {"over", "replay"}
      /\ UNCHANGED <<memory, cpu, if1, taken, base, ins, snap, log, marks, frames>>
  BY DEF PlayEnd, EndFrame, NextFrame, file
<1>2. PICK vals : Recorded(vals) /\ OnPath(vals) BY DEF Faithful
<1>3. PICK R \in SUBSET LoopState, e \in LoopState :
          /\ Path(memory, frameStart, e, R) /\ Now \in R
          /\ e.cpu = marks[frame + 1] /\ e.ins = This.ins
          /\ This.fetches = e.cpu.fetches - base
  BY <1>1, <1>2, Playing_OnPath
<1>4. Now = e
  <2>1. ~(cpu.fetches - base < e.cpu.fetches - base) BY <1>1, <1>3 DEF MorePlay
  <2>2. Now.cpu = cpu BY DEF Now, Loop
  <2>3. Before(memory, frameStart, Now, e, R) => cpu.fetches < e.cpu.fetches BY <2>2 DEF Before
  <2>4. cpu.fetches \in Nat /\ base \in Nat /\ e.cpu.fetches \in Nat BY <1>3 DEF Inv, Shape, CpuType, LoopState
  <2> QED BY <1>3, <2>1, <2>3, <2>4 DEF Path
<1>5. cpu = marks[frame + 1] /\ ins = This.ins BY <1>3, <1>4 DEF Now, Loop
<1>6. frame \in Nat /\ frameStart = FRAME * frame /\ frameStart + FRAME = FRAME * (frame + 1)
  <2>1. frame \in Nat /\ frameStart = FRAME * frame BY DEF Inv, Shape, Faithful, Together
  <2> QED BY <2>1, LoopAssumption
<1>7. ~desync'
  <2>1. ~(Len(ins) < Len(This.ins)) BY <1>5, LenProperties DEF Inv, File
  <2> QED BY <2>1 DEF PlayEnd, Faithful, Together
<1>8. Together'
  <2>1. StartOf(frame + 1)' = marks[frame + 1]
    <3>1. (frame + 1) + 1 # 1 /\ ((frame + 1) + 1) - 1 = frame + 1 BY <1>6
    <3> QED BY <1>1, <3>1 DEF StartOf
  <2>2. if1 = FALSE /\ Len(frames) = Len(log) BY <1>1 DEF Faithful, Together
  <2> QED BY <1>1, <1>5, <1>6, <1>7, <2>1, <2>2 DEF Together
<1>9. Recorded(vals)'
  <2>1. \A k : StartOf(k)' = StartOf(k) BY <1>1 DEF StartOf
  <2>2. mode' # "record" /\ mode # "record" BY <1>1
  <2> QED BY <1>1, <1>2, <2>1, <2>2 DEF Recorded
<1>10. OnPath(vals)' BY <1>1 DEF OnPath
<1> QED BY <1>8, <1>9, <1>10 DEF Faithful

\* Every step of a session without the Interface 1 keeps playback on the recording.
LEMMA NextFaithful == ASSUME Inv, Faithful, [Next]_vars, HaveIf1 = FALSE PROVE Faithful'
<1>1. CASE RunBegin BY <1>1, BeginFaithful DEF RunBegin
<1>2. CASE RunStep BY <1>2, RunStepFaithful
<1>3. CASE RunEnd BY <1>3, RunEndFaithful
<1>4. CASE Load BY <1>4, LoadFaithful
<1>5. CASE PlayBegin BY <1>5, BeginFaithful DEF PlayBegin
<1>6. CASE PlayStep BY <1>6, PlayStepFaithful
<1>7. CASE PlayEnd BY <1>7, PlayEndFaithful
<1>8. CASE ParseFrame BY <1>8, ParseFaithful
<1>9. CASE Loaded BY <1>9, LoadedFaithful
<1>10. CASE UNCHANGED vars
  <2>1. PICK vals : Recorded(vals) /\ OnPath(vals) BY DEF Faithful
  <2>2. Recorded(vals)' BY <1>10, <2>1 DEF vars, file, Recorded, StartOf
  <2>3. OnPath(vals)' BY <1>10, <2>1 DEF vars, file, OnPath, StartOf, Now
  <2>4. Together' BY <1>10 DEF vars, file, Faithful, Together, StartOf, Now
  <2> QED BY <2>2, <2>3, <2>4 DEF Faithful
<1> QED BY <1>1, <1>2, <1>3, <1>4, <1>5, <1>6, <1>7, <1>8, <1>9, <1>10 DEF Next, Running, Playing, Over

\* The invariant of a recording and its playback, for a machine without the Interface 1
\* and a recording that starts in a state its embedded snapshot can hold.
LEMMA FaithfulInvariant ==
  ASSUME HaveIf1 = FALSE, Embeddable
  PROVE Spec => [](Inv /\ Faithful)
<1>1. Init => Inv /\ Faithful BY InitInv, InitFaithful
<1>2. Inv /\ Faithful /\ [Next]_vars => (Inv /\ Faithful)' BY NextInv, NextFaithful
<1> QED BY <1>1, <1>2, PTL DEF Spec

\* Without the Interface 1, from any start the embedded snapshot can hold, whatever the
\* program, the length of its frames, the contention and the values its ports return, and
\* however the file marks repeated frames: playback is at every frame boundary in the
\* recorded state.
THEOREM PlaybackReproduces ==
  ASSUME HaveIf1 = FALSE, Embeddable
  PROVE Spec => []Reproduces
<1>1. Inv /\ Faithful => Reproduces
  <2>1. SUFFICES ASSUME Inv, Faithful, ~inFrame, frame > 0 PROVE cpu = marks[frame] BY DEF Reproduces
  <2>2. frame \in Nat /\ frame + 1 # 1 /\ (frame + 1) - 1 = frame BY <2>1 DEF Inv, Shape
  <2> QED BY <2>1, <2>2 DEF Faithful, Together, StartOf
<1> QED BY <1>1, FaithfulInvariant, PTL

\* ... and asks its ports exactly as often as the recording did, in every frame.
THEOREM PlaybackNeverDesyncs ==
  ASSUME HaveIf1 = FALSE, Embeddable
  PROVE Spec => []NeverDesyncs
<1>1. Inv /\ Faithful => NeverDesyncs BY DEF Faithful, Together, NeverDesyncs
<1> QED BY <1>1, FaithfulInvariant, PTL

----------------------------------------------------------------------------
(* Handlers. *)

\* No handler is running, or one is, with the interrupts off or about to return.
Calm(c, main, handler) ==
  \/ c.stack = <<>> /\ c.pc \in main
  \/ /\ \E r \in main : c.stack = <<r>>
     /\ c.pc \in handler
     /\ c.iff => c.ei /\ \A z \in BOOLEAN : memory[z][c.pc].op = "ret"

Unnested(main, handler) ==
  /\ Calm(cpu, main, handler)
  /\ snap.stack = <<>> /\ snap.pc \in main

\* An interrupt is not accepted in a handler.
LEMMA IntCalm ==
  ASSUME NEW c \in CpuType, NEW main, NEW handler, Disciplined(main, handler), Calm(c, main, handler)
  PROVE  Calm(z80_int(c), main, handler)
<1>1. CASE ~Accepts(c) BY <1>1 DEF z80_int
<1>2. CASE Accepts(c)
  <2>1. c.iff /\ ~c.ei BY <1>2 DEF Accepts
  <2>2. c.stack = <<>> /\ c.pc \in main BY <2>1 DEF Calm
  <2> DEFINE d == z80_int(c)
             s == <<c.pc>> \o c.stack
  <2>3. d = [c EXCEPT !.pc = Vector, !.iff = FALSE, !.halted = FALSE, !.stack = s,
                      !.tstates = c.tstates + ACK, !.fetches = c.fetches + 1]
    BY <1>2 DEF z80_int, CpuType
  <2>4. s = <<c.pc>> BY <2>2
  <2> HIDE DEF s
  <2>5. d.pc = Vector /\ d.iff = FALSE /\ d.stack = s BY <2>3 DEF CpuType
  <2> HIDE DEF d
  <2>6. d.pc \in handler /\ d.stack = <<c.pc>> /\ ~d.iff BY <2>4, <2>5 DEF Disciplined
  <2>7. Calm(d, main, handler) BY <2>2, <2>6 DEF Calm
  <2> QED BY <2>7 DEF d
<1> QED BY <1>1, <1>2

\* What an instruction does to the PC, the stack and the interrupts.
LEMMA ExecuteGoes ==
  ASSUME NEW c \in CpuType, NEW i \in Instr, NEW v, NEW a, a = c.pc
  PROVE  LET d == Execute(c, i, v)
         IN /\ i.op = "ret" /\ c.stack # <<>> => d.pc = Head(c.stack) /\ d.stack = Tail(c.stack)
            /\ ~(i.op = "ret" /\ c.stack # <<>>) => d.pc \in Goes(i, a) /\ d.stack = c.stack
            /\ i.op = "ei" => d.pc = After(a) /\ d.ei
            /\ d.iff => i.op = "ei" \/ c.iff
<1> DEFINE d == Execute(c, i, v)
<1>1. c = [pc |-> c.pc, iff |-> c.iff, ei |-> c.ei, halted |-> c.halted, stack |-> c.stack,
           tstates |-> c.tstates, fetches |-> c.fetches]
  BY DEF CpuType
<1>2. CASE i.op = "ret" /\ c.stack # <<>>
  <2>1. d = [c EXCEPT !.pc = Head(c.stack), !.stack = Tail(c.stack)] BY <1>2 DEF Execute
  <2>2. d.pc = Head(c.stack) /\ d.stack = Tail(c.stack) /\ d.iff = c.iff BY <1>1, <2>1
  <2> QED BY <1>2, <2>2
<1>3. CASE i.op = "ei"
  <2>1. d = [c EXCEPT !.pc = After(c.pc), !.iff = TRUE, !.ei = TRUE] BY <1>3 DEF Execute
  <2>2. d.pc = After(a) /\ d.stack = c.stack /\ d.ei BY <1>1, <2>1
  <2> QED BY <1>3, <2>2 DEF Goes
<1>4. CASE i.op = "di"
  <2>1. d = [c EXCEPT !.pc = After(c.pc), !.iff = FALSE] BY <1>4 DEF Execute
  <2>2. d.pc = After(a) /\ d.stack = c.stack /\ d.iff = FALSE BY <1>1, <2>1
  <2> QED BY <1>4, <2>2 DEF Goes
<1>5. CASE i.op = "halt"
  <2>1. d = [c EXCEPT !.pc = After(c.pc), !.halted = TRUE] BY <1>5 DEF Execute
  <2>2. d.pc = After(a) /\ d.stack = c.stack /\ d.iff = c.iff BY <1>1, <2>1
  <2> QED BY <1>5, <2>2 DEF Goes
<1>6. CASE i.op = "jp"
  <2>1. d = [c EXCEPT !.pc = i.to] BY <1>6 DEF Execute
  <2>2. d.pc = i.to /\ d.stack = c.stack /\ d.iff = c.iff BY <1>1, <2>1
  <2> QED BY <1>6, <2>2 DEF Goes
<1>7. CASE i.op = "in"
  <2>1. d = [c EXCEPT !.pc = IF v = 0 THEN After(c.pc) ELSE i.to] BY <1>7 DEF Execute
  <2>2. d.pc \in {After(a), i.to} /\ d.stack = c.stack /\ d.iff = c.iff BY <1>1, <2>1
  <2> QED BY <1>7, <2>2 DEF Goes
<1>8. CASE i.op \notin {"ei", "di", "halt", "jp", "in"} /\ ~(i.op = "ret" /\ c.stack # <<>>)
  <2>1. d = [c EXCEPT !.pc = After(c.pc)] BY <1>8 DEF Execute
  <2>2. d.pc = After(a) /\ d.stack = c.stack /\ d.iff = c.iff BY <1>1, <2>1
  <2> QED BY <1>8, <2>2 DEF Goes
<1> QED BY <1>2, <1>3, <1>4, <1>5, <1>6, <1>7, <1>8

\* An instruction ends a handler, stays in it, or is of the main program.
LEMMA StepCalm ==
  ASSUME NEW c \in CpuType, NEW main, NEW handler, Disciplined(main, handler), Calm(c, main, handler),
         c.halted => ~c.ei, memory \in Programs, NEW s \in BOOLEAN, NEW i, i = memory[s][c.pc], NEW v
  PROVE  Calm(z80_step(c, i, v), main, handler)
<1>1. c.pc \in Addr /\ i \in Instr
  <2>1. c.pc \in Addr /\ memory \in [BOOLEAN -> [Addr -> Instr]] BY ProgramAssumption DEF CpuType
  <2> QED BY <2>1
<1>2. c = [pc |-> c.pc, iff |-> c.iff, ei |-> c.ei, halted |-> c.halted, stack |-> c.stack,
           tstates |-> c.tstates, fetches |-> c.fetches]
  BY DEF CpuType
<1>3. \A n, t : /\ Fetch(c, n, t).pc = c.pc /\ Fetch(c, n, t).stack = c.stack /\ Fetch(c, n, t).iff = c.iff
  BY <1>2 DEF Fetch
<1>4. CASE c.halted
  <2> DEFINE d == Fetch(c, 1, Cost(c, i))
  <2>1. z80_step(c, i, v) = d BY <1>4 DEF z80_step
  <2>2. d.pc = c.pc /\ d.stack = c.stack /\ d.iff = c.iff BY <1>3
  <2> HIDE DEF d
  <2>3. Calm(d, main, handler)
    <3>1. CASE c.stack = <<>> /\ c.pc \in main BY <2>2, <3>1 DEF Calm
    <3>2. CASE ~(c.stack = <<>> /\ c.pc \in main)
      <4>1. (\E r \in main : c.stack = <<r>>) /\ c.pc \in handler /\ ~c.iff BY <1>4, <3>2 DEF Calm
      <4> QED BY <2>2, <4>1 DEF Calm
    <3> QED BY <3>1, <3>2
  <2> QED BY <2>1, <2>3
<1>5. CASE ~c.halted
  <2> DEFINE f == Fetch(c, i.m1, Cost(c, i))
             d == Execute(f, i, v)
  <2>1. z80_step(c, i, v) = d BY <1>5 DEF z80_step
  <2>2. Cost(c, i) \in Nat BY <1>1, CostBound, LoopAssumption DEF HALT_T
  <2>3. f \in CpuType /\ f.pc = c.pc /\ f.stack = c.stack /\ f.iff = c.iff
    <3>1. i.m1 \in Nat BY <1>1 DEF Instr
    <3>2. f \in CpuType BY <2>2, <3>1, FetchType, Zenon
    <3> QED BY <1>3, <3>2
  <2> HIDE DEF f
  <2>4. /\ i.op = "ret" /\ c.stack # <<>> => d.pc = Head(c.stack) /\ d.stack = Tail(c.stack)
        /\ ~(i.op = "ret" /\ c.stack # <<>>) => d.pc \in Goes(i, c.pc) /\ d.stack = c.stack
        /\ i.op = "ei" => d.pc = After(c.pc) /\ d.ei
        /\ d.iff => i.op = "ei" \/ c.iff
    BY <1>1, <2>3, ExecuteGoes
  <2> HIDE DEF d
  <2>5. CASE c.stack = <<>> /\ c.pc \in main
    <3>1. Goes(i, c.pc) \subseteq main BY <2>5 DEF Disciplined
    <3>2. d.pc \in main /\ d.stack = <<>> BY <2>4, <2>5, <3>1
    <3>3. Calm(d, main, handler) BY <3>2 DEF Calm
    <3> QED BY <2>1, <3>3
  <2>6. CASE ~(c.stack = <<>> /\ c.pc \in main)
    <3>1. PICK r \in main : c.stack = <<r>> BY <2>6 DEF Calm
    <3>2. c.pc \in handler /\ (c.iff => i.op = "ret") BY <2>6 DEF Calm
    <3>3. CASE i.op = "ret"
      <4>1. c.stack # <<>> /\ Head(c.stack) = r /\ Tail(c.stack) = <<>> BY <3>1
      <4>2. d.pc \in main /\ d.stack = <<>> BY <2>4, <3>3, <4>1
      <4>3. Calm(d, main, handler) BY <4>2 DEF Calm
      <4> QED BY <2>1, <4>3
    <3>4. CASE i.op # "ret"
      <4>1. Goes(i, c.pc) \subseteq handler BY <3>2, <3>4 DEF Disciplined
      <4>2. d.pc \in handler /\ d.stack = <<r>> BY <2>4, <3>1, <3>4, <4>1
      <4>3. ASSUME d.iff PROVE d.ei /\ \A z \in BOOLEAN : memory[z][d.pc].op = "ret"
        <5>1. i.op = "ei" BY <2>4, <3>2, <3>4, <4>3
        <5>2. \A z \in BOOLEAN : memory[z][After(c.pc)].op = "ret" BY <3>2, <5>1 DEF Disciplined
        <5> QED BY <2>4, <5>1, <5>2
      <4>4. Calm(d, main, handler) BY <4>2, <4>3 DEF Calm
      <4> QED BY <2>1, <4>4
    <3> QED BY <3>3, <3>4
  <2> QED BY <2>5, <2>6
<1> QED BY <1>4, <1>5

\* So does an instruction of either loop, with the interrupt that follows it.
LEMMA OneStepCalm ==
  ASSUME Inv, NEW main, NEW handler, Disciplined(main, handler), Unnested(main, handler),
         NEW s \in BOOLEAN, NEW v, OneStep(memory[s][cpu.pc], v)
  PROVE  Unnested(main, handler)'
<1> DEFINE i == memory[s][cpu.pc]
           a == z80_step(cpu, i, v)
<1>1. /\ cpu \in CpuType /\ (cpu.halted => ~cpu.ei) /\ memory \in Programs /\ i \in Instr
      /\ Calm(cpu, main, handler) /\ snap.stack = <<>> /\ snap.pc \in main
  BY AtPc DEF Inv, Shape, Shadow, Unnested
<1>2. cpu' = (IF Offered(a) THEN z80_int(a) ELSE a) /\ memory' = memory /\ snap' = snap
  BY DEF OneStep, file
<1> HIDE DEF a
<1>3. a \in CpuType BY <1>1, StepType DEF a
<1>4. Calm(a, main, handler) BY <1>1, StepCalm DEF a
<1>5. Calm(z80_int(a), main, handler) BY <1>3, <1>4, IntCalm
<1> DEFINE d == cpu'
<1>6. Calm(d, main, handler) BY <1>2, <1>4, <1>5
<1> QED BY <1>1, <1>2, <1>6 DEF Unnested, Calm

LEMMA NextUnnested ==
  ASSUME Inv, NEW main, NEW handler, Disciplined(main, handler), Unnested(main, handler), [Next]_vars
  PROVE  Unnested(main, handler)'
<1>1. cpu \in CpuType /\ Calm(cpu, main, handler) /\ snap.stack = <<>> /\ snap.pc \in main
  BY DEF Inv, Shape, Unnested
<1>2. CASE Begin
  <2>1. cpu' = z80_int(cpu) /\ memory' = memory /\ snap' = snap BY <1>2 DEF Begin, file
  <2>2. Calm(z80_int(cpu), main, handler) BY <1>1, IntCalm
  <2> QED BY <1>1, <2>1, <2>2 DEF Unnested, Calm
<1>3. CASE RunStep
  <2>1. (if1 \/ PagesIn) \in BOOLEAN BY DEF Inv, Shape
  <2>2. \E v : OneStep(memory[if1 \/ PagesIn][cpu.pc], v) BY <1>3 DEF RunStep
  <2> QED BY <2>1, <2>2, OneStepCalm
<1>4. CASE PlayStep
  <2>1. if1 \in BOOLEAN /\ OneStep(memory[if1][cpu.pc], Fed) BY <1>4 DEF PlayStep, Inv, Shape
  <2> QED BY <2>1, OneStepCalm
<1>5. CASE Load
  <2>1. cpu' = snap /\ memory' = memory /\ snap' = snap BY <1>5 DEF Load
  <2> QED BY <1>1, <2>1 DEF Unnested, Calm
<1>6. CASE RunEnd \/ ParseFrame \/ Loaded \/ PlayEnd \/ UNCHANGED vars
  <2>1. UNCHANGED <<cpu, memory, snap>>
    BY <1>6 DEF RunEnd, EndFrame, ParseFrame, Loaded, PlayEnd, vars, file
  <2> QED BY <1>1, <2>1 DEF Unnested, Calm
<1> QED BY <1>2, <1>3, <1>4, <1>5, <1>6 DEF Next, Running, Playing, RunBegin, PlayBegin, Over

\* Whatever the frame length, the window, the contention and the overshoot: of a program
\* whose handler turns interrupts on only right before its RET, no handler is ever
\* interrupted, while it is recorded or played back.
THEOREM HandlersReturn ==
  ASSUME NEW main, NEW handler, Disciplined(main, handler)
  PROVE  Spec => []HandlersDoNotNest
<1>1. Init => Unnested(main, handler)
  <2> SUFFICES ASSUME Init PROVE Unnested(main, handler) OBVIOUS
  <2>1. PICK c \in Starts : cpu = c /\ snap = Saved(c) BY DEF Init
  <2>2. c.stack = <<>> /\ c.pc \in main /\ Saved(c).pc \in main BY DEF Disciplined
  <2>3. c \in CpuType BY ProgramAssumption
  <2>4. Saved(c).stack = c.stack BY <2>3 DEF Saved, CpuType
  <2> QED BY <2>1, <2>2, <2>4 DEF Unnested, Calm
<1>2. Inv /\ Unnested(main, handler) /\ [Next]_vars => Unnested(main, handler)' BY NextUnnested
<1>3. Unnested(main, handler) => HandlersDoNotNest
  <2> SUFFICES ASSUME Unnested(main, handler) PROVE Len(cpu.stack) <= 1 BY DEF HandlersDoNotNest
  <2>1. cpu.stack = <<>> \/ \E r \in main : cpu.stack = <<r>> BY DEF Unnested, Calm
  <2>2. CASE cpu.stack = <<>>
    <3>1. Len(cpu.stack) = 0 BY <2>2, EmptySeq
    <3> QED BY <3>1
  <2>3. CASE \E r \in main : cpu.stack = <<r>>
    <3>1. PICK r \in main : cpu.stack = <<r>> BY <2>3
    <3>2. Len(<<r>>) = 1 OBVIOUS
    <3> QED BY <3>1, <3>2
  <2> QED BY <2>1, <2>2, <2>3
<1> QED BY <1>1, <1>2, <1>3, Invariant, PTL DEF Spec
=============================================================================
