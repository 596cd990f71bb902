----------------------------- MODULE FrameProps -----------------------------
(***************************************************************************)
(* What the frame loop and the RZX recorder promise.                       *)
(***************************************************************************)
EXTENDS Frame

\* What a frame can hold: at least HALT_T T-states for a fetch, at least one fetch for a
\* read.  With the real numbers that is far below the 65535 of the file's 16-bit counts.
FitsTheFile(f) == HALT_T * f.fetches < FRAME + MAXT + MAXDELAY /\ (f.ins # REPEAT => Len(f.ins) <= f.fetches)

\* The types of the loop's state, of the CPU and of the recording.
TypeOK ==
  /\ memory \in Programs /\ cpu \in CpuType /\ snap \in CpuType
  /\ if1 \in BOOLEAN /\ inFrame \in BOOLEAN /\ taken \in BOOLEAN /\ desync \in BOOLEAN
  /\ frameStart \in Nat /\ frame \in Nat /\ base \in Nat
  /\ mode \in {"record", "load", "replay", "over"}
  /\ ins \in Seq(Inputs)
  /\ log \in Seq([fetches : Nat, ins : Seq(Inputs) \cup {REPEAT}])
  /\ frames \in Seq([fetches : Nat, ins : Seq(Inputs)])
  /\ marks \in Seq(CpuType)
  /\ \A k \in DOMAIN log : FitsTheFile(log[k])
  /\ Len(frames) <= Len(log) /\ Len(log) = Len(marks) /\ frame <= Last

\* "Drift-free": frame boundaries are FRAME apart whatever the instructions cost, and the
\* clock is never past the boundary by more than the instruction that crossed it.
NoDrift ==
  mode = "record" =>
    /\ frameStart = FRAME * frame
    /\ frameStart <= cpu.tstates
    /\ ~inFrame => cpu.tstates < frameStart + MAXT + MAXDELAY

\* A handler that ends in EI; RET returns before the next interrupt, wherever the frame
\* boundary falls: interrupts never pile up on the stack.
HandlersDoNotNest == Len(cpu.stack) <= 1

\* What HandlersDoNotNest takes of a program: the main program never runs into a handler,
\* a handler is left by RET only, and turns interrupts on right before it or not at all.
Goes(i, a) ==
  CASE i.op = "jp" -> {i.to}
    [] i.op = "in" -> {After(a), i.to}
    [] OTHER -> {After(a)}
Disciplined(main, handler) ==
  /\ main \subseteq Addr /\ handler \subseteq Addr /\ Vector \in handler
  /\ \A c \in Starts : {c.pc, Saved(c).pc} \subseteq main /\ c.stack = <<>>
  /\ \A p \in Programs, s \in BOOLEAN :
       /\ \A a \in main : Goes(p[s][a], a) \subseteq main
       /\ \A a \in handler : p[s][a].op = "ret" \/ Goes(p[s][a], a) \subseteq handler
       /\ \A a \in handler : p[s][a].op = "ei" => \A z \in BOOLEAN : p[z][After(a)].op = "ret"

\* A CPU that waits in HALT with interrupts on is woken by the very next frame.
WakeUp == (Begin /\ cpu.halted /\ cpu.iff) => ~cpu'.halted
WakesAtFrame == [][WakeUp]_vars

\* Playback takes the CPU through every frame boundary of the recording in exactly the
\* recorded state: registers, interrupt flags, T-states and fetches.
Reproduces == (mode # "record" /\ ~inFrame /\ frame > 0) => cpu = marks[frame]

\* Playback asks for exactly the port reads that were recorded, frame by frame.
NeverDesyncs == ~desync

\* A waiting CPU always wakes while the session has frames left.
HaltWakes == (mode = "record" /\ cpu.halted /\ cpu.iff /\ frame + 1 < Last) ~> (~cpu.halted \/ mode # "record")
=============================================================================
