------------------------------ MODULE Outputs ------------------------------
(***************************************************************************)
(* What leaves the machine: the picture of Beam and the sound of Sound on   *)
(* one clock, driven by the accesses of a program (bus_mem_write and        *)
(* bus_io_write), the frame loop, and the host loop of main.c or sdl.c      *)
(* around it.  A machine is an HC-128; the others have no sound chip and    *)
(* the HC-91 and the disk machine no second page.                          *)
(***************************************************************************)
EXTENDS Beam, Sound

CONSTANTS
  Times,               \* the times between two accesses
  Pokes,               \* writes of programs to display memory: <<page, cell, byte>>
  MaxAccesses,         \* bounds the accesses of a session
  MaxFrames            \* and its frames

ASSUME AccessAssumption == Times \subseteq Nat /\ Pokes \subseteq Banks \X Cells \X Byte

VARIABLES accesses, frames, over

counters == <<accesses, frames, over>>
vars == <<beamVars, soundVars, counters>>

Init == BeamInit /\ SoundInit /\ accesses = 0 /\ frames = 0 /\ over = FALSE

Access == /\ accesses < MaxAccesses /\ accesses' = accesses + 1
          /\ UNCHANGED <<queued, sent, window, keep, frames, over>>

Poke(d) == /\ \E w \in Pokes : WriteCell(d, w[1], w[2], w[3])
           /\ Silence(d) /\ Access

\* The border and the speaker are bits of one port, the page a bit of another.
OutFE(d) == \E colour \in Colour, v \in 0 .. 1 :
  SetBorder(d, colour) /\ Edge(d, v) /\ Access

Out7FFD(d) == (\E bank \in Banks : FlipPage(d, bank)) /\ Silence(d) /\ Access

OutFFFD(d) == BeamIdle(d) /\ (\E r \in Registers : SelectOut(d, r)) /\ Access

OutBFFD(d) == BeamIdle(d) /\ (\E v \in RegByte : DataOut(d, v)) /\ Access

-----------------------------------------------------------------------------
\* main paints the last of its frames only, the window all of them.
NextFrame ==
  /\ ~over /\ frames < MaxFrames /\ frames' = frames + 1
  /\ IF window THEN BeginFrame(TRUE) ELSE ~fb_live /\ \E live \in BOOLEAN : BeginFrame(live)
  /\ UNCHANGED <<soundVars, accesses, over>>

FrameDone(d) ==
  /\ EndFrame(d) /\ FrameSound(d)
  /\ UNCHANGED <<window, keep, counters>>

\* F4 or a dropped file between two frames of the window, perhaps after a reset.
HostLoads ==
  /\ window /\ ~over /\ accesses < MaxAccesses /\ accesses' = accesses + 1
  /\ \E w \in Pokes, bank \in Banks, colour \in Colour :
       LoadState([mem EXCEPT ![w[1]][w[2]] = w[3]], bank, colour)
  /\ \/ ChipReset \/ UNCHANGED sound
     \/ \E v \in RegByte, r \in Registers : LoadChip([x \in Registers |-> v], r)
  /\ UNCHANGED <<window, keep, frames, over>>

Exit ==
  /\ ~over /\ ~running /\ (window \/ fb_live)
  /\ over' = TRUE
  /\ IF keep THEN SaveWav ELSE UNCHANGED sound
  /\ UNCHANGED <<beamVars, window, keep, accesses, frames>>

Next ==
  \/ \E d \in Times : Poke(d) \/ OutFE(d) \/ Out7FFD(d) \/ OutFFFD(d) \/ OutBFFD(d)
  \/ \E d \in 0 .. FrameT + Overrun : FrameDone(d)
  \/ NextFrame \/ HostLoads \/ Exit

Spec == Init /\ [][Next]_vars
=============================================================================
