------------------------------- MODULE Sound -------------------------------
(***************************************************************************)
(* The sound path: wav.c synthesises in arrears, up to the clock, whenever  *)
(* the level of the speaker changes, before a write to the chip, once per   *)
(* frame of a window, and at exit; sdl.c drains the buffer to the audio     *)
(* device, and with --wav keeps the samples as well.                       *)
(*                                                                         *)
(* The doubles of wav.c are exact here: time is counted in the moments of  *)
(* Speaker, and behind is the clock minus last_td, in T-states.            *)
(***************************************************************************)
EXTENDS Psg, Sequences

CONSTANTS SampleLen, TState

ASSUME SampleAssumption == SampleLen \in Nat \ {0} /\ TState \in Nat \ {0}

VARIABLES
  level, pos, acc, behind,   \* struct Beeper
  chip,                      \* m->ay
  buf,                       \* b->buf, up to n
  queued,                    \* what the audio device has been given
  sent,                      \* how much of buf that is
  window,                    \* sdl_run with an audio device, or main's batch loop
  keep                       \* --wav

sound == <<level, pos, acc, behind, chip, buf, queued, sent>>
soundVars == <<sound, window, keep>>

\* beep_start, in main for --wav or in sdl_run.
SoundInit ==
  /\ window \in BOOLEAN /\ keep \in BOOLEAN /\ (window \/ keep)
  /\ level = 0 /\ pos = 0 /\ acc = 0 /\ behind = 0
  /\ chip = Silent
  /\ buf = <<>> /\ queued = <<>> /\ sent = 0

-----------------------------------------------------------------------------
(* advance, d T-states after the previous action. *)

Elapsed(d) == (behind + d) * TState
Done(d) == (pos + Elapsed(d)) \div SampleLen

\* The first sample is already begun, the others are all of one level.
DutyOf(k) == IF k = 1 THEN acc + level * (SampleLen - pos) ELSE level * SampleLen

Synth(d) == [k \in 1 .. Done(d) |-> <<DutyOf(k), Tone(Clocked(chip, k))>>]
Position(d) == (pos + Elapsed(d)) % SampleLen
Integral(d) == IF Done(d) = 0 THEN acc + level * Elapsed(d) ELSE level * Position(d)

Advance(d) ==
  /\ buf' = buf \o Synth(d)
  /\ pos' = Position(d) /\ acc' = Integral(d) /\ behind' = 0

Silence(d) == behind' = behind + d /\ UNCHANGED <<level, pos, acc, chip, buf>>

-----------------------------------------------------------------------------
(* The clients in machine.c. *)

\* beep_edge.
Edge(d, v) ==
  IF v = level THEN Silence(d)
  ELSE Advance(d) /\ level' = v /\ chip' = Clocked(chip, Done(d))

SelectOut(d, r) ==
  /\ chip' = Select(chip, r)
  /\ behind' = behind + d /\ UNCHANGED <<level, pos, acc, buf>>

DataOut_NoFlush(d, v) ==
  /\ chip' = WriteReg(chip, v)
  /\ behind' = behind + d /\ UNCHANGED <<level, pos, acc, buf>>

DataOut(d, v) ==
  /\ Advance(d)
  /\ chip' = WriteReg(Clocked(chip, Done(d)), v) /\ UNCHANGED level

\* ay_reset in machine_reset, between two frames.
ChipReset ==
  /\ chip' = Silent /\ UNCHANGED <<level, pos, acc, behind, buf, queued, sent>>

\* The AY block of a snapshot: every register selected and written, then sel.
LoadChip(reg, sel) ==
  /\ chip' = Programmed(reg, sel) /\ UNCHANGED <<level, pos, acc, behind, buf, queued, sent>>

-----------------------------------------------------------------------------
(* The loops around the frame. *)

Drain_Resend(all) ==
  /\ queued' = queued \o SubSeq(all, sent + 1, Len(all))
  /\ buf' = all /\ sent' = IF keep THEN sent ELSE 0

Drain_Grows(all) ==
  /\ queued' = queued \o SubSeq(all, sent + 1, Len(all))
  /\ buf' = all /\ sent' = Len(all)

\* sdl_run after each frame, with all the samples synthesised.
Drain(all) ==
  /\ queued' = queued \o SubSeq(all, sent + 1, Len(all))
  /\ IF keep THEN buf' = all /\ sent' = Len(all) ELSE buf' = <<>> /\ sent' = 0

FrameSound(d) ==
  IF window THEN /\ Drain(buf \o Synth(d))
                 /\ pos' = Position(d) /\ acc' = Integral(d) /\ behind' = 0
                 /\ chip' = Clocked(chip, Done(d)) /\ UNCHANGED level
            ELSE Silence(d) /\ UNCHANGED <<queued, sent>>

\* beep_save.
SaveWav == /\ Advance(0) /\ chip' = Clocked(chip, Done(0))
           /\ UNCHANGED <<level, queued, sent>>
=============================================================================
