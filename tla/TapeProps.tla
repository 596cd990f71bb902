------------------------------ MODULE TapeProps ------------------------------
(***************************************************************************)
(* What the cassette player promises, and what its comments promise of it. *)
(***************************************************************************)
EXTENDS TapePlayer

\* The types of the player's registers, and the head on the tape.
TypeOK ==
  /\ tape \in Tapes
  /\ idx \in 0 .. tape.len /\ ear \in 0 .. 1
  /\ due \in -MaxLate .. MaxLate
  /\ playing \in BOOLEAN /\ paused \in BOOLEAN /\ nextb \in Nat
  /\ winAge \in 0 .. MaxAge /\ winReads \in 0 .. HotReads /\ hot \in BOOLEAN

\* The boundary the player looks for lies ahead of the head: idx == bounds[nextb]
\* is an equality test, so one that slipped behind would never match again and
\* no later boundary would pause the tape (tape.c, tape_player_ear).
NextBoundaryAhead ==
  playing => /\ idx < tape.len
             /\ nextb < tape.nb => tape.bound[nextb] > idx

\* The level on EAR is the parity of the pulse under the head, whatever was
\* rewound, swapped or reset before: gdb_symbol compiles forced levels on it.
LevelIsParity == playing => ear = idx % 2

Running == playing /\ ~paused

\* A read leaves the running player level with the clock: the pulse under the
\* head is the one that is on the tape now, and however late the read came the
\* tape has neither gained nor lost on the T-state counter.
ReadKeepsTime == \A d \in Gaps : \A scanner \in BOOLEAN :
  EarRead(d, scanner) /\ Running /\ Running' =>
    /\ due' > 0 /\ due' <= Pulse(idx)'
    /\ due' - tape.at[idx' + 1] = due - d - tape.at[idx + 1]
KeepsTime == [][ReadKeepsTime]_vars

Passes(b) == /\ playing /\ tape' = tape /\ tape.bound[b] < tape.len
             /\ idx < tape.bound[b]
             /\ tape.bound[b] < idx' \/ (tape.bound[b] = idx' /\ Running')

-----------------------------------------------------------------------------
(* Promises of comments and documents that the code does not keep. *)

\* machine.h:45: a paused tape "resumes when hot polling returns", and a stop
\* marker pauses "unconditionally"; README.md:243: F6 is "manual play/stop".  So
\* a tape stopped by a marker or by hand does not roll on under the polling that
\* was there all along.
AtStopMarker == \E b \in tape.stop : b < nextb /\ tape.bound[b] = idx
MidBlock == idx > 0 /\ \A b \in 0 .. tape.nb - 1 : tape.bound[b] # idx
PausesHold == [][\A d \in Gaps : \A scanner \in BOOLEAN :
  EarRead(d, scanner) /\ paused /\ (AtStopMarker \/ MidBlock) /\ ~paused' => ~hot]_vars
=============================================================================
