----------------------------- MODULE TapePlayer -----------------------------
(***************************************************************************)
(* The pulse-level cassette player (tape.c).  A tape is a list of pulses;  *)
(* the player keeps the index of the pulse under the head and the T-state  *)
(* at which it ends.  Nothing runs on its own: the player catches up with  *)
(* the clock inside a read of the ULA port, and that read also decides,    *)
(* from the rate of earlier reads, whether to pause at a block boundary.   *)
(*                                                                         *)
(* Time is relative: due is edge_ts - now and winAge is now - win_start,   *)
(* so every action takes the time d that went by since the previous one.   *)
(***************************************************************************)
EXTENDS Integers

CONSTANTS
  Tapes,        \* the contents a cassette can have, see IsTape
  HotWindow,    \* TAPE_HOT_WINDOW
  HotReads,     \* TAPE_HOT_READS
  Gaps,         \* the times d enumerated between two actions
  MaxAge,       \* winAge is not told apart beyond this
  MaxLate       \* nor is due below -MaxLate, longer than any tape

\* at[k] is the time from the start of the tape to the edge that begins pulse
\* k, at[len] its whole length; block b begins at pulse bound[b]; stop holds
\* the boundaries that are stop-the-tape markers.
IsTape(t) ==
  /\ t.len \in Nat /\ t.nb \in Nat
  /\ t.at \in [0 .. t.len -> Nat]
  /\ \A i, j \in 0 .. t.len : i <= j => t.at[i] <= t.at[j]
  /\ t.bound \in [0 .. t.nb - 1 -> 0 .. t.len]
  /\ \A b, c \in 0 .. t.nb - 1 : b < c => t.bound[b] < t.bound[c]
  /\ t.stop \subseteq 0 .. t.nb - 1

Blank == [len |-> 0, nb |-> 0, at |-> [k \in 0 .. 0 |-> 0],
          bound |-> [b \in 0 .. -1 |-> 0], stop |-> {}]     \* after tape_free

ASSUME TapesAssumption == Blank \in Tapes /\ \A t \in Tapes : IsTape(t)
ASSUME RateAssumption == HotWindow \in Nat /\ HotReads \in Nat \ {0}
ASSUME BoundsAssumption ==
  /\ Gaps \subseteq Nat /\ MaxAge \in Nat /\ MaxAge > HotWindow
  /\ MaxLate \in Nat /\ \A t \in Tapes : t.at[t.len] <= MaxLate

VARIABLES tape, idx, ear, due, playing, paused, nextb, winAge, winReads, hot

rate == <<winAge, winReads, hot>>
vars == <<tape, idx, ear, due, playing, paused, nextb, rate>>

Least(a, b) == IF a < b THEN a ELSE b
Most(a, b) == IF a > b THEN a ELSE b

Pulse(k) == tape.at[k + 1] - tape.at[k]
Aged(d) == Least(winAge + d, MaxAge)

Init ==
  /\ tape \in Tapes
  /\ idx = 0 /\ ear = 0 /\ due = 0 /\ nextb = 0
  /\ playing = FALSE /\ paused = FALSE
  /\ winAge = MaxAge /\ winReads = 0 /\ hot = FALSE

-----------------------------------------------------------------------------
(* tape_player_ear: a read of the port while the player runs. *)

Rolled(d) == Aged(d) > HotWindow
HotNow_Sticky(d) == hot \/ (Rolled(d) /\ winReads >= HotReads)

HotNow(d) == IF Rolled(d) THEN winReads >= HotReads ELSE hot

\* win_reads is only ever compared with HotReads.
CountRead_Scanner(d, scanner) == Least((IF Rolled(d) THEN 0 ELSE winReads) + 1, HotReads)

CountRead(d, scanner) ==
  Least((IF Rolled(d) THEN 0 ELSE winReads) + (IF scanner THEN 0 ELSE 1), HotReads)

PollRate_NoRestart(d, scanner) ==
  hot' = HotNow(d) /\ winAge' = Aged(d) /\ winReads' = CountRead(d, scanner)

PollRate(d, scanner) ==
  /\ hot' = HotNow(d)
  /\ winAge' = IF Rolled(d) THEN 0 ELSE Aged(d)
  /\ winReads' = CountRead(d, scanner)

\* The edge that begins pulse j, d after the previous action: not later than
\* now, or still to come.
EdgeIn(d, j) == due - d + tape.at[j] - tape.at[idx + 1]

\* Boundaries are met in order, from nextb on.
Met(j) == {b \in 0 .. tape.nb - 1 : b >= nextb /\ tape.bound[b] = j}
StopsAt(d, j) == \E b \in Met(j) : b \in tape.stop \/ ~HotNow(d)

\* The loop leaves the head at pulse j: the end of the tape, the first
\* boundary it pauses at, or the first pulse that is not over yet.
LandsOn(d, j) ==
  /\ j > idx => EdgeIn(d, j) <= 0
  /\ \A k \in idx + 1 .. j - 1 : ~StopsAt(d, k)
  /\ j < tape.len => (j > idx /\ StopsAt(d, j)) \/ EdgeIn(d, j + 1) > 0

\* b is the first boundary, from from on, that lies beyond pulse j.
AheadFrom(from, j, b) ==
  /\ b \in from .. Most(from, tape.nb)
  /\ \A c \in from .. b - 1 : tape.bound[c] <= j
  /\ b < tape.nb => tape.bound[b] > j

NextBoundary(from, j) ==
  \E b \in from .. Most(from, tape.nb) : AheadFrom(from, j, b) /\ nextb' = b

\* One toggle per pulse passed.
Toggled(e, n) == (e + n) % 2

Rewind_KeepEar == idx' = 0 /\ UNCHANGED ear

Rewind == idx' = 0 /\ ear' = 0

EndOfTape(d) ==
  IF HotNow(d)
    THEN Rewind /\ nextb' = 1 /\ paused' = TRUE /\ UNCHANGED playing
    ELSE /\ idx' = tape.len /\ ear' = 0 /\ playing' = FALSE
         /\ NextBoundary(nextb, tape.len - 1) /\ UNCHANGED paused

\* Where the next edge is once the head is at pulse j (edge_ts += ...).
NextEdge_FromNow(d, j) == Pulse(j)

NextEdge(d, j) == EdgeIn(d, j + 1)

\* While the player is paused edge_ts is dead: every way out sets it.
Land(d, j) ==
  /\ idx' = j
  /\ ear' = Toggled(ear, j - idx)
  /\ NextBoundary(nextb, j)
  /\ IF j > idx /\ StopsAt(d, j) THEN paused' = TRUE /\ due' = 0
                               ELSE paused' = FALSE /\ due' = NextEdge(d, j)
  /\ UNCHANGED playing

CatchUp(d) == \E j \in idx .. tape.len :
  LandsOn(d, j) /\ IF j = tape.len THEN EndOfTape(d) /\ due' = 0 ELSE Land(d, j)

Resume(d) ==
  /\ IF HotNow(d) THEN paused' = FALSE /\ due' = Pulse(idx)
                  ELSE UNCHANGED <<paused, due>>
  /\ UNCHANGED <<idx, ear, playing, nextb>>

EarRead(d, scanner) ==
  /\ playing
  /\ PollRate(d, scanner)
  /\ IF paused THEN Resume(d) ELSE CatchUp(d)
  /\ UNCHANGED tape

-----------------------------------------------------------------------------
(* The other hands on the player: the time d goes by and no read happens.  *)

Elapse(d) ==
  /\ winAge' = Aged(d) /\ UNCHANGED <<winReads, hot>>

Later(d) == IF playing /\ ~paused THEN Most(due - d, -MaxLate) ELSE 0

\* tape_play_start, at the scheduled frame.
PlayStart(d) ==
  /\ tape.len > 0
  /\ idx' = 0 /\ ear' = 0 /\ due' = Pulse(0)
  /\ playing' = TRUE /\ paused' = FALSE
  /\ NextBoundary(0, 0)                  \* never pause before block 0
  /\ winAge' = 0 /\ winReads' = 0 /\ hot' = FALSE
  /\ UNCHANGED tape

\* F6.
ToggleKey(d) ==
  /\ playing
  /\ paused' = ~paused
  /\ due' = IF paused THEN Pulse(idx) ELSE 0
  /\ Elapse(d)
  /\ UNCHANGED <<tape, idx, ear, playing, nextb>>

\* F7: the rate window is left alone.
RewindKey(d) ==
  /\ tape.len > 0
  /\ Rewind /\ nextb' = 1 /\ due' = 0
  /\ playing' = TRUE /\ paused' = TRUE
  /\ Elapse(d)
  /\ UNCHANGED tape

\* The player's part of machine_reset; the T-state clock runs on.
Reset(d) ==
  /\ idx' = 0 /\ ear' = 0 /\ due' = 0 /\ nextb' = 1
  /\ playing' = FALSE /\ paused' = FALSE
  /\ winReads' = 0 /\ hot' = FALSE
  /\ winAge' = Aged(d) /\ UNCHANGED tape

\* tape_free, then a load that leaves t (or nothing) in the deck.  memset
\* puts win_start at T-state 0, long ago.
Insert(t) ==
  /\ tape' = t
  /\ idx' = 0 /\ ear' = 0 /\ due' = 0 /\ nextb' = 0
  /\ playing' = FALSE /\ paused' = FALSE
  /\ winAge' = MaxAge /\ winReads' = 0 /\ hot' = FALSE

\* tape_swap: the new side is started and paused before its first block.
InsertPaused(t) ==
  IF t.len = 0 THEN Insert(t) ELSE
  /\ tape' = t
  /\ idx' = 0 /\ ear' = 0 /\ due' = 0
  /\ nextb' = IF t.nb > 0 /\ t.bound[0] = 0 THEN 1 ELSE 0
  /\ playing' = TRUE /\ paused' = TRUE
  /\ winAge' = 0 /\ winReads' = 0 /\ hot' = FALSE

\* Time goes by, the program does not look at the port.
Wait(d) ==
  /\ due' = Later(d) /\ Elapse(d)
  /\ UNCHANGED <<tape, idx, ear, playing, paused, nextb>>

Next ==
  \/ \E d \in Gaps : \/ \E scanner \in BOOLEAN : EarRead(d, scanner)
                     \/ PlayStart(d) \/ ToggleKey(d) \/ RewindKey(d) \/ Reset(d) \/ Wait(d)
  \/ \E t \in Tapes : Insert(t) \/ InsertPaused(t)

Spec == Init /\ [][Next]_vars
=============================================================================
