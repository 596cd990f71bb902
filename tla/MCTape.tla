------------------------------- MODULE MCTape -------------------------------
(* Tapes for TLC: pulses of a few time units, the window a few pulses long. *)
EXTENDS TapeProps, Sequences

Cumulated(p) ==
  LET at[k \in 0 .. Len(p)] == IF k = 0 THEN 0 ELSE at[k - 1] + p[k] IN at

Cassette(pulses, bounds, stops) ==
  [len |-> Len(pulses), nb |-> Len(bounds), at |-> Cumulated(pulses),
   bound |-> [b \in 0 .. Len(bounds) - 1 |-> bounds[b + 1]], stop |-> stops]

\* Two blocks and a pause between them, as a .tap or .wav compiles.
TwoBlocks == Cassette(<<1, 2, 5, 1, 1, 6>>, <<0, 3>>, {})
\* A zero-length polarity pulse, a stop marker, and a marker after the end.
Marked == Cassette(<<2, 0, 6, 2, 7>>, <<0, 3, 5>>, {1, 2})

BlockTapes == {Blank, TwoBlocks, Marked}
AllGaps == {0, 1, 3, 12}
=============================================================================
