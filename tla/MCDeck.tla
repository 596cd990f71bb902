------------------------------- MODULE MCDeck -------------------------------
(* Two sides on the command line, files to drop; the tapes of MCTape on them. *)
EXTENDS TapePolls, MCTape

\* A tape without boundaries: tape.c compiles a single pure tone so.
Single == Cassette(<<3, 3>>, <<>>, {})
\* A block without pulses: only the trap loader sees it.
Silent == Cassette(<<>>, <<0>>, {})
\* A .tzx that opens with a pure tone: its first boundary, a marker, is not at its start.
Toned == Cassette(<<2, 1, 3, 1>>, <<2, 3>>, {0})

DeckTapes == {Blank, TwoBlocks, Marked, Single, Silent, Toned}
Files == [n \in {"a.tap", "b.tzx", "dropped.tzx", "silent.tzx", "tone.tzx"} |->
  CASE n = "a.tap" -> TwoBlocks [] n = "b.tzx" -> Marked [] n = "silent.tzx" -> Silent
    [] n = "tone.tzx" -> Toned [] OTHER -> Single]
DeckGaps == {0, 1, 3}

\* Bound: what is read is remembered where one file is on both sides and the only one to
\* drop is the one that opens with a tone; the sides are exchanged where it is not.
VARIABLE remembered

RunInit ==
  /\ remembered \in BOOLEAN
  /\ IF remembered THEN PolledInit /\ next = cur
     ELSE DeckInit /\ heard = [k \in Earlier |-> MaxAge] /\ lull = 0 /\ since = 0 /\ rewound = TRUE
RunNext ==
  /\ IF remembered THEN PolledNext /\ cur' \in {cur, "tone.tzx"}
                   ELSE DeckNext /\ cur' # "tone.tzx" /\ UNCHANGED polls
  /\ UNCHANGED remembered
RunSpec == RunInit /\ [][RunNext]_<<pollVars, remembered>>
=============================================================================
