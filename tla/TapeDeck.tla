------------------------------ MODULE TapeDeck ------------------------------
(***************************************************************************)
(* The two cassette sides around the player: tape_cur is the file in the   *)
(* deck, tape_next the other side.  F8 (or --swap-at) exchanges them, a    *)
(* file dropped on the window replaces the first.  Both names are borrowed *)
(* pointers: a dropped name is freed as soon as its handler returns.       *)
(***************************************************************************)
EXTENDS TapeProps

CONSTANTS
  Argument,     \* names that live in argv
  Dropped,      \* names SDL allocates for a drop event and frees after it
  Content,      \* what the file of each name holds when it can be read
  NoSide        \* NULL

Names == Argument \cup Dropped

ASSUME SidesAssumption ==
  /\ Content \in [Names -> Tapes \ {Blank}]
  /\ NoSide \notin Names /\ Argument \cap Dropped = {}

VARIABLES
  cur,          \* m->tape_cur
  next,         \* m->tape_next
  scheduled     \* play_at_frame is a frame still to come

deck == <<cur, next, scheduled>>
deckVars == <<vars, deck>>

\* What reading a name's file can leave in the deck.  The bytes behind a freed
\* name may by now spell any name or none.
Readable(name) == IF name \in Dropped THEN {Content[n] : n \in Names} ELSE {Content[name]}

\* main: the tape argument is loaded, or main exits; --tape-b is only noted.
DeckInit ==
  /\ Init
  /\ cur \in Argument \cup {NoSide}
  /\ tape = IF cur = NoSide THEN Blank ELSE Content[cur]
  /\ next \in Argument \cup {NoSide}
  /\ scheduled \in BOOLEAN

-----------------------------------------------------------------------------
LeaveEmpty_Keeps == UNCHANGED vars
LeaveEmpty_Running == tape' = Blank /\ UNCHANGED <<idx, ear, due, playing, paused, nextb, rate>>

\* A load that fails leaves nothing: tape_free came first.
LeaveEmpty == Insert(Blank)

OtherSide_Same == next' = next

\* tape_swap once the new side is in.
OtherSide == next' = cur

\* F8, --swap-at: the old tape is gone before the new one is opened.
Swap ==
  /\ next # NoSide
  /\ cur' = next
  /\ \/ \E t \in Readable(next) : InsertPaused(t) /\ OtherSide
     \/ LeaveEmpty /\ UNCHANGED next
  /\ UNCHANGED scheduled

\* tape_load on the emptied deck, while the event still owns the name.
LoadDropped(name) == Insert(Content[name])

\* drop_file of a tape: reset, empty the deck, load, type LOAD "", play.
Drop(name) ==
  /\ cur' = name
  /\ \/ LoadDropped(name) /\ scheduled' = TRUE
     \/ LeaveEmpty /\ scheduled' = FALSE
  /\ UNCHANGED next

ScheduledStart ==
  /\ scheduled
  /\ IF tape.len > 0 THEN \E d \in Gaps : PlayStart(d) ELSE UNCHANGED vars
  /\ scheduled' = FALSE /\ UNCHANGED <<cur, next>>

\* machine_reset also forgets the scheduled start.
DeckReset ==
  /\ \E d \in Gaps : Reset(d)
  /\ scheduled' = FALSE /\ UNCHANGED <<cur, next>>

Player ==
  /\ \E d \in Gaps : \/ \E scanner \in BOOLEAN : EarRead(d, scanner)
                     \/ ToggleKey(d) \/ RewindKey(d) \/ Wait(d)
  /\ UNCHANGED deck

DeckNext ==
  \/ Swap \/ (\E name \in Dropped : Drop(name))
  \/ ScheduledStart \/ DeckReset \/ Player

DeckSpec == DeckInit /\ [][DeckNext]_deckVars

-----------------------------------------------------------------------------
\* What turns is what tape_cur names: no failed swap, drop or reset leaves the
\* pulses of one file under the name of another, or any pulses under no name.
DeckHoldsCur ==
  tape # Blank => /\ cur # NoSide
                  /\ cur \in Argument => tape = Content[cur]

\* As long as the files can be read, a swap loses neither side: the one taken
\* out is the one the next swap brings back.  The one put in waits at its start, unless it
\* has blocks for the trap loader only and no pulse to wait at.
SwapExchanges == [][Swap /\ tape' # Blank =>
  /\ cur' = next /\ next' = cur
  /\ tape'.len > 0 => idx' = 0 /\ paused' /\ AheadFrom(0, 0, nextb)']_deckVars

\* A loader that reads the port at a steady rate, and nobody at the keys.
Polls == /\ \E d \in Gaps : d > 0 /\ d * HotReads <= HotWindow /\ EarRead(d, FALSE)
         /\ UNCHANGED deck
LoaderTakesOver == <>[][Polls]_deckVars /\ WF_deckVars(Polls)

\* Whatever was done to the deck before, once a loader polls it steadily a playing
\* tape comes round: it gets through every boundary and stop marker and is found
\* rewound, over and over, unless its end came before the polling was noticed.
TapeComesRound == LoaderTakesOver => <>[](~playing) \/ []<>(paused /\ idx = 0)

\* Whatever is swapped or dropped, the player only ever does what a player does, with a
\* tape put in when the head is lifted: what is proved of it holds in the deck.
DeckIsPlayer == Spec
=============================================================================
