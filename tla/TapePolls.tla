----------------------------- MODULE TapePolls -----------------------------
(***************************************************************************)
(* The deck with a history of what the program does with the port.  The    *)
(* player judges that by windows of its own, which begin and end at reads; *)
(* here it is what was read, and when, since the tape was put in, started  *)
(* or reset, so that what the player takes for polling can be compared     *)
(* with the polling there was.                                             *)
(***************************************************************************)
EXTENDS TapeDeck

VARIABLES
  heard,     \* how long ago a loader's last HotReads - 1 reads were, newest first
  lull,      \* how long ago the last read was, a loader's or not
  since,     \* how long before it a loader had read HotReads times within HotWindow
  rewound    \* the tape was wound back, and not started or put in since

polls == <<heard, lull, since, rewound>>
pollVars == <<deckVars, polls>>

Far == 3 * HotWindow + 1                  \* since is not told apart beyond this
Earlier == 1 .. HotReads - 1

\* Nothing was read yet.
Forget ==
  /\ heard' = [k \in Earlier |-> MaxAge] /\ lull' = 0 /\ since' = Far
  /\ rewound' = FALSE

\* A silence counts as one window, however long it was.
Silence(d) == Least(lull + d, HotWindow)
Older(d, k) == Least(heard[k] + d, MaxAge)

Pass(d) ==
  /\ heard' = [k \in Earlier |-> Older(d, k)] /\ lull' = Silence(d)
  /\ UNCHANGED since

Remember(d, scanner) ==
  /\ heard' = [k \in Earlier |->
                 IF scanner THEN Older(d, k) ELSE IF k = 1 THEN 0 ELSE Older(d, k - 1)]
  /\ lull' = 0
  /\ since' = IF ~scanner /\ \A k \in Earlier : Older(d, k) <= HotWindow
              THEN 0 ELSE Least(since + Silence(d), Far)

\* The end of the tape winds it back while a loader is searching.
WindsBack == ~paused /\ paused' /\ idx' = 0

-----------------------------------------------------------------------------
PolledRead(d, scanner) ==
  /\ EarRead(d, scanner) /\ Remember(d, scanner)
  /\ rewound' = (rewound \/ WindsBack)

PolledPlayer ==
  /\ \E d \in Gaps :
       \/ \E scanner \in BOOLEAN : PolledRead(d, scanner)
       \/ (ToggleKey(d) \/ Wait(d)) /\ Pass(d) /\ UNCHANGED rewound
       \/ RewindKey(d) /\ Pass(d) /\ rewound' = TRUE
  /\ UNCHANGED deck

PolledInit ==
  /\ DeckInit
  /\ heard = [k \in Earlier |-> MaxAge] /\ lull = 0 /\ since = Far /\ rewound = FALSE

PolledNext ==
  \/ (Swap \/ (\E name \in Dropped : Drop(name)) \/ DeckReset) /\ Forget
  \/ ScheduledStart /\ IF tape.len > 0 THEN Forget ELSE UNCHANGED polls
  \/ PolledPlayer

PolledSpec == PolledInit /\ [][PolledNext]_pollVars

-----------------------------------------------------------------------------
\* A loader has read the port at its rate, HotReads times within HotWindow and none of
\* them from KEY-SCAN, not more than three windows ago.  The rate is only looked at when
\* the port is read, so that a silence counts as one window, however long it was.
Polled == since <= 3 * HotWindow

\* The head passes a block boundary only while a loader polls, and a stop marker never
\* ("At a boundary the player pauses unless ...", machine.h).  One boundary is passed
\* unheard: a tape wound back is looked at from its second boundary on, as if the first
\* were at its start, where a .tzx that opens with a pure tone has none.
Unlooked(b) == b = 0 /\ rewound
PassesHeard == \A b \in 0 .. tape.nb - 1 :
  Passes(b) /\ ~Unlooked(b) => Polled' /\ b \notin tape.stop
BoundaryHeard == [][PassesHeard]_pollVars

\* A read sets a waiting tape rolling only for a loader that polls: a wait for a key,
\* which calls KEY-SCAN in a tight loop for as long as it likes, does not.
RollsForLoader == \A d \in Gaps : \A scanner \in BOOLEAN :
  EarRead(d, scanner) /\ paused /\ ~paused' => Polled'
KeyWaitHolds == [][RollsForLoader]_pollVars
=============================================================================
