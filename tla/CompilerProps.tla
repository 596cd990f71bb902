--------------------------- MODULE CompilerProps ----------------------------
(***************************************************************************)
(* What the player and the user may rely on in a compiled tape.            *)
(***************************************************************************)
EXTENDS TapeCompiler

\* The types of the parser's state and of what it has compiled.
TypeOK ==
  /\ status \in {"blocks", "samples", "parsed", "attached", "failed"}
  /\ off \in Nat /\ loopOff \in Nat /\ loopLeft \in Nat /\ nblocks \in Nat /\ lastT \in Nat
  /\ high \in {0, 1}
  /\ pulses \in Seq(Nat) /\ tail \in Seq(Nat)
  /\ bounds \in Seq([at : Nat, stop : BOOLEAN])
  /\ status = "attached" => nblocks > 0 \/ pulses # <<>>

\* The boundaries of a compiled tape ascend and lie on it: the player looks for one at a
\* time, so a pair that does not ascend would lose a pause (TapePlayer assumes this of
\* every tape).
Playable ==
  /\ \A b \in 1 .. Len(bounds) : bounds[b].at <= Len(pulses)
  /\ \A b, c \in 1 .. Len(bounds) : b < c => bounds[b].at < bounds[c].at

\* Every block and every stop marker of the file is a boundary of the tape at its place,
\* a marker stops the tape also where an empty block was merged with it, and there are no
\* other boundaries.
MarksKept ==
  LET ats(ms) == {m.at : m \in ms}
      stops(ms) == ats({m \in ms : m.stop})
      kept == {bounds[b] : b \in 1 .. Len(bounds)}
  IN ats(kept) = ats(marked) /\ stops(kept) = stops(marked)

\* The signal of a pulse list is where it is high, and how long it lasts.
Ends(durs) == LET e[k \in 0 .. Len(durs)] == IF k = 0 THEN 0 ELSE e[k - 1] + durs[k] IN e
HighDuring(durs, Level(_)) ==
  LET e == Ends(durs) IN {e[Len(durs)]} \X UNION {e[k - 1] .. e[k] - 1 : k \in {j \in 1 .. Len(durs) : Level(j) = 1}}
Heard == LET parity(k) == (k - 1) % 2 IN HighDuring(pulses, parity)
Described == LET level(k) == wave[k].level IN HighDuring([k \in 1 .. Len(wave) |-> wave[k].dur], level)

\* The player toggles once per pulse.  Whatever symbols keep or force a level, whatever
\* pulses are empty, the toggling signal is the one that the file describes.
SignalKept == Heard = Described

\* What SignalKept takes of a file: a symbol that forces a level has a first duration.
\* (Without one it would still set the parity, and turn over what follows.)
Sounds(s) == s.flags \in {2, 3} => s.durs # <<>> /\ s.durs[1] # 0
ForcedSounds ==
  \A f \in Files : \A k \in 1 .. Len(f) :
    f[k].kind = "gdb" => \A j \in 1 .. Len(f[k].symbols) : Sounds(f[k].symbols[j].sym)

\* A loop is closed by the next end of a loop, unless another loop starts first.
Structural(k) == body[k].kind \in {"loop", "endloop"}
Closes(s, e) ==
  /\ body[s].kind = "loop" /\ body[e].kind = "endloop"
  /\ \A k \in s + 1 .. e - 1 : ~Structural(k)
Passes(k) ==
  LET around == {s \in 1 .. k - 1 : \E e \in k .. Len(body) : Closes(s, e)}
  IN IF around = {} THEN 1 ELSE LET s == CHOOSE s \in around : TRUE IN IF body[s].n > 1 THEN body[s].n ELSE 1

Broken(k) == body[k].kind = "unknown" \/ (body[k].kind = "csw" /\ ~body[k].sound) \/ (body[k].kind = "gdb" /\ ~body[k].fits)

\* No block is ever read more often than the loop around it says, so that every file
\* comes to an end; and a file without a broken block is read exactly that often.
LoopsPlayOut ==
  /\ \A k \in DOMAIN times : times[k] <= Passes(k)
  /\ (status = "parsed" /\ \A k \in DOMAIN times : ~Broken(k)) => \A k \in DOMAIN times : times[k] = Passes(k)
=============================================================================
