---------------------------- MODULE StepperProps ----------------------------
(***************************************************************************)
(* What the user of the monitor and of the instant tape may rely on.       *)
(***************************************************************************)
EXTENDS Stepper

\* The monitor stops where it was asked to and nowhere else: at a breakpoint, unless the
\* CPU is parked there in a HALT; after a watched access of whatever ran since the last
\* hook, instruction, trap or interrupt; when the instructions of the last s N have run,
\* also when something else stopped them on the way; and once at the start if asked to.
\* Of several watched accesses it reports the first.  "step_hook runs before every
\* instruction" (debug.h) but for one: the instruction a trap returns to has no hook, so
\* that a breakpoint there is passed, and what the trap hit is reported after it.  No
\* other instruction runs while the user is owed a stop.
AskedWatch(x) ==
  \/ x.kind \in {"w", "r"} /\ BagIn(x.addr, asked[x.kind])
  \/ x.kind = "p" /\ (BagIn(x.addr, asked["p"]) \/ BagIn(x.addr % LowBytes, asked["p"]))
Heard == {i \in DOMAIN seen : AskedWatch(seen[i])}
StopOwed == (~halted /\ BagIn(pc, asked["b"])) \/ Heard # {}
Due == StopOwed \/ left = 0 \/ stopNow
StopsWhenDue == [][attachedDbg =>
  /\ at = "hook" /\ at' \in {"repl", "load"} =>
       /\ at' = "repl" <=> Due
       /\ pending = IF Heard = {} THEN NoHit ELSE seen[Min(Heard)]
  /\ at = "step" /\ at' = "hook" /\ before = "hook" => ~StopOwed]_vars

\* With a script the emulator never waits at the prompt: when the commands are used up it
\* goes on by itself, until the emulator ends.
NeverHangs == []<>(at \in {"step", "exit", "gone"})

\* What one run of the emulator saved with SA-BYTES, a later one loads with LD-BYTES: the
\* block that is next on the tape, if it is called for with its own flag; as many of its
\* bytes as are asked for, at the place that is asked for where that is RAM; with success
\* when there were enough of them.  A length that leaves no room for the flag and the
\* parity byte in the 16 bits of a block's length is not saved whole.
Fits(s) == Len(s.bytes) + 2 < SIZE
SavedLoads ==
  [][at = "load" /\ attached /\ pc = LdBytes /\ (\A k \in DOMAIN taped : Fits(taped[k])) =>
       IF pos >= Len(taped) \/ (pos < Len(taped) /\ taped[pos + 1].flag # af)
       THEN carry' = FALSE /\ mem' = mem
       ELSE LET bytes == taped[pos + 1].bytes
                n == IF de < Len(bytes) THEN de ELSE Len(bytes)
            IN /\ carry' = (n = de) /\ ix' = Wrapped(ix + n) /\ de' = de - n
               /\ \A c \in Address :
                    LET i == Wrapped(c - ix)
                    IN mem'[c] = IF c >= RomTop /\ i < n THEN bytes[i + 1] ELSE mem[c]]_vars
=============================================================================
