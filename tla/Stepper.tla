------------------------------ MODULE Stepper -------------------------------
(***************************************************************************)
(* The loop of machine_run_frame around one instruction, which the monitor *)
(* and the instant loader hook into:                                       *)
(*                                                                         *)
(*   hook, prompt while stopped -> LD-BYTES trap -> SA-BYTES trap -> step  *)
(*                                                                         *)
(* with interrupts accepted between two rounds.  Time, frames and the maps *)
(* are left out; so is what an instruction does but for its bus traffic,   *)
(* the stack, EI and HALT.                                                 *)
(***************************************************************************)
EXTENDS Monitor, TapeTraps

CONSTANTS
  Program,           \* by address: what the instruction there may do
  LdBytes, SaBytes,  \* 0x0556 and 0x04C2
  IntAt,             \* where an interrupt goes
  StackTop,
  Stores,            \* the bytes the program stores
  MaxSaves           \* bound: calls to save in one run of the emulator

VARIABLES
  at,                    \* the stage of the loop; "gone" when the emulator has ended
  pc, sp, halted,
  iff, ei,               \* iff1, ei_pending
  attachedDbg,           \* a monitor is attached: m->dbg
  runs,
  asked,                 \* history: the bag of addresses asked for, by kind of list
  seen,                  \* history: what happened on the bus since the last hook
  left,                  \* history: instructions until the end of the last s N; -1 when done
  before                 \* history: what the coming instruction comes after: a hook that did
                         \* not stop, the prompt or a trap

cpu == <<pc, sp, halted, iff, ei>>
session == <<attachedDbg, runs>>
vars == <<at, monitor, mem, regs, tapes, cpu, session, asked, seen, left, before>>

Access == [kind : Kinds \ {"b"}, addr : Nat]

ASSUME ProgramAssumption ==
  /\ \A a \in Address : \A e \in Program[a] :
       e.kind \in {"plain", "halt", "ei", "call", "ret"} /\ e.next \in Address /\ e.acc \in Seq(Access)
  /\ Stores \subseteq Byte /\ LdBytes \in Address /\ SaBytes \in Address /\ IntAt \in Address /\ StackTop \in Address

\* What happens on the bus reaches the monitor, if there is one.
Bus(xs) ==
  IF attachedDbg THEN pending' = Noted(xs) /\ seen' = seen \o xs ELSE UNCHANGED <<pending, seen>>

----------------------------------------------------------------------------
(* The stack: pushes write the high byte first. *)

PushWrites == <<[kind |-> "w", addr |-> Wrapped(sp - 1)], [kind |-> "w", addr |-> Wrapped(sp - 2)]>>
Pushed(a) == Stored(Wrapped(sp - 2), <<a % BASE, a \div BASE>>)
Popped(m) == Word(m[sp], m[Wrapped(sp + 1)])

\* z80_int, at the start of a frame or after an instruction in its window.
Interrupt ==
  /\ at = "hook" /\ iff /\ ~ei
  /\ halted' = FALSE /\ iff' = FALSE
  /\ mem' = Pushed(pc) /\ sp' = Wrapped(sp - 2) /\ pc' = IntAt
  /\ Bus(PushWrites)
  /\ UNCHANGED <<at, lists, step, stopNow, script, last, tracing, regs, tapes, ei, session, asked, left, before>>

----------------------------------------------------------------------------
(* The monitor. *)

Hook ==
  /\ at = "hook"
  /\ \/ ~attachedDbg /\ at' = "load" /\ UNCHANGED <<monitor, seen, left>>
     \/ /\ attachedDbg
        /\ at' = IF Stops(pc, halted) THEN "repl" ELSE "load"
        /\ StepHook(pc, halted)
        /\ seen' = <<>>
        /\ left' = IF left = 0 THEN -1 ELSE left
  /\ before' = "hook"
  /\ UNCHANGED <<mem, regs, tapes, cpu, session, asked>>

\* What the user asks for: an address is added to a list, unless it is full, or taken out,
\* once: one that -b gave twice stays in.
AskedAfter(c) ==
  IF c.op # "toggle" THEN asked
  ELSE [asked EXCEPT ![c.list] =
          IF BagIn(c.addr, @) THEN @ (-) SetToBag({c.addr})
          ELSE IF Len(lists[c.list]) >= MaxBp THEN @ ELSE @ (+) SetToBag({c.addr})]

Repl ==
  /\ at = "repl"
  /\ \/ /\ \E next \in {"repl", "run", "gone"} :
             /\ Prompt(next)
             /\ at' = CASE next = "run" -> "load" [] next = "repl" -> "repl" [] next = "gone" -> "exit"
        /\ LET c == Meant(Head(script))
           IN /\ asked' = AskedAfter(c)
              /\ left' = IF c.op = "step" THEN (IF c.n < 1 THEN 1 ELSE c.n) ELSE left
     \/ Exhausted /\ at' = "load" /\ UNCHANGED <<asked, left>>
  /\ before' = "prompt"
  /\ UNCHANGED <<mem, regs, tapes, cpu, session, seen>>

----------------------------------------------------------------------------
(* The traps.  They look at the PC, not at what memory is there. *)

Ret == pc' = Popped(mem') /\ sp' = Wrapped(sp + 2)

LoadStage ==
  /\ at = "load" /\ at' = "save"
  /\ IF attached /\ pc = LdBytes
     THEN LoadTrap /\ Ret /\ Bus(LoadWrites \o RetReads(sp)) /\ before' = "trap"
     ELSE UNCHANGED <<mem, regs, tapes, pc, sp, pending, seen, before>>
  /\ UNCHANGED <<lists, step, stopNow, script, last, tracing, halted, iff, ei, session, asked, left>>

SaveStage ==
  /\ at = "save" /\ at' = "step"
  /\ IF saving /\ pc = SaBytes
     THEN \E opened \in BOOLEAN :
            /\ SaveTrap(opened) /\ Ret
            /\ Bus((IF opened THEN SaveReads ELSE <<>>) \o RetReads(sp))
            /\ before' = "trap"
     ELSE UNCHANGED <<mem, regs, tapes, pc, sp, pending, seen, before>>
  /\ UNCHANGED <<lists, step, stopNow, script, last, tracing, halted, iff, ei, session, asked, left>>

----------------------------------------------------------------------------
(* z80_step *)

Fetch == <<[kind |-> "r", addr |-> pc]>>

\* A parked HALT reads nothing.
Idle ==
  /\ halted
  /\ UNCHANGED <<mem, regs, pc, sp, halted, iff, pending, seen>>

\* One byte of what an instruction writes changes; the rest keeps what it had.
Plain(e) ==
  /\ e.kind = "plain" /\ pc' = e.next
  /\ LET writes == {e.acc[i].addr : i \in {j \in 1 .. Len(e.acc) : e.acc[j].kind = "w"}}
     IN IF writes = {} THEN UNCHANGED mem ELSE \E a \in writes, v \in Stores : mem' = Stored(a, <<v>>)
  /\ Bus(Fetch \o e.acc)
  /\ UNCHANGED <<regs, sp, halted, iff>>

Halt(e) ==
  /\ e.kind = "halt" /\ pc' = e.next /\ halted' = TRUE
  /\ Bus(Fetch)
  /\ UNCHANGED <<mem, regs, sp, iff>>

EnableInts(e) ==
  /\ e.kind = "ei" /\ pc' = e.next /\ iff' = TRUE
  /\ Bus(Fetch)
  /\ UNCHANGED <<mem, regs, sp, halted>>

\* The program calls the loader, the saver or a routine of its own.
Call(e) ==
  /\ e.kind = "call" /\ (e.next = SaBytes => Len(saved) < MaxSaves)
  /\ pc' = e.next /\ sp' = Wrapped(sp - 2)
  /\ mem' = Pushed(Wrapped(pc + 1))
  /\ \E r \in Registers : af' = r.a /\ ix' = r.ix /\ de' = r.de
  /\ Bus(Fetch \o PushWrites)
  /\ UNCHANGED <<carry, halted, iff>>

Return(e) ==
  /\ e.kind = "ret" /\ pc' = Popped(mem) /\ sp' = Wrapped(sp + 2)
  /\ Bus(Fetch \o RetReads(sp))
  /\ UNCHANGED <<mem, regs, halted, iff>>

StepStage ==
  /\ at = "step" /\ at' = "hook"
  /\ \/ Idle /\ ei' = FALSE
     \/ ~halted /\ \E e \in Program[pc] :
          /\ Plain(e) \/ Halt(e) \/ EnableInts(e) \/ Call(e) \/ Return(e)
          /\ ei' = (e.kind = "ei")
  /\ left' = IF left > 0 THEN left - 1 ELSE left
  /\ before' = "none"
  /\ UNCHANGED <<lists, step, stopNow, script, last, tracing, tapes, session, asked>>

----------------------------------------------------------------------------
(* main: the tape is loaded before the file to save to is emptied. *)

InitialMem == [c \in Address |-> c % BASE]

Init ==
  /\ at = "gone" /\ runs = 0
  /\ pc = 0 /\ sp = StackTop /\ halted = FALSE /\ iff = FALSE /\ ei = FALSE
  /\ mem = InitialMem /\ af = 0 /\ ix = 0 /\ de = 0 /\ carry = FALSE
  /\ attachedDbg = FALSE
  /\ lists = NoOptions.lists /\ tracing = FALSE /\ stopNow = FALSE
  /\ step = 0 /\ pending = NoHit /\ script = <<>> /\ last = Blank
  /\ file = <<>> /\ blocks = <<>> /\ pos = 0 /\ attached = FALSE /\ saving = FALSE
  /\ saved = <<>> /\ taped = <<>>
  /\ asked = [k \in Kinds |-> ToBag(NoOptions.lists[k])] /\ seen = <<>> /\ left = -1 /\ before = "none"

\* The emulator is started with a set of options, for the first time or again.
PowerOn(s) ==
  /\ at = "gone" /\ at' = "hook"
  /\ runs' = runs + 1
  /\ attachedDbg' = s.monitor /\ debug_attach(s)
  /\ asked' = [k \in Kinds |-> ToBag(s.lists[k])]
  /\ saving' = s.save
  /\ IF s.save THEN file' = <<>> /\ saved' = <<>> ELSE UNCHANGED <<file, saved>>
  /\ UNCHANGED <<mem, regs, cpu, pos, seen, left, before>>

\* Without a tape, or with the one that was saved before; main gives up on an empty one.
Start ==
  /\ runs < Len(Sessions) /\ \E s \in Sessions[runs + 1] : PowerOn(s)
  /\ \/ UNCHANGED <<blocks, attached, taped>>
     \/ /\ blocks' = ParsedFrom(file) /\ blocks' # <<>>
        /\ attached' = TRUE /\ taped' = saved

\* The emulator ends, between two instructions or by q, and leaves nothing but the file.
End ==
  /\ at \in {"hook", "exit"} /\ at' = "gone"
  /\ pc' = 0 /\ sp' = StackTop /\ halted' = FALSE /\ iff' = FALSE /\ ei' = FALSE
  /\ mem' = InitialMem /\ af' = 0 /\ ix' = 0 /\ de' = 0 /\ carry' = FALSE
  /\ attachedDbg' = FALSE /\ debug_attach(NoOptions)
  /\ blocks' = <<>> /\ pos' = 0 /\ attached' = FALSE /\ saving' = FALSE /\ taped' = <<>>
  /\ asked' = [k \in Kinds |-> ToBag(NoOptions.lists[k])] /\ seen' = <<>> /\ left' = -1 /\ before' = "none"
  /\ UNCHANGED <<file, saved, runs>>

Loop == Hook \/ Repl \/ LoadStage \/ SaveStage \/ StepStage
Next == Loop \/ Interrupt \/ Start \/ End

\* One thread: it goes on as long as there is something to do.
Spec == Init /\ [][Next]_vars /\ WF_vars(Loop)
=============================================================================
