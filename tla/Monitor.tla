------------------------------ MODULE Monitor -------------------------------
(***************************************************************************)
(* The monitor of debug.c: lists of breakpoints and watches, a step count, *)
(* a watch hit waiting to be reported, and the commands of its prompt.     *)
(* Commands that only print (registers, memory, disassembly, help, a bad   *)
(* address) are the one command "print".                                   *)
(***************************************************************************)
EXTENDS Integers, Sequences, SequencesExt

CONSTANTS
  MaxBp,      \* DBG_MAX_BP
  LowBytes,   \* the ports below this are low bytes: 0x100
  Sessions    \* what the first, the second ... run of the emulator may start with

VARIABLES
  lists,      \* bp, wwatch, rwatch and pwatch by kind: b, w, r, p
  step,       \* stop after so many more instructions; 0 when off
  stopNow,    \* stop_now
  pending,    \* the watch hit to report, or NoHit
  script,     \* the commands still to come
  last,       \* the command an empty line repeats, or Blank
  tracing     \* a trace file is open

monitor == <<lists, step, stopNow, pending, script, last, tracing>>

NoHit == [kind |-> "none", addr |-> 0]
Kinds == {"b", "w", "r", "p"}
Blank == [op |-> "blank"]

\* The lines of a script.
Lines ==
  [op : {"blank", "print", "cont", "quit"}] \cup [op : {"step"}, n : Int]
  \cup [op : {"toggle"}, list : Kinds, addr : Nat] \cup [op : {"trace"}, on : BOOLEAN]

\* What the command line may ask for.
Options ==
  [lists : [Kinds -> Seq(Nat)], script : Seq(Lines),
   trace : BOOLEAN, stop : BOOLEAN, monitor : BOOLEAN, save : BOOLEAN]

ASSUME MonitorAssumption ==
  /\ MaxBp \in Nat /\ LowBytes \in Nat
  /\ Sessions \in Seq(SUBSET Options)
  /\ \A n \in DOMAIN Sessions : \A s \in Sessions[n], k \in Kinds : Len(s.lists[k]) <= MaxBp

InList(k, a) == a \in Range(lists[k])

\* A port watch of one byte matches the low byte of a port.
Watched(x) ==
  \/ x.kind \in {"w", "r"} /\ InList(x.kind, x.addr)
  \/ x.kind = "p" /\ (InList("p", x.addr) \/ InList("p", x.addr % LowBytes))

\* debug_note_*: of all that happens on the bus between two hooks the first hit is kept.
Hits(xs) == {i \in DOMAIN xs : Watched(xs[i])}
Noted(xs) == IF pending # NoHit \/ Hits(xs) = {} THEN pending ELSE xs[Min(Hits(xs))]

NoOptions == [lists |-> [k \in Kinds |-> <<>>], trace |-> FALSE, stop |-> FALSE, script |-> <<>>]

\* The options of main; without any of them no monitor is attached.
debug_attach(s) ==
  /\ lists' = s.lists /\ tracing' = s.trace /\ stopNow' = s.stop /\ script' = s.script
  /\ step' = 0 /\ pending' = NoHit /\ last' = Blank

----------------------------------------------------------------------------
(* debug_step_hook *)

AtBreakpoint(pc, halted) == ~halted /\ InList("b", pc)

Stops(pc, halted) == AtBreakpoint(pc, halted) \/ stopNow \/ pending # NoHit \/ step = 1

\* The count goes on whatever else stops the machine.
Counted_UnlessStopped(pc, halted) ==
  IF step > 0 /\ (step = 1 \/ ~Stops(pc, halted)) THEN step - 1 ELSE step
Counted(pc, halted) == IF step > 0 THEN step - 1 ELSE 0

StepHook(pc, halted) ==
  /\ step' = Counted(pc, halted)
  /\ stopNow' = FALSE /\ pending' = NoHit
  /\ UNCHANGED <<lists, script, last, tracing>>

----------------------------------------------------------------------------
(* repl.  A command either goes on prompting or lets the machine run. *)

\* The command of a line, and what an empty line will repeat after it.
Meant(line) == IF line.op = "blank" THEN last ELSE line

\* Of a list the last entry takes the place of the one removed.
Toggled(l, a) ==
  CASE a \in Range(l) ->
         LET i == CHOOSE i \in 1 .. Len(l) : l[i] = a /\ \A j \in 1 .. i - 1 : l[j] # a
         IN SubSeq([l EXCEPT ![i] = l[Len(l)]], 1, Len(l) - 1)
    [] a \notin Range(l) /\ Len(l) >= MaxBp -> l
    [] OTHER -> Append(l, a)

list_toggle(c) == lists' = [lists EXCEPT ![c.list] = Toggled(@, c.addr)] /\ UNCHANGED <<step, tracing>>

Trace(c) == tracing' = c.on /\ UNCHANGED <<lists, step>>

Show == UNCHANGED <<lists, step, tracing>>

Cont == UNCHANGED <<lists, step, tracing>>

StepBy(n) == step' = IF n < 1 THEN 1 ELSE n

Step(c) == StepBy(c.n) /\ UNCHANGED <<lists, tracing>>

\* next_cmd: the line is used up before it is looked at.
NextCmd_Peeks == IF Head(script).op = "blank" THEN script ELSE Tail(script)
NextCmd == Tail(script)

Command(c) ==
  /\ script # <<>> /\ Meant(Head(script)) = c
  /\ script' = NextCmd
  /\ last' = c
  /\ UNCHANGED <<stopNow, pending>>

\* What the command does, and whether the machine goes on, stays stopped or is gone.
Prompt(next) ==
  \/ Command(Blank) /\ Show /\ next = "repl"
  \/ \E k \in Range(script) \cup {last} :
       /\ Command(k)
       /\ \/ k.op = "print" /\ Show /\ next = "repl"
          \/ k.op = "toggle" /\ list_toggle(k) /\ next = "repl"
          \/ k.op = "trace" /\ Trace(k) /\ next = "repl"
          \/ k.op = "cont" /\ Cont /\ next = "run"
          \/ k.op = "step" /\ Step(k) /\ next = "run"
          \/ k.op = "quit" /\ Trace([on |-> FALSE]) /\ next = "gone"

\* The input is exhausted: the machine goes on by itself.
Exhausted == script = <<>> /\ UNCHANGED monitor
=============================================================================
