------------------------------ MODULE MCFrame ------------------------------
EXTENDS FrameProps

Op(op) == [op |-> op, t |-> 4, m1 |-> 1, slow |-> FALSE, to |-> 0]
\* Behind a prefix.
Prefixed(op) == [Op(op) EXCEPT !.t = 8, !.m1 = 2]
Slow(op) == [Op(op) EXCEPT !.slow = TRUE]
To(op, a) == [Op(op) EXCEPT !.to = a]
Program(code) == [a \in 0 .. Len(code) - 1 |-> code[a + 1]]
NoRom(code) == [shadow \in BOOLEAN |-> Program(code)]

\* A handler of one pass, and one that waits for a key to be released.
Handler == <<Slow("nop"), Op("ei"), Op("ret")>>
Waiting == <<To("in", 6), Op("ei"), Op("ret")>>
\* The main programs: wait for the frame, in contended memory; poll a port with the interrupt off and on.
Waiter == <<Op("ei"), Op("halt"), [To("in", 4) EXCEPT !.slow = TRUE], Prefixed("nop"), To("jp", 0), To("jp", 0)>>
Poller == <<Op("di"), To("in", 3), Slow("nop"), Op("ei"), Op("nop"), To("jp", 0)>>

MCPrograms == {NoRom(Waiter \o Handler), NoRom(Waiter \o Waiting), NoRom(Poller \o Handler), NoRom(Poller \o Waiting)}

At(pc, iff) == [pc |-> pc, iff |-> iff, ei |-> FALSE, halted |-> FALSE, stack |-> <<>>, tstates |-> 0, fetches |-> 0]
MCStarts == {At(0, FALSE), At(2, TRUE)}
\* The programs are of the kind HandlersDoNotNest is about.
ASSUME HandlersKeepToIt == HaveIf1 \/ Disciplined(0 .. 5, 6 .. 8)

MCContended == [t \in 11 .. 16 |-> 17 - t]

\* With the Interface 1: the main program reads a port at the hook address, the ROM does not.
HookedRom == [shadow \in BOOLEAN |-> IF shadow
  THEN Program(<<Op("nop"), Op("nop"), Op("nop"), To("jp", 0)>> \o Waiter)
  ELSE Program(<<Op("nop"), To("in", 3), Op("nop"), To("jp", 0)>> \o Waiter)]
IF1Programs == {HookedRom}
=============================================================================
