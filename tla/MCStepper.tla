------------------------------ MODULE MCStepper -----------------------------
(* Two-bit bytes and sixteen addresses, the lower half of them ROM: the code. *)
EXTENDS StepperProps

None == [k \in Kinds |-> <<>>]
Lists(k, l) == [None EXCEPT ![k] = l]
User(ls, stop, lines) ==
  [lists |-> ls, trace |-> FALSE, stop |-> stop, script |-> lines, monitor |-> TRUE, save |-> FALSE]

Toggle(k, a) == [op |-> "toggle", list |-> k, addr |-> a]
S(n) == [op |-> "step", n |-> n]
C == [op |-> "cont"]
Other == [op |-> "print"]
Quit == [op |-> "quit"]
On == [op |-> "trace", on |-> TRUE]

\* Every script of two commands, and a few longer ones.
Commands == {C, S(0), S(2), Blank, Other, Toggle("b", 0), Toggle("w", 8)}
Scripts ==
  [1 .. 2 -> Commands]
  \cup {<<Toggle("b", 0), Toggle("b", 2), Toggle("b", 3), Toggle("b", 0), Blank, S(3), C, On, Quit>>,
        <<Toggle("p", 1), Toggle("r", 14), Toggle("r", 14), C, Blank, Blank, S(1)>>,
        <<Toggle("p", 5), Toggle("r", 1), C, Toggle("w", 13), C, C>>}

Watching == {User(Lists(k, <<9>>), FALSE, <<S(2), C>>) : k \in {"r", "w"}}
Playing == {[User(None, FALSE, <<>>) EXCEPT !.monitor = FALSE]}
Saving(ss) == {[s EXCEPT !.save = TRUE] : s \in ss}

\* A breakpoint where a trap returns to, and the same one given twice and toggled once.
Returning == {User(Lists("b", <<2>>), FALSE, <<C, C>>)}
Twice == {User(Lists("b", <<2, 2>>), TRUE, <<Toggle("b", 2), C>>)}

\* First a session with the monitor, or one that saves; then one with the saved tape.
MCSessions ==
  << {User(None, TRUE, s) : s \in Scripts} \cup {User(Lists("b", <<2, 9>>), FALSE, <<S(2), C>>)}
     \cup Twice \cup Saving(Playing \cup Watching \cup Returning),
     Playing \cup Watching \cup Returning \cup Saving(Playing) >>

\* A write and a port, with interrupts on or not; a call of the loader or the saver, or a
\* halt; the interrupt's routine; what the ROM does with the two when they are not trapped.
E(kind, next, acc) == [kind |-> kind, next |-> next, acc |-> acc]
MCProgram ==
  [a \in 0 .. 15 |->
     CASE a = 0 -> {E("plain", n, <<[kind |-> "w", addr |-> 8], [kind |-> "p", addr |-> 5]>>) : n \in {1, 5}}
       [] a = 1 -> {E("call", 6, <<>>), E("call", 7, <<>>), E("halt", 2, <<>>)}
       [] a = 3 -> {E("plain", 4, <<>>)}
       [] a \in {4, 6, 7} -> {E("ret", 0, <<>>)}
       [] a = 5 -> {E("ei", 1, <<>>)}
       [] OTHER -> {E("plain", 0, <<>>)}]

R(a, dest, n) == [a |-> a, ix |-> dest, de |-> n]
MCRegisters == {R(0, 8, 2), R(1, 7, 3), R(0, 8, 0)}
=============================================================================
