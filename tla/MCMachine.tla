----------------------------- MODULE MCMachine -----------------------------
(* Two addresses to the 8K page: 0 .. 3 are the ROM, the screen starts at 4, 12 and 14 are  *)
(* 0xC000 and 0xE000.                                                                    *)
EXTENDS MachineProps

Cpu(pc, sp, iff, ei) == [pc |-> pc, sp |-> sp, iff |-> iff, ei |-> ei, halted |-> FALSE]
\* At a hook in the ROM with the stack against the ROM, where no .sna can push; after an EI
\* in the RAM at 0xC000, with the stack below it.
MCCpus == {Cpu(1, 5, FALSE, FALSE), Cpu(13, 12, TRUE, TRUE)}

\* A HALT where that program stands, in the page that moves.
MCPokes == {<<13, 3>>}

Flat48 == [c \in FlatCells |-> c[3] % 4]
OtherFile(fmt, wide, ram) ==
  [fmt |-> fmt, wide |-> wide, cpu |-> Cpu(6, 8, TRUE, FALSE), border |-> 2, beeper |-> 1,
   latch |-> IF wide THEN 15 ELSE 0, ram |-> ram, own |-> FALSE]
MCForeign ==
  {OtherFile("z80", FALSE, [c \in {Ram(4), Ram(6)} |-> 1]), OtherFile("sna", FALSE, Flat48),
   OtherFile("szx", TRUE, [c \in {Bank(7, 0)} |-> 2]), OtherFile("z80", TRUE, [c \in {Bank(7, 0)} |-> 2])}
=============================================================================
