------------------------------- MODULE FdcBus -------------------------------
(***************************************************************************)
(* What the i8272 promises a driver that only sees the bus (fdc.h: "data   *)
(* transfers are byte-polled through MSR RQM/DIO as on the real chip"):    *)
(* the main status register and how many bytes the chip still owes.  A     *)
(* command is collected, may have an exec phase, and ends idle or with a   *)
(* result of 1, 2 or 7 bytes; an exec phase always ends with all seven.    *)
(***************************************************************************)
EXTENDS Naturals

VARIABLES
  msr,     \* the main status register
  owed     \* result bytes the CPU has still to read

bus == <<msr, owed>>

IdleMsr == 128         \* RQM
CommandMsr == 144      \* RQM CB
ExecInMsr == 176       \* RQM EXM CB: bytes from the CPU
ExecOutMsr == 240      \* RQM DIO EXM CB: bytes to the CPU
ResultMsr == 208       \* RQM DIO CB

InExec == msr \in {ExecInMsr, ExecOutMsr}

Init == msr = IdleMsr /\ owed = 0

ToIdle == msr' = IdleMsr /\ owed' = 0

ToResult(n) == msr' = ResultMsr /\ owed' = n

\* A command byte is taken; the last one starts whatever the command does.
CommandByte ==
  /\ msr \in {IdleMsr, CommandMsr}
  /\ \/ msr' = CommandMsr /\ owed' = 0
     \/ msr' \in {ExecInMsr, ExecOutMsr} /\ owed' = 0
     \/ \E n \in {1, 2, 7} : ToResult(n)
     \/ ToIdle

\* The exec phase ends, by the data running out or by terminal count.
ExecEnds == InExec /\ ToResult(7)

ResultByte ==
  /\ msr = ResultMsr
  /\ IF owed = 1 THEN ToIdle ELSE ToResult(owed - 1)

Reset == ToIdle

Next == CommandByte \/ ExecEnds \/ ResultByte \/ Reset

Spec == Init /\ [][Next]_bus
=============================================================================
