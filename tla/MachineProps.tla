---------------------------- MODULE MachineProps ----------------------------
(***************************************************************************)
(* What programs and users rely on in the memory maps and the snapshots.   *)
(***************************************************************************)
EXTENDS Machine

\* The types of the latches, the CPU and the memory.
TypeOK ==
  /\ model \in Models /\ cpu \in CpuType /\ mem \in [RamCells -> Byte]
  /\ ram_paged \in 0 .. 3 /\ cfg_7e \in 0 .. 255 /\ port_7ffd \in 0 .. 255
  /\ if1_paged \in BOOLEAN /\ cpm_page \in BOOLEAN /\ guest \in BOOLEAN
  /\ screen \in RamCells /\ border \in 0 .. 7 /\ beeper \in 0 .. 1

\* The two hand-written decoders, one for reads and one for writes, agree on every map:
\* a byte is written where it is read, or into ROM, where it is lost.
WriteReadsBack ==
  \A a \in Addr : \/ WriteCell(a) = ReadCell(a) /\ WriteCell(a) \in RamCells
                  \/ WriteCell(a) = NoCell /\ ReadCell(a) \notin RamCells

\* The page on the screen is the one the latch selects, whichever of the program, a reset
\* or a snapshot set the latch last; the beam painter and bus_mem_write go by the page.
ScreenFollowsLatch ==
  screen = IF Wide THEN BankScreen(port_7ffd) ELSE IF Boots THEN CfgScreen(cfg_7e) ELSE Ram(2 * W)

\* A 48K snapshot on an hc128 stays in the 48K view whatever its program sends to the
\* latch, until a reset or the next snapshot.
Home(a) == CASE a < 4 * W -> Bank(5, a - 2 * W) [] 4 * W <= a /\ a < 6 * W -> Bank(2, a - 4 * W) [] OTHER -> Bank(0, a - 6 * W)
GuestView == guest => Wide /\ screen = Bank(5, 0) /\ \A a \in High : ReadCell(a) = Home(a)

\* A reset starts the ROM over plain memory, whatever was paged and locked before.
PlainCell(a) == IF a < 2 * W THEN Rom(a) ELSE IF Wide THEN Home(a) ELSE Ram(a)
Restarted == \A a \in Addr : ReadCell(a) = PlainCell(a)
ResetRestarts == [][Reset => Restarted' /\ ~cpu'.halted /\ cpu'.pc = 0]_vars

\* A machine goes on from its own snapshot as it was: registers, memory, border and, on the
\* hc128, latch and screen; a HALT is waited in again.  Files do not carry the low map of
\* an hc91 or the map of an hc2000, so this is about memory mapped plainly.
Plain == \A a \in High : ReadCell(a) = ViewCell(a)
Stacked(f) == IF f.fmt = "sna" THEN {f.cpu.sp, f.cpu.sp + 1} ELSE {}
GoesOn(f) ==
  LET s == f.seen
      halt == cpu.pc                        \* where the saved CPU waited
      waited == (halt + 1) % TOP = s.cpu.pc /\ s.cpu.halted
  IN \/ cpu.pc = s.cpu.pc /\ cpu.halted = s.cpu.halted
     \/ waited /\ (halt \in High \ Stacked(f) /\ s.view[halt] = HALT => Peek(halt) = HALT)
Restored(f) ==
  LET s == f.seen
  IN /\ cpu.sp = s.cpu.sp /\ cpu.iff = s.cpu.iff /\ border = s.border
     /\ \A a \in High \ Stacked(f) : mem[ViewCell(a)] = s.view[a]
     /\ GoesOn(f)
     /\ f.fmt = "szx" => cpu = s.cpu /\ beeper = s.beeper
     /\ Wide /\ f.wide => Banks = f.ram /\ port_7ffd = f.latch /\ screen = s.screen
Resumes == [][Load /\ slot.own /\ Plain => Restored(slot)']_vars

-----------------------------------------------------------------------------
\* docs/ARCHITECTURE.md:378: "HALT state survives saving by pointing PC back at the HALT
\* opcode".  So a halted machine waits in HALT again after its snapshot is loaded.
HaltSurvives == [][Load /\ slot.own /\ slot.seen.cpu.halted => (cpu.halted \/ Peek(cpu.pc) = HALT)']_vars
=============================================================================
