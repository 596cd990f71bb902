------------------------------ MODULE Machine ------------------------------
(***************************************************************************)
(* What the CPU sees of the machine and what is kept of it: the memory maps*)
(* and latches of the four machines (machine.c), the RESET button, and the *)
(* snapshot files that carry the state out and back in (snapshot.c).       *)
(*                                                                         *)
(* The CPU is the environment: any number of instructions takes it to any  *)
(* of CpuStates, except that a HALT is read from memory, because snapshots *)
(* depend on where it stands.  Memory is scaled: a page of 8K is W cells,  *)
(* and a word is two bytes of BYTE values.                                 *)
(***************************************************************************)
EXTENDS Integers

CONSTANTS
  Models,       \* of "hc91", "disk" (an hc91 with the interface), "hc2000", "hc128"
  W,            \* addresses per 8K page (0x2000)
  BYTE,         \* values of a byte (256)
  HALT,         \* the opcode of HALT
  CpuStates,    \* the register states programs reach
  Hooks, Exit,  \* 0x0008, 0x1708: the shadow ROM pages in; 0x0700: out
  Pokes,        \* the writes of programs: <<address, byte>>
  OutULA, Out7E, Out7FFD,  \* the bytes programs send to the ports
  Pictures,     \* screens that a .scr file may hold
  Foreign,      \* snapshot files of other emulators
  NoFile

TOP == 8 * W
Addr == 0 .. TOP - 1
Byte == 0 .. BYTE - 1
CpuType == [pc : Addr, sp : Addr, iff : BOOLEAN, ei : BOOLEAN, halted : BOOLEAN]
Formats == {"sna", "z80", "szx"}

\* A cell of memory: the chip, the number of its bank, the offset in it.
Rom(a) == <<"rom", 0, a>>
Rom1(a) == <<"rom1", 0, a>>
Boot(a) == <<"boot", 0, a>>
If1Rom(a) == <<"if1rom", 0, a>>
Ram(a) == <<"ram", 0, a>>
Cpm(a) == <<"cpm", 0, a>>
If1Ram(a) == <<"if1", 0, a>>
Bank(b, k) == <<"bank", b, k>>
NoCell == <<"none", 0, 0>>

Low == 0 .. 2 * W - 1                  \* 0x0000-0x3FFF, and the offsets in a bank
High == 2 * W .. TOP - 1               \* 0x4000-0xFFFF
FlatCells == {Ram(a) : a \in High}
BankCells == {Bank(b, k) : b \in 0 .. 7, k \in Low}
RamCells == FlatCells \cup BankCells \cup {Cpm(a) : a \in Low} \cup {If1Ram(a) : a \in Low}

\* What a snapshot file holds; 48K files name the cells of a flat memory, 128K files
\* banks.  A page that is missing from the file is missing from its domain.
IsFile(f) ==
  /\ f.fmt \in Formats /\ f.wide \in BOOLEAN
  /\ f.fmt = "sna" => ~f.wide
  /\ f.cpu \in CpuType /\ f.border \in 0 .. 7 /\ f.beeper \in 0 .. 1 /\ f.latch \in 0 .. 255
  /\ DOMAIN f.ram \subseteq (IF f.wide THEN BankCells ELSE FlatCells)
  /\ \A c \in DOMAIN f.ram : f.ram[c] \in Byte
  /\ f.fmt = "sna" => DOMAIN f.ram = FlatCells
  /\ f.own \in BOOLEAN

ASSUME ScaleAssumption ==
  /\ W \in Nat \ {0} /\ BYTE \in Nat \ {0} /\ HALT \in Byte
  /\ TOP = BYTE * BYTE
  /\ Hooks \subseteq Addr /\ Exit \in Addr

ASSUME InputAssumption ==
  /\ Models \subseteq {"hc91", "disk", "hc2000", "hc128"}
  /\ CpuStates \subseteq CpuType /\ \A c \in CpuStates : ~c.halted
  /\ Pokes \subseteq Addr \X Byte /\ Pictures \subseteq Byte
  /\ OutULA \subseteq 0 .. 255 /\ Out7E \subseteq 0 .. 255 /\ Out7FFD \subseteq 0 .. 255
  /\ \A f \in Foreign : IsFile(f) /\ ~f.own
  /\ NoFile \notin Foreign

VARIABLES
  model,        \* m->model, have_if1, have_boot: fixed at start-up
  cpu,          \* m->cpu
  mem,          \* the contents of every RAM cell
  ram_paged,    \* port 0x7E of the hc91
  if1_paged,    \* the shadow ROM of the disk interface is in
  cfg_7e,       \* port 0x7E of the hc2000; bit 2 is also cfg_locked
  cpm_page,     \* its A13 flip-flop
  port_7ffd,    \* the latch of the hc128
  screen,       \* the first cell of the page being displayed
  border, beeper,
  slot,         \* a snapshot file, or NoFile
  guest         \* the hc128 runs a 48K snapshot

paging == <<ram_paged, if1_paged, cfg_7e, cpm_page, port_7ffd, screen>>
ula == <<border, beeper>>
vars == <<model, cpu, mem, paging, ula, slot, guest>>

-----------------------------------------------------------------------------
(* The memory maps. *)

On(v, mask) == (v \div mask) % 2 = 1

HaveIf1 == model \in {"disk", "hc2000"}
Boots == model = "hc2000"
Wide == model = "hc128"

CfgRom(a) == IF On(cfg_7e, 1) THEN Boot(a) ELSE Rom(a)
Shadow(a) == IF a < W THEN If1Rom(a) ELSE If1Ram(a)

\* machine_peek, machine by machine.
ReadBanks(a) ==
  CASE a < 2 * W -> IF On(port_7ffd, 16) THEN Rom1(a) ELSE Rom(a)
    [] 2 * W <= a /\ a < 4 * W -> Bank(5, a - 2 * W)
    [] 4 * W <= a /\ a < 6 * W -> Bank(2, a - 4 * W)
    [] OTHER -> Bank(port_7ffd % 8, a - 6 * W)

ReadConfig(a, in) ==
  CASE a < 2 * W -> IF On(cfg_7e, 2) THEN Cpm(a)
                    ELSE IF in THEN Shadow(a) ELSE CfgRom(a)
    [] 6 * W <= a /\ a < 7 * W /\ cpm_page -> Ram(a + W)
    [] 7 * W <= a /\ On(cfg_7e, 2) -> CfgRom(a - 6 * W)
    [] OTHER -> Ram(a)

ReadPlain(a, in) ==
  CASE a >= 2 * W -> Ram(a)
    [] a < 2 * W /\ On(ram_paged, 2) -> If1Ram(a)
    [] a < 2 * W /\ ~On(ram_paged, 2) /\ On(ram_paged, 1) -> Cpm(a)
    [] OTHER -> IF in THEN Shadow(a) ELSE Rom(a)

\* The cell at an address, with the shadow ROM in or out.
CellAt(a, in) == IF Wide THEN ReadBanks(a) ELSE IF Boots THEN ReadConfig(a, in) ELSE ReadPlain(a, in)
ReadCell(a) == CellAt(a, if1_paged)
Read(c) == IF c \in RamCells THEN mem[c] ELSE 0
Peek(a) == Read(ReadCell(a))

\* bus_mem_write, machine by machine; NoCell is a write that is ignored.
WriteBanks(a) ==
  CASE a < 2 * W -> NoCell
    [] 2 * W <= a /\ a < 4 * W -> Bank(5, a - 2 * W)
    [] 4 * W <= a /\ a < 6 * W -> Bank(2, a - 4 * W)
    [] OTHER -> Bank(port_7ffd % 8, a - 6 * W)

A13_Ignored(a) == Ram(a)
A13(a) == IF cpm_page THEN Ram(a + W) ELSE Ram(a)

WriteConfig(a) ==
  CASE a < 2 * W -> IF On(cfg_7e, 2) THEN Cpm(a)
                    ELSE IF if1_paged /\ a >= W THEN If1Ram(a) ELSE NoCell
    [] 6 * W <= a /\ a < 7 * W -> A13(a)
    [] 7 * W <= a /\ On(cfg_7e, 2) -> NoCell
    [] OTHER -> Ram(a)

WritePlain(a) ==
  CASE a >= 2 * W -> Ram(a)
    [] a < 2 * W /\ On(ram_paged, 2) -> If1Ram(a)
    [] a < 2 * W /\ ~On(ram_paged, 2) /\ On(ram_paged, 1) -> Cpm(a)
    [] OTHER -> IF if1_paged /\ a >= W THEN If1Ram(a) ELSE NoCell

WriteCell(a) == IF Wide THEN WriteBanks(a) ELSE IF Boots THEN WriteConfig(a) ELSE WritePlain(a)

\* The page an output to the latch puts on the screen.
BankScreen(v) == IF On(v, 8) THEN Bank(7, 0) ELSE Bank(5, 0)
CfgScreen(v) == IF On(v, 8) THEN Ram(6 * W) ELSE Ram(2 * W)

-----------------------------------------------------------------------------
(* The program. *)

ResetCpu == [pc |-> 0, sp |-> TOP - 1, iff |-> FALSE, ei |-> FALSE, halted |-> FALSE]

\* Power on: the CP/M RAM is full of HALTs, --boot-cpm selects the boot ROM.
Init ==
  /\ model \in Models
  /\ cpu = ResetCpu
  /\ mem = [c \in RamCells |-> IF c[1] = "cpm" THEN HALT ELSE 0]
  /\ cfg_7e \in (IF Boots THEN {0, 1} ELSE {0})
  /\ ram_paged = 0 /\ if1_paged = FALSE /\ cpm_page = FALSE /\ port_7ffd = 0
  /\ screen = IF Wide THEN Bank(5, 0) ELSE Ram(2 * W)
  /\ border = 7 /\ beeper = 0
  /\ slot \in {NoFile} \cup Foreign
  /\ guest = FALSE

\* One instruction in machine_run_frame: the shadow ROM pages in before the fetch at a
\* hook, unless RAM is mapped there, and out after the one at Exit.
RamLow == IF Boots THEN On(cfg_7e, 2) ELSE ram_paged > 0
PagesIn == HaveIf1 /\ ~RamLow /\ cpu.pc \in Hooks
Opcode == Read(CellAt(cpu.pc, if1_paged \/ PagesIn))

Execute ==
  /\ if1_paged' = ((if1_paged \/ PagesIn) /\ cpu.pc # Exit)
  /\ IF cpu.halted THEN cpu' = [cpu EXCEPT !.ei = FALSE]
     ELSE IF Opcode = HALT
       THEN cpu' = [cpu EXCEPT !.pc = (cpu.pc + 1) % TOP, !.ei = FALSE, !.halted = TRUE]
       ELSE cpu' \in CpuStates
  /\ UNCHANGED <<model, mem, ram_paged, cfg_7e, cpm_page, port_7ffd, screen, ula, slot, guest>>

\* An accepted interrupt; what it pushes is one of Pokes, where it goes one of CpuStates.
Interrupt ==
  /\ cpu.iff /\ ~cpu.ei /\ cpu' \in CpuStates
  /\ UNCHANGED <<model, mem, paging, ula, slot, guest>>

\* bus_mem_write.
Poke(a, v) ==
  /\ ~cpu.halted
  /\ mem' = IF WriteCell(a) = NoCell THEN mem ELSE [mem EXCEPT ![WriteCell(a)] = v]
  /\ UNCHANGED <<model, cpu, paging, ula, slot, guest>>

\* bus_io_write, port by port: every even port is also the ULA's, 0x7E among them.
\* (A port that is both the hc128's latch and the ULA's is the two writes in turn.)
ToUla(v) == border' = v % 8 /\ beeper' = (v \div 16) % 2

OutUla(v) ==
  /\ ~cpu.halted /\ ToUla(v)
  /\ UNCHANGED <<model, cpu, mem, paging, slot, guest>>

Out7ffd(v) ==
  /\ ~cpu.halted /\ Wide
  /\ IF On(port_7ffd, 32) THEN UNCHANGED <<port_7ffd, screen>>
     ELSE port_7ffd' = v /\ screen' = BankScreen(v)
  /\ UNCHANGED <<model, cpu, mem, ram_paged, if1_paged, cfg_7e, cpm_page, ula, slot, guest>>

OutConfig(v) ==
  /\ ~cpu.halted /\ Boots /\ ToUla(v)
  /\ IF On(cfg_7e, 4) THEN UNCHANGED <<cfg_7e, screen>>
     ELSE cfg_7e' = v /\ screen' = CfgScreen(v)
  /\ UNCHANGED <<model, cpu, mem, ram_paged, if1_paged, cpm_page, port_7ffd, slot, guest>>

OutCpm(on) ==
  /\ ~cpu.halted /\ Boots /\ cpm_page' = on
  /\ UNCHANGED <<model, cpu, mem, ram_paged, if1_paged, cfg_7e, port_7ffd, screen, ula, slot, guest>>

\* The latch of the HC-91 has one bit, with the interface two.
RamBits(v) == v % (IF HaveIf1 THEN 4 ELSE 2)

OutPaging(v) ==
  /\ ~cpu.halted /\ ~Boots /\ ~Wide /\ ToUla(v)
  /\ ram_paged' = RamBits(v)
  /\ UNCHANGED <<model, cpu, mem, if1_paged, cfg_7e, cpm_page, port_7ffd, screen, slot, guest>>

LatchesReset_NoCpm == ram_paged' = 0 /\ if1_paged' = FALSE /\ cfg_7e' = 0 /\ UNCHANGED cpm_page /\ port_7ffd' = 0
LatchesReset == ram_paged' = 0 /\ if1_paged' = FALSE /\ cfg_7e' = 0 /\ cpm_page' = FALSE /\ port_7ffd' = 0

\* machine_reset: the beeper's latch and the media stay.
Reset ==
  /\ cpu' = ResetCpu /\ LatchesReset
  /\ screen' = IF Wide THEN Bank(5, 0) ELSE Ram(2 * W)
  /\ border' = 7 /\ guest' = FALSE
  /\ UNCHANGED <<model, mem, beeper, slot>>

-----------------------------------------------------------------------------
(* Snapshots. *)

\* view_ptr: the 48K that a snapshot of a flat memory holds.
ViewCell(a) == IF Wide THEN ReadBanks(a) ELSE Ram(a)
Flat == [c \in FlatCells |-> mem[ViewCell(c[3])]]
Banks == [c \in BankCells |-> mem[c]]

\* The PC to store: back at the HALT, in a format without a flag for it.
snap_pc_Onward == cpu.pc
snap_pc == IF cpu.halted THEN (cpu.pc + TOP - 1) % TOP ELSE cpu.pc

SnaSp == (cpu.sp + TOP - 2) % TOP
Pushed == [Flat EXCEPT ![Ram(SnaSp)] = snap_pc % BYTE, ![Ram(SnaSp + 1)] = snap_pc \div BYTE]

\* What the saved machine was like, to compare with what a load brings back.
Seen ==
  [cpu |-> cpu, view |-> [a \in High |-> mem[ViewCell(a)]], border |-> border, beeper |-> beeper,
   screen |-> screen]

\* .sna pushes the PC on a stack that must be in RAM; .z80 and .szx keep the banks.
SaveSna ==
  /\ SnaSp >= 2 * W /\ SnaSp # TOP - 1
  /\ slot' = [fmt |-> "sna", wide |-> FALSE, cpu |-> [cpu EXCEPT !.pc = 0, !.sp = SnaSp, !.ei = FALSE, !.halted = FALSE],
              border |-> border, beeper |-> 0, latch |-> 0, ram |-> Pushed, own |-> TRUE, seen |-> Seen]
SaveZ80 ==
  slot' = [fmt |-> "z80", wide |-> Wide, cpu |-> [cpu EXCEPT !.pc = snap_pc, !.ei = FALSE, !.halted = FALSE],
           border |-> border, beeper |-> 0, latch |-> IF Wide THEN port_7ffd ELSE 0,
           ram |-> IF Wide THEN Banks ELSE Flat, own |-> TRUE, seen |-> Seen]
SaveSzx ==
  slot' = [fmt |-> "szx", wide |-> Wide, cpu |-> cpu, border |-> border, beeper |-> beeper,
           latch |-> port_7ffd, ram |-> IF Wide THEN Banks ELSE Flat, own |-> TRUE, seen |-> Seen]

\* Bound: one snapshot in a behaviour, saved or foreign, and loaded as often as one likes.
CanSave == slot = NoFile

Save ==
  /\ CanSave
  /\ SaveSna \/ SaveZ80 \/ SaveSzx
  /\ UNCHANGED <<model, cpu, mem, paging, ula, guest>>

\* Where a page of the file goes: a 48K file goes to banks 5, 2 and 0 of an hc128
\* (scatter48, z80_page_ptr and the RAMP blocks), an unknown page nowhere.
Source(c, wide) ==
  IF ~Wide \/ wide THEN c
  ELSE CASE c[1] = "bank" /\ c[2] = 5 -> Ram(c[3] + 2 * W)
         [] c[1] = "bank" /\ c[2] = 2 -> Ram(c[3] + 4 * W)
         [] c[1] = "bank" /\ c[2] = 0 -> Ram(c[3] + 6 * W)
         [] OTHER -> NoCell
Placed(f) == [c \in RamCells |-> IF Source(c, f.wide) \in DOMAIN f.ram THEN f.ram[Source(c, f.wide)] ELSE mem[c]]

\* A 48K file locks the hc128 into the 48K view, a 128K file brings its latch.
View48_Unlocked == port_7ffd' = 16 /\ screen' = Bank(5, 0)
View48 == port_7ffd' = 48 /\ screen' = Bank(5, 0)
View128_KeepsScreen(v) == port_7ffd' = v /\ UNCHANGED screen
View128(v) == port_7ffd' = v /\ screen' = BankScreen(v)
Latched(f) ==
  IF ~Wide THEN UNCHANGED <<port_7ffd, screen>> ELSE IF f.wide THEN View128(f.latch) ELSE View48

Refused(f) == f.wide /\ ~Wide

\* snapshot_load_z80 has reset the CPU and set the registers before it refuses a file.
Refuse(f) ==
  /\ Refused(f)
  /\ IF f.fmt = "z80"
       THEN cpu' = [f.cpu EXCEPT !.pc = 0, !.ei = FALSE, !.halted = FALSE] /\ border' = f.border
       ELSE UNCHANGED <<cpu, border>>
  /\ UNCHANGED <<mem, paging, beeper, guest>>

\* The PC of a .sna file is popped off the stack that was just loaded.
Popped(f) ==
  [f.cpu EXCEPT !.pc = Peek(f.cpu.sp)' + BYTE * Peek((f.cpu.sp + 1) % TOP)', !.sp = (f.cpu.sp + 2) % TOP,
                !.ei = FALSE, !.halted = FALSE]

Accept(f) ==
  /\ ~Refused(f)
  /\ mem' = Placed(f) /\ Latched(f)
  /\ UNCHANGED <<ram_paged, if1_paged, cfg_7e, cpm_page>>
  /\ cpu' = CASE f.fmt = "sna" -> Popped(f)
              [] f.fmt = "z80" -> [f.cpu EXCEPT !.ei = FALSE, !.halted = FALSE]
              [] f.fmt = "szx" -> f.cpu
  /\ border' = f.border
  /\ beeper' = IF f.fmt = "szx" THEN f.beeper ELSE beeper
  /\ guest' = (Wide /\ ~f.wide)

\* machine_load_file on a snapshot: at start-up, F4, or a drop.
Load ==
  /\ slot # NoFile
  /\ UNCHANGED <<model, slot>>
  /\ Refuse(slot) \/ Accept(slot)

\* screen_load_scr: the picture, and a CPU parked so that the ROM does not wipe it.
LoadScr(v) ==
  /\ mem' = [mem EXCEPT ![screen] = v]
  /\ cpu' = [cpu EXCEPT !.iff = FALSE, !.halted = TRUE]
  /\ UNCHANGED <<model, paging, ula, slot, guest>>

-----------------------------------------------------------------------------
Program ==
  \/ Execute \/ Interrupt
  \/ \E p \in Pokes : Poke(p[1], p[2])
  \/ \E v \in OutULA : OutUla(v)
  \/ \E v \in Out7FFD : Out7ffd(v)
  \/ \E v \in Out7E : OutConfig(v) \/ OutPaging(v)
  \/ \E on \in BOOLEAN : OutCpm(on)

User == Reset \/ Save \/ Load \/ \E v \in Pictures : LoadScr(v)

Next == Program \/ User

Spec == Init /\ [][Next]_vars
=============================================================================
