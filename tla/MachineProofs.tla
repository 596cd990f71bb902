--------------------------- MODULE MachineProofs ---------------------------
(***************************************************************************)
(* What holds of the memory maps, the latches and the snapshots for every  *)
(* scale of the memory, every program, and every file.                     *)
(***************************************************************************)
EXTENDS MachineProps, TLAPS

\* The file in the slot is well formed, and a guest is locked into its view.
SlotOK == slot = NoFile \/ IsFile(slot)
GuestLocked == guest => Wide /\ port_7ffd = 48

Inv == TypeOK /\ SlotOK /\ ScreenFollowsLatch /\ GuestLocked

LEMMA Scale ==
  /\ W \in Nat /\ W > 0 /\ BYTE \in Nat /\ BYTE > 0 /\ TOP \in Nat
  /\ TOP = 8 * W /\ TOP = BYTE * BYTE /\ HALT \in Byte /\ 0 \in Byte
BY ScaleAssumption DEF TOP, Byte

\* A bit of a latch is on or off.
LEMMA OnBool == ASSUME NEW v, NEW k PROVE On(v, k) \in BOOLEAN
BY DEF On

\* Chips are told apart.
LEMMA Chips ==
  /\ \A a, b : Ram(a) # Rom(b) /\ Ram(a) # Boot(b)
  /\ NoCell \notin RamCells
  /\ \A a : Rom(a) \notin RamCells /\ Rom1(a) \notin RamCells /\ Boot(a) \notin RamCells /\ If1Rom(a) \notin RamCells
<1>1. \A c \in RamCells : c[1] \in {"ram", "bank", "cpm", "if1"}
  BY DEF RamCells, FlatCells, BankCells, Ram, Bank, Cpm, If1Ram
<1>2. NoCell[1] = "none" /\ \A a : Rom(a)[1] = "rom" /\ Rom1(a)[1] = "rom1" /\ Boot(a)[1] = "boot" /\ If1Rom(a)[1] = "if1rom"
  BY DEF NoCell, Rom, Rom1, Boot, If1Rom
<1>3. \A a, b : Ram(a)[1] = "ram" /\ Rom(b)[1] = "rom" /\ Boot(b)[1] = "boot"
  BY DEF Ram, Rom, Boot
<1> QED BY <1>1, <1>2, <1>3

\* Where the cells lie.
LEMMA Cells ==
  /\ \A a \in High : Ram(a) \in RamCells /\ Ram(a) \in FlatCells
  /\ \A b \in 0 .. 7, k \in Low : Bank(b, k) \in RamCells /\ Bank(b, k) \in BankCells
  /\ \A a \in Low : Cpm(a) \in RamCells /\ If1Ram(a) \in RamCells
BY DEF RamCells, FlatCells, BankCells

LEMMA Offsets ==
  ASSUME NEW a \in Addr
  PROVE  /\ a < 2 * W => a \in Low
         /\ ~(a < 2 * W) => a \in High
         /\ 2 * W <= a /\ a < 4 * W => a - 2 * W \in Low
         /\ 4 * W <= a /\ a < 6 * W => a - 4 * W \in Low
         /\ ~(a < 6 * W) => a - 6 * W \in Low /\ a - 6 * W < 2 * W
         /\ 6 * W <= a /\ a < 7 * W => a + W \in High
BY Scale DEF Addr, Low, High

\* Reads and writes meet in the same cell, map by map.
LEMMA MeetBanks ==
  ASSUME port_7ffd \in Nat, NEW a \in Addr
  PROVE  \/ WriteBanks(a) = ReadBanks(a) /\ WriteBanks(a) \in RamCells
         \/ WriteBanks(a) = NoCell /\ ReadBanks(a) \notin RamCells
<1>1. port_7ffd % 8 \in 0 .. 7 /\ 5 \in 0 .. 7 /\ 2 \in 0 .. 7
  BY SMT
<1>2. CASE a < 2 * W
  <2>1. ~(2 * W <= a /\ a < 4 * W) /\ ~(4 * W <= a /\ a < 6 * W)
    BY <1>2, Scale DEF Addr
  <2> QED BY <1>2, <2>1, Chips DEF WriteBanks, ReadBanks
<1>3. CASE 2 * W <= a /\ a < 4 * W
  BY <1>1, <1>3, Scale, Cells, Offsets DEF WriteBanks, ReadBanks, Addr
<1>4. CASE 4 * W <= a /\ a < 6 * W
  <2>1. ~(a < 2 * W) /\ ~(2 * W <= a /\ a < 4 * W)
    BY <1>4, Scale DEF Addr
  <2>2. WriteBanks(a) = Bank(2, a - 4 * W) /\ ReadBanks(a) = Bank(2, a - 4 * W)
    BY <1>4, <2>1 DEF WriteBanks, ReadBanks
  <2> QED BY <1>1, <1>4, <2>2, Cells, Offsets
<1>5. CASE 6 * W <= a
  BY <1>1, <1>5, Scale, Cells, Offsets DEF WriteBanks, ReadBanks, Addr
<1> QED BY <1>2, <1>3, <1>4, <1>5, Scale DEF Addr

LEMMA MeetConfig ==
  ASSUME if1_paged \in BOOLEAN, cpm_page \in BOOLEAN, NEW a \in Addr
  PROVE  \/ WriteConfig(a) = ReadConfig(a, if1_paged) /\ WriteConfig(a) \in RamCells
         \/ WriteConfig(a) = NoCell /\ ReadConfig(a, if1_paged) \notin RamCells
<1>1. CASE a < 2 * W
  <2>1. a \in Low /\ ~(6 * W <= a) /\ ~(7 * W <= a)
    BY <1>1, Offsets, Scale DEF Addr
  <2>2. ReadConfig(a, if1_paged) = IF On(cfg_7e, 2) THEN Cpm(a) ELSE IF if1_paged THEN Shadow(a) ELSE CfgRom(a)
    BY <1>1, <2>1 DEF ReadConfig
  <2>3. WriteConfig(a) = IF On(cfg_7e, 2) THEN Cpm(a) ELSE IF if1_paged /\ a >= W THEN If1Ram(a) ELSE NoCell
    BY <1>1, <2>1 DEF WriteConfig
  <2>4. CfgRom(a) \notin RamCells /\ (a < W => Shadow(a) \notin RamCells) /\ (~(a < W) => Shadow(a) = If1Ram(a))
    BY Chips DEF CfgRom, Shadow
  <2>5. a >= W <=> ~(a < W)
    BY Scale DEF Addr
  <2> QED BY <2>1, <2>2, <2>3, <2>4, <2>5, Cells
<1>2. CASE ~(a < 2 * W) /\ 6 * W <= a /\ a < 7 * W
  <2>1. Ram(a) \in RamCells /\ Ram(a + W) \in RamCells
    BY <1>2, Offsets, Cells
  <2>2. ~(7 * W <= a)
    BY <1>2, Scale DEF Addr
  <2>3. ReadConfig(a, if1_paged) = IF cpm_page THEN Ram(a + W) ELSE Ram(a)
    BY <1>2, <2>2 DEF ReadConfig
  <2>4. WriteConfig(a) = A13(a)
    BY <1>2, <2>2 DEF WriteConfig
  <2> QED BY <2>1, <2>3, <2>4 DEF A13
<1>3. CASE ~(a < 2 * W) /\ ~(6 * W <= a /\ a < 7 * W)
  <2>1. Ram(a) \in RamCells
    BY <1>3, Offsets, Cells
  <2>2. ReadConfig(a, if1_paged) = IF 7 * W <= a /\ On(cfg_7e, 2) THEN CfgRom(a - 6 * W) ELSE Ram(a)
    BY <1>3 DEF ReadConfig
  <2>3. WriteConfig(a) = IF 7 * W <= a /\ On(cfg_7e, 2) THEN NoCell ELSE Ram(a)
    BY <1>3 DEF WriteConfig
  <2>4. CfgRom(a - 6 * W) \notin RamCells
    BY Chips DEF CfgRom
  <2> QED BY <2>1, <2>2, <2>3, <2>4
<1> QED BY <1>1, <1>2, <1>3

LEMMA MeetPlain ==
  ASSUME if1_paged \in BOOLEAN, NEW a \in Addr
  PROVE  \/ WritePlain(a) = ReadPlain(a, if1_paged) /\ WritePlain(a) \in RamCells
         \/ WritePlain(a) = NoCell /\ ReadPlain(a, if1_paged) \notin RamCells
<1>1. CASE a >= 2 * W
  <2>1. a \in High /\ ~(a < 2 * W)
    BY <1>1, Scale DEF Addr, High
  <2> QED BY <1>1, <2>1, Cells DEF WritePlain, ReadPlain
<1>2. CASE ~(a >= 2 * W)
  <2>1. a < 2 * W /\ a \in Low
    BY <1>2, Scale DEF Addr, Low
  <2>2. ReadPlain(a, if1_paged) = IF On(ram_paged, 2) THEN If1Ram(a) ELSE IF On(ram_paged, 1) THEN Cpm(a)
                                  ELSE IF if1_paged THEN Shadow(a) ELSE Rom(a)
    BY <1>2, <2>1 DEF ReadPlain
  <2>3. WritePlain(a) = IF On(ram_paged, 2) THEN If1Ram(a) ELSE IF On(ram_paged, 1) THEN Cpm(a)
                        ELSE IF if1_paged /\ a >= W THEN If1Ram(a) ELSE NoCell
    BY <1>2, <2>1 DEF WritePlain
  <2>4. Rom(a) \notin RamCells /\ (a < W => Shadow(a) \notin RamCells) /\ (~(a < W) => Shadow(a) = If1Ram(a))
    BY Chips DEF Shadow
  <2>5. a >= W <=> ~(a < W)
    BY Scale DEF Addr
  <2> QED BY <2>1, <2>2, <2>3, <2>4, <2>5, Cells
<1> QED BY <1>1, <1>2

LEMMA Meet ==
  ASSUME TypeOK
  PROVE  WriteReadsBack
<1> SUFFICES ASSUME NEW a \in Addr
             PROVE \/ WriteCell(a) = ReadCell(a) /\ WriteCell(a) \in RamCells
                   \/ WriteCell(a) = NoCell /\ ReadCell(a) \notin RamCells
  BY DEF WriteReadsBack
<1>1. if1_paged \in BOOLEAN /\ cpm_page \in BOOLEAN /\ port_7ffd \in Nat
  BY DEF TypeOK
<1>2. CASE Wide
  BY <1>1, <1>2, MeetBanks DEF WriteCell, ReadCell, CellAt
<1>3. CASE ~Wide /\ Boots
  BY <1>1, <1>3, MeetConfig DEF WriteCell, ReadCell, CellAt
<1>4. CASE ~Wide /\ ~Boots
  BY <1>1, <1>4, MeetPlain DEF WriteCell, ReadCell, CellAt
<1> QED BY <1>2, <1>3, <1>4

-----------------------------------------------------------------------------
\* Words and bytes.
LEMMA Wrap == \A x \in Int : x % TOP \in Addr
<1>1. TOP \in Nat /\ TOP > 0
  BY Scale
<1>2. \A x \in Int, n \in Nat : n > 0 => x % n \in 0 .. n - 1
  BY SMT
<1> QED BY <1>1, <1>2 DEF Addr

LEMMA Word == \A lo, hi \in Byte : lo + BYTE * hi \in Addr
<1> SUFFICES ASSUME NEW lo \in Byte, NEW hi \in Byte PROVE lo + BYTE * hi \in Addr
  OBVIOUS
<1>1. BYTE \in Nat /\ BYTE > 0 /\ lo \in Nat /\ hi \in Nat /\ lo <= BYTE - 1 /\ hi <= BYTE - 1
  BY Scale DEF Byte
<1>2. BYTE * hi \in Nat /\ BYTE * hi <= BYTE * (BYTE - 1)
  BY <1>1, SMT
<1>3. BYTE * (BYTE - 1) = BYTE * BYTE - BYTE
  BY <1>1, SMT
<1>4. TOP = BYTE * BYTE /\ TOP \in Nat
  BY Scale
<1> QED BY <1>1, <1>2, <1>3, <1>4 DEF Addr

LEMMA TwoBytes == \A p \in Addr : p % BYTE \in Byte /\ p \div BYTE \in Byte
<1> SUFFICES ASSUME NEW p \in Addr PROVE p % BYTE \in Byte /\ p \div BYTE \in Byte
  OBVIOUS
<1>1. BYTE \in Nat /\ BYTE > 0 /\ p \in Nat /\ p < BYTE * BYTE
  BY Scale DEF Addr
<1>2. \A n, k \in Nat : k > 0 => n % k \in 0 .. k - 1
  BY SMT
<1>3. \A n, k \in Nat : k > 0 => n \div k \in Nat
  BY SMT
<1>4. \A n, k \in Nat : k > 0 /\ n < k * k => n \div k < k
  BY SMT
<1>5. p \div BYTE \in Nat /\ p \div BYTE < BYTE
  BY <1>1, <1>3, <1>4
<1> QED BY <1>1, <1>2, <1>5 DEF Byte

\* The pages that can be shown.
LEMMA Screens ==
  /\ \A v : BankScreen(v) \in RamCells /\ CfgScreen(v) \in RamCells
  /\ Ram(2 * W) \in RamCells /\ Bank(5, 0) \in RamCells
<1>1. 2 * W \in High /\ 6 * W \in High /\ 0 \in Low /\ 5 \in 0 .. 7 /\ 7 \in 0 .. 7
  BY Scale DEF High, Low
<1>2. Ram(2 * W) \in RamCells /\ Ram(6 * W) \in RamCells /\ Bank(5, 0) \in RamCells /\ Bank(7, 0) \in RamCells
  BY <1>1, Cells
<1> QED BY <1>2 DEF BankScreen, CfgScreen

LEMMA PeekTyped == ASSUME mem \in [RamCells -> Byte] PROVE \A a : Peek(a) \in Byte
BY Scale DEF Peek, Read

LEMMA ViewTyped ==
  ASSUME port_7ffd \in Nat
  PROVE  \A a \in High : ViewCell(a) \in RamCells
<1> SUFFICES ASSUME NEW a \in High PROVE ViewCell(a) \in RamCells
  OBVIOUS
<1>1. a \in Addr /\ ~(a < 2 * W)
  BY Scale DEF High, Addr
<1>2. CASE ~Wide
  BY <1>2, Cells DEF ViewCell
<1>3. CASE Wide
  <2>1. WriteBanks(a) # NoCell
    <3>1. WriteBanks(a) \in {Bank(5, a - 2 * W), Bank(2, a - 4 * W), Bank(port_7ffd % 8, a - 6 * W)}
      BY <1>1 DEF WriteBanks
    <3> QED BY <3>1 DEF Bank, NoCell
  <2>2. ReadBanks(a) \in RamCells
    BY <1>1, <2>1, MeetBanks
  <2> QED BY <1>3, <2>2 DEF ViewCell
<1> QED BY <1>2, <1>3

-----------------------------------------------------------------------------
\* Files: what is saved is well formed, and what is loaded fits the memory.
LEMMA FlatTyped ==
  ASSUME TypeOK
  PROVE  /\ Flat \in [FlatCells -> Byte] /\ Banks \in [BankCells -> Byte]
         /\ Pushed \in [FlatCells -> Byte]
         /\ snap_pc \in Addr /\ SnaSp \in Addr
<1>1. mem \in [RamCells -> Byte] /\ port_7ffd \in Nat /\ cpu.pc \in Int /\ cpu.sp \in Int /\ cpu.pc \in Addr
  BY Scale DEF TypeOK, CpuType, Addr
<1>2. \A c \in FlatCells : c[3] \in High
  BY DEF FlatCells, Ram
<1>3. Flat \in [FlatCells -> Byte]
  BY <1>1, <1>2, ViewTyped DEF Flat
<1>4. Banks \in [BankCells -> Byte]
  BY <1>1 DEF Banks, RamCells
<1>5. snap_pc \in Addr /\ SnaSp \in Addr
  <2>1. cpu.pc + TOP - 1 \in Int /\ cpu.sp + TOP - 2 \in Int
    BY <1>1, Scale
  <2> QED BY <1>1, <2>1, Wrap DEF snap_pc, SnaSp
<1>6. snap_pc % BYTE \in Byte /\ snap_pc \div BYTE \in Byte
  BY <1>5, TwoBytes
<1>7. Pushed \in [FlatCells -> Byte]
  BY <1>3, <1>6 DEF Pushed
<1> QED BY <1>3, <1>4, <1>5, <1>7

LEMMA SavedTyped ==
  ASSUME TypeOK, Save
  PROVE  IsFile(slot')
<1>1. /\ cpu \in CpuType /\ border \in 0 .. 7 /\ beeper \in 0 .. 1 /\ port_7ffd \in 0 .. 255 /\ Wide \in BOOLEAN
      /\ 0 \in 0 .. 1 /\ 0 \in 0 .. 255 /\ 0 \in Addr
  BY Scale DEF TypeOK, Wide, Addr
<1>2. CASE SaveSna
  <2>1. [cpu EXCEPT !.pc = 0, !.sp = SnaSp, !.ei = FALSE, !.halted = FALSE] \in CpuType
    BY <1>1, FlatTyped DEF CpuType
  <2>2. DOMAIN Pushed = FlatCells /\ \A c \in FlatCells : Pushed[c] \in Byte
    BY FlatTyped
  <2> QED BY <1>1, <1>2, <2>1, <2>2 DEF SaveSna, IsFile, Formats
<1>3. CASE SaveZ80
  <2>1. [cpu EXCEPT !.pc = snap_pc, !.ei = FALSE, !.halted = FALSE] \in CpuType
    BY <1>1, FlatTyped DEF CpuType
  <2>2. /\ DOMAIN Flat = FlatCells /\ \A c \in FlatCells : Flat[c] \in Byte
        /\ DOMAIN Banks = BankCells /\ \A c \in BankCells : Banks[c] \in Byte
    BY FlatTyped
  <2> QED BY <1>1, <1>3, <2>1, <2>2 DEF SaveZ80, IsFile, Formats
<1>4. CASE SaveSzx
  <2>1. /\ DOMAIN Flat = FlatCells /\ \A c \in FlatCells : Flat[c] \in Byte
        /\ DOMAIN Banks = BankCells /\ \A c \in BankCells : Banks[c] \in Byte
    BY FlatTyped
  <2> QED BY <1>1, <1>4, <2>1 DEF SaveSzx, IsFile, Formats
<1> QED BY <1>2, <1>3, <1>4 DEF Save

LEMMA PlacedTyped ==
  ASSUME mem \in [RamCells -> Byte], NEW f, IsFile(f)
  PROVE  Placed(f) \in [RamCells -> Byte]
BY DEF Placed, IsFile

-----------------------------------------------------------------------------
LEMMA InitInv == Init => Inv
<1> SUFFICES ASSUME Init PROVE Inv
  OBVIOUS
<1>1. ResetCpu \in CpuType
  BY Scale DEF ResetCpu, CpuType, Addr
<1>2. mem \in [RamCells -> Byte]
  <2>1. mem = [c \in RamCells |-> IF c[1] = "cpm" THEN HALT ELSE 0]
    BY DEF Init
  <2> QED BY <2>1, Scale
<1>3. ScreenFollowsLatch
  <2>1. ~On(0, 8) /\ ~On(1, 8)
    BY SMT DEF On
  <2> QED BY <2>1 DEF Init, ScreenFollowsLatch, BankScreen, CfgScreen, Wide, Boots
<1>4. screen \in RamCells
  BY <1>3, Screens DEF ScreenFollowsLatch
<1>5. cfg_7e \in 0 .. 255 /\ ram_paged \in 0 .. 3 /\ port_7ffd \in 0 .. 255 /\ border \in 0 .. 7 /\ beeper \in 0 .. 1
  BY DEF Init
<1>6. TypeOK
  BY <1>1, <1>2, <1>4, <1>5 DEF Init, TypeOK
<1>7. SlotOK
  BY InputAssumption DEF Init, SlotOK
<1> QED BY <1>3, <1>6, <1>7 DEF Inv, Init, GuestLocked

\* A step that leaves the latches, the screen, the slot and the guest alone.
LEMMA CpuStep ==
  ASSUME Inv, cpu' \in CpuType, mem' \in [RamCells -> Byte], if1_paged' \in BOOLEAN,
         border' \in 0 .. 7, beeper' \in 0 .. 1,
         UNCHANGED <<model, ram_paged, cfg_7e, cpm_page, port_7ffd, screen, slot, guest>>
  PROVE  Inv'
BY DEF Inv, TypeOK, SlotOK, ScreenFollowsLatch, GuestLocked, Wide, Boots, BankScreen, CfgScreen

LEMMA ExecuteInv == ASSUME Inv, Execute PROVE Inv'
<1>1. cpu \in CpuType /\ mem \in [RamCells -> Byte] /\ if1_paged \in BOOLEAN /\ border \in 0 .. 7 /\ beeper \in 0 .. 1
  BY DEF Inv, TypeOK
<1>2. cpu.pc \in Int
  BY <1>1, Scale DEF CpuType, Addr
<1>3. (cpu.pc + 1) % TOP \in Addr
  BY <1>2, Wrap
<1>4. cpu' \in CpuType
  <2>1. [cpu EXCEPT !.ei = FALSE] \in CpuType
    BY <1>1 DEF CpuType
  <2>2. [cpu EXCEPT !.pc = (cpu.pc + 1) % TOP, !.ei = FALSE, !.halted = TRUE] \in CpuType
    BY <1>1, <1>3 DEF CpuType
  <2> QED BY <2>1, <2>2, InputAssumption DEF Execute
<1>5. if1_paged' \in BOOLEAN
  BY DEF Execute
<1> QED BY <1>1, <1>4, <1>5, CpuStep DEF Execute, ula

LEMMA InterruptInv == ASSUME Inv, Interrupt PROVE Inv'
<1>1. cpu' \in CpuType
  BY InputAssumption DEF Interrupt
<1>2. mem \in [RamCells -> Byte] /\ if1_paged \in BOOLEAN /\ border \in 0 .. 7 /\ beeper \in 0 .. 1
  BY DEF Inv, TypeOK
<1> QED BY <1>1, <1>2, CpuStep DEF Interrupt, paging, ula

LEMMA PokeInv == ASSUME Inv, NEW p \in Pokes, Poke(p[1], p[2]) PROVE Inv'
<1>1. p[1] \in Addr /\ p[2] \in Byte
  BY InputAssumption
<1>2. WriteCell(p[1]) = NoCell \/ WriteCell(p[1]) \in RamCells
  BY <1>1, Meet DEF Inv, WriteReadsBack
<1>3. mem \in [RamCells -> Byte] /\ if1_paged \in BOOLEAN /\ border \in 0 .. 7 /\ beeper \in 0 .. 1 /\ cpu \in CpuType
  BY DEF Inv, TypeOK
<1>4. mem' \in [RamCells -> Byte]
  BY <1>1, <1>2, <1>3 DEF Poke
<1> QED BY <1>3, <1>4, CpuStep DEF Poke, paging, ula

LEMMA UlaTyped == ASSUME NEW v \in 0 .. 255, ToUla(v) PROVE border' \in 0 .. 7 /\ beeper' \in 0 .. 1
BY SMT DEF ToUla

LEMMA OutUlaInv == ASSUME Inv, NEW v \in OutULA, OutUla(v) PROVE Inv'
<1>1. v \in 0 .. 255
  BY InputAssumption
<1>2. border' \in 0 .. 7 /\ beeper' \in 0 .. 1
  BY <1>1, UlaTyped DEF OutUla
<1>3. mem \in [RamCells -> Byte] /\ if1_paged \in BOOLEAN /\ cpu \in CpuType
  BY DEF Inv, TypeOK
<1> QED BY <1>2, <1>3, CpuStep DEF OutUla, paging

\* The lock holds the guest in its view.
LEMMA LockedBits == On(48, 32) /\ ~On(48, 8) /\ 48 % 8 = 0
BY SMT DEF On

LEMMA Out7ffdInv == ASSUME Inv, NEW v \in Out7FFD, Out7ffd(v) PROVE Inv'
<1>1. v \in 0 .. 255
  BY InputAssumption
<1>2. CASE On(port_7ffd, 32)
  BY <1>2, CpuStep DEF Out7ffd, ula, Inv, TypeOK
<1>3. CASE ~On(port_7ffd, 32)
  <2>1. port_7ffd' = v /\ screen' = BankScreen(v) /\ model' = model /\ Wide /\ slot' = slot /\ guest' = guest
    BY <1>3 DEF Out7ffd
  <2>2. ~guest
    BY <1>3, LockedBits DEF Inv, GuestLocked
  <2>3. TypeOK'
    BY <1>1, <2>1, Screens DEF Inv, TypeOK, Out7ffd, ula
  <2>4. ScreenFollowsLatch'
    BY <2>1 DEF ScreenFollowsLatch, Wide, BankScreen
  <2> QED BY <2>1, <2>2, <2>3, <2>4 DEF Inv, SlotOK, GuestLocked
<1> QED BY <1>2, <1>3

LEMMA OutConfigInv == ASSUME Inv, NEW v \in Out7E, OutConfig(v) PROVE Inv'
<1>1. v \in 0 .. 255
  BY InputAssumption
<1>2. border' \in 0 .. 7 /\ beeper' \in 0 .. 1
  BY <1>1, UlaTyped DEF OutConfig
<1>3. CASE On(cfg_7e, 4)
  BY <1>2, <1>3, CpuStep DEF OutConfig, Inv, TypeOK
<1>4. CASE ~On(cfg_7e, 4)
  <2>1. cfg_7e' = v /\ screen' = CfgScreen(v) /\ model' = model /\ Boots /\ ~Wide /\ UNCHANGED <<slot, guest, port_7ffd>>
    BY <1>4 DEF OutConfig, Boots, Wide
  <2>2. TypeOK'
    BY <1>1, <1>2, <2>1, Screens DEF Inv, TypeOK, OutConfig
  <2>3. ScreenFollowsLatch'
    BY <2>1 DEF ScreenFollowsLatch, Wide, Boots, CfgScreen
  <2> QED BY <2>1, <2>2, <2>3 DEF Inv, SlotOK, GuestLocked
<1> QED BY <1>3, <1>4

LEMMA OutCpmInv == ASSUME Inv, NEW on \in BOOLEAN, OutCpm(on) PROVE Inv'
BY DEF Inv, OutCpm, TypeOK, SlotOK, ScreenFollowsLatch, GuestLocked, Wide, Boots, BankScreen, CfgScreen, ula

LEMMA OutPagingInv == ASSUME Inv, NEW v \in Out7E, OutPaging(v) PROVE Inv'
<1>1. v \in 0 .. 255
  BY InputAssumption
<1>2. border' \in 0 .. 7 /\ beeper' \in 0 .. 1
  BY <1>1, UlaTyped DEF OutPaging
<1>3. ram_paged' \in 0 .. 3
  <2>1. v % 4 \in 0 .. 3 /\ v % 2 \in 0 .. 3
    BY <1>1, SMT
  <2>2. ram_paged' = v % 4 \/ ram_paged' = v % 2
    BY DEF OutPaging, RamBits
  <2> QED BY <2>1, <2>2
<1>4. /\ UNCHANGED <<model, cpu, mem, if1_paged, cfg_7e, cpm_page, port_7ffd, screen, slot, guest>>
      /\ ~Boots /\ ~Wide
  BY DEF OutPaging
<1>5. TypeOK'
  BY <1>2, <1>3, <1>4 DEF Inv, TypeOK
<1>6. ScreenFollowsLatch' /\ SlotOK' /\ GuestLocked'
  BY <1>4 DEF Inv, SlotOK, ScreenFollowsLatch, GuestLocked, Wide, Boots, BankScreen, CfgScreen
<1> QED BY <1>5, <1>6 DEF Inv

LEMMA ResetInv == ASSUME Inv, Reset PROVE Inv'
<1>1. ResetCpu \in CpuType
  BY Scale DEF ResetCpu, CpuType, Addr
<1>2. ScreenFollowsLatch'
  <2>1. ~On(0, 8)
    BY SMT DEF On
  <2>2. BankScreen(0) = Bank(5, 0) /\ CfgScreen(0) = Ram(2 * W)
    BY <2>1 DEF BankScreen, CfgScreen
  <2>3. /\ port_7ffd' = 0 /\ cfg_7e' = 0 /\ model' = model
        /\ screen' = IF Wide THEN Bank(5, 0) ELSE Ram(2 * W)
    BY DEF Reset, LatchesReset
  <2> QED BY <2>2, <2>3 DEF ScreenFollowsLatch, Wide, Boots
<1>3. screen' \in RamCells
  BY Screens DEF Reset
<1>4. /\ ram_paged' = 0 /\ if1_paged' = FALSE /\ cfg_7e' = 0 /\ cpm_page' = FALSE /\ port_7ffd' = 0
      /\ model' = model /\ cpu' = ResetCpu /\ mem' = mem /\ border' = 7 /\ guest' = FALSE /\ beeper' = beeper /\ slot' = slot
  BY DEF Reset, LatchesReset
<1>5. /\ 0 \in 0 .. 3 /\ 0 \in 0 .. 255 /\ 7 \in 0 .. 7
      /\ model \in Models /\ mem \in [RamCells -> Byte] /\ beeper \in 0 .. 1
  BY DEF Inv, TypeOK
<1>6. TypeOK'
  BY <1>1, <1>3, <1>4, <1>5 DEF TypeOK
<1> QED BY <1>2, <1>4, <1>6 DEF Inv, SlotOK, GuestLocked

LEMMA SaveInv == ASSUME Inv, Save PROVE Inv'
<1>1. IsFile(slot')
  BY SavedTyped DEF Inv
<1> QED BY <1>1 DEF Inv, Save, paging, ula, TypeOK, SlotOK, ScreenFollowsLatch, GuestLocked, Wide, Boots, BankScreen, CfgScreen

LEMMA RefuseInv == ASSUME Inv, NEW f, IsFile(f), Refuse(f), UNCHANGED <<model, slot>> PROVE Inv'
<1>1. cpu \in CpuType /\ mem \in [RamCells -> Byte] /\ if1_paged \in BOOLEAN /\ border \in 0 .. 7 /\ beeper \in 0 .. 1
  BY DEF Inv, TypeOK
<1>2. f.cpu \in CpuType /\ f.border \in 0 .. 7 /\ 0 \in Addr
  BY Scale DEF IsFile, Addr
<1>3. [f.cpu EXCEPT !.pc = 0, !.ei = FALSE, !.halted = FALSE] \in CpuType
  BY <1>2 DEF CpuType
<1>4. cpu' \in CpuType /\ border' \in 0 .. 7
  BY <1>1, <1>2, <1>3 DEF Refuse
<1> QED BY <1>1, <1>4, CpuStep DEF Refuse, paging

\* The PC popped by a .sna load is an address whatever it is read from.
LEMMA PoppedTyped ==
  ASSUME mem' \in [RamCells -> Byte], NEW f, IsFile(f)
  PROVE  Popped(f) \in CpuType
<1>1. \A a : Peek(a)' \in Byte
  <2>1. \A c : Read(c)' \in Byte
    BY Scale DEF Read
  <2> QED BY <2>1 DEF Peek
<1>2. Peek(f.cpu.sp)' + BYTE * Peek((f.cpu.sp + 1) % TOP)' \in Addr
  BY <1>1, Word
<1>3. f.cpu \in CpuType /\ f.cpu.sp \in Int
  BY Scale DEF IsFile, CpuType, Addr
<1>4. (f.cpu.sp + 2) % TOP \in Addr
  BY <1>3, Wrap
<1> QED BY <1>2, <1>3, <1>4 DEF Popped, CpuType

LEMMA AcceptInv == ASSUME Inv, NEW f, IsFile(f), Accept(f), UNCHANGED <<model, slot>> PROVE Inv'
<1>1. mem' \in [RamCells -> Byte]
  BY PlacedTyped DEF Accept, Inv, TypeOK
<1>2. f.cpu \in CpuType /\ f.border \in 0 .. 7 /\ f.beeper \in 0 .. 1 /\ f.latch \in 0 .. 255 /\ f.fmt \in Formats
  BY DEF IsFile
<1>3. cpu' \in CpuType
  <2>1. [f.cpu EXCEPT !.ei = FALSE, !.halted = FALSE] \in CpuType
    BY <1>2 DEF CpuType
  <2>2. CASE f.fmt = "sna"
    BY <1>1, <2>2, PoppedTyped DEF Accept
  <2>3. CASE f.fmt = "z80"
    BY <2>1, <2>3 DEF Accept
  <2>4. CASE f.fmt = "szx"
    BY <1>2, <2>4 DEF Accept
  <2> QED BY <1>2, <2>2, <2>3, <2>4 DEF Formats
<1>4. /\ model' = model /\ slot' = slot /\ ram_paged' = ram_paged /\ if1_paged' = if1_paged
      /\ cfg_7e' = cfg_7e /\ cpm_page' = cpm_page /\ border' = f.border
      /\ beeper' = (IF f.fmt = "szx" THEN f.beeper ELSE beeper) /\ guest' = (Wide /\ ~f.wide)
  BY DEF Accept
<1>5. /\ ~Wide => port_7ffd' = port_7ffd /\ screen' = screen
      /\ Wide /\ f.wide => port_7ffd' = f.latch /\ screen' = BankScreen(f.latch)
      /\ Wide /\ ~f.wide => port_7ffd' = 48 /\ screen' = Bank(5, 0)
  BY DEF Accept, Latched, View48, View128
<1>6. BankScreen(48) = Bank(5, 0)
  BY LockedBits DEF BankScreen
<1>7. port_7ffd' \in 0 .. 255 /\ screen' \in RamCells
  BY <1>2, <1>5, <1>6, Screens DEF Inv, TypeOK
<1>8. TypeOK'
  BY <1>1, <1>2, <1>3, <1>4, <1>7 DEF Inv, TypeOK
<1>9. ScreenFollowsLatch'
  BY <1>4, <1>5, <1>6 DEF Inv, ScreenFollowsLatch, Wide, Boots, BankScreen, CfgScreen
<1>10. GuestLocked'
  BY <1>4, <1>5 DEF GuestLocked, Wide
<1> QED BY <1>4, <1>8, <1>9, <1>10 DEF Inv, SlotOK

LEMMA LoadInv == ASSUME Inv, Load PROVE Inv'
<1>1. IsFile(slot) /\ UNCHANGED <<model, slot>>
  BY DEF Load, Inv, SlotOK
<1> QED BY <1>1, RefuseInv, AcceptInv DEF Load

LEMMA LoadScrInv == ASSUME Inv, NEW v \in Pictures, LoadScr(v) PROVE Inv'
<1>1. cpu \in CpuType /\ mem \in [RamCells -> Byte] /\ screen \in RamCells /\ if1_paged \in BOOLEAN /\ border \in 0 .. 7 /\ beeper \in 0 .. 1
  BY DEF Inv, TypeOK
<1>2. v \in Byte
  BY InputAssumption
<1>3. mem' \in [RamCells -> Byte]
  BY <1>1, <1>2 DEF LoadScr
<1>4. cpu' \in CpuType
  BY <1>1 DEF LoadScr, CpuType
<1> QED BY <1>1, <1>3, <1>4, CpuStep DEF LoadScr, paging, ula

LEMMA StepInv == Inv /\ [Next]_vars => Inv'
<1> SUFFICES ASSUME Inv, [Next]_vars PROVE Inv'
  OBVIOUS
<1>1. CASE Program
  BY <1>1, ExecuteInv, InterruptInv, PokeInv, OutUlaInv, Out7ffdInv, OutConfigInv, OutPagingInv, OutCpmInv DEF Program
<1>2. CASE User
  BY <1>2, ResetInv, SaveInv, LoadInv, LoadScrInv DEF User
<1>3. CASE UNCHANGED vars
  BY <1>3 DEF vars, paging, ula, Inv, TypeOK, SlotOK, ScreenFollowsLatch, GuestLocked, Wide, Boots, BankScreen, CfgScreen
<1> QED BY <1>1, <1>2, <1>3 DEF Next

\* The inductive invariant holds in every behaviour.
THEOREM InvHolds == Spec => []Inv
<1> QED BY InitInv, StepInv, PTL DEF Spec

\* Latches, registers and memory keep their types, whatever is loaded.
THEOREM TypeCorrect == Spec => []TypeOK
<1>1. Inv => TypeOK
  BY DEF Inv
<1> QED BY <1>1, InvHolds, PTL

\* The displayed page is the one the latch selects, after every output, reset and load.
THEOREM ScreenCorrect == Spec => []ScreenFollowsLatch
<1>1. Inv => ScreenFollowsLatch
  BY DEF Inv
<1> QED BY <1>1, InvHolds, PTL

\* In every map of every machine a byte is written where it is read, or lost in a ROM.
THEOREM MapsAgree == Spec => []WriteReadsBack
<1>1. Inv => WriteReadsBack
  BY Meet DEF Inv
<1> QED BY <1>1, InvHolds, PTL

\* The lock a 48K file sets keeps its program in the 48K view.
THEOREM GuestStays == Spec => []GuestView
<1>1. ASSUME Inv, guest PROVE Wide /\ screen = Bank(5, 0) /\ \A a \in High : ReadCell(a) = Home(a)
  <2>1. Wide /\ port_7ffd = 48
    BY <1>1 DEF Inv, GuestLocked
  <2>2. screen = Bank(5, 0)
    BY <1>1, <2>1, LockedBits DEF Inv, ScreenFollowsLatch, BankScreen
  <2>3. ASSUME NEW a \in High PROVE ReadBanks(a) = Home(a)
    <3>1. a \in Int /\ ~(a < 2 * W) /\ 2 * W <= a
      BY Scale DEF High
    <3>2. CASE a < 4 * W
      BY <3>1, <3>2, Scale DEF ReadBanks, Home
    <3>3. CASE ~(a < 4 * W) /\ a < 6 * W
      <4>1. 4 * W <= a
        BY <3>1, <3>3, Scale
      <4> QED BY <3>1, <3>3, <4>1 DEF ReadBanks, Home
    <3>4. CASE ~(a < 4 * W) /\ ~(a < 6 * W)
      <4>1. ReadBanks(a) = Bank(port_7ffd % 8, a - 6 * W)
        BY <3>1, <3>4 DEF ReadBanks
      <4>2. port_7ffd % 8 = 0
        BY <2>1, LockedBits
      <4> QED BY <3>4, <4>1, <4>2 DEF Home
    <3> QED BY <3>2, <3>3, <3>4
  <2> QED BY <2>1, <2>2, <2>3 DEF ReadCell, CellAt
<1>2. Inv => GuestView
  BY <1>1 DEF GuestView
<1> QED BY <1>2, InvHolds, PTL

\* A reset leaves the ROM over plain memory on every machine, whatever was paged and locked.
THEOREM ResetStartsOver == Spec => ResetRestarts
<1>1. ASSUME Reset PROVE Restarted' /\ ~cpu'.halted /\ cpu'.pc = 0
  <2>1. /\ ram_paged' = 0 /\ if1_paged' = FALSE /\ cfg_7e' = 0 /\ cpm_page' = FALSE /\ port_7ffd' = 0
        /\ model' = model /\ cpu' = ResetCpu
    BY <1>1 DEF Reset, LatchesReset
  <2>2. ~On(0, 1) /\ ~On(0, 2) /\ ~On(0, 16) /\ 0 % 8 = 0
    BY SMT DEF On
  <2>3. ASSUME NEW a \in Addr PROVE (ReadCell(a) = PlainCell(a))'
    <3>1. a \in Int /\ W \in Nat /\ W > 0
      BY Scale DEF Addr
    <3>2. CASE Wide'
      <4>1. ReadBanks(a)' = CASE a < 2 * W -> Rom(a)
                              [] 2 * W <= a /\ a < 4 * W -> Bank(5, a - 2 * W)
                              [] 4 * W <= a /\ a < 6 * W -> Bank(2, a - 4 * W)
                              [] OTHER -> Bank(0, a - 6 * W)
        <5>1. port_7ffd' % 8 = 0 /\ ~On(port_7ffd', 16)
          BY <2>1, <2>2
        <5> QED BY <5>1 DEF ReadBanks
      <4>2. CASE a < 2 * W
        <5>1. ~(2 * W <= a) /\ ~(4 * W <= a)
          BY <3>1, <4>2
        <5> QED BY <3>2, <4>1, <4>2, <5>1 DEF ReadCell, CellAt, PlainCell
      <4>3. CASE 2 * W <= a /\ a < 4 * W
        <5>1. ~(a < 2 * W) /\ ~(4 * W <= a)
          BY <3>1, <4>3
        <5> QED BY <3>2, <4>1, <4>3, <5>1 DEF ReadCell, CellAt, PlainCell, Home
      <4>4. CASE 4 * W <= a /\ a < 6 * W
        <5>1. ~(a < 2 * W) /\ ~(a < 4 * W)
          BY <3>1, <4>4
        <5> QED BY <3>2, <4>1, <4>4, <5>1 DEF ReadCell, CellAt, PlainCell, Home
      <4>5. CASE ~(a < 6 * W)
        <5>1. ~(a < 2 * W) /\ ~(a < 4 * W)
          BY <3>1, <4>5
        <5> QED BY <3>2, <4>1, <4>5, <5>1 DEF ReadCell, CellAt, PlainCell, Home
      <4>6. a < 2 * W \/ (2 * W <= a /\ a < 4 * W) \/ (4 * W <= a /\ a < 6 * W) \/ ~(a < 6 * W)
        BY <3>1
      <4> QED BY <4>2, <4>3, <4>4, <4>5, <4>6
    <3>3. CASE ~Wide' /\ Boots'
      <4>1. ReadConfig(a, FALSE)' = IF a < 2 * W THEN Rom(a) ELSE Ram(a)
        <5>1. CfgRom(a)' = Rom(a)
          BY <2>1, <2>2 DEF CfgRom
        <5>2. CASE a < 2 * W
          BY <2>1, <2>2, <5>1, <5>2 DEF ReadConfig
        <5>3. CASE ~(a < 2 * W)
          BY <2>1, <2>2, <5>3 DEF ReadConfig
        <5> QED BY <5>2, <5>3
      <4> QED BY <2>1, <3>3, <4>1 DEF ReadCell, CellAt, PlainCell
    <3>4. CASE ~Wide' /\ ~Boots'
      <4>1. ReadPlain(a, FALSE)' = IF a < 2 * W THEN Rom(a) ELSE Ram(a)
        <5>1. CASE a < 2 * W
          <6>1. ~(a >= 2 * W)
            BY <3>1, <5>1
          <6> QED BY <2>1, <2>2, <5>1, <6>1 DEF ReadPlain
        <5>2. CASE ~(a < 2 * W)
          <6>1. a >= 2 * W
            BY <3>1, <5>2
          <6> QED BY <5>2, <6>1 DEF ReadPlain
        <5> QED BY <5>1, <5>2
      <4> QED BY <2>1, <3>4, <4>1 DEF ReadCell, CellAt, PlainCell
    <3> QED BY <3>2, <3>3, <3>4
  <2> QED BY <2>1, <2>3 DEF Restarted, ResetCpu
<1>2. [Next]_vars => [Reset => Restarted' /\ ~cpu'.halted /\ cpu'.pc = 0]_vars
  BY <1>1
<1> QED BY <1>2, PTL DEF Spec, ResetRestarts

-----------------------------------------------------------------------------
(***************************************************************************)
(* A machine's own files.  A file is loaded long after it was saved, so    *)
(* the invariant says what a file holds of the machine it was saved from:  *)
(* Seen is a witness, and OwnFile what each format keeps of it.            *)
(***************************************************************************)

\* The cell behind a RAM address of the hc128 under a latch value.
ViewBank(v, a) ==
  IF a < 4 * W THEN Bank(5, a - 2 * W) ELSE IF a < 6 * W THEN Bank(2, a - 4 * W) ELSE Bank(v % 8, a - 6 * W)

\* The PC a format without a halted flag stores of a CPU.
Stored(c) == IF c.halted THEN (c.pc + TOP - 1) % TOP ELSE c.pc

OwnRegisters(f, s) ==
  /\ f.cpu.iff = s.cpu.iff /\ f.border = s.border
  /\ f.fmt = "sna" => (f.cpu.sp + 2) % TOP = s.cpu.sp
  /\ f.fmt = "z80" => f.cpu.sp = s.cpu.sp /\ f.cpu.pc = Stored(s.cpu)
  /\ f.fmt = "szx" => f.cpu = s.cpu /\ f.beeper = s.beeper

\* The stack of a .sna lies in RAM and holds the PC.
OwnStack(f, s) ==
  f.fmt = "sna" => /\ f.cpu.sp \in High /\ f.cpu.sp + 1 \in High
                   /\ f.ram[Ram(f.cpu.sp)] + BYTE * f.ram[Ram(f.cpu.sp + 1)] = Stored(s.cpu)

OwnMemory(f, s) ==
  /\ f.wide = (Wide /\ f.fmt # "sna")
  /\ f.wide => /\ f.ram \in [BankCells -> Byte] /\ f.latch \in Nat /\ s.screen = BankScreen(f.latch)
               /\ \A a \in High : f.ram[ViewBank(f.latch, a)] = s.view[a]
  /\ ~f.wide => /\ f.ram \in [FlatCells -> Byte]
                /\ \A a \in High \ Stacked(f) : f.ram[Ram(a)] = s.view[a]

OwnFile(f) ==
  /\ f.seen.cpu \in CpuType
  /\ OwnRegisters(f, f.seen) /\ OwnStack(f, f.seen) /\ OwnMemory(f, f.seen)

OwnSlot == slot # NoFile /\ slot.own => OwnFile(slot)

LEMMA BanksView == ASSUME NEW a \in High PROVE ReadBanks(a) = ViewBank(port_7ffd, a)
<1>1. a \in Int /\ ~(a < 2 * W) /\ 2 * W <= a /\ W \in Nat
  BY Scale DEF High
<1>2. CASE a < 4 * W
  BY <1>1, <1>2 DEF ReadBanks, ViewBank
<1>3. CASE ~(a < 4 * W)
  <2>1. 4 * W <= a
    BY <1>1, <1>3
  <2> QED BY <1>1, <1>3, <2>1 DEF ReadBanks, ViewBank
<1> QED BY <1>2, <1>3

\* A word split into two bytes is put together again.
LEMMA Joined == \A p \in Addr : (p % BYTE) + BYTE * (p \div BYTE) = p
<1> SUFFICES ASSUME NEW p \in Addr PROVE (p % BYTE) + BYTE * (p \div BYTE) = p
  OBVIOUS
<1>1. BYTE \in Nat /\ BYTE > 0 /\ p \in Int
  BY Scale DEF Addr
<1>2. \A n \in Int, k \in Nat : k > 0 => (n % k) + k * (n \div k) = n
  BY SMT
<1> QED BY <1>1, <1>2

\* Stepping back and forth around the end of memory.
LEMMA Around ==
  /\ \A x \in Addr : (((x + TOP - 1) % TOP) + 1) % TOP = x
  /\ \A x \in Addr : (((x + TOP - 2) % TOP) + 2) % TOP = x
  /\ \A x \in High : x + 1 \in Addr => (x + 1) % TOP = x + 1
<1>1. TOP \in Nat /\ TOP >= 8
  BY Scale
<1>2. \A x, n \in Nat : n >= 8 /\ x < n => (((x + n - 1) % n) + 1) % n = x
  <2> SUFFICES ASSUME NEW x \in Nat, NEW n \in Nat, n >= 8, x < n PROVE (((x + n - 1) % n) + 1) % n = x
    OBVIOUS
  <2>1. CASE x = 0
    BY <2>1, SMT
  <2>2. CASE x > 0
    <3>1. x + n - 1 = (x - 1) + n /\ x - 1 \in Nat /\ x - 1 < n
      BY <2>2
    <3>2. (x + n - 1) % n = x - 1
      BY <3>1, SMT
    <3> QED BY <3>2, SMT
  <2> QED BY <2>1, <2>2
<1>3. \A x, n \in Nat : n >= 8 /\ x < n => (((x + n - 2) % n) + 2) % n = x
  <2> SUFFICES ASSUME NEW x \in Nat, NEW n \in Nat, n >= 8, x < n PROVE (((x + n - 2) % n) + 2) % n = x
    OBVIOUS
  <2>1. CASE x < 2
    <3>1. (x + n - 2) % n = x + n - 2
      BY <2>1, SMT
    <3>2. (x + n) % n = x
      BY SMT
    <3> QED BY <3>1, <3>2
  <2>2. CASE x >= 2
    <3>1. (x + n - 2) % n = x - 2
      BY <2>2, SMT
    <3> QED BY <3>1, SMT
  <2> QED BY <2>1, <2>2
<1>4. \A x \in Addr : x \in Nat /\ x < TOP
  BY <1>1 DEF Addr
<1>5. \A x, n \in Nat : x < n => x % n = x
  BY SMT
<1> QED BY <1>1, <1>2, <1>3, <1>4, <1>5

\* The view of the machine, and what Flat and Banks hold of it.
LEMMA SeenView ==
  ASSUME TypeOK
  PROVE  /\ \A a \in High : Flat[Ram(a)] = Seen.view[a]
         /\ Wide => \A a \in High : Banks[ViewBank(port_7ffd, a)] = Seen.view[a]
<1>1. Seen.view = [a \in High |-> mem[ViewCell(a)]]
  BY DEF Seen
<1>2. ASSUME NEW a \in High PROVE Flat[Ram(a)] = Seen.view[a]
  <2>1. Ram(a) \in FlatCells /\ Ram(a)[3] = a
    BY Cells DEF Ram
  <2>2. Flat[Ram(a)] = mem[ViewCell(a)]
    BY <2>1 DEF Flat
  <2> QED BY <1>1, <2>2
<1>3. ASSUME Wide, NEW a \in High PROVE Banks[ViewBank(port_7ffd, a)] = Seen.view[a]
  <2>1. ViewCell(a) = ViewBank(port_7ffd, a)
    BY <1>3, BanksView DEF ViewCell
  <2>2. ViewBank(port_7ffd, a) \in BankCells
    <3>1. a \in Int /\ W \in Nat /\ 2 * W <= a /\ a < 8 * W
      BY Scale DEF High
    <3>2. port_7ffd % 8 \in 0 .. 7 /\ 5 \in 0 .. 7 /\ 2 \in 0 .. 7
      BY SMT DEF TypeOK
    <3>3. /\ a < 4 * W => a - 2 * W \in Low
          /\ ~(a < 4 * W) /\ a < 6 * W => a - 4 * W \in Low
          /\ ~(a < 6 * W) => a - 6 * W \in Low
      BY <3>1 DEF Low
    <3> QED BY <3>2, <3>3, Cells DEF ViewBank
  <2> QED BY <1>1, <2>1, <2>2 DEF Banks
<1> QED BY <1>2, <1>3

\* What Save writes is what OwnFile says.
LEMMA SavedOwn ==
  ASSUME Inv, Save
  PROVE  OwnFile(slot)'
<1> DEFINE f == slot'
           s == Seen
<1>1. /\ cpu \in CpuType /\ port_7ffd \in Nat /\ Wide \in BOOLEAN /\ model' = model
      /\ TypeOK /\ ScreenFollowsLatch
  BY DEF Inv, TypeOK, Wide, Save
<1>2. f.seen = s /\ f.border = border /\ s.cpu = cpu /\ s.border = border /\ s.beeper = beeper /\ s.screen = screen
  BY DEF Save, SaveSna, SaveZ80, SaveSzx, Seen
<1>3. Wide' = Wide /\ Stored(cpu) = snap_pc /\ snap_pc \in Addr /\ SnaSp \in Addr
  BY <1>1, FlatTyped DEF Wide, Stored, snap_pc
<1>4. Flat \in [FlatCells -> Byte] /\ Banks \in [BankCells -> Byte] /\ Pushed \in [FlatCells -> Byte]
  BY <1>1, FlatTyped
<1>5. Wide => screen = BankScreen(port_7ffd)
  BY <1>1 DEF ScreenFollowsLatch
<1>6. SUFFICES OwnRegisters(f, s) /\ OwnStack(f, s) /\ OwnMemory(f, s)
  BY <1>1, <1>2, <1>3 DEF OwnFile, OwnRegisters, OwnStack, OwnMemory
<1>7. CASE SaveSna
  <2>1. /\ f.fmt = "sna" /\ f.wide = FALSE /\ f.ram = Pushed
        /\ f.cpu = [cpu EXCEPT !.pc = 0, !.sp = SnaSp, !.ei = FALSE, !.halted = FALSE]
        /\ SnaSp >= 2 * W /\ SnaSp # TOP - 1
    BY <1>7 DEF SaveSna
  <2>2. f.cpu.sp = SnaSp /\ f.cpu.iff = cpu.iff
    BY <1>1, <2>1 DEF CpuType
  <2>3. SnaSp \in High /\ SnaSp + 1 \in High
    BY <1>3, <2>1, Scale DEF Addr, High
  <2>4. Ram(SnaSp) \in FlatCells /\ Ram(SnaSp + 1) \in FlatCells /\ Ram(SnaSp) # Ram(SnaSp + 1)
    <3>1. SnaSp # SnaSp + 1
      BY <1>3, Scale DEF Addr
    <3> QED BY <2>3, <3>1, Cells DEF Ram
  <2>5. Pushed[Ram(SnaSp)] = snap_pc % BYTE /\ Pushed[Ram(SnaSp + 1)] = snap_pc \div BYTE
    BY <1>4, <2>4 DEF Pushed, Flat
  <2>6. OwnStack(f, s)
    BY <1>2, <1>3, <2>1, <2>2, <2>3, <2>5, Joined DEF OwnStack
  <2>7. (SnaSp + 2) % TOP = cpu.sp
    BY <1>1, Around DEF SnaSp, CpuType
  <2>8. OwnRegisters(f, s)
    BY <1>2, <2>1, <2>2, <2>7 DEF OwnRegisters
  <2>9. ASSUME NEW a \in High \ Stacked(f) PROVE f.ram[Ram(a)] = s.view[a]
    <3>1. a # SnaSp /\ a # SnaSp + 1
      BY <2>1, <2>2 DEF Stacked
    <3>2. Ram(a) \in FlatCells /\ Ram(a) # Ram(SnaSp) /\ Ram(a) # Ram(SnaSp + 1)
      BY <3>1, Cells DEF Ram
    <3>3. Pushed[Ram(a)] = Flat[Ram(a)]
      BY <3>2 DEF Pushed, Flat
    <3> QED BY <1>1, <2>1, <3>3, SeenView
  <2> QED BY <1>3, <1>4, <2>1, <2>6, <2>8, <2>9 DEF OwnMemory
<1>8. ASSUME f.fmt # "sna", f.wide = Wide, f.ram = IF Wide THEN Banks ELSE Flat, Wide => f.latch = port_7ffd
      PROVE  OwnMemory(f, s)
  <2>1. CASE Wide
    BY <1>1, <1>2, <1>3, <1>4, <1>5, <1>8, <2>1, SeenView DEF OwnMemory
  <2>2. CASE ~Wide
    BY <1>1, <1>3, <1>4, <1>8, <2>2, SeenView DEF OwnMemory
  <2> QED BY <2>1, <2>2
<1>9. CASE SaveZ80
  <2>1. /\ f.fmt = "z80" /\ f.wide = Wide /\ f.ram = IF Wide THEN Banks ELSE Flat
        /\ f.cpu = [cpu EXCEPT !.pc = snap_pc, !.ei = FALSE, !.halted = FALSE]
        /\ Wide => f.latch = port_7ffd
    BY <1>9 DEF SaveZ80
  <2>2. f.cpu.sp = cpu.sp /\ f.cpu.iff = cpu.iff /\ f.cpu.pc = snap_pc
    BY <1>1, <2>1 DEF CpuType
  <2>3. OwnRegisters(f, s) /\ OwnStack(f, s)
    BY <1>2, <1>3, <2>1, <2>2 DEF OwnRegisters, OwnStack
  <2> QED BY <1>8, <2>1, <2>3
<1>10. CASE SaveSzx
  <2>1. /\ f.fmt = "szx" /\ f.wide = Wide /\ f.ram = IF Wide THEN Banks ELSE Flat
        /\ f.cpu = cpu /\ f.beeper = beeper
        /\ Wide => f.latch = port_7ffd
    BY <1>10 DEF SaveSzx
  <2>2. OwnRegisters(f, s) /\ OwnStack(f, s)
    BY <1>2, <1>3, <2>1 DEF OwnRegisters, OwnStack
  <2> QED BY <1>8, <2>1, <2>2
<1> QED BY <1>7, <1>9, <1>10 DEF Save

\* Only Save writes the slot, and no step changes the machine's model.
LEMMA SlotStep == ASSUME [Next]_vars PROVE model' = model /\ (Save \/ slot' = slot)
<1>1. CASE Program
  BY <1>1 DEF Program, Execute, Interrupt, Poke, OutUla, Out7ffd, OutConfig, OutPaging, OutCpm
<1>2. CASE Reset \/ Load \/ \E v \in Pictures : LoadScr(v)
  BY <1>2 DEF Reset, Load, LoadScr
<1>3. CASE Save
  BY <1>3 DEF Save
<1>4. CASE UNCHANGED vars
  BY <1>4 DEF vars
<1> QED BY <1>1, <1>2, <1>3, <1>4 DEF Next, User

LEMMA InitOwn == Init => OwnSlot
BY InputAssumption DEF Init, OwnSlot

LEMMA StepOwn == ASSUME Inv, OwnSlot, [Next]_vars PROVE OwnSlot'
<1>1. CASE Save
  BY <1>1, SavedOwn DEF OwnSlot
<1>2. CASE model' = model /\ slot' = slot
  <2>1. Wide' = Wide
    BY <1>2 DEF Wide
  <2> QED BY <1>2, <2>1 DEF OwnSlot, OwnFile, OwnRegisters, OwnStack, OwnMemory
<1> QED BY <1>1, <1>2, SlotStep

\* What a file holds, the machine has again after Load.
LEMMA LoadedMemory ==
  ASSUME Inv, Load, slot.own, OwnFile(slot)
  PROVE  /\ Accept(slot)
         /\ \A a \in High \ Stacked(slot) : (mem[ViewCell(a)])' = slot.seen.view[a]
         /\ \A a \in High : ~slot.wide => (mem[ViewCell(a)])' = slot.ram[Ram(a)]
         /\ Wide /\ slot.wide => Banks' = slot.ram /\ port_7ffd' = slot.latch /\ screen' = slot.seen.screen
<1> DEFINE f == slot
           s == slot.seen
<1>1. IsFile(f) /\ model' = model /\ Wide' = Wide /\ Wide \in BOOLEAN
  BY DEF Load, Inv, SlotOK, Wide
<1>2. f.wide = (Wide /\ f.fmt # "sna") /\ f.wide \in BOOLEAN
  BY DEF OwnFile, OwnMemory, Wide
<1>3. Accept(f)
  BY <1>2 DEF Load, Refuse, Refused
<1>4. mem' = Placed(f) /\ Latched(f)
  BY <1>3 DEF Accept
<1>5. \A c \in RamCells : Source(c, f.wide) \in DOMAIN f.ram => mem'[c] = f.ram[Source(c, f.wide)]
  BY <1>4 DEF Placed
<1>6. \A a \in High : a \in Addr /\ a \in Int /\ 2 * W <= a /\ a < 8 * W /\ W \in Nat
  BY Scale DEF High, Addr
<1>7. CASE f.wide
  <2>1. /\ Wide /\ f.ram \in [BankCells -> Byte] /\ f.latch \in Nat /\ s.screen = BankScreen(f.latch)
        /\ \A a \in High : f.ram[ViewBank(f.latch, a)] = s.view[a]
    BY <1>2, <1>7 DEF OwnFile, OwnMemory
  <2>2. port_7ffd' = f.latch /\ screen' = s.screen
    BY <1>4, <1>7, <2>1 DEF Latched, View128
  <2>3. \A c \in BankCells : mem'[c] = f.ram[c]
    BY <1>5, <1>7, <2>1 DEF Source, RamCells
  <2>4. Banks' = f.ram
    <3>1. Banks' = [c \in BankCells |-> mem'[c]]
      BY DEF Banks
    <3>2. f.ram = [c \in BankCells |-> f.ram[c]]
      BY <2>1
    <3> QED BY <2>3, <3>1, <3>2
  <2>5. ASSUME NEW a \in High PROVE (mem[ViewCell(a)])' = s.view[a]
    <3>1. ViewCell(a)' = ViewBank(f.latch, a)
      <4>1. (ReadBanks(a) = ViewBank(port_7ffd, a))'
        BY BanksView, PTL
      <4> QED BY <1>1, <2>1, <2>2, <4>1 DEF ViewCell
    <3>2. ViewBank(f.latch, a) \in BankCells
      <4>1. f.latch % 8 \in 0 .. 7 /\ 5 \in 0 .. 7 /\ 2 \in 0 .. 7
        BY <2>1, SMT
      <4>2. /\ a < 4 * W => a - 2 * W \in Low
            /\ ~(a < 4 * W) /\ a < 6 * W => a - 4 * W \in Low
            /\ ~(a < 6 * W) => a - 6 * W \in Low
        BY <1>6 DEF Low
      <4> QED BY <4>1, <4>2, Cells DEF ViewBank
    <3> QED BY <2>1, <2>3, <3>1, <3>2
  <2> QED BY <1>3, <1>7, <2>2, <2>4, <2>5
<1>8. CASE ~f.wide
  <2>1. /\ f.ram \in [FlatCells -> Byte]
        /\ \A a \in High \ Stacked(f) : f.ram[Ram(a)] = s.view[a]
    BY <1>2, <1>8 DEF OwnFile, OwnMemory
  <2>2. ASSUME NEW a \in High PROVE (mem[ViewCell(a)])' = f.ram[Ram(a)]
    <3>1. Ram(a) \in FlatCells /\ Ram(a) \in RamCells
      BY Cells
    <3>2. CASE ~Wide
      <4>1. ViewCell(a)' = Ram(a) /\ Source(Ram(a), f.wide) = Ram(a)
        BY <1>1, <3>2 DEF ViewCell, Source
      <4> QED BY <1>5, <2>1, <3>1, <4>1
    <3>3. CASE Wide
      <4>1. port_7ffd' = 48
        BY <1>4, <1>8, <3>3 DEF Latched, View48
      <4>2. (ReadBanks(a) = ViewBank(port_7ffd, a))'
        BY BanksView, PTL
      <4>3. ViewCell(a)' = ViewBank(48, a)
        BY <1>1, <3>3, <4>1, <4>2 DEF ViewCell
      <4>4. ViewBank(48, a) \in RamCells /\ Source(ViewBank(48, a), f.wide) = Ram(a)
        <5>1. CASE a < 4 * W
          <6>1. ViewBank(48, a) = Bank(5, a - 2 * W) /\ a - 2 * W \in Low /\ a - 2 * W + 2 * W = a
            BY <1>6, <5>1 DEF ViewBank, Low
          <6>2. Source(Bank(5, a - 2 * W), f.wide) = Ram(a - 2 * W + 2 * W)
            BY <1>8, <3>3 DEF Source, Bank
          <6> QED BY <6>1, <6>2, Cells
        <5>2. CASE ~(a < 4 * W) /\ a < 6 * W
          <6>1. ViewBank(48, a) = Bank(2, a - 4 * W) /\ a - 4 * W \in Low /\ a - 4 * W + 4 * W = a
            BY <1>6, <5>2 DEF ViewBank, Low
          <6>2. Source(Bank(2, a - 4 * W), f.wide) = Ram(a - 4 * W + 4 * W)
            BY <1>8, <3>3 DEF Source, Bank
          <6> QED BY <6>1, <6>2, Cells
        <5>3. CASE ~(a < 6 * W)
          <6>1. ~(a < 4 * W) /\ a - 6 * W \in Low /\ a - 6 * W + 6 * W = a
            BY <1>6, <5>3 DEF Low
          <6>2. ViewBank(48, a) = Bank(0, a - 6 * W)
            BY <5>3, <6>1, LockedBits DEF ViewBank
          <6>3. Source(Bank(0, a - 6 * W), f.wide) = Ram(a - 6 * W + 6 * W)
            BY <1>8, <3>3 DEF Source, Bank
          <6> QED BY <6>1, <6>2, <6>3, Cells
        <5> QED BY <5>1, <5>2, <5>3
      <4> QED BY <1>5, <2>1, <3>1, <4>3, <4>4
    <3> QED BY <3>2, <3>3
  <2> QED BY <1>3, <1>8, <2>1, <2>2
<1> QED BY <1>2, <1>7, <1>8

\* Where memory is mapped plainly, the CPU reads the view.
LEMMA PlainPeek == ASSUME TypeOK, Plain PROVE \A a \in High : Peek(a) = mem[ViewCell(a)]
BY ViewTyped DEF Plain, Peek, Read, TypeOK

\* Loading a file does not touch the latches that map the RAM elsewhere.
LEMMA StaysPlain == ASSUME NEW f, Accept(f), model' = model, Plain PROVE Plain'
<1>1. UNCHANGED <<ram_paged, if1_paged, cfg_7e, cpm_page, model>> /\ Wide' = Wide /\ Boots' = Boots
  BY DEF Accept, Wide, Boots
<1>2. ASSUME NEW a \in High PROVE (ReadCell(a) = ViewCell(a))'
  <2>1. CASE Wide
    BY <1>1, <2>1 DEF ReadCell, CellAt, ViewCell
  <2>2. CASE ~Wide
    <3>1. ReadCell(a)' = ReadCell(a) /\ ViewCell(a)' = ViewCell(a)
      BY <1>1, <2>2 DEF ReadCell, CellAt, ViewCell, ReadConfig, ReadPlain, Shadow, CfgRom
    <3> QED BY <3>1 DEF Plain
  <2> QED BY <2>1, <2>2
<1> QED BY <1>2 DEF Plain

\* The CPU after Load goes on where the saved one was, or at the HALT it waited in.
LEMMA LoadedGoesOn ==
  ASSUME Inv, Load, slot.own, OwnFile(slot), Inv', Plain'
  PROVE  GoesOn(slot)' /\ cpu'.sp = slot.seen.cpu.sp /\ cpu'.iff = slot.seen.cpu.iff
<1> DEFINE f == slot
           s == slot.seen
<1>1. /\ IsFile(f) /\ slot' = slot /\ f.cpu \in CpuType /\ s.cpu \in CpuType /\ Accept(f)
      /\ f.fmt \in Formats
  BY LoadedMemory DEF Load, Inv, SlotOK, OwnFile, IsFile
<1>2. \A a \in High : Peek(a)' = (mem[ViewCell(a)])'
  <2>1. TypeOK'
    BY DEF Inv
  <2>2. (\A a \in High : Peek(a) = mem[ViewCell(a)])'
    BY <2>1, PlainPeek, PTL
  <2> QED BY <2>2
<1>3. \A a \in High \ Stacked(f) : Peek(a)' = s.view[a]
  BY <1>2, LoadedMemory
<1>4. s.cpu.pc \in Addr /\ s.cpu.halted \in BOOLEAN
  BY <1>1 DEF CpuType
\* What is popped or restored as the PC is the one that was stored.
<1>5. ASSUME cpu'.pc = Stored(s.cpu), cpu'.halted = FALSE PROVE GoesOn(f)'
  <2>1. CASE ~s.cpu.halted
    BY <1>1, <1>4, <1>5, <2>1 DEF GoesOn, Stored
  <2>2. CASE s.cpu.halted
    <3>1. (cpu'.pc + 1) % TOP = s.cpu.pc
      BY <1>4, <1>5, <2>2, Around DEF Stored
    <3>2. \A h : h \in High \ Stacked(f) /\ s.view[h] = HALT => Peek(h)' = HALT
      BY <1>3
    <3> QED BY <1>1, <2>2, <3>1, <3>2 DEF GoesOn, Stacked
  <2> QED BY <2>1, <2>2
<1>6. CASE f.fmt = "sna"
  <2>1. /\ f.cpu.sp \in High /\ f.cpu.sp + 1 \in High /\ ~f.wide
        /\ f.ram[Ram(f.cpu.sp)] + BYTE * f.ram[Ram(f.cpu.sp + 1)] = Stored(s.cpu)
        /\ (f.cpu.sp + 2) % TOP = s.cpu.sp /\ f.cpu.iff = s.cpu.iff
    BY <1>6 DEF OwnFile, OwnRegisters, OwnStack, OwnMemory
  <2>2. cpu' = Popped(f)
    BY <1>1, <1>6 DEF Accept
  <2>3. (f.cpu.sp + 1) % TOP = f.cpu.sp + 1
    <3>1. f.cpu.sp + 1 \in Addr
      BY <2>1, Scale DEF High, Addr
    <3> QED BY <2>1, <3>1, Around
  <2>4. \A a \in High : Peek(a)' = f.ram[Ram(a)]
    BY <1>2, <2>1, LoadedMemory
  <2>5. Peek(f.cpu.sp)' = f.ram[Ram(f.cpu.sp)] /\ Peek(f.cpu.sp + 1)' = f.ram[Ram(f.cpu.sp + 1)]
    BY <1>1, <2>1, <2>4
  <2>6. Peek((f.cpu.sp + 1) % TOP)' = Peek(f.cpu.sp + 1)'
    BY <1>1, <2>3
  <2>7. cpu'.pc = Stored(s.cpu) /\ cpu'.halted = FALSE /\ cpu'.sp = s.cpu.sp /\ cpu'.iff = s.cpu.iff
    BY <1>1, <2>1, <2>2, <2>5, <2>6 DEF Popped, CpuType
  <2> QED BY <1>5, <2>7
<1>7. CASE f.fmt = "z80"
  <2>1. f.cpu.sp = s.cpu.sp /\ f.cpu.pc = Stored(s.cpu) /\ f.cpu.iff = s.cpu.iff
    BY <1>7 DEF OwnFile, OwnRegisters
  <2>2. cpu' = [f.cpu EXCEPT !.ei = FALSE, !.halted = FALSE]
    BY <1>1, <1>7 DEF Accept
  <2>3. cpu'.pc = Stored(s.cpu) /\ cpu'.halted = FALSE /\ cpu'.sp = s.cpu.sp /\ cpu'.iff = s.cpu.iff
    BY <1>1, <2>1, <2>2 DEF CpuType
  <2> QED BY <1>5, <2>3
<1>8. CASE f.fmt = "szx"
  <2>1. cpu' = s.cpu
    BY <1>1, <1>8 DEF Accept, OwnFile, OwnRegisters
  <2> QED BY <1>1, <2>1 DEF GoesOn
<1> QED BY <1>1, <1>6, <1>7, <1>8 DEF Formats

\* A machine goes on from its own .sna, .z80 or .szx as it was, whatever ran or was paged
\* between the save and the load, if the file finds its memory mapped plainly.
THEOREM FilesResume == Spec => Resumes
<1>1. ASSUME Inv, Inv', OwnSlot, Load, slot.own, Plain' PROVE Restored(slot)'
  <2> DEFINE f == slot
             s == slot.seen
  <2>1. OwnFile(f) /\ slot' = slot /\ Wide' = Wide
    BY <1>1 DEF OwnSlot, Load, Wide
  <2>2. /\ Accept(f)
        /\ \A a \in High \ Stacked(f) : (mem[ViewCell(a)])' = s.view[a]
        /\ Wide /\ f.wide => Banks' = f.ram /\ port_7ffd' = f.latch /\ screen' = s.screen
    BY <1>1, <2>1, LoadedMemory
  <2>3. GoesOn(f)' /\ cpu'.sp = s.cpu.sp /\ cpu'.iff = s.cpu.iff
    BY <1>1, <2>1, LoadedGoesOn
  <2>4. border' = s.border
    BY <2>1, <2>2 DEF Accept, OwnFile, OwnRegisters
  <2>5. f.fmt = "szx" => cpu' = s.cpu /\ beeper' = s.beeper
    BY <2>1, <2>2 DEF Accept, OwnFile, OwnRegisters
  <2>6. \A a \in High \ Stacked(f') : (mem[ViewCell(a)])' = s.view[a]
    BY <2>1, <2>2
  <2> QED BY <2>1, <2>2, <2>3, <2>4, <2>5, <2>6 DEF Restored, Stacked
<1>2. ASSUME Inv, Inv', OwnSlot, Load, slot.own, Plain PROVE Restored(slot)'
  <2>1. Accept(slot) /\ model' = model
    BY <1>2, LoadedMemory DEF OwnSlot, Load
  <2> QED BY <1>1, <1>2, <2>1, StaysPlain
<1>3. Inv /\ Inv' /\ OwnSlot /\ [Next]_vars => [Load /\ slot.own /\ Plain => Restored(slot)']_vars
  BY <1>2
<1>4. Inv /\ OwnSlot /\ [Next]_vars => OwnSlot'
  BY StepOwn
<1>5. Spec => []OwnSlot
  BY InitOwn, <1>4, InvHolds, PTL DEF Spec
<1> QED BY <1>3, <1>5, InvHolds, PTL DEF Spec, Resumes
=============================================================================
