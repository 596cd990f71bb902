\* A scripted monitor, and tapes saved by one run and loaded by the next.
SPECIFICATION Spec
CONSTANTS
  MaxBp = 2
  LowBytes = 4
  Sessions <- MCSessions
  BITS = 2
  RomTop = 8
  Registers <- MCRegisters
  Program <- MCProgram
  LdBytes = 6
  SaBytes = 7
  IntAt = 3
  StackTop = 14
  Stores = {3}
  MaxSaves = 2
PROPERTIES StopsWhenDue SavedLoads NeverHangs
\* The session ends when the emulator exits.
CHECK_DEADLOCK FALSE
