\* A two-sided disk and an empty drive, every command.
SPECIFICATION Spec
CONSTANTS
  Geometry <- MCOneDisk
  Inserted = {0}
  Opcodes <- MCOpcodes
  Args <- MCArgs
  LatchBytes = {0, 27}
INVARIANTS PhaseConsistent HeadOnDisk TransferOnTrack DirtyCoversChanges
PROPERTIES SeekDelivered ResultContinues BusProtocol CommandCompletes
\* The session ends when the emulator exits.
CHECK_DEADLOCK FALSE
