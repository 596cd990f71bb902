\* An exit before the controller is freed.
SPECIFICATION Spec
CONSTANTS
  Geometry <- MCOneDisk
  Inserted = {0}
  Opcodes <- MCOpcodes
  Args <- MCFewArgs
  LatchBytes = {0, 27}
INVARIANTS WrittenBackAtExit
CHECK_DEADLOCK FALSE
