\* Terminal count during a FORMAT of the empty drive.
SPECIFICATION Spec
CONSTANTS
  Geometry <- MCOneDisk
  Inserted = {0}
  Opcodes <- MCOpcodes
  Args <- MCFewArgs
  LatchBytes = {0, 27}
INVARIANTS TcEndsExec
CHECK_DEADLOCK FALSE
