SPECIFICATION Spec
CONSTANTS
  Programs <- IF1Programs
  Starts <- MCStarts
  Hooks = {1}
  Exit = 3
  HaveIf1 = TRUE
  Vector = 6
  FRAME = 24
  WINDOW = 8
  ACK = 7
  TOP = 10
  MAXT = 8
  MAXDELAY = 6
  Contended <- MCContended
  REPEAT = REPEAT
  Last = 2
INVARIANT Reproduces
