SPECIFICATION Spec
CONSTANTS
  Programs <- MCPrograms
  Starts <- MCStarts
  Hooks = {}
  Exit = 0
  HaveIf1 = FALSE
  Vector = 6
  FRAME = 24
  WINDOW = 8
  ACK = 7
  TOP = 9
  MAXT = 8
  MAXDELAY = 6
  Contended <- MCContended
  REPEAT = REPEAT
  Last = 3
INVARIANTS TypeOK NoDrift HandlersDoNotNest Reproduces NeverDesyncs
PROPERTIES HaltWakes
