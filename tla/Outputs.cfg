SPECIFICATION Spec
CONSTANTS
  Lines = 5
  LineT = 7
  FirstRow = 1
  Rows = 3
  TopDisplay = 2
  DisplayRows = 2
  CharRows = 2
  Block = 2
  Blocks = 2
  RightEnd = 5
  LeftStart = 6
  Banks = {5, 7}
  Colour = {2, 7}
  Byte = {0, 1}
  Overrun = 1
  Registers = {0, 13}
  Shape = 13
  RegByte = {0, 1}
  EnvEnd = 3
  SampleLen = 25
  TState = 2
  Times <- MCTimes
  Pokes <- MCPokes
  MaxAccesses = 2
  MaxFrames = 2
INVARIANTS DeviceHearsTheFile BufferDrained
PROPERTIES PictureIsRaster SoundIsSpeaker RenderersAgree
\* The session ends when the emulator exits.
CHECK_DEADLOCK FALSE
