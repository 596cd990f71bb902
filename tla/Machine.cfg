SPECIFICATION Spec
CONSTANTS
  Models = {"hc91", "disk", "hc2000", "hc128"}
  W = 2
  BYTE = 4
  HALT = 3
  CpuStates <- MCCpus
  Hooks = {1}
  Exit = 0
  Pokes <- MCPokes
  OutULA = {23}
  Out7E = {3, 14}
  Out7FFD = {7, 24, 32}
  Pictures = {0}
  Foreign <- MCForeign
  NoFile = NoFile
INVARIANTS WriteReadsBack ScreenFollowsLatch GuestView
PROPERTIES ResetRestarts Resumes
