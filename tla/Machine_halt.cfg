SPECIFICATION Spec
CONSTANTS
  Models = {"hc91"}
  W = 2
  BYTE = 4
  HALT = 3
  CpuStates <- MCCpus
  Hooks = {1}
  Exit = 0
  Pokes <- MCPokes
  OutULA = {23}
  Out7E = {}
  Out7FFD = {}
  Pictures = {0}
  Foreign = {}
  NoFile = NoFile
PROPERTIES HaltSurvives
