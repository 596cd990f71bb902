SPECIFICATION ReadersSpec
CONSTANTS
  Files <- MCFiles
  Samples <- MCSamples
  Rom <- MCRom
  BYTE = 2
  OCTET = 2
  MS = 2
  GAP = 2
  LEAD = 1
  MAXLBITS = 4
  LengthTable <- MCLengths
  DistTable <- MCDistances
  FixedLit <- MCFixedLit
  FixedDist <- MCFixedDist
  Order <- MCOrder
  Field <- MCField
  MinCode = 5
  MaxLit = 7
  MaxDist = 2
  Runs <- MCRuns
  Streams <- MCStreams
  NoStream <- MCNoStream
INVARIANTS Playable MarksKept SignalKept LoopsPlayOut Inflates
