SPECIFICATION Spec
CONSTANTS
  Tapes <- BlockTapes
  Gaps <- AllGaps
  HotWindow = 4
  HotReads = 2
  MaxAge = 5
  MaxLate = 17
PROPERTIES PausesHold
