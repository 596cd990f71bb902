SPECIFICATION RunSpec
CONSTANTS
  Tapes <- DeckTapes
  Gaps <- DeckGaps
  Content <- Files
  Argument = {"a.tap", "b.tzx"}
  Dropped = {"dropped.tzx", "silent.tzx", "tone.tzx"}
  NoSide = NoSide
  HotWindow = 2
  HotReads = 2
  MaxAge = 3
  MaxLate = 17
INVARIANTS LevelIsParity DeckHoldsCur
PROPERTIES DeckIsPlayer KeepsTime BoundaryHeard KeyWaitHolds SwapExchanges TapeComesRound
