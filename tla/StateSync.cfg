SPECIFICATION Spec
CONSTANTS
  Cells = {c1, c2}
  Vals = {space, x}
  Space = space
  AltScreens = FALSE
  HistoryLen = 2
  MismatchLimit = 2
  LargeDiff = 2
  ChunkCounts = {1, 2}
  Resumed = FALSE
  MaxOutput = 2
  MaxInFlight = 2
  MaxLosses = 2
  LosesPushes = FALSE
  Ids = {1, 2, 3, 4, 5, 6, 7, 8}
INVARIANTS DiffFitsBaseline RecordsTruth
PROPERTIES Converges ShowsWhatWasDisplayed
CHECK_DEADLOCK FALSE
