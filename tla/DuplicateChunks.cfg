SPECIFICATION PipelineSpec
CONSTANTS
  Checkouts <- TwiceCheckouts
  Document <- MCDocument
  Refs = {"none", "name", "sha"}
  MaxFiles = 3
  MaxBytes = 3
  MaxSymlinks = 1
  MaxKills = 0
  MaxLines = 2
  MaxChars = 12
  OverlapLines = 3
  BlockLines = 2
  BatchSize = 2
  Attempts = 2
  RankOffset = 60
  MaxScore = 1
  MaxTopK = 3
INVARIANT
  IndexingContinues
CHECK_DEADLOCK FALSE
