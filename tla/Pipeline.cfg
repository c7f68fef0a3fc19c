SPECIFICATION PipelineSpec
CONSTANTS
  Checkouts <- MCCheckouts
  Document <- MCDocument
  Refs = {"none", "name", "sha"}
  MaxFiles = 3
  MaxBytes = 3
  MaxSymlinks = 1
  MaxKills = 2
  MaxLines = 2
  MaxChars = 12
  OverlapLines = 3
  BlockLines = 2
  BatchSize = 2
  Attempts = 2
  RankOffset = 60
  MaxScore = 1
  MaxTopK = 3
INVARIANTS
  PipelineTypeOK
  NoWorkspaceLeft
  OrderDoesNotDecide
  ScanSelects
  NoLineSkipped
  NoTextLost
  MembersFindTheirClass
  VectorsMatchTexts
  NoFileCrowdedOut
  BetterChunkShownFirst
  OnlyHarmlessShown
  EveryFileSearchable
PROPERTY
  JobsEnd
CHECK_DEADLOCK FALSE
