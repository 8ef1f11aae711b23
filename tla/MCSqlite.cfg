CONSTANTS
  Parts = {"deep", "broad", "record", "scan", "import"}
  Rowids <- SomeRowids
  Integers_ <- SomeIntegers
  Texts <- SomeTexts
  Blobs <- SomeBlobs
  MaxColumns = 2
  Files <- SomeFiles
  Usable = 480
  PageSize = 512
  Sources <- SomeSources
  Changes <- Changed
SPECIFICATION MCSpec
INVARIANTS
  ReadsAreOneCommit DecodeInverts ScanIsTheTree ImportIsFaithful
PROPERTY
  EveryRoundIsProgress
CHECK_DEADLOCK FALSE
