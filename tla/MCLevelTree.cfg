INIT TreeInit
NEXT TreeNext
CONSTANTS
  TreeKeys = {1, 2}
  kNumLevels = 3
  kMaxMemCompactLevel = 1
  kL0_CompactionTrigger = 2
  kTargetFileSize = 2
  kMaxGrandParentOverlap = 1
  kExpandedLimit = 6
  MaxBytesForLevel <- MCMaxBytes
  ManualLevels = {1}
  MaxWrites = 3
  MaxSnapshots = 1
  MaxFiles = 6
INVARIANT LookupsCorrect
CHECK_DEADLOCK FALSE
