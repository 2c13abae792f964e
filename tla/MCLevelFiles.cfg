INIT MCInit
NEXT MCNext
CONSTANTS
  TreeKeys = {1, 2}
  kNumLevels = 3
  kMaxMemCompactLevel = 1
  kL0_CompactionTrigger = 2
  kTargetFileSize = 2
  kMaxGrandParentOverlap = 1
  kExpandedLimit = 6
  MaxBytesForLevel <- MCMaxBytes
  ManualLevels = {1}
  MaxWrites = 3
  MaxSnapshots = 1
  MaxFiles = 6
  kBlockSize = 6
  kHeaderSize = 2
  RecordSizes = {0, 2, 3, 9}
  MaxRecords = 3
  InitialOffsets = {0, 5, 7}
  TableKeys <- MCTableKeys
  MaxByte = 4
  MaxSeq = 9
  RestartInterval = 2
  BlockSize = 9
  FilterBase = 8
  BitsPerKey = 2
  Probes = 2
  HashOf <- MCHash
  MaxTableKeys = 3
  IterUsers = {1, 2}
  History = 3
  MaxLateWrites = 1
  Readers = {r1, r2}
  CachedFiles = {1, 2, 3}
  Capacity = 2
  FirstLength = 1
  MemNames = {fa, fb}
  Slots = {1, 2}
  MemBlock = 2
  MaxBytes = 3
  OldTables = {2, 4}
  OldLogs = {3, 5}
  Writes = {1, 2, 3}
  MaxRepairs = 2
  MapPage = 2
  MapCap = 4
  MaxWritten = 9
  AppendSizes = {1, 2, 5}
  Base = 4
  Bits32 = 5
  Digits32 = 3
  Bits64 = 9
  Digits64 = 5
  EncLevels = 2
  Numbers = {0, 300}
  Slices <- MCSlices
  AlteredTo = {6}
  MaxEntries = 2
  Processes = {p1, p2}
  Threads = {t1, t2}
  MmapLimit = 2
  EnvReaders = {r1, r2, r3}
  MaxScheduled = 4
INVARIANTS
  TreeSound RecordsExact TableExact CursorExact CacheSound
  FilesExact RepairKeeps EnvSound
CHECK_DEADLOCK FALSE
