SPECIFICATION StoreSpec
CONSTANTS
  DBWriters = {w1, w2}
  MaxSequence = 2
  MaxFileNumber = 9
  MaxIters = 1
INVARIANTS CrashSafe ReadsComplete
SYMMETRY WriterSymmetry
CHECK_DEADLOCK FALSE
