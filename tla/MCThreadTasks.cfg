SPECIFICATION FairSpec
CONSTANTS
  NUM_THREADS = 3
  Loops = 2
  N = 4
  Spurious = 2
  OR_NUM_THREADS = 3
  OW_NUM_THREADS = 2
  SUCCESS = 1
  MaxFail = 1
INVARIANTS CounterExact ItemsReadOnce ReadsWholeWrites MessagesFreed
PROPERTIES EndsUnlessOverwritten MainEnds
CHECK_DEADLOCK FALSE
