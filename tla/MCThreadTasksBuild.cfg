SPECIFICATION Spec
CONSTANTS
  NUM_THREADS = 3
  Loops = 2
  N = 3
  Spurious = 2
  OR_NUM_THREADS = 2
  OW_NUM_THREADS = 2
  SUCCESS = 0
  MaxFail = 0
INVARIANTS TerminatesOnlyOnFailure
CHECK_DEADLOCK FALSE
