SPECIFICATION Spec
CONSTANTS
  NumTrays = 2
  MaxRun = 2
  Handlers <- OneChild
  Uses <- OneUses
  MaxFault = 1
INVARIANTS
  OneInsidePerBuffer InterruptLeavesNoName LinkedSemaphoreUsable
CHECK_DEADLOCK FALSE
