CONSTANTS
  Scripts <- SmallScripts
  TotalMemory = 240
SPECIFICATION Spec
INVARIANTS EverythingFound HeapWalks RefusedWhenTooLarge
CHECK_DEADLOCK FALSE
