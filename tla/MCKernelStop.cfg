\* Faults strike anywhere, inside critical sections too.
CONSTANTS
  Exceptions = {"page_fault", "double_fault", "non_maskable_interrupt", "debug_exception"}
  MaxFaults = 3
SPECIFICATION FairSpec
INVARIANTS
  HaltIsExplained
  NeverRunsOnOverwrittenStack
PROPERTIES
  NothingContinuesUnderAStop
  EveryUnstruckStopHalts
\* The machine stops for good when it has halted or reset, or spins.
CHECK_DEADLOCK FALSE
