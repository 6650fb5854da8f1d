\* One fault, which may strike while a lock is held.
CONSTANTS
  Exceptions = {"page_fault"}
  MaxFaults = 1
SPECIFICATION FairSpec
PROPERTIES
  EveryStopHalts
\* The machine stops for good when it has halted or reset, or spins.
CHECK_DEADLOCK FALSE
