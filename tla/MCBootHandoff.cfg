\* Up to fourteen pages; the window covers twelve and so does the bitmap, the region array has room for nine.
CONSTANTS
  Machines <- MCMachines
  Framebuffers <- MCFramebuffers
  HUGE_PAGES = 2
  MAX_MAPPED = 12
  IDENTITY = 8
  MAX_MANAGED = 12
  Capacity = 9
  HEAP_FRAMES = 2
  Orders <- MCOrders
SPECIFICATION Spec
INVARIANTS
  FaultsOnlyOutOfReach
  HeapIsNobodyElses
  GoodMapIsAccepted
  UsableMemoryIsAccountedFor
\* A boot ends: in a running kernel, at a stop or back in the firmware.
CHECK_DEADLOCK FALSE
