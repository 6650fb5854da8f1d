CONSTANTS
  PAGE_SIZE = 2
  PT_FAN = 2
  PD_FAN = 2
  PDPT_FAN = 2
  PML4_FAN = 4
  SPANS = 2
  Images <- MCImages
  Machines <- MCMachines
  IDENTITY_MAPPED_BYTES = 8
  PHYSICAL_MEMORY_OFFSET = 96
  KERNEL_PHYSICAL = 4
  MEMORY = 120
SPECIFICATION FairSpec
INVARIANTS
  WritableXorExecutable
  ImageIsLoaded
  HandoffIsMapped
PROPERTIES
  MappingsStand
  GoodImageStarts
CHECK_DEADLOCK FALSE
