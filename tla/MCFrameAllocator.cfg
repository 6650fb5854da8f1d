\* At most four frames; frames 0 and 4 lie outside some of the managed ranges.
CONSTANTS
  FRAME_SIZE = 2
  U64_MAX = 11
  BITMAP_BITS = 4
  Bases = {0, 1}
  MemoryMaps <- MCMemoryMaps
  Counts = {0, 1, 2, 3}
  FrameArgs = {0, 2, 3, 4}
  ByteRanges <- MCByteRanges
  Callers = {a, b}
  Nobody = Nobody
  Machine = Machine
SPECIFICATION FairAnySpec
INVARIANTS
  Audit
  OutOfMemoryIsGenuine
  BitmapAgreesWithOwners
PROPERTIES
  ImplementsPool
  ReserveRangeIsExact
  CallsReturn
  NoFrameHandedOutTwice
