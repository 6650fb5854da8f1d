---------------------------- MODULE KernelImage ----------------------------
(***************************************************************************)
(* The loader up to the jump (boot/loko-boot, main.rs and elf.rs): the     *)
(* kernel's file is read, checked, copied to memory and mapped, the offset *)
(* window and the identity map are built, and the processor switches.      *)
(*                                                                         *)
(* One action per header copied and per page mapped; what was built so     *)
(* far can be seen between any two of them.  The build keeps overflow      *)
(* checks (Cargo.toml), so an address that overflows is a panic.           *)
(*                                                                         *)
(* A byte of the file is the place it comes from, counted from 1; 0 is a   *)
(* zeroed byte and Foreign one that is not the kernel's.                   *)
(***************************************************************************)
EXTENDS PageTables

CONSTANTS
  Images,         \* kernel files
  Machines,       \* RAM, framebuffer and arena
  IDENTITY_MAPPED_BYTES,
  PHYSICAL_MEMORY_OFFSET,
  KERNEL_PHYSICAL,    \* where the firmware allocates the image
  MEMORY              \* physical memory of the model, in bytes

\* Sizes, offsets and addresses are unsigned in the file and in the firmware's
\* answers; an image is anything such a file may say.
Headers ==
  [kind : STRING, fileOffset : Nat, fileSize : Nat, virtualAddress : Nat, memorySize : Nat,
   writable : BOOLEAN, executable : BOOLEAN]

\* The identity map is in the lower half of the tree, the window in the upper
\* (0xFFFF_8000_0000_0000); the firmware's memory is a NonNull.
ASSUME KernelImageAssumption ==
  /\ {IDENTITY_MAPPED_BYTES, PHYSICAL_MEMORY_OFFSET, MEMORY} \subseteq Nat
  /\ KERNEL_PHYSICAL \in Nat \ {0} /\ KERNEL_PHYSICAL % PAGE_SIZE = 0
  /\ IDENTITY_MAPPED_BYTES <= TOP \div 2
  /\ PHYSICAL_MEMORY_OFFSET \in ADDRESS_LIMIT - TOP \div 2 .. ADDRESS_LIMIT - 1
  /\ \A i \in Images : i.size \in Nat /\ i.tableEnd \in Nat /\ i.headers \in Seq(Headers)
  /\ \A m \in Machines :
       m.arena \in Nat /\ m.highestRam \in Nat /\ m.framebuffer \in [base : Nat, size : Nat]

VARIABLES
  image,          \* the file: size, headers, loadable segments
  machine,        \* highest RAM address, framebuffer, frames of the arena
  stage,          \* what load_and_start is doing
  at,             \* the program header it has come to
  page,           \* the page of the range it has come to
  memory,         \* physical memory
  tables

vars == <<image, machine, stage, at, page, memory, tables>>

Foreign == -1

Init ==
  /\ image \in Images
  /\ machine \in Machines
  /\ stage = "read"
  /\ at = 1
  /\ page = 0
  /\ memory = [a \in 0 .. MEMORY - 1 |-> Foreign]
  /\ tables = NewTables(machine.arena)

-----------------------------------------------------------------------------
(* The ELF reader. *)

\* The buffer is a whole number of pages, zero after the end of the file.
BufferSize == DivCeil(image.size, PAGE_SIZE) * PAGE_SIZE
BufferByte(i) == IF i < image.size THEN i + 1 ELSE 0

\* segment_at, for one program header
SegmentError(h) ==
  CASE h.kind # "LOAD" -> "None"
    [] h.kind = "LOAD" /\ h.memorySize < h.fileSize -> "ImpossibleSegment"
    [] h.kind = "LOAD" /\ h.memorySize >= h.fileSize
         /\ h.fileOffset + h.fileSize > BufferSize -> "TruncatedSegment"
    [] OTHER -> "None"

\* segments: the headers that are loaded, and one of them
Loadable == {i \in DOMAIN image.headers : image.headers[i].kind = "LOAD"}
Segment(i) == image.headers[i]

\* parse: image.format is the outcome of the checks of the ELF header, tableEnd
\* the end of the program header table.
ParseError ==
  LET bad == {i \in DOMAIN image.headers : SegmentError(image.headers[i]) # "None"} IN
  CASE image.format # "None" -> image.format
    [] image.format = "None" /\ image.tableEnd > BufferSize -> "TruncatedHeaders"
    [] image.format = "None" /\ image.tableEnd <= BufferSize /\ bad # {} ->
         SegmentError(image.headers[CHOOSE i \in bad : \A k \in bad : i <= k])
    [] image.format = "None" /\ image.tableEnd <= BufferSize /\ bad = {} /\ Loadable = {} ->
         "NothingToLoad"
    [] OTHER -> "None"

Ends == {Segment(i).virtualAddress + Segment(i).memorySize : i \in Loadable}
Starts == {Segment(i).virtualAddress : i \in Loadable}

Least(S) == CHOOSE n \in S : \A m \in S : n <= m
Greatest(S) == CHOOSE n \in S : \A m \in S : n >= m

\* virtual_extent: the addition may overflow; a lowest address that is
\* u64::MAX is taken for none.
ExtentOverflows == \E end \in Ends : end >= ADDRESS_LIMIT
NoExtent == Least(Starts) = ADDRESS_LIMIT - 1
KernelLow == IF NoExtent THEN 0 ELSE Least(Starts)
KernelHigh == IF NoExtent THEN 0 ELSE Greatest(Ends)

KernelPages == DivCeil(KernelHigh - KernelLow, PAGE_SIZE)

-----------------------------------------------------------------------------
(* load_and_start, step by step. *)

Stop == stage' = "failed" /\ UNCHANGED <<image, machine, at, page, memory, tables>>

\* read_kernel: the volume, the file or the memory for it may not be there.
ReadKernel ==
  /\ stage = "read"
  /\ \/ image.size > 0 /\ stage' = "parse"
     \/ stage' = "failed"
  /\ UNCHANGED <<image, machine, at, page, memory, tables>>

Parse ==
  /\ stage = "parse"
  /\ stage' = IF ParseError # "None" \/ ExtentOverflows THEN "failed" ELSE "reserve"
  /\ UNCHANGED <<image, machine, at, page, memory, tables>>

\* The physical memory allocated for the image.
Allocation == KERNEL_PHYSICAL .. KERNEL_PHYSICAL + KernelPages * PAGE_SIZE - 1

\* allocate_pages, five times: any of them may fail, all are zeroed, and none
\* lies outside of memory.
Reserve ==
  /\ stage = "reserve"
  /\ \/ /\ Allocation \subseteq 0 .. MEMORY - 1
        /\ stage' = "copy"
        /\ memory' = [a \in DOMAIN memory |-> IF a \in Allocation THEN 0 ELSE memory[a]]
     \/ stage' = "failed" /\ UNCHANGED memory
  /\ UNCHANGED <<image, machine, at, page, tables>>

\* Faulty variant of SegmentPhysical: segments are taken to lie back to back.
SegmentPhysicalPacked(i) ==
  LET before[k \in 0 .. Len(image.headers)] ==
        IF k = 0 THEN 0
        ELSE before[k - 1] + IF k \in Loadable
                               THEN DivCeil(Segment(k).memorySize, PAGE_SIZE) * PAGE_SIZE ELSE 0
  IN KERNEL_PHYSICAL + before[i - 1]

SegmentPhysical(i) == KERNEL_PHYSICAL + Segment(i).virtualAddress - KernelLow

\* Memory with a segment copied to it: the bytes of the file, then zeroes.
Copied(i) ==
  LET segment == Segment(i)
      destination == KERNEL_PHYSICAL + segment.virtualAddress - KernelLow
  IN [a \in DOMAIN memory |->
       CASE a \in destination .. destination + segment.fileSize - 1 ->
              BufferByte(segment.fileOffset + a - destination)
         [] a \in destination + segment.fileSize .. destination + segment.memorySize - 1 -> 0
         [] OTHER -> memory[a]]

\* copy_segments; the destination may overflow.
CopySegment ==
  /\ stage = "copy" /\ at <= Len(image.headers)
  /\ IF at \in Loadable /\ SegmentPhysical(at) >= ADDRESS_LIMIT THEN Stop
     ELSE /\ memory' = IF at \in Loadable THEN Copied(at) ELSE memory
          /\ at' = at + 1
          /\ UNCHANGED <<image, machine, stage, page, tables>>

CopyDone ==
  /\ stage = "copy" /\ at > Len(image.headers)
  /\ stage' = "map kernel"
  /\ at' = 1
  /\ UNCHANGED <<image, machine, page, memory, tables>>

\* A call that maps the page at an address of a range: an address that
\* overflows stops the loader, and so does an error, unless it is one that the
\* range tolerates.
Map(va, mapped, tolerated) ==
  IF va >= ADDRESS_LIMIT THEN Stop
  ELSE /\ IF mapped.error \in {"None"} \cup tolerated
            THEN page' = page + 1 /\ tables' = [mapped EXCEPT !.error = "None"] /\ UNCHANGED stage
            ELSE stage' = "failed" /\ tables' = mapped /\ UNCHANGED page
       /\ UNCHANGED <<image, machine, at, memory>>

RangeDone(next) ==
  /\ stage' = next
  /\ page' = 0
  /\ UNCHANGED <<image, machine, at, memory, tables>>

\* Faulty variant of SegmentPermissions: every combination is honoured.
SegmentPermissionsAsAsked(segment) ==
  {[writable |-> segment.writable, executable |-> segment.executable]}

\* map_kernel's match: "A segment asking to be both writable and executable is
\* a build error, not something to honour", so there are none for it.
SegmentPermissions(segment) ==
  { p \in {READ_ONLY, READ_WRITE, READ_EXECUTE} :
      p.writable = segment.writable /\ p.executable = segment.executable }

SegmentPages(i) == DivCeil(Segment(i).memorySize, PAGE_SIZE)

\* map_kernel: map_range for each segment.
MapKernelPage ==
  /\ stage = "map kernel" /\ at <= Len(image.headers)
  /\ IF at \in Loadable /\ SegmentPermissions(Segment(at)) = {} THEN Stop
     ELSE IF at \in Loadable /\ page < SegmentPages(at)
       THEN LET va == Segment(at).virtualAddress + page * PAGE_SIZE IN
            \E permissions \in SegmentPermissions(Segment(at)) :
              Map(va, MapPage(tables, va, SegmentPhysical(at) + page * PAGE_SIZE, permissions), {})
       ELSE /\ at' = at + 1
            /\ page' = 0
            /\ UNCHANGED <<image, machine, stage, memory, tables>>

MapKernelDone ==
  /\ stage = "map kernel" /\ at > Len(image.headers)
  /\ RangeDone("map ram")

\* map_huge_range over all of RAM
MapRamPage ==
  /\ stage = "map ram"
  /\ IF page < DivCeil(machine.highestRam, HUGE_PAGE_SIZE)
       THEN LET va == PHYSICAL_MEMORY_OFFSET + page * HUGE_PAGE_SIZE IN
            Map(va, MapHugePage(tables, va, page * HUGE_PAGE_SIZE, READ_WRITE), {})
       ELSE RangeDone("map framebuffer")

\* The framebuffer, down to the start of its huge page.
FramebufferBase == machine.framebuffer.base - (machine.framebuffer.base % HUGE_PAGE_SIZE)
FramebufferPages ==
  IF machine.framebuffer.size = 0 THEN 0
  ELSE DivCeil(machine.framebuffer.size + machine.framebuffer.base - FramebufferBase,
               HUGE_PAGE_SIZE)

\* map_huge_range_lenient
Tolerated == {"Conflict"}

\* Faulty variant of MapFramebufferPage: the first page that is already mapped
\* ends the range.
MapFramebufferUpToOverlap ==
  /\ stage = "map framebuffer"
  /\ LET base == FramebufferBase + page * HUGE_PAGE_SIZE
         mapped == MapHugePage(tables, PHYSICAL_MEMORY_OFFSET + base, base, READ_WRITE)
     IN IF page < FramebufferPages /\ mapped.error # "Conflict"
          THEN Map(PHYSICAL_MEMORY_OFFSET + base, mapped, {})
          ELSE RangeDone("map identity")

MapFramebufferPage ==
  /\ stage = "map framebuffer"
  /\ IF page < FramebufferPages
       THEN LET base == FramebufferBase + page * HUGE_PAGE_SIZE
                va == PHYSICAL_MEMORY_OFFSET + base
            IN Map(va, MapHugePage(tables, va, base, READ_WRITE), Tolerated)
       ELSE RangeDone("map identity")

\* "mapping this range non-executable makes the cr3 load page-fault" (main.rs)
IdentityPermissions == READ_EXECUTE

MapIdentityPage ==
  /\ stage = "map identity"
  /\ IF page < DivCeil(IDENTITY_MAPPED_BYTES, HUGE_PAGE_SIZE)
       THEN LET va == page * HUGE_PAGE_SIZE IN
            Map(va, MapHugePage(tables, va, va, IdentityPermissions), {})
       ELSE RangeDone("started")

Next ==
  \/ ReadKernel \/ Parse \/ Reserve \/ CopySegment \/ CopyDone
  \/ MapKernelPage \/ MapKernelDone \/ MapRamPage \/ MapFramebufferPage \/ MapIdentityPage

Spec == Init /\ [][Next]_vars

\* The loader runs by itself.
FairSpec == Spec /\ WF_vars(Next)

-----------------------------------------------------------------------------
(* Properties. *)

\* What is mapped stays mapped as it is, whatever is mapped after it and
\* whichever page size it uses ("Rejected rather than silently replaced",
\* paging.rs).
MappingsStand ==
  [][\A va \in Addresses :
       Translate(tables, va) # Fault => Translate(tables', va) = Translate(tables, va)]_vars

\* At no moment is any page writable and executable ("W^X holds from the first
\* instruction the kernel executes", main.rs).
WritableXorExecutable ==
  \A va \in Addresses :
    LET p == Translate(tables, va).permissions IN ~(p.writable /\ p.executable)

\* Copying never leaves the pages that were allocated for the image: "the
\* destination lies inside the allocation sized from virtual_extent" (main.rs).
CopyStaysInside == \A a \in DOMAIN memory : memory[a] # Foreign => a \in Allocation

\* The kernel finds itself as it was linked: through the tables, every address
\* of every segment holds the file's byte or zero, with the permissions the
\* segment declared; and nothing else in memory was written on the way.  This
\* is also so of a segment whose address is not canonical, which elf.rs accepts
\* and paging.rs maps at the entries of another address: either the two
\* conflict, and nothing starts, or the tables hold it there.
ImageIsLoaded ==
  /\ CopyStaysInside
  /\ stage = "started" =>
    \A i \in Loadable : \A b \in 0 .. Segment(i).memorySize - 1 :
      LET segment == Segment(i)
          found == Lookup(tables, segment.virtualAddress + b)
      IN /\ found # Fault
         /\ memory[found.byte] = IF b < segment.fileSize
                                   THEN BufferByte(segment.fileOffset + b) ELSE 0
         /\ found.permissions.writable = segment.writable
         /\ found.permissions.executable = segment.executable

\* No page of the kernel is in the huge page of an entry that shows the
\* framebuffer, under whichever address.
FramebufferIsClear ==
  \A i \in Loadable : \A k \in 0 .. SegmentPages(i) - 1 : \A l \in 0 .. FramebufferPages - 1 :
    Entry(Segment(i).virtualAddress + k * PAGE_SIZE, 3)
      # Entry(PHYSICAL_MEMORY_OFFSET + (FramebufferBase + l * HUGE_PAGE_SIZE), 3)

\* The kernel reaches every byte of RAM and of the framebuffer through the
\* window, also where the two overlap ("A conflict there is benign by
\* construction", main.rs).
WindowIsComplete ==
  stage = "started" /\ FramebufferIsClear =>
    \A pa \in 0 .. machine.highestRam - 1
               \cup machine.framebuffer.base .. machine.framebuffer.base + machine.framebuffer.size - 1 :
      Translate(tables, PHYSICAL_MEMORY_OFFSET + pa) = [byte |-> pa, permissions |-> READ_WRITE]

\* The instruction after "mov cr3" is fetched from where it was, whatever low
\* address the loader runs at.
SwitchSurvives ==
  stage = "started" =>
    \A a \in 0 .. IDENTITY_MAPPED_BYTES - 1 :
      Translate(tables, a) = [byte |-> a, permissions |-> READ_EXECUTE]

\* What the kernel and the jump to it rely on is mapped when the processor
\* switches: the window, whole, and the code that switches.
HandoffIsMapped == WindowIsComplete /\ SwitchSurvives

\* The pages of the segments, and the huge pages of the other ranges.
WantedPages ==
  UNION { {Segment(i).virtualAddress + k * PAGE_SIZE : k \in 0 .. SegmentPages(i) - 1} :
            i \in Loadable }
WantedHugePages ==
  {k * HUGE_PAGE_SIZE : k \in 0 .. DivCeil(IDENTITY_MAPPED_BYTES, HUGE_PAGE_SIZE) - 1}
  \cup {PHYSICAL_MEMORY_OFFSET + k * HUGE_PAGE_SIZE :
          k \in 0 .. DivCeil(machine.highestRam, HUGE_PAGE_SIZE) - 1}
  \cup {PHYSICAL_MEMORY_OFFSET + FramebufferBase + k * HUGE_PAGE_SIZE :
          k \in 0 .. FramebufferPages - 1}

\* An image the linker script produces: segments on pages of their own in the
\* kernel's part of the address space, none writable and executable.
WellLinked ==
  /\ ParseError = "None" /\ ~ExtentOverflows
  /\ \A i \in Loadable :
       /\ Segment(i).virtualAddress % PAGE_SIZE = 0
       /\ ~(Segment(i).writable /\ Segment(i).executable)
       /\ Segment(i).virtualAddress >= PHYSICAL_MEMORY_OFFSET + HUGE_PAGE_SIZE * PD_FAN * PDPT_FAN
       /\ \A k \in Loadable \ {i} :
            \/ Segment(k).virtualAddress + Segment(k).memorySize <= Segment(i).virtualAddress
            \/ Segment(i).virtualAddress + Segment(i).memorySize <= Segment(k).virtualAddress

\* A well linked image starts on every machine whose tables fit into the arena
\* and whose memory fits into the window, framebuffer inside RAM or not, once it
\* was read and memory was found for it.
GoodImageStarts ==
  /\ stage = "copy" /\ WellLinked /\ WantedHugePages \subseteq Addresses
  /\ FramesNeeded(WantedPages, WantedHugePages) <= machine.arena
  ~> stage = "started"

=============================================================================
