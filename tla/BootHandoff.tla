---------------------------- MODULE BootHandoff ----------------------------
(***************************************************************************)
(* From the firmware to a kernel with a heap: boot/loko-boot/src/main.rs,  *)
(* the validation of boot/loko-boot-protocol and setup_memory and          *)
(* setup_heap of the kernel.                                               *)
(*                                                                         *)
(* Physical memory is a function from pages to the type the firmware gives *)
(* them.  Addresses and sizes are in pages.  The loader asks the firmware  *)
(* for pages anywhere (AllocateType::AnyPages), so where its allocations   *)
(* lie is any choice; the firmware lists its memory map in any order.  The *)
(* kernel's frame allocator is the pool of FramePool, which FrameAllocator *)
(* implements.                                                             *)
(***************************************************************************)
EXTENDS Integers, Sequences, FiniteSets, FiniteSetsExt, SequencesExt, Selection

CONSTANTS
  Machines,       \* firmware memory: functions from 0 .. n-1 to Types
  Framebuffers,   \* runs of pages a framebuffer may occupy; {} is none
  HUGE_PAGES,     \* pages in a huge page
  MAX_MAPPED,     \* MAX_MAPPED_PHYSICAL
  IDENTITY,       \* IDENTITY_MAPPED_BYTES
  MAX_MANAGED,    \* MAX_MANAGED_MEMORY
  Capacity,       \* regions the region array has room for
  HEAP_FRAMES,    \* frames of the kernel heap
  Orders(_)       \* the orders in which the firmware may list a set of descriptors

\* Code and data of the boot services, and of the runtime services, are
\* treated alike; a hole is described by nothing.
Types == {"CONVENTIONAL", "LOADER_CODE", "LOADER_DATA", "BOOT_SERVICES", "RUNTIME_SERVICES",
          "ACPI_RECLAIM", "ACPI_NON_VOLATILE", "PERSISTENT_MEMORY", "UNUSABLE", "RESERVED",
          "MMIO", "HOLE"}

ASSUME BootHandoffAssumption ==
  /\ \A m \in Machines :
       Cardinality(DOMAIN m) \in Nat /\ m \in [0 .. (Cardinality(DOMAIN m) - 1) -> Types]
  /\ HUGE_PAGES \in Nat \ {0}
  /\ MAX_MAPPED \in Nat /\ IDENTITY \in Nat /\ Capacity \in Nat \ {0} /\ HEAP_FRAMES \in Nat
  /\ MAX_MANAGED \in 0 .. MAX_MAPPED

VARIABLES
  pc,             \* where the boot is
  memory,         \* the firmware's type of each page
  todo,           \* what the loader still has to allocate
  kernel,         \* pages of the kernel image
  handed,         \* pages the kernel reaches in the window: stack, map, boot info
  kept,           \* other pages in use: the file, the page tables, the firmware's map
  framebuffer,    \* pages of the framebuffer
  highestRam,     \* end of the RAM the window covers
  window,         \* physical pages mapped at the offset window
  regions,        \* the converted memory map
  truncated,      \* it did not fit
  rejected,       \* what validate returned
  managed,        \* the frame pool
  free,
  outcome,
  warned,         \* the kernel reported memory it will not use
  heap            \* frames of the kernel heap

machineVars == <<memory, kernel, handed, kept>>
poolVars == <<managed, free, outcome>>
vars == <<pc, memory, todo, kernel, handed, kept, framebuffer, highestRam, window, regions,
          truncated, rejected, managed, free, outcome, warned, heap>>

Pool == INSTANCE FramePool WITH Counts <- {HEAP_FRAMES}, FrameArgs <- {}

Of(type) == {p \in DOMAIN memory : memory[p] = type}

Init ==
  /\ pc = "load"
  /\ memory \in Machines
  /\ todo = <<"file", "kernel", "arena", "stack", "regions", "info">>
  /\ kernel = {} /\ handed = {} /\ kept = {} /\ framebuffer = {}
  /\ highestRam = 0 /\ window = {} /\ regions = << >> /\ truncated = FALSE
  /\ rejected = "none"
  /\ managed = {} /\ free = {} /\ outcome = Pool!Outcome("none", 0, 0, "Ok")
  /\ warned = FALSE /\ heap = {}

-----------------------------------------------------------------------------
(* The loader. *)

\* Any step of load_and_start before boot services are left may fail; main
\* then returns to the firmware.
LoaderFails ==
  /\ pc \in {"load", "query", "map", "exit"}
  /\ pc' = "returned"
  /\ UNCHANGED <<machineVars, todo, framebuffer, highestRam, window, regions, truncated,
                 rejected, poolVars, warned, heap>>

\* The firmware turns a conventional page into loader data.
Allocated(p) == memory' = [memory EXCEPT ![p] = "LOADER_DATA"]

\* allocate_pages, for each purpose in turn.
AllocatePages ==
  /\ pc = "load"
  /\ \E p \in Of("CONVENTIONAL") :
       /\ Allocated(p)
       /\ kernel' = IF Head(todo) = "kernel" THEN kernel \cup {p} ELSE kernel
       /\ handed' = IF Head(todo) \in {"stack", "regions", "info"} THEN handed \cup {p} ELSE handed
       /\ kept' = IF Head(todo) \in {"file", "arena"} THEN kept \cup {p} ELSE kept
  /\ todo' = Tail(todo)
  /\ pc' = IF Len(todo) = 1 THEN "query" ELSE "load"
  /\ UNCHANGED <<framebuffer, highestRam, window, regions, truncated, rejected, poolVars,
                 warned, heap>>

IsInstalledRam(type) ==
  type \in {"CONVENTIONAL", "LOADER_CODE", "LOADER_DATA", "BOOT_SERVICES", "RUNTIME_SERVICES",
            "ACPI_RECLAIM", "ACPI_NON_VOLATILE", "PERSISTENT_MEMORY"}

\* One past the highest page of a set.
End(s) == IF s = {} THEN 0 ELSE Max(s) + 1

\* Faulty variant of HighestRam: memory the loader holds is not counted.
HighestFree == Min({End(Of("CONVENTIONAL")), MAX_MAPPED})

\* highest_ram_address
HighestRam == Min({End({p \in DOMAIN memory : IsInstalledRam(memory[p])}), MAX_MAPPED})

Query ==
  /\ pc = "query"
  /\ framebuffer' \in Framebuffers
  /\ highestRam' = HighestRam
  /\ pc' = "map"
  /\ UNCHANGED <<machineVars, todo, window, regions, truncated, rejected, poolVars, warned, heap>>

\* map_huge_range and its lenient form: the pages of every huge page that
\* holds a page of s.
HugeRange(s) == {p \in 0 .. (End(s) + HUGE_PAGES) : \E q \in s : q \div HUGE_PAGES = p \div HUGE_PAGES}

\* The window covers RAM and the framebuffer; the kernel image and the
\* identity map are mapped apart from it.
BuildTables ==
  /\ pc = "map"
  /\ window' = HugeRange(0 .. (highestRam - 1)) \cup HugeRange(framebuffer)
  /\ pc' = "exit"
  /\ UNCHANGED <<machineVars, todo, framebuffer, highestRam, regions, truncated, rejected,
                 poolVars, warned, heap>>

\* exit_boot_services takes a last page, for the final memory map.
ExitBootServices ==
  /\ pc = "exit"
  /\ \E p \in Of("CONVENTIONAL") : Allocated(p) /\ kept' = kept \cup {p}
  /\ pc' = "convert"
  /\ UNCHANGED <<kernel, handed, todo, framebuffer, highestRam, window, regions, truncated,
                 rejected, poolVars, warned, heap>>

-----------------------------------------------------------------------------
(* The memory map. *)

\* A page at which a run of pages of one type begins, and the last of the run.
Starts == {p \in DOMAIN memory :
             memory[p] # "HOLE" /\ (p - 1 \in DOMAIN memory => memory[p - 1] # memory[p])}

LastOfRun(p) ==
  CHOOSE q \in DOMAIN memory :
    /\ q >= p
    /\ \A k \in p .. q : memory[k] = memory[p]
    /\ q + 1 \in DOMAIN memory => memory[q + 1] # memory[p]

\* The firmware's descriptors: its longest runs of pages of one type.
Descriptors ==
  {[start |-> p, len |-> LastOfRun(p) - p + 1, type |-> memory[p]] : p \in Starts}

EmptyDescriptor == [start |-> 0, len |-> 0, type |-> "RESERVED"]

\* The sequence lists every member of the set once.
Lists(listing, S) == listing \in [1 .. Cardinality(S) -> S] /\ S \subseteq Range(listing)

\* The memory maps the firmware may return, with or without an empty descriptor.
Listings ==
  UNION {{listing \in Orders(S) : Lists(listing, S)} :
           S \in {Descriptors, Descriptors \cup {EmptyDescriptor}}}

\* Faulty variant of KindOf: the loader's own memory is free.
KindFreesLoader(type) ==
  CASE type \in {"CONVENTIONAL", "LOADER_DATA"} -> "Usable"
    [] type \in {"LOADER_CODE", "BOOT_SERVICES"} -> "BootloaderReclaimable"
    [] type = "ACPI_RECLAIM" -> "AcpiReclaimable"
    [] type = "ACPI_NON_VOLATILE" -> "AcpiNvs"
    [] type = "UNUSABLE" -> "BadMemory"
    [] OTHER -> "Reserved"

KindOf(type) ==
  CASE type = "CONVENTIONAL" -> "Usable"
    [] type \in {"LOADER_CODE", "LOADER_DATA", "BOOT_SERVICES"} -> "BootloaderReclaimable"
    [] type = "ACPI_RECLAIM" -> "AcpiReclaimable"
    [] type = "ACPI_NON_VOLATILE" -> "AcpiNvs"
    [] type = "UNUSABLE" -> "BadMemory"
    [] OTHER -> "Reserved"

\* Where the map has something to convert: empty descriptors are skipped.
NonEmpty(listing) == {i \in DOMAIN listing : listing[i].len # 0}

\* Of that, what the region array has room for.
Kept(listing) ==
  {i \in NonEmpty(listing) : Cardinality({j \in NonEmpty(listing) : j < i}) < Capacity}

Converted(d) == [start |-> d.start, len |-> d.len, kind |-> KindOf(d.type)]

\* Faulty variant of Sorted: the comparison is the wrong way round.
SortedDownwards(S) == Ascending(S, [r \in S |-> -r.start])

\* The insertion sort.
Sorted(S) == Ascending(S, [r \in S |-> r.start])

\* convert_memory_map: what does not fit is dropped before the rest is sorted.
ConvertMemoryMap ==
  /\ pc = "convert"
  /\ \E listing \in Listings :
       /\ regions' = Sorted({Converted(listing[i]) : i \in Kept(listing)})
       /\ truncated' = (Kept(listing) # NonEmpty(listing))
  /\ pc' = "jump"
  /\ UNCHANGED <<machineVars, todo, framebuffer, highestRam, window, rejected, poolVars, warned,
                 heap>>

\* The instruction after the load of cr3 is fetched through the identity map.
Jump ==
  /\ pc = "jump"
  /\ pc' = IF Of("LOADER_CODE") \subseteq 0 .. (IDENTITY - 1) THEN "entered" ELSE "faulted"
  /\ UNCHANGED <<machineVars, todo, framebuffer, highestRam, window, regions, truncated,
                 rejected, poolVars, warned, heap>>

-----------------------------------------------------------------------------
(* The kernel. *)

RegionEnd(r) == r.start + r.len

\* validate, whose checks of the header always pass for this loader, and
\* validate_memory_map.
Validation ==
  CASE regions = << >> -> "NoMemoryMap"
    [] \E i \in 1 .. Len(regions) : regions[i].len = 0 -> "MalformedRegion"
    [] \E i \in 2 .. Len(regions) : regions[i].start < RegionEnd(regions[i - 1]) -> "UnsortedMemoryMap"
    [] \A i \in 1 .. Len(regions) : regions[i].kind # "Usable" -> "NoUsableMemory"
    [] OTHER -> "Ok"

\* _start runs on the stack and reads the boot info and the map it was given.
ValidateBootInfo ==
  /\ pc = "entered"
  /\ IF handed \subseteq window
       THEN /\ rejected' = Validation
            /\ pc' = IF Validation = "Ok" THEN "memory" ELSE "stopped"
       ELSE /\ pc' = "faulted"
            /\ UNCHANGED rejected
  /\ UNCHANGED <<machineVars, todo, framebuffer, highestRam, window, regions, truncated,
                 poolVars, warned, heap>>

RegionSet == Range(regions)
FramesOf(r) == r.start .. (RegionEnd(r) - 1)
FramesOfKind(k) == UNION {FramesOf(r) : r \in {q \in RegionSet : q.kind = k}}

\* Faulty variant of ExcessUsable: the comparison loses the remainder.
ExcessHugePages(n) == End(FramesOfKind("Usable")) \div HUGE_PAGES > n \div HUGE_PAGES

\* Usable memory lies above the n frames that are managed.
ExcessUsable(n) == End(FramesOfKind("Usable")) > n

\* from_memory_map, then what setup_memory reserves.  The allocator's audit
\* cannot fail.
SetupMemory ==
  /\ pc = "memory"
  /\ LET n == Min({Max({RegionEnd(r) : r \in RegionSet}), MAX_MANAGED})
         reserved == kernel \cup framebuffer \cup FramesOfKind("BootloaderReclaimable") \cup {0}
     IN  /\ managed' = 0 .. (n - 1)
         /\ free' = (FramesOfKind("Usable") \cap (0 .. (n - 1))) \ reserved
         /\ warned' = ExcessUsable(n)
  /\ pc' = "heap"
  /\ UNCHANGED <<machineVars, todo, framebuffer, highestRam, window, regions, truncated,
                 rejected, outcome, heap>>

\* setup_heap: the frames are used at their addresses in the window.
SetupHeap ==
  /\ pc = "heap"
  /\ \/ /\ Pool!Grant(HEAP_FRAMES)
        /\ heap' = Pool!Run(outcome'.frame, HEAP_FRAMES)
        /\ pc' = IF heap' \subseteq window THEN "running" ELSE "faulted"
     \/ /\ Pool!Deny(HEAP_FRAMES)
        /\ pc' = "stopped"
        /\ UNCHANGED heap
  /\ UNCHANGED <<machineVars, todo, framebuffer, highestRam, window, regions, truncated,
                 rejected, warned>>

Next ==
  \/ LoaderFails \/ AllocatePages \/ Query \/ BuildTables \/ ExitBootServices
  \/ ConvertMemoryMap \/ Jump
  \/ ValidateBootInfo \/ SetupMemory \/ SetupHeap

Spec == Init /\ [][Next]_vars

-----------------------------------------------------------------------------
(* Properties. *)

\* A boot that gets as far as the kernel faults for want of a mapping in two
\* cases only: the firmware put the loader's code above the identity map, or
\* it put the stack, the converted map or the boot information at or above
\* MAX_MAPPED_PHYSICAL, where highest_ram_address ends the window whatever the
\* loader has allocated.  Otherwise the code after the switch of page tables
\* and all that is handed over are mapped when they are first used, and the
\* heap is mapped in every case.
FaultsOnlyOutOfReach ==
  pc = "faulted" =>
    \/ \E p \in Of("LOADER_CODE") : p >= IDENTITY
    \/ \E p \in handed : p >= MAX_MAPPED

\* The heap lies in memory that was free when the firmware was left: it
\* overlaps neither the running kernel, nor its stack, its page tables and
\* its boot information, nor the framebuffer, nor frame zero (main.rs of the
\* kernel, "Handing any of them out would corrupt the running system").
HeapIsNobodyElses ==
  pc = "running" =>
    /\ heap \subseteq Of("CONVENTIONAL")
    /\ heap \cap (kernel \cup handed \cup kept \cup framebuffer \cup {0}) = {}

\* A well-formed firmware map, in whatever order and with whatever empty
\* entries, is never refused as malformed or unsorted, truncated or not; it
\* is refused for having no usable memory only when it has none, or when it
\* was truncated, which may lose any region.
GoodMapIsAccepted ==
  /\ rejected \notin {"NoMemoryMap", "MalformedRegion", "UnsortedMemoryMap"}
  /\ rejected = "NoUsableMemory" => truncated \/ Of("CONVENTIONAL") = {}

\* When the memory map was not truncated, every page that was free when the
\* firmware was left is in the pool or in the heap, except those set aside on purpose and, with a warning, those
\* above what the bitmap describes (main.rs of the kernel, "reports the
\* excess as unmanaged rather than silently ignoring it").
UsableMemoryIsAccountedFor ==
  pc = "running" /\ ~truncated =>
    \A p \in Of("CONVENTIONAL") :
      p \in free \cup heap \cup framebuffer \cup {0} \/ (p \notin managed /\ warned)

=============================================================================
