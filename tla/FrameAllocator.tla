--------------------------- MODULE FrameAllocator ---------------------------
(***************************************************************************)
(* The bitmap allocator of physical frames, kernel/loko-memory/src/lib.rs. *)
(*                                                                         *)
(* The fields of struct FrameAllocator are variables; the bitmap is the    *)
(* set of the indices whose bit is set.  allocate_contiguous and           *)
(* free_contiguous are loops, and each turn of a loop is a step, so that   *)
(* what the loops rely on can be stated and proved; the other methods are  *)
(* one step each.  The type is used through &mut self: no method starts    *)
(* while a loop is running.                                                *)
(*                                                                         *)
(* Callers are arbitrary: they ask for, free, release and reserve any      *)
(* frames at all, the ones they do not own and the ones outside the        *)
(* managed range included.                                                 *)
(***************************************************************************)
EXTENDS Integers, FiniteSets

CONSTANTS
  FRAME_SIZE,   \* bytes in a frame
  U64_MAX,      \* where saturating address arithmetic stops
  BITMAP_BITS,  \* frames the borrowed bitmap storage can describe
  Bases,        \* first frames an allocator may be created for
  MemoryMaps,   \* memory maps from_memory_map is called with
  Counts,       \* run lengths callers ask for
  FrameArgs,    \* frame numbers callers pass
  ByteRanges    \* <<start, len>> pairs passed to reserve_range

(***************************************************************************)
(* A memory map is a set of regions; the allocator looks only at where a   *)
(* region lies and at whether its memory is usable at handoff.             *)
(***************************************************************************)
Region == [start : Nat, len : Nat, usable : BOOLEAN]

ASSUME FrameAllocatorAssumption ==
  /\ FRAME_SIZE \in Nat \ {0}
  /\ U64_MAX \in Nat
  /\ BITMAP_BITS \in Nat
  /\ Bases \subseteq Nat
  /\ \A m \in MemoryMaps : m \subseteq Region /\ IsFiniteSet(m)
  /\ Counts \subseteq Nat
  /\ FrameArgs \subseteq Nat
  /\ \A r \in ByteRanges : r \in (0 .. U64_MAX) \X (0 .. U64_MAX)

VARIABLES
  bitmap,       \* indices of the set bits below frames: allocated or reserved
  base,         \* first frame managed
  frames,       \* how many frames are managed
  allocated,    \* the running count of set bits
  cursor,       \* where the last search stopped
  pc,           \* the loop that is running: "idle", "search", "validate", "free"
  arg,          \* its frame argument
  count,        \* its count argument
  pass,         \* which of the two start points a search uses
  index,        \* its loop variable
  outcome       \* the call that returned last, and its result

allocVars == <<bitmap, base, frames, allocated, cursor>>
loopVars == <<pc, arg, count, pass, index>>
vars == <<bitmap, base, frames, allocated, cursor,
          pc, arg, count, pass, index, outcome>>

Indices == 0 .. (frames - 1)

Outcome(op, frame, n, result) ==
  [op |-> op, frame |-> frame, count |-> n, result |-> result]

Ops == {"none", "allocate", "free", "release", "reserve", "reserve_range"}
Results == {"Ok", "OutOfMemory", "OutOfRange", "NotAllocated"}

-----------------------------------------------------------------------------
(* Construction. *)

\* FrameNumber::containing
Containing(address) == address \div FRAME_SIZE

\* MemoryRegion::end saturates at the top of the address space.
RegionEnd(r) == IF r.start + r.len > U64_MAX THEN U64_MAX ELSE r.start + r.len

\* The frames a usable region contributes: its start rounded down, its
\* length in whole frames.
RegionFrames(r) == Containing(r.start) .. (Containing(r.start) + (r.len \div FRAME_SIZE) - 1)

\* new: everything allocated.  More frames than the bitmap describes is
\* BitmapTooSmall, and there is then no allocator.
New(b, n) ==
  /\ n <= BITMAP_BITS
  /\ base = b
  /\ frames = n
  /\ bitmap = 0 .. (n - 1)
  /\ allocated = n

\* The highest end of any region, in frames, and no more than the bitmap
\* describes.
IsFrameCount(m, n) ==
  \/ m = {} /\ n = 0
  \/ \E r \in m :
       /\ \A q \in m : RegionEnd(q) <= RegionEnd(r)
       /\ n = IF RegionEnd(r) \div FRAME_SIZE > BITMAP_BITS
                THEN BITMAP_BITS ELSE RegionEnd(r) \div FRAME_SIZE

\* Frames 0 .. n-1 that some usable region contributes; the others of a
\* region are skipped as out of range.
UsableFrames(m, n) ==
  {i \in 0 .. (n - 1) : \E r \in m : r.usable /\ i \in RegionFrames(r)}

\* from_memory_map: new, then release of every frame of every usable region.
FromMemoryMap(m) ==
  \E n \in 0 .. BITMAP_BITS :
    /\ IsFrameCount(m, n)
    /\ base = 0
    /\ frames = n
    /\ bitmap = (0 .. (n - 1)) \ UsableFrames(m, n)
    /\ allocated = n - Cardinality(UsableFrames(m, n))

Init ==
  /\ \/ \E b \in Bases, n \in 0 .. BITMAP_BITS : New(b, n)
     \/ \E m \in MemoryMaps : FromMemoryMap(m)
  /\ cursor = 0
  /\ pc = "idle" /\ arg = 0 /\ count = 0 /\ pass = 1 /\ index = 0
  /\ outcome = Outcome("none", 0, 0, "Ok")

-----------------------------------------------------------------------------
(* Helpers of the methods. *)

\* index_of: frame f is managed.
InRange(f) == f >= base /\ f - base < frames

\* A method returns; a caller may start the next one.
Return(o) ==
  /\ outcome' = o
  /\ pc' = "idle" /\ arg' = 0 /\ count' = 0 /\ pass' = 1 /\ index' = 0

\* Faulty variant of FreeRun: the last bit of the window is not looked at.
FreeRunMissesLast(i, n) ==
  /\ i + n <= frames
  /\ \A k \in i .. (i + n - 2) : k \notin bitmap

\* Bits i .. i+n-1 exist and are clear.
FreeRun(i, n) ==
  /\ i + n <= frames
  /\ \A k \in i .. (i + n - 1) : k \notin bitmap

\* A loop starts.
Enter(loop, f, n, i) ==
  /\ pc' = loop /\ arg' = f /\ count' = n /\ pass' = 1 /\ index' = i
  /\ UNCHANGED outcome

-----------------------------------------------------------------------------
(* release, reserve, reserve_range. *)

\* Faulty variant of Release: not idempotent.
ReleaseTwice(f) ==
  /\ pc = "idle"
  /\ IF InRange(f)
       THEN /\ bitmap' = bitmap \ {f - base}
            /\ allocated' = allocated - 1
            /\ Return(Outcome("release", f, 1, "Ok"))
       ELSE /\ Return(Outcome("release", f, 1, "OutOfRange"))
            /\ UNCHANGED <<bitmap, allocated>>
  /\ UNCHANGED <<base, frames, cursor>>

\* Idempotent: only a set bit changes the count.  The cursor stays.
Release(f) ==
  /\ pc = "idle"
  /\ IF InRange(f)
       THEN /\ bitmap' = bitmap \ {f - base}
            /\ allocated' = IF f - base \in bitmap THEN allocated - 1 ELSE allocated
            /\ Return(Outcome("release", f, 1, "Ok"))
       ELSE /\ Return(Outcome("release", f, 1, "OutOfRange"))
            /\ UNCHANGED <<bitmap, allocated>>
  /\ UNCHANGED <<base, frames, cursor>>

Reserve(f) ==
  /\ pc = "idle"
  /\ IF InRange(f)
       THEN /\ bitmap' = bitmap \cup {f - base}
            /\ allocated' = IF f - base \in bitmap THEN allocated ELSE allocated + 1
            /\ Return(Outcome("reserve", f, 1, "Ok"))
       ELSE /\ Return(Outcome("reserve", f, 1, "OutOfRange"))
            /\ UNCHANGED <<bitmap, allocated>>
  /\ UNCHANGED <<base, frames, cursor>>

\* Faulty variant of LastByte: one past the end.
LastBytePastEnd(start, len) == IF start + len > U64_MAX THEN U64_MAX ELSE start + len

\* The last byte of a range that saturates at the top of the address space.
LastByte(start, len) ==
  IF start + (len - 1) > U64_MAX THEN U64_MAX ELSE start + (len - 1)

\* Indices of the managed frames that hold the first to the last byte.
RangeIndices(start, len) ==
  {i \in Indices : base + i \in Containing(start) .. Containing(LastByte(start, len))}

\* An empty range returns at once; the errors of reserve are dropped.
ReserveRange(start, len) ==
  /\ pc = "idle"
  /\ LET s == IF len = 0 THEN {} ELSE RangeIndices(start, len)
     IN  /\ bitmap' = bitmap \cup s
         /\ allocated' = allocated + Cardinality(s \ bitmap)
  /\ Return(Outcome("reserve_range", 0, 0, "Ok"))
  /\ UNCHANGED <<base, frames, cursor>>

-----------------------------------------------------------------------------
(* allocate_contiguous; allocate is allocate_contiguous(1). *)

AllocateContiguous(n) ==
  /\ pc = "idle"
  /\ \/ /\ n = 0 \/ n > frames
        /\ Return(Outcome("allocate", 0, n, "OutOfMemory"))
     \/ /\ n > 0 /\ n <= frames
        /\ Enter("search", 0, n, cursor)
  /\ UNCHANGED allocVars

\* The window fits and is clear: take it.
SearchTake ==
  /\ pc = "search"
  /\ FreeRun(index, count)
  /\ bitmap' = bitmap \cup (index .. (index + count - 1))
  /\ allocated' = allocated + count
  /\ cursor' = index + count
  /\ Return(Outcome("allocate", base + index, count, "Ok"))
  /\ UNCHANGED <<base, frames>>

\* b is first_allocated_in(index, index + count).
IsBlocker(b) ==
  /\ b \in bitmap
  /\ \A k \in index .. (b - 1) : k \notin bitmap

\* Faulty variant of SearchPastBlocker: the scan does not move past b.
SearchSticksAtBlocker ==
  /\ pc = "search"
  /\ index + count <= frames
  /\ \E b \in index .. (index + count - 1) :
       /\ IsBlocker(b)
       /\ index' = b
  /\ UNCHANGED <<allocVars, pc, arg, count, pass, outcome>>

\* The window fits and is blocked: restart just past the blocker.
SearchPastBlocker ==
  /\ pc = "search"
  /\ index + count <= frames
  /\ \E b \in index .. (index + count - 1) :
       /\ IsBlocker(b)
       /\ index' = b + 1
  /\ UNCHANGED <<allocVars, pc, arg, count, pass, outcome>>

\* The first pass is over: the second starts from zero.
SearchFromZero ==
  /\ pc = "search"
  /\ index + count > frames
  /\ pass = 1
  /\ pass' = 2 /\ index' = 0
  /\ UNCHANGED <<allocVars, pc, arg, count, outcome>>

\* Faulty variant of SearchExhausted: the second pass stops at the cursor.
SearchStopsAtCursor ==
  /\ pc = "search"
  /\ index + count > cursor
  /\ pass = 2
  /\ Return(Outcome("allocate", 0, count, "OutOfMemory"))
  /\ UNCHANGED allocVars

\* Both passes are over.
SearchExhausted ==
  /\ pc = "search"
  /\ index + count > frames
  /\ pass = 2
  /\ Return(Outcome("allocate", 0, count, "OutOfMemory"))
  /\ UNCHANGED allocVars

-----------------------------------------------------------------------------
(* free and free_contiguous. *)

\* What free(f) returns.
FreeResult(f) ==
  IF ~InRange(f) THEN "OutOfRange"
  ELSE IF f - base \notin bitmap THEN "NotAllocated" ELSE "Ok"

\* The state free(f) leaves when it returns Ok.
FreeBit(f) ==
  /\ bitmap' = bitmap \ {f - base}
  /\ allocated' = allocated - 1
  /\ cursor' = IF f - base < cursor THEN f - base ELSE cursor
  /\ UNCHANGED <<base, frames>>

Free(f) ==
  /\ pc = "idle"
  /\ IF FreeResult(f) = "Ok" THEN FreeBit(f) ELSE UNCHANGED allocVars
  /\ Return(Outcome("free", f, 1, FreeResult(f)))

FreeContiguous(f, n) ==
  /\ pc = "idle"
  /\ Enter("validate", f, n, 0)
  /\ UNCHANGED allocVars

\* One turn of the validating loop, which returns the first error it meets.
ValidateNext ==
  /\ pc = "validate"
  /\ index < count
  /\ LET r == FreeResult(arg + index)
     IN  \/ /\ r = "Ok"
            /\ index' = index + 1
            /\ UNCHANGED <<pc, arg, count, pass, outcome>>
         \/ /\ r # "Ok"
            /\ Return(Outcome("free", arg, count, r))
  /\ UNCHANGED allocVars

\* Faulty variant of ValidateDone: the freeing loop starts one frame late.
FreeingStartsLate ==
  /\ pc = "validate"
  /\ index = count
  /\ pc' = "free" /\ index' = IF count = 0 THEN 0 ELSE 1
  /\ UNCHANGED <<allocVars, arg, count, pass, outcome>>

ValidateDone ==
  /\ pc = "validate"
  /\ index = count
  /\ pc' = "free" /\ index' = 0
  /\ UNCHANGED <<allocVars, arg, count, pass, outcome>>

\* One turn of the freeing loop; an error of free would be returned.
FreeNext ==
  /\ pc = "free"
  /\ index < count
  /\ IF FreeResult(arg + index) = "Ok"
       THEN /\ FreeBit(arg + index)
            /\ index' = index + 1
            /\ UNCHANGED <<pc, arg, count, pass, outcome>>
       ELSE /\ Return(Outcome("free", arg, count, FreeResult(arg + index)))
            /\ UNCHANGED allocVars

FreeDone ==
  /\ pc = "free"
  /\ index = count
  /\ Return(Outcome("free", arg, count, "Ok"))
  /\ UNCHANGED allocVars

-----------------------------------------------------------------------------
\* A turn of a running loop.
LoopStep ==
  \/ SearchTake \/ SearchPastBlocker \/ SearchFromZero \/ SearchExhausted
  \/ ValidateNext \/ ValidateDone \/ FreeNext \/ FreeDone

\* A caller calls a method.
CallStep ==
  \/ \E n \in Counts : AllocateContiguous(n)
  \/ \E f \in FrameArgs : Release(f) \/ Reserve(f) \/ Free(f)
  \/ \E f \in FrameArgs, n \in Counts : FreeContiguous(f, n)
  \/ \E r \in ByteRanges : ReserveRange(r[1], r[2])

Next == LoopStep \/ CallStep

Spec == Init /\ [][Next]_vars

\* Once a method has been called the processor keeps running its loop; no
\* caller is obliged to call anything.
FairSpec == Spec /\ WF_vars(LoopStep)

-----------------------------------------------------------------------------
(* Properties. *)

\* Every field has its type, the bitmap describes managed frames only, and
\* the cursor and the loop variable of a search stay inside the bitmap.
TypeOK ==
  /\ base \in Nat /\ frames \in Nat
  /\ bitmap \subseteq Indices
  /\ allocated \in Int
  /\ cursor \in 0 .. frames
  /\ pc \in {"idle", "search", "validate", "free"}
  /\ arg \in Nat /\ count \in Nat /\ pass \in {1, 2} /\ index \in Nat
  /\ pc = "search" => index <= frames /\ count \in 1 .. frames
  /\ outcome \in [op : Ops, frame : Nat, count : Nat, result : Results]

\* The running count kept by release, reserve, allocate and free equals the
\* recount of the bitmap that audit makes, at every step of every loop.
Audit == allocated = Cardinality(bitmap)

\* allocate_contiguous reports OutOfMemory for a positive count only when no
\* free run of that length exists, wherever the cursor was and however the
\* frames below it became free.
OutOfMemoryIsGenuine ==
  outcome.result = "OutOfMemory" /\ outcome.count > 0 /\ pc = "idle"
    => \A i \in 0 .. frames : ~FreeRun(i, outcome.count)

\* Frame f holds a byte of [start, start + len) that exists.
Overlaps(f, start, len) ==
  \E a \in start .. (start + len - 1) : a <= U64_MAX /\ f = Containing(a)

\* Reserving a range takes the managed frames that hold one of its bytes and
\* gives none back: a range that ends on a frame boundary "does not reserve an
\* extra frame" (reserve_range), an empty one reserves nothing, one that
\* saturates reserves up to the last byte there is.
ReserveRangeIsExact ==
  [][\A r \in ByteRanges :
       ReserveRange(r[1], r[2]) =>
         bitmap' = bitmap \cup {i \in Indices : Overlaps(base + i, r[1], r[2])}]_vars

\* What the search relies on: a second pass has left no free run of the
\* requested length behind it.
SearchedPrefixHasNoRun ==
  pc = "search" /\ pass = 2 => \A i \in 0 .. (index - 1) : ~FreeRun(i, count)

\* What free_contiguous relies on: once the whole run is validated, free
\* cannot fail on any frame that is still to be freed, so the loop never
\* leaves a run half freed.
ValidatedRunIsAllocated ==
  /\ pc = "validate" =>
       /\ index <= count
       /\ \A k \in 0 .. (index - 1) : InRange(arg + k) /\ arg + k - base \in bitmap
  /\ pc = "free" =>
       /\ index <= count
       /\ \A k \in index .. (count - 1) : InRange(arg + k) /\ arg + k - base \in bitmap
       /\ \A k \in 0 .. (index - 1) : InRange(arg + k) /\ arg + k - base \notin bitmap

\* Frames that callers see as taken: a run that is being freed still counts
\* as held until the whole of it has been freed.
HeldIndices ==
  bitmap \cup (IF pc = "free" THEN {i \in Indices : base + i \in arg .. (arg + index - 1)} ELSE {})

Managed == base .. (base + frames - 1)
FreeFrames == {f \in Managed : f - base \notin HeldIndices}

Pool == INSTANCE FramePool WITH managed <- Managed, free <- FreeFrames

\* The allocator implements the pool: a granted run was wholly free, a
\* refusal is genuine, a failed free changes nothing and a free that
\* succeeds gives back exactly the run it was given.
ImplementsPool == Pool!Spec

\* Every call returns: both search passes end, and so do the two loops of
\* free_contiguous.
CallsReturn == pc # "idle" ~> pc = "idle"

=============================================================================
