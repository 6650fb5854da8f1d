------------------------ MODULE FrameAllocatorProofs ------------------------
(***************************************************************************)
(* Theorems about the frame allocator, for every bitmap size, memory map   *)
(* and sequence of calls, and about its callers, however many they are.    *)
(***************************************************************************)
EXTENDS FrameOwners, FiniteSetTheorems, TLAPS

-----------------------------------------------------------------------------
(* Facts about the helpers. *)

\* A bitmap that describes managed frames only is finite, so that its
\* cardinality behaves as a count.
LEMMA BitmapFinite ==
  ASSUME TypeOK
  PROVE  IsFiniteSet(bitmap) /\ Cardinality(bitmap) \in Nat
<1>1. IsFiniteSet(0 .. (frames - 1))
  BY FS_Interval, SMT DEF TypeOK
<1>2. bitmap \in SUBSET (0 .. (frames - 1))
  BY DEF TypeOK, Indices
<1>. QED
  BY <1>1, <1>2, FS_Subset, FS_CardinalityType

\* The highest region end, in frames, is at most what the bitmap describes,
\* and the usable frames are a finite subset of the managed ones.
LEMMA UsableFramesFinite ==
  ASSUME NEW m, NEW n \in Nat
  PROVE  /\ UsableFrames(m, n) \subseteq 0 .. (n - 1)
         /\ IsFiniteSet(UsableFrames(m, n))
         /\ Cardinality((0 .. (n - 1)) \ UsableFrames(m, n)) = n - Cardinality(UsableFrames(m, n))
<1> DEFINE all == 0 .. (n - 1)
           U == UsableFrames(m, n)
<1>1. U \subseteq all
  BY DEF UsableFrames
<1>2. IsFiniteSet(all) /\ Cardinality(all) = n
  <2>1. 0 \in Int /\ n - 1 \in Int /\ (IF 0 > n - 1 THEN 0 ELSE (n - 1) - 0 + 1) = n
    OBVIOUS
  <2>. QED BY <2>1, FS_Interval
<1>3. IsFiniteSet(U)
  BY <1>1, <1>2, FS_Subset
<1>4. all \cap U = U
  BY <1>1
<1>5. Cardinality(all \ U) = Cardinality(all) - Cardinality(all \cap U)
  BY <1>2, FS_Difference
<1>. QED
  BY <1>1, <1>2, <1>3, <1>4, <1>5

-----------------------------------------------------------------------------
(* Type correctness. *)

\* TypeOK holds initially, for an allocator made by new and for one made by
\* from_memory_map.
LEMMA InitTypeOK == Init => TypeOK
<1> SUFFICES ASSUME Init PROVE TypeOK
  OBVIOUS
<1>1. base \in Nat /\ frames \in Nat /\ bitmap \subseteq Indices /\ allocated \in Int
  <2>1. CASE \E b \in Bases, n \in 0 .. BITMAP_BITS : New(b, n)
    BY <2>1, FrameAllocatorAssumption DEF New, Indices
  <2>2. CASE \E m \in MemoryMaps : FromMemoryMap(m)
    <3>1. PICK m \in MemoryMaps, n \in 0 .. BITMAP_BITS :
            /\ base = 0 /\ frames = n
            /\ bitmap = (0 .. (n - 1)) \ UsableFrames(m, n)
            /\ allocated = n - Cardinality(UsableFrames(m, n))
      BY <2>2 DEF FromMemoryMap
    <3>2. n \in Nat
      BY FrameAllocatorAssumption
    <3>3. Cardinality(UsableFrames(m, n)) \in Nat
      BY <3>2, UsableFramesFinite, FS_CardinalityType
    <3>. QED
      BY <3>1, <3>2, <3>3 DEF Indices
  <2>. QED
    BY <2>1, <2>2 DEF Init
<1>. QED
  BY <1>1 DEF Init, TypeOK, Outcome, Ops, Results

\* A step that returns preserves TypeOK if it leaves the fields of the
\* allocator well typed.
LEMMA ReturnTypeOK ==
  ASSUME TypeOK,
         NEW op \in Ops, NEW f \in Nat, NEW n \in Nat, NEW r \in Results,
         Return(Outcome(op, f, n, r)),
         base' = base, frames' = frames,
         bitmap' \subseteq 0 .. (frames - 1),
         allocated' \in Int,
         cursor' \in 0 .. frames
  PROVE  TypeOK'
<1>1. outcome' \in [op : Ops, frame : Nat, count : Nat, result : Results]
  BY DEF Return, Outcome
<1>2. pc' = "idle" /\ arg' = 0 /\ count' = 0 /\ pass' = 1 /\ index' = 0
  BY DEF Return
<1>. QED
  BY <1>1, <1>2 DEF TypeOK, Indices

\* A step that leaves the fields of the allocator alone and returns.
LEMMA ReturnUnchangedTypeOK ==
  ASSUME TypeOK,
         NEW op \in Ops, NEW f \in Nat, NEW n \in Nat, NEW r \in Results,
         Return(Outcome(op, f, n, r)),
         UNCHANGED allocVars
  PROVE  TypeOK'
<1>1. /\ base' = base /\ frames' = frames
      /\ bitmap' \subseteq 0 .. (frames - 1)
      /\ allocated' \in Int
      /\ cursor' \in 0 .. frames
  BY DEF TypeOK, Indices, allocVars
<1>. QED
  BY <1>1, ReturnTypeOK

\* What a successful free does to the fields keeps them well typed.
LEMMA FreeBitType ==
  ASSUME TypeOK, NEW f \in Nat, FreeResult(f) = "Ok", FreeBit(f)
  PROVE  /\ f - base \in bitmap
         /\ base' = base /\ frames' = frames
         /\ bitmap' \subseteq 0 .. (frames - 1)
         /\ allocated' \in Int
         /\ cursor' \in 0 .. frames
  BY DEF TypeOK, Indices, FreeResult, FreeBit, InRange

\* Every step of every method preserves TypeOK.
LEMMA NextTypeOK == TypeOK /\ [Next]_vars => TypeOK'
<1> SUFFICES ASSUME TypeOK, [Next]_vars PROVE TypeOK'
  OBVIOUS
<1> USE FrameAllocatorAssumption
<1>1. ASSUME NEW n \in Counts, AllocateContiguous(n) PROVE TypeOK'
  BY <1>1 DEF AllocateContiguous, TypeOK, Indices, Outcome, Ops, Results, Return, Enter, allocVars
<1>2. ASSUME NEW f \in FrameArgs, Release(f) PROVE TypeOK'
  <2>1. f \in Nat /\ 1 \in Nat
    OBVIOUS
  <2>2. CASE InRange(f)
    <3>1. /\ Return(Outcome("release", f, 1, "Ok"))
          /\ base' = base /\ frames' = frames /\ cursor' = cursor
          /\ bitmap' = bitmap \ {f - base}
          /\ allocated' = IF f - base \in bitmap THEN allocated - 1 ELSE allocated
      BY <1>2, <2>2 DEF Release
    <3>2. /\ bitmap' \subseteq 0 .. (frames - 1)
          /\ allocated' \in Int
          /\ cursor' \in 0 .. frames
      BY <2>1, <2>2, <3>1 DEF TypeOK, Indices, InRange
    <3>. QED BY <2>1, <3>1, <3>2, ReturnTypeOK DEF Ops, Results
  <2>3. CASE ~InRange(f)
    <3>1. Return(Outcome("release", f, 1, "OutOfRange")) /\ UNCHANGED allocVars
      BY <1>2, <2>3 DEF Release, allocVars
    <3>. QED BY <2>1, <3>1, ReturnUnchangedTypeOK DEF Ops, Results
  <2>. QED BY <2>2, <2>3
<1>3. ASSUME NEW f \in FrameArgs, Reserve(f) PROVE TypeOK'
  <2>1. f \in Nat /\ 1 \in Nat
    OBVIOUS
  <2>2. CASE InRange(f)
    <3>1. /\ Return(Outcome("reserve", f, 1, "Ok"))
          /\ base' = base /\ frames' = frames /\ cursor' = cursor
          /\ bitmap' = bitmap \cup {f - base}
          /\ allocated' = IF f - base \in bitmap THEN allocated ELSE allocated + 1
      BY <1>3, <2>2 DEF Reserve
    <3>2. /\ bitmap' \subseteq 0 .. (frames - 1)
          /\ allocated' \in Int
          /\ cursor' \in 0 .. frames
      BY <2>1, <2>2, <3>1 DEF TypeOK, Indices, InRange
    <3>. QED BY <2>1, <3>1, <3>2, ReturnTypeOK DEF Ops, Results
  <2>3. CASE ~InRange(f)
    <3>1. Return(Outcome("reserve", f, 1, "OutOfRange")) /\ UNCHANGED allocVars
      BY <1>3, <2>3 DEF Reserve, allocVars
    <3>. QED BY <2>1, <3>1, ReturnUnchangedTypeOK DEF Ops, Results
  <2>. QED BY <2>2, <2>3
<1>4. ASSUME NEW f \in FrameArgs, Free(f) PROVE TypeOK'
  <2>1. f \in Nat /\ 1 \in Nat /\ FreeResult(f) \in Results
    BY DEF FreeResult, Results
  <2>2. Return(Outcome("free", f, 1, FreeResult(f)))
    BY <1>4 DEF Free
  <2>3. CASE FreeResult(f) = "Ok"
    BY <1>4, <2>1, <2>2, <2>3, FreeBitType, ReturnTypeOK DEF Free, Ops
  <2>4. CASE FreeResult(f) # "Ok"
    BY <1>4, <2>1, <2>2, <2>4, ReturnUnchangedTypeOK DEF Free, Ops
  <2>. QED BY <2>3, <2>4
<1>5. ASSUME NEW f \in FrameArgs, NEW n \in Counts, FreeContiguous(f, n) PROVE TypeOK'
  BY <1>5 DEF FreeContiguous, TypeOK, Indices, Enter, allocVars
<1>6. ASSUME NEW r \in ByteRanges, ReserveRange(r[1], r[2]) PROVE TypeOK'
  <2> DEFINE s == IF r[2] = 0 THEN {} ELSE RangeIndices(r[1], r[2])
  <2>1. s \subseteq 0 .. (frames - 1)
    BY DEF RangeIndices, Indices
  <2>2. IsFiniteSet(s \ bitmap)
    <3>1. IsFiniteSet(0 .. (frames - 1))
      BY FS_Interval, SMT DEF TypeOK
    <3>2. s \ bitmap \in SUBSET (0 .. (frames - 1))
      BY <2>1
    <3>. QED BY <3>1, <3>2, FS_Subset
  <2>3. Cardinality(s \ bitmap) \in Nat
    BY <2>2, FS_CardinalityType
  <2>4. bitmap' = bitmap \cup s /\ allocated' = allocated + Cardinality(s \ bitmap)
    BY <1>6 DEF ReserveRange
  <2>5. /\ Return(Outcome("reserve_range", 0, 0, "Ok"))
        /\ base' = base /\ frames' = frames /\ cursor' = cursor
    BY <1>6 DEF ReserveRange
  <2> HIDE DEF s
  <2>6. /\ bitmap' \subseteq 0 .. (frames - 1)
        /\ allocated' \in Int
        /\ cursor' \in 0 .. frames
    BY <2>1, <2>3, <2>4, <2>5 DEF TypeOK, Indices
  <2>. QED
    BY <2>5, <2>6, ReturnTypeOK DEF Ops, Results
<1>7. CASE SearchTake
  BY <1>7 DEF SearchTake, FreeRun, TypeOK, Indices, Outcome, Ops, Results, Return
<1>8. CASE SearchPastBlocker
  BY <1>8 DEF SearchPastBlocker, TypeOK, Indices, allocVars
<1>9. CASE SearchFromZero
  BY <1>9 DEF SearchFromZero, TypeOK, Indices, allocVars
<1>10. CASE SearchExhausted
  BY <1>10, ReturnUnchangedTypeOK DEF SearchExhausted, TypeOK, Ops, Results
<1>11. CASE ValidateNext
  BY <1>11 DEF ValidateNext, FreeResult, TypeOK, Indices, Outcome, Ops, Results, Return, allocVars
<1>12. CASE ValidateDone
  BY <1>12 DEF ValidateDone, TypeOK, Indices, allocVars
<1>13. CASE FreeNext
  <2>1. arg \in Nat /\ index \in Nat /\ count \in Nat /\ arg + index \in Nat
    BY DEF TypeOK
  <2>2. CASE FreeResult(arg + index) = "Ok"
    <3>1. FreeBit(arg + index) /\ index' = index + 1 /\ UNCHANGED <<pc, arg, count, pass, outcome>>
      BY <1>13, <2>2 DEF FreeNext
    <3>2. pc = "free"
      BY <1>13 DEF FreeNext
    <3>3. /\ base' = base /\ frames' = frames
          /\ bitmap' \subseteq 0 .. (frames - 1)
          /\ allocated' \in Int
          /\ cursor' \in 0 .. frames
      BY <2>1, <2>2, <3>1, FreeBitType
    <3>. QED BY <3>1, <3>2, <3>3 DEF TypeOK, Indices
  <2>3. CASE FreeResult(arg + index) # "Ok"
    <3>1. FreeResult(arg + index) \in Results
      BY DEF FreeResult, Results
    <3>. QED BY <1>13, <2>1, <2>3, <3>1, ReturnUnchangedTypeOK DEF FreeNext, Ops
  <2>. QED BY <2>2, <2>3
<1>14. CASE FreeDone
  BY <1>14, ReturnUnchangedTypeOK DEF FreeDone, TypeOK, Ops, Results
<1>15. CASE UNCHANGED vars
  BY <1>15 DEF vars, TypeOK, Indices
<1>. QED
  BY <1>1, <1>2, <1>3, <1>4, <1>5, <1>6, <1>7, <1>8, <1>9, <1>10, <1>11, <1>12,
     <1>13, <1>14, <1>15 DEF Next, LoopStep, CallStep

\* The allocator is type correct: in particular the bitmap never describes a
\* frame outside the managed range, and neither the cursor nor a search ever
\* leaves it.
THEOREM TypeCorrect == Spec => []TypeOK
  BY InitTypeOK, NextTypeOK, PTL DEF Spec

-----------------------------------------------------------------------------
(* What reserve_range takes. *)

\* A frame holds one of the bytes from the first to the last.
HoldsByte(f, first, last) == \E a \in first .. last : f = Containing(a)

\* A frame lies between those of two bytes exactly when it holds a byte between
\* them.
LEMMA FramesOfBytes ==
  ASSUME NEW x \in Nat, NEW y \in Nat, x <= y, NEW f \in Nat
  PROVE  f \in Containing(x) .. Containing(y) <=> HoldsByte(f, x, y)
<1> DEFINE d == FRAME_SIZE
<1>0. d \in Nat \ {0} /\ \A a : Containing(a) = a \div d
  BY FrameAllocatorAssumption DEF Containing
<1> HIDE DEF d
<1> DEFINE Parts(a, q) == q \in Nat /\ d * q <= a /\ a < d * q + d
<1>1. \A a \in Nat : Parts(a, a \div d) BY <1>0
<1>2. ASSUME NEW a \in Nat, NEW q, NEW b \in Nat, NEW p, Parts(a, q), Parts(b, p), a <= b
      PROVE  q <= p
  <2>1. d * q < d * p + d BY <1>0, <1>2
  <2>2. d * q < d * (p + 1) BY <1>0, <1>2, <2>1
  <2>3. q < p + 1 BY <1>0, <1>2, <2>2
  <2> QED BY <1>2, <2>3
<1>3. ASSUME NEW a \in x .. y, f = a \div d PROVE f \in (x \div d) .. (y \div d)
  <2>1. a \in Nat /\ x <= a /\ a <= y OBVIOUS
  <2>2. Parts(a, f) /\ Parts(x, x \div d) /\ Parts(y, y \div d) BY <1>1, <1>3, <2>1
  <2> DEFINE q == x \div d
             p == y \div d
  <2> HIDE DEF q, p
  <2>3. Parts(x, q) /\ Parts(y, p) BY <2>2 DEF q, p
  <2>4. q <= f /\ f <= p BY <1>2, <2>1, <2>2, <2>3
  <2>5. f \in q .. p BY <2>3, <2>4
  <2> QED BY <2>5 DEF q, p
<1>4. ASSUME f \in (x \div d) .. (y \div d) PROVE \E a \in x .. y : f = a \div d
  <2> DEFINE q == x \div d
             p == y \div d
  <2>1. Parts(x, q) /\ Parts(y, p) /\ q <= f /\ f <= p BY <1>1, <1>4
  <2>2. CASE f = q BY <2>2
  <2>3. CASE f > q
    <3> HIDE DEF q, p
    <3>1. d * f \in Nat /\ d * (q + 1) <= d * f /\ d * f <= d * p BY <1>0, <2>1, <2>3
    <3>2. d * (q + 1) = d * q + d BY <1>0, <2>1
    <3>3. d * f \in x .. y
      <4>1. d * q \in Nat /\ d * p \in Nat BY <1>0, <2>1
      <4> QED BY <1>0, <2>1, <3>1, <3>2, <4>1
    <3>4. (d * f) \div d = f BY <1>0
    <3> QED BY <3>3, <3>4
  <2> QED BY <2>1, <2>2, <2>3
<1> QED BY <1>0, <1>3, <1>4 DEF HoldsByte

\* The frames from that of the first byte to that of the last byte are those
\* that hold a byte of the range, also when the range saturates.
LEMMA RangeIsOverlap ==
  ASSUME TypeOK, NEW start \in 0 .. U64_MAX, NEW len \in 0 .. U64_MAX, len # 0
  PROVE  RangeIndices(start, len) = {i \in Indices : Overlaps(base + i, start, len)}
<1> DEFINE last == LastByte(start, len)
<1>1. /\ U64_MAX \in Nat /\ FRAME_SIZE \in Nat \ {0} /\ base \in Nat /\ frames \in Nat
  BY FrameAllocatorAssumption DEF TypeOK
<1>2. /\ last \in Nat /\ start \in Nat /\ start <= last
      /\ start .. last = {a \in start .. (start + len - 1) : a <= U64_MAX}
  <2> DEFINE end == start + len - 1
  <2>1. end \in Nat /\ start \in Nat /\ start <= end /\ start <= U64_MAX BY <1>1
  <2>2. last = IF end > U64_MAX THEN U64_MAX ELSE end
    <3>1. start + (len - 1) = end BY <1>1
    <3> QED BY <3>1 DEF LastByte
  <2> HIDE DEF end, last
  <2>3. last \in Nat /\ start <= last BY <1>1, <2>1, <2>2
  <2>4. \A a \in Int : a <= last <=> a <= end /\ a <= U64_MAX BY <1>1, <2>1, <2>2
  <2>5. start .. last = {a \in start .. end : a <= U64_MAX} BY <2>1, <2>3, <2>4
  <2> QED BY <2>1, <2>3, <2>5 DEF end
<1> HIDE DEF last
<1>3. ASSUME NEW i \in Indices
      PROVE  base + i \in Containing(start) .. Containing(last) <=> Overlaps(base + i, start, len)
  <2>1. base + i \in Nat BY <1>1 DEF Indices
  <2>2. base + i \in Containing(start) .. Containing(last)
          <=> HoldsByte(base + i, start, last)
    BY <1>2, <2>1, FramesOfBytes
  <2> QED BY <1>2, <2>2 DEF Overlaps, HoldsByte
<1> QED BY <1>3 DEF RangeIndices, last

\* reserve_range takes exactly the managed frames that hold a byte of the range,
\* for every size of a frame and every range of 64-bit addresses: none extra
\* where it ends on a boundary, none missing where it begins inside a frame or
\* runs past the last address.
THEOREM ReservesExactly == Spec => ReserveRangeIsExact
<1>1. ASSUME TypeOK, [Next]_vars
      PROVE  [\A r \in ByteRanges :
                ReserveRange(r[1], r[2]) =>
                  bitmap' = bitmap \cup {i \in Indices : Overlaps(base + i, r[1], r[2])}]_vars
  <2> SUFFICES ASSUME NEW r \in ByteRanges, ReserveRange(r[1], r[2])
               PROVE  bitmap' = bitmap \cup {i \in Indices : Overlaps(base + i, r[1], r[2])}
    OBVIOUS
  <2> DEFINE start == r[1]
             len == r[2]
  <2>1. start \in 0 .. U64_MAX /\ len \in 0 .. U64_MAX BY FrameAllocatorAssumption
  <2>2. bitmap' = bitmap \cup (IF len = 0 THEN {} ELSE RangeIndices(start, len))
    BY DEF ReserveRange
  <2> HIDE DEF start, len
  <2>3. CASE len = 0
    <3>1. start .. (start + len - 1) = {} BY <2>1, <2>3, FrameAllocatorAssumption
    <3>2. \A i \in Indices : ~Overlaps(base + i, start, len) BY <3>1 DEF Overlaps
    <3> QED BY <2>2, <2>3, <3>2 DEF start, len
  <2>4. CASE len # 0 BY <1>1, <2>1, <2>2, <2>4, RangeIsOverlap DEF start, len
  <2> QED BY <2>3, <2>4
<1> QED BY <1>1, TypeCorrect, PTL DEF Spec, ReserveRangeIsExact

-----------------------------------------------------------------------------
(* The running count. *)

\* Adding T to S adds as many elements as T has outside S.
LEMMA CardinalityOfAdded ==
  ASSUME NEW S, NEW T, IsFiniteSet(S), IsFiniteSet(T)
  PROVE  Cardinality(S \cup T) = Cardinality(S) + Cardinality(T \ S)
<1>1. IsFiniteSet(T \ S)
  BY FS_Difference
<1>2. S \cup T = S \cup (T \ S) /\ S \cap (T \ S) = {}
  OBVIOUS
<1>3. Cardinality(S \cup (T \ S)) = Cardinality(S) + Cardinality(T \ S) - Cardinality(S \cap (T \ S))
  BY <1>1, FS_Union
<1>4. Cardinality(S \cap (T \ S)) = 0
  BY <1>2, FS_EmptySet
<1>5. Cardinality(S) \in Nat /\ Cardinality(T \ S) \in Nat
  BY <1>1, FS_CardinalityType
<1>6. Cardinality(S \cup T) = Cardinality(S \cup (T \ S))
  BY <1>2
<1>. QED
  BY <1>3, <1>4, <1>5, <1>6

\* A run of n clear bits adds exactly n set bits.
LEMMA CardinalityOfTakenRun ==
  ASSUME TypeOK, NEW i \in Nat, NEW n \in Nat, FreeRun(i, n)
  PROVE  Cardinality(bitmap \cup (i .. (i + n - 1))) = Cardinality(bitmap) + n
<1> DEFINE run == i .. (i + n - 1)
<1>1. IsFiniteSet(run) /\ Cardinality(run) = n
  <2>1. i \in Int /\ i + n - 1 \in Int /\ (IF i > i + n - 1 THEN 0 ELSE (i + n - 1) - i + 1) = n
    OBVIOUS
  <2>. QED BY <2>1, FS_Interval
<1>2. run \ bitmap = run
  BY DEF FreeRun
<1>. QED
  BY <1>1, <1>2, BitmapFinite, CardinalityOfAdded

\* Clearing a set bit takes one from the count.
LEMMA CardinalityOfFreedBit ==
  ASSUME TypeOK, Audit, NEW f \in Nat, FreeResult(f) = "Ok", FreeBit(f)
  PROVE  Audit'
<1>1. f - base \in bitmap
  BY FreeBitType
<1>2. Cardinality(bitmap \ {f - base}) = Cardinality(bitmap) - 1
  BY <1>1, BitmapFinite, FS_RemoveElement
<1>. QED
  BY <1>2 DEF Audit, FreeBit

\* The count is right when the allocator is created.
LEMMA InitAudit == Init => Audit
<1> SUFFICES ASSUME Init PROVE Audit
  OBVIOUS
<1> USE FrameAllocatorAssumption
<1>1. CASE \E b \in Bases, n \in 0 .. BITMAP_BITS : New(b, n)
  <2>1. PICK n \in 0 .. BITMAP_BITS : bitmap = 0 .. (n - 1) /\ allocated = n
    BY <1>1 DEF New
  <2>2. n \in Nat /\ 0 \in Int /\ n - 1 \in Int /\ (IF 0 > n - 1 THEN 0 ELSE (n - 1) - 0 + 1) = n
    OBVIOUS
  <2>. QED BY <2>1, <2>2, FS_Interval DEF Audit
<1>2. CASE \E m \in MemoryMaps : FromMemoryMap(m)
  <2>1. PICK m \in MemoryMaps, n \in 0 .. BITMAP_BITS :
          /\ bitmap = (0 .. (n - 1)) \ UsableFrames(m, n)
          /\ allocated = n - Cardinality(UsableFrames(m, n))
    BY <1>2 DEF FromMemoryMap
  <2>2. n \in Nat
    OBVIOUS
  <2>. QED BY <2>1, <2>2, UsableFramesFinite DEF Audit
<1>. QED BY <1>1, <1>2 DEF Init

\* Every step keeps the count equal to the number of set bits.
LEMMA NextAudit == TypeOK /\ Audit /\ [Next]_vars => Audit'
<1> SUFFICES ASSUME TypeOK, Audit, [Next]_vars PROVE Audit'
  OBVIOUS
<1> USE FrameAllocatorAssumption
<1>1. ASSUME UNCHANGED allocVars PROVE Audit'
  BY <1>1 DEF Audit, allocVars
<1>2. ASSUME NEW n \in Counts, AllocateContiguous(n) PROVE Audit'
  BY <1>1, <1>2 DEF AllocateContiguous
<1>3. ASSUME NEW f \in FrameArgs, Release(f) PROVE Audit'
  <2>1. CASE InRange(f)
    <3>1. /\ bitmap' = bitmap \ {f - base}
          /\ allocated' = IF f - base \in bitmap THEN allocated - 1 ELSE allocated
      BY <1>3, <2>1 DEF Release
    <3>2. Cardinality(bitmap \ {f - base}) =
            IF f - base \in bitmap THEN Cardinality(bitmap) - 1 ELSE Cardinality(bitmap)
      BY BitmapFinite, FS_RemoveElement
    <3>. QED BY <3>1, <3>2 DEF Audit
  <2>2. CASE ~InRange(f)
    BY <1>3, <2>2 DEF Release, Audit
  <2>. QED BY <2>1, <2>2
<1>4. ASSUME NEW f \in FrameArgs, Reserve(f) PROVE Audit'
  <2>1. CASE InRange(f)
    <3>1. /\ bitmap' = bitmap \cup {f - base}
          /\ allocated' = IF f - base \in bitmap THEN allocated ELSE allocated + 1
      BY <1>4, <2>1 DEF Reserve
    <3>2. Cardinality(bitmap \cup {f - base}) =
            IF f - base \in bitmap THEN Cardinality(bitmap) ELSE Cardinality(bitmap) + 1
      BY BitmapFinite, FS_AddElement
    <3>. QED BY <3>1, <3>2 DEF Audit
  <2>2. CASE ~InRange(f)
    BY <1>4, <2>2 DEF Reserve, Audit
  <2>. QED BY <2>1, <2>2
<1>5. ASSUME NEW f \in FrameArgs, Free(f) PROVE Audit'
  <2>1. f \in Nat
    OBVIOUS
  <2>. QED BY <1>1, <1>5, <2>1, CardinalityOfFreedBit DEF Free
<1>6. ASSUME NEW f \in FrameArgs, NEW n \in Counts, FreeContiguous(f, n) PROVE Audit'
  BY <1>1, <1>6 DEF FreeContiguous
<1>7. ASSUME NEW r \in ByteRanges, ReserveRange(r[1], r[2]) PROVE Audit'
  <2> DEFINE s == IF r[2] = 0 THEN {} ELSE RangeIndices(r[1], r[2])
  <2>1. s \in SUBSET (0 .. (frames - 1))
    BY DEF RangeIndices, Indices
  <2>2. IsFiniteSet(s)
    <3>1. IsFiniteSet(0 .. (frames - 1))
      BY FS_Interval, SMT DEF TypeOK
    <3>. QED BY <2>1, <3>1, FS_Subset
  <2>3. bitmap' = bitmap \cup s /\ allocated' = allocated + Cardinality(s \ bitmap)
    BY <1>7 DEF ReserveRange
  <2>4. Cardinality(bitmap \cup s) = Cardinality(bitmap) + Cardinality(s \ bitmap)
    BY <2>2, BitmapFinite, CardinalityOfAdded
  <2> HIDE DEF s
  <2>. QED BY <2>3, <2>4 DEF Audit
<1>8. CASE SearchTake
  <2>1. /\ FreeRun(index, count) /\ index \in Nat /\ count \in Nat
        /\ bitmap' = bitmap \cup (index .. (index + count - 1))
        /\ allocated' = allocated + count
    BY <1>8 DEF SearchTake, TypeOK
  <2>2. Cardinality(bitmap \cup (index .. (index + count - 1))) = Cardinality(bitmap) + count
    BY <2>1, CardinalityOfTakenRun
  <2>. QED BY <2>1, <2>2 DEF Audit
<1>9. CASE SearchPastBlocker \/ SearchFromZero \/ SearchExhausted \/ ValidateNext \/ ValidateDone \/ FreeDone
  BY <1>1, <1>9 DEF SearchPastBlocker, SearchFromZero, SearchExhausted, ValidateNext,
     ValidateDone, FreeDone, allocVars
<1>10. CASE FreeNext
  <2>1. arg + index \in Nat
    BY DEF TypeOK
  <2>. QED BY <1>1, <1>10, <2>1, CardinalityOfFreedBit DEF FreeNext
<1>11. CASE UNCHANGED vars
  BY <1>1, <1>11 DEF vars, allocVars
<1>. QED
  BY <1>2, <1>3, <1>4, <1>5, <1>6, <1>7, <1>8, <1>9, <1>10, <1>11 DEF Next, LoopStep, CallStep

\* audit never finds a drift between the running count and the bitmap,
\* whatever the callers do.
THEOREM AuditAlwaysSucceeds == Spec => []Audit
<1>1. Init => TypeOK /\ Audit
  BY InitTypeOK, InitAudit
<1>2. (TypeOK /\ Audit) /\ [Next]_vars => (TypeOK /\ Audit)'
  BY NextTypeOK, NextAudit
<1>. QED
  BY <1>1, <1>2, PTL DEF Spec

-----------------------------------------------------------------------------
(* The search and the two loops of free_contiguous. *)

\* Only the steps of a running second pass can disturb what it has
\* established: every other step leaves no search in its second pass.
LEMMA NextSearched ==
  TypeOK /\ SearchedPrefixHasNoRun /\ [Next]_vars => SearchedPrefixHasNoRun'
<1> SUFFICES ASSUME TypeOK, SearchedPrefixHasNoRun, [Next]_vars PROVE SearchedPrefixHasNoRun'
  OBVIOUS
<1>1. CASE SearchPastBlocker
  <2> SUFFICES ASSUME pass = 2, NEW i \in 0 .. (index' - 1), FreeRun(i, count)' PROVE FALSE
    BY <1>1 DEF SearchPastBlocker, SearchedPrefixHasNoRun
  <2>1. PICK b \in index .. (index + count - 1) : IsBlocker(b) /\ index' = b + 1
    BY <1>1 DEF SearchPastBlocker
  <2>2. FreeRun(i, count)
    BY <1>1 DEF SearchPastBlocker, FreeRun, allocVars
  <2>3. ~(i < index)
    BY <1>1, <2>2 DEF SearchPastBlocker, SearchedPrefixHasNoRun, TypeOK
  <2>4. b \in i .. (i + count - 1)
    BY <2>1, <2>3 DEF TypeOK
  <2>. QED BY <2>1, <2>2, <2>4 DEF FreeRun, IsBlocker
<1>2. CASE SearchFromZero
  BY <1>2 DEF SearchFromZero, SearchedPrefixHasNoRun
<1>3. CASE UNCHANGED vars
  BY <1>3 DEF vars, SearchedPrefixHasNoRun, FreeRun
<1>4. CASE LoopStep /\ ~SearchPastBlocker /\ ~SearchFromZero
  <2>1. pc' # "search"
    BY <1>4 DEF LoopStep, SearchTake, SearchExhausted, ValidateNext, ValidateDone, FreeNext,
       FreeDone, Return
  <2>. QED BY <2>1 DEF SearchedPrefixHasNoRun
<1>5. CASE CallStep
  <2>1. pass' = 1
    BY <1>5 DEF CallStep, AllocateContiguous, Release, Reserve, Free, FreeContiguous,
       ReserveRange, Return, Enter
  <2>. QED BY <2>1 DEF SearchedPrefixHasNoRun
<1>. QED BY <1>1, <1>2, <1>3, <1>4, <1>5 DEF Next

\* A refusal is genuine: either the count exceeds the managed frames, or the
\* second pass has gone over every start point.
LEMMA NextGenuine ==
  TypeOK /\ SearchedPrefixHasNoRun /\ OutOfMemoryIsGenuine /\ [Next]_vars => OutOfMemoryIsGenuine'
<1> SUFFICES ASSUME TypeOK, SearchedPrefixHasNoRun, OutOfMemoryIsGenuine, [Next]_vars
             PROVE  OutOfMemoryIsGenuine'
  OBVIOUS
<1> USE FrameAllocatorAssumption
<1>1. ASSUME NEW n \in Counts, AllocateContiguous(n) PROVE OutOfMemoryIsGenuine'
  <2>1. CASE n = 0 \/ n > frames
    BY <1>1, <2>1 DEF AllocateContiguous, Return, Outcome, OutOfMemoryIsGenuine, FreeRun, TypeOK, allocVars
  <2>2. CASE n > 0 /\ n <= frames
    <3>1. pc' = "search"
      BY <1>1, <2>2 DEF AllocateContiguous, Enter, TypeOK
    <3>. QED BY <3>1 DEF OutOfMemoryIsGenuine
  <2>. QED BY <1>1, <2>1, <2>2 DEF AllocateContiguous
<1>2. CASE SearchExhausted
  <2> SUFFICES ASSUME NEW i \in 0 .. frames, FreeRun(i, count) PROVE FALSE
    BY <1>2 DEF SearchExhausted, Return, Outcome, OutOfMemoryIsGenuine, FreeRun, allocVars
  <2>1. i < index
    BY <1>2 DEF SearchExhausted, FreeRun, TypeOK
  <2>. QED BY <1>2, <2>1 DEF SearchExhausted, SearchedPrefixHasNoRun, TypeOK
<1>3. CASE UNCHANGED vars
  BY <1>3 DEF vars, OutOfMemoryIsGenuine, FreeRun
<1>4. CASE LoopStep /\ ~SearchExhausted
  <2>1. pc' # "idle" \/ outcome'.result # "OutOfMemory"
    BY <1>4 DEF LoopStep, SearchTake, SearchPastBlocker, SearchFromZero, ValidateNext, ValidateDone,
       FreeNext, FreeDone, FreeResult, Return, Outcome
  <2>. QED BY <2>1 DEF OutOfMemoryIsGenuine
<1>5. CASE CallStep /\ ~(\E n \in Counts : AllocateContiguous(n))
  <2>1. pc' # "idle" \/ outcome'.result # "OutOfMemory"
    <3>1. ASSUME NEW f \in FrameArgs, Release(f) \/ Reserve(f) PROVE outcome'.result # "OutOfMemory"
      BY <3>1 DEF Release, Reserve, Return, Outcome
    <3>2. ASSUME NEW f \in FrameArgs, Free(f) PROVE outcome'.result # "OutOfMemory"
      BY <3>2 DEF Free, FreeResult, Return, Outcome
    <3>3. ASSUME NEW f \in FrameArgs, NEW n \in Counts, FreeContiguous(f, n) PROVE pc' # "idle"
      BY <3>3 DEF FreeContiguous, Enter
    <3>4. ASSUME NEW r \in ByteRanges, ReserveRange(r[1], r[2]) PROVE outcome'.result # "OutOfMemory"
      BY <3>4 DEF ReserveRange, Return, Outcome
    <3>. QED BY <1>5, <3>1, <3>2, <3>3, <3>4 DEF CallStep
  <2>. QED BY <2>1 DEF OutOfMemoryIsGenuine
<1>. QED BY <1>1, <1>2, <1>3, <1>4, <1>5 DEF Next, CallStep

\* Out of memory is reported only when no free run of the requested length
\* exists: the search is complete for every bitmap and every cursor.
THEOREM RefusalsAreGenuine == Spec => []OutOfMemoryIsGenuine
<1> DEFINE I == TypeOK /\ SearchedPrefixHasNoRun /\ OutOfMemoryIsGenuine
<1>1. Init => I
  BY InitTypeOK DEF Init, SearchedPrefixHasNoRun, OutOfMemoryIsGenuine, Outcome
<1>2. I /\ [Next]_vars => I'
  BY NextTypeOK, NextSearched, NextGenuine
<1>3. I => OutOfMemoryIsGenuine
  OBVIOUS
<1>. QED
  BY <1>1, <1>2, <1>3, PTL DEF Spec

\* A search never leaves a free run of the length it looks for behind its
\* second pass (allocate_contiguous, the jump past a blocker).
THEOREM SearchLeavesNothingBehind == Spec => []SearchedPrefixHasNoRun
<1>1. Init => TypeOK /\ SearchedPrefixHasNoRun
  BY InitTypeOK DEF Init, SearchedPrefixHasNoRun
<1>2. (TypeOK /\ SearchedPrefixHasNoRun) /\ [Next]_vars => (TypeOK /\ SearchedPrefixHasNoRun)'
  BY NextTypeOK, NextSearched
<1>. QED
  BY <1>1, <1>2, PTL DEF Spec

\* Validation establishes, and freeing preserves, that every frame still to
\* be freed is managed and allocated.
LEMMA NextValidated ==
  TypeOK /\ ValidatedRunIsAllocated /\ [Next]_vars => ValidatedRunIsAllocated'
<1> SUFFICES ASSUME TypeOK, ValidatedRunIsAllocated, [Next]_vars PROVE ValidatedRunIsAllocated'
  OBVIOUS
<1>0. arg \in Nat /\ index \in Nat /\ count \in Nat /\ base \in Nat /\ frames \in Nat
  BY DEF TypeOK
<1>1. ASSUME pc' = "idle" \/ pc' = "search" PROVE ValidatedRunIsAllocated'
  BY <1>1 DEF ValidatedRunIsAllocated
<1>2. ASSUME NEW f \in FrameArgs, NEW n \in Counts, FreeContiguous(f, n)
      PROVE  ValidatedRunIsAllocated'
  BY <1>2, FrameAllocatorAssumption DEF FreeContiguous, Enter, ValidatedRunIsAllocated
<1>3. CASE ValidateNext
  <2>1. CASE FreeResult(arg + index) = "Ok"
    <3>1. /\ pc = "validate" /\ index < count /\ index' = index + 1
          /\ UNCHANGED <<bitmap, base, frames, pc, arg, count>>
      BY <1>3, <2>1 DEF ValidateNext, allocVars
    <3>2. InRange(arg + index) /\ arg + index - base \in bitmap
      BY <1>0, <2>1 DEF FreeResult, InRange
    <3>3. \A k \in 0 .. (index - 1) : InRange(arg + k) /\ arg + k - base \in bitmap
      BY <3>1 DEF ValidatedRunIsAllocated
    <3>4. \A k \in 0 .. index : InRange(arg + k) /\ arg + k - base \in bitmap
      <4> TAKE k \in 0 .. index
      <4>1. CASE k = index BY <3>2, <4>1
      <4>2. CASE k \in 0 .. (index - 1) BY <3>3, <4>2
      <4>. QED BY <1>0, <4>1, <4>2
    <3>5. pc' = "validate" /\ index' <= count' /\ index' - 1 = index
      BY <1>0, <3>1
    <3>. QED BY <3>1, <3>4, <3>5 DEF ValidatedRunIsAllocated, InRange
  <2>2. CASE FreeResult(arg + index) # "Ok"
    BY <1>1, <1>3, <2>2 DEF ValidateNext, Return
  <2>. QED BY <2>1, <2>2
<1>4. CASE ValidateDone
  BY <1>4 DEF ValidateDone, ValidatedRunIsAllocated, InRange, TypeOK, allocVars
<1>5. CASE FreeNext
  <2>1. FreeResult(arg + index) = "Ok"
    BY <1>5 DEF FreeNext, FreeResult, ValidatedRunIsAllocated, TypeOK
  <2>2. /\ pc = "free" /\ index < count /\ index' = index + 1
        /\ bitmap' = bitmap \ {arg + index - base}
        /\ UNCHANGED <<base, frames, pc, arg, count>>
    <3>1. FreeBit(arg + index) /\ index' = index + 1 /\ UNCHANGED <<pc, arg, count, pass, outcome>>
      BY <1>5, <2>1 DEF FreeNext
    <3>2. pc = "free" /\ index < count
      BY <1>5 DEF FreeNext
    <3>. QED BY <1>0, <3>1, <3>2 DEF FreeBit
  <2>3. \A k \in index .. (count - 1) : InRange(arg + k) /\ arg + k - base \in bitmap
    BY <2>2 DEF ValidatedRunIsAllocated
  <2>4. \A k \in 0 .. (index - 1) : InRange(arg + k) /\ arg + k - base \notin bitmap
    BY <2>2 DEF ValidatedRunIsAllocated
  <2>5. \A k \in index' .. (count' - 1) : InRange(arg + k)' /\ arg' + k - base' \in bitmap'
    <3> SUFFICES ASSUME NEW k \in (index + 1) .. (count - 1)
                 PROVE  InRange(arg + k) /\ arg + k - base \in bitmap'
      BY <2>2 DEF InRange
    <3>1. k \in index .. (count - 1) /\ arg + k - base # arg + index - base
      BY <1>0
    <3>. QED BY <2>2, <2>3, <3>1
  <2>6. \A k \in 0 .. (index' - 1) : InRange(arg + k)' /\ arg' + k - base' \notin bitmap'
    <3> SUFFICES ASSUME NEW k \in 0 .. index
                 PROVE  InRange(arg + k) /\ arg + k - base \notin bitmap'
      BY <1>0, <2>2 DEF InRange
    <3>1. CASE k = index
      BY <1>0, <2>2, <2>3, <3>1
    <3>2. CASE k \in 0 .. (index - 1)
      BY <2>2, <2>4, <3>2
    <3>. QED BY <1>0, <3>1, <3>2
  <2>7. pc' = "free" /\ index' <= count'
    BY <2>2 DEF TypeOK
  <2>. QED BY <2>5, <2>6, <2>7 DEF ValidatedRunIsAllocated
<1>6. CASE UNCHANGED vars
  BY <1>6 DEF vars, ValidatedRunIsAllocated, InRange
<1>7. CASE SearchTake \/ SearchPastBlocker \/ SearchFromZero \/ SearchExhausted \/ FreeDone
  <2>1. pc' = "idle" \/ pc' = "search"
    BY <1>7 DEF SearchTake, SearchPastBlocker, SearchFromZero, SearchExhausted, FreeDone, Return
  <2>. QED BY <1>1, <2>1
<1>8. CASE CallStep /\ ~(\E f \in FrameArgs, n \in Counts : FreeContiguous(f, n))
  <2>1. pc' = "idle" \/ pc' = "search"
    BY <1>8 DEF CallStep, AllocateContiguous, Release, Reserve, Free, ReserveRange, Return, Enter
  <2>. QED BY <1>1, <2>1
<1>. QED BY <1>2, <1>3, <1>4, <1>5, <1>6, <1>7, <1>8 DEF Next, LoopStep, CallStep

\* Once a run has been validated, freeing it cannot fail halfway: every frame
\* still to be freed is managed and allocated, every frame passed is free.
THEOREM FreesAreAllOrNothing == Spec => []ValidatedRunIsAllocated
<1> DEFINE I == TypeOK /\ ValidatedRunIsAllocated
<1>1. Init => I
  BY InitTypeOK DEF Init, ValidatedRunIsAllocated
<1>2. I /\ [Next]_vars => I'
  BY NextTypeOK, NextValidated
<1>3. I => ValidatedRunIsAllocated
  OBVIOUS
<1>. QED
  BY <1>1, <1>2, <1>3, PTL DEF Spec

-----------------------------------------------------------------------------
(* The allocator implements the pool. *)

\* A running loop works on arguments some caller passed.
ArgumentsAreCallers ==
  /\ pc # "idle" => count \in Counts
  /\ pc \in {"validate", "free"} => arg \in FrameArgs

\* The invariant the step simulation rests on.
PoolInv == TypeOK /\ SearchedPrefixHasNoRun /\ ValidatedRunIsAllocated /\ ArgumentsAreCallers

\* A step that changes neither the managed range, nor what callers see as
\* held, nor the last outcome, is invisible in the pool.
LEMMA InvisibleStep ==
  ASSUME base' = base, frames' = frames, HeldIndices' = HeldIndices, outcome' = outcome
  PROVE  UNCHANGED Pool!poolVars
  BY DEF Pool!poolVars, Managed, FreeFrames

\* Outside the freeing loop callers see the bitmap itself.
LEMMA HeldIsBitmap ==
  /\ pc # "free" => HeldIndices = bitmap
  /\ (pc # "free")' => HeldIndices' = bitmap'
  BY DEF HeldIndices

\* While a run is being freed it is still seen as held.
LEMMA HeldWhileFreeing ==
  ASSUME TypeOK, ValidatedRunIsAllocated, FreeNext
  PROVE  /\ base' = base /\ frames' = frames /\ outcome' = outcome
         /\ HeldIndices' = HeldIndices
<1>0. arg \in Nat /\ index \in Nat /\ count \in Nat /\ base \in Nat /\ frames \in Nat
  BY DEF TypeOK
<1>1. FreeResult(arg + index) = "Ok"
  BY DEF FreeNext, FreeResult, ValidatedRunIsAllocated, TypeOK
<1>2. FreeBit(arg + index) /\ index' = index + 1 /\ UNCHANGED <<pc, arg, count, pass, outcome>>
  BY <1>1 DEF FreeNext
<1>3. pc = "free" /\ index < count
  BY DEF FreeNext
<1>4. arg + index - base \in bitmap /\ bitmap \subseteq Indices
  BY <1>0, <1>1 DEF FreeResult, InRange, TypeOK
<1>5. /\ bitmap' = bitmap \ {arg + index - base}
      /\ base' = base /\ frames' = frames /\ outcome' = outcome
      /\ pc' = "free" /\ arg' = arg /\ index' = index + 1
  BY <1>0, <1>2, <1>3 DEF FreeBit
<1>6. HeldIndices = bitmap \cup {i \in Indices : base + i \in arg .. (arg + index - 1)}
  BY <1>3 DEF HeldIndices
<1>7. HeldIndices' = (bitmap \ {arg + index - base})
                       \cup {i \in Indices : base + i \in arg .. (arg + index)}
  <2>1. Indices' = Indices
    BY <1>5 DEF Indices
  <2>2. HeldIndices' = bitmap' \cup {i \in Indices' : base' + i \in arg' .. (arg' + index' - 1)}
    BY <1>5 DEF HeldIndices
  <2>3. arg' + index' - 1 = arg + index
    BY <1>0, <1>5
  <2>. QED BY <1>5, <2>1, <2>2, <2>3
<1>8. ASSUME NEW i PROVE i \in HeldIndices' <=> i \in HeldIndices
  <2>1. CASE i \in Indices
    <3>1. i \in Int
      BY <1>0, <2>1 DEF Indices
    <3>2. CASE i = arg + index - base
      BY <1>0, <1>4, <1>6, <1>7, <2>1, <3>1, <3>2
    <3>3. CASE i # arg + index - base
      BY <1>0, <1>6, <1>7, <2>1, <3>1, <3>3
    <3>. QED BY <3>2, <3>3
  <2>2. CASE i \notin Indices
    BY <1>4, <1>6, <1>7, <2>2
  <2>. QED BY <2>1, <2>2
<1>. QED BY <1>5, <1>8

\* Every step keeps the arguments of a loop.
LEMMA NextArguments == TypeOK /\ ArgumentsAreCallers /\ [Next]_vars => ArgumentsAreCallers'
<1> SUFFICES ASSUME TypeOK, ArgumentsAreCallers, [Next]_vars PROVE ArgumentsAreCallers'
  OBVIOUS
<1>1. ASSUME pc' = "idle" PROVE ArgumentsAreCallers'
  BY <1>1 DEF ArgumentsAreCallers
<1>2. CASE UNCHANGED vars
  BY <1>2 DEF vars, ArgumentsAreCallers
<1>3. CASE CallStep
  <2>1. CASE \E n \in Counts : AllocateContiguous(n)
    BY <2>1 DEF AllocateContiguous, Return, Enter, ArgumentsAreCallers
  <2>2. CASE \E f \in FrameArgs, n \in Counts : FreeContiguous(f, n)
    BY <2>2 DEF FreeContiguous, Enter, ArgumentsAreCallers
  <2>3. CASE (\E f \in FrameArgs : Release(f) \/ Reserve(f) \/ Free(f))
             \/ (\E r \in ByteRanges : ReserveRange(r[1], r[2]))
    BY <1>1, <2>3 DEF Release, Reserve, Free, ReserveRange, Return
  <2>. QED BY <1>3, <2>1, <2>2, <2>3 DEF CallStep
<1>4. CASE LoopStep
  BY <1>1, <1>4 DEF LoopStep, SearchTake, SearchPastBlocker, SearchFromZero, SearchExhausted,
     ValidateNext, ValidateDone, FreeNext, FreeDone, Return, ArgumentsAreCallers
<1>. QED BY <1>2, <1>3, <1>4 DEF Next

\* Taking a window is a grant of frames that were all free.
LEMMA TakeIsGrant ==
  ASSUME PoolInv, SearchTake
  PROVE  Pool!Next
<1>0. arg \in Nat /\ index \in Nat /\ count \in Nat /\ base \in Nat /\ frames \in Nat
      /\ count > 0 /\ count \in Counts
  BY DEF SearchTake, PoolInv, TypeOK, ArgumentsAreCallers
<1>1. /\ FreeRun(index, count)
      /\ bitmap' = bitmap \cup (index .. (index + count - 1))
      /\ base' = base /\ frames' = frames
      /\ outcome' = Outcome("allocate", base + index, count, "Ok")
      /\ HeldIndices = bitmap /\ HeldIndices' = bitmap'
  BY HeldIsBitmap DEF SearchTake, Return
<1>2. base + index \in Managed
  BY <1>0, <1>1 DEF Managed, FreeRun
<1>3. Pool!Run(base + index, count) \subseteq FreeFrames
  BY <1>0, <1>1 DEF Pool!Run, FreeFrames, Managed, FreeRun
<1>4. FreeFrames' = FreeFrames \ Pool!Run(base + index, count)
  BY <1>0, <1>1 DEF Pool!Run, FreeFrames, Managed
<1>5. Managed' = Managed
  BY <1>1 DEF Managed
<1>6. Pool!Grant(count)
  BY <1>0, <1>1, <1>2, <1>3, <1>4, <1>5 DEF Pool!Grant, Pool!Complete, Pool!Outcome, Outcome
<1>. QED BY <1>0, <1>6 DEF Pool!Next

\* A free run of the pool is a run of clear bits.
LEMMA PoolRunIsFreeRun ==
  ASSUME TypeOK, pc # "free", NEW n \in Nat, n > 0, Pool!HasFreeRun(n)
  PROVE  \E i \in 0 .. frames : FreeRun(i, n)
<1>0. base \in Nat /\ frames \in Nat
  BY DEF TypeOK
<1>1. PICK f \in Managed : Pool!Run(f, n) \subseteq FreeFrames
  BY DEF Pool!HasFreeRun
<1>2. f + n - 1 \in Managed /\ f - base \in 0 .. frames /\ f \in Nat
  <2>1. f \in Nat /\ f - base \in 0 .. frames
    BY <1>0 DEF Managed
  <2>2. f + n - 1 \in Pool!Run(f, n)
    BY <2>1 DEF Pool!Run
  <2>3. f + n - 1 \in Managed
    BY <1>1, <2>2 DEF FreeFrames
  <2>. QED BY <2>1, <2>3
<1>3. FreeRun(f - base, n)
  <2>1. (f - base) + n <= frames
    BY <1>0, <1>2 DEF Managed
  <2>2. ASSUME NEW k \in (f - base) .. ((f - base) + n - 1) PROVE k \notin bitmap
    <3>1. base + k \in Pool!Run(f, n) /\ (base + k) - base = k
      BY <1>0, <1>2 DEF Pool!Run
    <3>2. base + k \in FreeFrames
      BY <1>1, <3>1
    <3>. QED BY <3>1, <3>2, HeldIsBitmap DEF FreeFrames
  <2>. QED BY <2>1, <2>2 DEF FreeRun
<1>. QED BY <1>2, <1>3

\* A refused request is a genuine refusal of the pool.
LEMMA RefusalIsDeny ==
  ASSUME TypeOK, NEW n \in Counts,
         pc # "free", pc' # "free",
         UNCHANGED allocVars,
         outcome' = Outcome("allocate", 0, n, "OutOfMemory"),
         n = 0 \/ \A i \in 0 .. frames : ~FreeRun(i, n)
  PROVE  Pool!Next
<1>0. n \in Nat
  BY FrameAllocatorAssumption
<1>1. n = 0 \/ ~Pool!HasFreeRun(n)
  BY <1>0, PoolRunIsFreeRun
<1>2. FreeFrames' = FreeFrames /\ Managed' = Managed
  BY HeldIsBitmap DEF FreeFrames, Managed, allocVars
<1>3. Pool!Deny(n)
  BY <1>1, <1>2 DEF Pool!Deny, Pool!Complete, Pool!Outcome, Outcome
<1>. QED BY <1>3 DEF Pool!Next

\* A failed free refuses for the reason it reports and changes nothing.
LEMMA ErrorIsRefuse ==
  ASSUME TypeOK, NEW f \in FrameArgs, NEW n \in Counts \cup {1}, NEW k \in 0 .. (n - 1),
         FreeResult(f + k) # "Ok",
         pc # "free", pc' # "free",
         UNCHANGED allocVars,
         outcome' = Outcome("free", f, n, FreeResult(f + k))
  PROVE  Pool!Next
<1>0. f \in Nat /\ n \in Nat /\ base \in Nat /\ frames \in Nat /\ k \in Nat
  BY FrameAllocatorAssumption DEF TypeOK
<1>1. FreeFrames' = FreeFrames /\ Managed' = Managed
  <2>1. HeldIndices' = HeldIndices /\ base' = base /\ frames' = frames
    BY HeldIsBitmap DEF allocVars
  <2>. QED BY <2>1 DEF FreeFrames, Managed
<1>2. f + k \in Pool!Run(f, n)
  BY <1>0 DEF Pool!Run
<1>3. CASE ~InRange(f + k)
  <2>1. FreeResult(f + k) = "OutOfRange"
    BY <1>3 DEF FreeResult
  <2>2. f + k \notin Managed
    BY <1>0, <1>3 DEF InRange, Managed
  <2>3. Pool!Refuse(f, n)
    BY <1>1, <1>2, <2>1, <2>2 DEF Pool!Refuse, Pool!Complete, Pool!Outcome, Outcome
  <2>. QED BY <2>3 DEF Pool!Next
<1>4. CASE InRange(f + k)
  <2>1. FreeResult(f + k) = "NotAllocated" /\ (f + k) - base \notin bitmap
    BY <1>4 DEF FreeResult
  <2>2. f + k \in FreeFrames
    BY <1>0, <1>4, <2>1, HeldIsBitmap DEF InRange, Managed, FreeFrames
  <2>3. Pool!Refuse(f, n)
    BY <1>1, <1>2, <2>1, <2>2 DEF Pool!Refuse, Pool!Complete, Pool!Outcome, Outcome
  <2>. QED BY <2>3 DEF Pool!Next
<1>. QED BY <1>3, <1>4

\* The end of the freeing loop gives the whole run back.
LEMMA FreeDoneIsGiveBack ==
  ASSUME PoolInv, FreeDone
  PROVE  Pool!Next
<1>0. arg \in Nat /\ index \in Nat /\ count \in Nat /\ base \in Nat /\ frames \in Nat
      /\ count \in Counts /\ arg \in FrameArgs
  BY DEF FreeDone, PoolInv, TypeOK, ArgumentsAreCallers
<1>1. /\ bitmap' = bitmap /\ base' = base /\ frames' = frames
      /\ outcome' = Outcome("free", arg, count, "Ok")
      /\ pc = "free" /\ pc' = "idle" /\ index = count
  BY DEF FreeDone, Return, allocVars
<1>2. HeldIndices' = bitmap
  BY <1>1, HeldIsBitmap
<1>3. HeldIndices = bitmap \cup {i \in Indices : base + i \in arg .. (arg + count - 1)}
  BY <1>1 DEF HeldIndices
<1>4. \A k \in 0 .. (count - 1) : InRange(arg + k) /\ arg + k - base \notin bitmap
  BY <1>1 DEF PoolInv, ValidatedRunIsAllocated
<1>5. ASSUME NEW f \in Pool!Run(arg, count)
      PROVE  f \in Managed /\ f - base \in Indices /\ f - base \notin bitmap /\ base + (f - base) = f
  <2>1. f \in Int /\ \E k \in 0 .. (count - 1) : f = arg + k
    <3>1. f \in Int /\ f - arg \in 0 .. (count - 1) /\ f = arg + (f - arg)
      BY <1>0 DEF Pool!Run
    <3>. QED BY <3>1
  <2>2. PICK k \in 0 .. (count - 1) : f = arg + k
    BY <2>1
  <2>3. InRange(arg + k) /\ arg + k - base \notin bitmap
    BY <1>4
  <2>4. InRange(f) /\ f - base \notin bitmap
    BY <1>0, <2>1, <2>2, <2>3 DEF InRange
  <2>. QED BY <1>0, <2>1, <2>4 DEF InRange, Managed, Indices
<1>6. Pool!Run(arg, count) \subseteq Managed \ FreeFrames
  <2> SUFFICES ASSUME NEW f \in Pool!Run(arg, count) PROVE f \in Managed /\ f \notin FreeFrames
    OBVIOUS
  <2>1. f - base \in HeldIndices
    BY <1>3, <1>5 DEF Pool!Run
  <2>. QED BY <1>5, <2>1 DEF FreeFrames
<1>7. FreeFrames' = FreeFrames \cup Pool!Run(arg, count)
  <2>1. FreeFrames' = {f \in Managed : f - base \notin bitmap}
    BY <1>1, <1>2 DEF FreeFrames, Managed
  <2>2. ASSUME NEW f \in Managed
        PROVE  f - base \notin bitmap <=> (f \in FreeFrames \/ f \in Pool!Run(arg, count))
    <3>1. f - base \in Indices /\ base + (f - base) = f
      BY <1>0 DEF Managed, Indices
    <3>2. f \in FreeFrames <=> f - base \notin HeldIndices
      BY DEF FreeFrames
    <3>3. f - base \in HeldIndices <=> (f - base \in bitmap \/ f \in Pool!Run(arg, count))
      BY <1>3, <3>1 DEF Pool!Run
    <3>. QED BY <1>5, <3>2, <3>3
  <2>3. Pool!Run(arg, count) \subseteq Managed /\ FreeFrames \subseteq Managed
    BY <1>6 DEF FreeFrames
  <2>. QED BY <2>1, <2>2, <2>3
<1>8. Managed' = Managed
  BY <1>1 DEF Managed
<1>9. Pool!GiveBack(arg, count)
  BY <1>1, <1>6, <1>7, <1>8 DEF Pool!GiveBack, Pool!Complete, Pool!Outcome, Outcome
<1>. QED BY <1>0, <1>9 DEF Pool!Next

\* Freeing a single frame gives it back or refuses.
LEMMA FreeIsGiveBackOrRefuse ==
  ASSUME TypeOK, NEW f \in FrameArgs, Free(f)
  PROVE  Pool!Next
<1>0. f \in Nat /\ base \in Nat /\ frames \in Nat /\ f + 0 = f
  BY FrameAllocatorAssumption DEF TypeOK
<1>1. /\ outcome' = Outcome("free", f, 1, FreeResult(f))
      /\ pc # "free" /\ pc' # "free"
  BY DEF Free, Return
<1>2. CASE FreeResult(f) = "Ok"
  <2>1. InRange(f) /\ f - base \in bitmap
    BY <1>0, <1>2 DEF FreeResult, InRange
  <2>2. bitmap' = bitmap \ {f - base} /\ base' = base /\ frames' = frames
    BY <1>2 DEF Free, FreeBit
  <2>3. HeldIndices = bitmap /\ HeldIndices' = bitmap'
    BY <1>1, HeldIsBitmap
  <2>4. Pool!Run(f, 1) = {f}
    BY <1>0 DEF Pool!Run
  <2>5. f \in Managed /\ f \notin FreeFrames
    BY <1>0, <2>1, <2>3 DEF InRange, Managed, FreeFrames
  <2>6. FreeFrames' = FreeFrames \cup {f}
    BY <1>0, <2>2, <2>3, <2>5 DEF FreeFrames, Managed
  <2>7. Managed' = Managed
    BY <2>2 DEF Managed
  <2>8. Pool!GiveBack(f, 1)
    BY <1>1, <1>2, <2>4, <2>5, <2>6, <2>7 DEF Pool!GiveBack, Pool!Complete, Pool!Outcome, Outcome
  <2>. QED BY <2>8 DEF Pool!Next
<1>3. CASE FreeResult(f) # "Ok"
  <2>1. UNCHANGED allocVars
    BY <1>3 DEF Free
  <2>2. 0 \in 0 .. (1 - 1) /\ 1 \in Counts \cup {1}
    OBVIOUS
  <2>. QED BY <1>0, <1>1, <1>3, <2>1, <2>2, ErrorIsRefuse
<1>. QED BY <1>2, <1>3

\* release and reserve move one frame, or report that it is not managed.
LEMMA ReleaseAndReserveAreTheirs ==
  ASSUME TypeOK, NEW f \in FrameArgs, Release(f) \/ Reserve(f)
  PROVE  Pool!Next
<1>0. f \in Nat /\ base \in Nat /\ frames \in Nat
  BY FrameAllocatorAssumption DEF TypeOK
<1>1. pc # "free" /\ pc' # "free" /\ base' = base /\ frames' = frames
  BY DEF Release, Reserve, Return
<1>2. HeldIndices = bitmap /\ HeldIndices' = bitmap'
  BY <1>1, HeldIsBitmap
<1>3. Managed' = Managed /\ (InRange(f) <=> f \in Managed)
  BY <1>0, <1>1 DEF Managed, InRange
<1>4. CASE ~InRange(f)
  <2>1. bitmap' = bitmap
    BY <1>4 DEF Release, Reserve
  <2>2. FreeFrames' = FreeFrames
    BY <1>1, <1>2, <2>1 DEF FreeFrames, Managed
  <2>3. Pool!Release(f) \/ Pool!Reserve(f)
    BY <1>3, <1>4, <2>2 DEF Release, Reserve, Return, Pool!Release, Pool!Reserve, Pool!Complete,
       Pool!Outcome, Outcome
  <2>. QED BY <2>3 DEF Pool!Next
<1>5. CASE InRange(f) /\ Release(f)
  <2>1. bitmap' = bitmap \ {f - base} /\ outcome' = Outcome("release", f, 1, "Ok")
    BY <1>5 DEF Release, Return
  <2>2. FreeFrames' = FreeFrames \cup {f}
    BY <1>0, <1>1, <1>2, <1>3, <1>5, <2>1 DEF FreeFrames, Managed
  <2>3. Pool!Release(f)
    BY <1>3, <1>5, <2>1, <2>2 DEF Pool!Release, Pool!Complete, Pool!Outcome, Outcome
  <2>. QED BY <2>3 DEF Pool!Next
<1>6. CASE InRange(f) /\ Reserve(f)
  <2>1. bitmap' = bitmap \cup {f - base} /\ outcome' = Outcome("reserve", f, 1, "Ok")
    BY <1>6 DEF Reserve, Return
  <2>2. FreeFrames' = FreeFrames \ {f}
    BY <1>0, <1>1, <1>2, <1>3, <1>6, <2>1 DEF FreeFrames, Managed
  <2>3. Pool!Reserve(f)
    BY <1>3, <1>6, <2>1, <2>2 DEF Pool!Reserve, Pool!Complete, Pool!Outcome, Outcome
  <2>. QED BY <2>3 DEF Pool!Next
<1>. QED BY <1>4, <1>5, <1>6

\* reserve_range makes some managed frames unavailable and nothing else.
LEMMA ReserveRangeIsReserveSome ==
  ASSUME TypeOK, NEW start, NEW len, ReserveRange(start, len)
  PROVE  Pool!Next
<1>0. base \in Nat /\ frames \in Nat
  BY DEF TypeOK
<1> DEFINE s == IF len = 0 THEN {} ELSE RangeIndices(start, len)
           taken == {f \in Managed : f - base \in s}
<1>1. /\ bitmap' = bitmap \cup s
      /\ pc # "free" /\ pc' # "free" /\ base' = base /\ frames' = frames
      /\ outcome' = Outcome("reserve_range", 0, 0, "Ok")
  BY DEF ReserveRange, Return
<1>2. HeldIndices = bitmap /\ HeldIndices' = bitmap'
  BY <1>1, HeldIsBitmap
<1> HIDE DEF s
<1>3. Managed' = Managed
  BY <1>1 DEF Managed
<1>4. FreeFrames' = FreeFrames \ taken
  BY <1>1, <1>2, <1>3 DEF FreeFrames
<1>5. taken \in SUBSET Managed
  OBVIOUS
<1>6. Pool!ReserveSome
  BY <1>1, <1>3, <1>4, <1>5 DEF Pool!ReserveSome, Pool!Complete, Pool!Outcome, Outcome
<1>. QED BY <1>6 DEF Pool!Next

\* Every step of the allocator is a step of the pool or invisible in it.
LEMMA StepSimulation == PoolInv /\ [Next]_vars => [Pool!Next]_(Pool!poolVars)
<1> SUFFICES ASSUME PoolInv, [Next]_vars PROVE Pool!Next \/ UNCHANGED Pool!poolVars
  OBVIOUS
<1> USE DEF PoolInv
<1>1. ASSUME UNCHANGED allocVars, outcome' = outcome, pc # "free", pc' # "free"
      PROVE  UNCHANGED Pool!poolVars
  BY <1>1, HeldIsBitmap, InvisibleStep DEF allocVars
<1>2. ASSUME NEW n \in Counts, AllocateContiguous(n) PROVE Pool!Next \/ UNCHANGED Pool!poolVars
  <2>0. n \in Nat /\ frames \in Nat
    BY FrameAllocatorAssumption DEF TypeOK
  <2>1. CASE n = 0 \/ n > frames
    <3>1. /\ UNCHANGED allocVars /\ pc # "free" /\ pc' # "free"
          /\ outcome' = Outcome("allocate", 0, n, "OutOfMemory")
      BY <1>2, <2>0, <2>1 DEF AllocateContiguous, Return
    <3>2. n = 0 \/ \A i \in 0 .. frames : ~FreeRun(i, n)
      BY <2>0, <2>1 DEF FreeRun
    <3>. QED BY <3>1, <3>2, RefusalIsDeny
  <2>2. CASE n > 0 /\ n <= frames
    BY <1>1, <1>2, <2>0, <2>2 DEF AllocateContiguous, Enter
  <2>. QED BY <2>0, <2>1, <2>2
<1>3. ASSUME NEW f \in FrameArgs, Release(f) \/ Reserve(f) PROVE Pool!Next
  BY <1>3, ReleaseAndReserveAreTheirs
<1>4. ASSUME NEW f \in FrameArgs, Free(f) PROVE Pool!Next
  BY <1>4, FreeIsGiveBackOrRefuse
<1>5. ASSUME NEW f \in FrameArgs, NEW n \in Counts, FreeContiguous(f, n)
      PROVE  UNCHANGED Pool!poolVars
  BY <1>1, <1>5 DEF FreeContiguous, Enter
<1>6. ASSUME NEW r \in ByteRanges, ReserveRange(r[1], r[2]) PROVE Pool!Next
  BY <1>6, ReserveRangeIsReserveSome
<1>7. CASE SearchTake
  BY <1>7, TakeIsGrant
<1>8. CASE SearchPastBlocker \/ SearchFromZero
  BY <1>1, <1>8 DEF SearchPastBlocker, SearchFromZero
<1>9. CASE SearchExhausted
  <2>1. /\ UNCHANGED allocVars /\ pc # "free" /\ pc' # "free"
        /\ outcome' = Outcome("allocate", 0, count, "OutOfMemory")
        /\ count \in Counts
    BY <1>9 DEF SearchExhausted, Return, ArgumentsAreCallers
  <2>2. ASSUME NEW i \in 0 .. frames, FreeRun(i, count) PROVE FALSE
    <3>1. i < index
      BY <1>9, <2>2 DEF SearchExhausted, FreeRun, TypeOK
    <3>. QED BY <1>9, <2>2, <3>1 DEF SearchExhausted, SearchedPrefixHasNoRun, TypeOK
  <2>. QED BY <2>1, <2>2, RefusalIsDeny
<1>10. CASE ValidateNext
  <2>1. CASE FreeResult(arg + index) = "Ok"
    BY <1>1, <1>10, <2>1 DEF ValidateNext
  <2>2. CASE FreeResult(arg + index) # "Ok"
    <3>1. /\ UNCHANGED allocVars /\ pc # "free" /\ pc' # "free"
          /\ outcome' = Outcome("free", arg, count, FreeResult(arg + index))
          /\ count \in Counts \cup {1} /\ arg \in FrameArgs /\ index < count
      BY <1>10, <2>2 DEF ValidateNext, Return, ArgumentsAreCallers
    <3>2. index \in 0 .. (count - 1)
      BY <3>1 DEF TypeOK
    <3>. QED BY <2>2, <3>1, <3>2, ErrorIsRefuse
  <2>. QED BY <2>1, <2>2
<1>11. CASE ValidateDone
  <2>1. /\ base' = base /\ frames' = frames /\ bitmap' = bitmap /\ outcome' = outcome
        /\ pc # "free" /\ pc' = "free" /\ arg' = arg /\ index' = 0
    BY <1>11 DEF ValidateDone, allocVars
  <2>2. arg \in Nat
    BY DEF TypeOK
  <2>3. HeldIndices' = bitmap' \cup {i \in Indices' : base' + i \in arg' .. (arg' + index' - 1)}
    BY <2>1 DEF HeldIndices
  <2>4. arg' .. (arg' + index' - 1) = {}
    BY <2>1, <2>2
  <2>5. HeldIndices' = HeldIndices
    BY <2>1, <2>3, <2>4, HeldIsBitmap
  <2>. QED BY <2>1, <2>5, InvisibleStep
<1>12. CASE FreeNext
  BY <1>12, HeldWhileFreeing, InvisibleStep
<1>13. CASE FreeDone
  BY <1>13, FreeDoneIsGiveBack
<1>14. CASE UNCHANGED vars
  <2>1. HeldIndices' = HeldIndices
    BY <1>14 DEF vars, HeldIndices, Indices
  <2>. QED BY <1>14, <2>1, InvisibleStep DEF vars
<1>. QED
  BY <1>2, <1>3, <1>4, <1>5, <1>6, <1>7, <1>8, <1>9, <1>10, <1>11, <1>12, <1>13, <1>14
     DEF Next, LoopStep, CallStep

\* The bitmap allocator with its cursor, its two search passes and its two
\* freeing loops implements the pool of frames, for every bitmap size,
\* memory map and sequence of calls.
THEOREM AllocatorImplementsPool == Spec => ImplementsPool
<1>1. Init => PoolInv
  BY InitTypeOK DEF Init, PoolInv, SearchedPrefixHasNoRun, ValidatedRunIsAllocated, ArgumentsAreCallers
<1>2. PoolInv /\ [Next]_vars => PoolInv'
  BY NextTypeOK, NextSearched, NextValidated, NextArguments DEF PoolInv
<1>3. Init => Pool!Init
  BY DEF Init, Pool!Init, Pool!Outcome, Outcome, FreeFrames
<1>. QED
  BY <1>1, <1>2, <1>3, StepSimulation, PTL DEF Spec, ImplementsPool, Pool!Spec

-----------------------------------------------------------------------------
(* The callers: what they own and what the bitmap says. *)

\* The frames of the call that is freeing a run.
Leaving == IF pc \in {"validate", "free"} THEN arg .. (arg + count - 1) ELSE {}

\* At every step of every loop, a frame that is not just being freed is taken
\* exactly when somebody owns it; the ones that are being freed are nobody's
\* any more.
OwnersAgree ==
  /\ DOMAIN owner = Managed
  /\ \A f \in Managed :
       IF f \in Leaving THEN owner[f] = Nobody
       ELSE f - base \in bitmap <=> owner[f] # Nobody

\* A run that is being validated is allocated to the last frame, so that
\* validation cannot fail.
ValidationSucceeds ==
  pc = "validate" => \A f \in Leaving : f \in Managed /\ f - base \in bitmap

\* The inductive invariant of allocator and owners.
OIInv ==
  /\ TypeOK
  /\ ValidatedRunIsAllocated
  /\ caller \in Callers
  /\ OwnersAgree
  /\ ValidationSucceeds

-----------------------------------------------------------------------------
\* Every step of the callers and of their calls is one of the allocator's.
LEMMA CarefulIsNext == [Careful]_allVars => [Next]_vars
<1> SUFFICES ASSUME [Careful]_allVars PROVE [Next]_vars OBVIOUS
<1>1. CASE \E c \in Callers, n \in Counts : Ask(c, n)
  BY <1>1 DEF Ask, Next, CallStep
<1>2. CASE Receive
  BY <1>2 DEF Receive, Next, LoopStep
<1>3. CASE \E c \in Callers, f \in FrameArgs, n \in Counts : GiveUp(c, f, n)
  BY <1>3 DEF GiveUp, Next, CallStep
<1>4. CASE \E c \in Callers, f \in FrameArgs : GiveUpOne(c, f)
  BY <1>4 DEF GiveUpOne, Next, CallStep
<1>5. CASE Work /\ UNCHANGED ownerVars
  BY <1>5 DEF Work, Next, LoopStep
<1>6. CASE UNCHANGED allVars
  BY <1>6 DEF allVars
<1> QED BY <1>1, <1>2, <1>3, <1>4, <1>5, <1>6 DEF Careful

\* A managed frame is its index and the base, and the other way round.
LEMMA ManagedFrames ==
  ASSUME TypeOK
  PROVE  /\ base \in Nat /\ frames \in Nat
         /\ \A f \in Managed : f \in Nat /\ f - base \in Indices /\ InRange(f)
         /\ \A f \in Nat : InRange(f) <=> f \in Managed
BY DEF TypeOK, Managed, Indices, InRange

\* Initially the machine owns what is not free.
LEMMA InitOIInv == OInit => OIInv
<1> SUFFICES ASSUME OInit PROVE OIInv OBVIOUS
<1>1. TypeOK BY InitTypeOK DEF OInit
<1>2. pc = "idle" /\ caller \in Callers BY DEF OInit, Init
<1>3. ValidatedRunIsAllocated /\ ValidationSucceeds
  BY <1>2 DEF ValidatedRunIsAllocated, ValidationSucceeds
<1>4. Leaving = {} BY <1>2 DEF Leaving
<1>5. OwnersAgree
  BY <1>4, FrameOwnersAssumption DEF OInit, OwnersAgree
<1> QED BY <1>1, <1>2, <1>3, <1>5 DEF OIInv

-----------------------------------------------------------------------------
(* One lemma for each step that changes who owns what. *)

\* A caller asks: the bitmap and the owners stay as they are.
LEMMA AskStep ==
  ASSUME OIInv, NEW c \in Callers, NEW n \in Counts, Ask(c, n)
  PROVE  caller' \in Callers /\ OwnersAgree' /\ ValidationSucceeds'
<1>1. pc = "idle" /\ pc' \in {"idle", "search"} /\ UNCHANGED <<bitmap, base, frames, owner>>
  BY DEF Ask, AllocateContiguous, Return, Enter, allocVars
<1>2. Leaving = {} /\ Leaving' = {} BY <1>1 DEF Leaving
<1>3. Managed' = Managed BY <1>1 DEF Managed
<1>4. OwnersAgree' BY <1>1, <1>2, <1>3 DEF OIInv, OwnersAgree
<1> QED BY <1>1, <1>4 DEF ValidationSucceeds, Ask

\* A search that takes a window gives the caller frames that were nobody's.
LEMMA ReceiveStep ==
  ASSUME OIInv, Receive
  PROVE  /\ caller' \in Callers /\ OwnersAgree' /\ ValidationSucceeds'
         /\ \A f \in DOMAIN owner : owner[f] # Nobody => owner'[f] = owner[f]
<1> DEFINE run == (base + index) .. (base + index + count - 1)
<1>0. TypeOK BY DEF OIInv
<1>1. /\ pc = "search" /\ pc' = "idle"
      /\ FreeRun(index, count)
      /\ bitmap' = bitmap \cup (index .. (index + count - 1))
      /\ base' = base /\ frames' = frames /\ caller' = caller
      /\ owner' = [f \in DOMAIN owner |-> IF f \in run THEN caller ELSE owner[f]]
  BY DEF Receive, SearchTake, Return
<1>2. Leaving = {} /\ Leaving' = {} BY <1>1 DEF Leaving
<1>3. Managed' = Managed BY <1>1 DEF Managed
<1>4. DOMAIN owner = Managed /\ DOMAIN owner' = Managed'
  BY <1>1, <1>3 DEF OIInv, OwnersAgree
<1>5. base \in Nat /\ frames \in Nat /\ index \in Nat /\ count \in Nat BY <1>0 DEF TypeOK
<1>6. ASSUME NEW f \in Managed
      PROVE  /\ f \in run <=> f - base \in index .. (index + count - 1)
             /\ f \in run => f - base \notin bitmap
  BY <1>1, <1>5 DEF FreeRun, Managed
<1>7. ASSUME NEW f \in Managed
      PROVE  /\ (f - base)' \in bitmap' <=> owner'[f] # Nobody
             /\ owner[f] # Nobody => owner'[f] = owner[f]
  <2>1. f - base \in bitmap <=> owner[f] # Nobody
    BY <1>2 DEF OIInv, OwnersAgree
  <2>2. owner'[f] = IF f \in run THEN caller ELSE owner[f] BY <1>1, <1>4
  <2>3. caller # Nobody BY FrameOwnersAssumption DEF OIInv
  <2> QED BY <1>1, <1>6, <2>1, <2>2, <2>3
<1>8. OwnersAgree' BY <1>2, <1>3, <1>4, <1>7 DEF OwnersAgree
<1> QED BY <1>1, <1>4, <1>7, <1>8 DEF ValidationSucceeds, OIInv

\* A caller lets go of a run: its frames are nobody's from here on.
LEMMA GiveUpStep ==
  ASSUME OIInv, NEW c \in Callers, NEW f \in FrameArgs, NEW n \in Counts, GiveUp(c, f, n)
  PROVE  /\ caller' \in Callers /\ OwnersAgree' /\ ValidationSucceeds'
         /\ \A g \in DOMAIN owner : owner'[g] \in {owner[g], Nobody}
<1> DEFINE run == f .. (f + n - 1)
<1>1. /\ pc = "idle" /\ pc' = "validate" /\ arg' = f /\ count' = n
      /\ bitmap' = bitmap /\ base' = base /\ frames' = frames /\ caller' = c
      /\ owner' = [g \in DOMAIN owner |-> IF g \in run THEN Nobody ELSE owner[g]]
      /\ run \subseteq OwnedBy(c)
  BY DEF GiveUp, FreeContiguous, Enter, allocVars
<1>2. Leaving = {} /\ Leaving' = run BY <1>1 DEF Leaving
<1>3. Managed' = Managed BY <1>1 DEF Managed
<1>4. DOMAIN owner = Managed /\ DOMAIN owner' = Managed'
  BY <1>1, <1>3 DEF OIInv, OwnersAgree
<1>5. ASSUME NEW g \in Managed
      PROVE  /\ owner'[g] = IF g \in run THEN Nobody ELSE owner[g]
             /\ g - base \in bitmap <=> owner[g] # Nobody
  BY <1>1, <1>2, <1>4 DEF OIInv, OwnersAgree
<1>6. OwnersAgree' BY <1>1, <1>2, <1>3, <1>4, <1>5 DEF OwnersAgree
<1>7. ASSUME NEW g \in run PROVE g \in Managed /\ g - base \in bitmap
  <2>1. g \in Managed /\ owner[g] = c BY <1>1, <1>4 DEF OwnedBy
  <2> QED BY <2>1, <1>5, FrameOwnersAssumption
<1>8. ValidationSucceeds' BY <1>1, <1>2, <1>3, <1>7 DEF ValidationSucceeds
<1> QED BY <1>1, <1>4, <1>5, <1>6, <1>8

\* So is a single frame that is freed, bit and all, in one step.
LEMMA GiveUpOneStep ==
  ASSUME OIInv, NEW c \in Callers, NEW f \in FrameArgs, GiveUpOne(c, f)
  PROVE  /\ caller' \in Callers /\ OwnersAgree' /\ ValidationSucceeds'
         /\ \A g \in DOMAIN owner : owner'[g] \in {owner[g], Nobody}
<1>0. TypeOK BY DEF OIInv
<1>1. /\ pc = "idle" /\ pc' = "idle" /\ caller' = c
      /\ owner' = [owner EXCEPT ![f] = Nobody]
      /\ f \in OwnedBy(c)
  BY DEF GiveUpOne, Free, Return
<1>2. Leaving = {} /\ Leaving' = {} BY <1>1 DEF Leaving
<1>3. DOMAIN owner = Managed /\ f \in Managed /\ owner[f] = c
  BY <1>1 DEF OIInv, OwnersAgree, OwnedBy
<1>4. \A g \in Managed : g - base \in bitmap <=> owner[g] # Nobody
  BY <1>2 DEF OIInv, OwnersAgree
<1>5. f - base \in bitmap BY <1>3, <1>4, FrameOwnersAssumption
<1>6. FreeResult(f) = "Ok" BY <1>0, <1>3, <1>5, ManagedFrames DEF FreeResult
<1>7. bitmap' = bitmap \ {f - base} /\ base' = base /\ frames' = frames
  BY <1>6 DEF GiveUpOne, Free, FreeBit
<1>8. Managed' = Managed BY <1>7 DEF Managed
<1>9. ASSUME NEW g \in Managed
      PROVE  owner'[g] = (IF g = f THEN Nobody ELSE owner[g]) /\ (g - base = f - base <=> g = f)
  BY <1>0, <1>1, <1>3, ManagedFrames
<1>10. OwnersAgree' BY <1>1, <1>2, <1>3, <1>4, <1>7, <1>8, <1>9 DEF OwnersAgree
<1> QED BY <1>1, <1>3, <1>9, <1>10 DEF ValidationSucceeds

\* The loops themselves change no owner; freeing clears the bits of frames
\* that are nobody's.
LEMMA WorkStep ==
  ASSUME OIInv, Work, UNCHANGED ownerVars
  PROVE  caller' \in Callers /\ OwnersAgree' /\ ValidationSucceeds'
<1>0. TypeOK /\ ValidatedRunIsAllocated BY DEF OIInv
<1>a. owner' = owner /\ caller' = caller /\ caller \in Callers BY DEF ownerVars, OIInv
<1>b. /\ base \in Nat /\ frames \in Nat /\ index \in Nat /\ count \in Nat /\ arg \in Nat
  BY <1>0 DEF TypeOK
<1>1. CASE SearchPastBlocker \/ SearchFromZero \/ SearchExhausted
  <2>1. /\ pc = "search" /\ pc' \in {"search", "idle"} /\ UNCHANGED <<bitmap, base, frames>>
    BY <1>1 DEF SearchPastBlocker, SearchFromZero, SearchExhausted, Return, allocVars
  <2>2. Leaving = {} /\ Leaving' = {} BY <2>1 DEF Leaving
  <2>3. Managed' = Managed BY <2>1 DEF Managed
  <2> QED BY <1>a, <2>1, <2>2, <2>3 DEF OIInv, OwnersAgree, ValidationSucceeds
<1>2. CASE ValidateNext
  <2>1. pc = "validate" /\ index < count /\ UNCHANGED <<bitmap, base, frames>>
    BY <1>2 DEF ValidateNext, allocVars
  <2>2. arg + index \in Leaving BY <2>1, <1>b DEF Leaving
  <2>3. FreeResult(arg + index) = "Ok"
    BY <1>0, <2>1, <2>2, ManagedFrames DEF OIInv, ValidationSucceeds, FreeResult
  <2>4. UNCHANGED <<pc, arg, count>> BY <1>2, <2>3 DEF ValidateNext
  <2>5. Leaving' = Leaving /\ Managed' = Managed BY <2>1, <2>4 DEF Leaving, Managed
  <2> QED BY <1>a, <2>1, <2>4, <2>5 DEF OIInv, OwnersAgree, ValidationSucceeds
<1>3. CASE ValidateDone
  <2>1. /\ pc = "validate" /\ pc' = "free" /\ UNCHANGED <<bitmap, base, frames, arg, count>>
    BY <1>3 DEF ValidateDone, allocVars
  <2>2. Leaving' = Leaving /\ Managed' = Managed BY <2>1 DEF Leaving, Managed
  <2> QED BY <1>a, <2>1, <2>2 DEF OIInv, OwnersAgree, ValidationSucceeds
<1>4. CASE FreeNext
  <2>1. pc = "free" /\ index < count BY <1>4 DEF FreeNext
  <2>2. InRange(arg + index) /\ arg + index - base \in bitmap
    BY <1>0, <1>b, <2>1 DEF ValidatedRunIsAllocated
  <2>3. FreeResult(arg + index) = "Ok" BY <1>b, <2>2 DEF FreeResult
  <2>4. /\ bitmap' = bitmap \ {arg + index - base}
        /\ UNCHANGED <<base, frames, pc, arg, count>>
    BY <1>4, <1>b, <2>3 DEF FreeNext, FreeBit
  <2>5. Leaving' = Leaving /\ Managed' = Managed BY <2>4 DEF Leaving, Managed
  <2>6. ASSUME NEW g \in Managed, g \notin Leaving
        PROVE  g - base \in bitmap' <=> g - base \in bitmap
    BY <1>b, <2>1, <2>4, <2>6 DEF Leaving, Managed
  <2> QED BY <1>a, <2>1, <2>4, <2>5, <2>6 DEF OIInv, OwnersAgree, ValidationSucceeds
<1>5. CASE FreeDone
  <2>1. /\ pc = "free" /\ index = count /\ pc' = "idle" /\ UNCHANGED <<bitmap, base, frames>>
    BY <1>5 DEF FreeDone, Return, allocVars
  <2>2. Leaving' = {} /\ Managed' = Managed BY <2>1 DEF Leaving, Managed
  <2>3. ASSUME NEW g \in Leaving PROVE g - base \notin bitmap
    <3>1. PICK k \in 0 .. (index - 1) : g = arg + k
      <4>1. g - arg \in 0 .. (index - 1) /\ g = arg + (g - arg)
        BY <1>b, <2>1, <2>3 DEF Leaving
      <4> QED BY <4>1
    <3>2. arg + k - base \notin bitmap
      BY <1>0, <2>1 DEF ValidatedRunIsAllocated
    <3> QED BY <1>b, <3>1, <3>2
  <2>4. OwnersAgree' BY <1>a, <2>1, <2>2, <2>3 DEF OIInv, OwnersAgree
  <2> QED BY <1>a, <2>1, <2>4 DEF ValidationSucceeds
<1> QED BY <1>1, <1>2, <1>3, <1>4, <1>5 DEF Work

\* A step that changes nothing keeps the invariant.
LEMMA StutterStep ==
  ASSUME OIInv, UNCHANGED allVars
  PROVE  caller' \in Callers /\ OwnersAgree' /\ ValidationSucceeds'
<1>1. UNCHANGED <<bitmap, base, frames, pc, arg, count, owner, caller>>
  BY DEF allVars, vars, ownerVars
<1>2. Leaving' = Leaving /\ Managed' = Managed BY <1>1 DEF Leaving, Managed
<1> QED BY <1>1, <1>2 DEF OIInv, OwnersAgree, ValidationSucceeds

\* Every step of careful callers keeps the invariant of the owners.
LEMMA NextOIInv == OIInv /\ [Careful]_allVars => OIInv'
<1> SUFFICES ASSUME OIInv, [Careful]_allVars PROVE OIInv' OBVIOUS
<1>1. TypeOK' /\ ValidatedRunIsAllocated'
  BY CarefulIsNext, NextTypeOK, NextValidated DEF OIInv
<1>2. caller' \in Callers /\ OwnersAgree' /\ ValidationSucceeds'
  BY AskStep, ReceiveStep, GiveUpStep, GiveUpOneStep, WorkStep, StutterStep DEF Careful
<1> QED BY <1>1, <1>2 DEF OIInv

\* So it always holds.
LEMMA OIInvHolds == OSpec => []OIInv
BY InitOIInv, NextOIInv, PTL DEF OSpec

-----------------------------------------------------------------------------
(* The theorems. *)

\* Between calls a bit is set exactly when somebody owns the frame, whatever
\* runs callers asked for and in whatever pieces they gave them back
\* (loko-memory, allocate_contiguous and free_contiguous).
THEOREM BitmapAndOwnersAgree == OSpec => []BitmapAgreesWithOwners
<1>1. OIInv => BitmapAgreesWithOwners
  BY DEF OIInv, OwnersAgree, Leaving, BitmapAgreesWithOwners
<1> QED BY <1>1, OIInvHolds, PTL

\* The allocator never gives a frame that somebody owns to somebody else.
THEOREM FramesAreExclusive == OSpec => NoFrameHandedOutTwice
<1>1. OIInv /\ [Careful]_allVars =>
        [\A f \in DOMAIN owner : owner[f] # Nobody => owner'[f] \in {owner[f], Nobody}]_allVars
  <2> SUFFICES ASSUME OIInv, [Careful]_allVars, NEW f \in DOMAIN owner, owner[f] # Nobody
               PROVE  owner'[f] \in {owner[f], Nobody}
    OBVIOUS
  <2>1. CASE \E c \in Callers, n \in Counts : Ask(c, n) BY <2>1 DEF Ask
  <2>2. CASE Receive BY <2>2, ReceiveStep
  <2>3. CASE \E c \in Callers, g \in FrameArgs, n \in Counts : GiveUp(c, g, n)
    BY <2>3, GiveUpStep
  <2>4. CASE \E c \in Callers, g \in FrameArgs : GiveUpOne(c, g) BY <2>4, GiveUpOneStep
  <2>5. CASE Work /\ UNCHANGED ownerVars BY <2>5 DEF ownerVars
  <2>6. CASE UNCHANGED allVars BY <2>6 DEF allVars, ownerVars
  <2> QED BY <2>1, <2>2, <2>3, <2>4, <2>5, <2>6 DEF Careful
<1> QED BY <1>1, OIInvHolds, PTL DEF OSpec, NoFrameHandedOutTwice

\* A call that frees what its caller owns never fails: validation finds every
\* frame of it allocated (free_contiguous: "Validate the whole run
\* before changing anything").
THEOREM RightfulFreesSucceed == OSpec => []ValidationSucceeds
<1>1. OIInv => ValidationSucceeds BY DEF OIInv
<1> QED BY <1>1, OIInvHolds, PTL

=============================================================================
