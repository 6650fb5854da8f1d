-------------------------- MODULE MCFrameAllocator --------------------------
(***************************************************************************)
(* The frame allocator on at most four frames of two bytes, with careful   *)
(* callers and with careless ones.                                         *)
(***************************************************************************)
EXTENDS FrameOwners

R(start, len, usable) == [start |-> start, len |-> len, usable |-> usable]

\* An empty map; one whose second frame is not usable; a map with unaligned and overlapping regions; one that runs
\* past what the bitmap describes; one whose end saturates.
MCMemoryMaps ==
  { {},
    {R(0, 2, TRUE), R(2, 2, FALSE), R(4, 4, TRUE)},
    {R(0, 3, TRUE), R(2, 2, TRUE), R(4, 2, FALSE)},
    {R(0, 2, FALSE), R(3, 9, TRUE)},
    {R(2, 2, TRUE), R(6, 20, FALSE)} }

\* Empty, inside one frame, ending on a frame boundary, straddling one, past
\* the end, and saturating.
MCByteRanges == {<<3, 0>>, <<2, 1>>, <<2, 2>>, <<3, 2>>, <<7, 3>>, <<4, 11>>}

=============================================================================
