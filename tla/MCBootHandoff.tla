--------------------------- MODULE MCBootHandoff ---------------------------
(***************************************************************************)
(* Machines small enough that the loader's seven pages and the heap nearly *)
(* fill them.                                                              *)
(***************************************************************************)
EXTENDS BootHandoff

Runs(s) == [p \in 0 .. (Len(s) - 1) |-> s[p + 1]]

C == "CONVENTIONAL"

\* RAM with the firmware's memory in the middle, a device hole, and RAM above
\* it, part of it beyond the window; RAM with a bad page; the loader's code
\* above the identity map.
MCMachines ==
  { Runs(<<C, C, "BOOT_SERVICES", C, C, "LOADER_CODE", C, C, "MMIO", "HOLE", C, C, C, C>>),
    Runs(<<C, "LOADER_CODE", C, C, "ACPI_RECLAIM", C, C, C, "MMIO", "UNUSABLE", "RUNTIME_SERVICES", C, C>>),
    Runs(<<C, C, C, C, C, C, C, C, "LOADER_CODE">>) }

\* None, or in the device hole.
MCFramebuffers == { {}, {8} }

\* Ascending or descending, from the first descriptor or from the middle on.
MCOrders(S) ==
  LET d == Ascending(S, [e \in S |-> e.start + e.len])
      turned(k) == SubSeq(d, k + 1, Len(d)) \o SubSeq(d, 1, k)
  IN  UNION {{turned(k), Reverse(turned(k))} : k \in {0, Len(d) \div 2}}

=============================================================================
