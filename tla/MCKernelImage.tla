--------------------------- MODULE MCKernelImage ---------------------------
(***************************************************************************)
(* 128 addresses, twice the 64 that the tree tells apart: pages of two     *)
(* bytes, huge pages of four, a root of four entries.  The identity map is *)
(* at the bottom, the window at 96 and the kernel at 112; from 32 to 95    *)
(* addresses are not canonical.                                            *)
(***************************************************************************)
EXTENDS KernelImage

Header(kind, offset, fileSize, address, memorySize, w, x) ==
  [kind |-> kind, fileOffset |-> offset, fileSize |-> fileSize, virtualAddress |-> address,
   memorySize |-> memorySize, writable |-> w, executable |-> x]

\* Code, read-only data, data with .bss, .bss alone, and what no linker should
\* produce: overlaps, unaligned, too short, truncated, in the window, where the
\* framebuffer will be, in the identity map, at the top of the address space,
\* empty at the very last address, and at the aliases of the kernel, of the
\* framebuffer and of the identity map.
MCHeaders ==
  { Header("LOAD", 0, 3, 112, 3, FALSE, TRUE),
    Header("LOAD", 3, 2, 116, 2, FALSE, FALSE),
    Header("LOAD", 2, 2, 118, 4, TRUE, FALSE),
    Header("LOAD", 0, 0, 114, 2, TRUE, FALSE),
    Header("LOAD", 1, 2, 112, 4, TRUE, FALSE),
    Header("LOAD", 0, 2, 116, 2, TRUE, TRUE),
    Header("LOAD", 0, 2, 115, 2, FALSE, FALSE),
    Header("LOAD", 0, 3, 116, 2, TRUE, FALSE),
    Header("LOAD", 5, 4, 116, 4, TRUE, FALSE),
    Header("LOAD", 0, 2, 98, 2, FALSE, TRUE),
    Header("LOAD", 0, 2, 108, 2, FALSE, TRUE),
    Header("LOAD", 0, 2, 4, 2, FALSE, TRUE),
    Header("LOAD", 0, 2, 126, 2, FALSE, FALSE),
    Header("LOAD", 0, 0, 127, 0, FALSE, FALSE),
    Header("LOAD", 0, 2, 48, 2, FALSE, FALSE),
    Header("LOAD", 0, 2, 44, 2, FALSE, FALSE),
    Header("LOAD", 0, 2, 68, 2, FALSE, FALSE),
    Header("NOTE", 9, 9, 0, 0, FALSE, FALSE) }

Image(size, format, tableEnd, headers) ==
  [size |-> size, format |-> format, tableEnd |-> tableEnd, headers |-> headers]

MCImages ==
  { Image(5, "None", 4, hs) : hs \in {<<h>> : h \in MCHeaders} \cup (MCHeaders \X MCHeaders) }
  \cup { Image(5, "None", 4, <<Header("LOAD", 2, 2, 118, 4, TRUE, FALSE), h,
                               Header("LOAD", 3, 2, 116, 2, FALSE, FALSE)>>) : h \in MCHeaders }
  \cup { Image(size, format, 4, <<Header("LOAD", 0, 1, 112, 1, FALSE, TRUE)>>) :
           size \in {0, 3, 4}, format \in {"None", "NotElf"} }

Machine(ram, base, size, arena) ==
  [highestRam |-> ram, framebuffer |-> [base |-> base, size |-> size], arena |-> arena]

\* No framebuffer, one outside RAM, one that begins inside; an arena with
\* room, one that is just large enough for a small kernel and one that is not;
\* and a framebuffer beyond what the window can show.
MCMachines ==
  { Machine(ram, fb[1], fb[2], arena) :
      ram \in {12}, fb \in {<<0, 0>>, <<13, 2>>, <<10, 5>>}, arena \in {3, 10, 16} }
  \cup { Machine(12, 33, 2, 16) }

=============================================================================
