----------------------------- MODULE PageTables -----------------------------
(***************************************************************************)
(* The page tables the loader builds, boot/loko-boot/src/paging.rs: a      *)
(* four-level tree carved from an arena of frames.  Constant operators     *)
(* over a record t; KernelImage is the system that uses them.              *)
(*                                                                         *)
(* The arena hands out each frame once, so every table is pointed to by    *)
(* one entry and is named by the path of indices that leads to it.  An     *)
(* entry is a path too: it points to a table, is a leaf, or is empty.      *)
(***************************************************************************)
EXTENDS Integers, Sequences, FiniteSets

CONSTANTS
  PAGE_SIZE,      \* bytes in a page
  PT_FAN,         \* entries of a page table, directory, directory pointer
  PD_FAN,         \*   table and of the root; 512 each on the machine
  PDPT_FAN,
  PML4_FAN,
  SPANS           \* how often what a tree spans fits into 64 bits; 2^16

ASSUME PageTablesAssumption ==
  {PAGE_SIZE, PT_FAN, PD_FAN, PDPT_FAN, PML4_FAN, SPANS} \subseteq Nat \ {0}

HUGE_PAGE_SIZE == PAGE_SIZE * PT_FAN

\* The addresses that the indices tell apart, 2^48 of them, and those that a
\* u64 holds.
TOP == HUGE_PAGE_SIZE * PD_FAN * PDPT_FAN * PML4_FAN
ADDRESS_LIMIT == TOP * SPANS
Addresses == 0 .. ADDRESS_LIMIT - 1

DivCeil(n, d) == (n + d - 1) \div d

\* The masks keep what a table has entries for and drop the rest of the
\* address: any two addresses that are TOP apart have the same entries.
PtIndex(va) == (va \div PAGE_SIZE) % PT_FAN
PdIndex(va) == (va \div HUGE_PAGE_SIZE) % PD_FAN
PdptIndex(va) == (va \div (HUGE_PAGE_SIZE * PD_FAN)) % PDPT_FAN
Pml4Index(va) == (va \div (HUGE_PAGE_SIZE * PD_FAN * PDPT_FAN)) % PML4_FAN

READ_ONLY == [writable |-> FALSE, executable |-> FALSE]
READ_WRITE == [writable |-> TRUE, executable |-> FALSE]
READ_EXECUTE == [writable |-> FALSE, executable |-> TRUE]

\* A new arena with the root in it: the tables taken so far, how many frames
\* that were, the leaves that were written, and why the last call failed.
NewTables(arena) ==
  [arena |-> arena, used |-> 1, tables |-> {<<>>}, leaves |-> <<>>, error |-> "None"]

Fail(t, error) == [t EXCEPT !.error = error]

\* The entries on the way to an address: in the root, a pointer table, a
\* directory and a page table.
Walk(va) == <<Pml4Index(va), PdptIndex(va), PdIndex(va), PtIndex(va)>>
Entry(va, level) == SubSeq(Walk(va), 1, level)

IsLeaf(t, entry) == entry \in DOMAIN t.leaves
IsTable(t, entry) == entry \in t.tables
IsPresent(t, entry) == IsLeaf(t, entry) \/ IsTable(t, entry)

Missing(t, va, level) == {k \in 1 .. level : ~IsTable(t, Entry(va, k))}

\* Faulty variant of FramesTaken: a frame is taken before the entry is looked
\* at.
FramesTakenAlways(t, va, level) == level

\* take_frame, once for every table on the way that is not there.
FramesTaken(t, va, level) == Cardinality(Missing(t, va, level))

\* descend, down to the table at this level: tables are created from the top
\* as long as the arena lasts, and a huge page in the way is a conflict.
Descend(t, va, level) ==
  LET taken == FramesTaken(t, va, level) IN
  IF \E k \in 1 .. level : IsLeaf(t, Entry(va, k)) THEN Fail(t, "Conflict")
  ELSE IF t.used + taken > t.arena
    THEN [t EXCEPT !.used = t.arena, !.error = "ArenaExhausted",
                   !.tables = @ \cup {Entry(va, k) : k \in 1 .. level - taken + t.arena - t.used}]
    ELSE [t EXCEPT !.used = @ + taken,
                   !.tables = @ \cup {Entry(va, k) : k \in 1 .. level}]

\* The leaves with one written over what was there.
WithLeaf(t, entry, leaf) ==
  [e \in DOMAIN t.leaves \cup {entry} |-> IF e = entry THEN leaf ELSE t.leaves[e]]

\* Faulty variant of PutLeaf: what was there is replaced.
PutLeafOver(t, entry, leaf) ==
  IF t.error # "None" THEN t ELSE [t EXCEPT !.leaves = WithLeaf(t, entry, leaf)]

\* The last step of map_page and map_huge_page: nothing is ever replaced.
PutLeaf(t, entry, leaf) ==
  IF t.error # "None" THEN t
  ELSE IF IsPresent(t, entry) THEN Fail(t, "Conflict")
  ELSE [t EXCEPT !.leaves = WithLeaf(t, entry, leaf)]

Leaf(pa, permissions) == [to |-> pa, permissions |-> permissions]

MapPage(t, va, pa, permissions) ==
  IF va % PAGE_SIZE # 0 \/ pa % PAGE_SIZE # 0
    THEN Fail(t, "Misaligned")
    ELSE PutLeaf(Descend(t, va, 3), Entry(va, 4), Leaf(pa, permissions))

MapHugePage(t, va, pa, permissions) ==
  IF va % HUGE_PAGE_SIZE # 0 \/ pa % HUGE_PAGE_SIZE # 0
    THEN Fail(t, "Misaligned")
    ELSE PutLeaf(Descend(t, va, 2), Entry(va, 3), Leaf(pa, permissions))

-----------------------------------------------------------------------------
(* What the processor makes of the tables. *)

Fault == [byte |-> -1, permissions |-> READ_ONLY]

\* The walk ends in the physical byte and the permissions of its leaf, or
\* nowhere.
Lookup(t, va) ==
  LET huge == Entry(va, 3)
      small == Entry(va, 4)
  IN CASE IsLeaf(t, huge) ->
            [byte |-> t.leaves[huge].to + (va % HUGE_PAGE_SIZE),
             permissions |-> t.leaves[huge].permissions]
       [] ~IsLeaf(t, huge) /\ IsLeaf(t, small) ->
            [byte |-> t.leaves[small].to + (va % PAGE_SIZE),
             permissions |-> t.leaves[small].permissions]
       [] OTHER -> Fault

\* The two halves of the tree, at the bottom and at the top of the addresses.
\* The processor takes no other address to the tables; the loader does not ask.
Canonical(va) == va < TOP \div 2 \/ va >= ADDRESS_LIMIT - TOP \div 2

Translate(t, va) == IF Canonical(va) THEN Lookup(t, va) ELSE Fault

\* The frames a tree needs that maps these pages and huge pages and no more.
FramesNeeded(pages, hugePages) ==
  LET all == pages \cup hugePages IN
  1 + Cardinality({Pml4Index(va) : va \in all})
    + Cardinality({<<Pml4Index(va), PdptIndex(va)>> : va \in all})
    + Cardinality({<<Pml4Index(va), PdptIndex(va), PdIndex(va)>> : va \in pages})

=============================================================================
