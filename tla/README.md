# A TLA+ verification of LokoOS

LokoOS (`src/`) is an operating system at an early stage: a UEFI loader, a
kernel that boots to a heap and halts, a frame allocator, the paths and the
access policy of its file system, its permission and package-trust models, its
ABI, and the tool that builds and boots it. Most of it is logic without I/O,
written so that it can be tested on a host. This project models the parts in
which an order of steps, a fault or a long sequence of calls matters, checks
them with TLC on small instances and proves the results that matter most with
TLAPS.

## Inventory

| Component | Source | State it keeps | Operations | What makes it correct |
|---|---|---|---|---|
| Frame allocator | `kernel/loko-memory/src/lib.rs` | bitmap, base, frame count, running count, cursor | `new`, `from_memory_map`, `release`, `reserve`, `reserve_range`, `allocate(_contiguous)`, `free(_contiguous)`, `audit` | no frame handed out twice or lost; refusals genuine; frees all or nothing; the count never drifts |
| Kernel stop paths | `kernel/loko-kernel/src/{main,serial,log,framebuffer}.rs`, `arch/` | two spin locks, descriptor tables, emergency stacks | exception handlers, panic handler, `fail`, logging, stop screen, halt | a stop says what happened and halts; nothing continues beneath it; no deadlock |
| Kernel boot path | `kernel/loko-kernel/src/main.rs` | frame bitmap, heap | `_start`, `setup_memory`, `setup_heap` | the heap overlaps nothing in use; usable memory is used or reported |
| Loader | `boot/loko-boot/src/main.rs` | allocations, page tables, memory map | stages 1 to 6, `convert_memory_map` | everything the kernel is given is mapped; the map is one the kernel accepts |
| Page tables | `boot/loko-boot/src/paging.rs` | an arena of frames | `map_page`, `map_huge_page`, ranges | no conflicting mapping, W^X, no frame of the arena wasted |
| ELF loader | `boot/loko-boot/src/elf.rs` | none | `parse`, `segments`, `virtual_extent` | segments inside the file, copies inside the image |
| Boot protocol | `boot/loko-boot-protocol/src/lib.rs` | the boot information | `validate`, `validate_memory_map` | a good map is accepted, a bad one is not |
| LKOFS policy and roots | `filesystem/lkofs-core/src/{policy,root}.rs` | grants, open transaction (held by callers) | `evaluate` | the system changes only in updates; users, sandboxes and Loko AI are confined |
| LKOFS paths | `filesystem/lkofs-core/src/path.rs` | the text as given, the root | `parse`, `join`, `parent`, `is_within`, `to_owned_path` | the root is the one the text names; canonical text reads back; spelling decides nothing |
| Permissions | `security/loko-security/src/permission.rs` | declared permissions, a decision for each | `decide`, `set_from_settings`, `revoke`, `end_session`, `check` | refusals stand; covert permissions never become permanent by accident |
| Package trust | `security/loko-security/src/trust.rs` | none (the installed package is the caller's) | `evaluate_install`, `as_error` | only LokoOS replaces LokoOS; no downgrade; refusals keep their meaning |
| ABI and system calls | `sdk/loko-abi/src/`, `kernel/loko-kernel/src/syscall.rs` | handles and rights | `derive`, `allows`, `legal_rights_for`, `required_rights`, the return register, `dispatch` | rights only narrow; an answer is read as it was meant |
| Build and test tool | `tools/xtask/src/` | `target/`, `build/`, a QEMU process, its serial log | `iso`, `boot-test` | no stale file gets into an image; green means the present sources boot |

How they interact: the loader reads the kernel's ELF file, copies its segments,
builds page tables and a memory map and jumps to `_start` with a pointer to the
boot information; `_start` validates it (boot protocol), builds the frame
allocator from the map, reserves what is in use and takes the heap from it.
Everything logs through the serial port; every fatal path ends in the stop
screen and the halt. `cargo xtask boot-test` builds the two binaries, packs them
into an ISO, boots it under QEMU and judges the serial log. Refusals of the
trust check travel as ABI errors through a register. The policy, the permission
record, the trust check and the rights of handles are libraries for services
that do not exist yet: they are modelled with the callers their documentation
describes, marked external.

What is hard: exceptions cannot be masked and may strike while a spin lock is
held; handlers nest on a few emergency stacks; the firmware may place memory
anywhere and list its map in any order; the allocator's cursor makes the result
of a call depend on the whole history; huge and small pages share one tree;
prompts and warnings are answered after the state they were about has changed;
the first matching rule of a policy wins; a path carries its root beside a text
in one of several spellings; a killed test leaves half-written files and a
running QEMU to the next one. The full list, line by line, is under `hazards`
in `PROJECT.json`.

## Modules

| Module | Models | Composes |
|---|---|---|
| `FramePool` | what the frame allocator promises: a set of free frames, calls in one step | |
| `FrameAllocator` | the allocator, its loops turn by turn; arbitrary callers | shown to implement `FramePool` |
| `FrameOwners` | callers and the frames they believe to own, or careless callers and no account | `FrameAllocator` |
| `KernelStop` | the boot path, handlers, panic, the two locks and the processor | |
| `BootHandoff` | loader, memory map, validation, `setup_memory`, `setup_heap` | uses `FramePool` as the kernel's allocator |
| `PageTables` | the loader's page tables, as operators | |
| `KernelImage` | the loader from the ELF file to the switch of tables | `PageTables` |
| `LkoPath` | parsing, validation, joining, parents and containment, as operators | |
| `LkofsPolicy` | `evaluate` among paths, subjects, grants and transactions | `LkoPath` |
| `PermissionRecord` | one application's record, the application and the user | |
| `LokoAbi` | errors and their register, rights, system call numbers, as operators | |
| `HandleTable` | handles derived, passed on, used and closed; the dispatcher | `LokoAbi` |
| `PackageTrust` | overlapping installations and what becomes of refusals | `LokoAbi` |
| `ImageBuild` | from sources to an ISO over whatever was left behind | |
| `BootTest` | the ISO under QEMU, the watch loop, the clock and the guest | `ImageBuild` |
| `Selection` | selecting from a sequence and ordering a set, without a loop | used by `LkoPath` and `BootHandoff` |
| `FrameAllocatorProofs`, `KernelStopProofs`, `KernelImageProofs`, `BootHandoffProofs`, `BootTestProofs`, `HandleTableProofs`, `LkofsPolicyProofs` | theorems and their lemmas | the module they are named after; the first also `FrameOwners`, `BootTestProofs` also `ImageBuild`, `LkofsPolicyProofs` also `LkoPath` |
| `SecurityProofs` | theorems and their lemmas | `PermissionRecord` and `PackageTrust`, the two parts of the crate `loko-security` |
| `MC*` | instances for TLC | |

Definitions named "Faulty variant of X" are plausible bugs in the code X
models. No specification uses them; each property is shown to catch one (see
`mutants` in `PROJECT.json`).

### FrameAllocator

The fields of the struct are variables; the bitmap is the set of its set bits.
`release`, `reserve`, `reserve_range` and `free` are one step. The search of
`allocate_contiguous` takes a step per window: `SearchTake` (window clear),
`SearchPastBlocker`, `SearchFromZero` (second pass) and `SearchExhausted`.
`free_contiguous` is `ValidateNext`/`ValidateDone` followed by
`FreeNext`/`FreeDone`. `outcome` is the value the last call returned. Address
arithmetic saturates at `U64_MAX` where the code's does. A call of
`from_memory_map` or `new` is an initial state.

The refinement maps the pool's free frames to the clear bits, except that a run
being freed counts as held until the last frame of it is free: the caller sees
the free happen at once.

`FrameOwners` adds who owns a frame. Its callers are careful, and free only what
they own, in whatever pieces, or all are careless and do what they like; the two
kinds are two sets of behaviours of one specification (`FairAnySpec`), so that
one run checks the allocator under both.

### KernelStop

Code is a sequence of atomic operations on the locks, the port, the screen and
the processor (`Start`, `Fail`, `PanicScreen`, `HandlerCode`, ...). Activations
form a stack. `Raise` pushes a handler at any point, on its emergency stack
(`Ist`) or on the interrupted code's; a handler that starts on a stack already
in use marks the frames there as overwritten. `Panic` replaces the code of the
running activation without dropping its guards (the profile aborts on panic).
A halted processor is woken by a non-maskable interrupt only. `struckLock`
remembers that a fault struck while a lock was held.

### BootHandoff

Memory is a function from pages to UEFI types. The steps are those of
`load_and_start` in order: allocate (six purposes), query, build tables, exit
boot services, convert the map, jump; then `_start`'s validation,
`setup_memory` and `setup_heap`. Each allocation takes one page wherever the
firmware likes. Page tables are abstracted to the set of physical pages the
window covers, rounded to huge pages; `KernelImage` has the tables themselves.
Three uses may fault: the instruction after the switch of tables, the stack and
boot information, the heap. `FaultsOnlyOutOfReach` says when they do: when the
firmware has put the loader above the identity map, or the stack, the converted
map or the boot information at or above `MAX_MAPPED_PHYSICAL`, where
`highest_ram_address` ends the window whatever has been allocated there. The heap
never faults. A map that did not fit the region array is cut short as the code
does it; `GoodMapIsAccepted` and `UsableMemoryIsAccountedFor` then promise less
and nothing, as their comments say.

The firmware's map is a set of descriptors, its longest runs of one type
(`Descriptors`), perhaps with an empty entry, listed in an order the constant
`Orders` allows (`Listings`). `ConvertMemoryMap` skips the empty ones
(`NonEmpty`), keeps what the region array has room for (`Kept`), translates
types (`KindOf`, `Converted`) and sorts (`Sorted`). The insertion sort is stated
by what it returns: starts differ, so the order by start is one sequence
(`Ascending` of `Selection`: an element stands at the place that counts how many
are no greater than it). In the same way `Components` of `LkoPath` states the
`filter` of the code (`Selected`).

### PageTables and KernelImage

The arena gives every frame out once, so a table is named by the indices that
lead to it and an entry is a path: it points to a table, is a leaf, or is
empty. `Descend` is `descend` with the frames it takes, `MapPage` and
`MapHugePage` end in `PutLeaf`. The number of entries of a table is a constant
for each level. An address is a `u64`, `SPANS` times as many as the indices tell
apart (2^16 on the machine), and the indices are masked as the code masks them,
so addresses that are `TOP` apart share their entries. `Lookup` is the walk of
the tables, `Translate` the processor's, which accepts `Canonical` addresses
only; the loader asks nobody whether an address is canonical.

`KernelImage` follows `load_and_start`: `ReadKernel`, `Parse` (`ParseError` has
the checks in the order of `parse`), `Reserve`, a step for every segment copied
(`copy_segments`) and for every page of the four ranges that are mapped. `at` is
the program header the loader has come to, `Segment(i)` the segment of the i-th;
a header that is not loadable is passed over. The firmware gives memory that
exists (`Reserve`). An address that overflows 64 bits is a panic, since every
profile keeps overflow checks, and stops the loader wherever it is computed: in
`virtual_extent`, in `copy_segments` and in each of the ranges (`Map`). A lowest
address of `u64::MAX` is taken for an image without segments, as the code takes
it (`NoExtent`). Memory holds, for every byte, the place in the file it came
from, so that "the kernel finds itself as it was linked" can be said through
`Lookup`, also of a segment at an address that is not canonical and was mapped at
the entries of another.

### LkoPath and LkofsPolicy

A text is a prefix (`LKO`, `lko`, none, or something else) and the parts between
its separators; a name is the word it folds to, its spelling, its length in
bytes and the marks validation looks for. `Parse`, `ValidateComponent` and
`Join` have the code's errors in the code's order. `Parent` cuts the text at a
byte offset as the code does, so a wrong offset leaves a fragment of a name.
`ToOwned` may be longer than `MAX_PATH_LEN`, as in the code.

In `LkofsPolicy` a path is held and is opened, joined, climbed or copied to its
canonical form; `Evaluate` has the rules in the code's order; `Access` asks and
performs the operation, silently after `Allow` and after the user's yes after
`Confirm`; grants and update transactions come and go between accesses. The path
that is held is whatever that history made of it, which is what the policy's
promises are checked on.

### PermissionRecord

`declared` and `state` are the record. The application launches, exits (which
calls `end_session`), changes focus and uses permissions (`check`); the user
answers prompts (`decide`), changes settings and revokes. Any number of prompts
may be open, up to `MaxPrompts` for one permission, and they stay open over
everything else: the record has no trace of them. The rest is history: `late`
counts the open prompts that were open already when the user refused the
permission or the application exited, `refused` has the permissions the user has
said no to since Settings last said otherwise, `overtaken` those of them for
which a late prompt has been answered otherwise, and `source` what last wrote a
state. `RefusalStands` is what the comments promise and the code does not keep
(`permission_late_answer`); `RefusalYieldsOnlyToLateAnswers` is what it keeps.

### LokoAbi, HandleTable and PackageTrust

`LokoAbi` has the tables of the ABI and its arithmetic: `FromRaw` overflows at
`ISIZE_MIN`, `Decode(ToRegister(r))` is what a caller makes of an answer.
`HandleTable` grants objects when a process starts, derives, transfers, closes
and uses handles, and dispatches numbers; `granted` remembers what an object was
first given out with. The rules are the code's; the table that applies them is
external, since the kernel answers `NotImplemented` to everything so far.

`PackageTrust` has `EvaluateInstall` with its rules in order, and attempts that
overlap: a warning stays open while another attempt installs, the mode changes
or the package is removed, and the acknowledged attempt is evaluated again, as
"surface a prompt and retry" (`error.rs`) says. A refusal becomes an error
(`AsError`), a register, an error again, and then an entry in the security log,
a silent retry or a dialog, by the tables of `error.rs`.

### ImageBuild and BootTest

A file holds the revisions of the binaries in it, how much of it is there
(nothing, part, all) and whether it carries the two marks that `verify` looks
for, `CD001` in sector 16 and the signature at byte 510. Every step of `iso` is
an action whose tool may fail and leave its output half written. Where the code
ignores an error, so does the model: `Remove` may leave an old `esp.img` or ISO,
and `Prepare` an old `serial.log`, and the invocation goes on. `Xorriso` may also
report success and leave part of an image, marked or not, or what was there.
`Verify` looks at the marks and at nothing else. `faults` records what has gone
wrong, and the properties say what is promised in spite of it: the ISO is of this
invocation unless xorriso lied and the old one would not go, and whole unless
xorriso lied. The sources may be edited at any time and the invocation killed
between any two steps.

`BootTest` adds the guest, which prints stages in order, the success line or
failures, or hangs; QEMU, which opens the log some time after it was started and
may exit; the clock; and the watch loop with its three tests (`Poll`,
`CheckExited`, `CheckTimeout`). A log is the set of lines in it; `writers` are the
invocations whose QEMU has the file behind the name open, and where there are two
a look at it may show any of the lines. A killed test leaves its QEMU running with
the log it has open; the next invocation removes the name and gets a file of its
own, or fails to remove it and shares one. The two messages for a QEMU that
exited differ in wording only and are one outcome; `CheckExited` reads the log
again for the report and does not look at it, as in the code.

## Runs

| Run | Instance and bounds | Shows |
|---|---|---|
| `frame_allocator` | at most 4 frames of 2 bytes, bases 0 and 1, counts 0 to 3, five memory maps, six byte ranges; careless callers, or two careful ones | the properties of the allocator, the refinement and that calls return; no frame shared or lost by careful callers |
| `kernel_stop` | page fault, double fault, NMI, debug; up to 3 faults anywhere | the stop paths are safe whatever strikes, and halt unless a fault struck inside a critical section |
| `permission_record` | one covert and one ordinary permission, up to two open prompts for each | what the record keeps of its promises with prompts answered late |
| `boot_handoff` | machines of 14, 13 and 9 pages, a window of 12, huge pages of 2, room for 9 regions, 12 managed pages; maps listed up or down, from the first entry or from the middle, with and without an empty entry | the handoff |
| `kernel_image` | 128 addresses on a tree that tells 64 apart, pages of 2 bytes, huge pages of 4; images of one to three of 18 headers, good and bad, three of them at non-canonical addresses; RAM of 12 bytes, no framebuffer, one outside RAM, across its end or beyond the window; arenas of 3, 10 and 16 frames | the image is loaded, W^X, the window, the switch; good images start |
| `lkofs_policy` | subjects of all classes, texts in all spellings, names of up to 3 bytes, paths of up to 11, one grant at a time | the promises of the policy and of paths |
| `handle_table` | 1 object, 2 processes, 3 handle numbers, a register of 6 bits, error codes up to 20 | authority is confined; answers are read as meant |
| `package_trust` | 2 attempts at once, 12 packages of one id | the rules under overlap; refusals are final, logged and shown |
| `boot_test` | 2 source revisions, 2 invocations, 1 boot stage, 1 failure marker | rebuilding over anything, an honest verdict, an end |

Why the bounds are enough. Four frames allow a run that straddles the cursor,
a run split by a blocker and a free of part of a run, which is where the search
and the two loops can go wrong; the same facts are proved for every size. Three
faults allow a stop nested in a stop nested in a returning handler; the handlers
left out of the instance (divide error, invalid opcode, general protection) have
the code of a page fault's and, like the debug handler, no emergency stack. The
machines of the handoff are small enough that the loader's seven pages and the
heap nearly fill them, so every adjacency occurs; the twelfth page, where the
window and the bitmap end, and the ninth region are limits that are met, one
machine has free memory beyond the window and one has its loader above the
identity map. A tree whose tables have two entries, four
at the root, has every case of a table shared, missing or blocked by a huge page
at each level; all pairs of segments occur, so all orders and overlaps do, and
twice as many addresses as entries give every entry one address of each half and
one alias. The
policy never combines two grants, so one at a time shows every decision; eleven
bytes is long enough for three components and short enough to be met by the
canonical form of a text that is itself within the limit. One object and three
numbers allow a handle, its derivative and a derivative of that, in two
processes; a six-bit register has room for all eighteen codes, for codes of a
newer kernel and for nothing more. Two attempts are what an overlap needs. Two
invocations are what a leftover needs, and what it takes for two machines to
write one log; one stage and one marker tell progress, success and failure apart,
and the theorem has any number of each. Two prompts for one permission are one
that is late and one that is not.

Runs that end in a violation show where the code and what is said about it
disagree; `findings` in `PROJECT.json` quotes each line.

| Run | Disagreement |
|---|---|
| `kernel_stop_locked` | a fault inside a critical section leaves its handler spinning: it never halts |
| `lkofs_removal` | the shell removes Config, and the immutable Security with it |
| `permission_late_answer` | the answer to a prompt that was open during a revocation undoes it |

Other disagreements met on the way have no run of their own; where a property is
near, it says what holds instead.

- Frame allocator: "exact double-free detection" (`loko-memory/src/lib.rs:10`)
  lasts until the frame is handed out again; a second free after that succeeds
  and takes the frame from its new holder. `FrameOwners` has callers that free
  only what they own.
- Permissions: a one-time grant given in answer to a prompt that was open when
  the application exited is there in the next session
  (`OneTimeGrantsEndWithSession` has it as an exception), and within a session it
  may be used any number of times, although `Grant::Once` is documented as "This
  one time only".
- Loader: memory above the window "is not mapped and the kernel reports it as
  unmanaged rather than failing to start" (`loko-boot/src/main.rs:72`), but
  `allocate_pages` (line 326) takes any pages, `highest_ram_address` is clamped
  (line 440), and when the firmware places the stack, the region array or the
  boot information above the window the kernel faults on entry.
  `FaultsOnlyOutOfReach` has it as one of its two cases, and both are reached in
  the run.
- Loader: a memory map that does not fit the region array is cut short and the
  kernel, which is said to notice, compares no total.
- Loader: the parser sees a buffer rounded up to pages, so a file that is cut
  short within its last page is accepted; the entry point is not checked to lie
  in a segment; W^X is kept per virtual page, while the window maps the frames
  of the code writable; a loader that runs above the identity map would not
  survive the switch, which is the other case of `FaultsOnlyOutOfReach`.
- Loader: a segment at an address that is not canonical is accepted
  (`elf.rs:243` asks only whether the sum overflows) and mapped at the entries of
  another address (`paging.rs:321-335`), where the processor does not find it
  under its own. `ImageIsLoaded` says that the tables hold it and that nothing
  else was displaced, not that the processor reaches it.
- Loader: "A conflict there is benign by construction" (`loko-boot/src/main.rs:173`,
  of the framebuffer) is so as long as no page of the kernel is linked to where
  the window shows the framebuffer. For such a kernel the conflict is with the
  kernel's own page table, it is tolerated all the same, and the framebuffer has
  a hole. `FramebufferIsClear` says that there is no such page; the linker
  script keeps the kernel away from the window, and `HandoffIsMapped` has the
  condition because the loader does not check it.
- Kernel: the double-fault handler's comment says that it touches no locks, and
  it logs and paints under both.
- Policy: Loko AI, every write of which is said to go through the user,
  overwrites silently in Temp and Cache; a compatibility runtime, said never to
  read system locations, reads Config/Security.
- Paths: `LkoPathRef::as_str` is documented as canonical (`path.rs:163-169`,
  311) and returns the text as given. `MAX_PATH_LEN` is the
  "Maximum total length in bytes of an LKO path" (`loko-abi/src/lib.rs:58`), but `parse`
  measures the text it is given, and the canonical form of a text that starts
  with `/` may be three bytes longer and is then not read back.
  `CanonicalTextIsReadBack` says that it is refused as too long, never read as
  another path, and that the short spelling still reads back. `LKO//` is the
  volume root.
- Package trust: the publisher of an update is not compared with that of the
  installed package, so an update with the same id that does not call itself a
  system component may replace one that did.
- Build: `verify` is said to catch "the case where xorriso reports success but
  writes something unusable" (`iso.rs:327-328`); an image that ends after sector
  16 has both marks and passes. `OfThisInvocation` has it as an exception.
- Boot test: success is "decided by what appears on the serial port"
  (`qemu.rs:10-13`), but when QEMU has exited the log is read again for the report
  only (line 269): a success line or a failure that appeared since the last look
  is printed with the verdict that QEMU exited, and the stages are not counted
  again. `LogWinsOverTheClock` is about the timeout alone for that reason.
- Boot test: a failed read of the log counts as no stage reached, and a
  `serial.log` that cannot be removed (line 163) may be read as this boot's until
  QEMU empties it. `ReportIsOfThisGuest` has the latter as its exception.

### Fairness

`FrameAllocator!FairSpec` assumes that a loop that is running keeps running
(weak fairness of its steps); no caller has to call anything.
`KernelStop!FairSpec` assumes that the processor executes the operation it can
execute; no fault has to happen. One processor runs the kernel and nothing
preempts it, so nothing stronger is needed or assumed. Spinning on a lock that
is held is the absence of a step: that is how the deadlock shows.
`KernelImage!FairSpec` assumes that the loader runs; it is alone on the machine.
`PackageTrust!FairSpec` assumes that each client reports the answer it got; the
user owes nothing. `BootTest!Spec` assumes that the tool and its children
terminate or fail (cargo, the tools of the image), that the watch loop polls and
that the timeout elapses; the guest and QEMU may stop at any time, and nobody
has to edit, kill or start again.

Deadlock checking is off where the system really stops: a halted or reset
machine, a boot that has ended, an image that was started or refused, and a last
invocation that is over.

## Proofs

Each proof has the same shape: an inductive invariant `IInv`, one lemma or step
per action, and temporal theorems that combine them. TLC checks the parts first.

`FrameAllocatorProofs` assumes only `FrameAllocatorAssumption`: a positive frame
size, natural numbers, finite memory maps and byte ranges whose start and length
fit the address width, as two `u64` do. It proves, for every instance,
`TypeCorrect`, `AuditAlwaysSucceeds`, `RefusalsAreGenuine`,
`FreesAreAllOrNothing`, `SearchLeavesNothingBehind`, `ReservesExactly` and
`AllocatorImplementsPool`. The inductive invariant joins the type invariant and
the audit with what the loops rely on: a second pass has left no free run behind
it (`SearchedPrefixHasNoRun`), and a validated run stays allocated until it is
freed (`ValidatedRunIsAllocated`). Without the first, "OutOfMemory is genuine"
is not inductive at the step that gives up; without the second, the freeing loop
could fail half way. The key step of the search is that a window that contains a
blocker cannot hold a run, and neither can any window that starts between the
old index and the blocker. The refinement proof shows that every step of a loop
is a stutter of the pool except the one that returns.

For `FrameOwners` the same module assumes, besides, that owners are told apart
(`FrameOwnersAssumption`), and proves that no frame is ever handed out twice
(`FramesAreExclusive`), that bitmap and owners agree between calls
(`BitmapAndOwnersAgree`) and that freeing what one owns never fails
(`RightfulFreesSucceed`). Agreement between calls is not inductive: while a run
is being freed its frames are nobody's and their bits go one by one. The
invariant says which frames are leaving, that they are nobody's, and that the
others agree at every step; the allocator's own invariant says which bits of the
run are still set. Every step of the callers is a step of `FrameAllocator`, so
its lemmas carry over.

The first part of `SecurityProofs` assumes `PermissionRecordAssumption`, any
permissions and any bound on open prompts. Its invariant adds that a refusal
which no late answer has overtaken is recorded as `Denied`, and that every open
prompt for a refused permission is late: `check` asks for none while the state is
`Denied`, so an answer that is not late is never about a refused permission.
Without the second `RefusalsStand` is not inductive at `Answer`. For
`OneTimeGrantsEnd` the invariant says that all prompts are late while the
application is not running (`PromptsOfTheSession`). No theorem restricts what may happen while a prompt is open.

`KernelStopProofs` assumes `KernelStopAssumption`: any set of the modelled
exceptions and any number of faults. It proves `HaltsAreExplained`,
`StacksStayIntact` and `NothingRunsUnderAStop`. None of the three is inductive,
since a handler may be interrupted at any operation by a handler that may be
interrupted. The invariant `IInv` says of every activation, to any depth, what
code it may have left: it ends in `halt` or `iret` and nowhere before
(`EndsProperly`); a stop has no return and looks at the size of the surface only
after its message went out (`StopCode`). `StopsExplain` says that what a stop
has not said or painted yet is still in its code, which is what makes the halt
explained; the order of message and size is needed at the step where the code
that paints is left out for want of a surface. `OverwrittenIsBuried` says that an
activation whose stack was overwritten lies under a stop: the emergency stacks
are only reused by handlers that stop, and so what is overwritten never runs.

`KernelImageProofs` assumes `PageTablesAssumption` (sizes and fan-outs are
positive) and `KernelImageAssumption` (the file's fields are natural numbers, the
firmware's allocation starts at a page and not at zero, the identity map is in
the lower half of the tree and the window in the upper): the image is anything a
file may say, at any address of 64 bits.
It proves `NothingIsWritableAndExecutable`, `NothingIsRemapped`,
`TheHandoffIsMapped` and `TheImageIsLoaded` from one invariant (`LoaderIsSound`).
About the tables (`TablesOK`): every leaf of a page lies below a table, no table
is also a leaf and no leaf grants writing and executing. Each call keeps this
and only adds (`Grown`), whether it succeeds or fails half way down, and what was
added stands because an entry is determined by the quotient of the address
(`SameEntry`, and `HugeIsUnique` within one span of the tree, from lemmas on
division; the window lies in one span). About the loader:
`BytesCopied` says that every byte copied so far is in memory *unless a later
segment covers it*. `copy_segments` does not look for overlaps, so the plain
statement is false in between; it is restored at the end by `PagesDiffer`, since
two segments that share a byte share a page and `map_page` then refuses the
second, and so it does when only their entries are the same. `EntriesAreKnown` says that page tables are there for the kernel's pages
only and huge pages, until the identity map, for the window only: this is why a
conflict that the framebuffer's range tolerates is with an entry that shows the
same memory. `RangesMapped` counts the pages of the ranges. The least and the
greatest address of the image exist because the order of the natural numbers is
well-founded (`LeastExists`), so that the allocation has room for every segment.

`BootTestProofs` assumes `ImageBuildAssumption` and `BootTestAssumption`: any
number of revisions, invocations, stages and failure markers. It proves
`BuildsAreSound` and `VerdictsAreHonest`. Of the build the invariant says, for
every place an invocation can be at, which files are already of this invocation
(`PartsAreFresh`) and that nothing left behind is in the way of the tools that
refuse to overwrite but what is on record as not removed (`NothingInTheWay`);
nothing is said of files not yet rewritten, which may hold anything. `verify` adds
only the marks to this; that the image is whole comes from the step that wrote it
and did not lie. Of the test, that the log belongs to this invocation's machine
from the moment the old one is removed (`LogIsOurs`), although machines of killed
invocations still run, and that the loop goes on only while what it read settles
nothing (`Evidence`). The verdict alone is not inductive: it is given from what
was read some steps before.

`HandleTableProofs` assumes `HandleTableAssumption` and `LokoAbiAssumption`. Its
invariant joins the types, that every object was granted with rights legal for
its kind, and the three parts of `AuthorityIsConfined`; the legality of the
grant is what makes a permission grant underivable. `ReadOnlyStaysReadOnly`
follows from the invariant by going through the table of required rights,
`AnswersAreRead` from lemmas about the register, much as `SecurityProofs` has
for errors alone: a payload or an error that goes through it comes out as it
was, for every width that has room for the codes, and a code of a newer kernel
comes out as `InvalidArgument`.

The second part of `SecurityProofs` assumes that `Packages` are packages. Its
invariant says of every attempt that its phase and its contents agree (a
refusal's error is `AsError` of its reason, and the log entry follows from it)
and of what is installed the absolute rules and the rule for silence.
`VersionsOnlyGrow` and `UnsignedNeedsDeveloperMode` are action properties: they
hold of the step that installs because the decision is taken in that very step,
on the state of then.

`LkofsPolicyProofs` assumes `LkoPathAssumption` and `LkofsPolicyAssumption`: any
texts made of names that may carry any mark, any limits on lengths, any
subjects. It proves all six properties of `lkofs_policy`, the four promises of
the policy without any condition on the path. The invariant has two parts.
`PathsAreCanonical` says of the path that is held and of every grant that their
parts are legal names up to one trailing separator, that the root is the one the
first part names, and that the components fit the limit. It is what the type
`LkoPathRef` is said to guarantee, and it is not `HeldPathIsSound`, which speaks
of components only and is not inductive: `parent` cuts the text, not its
components, at a byte offset. The proof that a cut never falls inside a name
(`PrefixesGrow`: lengths of prefixes ascend strictly, so exactly one has the
length asked for) is the core of `WalkingIsLevelByLevel`. That parsing accepts
canonical paths only (`ParsedIsCanonical`) and reads its own output back is the
core of `EveryPathIsSound`. The second part, `DecidedNow`, says that what is being
performed is what `Evaluate` decides now, which holds because nothing changes
between the question and the end of the operation. Lengths are sums over a
sequence; the induction they need runs over the natural numbers as a
well-founded set (`CountingUp`), which needs no operator parameter.

`BootHandoffProofs` assumes `BootHandoffAssumption`: any machines, framebuffers,
sizes and orders. What the conversion of the map yields is said once,
`MapIsFaithful`: regions ascend and do not overlap, hold pages of their kind, and
hold every free page unless the map did not fit. Its proof is about `Ascending`,
which orders a finite set of any size (`AscendingOrders`), and about runs of pages
being disjoint. The three other facts of the invariant are about time: the
loader's pages are typed as such from their allocation on (`AllocationsAreTyped`);
RAM is in the window although the map it was measured by was an earlier one,
since an allocation turns RAM into RAM (`RamIsMapped`); the pool holds memory that
was free when the firmware was left (`PoolIsFree`). `HeapIsFreeMemory`,
`TheMapIsGood` and `NothingUsableIsLost` follow for every machine.
So does `NothingInReachFaults`, without a condition on the machine: `RamIsMapped`
says that RAM below `MAX_MAPPED_PHYSICAL` is mapped, whatever lies above it.

Lemmas about the least element of a set of numbers are stated in each module that
needs them, so that every proof module stands on its model and the library alone.

Only model-checked, and why:

- Liveness (`CallsReturn`, `EveryUnstruckStopHalts`, `RefusalsReachTheUser`,
  `InvocationsEnd`, `GoodImageStarts`): the prover does not do fairness. Every
  other property of every passing run is the property of a theorem.
- That the insertion sort and the iterator's `filter` compute what `Ascending` and
  `Selected` state: the models have their results, not their loops.

## Not modelled

- The contents of descriptor tables, pixel arithmetic, formatting, texts for
  people, labels, storage categories, indicators, and the layout lists of LKOFS
  (`INITIAL_LAYOUT` and the like): constants or wording.
- The algorithm inside the heap (an external crate, from which nothing is
  allocated yet), and the firmware's file, graphics and ACPI protocols, which
  may fail wherever they are called.
- The magic, version and layout checks of the boot information and the checks of
  the fixed ELF header: the first always succeed with this loader, the second are
  one outcome, since they do not depend on anything else.
- `phys_start + page_count * PAGE_SIZE` of a firmware entry at the top of the
  address space: overflow checks make it a panic before the handoff.
- System calls behind the dispatcher, which answers `NotImplemented`; the handle
  table, the installer and the services that would call the policy and the
  permission record. Their models are external.
- Of the build tool, the size budgets (`budget.rs`), the choice of a toolchain
  (`toolchain.rs`) and the commands that only call cargo. Two invocations at the
  same time share `build/` without a lock; the tool does not claim otherwise, and
  the model has one at a time. A QEMU is taken to have opened its log before
  somebody starts the next test.

## Plan

Done: the frame allocator with its pool and owners; the stop paths; the handoff;
page tables and the kernel image; paths and the policy; the permission record;
the ABI, handles and package trust; building and boot-testing; proofs of every
safety property and action property of the passing runs. What is left:

1. The size budgets and the layout lists, once more than constants is in them.
2. When the kernel gets system calls, the handle table and the policy behind
   them as one system.
3. When the loader keeps its allocations below the window, drop that case from
   `FaultsOnlyOutOfReach`; when `decide` looks at the state it overwrites, check
   `RefusalStands` in `permission_record`.
