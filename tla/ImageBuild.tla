----------------------------- MODULE ImageBuild -----------------------------
(***************************************************************************)
(* cargo xtask iso (tools/xtask, main.rs and iso.rs): two binaries are     *)
(* built, laid out as an EFI system partition, packed into a FAT image and *)
(* that into an ISO, over whatever earlier invocations left in build/.     *)
(*                                                                         *)
(* The sources are edited while invocations run, cargo and every tool may  *)
(* fail, leaving its output half written, an old file may refuse to be     *)
(* removed, and the invocation may be killed between any two steps.        *)
(* Invocations do not overlap.  The contents of a file are the source      *)
(* revisions of the binaries it holds, how much of it is there, and        *)
(* whether the few bytes that verify looks at are right.                   *)
(***************************************************************************)
EXTENDS Integers, FiniteSets

CONSTANTS
  MAX_REV,        \* bound: source revisions 1 .. MAX_REV
  MAX_RUNS        \* bound: invocations

ASSUME ImageBuildAssumption == MAX_REV \in Nat \ {0} /\ MAX_RUNS \in Nat \ {0}

VARIABLES
  rev,            \* the revision of the sources
  run,            \* the invocation, 0 before the first
  since,          \* the revision at which this invocation started
  step,           \* where this invocation is
  faults,         \* what has gone wrong in this invocation
  disk            \* what each file holds

buildVars == <<rev, run, since, step, faults, disk>>

Files == {"loko-boot.efi", "loko-kernel",                     \* target/
          "EFI/BOOT", "EFI/LOKO/boot", "EFI/LOKO/kernel",     \* build/esp
          "esp.img", "iso_root", "iso_root/esp.img", "iso"}   \* build/

\* A tool failed or is missing; xorriso reported a success that was none; an
\* old file would not go.
Faults == {"failed", "lied", "esp.img", "iso", "serial.log"}

\* 0 stands for a binary that is not there.  An image is marked when it has a
\* volume descriptor in sector 16 and a signature at byte 510.
Content == [boot : 0 .. MAX_REV, kernel : 0 .. MAX_REV,
            extent : {"none", "part", "whole"}, marked : BOOLEAN]
File(b, k, extent) == [boot |-> b, kernel |-> k, extent |-> extent, marked |-> FALSE]
Absent == File(0, 0, "none")

Exists(f) == disk[f] # Absent
HalfWritten(c) == [c EXCEPT !.extent = "part"]
Both(b, k) ==
  File(b.boot, k.kernel, IF b.extent = "whole" /\ k.extent = "whole" THEN "whole" ELSE "part")

BuildInit ==
  /\ rev = 1
  /\ run = 0
  /\ since = 1
  /\ step = "idle"
  /\ faults = {}
  /\ disk = [f \in Files |-> Absent]

-----------------------------------------------------------------------------
(* Steps.  A step goes from one place to the next; when its tool fails, the *)
(* invocation ends there with an error.                                     *)

Goto(from, to) == step = from /\ step' = to

Fail(from) == Goto(from, "error") /\ faults' = faults \cup {"failed"}

\* The tool does its work, or it fails half-way.
Write(from, f, content, to) ==
  \/ /\ Goto(from, to)
     /\ disk' = [disk EXCEPT ![f] = content]
     /\ UNCHANGED faults
  \/ /\ Fail(from)
     /\ disk' = [disk EXCEPT ![f] = HalfWritten(content)]

\* let _ = fs::remove_file(f): whether a file that is there goes or stays, the
\* invocation goes on.
Remove(from, f, to) ==
  /\ Goto(from, to)
  /\ \/ /\ disk' = [disk EXCEPT ![f] = Absent]
        /\ UNCHANGED faults
     \/ /\ Exists(f)
        /\ faults' = faults \cup {f}
        /\ UNCHANGED disk

\* build_bootloader and build_kernel: cargo replaces its output or leaves it
\* alone.
Cargo(from, f, content, to) ==
  \/ /\ Goto(from, to)
     /\ disk' = [disk EXCEPT ![f] = content]
     /\ UNCHANGED faults
  \/ Fail(from) /\ UNCHANGED disk

BuildBootloader == Cargo("start", "loko-boot.efi", File(rev, 0, "whole"), "kernel")
BuildKernel == Cargo("kernel", "loko-kernel", File(0, rev, "whole"), "BOOTX64")

\* image: the bootloader under both of its names, then the kernel.
CopyBootx64 == Write("BOOTX64", "EFI/BOOT", disk["loko-boot.efi"], "copy boot")
CopyBootloader == Write("copy boot", "EFI/LOKO/boot", disk["loko-boot.efi"], "copy kernel")
CopyKernel == Write("copy kernel", "EFI/LOKO/kernel", disk["loko-kernel"], "tools")

\* What the tree holds, as firmware boots it.
EspTree == Both(disk["EFI/BOOT"], disk["EFI/LOKO/kernel"])

\* check_tools
CheckTools ==
  \/ Goto("tools", "remove esp.img") /\ UNCHANGED <<disk, faults>>
  \/ Fail("tools") /\ UNCHANGED disk

\* Faulty variant of RemoveEspImage: the old image is left in place.
KeepEspImage == Goto("remove esp.img", "mkfs") /\ UNCHANGED <<disk, faults>>

\* build_esp_image: "mkfs.vfat -C creates the file and refuses to overwrite
\* one that is already there".
RemoveEspImage == Remove("remove esp.img", "esp.img", "mkfs")

Mkfs ==
  IF Exists("esp.img")
    THEN Goto("mkfs", "error") /\ UNCHANGED <<disk, faults>>
    ELSE Write("mkfs", "esp.img", File(0, 0, "whole"), "fill")

\* copy_tree_into_fat
FillEspImage == Write("fill", "esp.img", EspTree, "clear iso_root")

\* build: the staging tree is cleared, filled, and gets the image.
ClearStaging ==
  \/ /\ Goto("clear iso_root", "copy tree")
     /\ disk' = [disk EXCEPT !["iso_root"] = Absent, !["iso_root/esp.img"] = Absent]
     /\ UNCHANGED faults
  \/ Fail("clear iso_root") /\ UNCHANGED disk

CopyTree == Write("copy tree", "iso_root", EspTree, "stage")
StageEspImage == Write("stage", "iso_root/esp.img", disk["esp.img"], "remove iso")

RemoveIso == Remove("remove iso", "iso", "xorriso")

\* What xorriso may leave short of the image: part of it, with or without the
\* marks, or what was there before.
ShortOf(image) == {[HalfWritten(image) EXCEPT !.marked = m] : m \in BOOLEAN} \cup {disk["iso"]}

\* xorriso writes the image and its marks, or fails, or reports success all the
\* same ("xorriso reports success but writes something unusable").
Xorriso ==
  LET image == [disk["iso_root/esp.img"] EXCEPT !.marked = TRUE]
  IN  \/ /\ Goto("xorriso", "verify")
         /\ disk' = [disk EXCEPT !["iso"] = image]
         /\ UNCHANGED faults
      \/ \E c \in ShortOf(image) :
           /\ \/ Fail("xorriso")
              \/ Goto("xorriso", "verify") /\ faults' = faults \cup {"lied"}
           /\ disk' = [disk EXCEPT !["iso"] = c]

\* verify looks at the marks, and at nothing behind them.
Verify ==
  /\ step = "verify"
  /\ step' = IF disk["iso"].marked THEN "built" ELSE "error"
  /\ UNCHANGED <<disk, faults>>

BuildStep ==
  /\ \/ BuildBootloader \/ BuildKernel \/ CopyBootx64 \/ CopyBootloader \/ CopyKernel
     \/ CheckTools \/ RemoveEspImage \/ Mkfs \/ FillEspImage \/ ClearStaging \/ CopyTree
     \/ StageEspImage \/ RemoveIso \/ Xorriso \/ Verify
  /\ UNCHANGED <<rev, run, since>>

-----------------------------------------------------------------------------
(* The developer. *)

\* The command is run, again or for the first time.
Invoke ==
  /\ step \in {"idle", "error", "done", "killed"}
  /\ run < MAX_RUNS
  /\ run' = run + 1
  /\ since' = rev
  /\ step' = "start"
  /\ faults' = {}
  /\ UNCHANGED <<rev, disk>>

Edit ==
  /\ rev < MAX_REV
  /\ rev' = rev + 1
  /\ UNCHANGED <<run, since, step, faults, disk>>

-----------------------------------------------------------------------------
(* Properties. *)

\* An invocation fails only when one of its own tools fails or lies, or when an
\* old file cannot be removed: nothing else that an earlier invocation,
\* finished, failed or killed, left behind is in its way ("Removing it first
\* makes the command idempotent", iso.rs).
RebuildIsIdempotent == step = "error" => faults # {}

\* The image holds binaries that this invocation built, from sources at least
\* as new as when it started, unless xorriso wrote nothing, said that it did,
\* and the last ISO could not be removed either; and it is whole unless xorriso
\* lied, which the two marks verify looks for do not rule out.
OfThisInvocation(image) ==
  /\ {"lied", "iso"} \subseteq faults \/ (image.boot >= since /\ image.kernel >= since)
  /\ "lied" \in faults \/ image.extent = "whole"

\* The ISO an invocation returns carries the marks, and it is this invocation's,
\* however stale the files it was built over.
IsoIsCurrent == step = "built" => disk["iso"].marked /\ OfThisInvocation(disk["iso"])

\* Nothing earlier invocations left behind stops a build, or gets into it.
RebuildIsSound == RebuildIsIdempotent /\ IsoIsCurrent

=============================================================================
