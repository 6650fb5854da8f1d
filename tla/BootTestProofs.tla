--------------------------- MODULE BootTestProofs ---------------------------
(***************************************************************************)
(* Theorems about ImageBuild and BootTest: builds over whatever is left    *)
(* of earlier ones, and the verdict of a boot test, for any number of      *)
(* edits, invocations, boot stages and failure markers.                    *)
(***************************************************************************)
EXTENDS BootTest, FiniteSetTheorems, WellFoundedInduction, TLAPS

-----------------------------------------------------------------------------
(* The build. *)

\* Where an invocation is once the image is up to date, and backwards from
\* there once each of the files it is made from is.
AfterVerify == {"built", "spawn"}
AfterXorriso == AfterVerify \cup {"verify"}
AfterStage == AfterXorriso \cup {"remove iso", "xorriso"}
AfterFill == AfterStage \cup {"clear iso_root", "copy tree", "stage"}
AfterCopies == AfterFill \cup {"tools", "remove esp.img", "mkfs", "fill"}
AfterBootx64 == AfterCopies \cup {"copy boot", "copy kernel"}
AfterKernel == AfterBootx64 \cup {"BOOTX64"}
AfterBootloader == AfterKernel \cup {"kernel"}

\* Every place an invocation can be at.
Steps == AfterBootloader \cup {"idle", "start", "watching", "error", "done", "killed"}

\* The types of what the build keeps.
BuildTyped ==
  /\ rev \in 0 .. MAX_REV /\ run \in 0 .. MAX_RUNS /\ since \in 0 .. rev
  /\ step \in Steps /\ faults \in SUBSET Faults
  /\ disk \in [Files -> Content]

\* The file holds a bootloader, a kernel, of this invocation.
BootFresh(f) == disk[f].extent = "whole" /\ disk[f].boot >= since
KernelFresh(f) == disk[f].extent = "whole" /\ disk[f].kernel >= since

\* What has been built so far, up to the staged image, is of this invocation.
PartsAreFresh ==
  /\ step \in AfterBootloader => BootFresh("loko-boot.efi")
  /\ step \in AfterKernel => KernelFresh("loko-kernel")
  /\ step \in AfterBootx64 => BootFresh("EFI/BOOT")
  /\ step \in AfterCopies => KernelFresh("EFI/LOKO/kernel")
  /\ step \in AfterFill => BootFresh("esp.img") /\ KernelFresh("esp.img")
  /\ step \in AfterStage => BootFresh("iso_root/esp.img") /\ KernelFresh("iso_root/esp.img")

\* xorriso finds no ISO, but for one that would not go; it leaves the image of
\* this invocation where it leaves the marks, and a fault where it does not.
IsoIsFresh ==
  /\ step = "xorriso" => "iso" \in faults \/ disk["iso"] = Absent
  /\ step = "verify" => IF disk["iso"].marked THEN OfThisInvocation(disk["iso"]) ELSE faults # {}
  /\ step \in AfterVerify => disk["iso"].marked /\ OfThisInvocation(disk["iso"])

\* mkfs finds no image in its way but one that would not go, and no error is
\* without a fault.
NothingInTheWay ==
  /\ step = "mkfs" => "esp.img" \in faults \/ disk["esp.img"] = Absent
  /\ step = "error" => faults # {}

\* The invariant of the build.
BuildInv == BuildTyped /\ PartsAreFresh /\ IsoIsFresh /\ NothingInTheWay

\* The bounds leave room for what the developer does.
LEMMA Ranges ==
  /\ 1 \in 0 .. MAX_REV /\ 1 \in 0 .. 1 /\ 0 \in 0 .. MAX_RUNS
  /\ \A r \in 0 .. MAX_REV :
       /\ r \in 0 .. r
       /\ r < MAX_REV => r + 1 \in 0 .. MAX_REV
       /\ \A q \in 0 .. r : q \in 0 .. (r + 1)
  /\ \A r \in 0 .. MAX_RUNS :
       r < MAX_RUNS => r + 1 \in 0 .. MAX_RUNS /\ r + 1 \in 1 .. MAX_RUNS /\ r + 1 # r
BY ImageBuildAssumption

\* The sets of places, expanded.
USE DEF AfterVerify, AfterXorriso, AfterStage, AfterFill, AfterCopies, AfterBootx64,
        AfterKernel, AfterBootloader, Steps

\* Contents stay contents, whatever a tool does to them.
LEMMA ContentTyped ==
  /\ Absent \in Content /\ ~Absent.marked /\ File(0, 0, "whole") \in Content
  /\ \A c \in Content : /\ HalfWritten(c) \in Content
                        /\ HalfWritten(c).boot = c.boot /\ HalfWritten(c).kernel = c.kernel
  /\ \A b, k \in Content :
       /\ Both(b, k) \in Content
       /\ Both(b, k).boot = b.boot /\ Both(b, k).kernel = k.kernel
       /\ b.extent = "whole" /\ k.extent = "whole" => Both(b, k).extent = "whole"
  /\ \A r \in 0 .. MAX_REV :
       /\ File(r, 0, "whole") \in Content /\ File(0, r, "whole") \in Content
       /\ File(r, 0, "whole").boot = r /\ File(0, r, "whole").kernel = r
       /\ File(r, 0, "whole").extent = "whole" /\ File(0, r, "whole").extent = "whole"
<1>1. Absent \in Content /\ ~Absent.marked /\ File(0, 0, "whole") \in Content
  BY ImageBuildAssumption DEF Absent, File, Content
<1>2. \A c \in Content : /\ HalfWritten(c) \in Content
                         /\ HalfWritten(c).boot = c.boot /\ HalfWritten(c).kernel = c.kernel
  BY DEF Content, HalfWritten
<1>3. ASSUME NEW b \in Content, NEW k \in Content
      PROVE  /\ Both(b, k) \in Content
             /\ Both(b, k).boot = b.boot /\ Both(b, k).kernel = k.kernel
             /\ b.extent = "whole" /\ k.extent = "whole" => Both(b, k).extent = "whole"
  BY DEF Both, File, Content
<1>4. ASSUME NEW r \in 0 .. MAX_REV
      PROVE  /\ File(r, 0, "whole") \in Content /\ File(0, r, "whole") \in Content
             /\ File(r, 0, "whole").boot = r /\ File(0, r, "whole").kernel = r
             /\ File(r, 0, "whole").extent = "whole" /\ File(0, r, "whole").extent = "whole"
  BY ImageBuildAssumption DEF File, Content
<1> QED BY <1>1, <1>2, <1>3, <1>4

\* A file written, and the others as they were.
LEMMA Written ==
  ASSUME disk \in [Files -> Content], NEW f \in Files, NEW c \in Content,
         disk' = [disk EXCEPT ![f] = c]
  PROVE  /\ disk' \in [Files -> Content] /\ disk'[f] = c
         /\ \A g \in Files \ {f} : disk'[g] = disk[g]
OBVIOUS

\* A fault more, and what it leaves of the promises about the image.
LEMMA OneMoreFault ==
  ASSUME BuildTyped, NEW f \in Faults, faults' = faults \cup {f}
  PROVE  faults' \in SUBSET Faults /\ faults' # {}
BY DEF BuildTyped

\* An invocation that ends in an error leaves nothing to promise but the error
\* itself.
LEMMA ErrorStep ==
  ASSUME BuildInv, step' = "error", faults' \in SUBSET Faults, faults' # {},
         UNCHANGED <<rev, run, since>>, disk' \in [Files -> Content]
  PROVE  BuildInv'
BY DEF BuildInv, BuildTyped, PartsAreFresh, IsoIsFresh, NothingInTheWay

\* A tool fails and the invocation ends.
LEMMA FailStep ==
  ASSUME BuildInv, NEW from, Fail(from), UNCHANGED <<rev, run, since>>,
         disk' \in [Files -> Content]
  PROVE  BuildInv'
<1>1. "failed" \in Faults BY DEF Faults
<1>2. step' = "error" /\ faults' \in SUBSET Faults /\ faults' # {}
  BY <1>1, OneMoreFault DEF Fail, Goto, BuildInv
<1> QED BY <1>2, ErrorStep

\* The two cargo builds.
LEMMA CargoStep ==
  ASSUME BuildInv, BuildBootloader \/ BuildKernel, UNCHANGED <<rev, run, since>>
  PROVE  BuildInv'
<1> USE DEF BuildInv, BuildTyped
<1>1. CASE step' = "error"
  <2>1. (Fail("start") \/ Fail("kernel")) /\ disk' = disk
    BY <1>1 DEF BuildBootloader, BuildKernel, Cargo, Goto
  <2> QED BY <2>1, FailStep
<1>2. CASE BuildBootloader /\ step' # "error"
  <2> DEFINE c == File(rev, 0, "whole")
  <2>1. step = "start" /\ step' = "kernel" /\ disk' = [disk EXCEPT !["loko-boot.efi"] = c]
        /\ faults' = faults
    BY <1>2 DEF BuildBootloader, Cargo, Fail, Goto
  <2>2. c \in Content /\ c.extent = "whole" /\ c.boot = rev /\ "loko-boot.efi" \in Files
    BY ContentTyped DEF Files
  <2> HIDE DEF c
  <2>3. disk' \in [Files -> Content] /\ disk'["loko-boot.efi"] = c BY <2>1, <2>2, Written
  <2> QED BY <2>1, <2>2, <2>3, ImageBuildAssumption
       DEF PartsAreFresh, IsoIsFresh, NothingInTheWay, BootFresh
<1>3. CASE BuildKernel /\ step' # "error"
  <2> DEFINE c == File(0, rev, "whole")
  <2>1. step = "kernel" /\ step' = "BOOTX64" /\ disk' = [disk EXCEPT !["loko-kernel"] = c]
        /\ faults' = faults
    BY <1>3 DEF BuildKernel, Cargo, Fail, Goto
  <2>2. c \in Content /\ c.extent = "whole" /\ c.kernel = rev /\ "loko-kernel" \in Files
    BY ContentTyped DEF Files
  <2>3. "loko-boot.efi" \in Files \ {"loko-kernel"} BY DEF Files
  <2> HIDE DEF c
  <2>4. /\ disk' \in [Files -> Content] /\ disk'["loko-kernel"] = c
        /\ disk'["loko-boot.efi"] = disk["loko-boot.efi"]
    BY <2>1, <2>2, <2>3, Written
  <2> QED BY <2>1, <2>2, <2>4, ImageBuildAssumption
       DEF PartsAreFresh, IsoIsFresh, NothingInTheWay, BootFresh, KernelFresh
<1> QED BY <1>1, <1>2, <1>3

\* Writing one file and going on: what has to hold of the new contents.
LEMMA WriteStep ==
  ASSUME BuildInv, UNCHANGED <<rev, run, since>>,
         NEW from \in Steps, NEW to \in Steps, NEW f \in Files, NEW c \in Content,
         Write(from, f, c, to),
         step' = to /\ disk' \in [Files -> Content] /\ disk'[f] = c
           /\ (\A g \in Files \ {f} : disk'[g] = disk[g]) /\ step = from /\ faults' = faults
           => PartsAreFresh' /\ IsoIsFresh' /\ NothingInTheWay'
  PROVE  BuildInv'
<1>1. CASE Goto(from, to) /\ disk' = [disk EXCEPT ![f] = c] /\ faults' = faults
  <2>1. /\ step = from /\ step' = to /\ disk' \in [Files -> Content] /\ disk'[f] = c
        /\ \A g \in Files \ {f} : disk'[g] = disk[g]
    BY <1>1, Written DEF Goto, BuildInv, BuildTyped
  <2> QED BY <1>1, <2>1 DEF BuildInv, BuildTyped
<1>2. CASE Fail(from) /\ disk' = [disk EXCEPT ![f] = HalfWritten(c)]
  <2>1. HalfWritten(c) \in Content BY ContentTyped
  <2>2. disk' \in [Files -> Content] BY <1>2, <2>1, Written DEF BuildInv, BuildTyped
  <2> QED BY <1>2, <2>2, FailStep
<1> QED BY <1>1, <1>2 DEF Write

\* image: the tree of the system partition.
LEMMA CopyStep ==
  ASSUME BuildInv, CopyBootx64 \/ CopyBootloader \/ CopyKernel, UNCHANGED <<rev, run, since>>
  PROVE  BuildInv'
<1>0. /\ disk["loko-boot.efi"] \in Content /\ disk["loko-kernel"] \in Content
      /\ "EFI/BOOT" \in Files /\ "EFI/LOKO/boot" \in Files /\ "EFI/LOKO/kernel" \in Files
  BY DEF BuildInv, BuildTyped, Files
<1> USE DEF BuildInv, PartsAreFresh, IsoIsFresh, NothingInTheWay, BootFresh, KernelFresh
<1>1. CASE CopyBootx64
  <2> DEFINE c == disk["loko-boot.efi"]
  <2>1. Write("BOOTX64", "EFI/BOOT", c, "copy boot") BY <1>1 DEF CopyBootx64
  <2>2. step = "BOOTX64" BY <2>1 DEF Write, Fail, Goto
  <2>3. step' = "copy boot" /\ disk'["EFI/BOOT"] = c
          /\ (\A g \in Files \ {"EFI/BOOT"} : disk'[g] = disk[g]) /\ faults' = faults
          => PartsAreFresh' /\ IsoIsFresh' /\ NothingInTheWay'
    BY <2>2 DEF Files
  <2> QED BY <1>0, <2>1, <2>3, WriteStep
<1>2. CASE CopyBootloader
  <2> DEFINE c == disk["loko-boot.efi"]
  <2>1. Write("copy boot", "EFI/LOKO/boot", c, "copy kernel") BY <1>2 DEF CopyBootloader
  <2>2. step = "copy boot" BY <2>1 DEF Write, Fail, Goto
  <2>3. step' = "copy kernel" /\ disk'["EFI/LOKO/boot"] = c
          /\ (\A g \in Files \ {"EFI/LOKO/boot"} : disk'[g] = disk[g]) /\ faults' = faults
          => PartsAreFresh' /\ IsoIsFresh' /\ NothingInTheWay'
    BY <2>2 DEF Files
  <2> QED BY <1>0, <2>1, <2>3, WriteStep
<1>3. CASE CopyKernel
  <2> DEFINE c == disk["loko-kernel"]
  <2>1. Write("copy kernel", "EFI/LOKO/kernel", c, "tools") BY <1>3 DEF CopyKernel
  <2>2. step = "copy kernel" BY <2>1 DEF Write, Fail, Goto
  <2>3. step' = "tools" /\ disk'["EFI/LOKO/kernel"] = c
          /\ (\A g \in Files \ {"EFI/LOKO/kernel"} : disk'[g] = disk[g]) /\ faults' = faults
          => PartsAreFresh' /\ IsoIsFresh' /\ NothingInTheWay'
    BY <2>2 DEF Files
  <2> QED BY <1>0, <2>1, <2>3, WriteStep
<1> QED BY <1>1, <1>2, <1>3

\* build_esp_image: the old image goes, a new one is made and filled.
LEMMA EspImageStep ==
  ASSUME BuildInv, CheckTools \/ RemoveEspImage \/ Mkfs \/ FillEspImage,
         UNCHANGED <<rev, run, since>>
  PROVE  BuildInv'
<1>0. /\ disk \in [Files -> Content] /\ disk["EFI/BOOT"] \in Content
      /\ disk["EFI/LOKO/kernel"] \in Content /\ "esp.img" \in Files
  BY DEF BuildInv, BuildTyped, Files
<1> USE DEF BuildInv, PartsAreFresh, IsoIsFresh, NothingInTheWay, BootFresh, KernelFresh
<1>1. CASE CheckTools
  <2>1. CASE step' = "error"
    <3>1. Fail("tools") /\ disk' = disk BY <1>1, <2>1 DEF CheckTools, Goto
    <3> QED BY <1>0, <3>1, FailStep
  <2>2. CASE step' # "error"
    <3>1. step = "tools" /\ step' = "remove esp.img" /\ disk' = disk /\ faults' = faults
      BY <1>1, <2>2 DEF CheckTools, Fail, Goto
    <3> QED BY <3>1 DEF BuildTyped
  <2> QED BY <2>1, <2>2
<1>2. CASE RemoveEspImage
  <2>0. step = "remove esp.img" /\ step' = "mkfs" BY <1>2 DEF RemoveEspImage, Remove, Goto
  <2>1. CASE disk' = [disk EXCEPT !["esp.img"] = Absent] /\ faults' = faults
    <3>1. /\ disk' \in [Files -> Content] /\ disk'["esp.img"] = Absent
          /\ \A g \in Files \ {"esp.img"} : disk'[g] = disk[g]
      BY <1>0, <2>1, ContentTyped, Written
    <3>2. PartsAreFresh' /\ IsoIsFresh' /\ NothingInTheWay' BY <2>0, <2>1, <3>1 DEF Files
    <3> QED BY <2>0, <2>1, <3>1, <3>2 DEF BuildTyped
  <2>2. CASE disk' = disk /\ faults' = faults \cup {"esp.img"}
    <3>1. faults' \in SUBSET Faults BY <2>2, OneMoreFault DEF Faults
    <3>2. PartsAreFresh' /\ IsoIsFresh' /\ NothingInTheWay' BY <2>0, <2>2
    <3> QED BY <2>0, <2>2, <3>1, <3>2 DEF BuildTyped
  <2> QED BY <1>2, <2>1, <2>2 DEF RemoveEspImage, Remove
<1>3. CASE Mkfs
  <2> DEFINE c == File(0, 0, "whole")
  <2>1. step = "mkfs" BY <1>3 DEF Mkfs, Write, Fail, Goto
  <2>2. CASE Exists("esp.img")
    <3>1. step' = "error" /\ disk' = disk /\ faults' = faults BY <1>3, <2>2 DEF Mkfs, Goto
    <3>2. faults # {} /\ faults \in SUBSET Faults BY <2>1, <2>2 DEF Exists, BuildTyped
    <3> QED BY <1>0, <3>1, <3>2, ErrorStep
  <2>3. CASE ~Exists("esp.img")
    <3>1. Write("mkfs", "esp.img", c, "fill") BY <1>3, <2>3 DEF Mkfs
    <3>2. c \in Content BY ContentTyped
    <3> HIDE DEF c
    <3>3. step' = "fill" /\ disk'["esp.img"] = c
            /\ (\A g \in Files \ {"esp.img"} : disk'[g] = disk[g]) /\ faults' = faults
            => PartsAreFresh' /\ IsoIsFresh' /\ NothingInTheWay'
      BY <2>1 DEF Files
    <3> QED BY <1>0, <3>1, <3>2, <3>3, WriteStep
  <2> QED BY <2>2, <2>3
<1>4. CASE FillEspImage
  <2>1. Write("fill", "esp.img", EspTree, "clear iso_root") BY <1>4 DEF FillEspImage
  <2>2. step = "fill" BY <2>1 DEF Write, Fail, Goto
  <2>3. /\ EspTree \in Content /\ EspTree.boot = disk["EFI/BOOT"].boot
        /\ EspTree.kernel = disk["EFI/LOKO/kernel"].kernel
        /\ disk["EFI/BOOT"].extent = "whole" /\ disk["EFI/LOKO/kernel"].extent = "whole"
             => EspTree.extent = "whole"
    BY <1>0, ContentTyped DEF EspTree
  <2>4. step' = "clear iso_root" /\ disk'["esp.img"] = EspTree
          /\ (\A g \in Files \ {"esp.img"} : disk'[g] = disk[g]) /\ faults' = faults
          => PartsAreFresh' /\ IsoIsFresh' /\ NothingInTheWay'
    BY <2>2, <2>3 DEF Files
  <2> QED BY <1>0, <2>1, <2>3, <2>4, WriteStep
<1> QED BY <1>1, <1>2, <1>3, <1>4

\* build: the staging tree is made anew.
LEMMA StagingStep ==
  ASSUME BuildInv, ClearStaging \/ CopyTree \/ StageEspImage, UNCHANGED <<rev, run, since>>
  PROVE  BuildInv'
<1>0. /\ disk \in [Files -> Content] /\ disk["EFI/BOOT"] \in Content
      /\ disk["EFI/LOKO/kernel"] \in Content /\ disk["esp.img"] \in Content
      /\ "iso_root" \in Files /\ "iso_root/esp.img" \in Files
  BY DEF BuildInv, BuildTyped, Files
<1> USE DEF BuildInv, PartsAreFresh, IsoIsFresh, NothingInTheWay, BootFresh, KernelFresh
<1>1. CASE ClearStaging
  <2>1. CASE step' = "error"
    <3>1. Fail("clear iso_root") /\ disk' = disk BY <1>1, <2>1 DEF ClearStaging, Goto
    <3> QED BY <1>0, <3>1, FailStep
  <2>2. CASE step' # "error"
    <3>1. /\ step = "clear iso_root" /\ step' = "copy tree" /\ faults' = faults
          /\ disk' = [disk EXCEPT !["iso_root"] = Absent, !["iso_root/esp.img"] = Absent]
      BY <1>1, <2>2 DEF ClearStaging, Fail, Goto
    <3>2. /\ disk' \in [Files -> Content]
          /\ \A g \in Files \ {"iso_root", "iso_root/esp.img"} : disk'[g] = disk[g]
      BY <1>0, <3>1, ContentTyped
    <3>3. PartsAreFresh' /\ IsoIsFresh' /\ NothingInTheWay' BY <3>1, <3>2 DEF Files
    <3> QED BY <3>1, <3>2, <3>3 DEF BuildTyped
  <2> QED BY <2>1, <2>2
<1>2. CASE CopyTree
  <2>1. Write("copy tree", "iso_root", EspTree, "stage") BY <1>2 DEF CopyTree
  <2>2. step = "copy tree" BY <2>1 DEF Write, Fail, Goto
  <2>3. EspTree \in Content BY <1>0, ContentTyped DEF EspTree
  <2>4. step' = "stage" /\ disk'["iso_root"] = EspTree
          /\ (\A g \in Files \ {"iso_root"} : disk'[g] = disk[g]) /\ faults' = faults
          => PartsAreFresh' /\ IsoIsFresh' /\ NothingInTheWay'
    BY <2>2 DEF Files
  <2> QED BY <1>0, <2>1, <2>3, <2>4, WriteStep
<1>3. CASE StageEspImage
  <2> DEFINE c == disk["esp.img"]
  <2>1. Write("stage", "iso_root/esp.img", c, "remove iso") BY <1>3 DEF StageEspImage
  <2>2. step = "stage" BY <2>1 DEF Write, Fail, Goto
  <2>3. step' = "remove iso" /\ disk'["iso_root/esp.img"] = c
          /\ (\A g \in Files \ {"iso_root/esp.img"} : disk'[g] = disk[g]) /\ faults' = faults
          => PartsAreFresh' /\ IsoIsFresh' /\ NothingInTheWay'
    BY <2>2 DEF Files
  <2> QED BY <1>0, <2>1, <2>3, WriteStep
<1> QED BY <1>1, <1>2, <1>3

\* The ISO is made anew and looked at.
LEMMA IsoStep ==
  ASSUME BuildInv, RemoveIso \/ Xorriso \/ Verify, UNCHANGED <<rev, run, since>>
  PROVE  BuildInv'
<1>0. /\ disk \in [Files -> Content] /\ disk["iso_root/esp.img"] \in Content /\ "iso" \in Files
      /\ disk["iso"] \in Content
  BY DEF BuildInv, BuildTyped, Files
<1> USE DEF BuildInv, PartsAreFresh, IsoIsFresh, NothingInTheWay, BootFresh, KernelFresh
<1>1. CASE RemoveIso
  <2>0. step = "remove iso" /\ step' = "xorriso" BY <1>1 DEF RemoveIso, Remove, Goto
  <2>1. CASE disk' = [disk EXCEPT !["iso"] = Absent] /\ faults' = faults
    <3>1. /\ disk' \in [Files -> Content] /\ disk'["iso"] = Absent
          /\ \A g \in Files \ {"iso"} : disk'[g] = disk[g]
      BY <1>0, <2>1, ContentTyped, Written
    <3>2. PartsAreFresh' /\ IsoIsFresh' /\ NothingInTheWay' BY <2>0, <2>1, <3>1 DEF Files
    <3> QED BY <2>0, <2>1, <3>1, <3>2 DEF BuildTyped
  <2>2. CASE disk' = disk /\ faults' = faults \cup {"iso"}
    <3>1. faults' \in SUBSET Faults BY <2>2, OneMoreFault DEF Faults
    <3>2. PartsAreFresh' /\ IsoIsFresh' /\ NothingInTheWay' BY <2>0, <2>2
    <3> QED BY <2>0, <2>2, <3>1, <3>2 DEF BuildTyped
  <2> QED BY <1>1, <2>1, <2>2 DEF RemoveIso, Remove
<1>2. CASE Xorriso
  <2> DEFINE image == [disk["iso_root/esp.img"] EXCEPT !.marked = TRUE]
  <2>0. step = "xorriso" BY <1>2 DEF Xorriso, Fail, Goto
  <2>1. /\ image \in Content /\ image.marked /\ image.extent = "whole"
        /\ image.boot >= since /\ image.kernel >= since
    BY <1>0, <2>0 DEF Content
  <2>2. \A m \in BOOLEAN :
          /\ [HalfWritten(image) EXCEPT !.marked = m] \in Content
          /\ [HalfWritten(image) EXCEPT !.marked = m].boot = image.boot
          /\ [HalfWritten(image) EXCEPT !.marked = m].kernel = image.kernel
    <3>1. HalfWritten(image) \in Content BY <2>1, ContentTyped
    <3>2. HalfWritten(image).boot = image.boot /\ HalfWritten(image).kernel = image.kernel
      BY <2>1, ContentTyped
    <3> HIDE DEF image
    <3> QED BY <3>1, <3>2 DEF Content
  <2>3. \A c \in ShortOf(image) :
          /\ c \in Content
          /\ (c.boot >= since /\ c.kernel >= since) \/ c = disk["iso"]
    <3> HIDE DEF image
    <3> QED BY <1>0, <2>1, <2>2 DEF ShortOf
  <2>4. \/ /\ step' = "verify" /\ disk' = [disk EXCEPT !["iso"] = image] /\ faults' = faults
        \/ \E c \in ShortOf(image) :
             /\ Fail("xorriso") \/ (step' = "verify" /\ faults' = faults \cup {"lied"})
             /\ disk' = [disk EXCEPT !["iso"] = c]
    BY <1>2 DEF Xorriso, Goto
  <2> HIDE DEF image
  <2>5. CASE step' = "verify" /\ disk' = [disk EXCEPT !["iso"] = image] /\ faults' = faults
    <3>1. /\ disk' \in [Files -> Content] /\ disk'["iso"] = image
          /\ \A g \in Files \ {"iso"} : disk'[g] = disk[g]
      BY <1>0, <2>1, <2>5, Written
    <3>2. PartsAreFresh' /\ NothingInTheWay' BY <2>0, <2>5, <3>1 DEF Files
    <3>3. IsoIsFresh' BY <2>0, <2>1, <2>5, <3>1 DEF OfThisInvocation
    <3> QED BY <2>5, <3>1, <3>2, <3>3 DEF BuildTyped
  <2>6. ASSUME NEW c \in ShortOf(image), disk' = [disk EXCEPT !["iso"] = c],
               Fail("xorriso") \/ (step' = "verify" /\ faults' = faults \cup {"lied"})
        PROVE  BuildInv'
    <3>1. c \in Content BY <2>3
    <3>2. /\ disk' \in [Files -> Content] /\ disk'["iso"] = c
          /\ \A g \in Files \ {"iso"} : disk'[g] = disk[g]
      BY <1>0, <2>6, <3>1, Written
    <3>3. CASE Fail("xorriso") BY <3>2, <3>3, FailStep
    <3>4. CASE step' = "verify" /\ faults' = faults \cup {"lied"}
      <4>1. faults' \in SUBSET Faults /\ faults' # {} BY <3>4, OneMoreFault DEF Faults
      <4>2. PartsAreFresh' /\ NothingInTheWay' BY <2>0, <3>2, <3>4 DEF Files
      <4>3. c.marked => c # Absent BY ContentTyped
      <4>4. c.marked => OfThisInvocation(c)' BY <2>0, <2>3, <3>4, <4>3 DEF OfThisInvocation
      <4>5. IsoIsFresh' BY <3>2, <3>4, <4>1, <4>4
      <4> QED BY <3>2, <3>4, <4>1, <4>2, <4>5 DEF BuildTyped
    <3> QED BY <2>6, <3>3, <3>4
  <2> QED BY <2>4, <2>5, <2>6
<1>3. CASE Verify
  <2>1. /\ step = "verify" /\ disk' = disk /\ faults' = faults
        /\ step' = IF disk["iso"].marked THEN "built" ELSE "error"
    BY <1>3 DEF Verify
  <2>2. CASE disk["iso"].marked
    <3>1. PartsAreFresh' /\ NothingInTheWay' BY <2>1, <2>2
    <3>2. IsoIsFresh' BY <2>1, <2>2 DEF OfThisInvocation
    <3> QED BY <2>1, <2>2, <3>1, <3>2 DEF BuildTyped
  <2>3. CASE ~disk["iso"].marked
    <3>1. faults # {} /\ faults \in SUBSET Faults BY <2>1, <2>3 DEF BuildTyped
    <3> QED BY <1>0, <2>1, <2>3, <3>1, ErrorStep
  <2> QED BY <2>2, <2>3
<1> QED BY <1>1, <1>2, <1>3

\* Every step of a build keeps the invariant.
LEMMA BuildStepKeeps ==
  ASSUME BuildInv, BuildStep
  PROVE  BuildInv'
BY CargoStep, CopyStep, EspImageStep, StagingStep, IsoStep DEF BuildStep

-----------------------------------------------------------------------------
(* The test. *)

\* The machines there can be, and the states of the watch loop.
Qemus == {"none", "spawned", "running", "exited", "killed"}
Guests == [qemu : Qemus, wrote : SUBSET Lines]
Watches == [at : {"away", "poll", "exited?", "expired?", "over"}, serial : SUBSET Lines,
            reached : 0 .. STAGES]

\* The types of what the test keeps.
TestTyped ==
  /\ guest \in [1 .. MAX_RUNS -> Guests]
  /\ writers \in SUBSET (1 .. MAX_RUNS) /\ log \in SUBSET Lines
  /\ watch \in Watches

\* One machine at a time is about to open the log, that of the invocation, and
\* there is a verdict only once there was a machine.
OneAtATime ==
  /\ step # "idle" => run \in 1 .. MAX_RUNS
  /\ \A r \in 1 .. MAX_RUNS :
       guest[r].qemu = "spawned" =>
         r = run /\ step \in {"watching", "killed"} /\ guest[r].wrote = {}
  /\ watch.at # "away" => step = "watching"
  /\ step \notin {"watching", "done", "killed"} => outcome = NoOutcome

\* From the moment the old log is gone, the log is this invocation's.
LogIsOurs ==
  "serial.log" \notin faults =>
    /\ step = "spawn" => writers = {} /\ log = {}
    /\ step = "watching" => writers \subseteq {run} /\ log = guest[run].wrote

\* The lines and the stages were written by the machine of this invocation.
OfThisGuest(lines, reached) ==
  "serial.log" \in faults \/
    /\ \A line \in lines : line \in guest[run].wrote
    /\ \A n \in 1 .. reached : Stage(n) \in guest[run].wrote

\* What the machine boots is of this invocation; success is the last thing it
\* says; the loop goes on only while the log settles nothing, and what it has
\* read so far is the machine's.
Evidence ==
  /\ step = "watching" => OfThisInvocation(booted)
  /\ \A r \in 1 .. MAX_RUNS :
       Success \in guest[r].wrote => \A n \in 1 .. STAGES : Stage(n) \in guest[r].wrote
  /\ watch.at \in {"exited?", "expired?"} =>
       /\ Success \notin watch.serial /\ Failures(watch.serial) = {}
       /\ OfThisGuest(watch.serial, watch.reached)

\* The inductive invariant.
TestInv == BuildInv /\ TestTyped /\ OneAtATime /\ LogIsOurs /\ Evidence /\ VerdictIsHonest

\* What the test does to the build.
LEMMA BuildGoesOn ==
  ASSUME BuildInv, UNCHANGED <<rev, run, since, disk>>,
         \/ step' = step /\ faults' = faults
         \/ step' \in {"watching", "done", "killed"} /\ faults' = faults
         \/ step = "built" /\ step' = "spawn" /\ faults' \in {faults, faults \cup {"serial.log"}}
  PROVE  BuildInv'
<1>1. BuildTyped' BY DEF BuildInv, BuildTyped, Faults
<1>2. PartsAreFresh' BY DEF BuildInv, PartsAreFresh, BootFresh, KernelFresh
<1>3. IsoIsFresh' BY DEF BuildInv, IsoIsFresh, OfThisInvocation
<1>4. NothingInTheWay' BY DEF BuildInv, NothingInTheWay
<1> QED BY <1>1, <1>2, <1>3, <1>4 DEF BuildInv

\* A new invocation promises nothing yet; an edit leaves what is built alone.
LEMMA DeveloperKeepsBuild ==
  ASSUME BuildInv, Invoke \/ Edit
  PROVE  BuildInv'
<1>1. CASE Invoke
  <2>1. /\ step' = "start" /\ run' = run + 1 /\ run < MAX_RUNS /\ since' = rev
        /\ faults' = {} /\ rev' = rev /\ disk' = disk
    BY <1>1 DEF Invoke
  <2>2. BuildTyped' BY <2>1, Ranges DEF BuildInv, BuildTyped
  <2>3. PartsAreFresh' /\ IsoIsFresh' /\ NothingInTheWay'
    BY <2>1 DEF PartsAreFresh, IsoIsFresh, NothingInTheWay
  <2> QED BY <2>2, <2>3 DEF BuildInv
<1>2. CASE Edit
  <2>1. /\ rev' = rev + 1 /\ rev < MAX_REV /\ run' = run /\ since' = since /\ step' = step
        /\ faults' = faults /\ disk' = disk
    BY <1>2 DEF Edit
  <2>2. BuildTyped' BY <2>1, Ranges DEF BuildInv, BuildTyped
  <2>3. PartsAreFresh' /\ IsoIsFresh' /\ NothingInTheWay'
    BY <2>1 DEF BuildInv, PartsAreFresh, IsoIsFresh, NothingInTheWay, BootFresh, KernelFresh,
                OfThisInvocation
  <2> QED BY <2>2, <2>3 DEF BuildInv
<1> QED BY <1>1, <1>2

\* A machine that is not there, and a loop that is not running.
LEMMA NobodyThere ==
  /\ NoGuest \in Guests /\ NoGuest.qemu = "none" /\ NoGuest.wrote = {}
  /\ NotWatching \in Watches /\ NotWatching.at = "away"
BY BootTestAssumption DEF NoGuest, Guests, Qemus, NotWatching, Watches

\* The parts of an honest verdict.
USE DEF VerdictIsHonest, ReportIsOfThisGuest, GreenMeansThisSourceBoots, FailureIsReal,
        LogWinsOverTheClock

\* There is nothing dishonest about no verdict.
LEMMA NothingReported == outcome = NoOutcome => VerdictIsHonest
BY DEF NoOutcome

LEMMA NoVerdict == outcome' = NoOutcome => VerdictIsHonest'
BY DEF NoOutcome

\* A verdict stays honest while the machine it is about only goes on.
LEMMA VerdictStands ==
  ASSUME VerdictIsHonest, UNCHANGED <<run, since, faults, booted, outcome>>,
         guest[run].wrote \subseteq guest'[run].wrote,
         guest[run].qemu = "exited" => guest'[run].qemu = guest[run].qemu
  PROVE  VerdictIsHonest'
BY DEF OfThisInvocation

HIDE DEF VerdictIsHonest, ReportIsOfThisGuest, GreenMeansThisSourceBoots, FailureIsReal,
         LogWinsOverTheClock

\* The first state.
LEMMA InitTestInv == Init => TestInv
<1> SUFFICES ASSUME Init PROVE TestInv OBVIOUS
<1>1. BuildInv
  <2>1. BuildTyped BY ContentTyped, Ranges DEF Init, BuildInit, BuildTyped
  <2>2. PartsAreFresh /\ IsoIsFresh /\ NothingInTheWay
    BY DEF Init, BuildInit, PartsAreFresh, IsoIsFresh, NothingInTheWay
  <2> QED BY <2>1, <2>2 DEF BuildInv
<1>2. TestTyped BY NobodyThere DEF Init, TestTyped
<1>3. OneAtATime /\ LogIsOurs /\ Evidence
  BY NobodyThere DEF Init, BuildInit, OneAtATime, LogIsOurs, Evidence
<1>4. VerdictIsHonest BY NothingReported DEF Init
<1> QED BY <1>1, <1>2, <1>3, <1>4 DEF TestInv

\* A machine changes, and the others do not.
LEMMA GuestChanged ==
  ASSUME TestTyped, NEW r \in 1 .. MAX_RUNS, NEW g \in Guests,
         guest' = [guest EXCEPT ![r] = g]
  PROVE  /\ guest' \in [1 .. MAX_RUNS -> Guests] /\ guest'[r] = g
         /\ \A s \in 1 .. MAX_RUNS : s # r => guest'[s] = guest[s]
BY DEF TestTyped

\* There is no verdict before there is an invocation.
LEMMA RunExists ==
  ASSUME TestInv
  PROVE  run \in 1 .. MAX_RUNS \/ (step = "idle" /\ outcome = NoOutcome)
BY DEF TestInv, OneAtATime

\* The processes of the machines come and go.
LEMMA QemuStep ==
  ASSUME TestInv, UNCHANGED buildVars, NEW r \in 1 .. MAX_RUNS,
         QemuStarts(r) \/ QemuExits(r)
  PROVE  TestInv'
<1>0. BuildInv /\ TestTyped /\ OneAtATime /\ LogIsOurs /\ Evidence /\ VerdictIsHonest
  BY DEF TestInv
<1>1. UNCHANGED <<rev, run, since, step, faults, disk, booted, watch, outcome>>
  BY DEF buildVars, QemuStarts, QemuExits
<1>2. BuildInv' BY <1>0, <1>1, BuildGoesOn
<1>3. PICK q \in {"running", "exited"} : guest' = [guest EXCEPT ![r].qemu = q]
  BY DEF QemuStarts, QemuExits
<1> DEFINE g == [guest[r] EXCEPT !.qemu = q]
<1>4. g \in Guests /\ g.qemu = q /\ g.wrote = guest[r].wrote /\ guest' = [guest EXCEPT ![r] = g]
  BY <1>0, <1>3 DEF TestTyped, Guests, Qemus
<1> HIDE DEF g
<1>5. /\ guest' \in [1 .. MAX_RUNS -> Guests] /\ guest'[r] = g
      /\ \A s \in 1 .. MAX_RUNS : s # r => guest'[s] = guest[s]
  BY <1>0, <1>4, GuestChanged
<1>6. /\ guest[r].qemu \in {"spawned", "running"}
      /\ \/ writers' = writers /\ log' = log
         \/ guest[r].qemu = "spawned" /\ writers' = writers \cup {r} /\ log' = {}
  BY DEF QemuStarts, QemuExits
<1>7. \A s \in 1 .. MAX_RUNS : guest'[s].wrote = guest[s].wrote BY <1>4, <1>5
<1>8. TestTyped' BY <1>0, <1>1, <1>5, <1>6 DEF TestTyped
<1>9. OneAtATime'
  <2>1. \A s \in 1 .. MAX_RUNS : guest'[s].qemu = "spawned" => guest'[s] = guest[s]
    BY <1>4, <1>5
  <2> QED BY <1>0, <1>1, <2>1 DEF OneAtATime
<1>10. LogIsOurs'
  <2>1. step = "watching" => run \in 1 .. MAX_RUNS BY <1>0 DEF OneAtATime
  <2>2. guest[r].qemu = "spawned" =>
          r = run /\ step \in {"watching", "killed"} /\ guest[run].wrote = {}
    BY <1>0 DEF OneAtATime
  <2> QED BY <1>0, <1>1, <1>6, <1>7, <2>1, <2>2 DEF LogIsOurs
<1>11. Evidence'
  <2>1. step = "watching" => run \in 1 .. MAX_RUNS BY <1>0 DEF OneAtATime
  <2>2. watch.at # "away" => step = "watching" BY <1>0 DEF OneAtATime
  <2> QED BY <1>0, <1>1, <1>7, <2>1, <2>2 DEF Evidence, OfThisInvocation, OfThisGuest
<1>12. VerdictIsHonest'
  <2>1. CASE run \in 1 .. MAX_RUNS
    <3>1. /\ guest[run].wrote \subseteq guest'[run].wrote
          /\ guest[run].qemu = "exited" => guest'[run].qemu = guest[run].qemu
      BY <1>5, <1>6, <1>7, <2>1
    <3> QED BY <1>0, <1>1, <3>1, VerdictStands
  <2>2. CASE outcome = NoOutcome BY <1>1, <2>2, NoVerdict
  <2> QED BY <2>1, <2>2, RunExists
<1> QED BY <1>2, <1>8, <1>9, <1>10, <1>11, <1>12 DEF TestInv

\* Different lines are different.
LEMMA LinesDiffer ==
  /\ Success \in Lines
  /\ \A n \in 1 .. STAGES : Stage(n) \in Lines /\ Stage(n) # Success
  /\ \A m \in 1 .. MARKERS : Failure(m) \in Lines /\ Failure(m) # Success
BY DEF Lines, Success, Stage, Failure

\* The machine says something more.
LEMMA GuestStep ==
  ASSUME TestInv, UNCHANGED buildVars, NEW r \in 1 .. MAX_RUNS, GuestWrites(r)
  PROVE  TestInv'
<1>0. BuildInv /\ TestTyped /\ OneAtATime /\ LogIsOurs /\ Evidence /\ VerdictIsHonest
  BY DEF TestInv
<1>1. /\ UNCHANGED <<rev, run, since, step, faults, disk, booted, watch, outcome, writers>>
      /\ r \in writers /\ guest[r].qemu = "running"
  BY DEF buildVars, GuestWrites
<1>2. BuildInv' BY <1>0, <1>1, BuildGoesOn
<1>3. PICK line \in Lines \ guest[r].wrote :
        /\ Follows(line, guest[r].wrote)
        /\ guest' = [guest EXCEPT ![r].wrote = @ \cup {line}]
        /\ log' = log \cup {line}
  BY DEF GuestWrites
<1> DEFINE g == [guest[r] EXCEPT !.wrote = @ \cup {line}]
<1>4. /\ g \in Guests /\ g.qemu = guest[r].qemu /\ g.wrote = guest[r].wrote \cup {line}
      /\ guest' = [guest EXCEPT ![r] = g]
  BY <1>0, <1>3 DEF TestTyped, Guests
<1> HIDE DEF g
<1>5. /\ guest' \in [1 .. MAX_RUNS -> Guests] /\ guest'[r] = g
      /\ \A s \in 1 .. MAX_RUNS : s # r => guest'[s] = guest[s]
  BY <1>0, <1>4, GuestChanged
<1>6. \A s \in 1 .. MAX_RUNS :
        guest'[s].qemu = guest[s].qemu /\ guest[s].wrote \subseteq guest'[s].wrote
  BY <1>4, <1>5
<1>7. TestTyped' BY <1>0, <1>1, <1>3, <1>5 DEF TestTyped
<1>8. OneAtATime'
  <2>1. \A s \in 1 .. MAX_RUNS : guest'[s].qemu = "spawned" => guest'[s] = guest[s]
    BY <1>1, <1>5, <1>6
  <2> QED BY <1>0, <1>1, <2>1 DEF OneAtATime
<1>9. LogIsOurs'
  <2>1. CASE step = "watching" /\ "serial.log" \notin faults
    <3>1. r = run /\ log = guest[run].wrote BY <1>0, <1>1, <2>1 DEF LogIsOurs
    <3>2. log' = guest'[run].wrote BY <1>3, <1>4, <1>5, <3>1
    <3> QED BY <1>0, <1>1, <2>1, <3>2 DEF LogIsOurs
  <2>2. CASE step = "spawn" /\ "serial.log" \notin faults
    BY <1>0, <1>1, <2>2 DEF LogIsOurs
  <2> QED BY <1>1, <2>1, <2>2 DEF LogIsOurs
<1>10. Evidence'
  <2>1. step = "watching" => run \in 1 .. MAX_RUNS BY <1>0 DEF OneAtATime
  <2>2. watch.at # "away" => step = "watching" BY <1>0 DEF OneAtATime
  <2>3. line = Success => \A n \in 1 .. STAGES : Stage(n) \in guest[r].wrote
    BY <1>3, LinesDiffer DEF Follows
  <2>4. ASSUME NEW s \in 1 .. MAX_RUNS, Success \in guest'[s].wrote
        PROVE  \A n \in 1 .. STAGES : Stage(n) \in guest'[s].wrote
    <3>1. CASE s # r BY <1>0, <1>5, <2>4, <3>1 DEF Evidence
    <3>2. CASE s = r BY <1>0, <1>4, <1>5, <2>3, <2>4, <3>2 DEF Evidence
    <3> QED BY <3>1, <3>2
  <2>5. watch.at \in {"exited?", "expired?"} => OfThisGuest(watch.serial, watch.reached)'
    BY <1>0, <1>1, <1>6, <2>1, <2>2 DEF Evidence, OfThisGuest
  <2> QED BY <1>0, <1>1, <2>4, <2>5 DEF Evidence, OfThisInvocation
<1>11. VerdictIsHonest'
  <2>1. CASE run \in 1 .. MAX_RUNS BY <1>0, <1>1, <1>6, <2>1, VerdictStands
  <2>2. CASE outcome = NoOutcome BY <1>1, <2>2, NoVerdict
  <2> QED BY <2>1, <2>2, RunExists
<1> QED BY <1>2, <1>7, <1>8, <1>9, <1>10, <1>11 DEF TestInv

\* Steps of a build, and failures before there is a machine: nothing has been
\* reported yet.
LEMMA EarlyStep ==
  ASSUME TestInv, BuildInv', UNCHANGED <<run, testVars>>,
         step \notin {"idle", "watching", "done", "killed"},
         step' \notin {"idle", "spawn", "watching", "done", "killed"}
  PROVE  TestInv'
<1>0. TestTyped /\ OneAtATime /\ Evidence BY DEF TestInv
<1>1. UNCHANGED <<guest, booted, writers, log, watch, outcome>> BY DEF testVars
<1>2. outcome = NoOutcome /\ watch.at = "away" BY <1>0 DEF OneAtATime
<1>3. TestTyped' BY <1>0, <1>1 DEF TestTyped
<1>4. OneAtATime' BY <1>0, <1>1, <1>2 DEF OneAtATime
<1>5. LogIsOurs' BY DEF LogIsOurs
<1>6. Evidence' BY <1>0, <1>1, <1>2 DEF Evidence
<1>7. VerdictIsHonest' BY <1>1, <1>2, NoVerdict
<1> QED BY <1>3, <1>4, <1>5, <1>6, <1>7 DEF TestInv

\* The old log goes, or it does not.
LEMMA PrepareStep ==
  ASSUME TestInv, Prepare
  PROVE  TestInv'
<1>0. BuildInv /\ TestTyped /\ OneAtATime /\ Evidence BY DEF TestInv
<1>1. /\ step = "built" /\ step' = "spawn"
      /\ UNCHANGED <<rev, run, since, disk, guest, booted, watch, outcome>>
      /\ \/ writers' = {} /\ log' = {} /\ faults' = faults
         \/ writers' = writers /\ log' = log /\ faults' = faults \cup {"serial.log"}
  BY DEF Prepare, Goto
<1>2. outcome = NoOutcome /\ watch.at = "away" BY <1>0, <1>1 DEF OneAtATime
<1>3. BuildInv' BY <1>0, <1>1, BuildGoesOn
<1>4. TestTyped' BY <1>0, <1>1 DEF TestTyped
<1>5. OneAtATime' BY <1>0, <1>1, <1>2 DEF OneAtATime
<1>6. LogIsOurs' BY <1>1 DEF LogIsOurs
<1>7. Evidence' BY <1>0, <1>1, <1>2 DEF Evidence
<1>8. VerdictIsHonest' BY <1>1, <1>2, NoVerdict
<1> QED BY <1>3, <1>4, <1>5, <1>6, <1>7, <1>8 DEF TestInv

\* Building, preparing, the clock and the end of the watch's owner.
LEMMA AwayStep ==
  ASSUME TestInv,
         \/ BuildStep /\ UNCHANGED testVars
         \/ PrepareFails \/ Prepare \/ Killed
         \/ Tick /\ UNCHANGED buildVars
         \/ UNCHANGED vars
  PROVE  TestInv'
<1>0. BuildInv /\ TestTyped /\ OneAtATime /\ LogIsOurs /\ Evidence /\ VerdictIsHonest
  BY DEF TestInv
<1>1. CASE BuildStep /\ UNCHANGED testVars
  <2>1. BuildInv' BY <1>0, <1>1, BuildStepKeeps
  <2>2. run' = run BY <1>1 DEF BuildStep
  <2>3. /\ step \notin {"idle", "spawn", "watching", "error", "done", "killed"}
        /\ step' \notin {"idle", "spawn", "watching", "done", "killed"}
    BY <1>1 DEF BuildStep, BuildBootloader, BuildKernel, CopyBootx64, CopyBootloader,
                CopyKernel, CheckTools, RemoveEspImage, Mkfs, FillEspImage, ClearStaging, CopyTree,
                StageEspImage, RemoveIso, Xorriso, Verify, Cargo, Write, Remove, Fail, Goto
  <2> QED BY <1>1, <2>1, <2>2, <2>3, EarlyStep
<1>2. CASE PrepareFails
  <2>1. /\ step = "built" /\ step' = "error" /\ Fail("built")
        /\ UNCHANGED <<rev, run, since, disk, testVars>>
    BY <1>2 DEF PrepareFails, Fail, Goto
  <2>2. BuildInv' BY <1>0, <2>1, FailStep DEF BuildInv, BuildTyped
  <2> QED BY <2>1, <2>2, EarlyStep
<1>3. CASE Prepare BY <1>3, PrepareStep
<1>4. CASE Killed
  <2>1. /\ step \notin {"idle", "error", "done", "killed"} /\ step' = "killed"
        /\ UNCHANGED <<rev, run, since, faults, disk, guest, booted, writers, log, outcome>>
        /\ watch' = NotWatching
    BY <1>4 DEF Killed
  <2>2. BuildInv' BY <1>0, <2>1, BuildGoesOn
  <2>3. TestTyped' BY <1>0, <2>1, NobodyThere DEF TestTyped
  <2>4. OneAtATime' BY <1>0, <2>1, NobodyThere DEF OneAtATime
  <2>5. LogIsOurs' BY <2>1 DEF LogIsOurs
  <2>6. Evidence' BY <1>0, <2>1, NobodyThere DEF Evidence
  <2>7. VerdictIsHonest' BY <1>0, <2>1, VerdictStands
  <2> QED BY <2>2, <2>3, <2>4, <2>5, <2>6, <2>7 DEF TestInv
<1>5. CASE (Tick /\ UNCHANGED buildVars) \/ UNCHANGED vars
  <2>1. UNCHANGED <<rev, run, since, step, faults, disk, guest, booted, writers, log, watch,
                    outcome>>
    BY <1>5 DEF Tick, vars, buildVars, testVars
  <2>2. BuildInv' BY <1>0, <2>1, BuildGoesOn
  <2>3. TestTyped' BY <1>0, <2>1 DEF TestTyped
  <2>4. OneAtATime' BY <1>0, <2>1 DEF OneAtATime
  <2>5. LogIsOurs' BY <1>0, <2>1 DEF LogIsOurs
  <2>6. Evidence' BY <1>0, <2>1 DEF Evidence, OfThisInvocation, OfThisGuest
  <2>7. VerdictIsHonest' BY <1>0, <2>1, VerdictStands
  <2> QED BY <2>2, <2>3, <2>4, <2>5, <2>6, <2>7 DEF TestInv
<1> QED BY <1>1, <1>2, <1>3, <1>4, <1>5

\* A new invocation has no verdict yet, and no machine.
LEMMA DeveloperStep ==
  ASSUME TestInv, Developer
  PROVE  TestInv'
<1>0. BuildInv /\ TestTyped /\ OneAtATime /\ LogIsOurs /\ Evidence /\ VerdictIsHonest
  BY DEF TestInv
<1>1. BuildInv' BY <1>0, DeveloperKeepsBuild DEF Developer, InvokeAgain
<1>2. CASE Edit /\ UNCHANGED testVars
  <2>1. UNCHANGED <<run, since, step, faults, disk, guest, booted, writers, log, watch, outcome>>
    BY <1>2 DEF Edit, testVars
  <2>2. TestTyped' /\ OneAtATime' /\ LogIsOurs'
    BY <1>0, <2>1 DEF TestTyped, OneAtATime, LogIsOurs
  <2>3. Evidence' BY <1>0, <2>1 DEF Evidence, OfThisInvocation, OfThisGuest
  <2>4. VerdictIsHonest' BY <1>0, <2>1, VerdictStands
  <2> QED BY <1>1, <2>2, <2>3, <2>4 DEF TestInv
<1>3. CASE InvokeAgain
  <2>1. /\ step \in {"idle", "error", "done", "killed"} /\ step' = "start"
        /\ run' = run + 1 /\ run < MAX_RUNS
        /\ guest' = [r \in 1 .. MAX_RUNS |->
                       IF guest[r].qemu = "running" THEN guest[r] ELSE NoGuest]
        /\ outcome' = NoOutcome /\ UNCHANGED <<writers, log, watch>>
    BY <1>3 DEF InvokeAgain, Invoke
  <2>2. run' \in 1 .. MAX_RUNS BY <1>0, <2>1, Ranges DEF BuildInv, BuildTyped
  <2>3. watch.at = "away" BY <1>0, <2>1 DEF OneAtATime
  <2>4. \A r \in 1 .. MAX_RUNS :
          /\ guest'[r] \in Guests /\ guest'[r].qemu # "spawned"
          /\ guest'[r] \in {guest[r], NoGuest}
    BY <1>0, <2>1, NobodyThere DEF TestTyped
  <2>5. TestTyped' BY <1>0, <2>1, <2>4 DEF TestTyped
  <2>6. OneAtATime' BY <2>1, <2>2, <2>3, <2>4 DEF OneAtATime
  <2>7. LogIsOurs' BY <2>1 DEF LogIsOurs
  <2>8. Evidence' BY <1>0, <2>1, <2>3, <2>4, NobodyThere DEF Evidence
  <2>9. VerdictIsHonest' BY <2>1, NoVerdict
  <2> QED BY <1>1, <2>5, <2>6, <2>7, <2>8, <2>9 DEF TestInv
<1> QED BY <1>2, <1>3 DEF Developer

\* The machine is started from the image that was just verified.
LEMMA SpawnStep ==
  ASSUME TestInv, SpawnQemu
  PROVE  TestInv'
<1>0. BuildInv /\ TestTyped /\ OneAtATime /\ LogIsOurs /\ Evidence BY DEF TestInv
<1>1. step = "spawn" BY DEF SpawnQemu, Fail, Goto
<1>2. /\ \A r \in 1 .. MAX_RUNS : guest[r].qemu # "spawned"
      /\ run \in 1 .. MAX_RUNS /\ outcome = NoOutcome
  BY <1>0, <1>1 DEF OneAtATime
<1>3. CASE Fail("spawn") /\ UNCHANGED <<rev, run, since, disk, testVars>>
  <2>1. BuildInv' BY <1>0, <1>3, FailStep DEF BuildInv, BuildTyped
  <2>2. step' = "error" BY <1>3 DEF Fail, Goto
  <2> QED BY <1>1, <1>3, <2>1, <2>2, EarlyStep
<1>4. CASE /\ step' = "watching"
           /\ guest' = [guest EXCEPT ![run] = [NoGuest EXCEPT !.qemu = "spawned"]]
           /\ booted' = disk["iso"]
           /\ watch' = [NotWatching EXCEPT !.at = "poll"]
           /\ UNCHANGED <<rev, run, since, faults, disk, writers, log, outcome>>
  <2> DEFINE g == [NoGuest EXCEPT !.qemu = "spawned"]
  <2>1. BuildInv' BY <1>0, <1>4, BuildGoesOn
  <2>2. g \in Guests /\ g.wrote = {} BY DEF Guests, Qemus, NoGuest
  <2>3. guest' = [guest EXCEPT ![run] = g] BY <1>4
  <2> HIDE DEF g
  <2>4. /\ guest' \in [1 .. MAX_RUNS -> Guests] /\ guest'[run] = g
        /\ \A s \in 1 .. MAX_RUNS : s # run => guest'[s] = guest[s]
    BY <1>0, <1>2, <2>2, <2>3, GuestChanged
  <2>5. watch' \in Watches /\ watch'.at = "poll"
    BY <1>4, BootTestAssumption DEF NotWatching, Watches
  <2>6. TestTyped' BY <1>0, <1>4, <2>4, <2>5 DEF TestTyped
  <2>7. OneAtATime' BY <1>2, <1>4, <2>2, <2>4, <2>5 DEF OneAtATime
  <2>8. LogIsOurs' BY <1>0, <1>1, <1>4, <2>2, <2>4 DEF LogIsOurs
  <2>9. OfThisInvocation(disk["iso"]) BY <1>0, <1>1 DEF BuildInv, IsoIsFresh
  <2>10. \A s \in 1 .. MAX_RUNS :
           Success \in guest'[s].wrote => \A n \in 1 .. STAGES : Stage(n) \in guest'[s].wrote
    BY <1>0, <2>2, <2>4 DEF Evidence
  <2>11. Evidence' BY <1>4, <2>5, <2>9, <2>10 DEF Evidence, OfThisInvocation
  <2>12. VerdictIsHonest' BY <1>2, <1>4, NoVerdict
  <2> QED BY <2>1, <2>6, <2>7, <2>8, <2>11, <2>12 DEF TestInv
<1> QED BY <1>3, <1>4 DEF SpawnQemu, Goto

\* A step of the watch loop.
LEMMA WatchStep ==
  ASSUME TestInv, UNCHANGED <<buildVars, guest, booted, writers, log>>, watch.at # "away",
         watch' \in Watches,
         watch'.at \in {"exited?", "expired?"} =>
           /\ Success \notin watch'.serial /\ Failures(watch'.serial) = {}
           /\ OfThisGuest(watch'.serial, watch'.reached),
         VerdictIsHonest'
  PROVE  TestInv'
<1>0. BuildInv /\ TestTyped /\ OneAtATime /\ LogIsOurs /\ Evidence BY DEF TestInv
<1>1. UNCHANGED <<rev, run, since, step, faults, disk, guest, booted, writers, log>>
  BY DEF buildVars
<1>2. step = "watching" BY <1>0 DEF OneAtATime
<1>3. BuildInv' BY <1>0, <1>1, BuildGoesOn
<1>4. TestTyped' BY <1>0, <1>1 DEF TestTyped
<1>5. OneAtATime' BY <1>0, <1>1, <1>2 DEF OneAtATime
<1>6. LogIsOurs' BY <1>0, <1>1 DEF LogIsOurs
<1>7. Evidence' BY <1>0, <1>1 DEF Evidence, OfThisInvocation, OfThisGuest
<1> QED BY <1>3, <1>4, <1>5, <1>6, <1>7 DEF TestInv

\* Some well-founded relation contains the order of the natural numbers.
LEMMA LessIsWellFounded ==
  \E R : IsWellFoundedOn(R, Nat) /\ \A x, y \in Nat : x < y => <<x, y>> \in R
<1>1. IsWellFoundedOn(OpToRel(<, Nat), Nat) BY NatLessThanWellFounded, Zenon
<1>2. \A x, y \in Nat : x < y => <<x, y>> \in OpToRel(<, Nat) BY DEF OpToRel
<1> QED BY <1>1, <1>2, Zenon

\* So a set of natural numbers that is not empty has a least element.
LEMMA LeastExists ==
  ASSUME NEW T, T \subseteq Nat, T # {}
  PROVE  \E x \in T : \A y \in T : x <= y
<1>1. PICK R : IsWellFoundedOn(R, Nat) /\ \A x, y \in Nat : x < y => <<x, y>> \in R
  BY LessIsWellFounded, Zenon
<1>2. \E x \in T : \A y \in T : ~(<<y, x>> \in R)
  <2>1. IsWellFoundedOn(R, Nat) BY <1>1
  <2> HIDE <1>1
  <2>2. \A RR, SS : IsWellFoundedOn(RR, SS) =>
          \A TT : TT \subseteq SS /\ TT # {} => \E x \in TT : \A y \in TT : ~(<<y, x>> \in RR)
    BY WFMin, Zenon
  <2> QED BY <2>1, <2>2, Zenon
<1>3. PICK x \in T : \A y \in T : ~(<<y, x>> \in R) BY <1>2, Zenon
<1>4. \A y \in T : ~(y < x) BY <1>1, <1>3, Zenon
<1> QED BY <1>4

\* find returns a failure that is in the log.
LEMMA FoundIsThere ==
  ASSUME NEW failures, failures \subseteq 1 .. MARKERS, failures # {}
  PROVE  Find(failures) \in failures
<1>1. failures \subseteq Nat OBVIOUS
<1>2. \E m \in failures : \A k \in failures : m <= k BY <1>1, LeastExists
<1> QED BY <1>2 DEF Find

\* take_while counts stages that are there, and all of them when none is
\* missing.
LEMMA ReachedIsThere ==
  ASSUME NEW serial
  PROVE  /\ Reached(serial) \in 0 .. STAGES
         /\ \A k \in 1 .. Reached(serial) : Stage(k) \in serial
         /\ (\A k \in 1 .. STAGES : Stage(k) \in serial) => Reached(serial) = STAGES
<1> DEFINE T == {n \in 0 .. STAGES : n = STAGES \/ Stage(n + 1) \notin serial}
           Ends(n) == /\ \A k \in 1 .. n : Stage(k) \in serial
                      /\ n = STAGES \/ Stage(n + 1) \notin serial
<1>1. T \subseteq Nat /\ STAGES \in T BY BootTestAssumption
<1>2. PICK x \in T : \A y \in T : x <= y
  <2> HIDE DEF T
  <2> QED BY <1>1, LeastExists
<1>3. \A k \in 1 .. x : Stage(k) \in serial
  <2> SUFFICES ASSUME NEW k \in 1 .. x PROVE Stage(k) \in serial OBVIOUS
  <2>1. k - 1 \in 0 .. STAGES /\ k - 1 < x /\ k - 1 # STAGES /\ (k - 1) + 1 = k
    BY <1>2, BootTestAssumption
  <2>2. k - 1 \notin T BY <1>2, <2>1
  <2> QED BY <2>1, <2>2
<1>4. x \in 0 .. STAGES /\ Ends(x) BY <1>2, <1>3
<1>5. Reached(serial) = CHOOSE n \in 0 .. STAGES : Ends(n) BY DEF Reached
<1> HIDE DEF Ends
<1>6. Reached(serial) \in 0 .. STAGES /\ Ends(Reached(serial)) BY <1>4, <1>5
<1> QED BY <1>6, BootTestAssumption DEF Ends

\* What the loop can read is what this invocation's machine wrote, unless the
\* old log is still there.
LEMMA ReadIsOurs ==
  ASSUME TestInv, watch.at # "away", NEW serial \in Readable
  PROVE  /\ serial \in SUBSET Lines
         /\ OfThisGuest(serial, Reached(serial))
         /\ Success \in serial => "serial.log" \in faults \/ Reached(serial) = STAGES
<1>0. TestTyped /\ OneAtATime /\ LogIsOurs /\ Evidence BY DEF TestInv
<1>1. step = "watching" /\ run \in 1 .. MAX_RUNS BY <1>0 DEF OneAtATime
<1>2. serial \subseteq log BY DEF Readable
<1>3. serial \in SUBSET Lines BY <1>0, <1>2 DEF TestTyped
<1>4. CASE "serial.log" \in faults BY <1>3, <1>4 DEF OfThisGuest
<1>5. CASE "serial.log" \notin faults
  <2>1. writers \subseteq {run} /\ log = guest[run].wrote BY <1>0, <1>1, <1>5 DEF LogIsOurs
  <2>2. OfThisGuest(serial, Reached(serial))
    BY <1>2, <2>1, ReachedIsThere DEF OfThisGuest
  <2>3. Cardinality(writers) <= 1
    <3>1. writers = {} \/ writers = {run} BY <2>1
    <3>2. Cardinality({}) = 0 /\ Cardinality({run}) = 1 BY FS_EmptySet, FS_Singleton
    <3> QED BY <3>1, <3>2
  <2>4. serial = log \/ serial = {} BY <2>3 DEF Readable
  <2>5. Success \in serial => \A n \in 1 .. STAGES : Stage(n) \in serial
    BY <1>0, <1>1, <2>1, <2>4 DEF Evidence
  <2> QED BY <1>3, <2>2, <2>5, ReachedIsThere
<1> QED BY <1>4, <1>5

\* watch returns a verdict: what makes it an honest one.
LEMMA VerdictGiven ==
  ASSUME NEW succeeded \in BOOLEAN, NEW failure, NEW reached, NEW serial,
         Return(succeeded, failure, reached, serial),
         UNCHANGED <<run, since, faults, guest, booted>>,
         OfThisGuest(serial, reached),
         succeeded => /\ Success \in serial /\ OfThisInvocation(booted)
                      /\ "serial.log" \in faults \/ reached = STAGES,
         \A m \in 1 .. MARKERS : failure = <<"marker", m>> => Failure(m) \in serial,
         failure[1] = "exited" => guest[run].qemu = "exited",
         failure[1] = "timeout" => Success \notin serial /\ Failures(serial) = {}
  PROVE  VerdictIsHonest'
<1>1. /\ outcome'.succeeded = succeeded /\ outcome'.failure = failure
      /\ outcome'.reached = reached /\ outcome'.serial = serial
  BY DEF Return
<1>2. ReportIsOfThisGuest' BY <1>1 DEF ReportIsOfThisGuest, OfThisGuest
<1>3. GreenMeansThisSourceBoots' BY <1>1 DEF GreenMeansThisSourceBoots, OfThisInvocation
<1>4. FailureIsReal' /\ LogWinsOverTheClock' BY <1>1 DEF FailureIsReal, LogWinsOverTheClock
<1> QED BY <1>2, <1>3, <1>4 DEF VerdictIsHonest

\* One look at the log.
LEMMA PollStep ==
  ASSUME TestInv, Poll
  PROVE  TestInv'
<1>0. TestTyped /\ OneAtATime /\ Evidence /\ VerdictIsHonest BY DEF TestInv
<1>1. watch.at = "poll" /\ UNCHANGED <<buildVars, guest, booted, writers, log>> BY DEF Poll
<1>2. watch \in Watches /\ step = "watching" BY <1>0, <1>1 DEF TestTyped, OneAtATime
<1>3. UNCHANGED <<run, since, faults, guest, booted>> BY <1>1 DEF buildVars
<1>4. OfThisInvocation(booted) BY <1>0, <1>2 DEF Evidence
<1>5. PICK serial \in Readable :
        \/ /\ Success \in serial
           /\ Return(TRUE, <<"None", 0>>, Reached(serial), serial)
        \/ /\ Failures(serial) # {}
           /\ Return(FALSE, <<"marker", Find(Failures(serial))>>, Reached(serial), serial)
        \/ /\ Success \notin serial /\ Failures(serial) = {}
           /\ watch' = [at |-> "exited?", serial |-> serial, reached |-> Reached(serial)]
           /\ outcome' = outcome
  BY DEF Poll, Finished
<1>6. /\ serial \in SUBSET Lines
      /\ OfThisGuest(serial, Reached(serial))
      /\ Success \in serial => "serial.log" \in faults \/ Reached(serial) = STAGES
  BY <1>1, ReadIsOurs
<1>7. CASE Success \in serial /\ Return(TRUE, <<"None", 0>>, Reached(serial), serial)
  <2>1. watch' \in Watches /\ watch'.at = "over" BY <1>2, <1>7 DEF Watches, Return
  <2>2. VerdictIsHonest' BY <1>3, <1>4, <1>6, <1>7, VerdictGiven
  <2> QED BY <1>1, <2>1, <2>2, WatchStep
<1>8. CASE /\ Failures(serial) # {}
           /\ Return(FALSE, <<"marker", Find(Failures(serial))>>, Reached(serial), serial)
  <2>1. watch' \in Watches /\ watch'.at = "over" BY <1>2, <1>8 DEF Watches, Return
  <2> DEFINE failure == <<"marker", Find(Failures(serial))>>
  <2>2. Find(Failures(serial)) \in Failures(serial) BY <1>8, FoundIsThere DEF Failures
  <2>3. \A m \in 1 .. MARKERS : failure = <<"marker", m>> => Failure(m) \in serial
    BY <2>2 DEF Failures
  <2>4. failure[1] = "marker" OBVIOUS
  <2>5. Return(FALSE, failure, Reached(serial), serial) BY <1>8
  <2> HIDE DEF failure
  <2>6. VerdictIsHonest' BY <1>3, <1>6, <2>3, <2>4, <2>5, VerdictGiven
  <2> QED BY <1>1, <2>1, <2>6, WatchStep
<1>9. CASE /\ Success \notin serial /\ Failures(serial) = {}
           /\ watch' = [at |-> "exited?", serial |-> serial, reached |-> Reached(serial)]
           /\ outcome' = outcome
  <2>1. /\ watch' \in Watches /\ watch'.serial = serial /\ watch'.reached = Reached(serial)
    BY <1>6, <1>9, ReachedIsThere DEF Watches
  <2>2. VerdictIsHonest' BY <1>0, <1>3, <1>9, VerdictStands
  <2> QED BY <1>1, <1>6, <1>9, <2>1, <2>2, WatchStep
<1> QED BY <1>5, <1>7, <1>8, <1>9

\* The rest of the loop: is QEMU still there, and is there time left?
LEMMA LoopStep ==
  ASSUME TestInv, CheckExited \/ CheckTimeout
  PROVE  TestInv'
<1>0. TestTyped /\ OneAtATime /\ Evidence /\ VerdictIsHonest BY DEF TestInv
<1>1. /\ watch.at \in {"exited?", "expired?"}
      /\ UNCHANGED <<buildVars, guest, booted, writers, log>>
  BY DEF CheckExited, CheckTimeout
<1>2. /\ watch \in Watches /\ Success \notin watch.serial /\ Failures(watch.serial) = {}
      /\ OfThisGuest(watch.serial, watch.reached)
  BY <1>0, <1>1 DEF TestTyped, Evidence
<1>3. UNCHANGED <<run, since, faults, guest, booted>> BY <1>1 DEF buildVars
<1>4. CASE /\ watch' = [watch EXCEPT !.at = "expired?"] \/ watch' = [watch EXCEPT !.at = "poll"]
           /\ outcome' = outcome
  <2>1. watch' \in Watches /\ watch'.serial = watch.serial /\ watch'.reached = watch.reached
    BY <1>2, <1>4 DEF Watches
  <2>2. VerdictIsHonest' BY <1>0, <1>3, <1>4, VerdictStands
  <2> QED BY <1>1, <1>2, <2>1, <2>2, WatchStep
<1>5. ASSUME NEW reason, NEW serial, Return(FALSE, <<reason, 0>>, watch.reached, serial),
             OfThisGuest(serial, watch.reached),
             \/ reason = "exited" /\ guest[run].qemu = "exited"
             \/ reason = "timeout" /\ serial = watch.serial
      PROVE  TestInv'
  <2>1. watch' \in Watches /\ watch'.at = "over" BY <1>2, <1>5 DEF Return, Watches
  <2> DEFINE failure == <<reason, 0>>
  <2>2. /\ failure[1] = reason /\ Return(FALSE, failure, watch.reached, serial)
        /\ \A m \in 1 .. MARKERS : failure # <<"marker", m>>
    BY <1>5
  <2> HIDE DEF failure
  <2>3. VerdictIsHonest' BY <1>2, <1>3, <1>5, <2>2, VerdictGiven
  <2> QED BY <1>1, <2>1, <2>3, WatchStep
<1>6. CASE CheckExited
  <2>1. CASE guest[run].qemu = "exited"
    <3>1. PICK serial \in Readable :
            Return(FALSE, <<"exited", 0>>, watch.reached, serial)
      BY <1>6, <2>1 DEF CheckExited
    <3>2. OfThisGuest(serial, watch.reached) BY <1>1, <1>2, ReadIsOurs DEF OfThisGuest
    <3> QED BY <1>5, <2>1, <3>1, <3>2
  <2>2. CASE guest[run].qemu # "exited" BY <1>4, <1>6, <2>2 DEF CheckExited
  <2> QED BY <2>1, <2>2
<1>7. CASE CheckTimeout
  <2>1. CASE expired
    <3>1. Return(FALSE, <<"timeout", 0>>, watch.reached, watch.serial)
      BY <1>7, <2>1 DEF CheckTimeout
    <3> QED BY <1>2, <1>5, <3>1
  <2>2. CASE ~expired BY <1>4, <1>7, <2>2 DEF CheckTimeout
  <2> QED BY <2>1, <2>2
<1> QED BY <1>6, <1>7

\* kill and wait: the machine is gone, what it wrote is not, nor is the way it
\* ended when it had ended by itself.
LEMMA KillStep ==
  ASSUME TestInv, KillQemu
  PROVE  TestInv'
<1>0. BuildInv /\ TestTyped /\ OneAtATime /\ Evidence /\ VerdictIsHonest BY DEF TestInv
<1> DEFINE q == IF guest[run].qemu \in {"spawned", "running"} THEN "killed" ELSE guest[run].qemu
           g == [guest[run] EXCEPT !.qemu = q]
<1>1. /\ watch.at = "over" /\ watch' = NotWatching /\ step' = "done"
      /\ guest' = [guest EXCEPT ![run].qemu =
                     IF @ \in {"spawned", "running"} THEN "killed" ELSE @]
      /\ UNCHANGED <<rev, run, since, faults, disk, booted, writers, log, outcome>>
  BY DEF KillQemu
<1>2. step = "watching" /\ run \in 1 .. MAX_RUNS BY <1>0, <1>1 DEF OneAtATime
<1>3. guest[run] \in Guests BY <1>0, <1>2 DEF TestTyped
<1>4. /\ g \in Guests /\ g.qemu # "spawned" /\ g.wrote = guest[run].wrote
      /\ guest[run].qemu = "exited" => g.qemu = guest[run].qemu
  BY <1>3 DEF Guests, Qemus
<1>5. guest' = [guest EXCEPT ![run] = g] BY <1>0, <1>1, <1>2, <1>3 DEF TestTyped, Guests
<1> HIDE DEF q, g
<1>6. /\ guest' \in [1 .. MAX_RUNS -> Guests] /\ guest'[run] = g
      /\ \A s \in 1 .. MAX_RUNS : s # run => guest'[s] = guest[s]
  BY <1>0, <1>2, <1>4, <1>5, GuestChanged
<1>7. BuildInv' BY <1>0, <1>1, BuildGoesOn
<1>8. TestTyped' BY <1>0, <1>1, <1>6, NobodyThere DEF TestTyped
<1>9. OneAtATime' BY <1>0, <1>1, <1>2, <1>4, <1>6, NobodyThere DEF OneAtATime
<1>10. LogIsOurs' BY <1>1 DEF LogIsOurs
<1>11. Evidence'
  <2>1. \A s \in 1 .. MAX_RUNS : guest'[s].wrote = guest[s].wrote BY <1>4, <1>6
  <2> QED BY <1>0, <1>1, <2>1, NobodyThere DEF Evidence
<1>12. VerdictIsHonest' BY <1>0, <1>1, <1>4, <1>6, VerdictStands
<1> QED BY <1>7, <1>8, <1>9, <1>10, <1>11, <1>12 DEF TestInv

\* Every step keeps the invariant.
LEMMA NextTestInv == TestInv /\ [Next]_vars => TestInv'
<1> SUFFICES ASSUME TestInv, [Next]_vars PROVE TestInv' OBVIOUS
<1>1. CASE \/ BuildStep /\ UNCHANGED testVars
           \/ PrepareFails \/ Prepare \/ Killed
           \/ Tick /\ UNCHANGED buildVars
           \/ UNCHANGED vars
  BY <1>1, AwayStep
<1>2. CASE SpawnQemu BY <1>2, SpawnStep
<1>3. CASE Poll BY <1>3, PollStep
<1>4. CASE CheckExited \/ CheckTimeout BY <1>4, LoopStep
<1>5. CASE KillQemu BY <1>5, KillStep
<1>6. CASE Developer BY <1>6, DeveloperStep
<1>7. ASSUME NEW r \in 1 .. MAX_RUNS, UNCHANGED buildVars,
             QemuStarts(r) \/ GuestWrites(r) \/ QemuExits(r)
      PROVE  TestInv'
  BY <1>7, QemuStep, GuestStep
<1> QED BY <1>1, <1>2, <1>3, <1>4, <1>5, <1>6, <1>7 DEF Next, Test, Machine

-----------------------------------------------------------------------------
(* The theorems. *)

\* The invariant of every behaviour.
LEMMA TestInvHolds == Spec => []TestInv
BY InitTestInv, NextTestInv, PTL DEF Spec

\* However often the sources were edited and however many invocations failed
\* or were killed half-way: an invocation fails only for a fault of its own, and
\* the ISO it returns is of this invocation and whole, but for the faults that
\* iso.rs does not look for (xorriso reporting a success that was none, an old
\* ISO that could not be removed).
THEOREM BuildsAreSound == Spec => []RebuildIsSound
<1>1. TestInv => RebuildIsSound
  BY DEF TestInv, BuildInv, IsoIsFresh, NothingInTheWay, RebuildIsSound, RebuildIsIdempotent,
         IsoIsCurrent
<1> QED BY <1>1, TestInvHolds, PTL

\* The verdict of a boot test is about the machine of this invocation, booted
\* from the image of this invocation, whatever the machines of killed
\* invocations still do: green, the kernel finished; red, the failure is in the
\* log or the machine did exit that way by itself; and every stage called
\* reached was, unless the old serial.log could not be removed (qemu.rs, watch).
THEOREM VerdictsAreHonest == Spec => []VerdictIsHonest
<1>1. TestInv => VerdictIsHonest BY DEF TestInv
<1> QED BY <1>1, TestInvHolds, PTL

=============================================================================
