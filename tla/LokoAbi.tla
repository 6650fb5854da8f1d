------------------------------ MODULE LokoAbi ------------------------------
(***************************************************************************)
(* The ABI of LokoOS, sdk/loko-abi: errors and the register that carries   *)
(* them, handle types and rights, system call numbers.  Constant operators *)
(* only; HandleTable and PackageTrust are the systems that use them.       *)
(*                                                                         *)
(* isize is the integers from -(ISIZE_MAX + 1) to ISIZE_MAX.  The build    *)
(* keeps overflow checks (Cargo.toml), so arithmetic that overflows        *)
(* panics.                                                                 *)
(***************************************************************************)
EXTENDS Integers, Sequences

CONSTANTS
  ISIZE_MAX,      \* isize::MAX
  CODE_MAX        \* i16::MAX, the largest code an error may ever get

\* Error::ALL: the code of an error is its place.
Errors ==
  <<"InvalidArgument", "BadHandle", "InsufficientRights", "PermissionDenied", "NotFound",
    "AlreadyExists", "NotImplemented", "OutOfMemory", "WrongObjectType", "ProtectedLocation",
    "QuotaExceeded", "DeviceFault", "Interrupted", "WouldBlock", "IntegrityFailure",
    "ConfirmationRequired", "RuntimeMissing", "NoSuchSyscall">>

ErrorSet == {Errors[i] : i \in 1 .. Len(Errors)}

ASSUME LokoAbiAssumption ==
  /\ ISIZE_MAX \in Nat /\ CODE_MAX \in Nat
  /\ Len(Errors) <= CODE_MAX /\ CODE_MAX <= ISIZE_MAX

ISIZE_MIN == -(ISIZE_MAX + 1)

-----------------------------------------------------------------------------
(* Results and the register. *)

Ok(v) == [ok |-> TRUE, value |-> v]
Err(e) == [ok |-> FALSE, value |-> e]
Panicked == [ok |-> FALSE, value |-> "panic"]

\* Error::code
Code(e) == CHOOSE i \in 1 .. Len(Errors) : Errors[i] = e

ToRaw(e) == -Code(e)

\* Faulty variant of FromRaw: only codes of this version are decoded.
FromRawStrict(raw) == IF -raw \in 1 .. Len(Errors) THEN Err(Errors[-raw]) ELSE Panicked

\* Error::from_raw: -raw overflows at isize::MIN.
FromRaw(raw) ==
  CASE raw = ISIZE_MIN -> Panicked
    [] -raw \in 1 .. Len(Errors) -> Err(Errors[-raw])
    [] OTHER -> Err("InvalidArgument")

\* RawReturn::ok asserts that the payload fits.
Fits(v) == v <= ISIZE_MAX

\* RawReturn::from, for a payload that fits.
ToRegister(result) == IF result.ok THEN result.value ELSE ToRaw(result.value)

\* RawReturn::decode
Decode(raw) == IF raw >= 0 THEN Ok(raw) ELSE FromRaw(raw)

\* Faulty variant of IsRetryable: a failed check is tried again.
IsRetryableIntegrity(e) == e \in {"Interrupted", "WouldBlock", "OutOfMemory", "IntegrityFailure"}

\* What a supervisor may do again by itself.
IsRetryable(e) == e \in {"Interrupted", "WouldBlock", "OutOfMemory"}

\* What goes into the security log.
IsSecurityRelevant(e) ==
  e \in {"PermissionDenied", "InsufficientRights", "ProtectedLocation", "IntegrityFailure"}

\* UserAction
UserActions == {"Cancel", "OpenPermissionSettings", "LearnMore", "OpenSystemMonitor",
                "OpenStorageSettings", "Confirm", "InstallRuntime", "Retry"}

\* The buttons of an error's dialog.
SuggestedActions(e) ==
  {"Cancel"} \cup
  CASE e \in {"PermissionDenied", "InsufficientRights"} -> {"OpenPermissionSettings"}
    [] e \in {"ProtectedLocation", "IntegrityFailure", "NotImplemented", "NoSuchSyscall"} ->
         {"LearnMore"}
    [] e = "OutOfMemory" -> {"OpenSystemMonitor"}
    [] e = "DeviceFault" -> {"OpenStorageSettings"}
    [] e = "ConfirmationRequired" -> {"Confirm"}
    [] e = "RuntimeMissing" -> {"InstallRuntime", "LearnMore"}
    [] e \in {"Interrupted", "WouldBlock"} -> {"Retry"}
    [] OTHER -> {}

\* UserAction::is_affirmative: the operation goes ahead.
IsAffirmative(action) == action \in {"Retry", "Confirm"}

-----------------------------------------------------------------------------
(* Handles and rights. *)

Rights == {"READ", "WRITE", "EXECUTE", "INSPECT", "ADMINISTER", "CREATE", "DELETE", "WATCH",
           "TRANSFER", "DERIVE"}

RO == {"READ", "INSPECT"}
RW == RO \cup {"WRITE"}
DIR_FULL == RW \cup {"EXECUTE", "CREATE", "DELETE", "WATCH", "DERIVE"}

HandleTypes == {"Directory", "File", "Process", "Thread", "VirtualMemory", "Channel", "Timer",
                "Interrupt", "Device", "Grant"}

\* legal_rights_for
LegalRightsFor(kind) ==
  LET base == {"INSPECT", "TRANSFER", "DERIVE"} IN
  CASE kind = "Directory" -> base \cup DIR_FULL
    [] kind = "File" -> base \cup {"READ", "WRITE", "EXECUTE", "WATCH", "ADMINISTER"}
    [] kind \in {"Process", "Thread", "Device"} -> base \cup {"READ", "WRITE", "ADMINISTER"}
    [] kind = "VirtualMemory" -> base \cup {"READ", "WRITE", "EXECUTE"}
    [] kind = "Channel" -> base \cup {"READ", "WRITE"}
    [] kind \in {"Timer", "Interrupt"} -> base \cup {"READ", "WATCH"}
    [] kind = "Grant" -> {"INSPECT", "TRANSFER"}

\* Faulty variant of MayDerive: an overlap is enough.
MayDeriveOverlap(rights, requested) == "DERIVE" \in rights /\ rights \cap requested # {}

\* HandleRights::derive answers Some(requested).
MayDerive(rights, requested) == "DERIVE" \in rights /\ requested \subseteq rights

\* HandleRights::allows
Allows(rights, required) == required \subseteq rights

\* HandleRights::is_mutating
CanMutate(rights) == rights \cap {"WRITE", "ADMINISTER", "CREATE", "DELETE"} # {}

-----------------------------------------------------------------------------
(* System calls. *)

\* SyscallNo: the numbers that are assigned.
SyscallNumbers ==
  [ThreadExit |-> 1, ThreadYield |-> 2, ThreadSleep |-> 3, ThreadCreate |-> 4,
   HandleClose |-> 16, HandleDerive |-> 17, HandleQuery |-> 18,
   FsOpenAt |-> 32, FsRead |-> 33, FsWrite |-> 34, FsStat |-> 35, FsReadDir |-> 36,
   FsCreateDir |-> 37, FsUnlink |-> 38, FsRename |-> 39, FsSync |-> 40,
   VmMap |-> 48, VmUnmap |-> 49, VmProtect |-> 50,
   ChannelCreate |-> 64, ChannelSend |-> 65, ChannelRecv |-> 66,
   ClockMonotonic |-> 80, WaitMany |-> 81, LogWrite |-> 96]

Calls == DOMAIN SyscallNumbers

\* SyscallNo::from_number
FromNumber(n) == {c \in Calls : SyscallNumbers[c] = n}

\* The calls that check the rights of the handle in their first argument.
HandleCalls == {"HandleDerive", "HandleQuery", "FsOpenAt", "FsRead", "FsWrite", "FsStat",
                "FsReadDir", "FsCreateDir", "FsUnlink", "FsRename", "FsSync", "VmUnmap",
                "VmProtect", "ChannelSend", "ChannelRecv"}

\* Faulty variant of RequiredRights: flushing needs no more than reading.
RequiredRightsLooseSync(call) ==
  CASE call = "HandleDerive" -> {"DERIVE"}
    [] call \in {"HandleQuery", "FsStat"} -> {"INSPECT"}
    [] call = "FsOpenAt" -> {"EXECUTE"}
    [] call \in {"FsRead", "FsReadDir", "ChannelRecv", "FsSync"} -> {"READ"}
    [] call = "FsCreateDir" -> {"CREATE"}
    [] call \in {"FsUnlink", "FsRename"} -> {"DELETE"}
    [] OTHER -> {"WRITE"}

\* SyscallNo::required_rights
RequiredRights(call) ==
  CASE call = "HandleDerive" -> {"DERIVE"}
    [] call \in {"HandleQuery", "FsStat"} -> {"INSPECT"}
    [] call = "FsOpenAt" -> {"EXECUTE"}
    [] call \in {"FsRead", "FsReadDir", "ChannelRecv"} -> {"READ"}
    [] call = "FsCreateDir" -> {"CREATE"}
    [] call \in {"FsUnlink", "FsRename"} -> {"DELETE"}
    [] call \in {"FsWrite", "FsSync", "VmUnmap", "VmProtect", "ChannelSend"} -> {"WRITE"}

\* SyscallNo::is_mutating
CallIsMutating(call) == call \in {"FsWrite", "FsCreateDir", "FsUnlink", "FsRename", "FsSync"}

=============================================================================
