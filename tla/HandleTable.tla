---------------------------- MODULE HandleTable ----------------------------
(***************************************************************************)
(* Handles in use: what processes can do with the rights of sdk/loko-abi,  *)
(* and what the kernel's dispatcher answers.                               *)
(*                                                                         *)
(* The rules are the ABI's: derive, allows, legal_rights_for, the rights a *)
(* call requires.  The table that keeps the handles and the calls behind   *)
(* the dispatcher do not exist yet; their part here is the one that        *)
(* handle.rs and syscall.rs give them: rights are checked on every call.   *)
(***************************************************************************)
EXTENDS LokoAbi, FiniteSets

CONSTANTS
  Processes,
  Objects,
  Numbers,        \* handle numbers; 0 is never one
  Kinds,          \* the handle types of this instance
  RightSets,      \* the rights that are granted and asked for
  SyscallArgs,    \* the numbers processes put into the call register
  None

ASSUME HandleTableAssumption ==
  /\ Numbers \subseteq Nat \ {0}
  /\ \A n \in Numbers : Fits(n)
  /\ Kinds \subseteq HandleTypes
  /\ RightSets \subseteq SUBSET Rights
  /\ SyscallArgs \subseteq Nat
  /\ None \notin Processes \cup Objects

VARIABLES
  granted,        \* for each object, to whom the kernel gave which rights at the start
  handles,        \* the open handles of all processes, by number
  performed,      \* the call the last step carried out
  answer          \* what the last step meant to return, and what its caller decodes

vars == <<granted, handles, performed, answer>>

NoHandle == [proc |-> None, object |-> None, rights |-> {}]
NoGrant == [proc |-> None, kind |-> "File", rights |-> {}]
NoCall == [call |-> "None", object |-> None]
NoAnswer == [meant |-> Ok(0), got |-> Ok(0)]

Open == {n \in Numbers : handles[n] # NoHandle}

\* Handle::is_valid, and the table has the handle.
IsOpen(n) == n # 0 /\ n \in Open

Init ==
  /\ granted = [o \in Objects |-> NoGrant]
  /\ handles = [n \in Numbers |-> NoHandle]
  /\ performed = NoCall
  /\ answer = NoAnswer

\* The caller decodes the register.
Return(result) ==
  /\ answer' = [meant |-> result, got |-> Decode(ToRegister(result))]
  /\ performed' = NoCall

\* Nothing to carry out and nothing to answer.
Silent == performed' = NoCall /\ answer' = NoAnswer

-----------------------------------------------------------------------------
(* The table. *)

\* A process starts with handles to what its manifest lists.
GrantAtStart(o, p, kind, rights) ==
  /\ granted[o] = NoGrant
  /\ rights \subseteq LegalRightsFor(kind)
  /\ \E n \in Numbers \ Open :
       /\ handles' = [handles EXCEPT ![n] = [proc |-> p, object |-> o, rights |-> rights]]
       /\ granted' = [granted EXCEPT ![o] = [proc |-> p, kind |-> kind, rights |-> rights]]
  /\ Silent

\* HandleDerive, which also requires DERIVE of the handle.
Derive(n, requested) ==
  /\ IsOpen(n)
  /\ IF Allows(handles[n].rights, RequiredRights("HandleDerive"))
        /\ MayDerive(handles[n].rights, requested)
       THEN \E k \in Numbers \ Open :
              /\ handles' = [handles EXCEPT ![k] = [handles[n] EXCEPT !.rights = requested]]
              /\ Return(Ok(k))
       ELSE /\ Return(Err("InsufficientRights"))
            /\ UNCHANGED handles
  /\ UNCHANGED granted

\* A handle that may be transferred moves with a message.
Transfer(n, p) ==
  /\ IsOpen(n)
  /\ Allows(handles[n].rights, {"TRANSFER"})
  /\ handles' = [handles EXCEPT ![n].proc = p]
  /\ Silent
  /\ UNCHANGED granted

\* HandleClose needs no rights.
Close(n) ==
  /\ IsOpen(n)
  /\ handles' = [handles EXCEPT ![n] = NoHandle]
  /\ Silent
  /\ UNCHANGED granted

\* Any other call on a handle.
Call(n, call) ==
  /\ IsOpen(n)
  /\ call \in HandleCalls \ {"HandleDerive"}
  /\ Allows(handles[n].rights, RequiredRights(call))
  /\ performed' = [call |-> call, object |-> handles[n].object]
  /\ answer' = NoAnswer
  /\ UNCHANGED <<granted, handles>>

-----------------------------------------------------------------------------
(* The dispatcher. *)

\* log_write, clock_monotonic and every other call answer NotImplemented.
DispatchResult(number) ==
  IF FromNumber(number) = {} THEN Err("NoSuchSyscall") ELSE Err("NotImplemented")

Dispatch(number) ==
  /\ Return(DispatchResult(number))
  /\ UNCHANGED <<granted, handles>>

\* A kernel newer than the program answers with a code the program does not
\* know.
NewerKernelAnswers(code) ==
  /\ code \in (Len(Errors) + 1) .. CODE_MAX
  /\ answer' = [meant |-> Err("InvalidArgument"), got |-> Decode(-code)]
  /\ performed' = NoCall
  /\ UNCHANGED <<granted, handles>>

Next ==
  \/ \E o \in Objects, p \in Processes, kind \in Kinds, rights \in RightSets :
       GrantAtStart(o, p, kind, rights)
  \/ \E n \in Numbers :
       \/ \E requested \in RightSets : Derive(n, requested)
       \/ \E p \in Processes : Transfer(n, p)
       \/ \E call \in Calls : Call(n, call)
       \/ Close(n)
  \/ \E number \in SyscallArgs : Dispatch(number)
  \/ \E code \in 1 .. CODE_MAX : NewerKernelAnswers(code)

Spec == Init /\ [][Next]_vars

-----------------------------------------------------------------------------
(* Properties. *)

HandleType == [proc : Processes \cup {None}, object : Objects \cup {None}, rights : SUBSET Rights]

\* Open handles belong to somebody and name an object that was granted.
TypeOK ==
  /\ granted \in [Objects -> [proc : Processes \cup {None}, kind : HandleTypes, rights : SUBSET Rights]]
  /\ handles \in [Numbers -> HandleType]
  /\ \A n \in Open : handles[n].proc \in Processes /\ handles[n].object \in Objects
  /\ performed \in [call : Calls \cup {"None"}, object : Objects \cup {None}]

\* However many times a handle was derived and passed on, it conveys nothing
\* that was not granted with the object ("authority in LokoOS only ever flows
\* downhill", handle.rs).
RightsNeverWiden == \A n \in Open : handles[n].rights \subseteq granted[handles[n].object].rights

\* An object granted without TRANSFER is never in the hands of another
\* process, whatever was derived from it ("authority that cannot be
\* re-delegated", handle.rs).
UntransferableStaysHome ==
  \A n \in Open :
    "TRANSFER" \notin granted[handles[n].object].rights =>
      handles[n].proc = granted[handles[n].object].proc

\* A call that changes persistent state is only ever carried out on an object
\* that was granted with a right to change it: rights, the rights calls
\* require and the list of mutating calls agree (handle.rs and syscall.rs,
\* is_mutating).
ReadOnlyGrantsChangeNothing ==
  CallIsMutating(performed.call) => CanMutate(granted[performed.object].rights)

\* There is one handle to a permission grant at most: nothing is ever derived
\* from it ("narrowing a permission grant would let a process forge" one,
\* handle.rs).
GrantsAreNeverCopied ==
  \A n, k \in Open :
    handles[n].object = handles[k].object /\ granted[handles[n].object].kind = "Grant" => n = k

\* Authority is confined to what was granted, in its rights, in who holds it
\* and in number, after any sequence of derivations, transfers and closes
\* (handle.rs, may_derive).
AuthorityIsConfined == RightsNeverWiden /\ UntransferableStaysHome /\ GrantsAreNeverCopied

\* What a call means is what its caller reads from the register: an error is
\* never taken for a handle, and a code of a newer kernel degrades "instead
\* of aborting" (error.rs, from_raw).
AnswersSurviveTheRegister == answer.got = answer.meant

=============================================================================
