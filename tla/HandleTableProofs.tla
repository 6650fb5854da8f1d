------------------------- MODULE HandleTableProofs -------------------------
(***************************************************************************)
(* Theorems about HandleTable: what no chain of derivations, transfers and *)
(* calls can do, for every number of processes, objects and handles, and   *)
(* that the register loses no answer.                                      *)
(***************************************************************************)
EXTENDS HandleTable, TLAPS

(* What the register does to a result. *)

\* A payload is read as it was written (lib.rs, RawReturn).
LEMMA SuccessSurvives ==
  ASSUME NEW v \in Nat
  PROVE  Decode(ToRegister(Ok(v))) = Ok(v)
BY DEF Decode, ToRegister, Ok

\* So is an error: its code is its place in ALL, and the negation of a code is
\* never isize::MIN (error.rs, code and from_raw).
LEMMA ErrorSurvives ==
  ASSUME NEW e \in ErrorSet
  PROVE  Decode(ToRegister(Err(e))) = Err(e)
<1>1. Len(Errors) = 18 BY DEF Errors
<1>2. Code(e) \in 1 .. 18 /\ Errors[Code(e)] = e
  <2>1. \E i \in 1 .. Len(Errors) : Errors[i] = e BY DEF ErrorSet
  <2> QED BY <1>1, <2>1 DEF Code
<1> HIDE DEF Code, Errors
<1>3. ISIZE_MAX \in Nat /\ 18 <= ISIZE_MAX BY <1>1, LokoAbiAssumption
<1> DEFINE raw == -Code(e)
<1>4. raw \in Int /\ raw < 0 /\ -raw = Code(e) /\ raw # ISIZE_MIN
  BY <1>2, <1>3 DEF ISIZE_MIN
<1>5. ToRegister(Err(e)) = raw BY DEF ToRegister, Err, ToRaw
<1> HIDE DEF raw
<1>6. FromRaw(raw) = Err(e) BY <1>1, <1>2, <1>4 DEF FromRaw
<1>7. Decode(raw) = FromRaw(raw) BY <1>4 DEF Decode
<1> QED BY <1>5, <1>6, <1>7

\* A code that this version does not know degrades to InvalidArgument
\* (error.rs, from_raw).
LEMMA UnknownCodeDegrades ==
  ASSUME NEW code \in (Len(Errors) + 1) .. CODE_MAX
  PROVE  Decode(-code) = Err("InvalidArgument")
<1>1. Len(Errors) = 18 BY DEF Errors
<1> HIDE DEF Errors
<1>2. /\ ISIZE_MAX \in Nat /\ CODE_MAX \in Nat /\ CODE_MAX <= ISIZE_MAX
      /\ code \in Nat /\ code > 18 /\ code <= CODE_MAX
  BY <1>1, LokoAbiAssumption
<1> DEFINE raw == -code
<1>3. raw \in Int /\ raw < 0 /\ -raw = code /\ raw # ISIZE_MIN BY <1>2 DEF ISIZE_MIN
<1>4. -raw \notin 1 .. Len(Errors) BY <1>1, <1>2, <1>3
<1> HIDE DEF raw
<1>5. FromRaw(raw) = Err("InvalidArgument") BY <1>3, <1>4 DEF FromRaw
<1> QED BY <1>3, <1>5 DEF Decode, raw

-----------------------------------------------------------------------------

\* What is granted at the start is legal for the type of the object.
GrantsAreLegal ==
  \A o \in Objects :
    granted[o] # NoGrant => granted[o].rights \subseteq LegalRightsFor(granted[o].kind)

\* The inductive invariant.
IInv ==
  /\ TypeOK
  /\ GrantsAreLegal
  /\ RightsNeverWiden
  /\ UntransferableStaysHome
  /\ GrantsAreNeverCopied

-----------------------------------------------------------------------------
(* What the inductive step relies on. *)

\* Rights that are legal for some type are rights.
LEMMA LegalRightsAreRights ==
  ASSUME NEW kind \in HandleTypes
  PROVE  LegalRightsFor(kind) \subseteq Rights
BY DEF HandleTypes, LegalRightsFor, Rights, RO, RW, DIR_FULL

\* An open handle has an owner and an object, and the object was granted.
LEMMA OpenHandles ==
  ASSUME IInv, NEW n \in Open
  PROVE  /\ n \in Numbers
         /\ handles[n].proc \in Processes
         /\ handles[n].object \in Objects
         /\ granted[handles[n].object] # NoGrant
<1>1. /\ n \in Numbers /\ handles[n].proc \in Processes /\ handles[n].object \in Objects
  BY DEF IInv, TypeOK, Open
<1>2. SUFFICES ASSUME granted[handles[n].object] = NoGrant PROVE FALSE
  BY <1>1
<1>3. "TRANSFER" \notin granted[handles[n].object].rights
  BY <1>2 DEF NoGrant
<1>4. handles[n].proc = None
  BY <1>2, <1>3 DEF IInv, UntransferableStaysHome, NoGrant
<1> QED BY <1>1, <1>4, HandleTableAssumption

\* It holds of a table without handles.
LEMMA InitIInv == Init => IInv
<1> SUFFICES ASSUME Init PROVE IInv OBVIOUS
<1>1. NoHandle \in HandleType BY DEF NoHandle, HandleType
<1>2. NoGrant \in [proc : Processes \cup {None}, kind : HandleTypes, rights : SUBSET Rights]
  BY DEF NoGrant, HandleTypes
<1>3. Open = {} BY DEF Init, Open
<1>4. NoCall \in [call : Calls \cup {"None"}, object : Objects \cup {None}] BY DEF NoCall
<1>5. TypeOK BY <1>1, <1>2, <1>3, <1>4 DEF Init, TypeOK
<1>6. GrantsAreLegal BY DEF Init, GrantsAreLegal
<1> QED
  BY <1>3, <1>5, <1>6 DEF IInv, RightsNeverWiden, UntransferableStaysHome, GrantsAreNeverCopied

-----------------------------------------------------------------------------
(* One lemma for every action that touches the table. *)

\* A grant keeps it: the rights are legal for the kind.
LEMMA GrantAtStartStep ==
  ASSUME IInv, NEW o \in Objects, NEW p \in Processes, NEW kind \in Kinds,
         NEW rights \in RightSets, GrantAtStart(o, p, kind, rights)
  PROVE  IInv'
<1> DEFINE new == [proc |-> p, object |-> o, rights |-> rights]
           grant == [proc |-> p, kind |-> kind, rights |-> rights]
<1>1. PICK m \in Numbers \ Open :
        /\ handles' = [handles EXCEPT ![m] = new]
        /\ granted' = [granted EXCEPT ![o] = grant]
  BY DEF GrantAtStart
<1>2. /\ kind \in HandleTypes /\ rights \subseteq Rights /\ rights \subseteq LegalRightsFor(kind)
      /\ granted[o] = NoGrant
  BY HandleTableAssumption DEF GrantAtStart
<1>3. /\ new \in HandleType /\ new # NoHandle
      /\ grant \in [proc : Processes \cup {None}, kind : HandleTypes, rights : SUBSET Rights]
      /\ grant # NoGrant
  BY <1>2, HandleTableAssumption DEF HandleType, NoHandle, NoGrant
<1>4. Open' = Open \cup {m} /\ handles'[m] = new /\ \A n \in Open : handles'[n] = handles[n] /\ n # m
  BY <1>1, <1>3 DEF Open, IInv, TypeOK
<1>5. granted'[o] = grant /\ \A n \in Open : granted'[handles[n].object] = granted[handles[n].object]
                                            /\ handles[n].object # o
  BY <1>1, <1>2, OpenHandles DEF IInv, TypeOK
<1>6. TypeOK'
  <2>1. performed' = NoCall BY DEF GrantAtStart, Silent
  <2>2. handles' \in [Numbers -> HandleType] BY <1>1, <1>3 DEF IInv, TypeOK
  <2>3. granted' \in [Objects -> [proc : Processes \cup {None}, kind : HandleTypes, rights : SUBSET Rights]]
    BY <1>1, <1>3 DEF IInv, TypeOK
  <2> QED BY <1>4, <2>1, <2>2, <2>3, OpenHandles DEF TypeOK, NoCall
<1>7. GrantsAreLegal' BY <1>1, <1>2 DEF IInv, TypeOK, GrantsAreLegal
<1>8. RightsNeverWiden' BY <1>4, <1>5 DEF IInv, RightsNeverWiden
<1>9. UntransferableStaysHome' BY <1>4, <1>5 DEF IInv, UntransferableStaysHome
<1>10. GrantsAreNeverCopied' BY <1>4, <1>5 DEF IInv, GrantsAreNeverCopied
<1> QED BY <1>6, <1>7, <1>8, <1>9, <1>10 DEF IInv

\* A derivation keeps it: rights only narrow, and grants are not derived.
LEMMA DeriveStep ==
  ASSUME IInv, NEW n \in Numbers, NEW requested \in RightSets, Derive(n, requested)
  PROVE  IInv'
<1> USE DEF IInv
<1>1. CASE UNCHANGED handles
  <2>1. UNCHANGED <<handles, granted>> /\ performed' = NoCall BY <1>1 DEF Derive, Return
  <2> QED BY <2>1 DEF TypeOK, NoCall, Open, GrantsAreLegal, RightsNeverWiden,
             UntransferableStaysHome, GrantsAreNeverCopied
<1>2. CASE ~UNCHANGED handles
  <2> DEFINE new == [handles[n] EXCEPT !.rights = requested]
             object == handles[n].object
  <2>1. /\ n \in Open /\ MayDerive(handles[n].rights, requested) /\ granted' = granted
        /\ performed' = NoCall
    BY <1>2 DEF Derive, IsOpen, Return
  <2>2. PICK k \in Numbers \ Open : handles' = [handles EXCEPT ![k] = new]
    BY <1>2 DEF Derive
  <2>3. /\ object \in Objects /\ handles[n].proc \in Processes
        /\ granted[object] # NoGrant
    BY <2>1, OpenHandles
  <2>4. /\ new \in HandleType /\ new.proc = handles[n].proc /\ new.object = object
        /\ new.rights = requested /\ new # NoHandle
    <3>1. handles[n] \in HandleType /\ requested \subseteq Rights
      BY HandleTableAssumption DEF TypeOK
    <3> QED BY <2>3, <3>1, HandleTableAssumption DEF HandleType, NoHandle
  <2>5. Open' = Open \cup {k} /\ handles'[k] = new /\ \A i \in Open : handles'[i] = handles[i]
    BY <2>2, <2>4 DEF Open, TypeOK
  <2>6. requested \subseteq handles[n].rights /\ "DERIVE" \in granted[object].rights
    BY <2>1 DEF MayDerive, RightsNeverWiden
  <2>7. granted[object].kind # "Grant"
    BY <2>3, <2>6 DEF GrantsAreLegal, LegalRightsFor
  <2>8. TypeOK'
    <3>1. handles' \in [Numbers -> HandleType] BY <2>2, <2>4 DEF TypeOK
    <3> QED BY <2>1, <2>3, <2>4, <2>5, <3>1, OpenHandles DEF TypeOK, NoCall
  <2>9. GrantsAreLegal' BY <2>1 DEF GrantsAreLegal
  <2>10. /\ Open' = Open \cup {k} /\ \A i \in Open : handles'[i] = handles[i]
         /\ handles'[k].object = handles[n].object /\ handles'[k].proc = handles[n].proc
         /\ handles'[k].rights \subseteq handles[n].rights
    BY <2>4, <2>5, <2>6
  <2> HIDE DEF new, object
  <2>11. RightsNeverWiden' BY <2>1, <2>10 DEF RightsNeverWiden
  <2>12. UntransferableStaysHome' BY <2>1, <2>10 DEF UntransferableStaysHome
  <2>13. GrantsAreNeverCopied' BY <2>1, <2>7, <2>10 DEF object, GrantsAreNeverCopied
  <2> QED BY <2>8, <2>9, <2>11, <2>12, <2>13
<1> QED BY <1>1, <1>2

\* A transfer keeps it: TRANSFER was among the rights.
LEMMA TransferStep ==
  ASSUME IInv, NEW n \in Numbers, NEW p \in Processes, Transfer(n, p)
  PROVE  IInv'
<1> USE DEF IInv
<1> DEFINE new == [handles[n] EXCEPT !.proc = p]
<1>1. /\ n \in Open /\ handles' = [handles EXCEPT ![n] = new] /\ granted' = granted
      /\ "TRANSFER" \in handles[n].rights /\ performed' = NoCall
  BY DEF Transfer, IsOpen, Allows, Silent
<1>2. handles[n] \in HandleType /\ handles[n].object \in Objects
  BY <1>1, OpenHandles DEF TypeOK
<1>3. /\ new \in HandleType /\ new.proc = p /\ new.object = handles[n].object
      /\ new.rights = handles[n].rights /\ new # NoHandle
  BY <1>2, HandleTableAssumption DEF HandleType, NoHandle
<1>4. /\ Open' = Open /\ handles'[n] = new
      /\ \A i \in Open \ {n} : handles'[i] = handles[i]
  BY <1>1, <1>3 DEF Open, TypeOK
<1>5. TypeOK'
  <2>1. handles' \in [Numbers -> HandleType] BY <1>1, <1>3 DEF TypeOK
  <2> QED BY <1>1, <1>2, <1>3, <1>4, <2>1, OpenHandles DEF TypeOK, NoCall
<1>6. GrantsAreLegal' BY <1>1 DEF GrantsAreLegal
<1>7. RightsNeverWiden' BY <1>1, <1>3, <1>4 DEF RightsNeverWiden
<1>8. "TRANSFER" \in granted[handles[n].object].rights BY <1>1 DEF RightsNeverWiden
<1>9. UntransferableStaysHome' BY <1>1, <1>3, <1>4, <1>8 DEF UntransferableStaysHome
<1>10. GrantsAreNeverCopied' BY <1>1, <1>3, <1>4 DEF GrantsAreNeverCopied
<1> QED BY <1>5, <1>6, <1>7, <1>9, <1>10

\* Closing keeps it: nothing is added.
LEMMA CloseStep ==
  ASSUME IInv, NEW n \in Numbers, Close(n)
  PROVE  IInv'
<1> USE DEF IInv
<1>1. /\ handles' = [handles EXCEPT ![n] = NoHandle] /\ granted' = granted /\ performed' = NoCall
  BY DEF Close, Silent
<1>2. NoHandle \in HandleType BY DEF NoHandle, HandleType
<1>3. Open' = Open \ {n} /\ \A i \in Open \ {n} : handles'[i] = handles[i]
  BY <1>1 DEF Open, TypeOK
<1>4. TypeOK'
  <2>1. handles' \in [Numbers -> HandleType] BY <1>1, <1>2 DEF TypeOK
  <2> QED BY <1>1, <1>3, <2>1, OpenHandles DEF TypeOK, NoCall
<1>5. GrantsAreLegal' BY <1>1 DEF GrantsAreLegal
<1>6. RightsNeverWiden' BY <1>1, <1>3 DEF RightsNeverWiden
<1>7. UntransferableStaysHome' BY <1>1, <1>3 DEF UntransferableStaysHome
<1>8. GrantsAreNeverCopied' BY <1>1, <1>3 DEF GrantsAreNeverCopied
<1> QED BY <1>4, <1>5, <1>6, <1>7, <1>8

\* A step that leaves the table alone and carries out a call of the ABI, or none.
LEMMA QuietStep ==
  ASSUME IInv, UNCHANGED <<granted, handles>>,
         performed' \in [call : Calls \cup {"None"}, object : Objects \cup {None}]
  PROVE  IInv'
BY DEF IInv, TypeOK, Open, GrantsAreLegal, RightsNeverWiden, UntransferableStaysHome,
       GrantsAreNeverCopied

\* Every step keeps it.
LEMMA NextIInv == IInv /\ [Next]_vars => IInv'
<1> SUFFICES ASSUME IInv, [Next]_vars PROVE IInv' OBVIOUS
<1>0. NoCall \in [call : Calls \cup {"None"}, object : Objects \cup {None}] BY DEF NoCall
<1>1. ASSUME NEW o \in Objects, NEW p \in Processes, NEW kind \in Kinds, NEW rights \in RightSets,
             GrantAtStart(o, p, kind, rights)
      PROVE  IInv'
  BY <1>1, GrantAtStartStep
<1>2. ASSUME NEW n \in Numbers, NEW requested \in RightSets, Derive(n, requested) PROVE IInv'
  BY <1>2, DeriveStep
<1>3. ASSUME NEW n \in Numbers, NEW p \in Processes, Transfer(n, p) PROVE IInv'
  BY <1>3, TransferStep
<1>4. ASSUME NEW n \in Numbers, NEW call \in Calls, Call(n, call) PROVE IInv'
  <2>1. /\ n \in Open /\ performed' = [call |-> call, object |-> handles[n].object]
        /\ UNCHANGED <<granted, handles>>
    BY <1>4 DEF Call, IsOpen
  <2>2. handles[n].object \in Objects BY <2>1, OpenHandles
  <2> QED BY <2>1, <2>2, QuietStep
<1>5. ASSUME NEW n \in Numbers, Close(n) PROVE IInv'
  BY <1>5, CloseStep
<1>6. ASSUME NEW number \in SyscallArgs, Dispatch(number) PROVE IInv'
  BY <1>6, <1>0, QuietStep DEF Dispatch, Return
<1>7. ASSUME NEW code \in 1 .. CODE_MAX, NewerKernelAnswers(code) PROVE IInv'
  BY <1>7, <1>0, QuietStep DEF NewerKernelAnswers
<1>8. CASE UNCHANGED vars
  <2>1. UNCHANGED <<granted, handles>> /\ performed' = performed BY <1>8 DEF vars
  <2>2. performed \in [call : Calls \cup {"None"}, object : Objects \cup {None}] BY DEF IInv, TypeOK
  <2> QED BY <2>1, <2>2, QuietStep
<1> QED BY <1>1, <1>2, <1>3, <1>4, <1>5, <1>6, <1>7, <1>8 DEF Next

-----------------------------------------------------------------------------
(* The theorems. *)

\* The table is well formed in every reachable state: an open handle belongs
\* to a process and names an object (handle.rs, Handle).
THEOREM TypeCorrect == Spec => []TypeOK
<1>1. IInv => TypeOK BY DEF IInv
<1> QED BY <1>1, InitIInv, NextIInv, PTL DEF Spec

\* No chain of derivations and transfers yields a right that was not granted
\* (handle.rs, derive).
THEOREM AuthorityFlowsDownhill == Spec => []RightsNeverWiden
<1>1. IInv => RightsNeverWiden BY DEF IInv
<1> QED BY <1>1, InitIInv, NextIInv, PTL DEF Spec

\* What was granted without TRANSFER never leaves the process it was granted
\* to (handle.rs, TRANSFER).
THEOREM NoTransferByDetour == Spec => []UntransferableStaysHome
<1>1. IInv => UntransferableStaysHome BY DEF IInv
<1> QED BY <1>1, InitIInv, NextIInv, PTL DEF Spec

\* A permission grant has one handle at most (handle.rs, legal_rights_for).
THEOREM GrantsStaySingle == Spec => []GrantsAreNeverCopied
<1>1. IInv => GrantsAreNeverCopied BY DEF IInv
<1> QED BY <1>1, InitIInv, NextIInv, PTL DEF Spec

\* All of it together: authority is confined to what was granted (handle.rs,
\* may_derive, may_transfer and legal_rights_for).
THEOREM AuthorityStaysConfined == Spec => []AuthorityIsConfined
<1>1. RightsNeverWiden /\ UntransferableStaysHome /\ GrantsAreNeverCopied => AuthorityIsConfined
  BY DEF AuthorityIsConfined
<1> QED BY <1>1, AuthorityFlowsDownhill, NoTransferByDetour, GrantsStaySingle, PTL

\* A call that changes persistent state requires a right to change something.
LEMMA MutatingCallsNeedMutatingRights ==
  ASSUME NEW call \in HandleCalls, CallIsMutating(call), NEW rights, Allows(rights, RequiredRights(call))
  PROVE  CanMutate(rights)
<1>1. call \in {"FsWrite", "FsCreateDir", "FsUnlink", "FsRename", "FsSync"} BY DEF CallIsMutating
<1>2. RequiredRights(call) \in {{"WRITE"}, {"CREATE"}, {"DELETE"}} BY <1>1 DEF RequiredRights
<1> QED BY <1>2 DEF Allows, CanMutate

\* A call that changes persistent state is carried out only on an object that
\* was granted with a right to change it (syscall.rs, required_rights).
THEOREM ReadOnlyStaysReadOnly == Spec => []ReadOnlyGrantsChangeNothing
<1>1. Init => ReadOnlyGrantsChangeNothing
  BY DEF Init, NoCall, ReadOnlyGrantsChangeNothing, CallIsMutating
<1>2. IInv /\ ReadOnlyGrantsChangeNothing /\ [Next]_vars => ReadOnlyGrantsChangeNothing'
  <2> SUFFICES ASSUME IInv, ReadOnlyGrantsChangeNothing, [Next]_vars
               PROVE  ReadOnlyGrantsChangeNothing'
    OBVIOUS
  <2>1. ASSUME NEW n \in Numbers, NEW call \in Calls, Call(n, call)
        PROVE  ReadOnlyGrantsChangeNothing'
    <3>1. /\ n \in Open /\ call \in HandleCalls /\ Allows(handles[n].rights, RequiredRights(call))
          /\ performed' = [call |-> call, object |-> handles[n].object] /\ granted' = granted
      BY <2>1 DEF Call, IsOpen
    <3>2. CallIsMutating(call) => CanMutate(handles[n].rights)
      BY <3>1, MutatingCallsNeedMutatingRights
    <3>3. handles[n].rights \subseteq granted[handles[n].object].rights
      BY <3>1 DEF IInv, RightsNeverWiden
    <3>4. CallIsMutating(call) => CanMutate(granted[handles[n].object].rights)
      BY <3>2, <3>3 DEF CanMutate
    <3> QED BY <3>1, <3>4 DEF ReadOnlyGrantsChangeNothing
  <2>2. CASE performed' = NoCall
    BY <2>2 DEF NoCall, ReadOnlyGrantsChangeNothing, CallIsMutating
  <2>3. CASE UNCHANGED vars
    BY <2>3 DEF vars, ReadOnlyGrantsChangeNothing
  <2>4. performed' = NoCall \/ UNCHANGED vars \/ \E n \in Numbers, call \in Calls : Call(n, call)
    BY DEF Next, GrantAtStart, Derive, Transfer, Close, Dispatch, NewerKernelAnswers, Silent, Return
  <2> QED BY <2>1, <2>2, <2>3, <2>4
<1> QED BY <1>1, <1>2, InitIInv, NextIInv, PTL DEF Spec

-----------------------------------------------------------------------------
(* The register. *)

\* What a call means is what its caller reads, for every width of the register
\* that holds the codes (error.rs, from_raw; lib.rs, RawReturn).
THEOREM AnswersAreRead == Spec => []AnswersSurviveTheRegister
<1>1. Init => AnswersSurviveTheRegister
  BY DEF Init, NoAnswer, AnswersSurviveTheRegister
<1>2. AnswersSurviveTheRegister /\ [Next]_vars => AnswersSurviveTheRegister'
  <2> SUFFICES ASSUME AnswersSurviveTheRegister, [Next]_vars PROVE AnswersSurviveTheRegister'
    OBVIOUS
  <2>1. ASSUME NEW result, Return(result), Decode(ToRegister(result)) = result
        PROVE  AnswersSurviveTheRegister'
    BY <2>1 DEF Return, AnswersSurviveTheRegister
  <2>2. CASE answer' = NoAnswer
    BY <2>2 DEF NoAnswer, AnswersSurviveTheRegister
  <2>3. ASSUME NEW n \in Numbers, NEW requested \in RightSets, Derive(n, requested)
        PROVE  AnswersSurviveTheRegister'
    <3>1. (\E k \in Numbers : Return(Ok(k))) \/ Return(Err("InsufficientRights"))
      BY <2>3 DEF Derive
    <3>2. \A k \in Numbers : Decode(ToRegister(Ok(k))) = Ok(k)
      BY SuccessSurvives, HandleTableAssumption
    <3>3. "InsufficientRights" \in ErrorSet BY DEF ErrorSet, Errors
    <3> QED BY <2>1, <3>1, <3>2, <3>3, ErrorSurvives
  <2>4. ASSUME NEW number \in SyscallArgs, Dispatch(number) PROVE AnswersSurviveTheRegister'
    <3>1. "NoSuchSyscall" \in ErrorSet /\ "NotImplemented" \in ErrorSet BY DEF ErrorSet, Errors
    <3>2. Return(Err("NoSuchSyscall")) \/ Return(Err("NotImplemented"))
      BY <2>4 DEF Dispatch, DispatchResult
    <3> QED BY <2>1, <3>1, <3>2, ErrorSurvives
  <2>5. ASSUME NEW code \in 1 .. CODE_MAX, NewerKernelAnswers(code)
        PROVE  AnswersSurviveTheRegister'
    BY <2>5, UnknownCodeDegrades DEF NewerKernelAnswers, AnswersSurviveTheRegister
  <2>6. CASE UNCHANGED vars
    BY <2>6 DEF vars, AnswersSurviveTheRegister
  <2>7. \/ answer' = NoAnswer \/ UNCHANGED vars
        \/ \E n \in Numbers, requested \in RightSets : Derive(n, requested)
        \/ \E number \in SyscallArgs : Dispatch(number)
        \/ \E code \in 1 .. CODE_MAX : NewerKernelAnswers(code)
    BY DEF Next, GrantAtStart, Transfer, Close, Call, Silent
  <2> QED BY <2>2, <2>3, <2>4, <2>5, <2>6, <2>7
<1> QED BY <1>1, <1>2, PTL DEF Spec

=============================================================================
