--------------------------- MODULE SecurityProofs ---------------------------
(***************************************************************************)
(* Theorems about the two parts of security/loko-security: what the        *)
(* permission record guarantees for every set of permissions, however      *)
(* often its methods are called and in whatever order, and what no         *)
(* sequence of offers, warnings, answers, retries and mode switches gets   *)
(* installed, for any number of attempts and packages.                     *)
(*                                                                         *)
(* The inductive invariant of the record says where a state may come from: *)
(* a refusal that no late answer has overtaken is recorded as Denied and   *)
(* leaves only late prompts open, a prompt that is not late belongs to the *)
(* present session, and an open prompt is for a declared permission.       *)
(***************************************************************************)
EXTENDS PermissionRecord, PackageTrust, TLAPS

-----------------------------------------------------------------------------
(* The permission record. *)

\* A refusal that was not overtaken stands in the record as Denied, and the
\* prompts that are still open for it were open before it.
RefusedIsDenied ==
  \A p \in refused \ overtaken : state[p] = "Denied" /\ late[p] = prompts[p]

\* The prompts an application left behind are late.
PromptsOfTheSession == ~running => \A p \in Permissions : late[p] = prompts[p]

\* The inductive invariant.
RecordIInv ==
  /\ TypeOK
  /\ RefusedIsDenied
  /\ PromptsOfTheSession
  /\ OneTimeGrantsEndWithSession
  /\ CovertAlwaysIsDeliberate
  /\ UndeclaredHoldsNoGrant
  /\ UndeclaredIsNeverAsked

-----------------------------------------------------------------------------
(* Facts about the helpers. *)

\* decide records a grant, and never Always for a permission that can be used
\* covertly.
LEMMA ClampedIsGrant ==
  ASSUME NEW p, NEW g \in Grants
  PROVE  /\ Clamped(p, g) \in Grants
         /\ IsCovertCapable(p) => Clamped(p, g) # "Always"
         /\ g = "Denied" => Clamped(p, g) = "Denied"
  BY DEF Clamped, Weaker, Rank, StrongestPromptGrant, Grants

\* end_session only turns Once into NotAsked.
LEMMA EndSessionFacts ==
  ASSUME TypeOK
  PROVE  /\ EndSession \in [Permissions -> States]
         /\ \A p \in Permissions :
              /\ EndSession[p] # "Once"
              /\ EndSession[p] # state[p] => state[p] = "Once" /\ EndSession[p] = "NotAsked"
  BY DEF TypeOK, EndSession, States, Grants

\* A refused or undecided permission is not allowed, a refused one not asked
\* for either.
LEMMA DeniedIsRefused ==
  ASSUME NEW p \in Permissions, state[p] = "Denied"
  PROVE  CheckPermission(p) \notin {"Allow", "Prompt"}
  BY DEF CheckPermission

\* A prompt is opened for a declared permission that is undecided.
LEMMA PromptMeansUndecided ==
  ASSUME TypeOK, NEW p \in Permissions, CheckPermission(p) = "Prompt"
  PROVE  p \in declared /\ state[p] = "NotAsked"
  BY DEF CheckPermission, TypeOK, States, Grants

-----------------------------------------------------------------------------
(* The invariant is inductive. *)

\* A new record satisfies it.
LEMMA InitEstablishes == RecordInit => RecordIInv
<1> SUFFICES ASSUME RecordInit PROVE RecordIInv
  OBVIOUS
<1>1. TypeOK
  <2>1. running \in BOOLEAN /\ foreground \in BOOLEAN
    BY DEF RecordInit
  <2>2. /\ prompts \in [Permissions -> 0 .. MaxPrompts] /\ late \in [Permissions -> 0 .. MaxPrompts]
        /\ \A p \in Permissions : late[p] <= prompts[p]
    BY PermissionRecordAssumption DEF RecordInit
  <2>3. state \in [Permissions -> States] /\ source \in [Permissions -> Writers]
    BY DEF RecordInit, States, Writers
  <2>4. QED
    BY <2>1, <2>2, <2>3 DEF RecordInit, TypeOK
<1>2. RefusedIsDenied /\ PromptsOfTheSession
  BY DEF RecordInit, RefusedIsDenied, PromptsOfTheSession
<1>3. OneTimeGrantsEndWithSession /\ CovertAlwaysIsDeliberate
  BY DEF RecordInit, OneTimeGrantsEndWithSession, CovertAlwaysIsDeliberate
<1>4. UndeclaredHoldsNoGrant /\ UndeclaredIsNeverAsked
  BY DEF RecordInit, UndeclaredHoldsNoGrant, UndeclaredIsNeverAsked
<1>5. QED
  BY <1>1, <1>2, <1>3, <1>4 DEF RecordIInv

\* Steps that leave the record, the open prompts and what is known about them
\* alone, and stop no application.
LEMMA QuietSteps ==
  ASSUME RecordIInv, TypeOK',
         UNCHANGED <<recordVars, prompts, historyVars>>,
         running => running'
  PROVE  RecordIInv'
<1> USE DEF RecordIInv, recordVars, historyVars
<1>1. RefusedIsDenied' /\ UndeclaredHoldsNoGrant' /\ UndeclaredIsNeverAsked'
  BY DEF RefusedIsDenied, UndeclaredHoldsNoGrant, UndeclaredIsNeverAsked
<1>2. PromptsOfTheSession'
  BY DEF PromptsOfTheSession
<1>3. OneTimeGrantsEndWithSession'
  BY DEF OneTimeGrantsEndWithSession
<1>4. CovertAlwaysIsDeliberate'
  BY DEF CovertAlwaysIsDeliberate
<1>5. QED
  BY <1>1, <1>2, <1>3, <1>4

\* Exit: one-time grants go and open prompts become late, everything else
\* stays.
LEMMA ExitPreserves ==
  ASSUME RecordIInv, Exit
  PROVE  RecordIInv'
<1> USE DEF RecordIInv
<1>1. /\ state' = EndSession
      /\ EndSession \in [Permissions -> States]
      /\ \A p \in Permissions :
           /\ EndSession[p] # "Once"
           /\ EndSession[p] # state[p] => state[p] = "Once" /\ EndSession[p] = "NotAsked"
  BY EndSessionFacts DEF Exit
<1>2. /\ source' \in [Permissions -> Writers]
      /\ \A p \in Permissions : EndSession[p] = state[p] => source'[p] = source[p]
  BY DEF Exit, TypeOK, Writers
<1>3. TypeOK'
  <2>1. running' \in BOOLEAN /\ foreground' \in BOOLEAN
    BY DEF Exit
  <2>2. UNCHANGED <<declared, enabled, prompts, refused, overtaken>>
    BY DEF Exit
  <2>3. /\ late' \in [Permissions -> 0 .. MaxPrompts]
        /\ \A p \in Permissions : late'[p] <= prompts'[p]
    BY PermissionRecordAssumption DEF Exit, TypeOK
  <2>4. QED
    BY <1>1, <1>2, <2>1, <2>2, <2>3 DEF TypeOK
<1>4. RefusedIsDenied'
  BY <1>1 DEF Exit, RefusedIsDenied, TypeOK
<1>5. PromptsOfTheSession'
  BY DEF Exit, PromptsOfTheSession
<1>6. OneTimeGrantsEndWithSession'
  BY <1>1 DEF OneTimeGrantsEndWithSession
<1>7. CovertAlwaysIsDeliberate'
  BY <1>1, <1>2 DEF CovertAlwaysIsDeliberate
<1>8. UndeclaredHoldsNoGrant' /\ UndeclaredIsNeverAsked'
  BY <1>1 DEF Exit, UndeclaredHoldsNoGrant, UndeclaredIsNeverAsked
<1>9. QED
  BY <1>3, <1>4, <1>5, <1>6, <1>7, <1>8

\* decide, set_from_settings and revoke write one state.  s is a decision; it
\* is not Always for a covert permission unless Settings says so, nor Once for
\* an application that does not run unless Settings or a late answer does; an
\* undeclared permission can only be refused, and what leaves a refusal
\* standing is a refusal.
LEMMA WritePreserves ==
  ASSUME RecordIInv, NEW q \in Permissions, NEW s \in Grants, NEW src \in Writers,
         Write(q, s, src),
         prompts' \in [Permissions -> 0 .. MaxPrompts],
         late' \in [Permissions -> 0 .. MaxPrompts],
         late'[q] <= prompts'[q],
         refused' \subseteq Permissions, overtaken' \subseteq refused',
         UNCHANGED <<declared, sessionVars>>,
         \A p \in Permissions : p # q => prompts'[p] = prompts[p] /\ late'[p] = late[p],
         q \notin declared => prompts'[q] = 0,
         ~running => late'[q] = prompts'[q],
         \A p \in refused' \ overtaken' : p # q => p \in refused \ overtaken,
         q \in refused' \ overtaken' => s = "Denied" /\ late'[q] = prompts'[q],
         IsCovertCapable(q) /\ s = "Always" => src = "settings",
         ~running /\ s = "Once" => src \in {"settings", "late answer"},
         q \notin declared => s = "Denied"
  PROVE  RecordIInv'
<1> USE DEF RecordIInv
<1>1. /\ state' \in [Permissions -> States] /\ source' \in [Permissions -> Writers]
      /\ state'[q] = s /\ source'[q] = src
      /\ \A p \in Permissions : p # q => state'[p] = state[p] /\ source'[p] = source[p]
  BY DEF Write, TypeOK, States
<1>2. UNCHANGED <<declared, running, foreground, enabled>>
  BY DEF sessionVars
<1>3. TypeOK'
  <2>1. \A p \in Permissions : late'[p] <= prompts'[p]
    BY DEF TypeOK
  <2>2. QED
    BY <1>1, <1>2, <2>1 DEF TypeOK
<1>4. RefusedIsDenied'
  BY <1>1 DEF RefusedIsDenied, TypeOK
<1>5. PromptsOfTheSession'
  BY <1>2 DEF PromptsOfTheSession
<1>6. OneTimeGrantsEndWithSession'
  BY <1>1, <1>2 DEF OneTimeGrantsEndWithSession
<1>7. CovertAlwaysIsDeliberate'
  BY <1>1 DEF CovertAlwaysIsDeliberate
<1>8. UndeclaredHoldsNoGrant' /\ UndeclaredIsNeverAsked'
  BY <1>1, <1>2 DEF UndeclaredHoldsNoGrant, UndeclaredIsNeverAsked
<1>9. QED
  BY <1>3, <1>4, <1>5, <1>6, <1>7, <1>8

\* check answers Prompt.
LEMMA UsePreserves ==
  ASSUME RecordIInv, NEW q \in Permissions, Use(q)
  PROVE  RecordIInv'
<1> USE DEF RecordIInv
<1>1. UNCHANGED <<declared, state, running, foreground, enabled, late, refused, overtaken, source>>
  BY DEF Use, recordVars, sessionVars, historyVars
<1>2. prompts[q] \in Nat /\ prompts[q] + 1 \in 0 .. MaxPrompts
  BY PermissionRecordAssumption DEF Use, TypeOK
<1>3. /\ prompts' \in [Permissions -> 0 .. MaxPrompts]
      /\ prompts'[q] = prompts[q] + 1
      /\ \A p \in Permissions : p # q => prompts'[p] = prompts[p]
  BY <1>2 DEF Use, TypeOK
<1>4. TypeOK'
  <2>1. \A p \in Permissions : late[p] \in 0 .. MaxPrompts /\ late[p] <= prompts[p]
    BY DEF TypeOK
  <2>2. \A p \in Permissions : late'[p] <= prompts'[p]
    BY <1>1, <1>2, <1>3, <2>1, PermissionRecordAssumption
  <2>3. QED
    BY <1>1, <1>3, <2>2 DEF TypeOK
<1>5. running /\ q \in declared /\ state[q] = "NotAsked"
  BY PromptMeansUndecided DEF Use
<1>6. RefusedIsDenied' /\ PromptsOfTheSession'
  BY <1>1, <1>3, <1>5 DEF RefusedIsDenied, PromptsOfTheSession, TypeOK
<1>7. UndeclaredIsNeverAsked'
  BY <1>1, <1>3, <1>5 DEF UndeclaredIsNeverAsked
<1>8. OneTimeGrantsEndWithSession' /\ CovertAlwaysIsDeliberate' /\ UndeclaredHoldsNoGrant'
  BY <1>1 DEF OneTimeGrantsEndWithSession, CovertAlwaysIsDeliberate, UndeclaredHoldsNoGrant
<1>9. QED
  BY <1>4, <1>6, <1>7, <1>8

\* decide, on the answer to an open prompt, late or not: one that is not late
\* belongs to the session and overtakes no refusal.
LEMMA AnswerPreserves ==
  ASSUME RecordIInv, NEW q \in Permissions, NEW g \in Grants, NEW isLate \in BOOLEAN,
         Answer(q, g, isLate)
  PROVE  RecordIInv'
<1> USE DEF RecordIInv
<1> DEFINE src == IF isLate THEN "late answer" ELSE "prompt"
<1>1. /\ prompts[q] > 0 /\ prompts[q] \in 0 .. MaxPrompts /\ late[q] \in 0 .. MaxPrompts
      /\ late[q] <= prompts[q] /\ MaxPrompts \in Nat
  BY PermissionRecordAssumption DEF Answer, TypeOK
<1>l. IF isLate THEN late[q] > 0 ELSE late[q] < prompts[q]
  BY DEF Answer
<1>2. q \in declared
  BY <1>1 DEF UndeclaredIsNeverAsked
<1>3. /\ prompts' = [prompts EXCEPT ![q] = @ - 1]
      /\ Write(q, Clamped(q, g), src)
      /\ UNCHANGED <<declared, sessionVars>>
  BY <1>2 DEF Answer
<1>4. /\ prompts' \in [Permissions -> 0 .. MaxPrompts]
      /\ prompts'[q] = prompts[q] - 1
      /\ \A p \in Permissions : p # q => prompts'[p] = prompts[p]
  <2>1. prompts' = [prompts EXCEPT ![q] = @ - 1] /\ prompts \in [Permissions -> 0 .. MaxPrompts]
    BY <1>3 DEF TypeOK
  <2>2. prompts[q] - 1 \in 0 .. MaxPrompts
    BY <1>1
  <2> HIDE DEF RecordIInv
  <2>3. QED
    BY <2>1, <2>2
<1>5. /\ Clamped(q, g) \in Grants
      /\ IsCovertCapable(q) => Clamped(q, g) # "Always"
      /\ g = "Denied" => Clamped(q, g) = "Denied"
  BY ClampedIsGrant
<1>6. src \in Writers
  BY DEF Writers
<1>7. ~isLate => running /\ q \notin refused \ overtaken
  BY <1>1, <1>l DEF PromptsOfTheSession, RefusedIsDenied
<1>8. ~running => src = "late answer"
  BY <1>7
<1>9. CASE g = "Denied"
  <2>1. /\ refused' = refused \cup {q} /\ overtaken' = overtaken \ {q}
        /\ late' = [late EXCEPT ![q] = prompts[q] - 1]
    BY <1>2, <1>9 DEF Answer, SayNo
  <2>2. /\ late' \in [Permissions -> 0 .. MaxPrompts] /\ late'[q] = prompts'[q]
        /\ \A p \in Permissions : p # q => late'[p] = late[p]
    BY <1>1, <1>4, <2>1 DEF TypeOK
  <2>3. /\ refused' \subseteq Permissions /\ overtaken' \subseteq refused'
        /\ \A p \in refused' \ overtaken' : p # q => p \in refused \ overtaken
    BY <2>1 DEF TypeOK
  <2>4. late'[q] <= prompts'[q]
    BY <1>1, <1>l, <1>4, <2>2
  <2> HIDE DEF RecordIInv, src
  <2>5. QED
    BY <1>2, <1>3, <1>4, <1>5, <1>6, <1>8, <1>9, <2>2, <2>3, <2>4, WritePreserves
<1>10. CASE g # "Denied"
  <2>1. /\ late' = [late EXCEPT ![q] = IF isLate THEN @ - 1 ELSE @]
        /\ overtaken' = IF isLate THEN overtaken \cup ({q} \cap refused) ELSE overtaken
        /\ refused' = refused
    BY <1>2, <1>10 DEF Answer
  <2>2. /\ late' \in [Permissions -> 0 .. MaxPrompts]
        /\ late'[q] = IF isLate THEN late[q] - 1 ELSE late[q]
        /\ \A p \in Permissions : p # q => late'[p] = late[p]
    BY <1>1, <1>l, <2>1 DEF TypeOK
  <2>3. late'[q] <= prompts'[q]
    BY <1>1, <1>l, <1>4, <2>2
  <2>4. ~running => late'[q] = prompts'[q]
    <3>1. ~running => isLate /\ late[q] = prompts[q]
      BY <1>7 DEF PromptsOfTheSession
    <3>2. QED
      BY <1>1, <1>4, <2>2, <3>1
  <2>5. /\ refused' \subseteq Permissions /\ overtaken' \subseteq refused'
        /\ \A p \in refused' \ overtaken' : p # q => p \in refused \ overtaken
        /\ q \notin refused' \ overtaken'
    BY <1>7, <2>1 DEF TypeOK
  <2> HIDE DEF RecordIInv, src
  <2>6. QED
    BY <1>2, <1>3, <1>4, <1>5, <1>6, <1>8, <2>2, <2>3, <2>4, <2>5, WritePreserves
<1>11. QED
  BY <1>9, <1>10

\* set_from_settings and revoke, which leave the open prompts open.
LEMMA DeliberatePreserves ==
  ASSUME RecordIInv, NEW q \in Permissions, NEW g \in Grants,
         SetFromSettings(q, g) \/ Revoke(q)
  PROVE  RecordIInv'
<1>1. UNCHANGED <<declared, sessionVars>> /\ prompts' = prompts
  BY DEF SetFromSettings, Revoke
<1>2. /\ prompts' \in [Permissions -> 0 .. MaxPrompts]
      /\ \A p \in Permissions : p # q => prompts'[p] = prompts[p]
      /\ q \notin declared => prompts'[q] = 0
      /\ prompts[q] \in 0 .. MaxPrompts
      /\ late \in [Permissions -> 0 .. MaxPrompts] /\ late[q] <= prompts[q]
      /\ ~running => late[q] = prompts[q]
  BY <1>1 DEF RecordIInv, TypeOK, UndeclaredIsNeverAsked, PromptsOfTheSession
<1> DEFINE SaidNo == /\ late' = [late EXCEPT ![q] = prompts[q]]
                      /\ refused' = refused \cup {q} /\ overtaken' = overtaken \ {q}
           RefusalIsRecorded ==
             /\ late' \in [Permissions -> 0 .. MaxPrompts] /\ late'[q] = prompts'[q]
             /\ late'[q] <= prompts'[q]
             /\ \A p \in Permissions : p # q => late'[p] = late[p]
             /\ refused' \subseteq Permissions /\ overtaken' \subseteq refused'
             /\ \A p \in refused' \ overtaken' : p # q => p \in refused \ overtaken
<1>3. SaidNo => RefusalIsRecorded
  <2>1. HAVE SaidNo
  <2>2. late' \in [Permissions -> 0 .. MaxPrompts] /\ late'[q] = prompts[q]
        /\ \A p \in Permissions : p # q => late'[p] = late[p]
    BY <1>2, <2>1
  <2>3. prompts[q] <= prompts[q]
    BY <1>2, PermissionRecordAssumption
  <2>4. refused' \subseteq Permissions /\ overtaken' \subseteq refused'
        /\ \A p \in refused' \ overtaken' : p # q => p \in refused \ overtaken
    BY <2>1 DEF RecordIInv, TypeOK
  <2>5. QED
    BY <1>1, <2>2, <2>3, <2>4
<1>4. CASE SetFromSettings(q, g)
  <2>1. Write(q, g, "settings") /\ q \in declared /\ "settings" \in Writers
    BY <1>4 DEF SetFromSettings, Writers
  <2>2. CASE g = "Denied"
    <3>1. SaidNo
      BY <1>4, <2>2 DEF SetFromSettings, SayNo
    <3>2. QED
      BY <1>1, <1>2, <1>3, <2>1, <2>2, <3>1, WritePreserves
  <2>3. CASE g # "Denied"
    <3>1. /\ refused' = refused \ {q} /\ overtaken' = overtaken \ {q} /\ late' = late
      BY <1>4, <2>3 DEF SetFromSettings
    <3>2. /\ refused' \subseteq Permissions /\ overtaken' \subseteq refused'
          /\ \A p \in refused' \ overtaken' : p # q => p \in refused \ overtaken
          /\ q \notin refused' \ overtaken'
      BY <3>1 DEF RecordIInv, TypeOK
    <3>3. QED
      BY <1>1, <1>2, <2>1, <3>1, <3>2, WritePreserves
  <2>4. QED
    BY <2>2, <2>3
<1>5. CASE Revoke(q)
  <2>1. /\ Write(q, "Denied", "revoke") /\ SaidNo
        /\ "revoke" \in Writers /\ "Denied" \in Grants
    BY <1>5 DEF Revoke, SayNo, Writers, Grants
  <2>2. QED
    BY <1>1, <1>2, <1>3, <2>1, WritePreserves
<1>6. QED
  BY <1>4, <1>5

\* Every operation of the record and every step of its users preserves the
\* invariant.
LEMMA NextPreserves == RecordIInv /\ [RecordNext]_permissionVars => RecordIInv'
<1> SUFFICES ASSUME RecordIInv, [RecordNext]_permissionVars PROVE RecordIInv'
  OBVIOUS
<1> USE DEF recordVars, historyVars
<1>1. CASE Launch
  <2>1. running' \in BOOLEAN /\ foreground' \in BOOLEAN
    BY <1>1 DEF Launch
  <2>2. UNCHANGED <<declared, state, enabled, prompts, late, refused, overtaken, source>>
    BY <1>1 DEF Launch
  <2>3. TypeOK'
    BY <2>1, <2>2 DEF RecordIInv, TypeOK
  <2>4. QED
    BY <1>1, <2>2, <2>3, QuietSteps DEF Launch
<1>2. CASE SwitchFocus
  <2>1. foreground' \in BOOLEAN
    BY <1>2 DEF SwitchFocus, RecordIInv, TypeOK
  <2>2. UNCHANGED <<declared, state, running, enabled, prompts, late, refused, overtaken, source>>
    BY <1>2 DEF SwitchFocus
  <2>3. TypeOK'
    BY <2>1, <2>2 DEF RecordIInv, TypeOK
  <2>4. QED
    BY <2>2, <2>3, QuietSteps
<1>3. ASSUME NEW q \in Permissions, SwitchSystemWide(q) PROVE RecordIInv'
  <2>1. enabled' \subseteq Permissions
    BY <1>3 DEF SwitchSystemWide, RecordIInv, TypeOK
  <2>2. UNCHANGED <<declared, state, running, foreground, prompts, late, refused, overtaken, source>>
    BY <1>3 DEF SwitchSystemWide
  <2>3. TypeOK'
    BY <2>1, <2>2 DEF RecordIInv, TypeOK
  <2>4. QED
    BY <2>2, <2>3, QuietSteps
<1>4. CASE UNCHANGED permissionVars
  <2>1. UNCHANGED <<declared, state, running, foreground, enabled, prompts, late, refused,
                    overtaken, source>>
    BY <1>4 DEF permissionVars
  <2>2. TypeOK'
    BY <2>1 DEF RecordIInv, TypeOK
  <2>3. QED
    BY <2>1, <2>2, QuietSteps
<1>5. QED
  <2>1. "Denied" \in Grants
    BY DEF Grants
  <2>2. QED
    BY <1>1, <1>2, <1>3, <1>4, <2>1, ExitPreserves, UsePreserves, AnswerPreserves,
       DeliberatePreserves DEF RecordNext

\* The record's states always satisfy the inductive invariant (new, decide,
\* set_from_settings, revoke, end_session, check).
THEOREM Invariance == RecordSpec => []RecordIInv
  BY InitEstablishes, NextPreserves, PTL DEF RecordSpec

-----------------------------------------------------------------------------
(* What a user of the record can rely on. *)

\* A refusal, by revoking, in Settings or to a prompt, takes effect at once and
\* stands until Settings says otherwise or a prompt that was already open when
\* the user refused is answered with a grant (revoke, decide, end_session).
THEOREM RefusalsStand == RecordSpec => []RefusalYieldsOnlyToLateAnswers
<1>1. RecordIInv => RefusalYieldsOnlyToLateAnswers
  BY DeniedIsRefused DEF RecordIInv, TypeOK, RefusedIsDenied, RefusalYieldsOnlyToLateAnswers
<1>2. QED
  BY <1>1, Invariance, PTL

\* Always for a covert permission was chosen in Settings, however prompts are
\* answered and whenever (decide, set_from_settings).
THEOREM CovertGrantsAreDeliberate == RecordSpec => []CovertAlwaysIsDeliberate
<1>1. RecordIInv => CovertAlwaysIsDeliberate
  BY DEF RecordIInv
<1>2. QED
  BY <1>1, Invariance, PTL

\* A one-time grant outlives the session only by a choice in Settings or by
\* the answer to a prompt that was open before the application exited or the
\* user refused (end_session, decide).
THEOREM OneTimeGrantsEnd == RecordSpec => []OneTimeGrantsEndWithSession
<1>1. RecordIInv => OneTimeGrantsEndWithSession
  BY DEF RecordIInv
<1>2. QED
  BY <1>1, Invariance, PTL

\* A permission the manifest does not declare never holds a grant and never
\* has a prompt open, late or not (declares, in decide, set_from_settings
\* and check).
THEOREM UndeclaredStaysOut == RecordSpec => [](UndeclaredHoldsNoGrant /\ UndeclaredIsNeverAsked)
<1>1. RecordIInv => UndeclaredHoldsNoGrant /\ UndeclaredIsNeverAsked
  BY DEF RecordIInv
<1>2. QED
  BY <1>1, Invariance, PTL

-----------------------------------------------------------------------------
(* Package trust. *)

\* An error is read as it was written: its code is its place in ALL, and the
\* negation of a code is never isize::MIN (error.rs, code and from_raw).
LEMMA ErrorSurvives ==
  ASSUME NEW e \in ErrorSet
  PROVE  Decode(ToRegister(Err(e))) = Err(e)
<1>1. Len(Errors) = 18 BY DEF Errors
<1>2. Code(e) \in 1 .. 18 /\ Errors[Code(e)] = e
  <2>1. \E i \in 1 .. Len(Errors) : Errors[i] = e BY DEF ErrorSet
  <2> QED BY <1>1, <2>1 DEF Code
<1> HIDE DEF Code, Errors
<1>3. ISIZE_MAX \in Nat /\ 18 <= ISIZE_MAX BY <1>1, LokoAbiAssumption
<1> DEFINE raw == -Code(e)
<1>4. raw \in Int /\ raw < 0 /\ -raw = Code(e) /\ raw # ISIZE_MIN
  BY <1>2, <1>3 DEF ISIZE_MIN
<1>5. ToRegister(Err(e)) = raw BY DEF ToRegister, Err, ToRaw
<1> HIDE DEF raw
<1>6. FromRaw(raw) = Err(e) BY <1>1, <1>2, <1>4 DEF FromRaw
<1>7. Decode(raw) = FromRaw(raw) BY <1>4 DEF Decode
<1> QED BY <1>5, <1>6, <1>7

Refusals == {"IntegrityFailure", "ForgedSystemComponent", "SystemComponentFromWrongSource",
             "Downgrade", "AlreadyInstalled"}

\* An attempt is idle, or about a package that was offered; a refusal is in the
\* register as its error, and the dialog is about that error.
AttemptOK(t) ==
  \/ t = Idle
  \/ \E package \in Packages : t = Warned(package)
  \/ \E package \in Packages, r \in Refusals :
       \/ t = Refused(package, r, ToRegister(Err(AsError(r))))
       \/ t = Dialog(package, r, AsError(r), IsSecurityRelevant(AsError(r)))

\* The inductive invariant.
IInv ==
  /\ installed \in Packages \cup {None}
  /\ attempt = [a \in Attempts |-> attempt[a]]
  /\ \A a \in Attempts : AttemptOK(attempt[a])
  /\ AbsoluteRulesHold
  /\ SilentInstallsAreVouchedFor

-----------------------------------------------------------------------------
(* The decision. *)

\* A decision is one of the three, and a refusal has one of five reasons.
LEMMA DecisionKinds ==
  ASSUME NEW package, NEW replaced, NEW developer
  PROVE  LET decision == EvaluateInstall(package, replaced, developer) IN
         /\ decision.kind \in {"Install", "WarnThenInstall", "Refuse"}
         /\ decision.kind = "Refuse" => decision.why \in Refusals
BY DEF EvaluateInstall, Install, WarnThenInstall, Refuse, Refusals

\* What is not refused is intact, not passed off as LokoOS, newer than what it
\* replaces, and signed unless the machine is in Developer Mode.
LEMMA NotRefused ==
  ASSUME NEW package \in PackageType, NEW replaced, NEW developer,
         EvaluateInstall(package, replaced, developer).kind # "Refuse"
  PROVE  /\ package.signature # "Invalid"
         /\ ~Forged(package) /\ ~WrongSource(package)
         /\ replaced # None => /\ ~Older(package.version, replaced.version)
                               /\ package.version # replaced.version
         /\ ~UnsignedRefused(package, developer)
BY DEF EvaluateInstall, Install, WarnThenInstall, Refuse

\* What is installed without a warning is signed by somebody known and comes
\* from the Store or from Loko Update.
LEMMA InstalledSilently ==
  ASSUME NEW package \in PackageType, NEW replaced, NEW developer,
         EvaluateInstall(package, replaced, developer).kind = "Install"
  PROVE  ProvesIdentity(package.signature) /\ package.source \in {"LokoStore", "SystemUpdate"}
<1>1. ProvesIdentity(package.signature) /\ ~FromOutside(package)
  BY DEF EvaluateInstall, Install, WarnThenInstall, Refuse
<1>2. package.source \in Sources BY DEF PackageType
<1> QED BY <1>1, <1>2 DEF FromOutside, Sources

\* Of two versions that differ, one is newer.
LEMMA VersionsAreOrdered ==
  ASSUME NEW v \in Versions, NEW w \in Versions, ~Older(w, v), w # v
  PROVE  Newer(w, v)
<1>1. /\ v[1] \in Nat /\ v[2] \in Nat /\ v[3] \in Nat
      /\ w[1] \in Nat /\ w[2] \in Nat /\ w[3] \in Nat
      /\ v = <<v[1], v[2], v[3]>> /\ w = <<w[1], w[2], w[3]>>
  BY DEF Versions
<1>2. \/ v[1] < w[1]
      \/ v[1] = w[1] /\ v[2] < w[2]
      \/ v[1] = w[1] /\ v[2] = w[2] /\ v[3] < w[3]
  BY <1>1 DEF Older
<1>3. CASE v[1] < w[1]
  <2>1. \A j \in 1 .. (1 - 1) : v[j] = w[j] BY SMT
  <2> QED BY <1>3, <2>1 DEF Newer
<1>4. CASE v[1] = w[1] /\ v[2] < w[2]
  <2>1. \A j \in 1 .. (2 - 1) : v[j] = w[j] BY <1>4, SMT
  <2> QED BY <1>4, <2>1 DEF Newer
<1>5. CASE v[1] = w[1] /\ v[2] = w[2] /\ v[3] < w[3]
  <2>1. \A j \in 1 .. (3 - 1) : v[j] = w[j]
    <3>1. \A j \in 1 .. (3 - 1) : j = 1 \/ j = 2 BY SMT
    <3> QED BY <1>5, <3>1
  <2> QED BY <1>5, <2>1 DEF Newer
<1> QED BY <1>2, <1>3, <1>4, <1>5

\* The errors refusals are reported as are errors of the ABI.
LEMMA RefusalsAreErrors ==
  ASSUME NEW r \in Refusals
  PROVE  AsError(r) \in ErrorSet
<1>1. AsError(r) \in {"IntegrityFailure", "PermissionDenied", "AlreadyExists"}
  BY DEF AsError, Refusals
<1>2. /\ Errors[15] = "IntegrityFailure" /\ Errors[4] = "PermissionDenied"
      /\ Errors[6] = "AlreadyExists" /\ Len(Errors) = 18
  BY DEF Errors
<1> HIDE DEF Errors
<1>3. {Errors[15], Errors[4], Errors[6]} \subseteq ErrorSet BY <1>2 DEF ErrorSet
<1> QED BY <1>1, <1>2, <1>3

-----------------------------------------------------------------------------
(* The steps. *)

\* An attempt that is under way is about an offered package; a refused one
\* decodes to its own error.
LEMMA UnderWay ==
  ASSUME IInv, NEW a \in Attempts
  PROVE  /\ attempt[a].phase \in {"warned", "refused", "dialog"} => attempt[a].package \in Packages
         /\ attempt[a].phase = "refused" =>
              /\ attempt[a].refusal \in Refusals
              /\ Decode(attempt[a].raw).value = AsError(attempt[a].refusal)
         /\ attempt[a].phase = "dialog" =>
              /\ attempt[a].refusal \in Refusals
              /\ attempt[a].error = AsError(attempt[a].refusal)
              /\ attempt[a].logged = IsSecurityRelevant(AsError(attempt[a].refusal))
<1>1. AttemptOK(attempt[a]) BY DEF IInv
<1>2. CASE attempt[a] = Idle BY <1>2 DEF Idle
<1>3. CASE \E package \in Packages : attempt[a] = Warned(package) BY <1>3 DEF Warned
<1>4. ASSUME NEW package \in Packages, NEW r \in Refusals,
             attempt[a] = Refused(package, r, ToRegister(Err(AsError(r))))
      PROVE  /\ attempt[a].phase = "refused" /\ attempt[a].package \in Packages
             /\ attempt[a].refusal \in Refusals
             /\ Decode(attempt[a].raw).value = AsError(attempt[a].refusal)
  <2>1. /\ attempt[a].phase = "refused" /\ attempt[a].package = package
        /\ attempt[a].refusal = r /\ attempt[a].raw = ToRegister(Err(AsError(r)))
    BY <1>4 DEF Refused
  <2>2. Decode(ToRegister(Err(AsError(r)))) = Err(AsError(r)) BY RefusalsAreErrors, ErrorSurvives
  <2> QED BY <2>1, <2>2 DEF Err
<1>5. ASSUME NEW package \in Packages, NEW r \in Refusals,
             attempt[a] = Dialog(package, r, AsError(r), IsSecurityRelevant(AsError(r)))
      PROVE  /\ attempt[a].phase = "dialog" /\ attempt[a].package \in Packages
             /\ attempt[a].refusal \in Refusals
             /\ attempt[a].error = AsError(attempt[a].refusal)
             /\ attempt[a].logged = IsSecurityRelevant(AsError(attempt[a].refusal))
  BY <1>5 DEF Dialog
<1> QED BY <1>1, <1>2, <1>3, <1>4, <1>5 DEF AttemptOK

\* What one attempt becomes; the others stay as they are.
LEMMA AttemptStep ==
  ASSUME IInv, NEW a \in Attempts, NEW t, AttemptOK(t), attempt' = [attempt EXCEPT ![a] = t]
  PROVE  attempt' = [b \in Attempts |-> attempt'[b]] /\ \A b \in Attempts : AttemptOK(attempt'[b])
BY DEF IInv

\* What a decision leads to.
LEMMA ProceedStep ==
  ASSUME IInv, NEW a \in Attempts, NEW package \in Packages, NEW agreed \in BOOLEAN,
         Proceed(a, package, agreed)
  PROVE  /\ attempt' = [b \in Attempts |-> attempt'[b]] /\ \A b \in Attempts : AttemptOK(attempt'[b])
         /\ \/ UNCHANGED <<installed, acknowledged>>
            \/ /\ installed' = package /\ acknowledged' = agreed
               /\ LET kind == EvaluateInstall(package, installed, developerMode).kind IN
                  kind = "Install" \/ (kind = "WarnThenInstall" /\ agreed)
<1> DEFINE decision == EvaluateInstall(package, installed, developerMode)
<1>1. CASE decision.kind = "Refuse"
  <2> DEFINE t == Refused(package, decision.why, ToRegister(Err(AsError(decision.why))))
  <2>1. decision.why \in Refusals BY <1>1, DecisionKinds
  <2>2. AttemptOK(t) BY <2>1 DEF AttemptOK
  <2>3. attempt' = [attempt EXCEPT ![a] = t] /\ UNCHANGED <<installed, acknowledged>>
    BY <1>1 DEF Proceed
  <2> QED BY <2>2, <2>3, AttemptStep
<1>2. CASE decision.kind = "WarnThenInstall" /\ ~agreed
  <2>1. AttemptOK(Warned(package)) BY DEF AttemptOK
  <2>2. attempt' = [attempt EXCEPT ![a] = Warned(package)] /\ UNCHANGED <<installed, acknowledged>>
    BY <1>2 DEF Proceed
  <2> QED BY <2>1, <2>2, AttemptStep
<1>3. CASE decision.kind = "Install" \/ (decision.kind = "WarnThenInstall" /\ agreed)
  <2>1. AttemptOK(Idle) BY DEF AttemptOK
  <2>2. /\ attempt' = [attempt EXCEPT ![a] = Idle]
        /\ installed' = package /\ acknowledged' = agreed
    BY <1>3 DEF Proceed
  <2> QED BY <1>3, <2>1, <2>2, AttemptStep
<1> QED BY <1>1, <1>2, <1>3, DecisionKinds

\* Every step decides about an offered package, or installs nothing.
LEMMA StepKinds ==
  ASSUME IInv, [Next]_vars
  PROVE  /\ attempt' = [b \in Attempts |-> attempt'[b]] /\ \A b \in Attempts : AttemptOK(attempt'[b])
         /\ \/ UNCHANGED <<installed, acknowledged>>
            \/ installed' = None
            \/ \E package \in Packages :
                 /\ installed' = package
                 /\ LET kind == EvaluateInstall(package, installed, developerMode).kind IN
                    kind = "Install" \/ (kind = "WarnThenInstall" /\ acknowledged')
<1> DEFINE Goal == /\ attempt' = [b \in Attempts |-> attempt'[b]]
                   /\ \A b \in Attempts : AttemptOK(attempt'[b])
                   /\ \/ UNCHANGED <<installed, acknowledged>>
                      \/ installed' = None
                      \/ \E package \in Packages :
                           /\ installed' = package
                           /\ LET kind == EvaluateInstall(package, installed, developerMode).kind IN
                              kind = "Install" \/ (kind = "WarnThenInstall" /\ acknowledged')
<1>0. SUFFICES Goal OBVIOUS
<1>1. ASSUME NEW a \in Attempts, NEW package \in Packages, NEW agreed \in BOOLEAN,
             Proceed(a, package, agreed)
      PROVE  Goal
  <2> HIDE DEF Proceed
  <2> QED BY <1>1, ProceedStep
<1>2. ASSUME NEW a \in Attempts, NEW t, AttemptOK(t), attempt' = [attempt EXCEPT ![a] = t],
             UNCHANGED <<installed, acknowledged>>
      PROVE  Goal
  BY <1>2, AttemptStep
<1>3. AttemptOK(Idle) BY DEF AttemptOK
<1>4. CASE attempt' = attempt /\ (installed' = None \/ UNCHANGED <<installed, acknowledged>>)
  BY <1>4 DEF IInv
<1> HIDE DEF Goal
<1>5. ASSUME NEW a \in Attempts, NEW package \in Packages, Offer(a, package) PROVE Goal
  BY <1>5, <1>1 DEF Offer
<1>6. ASSUME NEW a \in Attempts, Acknowledge(a) PROVE Goal
  <2>1. attempt[a].package \in Packages BY <1>6, UnderWay DEF Acknowledge
  <2> QED BY <1>6, <1>1, <2>1 DEF Acknowledge
<1>7. ASSUME NEW a \in Attempts, Decline(a) PROVE Goal
  BY <1>7, <1>2, <1>3 DEF Decline
<1>8. ASSUME NEW a \in Attempts, Report(a) PROVE Goal
  <2> DEFINE package == attempt[a].package
             refusal == attempt[a].refusal
  <2>1. /\ package \in Packages /\ refusal \in Refusals
        /\ Decode(attempt[a].raw).value = AsError(refusal)
    BY <1>8, UnderWay DEF Report
  <2>2. \/ Proceed(a, package, FALSE)
        \/ /\ attempt' = [attempt EXCEPT
                 ![a] = Dialog(package, refusal, AsError(refusal), IsSecurityRelevant(AsError(refusal)))]
           /\ UNCHANGED <<installed, acknowledged>>
    BY <1>8, <2>1 DEF Report
  <2>3. AttemptOK(Dialog(package, refusal, AsError(refusal), IsSecurityRelevant(AsError(refusal))))
    BY <2>1 DEF AttemptOK
  <2> QED BY <1>1, <1>2, <2>1, <2>2, <2>3
<1>9. ASSUME NEW a \in Attempts, NEW button \in UserActions, Press(a, button) PROVE Goal
  <2>1. attempt[a].package \in Packages BY <1>9, UnderWay DEF Press
  <2>2. \/ Proceed(a, attempt[a].package, TRUE)
        \/ attempt' = [attempt EXCEPT ![a] = Idle] /\ UNCHANGED <<installed, acknowledged>>
    BY <1>9 DEF Press
  <2> QED BY <1>1, <1>2, <1>3, <2>1, <2>2
<1>10. CASE Uninstall BY <1>10, <1>4 DEF Uninstall
<1>11. CASE SwitchDeveloperMode BY <1>11, <1>4 DEF SwitchDeveloperMode
<1>12. CASE UNCHANGED vars BY <1>12, <1>4 DEF vars
<1> QED BY <1>5, <1>6, <1>7, <1>8, <1>9, <1>10, <1>11, <1>12 DEF Next

\* It holds before the first attempt.
LEMMA InitIInv == Init => IInv
BY DEF Init, IInv, AttemptOK, AbsoluteRulesHold, SilentInstallsAreVouchedFor

\* Every step keeps it.
LEMMA NextIInv == IInv /\ [Next]_vars => IInv'
<1> SUFFICES ASSUME IInv, [Next]_vars PROVE IInv' OBVIOUS
<1>1. attempt' = [b \in Attempts |-> attempt'[b]] /\ \A b \in Attempts : AttemptOK(attempt'[b])
  BY StepKinds
<1>2. CASE UNCHANGED <<installed, acknowledged>>
  BY <1>1, <1>2 DEF IInv, AbsoluteRulesHold, SilentInstallsAreVouchedFor
<1>3. CASE installed' = None
  BY <1>1, <1>3 DEF IInv, AbsoluteRulesHold, SilentInstallsAreVouchedFor
<1>4. ASSUME NEW package \in Packages, installed' = package,
             LET kind == EvaluateInstall(package, installed, developerMode).kind IN
             kind = "Install" \/ (kind = "WarnThenInstall" /\ acknowledged')
      PROVE  IInv'
  <2>1. package \in PackageType BY PackageTrustAssumption
  <2>2. /\ package.signature # "Invalid"
        /\ package.claimsSystemComponent =>
             package.signature = "LokoOfficial" /\ package.source = "SystemUpdate"
    BY <1>4, <2>1, NotRefused DEF Forged, WrongSource
  <2>3. ~acknowledged' => /\ ProvesIdentity(package.signature)
                          /\ package.source \in {"LokoStore", "SystemUpdate"}
    BY <1>4, <2>1, InstalledSilently
  <2>4. AbsoluteRulesHold' BY <1>4, <2>2 DEF AbsoluteRulesHold
  <2>5. SilentInstallsAreVouchedFor' BY <1>4, <2>3 DEF SilentInstallsAreVouchedFor
  <2> QED BY <1>1, <1>4, <2>4, <2>5 DEF IInv
<1> QED BY <1>2, <1>3, <1>4, StepKinds

-----------------------------------------------------------------------------
(* The theorems. *)

\* Nothing tampered with and nothing falsely called part of LokoOS is ever
\* installed (trust.rs, rules 1 and 2).
THEOREM AbsoluteRules == Spec => []AbsoluteRulesHold
<1>1. IInv => AbsoluteRulesHold BY DEF IInv
<1> QED BY <1>1, InitIInv, NextIInv, PTL DEF Spec

\* What was installed without a warning is vouched for (trust.rs, rules 5 and 6).
THEOREM SilenceIsEarned == Spec => []SilentInstallsAreVouchedFor
<1>1. IInv => SilentInstallsAreVouchedFor BY DEF IInv
<1> QED BY <1>1, InitIInv, NextIInv, PTL DEF Spec

\* A refusal for tampering is logged by the time it is shown (trust.rs,
\* as_error; error.rs, is_security_relevant).
THEOREM TamperingReachesTheLog == Spec => []TamperingIsLogged
<1>1. IInv => TamperingIsLogged
  <2> SUFFICES ASSUME IInv, NEW a \in Attempts, attempt[a].phase = "dialog",
                      attempt[a].refusal \in {"IntegrityFailure", "ForgedSystemComponent",
                                             "SystemComponentFromWrongSource"}
               PROVE  attempt[a].logged
    BY DEF TamperingIsLogged
  <2>1. attempt[a].logged = IsSecurityRelevant(AsError(attempt[a].refusal)) BY UnderWay
  <2>2. AsError(attempt[a].refusal) = "IntegrityFailure" BY DEF AsError
  <2> QED BY <2>1, <2>2 DEF IsSecurityRelevant
<1> QED BY <1>1, InitIInv, NextIInv, PTL DEF Spec

\* No refusal's dialog has a button that goes ahead (error.rs,
\* suggested_actions and is_affirmative).
THEOREM NoWayAroundARefusal == Spec => []RefusalsAreFinal
<1>1. IInv => RefusalsAreFinal
  <2> SUFFICES ASSUME IInv, NEW a \in Attempts, attempt[a].phase = "dialog",
                      NEW button \in SuggestedActions(attempt[a].error)
               PROVE  ~IsAffirmative(button)
    BY DEF RefusalsAreFinal
  <2>1. attempt[a].refusal \in Refusals /\ attempt[a].error = AsError(attempt[a].refusal)
    BY UnderWay
  <2>2. attempt[a].error \in {"IntegrityFailure", "PermissionDenied", "AlreadyExists"}
    BY <2>1 DEF AsError, Refusals
  <2>3. button \in {"Cancel", "LearnMore", "OpenPermissionSettings"}
    BY <2>2 DEF SuggestedActions
  <2> QED BY <2>3 DEF IsAffirmative
<1> QED BY <1>1, InitIInv, NextIInv, PTL DEF Spec

\* What is installed is there by the rules of trust.rs, for every number of
\* attempts and every set of packages.
THEOREM InstallsStayLegitimate == Spec => []InstallsAreLegitimate
<1>1. AbsoluteRulesHold /\ SilentInstallsAreVouchedFor => InstallsAreLegitimate
  BY DEF InstallsAreLegitimate
<1> QED BY <1>1, AbsoluteRules, SilenceIsEarned, PTL

\* A refusal keeps its meaning on its way to the log and to the user (trust.rs,
\* as_error; error.rs).
THEOREM RefusalsStayTrue == Spec => []RefusalsKeepTheirMeaning
<1>1. TamperingIsLogged /\ RefusalsAreFinal => RefusalsKeepTheirMeaning
  BY DEF RefusalsKeepTheirMeaning
<1> QED BY <1>1, TamperingReachesTheLog, NoWayAroundARefusal, PTL

\* An installed package is only ever replaced by a newer one (trust.rs, rule 3).
THEOREM VersionsOnlyGrow == Spec => NoDowngrade
<1>1. IInv /\ [Next]_vars =>
        (installed # None /\ installed' # None /\ installed' # installed =>
           Newer(installed'.version, installed.version))
  <2> SUFFICES ASSUME IInv, [Next]_vars, installed # None, installed' # None,
                      installed' # installed
               PROVE  Newer(installed'.version, installed.version)
    OBVIOUS
  <2>1. PICK package \in Packages :
          /\ installed' = package
          /\ EvaluateInstall(package, installed, developerMode).kind # "Refuse"
    BY StepKinds
  <2>2. package \in PackageType /\ installed \in PackageType
    BY PackageTrustAssumption DEF IInv
  <2>3. ~Older(package.version, installed.version) /\ package.version # installed.version
    BY <2>1, <2>2, NotRefused
  <2>4. package.version \in Versions /\ installed.version \in Versions BY <2>2 DEF PackageType
  <2> QED BY <2>1, <2>3, <2>4, VersionsAreOrdered
<1> QED BY <1>1, InitIInv, NextIInv, PTL DEF Spec, NoDowngrade

\* Unsigned packages get in only in Developer Mode and after a warning
\* (trust.rs, rule 4).
THEOREM UnsignedNeedsDeveloperMode == Spec => UnsignedIsDeliberate
<1>1. IInv /\ [Next]_vars =>
        (installed' # installed /\ installed' # None /\ installed'.signature = "Unsigned" =>
           developerMode /\ acknowledged')
  <2> SUFFICES ASSUME IInv, [Next]_vars, installed' # installed, installed' # None,
                      installed'.signature = "Unsigned"
               PROVE  developerMode /\ acknowledged'
    OBVIOUS
  <2>1. PICK package \in Packages :
          /\ installed' = package
          /\ LET kind == EvaluateInstall(package, installed, developerMode).kind IN
             kind = "Install" \/ (kind = "WarnThenInstall" /\ acknowledged')
    BY StepKinds
  <2>2. package \in PackageType BY PackageTrustAssumption
  <2>3. developerMode BY <2>1, <2>2, NotRefused DEF UnsignedRefused
  <2>4. EvaluateInstall(package, installed, developerMode).kind # "Install"
    BY <2>1, <2>2, InstalledSilently DEF ProvesIdentity
  <2> QED BY <2>1, <2>3, <2>4
<1> QED BY <1>1, InitIInv, NextIInv, PTL DEF Spec, UnsignedIsDeliberate

=============================================================================
