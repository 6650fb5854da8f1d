---------------------------- MODULE LkofsPolicy ----------------------------
(***************************************************************************)
(* The access policy of LKOFS, filesystem/lkofs-core/src/policy.rs, in a   *)
(* system where subjects walk the volume by parsing, joining and climbing  *)
(* paths and ask for access where they are, while the user gives and takes *)
(* back grants and update transactions open and close.                     *)
(*                                                                         *)
(* The policy is asked on every access and an operation is performed when  *)
(* the answer is Allow, or Confirm and the user says yes.                  *)
(***************************************************************************)
EXTENDS Naturals, Sequences, FiniteSets, LkoPath

CONSTANTS
  Texts,         \* the texts that are parsed
  Typed,         \* what is given to join
  Grantable,     \* texts of the paths the user may grant
  Subjects,      \* who asks: records of class, app and user
  MaxGrants      \* bound on the grants in force

Classes == {"Kernel", "SystemUpdater", "SystemService", "Driver", "UserShell", "UserApp",
            "SandboxedApp", "AiAgent", "CompatibilityRuntime"}
Operations == {"Inspect", "Read", "Execute", "Write", "Create", "Delete", "Rename",
               "ChangePermissions"}

ASSUME LkofsPolicyAssumption ==
  /\ \A s \in Subjects : s.class \in Classes
  /\ Texts \cup Grantable \subseteq AnyText
  /\ Typed \subseteq Seq(Names) \ {<< >>}
  /\ \A t \in Grantable : Parse(t).error = "Ok"
  /\ MaxGrants \in Nat
  /\ None \notin Roots \cup {"AppData"}

VARIABLES
  here,          \* the path that is held
  grants,        \* pairs of a subject and a path granted to it
  transaction,   \* a verified update transaction is open
  done           \* the operation being performed, if any

vars == <<here, grants, transaction, done>>

-----------------------------------------------------------------------------
(* Protection. *)

\* Root::protection
RootProtection(r) ==
  CASE r \in {"System", "Drivers", "Boot", "Recovery"} -> "SystemImmutable"
    [] r \in {"Services", "Runtime", "Config", "Data", "Logs", "Store", "Compatibility",
              "Linder", "Apps", "AI", "Dev"} -> "SystemManaged"
    [] r \in {"Users", "Lowser"} -> "UserOwned"
    [] r \in {"Temp", "Cache"} -> "Volatile"

\* Faulty variant of EffectiveProtection: the root alone decides.
ProtectionOfRoot(p) == IF RootOf(p) = None THEN "SystemImmutable" ELSE RootProtection(RootOf(p))

EffectiveProtection(p) ==
  IF RootOf(p) = None THEN "SystemImmutable"
  ELSE IF RootOf(p) \in {"Config", "Services"} /\ TailAt(p, 1) = "Security" THEN "SystemImmutable"
  ELSE IF RootOf(p) = "AI" /\ TailAt(p, 1) = "Memory" THEN "UserOwned"
  ELSE RootProtection(RootOf(p))

-----------------------------------------------------------------------------
(* evaluate. *)

IsMutating(op) == op \in {"Write", "Create", "Delete", "Rename", "ChangePermissions"}

\* Faulty variant of IsDestructive: a rename is taken for harmless.
IsOverwriting(op) == op \in {"Delete", "Write"}

IsDestructive(op) == op \in {"Delete", "Write", "Rename"}

\* Faulty variant of HasGrantCovering: containment the wrong way round.
HasGrantBeneath(s, p) == \E g \in grants : g[1] = s /\ IsWithin(g[2], p)

HasGrantCovering(s, p) == \E g \in grants : g[1] = s /\ IsWithin(p, g[2])

InOwnAppData(s, p) ==
  /\ RootOf(p) = "Users" /\ s.user # None /\ s.app # None
  /\ TailAt(p, 1) = s.user /\ TailAt(p, 2) = "AppData" /\ TailAt(p, 3) = s.app

InOwnInstallDir(s, p) == RootOf(p) = "Apps" /\ s.app # None /\ TailAt(p, 1) = s.app

\* Rule 3.
DriverDecision(p, op) ==
  IF (RootOf(p) = "Drivers" /\ ~IsMutating(op)) \/ RootOf(p) \in {"Logs", "Temp"}
    THEN "Allow" ELSE "RoleForbidden"

\* Rule 4 applies: the home directory of somebody else.
CrossUser(s, p) ==
  /\ RootOf(p) = "Users" /\ TailAt(p, 1) # None
  /\ s.user = None \/ s.user # TailAt(p, 1)
  /\ s.class \notin {"SystemService", "SystemUpdater"}

\* Faulty variant of SandboxDecision: a grant lets it out.
SandboxWithGrants(s, p, op) ==
  IF InOwnAppData(s, p) \/ (InOwnInstallDir(s, p) /\ ~IsMutating(op)) \/ HasGrantCovering(s, p)
    THEN "Allow" ELSE "OutsideSandbox"

\* Rule 6.
SandboxDecision(s, p, op) ==
  IF InOwnAppData(s, p) \/ (InOwnInstallDir(s, p) /\ ~IsMutating(op))
    THEN "Allow" ELSE "OutsideSandbox"

\* The rules in order; the first that applies wins.
Evaluate(s, p, op) ==
  LET protection == EffectiveProtection(p) IN
  IF s.class = "Kernel" THEN "Allow"
  ELSE IF protection = "SystemImmutable" /\ IsMutating(op)
    THEN IF s.class = "SystemUpdater" /\ transaction THEN "Allow" ELSE "ProtectedLocation"
  ELSE IF s.class = "CompatibilityRuntime"
          /\ RootOf(p) \in {"System", "Drivers", "Boot", "Recovery", "Services"}
    THEN "RoleForbidden"
  ELSE IF s.class = "Driver" THEN DriverDecision(p, op)
  ELSE IF CrossUser(s, p) THEN "CrossUser"
  ELSE IF RootOf(p) \in {"Temp", "Cache"} THEN "Allow"
  ELSE IF s.class = "SandboxedApp" THEN SandboxDecision(s, p, op)
  ELSE IF protection = "SystemManaged" /\ IsMutating(op)
          /\ s.class \notin {"SystemService", "SystemUpdater", "UserShell"}
    THEN "NoGrant"
  ELSE IF protection = "UserOwned" /\ s.class # "UserShell" /\ ~HasGrantCovering(s, p)
    THEN "NoGrant"
  ELSE IF op = "ChangePermissions" THEN "ConfirmPermissionChange"
  ELSE IF s.class = "AiAgent" /\ IsDestructive(op) THEN "ConfirmAiInitiatedChange"
  ELSE IF s.class = "CompatibilityRuntime" /\ IsMutating(op) THEN "ConfirmForeignApplicationWrite"
  ELSE "Allow"

Confirmations == {"ConfirmPermissionChange", "ConfirmAiInitiatedChange",
                  "ConfirmForeignApplicationWrite"}

-----------------------------------------------------------------------------
(* The system. *)

Nothing == [how |-> "nothing"]
Performed(s, op, how) == [how |-> how, by |-> s, op |-> op]

Init ==
  /\ here = VolumeRoot
  /\ grants = {}
  /\ transaction = FALSE
  /\ done = Nothing

\* The paths that parsing yields; a text that is refused leaves nothing to hold.
Readable == {Parse(t).path : t \in {u \in Texts : Parse(u).error = "Ok"}}

\* A path is parsed.
Open(path) ==
  /\ done = Nothing
  /\ here' = path
  /\ UNCHANGED <<grants, transaction, done>>

\* A component is joined to the path that is held.
Descend(names) ==
  /\ done = Nothing
  /\ Join(here, names).error = "Ok"
  /\ here' = Join(here, names).path
  /\ UNCHANGED <<grants, transaction, done>>

\* The parent is taken; the volume root has none.
Climb ==
  /\ done = Nothing
  /\ Depth(here) > 0
  /\ here' = Parent(here)
  /\ UNCHANGED <<grants, transaction, done>>

\* The path is copied in its canonical spelling.
Own ==
  /\ done = Nothing
  /\ here' = ToOwned(here)
  /\ UNCHANGED <<grants, transaction, done>>

\* A subject asks about the path that is held, and the operation is performed
\* unless it is refused or not confirmed.
Access(s, op) ==
  /\ done = Nothing
  /\ \/ /\ Evaluate(s, here, op) = "Allow"
        /\ done' = Performed(s, op, "allowed")
     \/ /\ Evaluate(s, here, op) \in Confirmations
        /\ done' = Performed(s, op, "confirmed")
  /\ UNCHANGED <<here, grants, transaction>>

Complete ==
  /\ done # Nothing
  /\ done' = Nothing
  /\ UNCHANGED <<here, grants, transaction>>

GrantablePaths == {Parse(t).path : t \in Grantable}

\* The user gives a grant or takes it back.
GiveGrant(s, path) ==
  /\ done = Nothing
  /\ Cardinality(grants) < MaxGrants
  /\ grants' = grants \cup {<<s, path>>}
  /\ UNCHANGED <<here, transaction, done>>

WithdrawGrant(g) ==
  /\ done = Nothing
  /\ grants' = grants \ {g}
  /\ UNCHANGED <<here, transaction, done>>

\* An update transaction opens or closes.
SwitchTransaction ==
  /\ done = Nothing
  /\ transaction' = ~transaction
  /\ UNCHANGED <<here, grants, done>>

Next ==
  \/ \E path \in Readable : Open(path)
  \/ \E names \in Typed : Descend(names)
  \/ Climb \/ Own
  \/ \E s \in Subjects, op \in Operations : Access(s, op)
  \/ \E s \in Subjects, path \in GrantablePaths : GiveGrant(s, path)
  \/ \E g \in grants : WithdrawGrant(g)
  \/ SwitchTransaction \/ Complete

Spec == Init /\ [][Next]_vars

-----------------------------------------------------------------------------
(* Properties. *)

\* Something was performed by anybody but the kernel.
Happened == done.how # "nothing" /\ done.by.class # "Kernel"

\* The path that is held, as folded words.
Words(path) == [i \in 1..Depth(path) |-> Components(path)[i].word]

Under(words, path) ==
  Len(words) <= Depth(path) /\ \A i \in 1..Len(words) : words[i] = Words(path)[i]

\* What LokoOS is made of: the volume root, the four immutable roots and the
\* security settings.
IsSystemLocation(path) ==
  \/ Depth(path) = 0
  \/ Words(path)[1] \in {"System", "Drivers", "Boot", "Recovery"}
  \/ Under(<<"Config", "Security">>, path)
  \/ Under(<<"Services", "Security">>, path)

\* "Nothing writes here except a verified update transaction" (policy.rs,
\* rule 1), whatever was granted to whom, however the path was reached and
\* spelled, and only while one is open.
OnlyUpdatesChangeTheSystem ==
  Happened /\ IsMutating(done.op) /\ IsSystemLocation(here)
    => done.by.class = "SystemUpdater" /\ transaction

\* A file in a home directory is reached by the shell of its owner, by the
\* owner's sandboxed application in its own container, and otherwise only
\* under a grant that is in force, by a subject that acts for the owner or
\* for the system (policy.rs, rules 4, 6 and 8).
HomesNeedOwnerAndGrant ==
  Happened /\ Under(<<"Users">>, here) /\ Depth(here) > 1 =>
    LET s == done.by IN
    /\ s.user = Words(here)[2] \/ s.class \in {"SystemService", "SystemUpdater"}
    /\ \/ s.class = "UserShell"
       \/ s.class = "SandboxedApp"
       \/ \E g \in grants : g[1] = s /\ Under(Words(g[2]), here)

\* No grant widens the reach of a sandboxed application: its own container,
\* its own installation to read, and scratch space (policy.rs, rule 6, "This
\* app can only reach its own files").
SandboxIsConfined ==
  Happened /\ done.by.class = "SandboxedApp" =>
    \/ Under(<<"Users", done.by.user, "AppData", done.by.app>>, here)
    \/ Under(<<"Apps", done.by.app>>, here) /\ ~IsMutating(done.op)
    \/ Under(<<"Temp">>, here) \/ Under(<<"Cache">>, here)

\* Outside scratch space Loko AI removes, overwrites and renames nothing that
\* the user has not confirmed (policy.rs, rule 10).
AiDestroysNothingSilently ==
  Happened /\ done.by.class = "AiAgent" /\ done.op \in {"Delete", "Write", "Rename"}
  /\ ~Under(<<"Temp">>, here) /\ ~Under(<<"Cache">>, here)
    => done.how = "confirmed"

\* However a path was come by, it names a known root, the one it says, and
\* nothing in it is illegal: what the policy decides by is what the text says
\* (path.rs, LkoPathRef: "no empty, relative, or otherwise illegal components,
\* and names a known Root").
HeldPathIsSound ==
  /\ Components(here) \in Seq([word : STRING, spelling : STRING, bytes : 1..MAX_COMPONENT_LEN,
                               marks : SUBSET {"NonAscii"}])
  /\ IF Depth(here) = 0 THEN here.root = None
     ELSE here.root = Words(here)[1] /\ here.root \in Roots

\* The canonical text of a path is read back as the same path whenever it is
\* within MAX_PATH_LEN.  to_owned_path does not keep it there: parse measured
\* the text it was given, which may lack the volume's name.  A canonical text
\* that is too long is refused as such, never read as another path, and the
\* path can still be read in the spelling without the volume's name.
CanonicalTextIsReadBack ==
  LET owned == ToOwned(here)
      short == [prefix |-> "", parts |-> owned.parts, root |-> owned.root]
  IN  IF Bytes(owned) <= MAX_PATH_LEN THEN Parse(owned) = Parsed(owned)
      ELSE Parse(owned) = Failed("TooLong") /\ Parse(short) = Parsed(short)

\* The spelling of a path, in case, prefix and trailing separator, decides
\* nothing (path.rs, is_within: "a containment check cannot be evaded by
\* changing case").
SpellingDecidesNothing ==
  done = Nothing =>
    \A other \in Readable :
      Words(other) = Words(here) =>
        \A s \in Subjects, op \in Operations : Evaluate(s, here, op) = Evaluate(s, other, op)

\* What a path says, what is decided about it and what is written of it agree,
\* whichever way the path was come by: parsed, joined, climbed or compared.
PathsAreSound == HeldPathIsSound /\ CanonicalTextIsReadBack /\ SpellingDecidesNothing

\* "there is no input to this function that can make the result leave the
\* current subtree" (path.rs, join), and the parent is the directory one level
\* up, in every spelling.
WalkingIsByOneLevel ==
  [][here' # here =>
       /\ \A names \in Typed : Descend(names) =>
            Under(Words(here), here') /\ Depth(here') = Depth(here) + 1
       /\ Climb => Words(here') = Front(Words(here))]_vars

\* "Nothing writes here except a verified update transaction" (policy.rs,
\* rule 1), for an operation that takes along what lies beneath its path.
NothingAboveTheSystemIsRemoved ==
  Happened /\ done.op \in {"Delete", "Rename"}
  /\ (\E p \in Readable : IsSystemLocation(p) /\ Under(Words(here), p))
    => done.by.class = "SystemUpdater" /\ transaction

=============================================================================
