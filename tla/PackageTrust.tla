---------------------------- MODULE PackageTrust ----------------------------
(***************************************************************************)
(* Package trust, security/loko-security/src/trust.rs: whether a package   *)
(* may be installed, and what becomes of a refusal.                        *)
(*                                                                         *)
(* Several attempts to install packages with the same id are under way at  *)
(* once (the Store, Loko Update, a file the user opened).  The installer   *)
(* around evaluate_install does not exist yet; its part is taken from the  *)
(* ABI the answers travel through: "surface a prompt and retry" (error.rs, *)
(* ConfirmationRequired) means that an acknowledged warning is evaluated   *)
(* again, and a refusal reaches the client as a negative register.         *)
(***************************************************************************)
EXTENDS LokoAbi, FiniteSets

CONSTANTS
  Attempts,       \* installations that may be under way at the same time
  Packages,       \* the packages that are offered; all have the same id
  None

\* Signature, Source, Version, Package
Signatures == {"LokoOfficial", "VerifiedPublisher", "KnownPublisher", "UnknownPublisher",
               "Unsigned", "Invalid"}
Sources == {"LokoStore", "SystemUpdate", "LocalFile", "Download"}
Versions == Nat \X Nat \X Nat

PackageType == [version : Versions, signature : Signatures, source : Sources,
                claimsSystemComponent : BOOLEAN]

ASSUME PackageTrustAssumption ==
  /\ Packages \subseteq PackageType
  /\ None \notin PackageType

VARIABLES
  installed,      \* the package that is installed, or None
  acknowledged,   \* the user has acknowledged a warning for it
  developerMode,
  attempt         \* where each attempt is

vars == <<installed, acknowledged, developerMode, attempt>>

Idle == [phase |-> "idle"]
Warned(package) == [phase |-> "warned", package |-> package]
Refused(package, refusal, raw) ==
  [phase |-> "refused", package |-> package, refusal |-> refusal, raw |-> raw]
Dialog(package, refusal, error, logged) ==
  [phase |-> "dialog", package |-> package, refusal |-> refusal, error |-> error,
   logged |-> logged]

Init ==
  /\ installed = None
  /\ acknowledged = FALSE
  /\ developerMode \in BOOLEAN
  /\ attempt = [a \in Attempts |-> Idle]

-----------------------------------------------------------------------------
(* The decision. *)

\* Signature::proves_identity
ProvesIdentity(signature) ==
  signature \in {"LokoOfficial", "VerifiedPublisher", "KnownPublisher"}

\* Faulty variant of Older: the parts are compared in the wrong order.
OlderPatchFirst(v, w) ==
  \/ v[3] < w[3]
  \/ v[3] = w[3] /\ v[2] < w[2]
  \/ v[3] = w[3] /\ v[2] = w[2] /\ v[1] < w[1]

\* Version's derived order: major, minor, patch.
Older(v, w) ==
  \/ v[1] < w[1]
  \/ v[1] = w[1] /\ v[2] < w[2]
  \/ v[1] = w[1] /\ v[2] = w[2] /\ v[3] < w[3]

Install == [kind |-> "Install", why |-> "None"]
WarnThenInstall(warning) == [kind |-> "WarnThenInstall", why |-> warning]
Refuse(refusal) == [kind |-> "Refuse", why |-> refusal]

\* Faulty variant of WrongSource: a system component may also be a file the
\* user chose.
WrongSourceUnlessLocal(package) ==
  package.claimsSystemComponent /\ package.source \notin {"SystemUpdate", "LocalFile"}

\* Rule 2: only LokoOS may claim to be LokoOS, and only through Loko Update.
Forged(package) == package.claimsSystemComponent /\ package.signature # "LokoOfficial"
WrongSource(package) == package.claimsSystemComponent /\ package.source # "SystemUpdate"

\* Faulty variant of UnsignedRefused: Developer Mode makes no difference.
UnsignedNeverRefused(package, developer) == FALSE

\* Rule 4: unsigned packages are for Developer Mode.
UnsignedRefused(package, developer) == package.signature = "Unsigned" /\ ~developer

\* Rule 6: known publisher, but not from the Store.
FromOutside(package) == package.source \in {"Download", "LocalFile"}

\* evaluate_install; replaced is the package an Intent::Update replaces, and
\* None for a FreshInstall.  The first rule that applies wins.
EvaluateInstall(package, replaced, developer) ==
  IF package.signature = "Invalid" THEN Refuse("IntegrityFailure")
  ELSE IF Forged(package) THEN Refuse("ForgedSystemComponent")
  ELSE IF WrongSource(package) THEN Refuse("SystemComponentFromWrongSource")
  ELSE IF replaced # None /\ Older(package.version, replaced.version) THEN Refuse("Downgrade")
  ELSE IF replaced # None /\ package.version = replaced.version THEN Refuse("AlreadyInstalled")
  ELSE IF UnsignedRefused(package, developer) THEN Refuse("IntegrityFailure")
  ELSE IF package.signature = "Unsigned" THEN WarnThenInstall("Unsigned")
  ELSE IF ~ProvesIdentity(package.signature) THEN WarnThenInstall("UnknownPublisher")
  ELSE IF FromOutside(package) THEN WarnThenInstall("FromOutsideTheStore")
  ELSE Install

\* Faulty variant of AsError: a forged component is an ordinary bad argument.
AsErrorForgedIsInvalid(refusal) ==
  CASE refusal \in {"IntegrityFailure", "SystemComponentFromWrongSource"} -> "IntegrityFailure"
    [] refusal = "ForgedSystemComponent" -> "InvalidArgument"
    [] refusal = "Downgrade" -> "PermissionDenied"
    [] refusal = "AlreadyInstalled" -> "AlreadyExists"

\* Refusal::as_error
AsError(refusal) ==
  CASE refusal \in {"IntegrityFailure", "ForgedSystemComponent",
                    "SystemComponentFromWrongSource"} -> "IntegrityFailure"
    [] refusal = "Downgrade" -> "PermissionDenied"
    [] refusal = "AlreadyInstalled" -> "AlreadyExists"

-----------------------------------------------------------------------------
(* An attempt. *)

\* What follows from the decision on package: it is installed, held back by a
\* warning that still has to be acknowledged, or refused.
Proceed(a, package, userAgreed) ==
  LET decision == EvaluateInstall(package, installed, developerMode) IN
  \/ /\ decision.kind = "Install" \/ (decision.kind = "WarnThenInstall" /\ userAgreed)
     /\ installed' = package
     /\ acknowledged' = userAgreed
     /\ attempt' = [attempt EXCEPT ![a] = Idle]
  \/ /\ decision.kind = "WarnThenInstall" /\ ~userAgreed
     /\ attempt' = [attempt EXCEPT ![a] = Warned(package)]
     /\ UNCHANGED <<installed, acknowledged>>
  \/ /\ decision.kind = "Refuse"
     /\ attempt' = [attempt EXCEPT
          ![a] = Refused(package, decision.why, ToRegister(Err(AsError(decision.why))))]
     /\ UNCHANGED <<installed, acknowledged>>

Offer(a, package) ==
  /\ attempt[a] = Idle
  /\ Proceed(a, package, FALSE)
  /\ UNCHANGED developerMode

\* The user reads the warning and goes on: the question is asked again, of
\* what is installed by now and of the mode the machine is in by now.
Acknowledge(a) ==
  /\ attempt[a].phase = "warned"
  /\ Proceed(a, attempt[a].package, TRUE)
  /\ UNCHANGED developerMode

Decline(a) ==
  /\ attempt[a].phase = "warned"
  /\ attempt' = [attempt EXCEPT ![a] = Idle]
  /\ UNCHANGED <<installed, acknowledged, developerMode>>

\* The client decodes the refusal: what may be retried is tried again without
\* a word, the rest is shown, and what is security relevant is logged.
Report(a) ==
  /\ attempt[a].phase = "refused"
  /\ LET error == Decode(attempt[a].raw).value IN
     IF IsRetryable(error)
       THEN Proceed(a, attempt[a].package, FALSE)
       ELSE /\ attempt' = [attempt EXCEPT
                 ![a] = Dialog(attempt[a].package, attempt[a].refusal, error,
                               IsSecurityRelevant(error))]
            /\ UNCHANGED <<installed, acknowledged>>
  /\ UNCHANGED developerMode

\* The user presses one of the buttons.
Press(a, button) ==
  /\ attempt[a].phase = "dialog"
  /\ button \in SuggestedActions(attempt[a].error)
  /\ IF IsAffirmative(button)
       THEN Proceed(a, attempt[a].package, TRUE)
       ELSE /\ attempt' = [attempt EXCEPT ![a] = Idle]
            /\ UNCHANGED <<installed, acknowledged>>
  /\ UNCHANGED developerMode

Uninstall ==
  /\ installed # None
  /\ installed' = None
  /\ acknowledged' = FALSE
  /\ UNCHANGED <<developerMode, attempt>>

SwitchDeveloperMode ==
  /\ developerMode' = ~developerMode
  /\ UNCHANGED <<installed, acknowledged, attempt>>

Next ==
  \/ \E a \in Attempts :
       \/ \E package \in Packages : Offer(a, package)
       \/ Acknowledge(a)
       \/ Decline(a)
       \/ Report(a)
       \/ \E button \in UserActions : Press(a, button)
  \/ Uninstall
  \/ SwitchDeveloperMode

Spec == Init /\ [][Next]_vars

\* The client runs; the user may think for ever.
FairSpec == Spec /\ \A a \in Attempts : WF_vars(Report(a))

-----------------------------------------------------------------------------
(* Properties. *)

\* A version is newer when the first part that differs is larger.
Newer(w, v) == \E i \in 1 .. 3 : v[i] < w[i] /\ \A j \in 1 .. (i - 1) : v[j] = w[j]

\* Whatever the user agreed to, nothing is installed whose contents do not
\* match its signature, and nothing that calls itself part of LokoOS without
\* LokoOS having signed and delivered it ("Two rules are absolute and are not
\* user-overridable", trust.rs).
AbsoluteRulesHold ==
  installed # None =>
    /\ installed.signature # "Invalid"
    /\ installed.claimsSystemComponent =>
         installed.signature = "LokoOfficial" /\ installed.source = "SystemUpdate"

\* What was installed without a question came from the Store or Loko Update
\* and was signed by somebody known (trust.rs, is_silent).
SilentInstallsAreVouchedFor ==
  installed # None /\ ~acknowledged =>
    /\ ProvesIdentity(installed.signature)
    /\ installed.source \in {"LokoStore", "SystemUpdate"}

\* What is on the machine got there by the rules, whatever was attempted at
\* the same time and whatever the user agreed to.
InstallsAreLegitimate == AbsoluteRulesHold /\ SilentInstallsAreVouchedFor

\* The version of an installed package only grows, also when two attempts
\* overlap and the older package's warning is acknowledged last ("a downgrade
\* is refused", trust.rs).
NoDowngrade ==
  [][installed # None /\ installed' # None /\ installed' # installed =>
       Newer(installed'.version, installed.version)]_vars

\* Unsigned packages get in while the machine is in Developer Mode and after
\* an acknowledgement, also when the mode is switched off under an open
\* warning ("Allowed only in Developer Mode, and even then with a warning",
\* trust.rs).
UnsignedIsDeliberate ==
  [][installed' # installed /\ installed' # None /\ installed'.signature = "Unsigned" =>
       developerMode /\ acknowledged']_vars

\* By the time the user is told, a package that was tampered with, forged or
\* misplaced is in the security log: the refusal's error keeps its meaning
\* through the register (error.rs, is_security_relevant).
TamperingIsLogged ==
  \A a \in Attempts :
    /\ attempt[a].phase = "dialog"
    /\ attempt[a].refusal \in {"IntegrityFailure", "ForgedSystemComponent",
                               "SystemComponentFromWrongSource"}
    => attempt[a].logged

\* Every refusal reaches the user; none is retried for ever in silence
\* ("Never retried automatically", error.rs, IntegrityFailure).
RefusalsReachTheUser ==
  \A a \in Attempts : attempt[a].phase = "refused" ~> attempt[a].phase = "dialog"

\* No button of a refusal's dialog lets the installation go ahead
\* (trust.rs: "Not with a warning, not with a checkbox").
RefusalsAreFinal ==
  \A a \in Attempts :
    attempt[a].phase = "dialog" =>
      \A button \in SuggestedActions(attempt[a].error) : ~IsAffirmative(button)

\* A refusal means to the user and to the log what it meant to the check that
\* raised it, with the register and the error table in between.
RefusalsKeepTheirMeaning == TamperingIsLogged /\ RefusalsAreFinal

=============================================================================
