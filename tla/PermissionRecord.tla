-------------------------- MODULE PermissionRecord --------------------------
(***************************************************************************)
(* One application's permission record, security/loko-security/src/        *)
(* permission.rs, and the actors that use it: the application, which       *)
(* starts, exits, moves between foreground and background and tries to use *)
(* permissions, and the user, who answers prompts, changes settings and    *)
(* revokes.  None of the actors is in the repository; they call the record *)
(* in the ways its methods are documented for.                             *)
(*                                                                         *)
(* A prompt is shown when check returns Prompt and is answered by a later  *)
(* call of decide.  In between everything can happen, for the record keeps *)
(* no trace of an open prompt: the user may refuse the permission          *)
(* elsewhere, and the application may exit and start again.  A prompt that *)
(* was open when that happened is late from then on, and decide takes its  *)
(* answer like any other.                                                  *)
(***************************************************************************)
EXTENDS Naturals

CONSTANTS
  Permissions,   \* the permissions of this instance
  MaxPrompts     \* bound on the open prompts for one permission

\* Permission::ALL, by manifest identifier.
ALL == {"files", "camera", "microphone", "network", "notifications", "clipboard",
        "location", "ai", "system-settings", "bluetooth", "screen-capture", "run-at-login"}

ASSUME PermissionRecordAssumption ==
  Permissions \subseteq ALL /\ MaxPrompts \in Nat \ {0}

VARIABLES
  declared,      \* the permissions the manifest declares
  state,         \* NotAsked, or the grant that was decided
  running,       \* the application runs
  foreground,    \* and is in the foreground
  enabled,       \* permissions whose system-wide switch is on
  prompts,       \* open prompts for each permission
  late,          \* how many of them are late
  refused,       \* the user has said no, and not changed it in Settings
  overtaken,     \* refused, and a late prompt was answered otherwise since
  source         \* what last wrote the state of a permission

recordVars == <<declared, state>>
sessionVars == <<running, foreground, enabled>>
historyVars == <<late, refused, overtaken, source>>
permissionVars == <<declared, state, running, foreground, enabled, prompts,
                    late, refused, overtaken, source>>

Grants == {"Denied", "Once", "WhileInUse", "Always"}
States == Grants \cup {"NotAsked"}
Writers == {"new", "prompt", "late answer", "settings", "revoke", "exit"}

-----------------------------------------------------------------------------
(* The record. *)

IsCovertCapable(p) == p \in {"camera", "microphone", "location", "screen-capture", "clipboard"}

StrongestPromptGrant(p) == IF IsCovertCapable(p) THEN "WhileInUse" ELSE "Always"

\* The derived order of Grant.
Rank(g) ==
  CASE g = "Denied" -> 0 [] g = "Once" -> 1 [] g = "WhileInUse" -> 2 [] g = "Always" -> 3

Weaker(g, h) == IF Rank(g) <= Rank(h) THEN g ELSE h

Permits(g, inForeground) == g = "Always" \/ (g \in {"Once", "WhileInUse"} /\ inForeground)

\* Faulty variant of Clamped: the answer is taken as it is.
Unclamped(p, g) == g

\* What decide records for the answer g.
Clamped(p, g) == Weaker(g, StrongestPromptGrant(p))

\* check, with the system-wide switch looked up.
CheckPermission(p) ==
  CASE p \notin declared -> "NotDeclared"
    [] p \in declared /\ p \notin enabled -> "DisabledSystemWide"
    [] p \in declared /\ p \in enabled ->
         CASE state[p] = "NotAsked" -> "Prompt"
           [] state[p] = "Denied" -> "UserRefused"
           [] state[p] \in {"Once", "WhileInUse", "Always"} ->
                IF Permits(state[p], foreground) THEN "Allow" ELSE "NotInForeground"

\* Faulty variant of EndSession: every decision is forgotten.
EndSessionForgetsAll == [p \in Permissions |-> "NotAsked"]

\* Faulty variant of EndSession: nothing is cleared.
EndSessionKeepsAll == state

\* What end_session leaves.
EndSession == [p \in Permissions |-> IF state[p] = "Once" THEN "NotAsked" ELSE state[p]]

\* The state of p becomes s, written by src.
Write(p, s, src) ==
  /\ state' = [state EXCEPT ![p] = s]
  /\ source' = [source EXCEPT ![p] = src]

-----------------------------------------------------------------------------
(* The actors. *)

\* The user says no to p: the prompts for it that stay open are late.
SayNo(p, open) ==
  /\ refused' = refused \cup {p}
  /\ overtaken' = overtaken \ {p}
  /\ late' = [late EXCEPT ![p] = open]

\* Record::new for some manifest.
RecordInit ==
  /\ declared \in SUBSET Permissions
  /\ state = [p \in Permissions |-> "NotAsked"]
  /\ running = FALSE /\ foreground = FALSE /\ enabled = Permissions
  /\ prompts = [p \in Permissions |-> 0]
  /\ late = [p \in Permissions |-> 0]
  /\ refused = {} /\ overtaken = {}
  /\ source = [p \in Permissions |-> "new"]

Launch ==
  /\ ~running
  /\ running' = TRUE /\ foreground' = TRUE
  /\ UNCHANGED <<recordVars, enabled, prompts, historyVars>>

\* The application exits, and end_session is called; its prompts stay open.
Exit ==
  /\ running
  /\ running' = FALSE /\ foreground' = FALSE
  /\ state' = EndSession
  /\ source' = [p \in Permissions |-> IF state[p] # EndSession[p] THEN "exit" ELSE source[p]]
  /\ late' = prompts
  /\ UNCHANGED <<declared, enabled, prompts, refused, overtaken>>

SwitchFocus ==
  /\ running
  /\ foreground' = ~foreground
  /\ UNCHANGED <<recordVars, running, enabled, prompts, historyVars>>

SwitchSystemWide(p) ==
  /\ enabled' = IF p \in enabled THEN enabled \ {p} ELSE enabled \cup {p}
  /\ UNCHANGED <<recordVars, running, foreground, prompts, historyVars>>

\* The application tries to use p, and a prompt is shown when check asks for
\* one; any other answer leaves everything as it was.
Use(p) ==
  /\ running
  /\ CheckPermission(p) = "Prompt" /\ prompts[p] < MaxPrompts
  /\ prompts' = [prompts EXCEPT ![p] = @ + 1]
  /\ UNCHANGED <<recordVars, sessionVars, historyVars>>

\* The user answers a prompt, a late one or not, and decide is called.
Answer(p, g, isLate) ==
  /\ prompts[p] > 0
  /\ IF isLate THEN late[p] > 0 ELSE late[p] < prompts[p]
  /\ prompts' = [prompts EXCEPT ![p] = @ - 1]
  /\ IF p \in declared
       THEN Write(p, Clamped(p, g), IF isLate THEN "late answer" ELSE "prompt")
       ELSE UNCHANGED <<state, source>>
  /\ \/ /\ p \in declared /\ g = "Denied"
        /\ SayNo(p, prompts[p] - 1)
     \/ /\ ~(p \in declared /\ g = "Denied")
        /\ late' = [late EXCEPT ![p] = IF isLate THEN @ - 1 ELSE @]
        /\ overtaken' = IF isLate /\ p \in declared THEN overtaken \cup ({p} \cap refused)
                                                    ELSE overtaken
        /\ UNCHANGED refused
  /\ UNCHANGED <<declared, sessionVars>>

SetFromSettings(p, g) ==
  /\ p \in declared
  /\ Write(p, g, "settings")
  /\ \/ g = "Denied" /\ SayNo(p, prompts[p])
     \/ /\ g # "Denied"
        /\ refused' = refused \ {p} /\ overtaken' = overtaken \ {p}
        /\ UNCHANGED late
  /\ UNCHANGED <<declared, sessionVars, prompts>>

\* Declared or not, the permission is refused from now on.
Revoke(p) ==
  /\ Write(p, "Denied", "revoke")
  /\ SayNo(p, prompts[p])
  /\ UNCHANGED <<declared, sessionVars, prompts>>

RecordNext ==
  \/ Launch \/ Exit \/ SwitchFocus
  \/ \E p \in Permissions : SwitchSystemWide(p) \/ Use(p) \/ Revoke(p)
  \/ \E p \in Permissions, g \in Grants :
       SetFromSettings(p, g) \/ \E isLate \in BOOLEAN : Answer(p, g, isLate)

RecordSpec == RecordInit /\ [][RecordNext]_permissionVars

-----------------------------------------------------------------------------
(* Properties. *)

\* Every decision is one the record can hold and was written by one of its
\* methods; part of the inductive invariant that is proved.
TypeOK ==
  /\ declared \subseteq Permissions /\ enabled \subseteq Permissions
  /\ state \in [Permissions -> States]
  /\ running \in BOOLEAN /\ foreground \in BOOLEAN
  /\ prompts \in [Permissions -> 0 .. MaxPrompts]
  /\ late \in [Permissions -> 0 .. MaxPrompts]
  /\ \A p \in Permissions : late[p] <= prompts[p]
  /\ refused \subseteq Permissions /\ overtaken \subseteq refused
  /\ source \in [Permissions -> Writers]

\* "Revocation is immediate and total" and the application "cannot ask again
\* after a refusal unless the user goes to Settings" (permission.rs, module
\* comment and Grant::Denied): once the user has said no, by revoking, in
\* Settings or to a prompt, check neither allows nor prompts until Settings
\* says otherwise.  The code does not keep it: decide, which does not look at
\* the state it overwrites, takes the answer to a late prompt.
RefusalStands == \A p \in refused : CheckPermission(p) \notin {"Allow", "Prompt"}

\* What revoke, set_from_settings, decide and end_session do keep: a refusal
\* takes effect at once and stands through exits, restarts, switches and any
\* other calls until Settings says otherwise, or a prompt that was already open
\* when the user refused is answered with a grant.  No prompt opened later can
\* undo it.
RefusalYieldsOnlyToLateAnswers ==
  \A p \in refused \ overtaken : CheckPermission(p) \notin {"Allow", "Prompt"}

\* "the only path that can grant Always for a covert-capable permission" is
\* Settings (permission.rs, set_from_settings): whatever was answered to any
\* prompt, and whenever.
CovertAlwaysIsDeliberate ==
  \A p \in Permissions :
    IsCovertCapable(p) /\ state[p] = "Always" => source[p] = "settings"

\* What end_session keeps: when the application is not running, no permission
\* is left granted once, so that the next session prompts again, except by a
\* choice in Settings or by the answer to a prompt that was already open when
\* the application exited or the user refused.
OneTimeGrantsEndWithSession ==
  ~running => \A p \in Permissions :
                state[p] = "Once" => source[p] \in {"settings", "late answer"}

\* An undeclared permission never holds a grant, so no later change of the
\* order of the tests in check could use one (permission.rs, decide and
\* set_from_settings).
UndeclaredHoldsNoGrant ==
  \A p \in Permissions \ declared : state[p] \in {"NotAsked", "Denied"}

\* "asking for something you never declared is refused outright rather than
\* prompted for" (permission.rs, module comment): no prompt is ever open for
\* a permission the manifest does not declare.
UndeclaredIsNeverAsked == \A p \in Permissions \ declared : prompts[p] = 0

=============================================================================
