------------------------------ MODULE LkoPath ------------------------------
(***************************************************************************)
(* LKO paths, filesystem/lkofs-core/src/path.rs and root.rs: parsing,      *)
(* validation, joining, parents and containment.                           *)
(*                                                                         *)
(* A text is what precedes its first separator (prefix) and what lies      *)
(* between and after its separators (parts), so that a trailing separator  *)
(* is an empty last part.  A name stands for a string by what the code     *)
(* asks of it: the word it folds to, the spelling of that word, its        *)
(* length in bytes and the marks that validation looks for.                *)
(***************************************************************************)
EXTENDS Naturals, Sequences, SequencesExt, FiniteSetsExt, Selection

CONSTANTS
  MAX_PATH_LEN,        \* bytes of a path
  MAX_COMPONENT_LEN,   \* bytes of a component
  None                 \* no root, no user, no application, no name

ASSUME LkoPathAssumption ==
  MAX_PATH_LEN \in Nat /\ MAX_PATH_LEN >= 3 /\ MAX_COMPONENT_LEN \in Nat /\ None \notin STRING

Roots == {"System", "Users", "Apps", "Drivers", "Services", "Runtime", "Config", "Data", "Temp",
          "Cache", "Logs", "Recovery", "Boot", "AI", "Linder", "Lowser", "Store",
          "Compatibility", "Dev"}

\* What validation looks for in a name.
Marks == {"RelativeComponent", "BackslashSeparator", "ControlCharacter", "BidirectionalOverride",
          "TrailingSpaceOrDot", "NonAscii"}

EmptyName == [word |-> "", spelling |-> "plain", bytes |-> 0, marks |-> {}]

\* Only the empty name has no bytes.
Names == {n \in [word : STRING, spelling : STRING, bytes : Nat, marks : SUBSET Marks] :
            n.bytes = 0 => n = EmptyName}

AnyText == [prefix : STRING, parts : Seq(Names)]

\* The spellings of the volume: both cases of LKO, and nothing, which is the
\* spelling that starts with a separator.
PrefixLen(prefix) == IF prefix = "" THEN 0 ELSE 3

\* The length in bytes of names and the separators in front of them.
Joined(names) ==
  LET upto[i \in 0..Len(names)] == IF i = 0 THEN 0 ELSE upto[i - 1] + 1 + names[i].bytes
  IN  upto[Len(names)]

Bytes(text) == PrefixLen(text.prefix) + Joined(text.parts)

-----------------------------------------------------------------------------
(* Validation. *)

\* What is wrong with a component.  A component given to join may hold
\* separators: it is then more than one name.
Flaws(names) ==
  LET bytes == Joined(names) - 1 IN
  (IF bytes = 0 THEN {"EmptyComponent"} ELSE {})
  \cup (IF bytes > MAX_COMPONENT_LEN THEN {"ComponentTooLong"} ELSE {})
  \cup (IF Len(names) > 1 THEN {"SeparatorInName"} ELSE names[1].marks \ {"NonAscii"})
  \cup UNION {names[i].marks \cap {"BackslashSeparator"} : i \in DOMAIN names}

\* The first flaw in the order of the code's tests.
ValidateComponent(names) ==
  LET order == <<"EmptyComponent", "ComponentTooLong", "RelativeComponent", "BackslashSeparator",
                 "SeparatorInName", "ControlCharacter", "BidirectionalOverride",
                 "TrailingSpaceOrDot">>
      found == {i \in DOMAIN order : order[i] \in Flaws(names)}
  IN  IF found = {} THEN "Ok" ELSE order[Min(found)]

\* Root::parse
RootNamed(name) == IF "NonAscii" \notin name.marks /\ name.word \in Roots THEN name.word ELSE None

-----------------------------------------------------------------------------
(* Paths: the text as it was given, and the root. *)

VolumeRoot == [prefix |-> "LKO", parts |-> << >>, root |-> None]

Failed(error) == [error |-> error, path |-> VolumeRoot]
Parsed(path) == [error |-> "Ok", path |-> path]

\* The body without one trailing separator, cut into parts.
Body(text) ==
  IF Len(text.parts) > 1 /\ Last(text.parts) = EmptyName THEN Front(text.parts) ELSE text.parts

ParseBody(text) ==
  LET parts == Body(text)
      root  == RootNamed(Head(parts))
      bad   == {i \in 2..Len(parts) : ValidateComponent(<<parts[i]>>) # "Ok"}
  IN  IF parts = <<EmptyName>> THEN Parsed(VolumeRoot)
      ELSE IF ValidateComponent(<<Head(parts)>>) # "Ok" THEN Failed(ValidateComponent(<<Head(parts)>>))
      ELSE IF "NonAscii" \in Head(parts).marks THEN Failed("NonAsciiRoot")
      ELSE IF root = None THEN Failed("UnknownRoot")
      ELSE IF bad # {} THEN Failed(ValidateComponent(<<parts[Min(bad)]>>))
      ELSE Parsed([prefix |-> text.prefix, parts |-> text.parts, root |-> root])

Parse(text) ==
  IF Bytes(text) > MAX_PATH_LEN THEN Failed("TooLong")
  ELSE IF \E i \in DOMAIN text.parts : "BackslashSeparator" \in text.parts[i].marks
    THEN Failed("BackslashSeparator")
  ELSE IF text.prefix \notin {"LKO", "lko", ""} THEN Failed("MissingRoot")
  ELSE IF text.parts # << >> THEN ParseBody(text)
  ELSE IF text.prefix # "" THEN Parsed(VolumeRoot)
  ELSE Failed("MissingRoot")

Components(path) == Selected(path.parts, {i \in DOMAIN path.parts : path.parts[i].bytes # 0})

Depth(path) == Len(Components(path))

\* Component i of the tail, as a folded word; None when there is none.
TailAt(path, i) == IF Depth(path) > i THEN Components(path)[i + 1].word ELSE None

RootOf(path) == path.root

\* Component by component, ignoring case.
IsWithin(path, other) ==
  LET mine   == Components(path)
      theirs == Components(other)
  IN  Len(theirs) <= Len(mine) /\ \A i \in DOMAIN theirs : mine[i].word = theirs[i].word

ToOwned(path) == [prefix |-> "LKO", parts |-> Components(path), root |-> path.root]

\* Faulty variant of RawOffset: the raw text is taken to start with LKO.
RawOffsetUnshifted(path, offset) == offset

\* An offset in the canonical text as an offset in the text that was given.
RawOffset(path, offset) == IF path.prefix = "" THEN offset - PrefixLen("LKO") ELSE offset

\* The first bytes of a text.  A cut inside a name leaves a fragment of it.
FirstBytes(path, n) ==
  LET Upto(k) == [prefix |-> path.prefix, parts |-> SubSeq(path.parts, 1, k), root |-> path.root]
      whole   == Upto(Max({k \in 0..Len(path.parts) : Bytes(Upto(k)) <= n}))
      left    == n - Bytes(whole)
  IN  IF left = 0 THEN whole
      ELSE [whole EXCEPT !.parts = Append(@, [EmptyName EXCEPT !.bytes = left - 1])]

\* The containing directory; the caller has seen that there is one.
Parent(path) ==
  LET body == Components(path) IN
  IF Len(body) = 1 THEN VolumeRoot
  ELSE FirstBytes(path, RawOffset(path, PrefixLen("LKO") + Joined(Front(body))))

\* Faulty variant of Join: the path keeps the root it has.
JoinKeepsRoot(path, names) ==
  IF ValidateComponent(names) # "Ok" THEN Failed(ValidateComponent(names))
  ELSE IF Bytes(ToOwned(path)) + Joined(names) > MAX_PATH_LEN THEN Failed("TooLong")
  ELSE Parsed([prefix |-> "LKO", parts |-> Components(path) \o names, root |-> path.root])

\* On an owned path: join validates the component, then the length, then the
\* root.
Join(path, names) ==
  LET root == IF path.root = None THEN RootNamed(names[1]) ELSE path.root IN
  IF ValidateComponent(names) # "Ok" THEN Failed(ValidateComponent(names))
  ELSE IF Bytes(ToOwned(path)) + Joined(names) > MAX_PATH_LEN THEN Failed("TooLong")
  ELSE IF root = None THEN Failed("UnknownRoot")
  ELSE Parsed([prefix |-> "LKO", parts |-> Components(path) \o names, root |-> root])

=============================================================================
