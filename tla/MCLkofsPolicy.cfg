\* Every class of subject.
CONSTANTS
  Texts <- MCTexts
  Typed <- MCTyped
  Subjects <- MCSubjects
  Grantable <- MCGrantable
  MaxGrants = 1
  MAX_PATH_LEN = 11
  MAX_COMPONENT_LEN = 3
  None = None
SPECIFICATION Spec
INVARIANTS
  OnlyUpdatesChangeTheSystem
  HomesNeedOwnerAndGrant
  SandboxIsConfined
  AiDestroysNothingSilently
  PathsAreSound
PROPERTIES
  WalkingIsByOneLevel
