\* The shell among few subjects.
CONSTANTS
  Texts <- MCTexts
  Typed <- MCTyped
  Subjects <- FewSubjects
  Grantable <- MCGrantable
  MaxGrants = 1
  MAX_PATH_LEN = 11
  MAX_COMPONENT_LEN = 3
  None = None
SPECIFICATION Spec
INVARIANTS
  NothingAboveTheSystemIsRemoved
