\* A register of six bits; error codes up to 20.
CONSTANTS
  ISIZE_MAX = 31
  CODE_MAX = 20
  Processes = {p, q}
  Objects = {o}
  Numbers = {1, 2, 3}
  Kinds = {"Directory", "File", "Grant"}
  RightSets <- MCRightSets
  SyscallArgs = {0, 1, 15, 34, 80, 96, 97}
  None = None
SPECIFICATION Spec
INVARIANTS
  AuthorityIsConfined
  ReadOnlyGrantsChangeNothing
  AnswersSurviveTheRegister
