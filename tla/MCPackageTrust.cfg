CONSTANTS
  ISIZE_MAX = 31
  CODE_MAX = 20
  Attempts = {a, b}
  Packages <- MCPackages
  None = None
SPECIFICATION FairSpec
INVARIANTS
  InstallsAreLegitimate
  RefusalsKeepTheirMeaning
PROPERTIES
  NoDowngrade
  UnsignedIsDeliberate
  RefusalsReachTheUser
