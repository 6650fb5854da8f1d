\* One covert permission and one that is not; up to two open prompts for each.
CONSTANTS
  Permissions = {"microphone", "network"}
  MaxPrompts = 2
SPECIFICATION RecordSpec
INVARIANTS
  RefusalYieldsOnlyToLateAnswers
  CovertAlwaysIsDeliberate
  OneTimeGrantsEndWithSession
