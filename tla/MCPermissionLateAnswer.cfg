\* One permission, with up to two open prompts.
CONSTANTS
  Permissions = {"microphone"}
  MaxPrompts = 2
SPECIFICATION RecordSpec
INVARIANTS
  RefusalStands
