CONSTANTS
  MaxPrompts = 2
  MaxPermissions = 1
  MaxChunks = 1
  MaxHints = 1
  RestoredPrompts <- RestoredCounts
SPECIFICATION FairSpec
INVARIANTS
  AnswersAccounted
PROPERTIES
  CancelledTurnIsMute
  ClosedIsFinal
  ImplementsLedger
  EveryPromptIsAnswered
  EveryPermissionIsAnswered
CHECK_DEADLOCK FALSE
