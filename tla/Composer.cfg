SPECIFICATION ComposerSpec
CONSTANTS
  Keys <- TypedKeys
  Earlier <- EarlierLines
  MaxInserted = 3
  MaxLine = 5
  MaxSubmits = 1
  MaxRequests = 1
INVARIANTS
  CompletionsAreObeyed
  DraftsSurviveRecall
CHECK_DEADLOCK FALSE
