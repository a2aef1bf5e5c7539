\* One loop over two datasets, or three loops on one: parts of two chunks.
CONSTANTS
    Settings <- MCSettings
    ChunkNum = 2
    BackoffInitialDuration = 2
    BackoffMaxBeforeFail = 6
    RandSteps = 1
SPECIFICATION CMFairSpec
INVARIANTS HandedOverIntact RetryTableSound NoAnswerUnread
INVARIANTS MergeDamageIsBounded FailureIsReported
PROPERTIES LoopsEnd
