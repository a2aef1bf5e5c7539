\* One node, two datasets; the server denies requests.
CONSTANTS
    Settings <- MCDenied
    ChunkNum = 1
    BackoffInitialDuration = 2
    BackoffMaxBeforeFail = 6
    RandSteps = 1
SPECIFICATION CMSpec
INVARIANT DeniedIsRetried
