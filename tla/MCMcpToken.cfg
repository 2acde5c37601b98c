SPECIFICATION Spec
CONSTANTS
    Verifiers = {v1}
    MaxTokens = 3
    MaxWall = 2
    MaySetClock = FALSE
INVARIANTS SavedStateLoads HandedTokenWorks AnswersAreRight
