SPECIFICATION FairSpec
CONSTANTS
    RuntimeCount = 1
    Job = {j1, j2, j3}
    PromptTokens = 1
    MaxSteps = 2
INVARIANT ReadyIsSound
PROPERTY EveryRecognitionSettles
CHECK_DEADLOCK FALSE
