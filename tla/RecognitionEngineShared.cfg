SPECIFICATION Spec
CONSTANTS
    RuntimeCount = 2
    Job = {j1, j2}
    PromptTokens = 1
    MaxSteps = 1
INVARIANT ReadyIsSound
SYMMETRY Symmetry
CHECK_DEADLOCK FALSE
