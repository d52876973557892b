SPECIFICATION Spec
CONSTANTS
    RuntimeCount = 2
    Job = {j1, j2, j3}
    PromptTokens = 1
    MaxSteps = 1
INVARIANTS
    LentOnce
    NoLostWakeup
    NoSessionOutlivesItsJob
    TrackedTokensFit
SYMMETRY Symmetry
CHECK_DEADLOCK FALSE
