CONSTANTS
    Runtime = {r1}
    Key = {k1}
    NoKey = NoKey
    Layers = 1
    Hit = {0, 3}
    Faults = {}
SPECIFICATION Spec
INVARIANT ResidentIsSound
CHECK_DEADLOCK FALSE
