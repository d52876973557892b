CONSTANTS
    Runtime = {r1, r2}
    Key = {k1, k2}
    NoKey = NoKey
    Layers = 1
    Hit = {0, 3}
    Faults = {"push", "pop"}
SPECIFICATION Spec
INVARIANTS BusyIsSession CacheHoldsOneModel ReadySessionsArePure LeftoversArePoisoned
SYMMETRY Symmetric
CHECK_DEADLOCK FALSE
