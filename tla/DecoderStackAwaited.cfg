SPECIFICATION Spec
CONSTANTS
    Session = {s1}
    NoSession = NoSession
    CounterMax = 4
    Op = {o1}
    Descriptor <- AwaitedDescriptors
    Key = {k1, k2}
    NoKey = NoKey
    Hit = {0, 1, 2, 3}
    AwaitsCalls = TRUE
INVARIANTS
    TypeOK
    ReadyIsSound
    ResidentIsSound
    TokensMatchRows
    ReadoutReadsCurrentRow
CHECK_DEADLOCK FALSE
