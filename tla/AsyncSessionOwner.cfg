CONSTANTS
    Session = {s1, s2, s3}
    NoSession = NoSession
    CounterMax = 4
SPECIFICATION FairSpec
INVARIANTS
    TypeOK
    ExclusiveOwner
    NoResurrection
    CancellationIsOwn
PROPERTIES
    ImplementsExclusiveSession
    CancelledGenerationCloses
CHECK_DEADLOCK FALSE
