SPECIFICATION Spec
CONSTANTS
    Session = {s1, s2}
    NoSession = NoSession
    CounterMax = 2
    Op = {o1, o2}
    Descriptor <- OneDescriptor
    Key = {k1}
    NoKey = NoKey
    Hit = {0, 1, 2, 3}
    AwaitsCalls = FALSE
SYMMETRY Symmetry
INVARIANTS
    LeasesArePending
    ScopesAreDrained
PROPERTY PoisonIsTerminal
CHECK_DEADLOCK FALSE
