SPECIFICATION FairSpec
CONSTANTS
    Session = {s1, s2}
    NoSession = NoSession
    CounterMax = 2
    Op = {o1, o2}
    Descriptor <- StepDescriptor
    Key = {}
    NoKey = NoKey
    Hit = {0}
    AwaitsCalls = FALSE
PROPERTY EveryOperationSettles
CHECK_DEADLOCK FALSE
