SPECIFICATION SpecComponents
CONSTANTS
    Jobs <- VisionJobs
    Tokens = 4
    MlpWidth = 2
    Alignment = 3
    ChunkSize = 2
    Layers = 2
    Capacity = 3
    Runtime = {r1}
    Key = {k1}
    NoKey = NoKey
    Hit = {0, 3}
    Faults = {"push", "pop"}
    StackLayers = 2
    LayerSession = {s1}
    NoLayerSession = NoLayerSession
    CounterMax = 2
    Op = {o1}
    MaxRows = 2
    DeviceUser = {r1, r2, r3}
    NoDevice = NoDevice
    Asset = {a}
    WeightAsset = a
    Size = 2
    MaxLoads = 3
    Warmup = 1
    Measured = 1
    MaxNs = 3
    GroupLimit = 32
    QueryHeads = 2
    KeyValueHeads = 1
    HiddenSize = 40
    IntermediateSize = 72
    PlaneAlignment = 16
    GeometryJobs <- PlannerCalls
    t1 = t1
    Thread = {t1, t2}
    NoThread = NoThread
    Programs <- NativePrograms
    TimestampAttempts = 2
    CacheCapacity = 2
    MaxFaults = 1
    PatchSize = 2
    MergeSize = 2
    MinPixels = 32
    MaxPixels = 96
    PositionGrid = 3
    MaxAspect = 5
    Channels = 2
    Pages <- ScannedPages
    Packs <- WrittenPacks
    Widths <- WidthsOfOne
    Drifts = {1}
    MaxDamages = 1
INVARIANTS
    TypeOK
    LayerSessionsAreSound
    RuntimesAreSound
    AssetsAreSound
    JournalsAreSound
    DispatchesAreSound
    PreparedInputsAreSound
PROPERTIES
    ProgramsComputeReference
    OperationsSettle
CHECK_DEADLOCK FALSE
