SPECIFICATION Spec
CONSTANTS
    Tensor = {1, 2, 3}
    Size <- Sizes
    Alignment <- Alignments
    Stage = {0, 1, 2}
    ByteMax = 7
INVARIANTS
    TypeOK
    PlacedApart
    ResultVerifies
    AliasingNeverCosts
PROPERTIES
    PlacedLowest
    FailsOnlyWhenFull
CHECK_DEADLOCK FALSE
