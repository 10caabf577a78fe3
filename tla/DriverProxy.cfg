SPECIFICATION FairProxySpec
CONSTANTS
    p1 = p1
    p2 = p2
    Producers <- TwoProducers
    Capacity = 32
    MsgLengths = {0, 4}
    StartPositions = {8}
    MaxCommands = 4
CHECK_DEADLOCK FALSE
INVARIANTS
    TypeOK
    NoOverrun
    ExclusiveClaims
    ConsumedInClaimOrder
    SilentFailureIsRcvAdd
    ErrorMeansNotSent
PROPERTIES
    ImplementsCommandQueue
    ClaimedIsConsumed
    WriteReturns
