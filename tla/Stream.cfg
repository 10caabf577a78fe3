SPECIFICATION Spec
CONSTANTS
    p1 = p1
    p2 = p2
    Publishers <- TwoPublishers
    Kinds = {"offer", "claim"}
    Lengths = {1}
    MaxPayload = 1
    TermLength = 4
    MaxTerms = 4
    TermBound = 4
    Window = 2
    StartOffset = 1
    Connected = TRUE
    Polls = {"poll"}
    FragmentLimits = {1}
    LimitDistances = {}
    Int32Modulus = 64
    Handlers = {"raw"}
SYMMETRY Symmetry
CHECK_DEADLOCK FALSE
INVARIANTS
    LogIsContiguous
    DeliveredIsTheLog
    ClaimsFindCleanMemory
    ReturnedPosition
    RotatePanicIsARace
