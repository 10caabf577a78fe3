SPECIFICATION Spec
CONSTANTS
    p1 = p1
    p2 = p2
    Publishers <- OnePublisher
    Kinds = {"offer2", "claim", "position", "close"}
    Lengths = {0, 2}
    MaxPayload = 1
    TermLength = 8
    MaxTerms = 2
    TermBound = 2
    Window = 2
    StartOffset = 6
    Connected = FALSE
    Polls = {"bounded", "controlled", "close"}
    FragmentLimits = {2}
    LimitDistances = {3}
    Int32Modulus = 64
    Handlers = {"raw", "fragments", "controlled"}
CHECK_DEADLOCK FALSE
INVARIANTS
    PositionCoversDelivered
    MessagesAreWhole
