SPECIFICATION FairSpec
CONSTANTS
    p1 = p1
    p2 = p2
    Publishers <- TwoPublishers
    Kinds = {"offer"}
    Lengths = {1}
    MaxPayload = 1
    TermLength = 4
    MaxTerms = 1000
    TermBound = 2
    Window = 2
    StartOffset = 1
    Connected = TRUE
    Polls = {"poll"}
    FragmentLimits = {2}
    LimitDistances = {}
    Int32Modulus = 64
    Handlers = {"raw"}
CHECK_DEADLOCK FALSE
PROPERTIES
    ClaimedIsConsumed
    FullTermIsRotated
