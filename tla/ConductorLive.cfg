SPECIFICATION FairSpec
CONSTANTS
    u1 = u1
    u2 = u2
    conductor = conductor
    Conductor = conductor
    Users <- TwoUsers
    Closers = {u2}
    Kinds = {"pub", "counter"}
    MaxRegs = 2
    MaxImages = 0
    LingeringCap = 3
    Faults = {"ringFull", "driverTimeout", "serviceTimeout", "clientTimeout", "stopTimeout"}
INVARIANT RegistryIsExact
INVARIANT NothingIsLost
PROPERTY CallsReturn
PROPERTY LingeringIsClosed
CHECK_DEADLOCK FALSE
