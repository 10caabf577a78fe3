SPECIFICATION Spec
CONSTANTS
    u1 = u1
    u2 = u2
    conductor = conductor
    Conductor = conductor
    Users <- TwoUsers
    Closers = {u2}
    Kinds = {"sub"}
    MaxRegs = 1
    MaxImages = 2
    LingeringCap = 4
    Faults = {"serviceTimeout", "clientTimeout", "stopTimeout"}
INVARIANT InUseIsMapped
INVARIANT NothingIsLost
CHECK_DEADLOCK FALSE
