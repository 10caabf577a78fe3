SPECIFICATION Spec
CONSTANTS
    u1 = u1
    u2 = u2
    conductor = conductor
    Conductor = conductor
    Users <- OneUser
    Closers = {u1}
    Kinds = {"pub"}
    MaxRegs = 2
    MaxImages = 0
    LingeringCap = 3
    Faults = {}
INVARIANT CloseClosesAll
CHECK_DEADLOCK FALSE
