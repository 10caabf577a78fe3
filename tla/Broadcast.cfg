SPECIFICATION FairSpec
CONSTANTS
    Capacity = 4
    Payloads = {1, 2}
    MaxTransmitted = 5
    GarbageLengths <- AnyLength
    GarbageTypes <- AnyType
    ScratchCapacity = 20
INVARIANT DeliveredIsTransmitted
INVARIANT AtRecordEnd
PROPERTY TransmittedIsReceived
CHECK_DEADLOCK FALSE
