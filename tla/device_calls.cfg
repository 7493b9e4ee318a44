SPECIFICATION FairSpec
CONSTANTS
    p1 = p1
    p2 = p2
    d1 = d1
    Process = {p1, p2}
    Device = {d1}
    DeviceOf <- SameDevice
    Client = p1
    Nobody = Nobody
    CountBound = 2
    MaxDue = 2
INVARIANTS TypeOK SemaphoresReturned FreshAck ListSound CountWithinEntries PollSeesData
PROPERTY CallsReturn
CHECK_DEADLOCK FALSE
