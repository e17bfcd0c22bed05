CONSTANTS
    A = A B = B
    a1 = a1 b1 = b1
    h1 = h1 h2 = h2
    None = None
    User = {A, B}
    Socket = {a1, b1}
    Owner <- MCOwner
    Task = {h1, h2}
    MaxClock = 2
    MaxMsgs = 1
    Page = 1
    MaxActs = 2
    MaxFaults = 1
    MaxMsgActs = 1
    MaxMsgFaults = 1
SPECIFICATION PartsSpec
INVARIANTS PartsTypeOK ListIsCorrected UnreadIsReported AloneHasTimer NoEmptyCall
PROPERTIES AloneCallEnds PageConverges NewestArrive
CHECK_DEADLOCK FALSE
