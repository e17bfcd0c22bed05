CONSTANTS
    A = A B = B
    a1 = a1 a2 = a2 b1 = b1
    h1 = h1 h2 = h2
    None = None
    User = {A, B}
    Socket = {a1, b1}
    Owner <- MCOwner
    Task = {h1, h2}
    GraceTask = GraceTask
    MaxCalls = 2
    NoConv = NoConv
    CallConv = {h1, h2}
    NoId = NoId
    c1 = c1 c2 = c2 e1 = e1 e2 = e2
    Thread = {h1, h2}
    DeviceA = {c1, c2}
    DeviceB = {e1, e2}
    ThreadReq = {h1, h2}
    MaxPages = 1
    MaxActs = 4
SPECIFICATION AllSpec
SYMMETRY TaskSymmetry
INVARIANTS PartsTypeOK NoPhantomRecord RingerIsShown AnsweredOnce OneLiveThread
PROPERTIES KeepsLife PinReplacedByOverlapOrEvent
CHECK_DEADLOCK FALSE
