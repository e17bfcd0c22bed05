CONSTANTS
    m1 = m1 p1 = p1
    d1 = d1
    k1 = k1 k2 = k2 k3 = k3 k4 = k4
    x1 = x1 x2 = x2
    NoMsg = NoMsg
    Msg = {m1, k1, k2}
    Direct = {k1, k2}
    KeyPackage = {k1}
    Pusher = {p1}
    Puller = {p1}
    Window = 2
    Threshold = 1
    MaxList = 3
    Holder = {d1}
    Prekey = {k1, k2, k3, k4}
    Tab = {x1, x2}
    MaxFree = 2
    MaxLocal = 4
    Batch = 1
SPECIFICATION PartsSpec
INVARIANTS TypeOK ServableHasSecret OvershootBounded
PROPERTIES KeepsMailbox AnsweredIsKept InboxDrains
CHECK_DEADLOCK FALSE
