CONSTANTS
    a1 = a1 a2 = a2 d1 = d1 d2 = d2
    t1 = t1 k1 = k1
    c1 = c1 c2 = c2
    j1 = j1 j2 = j2 q1 = q1 x1 = x1 x2 = x2
    NoId = NoId
    Thread = {t1}
    DeviceA = {a1, a2}
    DeviceB = {d1, d2}
    ThreadReq = {q1}
    Holder = {d1, d2}
    Prekey = {k1}
    Tab = {q1}
    MaxFree = 1
    MaxLocal = 1
    Batch = 1
    Starter = {a1, a2}
    Joiner = {d2}
    Job = {j1, j2}
    Copy = {x1, x2}
    AskAt = 1
    Poison = 1
    MinReserve = 1
    MaxFaults = 1
    NoChat = NoChat
    Chat = {c1, c2}
    Page = 1
    MaxMsgs = 3
    Load = {q1}
    MaxLoadFaults = 1
    NoLogin = NoLogin
    Login = {c1, c2}
    Req = {j1, j2}
    MaxHops = 2
    MaxGen = 3
    MaxSessionFaults = 2
SPECIFICATION PartsSpec
SYMMETRY Symmetry
INVARIANTS PartsTypeOK KeysAgree OnlyChosenAreKeyed OnlyRepeatsMiss KeyNotForgotten NoHoles RetriesWithNewer
PROPERTY SignedOutOnlyWhenRevoked
CHECK_DEADLOCK FALSE
