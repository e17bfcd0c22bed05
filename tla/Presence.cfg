CONSTANTS
    s1 = s1 s2 = s2
    None = None
    Socket = {s1, s2}
    MaxQueue = 2
SPECIFICATION FairSpec
INVARIANTS TypeOK SettledPresence SkippedWriteHasFlush
PROPERTY AbsentUserGoesOffline
CHECK_DEADLOCK FALSE
