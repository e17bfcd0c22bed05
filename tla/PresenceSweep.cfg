CONSTANTS
    s1 = s1 s2 = s2
    None = None
    Socket = {s1, s2}
    MaxQueue = 2
SPECIFICATION Spec
SYMMETRY Symmetry
PROPERTY SweepSparesConnected
CHECK_DEADLOCK FALSE
