CONSTANTS
    A = A B = B
    a1 = a1 a2 = a2 b1 = b1
    h1 = h1 h2 = h2
    None = None
    User = {A, B}
    Socket = {a1, b1}
    Owner <- MCOwner
    Task = {h1, h2}
    MaxClock = 2
SPECIFICATION Spec
SYMMETRY TaskSymmetry
INVARIANT DurationOfCall
CHECK_DEADLOCK FALSE
