CONSTANTS
    a = a
    b = b
    c = c
    v = v
    w = w
    None = None
    Threads = {a, b, c}
    Items = {v, w}
    Sized = TRUE
    InitialMax = 1
    Maxes = {2}
    Pushers = {a, b}
    Poppers = {b, c}
    Killable = {c}
    Calls = {"clear"}
    MaxLen = 2
    MaxStale = 0
SPECIFICATION Spec
SYMMETRY MCSymmetry
INVARIANTS
    TypeOK
    PopperAnnounced
PROPERTIES
    ImplementsFifo
CHECK_DEADLOCK FALSE
