CONSTANTS
    a = a
    b = b
    c = c
    v = v
    w = w
    None = None
    Threads = {a, b, c}
    Items = {v}
    Sized = FALSE
    InitialMax = 1
    Maxes = {}
    Pushers = {a}
    Poppers = {b, c}
    Killable = {}
    Calls = {}
    MaxLen = 2
    MaxStale = 3
SPECIFICATION Spec
INVARIANTS
    NoStuckPopper
