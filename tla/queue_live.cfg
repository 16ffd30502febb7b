CONSTANTS
    a = a
    b = b
    c = c
    v = v
    w = w
    None = None
    Threads = {a, b}
    Items = {v, w}
    Sized = TRUE
    InitialMax = 1
    Maxes = {}
    Pushers = {a, b}
    Poppers = {b}
    Killable = {}
    Calls = {"wakeup", "pop_nonblock"}
    MaxLen = 3
    MaxStale = 2
SPECIFICATION FairSpec
INVARIANTS
    PusherAnnounced
PROPERTIES
    PopperServed
    PusherServed
    ImplementsFifo
CHECK_DEADLOCK FALSE
