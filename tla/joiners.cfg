CONSTANTS
    m = m
    a = a
    b = b
    Main = m
    None = None
    Threads <- MCThreads
    AtomicOr = TRUE
    MaxSignals = 0
    AbortOnException = FALSE
    Calls = {"join", "wakeup"}
    Limits = {FALSE}
SPECIFICATION Spec
SYMMETRY MCSymmetry
INVARIANTS NoOrphanJoiner NoHang
