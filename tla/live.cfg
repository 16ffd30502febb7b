CONSTANTS
    m = m
    a = a
    b = b
    Main = m
    None = None
    Threads <- MCThreads2
    AtomicOr = TRUE
    MaxSignals = 0
    AbortOnException = TRUE
    Calls = {"Kernel#raise", "join", "kill"}
    Limits = {FALSE}
SPECIFICATION FairSpec
PROPERTIES ThrownIsTaken JoinReturns
