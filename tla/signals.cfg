CONSTANTS
    m = m
    a = a
    b = b
    Main = m
    None = None
    Threads <- MCThreads2
    AtomicOr = TRUE
    MaxSignals = 1
    AbortOnException = FALSE
    Calls = {"sleep", "raise"}
    Limits = {FALSE}
SPECIFICATION FairSpec
INVARIANTS ThrownIsFlagged
PROPERTIES SignalIsTaken
