CONSTANTS
    m = m
    a = a
    b = b
    Main = m
    None = None
    Threads <- MCThreads2
    AtomicOr = TRUE
    MaxSignals = 0
    AbortOnException = FALSE
    Calls = {"Kernel#raise", "sleep", "Thread.stop", "Thread.pass", "wakeup", "run", "join", "raise", "kill", "EAGAIN"}
    Limits = {TRUE, FALSE}
SPECIFICATION Spec
INVARIANTS TypeOK CurrentIsHolder ThrownIsFlagged NoSleepInterrupted StatusTellsTruth ExitAlone
PROPERTIES DeadIsForever
