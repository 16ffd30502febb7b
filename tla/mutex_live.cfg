CONSTANTS
    main = main
    a = a
    b = b
    Main = main
    None = None
    Threads <- MCThreads2
    AtomicOr = TRUE
    Mutexes = {x}
    Calls = {"synchronize", "wakeup", "raise", "kill"}
    MaxWaiting = 1
SPECIFICATION FairSpec
INVARIANTS OwnerRuns
PROPERTIES FreeIsTaken
