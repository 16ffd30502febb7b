CONSTANTS
    main = main
    a = a
    b = b
    Main = main
    None = None
    Threads <- MCThreads3
    AtomicOr = TRUE
    Mutexes = {x}
    Calls = {"synchronize", "try_lock", "wakeup", "Mutex#sleep"}
    MaxWaiting = 2
SPECIFICATION Spec
SYMMETRY MCSymmetry
INVARIANTS TypeOK OwnerRuns WaitersCounted NoStuckWaiter
