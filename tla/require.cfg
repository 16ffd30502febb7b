CONSTANTS
    a = a
    b = b
    c = c
    f = f
    g = g
    h = h
    None = None
    Threads = {a, b, c}
    Files = {f, g, h}
    MaxEntries = 1
    Deps <- MCDeps
    Exts = {h}
    Failing = {g}
    Wakeable = {c}
    Killable = {c}
SPECIFICATION FairSpec
INVARIANTS
    TypeOK
    TableOwned
    Serialized
PROPERTIES
    WaiterFindsFeature
    WaitEnds
