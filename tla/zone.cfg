CONSTANTS
    p = p
    q = q
    Nil = Nil
    Blocks = {p, q}
    Large = {p}
    Fields = {f}
    Roots = {r}
    WeakRefs = {w}
    Mutators = {a}
    Modes = {TRUE}
    InitialAge = 1
    MaxRetains = 1
SPECIFICATION Spec
INVARIANTS TypeOK AllReachableMarked NoDangling HeapMarked
