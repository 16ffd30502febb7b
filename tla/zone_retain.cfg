CONSTANTS
    p = p
    q = q
    Nil = Nil
    Blocks = {p, q}
    Large = {}
    Fields = {f}
    Roots = {r}
    WeakRefs = {}
    Mutators = {a}
    Modes = {FALSE}
    InitialAge = 1
    MaxRetains = 1
SPECIFICATION Spec
SYMMETRY MCSymmetry
INVARIANTS RetainedMarked
