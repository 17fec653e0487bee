CONSTANTS
    Mandates = {m1}
    Objects = {o1}
    Bytes = {b1, b2}
    Callers = {c1, c2}
    MaxVersion = 3
    None = None
    Commitments = {i1, i2}
    MaxRestarts = 1
SPECIFICATION Spec
SYMMETRY Symmetry
INVARIANTS
    OneProofPerSeal
PROPERTIES
    StoreIsAtomic
