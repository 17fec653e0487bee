CONSTANTS
    n1 = n1
    gap = gap
    r1 = r1
    r2 = r2
    p1 = p1
    e1 = e1
    e2 = e2
    Nodes = {n1, gap}
    Recordable = {n1}
    Receipts = {r1, r2}
    Refs <- MCRefs
    Processes = {p1}
    Exporters = {e1, e2}
    ProcessOf <- MCProcessOf
    MaxInode = 4
    NoFile = NoFile
SPECIFICATION Spec
INVARIANT WritesAreAtomic
