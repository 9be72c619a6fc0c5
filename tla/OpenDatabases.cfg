SPECIFICATION Spec
CONSTANTS
    Conns = {c1, c2}
    Readers = {r1}
    Movers = {m1}
    Db = Db
    Index = Index
    Plain = {p1, p2}
    Inodes = {i1, i2, i3, i4}
    MaxOutside = 1
    None = None
INVARIANTS
    ListIsTrue
PROPERTIES
    KeptAtItsName
SYMMETRY Symmetry
