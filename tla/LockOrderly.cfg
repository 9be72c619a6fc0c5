SPECIFICATION Spec
CONSTANTS
    Procs = {p1, p2, p3}
    Files = {f1, f2}
    Clis <- SomeClis
    Old = Old
    None = None
INVARIANTS
    TypeOK
    OneOperator
    NameKept
    LockTells
SYMMETRY Symmetry
