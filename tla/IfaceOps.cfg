SPECIFICATION FairSpec
CONSTANTS
    s1 = s1
    s2 = s2
    d1 = d1
    d2 = d2
    None = None
    Scans <- TwoScans
    Dirs <- TwoDirs
    Budgets <- AllBudgets
INVARIANTS
    TypeOK
    OneActor
    MarksHonest
    ExitWaits
PROPERTIES
    ShutdownEnds
    ScanScreenLeaves
