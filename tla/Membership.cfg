CONSTANTS
    Paths <- mcPaths
    Digests <- mcDigests
    MaxScans = 2
    Worlds <- mcWorlds
    Legacies <- mcLegacies
    Budgets <- mcBudgets
    None = None

SPECIFICATION Spec
INVARIANTS
    TypeOK
    LeasedIsPlanned
    VerdictIsFresh
    ResultsStand
PROPERTIES
    PlanIsLeasable
