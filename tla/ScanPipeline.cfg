SPECIFICATION Spec
CONSTANTS
    Paths <- MCPaths
    Objects <- MCObjects
    Contents <- MCContents
    Roots <- MCRoots
    RootOf <- MCRootOf
    Disks <- MCDisks
    MaxScans = 3
    MaxStamp = 5
    WalkBatch = 2
    HashChunk = 2
    Keep = 1
    Budgets <- MCBudgets
    None = None
INVARIANTS
    TypeOK
    HashIsTruth
    ResultIsOfScan
PROPERTIES
    NothingForgotten
    SessionEnds
    ShowsScanResult
