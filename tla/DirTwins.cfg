SPECIFICATION Spec
CONSTANTS
    Entries <- MCEntries
    Folders <- MCFolders
    Roots <- MCRoots
    AliasTarget <- MCAliasTarget
    Worlds <- MCWorlds
    SizeOf <- MCSizeOf
    CheckEvery = 2
    MaxU64 = 2
    MaxI64 = 1
    Faults = 2
    FaultSites <- MCSites
    None = None
INVARIANTS
    TypeOK
    WalkIsAccounted
    GroupingIsSound
    CleanMeansComplete
