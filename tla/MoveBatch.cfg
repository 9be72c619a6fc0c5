SPECIFICATION Spec
CONSTANTS
    Size <- mcSize
    Digest <- mcDigest
    Scenes <- mcScenes
    Strangers <- mcStrangers
    StrangeNames <- mcNames
    Datasets <- mcDatasets
    StateFiles <- mcStateFiles
    Database = db
    LockFile = lock
    Dir = Dir
    Link = Link
    None = None
    i1 = i1
    i2 = i2
    i3 = i3
    i4 = i4
    db = db
    lock = lock
    logs = logs
    fresh = fresh
    tank = tank
    pool = pool
INVARIANTS
    TypeOK
    FilesStand
    RecordIsTrue
PROPERTIES
    TwinNamed
    SafeguardReaches
    PendingSettles
