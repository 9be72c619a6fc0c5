SPECIFICATION Spec
CONSTANTS
    pk = pk  pa = pa  pb = pb  pm = pm  pn = pn
    i1 = i1  i2 = i2  i3 = i3  i4 = i4  i5 = i5
    g1 = g1  g2 = g2  d1 = d1  d2 = d2
    None = None
    Paths = {pk, pa, pm, pn}
    Inodes = {i1, i2, i3, i4, i5}
    Datasets = {d1, d2}
    Groups = {g1, g2}
    InodeOf <- PairInode
    GroupOf <- PairGroup
    DatasetOf <- PairDataset
    Outside <- NoOutside
    Plans <- PairPlans
    Known = {d1, d2}
    ReflinkSafe = TRUE
    Cloning = {d1, d2}
    Strict <- PairStrict
    Rewinds = TRUE
    MaxSuffix = 1
    MaxOutsider <- PairOutsider
    MaxFaults <- PairFaults
INVARIANTS
    ReportIsTrue
    TrustIsEarned
PROPERTIES
    SnapshotFirst
    Termination
