SPECIFICATION Spec
CONSTANTS
    pk = pk  pa = pa  pb = pb  pm = pm  pn = pn
    i1 = i1  i2 = i2  i3 = i3  i4 = i4  i5 = i5
    g1 = g1  g2 = g2  d1 = d1  d2 = d2
    None = None
    Paths = {pk, pa, pb}
    Inodes = {i1, i2, i3, i4, i5}
    Datasets = {d1}
    Groups = {g1}
    InodeOf <- AliasInode
    GroupOf <- AliasGroup
    DatasetOf <- AliasDataset
    Outside <- NoOutside
    Plans <- AliasPlans
    Known = {d1}
    ReflinkSafe = TRUE
    Cloning = {d1}
    Strict = {}
    Rewinds = FALSE
    MaxSuffix = 1
    MaxOutsider <- Once
    MaxFaults <- Once
INVARIANTS
    TypeOK
    LedgerIsRight
PROPERTIES
    NothingLost
SYMMETRY Spares
