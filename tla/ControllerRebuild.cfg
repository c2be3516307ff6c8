\* Snapshots, and writes of half a sector, during a rebuild: the inductive invariant.
CONSTANTS
    a = a  b = b  c = c  s1 = s1  k1 = k1  k2 = k2
    NoReplica = NoReplica
    Unspecified = Unspecified
    Replicas <- Pair
    InitRW <- JustA
    Sectors <- OneSector
    Kinds <- Writes
    Pinged <- Nobody
    Units <- TwoUnits
    Values <- MCValues
    Zero = 0
    Clients <- OneClient
    Shapes <- FirstHalf
    SnapshotMaxCount = 2
    MaxSnaps = 2
    SectorExclusive = TRUE
    Overtakers <- OnlyVerify
SPECIFICATION Spec
INVARIANT Inv
