\* The read of a half-sector write fails on one of two replicas.
CONSTANTS
    a = a  b = b  c = c  s1 = s1  k1 = k1  k2 = k2
    NoReplica = NoReplica
    Unspecified = Unspecified
    Replicas <- MCReplicas
    InitRW <- MCInitRW
    Sectors <- OneSector
    Kinds <- Writes
    Pinged <- Nobody
    Units <- TwoUnits
    Values <- MCValues
    Zero = 0
    Clients <- OneClient
    Shapes <- HalfWrites
    SnapshotMaxCount = 2
    MaxSnaps = 1
    SectorExclusive = TRUE
    Overtakers <- OnlyVerify
SPECIFICATION Spec
PROPERTIES NoErrorWithGoodReplica
