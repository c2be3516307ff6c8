\* A snapshot is taken between a failed write and its handleError.
CONSTANTS
    a = a  b = b  c = c  s1 = s1  k1 = k1  k2 = k2
    NoReplica = NoReplica
    Unspecified = Unspecified
    Replicas <- MCReplicas
    InitRW <- MCInitRW
    Sectors <- OneSector
    Kinds <- Writes
    Pinged <- Nobody
    Units <- OneUnit
    Values <- MCValues
    Zero = 0
    Clients <- OneClient
    Shapes <- WholeOnly
    SnapshotMaxCount = 2
    MaxSnaps = 2
    SectorExclusive = TRUE
    Overtakers <- OnlySnapshot
SPECIFICATION Spec
SYMMETRY ReplicaSymmetry
INVARIANTS AcknowledgedWritesSafe
