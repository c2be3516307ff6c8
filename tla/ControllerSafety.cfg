\* One request at a time, every kind, every failure; a third replica joins.
CONSTANTS
    a = a  b = b  c = c  s1 = s1  k1 = k1  k2 = k2
    NoReplica = NoReplica
    Unspecified = Unspecified
    Replicas <- MCReplicas
    InitRW <- MCInitRW
    Sectors <- OneSector
    Kinds <- AllKinds
    Pinged <- JustC
    Units <- OneUnit
    Values <- MCValues
    Zero = 0
    Clients <- OneClient
    Shapes <- WholeOnly
    SnapshotMaxCount = 2
    MaxSnaps = 1
    SectorExclusive = TRUE
    Overtakers <- OnlyVerify
SPECIFICATION Spec
SYMMETRY ReplicaSymmetry
INVARIANTS TypeOK AcknowledgedWritesSafe
PROPERTIES NoErrorWithGoodReplica
