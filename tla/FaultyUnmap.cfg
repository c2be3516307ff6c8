\* A replica fails an unmap and another is blamed.
CONSTANTS
    a = a  b = b  c = c  s1 = s1  k1 = k1  k2 = k2
    NoReplica = NoReplica
    Unspecified = Unspecified
    Replicas <- MCReplicas
    InitRW <- MCInitRW
    Sectors <- OneSector
    Kinds <- AllKinds
    Pinged <- Nobody
    Units <- OneUnit
    Values <- MCValues
    Zero = 0
    Clients <- OneClient
    Shapes <- WholeOnly
    SnapshotMaxCount = 2
    MaxSnaps = 1
    SectorExclusive = TRUE
    Overtakers <- OnlyVerify
SPECIFICATION Spec
SYMMETRY ReplicaSymmetry
PROPERTIES FaultyReplicasMarked
