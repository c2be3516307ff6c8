\* Two requests at once, on replicas that fail and come back.
CONSTANTS
    a = a  b = b  c = c  s1 = s1  k1 = k1  k2 = k2
    NoReplica = NoReplica
    Unspecified = Unspecified
    Replicas <- MCInitRW
    InitRW <- MCInitRW
    Sectors <- OneSector
    Kinds <- AllKinds
    Pinged <- Nobody
    Units <- OneUnit
    Values <- MCValues
    Zero = 0
    Clients <- TwoClients
    Shapes <- WholeOnly
    SnapshotMaxCount = 2
    MaxSnaps = 1
    SectorExclusive = TRUE
    Overtakers <- OnlyVerify
SPECIFICATION Spec
SYMMETRY FullSymmetry
INVARIANTS AcknowledgedWritesSafe
