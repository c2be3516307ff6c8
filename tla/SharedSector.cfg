\* Two writes to the two halves of one sector while a replica is rebuilt.
CONSTANTS
    a = a  b = b  c = c  s1 = s1  k1 = k1  k2 = k2
    NoReplica = NoReplica
    Unspecified = Unspecified
    Replicas <- Pair
    InitRW <- JustA
    Sectors <- OneSector
    Kinds <- Writes
    Pinged <- Nobody
    Units <- TwoUnits
    Values <- MCValues
    Zero = 0
    Clients <- TwoClients
    Shapes <- HalfWrites
    SnapshotMaxCount = 2
    MaxSnaps = 1
    SectorExclusive = FALSE
    Overtakers <- OnlyVerify
SPECIFICATION Spec
INVARIANTS AcknowledgedWritesSafe
