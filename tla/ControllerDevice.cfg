\* The replicated volume is one disk, and every request to it returns.
CONSTANTS
    a = a  b = b  c = c  s1 = s1  k1 = k1  k2 = k2
    NoReplica = NoReplica
    Unspecified = Unspecified
    Replicas <- Pair
    InitRW <- JustA
    Sectors <- OneSector
    Kinds <- WritesReads
    Pinged <- Nobody
    Units <- OneUnit
    Values <- MCValues
    Zero = 0
    Clients <- TwoClients
    Shapes <- WholeOnly
    SnapshotMaxCount = 2
    MaxSnaps = 1
    SectorExclusive = TRUE
    Overtakers <- Nobody
SPECIFICATION FairSpec
PROPERTIES BehavesAsBlockDevice SuccessfulReadsServed RequestsReturn
