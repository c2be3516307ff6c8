SPECIFICATION MCSpec
CONSTANTS u1 = u1
          u2 = u2
          w1 = w1
          w2 = w2
          NoName = NoName
          MetaFile = MetaFile
          NoData = NoData
          Anything = Anything
          Nobody = Nobody
          Ping = Ping
          NoReq = NoReq
          Consumers <- MCConsumers
          Clients <- MCClients
          IO <- Two
          MaxSeq = 3
          MaxBreaks = 1
          OpensFail = TRUE
          Sectors <- MCSectors
          Units = {1, 2}
          DiskClients <- Two
          MaxLayers = 3
          MaxDiskWrites = 3
          SectorExclusive = TRUE
          Pruning = TRUE
          CounterWriters = {1, 2, 3}
          Base = 2
          MaxDigits = 3
          MaxCount = 6
          MaxCounterFaults = 2
          SlowEngine = TRUE
INVARIANTS ContentsKept ReopensAsItWas MemoryMatchesDirectory PurgeLeavesNothing ReadsServed
            WritesCounted ConsumersCounted AnswersMatch
PROPERTIES LastWaitsLong ErrorSticks TimeoutsUsed
SYMMETRY Symmetry
CHECK_DEADLOCK FALSE
