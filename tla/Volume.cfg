SPECIFICATION MCSpec
CONSTANTS u1 = u1
          u2 = u2
          u3 = u3
          Replicas <- MCReplicas
          NewReplica = u3
          Tasks <- MCTasks
          Sizes <- MCSizes
          SameSize = FALSE
          OverlapAdd = FALSE
          Callers <- Two
          Overlap = FALSE
          MaxCrashes = 1
          MaxToolFaults = 2
          LimitReplicas <- Two
          Calls = {1, 2}
          Counts = {1, 2}
          MaxSizes = {0, 1}
          MaxHead = 1
          MaxSnapshots = 3
          MaxLimitFaults = 0
          LifeReplicas <- Two
          Overlaps = {}
          MaxLifeFaults = 2
          MaxDeviceFaults = 0
          MaxRounds = 2
          Sources = {"a", "b"}
          Target = "t"
          MaxWrites = 2
          MaxReverts = 2
          MaxRevertFaults = 1
          Race = FALSE
          Starts <- MCStarts
          Period = 3
          MaxInt = 9
INVARIANTS ReplicasCoverVolume ReplicasAgree StartedRight FreezeRight  
           RevertedTogether
PROPERTY NeverShrinks
SYMMETRY Symmetry
CHECK_DEADLOCK FALSE
