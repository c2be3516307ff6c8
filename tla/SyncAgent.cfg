SPECIFICATION MCSpec
CONSTANTS u1 = u1
          u2 = u2
          u3 = u3
          Jobs <- Two
          Values = {0, 1}
          NumBlocks = 2
          MaxChanges = 1
          MaxRots = 0
          MaxHashCrashes = 0
          MaxHashes = 2
          Calls <- Three
          Snapshots = {"s", "t"}
          NumPorts = 2
          Overlap = FALSE
          MaxCloneFaults = 2
          MaxCloneCrashes = 1
          RestoreReplicas = {1}
          RestoreBlocks = 2
          Content <- MCContent
          MaxNames = 2
          MaxCalls = 4
          MaxFaults = 1
          MaxCrashes = 1
          HeadBehind = FALSE
          JobNames = {"a", "b", "c"}
          Adders = {"g1"}
          Retained <- MCRetained
          MaxJobs = 3
          Sources = {"a", "b"}
          Target = "t"
          MaxAdds = 2
          MaxPurges = 1
          MaxTaskFaults = 1
          Race = FALSE
INVARIANTS BackupCoversChanges  ChecksumExact DetectionSticks RestoreExact CloneExact RebuiltExact
PROPERTY JobsKept
SYMMETRY Symmetry
CHECK_DEADLOCK FALSE
