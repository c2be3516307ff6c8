----------------------------- MODULE MCReplica -----------------------------
(***************************************************************************)
(* The parts of a replica, and of the connection of the engine to it, on   *)
(* small instances.  They share no state here, so that nothing is gained   *)
(* by interleaving them: the initial state picks the part that runs, and   *)
(* the others stay as they are.                                            *)
(***************************************************************************)
EXTENDS SharedTimeouts, DataConn, DiffDisk, RevisionCounter, TLC

CONSTANTS u1, u2,                          \* snapshots, clients of a disk, or requests
          w1, w2,                          \* sectors of a disk
          NoName, MetaFile                 \* of SnapshotPurge

Two == {u1, u2}
MCSectors == {w1, w2}
Symmetry == Permutations(Two) \cup Permutations(MCSectors)
MCConsumers == {"a", "b", "c"}
MCClients == {1, 2}

VARIABLES
    part,
    fs, store, mem, todo, call, faults, writes, want, kept, wantReb, reply, agent, quiet,
    disk, req, res

chainVars  == <<fs, store, mem, todo, call, faults, writes, want, kept, wantReb, reply, agent, quiet>>
rangesVars == <<disk, req, res>>
mcVars == <<part, chainVars, diskVars, rangesVars, counterVars, timeoutVars, connVars>>

-----------------------------------------------------------------------------
\* The disk chain under crashes, with discards, from an empty directory, and next to
\* a purge that meets crashes or a tree of snapshots.
Crash == INSTANCE SnapshotPurge WITH
    Snaps <- Two, Blocks <- {1}, MaxHead <- 3, MaxWrites <- 1, MaxFaults <- 1, SnapshotMaxCount <- 2,
    UnmapMark <- FALSE, Users <- {TRUE},
    Calls <- {"create", "open", "close", "reload", "snapshot", "revert", "mark", "rebuilding", "write"}
Discard == INSTANCE SnapshotPurge WITH
    Snaps <- Two, Blocks <- {1}, MaxHead <- 3, MaxWrites <- 2, MaxFaults <- 0, SnapshotMaxCount <- 2,
    UnmapMark <- TRUE, Users <- {TRUE}, Calls <- {"snapshot", "revert", "mark", "write", "unmap"}
Make == INSTANCE SnapshotPurge WITH
    Snaps <- Two, Blocks <- {1}, MaxHead <- 3, MaxWrites <- 0, MaxFaults <- 1, SnapshotMaxCount <- 2,
    UnmapMark <- FALSE, Users <- {TRUE}, Calls <- {"create", "open", "close", "snapshot", "delete"}
Purge == INSTANCE SnapshotPurge WITH
    Snaps <- Two, Blocks <- {1}, MaxHead <- 2, MaxWrites <- 1, MaxFaults <- 1, SnapshotMaxCount <- 3,
    UnmapMark <- FALSE, Users <- {TRUE}, Calls <- {"open", "snapshot", "mark", "write", "purge"}
PurgeTree == INSTANCE SnapshotPurge WITH
    Snaps <- Two, Blocks <- {1}, MaxHead <- 3, MaxWrites <- 1, MaxFaults <- 0, SnapshotMaxCount <- 3,
    UnmapMark <- FALSE, Users <- {TRUE, FALSE}, Calls <- {"snapshot", "revert", "mark", "write", "purge"}

Ranges == INSTANCE DiffDiskRanges WITH
    SectorSize <- 3, VolumeSectors <- 3, NumLayers <- 2, Width <- 5, ShortLayers <- FALSE

-----------------------------------------------------------------------------
MCInit ==
    /\ part \in {"crash", "discard", "create", "purge", "tree", "table", "halves", "ranges", "counter",
                 "timeouts", "conn", "conns"}
    /\ CASE part = "create" -> Make!InitEmpty /\ agent = Make!Rest /\ quiet = FALSE
         [] part = "purge"  -> Purge!PurgeInit
         [] OTHER           -> Crash!PurgeInit
    /\ DiskInit
    /\ IF part = "ranges" THEN Ranges!Init ELSE disk = <<>> /\ req = <<>> /\ res = Ranges!NoResult
    /\ CounterInit
    /\ TimeoutsInit
    /\ ConnInit

ChainNext ==
    \/ part = "crash" /\ Crash!ReplicaNext /\ UNCHANGED <<agent, quiet>>
    \/ part = "discard" /\ Discard!ReplicaNext /\ UNCHANGED <<agent, quiet>>
    \/ part = "create" /\ Make!ReplicaNext /\ UNCHANGED <<agent, quiet>>
    \/ part = "purge" /\ Purge!PurgeNext
    \/ part = "tree" /\ PurgeTree!PurgeNext

\* A step of the chain, the disk, or the connection.
InChain(A) == A /\ UNCHANGED <<part, diskVars, rangesVars, counterVars, timeoutVars, connVars>>
InTable(A) == A /\ UNCHANGED <<part, chainVars, rangesVars, counterVars, timeoutVars, connVars>>
InRanges(A) == A /\ UNCHANGED <<part, chainVars, diskVars, counterVars, timeoutVars, connVars>>
InCounter(A) == A /\ UNCHANGED <<part, chainVars, diskVars, rangesVars, timeoutVars, connVars>>
InTimeouts(A) == A /\ UNCHANGED <<part, chainVars, diskVars, rangesVars, counterVars, connVars>>
InConn(A) == A /\ UNCHANGED <<part, chainVars, diskVars, rangesVars, counterVars, timeoutVars>>

\* Requests of whole sectors, or of any part of one sector.
WholeSectors == \A c \in DiskClients : op'[c] # None => op'[c].units = Units
OneSector == \A c \in DiskClients : op'[c] # None => op'[c].s = w1

\* One client with two requests and pings; two clients with a request each.
OneClient == loop'[2] = "none"
OneRequest ==
    \A c \in Clients : phase'[c][Ping] = "new" /\ Cardinality({r \in IO : phase'[c][r] # "new"}) <= 1

MCNext ==
    \/ InChain(ChainNext)
    \/ part = "table" /\ InTable(DiskNext /\ WholeSectors)
    \/ part = "halves" /\ InTable(DiskNext /\ OneSector)
    \/ part = "ranges" /\ InRanges(Ranges!Next)
    \/ part = "counter" /\ InCounter(CounterNext)
    \/ part = "timeouts" /\ InTimeouts(TimeoutsNext)
    \/ part = "conn" /\ InConn(ConnNext /\ OneClient)
    \/ part = "conns" /\ InConn(ConnNext /\ OneRequest)

MCSpec == MCInit /\ [][MCNext]_mcVars

-----------------------------------------------------------------------------
\* What the volume and the acknowledged snapshots read survives snapshots, reverts,
\* discards, purges and crashes (createDisk, revertDisk, UnmapAt, RemoveDiffDisk,
\* ReplaceDisk).
ContentsKept ==
    /\ part \in {"crash", "tree"} => Crash!VolumePreserved
    /\ part \in {"crash", "discard", "tree"} => Crash!SnapshotsPreserved
    /\ part = "purge" => Purge!VolumePreserved /\ Purge!SnapshotsPreserved

\* A directory left by a crash can be opened, and a replica that was being rebuilt is
\* still known as such (construct, SetRebuilding).
ReopensAsItWas ==
    /\ part = "crash" => Crash!AlwaysReopenable /\ Crash!RebuildingRemembered
    /\ part = "purge" => Purge!AlwaysReopenable

\* Between calls memory describes the chain of the directory, and a call that failed
\* left the directory as it was (createDisk, revertDisk, removeDiskNode, ReplaceDisk).
MemoryMatchesDirectory ==
    /\ part \in {"crash", "discard", "create", "tree"} => Crash!MemoryMatchesDirectory
    /\ part = "crash" => Crash!RollbackRestores
    /\ part = "purge" => Purge!MemoryMatchesDirectory

\* A purge that nothing disturbed leaves no disk it could remove (purgeSnapshots).
PurgeLeavesNothing == part = "tree" => PurgeTree!PurgeLeavesNothing

\* Reads, writes and discards of any offset and length are cut into the right pieces
\* (diffDisk.ReadAt, WriteAt, UnmapAt).
RequestsCutRight == part = "ranges" => Ranges!ReadsMatch /\ Ranges!WritesMatch /\ Ranges!UnmapsMatch
=============================================================================
