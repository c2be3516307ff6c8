------------------------------ MODULE DiffDisk ------------------------------
(***************************************************************************)
(* The differencing disk of an open replica: pkg/replica/diff_disk.go.     *)
(*                                                                         *)
(* The volume is a list of layers.  The location table remembers for every *)
(* sector the layer to read it from; it is filled when a sector is first   *)
(* read, by asking the file system from the top layer down which one holds *)
(* data, and when a sector is written.  Requests run next to one another,  *)
(* holding the replica's lock for reading, and use the table without any   *)
(* other lock, except that writes of less than a sector, which read the    *)
(* sector first, exclude one another by rmLock.  What takes the lock for   *)
(* writing (a snapshot, the removal of a layer, a discard) runs alone.     *)
(***************************************************************************)
EXTENDS Integers, Sequences, FiniteSets, FiniteSetsExt

CONSTANTS Sectors, Units, DiskClients,
          NoData,     \* a sector that a layer does not hold
          Anything,   \* history: a unit whose contents are unspecified
          Nobody,
          MaxLayers,  \* bound: layers
          MaxDiskWrites, \* bound: writes in a behaviour
          SectorExclusive,  \* TRUE: no two requests to a sector at a time;
                            \* FALSE: no two requests to a unit at a time
          Pruning     \* the layer behind the head may be pruned

ASSUME DiskAssumption == Units # {} /\ NoData \notin [Units -> Nat] /\ MaxLayers \in Nat

Zeroes == [u \in Units |-> 0]
Absent == [s \in Sectors |-> NoData]

VARIABLES
    layers,   \* d.files[1..]: what each layer holds of each sector
    location, \* d.location
    op,       \* the request each client is serving
    rmLock,   \* the client that holds d.rmLock
    diskWrites,
    vol       \* history: what the acknowledged writes make of the volume

diskVars == <<layers, location, op, rmLock, diskWrites, vol>>

None == [pc |-> "none"]

Top == Len(layers)

\* The units a client's request touches, and those in flight at a sector.
Busy(s, U) == \E c \in DiskClients :
                 /\ op[c].pc # "none" /\ op[c].s = s
                 /\ SectorExclusive \/ op[c].units \cap U # {}

\* The topmost layer that holds the sector; the base layer if none does.
Holder(s) == Max({1} \cup {i \in DOMAIN layers : layers[i][s] # NoData})

Step(c, pc) == op' = [op EXCEPT ![c].pc = pc]

-----------------------------------------------------------------------------
\* Requests

\* A read of some units; the whole sector is fetched (ReadAt, fullReadAt).
StartRead(c, s, U) ==
    /\ op[c].pc = "none" /\ ~Busy(s, U)
    /\ op' = [op EXCEPT ![c] = [pc |-> "lookup", kind |-> "read", s |-> s, units |-> U,
                                value |-> 0, at |-> 0, buf |-> Zeroes, before |-> vol[s]]]
    /\ UNCHANGED <<layers, location, rmLock, diskWrites, vol>>

\* WriteAt: a whole sector is written as it is, a part of one under rmLock.
StartWrite(c, s, U) ==
    /\ op[c].pc = "none" /\ ~Busy(s, U) /\ diskWrites < MaxDiskWrites
    /\ diskWrites' = diskWrites + 1
    /\ op' = [op EXCEPT ![c] = [pc |-> IF U = Units THEN "write" ELSE "lock", kind |-> "write",
                                s |-> s, units |-> U, value |-> diskWrites + 1, at |-> 0,
                                buf |-> [u \in Units |-> diskWrites + 1], before |-> vol[s]]]
    /\ UNCHANGED <<layers, location, rmLock, vol>>

\* readModifyWrite takes rmLock.
TakeLock(c) ==
    /\ op[c].pc = "lock" /\ rmLock = Nobody
    /\ rmLock' = c
    /\ Step(c, "lookup")
    /\ UNCHANGED <<layers, location, diskWrites, vol>>

\* lookup: the table knows the sector, or the layers are asked from the top.
Lookup(c) ==
    /\ op[c].pc = "lookup"
    /\ op' = IF location[op[c].s] # 0
             THEN [op EXCEPT ![c].pc = "fetch", ![c].at = location[op[c].s]]
             ELSE [op EXCEPT ![c].pc = "scan", ![c].at = Top]
    /\ UNCHANGED <<layers, location, rmLock, diskWrites, vol>>

\* One call of Fiemap; the base layer is not asked.
Scan(c) ==
    /\ op[c].pc = "scan"
    /\ op' = IF op[c].at = 1 THEN [op EXCEPT ![c].pc = "check"]
             ELSE IF layers[op[c].at][op[c].s] # NoData THEN [op EXCEPT ![c].pc = "store"]
             ELSE [op EXCEPT ![c].at = @ - 1]
    /\ UNCHANGED <<layers, location, rmLock, diskWrites, vol>>

\* The answer is stored in the table,
Store(c) ==
    /\ op[c].pc = "store"
    /\ location' = [location EXCEPT ![op[c].s] = op[c].at]
    /\ Step(c, "check")
    /\ UNCHANGED <<layers, rmLock, diskWrites, vol>>

\* and the table is read again: still 0 means that no layer above the base
\* holds the sector.
Check(c) ==
    /\ op[c].pc = "check"
    /\ op' = IF location[op[c].s] = 0
             THEN [op EXCEPT ![c].pc = "store", ![c].at = 1]
             ELSE [op EXCEPT ![c].pc = "fetch", ![c].at = location[op[c].s]]
    /\ UNCHANGED <<layers, location, rmLock, diskWrites, vol>>

\* read: a hole reads as zeroes.  A read is done; a write of less than a
\* sector puts its units into what it has read.
Fetch(c) ==
    LET held == layers[op[c].at][op[c].s]
        got  == IF held = NoData THEN Zeroes ELSE held
    IN  /\ op[c].pc = "fetch"
        /\ op' = [op EXCEPT
                    ![c].pc  = IF op[c].kind = "read" THEN "done" ELSE "write",
                    ![c].buf = IF op[c].kind = "read" THEN got
                               ELSE [u \in Units |-> IF u \in op[c].units THEN op[c].value ELSE got[u]]]
        /\ UNCHANGED <<layers, location, rmLock, diskWrites, vol>>

\* fullWriteAt: the top layer is written, then the table is updated.
Write(c) ==
    /\ op[c].pc = "write"
    /\ layers' = [layers EXCEPT ![Top][op[c].s] = op[c].buf]
    /\ Step(c, "mark")
    /\ UNCHANGED <<location, rmLock, diskWrites, vol>>

Mark(c) ==
    /\ op[c].pc = "mark"
    /\ location' = [location EXCEPT ![op[c].s] = Top]
    /\ rmLock' = IF rmLock = c THEN Nobody ELSE rmLock
    /\ Step(c, "done")
    /\ UNCHANGED <<layers, diskWrites, vol>>

\* The request is answered.
Return(c) ==
    /\ op[c].pc = "done"
    /\ op' = [op EXCEPT ![c] = None]
    /\ vol' = IF op[c].kind = "read" THEN vol
              ELSE [vol EXCEPT ![op[c].s] = [u \in Units |-> IF u \in op[c].units THEN op[c].value ELSE @[u]]]
    /\ UNCHANGED <<layers, location, rmLock, diskWrites>>

-----------------------------------------------------------------------------
\* What runs alone, with the replica's lock held for writing

Alone == \A c \in DiskClients : op[c].pc = "none"

\* createDisk appends the new head.
NewHead ==
    /\ Alone /\ Top < MaxLayers
    /\ layers' = Append(layers, Absent)
    /\ UNCHANGED <<location, op, rmLock, diskWrites, vol>>

\* ReplaceDisk of layer i by its child, which was folded into it: RemoveIndex
\* drops the layer and moves every larger index down by one.
Merged(i) == [s \in Sectors |-> IF layers[i + 1][s] # NoData THEN layers[i + 1][s] ELSE layers[i][s]]

\* Mutant: the indices above the removed one are not moved.
RemoveIndexOnly(i) == [s \in Sectors |-> IF location[s] = i THEN 0 ELSE location[s]]

RemoveIndex(i) ==
    [s \in Sectors |-> IF location[s] = i THEN 0
                       ELSE IF location[s] > i THEN location[s] - 1 ELSE location[s]]

Coalesce(i) ==
    /\ Alone /\ i + 1 < Top
    /\ layers' = [k \in 1..(Top - 1) |-> IF k < i THEN layers[k]
                                         ELSE IF k = i THEN Merged(i) ELSE layers[k + 1]]
    /\ location' = RemoveIndex(i)
    /\ UNCHANGED <<op, rmLock, diskWrites, vol>>

\* UnmapAt of a sector in the top layer; the table stays as it is.
Unmap(s) ==
    /\ Alone
    /\ layers[Top][s] # NoData
    /\ layers' = [layers EXCEPT ![Top][s] = NoData]
    /\ vol' = [vol EXCEPT ![s] = [u \in Units |-> Anything]]
    /\ UNCHANGED <<location, op, rmLock, diskWrites>>

\* The replica is opened again: nothing is known of any sector.
Reopen ==
    /\ Alone
    /\ location' = [s \in Sectors |-> 0]
    /\ location' # location
    /\ UNCHANGED <<layers, op, rmLock, diskWrites, vol>>

\* External: the sync agent prunes the layer behind the head, at any time,
\* of what the head holds.
Prune(s) ==
    /\ Pruning /\ Top > 1
    /\ layers[Top][s] # NoData /\ layers[Top - 1][s] # NoData
    /\ layers' = [layers EXCEPT ![Top - 1][s] = NoData]
    /\ UNCHANGED <<location, op, rmLock, diskWrites, vol>>

-----------------------------------------------------------------------------
DiskInit ==
    /\ layers = <<Absent>>
    /\ location = [s \in Sectors |-> 0]
    /\ op = [c \in DiskClients |-> None]
    /\ rmLock = Nobody
    /\ diskWrites = 0
    /\ vol = [s \in Sectors |-> Zeroes]

Advance(c) == \/ TakeLock(c) \/ Lookup(c) \/ Scan(c) \/ Store(c) \/ Check(c) \/ Fetch(c)
              \/ Write(c) \/ Mark(c) \/ Return(c)

DiskNext ==
    \/ \E c \in DiskClients, s \in Sectors, U \in SUBSET Units \ {{}} : StartRead(c, s, U) \/ StartWrite(c, s, U)
    \/ \E c \in DiskClients : Advance(c)
    \/ NewHead \/ Reopen
    \/ \E i \in 1..MaxLayers : Coalesce(i)
    \/ \E s \in Sectors : Unmap(s) \/ Prune(s)

DiskSpec == DiskInit /\ [][DiskNext]_diskVars

\* "mapping of sector to index in the files array": where no request is in
\* flight the table names the topmost layer that holds the sector, or does not
\* know (lookup, fullWriteAt, RemoveIndex).  Discarded sectors are excepted.
LocationRight ==
    \A s \in Sectors :
        /\ \A c \in DiskClients : op[c].pc = "none" \/ op[c].s # s
        /\ \A u \in Units : vol[s][u] # Anything
        => location[s] \in {0, Holder(s)}

\* A read returns, for every unit nobody else is writing, the value of the last
\* acknowledged write to it: through the table, across new heads, removed
\* layers, pruning and restarts.
LastWriteRead ==
    \A c \in DiskClients : op[c].pc = "done" /\ op[c].kind = "read" =>
        \A u \in op[c].units : op[c].before[u] \in {Anything, op[c].buf[u]}

\* A read returns the last acknowledged writes, and the location table names the layer
\* it takes them from (diffDisk.ReadAt, lookup, RemoveIndex).
ReadsServed == LastWriteRead /\ LocationRight

\* Fairness: the goroutine that serves a request goes on.
DiskFairness == \A c \in DiskClients : WF_diskVars(Advance(c) /\ ~TakeLock(c)) /\ SF_diskVars(TakeLock(c))

DiskLiveSpec == DiskSpec /\ DiskFairness
=============================================================================
