---------------------------- MODULE ReplicaChain ----------------------------
(***************************************************************************)
(* The files of one replica: pkg/replica/replica.go under the states of    *)
(* pkg/replica/server.go.  The volume is a head file on top of a chain of  *)
(* snapshot files; every file has a metadata file that names its parent,   *)
(* and volume.meta names the head.                                         *)
(*                                                                         *)
(* Every operation holds the server's lock from beginning to end, so no    *)
(* two of them interleave.  What may fall between two steps is a crash of  *)
(* the process, or an error of the file system: an operation is therefore  *)
(* a list of file operations carried out one by one, followed by the       *)
(* change of the structures in memory.                                     *)
(*                                                                         *)
(* A name refers to an inode, because a snapshot is made by hard-linking   *)
(* the old head, and because the process holds files open whose names are  *)
(* replaced.  encodeToFile writes a temporary file and renames it, so it   *)
(* replaces a metadata file in one step.  Sizes, labels, times, the dirty  *)
(* flag and the checksum files are left out.                               *)
(***************************************************************************)
EXTENDS Integers, Sequences, FiniteSets, TLC, SequencesExt, FiniteSetsExt, Functions

CONSTANTS Snaps,      \* names of snapshot files
          NoName,     \* the empty name
          MetaFile,   \* the name of a metadata file, taken for a disk
          Blocks,
          MaxHead,    \* bound: heads are numbered 0 to MaxHead
          MaxWrites,  \* bound: writes in a behaviour
          MaxFaults,  \* bound: crashes and file system errors in a behaviour
          SnapshotMaxCount,
          UnmapMark,  \* unmapMarkDiskChainRemoved
          Calls,      \* bound: the operations that are called
          Users       \* bound: the values of a snapshot's UserCreated flag

Heads  == 0..MaxHead
Names  == Heads \cup Snaps
Hole   == 0
Empty  == [b \in Blocks |-> Hole]
Inodes == 1..(2 * (MaxHead + 1) + Cardinality(Snaps))

VARIABLES
    fs,      \* the directory: img (name to inode), meta (name to the parent and
             \* flags of a disk), vol (what volume.meta says, or NoVol)
    store,   \* the contents of every inode
    mem,     \* the server: r = nil or a replica with its structures
    todo,    \* the file operations left of the call in progress
    call,    \* the call in progress and the memory it ends with
    faults, writes,
    want,    \* history: what the volume may read, the effect of a call in progress
             \* included
    kept,    \* history: what every acknowledged snapshot must read
    wantReb, \* history: what the rebuilding flag may be, likewise
    reply    \* what the last finished call answered

vars == <<fs, store, mem, todo, call, faults, writes, want, kept, wantReb, reply>>

NoVol  == [head |-> NoName, rebuilding |-> FALSE, there |-> FALSE]
Closed == [open |-> FALSE]
Idle   == [name |-> "none"]

-----------------------------------------------------------------------------
\* File operations

Touch(n, i)    == [op |-> "touch", n |-> n, i |-> i]
PutMeta(n, m)  == [op |-> "meta", n |-> n, m |-> m]
Link(n, from)  == [op |-> "link", n |-> n, from |-> from]
LinkMeta(n, from) == [op |-> "linkMeta", n |-> n, from |-> from]
RmImg(n)       == [op |-> "rmImg", n |-> n]
RmMeta(n)      == [op |-> "rmMeta", n |-> n]
PutVol(h, reb) == [op |-> "vol", v |-> [head |-> h, rebuilding |-> reb, there |-> TRUE]]
RmVol          == [op |-> "vol", v |-> NoVol]

Apply(d, o) ==
    CASE o.op = "touch"    -> [d EXCEPT !.img = (o.n :> o.i) @@ @]
      [] o.op = "meta"     -> [d EXCEPT !.meta = (o.n :> o.m) @@ @]
      [] o.op = "link"     -> [d EXCEPT !.img = (o.n :> d.img[o.from]) @@ @]
      [] o.op = "linkMeta" -> [d EXCEPT !.meta = (o.n :> d.meta[o.from]) @@ @]
      [] o.op = "rmImg"    -> [d EXCEPT !.img = Restrict(@, DOMAIN @ \ {o.n})]
      [] o.op = "rmMeta"   -> [d EXCEPT !.meta = Restrict(@, DOMAIN @ \ {o.n})]
      [] o.op = "vol"      -> [d EXCEPT !.vol = o.v]

\* os.Link fails when its source is missing; everything else can be carried out.
CanApply(d, o) == /\ o.op = "link" => o.from \in DOMAIN d.img
                  /\ o.op = "linkMeta" => o.from \in DOMAIN d.meta

\* rmDisk: the image, then the metadata.
rmDisk(n) == IF n = NoName THEN <<>> ELSE <<RmImg(n), RmMeta(n)>>

\* An inode that no name and no open file refers to.
Fresh == CHOOSE i \in Inodes : /\ i \notin Range(fs.img)
                               /\ mem.open => i \notin Range(mem.files)

-----------------------------------------------------------------------------
\* Chains and what they read

\* Chain: the disks from n down to the base; a disk without metadata ends it
\* with an error, marked by NoName.
RECURSIVE Chain(_, _)
Chain(meta, n) ==
    IF n = NoName THEN <<>>
    ELSE IF n \notin DOMAIN meta THEN <<NoName>>
    ELSE <<n>> \o Chain(meta, meta[n].parent)

Unbroken(chain) == NoName \notin Range(chain)

\* The contents of files given from the top of a chain to its base.
ReadThrough(contents) ==
    [b \in Blocks |->
       LET written == {k \in DOMAIN contents : contents[k][b] # Hole}
       IN  IF written = {} THEN Hole ELSE contents[Min(written)][b]]

\* What disk n reads from the files in the directory.  A missing image is
\* created, empty, when the chain is opened.
OnDisk(n) ==
    LET chain == Chain(fs.meta, n)
    IN  ReadThrough([k \in DOMAIN chain |->
            IF chain[k] \in DOMAIN fs.img THEN store[fs.img[chain[k]]] ELSE Empty])

\* What the open replica reads.
Live == ReadThrough(Reverse([k \in DOMAIN mem.files |-> store[mem.files[k]]]))

-----------------------------------------------------------------------------
\* Opening: construct

\* The children of every disk, as readDiskData collects them.
ChildrenOf(meta) == [n \in Names |-> {c \in DOMAIN meta : meta[c].parent = n}]

\* tryRecoverVolumeMetaFile: without a usable volume.meta the first file of the
\* directory whose name contains volume-head becomes the head.  Where only the
\* metadata file of a head is left that is the name taken.
FirstHeadFile(d) ==
    LET heads == (DOMAIN d.img \cup DOMAIN d.meta) \cap Heads
    IN  IF heads = {} THEN NoName
        ELSE IF Min(heads) \in DOMAIN d.img THEN Min(heads) ELSE MetaFile

Recovered(d) ==
    IF d.vol.there THEN d
    ELSE [d EXCEPT !.vol = [head |-> FirstHeadFile(d), rebuilding |-> FALSE, there |-> TRUE]]

\* openLiveChain: every file of the chain is opened, and created if it is missing.
MissingImages(d) ==
    Range(Chain(d.meta, d.vol.head)) \ DOMAIN d.img

\* Mutant of Loaded: the files are opened from the head down.
LoadedTopFirst(d) ==
    LET chain == Chain(d.meta, d.vol.head)
    IN  [open |-> TRUE, head |-> d.vol.head, rebuilding |-> d.vol.rebuilding,
         data |-> d.meta, children |-> ChildrenOf(d.meta),
         active |-> Reverse(chain), files |-> [k \in DOMAIN chain |-> d.img[chain[k]]]]

Loaded(d) ==
    LET chain == Reverse(Chain(d.meta, d.vol.head))
    IN  [open |-> TRUE, head |-> d.vol.head, rebuilding |-> d.vol.rebuilding,
         data |-> d.meta, children |-> ChildrenOf(d.meta),
         active |-> chain, files |-> [k \in DOMAIN chain |-> d.img[chain[k]]]]

\* There are metadata files, and the chain of the head is complete.
CanOpen(d) == /\ DOMAIN d.meta # {}
              /\ d.vol.head \in Names
              /\ Unbroken(Chain(d.meta, d.vol.head))
              /\ Len(Chain(d.meta, d.vol.head)) > 0

-----------------------------------------------------------------------------
\* Taking a snapshot: createDisk, createNewHead and linkDisk

\* getRemainSnapshotCounts: disks not marked removed, in the chain or not.
SnapshotCountUsage ==
    Cardinality({n \in DOMAIN mem.data : n # mem.head /\ ~mem.data[n].removed})

Disk(parent, user) == [parent |-> parent, removed |-> FALSE, user |-> user]

\* createNewHead: the image, then the metadata.
createNewHead(newHead, inode, parent) ==
    <<Touch(newHead, inode), PutMeta(newHead, Disk(parent, FALSE))>>

\* linkDisk: what is left under the new name is removed, then both files of the
\* old one are linked.
linkDisk(old, new) ==
    IF old = NoName THEN <<>> ELSE <<RmMeta(new), RmImg(new), Link(new, old), LinkMeta(new, old)>>

\* Mutant of CreateSteps: volume.meta is written first.
CreateStepsVolFirst(h, s, user, reb, newHead, inode, old) ==
    <<PutVol(newHead, reb)>> \o createNewHead(newHead, inode, s) \o linkDisk(h, s)
    \o (IF h = NoName THEN <<>> ELSE <<PutMeta(s, [old EXCEPT !.user = user])>>)
    \o rmDisk(h)

\* The file operations of createDisk on top of head h, with s the name of the
\* snapshot that the old head becomes, or NoName for the first head.
CreateSteps(h, s, user, reb, newHead, inode, old) ==
    createNewHead(newHead, inode, s) \o linkDisk(h, s)
    \o <<PutVol(newHead, reb)>>
    \o (IF h = NoName THEN <<>> ELSE <<PutMeta(s, [old EXCEPT !.user = user])>>)
    \o rmDisk(h)

\* The rollbacks of createDisk when its step k (of those up to the snapshot's
\* metadata) fails: they run in the order in which the steps succeeded.
CreateUndo(h, s, reb, newHead, k) ==
    CASE k = 1       -> <<>>
      [] k \in 2..4  -> rmDisk(newHead)
      [] k \in 5..6  -> rmDisk(s) \o rmDisk(newHead)
      [] k = 7       -> rmDisk(newHead) \o rmDisk(s)
      [] k = 8       -> rmDisk(newHead) \o rmDisk(s) \o <<PutVol(h, reb)>>

\* Mutant of Snapshotted: the old head stays a child of its parent.
SnapshottedStaleChild(m, s, user, newHead, inode) ==
    LET old == m.data[m.head]
    IN  [m EXCEPT
          !.head     = newHead,
          !.data     = (newHead :> Disk(s, FALSE)) @@ (s :> [old EXCEPT !.user = user])
                       @@ Restrict(@, DOMAIN @ \ {m.head}),
          !.children = [n \in Names |->
                          IF n = s THEN {newHead}
                          ELSE IF n = old.parent THEN @[n] \cup {s} ELSE @[n]],
          !.active   = Append([@ EXCEPT ![Len(@)] = s], newHead),
          !.files    = Append(@, inode)]

\* The structures after the snapshot: the old head's record moves to s.
Snapshotted(m, s, user, newHead, inode) ==
    LET old == m.data[m.head]
    IN  [m EXCEPT
          !.head     = newHead,
          !.data     = (newHead :> Disk(s, FALSE)) @@ (s :> [old EXCEPT !.user = user])
                       @@ Restrict(@, DOMAIN @ \ {m.head}),
          !.children = [n \in Names |->
                          IF n = s THEN {newHead}
                          ELSE IF n = old.parent THEN (@[n] \ {m.head}) \cup {s}
                          ELSE @[n]],
          !.active   = Append([@ EXCEPT ![Len(@)] = s], newHead),
          !.files    = Append(@, inode)]

-----------------------------------------------------------------------------
\* Calls

Ready(c) == call = Idle /\ c \in Calls

Open == mem.open

\* A call begins: what it will do to the directory, and to memory in the end.
Start(name, h, s, next, steps, after) ==
    /\ todo' = steps
    /\ call' = [name |-> name, h |-> h, s |-> s, next |-> next, after |-> after,
                done |-> 0, ok |-> TRUE, before |-> fs]
    /\ UNCHANGED <<mem, faults, writes, reply>>

\* A call that ends where it began.
Reply(name, ok) ==
    /\ reply' = [name |-> name, ok |-> ok]
    /\ UNCHANGED <<store, mem, todo, call, faults, writes, want, kept, wantReb>>

\* Server.Create on an initial replica: construct with a size, then Close.
Create ==
    LET d    == Recovered(fs)
        h    == d.vol.head
        next == IF h = NoName THEN 0 ELSE h + 1
        s    == IF h = NoName THEN NoName ELSE CHOOSE x \in Snaps : TRUE
    IN  /\ Ready("create") /\ ~Open /\ ~fs.vol.there
        /\ fs' = d
        /\ IF DOMAIN fs.meta # {} \/ h = MetaFile
           THEN Reply("create", CanOpen(d))
           ELSE /\ next \in Heads
                /\ IF next \in DOMAIN fs.img
                   THEN Reply("create", FALSE)
                   ELSE /\ Start("create", h, s, next,
                                 CreateSteps(h, s, FALSE, FALSE, next, Fresh, Disk(NoName, FALSE)),
                                 Closed)
                        /\ store' = [store EXCEPT ![Fresh] = Empty]
                        /\ want' = {Empty}
                        /\ UNCHANGED <<kept, wantReb>>

\* Server.Create on a replica in any other state does nothing and succeeds.
CreateAgain ==
    /\ Ready("create") /\ (Open \/ fs.vol.there)
    /\ Reply("create", TRUE)
    /\ UNCHANGED fs

\* Server.Open of a replica whose chain is complete.  A volume that was in the
\* middle of a call when the process crashed may read as before or after it.
OpenReplica ==
    LET d == [fs EXCEPT !.img = [n \in MissingImages(fs) |-> Fresh] @@ @]
    IN  /\ Ready("open") /\ ~Open /\ fs.vol.there /\ CanOpen(fs)
        /\ Cardinality(MissingImages(fs)) <= 1
        /\ fs' = d
        /\ mem' = Loaded(d)
        /\ store' = IF MissingImages(fs) = {} THEN store ELSE [store EXCEPT ![Fresh] = Empty]
        /\ want' = want \cap {OnDisk(fs.vol.head)}
        /\ wantReb' = wantReb \cap {fs.vol.rebuilding}
        /\ reply' = [name |-> "open", ok |-> TRUE]
        /\ UNCHANGED <<todo, call, faults, writes, kept>>

\* Server.Open of any other replica fails.
OpenFails ==
    /\ Ready("open") /\ ~Open /\ fs.vol.there /\ ~CanOpen(fs)
    /\ Reply("open", FALSE)
    /\ UNCHANGED fs

\* Replica.Snapshot: refused for a name in use, at the limit, or when the file
\* of the new head exists.
Snapshot(s, user) ==
    LET next == mem.head + 1
    IN  /\ Ready("snapshot") /\ Open /\ next \in Heads
        /\ UNCHANGED fs
        /\ IF \/ SnapshotCountUsage >= SnapshotMaxCount
              \/ s \in DOMAIN mem.data
              \/ next \in DOMAIN fs.img
           THEN Reply("snapshot", FALSE)
           ELSE /\ Start("snapshot", mem.head, s, next,
                         CreateSteps(mem.head, s, user, mem.rebuilding, next, Fresh,
                                     mem.data[mem.head]),
                         Snapshotted(mem, s, user, next, Fresh))
                /\ store' = [store EXCEPT ![Fresh] = Empty]
                /\ UNCHANGED <<want, kept, wantReb>>

\* Replica.Revert: a new head on top of s; the old head is removed and the
\* replica is loaded again.
Revert(s) ==
    LET next == mem.head + 1
    IN  /\ Ready("revert") /\ Open /\ next \in Heads
        /\ UNCHANGED fs
        /\ IF \/ s \notin DOMAIN fs.img \/ s \notin DOMAIN mem.data
              \/ s \in DOMAIN mem.data /\ mem.data[s].removed
              \/ next \in DOMAIN fs.img
           THEN Reply("revert", FALSE)
           ELSE /\ Start("revert", mem.head, s, next,
                         createNewHead(next, Fresh, s)
                         \o <<PutVol(next, mem.rebuilding)>> \o rmDisk(mem.head),
                         mem)
                /\ store' = [store EXCEPT ![Fresh] = Empty]
                /\ want' = want \cup {OnDisk(s)}
                /\ UNCHANGED <<kept, wantReb>>

\* Replica.MarkDiskAsRemoved; an unknown disk is no error, and nothing is
\* promised any more about a known one.
MarkDiskAsRemoved(s) ==
    /\ Ready("mark") /\ Open
    /\ s \in DOMAIN mem.data \cap DOMAIN fs.img \cap DOMAIN fs.meta
    /\ ~mem.data[s].removed
    /\ Start("mark", mem.head, s, mem.head,
             <<PutMeta(s, [mem.data[s] EXCEPT !.removed = TRUE])>>,
             [mem EXCEPT !.data = [@ EXCEPT ![s].removed = TRUE]])
    /\ kept' = Restrict(kept, DOMAIN kept \ {s})
    /\ UNCHANGED <<fs, store, want, wantReb>>

\* Server.SetRebuilding
SetRebuilding(reb) ==
    /\ Ready("rebuilding") /\ Open /\ mem.rebuilding # reb
    /\ Start("rebuilding", mem.head, NoName, mem.head, <<PutVol(mem.head, reb)>>,
             [mem EXCEPT !.rebuilding = reb])
    /\ wantReb' = wantReb \cup {reb}
    /\ UNCHANGED <<fs, store, want, kept>>

\* Server.Close
CloseReplica ==
    /\ Ready("close") /\ Open
    /\ Start("close", mem.head, NoName, mem.head, <<PutVol(mem.head, mem.rebuilding)>>, Closed)
    /\ UNCHANGED <<fs, store, want, kept, wantReb>>

\* Server.Delete: the replica is closed, then every disk it knows of is removed,
\* in the order of a map, and volume.meta.
DeleteReplica ==
    /\ Ready("delete") /\ Open
    /\ \E order \in SetToSeqs(DOMAIN mem.data) :
         Start("delete", mem.head, NoName, mem.head,
               <<PutVol(mem.head, mem.rebuilding)>>
               \o FlattenSeq([k \in DOMAIN order |-> rmDisk(order[k])]) \o <<RmVol>>, Closed)
    /\ kept' = <<>>
    /\ UNCHANGED <<fs, store, want, wantReb>>

\* Server.Reload: the new replica is loaded first, then the old one is closed
\* and writes volume.meta from its own fields.
Reload ==
    /\ Ready("reload") /\ Open /\ CanOpen(fs) /\ MissingImages(fs) = {}
    /\ Start("reload", mem.head, NoName, mem.head, <<PutVol(mem.head, mem.rebuilding)>>, Loaded(fs))
    /\ UNCHANGED <<fs, store, want, kept, wantReb>>

\* Replica.WriteAt of one block: it goes to the last file.
WriteAt(b) ==
    /\ Ready("write") /\ Open /\ writes < MaxWrites
    /\ writes' = writes + 1
    /\ store' = [store EXCEPT ![Last(mem.files)][b] = writes + 1]
    /\ want' = {[w EXCEPT ![b] = writes + 1] : w \in want}
    /\ reply' = [name |-> "write", ok |-> TRUE]
    /\ UNCHANGED <<fs, mem, todo, call, faults, kept, wantReb>>

\* Replica.UnmapAt: the disks below the head, until one has several children,
\* are marked if the replica is told to; diffDisk.UnmapAt then punches as many
\* files, counted from the top, as disks were found removed.
UnmappableBelow ==
    LET last == Len(mem.active) - 1
        stop == {k \in 1..last : Cardinality(mem.children[mem.active[k]]) > 1}
    IN  {k \in 1..last : \A j \in stop : j < k}

UnmapAt(b) ==
    LET marked  == IF UnmapMark THEN {mem.active[k] : k \in UnmappableBelow} ELSE {}
        data1   == [n \in DOMAIN mem.data |->
                      IF n \in marked THEN [mem.data[n] EXCEPT !.removed = TRUE] ELSE mem.data[n]]
        count   == 1 + Cardinality({k \in UnmappableBelow : data1[mem.active[k]].removed})
        punched == {mem.files[k] : k \in (Len(mem.files) - count + 1)..Len(mem.files)}
    IN  /\ Ready("unmap") /\ Open /\ writes > 0
        /\ store' = [i \in Inodes |-> IF i \in punched THEN [store[i] EXCEPT ![b] = Hole] ELSE store[i]]
        /\ mem' = [mem EXCEPT !.data = data1]
        /\ fs' = [fs EXCEPT !.meta = [n \in DOMAIN @ |-> IF n \in marked THEN data1[n] ELSE @[n]]]
        /\ kept' = Restrict(kept, DOMAIN kept \ marked)
        /\ want' = {Live'}
        /\ reply' = [name |-> "unmap", ok |-> TRUE]
        /\ UNCHANGED <<todo, call, faults, writes, wantReb>>

-----------------------------------------------------------------------------
\* The steps of a call

Step ==
    /\ todo # <<>> /\ CanApply(fs, Head(todo))
    /\ fs' = Apply(fs, Head(todo))
    /\ todo' = Tail(todo)
    /\ call' = [call EXCEPT !.done = @ + 1]
    /\ UNCHANGED <<store, mem, faults, writes, want, kept, wantReb, reply>>

\* What a call leaves to be done, in the directory and in memory, when its step
\* k fails.  revertDisk answers with success when volume.meta cannot be written
\* but can be put back: the server is left without a replica.  markDiskAsRemoved
\* has changed the record in memory before it writes the file.
Undo(k) ==
    CASE call.name = "create" /\ call.h = NoName ->
            [steps |-> IF k = 1 THEN <<>> ELSE rmDisk(call.next), after |-> Closed, ok |-> FALSE]
      [] call.name \in {"create", "snapshot"} /\ call.h # NoName ->
            [steps |-> CreateUndo(call.h, call.s, IF Open THEN mem.rebuilding ELSE FALSE, call.next, k),
             after |-> mem, ok |-> FALSE]
      [] call.name = "revert" ->
            [steps |-> CASE k = 1 -> <<>> [] k = 2 -> rmDisk(call.next)
                         [] k = 3 -> <<PutVol(call.h, mem.rebuilding)>>,
             after |-> IF k = 3 THEN Closed ELSE mem, ok |-> k = 3]
      [] call.name = "mark" ->
            [steps |-> <<>>, after |-> call.after, ok |-> FALSE]
      [] OTHER -> [steps |-> <<>>, after |-> mem, ok |-> FALSE]

\* The last step whose error the call acts on: errors in removing the old head
\* are only logged by createDisk and Delete, and are not considered for revertDisk.
LastFailing == CASE call.name = "revert" \/ call.h = NoName -> 3
                 [] call.name \in {"create", "snapshot"} /\ call.h # NoName -> 8
                 [] call.name \in {"mark", "rebuilding", "close", "reload", "delete"} -> 1
                 [] OTHER -> 0

StepFails ==
    /\ todo # <<>> /\ call.done + 1 <= LastFailing
    /\ \/ faults < MaxFaults /\ faults' = faults + 1
       \/ ~CanApply(fs, Head(todo)) /\ UNCHANGED faults
    /\ LET u == Undo(call.done + 1)
       IN  /\ todo' = u.steps
           /\ call' = [call EXCEPT !.name = "undo", !.after = u.after, !.ok = u.ok, !.done = 99,
                                   !.s = IF call.name = "revert" THEN call.s ELSE NoName]
           /\ want' = IF u.ok THEN want ELSE want \cap {IF Open THEN Live ELSE Empty}
    /\ wantReb' = IF call.name = "rebuilding" THEN wantReb \cap {mem.rebuilding} ELSE wantReb
    /\ UNCHANGED <<fs, store, mem, writes, kept, reply>>

\* The end of a call: memory is brought up to date and the caller is answered.
Finish ==
    /\ call # Idle /\ todo = <<>>
    /\ mem' = IF call.name = "revert" THEN Loaded(fs) ELSE call.after
    /\ want' = IF call.name = "revert" THEN {OnDisk(call.s)} ELSE want
    /\ wantReb' = IF call.name = "rebuilding" THEN {call.after.rebuilding} ELSE wantReb
    /\ kept' = IF call.name = "snapshot" THEN (call.s :> Live) @@ kept ELSE kept
    /\ call' = Idle
    /\ reply' = [name |-> IF call.name = "undo" /\ call.ok THEN "revert" ELSE call.name,
                 ok |-> call.ok]
    /\ UNCHANGED <<fs, store, todo, faults, writes>>

\* The process dies; the files stay as they are.
Crash ==
    /\ faults < MaxFaults
    /\ faults' = faults + 1
    /\ mem' = Closed /\ todo' = <<>> /\ call' = Idle
    /\ reply' = [name |-> "none", ok |-> TRUE]
    /\ UNCHANGED <<fs, store, writes, want, kept, wantReb>>

-----------------------------------------------------------------------------
\* A replica that was created and opened, and a directory with nothing in it.
InitOpen ==
    /\ fs = [img |-> 0 :> 1, meta |-> 0 :> Disk(NoName, FALSE),
             vol |-> [head |-> 0, rebuilding |-> FALSE, there |-> TRUE]]
    /\ store = [i \in Inodes |-> Empty]
    /\ mem = Loaded(fs)
    /\ want = {Empty} /\ kept = <<>> /\ wantReb = {FALSE}
    /\ todo = <<>> /\ call = Idle /\ faults = 0 /\ writes = 0
    /\ reply = [name |-> "none", ok |-> TRUE]

InitEmpty ==
    /\ fs = [img |-> <<>>, meta |-> <<>>, vol |-> NoVol]
    /\ store = [i \in Inodes |-> Empty]
    /\ mem = Closed
    /\ want = {Empty} /\ kept = <<>> /\ wantReb = {FALSE}
    /\ todo = <<>> /\ call = Idle /\ faults = 0 /\ writes = 0
    /\ reply = [name |-> "none", ok |-> TRUE]

ReplicaNext ==
    \/ Create \/ CreateAgain \/ OpenReplica \/ OpenFails
    \/ \E s \in Snaps, user \in Users : Snapshot(s, user)
    \/ \E s \in Snaps : Revert(s) \/ MarkDiskAsRemoved(s)
    \/ \E reb \in BOOLEAN : SetRebuilding(reb)
    \/ CloseReplica \/ Reload \/ DeleteReplica
    \/ \E b \in Blocks : WriteAt(b) \/ UnmapAt(b)
    \/ Step \/ StepFails \/ Finish \/ Crash

\* A volume reads what was last written to it, whatever snapshots, reverts and
\* restarts it has been through (createDisk, revertDisk, construct).
VolumePreserved == Open /\ call = Idle => Live \in want

\* Every acknowledged snapshot that is not marked as removed can be read, and
\* reads what the volume held when it was taken, in the middle of every other
\* operation and after a crash of it.
SnapshotsPreserved ==
    \A s \in DOMAIN kept : Unbroken(Chain(fs.meta, s)) /\ OnDisk(s) = kept[s]

\* After a crash at any moment, and after Close, the directory is one that
\* construct can open.
AlwaysReopenable == ~Open /\ call = Idle => CanOpen(fs)

\* The rebuilding flag survives: a replica that is being rebuilt is known as
\* such after every restart, and one that is not is not (SetRebuilding,
\* writeVolumeMetaData, createDisk).
RebuildingRemembered ==
    /\ fs.vol.rebuilding \in wantReb
    /\ Open /\ call = Idle => mem.rebuilding \in wantReb

\* Between calls the three structures in memory describe one and the same
\* chain, the one in the directory: the parents, the children, the live chain,
\* and the open files (createDisk, revertDisk, removeDiskNode, ReplaceDisk).
MemoryMatchesDirectory ==
    Open /\ call = Idle =>
        /\ mem.children = ChildrenOf(mem.data)
        /\ mem.active = Reverse(Chain(fs.meta, fs.vol.head))
        /\ mem.head = fs.vol.head
        /\ \A k \in DOMAIN mem.active : mem.files[k] = fs.img[mem.active[k]]
        /\ \A n \in DOMAIN mem.data : n \in DOMAIN fs.meta /\ fs.meta[n].parent = mem.data[n].parent

\* "so that everything looks like unchanged": when a step of createDisk fails,
\* its rollbacks restore the directory (replica.go, encodeToFile, createNewHead
\* and linkDisk).
RollbackRestores ==
    call # Idle /\ todo = <<>> /\ ~call.ok => fs = call.before

\* A replica whose creation succeeded can be opened (Server.Create, construct,
\* tryRecoverVolumeMetaFile).
CreatedReplicaOpens ==
    reply = [name |-> "create", ok |-> TRUE] /\ call = Idle /\ ~Open => CanOpen(fs)

\* A replica whose revert succeeded is open (Server.Revert, revertDisk).
RevertedReplicaOpen ==
    reply = [name |-> "revert", ok |-> TRUE] /\ call = Idle => Open

Spec      == InitOpen /\ [][ReplicaNext]_vars
SpecEmpty == InitEmpty /\ [][ReplicaNext]_vars
=============================================================================
