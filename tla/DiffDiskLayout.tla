--------------------------- MODULE DiffDiskLayout ---------------------------
(***************************************************************************)
(* What is computed from the extents of the layers as a whole: preload     *)
(* (diff_disk.go, extents.go), the difference of two snapshots that a      *)
(* backup stores (CompareSnapshot of backup.go), and the data and holes of *)
(* an export or a clone (GetDataLayout of replica.go).                     *)
(*                                                                         *)
(* A behaviour picks the extents of every layer and computes all three.    *)
(***************************************************************************)
EXTENDS Integers, Sequences, FiniteSets, SequencesExt, FiniteSetsExt

CONSTANTS NumSectors, NumLayers,
          BlockSectors,      \* backupBlockSize, in sectors
          MaxExtentsBuffer   \* extents a call of Fiemap returns at most

AllSectors == 0..(NumSectors - 1)

VARIABLES held,      \* the sectors each layer has extents for
          cuts,      \* sectors at which the file system starts a new extent
          backing,   \* whether layer 1 is a backing file
          location,  \* d.location
          diff, layout

vars == <<held, cuts, backing, location, diff, layout>>

-----------------------------------------------------------------------------
\* External: the extents of a layer that end after a sector, in order, at most
\* MaxExtentsBuffer of them; the last extent of the file is flagged.
Starts(i) == {s \in held[i] : s - 1 \notin held[i] \/ s \in cuts}
EndOf(i, s) == Min({e \in (s + 1)..NumSectors : e \notin held[i] \/ e \in Starts(i)})

Fiemap(i, start) ==
    LET all  == {s \in Starts(i) : EndOf(i, s) > start}
        list == SetToSortSeq(all, <)
    IN  [k \in 1..Min({MaxExtentsBuffer, Len(list)}) |->
            [logical |-> list[k], end |-> EndOf(i, list[k]), last |-> list[k] = Max(Starts(i))]]

\* Mutant: one batch of extents and no more.
LoadOneBatch(loc, i, start) ==
    LET extents == Fiemap(i, start)
        inBatch(s) == \E k \in DOMAIN extents : extents[k].logical <= s /\ s < extents[k].end
    IN  [s \in AllSectors |-> IF inBatch(s) THEN i ELSE loc[s]]

\* LoadDiffDiskLocationList: batch by batch, from the end of the last extent.
RECURSIVE LoadDiffDiskLocationList(_, _, _)
LoadDiffDiskLocationList(loc, i, start) ==
    LET extents == Fiemap(i, start)
        inBatch(s) == \E k \in DOMAIN extents : extents[k].logical <= s /\ s < extents[k].end
        marked  == [s \in AllSectors |-> IF inBatch(s) THEN i ELSE loc[s]]
    IN  IF extents = <<>> THEN loc
        ELSE IF \E k \in DOMAIN extents : extents[k].last THEN marked
        ELSE LoadDiffDiskLocationList(marked, i, extents[Len(extents)].end)

\* Preload: the layers from the base up; a backing file is not scanned.
Preload(includeBackingFileLayer) ==
    LET start == [s \in AllSectors |-> IF includeBackingFileLayer /\ backing THEN 1 ELSE 0]
        load(loc, i) == IF i = 1 /\ backing THEN loc ELSE LoadDiffDiskLocationList(loc, i, 0)
    IN  FoldLeft(load, start, [i \in 1..NumLayers |-> i])

\* CompareSnapshot of the top layer, the snapshot that is opened, with an older
\* one; index 0, or the backing file, stands for no older snapshot.
findIndex(to) == IF to = 0 /\ backing THEN 1 ELSE to

CompareSnapshot(loc, to) ==
    LET add(acc, i) ==
            LET offset == i - (i % BlockSectors)
            IN  IF loc[i] <= NumLayers /\ loc[i] > findIndex(to) /\ acc.offset # offset
                THEN [offset |-> offset, list |-> Append(acc.list, offset)] ELSE acc
    IN  FoldLeft(add, [offset |-> -1, list |-> <<>>], [k \in 1..NumSectors |-> k - 1]).list

\* GetDataLayout: intervals of data and holes.
GetDataLayout(loc) ==
    LET kindOf(s) == IF loc[s] >= 1 THEN "data" ELSE "hole"
        add(acc, s) ==
            IF kindOf(s) = acc.kind THEN acc
            ELSE [kind |-> kindOf(s), from |-> s,
                  list |-> IF acc.from < s
                           THEN Append(acc.list, [kind |-> acc.kind, from |-> acc.from, end |-> s])
                           ELSE acc.list]
        last == FoldLeft(add, [kind |-> "hole", from |-> 0, list |-> <<>>], [k \in 1..NumSectors |-> k - 1])
    IN  IF last.from < NumSectors
        THEN Append(last.list, [kind |-> last.kind, from |-> last.from, end |-> NumSectors])
        ELSE last.list

-----------------------------------------------------------------------------
Init ==
    /\ held \in [1..NumLayers -> SUBSET AllSectors]
    /\ cuts \in SUBSET (1..(NumSectors - 1))
    /\ backing \in BOOLEAN
    /\ location = <<>> /\ diff = <<>> /\ layout = <<>>

\* An export or a clone.
Export ==
    /\ layout = <<>>
    /\ location' = Preload(TRUE)
    /\ layout' = GetDataLayout(location')
    /\ UNCHANGED <<held, cuts, backing, diff>>

\* A backup of the top layer against every older snapshot.
Backup ==
    /\ diff = <<>>
    /\ location' = Preload(FALSE)
    /\ diff' = [to \in {0} \cup {i \in 1..(NumLayers - 1) : ~backing \/ i > 1} |->
                   CompareSnapshot(location', to)]
    /\ UNCHANGED <<held, cuts, backing, layout>>

Next == Export \/ Backup
Spec == Init /\ [][Next]_vars

\* The layer a sector of the volume made of layers 1..n is read from; the backing
\* file, or nothing, below the others.
Source(s, n) == Max({0} \cup (IF backing THEN {1} ELSE {})
                        \cup {i \in 1..n : s \in held[i] /\ ~(backing /\ i = 1)})

Block(s) == s - (s % BlockSectors)

\* An incremental backup stores exactly the blocks with a sector that the snapshot
\* and the one it is compared with do not read from the same layer, each once and
\* in order, however the extents come from the file system (CompareSnapshot).
BackupCoversChanges ==
    diff # <<>> => \A to \in DOMAIN diff :
        diff[to] = SetToSortSeq({Block(s) : s \in {x \in AllSectors : Source(x, NumLayers) # Source(x, to)}}, <)

\* The intervals of an export follow one another from the start of the volume to
\* its end, alternate, and are data exactly where some layer or the backing file
\* is read (Preload, GetDataLayout).
LayoutExact ==
    layout # <<>> =>
        /\ layout[1].from = 0 /\ layout[Len(layout)].end = NumSectors
        /\ \A k \in 1..(Len(layout) - 1) : layout[k].end = layout[k + 1].from /\ layout[k].kind # layout[k + 1].kind
        /\ \A k \in DOMAIN layout : \A s \in layout[k].from..(layout[k].end - 1) :
               (layout[k].kind = "data") <=> (Source(s, NumLayers) > 0)
=============================================================================
