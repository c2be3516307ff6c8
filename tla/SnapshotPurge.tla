--------------------------- MODULE SnapshotPurge ----------------------------
(***************************************************************************)
(* Purging snapshots: SyncAgentServer.purgeSnapshots in                    *)
(* pkg/sync/rpc/server.go, next to a running replica.                      *)
(*                                                                         *)
(* The sync agent is a process of its own.  It asks the replica over RPC   *)
(* what to do with each disk that is marked as removed, folds the child of *)
(* the disk into it (or prunes it) by working on the files itself, and     *)
(* then has the replica put the folded file in the child's place.  Between *)
(* any two of these steps the volume is written, snapshotted and reverted, *)
(* and the replica may crash.  FoldFile and PruneFile belong to the        *)
(* library sparse-tools; they go through the files block by block.         *)
(***************************************************************************)
EXTENDS ReplicaChain

VARIABLES agent,   \* the purge in progress
          quiet    \* history: nobody else called the replica since it began

purgeVars == <<vars, agent, quiet>>

Rest == [pc |-> "rest", state |-> "none"]

-----------------------------------------------------------------------------
\* What the replica does for the purge

\* removeDiskNode without force: a disk with one child hands its parent to it.
RemoveNode(m, n) ==
    LET parent == m.data[n].parent
        heir   == m.children[n]
        index  == {k \in DOMAIN m.active : m.active[k] = n}
        keep(seq) == IF index = {} \/ heir = {} THEN seq ELSE RemoveAt(seq, Min(index))
    IN  [m EXCEPT
          !.data     = [x \in DOMAIN @ \ {n} |-> IF x \in heir THEN [@[x] EXCEPT !.parent = parent] ELSE @[x]],
          !.children = [x \in Names |->
                          IF x = n THEN {} ELSE IF x = parent THEN (@[x] \ {n}) \cup heir ELSE @[x]],
          !.active   = keep(@),
          !.files    = keep(@)]

\* The metadata of the child is written before the removed disk's files go.
HeirMeta(m, n) ==
    LET heir == m.children[n]
    IN  IF heir = {} THEN <<>>
        ELSE LET c == CHOOSE c \in heir : TRUE
             IN  <<PutMeta(c, [m.data[c] EXCEPT !.parent = m.data[n].parent])>>

\* Replica.RemoveDiffDisk
RemoveDiffDisk(n) ==
    /\ n \in DOMAIN mem.data /\ n # mem.head /\ Cardinality(mem.children[n]) <= 1
    /\ Start("remove", mem.head, n, mem.head, HeirMeta(mem, n) \o rmDisk(n), RemoveNode(mem, n))
    /\ UNCHANGED <<fs, store, want, kept, wantReb>>

\* Replica.ReplaceDisk: target becomes another name of source's file, source's
\* node and files are removed, and the open file of target is replaced.
ReplaceSteps(target, source) ==
    (IF target \in DOMAIN fs.img THEN <<RmImg(target)>> ELSE <<>>)
    \o <<Link(target, source)>> \o HeirMeta(mem, source) \o rmDisk(source)

Replaced(target, source) ==
    LET m     == RemoveNode(mem, source)
        index == {k \in DOMAIN m.active : m.active[k] = target}
    IN  [m EXCEPT !.files = [k \in DOMAIN @ |-> IF k \in index THEN fs.img[source] ELSE @[k]]]

ReplaceDisk(target, source) ==
    /\ target # mem.head /\ source \in DOMAIN fs.img
    /\ source \in DOMAIN mem.data /\ Cardinality(mem.children[source]) <= 1
    /\ Start("replace", mem.head, target, mem.head,
             ReplaceSteps(target, source), Replaced(target, source))
    /\ UNCHANGED <<fs, store, want, kept, wantReb>>

\* Replica.PrepareRemoveDisk and processPrepareRemoveDisks: what is to be done
\* with a disk marked as removed.
PrepareRemove(n) ==
    LET c == CHOOSE c \in mem.children[n] : TRUE
    IN  CASE mem.children[n] = {} -> <<[act |-> "remove", source |-> n, target |-> n]>>
          [] Cardinality(mem.children[n]) = 1 /\ c # mem.head ->
               <<[act |-> "coalesce", source |-> n, target |-> c],
                 [act |-> "replace", source |-> n, target |-> c]>>
          [] Cardinality(mem.children[n]) = 1 /\ c = mem.head ->
               <<[act |-> "prune", source |-> n, target |-> c]>>
          [] OTHER -> <<>>

-----------------------------------------------------------------------------
\* The agent

\* getSnapshotsInfo: the disks by snapshot name.  Every head has the name
\* volume-head, so a head left behind by a crash may hide the real one.
InfoOf(h) ==
    LET hd(n) == IF n \in Heads THEN h ELSE n
    IN  [n \in (DOMAIN mem.data \cap Snaps) \cup {h} |->
           [parent |-> mem.data[n].parent, removed |-> mem.data[n].removed,
            user |-> mem.data[n].user, children |-> {hd(c) : c \in mem.children[n]}]]

Infos == {InfoOf(h) : h \in DOMAIN mem.data \cap Heads}

Up == Open /\ call = Idle

\* The purge ends with an error when the replica does not answer or refuses.
Fail == /\ agent.pc # "rest" /\ agent' = [Rest EXCEPT !.state = "error"]
        /\ UNCHANGED <<vars, quiet>>

Fails == /\ agent.pc \notin {"rest", "fold", "prune"} /\ ~Open
         /\ Fail

\* PreparePurge, the first list of snapshots, and the leaves to trace up from.
StartPurge ==
    /\ "purge" \in Calls /\ agent.pc = "rest" /\ Up
    /\ \E info \in Infos :
         agent' = [pc |-> "mark", state |-> "in_progress", info |-> info,
                   leaves |-> {n \in DOMAIN info : info[n].children = {}},
                   mark |-> {n \in DOMAIN info \cap Snaps : ~info[n].user /\ ~info[n].removed},
                   at |-> NoName, latest |-> NoName, ops |-> <<>>,
                   blocks |-> {}, from |-> 0, to |-> 0, back |-> "ops"]
    /\ quiet' = TRUE
    /\ UNCHANGED vars

\* System snapshots are marked as removed.
MarkSystemSnapshot(n) ==
    /\ agent.pc = "mark" /\ Up /\ n \in agent.mark
    /\ UNCHANGED quiet
    /\ IF n \in DOMAIN mem.data \cap DOMAIN fs.img \cap DOMAIN fs.meta
       THEN /\ agent' = [agent EXCEPT !.mark = @ \ {n}, !.pc = "wait", !.back = "mark"]
            /\ Start("mark", mem.head, n, mem.head,
                     <<PutMeta(n, [mem.data[n] EXCEPT !.removed = TRUE])>>,
                     [mem EXCEPT !.data = [@ EXCEPT ![n].removed = TRUE]])
            /\ kept' = Restrict(kept, DOMAIN kept \ {n})
            /\ UNCHANGED <<fs, store, want, wantReb>>
       ELSE /\ agent' = [agent EXCEPT !.mark = @ \ {n}]
            /\ UNCHANGED vars

Marked ==
    /\ agent.pc = "mark" /\ Up /\ agent.mark = {}
    /\ \E info \in Infos : agent' = [agent EXCEPT !.pc = "leaf", !.info = info]
    /\ UNCHANGED <<vars, quiet>>

\* The loop over the leaves, in the order of a map.
NextLeaf ==
    /\ agent.pc = "leaf" /\ agent.leaves # {}
    /\ \E leaf \in agent.leaves :
         agent' = [agent EXCEPT !.leaves = @ \ {leaf},
                                !.pc = IF leaf \in DOMAIN agent.info THEN "trace" ELSE "leaf",
                                !.at = leaf]
    /\ UNCHANGED <<vars, quiet>>

\* One step up from a leaf.  The first removed disk right behind the volume
\* head is kept for the end; the others are processed.
ParentOf(n) == agent.info[n].parent

\* Mutant of Trace: the walk ends at the disk behind the head.
TraceStopsAtLatest ==
    /\ agent.pc = "trace"
    /\ agent.at # NoName /\ agent.at \in DOMAIN agent.info
    /\ LET n    == agent.at
           last == agent.latest = NoName /\ agent.info[n].children \cap Heads # {}
       IN  agent' = IF ~agent.info[n].removed THEN [agent EXCEPT !.at = ParentOf(n)]
                    ELSE IF last THEN [agent EXCEPT !.at = NoName, !.latest = n]
                    ELSE [agent EXCEPT !.pc = "prepare"]
    /\ UNCHANGED <<vars, quiet>>

Trace ==
    /\ agent.pc = "trace"
    /\ agent.at # NoName /\ agent.at \in DOMAIN agent.info
    /\ LET n    == agent.at
           last == agent.latest = NoName /\ agent.info[n].children \cap Heads # {}
       IN  agent' = IF ~agent.info[n].removed THEN [agent EXCEPT !.at = ParentOf(n)]
                    ELSE IF last THEN [agent EXCEPT !.at = ParentOf(n), !.latest = n]
                    ELSE [agent EXCEPT !.pc = "prepare"]
    /\ UNCHANGED <<vars, quiet>>

\* The root is reached, or a disk that is gone: the list is read again.
Traced ==
    /\ agent.pc = "trace" /\ Up
    /\ agent.at = NoName \/ agent.at \notin DOMAIN agent.info
    /\ \E info \in Infos : agent' = [agent EXCEPT !.pc = "leaf", !.info = info]
    /\ UNCHANGED <<vars, quiet>>

\* After the last leaf the disk behind the head is processed.
LatestSnapshot ==
    /\ agent.pc = "leaf" /\ agent.leaves = {} /\ agent.latest # NoName
    /\ agent' = [agent EXCEPT !.pc = "prepare", !.at = agent.latest]
    /\ UNCHANGED <<vars, quiet>>

\* Finish: the purge is complete.
FinishPurge ==
    /\ \/ agent.pc = "leaf" /\ agent.leaves = {} /\ agent.latest = NoName
       \/ agent.pc = "done"
    /\ agent' = [Rest EXCEPT !.state = "complete"]
    /\ UNCHANGED <<vars, quiet>>

\* processRemoveSnapshot: ask for the operations, carry them out, go on.
AfterOps == IF agent.leaves = {} /\ agent.at = agent.latest THEN [agent EXCEPT !.pc = "done", !.ops = <<>>]
            ELSE [agent EXCEPT !.pc = "trace", !.ops = <<>>,
                               !.at = IF @ \in DOMAIN agent.info THEN ParentOf(@) ELSE NoName]

Prepare ==
    /\ agent.pc = "prepare" /\ Up
    /\ UNCHANGED <<vars, quiet>>
    /\ IF agent.at \notin DOMAIN mem.data THEN agent' = AfterOps
       ELSE IF ~mem.data[agent.at].removed THEN agent' = [Rest EXCEPT !.state = "error"]
       ELSE agent' = [agent EXCEPT !.pc = "ops", !.ops = PrepareRemove(agent.at)]

OpsDone == /\ agent.pc = "ops" /\ agent.ops = <<>>
           /\ agent' = AfterOps
           /\ UNCHANGED <<vars, quiet>>

\* The agent opens the two files by name.
OpenFiles ==
    /\ agent.pc = "ops" /\ agent.ops # <<>> /\ Head(agent.ops).act \in {"coalesce", "prune"}
    /\ LET o == Head(agent.ops)
       IN  agent' = IF {o.source, o.target} \subseteq DOMAIN fs.img
                    THEN [agent EXCEPT !.pc = IF o.act = "coalesce" THEN "fold" ELSE "prune",
                                       !.blocks = Blocks, !.ops = Tail(@),
                                       !.from = fs.img[o.target], !.to = fs.img[o.source]]
                    ELSE [Rest EXCEPT !.state = "error"]
    /\ UNCHANGED <<vars, quiet>>

\* External: one block of FoldFile, which copies what the child has written
\* into the parent, and of PruneFile, which frees it in the parent.
FoldBlock(b) ==
    /\ agent.pc = "fold" /\ b \in agent.blocks
    /\ store' = IF store[agent.from][b] = Hole THEN store
                ELSE [store EXCEPT ![agent.to][b] = store[agent.from][b]]
    /\ agent' = [agent EXCEPT !.blocks = @ \ {b}]
    /\ UNCHANGED <<fs, mem, todo, call, faults, writes, want, kept, wantReb, reply, quiet>>

PruneBlock(b) ==
    /\ agent.pc = "prune" /\ b \in agent.blocks
    /\ store' = IF store[agent.from][b] = Hole THEN store ELSE [store EXCEPT ![agent.to][b] = Hole]
    /\ agent' = [agent EXCEPT !.blocks = @ \ {b}]
    /\ UNCHANGED <<fs, mem, todo, call, faults, writes, want, kept, wantReb, reply, quiet>>

FilesDone ==
    /\ agent.pc \in {"fold", "prune"} /\ agent.blocks = {}
    /\ agent' = [agent EXCEPT !.pc = "ops"]
    /\ UNCHANGED <<vars, quiet>>

\* The RPCs that change the chain; the agent waits for the answer.
CallReplica ==
    /\ agent.pc = "ops" /\ Up /\ agent.ops # <<>>
    /\ LET o == Head(agent.ops)
       IN  \/ o.act = "remove"  /\ RemoveDiffDisk(o.source)
           \/ o.act = "replace" /\ ReplaceDisk(o.target, o.source)
    /\ agent' = [agent EXCEPT !.ops = Tail(@), !.pc = "wait", !.back = "ops"]
    /\ UNCHANGED quiet

Answered ==
    /\ agent.pc = "wait" /\ Up
    /\ IF reply.name \in {"mark", "remove", "replace"} /\ reply.ok
       THEN agent' = [agent EXCEPT !.pc = agent.back] ELSE agent' = [Rest EXCEPT !.state = "error"]
    /\ UNCHANGED <<vars, quiet>>

-----------------------------------------------------------------------------
AgentStep ==
    \/ StartPurge \/ Marked \/ NextLeaf \/ Trace \/ Traced \/ LatestSnapshot \/ FinishPurge
    \/ \E n \in Snaps : MarkSystemSnapshot(n)
    \/ Prepare \/ OpsDone \/ OpenFiles \/ FilesDone \/ CallReplica \/ Answered \/ Fails
    \/ \E b \in Blocks : FoldBlock(b) \/ PruneBlock(b)

\* Everybody else: a new call, the steps of a call, a crash.  An answer is not
\* overtaken: the agent has it before the next call ends.
OthersStep ==
    /\ ReplicaNext
    /\ agent.pc = "wait" => call # Idle \/ ~Open
    /\ quiet' = (quiet /\ call # Idle /\ faults' = faults)
    /\ UNCHANGED agent

PurgeInit == InitOpen /\ agent = Rest /\ quiet = FALSE
PurgeNext == AgentStep \/ OthersStep

PurgeSpec == PurgeInit /\ [][PurgeNext]_purgeVars

\* A purge that nobody disturbs leaves no disk marked as removed except the one
\* behind the volume head and those that several disks are built on
\* (purgeSnapshots, processPrepareRemoveDisks).
PurgeLeavesNothing ==
    agent.state = "complete" /\ quiet /\ Up =>
        \A n \in DOMAIN mem.data :
            mem.data[n].removed => \/ mem.head \in mem.children[n]
                                   \/ Cardinality(mem.children[n]) > 1

\* Fairness: the agent and the replica go on with what they
\* have begun.
ServeCall == (Step \/ Finish) /\ UNCHANGED <<agent, quiet>>

Fairness == WF_purgeVars(AgentStep /\ ~StartPurge) /\ WF_purgeVars(ServeCall)

PurgeLiveSpec == PurgeSpec /\ Fairness
=============================================================================
