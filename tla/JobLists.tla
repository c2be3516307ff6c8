------------------------------ MODULE JobLists ------------------------------
(***************************************************************************)
(* The lists a sync agent keeps of its jobs, pkg/sync/rpc/list.go: backups *)
(* (BackupList) and hashings of snapshots (SnapshotHashList).  Jobs end on *)
(* their own; of those that ended a list keeps a number for each state.    *)
(***************************************************************************)
EXTENDS Integers, Sequences, FiniteSets

CONSTANTS JobNames,
          Retained,     \* jobs retained in the states "complete" and "error"
          Adders,       \* goroutines that add jobs to the list of backups
          MaxJobs

ASSUME ListAssumption == Retained \in [{"complete", "error"} -> Nat] /\ MaxJobs \in Nat

Ended == DOMAIN Retained

VARIABLES
    backups, hashJobs,   \* b.infos and s.infos: sequences of records [name, job]
    jobState,            \* of every job: "in_progress", "complete" or "error"
    listPc, adding,      \* of a caller of BackupAdd: where it is, and its job
    jobAdds              \* jobs created

listVars == <<backups, hashJobs, jobState, listPc, adding, jobAdds>>

Job(i) == jobState[i.job]
Places(l, s) == {i \in DOMAIN l : Job(l[i]) = s}

-----------------------------------------------------------------------------
\* The first loop of refresh: the place of the newest job in state s beyond the limit.
Cut(l, s, limit) ==
    LET beyond == {i \in Places(l, s) : Cardinality({j \in Places(l, s) : j > i}) = limit}
    IN  IF beyond = {} THEN 0 ELSE CHOOSE i \in beyond : TRUE

\* The elements of a list at the places K, in their order.
Nth(K, n) == CHOOSE i \in K : Cardinality({j \in K : j <= i}) = n
Kept(l, K) == [n \in 1..Cardinality(K) |-> l[Nth(K, n)]]

\* The second loop, from there to the front.  Its index goes down once more after a
\* removal, so that of jobs in state s next to one another every second one is removed.
Run(l, s, i, cut) == {k \in (i + 1)..cut : \A j \in (i + 1)..k : Job(l[j]) = s}
Older(l, s, cut) == {i \in Places(l, s) : i <= cut /\ Cardinality(Run(l, s, i, cut)) % 2 = 0}
RemoveOlder(l, s, cut) == Kept(l, DOMAIN l \ Older(l, s, cut))

\* Mutant: jobs in other states are removed as well.
PurgeAll(l, s) == LET c == Cut(l, s, Retained[s]) IN IF c = 0 THEN l ELSE SubSeq(l, c + 1, Len(l))

\* Mutant: the second loop begins one place too low.
PurgeFromNext(l, s) == IF Cut(l, s, Retained[s]) > 1 THEN RemoveOlder(l, s, Cut(l, s, Retained[s]) - 1) ELSE l

purgePartialRetained(l, s) == RemoveOlder(l, s, Cut(l, s, Retained[s]))

\* refresh of the hashings goes through the states in this order, that of the backups
\* in any.
refreshHashes(l) == purgePartialRetained(purgePartialRetained(l, "complete"), "error")

refreshBackups(l) ==
    {refreshHashes(l), purgePartialRetained(purgePartialRetained(l, "error"), "complete")}

\* The first job of that name is removed.
Without(l, name) == Kept(l, {i \in DOMAIN l : l[i].name = name => \E j \in 1..(i - 1) : l[j].name = name})

-----------------------------------------------------------------------------
\* BackupAdd: BackupDelete, the append and refresh lock the list one by one.
BackupAdd(c, name) ==
    /\ listPc[c] = "idle" /\ jobAdds < MaxJobs
    /\ jobAdds' = jobAdds + 1
    /\ adding' = [adding EXCEPT ![c] = [name |-> name, job |-> jobAdds + 1]]
    /\ backups' = Without(backups, name)
    /\ listPc' = [listPc EXCEPT ![c] = "append"]
    /\ UNCHANGED <<hashJobs, jobState>>

BackupAppend(c) ==
    /\ listPc[c] = "append"
    /\ backups' = Append(backups, adding[c])
    /\ listPc' = [listPc EXCEPT ![c] = "refresh"]
    /\ UNCHANGED <<hashJobs, jobState, adding, jobAdds>>

BackupRefresh(c) ==
    /\ listPc[c] = "refresh"
    /\ backups' \in refreshBackups(backups)
    /\ listPc' = [listPc EXCEPT ![c] = "idle"]
    /\ UNCHANGED <<hashJobs, jobState, adding, jobAdds>>

\* BackupGet refreshes the list before it looks.
BackupGet ==
    /\ backups' \in refreshBackups(backups)
    /\ UNCHANGED <<hashJobs, jobState, listPc, adding, jobAdds>>

\* Mutant: a job in progress does not refuse another one.
AddAnyway(name) ==
    /\ jobAdds < MaxJobs
    /\ jobAdds' = jobAdds + 1
    /\ hashJobs' = refreshHashes(Append(hashJobs, [name |-> name, job |-> jobAdds + 1]))
    /\ UNCHANGED <<backups, jobState, listPc, adding>>

\* Add of a hashing, with the refresh that follows: refused while one is in progress.
Add(name) ==
    /\ jobAdds < MaxJobs
    /\ \A i \in DOMAIN hashJobs : hashJobs[i].name = name => Job(hashJobs[i]) \in Ended
    /\ jobAdds' = jobAdds + 1
    /\ hashJobs' = refreshHashes(Append(Without(hashJobs, name), [name |-> name, job |-> jobAdds + 1]))
    /\ UNCHANGED <<backups, jobState, listPc, adding>>

\* Get, behind SnapshotHashStatus and SnapshotHashCancel.
Get ==
    /\ hashJobs' = refreshHashes(hashJobs)
    /\ UNCHANGED <<backups, jobState, listPc, adding, jobAdds>>

\* A job ends.
Finish(j) ==
    /\ jobState[j] = "in_progress"
    /\ \E s \in Ended : jobState' = [jobState EXCEPT ![j] = s]
    /\ UNCHANGED <<backups, hashJobs, listPc, adding, jobAdds>>

-----------------------------------------------------------------------------
ListInit ==
    /\ backups = <<>> /\ hashJobs = <<>> /\ jobAdds = 0
    /\ jobState = [j \in 1..MaxJobs |-> "in_progress"]
    /\ listPc = [c \in Adders |-> "idle"]
    /\ adding = [c \in Adders |-> [name |-> "none", job |-> 0]]

ListNext ==
    \/ \E c \in Adders : (\E n \in JobNames : BackupAdd(c, n)) \/ BackupAppend(c) \/ BackupRefresh(c)
    \/ BackupGet \/ Get
    \/ \E n \in JobNames : Add(n)
    \/ \E j \in 1..jobAdds : Finish(j)

ListSpec == ListInit /\ [][ListNext]_listVars

\* Fairness: the status of a job is asked for again and again
\* until the job is seen to end, and a call in progress goes on.
ListFairness ==
    /\ WF_listVars(BackupGet) /\ WF_listVars(Get)
    /\ \A c \in Adders : WF_listVars(BackupAppend(c) \/ BackupRefresh(c))

ListLiveSpec == ListSpec /\ ListFairness

JobsOf(l) == {l[i].job : i \in DOMAIN l}

\* A job that is in progress stays in its list, where its status is asked for and from
\* where it is cancelled, until another one is added under its name (refresh, Add).
RunningKept ==
    [][/\ \A i \in DOMAIN hashJobs : Job(hashJobs[i]) = "in_progress" => hashJobs[i].job \in JobsOf(hashJobs')
       /\ \A i \in DOMAIN backups : Job(backups[i]) = "in_progress" =>
             \/ backups[i].job \in JobsOf(backups')
             \/ \E c \in Adders : adding'[c] # adding[c] /\ adding'[c].name = backups[i].name]_listVars

\* The newest jobs that ended in each state can still be asked about: only those with
\* as many newer ones as are retained are dropped, or replaced.
RecentKept ==
    [][\A i \in DOMAIN backups :
          /\ Job(backups[i]) \in Ended /\ backups[i].job \notin JobsOf(backups')
          => \/ \E c \in Adders : adding'[c] # adding[c] /\ adding'[c].name = backups[i].name
             \/ Cardinality({k \in Places(backups, Job(backups[i])) : k > i}) >= Retained[Job(backups[i])]]_listVars

\* No more jobs that ended are listed than are retained.
Bounded(l) == \A s \in Ended : Cardinality(Places(l, s)) <= Retained[s]

AllEnded == jobAdds = MaxJobs /\ \A j \in DOMAIN jobState : jobState[j] \in Ended

\* The lists do not grow with the jobs that ended: when no more are added, refresh
\* gets each list down to what is retained.
Converges == AllEnded ~> (Bounded(backups) /\ Bounded(hashJobs))

\* "Refresh deletes all the old completed backups": what Get leaves is bounded.
RefreshComplete == [][Get => Bounded(hashJobs')]_listVars

\* "If a record already exists, remove it before adding the new one": a name is listed
\* once.
NamesUnique ==
    /\ \A i, j \in DOMAIN backups : backups[i].name = backups[j].name => i = j
    /\ \A i, j \in DOMAIN hashJobs : hashJobs[i].name = hashJobs[j].name => i = j

\* A job in progress, and the newest jobs that ended, stay in their list (refresh).
JobsKept == RunningKept /\ RecentKept
=============================================================================
