------------------------ MODULE SnapshotLimitsProofs ------------------------
(***************************************************************************)
(* The limits on the snapshots, for every number of replicas, of calls and *)
(* of snapshots and for every limit, as long as no call to a replica       *)
(* fails.  The invariant says of every replica that its copy of the limit  *)
(* on the number is the controller's and that its snapshots are within     *)
(* both limits.  That the check of the controller protects every replica   *)
(* rests on the largest of the answers being at least each of them, which  *)
(* a finite set has by well-founded induction on its subsets; the sizes    *)
(* are added up as the number of the units of the snapshots.               *)
(***************************************************************************)
EXTENDS SnapshotLimits, TLAPS, FiniteSetTheorems, WellFoundedInduction

Disk == [id : Nat, size : Nat]

LimitType ==
    /\ \A r \in LimitReplicas : limitMode[r] = "RW"
    /\ disks \in [LimitReplicas -> SUBSET Disk]
    /\ limitFaults = 0 /\ maxCount \in Nat /\ maxSize \in Nat /\ taken \in Nat

\* What is true of one replica: its copy of the limit, the size of its head, and its
\* snapshots, which have names of their own and are within the limits.
Bounded(r) ==
    /\ limit[r] = maxCount /\ head[r] \in Nat
    /\ \A d \in disks[r] : d.id < taken /\ \A e \in disks[r] : d.id = e.id => d = e
    /\ IsFiniteSet(disks[r]) /\ IsFiniteSet(Units(disks[r]))
    /\ Cardinality(disks[r]) <= maxCount
    /\ maxSize # 0 => Cardinality(Units(disks[r])) <= maxSize

LimitInv == LimitType /\ \A r \in LimitReplicas : Bounded(r)

-----------------------------------------------------------------------------
\* A finite set of natural numbers that is not empty has a largest element.
LEMMA LargestNatural ==
    ASSUME NEW S, S \subseteq Nat, S # {}, IsFiniteSet(S)
    PROVE  \E x \in S : \A y \in S : x >= y
<1> DEFINE Bad == {T \in SUBSET S : T # {} /\ \A x \in T : \E y \in T : ~(x >= y)}
<1> DEFINE R == StrictSubsetOrdering(S)
<1>1. IsWellFoundedOn(R, SUBSET S)
  BY Zenon, FS_StrictSubsetOrderingWellFounded, FS_FiniteSubsetsOfFinite
<1>2. SUFFICES ASSUME Bad # {} PROVE FALSE
  BY Zenon
<1>3. PICK T \in Bad : \A U \in Bad : <<U, T>> \notin R
  BY Zenon, <1>1, <1>2, WFMin
<1>4. T \in SUBSET S /\ T # {} /\ \A x \in T : \E y \in T : ~(x >= y)
  BY Zenon, <1>3
<1>5. PICK z \in T : TRUE
  BY Zenon, <1>4
<1> DEFINE U == T \ {z}
<1>6. U \in SUBSET S /\ U \subseteq T /\ U # T
  BY Zenon, <1>4, <1>5
<1>7. <<U, T>> \in R
  <2>1. <<U, T>> \in (SUBSET S) \X (SUBSET S) /\ <<U, T>>[1] = U /\ <<U, T>>[2] = T
    BY Zenon, <1>4, <1>6
  <2>2. QED
    BY Zenon, <1>6, <2>1 DEF StrictSubsetOrdering
<1>8. U \notin Bad
  BY Zenon, <1>3, <1>7
<1>9. U = {} \/ \E x \in U : \A y \in U : x >= y
  BY Zenon, <1>6, <1>8
<1>10. z \in Nat /\ T \subseteq Nat
  BY Zenon, <1>4, <1>5
<1>11. CASE U = {}
  <2>1. \A y \in T : y = z
    BY Zenon, <1>11
  <2>2. z >= z
    BY <1>10
  <2>3. QED
    BY Zenon, <1>4, <1>5, <2>1, <2>2
<1>12. CASE \E x \in U : \A y \in U : x >= y
  <2>1. PICK x \in U : \A y \in U : x >= y
    BY Zenon, <1>12
  <2>2. x \in T /\ x \in Nat
    BY Zenon, <1>10, <1>6
  <2>3. CASE x >= z
    <3>1. \A y \in T : x >= y
      BY Zenon, <2>1, <2>3
    <3>2. QED
      BY Zenon, <1>4, <2>2, <3>1
  <2>4. CASE ~(x >= z)
    <3>1. ASSUME NEW y \in T PROVE z >= y
      <4>1. CASE y = z
        BY <1>10, <4>1
      <4>2. CASE y # z
        <5>1. x >= y /\ y \in Nat
          BY Zenon, <2>1, <4>2, <1>10
        <5>2. QED
          BY <5>1, <2>2, <2>4, <1>10
      <4>3. QED
        BY Zenon, <4>1, <4>2
    <3>2. QED
      BY Zenon, <1>4, <1>5, <3>1
  <2>5. QED
    BY Zenon, <2>3, <2>4
<1>13. QED
  BY Zenon, <1>9, <1>11, <1>12

\* The largest value of a function on a finite set is at least each of its values.
LEMMA MaxOfValues ==
    ASSUME NEW S, IsFiniteSet(S), NEW f, \A s \in S : f[s] \in Nat
    PROVE  \A s \in S : f[s] \in Nat /\ Max({f[t] : t \in S}) \in Nat /\ f[s] <= Max({f[t] : t \in S})
<1> DEFINE T == {f[t] : t \in S}
<1> DEFINE g == [t \in S |-> f[t]]
<1> SUFFICES ASSUME NEW s \in S PROVE Max(T) \in Nat /\ f[s] <= Max(T)
  BY Zenon
<1>1. T \subseteq Nat /\ f[s] \in T
  BY Zenon
<1>2. IsFiniteSet(T)
  <2>1. g \in Surjection(S, T)
    BY Zenon DEF Surjection
  <2>2. QED
    BY Zenon, <2>1, FS_Surjection
<1>3. \E x \in T : \A y \in T : x >= y
  BY Zenon, <1>1, <1>2, LargestNatural
<1>4. Max(T) \in T /\ \A y \in T : Max(T) >= y
  BY Zenon, <1>3 DEF Max
<1> HIDE DEF T
<1>5. QED
  BY <1>1, <1>4

-----------------------------------------------------------------------------
\* One more snapshot adds its units (createDisk).
LEMMA UnitsAdded ==
    ASSUME NEW D, NEW d, d.size \in Nat, IsFiniteSet(Units(D))
    PROVE  /\ IsFiniteSet(Units(D \cup {d}))
           /\ Cardinality(Units(D \cup {d})) <= Cardinality(Units(D)) + d.size
<1> DEFINE N == {d.id} \X (1..d.size)
<1>1. Units(D \cup {d}) = Units(D) \cup N
  BY Zenon DEF Units
<1>2. IsFiniteSet(1..d.size) /\ Cardinality(1..d.size) = d.size
  <2>1. 1 \in Int /\ d.size \in Int
    BY SMT
  <2>2. IsFiniteSet(1..d.size) /\ Cardinality(1..d.size) = IF 1 > d.size THEN 0 ELSE d.size - 1 + 1
    BY Zenon, <2>1, FS_Interval
  <2>3. QED
    BY <2>2
<1>3. IsFiniteSet({d.id}) /\ Cardinality({d.id}) = 1
  BY Zenon, FS_Singleton
<1>4. IsFiniteSet(N) /\ Cardinality(N) = Cardinality({d.id}) * Cardinality(1..d.size)
  BY Zenon, <1>2, <1>3, FS_Product
<1> HIDE DEF N
<1>5. Cardinality(N) = d.size
  BY <1>2, <1>3, <1>4
<1>6. /\ IsFiniteSet(Units(D) \cup N)
      /\ Cardinality(Units(D) \cup N) = Cardinality(Units(D)) + Cardinality(N) - Cardinality(Units(D) \cap N)
  BY Zenon, <1>4, FS_Union
<1>7. IsFiniteSet(Units(D) \cap N)
  BY Zenon, FS_Intersection
<1>8. Cardinality(Units(D)) \in Nat /\ Cardinality(Units(D) \cap N) \in Nat
  BY Zenon, <1>7, FS_CardinalityType
<1>9. Cardinality(Units(D) \cup N) <= Cardinality(Units(D)) + d.size
  BY <1>5, <1>6, <1>8
<1>10. QED
  BY Zenon, <1>1, <1>6, <1>9

\* One snapshot less takes no more room (MarkDiskAsRemoved).
LEMMA UnitsRemoved ==
    ASSUME NEW D, NEW d, IsFiniteSet(Units(D))
    PROVE  /\ IsFiniteSet(Units(D \ {d}))
           /\ Cardinality(Units(D \ {d})) <= Cardinality(Units(D))
<1>1. Units(D \ {d}) \in SUBSET Units(D)
  BY Zenon DEF Units
<1>2. QED
  BY Zenon, <1>1, FS_Subset

\* A snapshot adds one to their number, and the removal of one takes it away.
LEMMA CountChanges ==
    ASSUME NEW D, NEW d, IsFiniteSet(D)
    PROVE  /\ Cardinality(D) \in Nat
           /\ IsFiniteSet(D \cup {d}) /\ Cardinality(D \cup {d}) <= Cardinality(D) + 1
           /\ IsFiniteSet(D \ {d}) /\ Cardinality(D \ {d}) <= Cardinality(D)
<1>1. Cardinality(D) \in Nat
  BY Zenon, FS_CardinalityType
<1>2. /\ IsFiniteSet(D \cup {d})
      /\ Cardinality(D \cup {d}) = IF d \in D THEN Cardinality(D) ELSE Cardinality(D) + 1
  BY Zenon, FS_AddElement
<1>3. Cardinality(D \cup {d}) <= Cardinality(D) + 1
  BY <1>1, <1>2
<1>4. IsFiniteSet(D \ {d}) /\ Cardinality(D \ {d}) <= Cardinality(D)
  <2>1. D \ {d} \in SUBSET D
    BY Zenon
  <2>2. QED
    BY Zenon, <2>1, FS_Subset
<1>5. QED
  BY Zenon, <1>1, <1>2, <1>3, <1>4

\* What the usages of a replica are when the invariant holds.
LEMMA UsageType ==
    ASSUME LimitInv
    PROVE  /\ Working = LimitReplicas
           /\ \A r \in LimitReplicas : /\ GetSnapshotCountUsage(r) \in Nat
                                       /\ GetSnapshotSizeUsage(r) \in Nat
                                       /\ head[r] \in Nat
<1>1. Working = LimitReplicas
  BY Zenon DEF LimitInv, LimitType, Working
<1>2. ASSUME NEW r \in LimitReplicas PROVE IsFiniteSet(disks[r]) /\ IsFiniteSet(Units(disks[r])) /\ head[r] \in Nat
  BY Zenon DEF LimitInv, Bounded
<1>3. QED
  BY Zenon, <1>1, <1>2, FS_CardinalityType DEF GetSnapshotCountUsage, GetSnapshotSizeUsage

\* When no call fails, every replica answers (replicator.GetSnapshotCountAndSizeUsage).
LEMMA AllAnswer ==
    ASSUME LimitInv, MaxLimitFaults = 0, NEW ok, Answers(ok)
    PROVE  ok = LimitReplicas /\ Working = LimitReplicas /\ Cardinality(Working \ ok) = 0
<1>1. Working = LimitReplicas /\ limitFaults = 0
  BY Zenon, UsageType DEF LimitInv, LimitType
<1>2. IsFiniteSet(Working \ ok)
  BY Zenon, <1>1, LimitAssumption, FS_Difference
<1>3. Cardinality(Working \ ok) \in Nat /\ (Cardinality(Working \ ok) = 0 => Working \ ok = {})
  BY Zenon, <1>2, FS_CardinalityType, FS_EmptySet
<1>4. limitFaults + Cardinality(Working \ ok) <= MaxLimitFaults /\ ok \subseteq Working
  BY Zenon DEF Answers
<1>5. Cardinality(Working \ ok) = 0
  BY <1>1, <1>3, <1>4
<1>6. QED
  BY Zenon, <1>1, <1>3, <1>4, <1>5

\* The controller's values are the largest of the replicas' (GetSnapshotCountAndSizeUsage,
\* GetHeadFileSize).
LEMMA LargestUsage ==
    ASSUME LimitInv
    PROVE  \A r \in LimitReplicas :
              /\ CountUsage(LimitReplicas) \in Nat /\ GetSnapshotCountUsage(r) <= CountUsage(LimitReplicas)
              /\ SizeUsage(LimitReplicas) \in Nat /\ GetSnapshotSizeUsage(r) <= SizeUsage(LimitReplicas)
              /\ GetHeadFileSize(LimitReplicas) \in Nat /\ head[r] <= GetHeadFileSize(LimitReplicas)
<1> DEFINE c == [r \in LimitReplicas |-> GetSnapshotCountUsage(r)]
<1> DEFINE z == [r \in LimitReplicas |-> GetSnapshotSizeUsage(r)]
<1>1. \A r \in LimitReplicas : /\ c[r] = GetSnapshotCountUsage(r) /\ c[r] \in Nat
                               /\ z[r] = GetSnapshotSizeUsage(r) /\ z[r] \in Nat
                               /\ head[r] \in Nat
  BY Zenon, UsageType
<1> HIDE DEF c, z
<1>2. /\ {c[r] : r \in LimitReplicas} = {GetSnapshotCountUsage(r) : r \in LimitReplicas}
      /\ {z[r] : r \in LimitReplicas} = {GetSnapshotSizeUsage(r) : r \in LimitReplicas}
  BY Zenon, <1>1
<1>3. IsFiniteSet(LimitReplicas)
  BY Zenon, LimitAssumption
<1>4. \A r \in LimitReplicas : CountUsage(LimitReplicas) \in Nat /\ c[r] <= CountUsage(LimitReplicas)
  <2> \A r \in LimitReplicas : c[r] \in Nat
    BY Zenon, <1>1
  <2>1. \A s \in LimitReplicas : /\ Max({c[r] : r \in LimitReplicas}) \in Nat
                                  /\ c[s] <= Max({c[r] : r \in LimitReplicas})
    BY Zenon, <1>3, MaxOfValues
  <2>2. QED
    BY Zenon, <1>2, <2>1 DEF CountUsage
<1>5. \A r \in LimitReplicas : SizeUsage(LimitReplicas) \in Nat /\ z[r] <= SizeUsage(LimitReplicas)
  <2> \A r \in LimitReplicas : z[r] \in Nat
    BY Zenon, <1>1
  <2>1. \A s \in LimitReplicas : /\ Max({z[r] : r \in LimitReplicas}) \in Nat
                                  /\ z[s] <= Max({z[r] : r \in LimitReplicas})
    BY Zenon, <1>3, MaxOfValues
  <2>2. QED
    BY Zenon, <1>2, <2>1 DEF SizeUsage
<1>6. \A r \in LimitReplicas : GetHeadFileSize(LimitReplicas) \in Nat /\ head[r] <= GetHeadFileSize(LimitReplicas)
  BY Zenon, <1>1, <1>3, MaxOfValues DEF GetHeadFileSize
<1>7. QED
  BY Zenon, <1>1, <1>4, <1>5, <1>6

\* A snapshot that the controller allows, every replica has room for (canDoSnapshot).
RoomForSnapshot ==
    \A r \in LimitReplicas :
        /\ GetSnapshotCountUsage(r) < maxCount
        /\ maxSize # 0 => GetSnapshotSizeUsage(r) + head[r] <= maxSize

\* The check of the controller gives that room.
LEMMA AllowedHasRoom ==
    ASSUME LimitInv, canDoSnapshot(LimitReplicas)
    PROVE  RoomForSnapshot
<1> SUFFICES ASSUME NEW r \in LimitReplicas
             PROVE  /\ GetSnapshotCountUsage(r) < maxCount
                    /\ maxSize # 0 => GetSnapshotSizeUsage(r) + head[r] <= maxSize
  BY Zenon DEF RoomForSnapshot
<1>1. maxCount \in Nat /\ maxSize \in Nat
  BY Zenon DEF LimitInv, LimitType
<1>2. GetSnapshotCountUsage(r) \in Nat /\ GetSnapshotSizeUsage(r) \in Nat /\ head[r] \in Nat
  BY Zenon, UsageType
<1>3. /\ CountUsage(LimitReplicas) \in Nat /\ GetSnapshotCountUsage(r) <= CountUsage(LimitReplicas)
      /\ SizeUsage(LimitReplicas) \in Nat /\ GetSnapshotSizeUsage(r) <= SizeUsage(LimitReplicas)
      /\ GetHeadFileSize(LimitReplicas) \in Nat /\ head[r] <= GetHeadFileSize(LimitReplicas)
  BY Zenon, LargestUsage
<1>4. /\ CountUsage(LimitReplicas) < maxCount
      /\ maxSize # 0 => GetHeadFileSize(LimitReplicas) <= maxSize - SizeUsage(LimitReplicas)
  BY Zenon DEF canDoSnapshot
<1>5. GetSnapshotCountUsage(r) < maxCount
  BY <1>1, <1>2, <1>3, <1>4
<1>6. ASSUME maxSize # 0 PROVE GetSnapshotSizeUsage(r) + head[r] <= maxSize
  BY <1>1, <1>2, <1>3, <1>4, <1>6
<1>7. QED
  BY Zenon, <1>5, <1>6

\* A snapshot for which every replica has room is taken by every replica, and leaves each
\* within the limits (replicator.Snapshot, createDisk).
LEMMA CreateDiskKeeps ==
    ASSUME LimitInv, RoomForSnapshot, CreateDisk(Working),
           limit' = limit, maxCount' = maxCount, maxSize' = maxSize, limitFaults' = limitFaults
    PROVE  LimitInv'
<1> DEFINE New(r) == [id |-> taken, size |-> head[r]]
<1>1. Working = LimitReplicas /\ maxCount \in Nat /\ maxSize \in Nat /\ taken \in Nat /\ limitFaults = 0
  BY Zenon, UsageType DEF LimitInv, LimitType
<1>2. {r \in Working : getRemainSnapshotCounts(r) > 0} = LimitReplicas
  <2>1. ASSUME NEW r \in LimitReplicas PROVE getRemainSnapshotCounts(r) > 0
    <3>1. limit[r] = maxCount /\ GetSnapshotCountUsage(r) < maxCount /\ GetSnapshotCountUsage(r) \in Nat
      BY Zenon, UsageType DEF LimitInv, Bounded, RoomForSnapshot
    <3>2. QED
      BY <1>1, <3>1 DEF getRemainSnapshotCounts
  <2>2. QED
    BY Zenon, <1>1, <2>1
<1>3. /\ disks' = [r \in LimitReplicas |-> disks[r] \cup {New(r)}]
      /\ \A r \in LimitReplicas : head'[r] = 0 /\ limitMode'[r] = "RW"
      /\ taken' = taken + 1
  BY Zenon, <1>1, <1>2 DEF CreateDisk, LimitInv, LimitType
<1>4. ASSUME NEW r \in LimitReplicas
      PROVE  /\ New(r) \in Disk /\ New(r).id = taken /\ New(r).size = head[r]
             /\ disks[r] \in SUBSET Disk /\ disks'[r] = disks[r] \cup {New(r)}
  <2>1. head[r] \in Nat
    BY Zenon DEF LimitInv, Bounded
  <2>2. New(r) \in Disk /\ New(r).id = taken /\ New(r).size = head[r]
    BY <1>1, <2>1 DEF Disk
  <2>3. disks[r] \in SUBSET Disk /\ disks'[r] = disks[r] \cup {New(r)}
    BY Zenon, <1>3 DEF LimitInv, LimitType
  <2>4. QED
    BY Zenon, <2>2, <2>3
<1>5. LimitType'
  <2>1. disks' \in [LimitReplicas -> SUBSET Disk]
    BY Zenon, <1>3, <1>4
  <2>2. taken' \in Nat
    BY <1>1, <1>3
  <2>3. QED
    BY Zenon, <1>1, <1>3, <2>1, <2>2 DEF LimitType
<1>6. ASSUME NEW r \in LimitReplicas PROVE Bounded(r)'
  <2> DEFINE n == New(r)
  <2>1. /\ limit[r] = maxCount /\ head[r] \in Nat
        /\ IsFiniteSet(disks[r]) /\ IsFiniteSet(Units(disks[r]))
        /\ \A d \in disks[r] : d.id < taken /\ \A e \in disks[r] : d.id = e.id => d = e
    BY Zenon DEF LimitInv, Bounded
  <2>2. n.id = taken /\ n.size = head[r] /\ disks'[r] = disks[r] \cup {n} /\ disks[r] \in SUBSET Disk
    BY Zenon, <1>4
  <2> HIDE DEF n
  <2>3. \A d \in disks[r] : d.id \in Nat
    BY Zenon, <2>2 DEF Disk
  <2>4. /\ IsFiniteSet(disks'[r]) /\ Cardinality(disks'[r]) <= maxCount
    <3>1. /\ Cardinality(disks[r]) \in Nat /\ IsFiniteSet(disks'[r])
          /\ Cardinality(disks'[r]) <= Cardinality(disks[r]) + 1
      <4>1. /\ Cardinality(disks[r]) \in Nat /\ IsFiniteSet(disks[r] \cup {n})
            /\ Cardinality(disks[r] \cup {n}) <= Cardinality(disks[r]) + 1
        BY ONLY Zenon, <2>1, CountChanges
      <4>2. QED
        BY Zenon, <2>2, <4>1
    <3>2. Cardinality(disks[r]) < maxCount
      BY Zenon DEF RoomForSnapshot, GetSnapshotCountUsage
    <3>3. Cardinality(disks'[r]) \in Nat
      BY Zenon, <3>1, FS_CardinalityType
    <3>4. QED
      BY <1>1, <3>1, <3>2, <3>3
  <2>5. /\ IsFiniteSet(Units(disks'[r]))
        /\ maxSize # 0 => Cardinality(Units(disks'[r])) <= maxSize
    <3>1. n.size \in Nat
      BY Zenon, <2>1, <2>2
    <3>2. /\ IsFiniteSet(Units(disks'[r]))
          /\ Cardinality(Units(disks'[r])) <= Cardinality(Units(disks[r])) + n.size
      <4>1. /\ IsFiniteSet(Units(disks[r] \cup {n}))
            /\ Cardinality(Units(disks[r] \cup {n})) <= Cardinality(Units(disks[r])) + n.size
        BY ONLY Zenon, <2>1, <3>1, UnitsAdded
      <4>2. QED
        BY Zenon, <2>2, <4>1
    <3>3. maxSize # 0 => Cardinality(Units(disks[r])) + head[r] <= maxSize
      BY Zenon DEF RoomForSnapshot, GetSnapshotSizeUsage
    <3>4. Cardinality(Units(disks[r])) \in Nat /\ Cardinality(Units(disks'[r])) \in Nat
      BY Zenon, <2>1, <3>2, FS_CardinalityType
    <3>5. ASSUME maxSize # 0 PROVE Cardinality(Units(disks'[r])) <= maxSize
      BY <1>1, <2>1, <2>2, <3>2, <3>3, <3>4, <3>5
    <3>6. QED
      BY Zenon, <3>2, <3>5
  <2>6. ASSUME NEW d \in disks'[r] PROVE d.id < taken'
    <3>1. CASE d = n
      BY <1>1, <1>3, <2>2, <3>1
    <3>2. CASE d \in disks[r]
      <4>1. d.id < taken /\ d.id \in Nat
        BY Zenon, <2>1, <2>3, <3>2
      <4>2. QED
        BY <1>1, <1>3, <4>1
    <3>3. QED
      BY Zenon, <2>2, <3>1, <3>2
  <2>7. \A d \in disks[r] : d.id # taken
    <3>1. ASSUME NEW d \in disks[r] PROVE d.id # taken
      <4>1. d.id < taken /\ d.id \in Nat
        BY Zenon, <2>1, <2>3
      <4>2. QED
        BY <1>1, <4>1
    <3>2. QED
      BY Zenon, <3>1
  <2>8. \A d, e \in disks'[r] : d.id = e.id => d = e
    BY Zenon, <2>1, <2>2, <2>7
  <2>9. limit'[r] = maxCount' /\ head'[r] \in Nat
    BY <1>3, <2>1
  <2>10. QED
    BY Zenon, <2>4, <2>5, <2>6, <2>8, <2>9 DEF Bounded
<1>7. QED
  BY Zenon, <1>5, <1>6 DEF LimitInv

-----------------------------------------------------------------------------
\* One step per action.  The first check of Snapshot changes nothing that is limited.
LEMMA BeginSnapshotStep ==
    ASSUME LimitInv, MaxLimitFaults = 0, NEW c, BeginSnapshot(c) PROVE LimitInv'
<1>1. PICK ok \in SUBSET Working : Answers(ok) /\ CountFaults(ok)
  BY Zenon DEF BeginSnapshot
<1>2. limitFaults' = limitFaults + 0 /\ limitFaults = 0
  BY Zenon, <1>1, AllAnswer DEF CountFaults, LimitInv, LimitType
<1>3. limitFaults' = 0
  BY <1>2
<1>4. /\ limitMode' = limitMode /\ disks' = disks /\ head' = head /\ limit' = limit
      /\ maxCount' = maxCount /\ maxSize' = maxSize /\ taken' = taken
  BY Zenon DEF BeginSnapshot
<1>5. QED
  BY Zenon, <1>3, <1>4 DEF LimitInv, LimitType, Bounded

\* A snapshot that was allowed is within the limits of every replica (Snapshot).
LEMMA TakeSnapshotStep ==
    ASSUME LimitInv, MaxLimitFaults = 0, NEW c, TakeSnapshot(c) PROVE LimitInv'
<1>1. PICK ok \in SUBSET Working :
        /\ Answers(ok) /\ CountFaults(ok)
        /\ \/ canDoSnapshot(ok) /\ CreateDisk(Working)
           \/ UNCHANGED <<limitMode, disks, head, taken>>
  BY Zenon DEF TakeSnapshot
<1>2. ok = LimitReplicas /\ limitFaults' = limitFaults + 0 /\ limitFaults = 0
  BY Zenon, <1>1, AllAnswer DEF CountFaults, LimitInv, LimitType
<1>3. limitFaults' = 0 /\ limitFaults' = limitFaults
  BY <1>2
<1>4. limit' = limit /\ maxCount' = maxCount /\ maxSize' = maxSize
  BY Zenon DEF TakeSnapshot
<1>5. CASE canDoSnapshot(ok) /\ CreateDisk(Working)
  <2>1. RoomForSnapshot
    BY Zenon, <1>2, <1>5, AllowedHasRoom
  <2>2. QED
    BY Zenon, <1>3, <1>4, <1>5, <2>1, CreateDiskKeeps
<1>6. CASE UNCHANGED <<limitMode, disks, head, taken>>
  <2>1. limitMode' = limitMode /\ disks' = disks /\ head' = head /\ taken' = taken
    BY Zenon, <1>6
  <2>2. QED
    BY Zenon, <1>3, <1>4, <2>1 DEF LimitInv, LimitType, Bounded
<1>7. QED
  BY Zenon, <1>1, <1>5, <1>6

\* The same for the snapshot an expansion takes (Expand).
LEMMA ExpandSnapshotStep ==
    ASSUME LimitInv, MaxLimitFaults = 0, ExpandSnapshot PROVE LimitInv'
<1>1. PICK ok \in SUBSET Working : Answers(ok) /\ CountFaults(ok) /\ canDoSnapshot(ok)
  BY Zenon DEF ExpandSnapshot
<1>2. ok = LimitReplicas /\ limitFaults' = limitFaults + 0 /\ limitFaults = 0
  BY Zenon, <1>1, AllAnswer DEF CountFaults, LimitInv, LimitType
<1>3. limitFaults' = limitFaults
  BY <1>2
<1>4. RoomForSnapshot
  BY Zenon, <1>1, <1>2, AllowedHasRoom
<1>5. QED
  BY Zenon, <1>3, <1>4, CreateDiskKeeps DEF ExpandSnapshot

\* A new limit on the number is not below what a replica has (SetSnapshotMaxCount).
LEMMA SetSnapshotMaxCountStep ==
    ASSUME LimitInv, MaxLimitFaults = 0, NEW count \in Counts, SetSnapshotMaxCount(count) PROVE LimitInv'
<1>1. PICK ok \in SUBSET Working, set \in SUBSET Working :
        /\ Answers(ok)
        /\ \/ CountFaults(ok) /\ UNCHANGED <<maxCount, limit>>
           \/ /\ ~(count < CountUsage(ok))
              /\ maxCount' = count
              /\ limit' = [r \in LimitReplicas |-> IF r \in set THEN count ELSE limit[r]]
              /\ limitFaults' = limitFaults + Cardinality(Working \ ok) + (IF set = Working THEN 0 ELSE 1)
              /\ limitFaults' <= MaxLimitFaults
  BY Zenon DEF SetSnapshotMaxCount
<1>2. /\ ok = LimitReplicas /\ Working = LimitReplicas /\ Cardinality(Working \ ok) = 0 /\ limitFaults = 0
      /\ maxSize \in Nat
  BY Zenon, <1>1, AllAnswer DEF LimitInv, LimitType
<1>3. limitMode' = limitMode /\ disks' = disks /\ head' = head /\ maxSize' = maxSize /\ taken' = taken
  BY Zenon DEF SetSnapshotMaxCount
<1>4. CASE CountFaults(ok) /\ UNCHANGED <<maxCount, limit>>
  <2>1. limitFaults' = 0 + 0 /\ maxCount' = maxCount /\ limit' = limit
    BY Zenon, <1>2, <1>4 DEF CountFaults
  <2>2. limitFaults' = 0
    BY <2>1
  <2>3. QED
    BY Zenon, <1>3, <2>1, <2>2 DEF LimitInv, LimitType, Bounded
<1>5. CASE /\ ~(count < CountUsage(ok))
           /\ maxCount' = count
           /\ limit' = [r \in LimitReplicas |-> IF r \in set THEN count ELSE limit[r]]
           /\ limitFaults' = limitFaults + Cardinality(Working \ ok) + (IF set = Working THEN 0 ELSE 1)
           /\ limitFaults' <= MaxLimitFaults
  <2>1. set = Working /\ limitFaults' = 0
    BY <1>2, <1>5
  <2>2. \A r \in LimitReplicas : limit'[r] = maxCount'
    BY Zenon, <1>2, <1>5, <2>1
  <2>3. count \in Nat
    BY Zenon, LimitAssumption
  <2>4. ASSUME NEW r \in LimitReplicas PROVE Cardinality(disks[r]) <= count
    <3>1. /\ CountUsage(LimitReplicas) \in Nat /\ GetSnapshotCountUsage(r) <= CountUsage(LimitReplicas)
          /\ GetSnapshotCountUsage(r) \in Nat
      BY Zenon, LargestUsage, UsageType
    <3>2. GetSnapshotCountUsage(r) <= count
      BY <1>2, <1>5, <2>3, <3>1
    <3>3. QED
      BY Zenon, <3>2 DEF GetSnapshotCountUsage
  <2>5. ASSUME NEW r \in LimitReplicas PROVE Bounded(r)'
    BY Zenon, <1>3, <1>5, <2>2, <2>4 DEF LimitInv, Bounded
  <2>6. LimitType'
    BY Zenon, <1>3, <1>5, <2>1, <2>3 DEF LimitInv, LimitType
  <2>7. QED
    BY Zenon, <2>5, <2>6 DEF LimitInv
<1>6. QED
  BY Zenon, <1>1, <1>4, <1>5

\* Nor is one on the size (SetSnapshotMaxSize).
LEMMA SetSnapshotMaxSizeStep ==
    ASSUME LimitInv, MaxLimitFaults = 0, NEW size \in MaxSizes, SetSnapshotMaxSize(size) PROVE LimitInv'
<1>1. PICK ok \in SUBSET Working, told \in BOOLEAN :
        /\ Answers(ok)
        /\ maxSize' = IF size < SizeUsage(ok) THEN maxSize ELSE size
        /\ limitFaults' = limitFaults + Cardinality(Working \ ok) + (IF told THEN 0 ELSE 1)
        /\ limitFaults' <= MaxLimitFaults
  BY Zenon DEF SetSnapshotMaxSize
<1>2. /\ ok = LimitReplicas /\ Cardinality(Working \ ok) = 0 /\ limitFaults = 0
      /\ maxSize \in Nat
  BY Zenon, <1>1, AllAnswer DEF LimitInv, LimitType
<1>3. limitFaults' = 0
  BY <1>1, <1>2
<1>4. /\ limitMode' = limitMode /\ disks' = disks /\ head' = head /\ limit' = limit /\ maxCount' = maxCount
      /\ taken' = taken
  BY Zenon DEF SetSnapshotMaxSize
<1>5. size \in Nat
  BY Zenon, LimitAssumption
<1>6. ASSUME NEW r \in LimitReplicas PROVE maxSize' # 0 => Cardinality(Units(disks[r])) <= maxSize'
  <2>1. /\ SizeUsage(LimitReplicas) \in Nat /\ GetSnapshotSizeUsage(r) <= SizeUsage(LimitReplicas)
        /\ GetSnapshotSizeUsage(r) \in Nat
        /\ maxSize # 0 => GetSnapshotSizeUsage(r) <= maxSize
    BY Zenon, LargestUsage, UsageType DEF LimitInv, Bounded, GetSnapshotSizeUsage
  <2>2. maxSize' # 0 => GetSnapshotSizeUsage(r) <= maxSize'
    BY <1>1, <1>2, <1>5, <2>1
  <2>3. QED
    BY Zenon, <2>2 DEF GetSnapshotSizeUsage
<1>7. ASSUME NEW r \in LimitReplicas PROVE Bounded(r)'
  BY Zenon, <1>4, <1>6 DEF LimitInv, Bounded
<1>8. maxSize' \in Nat
  BY Zenon, <1>1, <1>2, <1>5
<1>9. LimitType'
  BY Zenon, <1>3, <1>4, <1>8 DEF LimitInv, LimitType
<1>10. QED
  BY Zenon, <1>7, <1>9 DEF LimitInv

\* A disk that no longer counts leaves room (MarkDiskAsRemoved).
LEMMA MarkDiskAsRemovedStep ==
    ASSUME LimitInv, NEW r \in LimitReplicas, MarkDiskAsRemoved(r) PROVE LimitInv'
<1>1. PICK d \in disks[r] : disks' = [disks EXCEPT ![r] = @ \ {d}]
  BY Zenon DEF MarkDiskAsRemoved
<1>2. /\ limitMode' = limitMode /\ head' = head /\ limit' = limit /\ maxCount' = maxCount
      /\ maxSize' = maxSize /\ taken' = taken /\ limitFaults' = limitFaults
  BY Zenon DEF MarkDiskAsRemoved
<1>3. disks \in [LimitReplicas -> SUBSET Disk] /\ maxCount \in Nat /\ maxSize \in Nat
  BY Zenon DEF LimitInv, LimitType
<1>4. disks'[r] = disks[r] \ {d} /\ \A q \in LimitReplicas \ {r} : disks'[q] = disks[q]
  BY Zenon, <1>1, <1>3
<1>5. LimitType'
  <2>1. disks' \in [LimitReplicas -> SUBSET Disk]
    BY Zenon, <1>1, <1>3
  <2>2. QED
    BY Zenon, <1>2, <2>1 DEF LimitInv, LimitType
<1>6. ASSUME NEW q \in LimitReplicas PROVE Bounded(q)'
  <2>1. CASE q # r
    BY Zenon, <1>2, <1>4, <2>1 DEF LimitInv, Bounded
  <2>2. CASE q = r
    <3>1. Bounded(r)
      BY Zenon DEF LimitInv
    <3>2. IsFiniteSet(disks[r]) /\ IsFiniteSet(Units(disks[r])) /\ Cardinality(disks[r]) <= maxCount
      BY Zenon, <3>1 DEF Bounded
    <3>3. /\ Cardinality(disks[r]) \in Nat /\ IsFiniteSet(disks[r] \ {d})
          /\ Cardinality(disks[r] \ {d}) <= Cardinality(disks[r])
      BY ONLY Zenon, <3>2, CountChanges
    <3>4. /\ IsFiniteSet(Units(disks[r] \ {d}))
          /\ Cardinality(Units(disks[r] \ {d})) <= Cardinality(Units(disks[r]))
      BY ONLY Zenon, <3>2, UnitsRemoved
    <3>5. /\ Cardinality(disks[r] \ {d}) \in Nat
          /\ Cardinality(Units(disks[r] \ {d})) \in Nat /\ Cardinality(Units(disks[r])) \in Nat
      BY Zenon, <3>2, <3>3, <3>4, FS_CardinalityType
    <3>6. Cardinality(disks'[r]) <= maxCount
      BY <1>3, <1>4, <3>2, <3>3, <3>5
    <3>7. ASSUME maxSize # 0 PROVE Cardinality(Units(disks'[r])) <= maxSize
      <4>1. Cardinality(Units(disks[r])) <= maxSize
        BY Zenon, <3>1, <3>7 DEF Bounded
      <4>2. Cardinality(Units(disks[r] \ {d})) <= maxSize
        BY <1>3, <3>4, <3>5, <4>1
      <4>3. QED
        BY Zenon, <1>4, <4>2
    <3>8. IsFiniteSet(disks'[r]) /\ IsFiniteSet(Units(disks'[r]))
      BY Zenon, <1>4, <3>3, <3>4
    <3>9. \A e \in disks'[r] : e.id < taken /\ \A f \in disks'[r] : e.id = f.id => e = f
      BY Zenon, <1>4, <3>1 DEF Bounded
    <3>10. QED
      BY Zenon, <1>2, <2>2, <3>1, <3>6, <3>7, <3>8, <3>9 DEF Bounded
  <2>3. QED
    BY Zenon, <2>1, <2>2
<1>7. QED
  BY Zenon, <1>5, <1>6 DEF LimitInv

\* A write grows the head, which counts in no limit yet.
LEMMA GrowHeadStep ==
    ASSUME LimitInv, GrowHead PROVE LimitInv'
<1>1. /\ limitMode' = limitMode /\ disks' = disks /\ limit' = limit /\ maxCount' = maxCount
      /\ maxSize' = maxSize /\ taken' = taken /\ limitFaults' = limitFaults
      /\ head' = [r \in LimitReplicas |-> IF r \in Working THEN head[r] + 1 ELSE head[r]]
  BY Zenon DEF GrowHead
<1>2. ASSUME NEW r \in LimitReplicas PROVE head'[r] \in Nat
  <2>1. head[r] \in Nat
    BY Zenon DEF LimitInv, Bounded
  <2>2. head[r] + 1 \in Nat
    BY <2>1
  <2>3. QED
    BY Zenon, <1>1, <2>1, <2>2
<1>3. QED
  BY Zenon, <1>1, <1>2 DEF LimitInv, LimitType, Bounded

-----------------------------------------------------------------------------
\* While no call to a replica fails, every replica knows the controller's limit, and its
\* snapshots are within both limits.
THEOREM LimitInvariance == ASSUME MaxLimitFaults = 0 PROVE LimitSpec => []LimitInv
<1>1. LimitInit => LimitInv
  <2> SUFFICES ASSUME LimitInit PROVE LimitInv
    BY Zenon
  <2>1. maxCount \in Nat /\ maxSize \in Nat
    BY Zenon, LimitAssumption DEF LimitInit
  <2>2. Units({}) = {}
    BY Zenon DEF Units
  <2>3. /\ disks \in [LimitReplicas -> SUBSET Disk] /\ limitFaults = 0 /\ taken = 0
        /\ \A r \in LimitReplicas : /\ disks[r] = {} /\ head[r] = 0 /\ limit[r] = maxCount
                                    /\ limitMode[r] = "RW"
    BY Zenon DEF LimitInit
  <2>4. 0 \in Nat /\ 0 <= maxCount /\ 0 <= maxSize
    BY <2>1
  <2>5. \A r \in LimitReplicas : Bounded(r)
    BY Zenon, <2>2, <2>3, <2>4, FS_EmptySet DEF Bounded
  <2>6. QED
    BY Zenon, <2>1, <2>3, <2>4, <2>5 DEF LimitInv, LimitType
<1>2. LimitInv /\ [LimitNext]_limitVars => LimitInv'
  <2> SUFFICES ASSUME LimitInv, [LimitNext]_limitVars PROVE LimitInv'
    BY Zenon
  <2>1. ASSUME NEW c \in Calls, BeginSnapshot(c) PROVE LimitInv'
    BY Zenon, <2>1, BeginSnapshotStep
  <2>2. ASSUME NEW c \in Calls, TakeSnapshot(c) PROVE LimitInv'
    BY Zenon, <2>2, TakeSnapshotStep
  <2>3. ASSUME NEW n \in Counts, SetSnapshotMaxCount(n) PROVE LimitInv'
    BY Zenon, <2>3, SetSnapshotMaxCountStep
  <2>4. ASSUME NEW n \in MaxSizes, SetSnapshotMaxSize(n) PROVE LimitInv'
    BY Zenon, <2>4, SetSnapshotMaxSizeStep
  <2>5. ASSUME NEW r \in LimitReplicas, MarkDiskAsRemoved(r) PROVE LimitInv'
    BY Zenon, <2>5, MarkDiskAsRemovedStep
  <2>6. CASE ExpandSnapshot
    BY Zenon, <2>6, ExpandSnapshotStep
  <2>7. CASE GrowHead
    BY Zenon, <2>7, GrowHeadStep
  <2>8. CASE UNCHANGED limitVars
    <3>1. /\ limitMode' = limitMode /\ disks' = disks /\ head' = head /\ limit' = limit
          /\ maxCount' = maxCount /\ maxSize' = maxSize /\ taken' = taken /\ limitFaults' = limitFaults
      BY Zenon, <2>8 DEF limitVars
    <3>2. QED
      BY Zenon, <3>1 DEF LimitInv, LimitType, Bounded
  <2>9. QED
    BY Zenon, <2>1, <2>2, <2>3, <2>4, <2>5, <2>6, <2>7, <2>8 DEF LimitNext
<1>3. QED
  BY <1>1, <1>2, PTL DEF LimitSpec

\* Reaching a limit costs no replica, and no replica has more snapshots, or larger ones,
\* than the limits allow, with several snapshots on their way, an expansion among them, and
\* the limits changed in between (canDoSnapshot, createDisk, SetSnapshotMaxCount,
\* SetSnapshotMaxSize).
THEOREM LimitsHold == ASSUME MaxLimitFaults = 0 PROVE LimitSpec => []LimitsRight
<1>1. LimitInv => LimitsRight
  <2> SUFFICES ASSUME LimitInv PROVE LimitsRight
    BY Zenon
  <2>1. Working = LimitReplicas
    BY Zenon, UsageType
  <2>2. QED
    BY Zenon, <2>1 DEF LimitInv, Bounded, LimitsRight, NoReplicaRefuses, WithinLimits,
          GetSnapshotCountUsage, GetSnapshotSizeUsage
<1>2. QED
  BY <1>1, LimitInvariance, PTL
=============================================================================
