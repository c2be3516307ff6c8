---------------------------- MODULE ReplicaProofs ----------------------------
(***************************************************************************)
(* Proofs about the data path of a replica.                                *)
(*                                                                         *)
(* DiffDisk: a read returns the last acknowledged writes, and the location *)
(* table names the layer that holds them, for any number of clients,       *)
(* sectors, layers and writes.  The assumption is that no two requests to  *)
(* a sector are in flight at a time.  Without it a read may take a sector  *)
(* from a layer that is pruned under it once a write has reached the head. *)
(*                                                                         *)
(* RevisionCounter: the stored counter is never behind the acknowledged    *)
(* writes, and exact when the replica is at rest, for any number of        *)
(* writers and faults.  The assumption is that the engine sets the counter *)
(* when no request for it is left.                                         *)
(***************************************************************************)
EXTENDS DiffDisk, RevisionCounter, TLAPS


Cells == [Units -> Nat] \cup {NoData}

Pcs == {"lock", "lookup", "scan", "store", "check", "fetch", "write", "mark", "done"}

Ops == [pc : Pcs,
        kind : {"read", "write"}, s : Sectors, units : SUBSET Units, value : Nat, at : Nat,
        buf : [Units -> Nat], before : [Units -> Nat \cup {Anything}]]

DiskTypeOK ==
    /\ layers \in Seq([Sectors -> Cells]) /\ Top \in Nat \ {0}
    /\ location \in [Sectors -> 0..Top]
    /\ op \in [DiskClients -> Ops \cup {None}]
    /\ diskWrites \in Nat
    /\ vol \in [Sectors -> [Units -> Nat \cup {Anything}]]

\* Layer i is the one to read the sector from.
HeldBy(i, s) ==
    /\ i = 1 \/ layers[i][s] # NoData
    /\ \A j \in 1..Top : j > i => layers[j][s] = NoData

\* The data of a request agrees with what is known of the sector.
Agrees(b, v) == \A u \in Units : v[u] \in {Anything, b[u]}

\* What a layer holds as it is read.
Got(h) == IF h = NoData THEN Zeroes ELSE h

\* Nothing is known of a sector that was discarded.
Discarded(s) == \A u \in Units : vol[s][u] = Anything

\* Between two requests the table names the layer to read the sector from, or does not
\* know, and that layer holds what the acknowledged writes have left.
Settled(s) ==
    /\ Discarded(s) \/ location[s] = 0 \/ HeldBy(location[s], s)
    /\ \A i \in 1..Top : HeldBy(i, s) => Agrees(Got(layers[i][s]), vol[s])

\* A write that has reached the top layer and is not acknowledged.
Landed(o) == o.kind = "write" /\ o.pc \in {"mark", "done"}

\* What a write leaves of a sector of which v is known.
AfterWrite(o, v) == [u \in Units |-> IF u \in o.units THEN o.value ELSE v[u]]

\* How far a request has come.
OpOK(o) ==
    /\ o.kind = "read" => o.before = vol[o.s] /\ o.pc \notin {"lock", "write", "mark"}
    /\ o.pc = "scan"   => /\ location[o.s] = 0 /\ o.at \in 1..Top
                          /\ \A j \in 1..Top : j > o.at => layers[j][o.s] = NoData
    /\ o.pc = "store"  => o.at \in 1..Top /\ HeldBy(o.at, o.s)
    /\ o.pc = "check"  => location[o.s] # 0 \/ HeldBy(1, o.s)
    /\ o.pc = "fetch"  => o.at = location[o.s] /\ o.at # 0
    /\ o.pc = "done" /\ o.kind = "read" => Agrees(o.buf, o.before)
    /\ o.pc = "write"  => Agrees(o.buf, AfterWrite(o, vol[o.s]))
    /\ Landed(o)       => Agrees(o.buf, AfterWrite(o, vol[o.s])) /\ layers[Top][o.s] = o.buf
    /\ Landed(o) /\ o.pc = "done" => location[o.s] = Top

Active(c) == op[c].pc # "none"

\* The inductive invariant: every sector is settled except those with a write that has
\* landed, and requests have come as far as OpOK says.
DiskInv ==
    /\ DiskTypeOK
    /\ \A c, d \in DiskClients : Active(c) /\ Active(d) /\ op[c].s = op[d].s => c = d
    /\ \A c \in DiskClients : Active(c) => OpOK(op[c])
    /\ \A s \in Sectors : (\A c \in DiskClients : Active(c) /\ Landed(op[c]) => op[c].s # s) => Settled(s)

-----------------------------------------------------------------------------
\* A request is never mistaken for none.
LEMMA OpIsActive ==
  ASSUME DiskTypeOK, NEW c \in DiskClients, Active(c)
  PROVE  op[c] \in Ops
<1>1. op[c] # None
  BY DEF Active, None
<1>2. QED
  BY Zenon, <1>1 DEF DiskTypeOK

\* No request is none.
LEMMA NoneIsNone == None.pc = "none" /\ None \notin Ops
  BY Zenon DEF None, Ops, Pcs

\* What is known of a sector, its place in the table and what the layers hold of it are
\* all that matters to it.
LEMMA SettledSame ==
  ASSUME NEW s \in Sectors, Top' = Top, location'[s] = location[s], vol'[s] = vol[s],
         \A i \in 1..Top : layers'[i][s] = layers[i][s], location[s] \in 0..Top, Settled(s)
  PROVE  Settled(s)'
<1>1. ASSUME NEW i \in 1..Top PROVE HeldBy(i, s)' <=> HeldBy(i, s)
  BY Zenon DEF HeldBy
<1>2. Discarded(s)' <=> Discarded(s)
  BY Zenon DEF Discarded
<1>3. \A i \in 1..Top : HeldBy(i, s)' => Agrees(Got(layers'[i][s]), vol'[s])
  BY Zenon, <1>1 DEF Settled
<1>4. (Discarded(s) \/ location[s] = 0 \/ HeldBy(location[s], s))'
  <2>1. CASE Discarded(s) \/ location[s] = 0
    BY Zenon, <1>2, <2>1
  <2>2. CASE location[s] # 0 /\ HeldBy(location[s], s)
    <3>1. location[s] \in 1..Top
      BY <2>2
    <3>2. QED
      BY Zenon, <1>1, <2>2, <3>1
  <2>3. QED
    BY Zenon, <2>1, <2>2 DEF Settled
<1>5. QED
  BY Zenon, <1>3, <1>4 DEF Settled

\* The same of a request.
LEMMA OpSame ==
  ASSUME Top >= 1, Top \in Nat, NEW o \in Ops, Top' = Top, location'[o.s] = location[o.s], vol'[o.s] = vol[o.s],
         \A i \in 1..Top : layers'[i][o.s] = layers[i][o.s], OpOK(o)
  PROVE  OpOK(o)'
<1>1. ASSUME NEW i \in 1..Top PROVE HeldBy(i, o.s)' <=> HeldBy(i, o.s)
  BY Zenon DEF HeldBy
<1>2. 1 \in 1..Top /\ Top \in 1..Top
  OBVIOUS
<1>3. AfterWrite(o, vol[o.s])' = AfterWrite(o, vol[o.s])
  BY Zenon DEF AfterWrite
<1>4. layers'[Top'][o.s] = layers[Top][o.s]
  BY Zenon, <1>2
<1>5. o.pc = "scan" => /\ location'[o.s] = 0 /\ o.at \in 1..Top'
                       /\ \A j \in 1..Top' : j > o.at => layers'[j][o.s] = NoData
  BY Zenon DEF OpOK
<1>6. o.pc = "store" => o.at \in 1..Top' /\ HeldBy(o.at, o.s)'
  BY Zenon, <1>1 DEF OpOK
<1>7. o.pc = "check" => location'[o.s] # 0 \/ HeldBy(1, o.s)'
  BY Zenon, <1>1, <1>2 DEF OpOK
<1>8. QED
  BY Zenon, <1>3, <1>4, <1>5, <1>6, <1>7 DEF OpOK

\* The client's request becomes o, and nothing changes but sector s, which it is about.
OnlySector(c, s, o) ==
    /\ op' = [op EXCEPT ![c] = o]
    /\ Active(c) => op[c].s = s
    /\ \A d \in DiskClients : d # c /\ Active(d) => op[d].s # s
    /\ o.pc # "none" => o.s = s
    /\ Top' = Top
    /\ \A t \in Sectors \ {s} : location'[t] = location[t] /\ vol'[t] = vol[t]
    /\ \A t \in Sectors \ {s} : \A i \in 1..Top : layers'[i][t] = layers[i][t]

\* A client at a time, a sector at a time.
LEMMA SectorStep ==
  ASSUME DiskInv, DiskTypeOK', NEW c \in DiskClients, NEW s \in Sectors, NEW o, OnlySector(c, s, o),
         o.pc # "none" => OpOK(o)',
         ~(o.pc # "none" /\ Landed(o)) => Settled(s)'
  PROVE  DiskInv'
<1>1. op'[c] = o /\ \A d \in DiskClients \ {c} : op'[d] = op[d]
  BY Zenon DEF OnlySector, DiskInv, DiskTypeOK
<1>2. /\ Active(c)' <=> o.pc # "none"
      /\ \A d \in DiskClients \ {c} : Active(d)' <=> Active(d)
  BY Zenon, <1>1 DEF Active
<1>3. Top >= 1 /\ Top \in Nat /\ \A t \in Sectors : location[t] \in 0..Top
  BY DEF DiskInv, DiskTypeOK
<1>4. ASSUME NEW d \in DiskClients, NEW e \in DiskClients, Active(d)', Active(e)', op'[d].s = op'[e].s
      PROVE  d = e
  BY <1>1, <1>2, <1>4 DEF DiskInv, OnlySector
<1>5. ASSUME NEW d \in DiskClients, Active(d)' PROVE OpOK(op[d])'
  <2>1. CASE d = c
    BY Zenon, <1>1, <1>2, <1>5, <2>1
  <2>2. CASE d # c
    <3>1. op'[d] = op[d] /\ Active(d) /\ op[d].s # s
      BY Zenon, <1>1, <1>2, <1>5, <2>2 DEF OnlySector
    <3>2. PICK x : x = op[d]
      BY Zenon
    <3>3. x \in Ops /\ OpOK(x) /\ x.s \in Sectors \ {s}
      <4>1. x \in Ops
        BY Zenon, <3>1, <3>2, OpIsActive DEF DiskInv
      <4>2. QED
        BY Zenon, <3>1, <3>2, <4>1 DEF DiskInv, Ops
    <3>4. OpOK(x)'
      BY Zenon, <1>3, <3>3, OpSame DEF OnlySector
    <3>5. QED
      BY Zenon, <3>1, <3>2, <3>4
  <2>3. QED
    BY Zenon, <2>1, <2>2
<1>6. ASSUME NEW t \in Sectors, \A d \in DiskClients : Active(d)' /\ Landed(op'[d]) => op'[d].s # t
      PROVE  Settled(t)'
  <2>1. CASE t = s
    BY Zenon, <1>1, <1>2, <1>6, <2>1 DEF OnlySector
  <2>2. CASE t # s
    <3>1. ASSUME NEW d \in DiskClients, Active(d), Landed(op[d]) PROVE op[d].s # t
      BY Zenon, <1>1, <1>2, <1>6, <2>2, <3>1 DEF OnlySector
    <3>2. Settled(t)
      BY Zenon, <3>1 DEF DiskInv
    <3>3. QED
      BY Zenon, <1>3, <2>2, <3>2, SettledSame DEF OnlySector
  <2>3. QED
    BY Zenon, <2>1, <2>2
<1>7. QED
  BY Zenon, <1>4, <1>5, <1>6 DEF DiskInv

\* What the invariant says of a request and its sector.
LEMMA OpNow ==
  ASSUME DiskInv, NEW c \in DiskClients, Active(c)
  PROVE  /\ op[c] \in Ops /\ op[c].s \in Sectors /\ OpOK(op[c])
         /\ \A d \in DiskClients : d # c /\ Active(d) => op[d].s # op[c].s
         /\ ~Landed(op[c]) => Settled(op[c].s)
<1>1. op[c] \in Ops /\ OpOK(op[c])
  BY Zenon, OpIsActive DEF DiskInv
<1>2. op[c].s \in Sectors
  BY Zenon, <1>1 DEF Ops
<1>3. \A d \in DiskClients : d # c /\ Active(d) => op[d].s # op[c].s
  BY Zenon DEF DiskInv
<1>4. ~Landed(op[c]) => Settled(op[c].s)
  BY Zenon, <1>2, <1>3 DEF DiskInv
<1>5. QED
  BY Zenon, <1>1, <1>2, <1>3, <1>4

\* A step that changes nothing but the request.
LEMMA OpStep ==
  ASSUME DiskInv, NEW c \in DiskClients, Active(c), NEW o \in Ops, op' = [op EXCEPT ![c] = o],
         o.s = op[c].s, ~Landed(op[c]), OpOK(o), UNCHANGED <<layers, location, diskWrites, vol>>
  PROVE  DiskInv'
<1>1. /\ op[c].s \in Sectors /\ Settled(op[c].s)
      /\ \A d \in DiskClients : d # c /\ Active(d) => op[d].s # op[c].s
  BY Zenon, OpNow
<1>2. DiskTypeOK'
  BY Zenon DEF DiskInv, DiskTypeOK, Top
<1>3. Top' = Top /\ Top \in Nat /\ Top >= 1 /\ location[op[c].s] \in 0..Top
  BY <1>1 DEF Top, DiskInv, DiskTypeOK
<1>4. OpOK(o)'
  BY Zenon, <1>3, OpSame
<1>5. Settled(op[c].s)'
  BY <1>1, <1>3, SettledSame
<1>6. PICK s \in Sectors : s = op[c].s
  BY Zenon, <1>1
<1>7. OnlySector(c, s, o)
  BY Zenon, <1>1, <1>3, <1>6 DEF OnlySector
<1>8. QED
  BY <1>2, <1>4, <1>5, <1>6, <1>7, SectorStep

\* readModifyWrite takes rmLock.
LEMMA TakeLockStep == ASSUME DiskInv, NEW c \in DiskClients, TakeLock(c) PROVE DiskInv'
<1>1. Active(c) /\ op[c].pc = "lock"
  BY Zenon DEF TakeLock, Active
<1>2. op[c] \in Ops /\ OpOK(op[c])
  BY Zenon, <1>1, OpNow
<1>3. PICK y : y = op[c]
  BY Zenon
<1>4. PICK o : o = [y EXCEPT !.pc = "lookup"]
  BY Zenon
<1>5. op' = [op EXCEPT ![c] = o] /\ UNCHANGED <<layers, location, diskWrites, vol>>
  BY Zenon, <1>3, <1>4 DEF TakeLock, Step
<1>6. /\ o \in Ops /\ o.pc = "lookup" /\ o.kind = y.kind /\ o.s = y.s /\ o.before = y.before
  BY Zenon, <1>2, <1>3, <1>4 DEF Ops, Pcs
<1>7. OpOK(o) /\ ~Landed(op[c])
  BY Zenon, <1>1, <1>2, <1>3, <1>6 DEF OpOK, Landed
<1>8. QED
  BY Zenon, <1>1, <1>3, <1>5, <1>6, <1>7, OpStep

\* lookup begins.
LEMMA LookupStep == ASSUME DiskInv, NEW c \in DiskClients, Lookup(c) PROVE DiskInv'
<1>1. Active(c) /\ op[c].pc = "lookup"
  BY Zenon DEF Lookup, Active
<1>2. op[c] \in Ops /\ OpOK(op[c]) /\ op[c].s \in Sectors
  BY Zenon, <1>1, OpNow
<1>3. PICK y : y = op[c]
  BY Zenon
<1>4. Top \in Nat /\ Top >= 1 /\ location[y.s] \in Nat
  BY <1>2, <1>3 DEF DiskInv, DiskTypeOK
<1>5. UNCHANGED <<layers, location, diskWrites, vol>> /\ ~Landed(op[c])
  BY Zenon, <1>1 DEF Lookup, Landed
<1>6. CASE location[y.s] # 0
  <2>1. PICK o : o = [y EXCEPT !.pc = "fetch", !.at = location[y.s]]
    BY Zenon
  <2>2. op' = [op EXCEPT ![c] = o]
    BY Zenon, <1>3, <1>6, <2>1 DEF Lookup, DiskInv, DiskTypeOK
  <2>3. /\ o \in Ops /\ o.pc = "fetch" /\ o.at = location[y.s] /\ o.kind = y.kind /\ o.s = y.s
        /\ o.before = y.before
    BY Zenon, <1>2, <1>3, <1>4, <2>1 DEF Ops, Pcs
  <2>4. OpOK(o)
    BY Zenon, <1>1, <1>2, <1>3, <1>6, <2>3 DEF OpOK, Landed
  <2>5. QED
    BY Zenon, <1>1, <1>3, <1>5, <2>2, <2>3, <2>4, OpStep
<1>7. CASE location[y.s] = 0
  <2>1. PICK o : o = [y EXCEPT !.pc = "scan", !.at = Top]
    BY Zenon
  <2>2. op' = [op EXCEPT ![c] = o]
    BY Zenon, <1>3, <1>7, <2>1 DEF Lookup, DiskInv, DiskTypeOK
  <2>3. /\ o \in Ops /\ o.pc = "scan" /\ o.at = Top /\ o.kind = y.kind /\ o.s = y.s
        /\ o.before = y.before
    BY Zenon, <1>2, <1>3, <1>4, <2>1 DEF Ops, Pcs
  <2>4. o.at \in 1..Top /\ \A j \in 1..Top : j > o.at => layers[j][o.s] = NoData
    BY <1>4, <2>3
  <2>5. OpOK(o)
    BY Zenon, <1>1, <1>2, <1>3, <1>7, <2>3, <2>4 DEF OpOK, Landed
  <2>6. QED
    BY Zenon, <1>1, <1>3, <1>5, <2>2, <2>3, <2>5, OpStep
<1>8. QED
  BY Zenon, <1>6, <1>7

\* A layer is asked for the sector.
LEMMA ScanStep == ASSUME DiskInv, NEW c \in DiskClients, Scan(c) PROVE DiskInv'
<1>1. Active(c) /\ op[c].pc = "scan"
  BY Zenon DEF Scan, Active
<1>2. op[c] \in Ops /\ OpOK(op[c]) /\ op[c].s \in Sectors
  BY Zenon, <1>1, OpNow
<1>3. PICK y : y = op[c]
  BY Zenon
<1>4. /\ Top \in Nat \ {0} /\ y.at \in 1..Top /\ y.at \in Nat
      /\ \A j \in 1..Top : j > y.at => layers[j][y.s] = NoData
  BY <1>1, <1>2, <1>3 DEF DiskInv, DiskTypeOK, OpOK
<1>5. UNCHANGED <<layers, location, diskWrites, vol>> /\ ~Landed(op[c])
  BY Zenon, <1>1 DEF Scan, Landed
<1>6. CASE y.at = 1
  <2>1. PICK o : o = [y EXCEPT !.pc = "check"]
    BY Zenon
  <2>2. op' = [op EXCEPT ![c] = o]
    BY Zenon, <1>3, <1>6, <2>1 DEF Scan
  <2>3. o \in Ops /\ o.pc = "check" /\ o.kind = y.kind /\ o.s = y.s /\ o.before = y.before
    BY Zenon, <1>2, <1>3, <2>1 DEF Ops, Pcs
  <2>4. HeldBy(1, y.s)
    BY Zenon, <1>4, <1>6 DEF HeldBy
  <2>5. OpOK(o)
    BY Zenon, <1>1, <1>2, <1>3, <2>3, <2>4 DEF OpOK, Landed
  <2>6. QED
    BY Zenon, <1>1, <1>3, <1>5, <2>2, <2>3, <2>5, OpStep
<1>7. CASE y.at # 1 /\ layers[y.at][y.s] # NoData
  <2>1. PICK o : o = [y EXCEPT !.pc = "store"]
    BY Zenon
  <2>2. op' = [op EXCEPT ![c] = o]
    BY Zenon, <1>3, <1>7, <2>1 DEF Scan
  <2>3. /\ o \in Ops /\ o.pc = "store" /\ o.kind = y.kind /\ o.s = y.s /\ o.before = y.before
        /\ o.at = y.at
    BY Zenon, <1>2, <1>3, <2>1 DEF Ops, Pcs
  <2>4. HeldBy(y.at, y.s)
    BY Zenon, <1>4, <1>7 DEF HeldBy
  <2>5. OpOK(o)
    BY Zenon, <1>1, <1>2, <1>3, <1>4, <2>3, <2>4 DEF OpOK, Landed
  <2>6. QED
    BY Zenon, <1>1, <1>3, <1>5, <2>2, <2>3, <2>5, OpStep
<1>8. CASE y.at # 1 /\ layers[y.at][y.s] = NoData
  <2>1. PICK o : o = [y EXCEPT !.at = y.at - 1]
    BY Zenon
  <2>2. op' = [op EXCEPT ![c] = o]
    BY Zenon, <1>3, <1>8, <2>1 DEF Scan
  <2>3. y.at - 1 \in Nat /\ y.at - 1 \in 1..Top
    BY <1>4, <1>8
  <2>4. /\ o \in Ops /\ o.pc = y.pc /\ o.kind = y.kind /\ o.s = y.s /\ o.before = y.before
        /\ o.at = y.at - 1
    BY Zenon, <1>2, <1>3, <2>1, <2>3 DEF Ops, Pcs
  <2>5. \A j \in 1..Top : j > o.at => layers[j][y.s] = NoData
    BY <1>4, <1>8, <2>4
  <2>6. OpOK(o)
    BY Zenon, <1>1, <1>2, <1>3, <2>3, <2>4, <2>5 DEF OpOK, Landed
  <2>7. QED
    BY Zenon, <1>1, <1>3, <1>5, <2>2, <2>4, <2>6, OpStep
<1>9. QED
  BY Zenon, <1>6, <1>7, <1>8

\* The table is read again.
LEMMA CheckStep == ASSUME DiskInv, NEW c \in DiskClients, Check(c) PROVE DiskInv'
<1>1. Active(c) /\ op[c].pc = "check"
  BY Zenon DEF Check, Active
<1>2. op[c] \in Ops /\ OpOK(op[c]) /\ op[c].s \in Sectors
  BY Zenon, <1>1, OpNow
<1>3. PICK y : y = op[c]
  BY Zenon
<1>4. Top \in Nat \ {0} /\ location[y.s] \in Nat /\ 1 \in 1..Top
  BY <1>2, <1>3 DEF DiskInv, DiskTypeOK
<1>5. UNCHANGED <<layers, location, diskWrites, vol>> /\ ~Landed(op[c])
  BY Zenon, <1>1 DEF Check, Landed
<1>6. CASE location[y.s] # 0
  <2>1. PICK o : o = [y EXCEPT !.pc = "fetch", !.at = location[y.s]]
    BY Zenon
  <2>2. op' = [op EXCEPT ![c] = o]
    BY Zenon, <1>3, <1>6, <2>1 DEF Check, DiskInv, DiskTypeOK
  <2>3. /\ o \in Ops /\ o.pc = "fetch" /\ o.at = location[y.s] /\ o.kind = y.kind /\ o.s = y.s
        /\ o.before = y.before
    BY Zenon, <1>2, <1>3, <1>4, <2>1 DEF Ops, Pcs
  <2>4. OpOK(o)
    BY Zenon, <1>1, <1>2, <1>3, <1>6, <2>3 DEF OpOK, Landed
  <2>5. QED
    BY Zenon, <1>1, <1>3, <1>5, <2>2, <2>3, <2>4, OpStep
<1>7. CASE location[y.s] = 0
  <2>1. PICK o : o = [y EXCEPT !.pc = "store", !.at = 1]
    BY Zenon
  <2>2. op' = [op EXCEPT ![c] = o]
    BY Zenon, <1>3, <1>7, <2>1 DEF Check, DiskInv, DiskTypeOK
  <2>3. /\ o \in Ops /\ o.pc = "store" /\ o.at = 1 /\ o.kind = y.kind /\ o.s = y.s
        /\ o.before = y.before
    BY Zenon, <1>2, <1>3, <2>1 DEF Ops, Pcs
  <2>4. HeldBy(1, y.s)
    BY Zenon, <1>1, <1>2, <1>3, <1>7 DEF OpOK
  <2>5. OpOK(o)
    BY Zenon, <1>1, <1>2, <1>3, <1>4, <2>3, <2>4 DEF OpOK, Landed
  <2>6. QED
    BY Zenon, <1>1, <1>3, <1>5, <2>2, <2>3, <2>5, OpStep
<1>8. QED
  BY Zenon, <1>6, <1>7

\* What is read from the layer the table names agrees with what is known.
LEMMA FetchRight ==
  ASSUME DiskInv, NEW s \in Sectors, location[s] # 0, Settled(s)
  PROVE  /\ Got(layers[location[s]][s]) \in [Units -> Nat]
         /\ Agrees(Got(layers[location[s]][s]), vol[s])
<1>1. location[s] \in 1..Top
  BY DEF DiskInv, DiskTypeOK
<1>2. layers[location[s]][s] \in Cells
  BY <1>1 DEF DiskInv, DiskTypeOK, Top
<1>3. Got(layers[location[s]][s]) \in [Units -> Nat]
  BY Zenon, <1>2 DEF Got, Cells, Zeroes
<1>4. ASSUME Discarded(s) PROVE Agrees(Got(layers[location[s]][s]), vol[s])
  BY Zenon, <1>4 DEF Discarded, Agrees
<1>5. ASSUME HeldBy(location[s], s) PROVE Agrees(Got(layers[location[s]][s]), vol[s])
  BY Zenon, <1>1, <1>5 DEF Settled
<1>6. Agrees(Got(layers[location[s]][s]), vol[s])
  BY Zenon, <1>4, <1>5 DEF Settled
<1>7. QED
  BY Zenon, <1>3, <1>6

\* The sector is read.
LEMMA FetchStep == ASSUME DiskInv, NEW c \in DiskClients, Fetch(c) PROVE DiskInv'
<1>1. Active(c) /\ op[c].pc = "fetch"
  BY Zenon DEF Fetch, Active
<1>2. ~Landed(op[c])
  BY Zenon, <1>1 DEF Landed
<1>3. op[c] \in Ops /\ OpOK(op[c]) /\ op[c].s \in Sectors /\ Settled(op[c].s)
  BY Zenon, <1>1, <1>2, OpNow
<1>4. PICK y : y = op[c]
  BY Zenon
<1>5. y.at = location[y.s] /\ location[y.s] # 0
  BY Zenon, <1>1, <1>3, <1>4 DEF OpOK
<1>6. PICK g : g = Got(layers[y.at][y.s])
  BY Zenon
<1>7. g \in [Units -> Nat] /\ Agrees(g, vol[y.s])
  BY Zenon, <1>3, <1>4, <1>5, <1>6, FetchRight
<1>8. UNCHANGED <<layers, location, diskWrites, vol>>
  BY Zenon DEF Fetch
<1>9. CASE y.kind = "read"
  <2>1. PICK o : o = [y EXCEPT !.pc = "done", !.buf = g]
    BY Zenon
  <2>2. op' = [op EXCEPT ![c] = o]
    BY Zenon, <1>4, <1>6, <1>9, <2>1 DEF Fetch, Got, DiskInv, DiskTypeOK
  <2>3. /\ o \in Ops /\ o.pc = "done" /\ o.buf = g /\ o.kind = y.kind /\ o.s = y.s
        /\ o.before = y.before
    BY Zenon, <1>3, <1>4, <1>7, <2>1 DEF Ops, Pcs
  <2>4. OpOK(o)
    BY Zenon, <1>3, <1>4, <1>7, <1>9, <2>3 DEF OpOK, Landed
  <2>5. QED
    BY Zenon, <1>1, <1>2, <1>4, <1>8, <2>2, <2>3, <2>4, OpStep
<1>10. CASE y.kind # "read"
  <2>1. PICK b : b = [u \in Units |-> IF u \in y.units THEN y.value ELSE g[u]]
    BY Zenon
  <2>2. PICK o : o = [y EXCEPT !.pc = "write", !.buf = b]
    BY Zenon
  <2>3. op' = [op EXCEPT ![c] = o]
    BY Zenon, <1>4, <1>6, <1>10, <2>1, <2>2 DEF Fetch, Got, DiskInv, DiskTypeOK
  <2>4. b \in [Units -> Nat]
    BY Zenon, <1>3, <1>4, <1>7, <2>1 DEF Ops
  <2>5. /\ o \in Ops /\ o.pc = "write" /\ o.buf = b /\ o.kind = y.kind /\ o.s = y.s
        /\ o.units = y.units /\ o.value = y.value
    BY Zenon, <1>3, <1>4, <2>2, <2>4 DEF Ops, Pcs
  <2>6. Agrees(o.buf, AfterWrite(o, vol[o.s]))
    BY <1>7, <2>1, <2>5 DEF Agrees, AfterWrite
  <2>7. OpOK(o)
    BY Zenon, <1>10, <2>5, <2>6 DEF OpOK, Landed
  <2>8. QED
    BY Zenon, <1>1, <1>2, <1>4, <1>8, <2>3, <2>5, <2>7, OpStep
<1>11. QED
  BY Zenon, <1>9, <1>10

\* The layer found is stored in the table.
LEMMA StoreStep == ASSUME DiskInv, NEW c \in DiskClients, Store(c) PROVE DiskInv'
<1>1. Active(c) /\ op[c].pc = "store" /\ ~Landed(op[c])
  BY Zenon DEF Store, Active, Landed
<1>2. /\ op[c] \in Ops /\ OpOK(op[c]) /\ op[c].s \in Sectors /\ Settled(op[c].s)
      /\ \A d \in DiskClients : d # c /\ Active(d) => op[d].s # op[c].s
  BY Zenon, <1>1, OpNow
<1>3. PICK y : y = op[c]
  BY Zenon
<1>4. PICK s \in Sectors : s = y.s
  BY Zenon, <1>2, <1>3
<1>5. y.at \in 1..Top /\ HeldBy(y.at, s)
  BY Zenon, <1>1, <1>2, <1>3, <1>4 DEF OpOK
<1>6. PICK o : o = [y EXCEPT !.pc = "check"]
  BY Zenon
<1>7. /\ op' = [op EXCEPT ![c] = o] /\ location' = [location EXCEPT ![s] = y.at]
      /\ UNCHANGED <<layers, diskWrites, vol>>
  BY Zenon, <1>3, <1>4, <1>6 DEF Store, Step
<1>8. o \in Ops /\ o.pc = "check" /\ o.kind = y.kind /\ o.s = s /\ o.before = y.before
  BY Zenon, <1>2, <1>3, <1>4, <1>6 DEF Ops, Pcs
<1>9. Top' = Top /\ Top \in Nat \ {0}
  BY Zenon, <1>7 DEF Top, DiskInv, DiskTypeOK
<1>10. location' \in [Sectors -> 0..Top] /\ location'[s] = y.at /\ \A t \in Sectors \ {s} : location'[t] = location[t]
  BY <1>5, <1>7, <1>9 DEF DiskInv, DiskTypeOK
<1>11. DiskTypeOK'
  BY Zenon, <1>7, <1>8, <1>9, <1>10 DEF DiskInv, DiskTypeOK
<1>12. y.at # 0
  BY <1>5, <1>9
<1>13. OpOK(o)'
  BY Zenon, <1>1, <1>2, <1>3, <1>4, <1>7, <1>8, <1>10, <1>12 DEF OpOK, Landed
<1>14. ASSUME NEW i \in 1..Top PROVE HeldBy(i, s)' <=> HeldBy(i, s)
  BY Zenon, <1>7, <1>9 DEF HeldBy
<1>15. Settled(s)'
  BY Zenon, <1>2, <1>3, <1>4, <1>5, <1>7, <1>9, <1>10, <1>14 DEF Settled
<1>16. OnlySector(c, s, o)
  BY Zenon, <1>2, <1>3, <1>4, <1>7, <1>8, <1>9, <1>10 DEF OnlySector
<1>17. QED
  BY Zenon, <1>11, <1>13, <1>15, <1>16, SectorStep

\* The top layer is written.
LEMMA WriteStep == ASSUME DiskInv, NEW c \in DiskClients, Write(c) PROVE DiskInv'
<1>1. Active(c) /\ op[c].pc = "write" /\ ~Landed(op[c])
  BY Zenon DEF Write, Active, Landed
<1>2. /\ op[c] \in Ops /\ OpOK(op[c]) /\ op[c].s \in Sectors
      /\ \A d \in DiskClients : d # c /\ Active(d) => op[d].s # op[c].s
  BY Zenon, <1>1, OpNow
<1>3. PICK y : y = op[c]
  BY Zenon
<1>4. PICK s \in Sectors : s = y.s
  BY Zenon, <1>2, <1>3
<1>5. PICK o : o = [y EXCEPT !.pc = "mark"]
  BY Zenon
<1>6. /\ op' = [op EXCEPT ![c] = o] /\ layers' = [layers EXCEPT ![Top][s] = y.buf]
      /\ UNCHANGED <<location, diskWrites, vol>>
  BY Zenon, <1>3, <1>4, <1>5 DEF Write, Step
<1>7. /\ o \in Ops /\ o.pc = "mark" /\ o.kind = y.kind /\ o.s = s /\ o.before = y.before
      /\ o.buf = y.buf /\ o.units = y.units /\ o.value = y.value
  BY Zenon, <1>2, <1>3, <1>4, <1>5 DEF Ops, Pcs
<1>8. y.buf \in Cells /\ Top \in Nat \ {0} /\ Top \in 1..Top
  BY <1>2, <1>3 DEF Ops, Cells, DiskInv, DiskTypeOK
<1>9. PICK l : l = [layers[Top] EXCEPT ![s] = y.buf]
  BY Zenon
<1>10. /\ l \in [Sectors -> Cells] /\ l[s] = y.buf
       /\ \A t \in Sectors \ {s} : l[t] = layers[Top][t]
  BY <1>8, <1>9 DEF DiskInv, DiskTypeOK, Top
<1>11. layers' = [layers EXCEPT ![Top] = l]
  BY Zenon, <1>6, <1>9
<1>12. /\ layers' \in Seq([Sectors -> Cells]) /\ Len(layers') = Len(layers)
       /\ layers'[Top] = l /\ \A i \in 1..Top : i # Top => layers'[i] = layers[i]
  BY <1>8, <1>10, <1>11 DEF DiskInv, DiskTypeOK, Top
<1>13. Top' = Top
  BY Zenon, <1>12 DEF Top
<1>14. DiskTypeOK'
  BY Zenon, <1>6, <1>7, <1>8, <1>12, <1>13 DEF DiskInv, DiskTypeOK
<1>15. y.kind = "write" /\ Agrees(y.buf, AfterWrite(y, vol[s]))
  BY Zenon, <1>1, <1>2, <1>3, <1>4 DEF OpOK, Ops
<1>16. Landed(o) /\ Agrees(o.buf, AfterWrite(o, vol[s])) /\ layers'[Top][s] = o.buf
  BY Zenon, <1>7, <1>10, <1>12, <1>15 DEF Landed, AfterWrite
<1>17. OpOK(o)'
  BY Zenon, <1>6, <1>7, <1>13, <1>15, <1>16 DEF OpOK, AfterWrite
<1>18. \A t \in Sectors \ {s} : \A i \in 1..Top : layers'[i][t] = layers[i][t]
  BY Zenon, <1>10, <1>12
<1>19. OnlySector(c, s, o)
  BY Zenon, <1>2, <1>3, <1>4, <1>6, <1>7, <1>13, <1>18 DEF OnlySector
<1>20. QED
  BY Zenon, <1>7, <1>14, <1>16, <1>17, <1>19, SectorStep

\* The table is updated.
LEMMA MarkStep == ASSUME DiskInv, NEW c \in DiskClients, Mark(c) PROVE DiskInv'
<1>1. Active(c) /\ op[c].pc = "mark"
  BY Zenon DEF Mark, Active
<1>2. /\ op[c] \in Ops /\ OpOK(op[c]) /\ op[c].s \in Sectors
      /\ \A d \in DiskClients : d # c /\ Active(d) => op[d].s # op[c].s
  BY Zenon, <1>1, OpNow
<1>3. PICK y : y = op[c]
  BY Zenon
<1>4. PICK s \in Sectors : s = y.s
  BY Zenon, <1>2, <1>3
<1>5. PICK o : o = [y EXCEPT !.pc = "done"]
  BY Zenon
<1>6. /\ op' = [op EXCEPT ![c] = o] /\ location' = [location EXCEPT ![s] = Top]
      /\ UNCHANGED <<layers, diskWrites, vol>>
  BY Zenon, <1>3, <1>4, <1>5 DEF Mark, Step
<1>7. /\ o \in Ops /\ o.pc = "done" /\ o.kind = y.kind /\ o.s = s /\ o.before = y.before
      /\ o.buf = y.buf /\ o.units = y.units /\ o.value = y.value
  BY Zenon, <1>2, <1>3, <1>4, <1>5 DEF Ops, Pcs
<1>8. Top' = Top /\ Top \in Nat \ {0}
  BY Zenon, <1>6 DEF Top, DiskInv, DiskTypeOK
<1>9. location' \in [Sectors -> 0..Top] /\ location'[s] = Top /\ \A t \in Sectors \ {s} : location'[t] = location[t]
  BY <1>6, <1>8 DEF DiskInv, DiskTypeOK
<1>10. DiskTypeOK'
  BY Zenon, <1>6, <1>7, <1>8, <1>9 DEF DiskInv, DiskTypeOK
<1>11. y.kind = "write" /\ Landed(y)
  BY Zenon, <1>1, <1>2, <1>3 DEF OpOK, Ops, Landed
<1>12. Agrees(y.buf, AfterWrite(y, vol[s])) /\ layers[Top][s] = y.buf
  BY Zenon, <1>2, <1>3, <1>4, <1>11 DEF OpOK
<1>13. Landed(o) /\ AfterWrite(o, vol[s]) = AfterWrite(y, vol[s])
  BY Zenon, <1>7, <1>11 DEF Landed, AfterWrite
<1>14. AfterWrite(o, vol'[s]) = AfterWrite(y, vol[s])
  BY Zenon, <1>6, <1>13
<1>15. OpOK(o)'
  BY Zenon, <1>6, <1>7, <1>8, <1>9, <1>11, <1>12, <1>13, <1>14 DEF OpOK
<1>16. OnlySector(c, s, o)
  BY Zenon, <1>2, <1>3, <1>4, <1>6, <1>7, <1>8, <1>9 DEF OnlySector
<1>17. QED
  BY Zenon, <1>7, <1>10, <1>13, <1>15, <1>16, SectorStep

\* The request is answered.
LEMMA ReturnStep == ASSUME DiskInv, NEW c \in DiskClients, Return(c) PROVE DiskInv'
<1>1. Active(c) /\ op[c].pc = "done"
  BY Zenon DEF Return, Active
<1>2. /\ op[c] \in Ops /\ OpOK(op[c]) /\ op[c].s \in Sectors /\ (~Landed(op[c]) => Settled(op[c].s))
      /\ \A d \in DiskClients : d # c /\ Active(d) => op[d].s # op[c].s
  BY Zenon, <1>1, OpNow
<1>3. PICK y : y = op[c]
  BY Zenon
<1>4. PICK s \in Sectors : s = y.s
  BY Zenon, <1>2, <1>3
<1>5. op' = [op EXCEPT ![c] = None] /\ UNCHANGED <<layers, location, diskWrites>>
  BY Zenon DEF Return
<1>6. /\ Top' = Top /\ Top \in Nat \ {0} /\ Top \in 1..Top /\ location[s] \in 0..Top
      /\ vol[s] \in [Units -> Nat \cup {Anything}]
  BY <1>5 DEF Top, DiskInv, DiskTypeOK
<1>7. CASE y.kind = "read"
  <2>1. vol' = vol
    BY Zenon, <1>3, <1>7 DEF Return
  <2>2. DiskTypeOK'
    BY Zenon, <1>5, <1>6, <2>1 DEF DiskInv, DiskTypeOK
  <2>3. Settled(s)
    BY Zenon, <1>2, <1>3, <1>4, <1>7 DEF Landed
  <2>4. Settled(s)'
    BY Zenon, <1>5, <1>6, <2>1, <2>3, SettledSame
  <2>5. OnlySector(c, s, None)
    BY Zenon, <1>2, <1>3, <1>4, <1>5, <1>6, <2>1, NoneIsNone DEF OnlySector
  <2>6. QED
    BY Zenon, <2>2, <2>4, <2>5, NoneIsNone, SectorStep
<1>8. CASE y.kind # "read"
  <2>1. PICK w : w = AfterWrite(y, vol[s])
    BY Zenon
  <2>2. vol' = [vol EXCEPT ![s] = w]
    BY Zenon, <1>3, <1>4, <1>8, <2>1 DEF Return, AfterWrite
  <2>3. w \in [Units -> Nat \cup {Anything}]
    BY Zenon, <1>2, <1>3, <1>6, <2>1 DEF AfterWrite, Ops
  <2>4. vol' \in [Sectors -> [Units -> Nat \cup {Anything}]] /\ vol'[s] = w /\ \A t \in Sectors \ {s} : vol'[t] = vol[t]
    BY Zenon, <2>2, <2>3 DEF DiskInv, DiskTypeOK
  <2>5. DiskTypeOK'
    BY Zenon, <1>5, <1>6, <2>4 DEF DiskInv, DiskTypeOK
  <2>6. Landed(y)
    BY Zenon, <1>1, <1>2, <1>3, <1>8 DEF Landed, Ops
  <2>7. Agrees(y.buf, w) /\ layers[Top][s] = y.buf /\ location[s] = Top
    BY Zenon, <1>1, <1>2, <1>3, <1>4, <2>1, <2>6 DEF OpOK
  <2>8. layers[Top][s] # NoData
    BY Zenon, <1>2, <1>3, <2>7, DiskAssumption DEF Ops
  <2>9. HeldBy(Top, s)'
    BY <1>5, <1>6, <2>8 DEF HeldBy
  <2>10. ASSUME NEW i \in 1..Top, HeldBy(i, s)' PROVE Agrees(Got(layers[i][s]), w)
    <3>1. i = Top
      BY <1>5, <1>6, <2>8, <2>10 DEF HeldBy
    <3>2. QED
      BY Zenon, <2>7, <2>8, <3>1 DEF Got
  <2>11. Settled(s)'
    BY Zenon, <1>5, <1>6, <2>4, <2>7, <2>9, <2>10 DEF Settled
  <2>12. OnlySector(c, s, None)
    BY Zenon, <1>2, <1>3, <1>4, <1>5, <1>6, <2>4, NoneIsNone DEF OnlySector
  <2>13. QED
    BY Zenon, <2>5, <2>11, <2>12, NoneIsNone, SectorStep
<1>9. QED
  BY Zenon, <1>7, <1>8

\* A request that starts is the only one at its sector.
LEMMA StartStep ==
  ASSUME DiskInv, SectorExclusive, NEW c \in DiskClients, NEW s \in Sectors, NEW U, NEW o \in Ops,
         op[c].pc = "none", ~Busy(s, U), op' = [op EXCEPT ![c] = o], o.s = s, OpOK(o), ~Landed(o),
         UNCHANGED <<layers, location, vol>>, diskWrites' \in Nat
  PROVE  DiskInv'
<1>1. \A d \in DiskClients : Active(d) => op[d].s # s
  BY Zenon DEF Busy, Active
<1>2. ~Active(c)
  BY Zenon DEF Active
<1>3. Top' = Top /\ Top \in Nat /\ Top >= 1 /\ location[s] \in 0..Top
  BY DEF Top, DiskInv, DiskTypeOK
<1>4. DiskTypeOK'
  BY Zenon, <1>3 DEF DiskInv, DiskTypeOK
<1>5. Settled(s)
  BY Zenon, <1>1 DEF DiskInv
<1>6. Settled(s)' /\ OpOK(o)'
  BY Zenon, <1>3, <1>5, SettledSame, OpSame
<1>7. OnlySector(c, s, o)
  BY Zenon, <1>1, <1>2, <1>3 DEF OnlySector
<1>8. QED
  BY Zenon, <1>4, <1>6, <1>7, SectorStep

\* A read starts.
LEMMA StartReadStep ==
  ASSUME DiskInv, SectorExclusive, NEW c \in DiskClients, NEW s \in Sectors, NEW U \in SUBSET Units \ {{}},
         StartRead(c, s, U)
  PROVE  DiskInv'
<1>1. PICK o : o = [pc |-> "lookup", kind |-> "read", s |-> s, units |-> U,
                    value |-> 0, at |-> 0, buf |-> Zeroes, before |-> vol[s]]
  BY Zenon
<1>2. /\ op' = [op EXCEPT ![c] = o] /\ op[c].pc = "none" /\ ~Busy(s, U)
      /\ UNCHANGED <<layers, location, vol, diskWrites>>
  BY Zenon, <1>1 DEF StartRead
<1>3. Zeroes \in [Units -> Nat] /\ vol[s] \in [Units -> Nat \cup {Anything}] /\ diskWrites' \in Nat
  BY Zenon, <1>2 DEF Zeroes, DiskInv, DiskTypeOK
<1>4. o \in Ops /\ o.s = s /\ o.pc = "lookup" /\ o.kind = "read" /\ o.before = vol[s]
  BY Zenon, <1>1, <1>3 DEF Ops, Pcs
<1>5. OpOK(o) /\ ~Landed(o)
  BY Zenon, <1>4 DEF OpOK, Landed
<1>6. QED
  BY Zenon, <1>2, <1>3, <1>4, <1>5, StartStep

\* A write starts.
LEMMA StartWriteStep ==
  ASSUME DiskInv, SectorExclusive, NEW c \in DiskClients, NEW s \in Sectors, NEW U \in SUBSET Units \ {{}},
         StartWrite(c, s, U)
  PROVE  DiskInv'
<1>1. PICK n : n = diskWrites + 1
  BY Zenon
<1>2. PICK b : b = [u \in Units |-> n]
  BY Zenon
<1>3. PICK v : v = IF U = Units THEN "write" ELSE "lock"
  BY Zenon
<1>4. PICK o : o = [pc |-> v, kind |-> "write", s |-> s, units |-> U,
                    value |-> n, at |-> 0, buf |-> b, before |-> vol[s]]
  BY Zenon
<1>5. /\ op' = [op EXCEPT ![c] = o] /\ op[c].pc = "none" /\ ~Busy(s, U)
      /\ UNCHANGED <<layers, location, vol>> /\ diskWrites' = n
  BY Zenon, <1>1, <1>2, <1>3, <1>4 DEF StartWrite
<1>6. n \in Nat /\ vol[s] \in [Units -> Nat \cup {Anything}]
  BY <1>1 DEF DiskInv, DiskTypeOK
<1>7. b \in [Units -> Nat] /\ v \in Pcs /\ v \in {"write", "lock"} /\ (v = "write" => U = Units)
  BY Zenon, <1>2, <1>3, <1>6 DEF Pcs
<1>8. /\ o \in Ops /\ o.s = s /\ o.pc = v /\ o.kind = "write" /\ o.units = U /\ o.value = n
      /\ o.buf = b
  BY Zenon, <1>4, <1>6, <1>7 DEF Ops
<1>9. v = "write" => Agrees(o.buf, AfterWrite(o, vol[s]))
  BY Zenon, <1>2, <1>7, <1>8 DEF Agrees, AfterWrite
<1>10. OpOK(o) /\ ~Landed(o)
  BY Zenon, <1>7, <1>8, <1>9 DEF OpOK, Landed
<1>11. QED
  BY Zenon, <1>5, <1>6, <1>8, <1>10, StartStep

-----------------------------------------------------------------------------
\* What runs alone finds every sector settled and has to leave it so.
LEMMA AloneStep ==
  ASSUME DiskInv, Alone, UNCHANGED op, DiskTypeOK', \A s \in Sectors : Settled(s) => Settled(s)'
  PROVE  DiskInv'
<1>1. \A c \in DiskClients : ~Active(c) /\ ~Active(c)'
  BY Zenon DEF Alone, Active
<1>2. \A s \in Sectors : Settled(s)
  BY Zenon, <1>1 DEF DiskInv
<1>3. QED
  BY Zenon, <1>1, <1>2 DEF DiskInv

\* The new head holds nothing.
LEMMA NewHeadStep == ASSUME DiskInv, NewHead PROVE DiskInv'
<1>1. /\ Alone /\ layers' = Append(layers, Absent) /\ UNCHANGED <<location, op, diskWrites, vol>>
  BY Zenon DEF NewHead
<1>2. Absent \in [Sectors -> Cells] /\ layers \in Seq([Sectors -> Cells]) /\ Top \in Nat \ {0}
  BY Zenon DEF Absent, Cells, DiskInv, DiskTypeOK
<1>3. /\ layers' \in Seq([Sectors -> Cells]) /\ Top' = Top + 1
      /\ \A i \in 1..Top : layers'[i] = layers[i] /\ layers'[Top + 1] = Absent
  BY <1>1, <1>2 DEF Top
<1>4. DiskTypeOK'
  <2>1. location' \in [Sectors -> 0..Top'] /\ Top' \in Nat \ {0}
    BY <1>1, <1>2, <1>3 DEF DiskInv, DiskTypeOK
  <2>2. QED
    BY Zenon, <1>1, <1>3, <2>1 DEF DiskInv, DiskTypeOK
<1>5. ASSUME NEW s \in Sectors, Settled(s) PROVE Settled(s)'
  <2>1. layers'[Top + 1][s] = NoData /\ \A i \in 1..Top : layers'[i][s] = layers[i][s]
    BY <1>2, <1>3 DEF Absent
  <2>2. PICK k : k = Top + 1
    BY Zenon
  <2>3. ASSUME NEW i \in 1..Top PROVE HeldBy(i, s)' <=> HeldBy(i, s)
    <3>1. layers'[i][s] = layers[i][s] /\ i # k /\ (k > i)
      BY <1>2, <2>1, <2>2
    <3>2. Top' = k /\ layers'[k][s] = NoData
      BY Zenon, <1>3, <2>1, <2>2
    <3>3. \A j : j \in 1..k <=> j \in 1..Top \/ j = k
      BY <1>2, <2>2
    <3>4. QED
      BY Zenon, <2>1, <3>1, <3>2, <3>3 DEF HeldBy
  <2>4. ~HeldBy(k, s)'
    BY <1>2, <2>1, <2>2 DEF HeldBy
  <2>5. ASSUME NEW i \in 1..Top', HeldBy(i, s)' PROVE Agrees(Got(layers'[i][s]), vol'[s])
    <3>1. i \in 1..Top
      BY <1>2, <1>3, <2>2, <2>4, <2>5
    <3>2. QED
      BY Zenon, <1>1, <1>5, <2>1, <2>3, <2>5, <3>1 DEF Settled
  <2>6. (Discarded(s) \/ location[s] = 0 \/ HeldBy(location[s], s))'
    <3>1. location[s] \in 0..Top
      BY Zenon DEF DiskInv, DiskTypeOK
    <3>2. CASE Discarded(s) \/ location[s] = 0
      BY Zenon, <1>1, <3>2 DEF Discarded
    <3>3. CASE location[s] # 0 /\ HeldBy(location[s], s)
      <4>1. location[s] \in 1..Top
        BY <1>2, <3>1, <3>3
      <4>2. QED
        BY Zenon, <1>1, <2>3, <3>3, <4>1
    <3>4. QED
      BY Zenon, <1>5, <3>2, <3>3 DEF Settled
  <2>7. QED
    BY Zenon, <2>5, <2>6 DEF Settled
<1>6. QED
  BY Zenon, <1>1, <1>4, <1>5, AloneStep

\* The table is forgotten.
LEMMA ReopenStep == ASSUME DiskInv, Reopen PROVE DiskInv'
<1>1. Alone /\ location' = [s \in Sectors |-> 0] /\ UNCHANGED <<layers, op, diskWrites, vol>>
  BY Zenon DEF Reopen
<1>2. Top' = Top /\ Top \in Nat \ {0}
  BY Zenon, <1>1 DEF Top, DiskInv, DiskTypeOK
<1>3. DiskTypeOK'
  BY <1>1, <1>2 DEF DiskInv, DiskTypeOK
<1>4. ASSUME NEW s \in Sectors, Settled(s) PROVE Settled(s)'
  <2>1. ASSUME NEW i \in 1..Top PROVE HeldBy(i, s)' <=> HeldBy(i, s)
    BY Zenon, <1>1, <1>2 DEF HeldBy
  <2>2. QED
    BY Zenon, <1>1, <1>2, <1>4, <2>1 DEF Settled
<1>5. QED
  BY Zenon, <1>1, <1>3, <1>4, AloneStep

\* A cell of a layer is emptied.
LEMMA CellEmptied ==
  ASSUME DiskTypeOK, NEW k \in 1..Top, NEW s \in Sectors, layers' = [layers EXCEPT ![k][s] = NoData]
  PROVE  /\ layers' \in Seq([Sectors -> Cells]) /\ Top' = Top
         /\ \A i \in 1..Top : i # k => layers'[i] = layers[i]
         /\ \A t \in Sectors \ {s} : layers'[k][t] = layers[k][t]
<1>1. PICK l : l = [layers[k] EXCEPT ![s] = NoData]
  BY Zenon
<1>2. l \in [Sectors -> Cells] /\ \A t \in Sectors \ {s} : l[t] = layers[k][t]
  BY <1>1 DEF DiskTypeOK, Cells, Top
<1>3. layers' = [layers EXCEPT ![k] = l]
  BY Zenon, <1>1
<1>4. QED
  BY <1>2, <1>3 DEF DiskTypeOK, Top

\* Nothing is known of a sector that is discarded.
LEMMA UnmapStep == ASSUME DiskInv, NEW s \in Sectors, Unmap(s) PROVE DiskInv'
<1>1. /\ Alone /\ layers' = [layers EXCEPT ![Top][s] = NoData] /\ UNCHANGED <<location, op, diskWrites>>
      /\ vol' = [vol EXCEPT ![s] = [u \in Units |-> Anything]]
  BY Zenon DEF Unmap
<1>2. Top \in Nat \ {0} /\ Top \in 1..Top
  BY DEF DiskInv, DiskTypeOK
<1>3. /\ layers' \in Seq([Sectors -> Cells]) /\ Top' = Top
      /\ \A i \in 1..Top : i # Top => layers'[i] = layers[i]
      /\ \A t \in Sectors \ {s} : layers'[Top][t] = layers[Top][t]
  BY Zenon, <1>1, <1>2, CellEmptied DEF DiskInv
<1>4. /\ vol' \in [Sectors -> [Units -> Nat \cup {Anything}]] /\ \A t \in Sectors \ {s} : vol'[t] = vol[t]
      /\ \A u \in Units : vol'[s][u] = Anything
  BY Zenon, <1>1 DEF DiskInv, DiskTypeOK
<1>5. DiskTypeOK'
  BY Zenon, <1>1, <1>2, <1>3, <1>4 DEF DiskInv, DiskTypeOK
<1>6. ASSUME NEW t \in Sectors, Settled(t) PROVE Settled(t)'
  <2>1. CASE t = s
    BY Zenon, <1>4, <2>1 DEF Settled, Discarded, Agrees
  <2>2. CASE t # s
    <3>1. \A i \in 1..Top : layers'[i][t] = layers[i][t]
      BY Zenon, <1>3, <2>2
    <3>2. location[t] \in 0..Top
      BY Zenon DEF DiskInv, DiskTypeOK
    <3>3. QED
      BY Zenon, <1>1, <1>3, <1>4, <1>6, <2>2, <3>1, <3>2, SettledSame
  <2>3. QED
    BY Zenon, <2>1, <2>2
<1>7. QED
  BY Zenon, <1>1, <1>5, <1>6, AloneStep

\* The sync agent prunes only what the head holds, which is never read from the layer
\* behind it.
LEMMA PruneStep == ASSUME DiskInv, NEW s \in Sectors, Prune(s) PROVE DiskInv'
<1>1. PICK k : k = Top - 1
  BY Zenon
<1>2. /\ Top \in Nat \ {0} /\ Top > 1 /\ layers[Top][s] # NoData
      /\ layers' = [layers EXCEPT ![k][s] = NoData] /\ UNCHANGED <<location, op, diskWrites, vol>>
  BY Zenon, <1>1 DEF Prune, DiskInv, DiskTypeOK
<1>3. k \in 1..Top /\ k < Top /\ Top \in 1..Top
  BY <1>1, <1>2
<1>4. /\ layers' \in Seq([Sectors -> Cells]) /\ Top' = Top
      /\ \A i \in 1..Top : i # k => layers'[i] = layers[i]
      /\ \A t \in Sectors \ {s} : layers'[k][t] = layers[k][t]
  BY Zenon, <1>2, <1>3, CellEmptied DEF DiskInv
<1>5. DiskTypeOK'
  BY Zenon, <1>2, <1>4 DEF DiskInv, DiskTypeOK
<1>6. layers'[Top] = layers[Top]
  BY <1>3, <1>4
<1>7. ASSUME NEW t \in Sectors \ {s}, NEW i \in 1..Top PROVE layers'[i][t] = layers[i][t]
  BY Zenon, <1>4
<1>8. ASSUME NEW i \in 1..Top PROVE (HeldBy(i, s) => i = Top) /\ (HeldBy(i, s)' <=> i = Top)
  <2>1. HeldBy(i, s) => i = Top
    BY <1>2, <1>3 DEF HeldBy
  <2>2. HeldBy(i, s)' => i = Top
    BY <1>2, <1>3, <1>4, <1>6 DEF HeldBy
  <2>3. i = Top => HeldBy(i, s)'
    BY <1>2, <1>4, <1>6 DEF HeldBy
  <2>4. QED
    BY Zenon, <2>1, <2>2, <2>3
<1>9. \A t \in Sectors : location[t] \in 0..Top
  BY Zenon DEF DiskInv, DiskTypeOK
<1>10. ASSUME NEW t \in Sectors, Settled(t) PROVE Settled(t)'
  <2>1. CASE t # s
    BY Zenon, <1>2, <1>4, <1>7, <1>9, <1>10, <2>1, SettledSame
  <2>2. CASE t = s
    <3>1. HeldBy(Top, s)
      BY <1>2 DEF HeldBy
    <3>2. \A i \in 1..Top : HeldBy(i, s)' => Agrees(Got(layers'[i][s]), vol'[s])
      BY Zenon, <1>2, <1>3, <1>6, <1>8, <1>10, <2>2, <3>1 DEF Settled
    <3>3. ASSUME location[s] # 0, HeldBy(location[s], s) PROVE HeldBy(location[s], s)'
      <4>1. location[s] \in 1..Top /\ location'[s] = location[s]
        BY <1>2, <1>9, <3>3
      <4>2. location[s] = Top
        BY Zenon, <1>8, <3>3, <4>1
      <4>3. QED
        BY Zenon, <1>3, <1>8, <4>1, <4>2
    <3>4. Discarded(s)' <=> Discarded(s)
      BY Zenon, <1>2 DEF Discarded
    <3>5. QED
      BY Zenon, <1>2, <1>4, <1>10, <2>2, <3>2, <3>3, <3>4 DEF Settled
  <2>3. QED
    BY Zenon, <2>1, <2>2
<1>11. ASSUME NEW o \in Ops, OpOK(o) PROVE OpOK(o)'
  <2>1. o.s \in Sectors
    BY Zenon DEF Ops
  <2>2. CASE o.s # s
    BY <1>2, <1>4, <1>7, <1>11, <2>1, <2>2, OpSame
  <2>3. CASE o.s = s
    <3>1. o.pc = "scan" => /\ location'[s] = 0 /\ o.at \in 1..Top'
                           /\ \A j \in 1..Top' : j > o.at => layers'[j][s] = NoData
      <4>1. o.pc = "scan" => location[s] = 0 /\ o.at \in 1..Top /\ o.at = Top
        BY <1>2, <1>3, <1>11, <2>3 DEF OpOK
      <4>2. QED
        BY <1>2, <1>4, <4>1
    <3>2. o.pc = "store" => o.at \in 1..Top' /\ HeldBy(o.at, s)'
      BY Zenon, <1>4, <1>8, <1>11, <2>3 DEF OpOK
    <3>3. o.pc = "check" => location'[s] # 0
      <4>1. ~HeldBy(1, s)
        BY <1>2, <1>3, <1>8
      <4>2. QED
        BY Zenon, <1>2, <1>11, <2>3, <4>1 DEF OpOK
    <3>4. AfterWrite(o, vol[s])' = AfterWrite(o, vol[s]) /\ layers'[Top'][s] = layers[Top][s]
      BY Zenon, <1>2, <1>4, <1>6 DEF AfterWrite
    <3>5. QED
      BY Zenon, <1>2, <1>4, <1>11, <2>3, <3>1, <3>2, <3>3, <3>4 DEF OpOK
  <2>4. QED
    BY Zenon, <2>2, <2>3
<1>12. \A c \in DiskClients : Active(c)' <=> Active(c)
  BY Zenon, <1>2 DEF Active
<1>13. ASSUME NEW c \in DiskClients, Active(c)' PROVE OpOK(op[c])'
  <2>1. PICK x : x = op[c]
    BY Zenon
  <2>2. x \in Ops /\ OpOK(x)
    BY Zenon, <1>12, <1>13, <2>1, OpNow
  <2>3. OpOK(x)'
    BY Zenon, <1>11, <2>2
  <2>4. QED
    BY Zenon, <1>2, <2>1, <2>3
<1>14. \A t \in Sectors : (\A c \in DiskClients : Active(c)' /\ Landed(op'[c]) => op'[c].s # t) => Settled(t)'
  BY Zenon, <1>2, <1>10, <1>12 DEF DiskInv
<1>15. QED
  BY Zenon, <1>2, <1>5, <1>12, <1>13, <1>14 DEF DiskInv

\* A layer and the one above it become one: what is read from them stays the same, and
\* the table follows.
LEMMA CoalesceStep == ASSUME DiskInv, NEW i \in 1..MaxLayers, Coalesce(i) PROVE DiskInv'
<1>1. i \in Nat /\ i >= 1
  BY DiskAssumption
<1>2. PICK n : n = Top - 1
  BY Zenon
<1>3. PICK m : m = Merged(i)
  BY Zenon
<1>4. /\ Alone /\ i + 1 < Top /\ UNCHANGED <<op, diskWrites, vol>> /\ location' = RemoveIndex(i)
      /\ layers' = [k \in 1..n |-> IF k < i THEN layers[k] ELSE IF k = i THEN m ELSE layers[k + 1]]
  BY Zenon, <1>2, <1>3 DEF Coalesce
<1>5. Top \in Nat /\ n \in Nat \ {0} /\ i < n /\ i \in 1..n /\ Top = n + 1
  BY <1>1, <1>2, <1>4 DEF DiskInv, DiskTypeOK
<1>6. \A k \in 1..Top : layers[k] \in [Sectors -> Cells]
  BY DEF Top, DiskInv, DiskTypeOK
<1>7. m \in [Sectors -> Cells]
  <2>1. i \in 1..Top /\ i + 1 \in 1..Top
    BY <1>1, <1>5
  <2>2. QED
    BY Zenon, <1>3, <1>6, <2>1 DEF Merged
<1>8. \A t \in Sectors : m[t] = IF layers[i + 1][t] # NoData THEN layers[i + 1][t] ELSE layers[i][t]
  BY Zenon, <1>3 DEF Merged
<1>9. ASSUME NEW k \in 1..n PROVE layers'[k] \in [Sectors -> Cells]
  <2>1. k \in 1..Top /\ k + 1 \in 1..Top
    BY <1>5
  <2>2. QED
    BY Zenon, <1>4, <1>6, <1>7, <2>1
<1>10. layers' \in Seq([Sectors -> Cells]) /\ Len(layers') = n
  BY <1>4, <1>5, <1>9
<1>11. Top' = n
  BY Zenon, <1>10 DEF Top
<1>12. \A t \in Sectors : location[t] \in 0..Top
  BY Zenon DEF DiskInv, DiskTypeOK
<1>13. /\ location' \in [Sectors -> 0..n]
       /\ \A t \in Sectors : location'[t] = IF location[t] = i THEN 0
                                            ELSE IF location[t] > i THEN location[t] - 1 ELSE location[t]
  BY <1>1, <1>4, <1>5, <1>12 DEF RemoveIndex
<1>14. DiskTypeOK'
  BY Zenon, <1>4, <1>5, <1>10, <1>11, <1>13 DEF DiskInv, DiskTypeOK
<1>15. ASSUME NEW s \in Sectors, Settled(s) PROVE Settled(s)'
  <2>1. \A k \in 1..n : k < i => layers'[k][s] = layers[k][s]
    BY Zenon, <1>4
  <2>2. \A k \in 1..n : k > i => layers'[k][s] = layers[k + 1][s]
    BY <1>1, <1>4
  <2>3. layers'[i][s] = IF layers[i + 1][s] # NoData THEN layers[i + 1][s] ELSE layers[i][s]
    BY <1>4, <1>5, <1>8
  <2>4. ASSUME NEW k \in 1..n, k < i PROVE HeldBy(k, s)' <=> HeldBy(k, s)
    <3>1. ASSUME HeldBy(k, s), NEW j \in 1..n, j > k PROVE layers'[j][s] = NoData
      <4>1. \A l \in 1..Top : l > k => layers[l][s] = NoData
        BY Zenon, <3>1 DEF HeldBy
      <4>2. j \in 1..Top /\ j + 1 \in 1..Top /\ i + 1 \in 1..Top /\ i \in 1..Top /\ j + 1 > k /\ i + 1 > k
        BY <1>1, <1>5, <2>4, <3>1
      <4>3. QED
        BY <1>1, <2>1, <2>2, <2>3, <2>4, <3>1, <4>1, <4>2
    <3>2. ASSUME HeldBy(k, s)', NEW j \in 1..Top, j > k PROVE layers[j][s] = NoData
      <4>1. \A l \in 1..n : l > k => layers'[l][s] = NoData
        BY Zenon, <1>11, <3>2 DEF HeldBy
      <4>2. CASE j < i
        BY <1>5, <2>1, <3>2, <4>1, <4>2
      <4>3. CASE j = i \/ j = i + 1
        BY Zenon, <1>5, <2>3, <2>4, <4>1, <4>3
      <4>4. CASE j > i + 1
        <5>1. j - 1 \in 1..n /\ j - 1 > i /\ j - 1 > k /\ (j - 1) + 1 = j
          BY <1>1, <1>5, <2>4, <4>4
        <5>2. QED
          BY Zenon, <2>2, <4>1, <5>1
      <4>5. QED
        BY <1>1, <4>2, <4>3, <4>4
    <3>3. layers'[k][s] = layers[k][s]
      BY Zenon, <2>1, <2>4
    <3>4. QED
      BY Zenon, <1>11, <3>1, <3>2, <3>3 DEF HeldBy
  <2>5. ASSUME NEW k \in 1..n, k > i PROVE HeldBy(k, s)' <=> HeldBy(k + 1, s)
    <3>1. ASSUME HeldBy(k + 1, s), NEW j \in 1..n, j > k PROVE layers'[j][s] = NoData
      <4>1. j + 1 \in 1..Top /\ j + 1 > k + 1 /\ j > i
        BY <1>1, <1>5, <2>5, <3>1
      <4>2. QED
        BY Zenon, <2>2, <3>1, <4>1 DEF HeldBy
    <3>2. ASSUME HeldBy(k, s)', NEW j \in 1..Top, j > k + 1 PROVE layers[j][s] = NoData
      <4>1. j - 1 \in 1..n /\ j - 1 > k /\ j - 1 > i /\ (j - 1) + 1 = j
        BY <1>1, <1>5, <2>5, <3>2
      <4>2. QED
        BY Zenon, <1>11, <2>2, <3>2, <4>1 DEF HeldBy
    <3>3. layers'[k][s] = layers[k + 1][s] /\ k # 1 /\ k + 1 # 1
      BY <1>1, <2>2, <2>5
    <3>4. QED
      BY Zenon, <1>11, <3>1, <3>2, <3>3 DEF HeldBy
  <2>6. ASSUME HeldBy(i, s)', NEW j \in 1..Top, j > i + 1 PROVE layers[j][s] = NoData
    <3>1. j - 1 \in 1..n /\ j - 1 > i /\ (j - 1) + 1 = j
      BY <1>1, <1>5, <2>6
    <3>2. QED
      BY Zenon, <1>11, <2>2, <2>6, <3>1 DEF HeldBy
  <2>7. ASSUME HeldBy(i, s)'
        PROVE  \E k \in {i, i + 1} : HeldBy(k, s) /\ layers'[i][s] = layers[k][s]
    <3>1. i = 1 \/ layers'[i][s] # NoData
      BY Zenon, <2>7 DEF HeldBy
    <3>2. CASE layers[i + 1][s] # NoData
      <4>1. HeldBy(i + 1, s)
        BY Zenon, <2>6, <2>7, <3>2 DEF HeldBy
      <4>2. QED
        BY Zenon, <2>3, <3>2, <4>1
    <3>3. CASE layers[i + 1][s] = NoData
      <4>1. \A j \in 1..Top : j > i => j = i + 1 \/ j > i + 1
        BY <1>1
      <4>2. HeldBy(i, s)
        BY Zenon, <2>3, <2>6, <2>7, <3>1, <3>3, <4>1 DEF HeldBy
      <4>3. QED
        BY Zenon, <2>3, <3>3, <4>2
    <3>4. QED
      BY Zenon, <3>2, <3>3
  <2>8. ASSUME HeldBy(i + 1, s) PROVE HeldBy(i, s)'
    <3>1. layers[i + 1][s] # NoData /\ layers'[i][s] # NoData
      BY <1>1, <2>3, <2>8 DEF HeldBy
    <3>2. ASSUME NEW j \in 1..n, j > i PROVE layers'[j][s] = NoData
      <4>1. j + 1 \in 1..Top /\ j + 1 > i + 1
        BY <1>1, <1>5, <3>2
      <4>2. QED
        BY Zenon, <2>2, <2>8, <3>2, <4>1 DEF HeldBy
    <3>3. QED
      BY Zenon, <1>4, <1>11, <3>1, <3>2 DEF HeldBy
  <2>9. \A k \in 1..Top : HeldBy(k, s) => Agrees(Got(layers[k][s]), vol[s])
    BY Zenon, <1>15 DEF Settled
  <2>10. ASSUME NEW k \in 1..n, HeldBy(k, s)' PROVE Agrees(Got(layers'[k][s]), vol[s])
    <3>1. k \in 1..Top /\ k + 1 \in 1..Top /\ i \in 1..Top /\ i + 1 \in 1..Top
      BY <1>1, <1>5
    <3>2. CASE k < i
      BY Zenon, <2>1, <2>4, <2>9, <2>10, <3>1, <3>2
    <3>3. CASE k = i
      BY Zenon, <2>7, <2>9, <2>10, <3>1, <3>3
    <3>4. CASE k > i
      BY Zenon, <2>2, <2>5, <2>9, <2>10, <3>1, <3>4
    <3>5. QED
      BY <1>1, <3>2, <3>3, <3>4
  <2>11. ASSUME location[s] # 0, HeldBy(location[s], s) PROVE location'[s] = 0 \/ HeldBy(location[s], s)'
    <3>1. PICK l : l = location[s]
      BY Zenon
    <3>2. l \in 1..Top /\ HeldBy(l, s)
      BY <1>5, <1>12, <2>11, <3>1
    <3>3. location'[s] = IF l = i THEN 0 ELSE IF l > i THEN l - 1 ELSE l
      BY Zenon, <1>13, <3>1
    <3>4. CASE l < i
      <4>1. l \in 1..n /\ location'[s] = l
        BY <1>1, <1>5, <3>2, <3>3, <3>4
      <4>2. HeldBy(l, s)'
        BY Zenon, <2>4, <3>2, <3>4, <4>1
      <4>3. QED
        BY Zenon, <4>1, <4>2
    <3>5. CASE l = i
      BY Zenon, <3>3, <3>5
    <3>6. CASE l = i + 1
      <4>1. location'[s] = i
        BY <1>1, <3>3, <3>6
      <4>2. HeldBy(i, s)'
        BY Zenon, <2>8, <3>2, <3>6
      <4>3. QED
        BY Zenon, <4>1, <4>2
    <3>7. CASE l > i + 1
      <4>1. PICK k : k = l - 1
        BY Zenon
      <4>2. k \in 1..n /\ k > i /\ k + 1 = l /\ location'[s] = k
        BY <1>1, <1>5, <3>2, <3>3, <3>7, <4>1
      <4>3. HeldBy(k, s)'
        BY Zenon, <2>5, <3>2, <4>2
      <4>4. QED
        BY Zenon, <4>2, <4>3
    <3>8. QED
      BY <1>1, <3>2, <3>4, <3>5, <3>6, <3>7
  <2>12. Discarded(s)' <=> Discarded(s)
    BY Zenon, <1>4 DEF Discarded
  <2>13. location[s] = 0 => location'[s] = 0
    BY <1>1, <1>13
  <2>14. QED
    BY Zenon, <1>4, <1>11, <1>15, <2>10, <2>11, <2>12, <2>13 DEF Settled
<1>16. QED
  BY Zenon, <1>4, <1>14, <1>15, AloneStep

-----------------------------------------------------------------------------
\* A new volume is settled.
LEMMA DiskStarts == DiskInit => DiskInv
<1> SUFFICES ASSUME DiskInit PROVE DiskInv
  BY Zenon
<1>1. layers = <<Absent>> /\ Absent \in [Sectors -> Cells]
  BY Zenon DEF DiskInit, Absent, Cells
<1>2. layers \in Seq([Sectors -> Cells]) /\ Top = 1 /\ layers[1] = Absent
  BY <1>1 DEF Top
<1>3. DiskTypeOK
  <2>1. location \in [Sectors -> 0..Top] /\ Top \in Nat \ {0}
    BY <1>2 DEF DiskInit
  <2>2. op \in [DiskClients -> Ops \cup {None}] /\ diskWrites \in Nat
    BY Zenon DEF DiskInit
  <2>3. vol \in [Sectors -> [Units -> Nat \cup {Anything}]]
    BY Zenon DEF DiskInit, Zeroes
  <2>4. QED
    BY Zenon, <1>2, <2>1, <2>2, <2>3 DEF DiskTypeOK
<1>4. \A c \in DiskClients : ~Active(c)
  BY Zenon, NoneIsNone DEF DiskInit, Active
<1>5. ASSUME NEW s \in Sectors PROVE Settled(s)
  <2>1. location[s] = 0 /\ vol[s] = Zeroes /\ layers[1][s] = NoData
    BY Zenon, <1>2 DEF DiskInit, Absent
  <2>2. \A i \in 1..Top : i = 1
    BY <1>2
  <2>3. Agrees(Zeroes, Zeroes)
    BY Zenon DEF Agrees
  <2>4. \A i \in 1..Top : Agrees(Got(layers[i][s]), vol[s])
    BY Zenon, <2>1, <2>2, <2>3 DEF Got
  <2>5. QED
    BY Zenon, <2>1, <2>4 DEF Settled
<1>6. QED
  BY Zenon, <1>3, <1>4, <1>5 DEF DiskInv

\* Every step preserves the invariant.
LEMMA DiskStep == ASSUME SectorExclusive PROVE DiskInv /\ [DiskNext]_diskVars => DiskInv'
<1> SUFFICES ASSUME DiskInv, [DiskNext]_diskVars PROVE DiskInv'
  BY Zenon
<1>1. ASSUME NEW c \in DiskClients, NEW s \in Sectors, NEW U \in SUBSET Units \ {{}},
             StartRead(c, s, U) \/ StartWrite(c, s, U)
      PROVE  DiskInv'
  BY Zenon, <1>1, StartReadStep, StartWriteStep
<1>2. ASSUME NEW c \in DiskClients, Advance(c) PROVE DiskInv'
  BY Zenon, <1>2, TakeLockStep, LookupStep, ScanStep, StoreStep, CheckStep, FetchStep, WriteStep, MarkStep, ReturnStep
     DEF Advance
<1>3. CASE NewHead \/ Reopen
  BY Zenon, <1>3, NewHeadStep, ReopenStep
<1>4. ASSUME NEW i \in 1..MaxLayers, Coalesce(i) PROVE DiskInv'
  BY Zenon, <1>4, CoalesceStep
<1>5. ASSUME NEW s \in Sectors, Unmap(s) \/ Prune(s) PROVE DiskInv'
  BY Zenon, <1>5, UnmapStep, PruneStep
<1>6. CASE UNCHANGED diskVars
  <2>1. layers' = layers /\ location' = location /\ op' = op /\ diskWrites' = diskWrites /\ vol' = vol
    BY Zenon, <1>6 DEF diskVars
  <2>2. DiskTypeOK' <=> DiskTypeOK
    BY Zenon, <2>1 DEF DiskTypeOK, Top
  <2>3. \A s \in Sectors : Settled(s)' <=> Settled(s)
    BY Zenon, <2>1 DEF Settled, HeldBy, Discarded, Top
  <2>4. ASSUME NEW c \in DiskClients, Active(c) PROVE OpOK(op[c])'
    <3>1. PICK y : y = op[c]
      BY Zenon
    <3>2. y \in Ops /\ OpOK(y) /\ Top \in Nat /\ Top >= 1
      BY <2>4, <3>1, OpNow DEF DiskInv, DiskTypeOK
    <3>3. Top' = Top
      BY Zenon, <2>1 DEF Top
    <3>4. OpOK(y)'
      BY Zenon, <2>1, <3>2, <3>3, OpSame
    <3>5. QED
      BY Zenon, <2>1, <3>1, <3>4
  <2>5. \A c \in DiskClients : (Active(c)' <=> Active(c)) /\ (Landed(op[c])' <=> Landed(op[c]))
    BY Zenon, <2>1 DEF Active, Landed
  <2>6. QED
    BY Zenon, <2>1, <2>2, <2>3, <2>4, <2>5 DEF DiskInv
<1>7. QED
  BY Zenon, <1>1, <1>2, <1>3, <1>4, <1>5, <1>6 DEF DiskNext

\* The topmost layer that holds a sector is the one to read it from.
LEMMA HolderIs ==
  ASSUME DiskInv, NEW s \in Sectors, NEW i \in 1..Top, HeldBy(i, s)
  PROVE  i = Holder(s)
<1> DEFINE S == {1} \cup {k \in DOMAIN layers : layers[k][s] # NoData}
<1>1. DOMAIN layers = 1..Top /\ Top \in Nat \ {0}
  BY DEF Top, DiskInv, DiskTypeOK
<1>2. i \in S /\ \A k \in S : i >= k
  BY <1>1 DEF HeldBy
<1>3. S \subseteq Nat
  BY <1>1
<1> HIDE DEF S
<1>4. \A x \in S : (\A k \in S : x >= k) => x = i
  BY <1>2, <1>3
<1>5. (CHOOSE x \in S : \A k \in S : x >= k) = i
  BY Zenon, <1>2, <1>4
<1>6. QED
  BY Zenon, <1>5 DEF Holder, Max, S

\* A read returns the last acknowledged writes, and the location table names the layer
\* they are taken from, across new heads, removed layers, pruning, discards and
\* restarts, as long as no two requests to a sector are in flight at a time
\* (diffDisk.ReadAt, lookup, WriteAt, RemoveIndex).
THEOREM ReadsAreRight == ASSUME SectorExclusive PROVE DiskSpec => []ReadsServed
<1>1. DiskInv => ReadsServed
  <2> SUFFICES ASSUME DiskInv PROVE ReadsServed
    BY Zenon
  <2>1. ASSUME NEW c \in DiskClients, op[c].pc = "done", op[c].kind = "read", NEW u \in op[c].units
        PROVE  op[c].before[u] \in {Anything, op[c].buf[u]}
    <3>1. Active(c)
      BY Zenon, <2>1 DEF Active
    <3>2. op[c] \in Ops /\ OpOK(op[c])
      BY Zenon, <3>1, OpNow
    <3>3. u \in Units /\ Agrees(op[c].buf, op[c].before)
      BY Zenon, <2>1, <3>2 DEF OpOK, Ops
    <3>4. QED
      BY Zenon, <3>3 DEF Agrees
  <2>2. ASSUME NEW s \in Sectors, \A c \in DiskClients : op[c].pc = "none" \/ op[c].s # s,
               \A u \in Units : vol[s][u] # Anything
        PROVE  location[s] \in {0, Holder(s)}
    <3>1. Settled(s)
      BY Zenon, <2>2 DEF DiskInv, Active
    <3>2. ~Discarded(s)
      BY Zenon, <2>2, DiskAssumption DEF Discarded
    <3>3. location[s] \in 0..Top /\ Top \in Nat
      BY Zenon DEF DiskInv, DiskTypeOK
    <3>4. CASE location[s] # 0
      <4>1. location[s] \in 1..Top /\ HeldBy(location[s], s)
        BY <3>1, <3>2, <3>3, <3>4 DEF Settled
      <4>2. QED
        BY Zenon, <4>1, HolderIs
    <3>5. QED
      BY Zenon, <3>4
  <2>3. QED
    BY Zenon, <2>1, <2>2 DEF ReadsServed, LastWriteRead, LocationRight
<1>2. QED
  BY DiskStarts, DiskStep, <1>1, PTL DEF DiskSpec


-----------------------------------------------------------------------------
\* The goroutine has stored a counter that it has not yet cached.
Ahead == IF gor \in {"send", "add"} THEN 1 ELSE 0

CounterType ==
    /\ cache \in Nat /\ reqs \in Nat /\ base \in Nat /\ acked \in Nat
    /\ gor \in {"wait", "send", "add", "close", "closed"}
    /\ gerr \in BOOLEAN /\ failed \in BOOLEAN
    /\ writer \in [CounterWriters -> {"idle", "data", "ack"}]
    /\ setting \in {-1} \cup 0..MaxCount

\* The bound is never passed, so that what is stored can be read again.
Bounded == cache + reqs + Ahead <= MaxCount /\ \E k \in 0..MaxCount : file = Written(k)

\* While the engine sets the counter, nothing else is at work.
Setting == setting # -1 => gor = "wait" /\ reqs = 0 /\ file = Written(setting)

\* An error has been returned to the engine before the channel is closed.
ClosedAfterError == gor \in {"close", "closed"} => failed

\* The stored and the cached counter at each step of the goroutine, while no call has
\* failed: the file is ahead of the cache from the store to the raise, the writes
\* acknowledged from the answer on.
Counted ==
    ~failed /\ setting = -1 =>
        /\ cache + (IF gor = "add" THEN 1 ELSE 0) = base + acked
        /\ Parsed(file) = cache + (IF gor = "add" \/ (gor = "send" /\ ~gerr) THEN 1 ELSE 0)

CounterInv == CounterType /\ Bounded /\ Setting /\ ClosedAfterError /\ Counted

\* The bound on the counter is a positive number.
LEMMA BoundIsNat == MaxCount \in Nat /\ MaxCount > 0
  BY CounterAssumption

\* What is stored is what is read.
LEMMA ReadBack ==
    ASSUME NEW n \in 0..MaxCount PROVE Parsed(Written(n)) = n
  BY Zenon, CounterAssumption

\* The counter of a stored file is within the bound.
LEMMA StoredBounded ==
    ASSUME Bounded PROVE Parsed(file) \in 0..MaxCount /\ Parsed(file) \in Nat /\ Parsed(file) <= MaxCount
  BY ReadBack, CounterAssumption DEF Bounded

\* A write is counted, in the bound (WriteAt, UnmapAt).
LEMMA CountWriteStep ==
    ASSUME CounterInv, NEW w \in CounterWriters, CountWrite(w) PROVE CounterInv'
  <1>1. cache + reqs + 1 < MaxCount
    BY Zenon DEF CountWrite
  <1>2. CounterType'
    BY DEF CounterInv, CounterType, CountWrite
  <1>3. Bounded'
    <2>1. Ahead' = Ahead /\ Ahead \in {0, 1} /\ reqs' = reqs + 1
      BY DEF CountWrite, Ahead
    <2> QED BY <1>1, <1>2, <2>1, BoundIsNat DEF CounterInv, CounterType, Bounded, CountWrite
  <1> QED BY Zenon, <1>2, <1>3 DEF CounterInv, CountWrite, Setting, ClosedAfterError, Counted

\* The goroutine stores the counter plus one.
LEMMA ServeStep == ASSUME CounterInv, ServeCounter PROVE CounterInv'
  <1>0. Ahead = 0 /\ reqs > 0 /\ cache + reqs + Ahead <= MaxCount /\ cache \in Nat /\ reqs \in Nat
    BY Zenon DEF CounterInv, CounterType, Bounded, ServeCounter, Ahead
  <1>1. cache + 1 \in 0..MaxCount
    BY <1>0, BoundIsNat
  <1>2. Parsed(Written(cache + 1)) = cache + 1
    BY Zenon, <1>1, ReadBack
  <1>3. CounterType' /\ Ahead' = 1
    <2>1. Ahead' = 1
      BY Zenon DEF ServeCounter, Ahead
    <2>2. reqs' \in Nat
      BY <1>0 DEF ServeCounter
    <2>3. gerr' \in BOOLEAN
      BY Zenon DEF ServeCounter
    <2> QED BY Zenon, <2>1, <2>2, <2>3 DEF CounterInv, CounterType, ServeCounter
  <1>4. Bounded'
    <2>1. cache' + reqs' + Ahead' <= MaxCount
      BY <1>0, <1>3 DEF ServeCounter
    <2> QED BY Zenon, <1>1, <2>1 DEF CounterInv, Bounded, ServeCounter
  <1>5. Counted'
    BY Zenon, <1>2 DEF CounterInv, CounterType, ServeCounter, Counted
  <1> QED BY <1>3, <1>4, <1>5 DEF CounterInv, ServeCounter, Setting, ClosedAfterError

\* A writer takes the answer.
LEMMA AnswerStep ==
    ASSUME CounterInv, NEW w \in CounterWriters, Answer(w) PROVE CounterInv'
  <1>1. CounterType' /\ Bounded'
    BY CounterAssumption DEF CounterInv, CounterType, Bounded, Answer, Ahead
  <1>2. Counted'
    BY DEF CounterInv, CounterType, Answer, Counted
  <1> QED BY Zenon, <1>1, <1>2 DEF CounterInv, CounterType, Answer, Setting, ClosedAfterError

\* The other steps of the writers.
LEMMA WriterStep ==
    ASSUME CounterInv, NEW w \in CounterWriters, DataDone(w) \/ DataFails(w) \/ AnswerClosed(w)
    PROVE  CounterInv'
  <1> USE DEF CounterInv, CounterType
  <1>1. CASE DataDone(w)
    BY Zenon, <1>1 DEF DataDone, Bounded, Ahead, Setting, ClosedAfterError, Counted
  <1>2. CASE DataFails(w)
    BY Zenon, <1>2 DEF DataFails, Bounded, Ahead, Setting, ClosedAfterError, Counted
  <1>3. CASE AnswerClosed(w)
    BY <1>3 DEF AnswerClosed, Bounded, Ahead, Setting, ClosedAfterError, Counted
  <1> QED BY Zenon, <1>1, <1>2, <1>3

\* The other steps of the goroutine.
LEMMA GoroutineStep == ASSUME CounterInv, Raise \/ CloseAcks PROVE CounterInv'
  <1> USE DEF CounterInv, CounterType
  <1>1. CASE Raise
    <2>1. Bounded'
      BY <1>1, BoundIsNat DEF Raise, Bounded, Ahead
    <2>2. Counted'
      BY <1>1 DEF Raise, Counted
    <2> QED BY <1>1, <2>1, <2>2 DEF Raise, Setting, ClosedAfterError
  <1>2. CASE CloseAcks
    BY Zenon, <1>2, BoundIsNat DEF CloseAcks, Bounded, Ahead, Setting, ClosedAfterError, Counted
  <1> QED BY Zenon, <1>1, <1>2

\* SetRevisionCounter, the file and then the cache.
LEMMA SetStep ==
    ASSUME SlowEngine = TRUE, CounterInv, SetCache \/ \E n \in 0..(MaxCount - 1) : SetRevisionCounter(n)
    PROVE  CounterInv'
  <1> USE DEF CounterInv, CounterType
  <1>1. ASSUME NEW n \in 0..(MaxCount - 1), SetRevisionCounter(n) PROVE CounterInv'
    <2>1. n \in 0..MaxCount /\ n # -1
      BY CounterAssumption
    <2> QED BY Zenon, <1>1, <2>1 DEF SetRevisionCounter, Bounded, Ahead, Setting, ClosedAfterError, Counted
  <1>2. CASE SetCache
    <2>1. setting \in 0..MaxCount /\ gor = "wait" /\ reqs = 0 /\ file = Written(setting)
      BY Zenon, <1>2 DEF SetCache, Setting
    <2>2. Parsed(file) = setting
      BY Zenon, <2>1, ReadBack
    <2>3. Bounded'
      BY <1>2, <2>1, CounterAssumption DEF SetCache, Bounded, Ahead
    <2>4. Counted'
      BY <1>2, <2>1, <2>2 DEF SetCache, Counted
    <2> QED BY <1>2, <2>1, <2>3, <2>4, CounterAssumption DEF SetCache, Setting, ClosedAfterError
  <1> QED BY Zenon, <1>1, <1>2

\* A restarted replica reads its counter.
LEMMA RestartStep == ASSUME CounterInv, Restart PROVE CounterInv'
  <1>1. Parsed(file) \in Nat /\ Parsed(file) <= MaxCount /\ file' = file
    BY Zenon, StoredBounded DEF CounterInv, Restart
  <1>2. CounterType' /\ Bounded'
    <2>1. CounterType'
      BY Zenon, <1>1 DEF CounterInv, CounterType, Restart
    <2>2. Ahead' = 0 /\ cache' = Parsed(file) /\ reqs' = 0
      BY Zenon DEF Restart, Ahead
    <2> QED BY <1>1, <2>1, <2>2 DEF CounterInv, Bounded
  <1> QED BY <1>1, <1>2 DEF CounterInv, Restart, Setting, ClosedAfterError, Counted

-----------------------------------------------------------------------------
\* CounterInv holds in every state, when the engine sets the counter only between
\* requests.
THEOREM CounterInvariance == ASSUME SlowEngine = TRUE PROVE CounterSpec => []CounterInv
  <1>1. CounterInit => CounterInv
    <2> SUFFICES ASSUME CounterInit PROVE CounterInv
      BY Zenon
    <2>1. 0 \in 0..MaxCount /\ Parsed(Written(0)) = 0
      BY BoundIsNat, ReadBack
    <2>2. Bounded
      BY <2>1, BoundIsNat DEF CounterInit, Bounded, Ahead
    <2>3. CounterType
      BY Zenon DEF CounterInit, CounterType
    <2>4. Setting /\ ClosedAfterError
      BY Zenon DEF CounterInit, Setting, ClosedAfterError
    <2>5. Counted
      BY <2>1 DEF CounterInit, Counted
    <2> QED BY Zenon, <2>2, <2>3, <2>4, <2>5 DEF CounterInv
  <1>2. CounterInv /\ [CounterNext]_counterVars => CounterInv'
    <2> SUFFICES ASSUME CounterInv, [CounterNext]_counterVars PROVE CounterInv'
      BY Zenon
    <2>1. ASSUME NEW w \in CounterWriters,
                 CountWrite(w) \/ DataDone(w) \/ DataFails(w) \/ Answer(w) \/ AnswerClosed(w)
          PROVE  CounterInv'
      BY Zenon, <2>1, CountWriteStep, AnswerStep, WriterStep
    <2>2. CASE Raise \/ CloseAcks
      BY Zenon, <2>2, GoroutineStep
    <2>3. CASE ServeCounter \/ Restart
      BY Zenon, <2>3, ServeStep, RestartStep
    <2>4. CASE SetCache \/ \E n \in 0..(MaxCount - 1) : SetRevisionCounter(n)
      BY Zenon, <2>4, SetStep
    <2>5. CASE UNCHANGED counterVars
      BY Zenon, <2>5 DEF counterVars, CounterInv, CounterType, Bounded, Ahead, Setting, ClosedAfterError, Counted
    <2> QED BY Zenon, <2>1, <2>2, <2>3, <2>4, <2>5 DEF CounterNext
  <1> QED BY <1>1, <1>2, PTL DEF CounterSpec

\* A crash at any point leaves a counter that is not behind the writes acknowledged,
\* and a replica at rest has counted exactly those, in memory and in the file
\* (initRevisionCounter, WriteAt, SetRevisionCounter).
THEOREM CounterCounts == ASSUME SlowEngine = TRUE PROVE CounterSpec => []WritesCounted
  <1>1. CounterInv => WritesCounted
    <2> SUFFICES ASSUME CounterInv PROVE WritesCounted
      BY Zenon
    <2>1. Parsed(file) \in Nat
      BY Zenon, StoredBounded DEF CounterInv
    <2>2. AckedWritesCounted
      BY <2>1 DEF CounterInv, CounterType, Counted, AckedWritesCounted
    <2>3. QuietCounterExact
      BY <2>1 DEF CounterInv, CounterType, Counted, QuietCounterExact, Quiet
    <2> QED BY Zenon, <2>2, <2>3 DEF WritesCounted
  <1> QED BY <1>1, CounterInvariance, PTL
=============================================================================
