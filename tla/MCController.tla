---------------------------- MODULE MCController ----------------------------
(***************************************************************************)
(* Instances of Controller for TLC.  Two replicas start the volume and a   *)
(* third can join it.                                                      *)
(***************************************************************************)
EXTENDS Controller, TLC

CONSTANTS a, b, c, s1, k1, k2

MCReplicas  == {a, b, c}
MCInitRW    == {a, b}
Pair        == {a, c}
JustA       == {a}
JustC       == {c}
OneSector   == {s1}
OneUnit     == {1}
TwoUnits    == {1, 2}
WholeOnly   == {OneUnit}
HalfWrites  == {{1}, {2}}
FirstHalf   == {{1}}
MCValues    == {0, 1}
OneClient   == {k1}
TwoClients  == {k1, k2}
ReplicaSymmetry == Permutations(MCInitRW)
FullSymmetry == ReplicaSymmetry \cup Permutations(TwoClients)
Writes      == {"write"}
WritesReads == {"write", "read"}
AllKinds    == {"write", "read", "unmap"}
Nobody      == {}
OnlyVerify  == {"verify"}
OnlySnapshot == {"snapshot"}
=============================================================================
