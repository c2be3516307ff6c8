---------------------------- MODULE BlockDevice -----------------------------
(***************************************************************************)
(* What a Longhorn volume promises to the frontend: one disk.  The client  *)
(* sees neither replicas nor their failures.  A read returns what the disk *)
(* holds or what a write in flight is writing; a write that succeeds is on *)
(* the disk from then on; what a failed write or a discard leaves behind   *)
(* is unspecified.                                                         *)
(***************************************************************************)
CONSTANTS Sectors, Units, Values, Zero, Unspecified, Clients

VARIABLES disk,   \* the contents of each sector, as far as they are specified
          req     \* the request of each client

Sector == [Units -> Values]
View   == [Units -> Values \cup {Unspecified}]

Free(res) == [kind |-> "none", s |-> CHOOSE s \in Sectors : TRUE, shape |-> {},
              val |-> [u \in Units |-> Zero], served |-> FALSE, res |-> res]

Init ==
    /\ disk = [s \in Sectors |-> [u \in Units |-> Zero]]
    /\ req = [k \in Clients |-> Free("none")]

\* The frontend sends a request.  A discard gives up the sector's contents.
Issue(k) ==
    /\ req[k].kind = "none"
    /\ \E kind \in {"read", "write", "unmap"}, s \in Sectors,
          shape \in SUBSET Units, val \in Sector :
         /\ req' = [req EXCEPT ![k] = [Free("none") EXCEPT
                        !.kind = kind, !.s = s, !.shape = shape, !.val = val]]
         /\ disk' = IF kind = "unmap"
                    THEN [disk EXCEPT ![s] = [u \in Units |-> Unspecified]]
                    ELSE disk

\* A read picks its data: unit by unit, the disk's or a pending write's.
Serve(k) ==
    /\ req[k].kind = "read" /\ ~req[k].served
    /\ \E val \in Sector :
         /\ \A u \in Units :
              \/ disk[req[k].s][u] \in {val[u], Unspecified}
              \/ \E j \in Clients :
                    /\ req[j].kind = "write" /\ req[j].s = req[k].s
                    /\ u \in req[j].shape /\ req[j].val[u] = val[u]
         /\ req' = [req EXCEPT ![k].val = val, ![k].served = TRUE]
    /\ UNCHANGED disk

Written(o, res) ==
    [disk EXCEPT ![o.s] = [u \in Units |->
        IF u \notin o.shape THEN @[u]
        ELSE IF res = "ok" THEN o.val[u] ELSE Unspecified]]

\* A request returns.  Only a read that was served can succeed.
Return(k) ==
    /\ req[k].kind # "none"
    /\ \E res \in {"ok", "err"} :
         /\ req[k].kind = "read" /\ res = "ok" => req[k].served
         /\ req' = [req EXCEPT ![k] = Free(res)]
         /\ disk' = IF req[k].kind = "write" THEN Written(req[k], res) ELSE disk

\* A request that is turned away at once: no replica is available, or a
\* discard comes while a replica is being rebuilt.
TurnAway(k) ==
    /\ req[k].kind = "none"
    /\ \E res \in {"ok", "err"} : req' = [req EXCEPT ![k] = Free(res)]
    /\ UNCHANGED disk

Next ==
    /\ req' # req
    /\ \E k \in Clients : Issue(k) \/ Serve(k) \/ Return(k) \/ TurnAway(k)

Spec == Init /\ [][Next]_<<disk, req>>
=============================================================================
