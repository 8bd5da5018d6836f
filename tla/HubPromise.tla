------------------------------ MODULE HubPromise ------------------------------
(***************************************************************************)
(* What the peer service promises: a table of peers, and a WireGuard       *)
(* interface that serves exactly its enabled peers.  Each change of the    *)
(* table and of the interface is one step; no address or key is given to   *)
(* two peers.                                                              *)
(***************************************************************************)
CONSTANTS Ids, Addresses, Keys, None

VARIABLES
    table,   \* id -> peer or None
    served   \* the peers the interface serves

Peer == [addr : Addresses, key : Keys, on : BOOLEAN]

Enabled(t) ==
    {<<t[i].addr, t[i].key>> : i \in {j \in Ids : t[j] # None /\ t[j].on}}

Collides(t, i, p) ==
    \E j \in Ids \ {i} : t[j] # None /\ (t[j].addr = p.addr \/ t[j].key = p.key)

Init ==
    /\ table = [i \in Ids |-> None]
    /\ served = {}

\* A peer is registered, or replaced by an edit of the same row.
Put(i, p) ==
    /\ ~Collides(table, i, p)
    /\ table' = [table EXCEPT ![i] = p]
    /\ served' = Enabled(table')

Remove(i) ==
    /\ table' = [table EXCEPT ![i] = None]
    /\ served' = Enabled(table')

Next == \E i \in Ids : Remove(i) \/ \E p \in Peer : Put(i, p)

Spec == Init /\ [][Next]_<<table, served>>
=============================================================================
