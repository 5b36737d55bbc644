----------------------------- MODULE MCSyncObj -----------------------------
(***************************************************************************)
(* The finite instances of SyncObj: three nodes, a majority of two.        *)
(***************************************************************************)
EXTENDS SyncObj

(* 1 is appended at node 1, 2 at node 3.                                     *)
Callers == <<1, 3>>

(* Both are appended at node 1, the only one that may lead.                 *)
AtLeader == <<1, 1>>
Node1Leads == <<{1}>>

(* The link between nodes 1 and 3.                                          *)
OneLink == {<<1, 3>>}

(* One candidate per term: node 1 first, then node 2.                       *)
InTurn == <<{1}, {2}>>

(* Nodes 1 and 2 both start an election for term 1; node 3 has the client.  *)
Rivals == <<{1, 2}>>
AtFollower == <<3, 3>>
RivalLink == {<<1, 2>>}
=============================================================================
