------------------------- MODULE MCReplicatedValue -------------------------
(***************************************************************************)
(* The finite instances of ReplicatedValue that TLC explores: a cluster of *)
(* three nodes, 1, 2 and 3, with a quorum of two.  Each instance gives the *)
(* proposal numbers every node may use, the clients, and the directions in *)
(* which a type of datagram is always lost; every other datagram may be    *)
(* lost, late, duplicated or reordered in every run.                       *)
(***************************************************************************)
EXTENDS ReplicatedValue, TLC

CONSTANTS v1, v2

PaxosTypes == {"prepare", "nack", "promise", "accept", "accepted"}
Between(a, b) == {<<a, b>>, <<b, a>>}
To(S) == Node \X S
On(types, pairs) == {<<t, p[1], p[2]>> : t \in types, p \in pairs}

Numbers(a, b, c) == (1 :> a) @@ (2 :> b) @@ (3 :> c)

ValueSymmetry == Permutations({v1, v2})

NoSync == {}

(* One client at node 1, one at node 2.                                     *)
TwoClients == {<<1, v1>>, <<2, v2>>}
OneClient == {<<1, v1>>}
(* Both values are proposed to node 1.                                      *)
BothValues == {<<1, v1>>, <<1, v2>>}

(* Duel: nodes 1 and 2 do not hear each other and compete for node 3, node  *)
(* 2 with two attempts.  Nobody learns, so the link stays open.             *)
DuelNumbers == Numbers(1, 2, 0)
DuelLost == On(PaxosTypes, Between(1, 2)) \cup On({"nack", "accepted"}, To(Node))

(* Contend: one attempt each; nodes 1 and 2 learn from all, node 3 does not.*)
ContendNumbers == Numbers(1, 1, 0)
ContendLost == On(PaxosTypes \ {"accepted"}, Between(1, 2)) \cup On({"accepted"}, To({3}))

(* Takeover: node 1 proposes, node 3 steps in with two attempts of its own  *)
(* and is the only one to learn.  Node 2 may catch up with it (ChainSync).  *)
TakeoverNumbers == Numbers(1, 0, 2)
TakeoverLost == On(PaxosTypes, Between(1, 2)) \cup On({"accepted"}, To({1, 2}))

(* Chain: node 2 hears no Paxos message and catches up with node 3.         *)
ChainNumbers == Numbers(1, 0, 0)
ChainLost == On(PaxosTypes, To({2}))
ChainSync == {<<2, 3>>}

(* Forget: the messages needed for node 3 to vote for node 1, restart, and  *)
(* vote for node 2 at a lower id.                                           *)
ForgetNumbers == Numbers(2, 1, 0)
ForgetLost == On({"nack", "accepted"}, To(Node)) \cup On({"prepare", "accept"}, {<<1, 2>>})
              \cup {<<"prepare", 2, 3>>, <<"accept", 2, 1>>}
=============================================================================
