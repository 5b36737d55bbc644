-------------------------- MODULE MCThreadedAppend --------------------------
(***************************************************************************)
(* Node 1 proposes v1 by datagram; node 3, which has no value of its own,  *)
(* steps in to finish the link while v2 is appended to it over XML-RPC.    *)
(* Node 2 hears nothing and nobody learns.                                 *)
(***************************************************************************)
EXTENDS ThreadedAppend, MCReplicatedValue

AppendNumbers == Numbers(1, 0, 3)
AppendLost == On(PaxosTypes, To({2})) \cup On({"nack", "accepted"}, To(Node))
AppendAt3 == {<<3, v2>>}
=============================================================================
