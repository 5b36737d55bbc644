--------------------------- MODULE ReplicatedChain ---------------------------
(***************************************************************************)
(* What the Paxos cluster promises its clients: one chain of values, of    *)
(* which every node holds the last value of some prefix.  The chain only   *)
(* grows, one link at a time, and a node only moves forward along it, to   *)
(* the next link when it learns a resolution and over several when it      *)
(* catches up with a peer.                                                 *)
(***************************************************************************)
EXTENDS Integers, Sequences

CONSTANTS Node, Value, NoValue

VARIABLES
    chain,            \* the values reported so far, in order
    instance_number,  \* how many links each node knows to be resolved
    current_value     \* the value each node holds

vars == <<chain, instance_number, current_value>>

Init ==
    /\ chain = << >>
    /\ instance_number = [n \in Node |-> 0]
    /\ current_value = [n \in Node |-> NoValue]

(* The first node to learn the value of the next link extends the chain.    *)
Extend(n, v) ==
    /\ instance_number[n] = Len(chain)
    /\ instance_number' = [instance_number EXCEPT ![n] = @ + 1]
    /\ current_value' = [current_value EXCEPT ![n] = v]
    /\ chain' = Append(chain, v)

(* A node behind moves forward to link i of the chain.                      *)
Update(n, i) ==
    /\ i > instance_number[n]
    /\ instance_number' = [instance_number EXCEPT ![n] = i]
    /\ current_value' = [current_value EXCEPT ![n] = chain[i]]
    /\ UNCHANGED chain

Next ==
    \/ \E n \in Node, v \in Value : Extend(n, v)
    \/ \E n \in Node : \E i \in 1 .. Len(chain) : Update(n, i)

Spec == Init /\ [][Next]_vars
=============================================================================
