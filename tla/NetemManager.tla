---------------------------- MODULE NetemManager ----------------------------
(***************************************************************************)
(* network_manager.py: the XML-RPC server on each node that shapes its      *)
(* outgoing traffic with tc, and NetemMaster, the executor's side of it.    *)
(*                                                                         *)
(* tc[i] is the state of interface i: whether the root qdisc exists, and   *)
(* for each <<host, peer>> the netem rule of the class for that traffic,   *)
(* None when there is no such class.  In local mode all the nodes share one*)
(* interface.                                                              *)
(***************************************************************************)
EXTENDS Naturals, FiniteSets

CONSTANTS Host,      \* the node ids, 1..N
          Rule,      \* the netem rules of the test files
          BadRule,   \* a rule tc refuses
          NoDelay,   \* "delay 0ms"
          None

ASSUME HostAssumption == IsFiniteSet(Host) /\ Host # {} /\ Host = 1..Cardinality(Host)
ASSUME RuleAssumption == NoDelay \in Rule /\ BadRule \in Rule /\ NoDelay # BadRule /\ None \notin Rule

VARIABLE tc

Interface(mode, h) == IF mode = "local" THEN 1 ELSE h
Link == {l \in Host \X Host : l[1] # l[2]}

NoQdisc == [root |-> FALSE, class |-> [l \in Link |-> None]]

(* Deleting the root deletes all below it; it fails when there is none, and *)
(* nobody looks at the result.                                              *)
CleanAllQdisc(q) == NoQdisc

CreateRootQdisc(q) == [q EXCEPT !.root = TRUE]

(* create_peer_qdisc for every peer of h, until the first that fails: a     *)
(* class needs the root and must not be there yet.                          *)
InitQdiscOk(q, h) == q.root /\ \A l \in Link : l[1] = h => q.class[l] = None
InitQdisc(q, h) == [q EXCEPT !.class = [l \in Link |-> IF l[1] = h THEN NoDelay ELSE @[l]]]

(* modify_outgoing_connection: a rule is changed where there is one.  That  *)
(* `tc qdisc change' replaces the whole rule, parameters the new one does   *)
(* not name included (corrupt, reorder, rate), is an assumption about tc.   *)
ModifyOk(q, link, rule) == link \in Link /\ q.class[link] # None /\ rule # BadRule
ModifyOutgoingConnection(q, link, rule) == [q EXCEPT !.class[link] = rule]

(* What the program left behind earlier: nothing, or a network some of whose*)
(* rules a test that was aborted has changed.                               *)
TcInit ==
    \/ tc = [i \in Host |-> NoQdisc]
    \/ \E rule \in Rule \ {BadRule} :
          tc = [i \in Host |-> [root |-> TRUE,
                                class |-> [l \in Link |-> IF l[1] = i THEN rule ELSE None]]]
=============================================================================
