----------------------------- MODULE TestDaemon -----------------------------
(***************************************************************************)
(* test_daemon.py: run(times) appends one value after the other to the     *)
(* cluster and measures each.  The append is an XML-RPC call to a node; the*)
(* acknowledgement is an XML-RPC call back, served by another thread, which*)
(* leaves its time in the global CLUSTER_ACK.  run() spins on that global. *)
(*                                                                         *)
(* Appends are numbered; an acknowledgement is the number of its append.   *)
(* The cluster is external: it acknowledges each append it got, once.      *)
(***************************************************************************)
EXTENDS Naturals, Sequences, FiniteSets

CONSTANT MaxFailedCalls   \* bound: append calls that raise

ASSUME FailedCallsAssumption == MaxFailedCalls \in Nat

VARIABLES pc,          \* where run() is
          times,       \* its argument
          results,     \* its list: which append was measured with which acknowledgement
          appends,     \* append calls made so far
          clusterAck,  \* CLUSTER_ACK; 0 is None
          unacked,     \* appends the cluster has taken and not acknowledged
          failedCalls  \* append calls that raised

daemonVars == <<pc, times, results, appends, clusterAck, unacked, failedCalls>>

DaemonInit ==
    /\ pc = "idle" /\ times = 0 /\ results = <<>>
    /\ appends = 0 /\ clusterAck = 0 /\ unacked = {} /\ failedCalls = 0

(* The call of run arrives.                                                 *)
StartRun(n) ==
    /\ pc = "idle"
    /\ pc' = "loop" /\ times' = n /\ results' = <<>>
    /\ UNCHANGED <<appends, clusterAck, unacked, failedCalls>>

(* cluster_rpc_client.append_entry: the call goes out and the node takes it,*)
(* or it never gets there.                                                  *)
AppendEntry ==
    /\ pc = "loop" /\ Len(results) < times
    /\ appends' = appends + 1
    /\ \/ pc' = "called" /\ unacked' = unacked \cup {appends + 1} /\ UNCHANGED failedCalls
       \/ /\ failedCalls < MaxFailedCalls
          /\ failedCalls' = failedCalls + 1
          /\ UNCHANGED <<pc, unacked>>
    /\ UNCHANGED <<times, results, clusterAck>>

(* The call returns the node's start time ...                               *)
AppendReturns ==
    /\ pc = "called" /\ pc' = "waiting"
    /\ UNCHANGED <<times, results, appends, clusterAck, unacked, failedCalls>>

(* ... or raises although the node has taken the value: run() logs the      *)
(* exception and appends again.                                             *)
AppendRaises ==
    /\ pc = "called" /\ failedCalls < MaxFailedCalls
    /\ failedCalls' = failedCalls + 1 /\ pc' = "loop"
    /\ UNCHANGED <<times, results, appends, clusterAck, unacked>>

(* Mutation: the time is taken without waiting for the acknowledgement.     *)
ReadAckNoWait ==
    /\ pc = "waiting"
    /\ results' = Append(results, [append |-> appends, ack |-> clusterAck])
    /\ pc' = "read"
    /\ UNCHANGED <<times, appends, clusterAck, unacked, failedCalls>>

(* while CLUSTER_ACK is None: pass; time = CLUSTER_ACK - res                *)
ReadAck ==
    /\ pc = "waiting" /\ clusterAck # 0
    /\ results' = Append(results, [append |-> appends, ack |-> clusterAck])
    /\ pc' = "read"
    /\ UNCHANGED <<times, appends, clusterAck, unacked, failedCalls>>

(* Mutation: CLUSTER_ACK keeps its value.                                   *)
ResetAckForgotten ==
    /\ pc = "read" /\ pc' = "loop"
    /\ UNCHANGED <<times, results, appends, clusterAck, unacked, failedCalls>>

(* CLUSTER_ACK = None; what arrived since it was read is overwritten.       *)
ResetAck ==
    /\ pc = "read" /\ clusterAck' = 0 /\ pc' = "loop"
    /\ UNCHANGED <<times, results, appends, unacked, failedCalls>>

(* Mutation: an acknowledgement is dropped while no append waits for it.    *)
AppendCompleteWhenWaiting(k) ==
    /\ k \in unacked
    /\ unacked' = unacked \ {k}
    /\ clusterAck' = IF pc = "waiting" THEN k ELSE clusterAck
    /\ UNCHANGED <<pc, times, results, appends, failedCalls>>

(* cluster_append_complete, in a thread of its own.                         *)
ClusterAppendComplete(k) ==
    /\ k \in unacked
    /\ unacked' = unacked \ {k} /\ clusterAck' = k
    /\ UNCHANGED <<pc, times, results, appends, failedCalls>>

(* run() returns its list.                                                  *)
RunReturns ==
    /\ pc = "loop" /\ Len(results) = times
    /\ pc' = "idle"
    /\ UNCHANGED <<times, results, appends, clusterAck, unacked, failedCalls>>

DaemonStep == AppendEntry \/ AppendReturns \/ AppendRaises \/ ReadAck \/ ResetAck
ClusterStep == \E k \in unacked : ClusterAppendComplete(k)

(* An acknowledgement measures at most one append of a run, although a late *)
(* one may arrive at any time between the read and the reset of CLUSTER_ACK.*)
AckUsedOnce ==
    \A i, j \in DOMAIN results : results[i].ack = results[j].ack => i = j

(* Every append is measured with its own acknowledgement as long as no call *)
(* has raised; afterwards a late one of a retried append may be taken.      *)
OwnAck ==
    failedCalls = 0 => \A i \in DOMAIN results : results[i].ack = results[i].append

(* No more acknowledgements are left over between two appends than append   *)
(* calls have raised: those are the ones that can be mistaken for another.  *)
StaleAcks ==
    pc \in {"idle", "loop"} => Cardinality(unacked \cup ({clusterAck} \ {0})) <= failedCalls
=============================================================================
