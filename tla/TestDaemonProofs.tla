-------------------------- MODULE TestDaemonProofs --------------------------
(***************************************************************************)
(* Proofs about the measurements of the test daemon, in every test, for    *)
(* every number of append calls that raise and every delay of the          *)
(* acknowledgements.                                                       *)
(***************************************************************************)
EXTENDS TestExecutor, FiniteSetTheorems, TLAPS

Measurement == [append : Nat, ack : Nat]

(* What can still be read from CLUSTER_ACK.                                 *)
Pending == unacked \cup ({clusterAck} \ {0})

DaemonType ==
    /\ pc \in {"idle", "loop", "called", "waiting", "read"}
    /\ results \in Seq(Measurement)
    /\ appends \in Nat /\ failedCalls \in Nat /\ clusterAck \in Nat
    /\ unacked \subseteq 1..appends /\ clusterAck <= appends
    /\ clusterAck \notin unacked

(* An acknowledgement that was used cannot be read again: it is not pending,*)
(* except between the read and the reset of CLUSTER_ACK.                    *)
UsedInv ==
    \A i \in DOMAIN results :
        /\ results[i].ack \notin unacked /\ results[i].ack # 0 /\ results[i].ack <= appends
        /\ pc # "read" => results[i].ack # clusterAck

(* Without a failed call only the last append can be pending.               *)
OwnInv ==
    failedCalls = 0 => /\ pc \in {"idle", "loop"} => Pending = {}
                       /\ pc \in {"called", "waiting"} => Pending \subseteq {appends}
                       /\ pc = "read" => unacked = {}

(* Every failed call leaves at most one pending acknowledgement, and the    *)
(* append being measured one more.                                          *)
StaleInv ==
    /\ IsFiniteSet(unacked)
    /\ Cardinality(Pending) <= failedCalls + (IF pc \in {"idle", "loop"} THEN 0 ELSE 1)
    /\ pc = "read" => clusterAck # 0

DaemonInv == DaemonType /\ UsedInv /\ AckUsedOnce /\ OwnInv /\ OwnAck /\ StaleInv

DaemonNext ==
    \/ \E n : StartRun(n)
    \/ AppendEntry \/ AppendReturns \/ AppendRaises \/ ReadAck \/ ResetAck
    \/ \E k \in unacked : ClusterAppendComplete(k)
    \/ RunReturns
    \/ UNCHANGED daemonVars

-----------------------------------------------------------------------------
(* The executor starts a run and takes its result; everything else that     *)
(* happens to the daemon is a step of its own or of the cluster.            *)
LEMMA DaemonSteps ==
    ASSUME [Next]_vars
    PROVE  DaemonNext
<1>1. CASE NetemMaster
  BY <1>1 DEF NetemMaster, DaemonNext
<1>2. CASE ParseLine \/ Parsed \/ Done
  BY <1>2 DEF ParseLine, Parsed, Done, DaemonNext
<1>3. CASE CommandStep
  <2>1. CASE CallRun
    BY <2>1 DEF CallRun, DaemonNext
  <2>2. CASE EndRun
    BY <2>2 DEF EndRun, DaemonNext
  <2>3. CASE CheckLink \/ CheckRandomLink \/ CheckRun
    BY <2>3 DEF CheckLink, CheckRandomLink, CheckRun, DaemonNext
  <2>4. CASE StartLink \/ ModifyConnection \/ UnknownNode \/ ModifyRaises \/ EndLink \/ DropSpent
    BY <2>4 DEF StartLink, ModifyConnection, UnknownNode, ModifyRaises, EndLink, DropSpent, DaemonNext
  <2> QED BY <1>3, <2>1, <2>2, <2>3, <2>4 DEF CommandStep
<1>4. CASE DaemonStep \/ ClusterStep
  BY <1>4 DEF DaemonStep, ClusterStep, DaemonNext
<1>5. CASE UNCHANGED vars
  BY <1>5 DEF vars, DaemonNext
<1> QED BY <1>1, <1>2, <1>3, <1>4, <1>5 DEF Next, ExecutorStep

LEMMA PendingFinite ==
    ASSUME StaleInv
    PROVE  IsFiniteSet(Pending) /\ Cardinality(Pending) \in Nat
<1>1. IsFiniteSet({clusterAck}) /\ IsFiniteSet({clusterAck} \ {0})
  BY FS_Singleton, FS_Subset
<1>2. IsFiniteSet(Pending)
  BY <1>1, FS_Union DEF StaleInv, Pending
<1> QED BY <1>2, FS_CardinalityType

(* Steps that leave the pending acknowledgements and the results alone.     *)
LEMMA PendingSame ==
    ASSUME DaemonInv, UNCHANGED <<clusterAck, unacked>>
    PROVE  Pending' = Pending /\ Cardinality(Pending') = Cardinality(Pending) /\ Cardinality(Pending) \in Nat
BY PendingFinite DEF Pending, DaemonInv

LEMMA AppendEntryInv == ASSUME DaemonInv, AppendEntry PROVE DaemonInv'
<1> USE DEF DaemonInv
<1>1. DaemonType'
  <2>1. unacked \subseteq 1..(appends + 1) /\ unacked \cup {appends + 1} \subseteq 1..(appends + 1)
    BY DEF DaemonType
  <2>2. clusterAck \notin unacked \cup {appends + 1} /\ clusterAck <= appends + 1
    BY DEF DaemonType
  <2>3. /\ results' = results /\ clusterAck' = clusterAck /\ appends' = appends + 1
        /\ unacked' = unacked \/ unacked' = unacked \cup {appends + 1}
        /\ pc' \in {"loop", "called"} /\ failedCalls' \in {failedCalls, failedCalls + 1}
    BY DEF AppendEntry
  <2>4. unacked' \subseteq 1..appends' /\ clusterAck' \notin unacked'
    BY <2>1, <2>2, <2>3 DEF DaemonType
  <2>5. appends' \in Nat /\ failedCalls' \in Nat /\ clusterAck' \in Nat /\ clusterAck' <= appends'
    BY <2>3 DEF DaemonType
  <2> QED BY <2>3, <2>4, <2>5 DEF DaemonType
<1>2. UsedInv' /\ AckUsedOnce' /\ OwnAck'
  <2>1. ASSUME NEW i \in DOMAIN results
        PROVE  results[i].ack # appends + 1 /\ results[i].ack <= appends + 1 /\ results[i].ack \in Nat
    <3>1. results[i] \in Measurement
      BY <2>1 DEF DaemonType
    <3> QED BY <2>1, <3>1 DEF UsedInv, DaemonType, Measurement
  <2>2. UsedInv'
    BY <2>1 DEF AppendEntry, UsedInv, DaemonType
  <2> QED BY <2>2 DEF AppendEntry, AckUsedOnce, OwnAck, DaemonType
<1>3. CASE unacked' = unacked
  <2>1. Pending' = Pending /\ Cardinality(Pending') = Cardinality(Pending) /\ Cardinality(Pending) \in Nat
    BY <1>3, PendingSame DEF AppendEntry
  <2>2. pc = "loop" /\ pc' = "loop" /\ failedCalls' = failedCalls + 1
    BY <1>3 DEF AppendEntry, DaemonType
  <2>3. StaleInv' /\ OwnInv'
    BY <1>3, <2>1, <2>2 DEF StaleInv, OwnInv, DaemonType
  <2> QED BY <1>1, <1>2, <2>3
<1>4. CASE unacked' # unacked
  <2>1. /\ pc = "loop" /\ pc' = "called" /\ failedCalls' = failedCalls
        /\ clusterAck' = clusterAck /\ unacked' = unacked \cup {appends + 1} /\ appends' = appends + 1
    BY <1>4 DEF AppendEntry
  <2>2. Pending' = Pending \cup {appends + 1}
    BY <2>1 DEF Pending
  <2>3. /\ IsFiniteSet(unacked') /\ IsFiniteSet(Pending) /\ Cardinality(Pending) \in Nat
        /\ Cardinality(Pending') \in {Cardinality(Pending), Cardinality(Pending) + 1}
    BY <2>1, <2>2, PendingFinite, FS_AddElement DEF StaleInv
  <2>4. StaleInv'
    BY <2>1, <2>3 DEF StaleInv, DaemonType
  <2>5. OwnInv'
    BY <2>1, <2>2 DEF OwnInv
  <2> QED BY <1>1, <1>2, <2>4, <2>5
<1> QED BY <1>3, <1>4

(* Steps of run() that change none of results, CLUSTER_ACK and unacked.     *)
LEMMA QuietInv ==
    ASSUME DaemonInv, UNCHANGED <<appends, clusterAck, unacked>>,
           results' = results \/ results' = <<>>, failedCalls' \in {failedCalls, failedCalls + 1},
           \/ pc' = pc
           \/ pc \in {"idle", "loop"} /\ pc' \in {"idle", "loop"}
           \/ pc = "called" /\ pc' = "waiting"
           \/ pc = "called" /\ pc' = "loop" /\ failedCalls' = failedCalls + 1
    PROVE  DaemonInv'
<1> USE DEF DaemonInv
<1>1. DaemonType'
  <2>1. results' \in Seq(Measurement)
    <3>1. <<>> \in Seq(Measurement)
      OBVIOUS
    <3> QED BY <3>1 DEF DaemonType
  <2>2. pc' \in {"idle", "loop", "called", "waiting", "read"}
    <3>1. pc \in {"idle", "loop", "called", "waiting", "read"}
      BY DEF DaemonType
    <3> HIDE DEF DaemonInv
    <3> QED BY <3>1
  <2> QED BY <2>1, <2>2 DEF DaemonType
<1>2. UsedInv' /\ AckUsedOnce' /\ OwnAck'
  <2>1. CASE results' = <<>>
    BY <2>1 DEF UsedInv, AckUsedOnce, OwnAck
  <2>2. CASE results' = results
    BY <2>2 DEF UsedInv, AckUsedOnce, OwnAck, DaemonType
  <2> QED BY <2>1, <2>2
<1>3. Pending' = Pending /\ Cardinality(Pending') = Cardinality(Pending) /\ Cardinality(Pending) \in Nat
  BY PendingSame
<1>4. StaleInv'
  BY <1>3 DEF StaleInv, DaemonType
<1>5. OwnInv'
  <2>1. failedCalls' = 0 => failedCalls = 0 /\ failedCalls' = failedCalls
    BY DEF DaemonType
  <2> QED BY <1>3, <2>1 DEF OwnInv
<1> QED BY <1>1, <1>2, <1>4, <1>5

LEMMA QuietSteps ==
    ASSUME DaemonInv, (\E n : StartRun(n)) \/ AppendReturns \/ AppendRaises \/ RunReturns \/ UNCHANGED daemonVars
    PROVE  DaemonInv'
<1>1. ASSUME NEW n, StartRun(n) PROVE DaemonInv'
  BY <1>1, QuietInv DEF StartRun
<1>2. CASE AppendReturns
  BY <1>2, QuietInv DEF AppendReturns
<1>3. CASE AppendRaises
  BY <1>3, QuietInv DEF AppendRaises
<1>4. CASE RunReturns
  BY <1>4, QuietInv DEF RunReturns
<1>5. CASE UNCHANGED daemonVars
  BY <1>5, QuietInv DEF daemonVars
<1> QED BY <1>1, <1>2, <1>3, <1>4, <1>5

LEMMA ReadAckInv == ASSUME DaemonInv, ReadAck PROVE DaemonInv'
<1> USE DEF DaemonInv, ReadAck
<1> DEFINE r == [append |-> appends, ack |-> clusterAck]
<1>1. r \in Measurement /\ r.ack = clusterAck /\ r.append = appends
  BY DEF DaemonType, Measurement
<1>2. /\ results' \in Seq(Measurement) /\ Len(results') = Len(results) + 1
      /\ DOMAIN results' = 1..(Len(results) + 1) /\ DOMAIN results = 1..Len(results) /\ Len(results) \in Nat
      /\ results'[Len(results) + 1] = r
      /\ \A i \in DOMAIN results : results'[i] = results[i]
  BY <1>1 DEF DaemonType
<1> HIDE DEF r
<1>3. DaemonType'
  BY <1>2 DEF DaemonType
<1>4. \A i \in DOMAIN results' : i \in DOMAIN results \/ i = Len(results) + 1
  BY <1>2
<1>5. UsedInv' /\ AckUsedOnce'
  BY <1>1, <1>2, <1>4 DEF UsedInv, AckUsedOnce, DaemonType
<1>6. ASSUME failedCalls = 0 PROVE clusterAck = appends /\ unacked = {}
  BY <1>6 DEF OwnInv, Pending, DaemonType
<1>7. OwnInv' /\ OwnAck'
  BY <1>1, <1>2, <1>4, <1>6 DEF OwnInv, OwnAck
<1>8. Pending' = Pending /\ Cardinality(Pending') = Cardinality(Pending) /\ Cardinality(Pending) \in Nat
  BY PendingSame
<1>9. StaleInv'
  BY <1>8 DEF StaleInv, DaemonType
<1> QED BY <1>3, <1>5, <1>7, <1>9

LEMMA ResetAckInv == ASSUME DaemonInv, ResetAck PROVE DaemonInv'
<1> USE DEF DaemonInv, ResetAck
<1>1. DaemonType'
  BY DEF DaemonType
<1>2. UsedInv' /\ AckUsedOnce' /\ OwnAck'
  BY DEF UsedInv, AckUsedOnce, OwnAck
<1>3. Pending' = Pending \ {clusterAck} /\ clusterAck \in Pending
  BY DEF Pending, DaemonType, StaleInv
<1>4. Cardinality(Pending') = Cardinality(Pending) - 1 /\ Cardinality(Pending) \in Nat
  BY <1>3, PendingFinite, FS_RemoveElement
<1>5. StaleInv'
  BY <1>4 DEF StaleInv, DaemonType
<1>6. OwnInv'
  BY DEF OwnInv, Pending
<1> QED BY <1>1, <1>2, <1>5, <1>6

LEMMA AppendCompleteInv ==
    ASSUME DaemonInv, NEW k \in unacked, ClusterAppendComplete(k) PROVE DaemonInv'
<1> USE DEF DaemonInv, ClusterAppendComplete
<1>0. k \in Nat /\ k # 0 /\ k <= appends
  BY DEF DaemonType
<1>1. DaemonType'
  BY <1>0 DEF DaemonType
<1>2. UsedInv' /\ AckUsedOnce' /\ OwnAck'
  BY DEF UsedInv, AckUsedOnce, OwnAck
<1>3. Pending' = unacked /\ unacked \subseteq Pending
  BY <1>0 DEF Pending
<1>4. Cardinality(Pending') <= Cardinality(Pending) /\ Cardinality(Pending') \in Nat /\ Cardinality(Pending) \in Nat
  BY <1>3, PendingFinite, FS_Subset, FS_CardinalityType
<1>5. IsFiniteSet(unacked')
  BY FS_RemoveElement DEF StaleInv
<1>6. StaleInv'
  BY <1>0, <1>4, <1>5 DEF StaleInv, DaemonType
<1>7. OwnInv'
  BY <1>3 DEF OwnInv
<1> QED BY <1>1, <1>2, <1>6, <1>7

LEMMA DaemonInvariant == Spec => []DaemonInv
<1>1. Init => DaemonInv
  <2> SUFFICES ASSUME Init PROVE DaemonInv
    OBVIOUS
  <2>1. Pending = {}
    BY DEF Init, DaemonInit, Pending
  <2>2. IsFiniteSet(unacked) /\ Cardinality(Pending) = 0
    BY <2>1, FS_EmptySet DEF Init, DaemonInit
  <2> QED BY <2>1, <2>2 DEF Init, DaemonInit, DaemonInv, DaemonType, UsedInv, AckUsedOnce, OwnInv, OwnAck, StaleInv
<1>2. DaemonInv /\ [Next]_vars => DaemonInv'
  <2> SUFFICES ASSUME DaemonInv, [Next]_vars PROVE DaemonInv'
    OBVIOUS
  <2>1. DaemonNext
    BY DaemonSteps
  <2> QED BY <2>1, QuietSteps, AppendEntryInv, ReadAckInv, ResetAckInv, AppendCompleteInv DEF DaemonNext
<1> QED BY <1>1, <1>2, PTL DEF Spec

-----------------------------------------------------------------------------
(* An acknowledgement measures at most one append of a run of the daemon,   *)
(* however late the thread that serves it sets CLUSTER_ACK and however many *)
(* calls are repeated.                                                      *)
THEOREM AcksUsedOnce == Spec => []AckUsedOnce
<1>1. DaemonInv => AckUsedOnce
  BY DEF DaemonInv
<1> QED BY <1>1, DaemonInvariant, PTL

(* As long as no append call has raised, the acknowledgement read is that   *)
(* of the append just made.                                                 *)
THEOREM OwnAckRead == Spec => []OwnAck
<1>1. DaemonInv => OwnAck
  BY DEF DaemonInv
<1> QED BY <1>1, DaemonInvariant, PTL

(* The acknowledgements that can be mistaken for that of a later append are *)
(* never more than the append calls that raised.                            *)
THEOREM StaleAcksBounded == Spec => []StaleAcks
<1>1. DaemonInv => StaleAcks
  BY DEF DaemonInv, StaleInv, StaleAcks, Pending, DaemonType
<1> QED BY <1>1, DaemonInvariant, PTL
=============================================================================
