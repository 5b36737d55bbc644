--------------------- MODULE FaultyReplicatedValueProofs ---------------------
(***************************************************************************)
(* What remains of the guarantees of the Paxos cluster when nodes crash    *)
(* and restart and update callbacks raise, for every number of nodes and   *)
(* of faults.  An acceptor that forgets a promise and a retransmit task    *)
(* that outlives its link break the invariant IInv of the proofs without   *)
(* faults; what is left of it is that votes are backed by proposals, that  *)
(* a learner counts votes which were cast, and that reports are chosen.    *)
(***************************************************************************)
EXTENDS FaultyReplicatedValue, ReplicatedValueProofs

(* A vote was asked for, and a catch-up repeats a report.                   *)
Backed(m) ==
    /\ m.type = "accepted" =>
          \E a \in msgs : /\ a.type = "accept" /\ a.inst = m.inst
                          /\ a.id = m.id /\ a.val = m.val
    /\ m.type = "catchup" => <<m.inst, m.val>> \in updates

ReportInv ==
    /\ TypeOK
    /\ \A m \in msgs : Backed(m)
    /\ \A n \in Node : LearnerInv(n)
    /\ UpdatesInv

-----------------------------------------------------------------------------
(* Type correctness of the faults.                                          *)
LEMMA CrashType ==
    ASSUME TypeOK, NEW n \in Node, CrashRestart(n)
    PROVE  TypeOK'
<1>1. [promised_id |-> state[n].promised_id, accepted_id |-> state[n].accepted_id,
       accepted_value |-> state[n].accepted_value] \in Acceptor
  BY DEF TypeOK, State, Acceptor
<1>2. acceptor' \in [Node -> Acceptor] /\ proposer' \in [Node -> Proposer]
  BY <1>1, NewRoleTypes DEF CrashRestart, TypeOK
<1>3. DOMAIN learner' = Node /\ \A k \in Node : LearnerTypeOK(learner'[k])
  BY NewRoleTypes DEF CrashRestart, TypeOK, LearnerTypeOK
<1>4. retransmit' \in [Node -> Task] /\ delayed' \in [Node -> BOOLEAN]
  BY DEF CrashRestart, StopDriving, TypeOK, Task
<1> QED BY <1>2, <1>3, <1>4 DEF CrashRestart, TypeOK, LearnerTypeOK, inst

LEMMA AdvanceAndFailType ==
    ASSUME TypeOK, NEW n \in Node, NEW i \in Nat, NEW v \in Value, AdvanceAndFail(n, i, v)
    PROVE  TypeOK'
<1>1. BaseAdvance(n, i, v)
  BY DEF AdvanceAndFail
<1> QED BY <1>1, BaseAdvanceType DEF AdvanceAndFail, TypeOK, LearnerTypeOK

-----------------------------------------------------------------------------
(* A step that moves no node in the chain and leaves the learners alone.    *)
LEMMA SendStep ==
    ASSUME ReportInv, TypeOK', msgs \subseteq msgs', updates' = updates, learner' = learner,
           \A k \in Node : /\ state'[k].instance_number = state[k].instance_number
                           /\ state'[k].current_value = state[k].current_value,
           \A m \in msgs' \ msgs : Backed(m)
    PROVE  ReportInv'
<1>1. \A m \in msgs' : Backed(m)'
  BY DEF ReportInv, Backed
<1>2. \A k \in Node : LearnerInv(k)'
  BY FrameLearner DEF ReportInv
<1>3. UpdatesInv'
  BY FrameUpdates DEF ReportInv
<1> QED BY <1>1, <1>2, <1>3 DEF ReportInv

(* A step that resolves a link or catches up, whether or not the callback   *)
(* then raises.                                                             *)
LEMMA AdvanceStep ==
    ASSUME ReportInv, TypeOK', NEW n \in Node, NEW i \in Nat, i > 0, NEW v \in Value,
           BaseAdvance(n, i, v), msgs' = msgs, NEW id \in Pid, Chosen(i - 1, id, v)
    PROVE  ReportInv'
<1>1. \A m \in msgs' : Backed(m)'
  BY DEF ReportInv, Backed, BaseAdvance
<1>2. ASSUME NEW k \in Node PROVE LearnerInv(k)'
  <2>1. CASE k = n
    <3>1. learner'[n] = NewLearner
      BY DEF BaseAdvance, ReportInv, TypeOK
    <3>2. DOMAIN NewLearner.proposals = {}
      BY DEF NewLearner
    <3> QED BY <2>1, <3>1, <3>2 DEF LearnerInv
  <2>2. CASE k # n
    BY <2>2, FrameLearner DEF ReportInv, TypeOK, BaseAdvance
  <2> QED BY <2>1, <2>2
<1>3. \A e \in updates' : e[1] > 0 /\ \E c \in Pid : Chosen(e[1] - 1, c, e[2])'
  <2>1. \A j, c, w : Chosen(j, c, w) => Chosen(j, c, w)'
    BY DEF Chosen
  <2> QED BY <2>1 DEF ReportInv, UpdatesInv, BaseAdvance
<1>4. \A k \in Node : state'[k].instance_number > 0 =>
         <<state'[k].instance_number, state'[k].current_value>> \in updates'
  BY DEF ReportInv, UpdatesInv, BaseAdvance, TypeOK, SavedState
<1> QED BY <1>1, <1>2, <1>3, <1>4 DEF ReportInv, UpdatesInv

(* An accepted that resolves the link, and a catch-up, carry chosen values. *)
LEMMA ResolutionStep ==
    ASSUME ReportInv, TypeOK', NEW n \in Node, NEW m \in msgs, m.type = "accepted", IsCurrent(n, m),
           Resolves(learner[n], m.from, m.id, m.val),
           BaseAdvance(n, inst(n) + 1, m.val), msgs' = msgs
    PROVE  ReportInv'
<1>1. m.id \in Pid /\ m.val \in Value /\ m.inst \in Nat
  BY MessageFields DEF ReportInv, TypeOK
<1>2. Chosen(m.inst, m.id, m.val)
  BY ResolvesChosen DEF ReportInv, IsCurrent, inst
<1>3. inst(n) + 1 \in Nat /\ inst(n) + 1 > 0 /\ (inst(n) + 1) - 1 = m.inst
  BY <1>1 DEF IsCurrent
<1>4. Chosen((inst(n) + 1) - 1, m.id, m.val)
  BY <1>2, <1>3
<1> QED BY <1>1, <1>3, <1>4, AdvanceStep

LEMMA CatchupStep ==
    ASSUME ReportInv, TypeOK', NEW n \in Node, NEW m \in msgs, m.type = "catchup",
           BaseAdvance(n, m.inst, m.val), msgs' = msgs
    PROVE  ReportInv'
<1>1. m.inst \in Nat /\ m.val \in Value
  BY MessageFields DEF ReportInv, TypeOK
<1>2. <<m.inst, m.val>> \in updates
  BY DEF ReportInv, Backed
<1>3. m.inst > 0 /\ \E id \in Pid : Chosen(m.inst - 1, id, m.val)
  BY <1>2 DEF ReportInv, UpdatesInv
<1> QED BY <1>1, <1>3, AdvanceStep

(* The accepted of another vote is counted.                                 *)
LEMMA CountStep ==
    ASSUME ReportInv, TypeOK', NEW n \in Node, NEW m \in msgs, m.type = "accepted", IsCurrent(n, m),
           learner' = [learner EXCEPT ![n] = LearnerAccepted(@, m.from, m.id, m.val)],
           UNCHANGED <<state, msgs, updates>>
    PROVE  ReportInv'
<1>1. \A k \in msgs' : Backed(k)'
  BY DEF ReportInv, Backed
<1>2. UpdatesInv'
  BY FrameUpdates DEF ReportInv
<1>3. ASSUME NEW k \in Node PROVE LearnerInv(k)'
  <2>1. CASE k # n
    BY <2>1, FrameLearner DEF ReportInv, TypeOK
  <2>2. CASE k = n
    <3>1. learner'[n] = LearnerAccepted(learner[n], m.from, m.id, m.val)
      BY DEF ReportInv, TypeOK
    <3>2. m.inst = state[n].instance_number
      BY DEF IsCurrent, inst
    <3>3. ASSUME NEW id \in DOMAIN learner'[n].proposals
          PROVE  \E S \in SUBSET Node :
                    /\ Cardinality(S) = learner'[n].proposals[id].accept_count
                    /\ \A u \in S : /\ Voted(u, m.inst, id, learner'[n].proposals[id].value)
                                    /\ Le(id, learner'[n].acceptors[u])
      BY <3>1, <3>2, <3>3, LearnerCounts DEF ReportInv
    <3> QED BY <2>2, <3>2, <3>3 DEF LearnerInv, Voted
  <2> QED BY <2>1, <2>2
<1> QED BY <1>1, <1>2, <1>3 DEF ReportInv

(* A step that sends nothing but messages of the other types.               *)
LEMMA DriveStep ==
    ASSUME ReportInv, TypeOK', NEW n \in Node, NEW t \in Task, t # NoTask, Send(TaskMsg(n, t)),
           UNCHANGED <<state, learner, updates>>
    PROVE  ReportInv'
<1>1. TaskMsg(n, t).type \notin {"accepted", "catchup"}
  BY DEF TaskMsg, PrepareMsg, AcceptMsg
<1>2. \A m \in msgs' \ msgs : Backed(m)
  BY <1>1 DEF Send, Backed
<1>3. msgs \subseteq msgs'
  BY DEF Send
<1> QED BY <1>2, <1>3, SendStep

(* Every step of a node without faults keeps the reports backed.            *)
LEMMA ReportNext ==
    ASSUME ReportInv, [Next]_vars
    PROVE  ReportInv'
<1> USE DEF ReportInv
<1>0. TypeOK'
  BY TypeStep
<1> DEFINE Rests == /\ msgs \subseteq msgs' /\ updates' = updates /\ learner' = learner
                    /\ \A k \in Node : /\ state'[k].instance_number = state[k].instance_number
                                       /\ state'[k].current_value = state[k].current_value
<1>1. ASSUME NEW n \in Node, NEW p \in Proposer, DriveToResolution(n, p), UNCHANGED <<state, learner, updates>>
      PROVE  ReportInv'
  <2> DEFINE t == PrepareTask(Prepare(p, n).proposal_id)
  <2>1. t \in Task /\ t # NoTask
    BY PrepareType, ValueAssumption DEF Task, PrepareTask, NoTask
  <2>2. Send(TaskMsg(n, t))
    BY <1>1 DEF DriveToResolution, StartTask
  <2> HIDE DEF t
  <2> QED BY <1>0, <1>1, <2>1, <2>2, DriveStep
<1>2. ASSUME NEW n \in Node, NEW v \in Value, ProposeUpdate(n, v) PROVE ReportInv'
  BY <1>1, <1>2, ProposeValueType DEF ProposeUpdate, TypeOK
<1>3. ASSUME NEW n \in Node, DelayedDrive(n) PROVE ReportInv'
  BY <1>1, <1>3 DEF DelayedDrive, TypeOK
<1>4. ASSUME NEW n \in Node, Retransmit(n) PROVE ReportInv'
  BY <1>0, <1>4, DriveStep DEF Retransmit, TypeOK
<1>5. ASSUME NEW n \in Node, NEW peer \in Node, SendSyncRequest(n, peer) PROVE ReportInv'
  <2>1. Rests /\ \A m \in msgs' \ msgs : m.type = "sync_request"
    BY <1>5 DEF SendSyncRequest, Send, SyncMsg
  <2> QED BY <1>0, <2>1, SendStep DEF Backed
<1>6. ASSUME NEW n \in Node, NEW m \in msgs, ReceivePrepare(n, m) PROVE ReportInv'
  <2>1. Rests
    BY <1>6 DEF ReceivePrepare, Send, TypeOK, SavedState, inst
  <2>2. \A k \in msgs' \ msgs : k.type \in {"promise", "nack"}
    BY <1>6 DEF ReceivePrepare, Send, PromiseMsg, NackMsg
  <2> QED BY <1>0, <2>1, <2>2, SendStep DEF Backed
<1>7. ASSUME NEW n \in Node, NEW m \in msgs, ReceiveNack(n, m) PROVE ReportInv'
  BY <1>0, <1>7, SendStep DEF ReceiveNack
<1>8. ASSUME NEW n \in Node, NEW m \in msgs, ReceivePromise(n, m) PROVE ReportInv'
  <2>1. Rests
    BY <1>8 DEF ReceivePromise, StartTask, Send
  <2>2. \A k \in msgs' \ msgs : k.type \in {"prepare", "accept"}
    BY <1>8 DEF ReceivePromise, StartTask, Send, TaskMsg, PrepareMsg, AcceptMsg
  <2> QED BY <1>0, <2>1, <2>2, SendStep DEF Backed
<1>9. ASSUME NEW n \in Node, NEW m \in msgs, ReceiveAccept(n, m) PROVE ReportInv'
  <2>1. Rests
    BY <1>9 DEF ReceiveAccept, Send, TypeOK, SavedState, inst
  <2>2. \A k \in msgs' \ msgs : k.type # "catchup" /\
           (k.type = "accepted" => k.inst = m.inst /\ k.id = m.id /\ k.val = m.val)
    BY <1>9 DEF ReceiveAccept, Send, AcceptedMsg, NackMsg
  <2>3. m.type = "accept"
    BY <1>9 DEF ReceiveAccept
  <2> QED BY <1>0, <2>1, <2>2, <2>3, SendStep DEF Backed
<1>10. ASSUME NEW n \in Node, NEW m \in msgs, ReceiveAccepted(n, m) PROVE ReportInv'
  <2>1. CASE Resolves(learner[n], m.from, m.id, m.val)
    BY <1>0, <1>10, <2>1, ResolutionStep DEF ReceiveAccepted, AdvanceInstance
  <2>2. CASE ~Resolves(learner[n], m.from, m.id, m.val)
    BY <1>0, <1>10, <2>2, CountStep DEF ReceiveAccepted
  <2> QED BY <2>1, <2>2
<1>11. ASSUME NEW n \in Node, NEW m \in msgs, ReceiveSyncRequest(n, m) PROVE ReportInv'
  <2>1. Rests
    BY <1>11 DEF ReceiveSyncRequest, Send
  <2>2. inst(n) > 0
    <3>1. m.inst \in Nat /\ inst(n) \in Nat /\ m.inst < inst(n)
      BY <1>11, MessageFields, NodeTypes DEF ReceiveSyncRequest, TypeOK, inst
    <3> QED BY <3>1
  <2>3. \A k \in msgs' \ msgs : k.type = "catchup" /\ k.inst = inst(n) /\ k.val = state[n].current_value
    BY <1>11 DEF ReceiveSyncRequest, Send, CatchupMsg
  <2>4. <<inst(n), state[n].current_value>> \in updates
    BY <2>2 DEF UpdatesInv, inst
  <2> QED BY <1>0, <2>1, <2>3, <2>4, SendStep DEF Backed
<1>12. ASSUME NEW n \in Node, NEW m \in msgs, ReceiveCatchup(n, m) PROVE ReportInv'
  BY <1>0, <1>12, CatchupStep DEF ReceiveCatchup, AdvanceInstance
<1>13. CASE UNCHANGED vars
  BY <1>0, <1>13, SendStep DEF vars
<1> HIDE DEF ReportInv
<1> QED BY <1>2, <1>3, <1>4, <1>5, <1>6, <1>7, <1>8, <1>9, <1>10, <1>11, <1>12, <1>13 DEF Next, Receive

(* So does a crash, which empties a learner, and a callback that raises,    *)
(* which leaves the rest of the node in the new link.                       *)
LEMMA ReportStep ==
    ASSUME ReportInv, [FaultNext]_allVars
    PROVE  ReportInv'
<1>1. ASSUME NEW n \in Node, CrashRestart(n) PROVE ReportInv'
  <2>1. TypeOK'
    BY <1>1, CrashType DEF ReportInv
  <2>2. \A m \in msgs' : Backed(m)'
    BY <1>1 DEF CrashRestart, ReportInv, Backed
  <2>3. UpdatesInv'
    BY <1>1, FrameUpdates DEF CrashRestart, ReportInv
  <2>4. ASSUME NEW k \in Node PROVE LearnerInv(k)'
    <3>1. CASE k # n
      BY <1>1, <3>1, FrameLearner DEF CrashRestart, ReportInv, TypeOK
    <3>2. CASE k = n
      <4>1. learner'[n] = NewLearner
        BY <1>1 DEF CrashRestart, ReportInv, TypeOK
      <4> QED BY <3>2, <4>1 DEF LearnerInv, NewLearner
    <3> QED BY <3>1, <3>2
  <2> QED BY <2>1, <2>2, <2>3, <2>4 DEF ReportInv
<1>2. ASSUME NEW n \in Node, NEW m \in msgs, AcceptedFails(n, m) PROVE ReportInv'
  <2>1. m.val \in Value /\ inst(n) + 1 \in Nat
    BY <1>2, MessageFields, NodeTypes DEF AcceptedFails, ReportInv, TypeOK, inst
  <2>2. TypeOK'
    BY <1>2, <2>1, AdvanceAndFailType DEF AcceptedFails, ReportInv
  <2> QED BY <1>2, <2>2, ResolutionStep DEF AcceptedFails, AdvanceAndFail
<1>3. ASSUME NEW n \in Node, NEW m \in msgs, CatchupFails(n, m) PROVE ReportInv'
  <2>1. m.val \in Value /\ m.inst \in Nat
    BY <1>3, MessageFields DEF CatchupFails, ReportInv, TypeOK
  <2>2. TypeOK'
    BY <1>3, <2>1, AdvanceAndFailType DEF CatchupFails, ReportInv
  <2> QED BY <1>3, <2>2, CatchupStep DEF CatchupFails, AdvanceAndFail
<1>4. CASE [Next]_vars
  BY <1>4, ReportNext
<1> QED BY <1>1, <1>2, <1>3, <1>4 DEF FaultNext, allVars

LEMMA ReportInit == Init => ReportInv
<1> SUFFICES ASSUME Init PROVE ReportInv
  OBVIOUS
<1>1. \A n \in Node : state[n].instance_number = 0 /\ learner[n] = NewLearner
  BY DEF Init, SavedState
<1>2. \A n \in Node : LearnerInv(n)
  BY <1>1 DEF LearnerInv, NewLearner
<1> QED BY <1>1, <1>2, TypeInit DEF Init, ReportInv, UpdatesInv

LEMMA ReportInvariant == FaultSpec => []ReportInv
<1>1. FaultInit => ReportInv
  BY ReportInit DEF FaultInit
<1>2. ReportInv /\ [FaultNext]_allVars => ReportInv'
  BY ReportStep
<1> QED BY <1>1, <1>2, PTL DEF FaultSpec

(* The state a node restarts with, and the state in which a callback that   *)
(* raises leaves it, keep the types of every attribute.                     *)
THEOREM FaultyTypeCorrect == FaultSpec => []TypeOK
<1>1. ReportInv => TypeOK
  BY DEF ReportInv
<1> QED BY <1>1, ReportInvariant, PTL

(* Whatever crashes and callbacks that raise do to the acceptors, a node    *)
(* reports only what a majority accepted: the votes its learner counts are  *)
(* of different peers and of the current link, after a restart as well, and *)
(* a catch-up repeats what was reported.                                    *)
THEOREM FaultyReportsChosen == FaultSpec => []UpdatesChosen
<1>1. ASSUME ReportInv PROVE UpdatesChosen
  <2> SUFFICES ASSUME NEW e \in updates
               PROVE  \E m \in Accepts : /\ m.inst = e[1] - 1 /\ m.val = e[2]
                                         /\ Chosen(m.inst, m.id, m.val)
    BY DEF UpdatesChosen
  <2>1. PICK c \in Pid : Chosen(e[1] - 1, c, e[2])
    BY <1>1 DEF ReportInv, UpdatesInv
  <2> DEFINE S == {a \in Node : AcceptedMsg(a, e[1] - 1, c, e[2]) \in msgs}
  <2>2. S \in SUBSET Node /\ IsMajority(S)
    BY <2>1 DEF Chosen
  <2>3. PICK a \in Node : AcceptedMsg(a, e[1] - 1, c, e[2]) \in msgs
    <3> HIDE DEF S
    <3>1. S # {}
      BY <2>2, MajoritiesMeet
    <3> QED BY <3>1 DEF S
  <2>4. PICK m \in msgs : m.type = "accept" /\ m.inst = e[1] - 1 /\ m.id = c /\ m.val = e[2]
    <3> DEFINE k == AcceptedMsg(a, e[1] - 1, c, e[2])
    <3>1. k \in msgs /\ k.type = "accepted" /\ k.inst = e[1] - 1 /\ k.id = c /\ k.val = e[2]
      BY <2>3, AcceptedMsgFields
    <3> HIDE DEF k
    <3>2. Backed(k)
      BY <1>1, <3>1 DEF ReportInv
    <3>3. \E m \in msgs : m.type = "accept" /\ m.inst = k.inst /\ m.id = k.id /\ m.val = k.val
      BY <3>1, <3>2 DEF Backed
    <3> QED BY <3>1, <3>3
  <2> QED BY <2>1, <2>4 DEF Accepts
<1>2. ReportInv => UpdatesChosen
  BY <1>1
<1> QED BY <1>2, ReportInvariant, PTL

(* Nor does a crash or a callback that raises move a node back: the link it *)
(* restarts in is the one it had reached.                                   *)
THEOREM FaultyMonotonic == FaultSpec => InstanceMonotonic
<1> DEFINE Forward == \A n \in Node : state'[n].instance_number >= state[n].instance_number
<1>1. ASSUME TypeOK, [FaultNext]_allVars PROVE Forward
  <2>0. \A n \in Node : state[n].instance_number \in Nat
    BY <1>1, NodeTypes
  <2>1. ASSUME NEW n \in Node, NEW i, NEW v, BaseAdvance(n, i, v), i >= state[n].instance_number
        PROVE  Forward
    <3>1. SavedState(i, v, NoId, NoId, NoValue).instance_number = i
      BY DEF SavedState
    <3> QED BY <1>1, <2>0, <2>1, <3>1 DEF BaseAdvance, TypeOK
  <2>2. ASSUME NEW n \in Node, CrashRestart(n) PROVE Forward
    BY <2>0, <2>2 DEF CrashRestart
  <2>3. ASSUME NEW n \in Node, NEW m \in msgs, AcceptedFails(n, m) PROVE Forward
    <3>1. inst(n) + 1 >= state[n].instance_number
      BY <2>0 DEF inst
    <3> QED BY <2>1, <2>3, <3>1 DEF AcceptedFails, AdvanceAndFail
  <2>4. ASSUME NEW n \in Node, NEW m \in msgs, CatchupFails(n, m) PROVE Forward
    <3>1. m.inst >= state[n].instance_number
      BY <1>1, <2>0, <2>4, MessageFields DEF CatchupFails, inst, TypeOK
    <3> QED BY <2>1, <2>4, <3>1 DEF CatchupFails, AdvanceAndFail
  <2>5. CASE [Next]_vars
    BY <1>1, <2>5, StepForward
  <2> QED BY <1>1, <2>2, <2>3, <2>4, <2>5 DEF FaultNext, allVars
<1>2. TypeOK /\ [FaultNext]_allVars => [Forward]_vars
  BY <1>1
<1> QED BY <1>2, FaultyTypeCorrect, PTL DEF InstanceMonotonic, FaultSpec
=============================================================================
