------------------------ MODULE ReplicatedValueProofs ------------------------
(***************************************************************************)
(* Proofs about ReplicatedValue, for every number of nodes, every set of   *)
(* values and every bound.                                                 *)
(***************************************************************************)
EXTENDS ReplicatedValue, FiniteSetTheorems, TLAPS

-----------------------------------------------------------------------------
(* Proposal ids are totally ordered, None below all of them.                *)
LEMMA PidComponents ==
    ASSUME NEW a \in MaybePid
    PROVE  a[1] \in Int /\ a[2] \in Int /\ a = <<a[1], a[2]>>
<1>1. CASE a = NoId
  BY <1>1 DEF NoId
<1>2. CASE a \in Pid
  <2>1. PICK i \in Nat, n \in Node : a = <<i, n>>
    BY <1>2 DEF Pid
  <2> QED BY <2>1, NodeAssumption
<1> QED BY <1>1, <1>2 DEF MaybePid

LEMMA LtTrans ==
    ASSUME NEW a \in MaybePid, NEW b \in MaybePid, NEW c \in MaybePid,
           Lt(a, b), Lt(b, c)
    PROVE  Lt(a, c)
BY PidComponents DEF Lt

LEMMA LeLtTrans ==
    ASSUME NEW a \in MaybePid, NEW b \in MaybePid, NEW c \in MaybePid,
           Le(a, b), Lt(b, c)
    PROVE  Lt(a, c)
BY LtTrans DEF Le

LEMMA LtLeTrans ==
    ASSUME NEW a \in MaybePid, NEW b \in MaybePid, NEW c \in MaybePid,
           Lt(a, b), Le(b, c)
    PROVE  Lt(a, c)
BY LtTrans DEF Le

LEMMA LeTrans ==
    ASSUME NEW a \in MaybePid, NEW b \in MaybePid, NEW c \in MaybePid,
           Le(a, b), Le(b, c)
    PROVE  Le(a, c)
BY LtTrans DEF Le

LEMMA LtIrreflexive ==
    ASSUME NEW a \in MaybePid, NEW b \in MaybePid, Lt(a, b)
    PROVE  a # b /\ ~Le(b, a)
BY PidComponents DEF Lt, Le

LEMMA LtTotal ==
    ASSUME NEW a \in MaybePid, NEW b \in MaybePid
    PROVE  Lt(a, b) \/ Le(b, a)
BY PidComponents DEF Lt, Le

LEMMA NoIdLeast ==
    /\ NoId \in MaybePid /\ NoId \notin Pid
    /\ \A id \in Pid : Lt(NoId, id)
    /\ \A id \in MaybePid : Le(NoId, id)
BY NodeAssumption DEF Lt, Le, MaybePid, Pid, NoId

-----------------------------------------------------------------------------
(* quorum_size peers are a majority, and two majorities share a peer.       *)
LEMMA NodeCardinality == Cardinality(Node) \in Nat /\ QuorumSize \in Nat
<1>1. Cardinality(Node) \in Nat
  BY NodeAssumption, FS_CardinalityType
<1> QED BY <1>1 DEF QuorumSize

LEMMA QuorumIsMajority ==
    ASSUME NEW S \in SUBSET Node, Cardinality(S) = QuorumSize
    PROVE  IsMajority(S)
BY NodeCardinality DEF QuorumSize, IsMajority

LEMMA MajoritiesMeet ==
    ASSUME NEW S \in SUBSET Node, NEW T \in SUBSET Node, IsMajority(S), IsMajority(T)
    PROVE  S \cap T # {}
<1>1. IsFiniteSet(S) /\ IsFiniteSet(T) /\ IsFiniteSet(S \cup T)
  BY NodeAssumption, FS_Subset, FS_Union
<1>2. Cardinality(S \cup T) <= Cardinality(Node)
  BY NodeAssumption, FS_Subset, S \cup T \subseteq Node
<1>3. Cardinality(S \cup T) = Cardinality(S) + Cardinality(T) - Cardinality(S \cap T)
  BY <1>1, FS_Union
<1>4. Cardinality(S) \in Nat /\ Cardinality(T) \in Nat /\ Cardinality(S \cap T) \in Nat
  BY <1>1, FS_CardinalityType, FS_Intersection
<1>5. Cardinality(S \cap T) > 0
  BY <1>2, <1>3, <1>4, NodeCardinality DEF IsMajority
<1> QED BY <1>5, FS_EmptySet

LEMMA MajorityGrows ==
    ASSUME NEW S \in SUBSET Node, NEW T \in SUBSET Node, S \subseteq T, IsMajority(S)
    PROVE  IsMajority(T)
<1>1. IsFiniteSet(T)
  BY NodeAssumption, FS_Subset
<1>2. Cardinality(S) <= Cardinality(T) /\ Cardinality(S) \in Nat /\ Cardinality(T) \in Nat
  BY <1>1, FS_Subset, FS_CardinalityType
<1> QED BY <1>2, NodeCardinality DEF IsMajority

-----------------------------------------------------------------------------
(* Type correctness: what the operations of the roles return.               *)
LEMMA ObserveProposalType ==
    ASSUME NEW p \in Proposer, NEW id \in MaybePid
    PROVE  ObserveProposal(p, id) \in Proposer
<1>1. ASSUME Lt(p.highest_proposal_id, id) PROVE id \in Pid
  <2>1. p.highest_proposal_id \in MaybePid
    BY DEF Proposer, MaybePid
  <2> QED BY <1>1, <2>1, LtIrreflexive, NoIdLeast DEF MaybePid
<1> QED BY <1>1 DEF ObserveProposal, Proposer

LEMMA PrepareType ==
    ASSUME NEW n \in Node, NEW p \in Proposer
    PROVE  Prepare(p, n) \in Proposer /\ Prepare(p, n).proposal_id \in Pid
<1>1. NextNumber(p) \in Nat
  BY DEF NextNumber, Proposer, Pid
<1>2. <<NextNumber(p), n>> \in Pid
  BY <1>1 DEF Pid
<1> QED BY <1>2 DEF Prepare, Proposer

LEMMA ProposeValueType ==
    ASSUME NEW p \in Proposer, NEW v \in Value
    PROVE  ProposeValue(p, v) \in Proposer
BY DEF ProposeValue, Proposer, MaybeValue

LEMMA ProposerNackType ==
    ASSUME NEW n \in Node, NEW p \in Proposer, NEW from \in Node,
           NEW id \in Pid, NEW promised \in MaybePid
    PROVE  ProposerNack(p, n, from, id, promised) \in Proposer
<1> DEFINE q == ObserveProposal(p, promised)
           r == [q EXCEPT !.nacks_received = @ \cup {from}]
<1>1. q \in Proposer
  BY ObserveProposalType
<1>2. r \in Proposer
  BY <1>1 DEF Proposer
<1>3. Prepare(r, n) \in Proposer
  BY <1>2, PrepareType
<1> QED BY <1>1, <1>2, <1>3 DEF ProposerNack

LEMMA ProposerPromiseType ==
    ASSUME NEW p \in Proposer, NEW from \in Node,
           NEW id \in Pid, NEW aid \in MaybePid, NEW aval \in MaybeValue
    PROVE  ProposerPromise(p, from, id, aid, aval) \in Proposer
<1> DEFINE q == ObserveProposal(p, id)
           a == AdoptAccepted(q, aid, aval)
           r == [a EXCEPT !.promises_received = @ \cup {from}]
<1>1. q \in Proposer
  BY ObserveProposalType DEF MaybePid
<1>2. a \in Proposer
  BY <1>1 DEF AdoptAccepted, Proposer
<1>3. r \in Proposer
  BY <1>2 DEF Proposer
<1>4. [r EXCEPT !.leader = Cardinality(r.promises_received) = QuorumSize] \in Proposer
  BY <1>3 DEF Proposer
<1> QED BY <1>1, <1>4 DEF ProposerPromise

LearnerTypeOK(l) ==
    /\ l.acceptors \in [Node -> MaybePid]
    /\ \A id \in DOMAIN l.proposals : id \in Pid /\ l.proposals[id] \in ProposalStatus

LEMMA StatusTypes ==
    ASSUME NEW ps \in ProposalStatus, NEW from \in Node
    PROVE  /\ [ps EXCEPT !.retain_count = @ - 1, !.acceptors = @ \ {from}] \in ProposalStatus
           /\ [ps EXCEPT !.accept_count = @ + 1, !.retain_count = @ + 1,
                         !.acceptors = @ \cup {from}] \in ProposalStatus
<1>1. /\ ps.acceptors \ {from} \in SUBSET Node
      /\ ps.acceptors \cup {from} \in SUBSET Node
      /\ ps.accept_count + 1 \in Nat
      /\ ps.retain_count - 1 \in Int /\ ps.retain_count + 1 \in Int
  BY DEF ProposalStatus
<1> QED BY <1>1 DEF ProposalStatus

LEMMA ReleaseType ==
    ASSUME NEW l, LearnerTypeOK(l), NEW from \in Node
    PROVE  LET rel == Release(l.proposals, l.acceptors[from], from) IN
           \A x \in DOMAIN rel : x \in Pid /\ rel[x] \in ProposalStatus
<1> DEFINE last == l.acceptors[from]
<1>1. CASE last \in DOMAIN l.proposals
  <2>1. [l.proposals[last] EXCEPT !.retain_count = @ - 1, !.acceptors = @ \ {from}] \in ProposalStatus
    BY <1>1, StatusTypes DEF LearnerTypeOK
  <2> QED BY <1>1, <2>1 DEF Release, LearnerTypeOK
<1>2. CASE last \notin DOMAIN l.proposals
  BY <1>2 DEF Release, LearnerTypeOK
<1> QED BY <1>1, <1>2

LEMMA LearnerAcceptedType ==
    ASSUME NEW l, LearnerTypeOK(l), NEW from \in Node, NEW id \in Pid, NEW v \in Value
    PROVE  LearnerTypeOK(LearnerAccepted(l, from, id, v))
<1> DEFINE last == l.acceptors[from]
           rel == Release(l.proposals, last, from)
           sup == Support(rel, id, v, from)
<1>1. \A x \in DOMAIN rel : x \in Pid /\ rel[x] \in ProposalStatus
  BY ReleaseType
<1>2. \A x \in DOMAIN sup : x \in Pid /\ sup[x] \in ProposalStatus
  <2> DEFINE ps == IF id \in DOMAIN rel THEN rel[id] ELSE NewStatus(v)
  <2>1. ps \in ProposalStatus
    BY <1>1 DEF NewStatus, ProposalStatus
  <2>2. [ps EXCEPT !.accept_count = @ + 1, !.retain_count = @ + 1,
                   !.acceptors = @ \cup {from}] \in ProposalStatus
    <3> HIDE DEF ps
    <3> QED BY <2>1, StatusTypes
  <2> QED BY <1>1, <2>2 DEF Support
<1>3. [l.acceptors EXCEPT ![from] = id] \in [Node -> MaybePid]
  BY DEF LearnerTypeOK, MaybePid
<1> HIDE DEF rel, sup
<1> QED BY <1>1, <1>2, <1>3 DEF LearnerAccepted, LearnerTypeOK, rel, sup

LEMMA NewRoleTypes ==
    ASSUME NEW n \in Node
    PROVE  NewProposer(n) \in Proposer /\ NewAcceptor \in Acceptor /\ LearnerTypeOK(NewLearner)
BY DEF NewProposer, Proposer, NewAcceptor, Acceptor, NewLearner, LearnerTypeOK, MaybePid, MaybeValue, Pid

(* The messages a node builds are well formed.                              *)
LEMMA MessageTypes ==
    ASSUME NEW n \in Node, NEW to \in Node, NEW i \in Instance, NEW id \in Pid,
           NEW aid \in MaybePid, NEW aval \in MaybeValue, NEW v \in Value
    PROVE  /\ PrepareMsg(n, i, id) \in Message
           /\ NackMsg(n, to, i, id, aid) \in Message
           /\ PromiseMsg(n, to, i, id, aid, aval) \in Message
           /\ AcceptMsg(n, i, id, v) \in Message
           /\ AcceptedMsg(n, i, id, v) \in Message
           /\ SyncMsg(n, to, i) \in Message
           /\ CatchupMsg(n, to, i, v) \in Message
BY DEF Message, PrepareMsg, NackMsg, PromiseMsg, AcceptMsg, AcceptedMsg, SyncMsg, CatchupMsg

(* The fields of a well-formed message of each type.                        *)
LEMMA MessageFields ==
    ASSUME NEW m \in Message
    PROVE  /\ m.from \in Node /\ m.inst \in Instance /\ m.inst \in Nat
           /\ m.type \in {"prepare", "nack", "promise", "accept", "accepted"} => m.id \in Pid
           /\ m.type \in {"nack", "promise", "sync_request", "catchup"} => m.to \in Node
           /\ m.type = "nack" => m.promised \in MaybePid
           /\ m.type = "promise" => m.aid \in MaybePid /\ m.aval \in MaybeValue
           /\ m.type \in {"accept", "accepted", "catchup"} => m.val \in Value
BY BoundAssumption DEF Message, Instance

LEMMA TaskTypes ==
    ASSUME NEW id \in Pid, NEW v \in Value
    PROVE  NoTask \in Task /\ PrepareTask(id) \in Task /\ AcceptTask(id, v) \in Task
BY DEF NoTask, PrepareTask, AcceptTask, Task

LEMMA TaskMsgType ==
    ASSUME TypeOK, NEW n \in Node, NEW t \in Task, t # NoTask
    PROVE  TaskMsg(n, t) \in Message
<1>1. inst(n) \in Instance
  BY DEF TypeOK, State, inst
<1>2. CASE t \in [send : {"prepare"}, id : Pid]
  BY <1>1, <1>2 DEF TaskMsg, PrepareMsg, Message
<1>3. CASE t \in [send : {"accept"}, id : Pid, val : Value]
  BY <1>1, <1>3 DEF TaskMsg, AcceptMsg, Message
<1> QED BY <1>2, <1>3 DEF Task

LEMMA DriveType ==
    ASSUME TypeOK, NEW n \in Node, NEW p \in Proposer, DriveToResolution(n, p),
           UNCHANGED <<state, acceptor, learner, updates>>
    PROVE  TypeOK'
<1> DEFINE id == Prepare(p, n).proposal_id
<1>1. Prepare(p, n) \in Proposer /\ id \in Pid
  BY PrepareType
<1>2. PrepareTask(id) \in Task /\ PrepareTask(id) # NoTask
  BY <1>1, ValueAssumption DEF Task, PrepareTask, NoTask
<1>3. TaskMsg(n, PrepareTask(id)) \in Message
  BY <1>2, TaskMsgType
<1> HIDE DEF id
<1> QED BY <1>1, <1>2, <1>3 DEF DriveToResolution, StartTask, Send, TypeOK, inst, id

LEMMA BaseAdvanceType ==
    ASSUME TypeOK, NEW n \in Node, NEW i \in Nat, NEW v \in Value, BaseAdvance(n, i, v)
    PROVE  /\ state' \in [Node -> State]
           /\ \A k \in Node : inst(k)' > 0 => state'[k].current_value \in Value
           /\ proposer' \in [Node -> Proposer]
           /\ acceptor' \in [Node -> Acceptor]
           /\ DOMAIN learner' = Node
           /\ \A k \in Node : LearnerTypeOK(learner'[k])
           /\ updates' \subseteq (Instance \X Value)
<1>1. i \in Instance
  BY BoundAssumption DEF BaseAdvance, Instance
<1>2. SavedState(i, v, NoId, NoId, NoValue) \in State
  BY <1>1 DEF SavedState, State, MaybePid, MaybeValue
<1>3. SavedState(i, v, NoId, NoId, NoValue).current_value \in Value
  BY DEF SavedState
<1>4. \A k \in Node : inst(k)' > 0 => state'[k].current_value \in Value
  BY <1>3 DEF BaseAdvance, TypeOK, inst
<1> QED BY <1>1, <1>2, <1>4, NewRoleTypes DEF BaseAdvance, TypeOK, LearnerTypeOK

LEMMA AdvanceType ==
    ASSUME TypeOK, NEW n \in Node, NEW i \in Nat, NEW v \in Value,
           AdvanceInstance(n, i, v), UNCHANGED msgs
    PROVE  TypeOK'
<1>1. BaseAdvance(n, i, v)
  BY DEF AdvanceInstance
<1>2. retransmit' \in [Node -> Task] /\ delayed' \in [Node -> BOOLEAN]
  BY DEF AdvanceInstance, StopDriving, TypeOK, Task
<1> QED BY <1>1, <1>2, BaseAdvanceType DEF TypeOK, LearnerTypeOK

(* Type correctness is preserved by every step of a node.                   *)
LEMMA TypeStep ==
    ASSUME TypeOK, [Next]_vars
    PROVE  TypeOK'
<1>1. ASSUME NEW n \in Node, NEW v \in Value, ProposeUpdate(n, v)
      PROVE  TypeOK'
  <2>1. ProposeValue(proposer[n], v) \in Proposer
    BY ProposeValueType DEF TypeOK
  <2> QED BY <1>1, <2>1, DriveType DEF ProposeUpdate
<1>2. ASSUME NEW n \in Node, DelayedDrive(n)
      PROVE  TypeOK'
  BY <1>2, DriveType DEF DelayedDrive, TypeOK
<1>3. ASSUME NEW n \in Node, Retransmit(n)
      PROVE  TypeOK'
  <2>1. TaskMsg(n, retransmit[n]) \in Message
    BY <1>3, TaskMsgType DEF Retransmit, TypeOK
  <2> QED BY <1>3, <2>1 DEF Retransmit, Send, TypeOK, inst
<1>4. ASSUME NEW n \in Node, NEW peer \in Node, SendSyncRequest(n, peer)
      PROVE  TypeOK'
  <2>1. SyncMsg(n, peer, inst(n)) \in Message
    BY DEF TypeOK, State, inst, SyncMsg, Message
  <2> QED BY <1>4, <2>1 DEF SendSyncRequest, Send, TypeOK, inst
<1>5. ASSUME NEW n \in Node, NEW m \in msgs, ReceivePrepare(n, m)
      PROVE  TypeOK'
  <2> DEFINE a == acceptor[n]
  <2>1. m \in Message /\ m.from \in Node /\ m.inst \in Instance /\ m.id \in Pid /\ m.id \in MaybePid
    BY <1>5, MessageFields DEF ReceivePrepare, TypeOK, MaybePid
  <2>2. a \in Acceptor /\ a.accepted_id \in MaybePid /\ a.accepted_value \in MaybeValue
    BY DEF TypeOK, Acceptor
  <2>3. AcceptorPrepare(a, m.id) \in Acceptor
    BY <2>1, <2>2 DEF AcceptorPrepare, Acceptor
  <2>4. ObserveProposal(proposer[n], m.id) \in Proposer
    BY <2>1, ObserveProposalType DEF TypeOK
  <2>5. /\ PromiseMsg(n, m.from, m.inst, m.id, a.accepted_id, a.accepted_value) \in Message
        /\ NackMsg(n, m.from, m.inst, m.id, state[n].promised_id) \in Message
    BY <2>1, <2>2 DEF TypeOK, State, PromiseMsg, NackMsg, Message
  <2>6. /\ SavedState(inst(n), state[n].current_value, m.id, a.accepted_id, a.accepted_value) \in State
        /\ SavedState(inst(n), state[n].current_value, m.id, a.accepted_id, a.accepted_value).instance_number = inst(n)
        /\ SavedState(inst(n), state[n].current_value, m.id, a.accepted_id, a.accepted_value).current_value
              = state[n].current_value
    BY <2>1, <2>2 DEF TypeOK, State, SavedState, inst
  <2>7. state' \in [Node -> State] /\ \A k \in Node : inst(k)' > 0 => state'[k].current_value \in Value
    BY <1>5, <2>6 DEF ReceivePrepare, TypeOK, inst
  <2>8. msgs' \subseteq Message
    BY <1>5, <2>5 DEF ReceivePrepare, Send, TypeOK
  <2>9. proposer' \in [Node -> Proposer] /\ acceptor' \in [Node -> Acceptor]
    BY <1>5, <2>3, <2>4 DEF ReceivePrepare, TypeOK
  <2> QED BY <1>5, <2>7, <2>8, <2>9 DEF ReceivePrepare, TypeOK
<1>6. ASSUME NEW n \in Node, NEW m \in msgs, ReceiveNack(n, m)
      PROVE  TypeOK'
  <2>1. ProposerNack(proposer[n], n, m.from, m.id, m.promised) \in Proposer
    BY <1>6, MessageFields, ProposerNackType DEF ReceiveNack, TypeOK
  <2>2. retransmit' \in [Node -> Task]
    BY <1>6 DEF ReceiveNack, TypeOK, Task
  <2> QED BY <1>6, <2>1, <2>2 DEF ReceiveNack, TypeOK, inst
<1>7. ASSUME NEW n \in Node, NEW m \in msgs, ReceivePromise(n, m)
      PROVE  TypeOK'
  <2> DEFINE p == ProposerPromise(proposer[n], m.from, m.id, m.aid, m.aval)
             t == AcceptTask(p.proposal_id, p.proposed_value)
  <2>1. p \in Proposer
    BY <1>7, MessageFields, ProposerPromiseType DEF ReceivePromise, TypeOK
  <2>2. ASSUME ReturnsAccept(proposer[n], p)
        PROVE  t \in Task /\ t # NoTask /\ TaskMsg(n, t) \in Message
    <3>1. p.proposal_id \in Pid /\ p.proposed_value \in Value
      BY <2>1, <2>2 DEF ReturnsAccept, Proposer, MaybeValue
    <3>2. t \in Task /\ t # NoTask
      BY <3>1 DEF AcceptTask, Task, NoTask
    <3> QED BY <3>2, TaskMsgType
  <2>3. proposer' \in [Node -> Proposer]
    BY <1>7, <2>1 DEF ReceivePromise, TypeOK
  <2>4. retransmit' \in [Node -> Task] /\ msgs' \subseteq Message
    BY <1>7, <2>2 DEF ReceivePromise, StartTask, Send, TypeOK
  <2> QED BY <1>7, <2>3, <2>4 DEF ReceivePromise, TypeOK, inst
<1>8. ASSUME NEW n \in Node, NEW m \in msgs, ReceiveAccept(n, m)
      PROVE  TypeOK'
  <2> DEFINE a == acceptor[n]
             s == SavedState(inst(n), state[n].current_value, state[n].promised_id, m.id, m.val)
  <2>1. /\ m \in Message /\ m.from \in Node /\ m.inst \in Instance
        /\ m.id \in Pid /\ m.id \in MaybePid /\ m.val \in Value /\ m.val \in MaybeValue
    BY <1>8, MessageFields DEF ReceiveAccept, TypeOK, MaybePid, MaybeValue
  <2>2. AcceptorAccept(a, m.id, m.val) \in Acceptor
    BY <2>1 DEF AcceptorAccept, Acceptor, TypeOK
  <2>3. ObserveProposal(proposer[n], m.id) \in Proposer
    BY <2>1, ObserveProposalType DEF TypeOK
  <2>4. /\ AcceptedMsg(n, m.inst, m.id, m.val) \in Message
        /\ NackMsg(n, m.from, m.inst, m.id, state[n].promised_id) \in Message
    BY <2>1 DEF TypeOK, State, AcceptedMsg, NackMsg, Message
  <2>5. s \in State /\ s.instance_number = inst(n) /\ s.current_value = state[n].current_value
    BY <2>1 DEF TypeOK, State, SavedState, inst
  <2>6. state' \in [Node -> State] /\ \A k \in Node : inst(k)' > 0 => state'[k].current_value \in Value
    BY <1>8, <2>5 DEF ReceiveAccept, TypeOK, inst
  <2>7. msgs' \subseteq Message
    BY <1>8, <2>4 DEF ReceiveAccept, Send, TypeOK
  <2>8. proposer' \in [Node -> Proposer] /\ acceptor' \in [Node -> Acceptor] /\ delayed' \in [Node -> BOOLEAN]
    BY <1>8, <2>2, <2>3 DEF ReceiveAccept, TypeOK
  <2> QED BY <1>8, <2>6, <2>7, <2>8 DEF ReceiveAccept, TypeOK
<1>9. ASSUME NEW n \in Node, NEW m \in msgs, ReceiveAccepted(n, m)
      PROVE  TypeOK'
  <2>1. m \in Message /\ m.from \in Node /\ m.id \in Pid /\ m.val \in Value
    BY <1>9, MessageFields DEF ReceiveAccepted, TypeOK
  <2>2. CASE Resolves(learner[n], m.from, m.id, m.val)
    <3>1. inst(n) + 1 \in Nat
      BY BoundAssumption DEF TypeOK, State, Instance, inst
    <3> QED BY <1>9, <2>1, <2>2, <3>1, AdvanceType DEF ReceiveAccepted
  <2>3. CASE ~Resolves(learner[n], m.from, m.id, m.val)
    <3>1. LearnerTypeOK(LearnerAccepted(learner[n], m.from, m.id, m.val))
      BY <2>1, LearnerAcceptedType DEF TypeOK, LearnerTypeOK
    <3> QED BY <1>9, <2>3, <3>1 DEF ReceiveAccepted, TypeOK, LearnerTypeOK, inst
  <2> QED BY <2>2, <2>3
<1>10. ASSUME NEW n \in Node, NEW m \in msgs, ReceiveSyncRequest(n, m)
       PROVE  TypeOK'
  <2>1. m \in Message /\ m.from \in Node /\ m.inst \in Nat /\ inst(n) \in Instance /\ inst(n) \in Nat
    BY <1>10, MessageFields, BoundAssumption DEF ReceiveSyncRequest, TypeOK, State, Instance, inst
  <2>2. state[n].current_value \in Value
    BY <1>10, <2>1 DEF ReceiveSyncRequest, TypeOK
  <2>3. CatchupMsg(n, m.from, inst(n), state[n].current_value) \in Message
    BY <2>1, <2>2 DEF CatchupMsg, Message
  <2> QED BY <1>10, <2>3 DEF ReceiveSyncRequest, Send, TypeOK, inst
<1>11. ASSUME NEW n \in Node, NEW m \in msgs, ReceiveCatchup(n, m)
       PROVE  TypeOK'
  <2>1. m \in Message /\ m.inst \in Nat /\ m.val \in Value
    BY <1>11, MessageFields DEF ReceiveCatchup, TypeOK
  <2> QED BY <1>11, <2>1, AdvanceType DEF ReceiveCatchup
<1>12. CASE UNCHANGED vars
  BY <1>12 DEF vars, TypeOK, inst
<1> QED
  BY <1>1, <1>2, <1>3, <1>4, <1>5, <1>6, <1>7, <1>8, <1>9, <1>10, <1>11, <1>12 DEF Next, Receive

LEMMA TypeInit == Init => TypeOK
<1> SUFFICES ASSUME Init PROVE TypeOK
  OBVIOUS
<1>1. SavedState(0, NoValue, NoId, NoId, NoValue) \in State
  BY BoundAssumption DEF SavedState, State, Instance, MaybePid, MaybeValue
<1>2. \A n \in Node : inst(n) = 0
  BY DEF Init, SavedState, inst
<1> QED BY <1>1, <1>2, NewRoleTypes DEF Init, TypeOK, LearnerTypeOK, Task

(* Every attribute of a node keeps its type in every execution without      *)
(* faults, for any number of nodes.                                         *)
THEOREM TypeCorrect == Spec => []TypeOK
<1>1. Init => TypeOK
  BY TypeInit
<1>2. TypeOK /\ [Next]_vars => TypeOK'
  BY TypeStep
<1> QED BY <1>1, <1>2, PTL DEF Spec

-----------------------------------------------------------------------------
(***************************************************************************)
(* The inductive invariant.                                                *)
(***************************************************************************)
Voted(a, i, c, v) == AcceptedMsg(a, i, c, v) \in msgs

(* a has left link i or has promised not to accept at id c or below.        *)
Closed(a, i, c) ==
    \/ state[a].instance_number > i
    \/ state[a].instance_number = i /\ Lt(c, acceptor[a].promised_id)

WontVote(a, i, c) == Closed(a, i, c) /\ \A w \in Value : ~Voted(a, i, c, w)

(* No value but v has been or can still be chosen at an id below b.         *)
SafeAt(i, b, v) ==
    \A c \in Pid : Lt(c, b) =>
        \E Q \in SUBSET Node : /\ IsMajority(Q)
                               /\ \A a \in Q : Voted(a, i, c, v) \/ WontVote(a, i, c)

(* The promise m binds its sender: what it reports is its last vote, and it *)
(* does not vote between that and the promised id any more.                 *)
PromiseInv(m) ==
    /\ m.id[2] = m.to
    /\ m.aid # NoId => m.aval \in Value /\ Voted(m.from, m.inst, m.aid, m.aval)
    /\ Le(m.aid, m.id)
    /\ \A c \in Pid : Lt(m.aid, c) /\ Lt(c, m.id) => WontVote(m.from, m.inst, c)
    /\ \/ state[m.from].instance_number > m.inst
       \/ /\ state[m.from].instance_number = m.inst
          /\ Le(m.id, acceptor[m.from].promised_id)

(* The accept m is safe, and its sender is past it or still its leader.     *)
AcceptInv(m) ==
    /\ m.id[2] = m.from
    /\ SafeAt(m.inst, m.id, m.val)
    /\ \/ state[m.from].instance_number > m.inst
       \/ /\ state[m.from].instance_number = m.inst
          /\ \/ Lt(m.id, proposer[m.from].proposal_id)
             \/ m.id = proposer[m.from].proposal_id /\ proposer[m.from].leader

MsgInv(m) ==
    /\ m.type = "prepare" => m.id[2] = m.from
    /\ m.type = "promise" => PromiseInv(m)
    /\ m.type = "accept" => AcceptInv(m)
    /\ m.type = "accepted" => AcceptMsg(m.id[2], m.inst, m.id, m.val) \in msgs
    /\ m.type = "catchup" => <<m.inst, m.val>> \in updates

(* The acceptor remembers its last vote and its highest promise of the      *)
(* current link; it has none in links it has not reached.                   *)
AcceptorInv(n) ==
    LET a == acceptor[n]  i == state[n].instance_number IN
    /\ Le(a.accepted_id, a.promised_id)
    /\ a.accepted_id # NoId => a.accepted_value \in Value /\ Voted(n, i, a.accepted_id, a.accepted_value)
    /\ \A m \in msgs : m.type = "accepted" /\ m.from = n =>
          m.inst < i \/ (m.inst = i /\ Le(m.id, a.accepted_id))

(* The promises counted are for the current proposal, and the value to be   *)
(* proposed is that of the highest vote they reported.                      *)
ProposerInv(n) ==
    LET p == proposer[n]  i == state[n].instance_number IN
    /\ p.proposal_id[2] = n
    /\ Le(p.proposal_id, p.highest_proposal_id)
    /\ Lt(p.highest_accepted_id, p.proposal_id)
    /\ p.highest_accepted_id # NoId =>
          \E a \in Node : p.proposed_value \in Value /\ Voted(a, i, p.highest_accepted_id, p.proposed_value)
    /\ \A q \in p.promises_received : \E m \in msgs :
          /\ m.type = "promise" /\ m.from = q /\ m.to = n /\ m.inst = i /\ m.id = p.proposal_id
          /\ Le(m.aid, p.highest_accepted_id)

(* What the retransmit task sends has been sent already.                    *)
TaskInv(n) ==
    LET t == retransmit[n] IN
    /\ t.send = "prepare" => t.id[2] = n
    /\ t.send = "accept" => AcceptMsg(n, state[n].instance_number, t.id, t.val) \in msgs

(* accept_count counts different peers, each of which did vote.             *)
LearnerInv(n) ==
    LET l == learner[n] IN
    \A id \in DOMAIN l.proposals : \E S \in SUBSET Node :
        /\ Cardinality(S) = l.proposals[id].accept_count
        /\ \A u \in S : /\ Voted(u, state[n].instance_number, id, l.proposals[id].value)
                        /\ Le(id, l.acceptors[u])

UpdatesInv ==
    /\ \A e \in updates : e[1] > 0 /\ \E id \in Pid : Chosen(e[1] - 1, id, e[2])
    /\ \A n \in Node : state[n].instance_number > 0 =>
          <<state[n].instance_number, state[n].current_value>> \in updates

NodeInv(n) == AcceptorInv(n) /\ ProposerInv(n) /\ TaskInv(n) /\ LearnerInv(n)

IInv ==
    /\ TypeOK
    /\ OneValuePerProposal
    /\ PreparedAccepts
    /\ \A m \in msgs : MsgInv(m)
    /\ \A n \in Node : NodeInv(n)
    /\ UpdatesInv

-----------------------------------------------------------------------------
(***************************************************************************)
(* How a step changes what the invariant speaks of: messages accumulate, a *)
(* node moves forward in the chain or its promise and its proposal id do   *)
(* not decrease, and a new vote respects the promise of its sender.        *)
(***************************************************************************)
Progress ==
    /\ msgs \subseteq msgs' /\ updates \subseteq updates'
    /\ \A k \in Node :
          \/ state'[k].instance_number > state[k].instance_number
          \/ /\ state'[k].instance_number = state[k].instance_number
             /\ Le(acceptor[k].promised_id, acceptor'[k].promised_id)
             /\ \/ Lt(proposer[k].proposal_id, proposer'[k].proposal_id)
                \/ /\ proposer'[k].proposal_id = proposer[k].proposal_id
                   /\ proposer[k].leader => proposer'[k].leader
    /\ \A m \in msgs' \ msgs : m.type = "accepted" =>
          m.inst = state[m.from].instance_number /\ Le(acceptor[m.from].promised_id, m.id)

LEMMA NodeTypes ==
    ASSUME TypeOK, NEW k \in Node
    PROVE  /\ state[k].instance_number \in Nat
           /\ acceptor[k].promised_id \in MaybePid /\ acceptor[k].accepted_id \in MaybePid
           /\ acceptor[k].accepted_value \in MaybeValue
           /\ proposer[k] \in Proposer
           /\ proposer[k].proposal_id \in Pid /\ proposer[k].proposal_id \in MaybePid
           /\ proposer[k].highest_proposal_id \in Pid /\ proposer[k].highest_proposal_id \in MaybePid
           /\ proposer[k].highest_accepted_id \in MaybePid
           /\ proposer[k].proposed_value \in MaybeValue
           /\ proposer[k].promises_received \in SUBSET Node
           /\ retransmit[k] \in Task
BY BoundAssumption DEF TypeOK, State, Instance, Acceptor, Proposer, MaybePid

LEMMA AcceptedMsgFields ==
    ASSUME NEW a, NEW i, NEW c, NEW v
    PROVE  /\ AcceptedMsg(a, i, c, v).type = "accepted" /\ AcceptedMsg(a, i, c, v).from = a
           /\ AcceptedMsg(a, i, c, v).inst = i /\ AcceptedMsg(a, i, c, v).id = c
           /\ AcceptedMsg(a, i, c, v).val = v
BY DEF AcceptedMsg

(* An acceptor that will not vote at an id never does.                      *)
LEMMA WontVoteStable ==
    ASSUME TypeOK, TypeOK', Progress, NEW a \in Node, NEW i \in Nat, NEW c \in Pid,
           WontVote(a, i, c)
    PROVE  WontVote(a, i, c)'
<1>1. c \in MaybePid
  BY DEF MaybePid
<1>2. /\ state[a].instance_number \in Nat /\ state'[a].instance_number \in Nat
      /\ acceptor[a].promised_id \in MaybePid /\ acceptor'[a].promised_id \in MaybePid
  BY BoundAssumption DEF TypeOK, State, Instance, Acceptor
<1>3. Closed(a, i, c)'
  <2>1. CASE state'[a].instance_number > state[a].instance_number
    BY <1>2, <2>1 DEF WontVote, Closed
  <2>2. CASE /\ state'[a].instance_number = state[a].instance_number
             /\ Le(acceptor[a].promised_id, acceptor'[a].promised_id)
    BY <1>1, <1>2, <2>2, LtLeTrans DEF WontVote, Closed
  <2> QED BY <2>1, <2>2 DEF Progress
<1>4. ASSUME NEW w \in Value, AcceptedMsg(a, i, c, w) \in msgs'
      PROVE  FALSE
  <2>1. AcceptedMsg(a, i, c, w) \notin msgs
    BY DEF WontVote, Voted
  <2>2. i = state[a].instance_number /\ Le(acceptor[a].promised_id, c)
    BY <1>4, <2>1, AcceptedMsgFields DEF Progress
  <2>3. Lt(c, acceptor[a].promised_id)
    BY <1>2, <2>2 DEF WontVote, Closed
  <2> QED BY <1>1, <1>2, <2>2, <2>3, LtIrreflexive
<1> QED BY <1>3, <1>4 DEF WontVote, Voted

(* Safe proposals stay safe.                                                *)
LEMMA SafeAtStable ==
    ASSUME TypeOK, TypeOK', Progress, NEW i \in Nat, NEW b, NEW v, SafeAt(i, b, v)
    PROVE  SafeAt(i, b, v)'
<1> SUFFICES ASSUME NEW c \in Pid, Lt(c, b)
             PROVE  \E Q \in SUBSET Node : /\ IsMajority(Q)
                                           /\ \A a \in Q : Voted(a, i, c, v)' \/ WontVote(a, i, c)'
  BY DEF SafeAt
<1>1. PICK Q \in SUBSET Node : IsMajority(Q) /\ \A a \in Q : Voted(a, i, c, v) \/ WontVote(a, i, c)
  BY DEF SafeAt
<1>2. \A a \in Q : Voted(a, i, c, v) => Voted(a, i, c, v)'
  BY DEF Voted, Progress
<1>3. \A a \in Q : WontVote(a, i, c) => WontVote(a, i, c)'
  BY WontVoteStable
<1> QED BY <1>1, <1>2, <1>3

(* A value that is chosen stays chosen.                                     *)
LEMMA ChosenStable ==
    ASSUME msgs \subseteq msgs', NEW i, NEW id, NEW v, Chosen(i, id, v)
    PROVE  Chosen(i, id, v)'
<1> DEFINE S == {n \in Node : AcceptedMsg(n, i, id, v) \in msgs}
           T == {n \in Node : AcceptedMsg(n, i, id, v) \in msgs'}
<1>1. S \in SUBSET Node /\ T \in SUBSET Node /\ S \subseteq T /\ IsMajority(S)
  BY DEF Chosen
<1>2. IsMajority(T)
  BY <1>1, MajorityGrows
<1> QED BY <1>2 DEF Chosen, IsMajority

(* The invariant of the messages sent before a step survives it.            *)
LEMMA OldMessages ==
    ASSUME IInv, TypeOK', Progress, NEW m \in msgs
    PROVE  MsgInv(m)'
<1>0. MsgInv(m) /\ m \in Message /\ TypeOK
  BY DEF IInv, TypeOK
<1>1. m.from \in Node /\ m.inst \in Nat
  BY <1>0, MessageFields
<1>2. /\ state[m.from].instance_number \in Nat /\ state'[m.from].instance_number \in Nat
      /\ acceptor[m.from].promised_id \in MaybePid /\ acceptor'[m.from].promised_id \in MaybePid
      /\ proposer[m.from].proposal_id \in MaybePid /\ proposer'[m.from].proposal_id \in MaybePid
  BY <1>0, <1>1, NodeTypes, BoundAssumption DEF TypeOK, State, Instance, Acceptor, Proposer, MaybePid
<1>3. m.type = "promise" => PromiseInv(m)'
  <2> SUFFICES ASSUME m.type = "promise" PROVE PromiseInv(m)'
    OBVIOUS
  <2>1. PromiseInv(m)
    BY <1>0 DEF MsgInv
  <2>2. m.id \in MaybePid
    BY <1>0, MessageFields DEF MaybePid
  <2>3. m.aid # NoId => m.aval \in Value /\ Voted(m.from, m.inst, m.aid, m.aval)'
    BY <2>1 DEF PromiseInv, Voted, Progress
  <2>4. \A c \in Pid : Lt(m.aid, c) /\ Lt(c, m.id) => WontVote(m.from, m.inst, c)'
    BY <1>0, <1>1, <2>1, WontVoteStable DEF PromiseInv
  <2>5. \/ state'[m.from].instance_number > m.inst
        \/ /\ state'[m.from].instance_number = m.inst
           /\ Le(m.id, acceptor'[m.from].promised_id)
    BY <1>1, <1>2, <2>1, <2>2, LeTrans DEF PromiseInv, Progress
  <2> QED BY <2>1, <2>3, <2>4, <2>5 DEF PromiseInv
<1>4. m.type = "accept" => AcceptInv(m)'
  <2> SUFFICES ASSUME m.type = "accept" PROVE AcceptInv(m)'
    OBVIOUS
  <2>1. AcceptInv(m) /\ m.id \in MaybePid
    BY <1>0, MessageFields DEF MsgInv, MaybePid
  <2>2. SafeAt(m.inst, m.id, m.val)'
    BY <1>0, <1>1, <2>1, SafeAtStable DEF AcceptInv
  <2>3. \/ state'[m.from].instance_number > m.inst
        \/ /\ state'[m.from].instance_number = m.inst
           /\ \/ Lt(m.id, proposer'[m.from].proposal_id)
              \/ m.id = proposer'[m.from].proposal_id /\ proposer'[m.from].leader
    BY <1>1, <1>2, <2>1, LtTrans DEF AcceptInv, Progress
  <2> QED BY <2>1, <2>2, <2>3 DEF AcceptInv
<1> QED BY <1>0, <1>3, <1>4 DEF MsgInv, Progress

-----------------------------------------------------------------------------
(* What a node does not touch keeps its invariant.                          *)
LEMMA FrameAcceptor ==
    ASSUME NEW k \in Node, AcceptorInv(k), msgs \subseteq msgs',
           state'[k].instance_number = state[k].instance_number, acceptor'[k] = acceptor[k],
           \A m \in msgs' \ msgs : ~(m.type = "accepted" /\ m.from = k)
    PROVE  AcceptorInv(k)'
BY DEF AcceptorInv, Voted

LEMMA FrameProposer ==
    ASSUME NEW k \in Node, ProposerInv(k), msgs \subseteq msgs',
           state'[k].instance_number = state[k].instance_number, proposer'[k] = proposer[k]
    PROVE  ProposerInv(k)'
<1>1. ASSUME NEW q \in proposer[k].promises_received
      PROVE  \E m \in msgs' : /\ m.type = "promise" /\ m.from = q /\ m.to = k
                              /\ m.inst = state[k].instance_number /\ m.id = proposer[k].proposal_id
                              /\ Le(m.aid, proposer[k].highest_accepted_id)
  BY <1>1 DEF ProposerInv
<1>2. proposer[k].highest_accepted_id # NoId =>
        \E a \in Node : /\ proposer[k].proposed_value \in Value
                        /\ AcceptedMsg(a, state[k].instance_number, proposer[k].highest_accepted_id,
                                       proposer[k].proposed_value) \in msgs'
  BY DEF ProposerInv, Voted
<1> QED BY <1>1, <1>2 DEF ProposerInv, Voted

LEMMA FrameTask ==
    ASSUME NEW k \in Node, TaskInv(k), msgs \subseteq msgs',
           state'[k].instance_number = state[k].instance_number, retransmit'[k] = retransmit[k]
    PROVE  TaskInv(k)'
BY DEF TaskInv

LEMMA FrameLearner ==
    ASSUME NEW k \in Node, LearnerInv(k), msgs \subseteq msgs',
           state'[k].instance_number = state[k].instance_number, learner'[k] = learner[k]
    PROVE  LearnerInv(k)'
<1> SUFFICES ASSUME NEW id \in DOMAIN learner[k].proposals
             PROVE  \E S \in SUBSET Node :
                       /\ Cardinality(S) = learner[k].proposals[id].accept_count
                       /\ \A u \in S : /\ Voted(u, state[k].instance_number, id, learner[k].proposals[id].value)'
                                       /\ Le(id, learner[k].acceptors[u])
  BY DEF LearnerInv, Voted
<1>1. PICK S \in SUBSET Node :
         /\ Cardinality(S) = learner[k].proposals[id].accept_count
         /\ \A u \in S : /\ Voted(u, state[k].instance_number, id, learner[k].proposals[id].value)
                         /\ Le(id, learner[k].acceptors[u])
  BY DEF LearnerInv
<1> QED BY <1>1 DEF Voted

LEMMA FrameNode ==
    ASSUME NEW k \in Node, NodeInv(k), msgs \subseteq msgs',
           state'[k] = state[k], acceptor'[k] = acceptor[k],
           proposer'[k] = proposer[k], retransmit'[k] = retransmit[k], learner'[k] = learner[k],
           \A m \in msgs' \ msgs : ~(m.type = "accepted" /\ m.from = k)
    PROVE  NodeInv(k)'
<1>1. state'[k].instance_number = state[k].instance_number
  OBVIOUS
<1>2. AcceptorInv(k)' /\ ProposerInv(k)' /\ TaskInv(k)' /\ LearnerInv(k)'
  BY <1>1, FrameAcceptor, FrameProposer, FrameTask, FrameLearner DEF NodeInv
<1> QED BY <1>2 DEF NodeInv

LEMMA FrameUpdates ==
    ASSUME UpdatesInv, msgs \subseteq msgs', updates' = updates,
           \A k \in Node : /\ state'[k].instance_number = state[k].instance_number
                           /\ state'[k].current_value = state[k].current_value
    PROVE  UpdatesInv'
<1>1. ASSUME NEW e \in updates
      PROVE  e[1] > 0 /\ \E id \in Pid : Chosen(e[1] - 1, id, e[2])'
  <2>1. PICK id \in Pid : Chosen(e[1] - 1, id, e[2])
    BY <1>1 DEF UpdatesInv
  <2>2. Chosen(e[1] - 1, id, e[2])'
    BY <2>1, ChosenStable
  <2> QED BY <1>1, <2>2 DEF UpdatesInv
<1> QED BY <1>1 DEF UpdatesInv

(* A step that sends no Accept.                                             *)
LEMMA FrameAccepts ==
    ASSUME OneValuePerProposal, PreparedAccepts, msgs \subseteq msgs',
           \A m \in msgs' \ msgs : m.type # "accept"
    PROVE  OneValuePerProposal' /\ PreparedAccepts'
<1>1. Accepts' = Accepts
  BY DEF Accepts
<1>2. ASSUME NEW m \in Accepts
      PROVE  IsMajority({n \in Node : \E p \in msgs' :
                            /\ p.type = "promise" /\ p.from = n /\ p.to = m.from
                            /\ p.inst = m.inst /\ p.id = m.id})
  <2> DEFINE S == {n \in Node : \E p \in msgs : /\ p.type = "promise" /\ p.from = n /\ p.to = m.from
                                                /\ p.inst = m.inst /\ p.id = m.id}
             T == {n \in Node : \E p \in msgs' : /\ p.type = "promise" /\ p.from = n /\ p.to = m.from
                                                 /\ p.inst = m.inst /\ p.id = m.id}
  <2>1. S \in SUBSET Node /\ T \in SUBSET Node /\ S \subseteq T
    OBVIOUS
  <2>2. IsMajority(S)
    BY <1>2 DEF PreparedAccepts
  <2> QED BY <2>1, <2>2, MajorityGrows
<1>3. PreparedAccepts'
  BY <1>1, <1>2 DEF PreparedAccepts, IsMajority
<1> QED BY <1>1, <1>3 DEF OneValuePerProposal

-----------------------------------------------------------------------------
(***************************************************************************)
(* Every step preserves the invariant, action by action.                   *)
(***************************************************************************)
LEMMA Assemble ==
    ASSUME IInv, TypeOK', Progress, \A m \in msgs' \ msgs : MsgInv(m)',
           OneValuePerProposal', PreparedAccepts', \A k \in Node : NodeInv(k)', UpdatesInv'
    PROVE  IInv'
<1>1. \A m \in msgs' : MsgInv(m)'
  BY OldMessages
<1> QED BY <1>1 DEF IInv

(* prepare() picks an id above every id the proposer has used or seen.      *)
LEMMA PrepareGrows ==
    ASSUME NEW n \in Node, NEW p \in Proposer, Le(p.proposal_id, p.highest_proposal_id)
    PROVE  /\ Lt(p.proposal_id, Prepare(p, n).proposal_id)
           /\ Prepare(p, n).proposal_id[2] = n
           /\ Prepare(p, n).proposal_id = Prepare(p, n).highest_proposal_id
           /\ Prepare(p, n).highest_accepted_id = p.highest_accepted_id
           /\ Prepare(p, n).proposed_value = p.proposed_value
           /\ Prepare(p, n).promises_received = {}
           /\ ~Prepare(p, n).leader
<1>1. /\ p.proposal_id \in MaybePid /\ p.highest_proposal_id \in MaybePid
      /\ p.highest_proposal_id \in Pid /\ NextNumber(p) \in Nat
      /\ p.highest_proposal_id[1] \in Nat
  BY DEF Proposer, MaybePid, Pid, NextNumber
<1>2. <<NextNumber(p), n>> \in MaybePid
  BY <1>1 DEF MaybePid, Pid
<1>3. Lt(p.highest_proposal_id, <<NextNumber(p), n>>)
  BY <1>1 DEF Lt, NextNumber
<1>4. Lt(p.proposal_id, <<NextNumber(p), n>>)
  BY <1>1, <1>2, <1>3, LeLtTrans
<1>5. /\ Prepare(p, n).proposal_id = <<NextNumber(p), n>>
      /\ Prepare(p, n).highest_proposal_id = <<NextNumber(p), n>>
      /\ Prepare(p, n).highest_accepted_id = p.highest_accepted_id
      /\ Prepare(p, n).proposed_value = p.proposed_value
      /\ Prepare(p, n).promises_received = {}
      /\ ~Prepare(p, n).leader
  BY DEF Prepare, Proposer
<1> QED BY <1>4, <1>5

LEMMA DriveInv ==
    ASSUME IInv, TypeOK', NEW n \in Node, NEW p \in Proposer,
           p.proposal_id = proposer[n].proposal_id,
           p.highest_proposal_id = proposer[n].highest_proposal_id,
           p.highest_accepted_id = proposer[n].highest_accepted_id,
           p.highest_accepted_id # NoId => p.proposed_value = proposer[n].proposed_value,
           DriveToResolution(n, p), UNCHANGED <<state, acceptor, learner, updates>>
    PROVE  IInv'
<1> DEFINE r == Prepare(p, n)
           x == PrepareMsg(n, inst(n), r.proposal_id)
<1>0. TypeOK /\ NodeInv(n) /\ ProposerInv(n) /\ AcceptorInv(n) /\ LearnerInv(n)
  BY DEF IInv, NodeInv
<1>1. r \in Proposer /\ r.proposal_id \in Pid /\ r.proposal_id \in MaybePid
  BY PrepareType DEF MaybePid
<1>2. /\ Lt(proposer[n].proposal_id, r.proposal_id)
      /\ r.proposal_id[2] = n
      /\ r.proposal_id = r.highest_proposal_id
      /\ r.highest_accepted_id = p.highest_accepted_id
      /\ r.proposed_value = p.proposed_value
      /\ r.promises_received = {}
  BY <1>0, PrepareGrows DEF ProposerInv
<1>3. /\ proposer' = [proposer EXCEPT ![n] = r]
      /\ retransmit' = [retransmit EXCEPT ![n] = PrepareTask(r.proposal_id)]
      /\ msgs' = msgs \cup {x}
  BY DEF DriveToResolution, StartTask, Send, TaskMsg, PrepareTask
<1>4. /\ x.type = "prepare" /\ x.from = n /\ x.id = r.proposal_id
      /\ PrepareTask(r.proposal_id).send = "prepare" /\ PrepareTask(r.proposal_id).id = r.proposal_id
  BY DEF PrepareMsg, PrepareTask
<1> HIDE DEF r, x
<1>5. proposer'[n] = r /\ retransmit'[n] = PrepareTask(r.proposal_id)
  BY <1>0, <1>3 DEF TypeOK
<1>6. \A k \in Node : k # n => proposer'[k] = proposer[k] /\ retransmit'[k] = retransmit[k]
  BY <1>0, <1>3 DEF TypeOK
<1>7. Progress
  <2>1. ASSUME NEW k \in Node
        PROVE  \/ Lt(proposer[k].proposal_id, proposer'[k].proposal_id)
               \/ /\ proposer'[k].proposal_id = proposer[k].proposal_id
                  /\ proposer[k].leader => proposer'[k].leader
    BY <1>2, <1>5, <1>6
  <2> QED BY <1>3, <1>4, <2>1 DEF Progress, Le
<1>8. \A m \in msgs' \ msgs : MsgInv(m)'
  BY <1>2, <1>3, <1>4 DEF MsgInv
<1>9. OneValuePerProposal' /\ PreparedAccepts'
  BY <1>3, <1>4, FrameAccepts DEF IInv
<1>10. ProposerInv(n)'
  <2>1. Lt(r.highest_accepted_id, r.proposal_id)
    BY <1>0, <1>1, <1>2, NodeTypes, LtTrans DEF ProposerInv
  <2>2. r.highest_accepted_id # NoId =>
          \E a \in Node : /\ r.proposed_value \in Value
                          /\ AcceptedMsg(a, state[n].instance_number, r.highest_accepted_id,
                                         r.proposed_value) \in msgs'
    BY <1>0, <1>2, <1>3 DEF ProposerInv, Voted
  <2> QED BY <1>2, <1>5, <2>1, <2>2 DEF ProposerInv, Voted, Le
<1>11. TaskInv(n)'
  BY <1>2, <1>4, <1>5 DEF TaskInv
<1>12. AcceptorInv(n)' /\ LearnerInv(n)'
  BY <1>0, <1>3, <1>4, FrameAcceptor, FrameLearner
<1>13. ASSUME NEW k \in Node PROVE NodeInv(k)'
  <2>1. CASE k = n
    BY <2>1, <1>10, <1>11, <1>12 DEF NodeInv
  <2>2. CASE k # n
    BY <2>2, <1>3, <1>4, <1>6, FrameNode DEF IInv
  <2> QED BY <2>1, <2>2
<1>14. UpdatesInv'
  BY <1>3, FrameUpdates DEF IInv
<1> QED BY <1>7, <1>8, <1>9, <1>13, <1>14, Assemble

LEMMA ProposeUpdateInv ==
    ASSUME IInv, TypeOK', NEW n \in Node, NEW v \in Value, ProposeUpdate(n, v)
    PROVE  IInv'
<1> DEFINE p == ProposeValue(proposer[n], v)
<1>0. TypeOK /\ ProposerInv(n) /\ proposer[n] \in Proposer
  BY DEF IInv, NodeInv, TypeOK
<1>1. p \in Proposer
  BY <1>0, ProposeValueType
<1>2. /\ p.proposal_id = proposer[n].proposal_id
      /\ p.highest_proposal_id = proposer[n].highest_proposal_id
      /\ p.highest_accepted_id = proposer[n].highest_accepted_id
      /\ proposer[n].proposed_value # NoValue => p.proposed_value = proposer[n].proposed_value
  BY <1>0 DEF ProposeValue, Proposer
<1>3. p.highest_accepted_id # NoId => proposer[n].proposed_value # NoValue
  BY <1>0, <1>2, ValueAssumption DEF ProposerInv
<1>4. DriveToResolution(n, p) /\ UNCHANGED <<state, acceptor, learner, updates>>
  BY DEF ProposeUpdate
<1> HIDE DEF p
<1> QED BY <1>1, <1>2, <1>3, <1>4, DriveInv

LEMMA DelayedDriveInv ==
    ASSUME IInv, TypeOK', NEW n \in Node, DelayedDrive(n)
    PROVE  IInv'
<1>1. proposer[n] \in Proposer
  BY DEF IInv, TypeOK
<1> QED BY <1>1, DriveInv DEF DelayedDrive

(* A step that only sends a message that is no promise, accept or vote.     *)
LEMMA SendOnlyInv ==
    ASSUME IInv, TypeOK', UNCHANGED <<state, proposer, acceptor, learner, retransmit, updates>>,
           msgs \subseteq msgs',
           \A m \in msgs' \ msgs : m.type \notin {"promise", "accept", "accepted"} /\ MsgInv(m)'
    PROVE  IInv'
<1>1. Progress
  BY DEF Progress, Le
<1>2. OneValuePerProposal' /\ PreparedAccepts'
  BY FrameAccepts DEF IInv
<1>3. ASSUME NEW k \in Node PROVE NodeInv(k)'
  BY FrameNode DEF IInv
<1>4. UpdatesInv'
  BY FrameUpdates DEF IInv
<1> QED BY <1>1, <1>2, <1>3, <1>4, Assemble

LEMMA RetransmitInv ==
    ASSUME IInv, TypeOK', NEW n \in Node, Retransmit(n)
    PROVE  IInv'
<1> DEFINE t == retransmit[n]
           x == TaskMsg(n, t)
<1>1. t \in Task /\ t # NoTask /\ TaskInv(n) /\ TypeOK
  BY DEF IInv, NodeInv, TypeOK, Retransmit
<1>2. msgs' = msgs \cup {x} /\ UNCHANGED <<state, proposer, acceptor, learner, retransmit, updates>>
  BY DEF Retransmit, Send
<1>3. CASE t.send = "prepare"
  <2>1. x.type = "prepare" /\ x.from = n /\ x.id = t.id
    BY <1>3 DEF TaskMsg, PrepareMsg
  <2>2. x.id[2] = x.from
    BY <1>1, <1>3, <2>1 DEF TaskInv
  <2> HIDE DEF x, t
  <2>3. \A y \in msgs' \ msgs : y.type \notin {"promise", "accept", "accepted"} /\ MsgInv(y)'
    BY <1>2, <2>1, <2>2 DEF MsgInv
  <2> QED BY <1>2, <2>3, SendOnlyInv
<1>4. CASE t.send = "accept"
  <2>1. x \in msgs
    BY <1>1, <1>4 DEF TaskMsg, TaskInv, inst
  <2>2. msgs' \ msgs = {}
    BY <1>2, <2>1
  <2> QED BY <1>2, <2>2, SendOnlyInv
<1> QED BY <1>1, <1>3, <1>4 DEF Task, NoTask

LEMMA SendSyncRequestInv ==
    ASSUME IInv, TypeOK', NEW n \in Node, NEW peer \in Node, SendSyncRequest(n, peer)
    PROVE  IInv'
<1> DEFINE x == SyncMsg(n, peer, inst(n))
<1>1. msgs' = msgs \cup {x} /\ UNCHANGED <<state, proposer, acceptor, learner, retransmit, updates>>
  BY DEF SendSyncRequest, Send
<1>2. x.type = "sync_request"
  BY DEF SyncMsg
<1> HIDE DEF x
<1>3. \A y \in msgs' \ msgs : y.type \notin {"promise", "accept", "accepted"} /\ MsgInv(y)'
  BY <1>1, <1>2 DEF MsgInv
<1> QED BY <1>1, <1>3, SendOnlyInv

LEMMA ReceiveSyncRequestInv ==
    ASSUME IInv, TypeOK', NEW n \in Node, NEW m \in msgs, ReceiveSyncRequest(n, m)
    PROVE  IInv'
<1> DEFINE x == CatchupMsg(n, m.from, inst(n), state[n].current_value)
<1>1. msgs' = msgs \cup {x} /\ UNCHANGED <<state, proposer, acceptor, learner, retransmit, updates>>
  BY DEF ReceiveSyncRequest, Send
<1>2. x.type = "catchup" /\ x.inst = inst(n) /\ x.val = state[n].current_value
  BY DEF CatchupMsg
<1>3. inst(n) > 0
  <2>1. m.inst \in Nat /\ inst(n) \in Nat
    BY MessageFields, NodeTypes DEF IInv, TypeOK, inst
  <2> QED BY <2>1 DEF ReceiveSyncRequest
<1>4. <<x.inst, x.val>> \in updates
  BY <1>2, <1>3 DEF IInv, UpdatesInv, inst
<1> HIDE DEF x
<1>5. \A y \in msgs' \ msgs : y.type \notin {"promise", "accept", "accepted"} /\ MsgInv(y)'
  BY <1>1, <1>2, <1>4 DEF MsgInv
<1> QED BY <1>1, <1>5, SendOnlyInv

(* observe_proposal only raises the highest id seen.                        *)
LEMMA ObserveFacts ==
    ASSUME NEW p \in Proposer, NEW id \in MaybePid
    PROVE  LET q == ObserveProposal(p, id) IN
           /\ q \in Proposer
           /\ q.leader = p.leader /\ q.proposed_value = p.proposed_value
           /\ q.proposal_id = p.proposal_id /\ q.highest_accepted_id = p.highest_accepted_id
           /\ q.promises_received = p.promises_received /\ q.nacks_received = p.nacks_received
           /\ Le(p.proposal_id, p.highest_proposal_id) => Le(q.proposal_id, q.highest_proposal_id)
<1> DEFINE q == ObserveProposal(p, id)
<1>1. q \in Proposer
  BY ObserveProposalType
<1>2. /\ q.leader = p.leader /\ q.proposed_value = p.proposed_value
      /\ q.proposal_id = p.proposal_id /\ q.highest_accepted_id = p.highest_accepted_id
      /\ q.promises_received = p.promises_received /\ q.nacks_received = p.nacks_received
      /\ q.highest_proposal_id = p.highest_proposal_id \/ Lt(p.highest_proposal_id, q.highest_proposal_id)
  BY DEF ObserveProposal, Proposer
<1>3. /\ p.proposal_id \in MaybePid /\ p.highest_proposal_id \in MaybePid
      /\ q.highest_proposal_id \in MaybePid
  BY <1>1 DEF Proposer, MaybePid
<1>4. Le(p.proposal_id, p.highest_proposal_id) => Le(q.proposal_id, q.highest_proposal_id)
  BY <1>2, <1>3, LeTrans DEF Le
<1> QED BY <1>1, <1>2, <1>4

(* What a nack does to the proposer.                                        *)
LEMMA NackFacts ==
    ASSUME NEW n \in Node, NEW p \in Proposer, NEW from \in Node, NEW id \in Pid,
           NEW promised \in MaybePid, Le(p.proposal_id, p.highest_proposal_id), p.proposal_id[2] = n
    PROVE  LET r == ProposerNack(p, n, from, id, promised) IN
           /\ r.proposal_id[2] = n /\ Le(r.proposal_id, r.highest_proposal_id)
           /\ r.highest_accepted_id = p.highest_accepted_id
           /\ r.proposed_value = p.proposed_value
           /\ \/ Lt(p.proposal_id, r.proposal_id) /\ r.promises_received = {}
              \/ /\ r.proposal_id = p.proposal_id /\ r.leader = p.leader
                 /\ r.promises_received = p.promises_received
<1> DEFINE q == ObserveProposal(p, promised)
           s == [q EXCEPT !.nacks_received = @ \cup {from}]
           r == ProposerNack(p, n, from, id, promised)
<1>1. /\ q \in Proposer /\ q.leader = p.leader /\ q.proposed_value = p.proposed_value
      /\ q.proposal_id = p.proposal_id /\ q.highest_accepted_id = p.highest_accepted_id
      /\ q.promises_received = p.promises_received /\ Le(q.proposal_id, q.highest_proposal_id)
  BY ObserveFacts
<1> HIDE DEF q
<1>2. /\ s \in Proposer /\ s.leader = p.leader /\ s.proposed_value = p.proposed_value
      /\ s.proposal_id = p.proposal_id /\ s.highest_accepted_id = p.highest_accepted_id
      /\ s.promises_received = p.promises_received /\ Le(s.proposal_id, s.highest_proposal_id)
  BY <1>1 DEF Proposer
<1> HIDE DEF s
<1>3. /\ Lt(s.proposal_id, Prepare(s, n).proposal_id)
      /\ Prepare(s, n).proposal_id[2] = n
      /\ Le(Prepare(s, n).proposal_id, Prepare(s, n).highest_proposal_id)
      /\ Prepare(s, n).highest_accepted_id = p.highest_accepted_id
      /\ Prepare(s, n).proposed_value = p.proposed_value
      /\ Prepare(s, n).promises_received = {}
  BY <1>2, PrepareGrows DEF Le
<1>4. r = q \/ r = s \/ r = Prepare(s, n)
  BY DEF ProposerNack, q, s
<1> QED BY <1>1, <1>2, <1>3, <1>4

LEMMA ReceiveNackInv ==
    ASSUME IInv, TypeOK', NEW n \in Node, NEW m \in msgs, ReceiveNack(n, m)
    PROVE  IInv'
<1> DEFINE p == proposer[n]
           r == ProposerNack(p, n, m.from, m.id, m.promised)
<1>0. TypeOK /\ ProposerInv(n) /\ AcceptorInv(n) /\ LearnerInv(n) /\ p \in Proposer
  BY DEF IInv, NodeInv, TypeOK
<1>1. m.from \in Node /\ m.id \in Pid /\ m.promised \in MaybePid
  BY MessageFields, <1>0 DEF ReceiveNack, TypeOK
<1>2. /\ r.proposal_id[2] = n /\ Le(r.proposal_id, r.highest_proposal_id)
      /\ r.highest_accepted_id = p.highest_accepted_id
      /\ r.proposed_value = p.proposed_value
      /\ \/ Lt(p.proposal_id, r.proposal_id) /\ r.promises_received = {}
         \/ /\ r.proposal_id = p.proposal_id /\ r.leader = p.leader
            /\ r.promises_received = p.promises_received
  BY <1>0, <1>1, NackFacts DEF ProposerInv
<1>3. r \in Proposer /\ r.proposal_id \in MaybePid
  BY <1>0, <1>1, ProposerNackType DEF Proposer, MaybePid
<1>4. /\ proposer' = [proposer EXCEPT ![n] = r] /\ retransmit' = [retransmit EXCEPT ![n] = NoTask]
      /\ UNCHANGED <<state, acceptor, learner, msgs, updates>>
  BY DEF ReceiveNack
<1> HIDE DEF r
<1>5. /\ proposer'[n] = r /\ retransmit'[n] = NoTask
      /\ \A k \in Node : k # n => proposer'[k] = proposer[k] /\ retransmit'[k] = retransmit[k]
  BY <1>0, <1>4 DEF TypeOK
<1>6. Progress
  BY <1>2, <1>4, <1>5 DEF Progress, Le
<1>7. ProposerInv(n)'
  <2>1. Lt(r.highest_accepted_id, r.proposal_id)
    BY <1>0, <1>2, <1>3, NodeTypes, LtTrans DEF ProposerInv
  <2> QED BY <1>0, <1>2, <1>4, <1>5, <2>1 DEF ProposerInv, Voted
<1>8. TaskInv(n)'
  BY <1>5 DEF TaskInv, NoTask
<1>9. AcceptorInv(n)' /\ LearnerInv(n)'
  BY <1>0, <1>4, FrameAcceptor, FrameLearner
<1>10. ASSUME NEW k \in Node PROVE NodeInv(k)'
  <2>1. CASE k = n
    BY <2>1, <1>7, <1>8, <1>9 DEF NodeInv
  <2>2. CASE k # n
    BY <2>2, <1>4, <1>5, FrameNode DEF IInv
  <2> QED BY <2>1, <2>2
<1>11. UpdatesInv' /\ OneValuePerProposal' /\ PreparedAccepts'
  BY <1>4, FrameUpdates, FrameAccepts DEF IInv
<1> QED BY <1>4, <1>6, <1>10, <1>11, Assemble

LEMMA ObserveInv ==
    ASSUME IInv, NEW n \in Node, NEW id \in MaybePid, msgs \subseteq msgs',
           proposer' = [proposer EXCEPT ![n] = ObserveProposal(proposer[n], id)],
           state'[n].instance_number = state[n].instance_number
    PROVE  /\ ProposerInv(n)'
           /\ \A k \in Node : /\ proposer'[k].proposal_id = proposer[k].proposal_id
                              /\ proposer'[k].leader = proposer[k].leader
           /\ \A k \in Node : k # n => proposer'[k] = proposer[k]
<1> DEFINE q == ObserveProposal(proposer[n], id)
<1>0. TypeOK /\ ProposerInv(n) /\ proposer[n] \in Proposer
  BY DEF IInv, NodeInv, TypeOK
<1>1. proposer'[n] = q /\ \A k \in Node : k # n => proposer'[k] = proposer[k]
  BY <1>0 DEF TypeOK
<1>2. /\ q.leader = proposer[n].leader /\ q.proposed_value = proposer[n].proposed_value
      /\ q.proposal_id = proposer[n].proposal_id
      /\ q.highest_accepted_id = proposer[n].highest_accepted_id
      /\ q.promises_received = proposer[n].promises_received
      /\ Le(q.proposal_id, q.highest_proposal_id)
  BY <1>0, ObserveFacts DEF ProposerInv
<1> HIDE DEF q
<1>3. \A u \in q.promises_received : \E m \in msgs' :
          /\ m.type = "promise" /\ m.from = u /\ m.to = n
          /\ m.inst = state[n].instance_number /\ m.id = q.proposal_id
          /\ Le(m.aid, q.highest_accepted_id)
  BY <1>0, <1>2 DEF ProposerInv
<1>4. q.highest_accepted_id # NoId =>
        \E a \in Node : /\ q.proposed_value \in Value
                        /\ AcceptedMsg(a, state[n].instance_number, q.highest_accepted_id,
                                       q.proposed_value) \in msgs'
  BY <1>0, <1>2 DEF ProposerInv, Voted
<1>5. ProposerInv(n)'
  BY <1>0, <1>1, <1>2, <1>3, <1>4 DEF ProposerInv, Voted
<1> QED BY <1>1, <1>2, <1>5

LEMMA ReceivePrepareInv ==
    ASSUME IInv, TypeOK', NEW n \in Node, NEW m \in msgs, ReceivePrepare(n, m)
    PROVE  IInv'
<1> DEFINE a == acceptor[n]
           i == state[n].instance_number
           x == IF Admits(a, m.id)
                THEN PromiseMsg(n, m.from, m.inst, m.id, a.accepted_id, a.accepted_value)
                ELSE NackMsg(n, m.from, m.inst, m.id, state[n].promised_id)
<1>0. /\ TypeOK /\ AcceptorInv(n) /\ LearnerInv(n) /\ TaskInv(n) /\ MsgInv(m)
      /\ a \in Acceptor
  BY DEF IInv, NodeInv, TypeOK
<1>1. /\ m.from \in Node /\ m.id \in Pid /\ m.id \in MaybePid /\ m.inst = i /\ m.id[2] = m.from
      /\ i \in Nat
  BY <1>0, MessageFields, NodeTypes DEF ReceivePrepare, IsCurrent, inst, TypeOK, MaybePid, MsgInv
<1>2. /\ acceptor' = [acceptor EXCEPT ![n] = AcceptorPrepare(a, m.id)]
      /\ proposer' = [proposer EXCEPT ![n] = ObserveProposal(proposer[n], m.id)]
      /\ msgs' = msgs \cup {x}
      /\ UNCHANGED <<learner, retransmit, updates>>
  BY DEF ReceivePrepare, Send
<1>3. /\ \A k \in Node : state'[k].instance_number = state[k].instance_number
      /\ \A k \in Node : state'[k].current_value = state[k].current_value
      /\ \A k \in Node : k # n => state'[k] = state[k]
  <2> DEFINE s == SavedState(inst(n), state[n].current_value, m.id, a.accepted_id, a.accepted_value)
  <2>1. s.instance_number = state[n].instance_number /\ s.current_value = state[n].current_value
    BY DEF SavedState, inst
  <2>2. state' = state \/ state' = [state EXCEPT ![n] = s]
    BY DEF ReceivePrepare
  <2> HIDE DEF s
  <2> QED BY <1>0, <2>1, <2>2 DEF TypeOK
<1>4. /\ x.type \in {"promise", "nack"}
      /\ x.type = "promise" => /\ Admits(a, m.id)
                               /\ x = PromiseMsg(n, m.from, m.inst, m.id, a.accepted_id, a.accepted_value)
  BY DEF PromiseMsg, NackMsg
<1>5. \A y \in msgs' \ msgs : y.type \notin {"accept", "accepted"}
  BY <1>2, <1>4
<1> HIDE DEF x
<1>6. /\ \A k \in Node : k # n => acceptor'[k] = acceptor[k]
      /\ acceptor'[n].accepted_id = a.accepted_id /\ acceptor'[n].accepted_value = a.accepted_value
      /\ Admits(a, m.id) => acceptor'[n].promised_id = m.id
      /\ ~Admits(a, m.id) => acceptor'[n].promised_id = a.promised_id
  BY <1>0, <1>2 DEF TypeOK, AcceptorPrepare, Acceptor
<1>7. /\ ProposerInv(n)'
      /\ \A k \in Node : /\ proposer'[k].proposal_id = proposer[k].proposal_id
                         /\ proposer'[k].leader = proposer[k].leader
      /\ \A k \in Node : k # n => proposer'[k] = proposer[k]
  BY <1>1, <1>2, <1>3, ObserveInv
<1>8. Le(a.promised_id, acceptor'[n].promised_id) /\ Le(a.accepted_id, acceptor'[n].promised_id)
  <2>1. a.promised_id \in MaybePid /\ a.accepted_id \in MaybePid /\ acceptor'[n].promised_id \in MaybePid
    BY <1>0, <1>1, <1>6 DEF Acceptor
  <2>2. Le(a.promised_id, acceptor'[n].promised_id)
    BY <1>6 DEF Admits, Le
  <2> QED BY <1>0, <2>1, <2>2, LeTrans DEF AcceptorInv
<1>9. Progress
  BY <1>2, <1>3, <1>5, <1>6, <1>7, <1>8 DEF Progress, Le
<1>10. ASSUME NEW y \in msgs' \ msgs PROVE MsgInv(y)'
  <2>1. y = x
    BY <1>2, <1>10
  <2>2. CASE y.type = "nack"
    BY <2>2 DEF MsgInv
  <2>3. CASE y.type = "promise"
    <3>1. /\ y.from = n /\ y.to = m.from /\ y.inst = i /\ y.id = m.id
          /\ y.aid = a.accepted_id /\ y.aval = a.accepted_value
      BY <1>1, <1>4, <2>1, <2>3 DEF PromiseMsg
    <3>2. acceptor'[n].promised_id = m.id
      BY <1>4, <1>6, <2>1, <2>3
    <3>3. y.aid # NoId => y.aval \in Value /\ Voted(y.from, y.inst, y.aid, y.aval)'
      BY <1>0, <1>2, <3>1 DEF AcceptorInv, Voted
    <3>4. ASSUME NEW c \in Pid, Lt(y.aid, c), Lt(c, y.id)
          PROVE  WontVote(y.from, y.inst, c)'
      <4>1. Closed(y.from, y.inst, c)'
        BY <1>3, <3>1, <3>2, <3>4 DEF Closed
      <4>2. ASSUME NEW w \in Value, AcceptedMsg(n, i, c, w) \in msgs'
            PROVE  FALSE
        <5>1. AcceptedMsg(n, i, c, w) \in msgs
          BY <1>5, <4>2, AcceptedMsgFields
        <5>2. Le(c, a.accepted_id)
          BY <1>0, <1>1, <5>1, AcceptedMsgFields DEF AcceptorInv
        <5> QED BY <1>0, <3>1, <3>4, <5>2, LtIrreflexive DEF Acceptor, MaybePid
      <4> QED BY <3>1, <4>1, <4>2 DEF WontVote, Voted
    <3>5. PromiseInv(y)'
      BY <1>1, <1>3, <1>8, <3>1, <3>2, <3>3, <3>4 DEF PromiseInv, Le
    <3> QED BY <2>3, <3>5 DEF MsgInv
  <2> QED BY <1>4, <2>1, <2>2, <2>3
<1>11. OneValuePerProposal' /\ PreparedAccepts' /\ UpdatesInv'
  BY <1>2, <1>3, <1>5, FrameAccepts, FrameUpdates DEF IInv
<1>12. AcceptorInv(n)'
  BY <1>0, <1>2, <1>3, <1>5, <1>6, <1>8 DEF AcceptorInv, Voted
<1>13. TaskInv(n)' /\ LearnerInv(n)'
  BY <1>0, <1>2, <1>3, FrameTask, FrameLearner
<1>14. ASSUME NEW k \in Node PROVE NodeInv(k)'
  <2>1. CASE k = n
    BY <2>1, <1>7, <1>12, <1>13 DEF NodeInv
  <2>2. CASE k # n
    BY <2>2, <1>2, <1>3, <1>5, <1>6, <1>7, FrameNode DEF IInv
  <2> QED BY <2>1, <2>2
<1> QED BY <1>9, <1>10, <1>11, <1>14, Assemble

LEMMA AcceptMsgShape ==
    ASSUME NEW m \in Message, m.type = "accept"
    PROVE  m = AcceptMsg(m.from, m.inst, m.id, m.val)
BY DEF Message, AcceptMsg

LEMMA ReceiveAcceptInv ==
    ASSUME IInv, TypeOK', NEW n \in Node, NEW m \in msgs, ReceiveAccept(n, m)
    PROVE  IInv'
<1> DEFINE a == acceptor[n]
           i == state[n].instance_number
           x == IF Admits(a, m.id)
                THEN AcceptedMsg(n, m.inst, m.id, m.val)
                ELSE NackMsg(n, m.from, m.inst, m.id, state[n].promised_id)
<1>0. /\ TypeOK /\ AcceptorInv(n) /\ LearnerInv(n) /\ TaskInv(n) /\ MsgInv(m)
      /\ a \in Acceptor /\ m \in Message /\ m.type = "accept"
  BY DEF IInv, NodeInv, TypeOK, ReceiveAccept
<1>1. /\ m.from \in Node /\ m.id \in Pid /\ m.id \in MaybePid /\ m.inst = i /\ m.id[2] = m.from
      /\ i \in Nat /\ m.val \in Value
  BY <1>0, MessageFields, NodeTypes DEF ReceiveAccept, IsCurrent, inst, MaybePid, MsgInv, AcceptInv
<1>2. /\ acceptor' = [acceptor EXCEPT ![n] = AcceptorAccept(a, m.id, m.val)]
      /\ proposer' = [proposer EXCEPT ![n] = ObserveProposal(proposer[n], m.id)]
      /\ msgs' = msgs \cup {x}
      /\ UNCHANGED <<learner, retransmit, updates>>
  BY DEF ReceiveAccept, Send
<1>3. /\ \A k \in Node : state'[k].instance_number = state[k].instance_number
      /\ \A k \in Node : state'[k].current_value = state[k].current_value
      /\ \A k \in Node : k # n => state'[k] = state[k]
  <2> DEFINE s == SavedState(inst(n), state[n].current_value, state[n].promised_id, m.id, m.val)
  <2>1. s.instance_number = state[n].instance_number /\ s.current_value = state[n].current_value
    BY DEF SavedState, inst
  <2>2. state' = state \/ state' = [state EXCEPT ![n] = s]
    BY DEF ReceiveAccept
  <2> HIDE DEF s
  <2> QED BY <1>0, <2>1, <2>2 DEF TypeOK
<1>4. /\ x.type \in {"accepted", "nack"}
      /\ x.type = "accepted" => /\ Admits(a, m.id)
                                /\ x = AcceptedMsg(n, i, m.id, m.val)
      /\ Admits(a, m.id) => x = AcceptedMsg(n, i, m.id, m.val)
  BY <1>1 DEF AcceptedMsg, NackMsg
<1> HIDE DEF x
<1>5. \A y \in msgs' \ msgs : y.type = "accepted" =>
          y.from = n /\ y.inst = i /\ y.id = m.id /\ y.val = m.val /\ Admits(a, m.id)
  BY <1>2, <1>4, AcceptedMsgFields
<1>6. /\ \A k \in Node : k # n => acceptor'[k] = acceptor[k]
      /\ Admits(a, m.id) => /\ acceptor'[n].promised_id = m.id /\ acceptor'[n].accepted_id = m.id
                            /\ acceptor'[n].accepted_value = m.val
      /\ ~Admits(a, m.id) => acceptor'[n] = a
  BY <1>0, <1>2 DEF TypeOK, AcceptorAccept
<1>7. /\ ProposerInv(n)'
      /\ \A k \in Node : /\ proposer'[k].proposal_id = proposer[k].proposal_id
                         /\ proposer'[k].leader = proposer[k].leader
      /\ \A k \in Node : k # n => proposer'[k] = proposer[k]
  BY <1>1, <1>2, <1>3, ObserveInv
<1>8. Progress
  <2>1. Le(a.promised_id, acceptor'[n].promised_id)
    BY <1>6 DEF Admits, Le
  <2> QED BY <1>2, <1>3, <1>5, <1>6, <1>7, <2>1 DEF Progress, Le, Admits
<1>9. ASSUME NEW y \in msgs' \ msgs PROVE MsgInv(y)'
  <2>1. y = x
    BY <1>2, <1>9
  <2>2. CASE y.type = "nack"
    BY <2>2 DEF MsgInv
  <2>3. CASE y.type = "accepted"
    <3>1. AcceptMsg(y.id[2], y.inst, y.id, y.val) \in msgs'
      BY <1>0, <1>1, <1>2, <1>5, <1>9, <2>3, AcceptMsgShape
    <3> QED BY <2>3, <3>1 DEF MsgInv
  <2> QED BY <1>4, <2>1, <2>2, <2>3
<1>10. OneValuePerProposal' /\ PreparedAccepts' /\ UpdatesInv'
  BY <1>2, <1>3, <1>4, FrameAccepts, FrameUpdates DEF IInv
<1>11. AcceptorInv(n)'
  <2>1. CASE ~Admits(a, m.id)
    BY <1>0, <1>2, <1>3, <1>5, <1>6, <2>1, FrameAcceptor
  <2>2. CASE Admits(a, m.id)
    <3>1. a.promised_id \in MaybePid /\ a.accepted_id \in MaybePid
      BY <1>0 DEF Acceptor
    <3>2. Le(a.accepted_id, m.id)
      BY <1>0, <1>1, <2>2, <3>1, LeTrans DEF AcceptorInv, Admits
    <3>3. Voted(n, i, m.id, m.val)'
      BY <1>2, <1>3, <1>4, <2>2 DEF Voted
    <3>4. ASSUME NEW y \in msgs', y.type = "accepted", y.from = n
          PROVE  y.inst < i \/ (y.inst = i /\ Le(y.id, m.id))
      <4>1. CASE y \in msgs
        <5>1. y.id \in MaybePid
          BY <1>0, <3>4, <4>1, MessageFields DEF TypeOK, MaybePid
        <5> QED BY <1>0, <1>1, <3>1, <3>2, <3>4, <4>1, <5>1, LeTrans DEF AcceptorInv
      <4>2. CASE y \notin msgs
        BY <1>5, <3>4, <4>2 DEF Le
      <4> QED BY <4>1, <4>2
    <3> QED BY <1>1, <1>3, <1>6, <2>2, <3>3, <3>4 DEF AcceptorInv, Le, Voted
  <2> QED BY <2>1, <2>2
<1>12. TaskInv(n)' /\ LearnerInv(n)'
  BY <1>0, <1>2, <1>3, FrameTask, FrameLearner
<1>13. ASSUME NEW k \in Node PROVE NodeInv(k)'
  <2>1. CASE k = n
    BY <2>1, <1>7, <1>11, <1>12 DEF NodeInv
  <2>2. CASE k # n
    BY <2>2, <1>2, <1>3, <1>5, <1>6, <1>7, FrameNode DEF IInv
  <2> QED BY <2>1, <2>2
<1> QED BY <1>8, <1>9, <1>10, <1>13, Assemble

(* Two votes at one id of a link are for one value.                         *)
LEMMA OneValueVoted ==
    ASSUME IInv, NEW a \in Node, NEW b \in Node, NEW i, NEW c, NEW v, NEW w,
           Voted(a, i, c, v), Voted(b, i, c, w)
    PROVE  v = w /\ AcceptMsg(c[2], i, c, v) \in msgs
<1>1. AcceptMsg(c[2], i, c, v) \in msgs /\ AcceptMsg(c[2], i, c, w) \in msgs
  <2>1. MsgInv(AcceptedMsg(a, i, c, v)) /\ MsgInv(AcceptedMsg(b, i, c, w))
    BY DEF IInv, Voted
  <2> QED BY <2>1, AcceptedMsgFields DEF MsgInv
<1>2. \A u : /\ AcceptMsg(c[2], i, c, u).type = "accept" /\ AcceptMsg(c[2], i, c, u).inst = i
             /\ AcceptMsg(c[2], i, c, u).id = c /\ AcceptMsg(c[2], i, c, u).val = u
  BY DEF AcceptMsg
<1> QED BY <1>1, <1>2 DEF IInv, OneValuePerProposal, Accepts

(* A proposer with the promises of a majority for id, whose value is that   *)
(* of the highest vote h they reported (or any value if they reported       *)
(* none), proposes a safe value.                                            *)
LEMMA LeaderSafe ==
    ASSUME IInv, NEW i \in Nat, NEW id \in Pid, NEW v \in Value, NEW h \in MaybePid,
           NEW Q \in SUBSET Node, IsMajority(Q), Lt(h, id),
           h # NoId => \E a \in Node : Voted(a, i, h, v),
           \A q \in Q : \E m \in msgs : /\ m.type = "promise" /\ m.from = q /\ m.inst = i
                                        /\ m.id = id /\ Le(m.aid, h)
    PROVE  SafeAt(i, id, v)
<1> SUFFICES ASSUME NEW c \in Pid, Lt(c, id)
             PROVE  \E R \in SUBSET Node : /\ IsMajority(R)
                                           /\ \A a \in R : Voted(a, i, c, v) \/ WontVote(a, i, c)
  BY DEF SafeAt
<1>0. TypeOK /\ c \in MaybePid /\ id \in MaybePid
  BY DEF IInv, MaybePid
<1>1. CASE Lt(h, c)
  <2>1. ASSUME NEW q \in Q PROVE WontVote(q, i, c)
    <3>1. PICK m \in msgs : /\ m.type = "promise" /\ m.from = q /\ m.inst = i
                            /\ m.id = id /\ Le(m.aid, h)
      BY <2>1
    <3>2. PromiseInv(m) /\ m.aid \in MaybePid
      BY <1>0, <3>1, MessageFields DEF IInv, MsgInv, TypeOK
    <3>3. Lt(m.aid, c)
      BY <1>0, <1>1, <3>1, <3>2, LeLtTrans
    <3> QED BY <3>1, <3>2, <3>3 DEF PromiseInv
  <2> QED BY <2>1
<1>2. CASE c = h
  <2>1. h # NoId
    BY <1>2, NoIdLeast
  <2>2. PICK b \in Node : Voted(b, i, h, v)
    BY <2>1
  <2>3. ASSUME NEW q \in Q PROVE Voted(q, i, c, v) \/ WontVote(q, i, c)
    <3>1. PICK m \in msgs : /\ m.type = "promise" /\ m.from = q /\ m.inst = i
                            /\ m.id = id /\ Le(m.aid, h)
      BY <2>3
    <3>2. PromiseInv(m) /\ acceptor[q].promised_id \in MaybePid
      BY <1>0, <2>3, <3>1, NodeTypes DEF IInv, MsgInv
    <3>3. Closed(q, i, c)
      BY <1>0, <3>1, <3>2, LtLeTrans DEF PromiseInv, Closed
    <3>4. \A w \in Value : Voted(q, i, c, w) => w = v
      BY <1>2, <2>2, <2>3, OneValueVoted
    <3> QED BY <3>3, <3>4 DEF WontVote
  <2> QED BY <2>3
<1>3. CASE Lt(c, h)
  <2>1. h # NoId
    BY <1>0, <1>3, NoIdLeast, LtIrreflexive
  <2>2. PICK b \in Node : Voted(b, i, h, v)
    BY <2>1
  <2>3. AcceptMsg(h[2], i, h, v) \in msgs
    BY <2>2, OneValueVoted
  <2>4. SafeAt(i, h, v)
    <3>1. /\ AcceptMsg(h[2], i, h, v).type = "accept" /\ AcceptMsg(h[2], i, h, v).inst = i
          /\ AcceptMsg(h[2], i, h, v).id = h /\ AcceptMsg(h[2], i, h, v).val = v
      BY DEF AcceptMsg
    <3> QED BY <2>3, <3>1 DEF IInv, MsgInv, AcceptInv
  <2> QED BY <1>3, <2>4 DEF SafeAt
<1> QED BY <1>0, <1>1, <1>2, <1>3, LtTotal DEF Le

(* What a promise does to the proposer: either it is ignored, or it is      *)
(* counted and its vote adopted if it is the highest seen.                  *)
LEMMA PromiseFacts ==
    ASSUME NEW p \in Proposer, NEW from \in Node, NEW id \in Pid,
           NEW aid \in MaybePid, NEW aval \in MaybeValue
    PROVE  LET r == ProposerPromise(p, from, id, aid, aval) IN
           \/ r = ObserveProposal(p, id)
           \/ /\ ~p.leader /\ id = p.proposal_id
              /\ r.proposal_id = p.proposal_id
              /\ Le(p.proposal_id, p.highest_proposal_id) => Le(r.proposal_id, r.highest_proposal_id)
              /\ r.promises_received = p.promises_received \cup {from}
              /\ r.leader => Cardinality(r.promises_received) = QuorumSize
              /\ \/ /\ Lt(p.highest_accepted_id, aid) /\ r.highest_accepted_id = aid
                    /\ aval # NoValue => r.proposed_value = aval
                 \/ /\ ~Lt(p.highest_accepted_id, aid)
                    /\ r.highest_accepted_id = p.highest_accepted_id
                    /\ r.proposed_value = p.proposed_value
<1> DEFINE q == ObserveProposal(p, id)
           a == AdoptAccepted(q, aid, aval)
           s == [a EXCEPT !.promises_received = @ \cup {from}]
           t == [s EXCEPT !.leader = Cardinality(s.promises_received) = QuorumSize]
           r == ProposerPromise(p, from, id, aid, aval)
<1>1. /\ q \in Proposer /\ q.leader = p.leader /\ q.proposed_value = p.proposed_value
      /\ q.proposal_id = p.proposal_id /\ q.highest_accepted_id = p.highest_accepted_id
      /\ q.promises_received = p.promises_received
      /\ Le(p.proposal_id, p.highest_proposal_id) => Le(q.proposal_id, q.highest_proposal_id)
  BY ObserveFacts DEF MaybePid
<1>2. r = q \/ (~q.leader /\ id = q.proposal_id /\ r = t)
  BY DEF ProposerPromise
<1> HIDE DEF q
<1>3. /\ a \in Proposer /\ a.proposal_id = q.proposal_id /\ a.highest_proposal_id = q.highest_proposal_id
      /\ a.promises_received = q.promises_received
      /\ \/ /\ Lt(q.highest_accepted_id, aid) /\ a.highest_accepted_id = aid
            /\ aval # NoValue => a.proposed_value = aval
         \/ /\ ~Lt(q.highest_accepted_id, aid) /\ a = q
  BY <1>1 DEF AdoptAccepted, Proposer
<1> HIDE DEF a
<1>4. /\ s.proposal_id = a.proposal_id /\ s.highest_proposal_id = a.highest_proposal_id
      /\ s.promises_received = a.promises_received \cup {from}
      /\ s.highest_accepted_id = a.highest_accepted_id /\ s.proposed_value = a.proposed_value
      /\ s \in Proposer
  BY <1>3 DEF Proposer
<1> HIDE DEF s
<1>5. /\ t.proposal_id = s.proposal_id /\ t.highest_proposal_id = s.highest_proposal_id
      /\ t.promises_received = s.promises_received
      /\ t.highest_accepted_id = s.highest_accepted_id /\ t.proposed_value = s.proposed_value
      /\ t.leader = (Cardinality(s.promises_received) = QuorumSize)
  BY <1>4 DEF Proposer
<1>6. CASE r = q
  BY <1>6 DEF q
<1>7. CASE ~q.leader /\ id = q.proposal_id /\ r = t
  BY <1>1, <1>3, <1>4, <1>5, <1>7
<1> QED BY <1>2, <1>6, <1>7

(* The invariant of the proposer after a counted promise.                   *)
LEMMA CountedPromise ==
    ASSUME IInv, NEW n \in Node, NEW m \in msgs, m.type = "promise", m.to = n,
           m.inst = state[n].instance_number, m.id = proposer[n].proposal_id, ~proposer[n].leader,
           NEW r \in Proposer,
           r.promises_received = proposer[n].promises_received \cup {m.from},
           \/ /\ Lt(proposer[n].highest_accepted_id, m.aid) /\ r.highest_accepted_id = m.aid
              /\ m.aval # NoValue => r.proposed_value = m.aval
           \/ /\ ~Lt(proposer[n].highest_accepted_id, m.aid)
              /\ r.highest_accepted_id = proposer[n].highest_accepted_id
              /\ r.proposed_value = proposer[n].proposed_value
    PROVE  /\ Lt(r.highest_accepted_id, m.id)
           /\ r.highest_accepted_id # NoId =>
                \E a \in Node : /\ r.proposed_value \in Value
                                /\ Voted(a, m.inst, r.highest_accepted_id, r.proposed_value)
           /\ \A q \in r.promises_received : \E y \in msgs :
                /\ y.type = "promise" /\ y.from = q /\ y.to = n /\ y.inst = m.inst /\ y.id = m.id
                /\ Le(y.aid, r.highest_accepted_id)
<1> DEFINE p == proposer[n]
<1>0. TypeOK /\ ProposerInv(n) /\ PromiseInv(m) /\ m \in Message
  BY DEF IInv, NodeInv, MsgInv, TypeOK
<1>1. /\ m.from \in Node /\ m.id \in Pid /\ m.id \in MaybePid /\ m.aid \in MaybePid
      /\ p.highest_accepted_id \in MaybePid /\ m.inst \in Nat
  BY <1>0, MessageFields, NodeTypes DEF MaybePid
<1>2. ASSUME m.aid = m.id PROVE FALSE
  <2>1. m.aid # NoId /\ Voted(m.from, m.inst, m.id, m.aval)
    BY <1>0, <1>1, <1>2, NoIdLeast DEF PromiseInv
  <2>2. AcceptMsg(n, m.inst, m.id, m.aval) \in msgs
    BY <1>0, <1>1, <2>1, OneValueVoted DEF PromiseInv
  <2>3. /\ AcceptMsg(n, m.inst, m.id, m.aval).type = "accept" /\ AcceptMsg(n, m.inst, m.id, m.aval).from = n
        /\ AcceptMsg(n, m.inst, m.id, m.aval).inst = m.inst /\ AcceptMsg(n, m.inst, m.id, m.aval).id = m.id
    BY DEF AcceptMsg
  <2>4. \/ state[n].instance_number > m.inst
        \/ Lt(m.id, p.proposal_id) \/ p.leader
    BY <2>2, <2>3 DEF IInv, MsgInv, AcceptInv
  <2> QED BY <1>1, <2>4, LtIrreflexive
<1>3. Lt(m.aid, m.id)
  BY <1>0, <1>2 DEF PromiseInv, Le
<1>4. Lt(r.highest_accepted_id, m.id)
  BY <1>0, <1>3 DEF ProposerInv
<1>5. r.highest_accepted_id # NoId =>
        \E a \in Node : /\ r.proposed_value \in Value
                        /\ Voted(a, m.inst, r.highest_accepted_id, r.proposed_value)
  BY <1>0, <1>1, ValueAssumption DEF PromiseInv, ProposerInv
<1>6. Le(p.highest_accepted_id, r.highest_accepted_id) /\ Le(m.aid, r.highest_accepted_id)
  BY <1>1, LtTotal DEF Le
<1>7. r.highest_accepted_id \in MaybePid
  BY DEF Proposer
<1>8. ASSUME NEW q \in r.promises_received
      PROVE  \E y \in msgs :
                /\ y.type = "promise" /\ y.from = q /\ y.to = n /\ y.inst = m.inst /\ y.id = m.id
                /\ Le(y.aid, r.highest_accepted_id)
  <2>1. CASE q = m.from
    BY <1>6, <2>1
  <2>2. CASE q \in p.promises_received
    <3>1. PICK y \in msgs : /\ y.type = "promise" /\ y.from = q /\ y.to = n /\ y.inst = m.inst
                            /\ y.id = m.id /\ Le(y.aid, p.highest_accepted_id)
      BY <1>0, <2>2 DEF ProposerInv
    <3>2. y.aid \in MaybePid
      BY <1>0, <3>1, MessageFields DEF TypeOK
    <3> QED BY <1>1, <1>6, <1>7, <3>1, <3>2, LeTrans
  <2> QED BY <1>8, <2>1, <2>2
<1> QED BY <1>4, <1>5, <1>8

LEMMA ReceivePromiseInv ==
    ASSUME IInv, TypeOK', NEW n \in Node, NEW m \in msgs, ReceivePromise(n, m)
    PROVE  IInv'
<1> DEFINE p == proposer[n]
           i == state[n].instance_number
           r == ProposerPromise(p, m.from, m.id, m.aid, m.aval)
           sends == ReturnsAccept(p, r)
           x == AcceptMsg(n, i, r.proposal_id, r.proposed_value)
<1>0. /\ TypeOK /\ ProposerInv(n) /\ AcceptorInv(n) /\ LearnerInv(n) /\ TaskInv(n) /\ p \in Proposer
      /\ m.type = "promise" /\ m.to = n /\ m.inst = i
  BY DEF IInv, NodeInv, TypeOK, ReceivePromise, IsCurrent, inst
<1>1. /\ m.from \in Node /\ m.id \in Pid /\ m.id \in MaybePid /\ m.aid \in MaybePid /\ m.aval \in MaybeValue
      /\ i \in Nat /\ p.proposal_id \in MaybePid
  BY <1>0, MessageFields, NodeTypes DEF TypeOK, MaybePid
<1>2. r \in Proposer
  BY <1>0, <1>1, ProposerPromiseType
<1>3. /\ proposer' = [proposer EXCEPT ![n] = r]
      /\ UNCHANGED <<state, acceptor, learner, updates>>
      /\ sends => /\ retransmit' = [retransmit EXCEPT ![n] = AcceptTask(r.proposal_id, r.proposed_value)]
                  /\ msgs' = msgs \cup {TaskMsg(n, AcceptTask(r.proposal_id, r.proposed_value))}
      /\ ~sends => retransmit' = retransmit /\ msgs' = msgs
  BY DEF ReceivePromise, StartTask, Send
<1>4. TaskMsg(n, AcceptTask(r.proposal_id, r.proposed_value)) = x
  BY DEF TaskMsg, AcceptTask, inst
<1>5. \/ r = ObserveProposal(p, m.id)
      \/ /\ ~p.leader /\ m.id = p.proposal_id
         /\ r.proposal_id = p.proposal_id
         /\ Le(r.proposal_id, r.highest_proposal_id)
         /\ r.promises_received = p.promises_received \cup {m.from}
         /\ r.leader => Cardinality(r.promises_received) = QuorumSize
         /\ \/ /\ Lt(p.highest_accepted_id, m.aid) /\ r.highest_accepted_id = m.aid
               /\ m.aval # NoValue => r.proposed_value = m.aval
            \/ /\ ~Lt(p.highest_accepted_id, m.aid)
               /\ r.highest_accepted_id = p.highest_accepted_id
               /\ r.proposed_value = p.proposed_value
  BY <1>0, <1>1, PromiseFacts DEF ProposerInv
<1>6. /\ x.type = "accept" /\ x.from = n /\ x.inst = i
      /\ x.id = r.proposal_id /\ x.val = r.proposed_value
  BY DEF AcceptMsg
<1> HIDE DEF r, x
<1>7. /\ proposer'[n] = r /\ \A k \in Node : k # n => proposer'[k] = proposer[k]
      /\ \A k \in Node : k # n => retransmit'[k] = retransmit[k]
      /\ sends => retransmit'[n] = AcceptTask(r.proposal_id, r.proposed_value)
      /\ msgs \subseteq msgs' /\ \A y \in msgs' \ msgs : sends /\ y = x
  BY <1>0, <1>3, <1>4 DEF TypeOK
<1>8. ASSUME NEW k \in Node, k # n PROVE NodeInv(k)'
  <2>1. \A y \in msgs' \ msgs : y.type = "accept"
    BY <1>6, <1>7
  <2> QED BY <1>3, <1>7, <1>8, <2>1, FrameNode DEF IInv
<1>9. UpdatesInv'
  BY <1>3, <1>7, FrameUpdates DEF IInv
<1>10. AcceptorInv(n)' /\ LearnerInv(n)'
  BY <1>0, <1>3, <1>6, <1>7, FrameAcceptor, FrameLearner
<1>11. CASE r = ObserveProposal(p, m.id)
  <2>1. /\ ProposerInv(n)'
        /\ \A k \in Node : /\ proposer'[k].proposal_id = proposer[k].proposal_id
                           /\ proposer'[k].leader = proposer[k].leader
    BY <1>1, <1>3, <1>7, <1>11, ObserveInv
  <2>2. ~sends
    BY <1>7, <2>1 DEF ReturnsAccept
  <2>3. Progress
    BY <1>3, <2>1, <2>2 DEF Progress, Le
  <2>4. TaskInv(n)'
    BY <1>0, <1>3, <2>2, FrameTask
  <2>5. OneValuePerProposal' /\ PreparedAccepts'
    BY <1>3, <2>2, FrameAccepts DEF IInv
  <2>6. \A k \in Node : NodeInv(k)'
    BY <1>8, <1>10, <2>1, <2>4 DEF NodeInv
  <2> QED BY <1>7, <1>9, <2>2, <2>3, <2>5, <2>6, Assemble
<1>12. CASE r # ObserveProposal(p, m.id)
  <2>1. /\ Lt(r.highest_accepted_id, m.id)
        /\ r.highest_accepted_id # NoId =>
             \E a \in Node : /\ r.proposed_value \in Value
                             /\ Voted(a, i, r.highest_accepted_id, r.proposed_value)
        /\ \A q \in r.promises_received : \E y \in msgs :
             /\ y.type = "promise" /\ y.from = q /\ y.to = n /\ y.inst = i /\ y.id = m.id
             /\ Le(y.aid, r.highest_accepted_id)
    BY <1>0, <1>2, <1>5, <1>12, CountedPromise
  <2>2. Progress
    BY <1>3, <1>5, <1>6, <1>7, <1>12 DEF Progress, Le
  <2>3. ProposerInv(n)'
    <3>1. \A q \in r.promises_received : \E y \in msgs' :
             /\ y.type = "promise" /\ y.from = q /\ y.to = n /\ y.inst = i /\ y.id = r.proposal_id
             /\ Le(y.aid, r.highest_accepted_id)
      BY <1>5, <1>7, <1>12, <2>1
    <3>2. r.highest_accepted_id # NoId =>
             \E a \in Node : /\ r.proposed_value \in Value
                             /\ AcceptedMsg(a, i, r.highest_accepted_id, r.proposed_value) \in msgs'
      BY <1>7, <2>1 DEF Voted
    <3> QED BY <1>0, <1>3, <1>5, <1>7, <1>12, <2>1, <3>1, <3>2 DEF ProposerInv, Voted
  <2>4. TaskInv(n)'
    <3>1. CASE sends
      <4>1. x \in msgs' /\ state'[n].instance_number = i
        BY <1>3, <1>4, <3>1
      <4>2. /\ retransmit'[n].send = "accept" /\ retransmit'[n].id = r.proposal_id
            /\ retransmit'[n].val = r.proposed_value
        BY <1>7, <3>1 DEF AcceptTask
      <4> QED BY <4>1, <4>2 DEF TaskInv, x
    <3>2. CASE ~sends
      BY <1>0, <1>3, <3>2, FrameTask
    <3> QED BY <3>1, <3>2
  <2>5. \A k \in Node : NodeInv(k)'
    BY <1>8, <1>10, <2>3, <2>4 DEF NodeInv
  <2>6. CASE ~sends
    <3>1. OneValuePerProposal' /\ PreparedAccepts'
      BY <1>3, <2>6, FrameAccepts DEF IInv
    <3> QED BY <1>7, <1>9, <2>2, <2>5, <2>6, <3>1, Assemble
  <2>7. CASE sends
    <3>1. /\ r.leader /\ r.proposed_value \in Value /\ r.promises_received \in SUBSET Node
          /\ r.proposal_id = m.id /\ r.highest_accepted_id \in MaybePid
      BY <1>2, <1>5, <1>12, <2>7 DEF ReturnsAccept, Proposer, MaybeValue
    <3>2. IsMajority(r.promises_received)
      BY <1>5, <1>12, <3>1, QuorumIsMajority
    <3>3. SafeAt(i, m.id, r.proposed_value)
      BY <1>1, <2>1, <3>1, <3>2, LeaderSafe
    <3>4. \A j \in Nat, v \in Value : j = i /\ v = r.proposed_value => SafeAt(j, m.id, v)'
      <4>1. \A j \in Nat, v \in Value : SafeAt(j, m.id, v) => SafeAt(j, m.id, v)'
        BY <1>0, <2>2, SafeAtStable
      <4> QED BY <3>3, <4>1
    <3>5. \A y \in msgs' \ msgs : /\ y.type = "accept" /\ y.from = n /\ y.inst = i
                                  /\ y.id = m.id /\ y.val = r.proposed_value
      BY <1>6, <1>7, <3>1
    <3>6. /\ state'[n].instance_number = i /\ proposer'[n].proposal_id = m.id
          /\ proposer'[n].leader /\ m.id[2] = n
      BY <1>0, <1>3, <1>5, <1>7, <1>12, <3>1 DEF ProposerInv
    <3>7. ASSUME NEW y \in msgs' \ msgs PROVE MsgInv(y)'
      <4>1. /\ y.type = "accept" /\ y.from = n /\ y.inst = i
            /\ y.id = m.id /\ y.val = r.proposed_value
        BY <3>5, <3>7
      <4>2. SafeAt(y.inst, y.id, y.val)'
        BY <1>1, <3>1, <3>4, <4>1
      <4>3. AcceptInv(y)'
        BY <3>6, <4>1, <4>2 DEF AcceptInv
      <4> QED BY <4>1, <4>3 DEF MsgInv
    <3>8. ASSUME NEW y \in Accepts, y.inst = i, y.id = m.id PROVE FALSE
      <4>1. y \in msgs /\ AcceptInv(y)
        BY <3>8 DEF Accepts, IInv, MsgInv
      <4>2. y.from = n
        BY <3>6, <3>8, <4>1 DEF AcceptInv
      <4> QED BY <1>1, <1>5, <1>12, <3>8, <4>1, <4>2, LtIrreflexive DEF AcceptInv
    <3>9. OneValuePerProposal'
      <4>1. ASSUME NEW y \in Accepts', NEW z \in Accepts', y.inst = z.inst, y.id = z.id
            PROVE  y.val = z.val
        BY <3>5, <3>8, <4>1 DEF Accepts, IInv, OneValuePerProposal
      <4> QED BY <4>1 DEF OneValuePerProposal
    <3>10. PreparedAccepts'
      <4>1. ASSUME NEW y \in Accepts'
            PROVE  IsMajority({k \in Node : \E z \in msgs' :
                                  /\ z.type = "promise" /\ z.from = k /\ z.to = y.from
                                  /\ z.inst = y.inst /\ z.id = y.id})
        <5> DEFINE S == {k \in Node : \E z \in msgs : /\ z.type = "promise" /\ z.from = k /\ z.to = y.from
                                                      /\ z.inst = y.inst /\ z.id = y.id}
                   T == {k \in Node : \E z \in msgs' : /\ z.type = "promise" /\ z.from = k /\ z.to = y.from
                                                       /\ z.inst = y.inst /\ z.id = y.id}
        <5>1. S \in SUBSET Node /\ T \in SUBSET Node /\ S \subseteq T
          BY <1>7
        <5>2. IsMajority(S)
          <6>1. CASE y \in msgs
            BY <4>1, <6>1 DEF Accepts, IInv, PreparedAccepts
          <6>2. CASE y \notin msgs
            <7>1. y.from = n /\ y.inst = i /\ y.id = m.id
              BY <3>5, <4>1, <6>2 DEF Accepts
            <7>2. r.promises_received \subseteq S
              BY <2>1, <3>1, <7>1
            <7> HIDE DEF S
            <7> QED BY <3>1, <3>2, <5>1, <7>2, MajorityGrows
          <6> QED BY <6>1, <6>2
        <5> HIDE DEF S
        <5> QED BY <5>1, <5>2, MajorityGrows
      <4> QED BY <4>1 DEF PreparedAccepts, IsMajority
    <3> QED BY <1>9, <2>2, <2>5, <3>7, <3>9, <3>10, Assemble
  <2> QED BY <2>6, <2>7
<1> QED BY <1>11, <1>12

(* advance_instance on a node that moves forward to a link whose            *)
(* predecessor chose v.                                                     *)
LEMMA AdvanceInv ==
    ASSUME IInv, TypeOK', NEW n \in Node, NEW j \in Nat, NEW v \in Value,
           j > state[n].instance_number, \E id \in Pid : Chosen(j - 1, id, v),
           AdvanceInstance(n, j, v), UNCHANGED msgs
    PROVE  IInv'
<1> DEFINE s == SavedState(j, v, NoId, NoId, NoValue)
<1>0. TypeOK /\ AcceptorInv(n) /\ UpdatesInv /\ state[n].instance_number \in Nat
  BY NodeTypes DEF IInv, NodeInv
<1>1. s.instance_number = j /\ s.current_value = v
  BY DEF SavedState
<1>2. /\ state' = [state EXCEPT ![n] = s]
      /\ proposer' = [proposer EXCEPT ![n] = NewProposer(n)]
      /\ acceptor' = [acceptor EXCEPT ![n] = NewAcceptor]
      /\ learner' = [learner EXCEPT ![n] = NewLearner]
      /\ retransmit' = [retransmit EXCEPT ![n] = NoTask]
      /\ updates' = updates \cup {<<j, v>>} /\ msgs' = msgs
  BY DEF AdvanceInstance, BaseAdvance, StopDriving
<1> HIDE DEF s
<1>3. /\ state'[n] = s /\ proposer'[n] = NewProposer(n) /\ acceptor'[n] = NewAcceptor
      /\ learner'[n] = NewLearner /\ retransmit'[n] = NoTask
  BY <1>0, <1>2 DEF TypeOK
<1>4. \A k \in Node : k # n =>
        /\ state'[k] = state[k] /\ proposer'[k] = proposer[k] /\ acceptor'[k] = acceptor[k]
        /\ learner'[k] = learner[k] /\ retransmit'[k] = retransmit[k]
  BY <1>0, <1>2 DEF TypeOK
<1>5. Progress
  BY <1>1, <1>2, <1>3, <1>4 DEF Progress, Le
<1>6. OneValuePerProposal' /\ PreparedAccepts'
  BY <1>2, FrameAccepts DEF IInv
<1>7. AcceptorInv(n)'
  <2>1. \A m \in msgs : m.type = "accepted" /\ m.from = n => m.inst < j
    <3>1. \A m \in msgs : m.inst \in Nat
      BY <1>0, MessageFields DEF TypeOK
    <3> QED BY <1>0, <3>1 DEF AcceptorInv
  <2> QED BY <1>1, <1>2, <1>3, <2>1 DEF AcceptorInv, NewAcceptor, Le
<1>8. ProposerInv(n)'
  BY <1>3, NodeAssumption DEF ProposerInv, NewProposer, Le, Lt, NoId
<1>9. TaskInv(n)' /\ LearnerInv(n)'
  BY <1>3 DEF TaskInv, NoTask, LearnerInv, NewLearner
<1>10. ASSUME NEW k \in Node PROVE NodeInv(k)'
  <2>1. CASE k = n
    BY <2>1, <1>7, <1>8, <1>9 DEF NodeInv
  <2>2. CASE k # n
    BY <2>2, <1>2, <1>4, FrameNode DEF IInv
  <2> QED BY <2>1, <2>2
<1>11. UpdatesInv'
  <2>1. \A i, id, w : Chosen(i, id, w)' = Chosen(i, id, w)
    BY <1>2 DEF Chosen, IsMajority
  <2>2. ASSUME NEW e \in updates'
        PROVE  e[1] > 0 /\ \E id \in Pid : Chosen(e[1] - 1, id, e[2])'
    BY <1>0, <1>2, <2>1, <2>2 DEF UpdatesInv
  <2>3. \A k \in Node : state'[k].instance_number > 0 =>
            <<state'[k].instance_number, state'[k].current_value>> \in updates'
    BY <1>0, <1>1, <1>2, <1>3, <1>4 DEF UpdatesInv
  <2> QED BY <2>2, <2>3 DEF UpdatesInv
<1> QED BY <1>2, <1>5, <1>6, <1>10, <1>11, Assemble

(* Dropping the sender's earlier vote leaves every other count alone.       *)
LEMMA ReleaseFacts ==
    ASSUME NEW l, LearnerTypeOK(l), NEW from \in Node,
           NEW id \in DOMAIN Release(l.proposals, l.acceptors[from], from)
    PROVE  /\ id \in DOMAIN l.proposals
           /\ Release(l.proposals, l.acceptors[from], from)[id].accept_count = l.proposals[id].accept_count
           /\ Release(l.proposals, l.acceptors[from], from)[id].value = l.proposals[id].value
<1> DEFINE P == l.proposals
           last == l.acceptors[from]
           ps == [P[last] EXCEPT !.retain_count = @ - 1, !.acceptors = @ \ {from}]
           rel == Release(P, last, from)
<1>1. last \in DOMAIN P => ps.accept_count = P[last].accept_count /\ ps.value = P[last].value
  BY DEF LearnerTypeOK, ProposalStatus
<1>2. \/ rel = P
      \/ rel = [x \in DOMAIN P \ {last} |-> P[x]]
      \/ rel = [P EXCEPT ![last] = ps]
  BY DEF Release
<1> HIDE DEF ps
<1>3. id \in DOMAIN P /\ (rel[id] = P[id] \/ (id = last /\ rel[id] = ps))
  <2>1. id \in DOMAIN rel
    OBVIOUS
  <2> HIDE DEF rel, P
  <2> QED BY <1>2, <2>1
<1> QED BY <1>1, <1>3

StatusesOK(P) == \A x \in DOMAIN P : P[x] \in ProposalStatus

(* Q is P with one more vote for the id, and no other change of the counts. *)
CountsOne(P, Q, id, v) ==
    /\ DOMAIN Q = DOMAIN P \cup {id}
    /\ \A x \in DOMAIN P : x # id => Q[x] = P[x]
    /\ id \in DOMAIN P => /\ Q[id].value = P[id].value
                          /\ Q[id].accept_count = P[id].accept_count + 1
    /\ id \notin DOMAIN P => Q[id].value = v /\ Q[id].accept_count = 1

LEMMA SupportFacts ==
    ASSUME NEW P, NEW id, NEW v \in Value, NEW from \in Node, StatusesOK(P)
    PROVE  CountsOne(P, Support(P, id, v, from), id, v)
<1> DEFINE ps == IF id \in DOMAIN P THEN P[id] ELSE NewStatus(v)
           ns == [ps EXCEPT !.accept_count = @ + 1, !.retain_count = @ + 1, !.acceptors = @ \cup {from}]
           Q == Support(P, id, v, from)
<1>1. ps \in ProposalStatus
  BY DEF NewStatus, ProposalStatus, StatusesOK
<1>2. id \notin DOMAIN P => ps.value = v /\ ps.accept_count = 0
  BY DEF NewStatus
<1>3. id \in DOMAIN P => ps = P[id]
  OBVIOUS
<1>4. Q = [x \in DOMAIN P \cup {id} |-> IF x = id THEN ns ELSE P[x]]
  BY DEF Support
<1> HIDE DEF ps
<1>5. ns.value = ps.value /\ ns.accept_count = ps.accept_count + 1
  BY <1>1 DEF ProposalStatus
<1> HIDE DEF ns, Q
<1>6. DOMAIN Q = DOMAIN P \cup {id} /\ Q[id] = ns /\ \A x \in DOMAIN P : x # id => Q[x] = P[x]
  BY <1>4
<1>7. id \in DOMAIN P => Q[id].value = P[id].value /\ Q[id].accept_count = P[id].accept_count + 1
  BY <1>3, <1>5, <1>6
<1>8. id \notin DOMAIN P => Q[id].value = v /\ Q[id].accept_count = 1
  BY <1>2, <1>5, <1>6
<1> QED BY <1>6, <1>7, <1>8 DEF CountsOne, Q

LEMMA AcceptedMsgShape ==
    ASSUME NEW m \in Message, m.type = "accepted"
    PROVE  m = AcceptedMsg(m.from, m.inst, m.id, m.val)
BY DEF Message, AcceptedMsg

(* The learner after an accepted message: its counts are still counts of    *)
(* different peers that voted, although accept_count is never decremented   *)
(* when a peer moves to another proposal.                                   *)
LEMMA LearnerCounts ==
    ASSUME TypeOK, NEW n \in Node, LearnerInv(n), NEW m \in msgs, m.type = "accepted",
           m.inst = state[n].instance_number,
           NEW id \in DOMAIN LearnerAccepted(learner[n], m.from, m.id, m.val).proposals
    PROVE  LET k == LearnerAccepted(learner[n], m.from, m.id, m.val) IN
           /\ (/\ id = m.id /\ ~IsOldAccepted(learner[n], m.from, m.id)
               /\ ~Raises(learner[n], m.from, m.id, m.val))
                 => k.proposals[id].value = m.val
           /\ \E S \in SUBSET Node :
                 /\ Cardinality(S) = k.proposals[id].accept_count
                 /\ \A u \in S : /\ Voted(u, m.inst, id, k.proposals[id].value)
                                 /\ Le(id, k.acceptors[u])
<1> DEFINE l == learner[n]
           k == LearnerAccepted(l, m.from, m.id, m.val)
           rel == Release(l.proposals, l.acceptors[m.from], m.from)
           sup == Support(rel, m.id, m.val, m.from)
<1>0. LearnerTypeOK(l) /\ m \in Message
  BY DEF TypeOK, LearnerTypeOK
<1>1. /\ m.from \in Node /\ m.id \in Pid /\ m.id \in MaybePid /\ m.val \in Value
      /\ Voted(m.from, m.inst, m.id, m.val)
  BY <1>0, MessageFields, AcceptedMsgShape DEF MaybePid, Voted
<1>2. \A x \in DOMAIN l.proposals : \E S \in SUBSET Node :
         /\ Cardinality(S) = l.proposals[x].accept_count
         /\ \A u \in S : Voted(u, m.inst, x, l.proposals[x].value) /\ Le(x, l.acceptors[u])
  BY DEF LearnerInv
<1>3. CASE IsOldAccepted(l, m.from, m.id)
  <2>1. k = l
    BY <1>3 DEF LearnerAccepted
  <2> QED BY <1>2, <1>3, <2>1
<1>4. CASE ~IsOldAccepted(l, m.from, m.id)
  <2>1. l.acceptors \in [Node -> MaybePid]
    BY <1>0 DEF LearnerTypeOK
  <2>2. /\ k.acceptors = [l.acceptors EXCEPT ![m.from] = m.id]
        /\ k.proposals = IF Raises(l, m.from, m.id, m.val) THEN rel ELSE sup
    BY <1>4 DEF LearnerAccepted
  <2>3. Lt(l.acceptors[m.from], m.id) /\ ~Le(m.id, l.acceptors[m.from])
    BY <1>1, <1>4, <2>1, LtTotal DEF IsOldAccepted, Le
  <2>4. k.acceptors[m.from] = m.id /\ \A u \in Node : u # m.from => k.acceptors[u] = l.acceptors[u]
    BY <1>1, <2>1, <2>2
  <2>5. \A x \in MaybePid, u \in Node : Le(x, l.acceptors[u]) => Le(x, k.acceptors[u])
    BY <1>1, <2>1, <2>3, <2>4, LeTrans DEF Le
  <2>6. /\ \A x \in DOMAIN rel : rel[x] \in ProposalStatus /\ x \in MaybePid
        /\ \A x \in DOMAIN rel : /\ x \in DOMAIN l.proposals
                                 /\ rel[x].accept_count = l.proposals[x].accept_count
                                 /\ rel[x].value = l.proposals[x].value
    <3>1. \A x \in DOMAIN rel : /\ x \in DOMAIN l.proposals
                                /\ rel[x].accept_count = l.proposals[x].accept_count
                                /\ rel[x].value = l.proposals[x].value
      BY <1>0, <1>1, ReleaseFacts
    <3>2. \A x \in DOMAIN rel : x \in Pid /\ rel[x] \in ProposalStatus
      BY <1>0, <1>1, ReleaseType
    <3> QED BY <3>1, <3>2 DEF MaybePid
  <2> HIDE DEF rel, k
  <2>7. ASSUME NEW x \in DOMAIN rel
        PROVE  \E S \in SUBSET Node :
                  /\ Cardinality(S) = rel[x].accept_count
                  /\ \A u \in S : /\ Voted(u, m.inst, x, rel[x].value) /\ Le(x, l.acceptors[u])
                                  /\ Le(x, k.acceptors[u])
    BY <1>2, <2>5, <2>6, <2>7
  <2>8. CASE Raises(l, m.from, m.id, m.val)
    BY <2>2, <2>7, <2>8 DEF k, rel
  <2>9. CASE ~Raises(l, m.from, m.id, m.val)
    <3>0. k.proposals = sup
      BY <2>2, <2>9
    <3>1. /\ DOMAIN sup = DOMAIN rel \cup {m.id}
          /\ \A x \in DOMAIN rel : x # m.id => sup[x] = rel[x]
          /\ m.id \in DOMAIN rel => /\ sup[m.id].value = rel[m.id].value
                                    /\ sup[m.id].accept_count = rel[m.id].accept_count + 1
          /\ m.id \notin DOMAIN rel => sup[m.id].value = m.val /\ sup[m.id].accept_count = 1
      <4>1. StatusesOK(rel)
        BY <2>6 DEF StatusesOK
      <4>2. CountsOne(rel, sup, m.id, m.val)
        BY <1>1, <4>1, SupportFacts
      <4> HIDE DEF sup
      <4> QED BY <4>2 DEF CountsOne
    <3> HIDE DEF sup
    <3>2. sup[m.id].value = m.val
      BY <2>9, <3>1 DEF Raises, Mismatch, rel
    <3>3. id \in DOMAIN rel \cup {m.id}
      BY <3>0, <3>1 DEF k
    <3>4. CASE id # m.id
      BY <2>7, <3>0, <3>1, <3>3, <3>4 DEF k
    <3>5. CASE id = m.id /\ m.id \notin DOMAIN rel
      <4>1. {m.from} \in SUBSET Node /\ Cardinality({m.from}) = 1
        BY <1>1, FS_Singleton
      <4>2. \A u \in {m.from} : Voted(u, m.inst, m.id, m.val) /\ Le(m.id, k.acceptors[u])
        BY <1>1, <2>4 DEF Le
      <4> QED BY <3>0, <3>1, <3>2, <3>5, <4>1, <4>2 DEF k
    <3>6. CASE id = m.id /\ m.id \in DOMAIN rel
      <4>1. PICK S \in SUBSET Node :
               /\ Cardinality(S) = rel[m.id].accept_count
               /\ \A u \in S : /\ Voted(u, m.inst, m.id, rel[m.id].value) /\ Le(m.id, l.acceptors[u])
                               /\ Le(m.id, k.acceptors[u])
        BY <2>7, <3>6
      <4>2. m.from \notin S
        BY <2>3, <4>1
      <4>3. IsFiniteSet(S)
        BY NodeAssumption, FS_Subset
      <4>4. Cardinality(S \cup {m.from}) = Cardinality(S) + 1
        BY <4>2, <4>3, FS_AddElement
      <4>5. rel[m.id].value = m.val
        BY <3>1, <3>2, <3>6
      <4>6. \A u \in S \cup {m.from} : Voted(u, m.inst, m.id, m.val) /\ Le(m.id, k.acceptors[u])
        BY <1>1, <2>4, <4>1, <4>5 DEF Le
      <4>7. S \cup {m.from} \in SUBSET Node
        BY <1>1
      <4> QED BY <3>0, <3>1, <3>2, <3>6, <4>1, <4>4, <4>6, <4>7 DEF k
    <3> QED BY <3>3, <3>4, <3>5, <3>6
  <2> QED BY <2>8, <2>9
<1> QED BY <1>3, <1>4

(* A resolution means that a majority voted for the value.                  *)
LEMMA ResolvesChosen ==
    ASSUME TypeOK, NEW n \in Node, LearnerInv(n), NEW m \in msgs, m.type = "accepted",
           m.inst = state[n].instance_number, Resolves(learner[n], m.from, m.id, m.val)
    PROVE  Chosen(m.inst, m.id, m.val)
<1> DEFINE l == learner[n]
           k == LearnerAccepted(l, m.from, m.id, m.val)
           T == {u \in Node : AcceptedMsg(u, m.inst, m.id, m.val) \in msgs}
<1>1. /\ ~IsOldAccepted(l, m.from, m.id)
      /\ ~Raises(l, m.from, m.id, m.val)
      /\ k.proposals[m.id].accept_count = QuorumSize
  BY DEF Resolves
<1>2. m.id \in DOMAIN k.proposals
  BY <1>1 DEF LearnerAccepted, Support
<1>3. /\ k.proposals[m.id].value = m.val
      /\ \E S \in SUBSET Node :
            /\ Cardinality(S) = k.proposals[m.id].accept_count
            /\ \A u \in S : Voted(u, m.inst, m.id, k.proposals[m.id].value)
  BY <1>1, <1>2, LearnerCounts
<1> HIDE DEF k
<1>4. PICK S \in SUBSET Node : Cardinality(S) = QuorumSize /\ \A u \in S : Voted(u, m.inst, m.id, m.val)
  BY <1>1, <1>3
<1>5. T \in SUBSET Node /\ S \subseteq T
  BY <1>4 DEF Voted
<1>6. IsMajority(S)
  BY <1>4, QuorumIsMajority
<1> HIDE DEF T
<1>7. IsMajority(T)
  BY <1>5, <1>6, MajorityGrows
<1> QED BY <1>7 DEF Chosen, T

LEMMA ReceiveAcceptedInv ==
    ASSUME IInv, TypeOK', NEW n \in Node, NEW m \in msgs, ReceiveAccepted(n, m)
    PROVE  IInv'
<1> DEFINE l == learner[n]
           k == LearnerAccepted(l, m.from, m.id, m.val)
           i == state[n].instance_number
<1>0. TypeOK /\ m \in Message /\ m.type = "accepted" /\ m.inst = i /\ NodeInv(n) /\ LearnerInv(n)
  BY DEF IInv, NodeInv, TypeOK, ReceiveAccepted, IsCurrent, inst
<1>1. m.from \in Node /\ m.id \in Pid /\ m.val \in Value /\ i \in Nat
  BY <1>0, MessageFields, NodeTypes
<1>2. \A id \in DOMAIN k.proposals : \E S \in SUBSET Node :
         /\ Cardinality(S) = k.proposals[id].accept_count
         /\ \A u \in S : Voted(u, m.inst, id, k.proposals[id].value) /\ Le(id, k.acceptors[u])
  BY <1>0, LearnerCounts
<1>3. CASE Resolves(l, m.from, m.id, m.val)
  <2>1. AdvanceInstance(n, i + 1, m.val) /\ UNCHANGED msgs
    BY <1>3 DEF ReceiveAccepted, inst
  <2>2. Chosen(i, m.id, m.val)
    BY <1>0, <1>3, ResolvesChosen
  <2>3. i + 1 \in Nat /\ i + 1 > i /\ (i + 1) - 1 = i
    BY <1>1
  <2> QED BY <1>1, <2>1, <2>2, <2>3, AdvanceInv
<1>4. CASE ~Resolves(l, m.from, m.id, m.val)
  <2>1. /\ learner' = [learner EXCEPT ![n] = k]
        /\ UNCHANGED <<state, proposer, acceptor, retransmit, delayed, msgs, updates>>
    BY <1>4 DEF ReceiveAccepted
  <2> HIDE DEF k
  <2>2. learner'[n] = k /\ \A j \in Node : j # n => learner'[j] = learner[j]
    BY <1>0, <2>1 DEF TypeOK
  <2>3. Progress
    BY <2>1 DEF Progress, Le
  <2>4. OneValuePerProposal' /\ PreparedAccepts' /\ UpdatesInv'
    BY <2>1, FrameAccepts, FrameUpdates DEF IInv
  <2>5. LearnerInv(n)'
    BY <1>0, <1>2, <2>1, <2>2 DEF LearnerInv, Voted
  <2>6. AcceptorInv(n)' /\ ProposerInv(n)' /\ TaskInv(n)'
    BY <1>0, <2>1, FrameAcceptor, FrameProposer, FrameTask DEF NodeInv
  <2>7. ASSUME NEW j \in Node PROVE NodeInv(j)'
    <3>1. CASE j = n
      BY <2>5, <2>6, <3>1 DEF NodeInv
    <3>2. CASE j # n
      BY <2>1, <2>2, <3>2, FrameNode DEF IInv
    <3> QED BY <3>1, <3>2
  <2> QED BY <2>1, <2>3, <2>4, <2>7, Assemble
<1> QED BY <1>3, <1>4

LEMMA ReceiveCatchupInv ==
    ASSUME IInv, TypeOK', NEW n \in Node, NEW m \in msgs, ReceiveCatchup(n, m)
    PROVE  IInv'
<1>1. m.type = "catchup" /\ m.inst > state[n].instance_number
      /\ AdvanceInstance(n, m.inst, m.val) /\ UNCHANGED msgs
  BY DEF ReceiveCatchup, inst
<1>2. m.inst \in Nat /\ m.val \in Value
  BY <1>1, MessageFields DEF IInv, TypeOK
<1>3. <<m.inst, m.val>> \in updates
  BY <1>1 DEF IInv, MsgInv
<1>4. \E id \in Pid : Chosen(m.inst - 1, id, m.val)
  <2>1. \A e \in updates : \E id \in Pid : Chosen(e[1] - 1, id, e[2])
    BY DEF IInv, UpdatesInv
  <2>2. \A a, b : <<a, b>> \in updates => \E id \in Pid : Chosen(a - 1, id, b)
    BY <2>1
  <2> QED BY <1>3, <2>2
<1> QED BY <1>1, <1>2, <1>4, AdvanceInv

-----------------------------------------------------------------------------
(* The invariant holds initially.                                           *)
LEMMA InvInit == Init => IInv
<1> SUFFICES ASSUME Init PROVE IInv
  OBVIOUS
<1>1. TypeOK /\ msgs = {} /\ updates = {}
  BY TypeInit DEF Init
<1>2. OneValuePerProposal /\ PreparedAccepts
  BY <1>1 DEF OneValuePerProposal, PreparedAccepts, Accepts
<1>3. ASSUME NEW n \in Node PROVE NodeInv(n)
  <2>1. /\ proposer[n] = NewProposer(n) /\ acceptor[n] = NewAcceptor /\ learner[n] = NewLearner
        /\ retransmit[n] = NoTask
    BY DEF Init
  <2>2. AcceptorInv(n)
    BY <1>1, <2>1 DEF AcceptorInv, NewAcceptor, Le
  <2>3. ProposerInv(n)
    BY <2>1, NodeAssumption DEF ProposerInv, NewProposer, Le, Lt, NoId
  <2>4. TaskInv(n) /\ LearnerInv(n)
    BY <2>1 DEF TaskInv, NoTask, LearnerInv, NewLearner
  <2> QED BY <2>2, <2>3, <2>4 DEF NodeInv
<1>4. UpdatesInv
  BY <1>1 DEF UpdatesInv, Init, SavedState
<1> QED BY <1>1, <1>2, <1>3, <1>4 DEF IInv

(* Every step of a node preserves the invariant.                            *)
LEMMA InvStep ==
    ASSUME IInv, [Next]_vars
    PROVE  IInv'
<1>0. TypeOK'
  BY TypeStep DEF IInv
<1>1. ASSUME NEW n \in Node, NEW v \in Value, ProposeUpdate(n, v) PROVE IInv'
  BY <1>0, <1>1, ProposeUpdateInv
<1>2. ASSUME NEW n \in Node, DelayedDrive(n) PROVE IInv'
  BY <1>0, <1>2, DelayedDriveInv
<1>3. ASSUME NEW n \in Node, Retransmit(n) PROVE IInv'
  BY <1>0, <1>3, RetransmitInv
<1>4. ASSUME NEW n \in Node, NEW peer \in Node, SendSyncRequest(n, peer) PROVE IInv'
  BY <1>0, <1>4, SendSyncRequestInv
<1>5. ASSUME NEW n \in Node, NEW m \in msgs, Receive(n, m) PROVE IInv'
  <2>1. CASE ReceivePrepare(n, m)
    BY <1>0, <2>1, ReceivePrepareInv
  <2>2. CASE ReceiveNack(n, m)
    BY <1>0, <2>2, ReceiveNackInv
  <2>3. CASE ReceivePromise(n, m)
    BY <1>0, <2>3, ReceivePromiseInv
  <2>4. CASE ReceiveAccept(n, m)
    BY <1>0, <2>4, ReceiveAcceptInv
  <2>5. CASE ReceiveAccepted(n, m)
    BY <1>0, <2>5, ReceiveAcceptedInv
  <2>6. CASE ReceiveSyncRequest(n, m)
    BY <1>0, <2>6, ReceiveSyncRequestInv
  <2>7. CASE ReceiveCatchup(n, m)
    BY <1>0, <2>7, ReceiveCatchupInv
  <2> QED BY <1>5, <2>1, <2>2, <2>3, <2>4, <2>5, <2>6, <2>7 DEF Receive
<1>6. CASE UNCHANGED vars
  <2>1. UNCHANGED <<state, proposer, acceptor, learner, retransmit, msgs, updates>>
    BY <1>6 DEF vars
  <2> QED BY <1>0, <2>1, SendOnlyInv
<1> QED BY <1>1, <1>2, <1>3, <1>4, <1>5, <1>6 DEF Next

LEMMA InvCorrect == Spec => []IInv
<1>1. Init => IInv
  BY InvInit
<1>2. IInv /\ [Next]_vars => IInv'
  BY InvStep
<1> QED BY <1>1, <1>2, PTL DEF Spec

-----------------------------------------------------------------------------
(* A value that is chosen is the value of every Accept at a higher id.      *)
LEMMA ChosenIsSafe ==
    ASSUME IInv, NEW i, NEW c \in Pid, NEW v \in Value, Chosen(i, c, v),
           NEW m \in msgs, m.type = "accept", m.inst = i, Lt(c, m.id)
    PROVE  m.val = v
<1> DEFINE S == {a \in Node : AcceptedMsg(a, i, c, v) \in msgs}
<1>1. S \in SUBSET Node /\ IsMajority(S) /\ \A a \in S : Voted(a, i, c, v)
  BY DEF Chosen, Voted
<1> HIDE DEF S
<1>2. SafeAt(i, m.id, m.val)
  BY DEF IInv, MsgInv, AcceptInv
<1>3. PICK Q \in SUBSET Node : /\ IsMajority(Q)
                               /\ \A a \in Q : Voted(a, i, c, m.val) \/ WontVote(a, i, c)
  BY <1>2 DEF SafeAt
<1>4. PICK a \in S : a \in Q
  BY <1>1, <1>3, MajoritiesMeet
<1>5. Voted(a, i, c, v) /\ Voted(a, i, c, m.val) /\ a \in Node
  BY <1>1, <1>3, <1>4 DEF WontVote
<1> QED BY <1>5, OneValueVoted

(* A chosen value was voted for, and proposed in an Accept.                 *)
LEMMA ChosenIsProposed ==
    ASSUME IInv, NEW i, NEW c \in Pid, NEW v, Chosen(i, c, v)
    PROVE  /\ \E a \in Node : Voted(a, i, c, v)
           /\ AcceptMsg(c[2], i, c, v) \in Accepts
<1> DEFINE S == {a \in Node : AcceptedMsg(a, i, c, v) \in msgs}
<1>1. S \in SUBSET Node /\ IsMajority(S) /\ \A a \in S : Voted(a, i, c, v)
  BY DEF Chosen, Voted
<1> HIDE DEF S
<1>2. S # {}
  BY <1>1, MajoritiesMeet
<1>3. PICK a \in Node : Voted(a, i, c, v)
  BY <1>1, <1>2
<1>4. AcceptMsg(c[2], i, c, v) \in msgs
  BY <1>3, OneValueVoted
<1>5. AcceptMsg(c[2], i, c, v).type = "accept"
  BY DEF AcceptMsg
<1> QED BY <1>3, <1>4, <1>5 DEF Accepts

(* At most one value is chosen in a link.                                   *)
LEMMA ChosenUnique ==
    ASSUME IInv, NEW i, NEW c \in Pid, NEW d \in Pid, NEW v \in Value, NEW w \in Value,
           Chosen(i, c, v), Chosen(i, d, w)
    PROVE  v = w
<1>0. c \in MaybePid /\ d \in MaybePid
  BY DEF MaybePid
<1>1. \A e, u : /\ AcceptMsg(e[2], i, e, u).type = "accept" /\ AcceptMsg(e[2], i, e, u).inst = i
                /\ AcceptMsg(e[2], i, e, u).id = e /\ AcceptMsg(e[2], i, e, u).val = u
  BY DEF AcceptMsg
<1>2. AcceptMsg(c[2], i, c, v) \in msgs /\ AcceptMsg(d[2], i, d, w) \in msgs
  BY ChosenIsProposed DEF Accepts
<1>3. CASE Lt(c, d)
  <2> DEFINE m == AcceptMsg(d[2], i, d, w)
  <2>1. m \in msgs /\ m.type = "accept" /\ m.inst = i /\ m.id = d /\ m.val = w
    BY <1>1, <1>2
  <2> HIDE DEF m
  <2> QED BY <1>3, <2>1, ChosenIsSafe
<1>4. CASE Lt(d, c)
  <2> DEFINE m == AcceptMsg(c[2], i, c, v)
  <2>1. m \in msgs /\ m.type = "accept" /\ m.inst = i /\ m.id = c /\ m.val = v
    BY <1>1, <1>2
  <2> HIDE DEF m
  <2> QED BY <1>4, <2>1, ChosenIsSafe
<1>5. CASE c = d
  BY <1>5, ChosenIsProposed, OneValueVoted
<1> QED BY <1>0, <1>3, <1>4, <1>5, LtTotal DEF Le

LEMMA InvImplies ==
    ASSUME IInv
    PROVE  ChainAgreement /\ ChosenIsStable /\ OneValuePerProposal /\ PreparedAccepts /\ UpdatesChosen
<1>1. ChosenIsStable
  <2> SUFFICES ASSUME NEW m \in Accepts, NEW c \in Accepts, c.inst = m.inst, Lt(c.id, m.id),
                      Chosen(c.inst, c.id, c.val)
               PROVE  m.val = c.val
    BY DEF ChosenIsStable
  <2>1. m \in msgs /\ m.type = "accept" /\ c.id \in Pid /\ c.val \in Value
    BY MessageFields DEF Accepts, IInv, TypeOK
  <2> QED BY <2>1, ChosenIsSafe
<1>2. \A e \in updates : /\ e[1] \in Nat /\ e[2] \in Value
                         /\ \E id \in Pid : Chosen(e[1] - 1, id, e[2])
  <2> SUFFICES ASSUME NEW e \in updates
               PROVE  e[1] \in Nat /\ e[2] \in Value /\ \E id \in Pid : Chosen(e[1] - 1, id, e[2])
    OBVIOUS
  <2>1. e \in Instance \X Value
    BY DEF IInv, TypeOK
  <2>2. \E id \in Pid : Chosen(e[1] - 1, id, e[2])
    BY DEF IInv, UpdatesInv
  <2> QED BY <2>1, <2>2, BoundAssumption DEF Instance
<1>3. ChainAgreement
  <2> SUFFICES ASSUME NEW e \in updates, NEW f \in updates, e[1] = f[1] PROVE e[2] = f[2]
    BY DEF ChainAgreement
  <2>1. PICK c \in Pid : Chosen(e[1] - 1, c, e[2])
    BY <1>2
  <2>2. PICK d \in Pid : Chosen(e[1] - 1, d, f[2])
    BY <1>2
  <2> QED BY <1>2, <2>1, <2>2, ChosenUnique
<1>4. UpdatesChosen
  <2> SUFFICES ASSUME NEW e \in updates
               PROVE  \E m \in Accepts : /\ m.inst = e[1] - 1 /\ m.val = e[2]
                                         /\ Chosen(m.inst, m.id, m.val)
    BY DEF UpdatesChosen
  <2>1. PICK c \in Pid : Chosen(e[1] - 1, c, e[2])
    BY <1>2
  <2>2. AcceptMsg(c[2], e[1] - 1, c, e[2]) \in Accepts
    BY <2>1, ChosenIsProposed
  <2>3. LET m == AcceptMsg(c[2], e[1] - 1, c, e[2])
        IN  m.inst = e[1] - 1 /\ m.id = c /\ m.val = e[2]
    BY DEF AcceptMsg
  <2> QED BY <2>1, <2>2, <2>3
<1> QED BY <1>1, <1>3, <1>4 DEF IInv

(* Agreement, for every number of nodes, every set of values and every      *)
(* bound: no two reports to onUpdateCallback give one link of the           *)
(* multi-paxos chain different values, whatever datagrams are lost,         *)
(* delayed, duplicated or reordered.                                        *)
THEOREM Agreement == Spec => []ChainAgreement
<1>1. IInv => ChainAgreement
  BY InvImplies
<1> QED BY <1>1, InvCorrect, PTL

(* A chosen value is the value of every Accept with a higher proposal id:   *)
(* the value a proposer adopts from the promises it counts, over all its    *)
(* retries, never contradicts a majority.                                   *)
THEOREM Stability == Spec => []ChosenIsStable
<1>1. IInv => ChosenIsStable
  BY InvImplies
<1> QED BY <1>1, InvCorrect, PTL

(* The assertion "Value mismatch for single proposal!" of the learner never *)
(* fails: a proposal id is proposed with one value only.                    *)
THEOREM ProposalsUnique == Spec => []OneValuePerProposal
<1>1. IInv => OneValuePerProposal
  BY InvImplies
<1> QED BY <1>1, InvCorrect, PTL

(* receive_promise lets a proposer send its Accept only when a majority has *)
(* promised that very id in that link.                                      *)
THEOREM AcceptsPrepared == Spec => []PreparedAccepts
<1>1. IInv => PreparedAccepts
  BY InvImplies
<1> QED BY <1>1, InvCorrect, PTL

(* Whatever a node reports, by resolution or by catching up with a peer, a  *)
(* majority accepted in the previous link.                                  *)
THEOREM ReportsChosen == Spec => []UpdatesChosen
<1>1. IInv => UpdatesChosen
  BY InvImplies
<1> QED BY <1>1, InvCorrect, PTL

(* No step without faults moves a node back.                                *)
LEMMA StepForward ==
    ASSUME TypeOK, [Next]_vars
    PROVE  \A n \in Node : state'[n].instance_number >= state[n].instance_number
<1>0. \A n \in Node : state[n].instance_number \in Nat
  BY NodeTypes
<1>1. ASSUME NEW n \in Node, NEW j, NEW v, AdvanceInstance(n, j, v), j >= state[n].instance_number
      PROVE  \A k \in Node : state'[k].instance_number >= state[k].instance_number
  <2>1. SavedState(j, v, NoId, NoId, NoValue).instance_number = j
    BY DEF SavedState
  <2>2. state' = [state EXCEPT ![n] = SavedState(j, v, NoId, NoId, NoValue)]
    BY <1>1 DEF AdvanceInstance, BaseAdvance
  <2> QED BY <1>0, <1>1, <2>1, <2>2 DEF TypeOK
<1>2. ASSUME NEW n \in Node, NEW v, NEW a, NEW b, NEW c,
             state' = [state EXCEPT ![n] = SavedState(inst(n), v, a, b, c)]
      PROVE  \A k \in Node : state'[k].instance_number >= state[k].instance_number
  <2>1. SavedState(inst(n), v, a, b, c).instance_number = state[n].instance_number
    BY DEF SavedState, inst
  <2> QED BY <1>0, <1>2, <2>1 DEF TypeOK
<1>3. CASE state' = state
  BY <1>0, <1>3
<1>4. ASSUME NEW n \in Node, NEW m \in msgs, Receive(n, m), state' # state
      PROVE  \A k \in Node : state'[k].instance_number >= state[k].instance_number
  <2>1. CASE ReceivePrepare(n, m)
    BY <1>2, <1>4, <2>1 DEF ReceivePrepare
  <2>2. CASE ReceiveAccept(n, m)
    BY <1>2, <1>4, <2>2 DEF ReceiveAccept
  <2>3. CASE ReceiveAccepted(n, m)
    <3>1. inst(n) + 1 >= state[n].instance_number
      BY <1>0 DEF inst
    <3>2. AdvanceInstance(n, inst(n) + 1, m.val)
      BY <1>4, <2>3 DEF ReceiveAccepted
    <3> QED BY <1>1, <3>1, <3>2
  <2>4. CASE ReceiveCatchup(n, m)
    <3>1. m.inst >= state[n].instance_number /\ AdvanceInstance(n, m.inst, m.val)
      BY <1>0, <2>4, MessageFields DEF ReceiveCatchup, inst, TypeOK
    <3> QED BY <1>1, <3>1
  <2> QED BY <1>4, <2>1, <2>2, <2>3, <2>4
          DEF Receive, ReceiveNack, ReceivePromise, ReceiveSyncRequest
<1> QED BY <1>3, <1>4
        DEF Next, vars, ProposeUpdate, DelayedDrive, Retransmit, SendSyncRequest

(* A node never moves back in the chain: a late catchup or a resolution of  *)
(* a link that was left does not undo an update.                            *)
THEOREM Monotonic == Spec => InstanceMonotonic
<1>1. TypeOK /\ [Next]_vars => [\A n \in Node : state'[n].instance_number >= state[n].instance_number]_vars
  BY StepForward
<1> QED BY <1>1, TypeCorrect, PTL DEF InstanceMonotonic, Spec
=============================================================================
