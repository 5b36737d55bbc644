------------------------------ MODULE NodeProofs ------------------------------
(***************************************************************************)
(* Proofs about what a node of ReplicatedValue keeps for itself: its timers*)
(* (NeverAbandoned) and the counts of its learner (LearnerConsistent).     *)
(***************************************************************************)
EXTENDS ReplicatedValueProofs

-----------------------------------------------------------------------------
(* A node whose proposer has left the number it starts a link with.         *)
Started(n) == proposer[n].proposal_id[1] > 0

Driven(n) == retransmit[n] # NoTask \/ delayed[n]

(* Prepares, and with them promises, carry a number that prepare() made.    *)
NumbersInv ==
    /\ \A m \in msgs : m.type \in {"prepare", "promise"} => m.id[1] > 0
    /\ \A n \in Node : retransmit[n].send = "prepare" => retransmit[n].id[1] > 0

(* NeverAbandoned is not inductive: a promise can hand a proposer without a *)
(* value the value of another one.  It only counts promises for its current *)
(* proposal id, and a proposer that has made one is driven.                 *)
DriverInv ==
    /\ NumbersInv
    /\ \A n \in Node :
          Started(n) \/ proposer[n].proposed_value # NoValue \/ acceptor[n].accepted_id # NoId
              => Driven(n)

LEMMA PrepareNumber ==
    ASSUME NEW n \in Node, NEW p \in Proposer
    PROVE  Prepare(p, n).proposal_id[1] > 0
<1>1. NextNumber(p) \in Nat /\ NextNumber(p) > 0
  BY DEF NextNumber, Proposer, Pid
<1>2. Prepare(p, n).proposal_id = <<NextNumber(p), n>>
  BY DEF Prepare, Proposer
<1> QED BY <1>1, <1>2

LEMMA DriveDriven ==
    ASSUME TypeOK, DriverInv, NEW n \in Node, NEW p \in Proposer, DriveToResolution(n, p),
           UNCHANGED <<state, acceptor, learner, updates>>
    PROVE  DriverInv'
<1> DEFINE id == Prepare(p, n).proposal_id
           t == PrepareTask(id)
           m == PrepareMsg(n, inst(n), id)
<1>1. id[1] > 0 /\ t.send = "prepare" /\ t.id = id /\ t # NoTask
  BY PrepareNumber DEF PrepareTask, NoTask
<1>2. TaskMsg(n, t) = m /\ m.type = "prepare" /\ m.id = id
  BY <1>1 DEF TaskMsg, PrepareMsg
<1>3. retransmit' = [retransmit EXCEPT ![n] = t] /\ msgs' = msgs \cup {m}
  BY <1>2 DEF DriveToResolution, StartTask, Send
<1> HIDE DEF t, m, id
<1>4. retransmit'[n] = t /\ \A k \in Node : k # n => retransmit'[k] = retransmit[k]
  BY <1>3 DEF TypeOK
<1>5. NumbersInv'
  BY <1>1, <1>2, <1>3, <1>4 DEF DriverInv, NumbersInv
<1>6. \A k \in Node : k # n => proposer'[k] = proposer[k] /\ delayed'[k] = delayed[k]
  BY DEF DriveToResolution, TypeOK
<1>7. ASSUME NEW k \in Node,
             Started(k)' \/ proposer'[k].proposed_value # NoValue \/ acceptor'[k].accepted_id # NoId
      PROVE  Driven(k)'
  BY <1>1, <1>4, <1>6, <1>7 DEF DriverInv, Driven, Started
<1> QED BY <1>5, <1>7 DEF DriverInv

(* A step that sends no prepare and no promise, and that leaves the driving *)
(* of every node as it was.                                                 *)
LEMMA NumbersFrame ==
    ASSUME NumbersInv, UNCHANGED retransmit,
           \A m \in msgs' \ msgs : m.type \in {"prepare", "promise"} => m.id[1] > 0
    PROVE  NumbersInv'
BY DEF NumbersInv

LEMMA ObserveKeeps ==
    ASSUME NEW p \in Proposer, NEW id
    PROVE  /\ ObserveProposal(p, id).proposal_id = p.proposal_id
           /\ ObserveProposal(p, id).proposed_value = p.proposed_value
           /\ ObserveProposal(p, id).leader = p.leader
           /\ ObserveProposal(p, id).promises_received = p.promises_received
BY DEF ObserveProposal, Proposer

LEMMA DriverStep ==
    ASSUME TypeOK, DriverInv, [Next]_vars
    PROVE  DriverInv'
<1> USE DEF DriverInv
<1>1. ASSUME NEW n \in Node, NEW v \in Value, ProposeUpdate(n, v)
      PROVE  DriverInv'
  <2>1. ProposeValue(proposer[n], v) \in Proposer
    BY ProposeValueType DEF TypeOK
  <2> QED BY <1>1, <2>1, DriveDriven DEF ProposeUpdate
<1>2. ASSUME NEW n \in Node, DelayedDrive(n)
      PROVE  DriverInv'
  BY <1>2, DriveDriven DEF DelayedDrive, TypeOK
<1>3. ASSUME NEW n \in Node, Retransmit(n)
      PROVE  DriverInv'
  <2> DEFINE m == TaskMsg(n, retransmit[n])
  <2>1. retransmit[n] \in Task
    BY DEF TypeOK
  <2>2. m.type \in {"prepare", "promise"} => m.id[1] > 0
    BY <1>3, <2>1 DEF TaskMsg, PrepareMsg, AcceptMsg, NumbersInv
  <2> HIDE DEF m
  <2>3. NumbersInv'
    BY <1>3, <2>2, NumbersFrame DEF Retransmit, Send, m
  <2> QED BY <1>3, <2>3 DEF Retransmit, Driven, Started
<1>4. ASSUME NEW n \in Node, NEW peer \in Node, SendSyncRequest(n, peer)
      PROVE  DriverInv'
  <2>1. SyncMsg(n, peer, inst(n)).type = "sync_request"
    BY DEF SyncMsg
  <2>2. NumbersInv'
    BY <1>4, <2>1, NumbersFrame DEF SendSyncRequest, Send
  <2> QED BY <1>4, <2>2 DEF SendSyncRequest, Driven, Started
<1>5. ASSUME NEW n \in Node, NEW m \in msgs, ReceivePrepare(n, m)
      PROVE  DriverInv'
  <2>1. m.id[1] > 0
    BY <1>5 DEF ReceivePrepare, NumbersInv
  <2>2. /\ \A a, b : PromiseMsg(n, m.from, m.inst, m.id, a, b).id = m.id
        /\ \A a : NackMsg(n, m.from, m.inst, m.id, a).type = "nack"
    BY DEF PromiseMsg, NackMsg
  <2>3. NumbersInv'
    BY <1>5, <2>1, <2>2, NumbersFrame DEF ReceivePrepare, Send
  <2>4. proposer[n] \in Proposer /\ acceptor[n] \in Acceptor
    BY DEF TypeOK
  <2>5. /\ AcceptorPrepare(acceptor[n], m.id).accepted_id = acceptor[n].accepted_id
        /\ ObserveProposal(proposer[n], m.id).proposal_id = proposer[n].proposal_id
        /\ ObserveProposal(proposer[n], m.id).proposed_value = proposer[n].proposed_value
    BY <2>4, ObserveKeeps DEF AcceptorPrepare, Acceptor
  <2>6. ASSUME NEW k \in Node
        PROVE  /\ proposer'[k].proposal_id = proposer[k].proposal_id
               /\ proposer'[k].proposed_value = proposer[k].proposed_value
               /\ acceptor'[k].accepted_id = acceptor[k].accepted_id
    BY <1>5, <2>5 DEF ReceivePrepare, TypeOK
  <2> QED BY <1>5, <2>3, <2>6 DEF ReceivePrepare, Driven, Started
<1>6. ASSUME NEW n \in Node, NEW m \in msgs, ReceiveNack(n, m)
      PROVE  DriverInv'
  <2>1. /\ retransmit'[n] = NoTask /\ delayed'[n]
        /\ \A k \in Node : k # n => /\ retransmit'[k] = retransmit[k] /\ delayed'[k] = delayed[k]
                                    /\ proposer'[k] = proposer[k]
    BY <1>6 DEF ReceiveNack, TypeOK
  <2>2. msgs' = msgs /\ acceptor' = acceptor
    BY <1>6 DEF ReceiveNack
  <2>3. NumbersInv'
    BY <2>1, <2>2 DEF NumbersInv, NoTask
  <2> QED BY <2>1, <2>2, <2>3 DEF Driven, Started
<1>7. ASSUME NEW n \in Node, NEW m \in msgs, ReceivePromise(n, m)
      PROVE  DriverInv'
  <2> DEFINE p == proposer[n]
             q == ProposerPromise(p, m.from, m.id, m.aid, m.aval)
             t == AcceptTask(q.proposal_id, q.proposed_value)
  <2>1. p \in Proposer /\ m.id[1] > 0
    BY <1>7 DEF TypeOK, ReceivePromise, NumbersInv
  <2>2. /\ q.proposal_id = p.proposal_id
        /\ q.proposed_value # p.proposed_value => m.id = p.proposal_id
    <3>1. m.id \in Pid /\ m.aid \in MaybePid /\ m.aval \in MaybeValue
      BY <1>7, MessageFields DEF ReceivePromise, TypeOK
    <3> DEFINE o == ObserveProposal(p, m.id)
               a == AdoptAccepted(o, m.aid, m.aval)
    <3>2. o \in Proposer /\ o.proposal_id = p.proposal_id /\ o.proposed_value = p.proposed_value
      BY <2>1, <3>1, ObserveKeeps, ObserveProposalType DEF MaybePid
    <3> HIDE DEF o
    <3>3. a \in Proposer /\ a.proposal_id = o.proposal_id
      BY <3>1, <3>2 DEF AdoptAccepted, Proposer
    <3> HIDE DEF a
    <3> DEFINE r == [a EXCEPT !.promises_received = @ \cup {m.from}]
               l == [r EXCEPT !.leader = Cardinality(r.promises_received) = QuorumSize]
    <3>4. l.proposal_id = a.proposal_id
      BY <3>3 DEF Proposer
    <3>5. q = o \/ (m.id = o.proposal_id /\ q = l)
      BY DEF ProposerPromise, o, a
    <3> HIDE DEF q, l
    <3> QED BY <3>2, <3>3, <3>4, <3>5
  <2> HIDE DEF q
  <2>3. proposer'[n] = q /\ \A k \in Node : k # n => proposer'[k] = proposer[k]
    BY <1>7 DEF ReceivePromise, TypeOK, q
  <2>4. acceptor' = acceptor /\ delayed' = delayed
    BY <1>7 DEF ReceivePromise
  <2>5. t.send = "accept" /\ t # NoTask /\ TaskMsg(n, t).type = "accept"
    BY DEF AcceptTask, NoTask, TaskMsg, AcceptMsg
  <2>6. \/ UNCHANGED <<retransmit, msgs>>
        \/ retransmit' = [retransmit EXCEPT ![n] = t] /\ msgs' = msgs \cup {TaskMsg(n, t)}
    BY <1>7 DEF ReceivePromise, StartTask, Send, q
  <2> HIDE DEF t
  <2>7. \A k \in Node : retransmit'[k] = retransmit[k] \/ (k = n /\ retransmit'[k] = t)
    BY <2>6 DEF TypeOK
  <2>8. NumbersInv'
    BY <2>5, <2>6, <2>7 DEF NumbersInv
  <2>9. Started(n) \/ q.proposed_value # NoValue \/ acceptor[n].accepted_id # NoId => Driven(n)
    BY <2>1, <2>2 DEF Started
  <2>10. \A k \in Node : Driven(k) => Driven(k)'
    BY <2>4, <2>5, <2>7 DEF Driven
  <2> QED BY <2>2, <2>3, <2>4, <2>8, <2>9, <2>10 DEF Started
<1>8. ASSUME NEW n \in Node, NEW m \in msgs, ReceiveAccept(n, m)
      PROVE  DriverInv'
  <2>1. /\ AcceptedMsg(n, m.inst, m.id, m.val).type = "accepted"
        /\ \A a : NackMsg(n, m.from, m.inst, m.id, a).type = "nack"
    BY DEF AcceptedMsg, NackMsg
  <2>2. NumbersInv'
    BY <1>8, <2>1, NumbersFrame DEF ReceiveAccept, Send
  <2>3. delayed'[n] /\ \A k \in Node : k # n =>
            delayed'[k] = delayed[k] /\ proposer'[k] = proposer[k] /\ acceptor'[k] = acceptor[k]
    BY <1>8 DEF ReceiveAccept, TypeOK
  <2>4. retransmit' = retransmit
    BY <1>8 DEF ReceiveAccept
  <2> QED BY <2>2, <2>3, <2>4 DEF Driven, Started
<1>9. ASSUME NEW n \in Node, NEW j, NEW v, AdvanceInstance(n, j, v), UNCHANGED msgs
      PROVE  DriverInv'
  <2>1. /\ proposer'[n] = NewProposer(n) /\ acceptor'[n] = NewAcceptor /\ retransmit'[n] = NoTask
        /\ \A k \in Node : k # n => /\ proposer'[k] = proposer[k] /\ acceptor'[k] = acceptor[k]
                                    /\ retransmit'[k] = retransmit[k] /\ delayed'[k] = delayed[k]
    BY <1>9 DEF AdvanceInstance, BaseAdvance, StopDriving, TypeOK
  <2>2. /\ NewProposer(n).proposal_id[1] = 0 /\ NewProposer(n).proposed_value = NoValue
        /\ NewAcceptor.accepted_id = NoId
    BY DEF NewProposer, NewAcceptor
  <2>3. NumbersInv'
    BY <1>9, <2>1 DEF NumbersInv, NoTask
  <2> QED BY <2>1, <2>2, <2>3 DEF Driven, Started
<1>10. ASSUME NEW n \in Node, NEW m \in msgs, ReceiveAccepted(n, m)
       PROVE  DriverInv'
  <2>1. CASE Resolves(learner[n], m.from, m.id, m.val)
    BY <1>9, <1>10, <2>1 DEF ReceiveAccepted
  <2>2. CASE ~Resolves(learner[n], m.from, m.id, m.val)
    BY <1>10, <2>2 DEF ReceiveAccepted, NumbersInv, Driven, Started
  <2> QED BY <2>1, <2>2
<1>11. ASSUME NEW n \in Node, NEW m \in msgs, ReceiveSyncRequest(n, m)
       PROVE  DriverInv'
  <2>1. \A i, v : CatchupMsg(n, m.from, i, v).type = "catchup"
    BY DEF CatchupMsg
  <2>2. NumbersInv'
    BY <1>11, <2>1, NumbersFrame DEF ReceiveSyncRequest, Send
  <2> QED BY <1>11, <2>2 DEF ReceiveSyncRequest, Driven, Started
<1>12. ASSUME NEW n \in Node, NEW m \in msgs, ReceiveCatchup(n, m)
       PROVE  DriverInv'
  BY <1>9, <1>12 DEF ReceiveCatchup
<1>13. CASE UNCHANGED vars
  BY <1>13 DEF vars, NumbersInv, Driven, Started
<1> QED
  BY <1>1, <1>2, <1>3, <1>4, <1>5, <1>6, <1>7, <1>8, <1>10, <1>11, <1>12, <1>13 DEF Next, Receive

(* A node that knows of a proposal for its link keeps a retransmit task or  *)
(* a drive timer, whatever nacks, promises and accepts arrive and in        *)
(* whatever order: without a crash no link is abandoned.                    *)
THEOREM AlwaysDriven == Spec => []NeverAbandoned
<1>1. Init => DriverInv
  BY DEF Init, DriverInv, NumbersInv, Started, NoTask, NewProposer, NewAcceptor
<1>2. TypeOK /\ DriverInv /\ [Next]_vars => DriverInv'
  BY DriverStep
<1>3. DriverInv => NeverAbandoned
  BY DEF DriverInv, NeverAbandoned, Driven
<1> QED BY <1>1, <1>2, <1>3, TypeCorrect, PTL DEF Spec
-----------------------------------------------------------------------------
(* The statuses P describe the votes acc of the peers in U.                 *)
Describes(P, acc, U) ==
    /\ DOMAIN P = {acc[u] : u \in U} \ {NoId}
    /\ \A id \in DOMAIN P :
          /\ P[id].acceptors = {u \in U : acc[u] = id}
          /\ P[id].retain_count = Cardinality(P[id].acceptors)
          /\ P[id].accept_count >= P[id].retain_count

LEMMA ConsistentDef ==
    LearnerConsistent <=> \A n \in Node : Describes(learner[n].proposals, learner[n].acceptors, Node)
BY DEF LearnerConsistent, Describes

(* receive_accepted first takes the sender's earlier vote back: what is left*)
(* describes the votes of the other peers.                                  *)
LEMMA ReleaseDescribes ==
    ASSUME NEW l, LearnerTypeOK(l), Describes(l.proposals, l.acceptors, Node), NEW from \in Node
    PROVE  Describes(Release(l.proposals, l.acceptors[from], from), l.acceptors, Node \ {from})
<1> DEFINE P == l.proposals
           acc == l.acceptors
           last == acc[from]
           ps == [P[last] EXCEPT !.retain_count = @ - 1, !.acceptors = @ \ {from}]
           R == Release(P, last, from)
           U == Node \ {from}
<1>0. acc \in [Node -> MaybePid] /\ \A id \in DOMAIN P : P[id] \in ProposalStatus
  BY DEF LearnerTypeOK
<1>1. /\ DOMAIN P = {acc[u] : u \in Node} \ {NoId}
      /\ \A id \in DOMAIN P : /\ P[id].acceptors = {u \in Node : acc[u] = id}
                              /\ P[id].retain_count = Cardinality(P[id].acceptors)
                              /\ P[id].accept_count >= P[id].retain_count
  BY DEF Describes
<1>2. \A id \in DOMAIN P : id # last => P[id].acceptors = {u \in U : acc[u] = id}
  BY <1>1
<1>3. CASE last = NoId
  <2>1. R = P
    BY <1>1, <1>3 DEF Release
  <2>2. DOMAIN P = {acc[u] : u \in U} \ {NoId}
    BY <1>1, <1>3
  <2>3. \A id \in DOMAIN P : id # last
    BY <1>1, <1>3
  <2> HIDE DEF P, acc, R
  <2> QED BY <1>1, <1>2, <2>1, <2>2, <2>3 DEF Describes, R, P, acc
<1>4. CASE last # NoId
  <2> DEFINE A == {u \in U : acc[u] = last}
             B == {u \in Node : acc[u] = last}
  <2>1. last \in DOMAIN P /\ P[last].acceptors = B /\ from \in B
    BY <1>0, <1>1, <1>4
  <2>2. B \ {from} = A /\ IsFiniteSet(B) /\ IsFiniteSet(A)
    <3>1. IsFiniteSet(B)
      BY NodeAssumption, FS_Subset, B \subseteq Node
    <3>2. B \ {from} = A
      OBVIOUS
    <3> QED BY <3>1, <3>2, FS_RemoveElement
  <2>3. Cardinality(A) = Cardinality(B) - 1 /\ Cardinality(A) \in Nat /\ Cardinality(B) \in Nat
    <3>1. Cardinality(B \ {from}) = IF from \in B THEN Cardinality(B) - 1 ELSE Cardinality(B)
      BY <2>2, FS_RemoveElement
    <3> HIDE DEF A, B
    <3> QED BY <2>1, <2>2, <3>1, FS_CardinalityType
  <2>4. P[last] \in ProposalStatus
    BY <1>0, <2>1
  <2>5. /\ ps.acceptors = A /\ ps.retain_count = Cardinality(A)
        /\ ps.accept_count >= ps.retain_count
    <3>1. /\ ps.acceptors = P[last].acceptors \ {from} /\ ps.retain_count = P[last].retain_count - 1
          /\ ps.accept_count = P[last].accept_count
      BY <2>4 DEF ProposalStatus
    <3>2. P[last].retain_count = Cardinality(B) /\ P[last].accept_count >= P[last].retain_count
      BY <1>1, <2>1
    <3>3. P[last].accept_count \in Nat
      BY <2>4 DEF ProposalStatus
    <3> HIDE DEF ps, A, B
    <3> QED BY <2>1, <2>2, <2>3, <3>1, <3>2, <3>3
  <2>6. \A id : id # last => (id \in DOMAIN P <=> id \in {acc[u] : u \in U} \ {NoId})
    BY <1>0, <1>1
  <2>7. last \in {acc[u] : u \in U} <=> A # {}
    BY <1>0
  <2>8. A = {} <=> Cardinality(A) = 0
    BY <2>2, FS_EmptySet
  <2>9. R = IF ps.retain_count = 0 THEN [id \in DOMAIN P \ {last} |-> P[id]]
            ELSE [P EXCEPT ![last] = ps]
    BY <2>1 DEF Release, Unsupported
  <2> HIDE DEF A, B, ps, P, acc, R, last
  <2>10. CASE ps.retain_count = 0
    <3>1. R = [id \in DOMAIN P \ {last} |-> P[id]]
      BY <2>9, <2>10
    <3>2. DOMAIN R = {acc[u] : u \in U} \ {NoId}
      BY <2>5, <2>6, <2>7, <2>8, <2>10, <3>1
    <3>3. \A id \in DOMAIN R : R[id] = P[id] /\ id # last /\ id \in DOMAIN P
      BY <3>1
    <3> QED BY <1>1, <1>2, <3>2, <3>3 DEF Describes, R, P, acc, last
  <2>11. CASE ps.retain_count # 0
    <3>1. R = [P EXCEPT ![last] = ps]
      BY <2>9, <2>11
    <3>2. DOMAIN R = {acc[u] : u \in U} \ {NoId}
      <4>1. DOMAIN R = DOMAIN P
        BY <3>1
      <4>2. last \in {acc[u] : u \in U}
        BY <2>5, <2>7, <2>8, <2>11
      <4> QED BY <1>4, <2>1, <2>6, <4>1, <4>2
    <3>3. \A id \in DOMAIN R : id \in DOMAIN P /\ R[id] = IF id = last THEN ps ELSE P[id]
      BY <3>1
    <3>4. ASSUME NEW id \in DOMAIN R
          PROVE  /\ R[id].acceptors = {u \in U : acc[u] = id}
                 /\ R[id].retain_count = Cardinality(R[id].acceptors)
                 /\ R[id].accept_count >= R[id].retain_count
      <4>1. CASE id = last
        BY <2>5, <3>3, <3>4, <4>1 DEF A
      <4>2. CASE id # last
        BY <1>1, <1>2, <3>3, <3>4, <4>2
      <4> QED BY <4>1, <4>2
    <3> QED BY <3>2, <3>4 DEF Describes, R, P, acc, last
  <2> QED BY <2>10, <2>11
<1> QED BY <1>3, <1>4

(* Then it counts the new vote.                                             *)
LEMMA SupportDescribes ==
    ASSUME NEW R, NEW acc \in [Node -> MaybePid], NEW from \in Node, NEW id \in Pid, NEW v \in Value,
           StatusesOK(R), Describes(R, acc, Node \ {from})
    PROVE  Describes(Support(R, id, v, from), [acc EXCEPT ![from] = id], Node)
<1> DEFINE U == Node \ {from}
           new == [acc EXCEPT ![from] = id]
           Q == Support(R, id, v, from)
           ps == IF id \in DOMAIN R THEN R[id] ELSE NewStatus(v)
           ns == [ps EXCEPT !.accept_count = @ + 1, !.retain_count = @ + 1, !.acceptors = @ \cup {from}]
           A == {u \in U : acc[u] = id}
<1>1. new[from] = id /\ \A u \in U : new[u] = acc[u]
  OBVIOUS
<1>2. id # NoId
  BY NoIdLeast
<1>3. /\ DOMAIN R = {acc[u] : u \in U} \ {NoId}
      /\ \A x \in DOMAIN R : /\ R[x].acceptors = {u \in U : acc[u] = x}
                             /\ R[x].retain_count = Cardinality(R[x].acceptors)
                             /\ R[x].accept_count >= R[x].retain_count
  BY DEF Describes
<1>4. IsFiniteSet(A) /\ Cardinality(A) \in Nat /\ from \notin A
  BY NodeAssumption, FS_Subset, FS_CardinalityType, A \subseteq Node
<1>5. Cardinality(A \cup {from}) = Cardinality(A) + 1
  BY <1>4, FS_AddElement
<1>6. /\ ps \in ProposalStatus /\ ps.acceptors = A /\ ps.retain_count = Cardinality(A)
      /\ ps.accept_count >= ps.retain_count
  <2>1. CASE id \in DOMAIN R
    BY <1>3, <2>1 DEF StatusesOK
  <2>2. CASE id \notin DOMAIN R
    <3>1. A = {}
      BY <1>2, <1>3, <2>2
    <3>2. Cardinality(A) = 0
      BY <3>1, FS_EmptySet
    <3>3. ps = NewStatus(v)
      BY <2>2
    <3> HIDE DEF A
    <3> QED BY <3>1, <3>2, <3>3 DEF NewStatus, ProposalStatus
  <2> QED BY <2>1, <2>2
<1> HIDE DEF ps
<1>7. /\ ns.acceptors = ps.acceptors \cup {from} /\ ns.retain_count = ps.retain_count + 1
      /\ ns.accept_count = ps.accept_count + 1 /\ ps.accept_count \in Nat
  BY <1>6 DEF ProposalStatus
<1>8. Q = [x \in DOMAIN R \cup {id} |-> IF x = id THEN ns ELSE R[x]]
  BY DEF Support, ps
<1> HIDE DEF ns, Q
<1>9. /\ ns.retain_count = Cardinality(ns.acceptors) /\ ns.accept_count >= ns.retain_count
      /\ ns.acceptors = A \cup {from}
  <2> HIDE DEF A
  <2> QED BY <1>4, <1>5, <1>6, <1>7
<1>10. DOMAIN Q = DOMAIN R \cup {id} /\ Q[id] = ns /\ \A x \in DOMAIN R : x # id => Q[x] = R[x]
  BY <1>8
<1> HIDE DEF new
<1>11. DOMAIN Q = {new[u] : u \in Node} \ {NoId}
  BY <1>1, <1>2, <1>3, <1>10
<1>12. ASSUME NEW x \in DOMAIN Q
       PROVE  /\ Q[x].acceptors = {u \in Node : new[u] = x}
              /\ Q[x].retain_count = Cardinality(Q[x].acceptors)
              /\ Q[x].accept_count >= Q[x].retain_count
  <2>1. CASE x = id
    <3>1. A \cup {from} = {u \in Node : new[u] = id}
      BY <1>1
    <3> QED BY <1>9, <1>10, <2>1, <3>1
  <2>2. CASE x # id
    <3>1. x \in DOMAIN R /\ Q[x] = R[x]
      BY <1>10, <1>12, <2>2
    <3>2. {u \in U : acc[u] = x} = {u \in Node : new[u] = x}
      BY <1>1, <2>2
    <3> QED BY <1>3, <3>1, <3>2
  <2> QED BY <2>1, <2>2
<1> QED BY <1>11, <1>12 DEF Describes, Q, new

(* The assertion of receive_accepted does not fail: the votes that are      *)
(* counted for an id are all for the one value the id was proposed with.    *)
LEMMA NoMismatch ==
    ASSUME IInv, LearnerConsistent, NEW n \in Node, NEW m \in msgs, m.type = "accepted",
           m.inst = state[n].instance_number
    PROVE  ~Mismatch(Release(learner[n].proposals, learner[n].acceptors[m.from], m.from), m.id, m.val)
<1> DEFINE l == learner[n]
           R == Release(l.proposals, l.acceptors[m.from], m.from)
<1>1. m \in Message /\ LearnerTypeOK(l) /\ LearnerInv(n)
  BY DEF IInv, NodeInv, TypeOK, LearnerTypeOK
<1>2. m.from \in Node /\ m.id \in Pid /\ m.val \in Value /\ Voted(m.from, m.inst, m.id, m.val)
  BY <1>1, MessageFields, AcceptedMsgShape DEF Voted
<1> SUFFICES ASSUME m.id \in DOMAIN R PROVE R[m.id].value = m.val
  BY DEF Mismatch
<1>3. m.id \in DOMAIN l.proposals /\ R[m.id].value = l.proposals[m.id].value
  BY <1>1, <1>2, ReleaseFacts
<1> HIDE DEF R
<1>4. PICK S \in SUBSET Node :
         /\ Cardinality(S) = l.proposals[m.id].accept_count
         /\ \A u \in S : Voted(u, m.inst, m.id, l.proposals[m.id].value)
  BY <1>1, <1>3 DEF LearnerInv
<1>5. S # {}
  <2> DEFINE A == {u \in Node : l.acceptors[u] = m.id}
             ps == l.proposals[m.id]
  <2>1. /\ DOMAIN l.proposals = {l.acceptors[u] : u \in Node} \ {NoId}
        /\ ps.retain_count = Cardinality(A) /\ ps.accept_count >= ps.retain_count
    BY <1>3 DEF LearnerConsistent
  <2>2. A # {}
    BY <1>3, <2>1
  <2>3. IsFiniteSet(A)
    BY NodeAssumption, FS_Subset, A \subseteq Node
  <2>4. Cardinality(A) \in Nat /\ Cardinality(A) # 0
    BY <2>2, <2>3, FS_CardinalityType, FS_EmptySet
  <2>5. Cardinality(S) # 0
    BY <1>1, <1>3, <1>4, <2>1, <2>4 DEF LearnerTypeOK, ProposalStatus
  <2> QED BY <2>5, FS_EmptySet
<1>6. PICK u \in S : u \in Node /\ Voted(u, m.inst, m.id, l.proposals[m.id].value)
  BY <1>4, <1>5
<1> QED BY <1>2, <1>3, <1>6, OneValueVoted

(* Nor does the release of the sender's last vote.                          *)
LEMMA NothingRaised ==
    ASSUME IInv, LearnerConsistent, NEW n \in Node, NEW m \in msgs, m.type = "accepted",
           m.inst = state[n].instance_number
    PROVE  ~Raises(learner[n], m.from, m.id, m.val)
<1>1. m.from \in Node
  BY MessageFields DEF IInv, TypeOK
<1>2. ~Unsupported(learner[n].proposals, learner[n].acceptors[m.from], m.from)
  BY <1>1 DEF Unsupported, LearnerConsistent
<1> QED BY <1>2, NoMismatch DEF Raises

LEMMA LearnerStep ==
    ASSUME IInv, LearnerConsistent, [Next]_vars
    PROVE  LearnerConsistent'
<1>0. TypeOK
  BY DEF IInv
<1>1. CASE UNCHANGED learner
  BY <1>1 DEF LearnerConsistent
<1>2. ASSUME NEW n \in Node, learner' = [learner EXCEPT ![n] = NewLearner]
      PROVE  LearnerConsistent'
  <2>1. Describes(NewLearner.proposals, NewLearner.acceptors, Node)
    BY DEF NewLearner, Describes
  <2>2. \A k \in Node : learner'[k] = IF k = n THEN NewLearner ELSE learner[k]
    BY <1>0, <1>2 DEF TypeOK
  <2>3. \A k \in Node : Describes(learner'[k].proposals, learner'[k].acceptors, Node)
    BY <2>1, <2>2, ConsistentDef
  <2> QED BY <2>3 DEF LearnerConsistent, Describes
<1>3. ASSUME NEW n \in Node, NEW m \in msgs, m.type = "accepted", m.inst = state[n].instance_number,
             learner' = [learner EXCEPT ![n] = LearnerAccepted(learner[n], m.from, m.id, m.val)]
      PROVE  LearnerConsistent'
  <2> DEFINE l == learner[n]
             k == LearnerAccepted(l, m.from, m.id, m.val)
             R == Release(l.proposals, l.acceptors[m.from], m.from)
  <2>1. m.from \in Node /\ m.id \in Pid /\ m.val \in Value /\ LearnerTypeOK(l)
    BY <1>0, <1>3, MessageFields DEF TypeOK, LearnerTypeOK
  <2>2. Describes(l.proposals, l.acceptors, Node)
    BY ConsistentDef
  <2>3. Describes(k.proposals, k.acceptors, Node)
    <3>1. CASE IsOldAccepted(l, m.from, m.id)
      BY <2>2, <3>1 DEF LearnerAccepted
    <3>2. CASE ~IsOldAccepted(l, m.from, m.id)
      <4>1. /\ k.acceptors = [l.acceptors EXCEPT ![m.from] = m.id]
            /\ k.proposals = Support(R, m.id, m.val, m.from)
        BY <1>3, <3>2, NothingRaised DEF LearnerAccepted
      <4>2. Describes(R, l.acceptors, Node \ {m.from})
        BY <2>1, <2>2, ReleaseDescribes
      <4>3. StatusesOK(R) /\ l.acceptors \in [Node -> MaybePid]
        BY <2>1, ReleaseType DEF StatusesOK, LearnerTypeOK
      <4> HIDE DEF k, R
      <4> QED BY <2>1, <4>1, <4>2, <4>3, SupportDescribes
    <3> QED BY <3>1, <3>2
  <2> HIDE DEF k
  <2>4. \A j \in Node : learner'[j] = IF j = n THEN k ELSE learner[j]
    BY <1>0, <1>3 DEF TypeOK, k
  <2>5. \A j \in Node : Describes(learner'[j].proposals, learner'[j].acceptors, Node)
    BY <2>3, <2>4, ConsistentDef
  <2> QED BY <2>5 DEF LearnerConsistent, Describes
<1>4. ASSUME NEW n \in Node, NEW m \in msgs, Receive(n, m), learner' # learner
      PROVE  LearnerConsistent'
  <2>1. CASE ReceiveAccepted(n, m)
    BY <1>2, <1>3, <2>1 DEF ReceiveAccepted, IsCurrent, inst, AdvanceInstance, BaseAdvance
  <2>2. CASE ReceiveCatchup(n, m)
    BY <1>2, <2>2 DEF ReceiveCatchup, AdvanceInstance, BaseAdvance
  <2> QED BY <1>4, <2>1, <2>2
          DEF Receive, ReceivePrepare, ReceiveNack, ReceivePromise, ReceiveAccept, ReceiveSyncRequest
<1> QED BY <1>1, <1>4 DEF Next, vars, ProposeUpdate, DelayedDrive, Retransmit, SendSyncRequest

(* The bookkeeping of the learner: statuses are kept for exactly the ids    *)
(* that peers support, so that looking up and releasing a peer's earlier    *)
(* vote cannot fail, and accept_count never falls below the votes retained. *)
THEOREM LearnerCountsVotes == Spec => []LearnerConsistent
<1>1. Init => LearnerConsistent
  <2> SUFFICES ASSUME Init PROVE LearnerConsistent
    OBVIOUS
  <2>1. \A n \in Node : learner[n] = NewLearner
    BY DEF Init
  <2> QED BY <2>1 DEF LearnerConsistent, NewLearner
<1>2. IInv /\ LearnerConsistent /\ [Next]_vars => LearnerConsistent'
  BY LearnerStep
<1> QED BY <1>1, <1>2, InvCorrect, PTL DEF Spec
=============================================================================
