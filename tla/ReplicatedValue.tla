--------------------------- MODULE ReplicatedValue ---------------------------
(***************************************************************************)
(* A node of the Paxos cluster as paxos/custom_server.py builds it:        *)
(*   ReplicatedValue(ExponentialBackoffResolutionStrategyMixin,            *)
(*                   SimpleSynchronizationStrategyMixin,                   *)
(*                   BaseReplicatedValue)                                  *)
(* and the UDP messenger that connects the nodes.  Twisted runs one        *)
(* handler at a time on a node, so a handler is one action.  The nodes     *)
(* here do not fail; FaultyReplicatedValue adds crashes and failing update *)
(* callbacks.                                                              *)
(*                                                                         *)
(* msgs is the set of datagrams ever sent.  One element of type prepare,   *)
(* accept or accepted stands for the copies sent to all the peers (the     *)
(* sender included), as the code sends them.  A datagram is never removed: *)
(* it may be delivered late, out of order, more than once or never.        *)
(***************************************************************************)
EXTENDS ComposablePaxos

CONSTANTS
    MaxNumber,    \* bound: the highest proposal number each node uses
    MaxInstance,  \* bound: the last link of the chain reached
    Clients,      \* the <<node, value>> pairs that clients propose
    Drivers,      \* nodes whose drive timer may fire
    Syncs,        \* the <<node, peer>> pairs the synchronization timers pick
    Lost          \* <<type, from, to>>: datagrams that are always lost

ASSUME BoundAssumption == MaxNumber \in [Node -> Nat] /\ MaxInstance \in Nat

VARIABLES
    state,       \* attributes of BaseReplicatedValue, equal to the state file
    proposer, acceptor, learner,    \* the roles of self.paxos
    retransmit,  \* what the retransmit task sends, NoTask if there is none
    delayed,     \* is the delayed_drive timer running
    msgs,        \* datagrams sent so far
    updates      \* history: <<instance_number, value>> given to onUpdateCallback

vars == <<state, proposer, acceptor, learner, retransmit, delayed, msgs, updates>>

-----------------------------------------------------------------------------
Instance == 0 .. MaxInstance

State == [instance_number : Instance, current_value : MaybeValue,
          promised_id : MaybePid, accepted_id : MaybePid, accepted_value : MaybeValue]

(* Mutation: the vote is not saved.                                         *)
SavedWithoutVote(i, v, promised, aid, aval) ==
    [instance_number |-> i, current_value |-> v, promised_id |-> promised,
     accepted_id |-> NoId, accepted_value |-> NoValue]

SavedState(i, v, promised, aid, aval) ==
    [instance_number |-> i, current_value |-> v, promised_id |-> promised,
     accepted_id |-> aid, accepted_value |-> aval]

inst(n) == state[n].instance_number

NoTask == [send |-> "nothing"]
PrepareTask(id) == [send |-> "prepare", id |-> id]
AcceptTask(id, v) == [send |-> "accept", id |-> id, val |-> v]

Task == {NoTask} \cup [send : {"prepare"}, id : Pid]
                 \cup [send : {"accept"}, id : Pid, val : Value]

PrepareMsg(n, i, id) == [type |-> "prepare", from |-> n, inst |-> i, id |-> id]
NackMsg(n, to, i, id, promised) ==
    [type |-> "nack", from |-> n, to |-> to, inst |-> i, id |-> id, promised |-> promised]
PromiseMsg(n, to, i, id, aid, aval) ==
    [type |-> "promise", from |-> n, to |-> to, inst |-> i, id |-> id, aid |-> aid, aval |-> aval]
AcceptMsg(n, i, id, v) == [type |-> "accept", from |-> n, inst |-> i, id |-> id, val |-> v]
AcceptedMsg(n, i, id, v) == [type |-> "accepted", from |-> n, inst |-> i, id |-> id, val |-> v]
SyncMsg(n, to, i) == [type |-> "sync_request", from |-> n, to |-> to, inst |-> i]
(* Mutation: the catch-up names the next link.                              *)
CatchupNext(n, to, i, v) == [type |-> "catchup", from |-> n, to |-> to, inst |-> i + 1, val |-> v]
CatchupMsg(n, to, i, v) == [type |-> "catchup", from |-> n, to |-> to, inst |-> i, val |-> v]

Message ==
    [type : {"prepare"}, from : Node, inst : Instance, id : Pid]
    \cup [type : {"nack"}, from : Node, to : Node, inst : Instance, id : Pid, promised : MaybePid]
    \cup [type : {"promise"}, from : Node, to : Node, inst : Instance, id : Pid,
          aid : MaybePid, aval : MaybeValue]
    \cup [type : {"accept", "accepted"}, from : Node, inst : Instance, id : Pid, val : Value]
    \cup [type : {"sync_request"}, from : Node, to : Node, inst : Instance]
    \cup [type : {"catchup"}, from : Node, to : Node, inst : Instance, val : Value]

-----------------------------------------------------------------------------
Init ==
    /\ state = [n \in Node |-> SavedState(0, NoValue, NoId, NoId, NoValue)]
    /\ proposer = [n \in Node |-> NewProposer(n)]
    /\ acceptor = [n \in Node |-> NewAcceptor]
    /\ learner = [n \in Node |-> NewLearner]
    /\ retransmit = [n \in Node |-> NoTask]
    /\ delayed = [n \in Node |-> FALSE]
    /\ msgs = {}
    /\ updates = {}

Send(m) == msgs' = msgs \cup {m}

(* What the retransmit task sends when it fires: the lambda looks up        *)
(* self.instance_number at that moment, not when the task was created.      *)
TaskMsg(n, task) ==
    IF task.send = "prepare" THEN PrepareMsg(n, inst(n), task.id)
    ELSE AcceptMsg(n, inst(n), task.id, task.val)

(* Replace the retransmit task by one that fires now (LoopingCall.start     *)
(* with now=True).                                                          *)
StartTask(n, task) ==
    /\ retransmit' = [retransmit EXCEPT ![n] = task]
    /\ Send(TaskMsg(n, task))

StopDriving(n) ==
    /\ retransmit' = [retransmit EXCEPT ![n] = NoTask]
    /\ delayed' = [delayed EXCEPT ![n] = FALSE]

(* drive_to_resolution on a node whose proposer is p: the timer stops, the  *)
(* proposer moves to its next id and the prepare of that id is sent.        *)
DriveToResolution(n, p) ==
    /\ NextNumber(p) <= MaxNumber[n]
    /\ proposer' = [proposer EXCEPT ![n] = Prepare(p, n)]
    /\ delayed' = [delayed EXCEPT ![n] = FALSE]
    /\ StartTask(n, PrepareTask(Prepare(p, n).proposal_id))

(* BaseReplicatedValue.advance_instance: save, replace self.paxos, call     *)
(* onUpdateCallback.                                                        *)
BaseAdvance(n, i, v) ==
    /\ i <= MaxInstance
    /\ state' = [state EXCEPT ![n] = SavedState(i, v, NoId, NoId, NoValue)]
    /\ proposer' = [proposer EXCEPT ![n] = NewProposer(n)]
    /\ acceptor' = [acceptor EXCEPT ![n] = NewAcceptor]
    /\ learner' = [learner EXCEPT ![n] = NewLearner]
    /\ updates' = updates \cup {<<i, v>>}

(* The mixin stops driving after the base class has advanced.               *)
AdvanceInstance(n, i, v) == BaseAdvance(n, i, v) /\ StopDriving(n)

-----------------------------------------------------------------------------
(* A client's value reaches n ("propose" datagram): set it if none is known *)
(* and drive in any case.                                                   *)
ProposeUpdate(n, v) ==
    /\ <<n, v>> \in Clients
    /\ DriveToResolution(n, ProposeValue(proposer[n], v))
    /\ UNCHANGED <<state, acceptor, learner, updates>>

(* The delayed_drive timer fires.                                           *)
DelayedDrive(n) ==
    /\ n \in Drivers
    /\ delayed[n]
    /\ DriveToResolution(n, proposer[n])
    /\ UNCHANGED <<state, acceptor, learner, updates>>

(* The retransmit task fires.                                               *)
Retransmit(n) ==
    /\ retransmit[n] # NoTask
    /\ Send(TaskMsg(n, retransmit[n]))
    /\ UNCHANGED <<state, proposer, acceptor, learner, retransmit, delayed, updates>>

(* Messages for another link of the chain are ignored by every handler of   *)
(* the five Paxos messages.                                                 *)
IsCurrent(n, m) == m.inst = inst(n)

ReceivePrepare(n, m) ==
    /\ m.type = "prepare" /\ IsCurrent(n, m)
    /\ LET a == acceptor[n]
           b == AcceptorPrepare(a, m.id)
       IN  /\ acceptor' = [acceptor EXCEPT ![n] = b]
           /\ proposer' = [proposer EXCEPT ![n] = ObserveProposal(@, m.id)]
           /\ IF Admits(a, m.id)
              THEN /\ state' = [state EXCEPT ![n] =
                         SavedState(inst(n), @.current_value, m.id, a.accepted_id, a.accepted_value)]
                   /\ Send(PromiseMsg(n, m.from, m.inst, m.id, a.accepted_id, a.accepted_value))
              ELSE /\ state' = state
                   /\ Send(NackMsg(n, m.from, m.inst, m.id, state[n].promised_id))
    /\ UNCHANGED <<learner, retransmit, delayed, updates>>

(* Mutation: no further attempt is scheduled.                               *)
NackGivesUp(n, m) ==
    /\ m.type = "nack" /\ m.to = n /\ IsCurrent(n, m)
    /\ proposer' = [proposer EXCEPT ![n] = ProposerNack(@, n, m.from, m.id, m.promised)]
    /\ StopDriving(n)
    /\ UNCHANGED <<state, acceptor, learner, msgs, updates>>

(* The Prepare that a quorum of nacks produces is dropped; the mixin stops  *)
(* driving and schedules another attempt for any nack of the current link.  *)
ReceiveNack(n, m) ==
    /\ m.type = "nack" /\ m.to = n /\ IsCurrent(n, m)
    /\ LET p == ProposerNack(proposer[n], n, m.from, m.id, m.promised)
       IN  /\ p.proposal_id[1] <= MaxNumber[n]
           /\ proposer' = [proposer EXCEPT ![n] = p]
    /\ retransmit' = [retransmit EXCEPT ![n] = NoTask]
    /\ delayed' = [delayed EXCEPT ![n] = TRUE]
    /\ UNCHANGED <<state, acceptor, learner, msgs, updates>>

ReceivePromise(n, m) ==
    /\ m.type = "promise" /\ m.to = n /\ IsCurrent(n, m)
    /\ LET p == ProposerPromise(proposer[n], m.from, m.id, m.aid, m.aval)
       IN  /\ proposer' = [proposer EXCEPT ![n] = p]
           /\ IF ReturnsAccept(proposer[n], p)
              THEN StartTask(n, AcceptTask(p.proposal_id, p.proposed_value))
              ELSE UNCHANGED <<retransmit, msgs>>
    /\ UNCHANGED <<state, acceptor, learner, delayed, updates>>

(* receive_accept saves self.promised_id, the promise of the last prepare,  *)
(* not the id just accepted.  The silence timer restarts in every case.     *)
ReceiveAccept(n, m) ==
    /\ m.type = "accept" /\ IsCurrent(n, m)
    /\ acceptor' = [acceptor EXCEPT ![n] = AcceptorAccept(@, m.id, m.val)]
    /\ proposer' = [proposer EXCEPT ![n] = ObserveProposal(@, m.id)]
    /\ IF Admits(acceptor[n], m.id)
       THEN /\ state' = [state EXCEPT ![n] =
                  SavedState(inst(n), @.current_value, @.promised_id, m.id, m.val)]
            /\ Send(AcceptedMsg(n, m.inst, m.id, m.val))
       ELSE /\ state' = state
            /\ Send(NackMsg(n, m.from, m.inst, m.id, state[n].promised_id))
    /\ delayed' = [delayed EXCEPT ![n] = TRUE]
    /\ UNCHANGED <<learner, retransmit, updates>>

(* Resolution moves the node to the next link with the value of the message.*)
ReceiveAccepted(n, m) ==
    /\ m.type = "accepted" /\ IsCurrent(n, m)
    /\ IF Resolves(learner[n], m.from, m.id, m.val)
       THEN /\ AdvanceInstance(n, inst(n) + 1, m.val)
            /\ UNCHANGED msgs
       ELSE /\ learner' = [learner EXCEPT ![n] = LearnerAccepted(@, m.from, m.id, m.val)]
            /\ UNCHANGED <<state, proposer, acceptor, retransmit, delayed, msgs, updates>>

(* The periodic sync task asks one peer, possibly the node itself.          *)
SendSyncRequest(n, peer) ==
    /\ <<n, peer>> \in Syncs
    /\ Send(SyncMsg(n, peer, inst(n)))
    /\ UNCHANGED <<state, proposer, acceptor, learner, retransmit, delayed, updates>>

ReceiveSyncRequest(n, m) ==
    /\ m.type = "sync_request" /\ m.to = n
    /\ m.inst < inst(n)
    /\ Send(CatchupMsg(n, m.from, inst(n), state[n].current_value))
    /\ UNCHANGED <<state, proposer, acceptor, learner, retransmit, delayed, updates>>

(* Mutation: a catch-up is applied whatever its link.                       *)
CatchupAlways(n, m) ==
    /\ m.type = "catchup" /\ m.to = n
    /\ AdvanceInstance(n, m.inst, m.val)
    /\ UNCHANGED msgs

ReceiveCatchup(n, m) ==
    /\ m.type = "catchup" /\ m.to = n
    /\ m.inst > inst(n)
    /\ AdvanceInstance(n, m.inst, m.val)
    /\ UNCHANGED msgs

(* datagramReceived hands a datagram to the handler of its type.            *)
Receive(n, m) ==
    /\ <<m.type, m.from, n>> \notin Lost
    /\ \/ ReceivePrepare(n, m)
       \/ ReceiveNack(n, m)
       \/ ReceivePromise(n, m)
       \/ ReceiveAccept(n, m)
       \/ ReceiveAccepted(n, m)
       \/ ReceiveSyncRequest(n, m)
       \/ ReceiveCatchup(n, m)

Next ==
    \/ \E n \in Node, v \in Value : ProposeUpdate(n, v)
    \/ \E n \in Node : DelayedDrive(n)
    \/ \E n \in Node : Retransmit(n)
    \/ \E n, peer \in Node : SendSyncRequest(n, peer)
    \/ \E n \in Node, m \in msgs : Receive(n, m)

Spec == Init /\ [][Next]_vars

-----------------------------------------------------------------------------
(* Every attribute has its type, messages are well formed, and a node that  *)
(* is past the first link holds a value.                                    *)
TypeOK ==
    /\ state \in [Node -> State]
    /\ \A n \in Node : inst(n) > 0 => state[n].current_value \in Value
    /\ proposer \in [Node -> Proposer]
    /\ acceptor \in [Node -> Acceptor]
    /\ DOMAIN learner = Node
    /\ \A n \in Node : /\ learner[n].acceptors \in [Node -> MaybePid]
                       /\ \A id \in DOMAIN learner[n].proposals :
                             id \in Pid /\ learner[n].proposals[id] \in ProposalStatus
    /\ retransmit \in [Node -> Task]
    /\ delayed \in [Node -> BOOLEAN]
    /\ msgs \subseteq Message
    /\ updates \subseteq (Instance \X Value)

IsMajority(S) == 2 * Cardinality(S) > Cardinality(Node)

(* v was accepted by a majority at proposal id of link i of the chain.      *)
Chosen(i, id, v) == IsMajority({n \in Node : AcceptedMsg(n, i, id, v) \in msgs})

Accepts == {m \in msgs : m.type = "accept"}

(* Two nodes (or one node at two times) never report different values for   *)
(* the same link of the multi-paxos chain to onUpdateCallback.              *)
ChainAgreement == \A e, f \in updates : e[1] = f[1] => e[2] = f[2]

(* A value reported for link i, by resolution or by catching up, was        *)
(* accepted by a majority in link i-1: accept_count, which is never           *)
(* decremented, and the catch-up of a lagging node do not invent values.    *)
UpdatesChosen ==
    \A e \in updates : \E m \in Accepts : m.inst = e[1] - 1 /\ m.val = e[2]
                                          /\ Chosen(m.inst, m.id, m.val)

(* Once a value is chosen, no proposer sends a different one at a higher    *)
(* proposal id of the same link, although prepare() keeps proposed_value    *)
(* and highest_accepted_id of earlier proposals.                            *)
ChosenIsStable ==
    \A m, c \in Accepts : (/\ c.inst = m.inst /\ Lt(c.id, m.id)
                           /\ Chosen(c.inst, c.id, c.val)) => m.val = c.val

(* No two Accept messages of a link carry the same proposal id and          *)
(* different values: what the assertion in Learner.receive_accepted relies  *)
(* on.                                                                      *)
OneValuePerProposal ==
    \A m, c \in Accepts : m.inst = c.inst /\ m.id = c.id => m.val = c.val

(* An Accept is only sent for a proposal that a majority of acceptors of the  *)
(* same link promised to its sender.                                        *)
PreparedAccepts ==
    \A m \in Accepts :
        IsMajority({n \in Node : \E p \in msgs :
                        /\ p.type = "promise" /\ p.from = n /\ p.to = m.from
                        /\ p.inst = m.inst /\ p.id = m.id})

(* A node that knows of a proposal for the current link (it proposes one or *)
(* has accepted one) has a retransmit task or a drive timer running: the    *)
(* link is never abandoned.                                                 *)
NeverAbandoned ==
    \A n \in Node :
        (proposer[n].proposed_value # NoValue \/ acceptor[n].accepted_id # NoId)
            => retransmit[n] # NoTask \/ delayed[n]

(* The bookkeeping of the learner: a status is kept for exactly the ids     *)
(* that some peer supports, with those peers in it, so the lookup of the    *)
(* previous id and the removal from its acceptors cannot fail.              *)
LearnerConsistent ==
    \A n \in Node : LET l == learner[n] IN
        /\ DOMAIN l.proposals = {l.acceptors[u] : u \in Node} \ {NoId}
        /\ \A id \in DOMAIN l.proposals :
              LET ps == l.proposals[id] IN
              /\ ps.acceptors = {u \in Node : l.acceptors[u] = id}
              /\ ps.retain_count = Cardinality(ps.acceptors)
              /\ ps.accept_count >= ps.retain_count

(* The chain that the nodes have reported to onUpdateCallback.              *)
ReportedLinks == {e[1] : e \in updates}
ReportedChain == [k \in 1 .. Cardinality(ReportedLinks) |->
                     CHOOSE v \in Value : <<k, v>> \in updates]

Abstract == INSTANCE ReplicatedChain WITH
    chain <- ReportedChain,
    instance_number <- [n \in Node |-> state[n].instance_number],
    current_value <- [n \in Node |-> state[n].current_value]

(* The cluster implements the single replicated chain: nodes that resolve   *)
(* links concurrently, lag behind or catch up report one sequence of values.*)
ImplementsChain == Abstract!Spec

(* A node never moves back in the chain.                                    *)
InstanceMonotonic ==
    [][\A n \in Node : state'[n].instance_number >= state[n].instance_number]_vars
=============================================================================
