-------------------------- MODULE ComposablePaxos --------------------------
(***************************************************************************)
(* The Paxos roles of paxos/composable_paxos.py: Proposer, Acceptor and    *)
(* Learner.  The classes hold no reference to the network: a method        *)
(* changes the object and returns the message to send.  They are therefore *)
(* modelled as operators from the state of a role (a record with the       *)
(* fields of the class) and a message to the next state of the role.       *)
(***************************************************************************)
EXTENDS Integers, FiniteSets

CONSTANTS
    Node,      \* network uids of the peers: integers, they break ties between ids
    Value,     \* values clients propose
    NoValue    \* Python's None where a value is expected

ASSUME NodeAssumption  == Node \subseteq Nat /\ IsFiniteSet(Node) /\ Node # {}
ASSUME ValueAssumption == NoValue \notin Value

(***************************************************************************)
(* A ProposalID is a named tuple (number, uid) compared lexicographically. *)
(* None, in Python 2, is less than every tuple: it is the id NoId here,    *)
(* below every id a node can use.                                          *)
(***************************************************************************)
Pid == Nat \X Node
NoId == <<-1, -1>>
MaybePid == Pid \cup {NoId}

Lt(a, b) == a[1] < b[1] \/ (a[1] = b[1] /\ a[2] < b[2])
Le(a, b) == a = b \/ Lt(a, b)

MaybeValue == Value \cup {NoValue}

(* Mutation: half of the peers are taken for a quorum.                      *)
HalfQuorum == Cardinality(Node) \div 2

QuorumSize == (Cardinality(Node) \div 2) + 1

-----------------------------------------------------------------------------
(***************************************************************************)
(* Proposer.  promises_received and nacks_received are None until the      *)
(* first prepare(), which is also the first time proposal_id has a number  *)
(* above 0; they are empty sets here.                                      *)
(***************************************************************************)
Proposer == [leader : BOOLEAN, proposed_value : MaybeValue,
             proposal_id : Pid, highest_proposal_id : Pid,
             highest_accepted_id : MaybePid,
             promises_received : SUBSET Node, nacks_received : SUBSET Node]

NewProposer(n) ==
    [leader |-> FALSE, proposed_value |-> NoValue,
     proposal_id |-> <<0, n>>, highest_proposal_id |-> <<0, n>>,
     highest_accepted_id |-> NoId,
     promises_received |-> {}, nacks_received |-> {}]

(* Mutation: the test that no value is proposed yet is dropped.             *)
OverwriteValue(p, v) == [p EXCEPT !.proposed_value = v]

(* The Accept message that propose_value returns to a leader is dropped by  *)
(* the only caller, BaseReplicatedValue.propose_update.                     *)
ProposeValue(p, v) ==
    IF p.proposed_value = NoValue THEN [p EXCEPT !.proposed_value = v] ELSE p

NextNumber(p) == p.highest_proposal_id[1] + 1

(* Mutation: the proposal id does not carry the node's uid.                 *)
PrepareWithoutUid(p, n) ==
    [p EXCEPT !.leader = FALSE,
              !.promises_received = {}, !.nacks_received = {},
              !.proposal_id = <<NextNumber(p), 0>>,
              !.highest_proposal_id = <<NextNumber(p), 0>>]

(* Mutation: the promises of the previous proposal are not forgotten.       *)
PrepareKeepsPromises(p, n) ==
    [p EXCEPT !.leader = FALSE, !.nacks_received = {},
              !.proposal_id = <<NextNumber(p), n>>,
              !.highest_proposal_id = <<NextNumber(p), n>>]

Prepare(p, n) ==
    [p EXCEPT !.leader = FALSE,
              !.promises_received = {}, !.nacks_received = {},
              !.proposal_id = <<NextNumber(p), n>>,
              !.highest_proposal_id = <<NextNumber(p), n>>]

ObserveProposal(p, id) ==
    IF Lt(p.highest_proposal_id, id) THEN [p EXCEPT !.highest_proposal_id = id] ELSE p

(* A quorum of nacks for the current proposal: leadership is lost, the      *)
(* proposer moves to its next proposal id.                                  *)
ProposerNack(p, n, from, id, promised) ==
    LET q == ObserveProposal(p, promised)
        r == [q EXCEPT !.nacks_received = @ \cup {from}]
    IN  IF id = q.proposal_id /\ q.proposal_id[1] > 0
        THEN IF Cardinality(r.nacks_received) = QuorumSize THEN Prepare(r, n) ELSE r
        ELSE q

(* The value of the highest accepted proposal reported so far replaces the  *)
(* proposed value.                                                          *)
AdoptAccepted(p, aid, aval) ==
    IF Lt(p.highest_accepted_id, aid)
    THEN [p EXCEPT !.highest_accepted_id = aid,
                   !.proposed_value = IF aval = NoValue THEN @ ELSE aval]
    ELSE p

ProposerPromise(p, from, id, aid, aval) ==
    LET q == ObserveProposal(p, id)
        r == [AdoptAccepted(q, aid, aval) EXCEPT !.promises_received = @ \cup {from}]
    IN  IF ~q.leader /\ id = q.proposal_id /\ from \notin q.promises_received
        THEN [r EXCEPT !.leader = Cardinality(r.promises_received) = QuorumSize]
        ELSE q

(* Mutation: a leader without a value proposes all the same.                *)
ReturnsAcceptAlways(p, q) == ~p.leader /\ q.leader

(* receive_promise returns an Accept exactly when it made p a leader with a *)
(* value to propose.                                                        *)
ReturnsAccept(p, q) == ~p.leader /\ q.leader /\ q.proposed_value # NoValue

-----------------------------------------------------------------------------
(***************************************************************************)
(* Acceptor.                                                               *)
(***************************************************************************)
Acceptor == [promised_id : MaybePid, accepted_id : MaybePid, accepted_value : MaybeValue]

NewAcceptor == [promised_id |-> NoId, accepted_id |-> NoId, accepted_value |-> NoValue]

(* The test both receive_prepare and receive_accept begin with.             *)
Admits(a, id) == Le(a.promised_id, id)

AcceptorPrepare(a, id) ==
    IF Admits(a, id) THEN [a EXCEPT !.promised_id = id] ELSE a

AcceptorAccept(a, id, v) ==
    IF Admits(a, id)
    THEN [promised_id |-> id, accepted_id |-> id, accepted_value |-> v]
    ELSE a

-----------------------------------------------------------------------------
(***************************************************************************)
(* Learner.  acceptors maps every peer to the last id it is known to have  *)
(* accepted, proposals the ids under count to their status.                *)
(***************************************************************************)
ProposalStatus == [value : Value, accept_count : Nat, retain_count : Int,
                   acceptors : SUBSET Node]

NewStatus(v) == [value |-> v, accept_count |-> 0, retain_count |-> 0, acceptors |-> {}]

NewLearner == [acceptors |-> [u \in Node |-> NoId], proposals |-> [id \in {} |-> NewStatus(NoValue)]]

(* Mutation: the vote the sender replaces stays counted.                    *)
ReleaseNothing(proposals, last, from) == proposals

(* KeyError: the last vote of the sender failed the assertion below, and its*)
(* status, if it is still there, is without the sender.                     *)
Unsupported(proposals, last, from) ==
    last # NoId /\ (last \notin DOMAIN proposals \/ from \notin proposals[last].acceptors)

(* The sender no longer supports the proposal it accepted before: the       *)
(* status is dropped when nobody supports it any more.                      *)
Release(proposals, last, from) ==
    LET ps == [proposals[last] EXCEPT !.retain_count = @ - 1, !.acceptors = @ \ {from}]
    IN  IF last \notin DOMAIN proposals THEN proposals
        ELSE IF ps.retain_count = 0 /\ ~Unsupported(proposals, last, from)
             THEN [id \in DOMAIN proposals \ {last} |-> proposals[id]]
             ELSE [proposals EXCEPT ![last] = ps]

Support(proposals, id, v, from) ==
    LET ps == IF id \in DOMAIN proposals THEN proposals[id] ELSE NewStatus(v)
    IN  [x \in DOMAIN proposals \cup {id} |->
            IF x = id THEN [ps EXCEPT !.accept_count = @ + 1, !.retain_count = @ + 1,
                                      !.acceptors = @ \cup {from}]
            ELSE proposals[x]]

IsOldAccepted(l, from, id) == Le(id, l.acceptors[from])

(* The assertion "Value mismatch for single proposal!" fails.               *)
Mismatch(proposals, id, v) == id \in DOMAIN proposals /\ proposals[id].value # v

(* An exception leaves the vote uncounted, after the sender's last one has  *)
(* been released as far as it was reached.                                  *)
Raises(l, from, id, v) ==
    \/ Unsupported(l.proposals, l.acceptors[from], from)
    \/ Mismatch(Release(l.proposals, l.acceptors[from], from), id, v)

LearnerAccepted(l, from, id, v) ==
    LET released == Release(l.proposals, l.acceptors[from], from)
    IN  IF IsOldAccepted(l, from, id) THEN l
        ELSE [acceptors |-> [l.acceptors EXCEPT ![from] = id],
              proposals |-> IF Raises(l, from, id, v) THEN released
                            ELSE Support(released, id, v, from)]

(* receive_accepted returns a Resolution: the count of id reached a quorum. *)
Resolves(l, from, id, v) ==
    /\ ~IsOldAccepted(l, from, id)
    /\ ~Raises(l, from, id, v)
    /\ LearnerAccepted(l, from, id, v).proposals[id].accept_count = QuorumSize
=============================================================================
