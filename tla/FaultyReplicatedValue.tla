------------------------ MODULE FaultyReplicatedValue ------------------------
(***************************************************************************)
(* ReplicatedValue with the failures its code is written to survive:       *)
(*  - a node's process stops and is started again from its state file;     *)
(*  - onUpdateCallback raises.  On the node that reports to the test       *)
(*    daemon the callback is an XML-RPC call, which fails when the daemon  *)
(*    is not reachable; Messenger.datagramReceived catches the exception,  *)
(*    so the rest of the handler is skipped and the node goes on.          *)
(***************************************************************************)
EXTENDS ReplicatedValue

CONSTANTS
    Crashers,      \* nodes that may crash
    Reporters,     \* nodes whose update callback may raise
    MaxFaults      \* bound on crashes and failed callbacks together

ASSUME FaultAssumption == MaxFaults \in Nat

VARIABLE faults    \* crashes and failed callbacks so far

allVars == <<vars, faults>>

FaultInit == Init /\ faults = 0

(* Crash and restart.  While the process is down it receives nothing, which *)
(* is no different from datagrams being late, so the two are one step.      *)
(* __init__ rebuilds the acceptor from the state file; the rest is lost.    *)
CrashRestart(n) ==
    /\ n \in Crashers /\ faults < MaxFaults
    /\ faults' = faults + 1
    /\ acceptor' = [acceptor EXCEPT ![n] =
           [promised_id |-> state[n].promised_id, accepted_id |-> state[n].accepted_id,
            accepted_value |-> state[n].accepted_value]]
    /\ proposer' = [proposer EXCEPT ![n] = NewProposer(n)]
    /\ learner' = [learner EXCEPT ![n] = NewLearner]
    /\ StopDriving(n)
    /\ UNCHANGED <<state, msgs, updates>>

(* The base class has advanced when the callback raises; stop_driving, in   *)
(* the mixin, is never reached.                                             *)
AdvanceAndFail(n, i, v) ==
    /\ n \in Reporters /\ faults < MaxFaults
    /\ faults' = faults + 1
    /\ BaseAdvance(n, i, v)
    /\ UNCHANGED <<retransmit, delayed, msgs>>

AcceptedFails(n, m) ==
    /\ m.type = "accepted" /\ IsCurrent(n, m)
    /\ Resolves(learner[n], m.from, m.id, m.val)
    /\ AdvanceAndFail(n, inst(n) + 1, m.val)

CatchupFails(n, m) ==
    /\ m.type = "catchup" /\ m.to = n /\ m.inst > inst(n)
    /\ AdvanceAndFail(n, m.inst, m.val)

FaultNext ==
    \/ Next /\ UNCHANGED faults
    \/ \E n \in Node : CrashRestart(n)
    \/ \E n \in Node, m \in msgs :
          /\ <<m.type, m.from, n>> \notin Lost
          /\ AcceptedFails(n, m) \/ CatchupFails(n, m)

FaultSpec == FaultInit /\ [][FaultNext]_allVars
=============================================================================
