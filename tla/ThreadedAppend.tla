--------------------------- MODULE ThreadedAppend ---------------------------
(***************************************************************************)
(* ReplicatedValue on the node that serves the test daemon.  There         *)
(* custom_server.py starts a thread that answers XML-RPC append_entry      *)
(* calls, one at a time, by calling propose_update directly, while the     *)
(* reactor thread handles datagrams and timers.  Nothing locks the         *)
(* PaxosInstance, so the handlers of the reactor run between the test that *)
(* no value is proposed yet, the assignment of the value, and the drive.   *)
(* Each of these three is one step; what happens inside them is not split. *)
(***************************************************************************)
EXTENDS ReplicatedValue

CONSTANT Appends     \* the <<node, value>> pairs of append_entry calls

VARIABLE call        \* the append_entry call each node is executing

threadVars == <<vars, call>>

NoCall == [at |-> "idle"]

ThreadInit == Init /\ call = [n \in Node |-> NoCall]

(* "if self.proposed_value is None", on the PaxosInstance of this moment.   *)
AppendCheck(n, v) ==
    /\ <<n, v>> \in Appends
    /\ call[n] = NoCall
    /\ call' = [call EXCEPT ![n] =
           [at |-> IF proposer[n].proposed_value = NoValue THEN "assign" ELSE "drive",
            val |-> v, inst |-> inst(n)]]
    /\ UNCHANGED vars

(* "self.proposed_value = value": on the instance that was tested, which is *)
(* no longer in use if the node has advanced in between.                    *)
AppendAssign(n) ==
    /\ call[n].at = "assign"
    /\ proposer' = IF call[n].inst = inst(n)
                   THEN [proposer EXCEPT ![n].proposed_value = call[n].val]
                   ELSE proposer
    /\ call' = [call EXCEPT ![n].at = "drive"]
    /\ UNCHANGED <<state, acceptor, learner, retransmit, delayed, msgs, updates>>

AppendDrive(n) ==
    /\ call[n].at = "drive"
    /\ DriveToResolution(n, proposer[n])
    /\ call' = [call EXCEPT ![n] = NoCall]
    /\ UNCHANGED <<state, acceptor, learner, updates>>

ThreadNext ==
    \/ Next /\ UNCHANGED call
    \/ \E n \in Node, v \in Value : AppendCheck(n, v)
    \/ \E n \in Node : AppendAssign(n) \/ AppendDrive(n)

ThreadSpec == ThreadInit /\ [][ThreadNext]_threadVars
=============================================================================
