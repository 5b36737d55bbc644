# Krafters: TLA+ models, checks and proofs

Krafters measures consensus algorithms (Paxos, PySyncObj's Raft, and the hosted
RethinkDB and Google Datastore) under network faults. A provisioner starts a
cluster, a test executor drives it through a test daemon, and a network manager
shapes the traffic. The measured times mean something only if the clusters agree
on what was appended and if the acknowledgement of an append is the
acknowledgement of *that* append. This directory models the parts that decide
this: the Paxos cluster, the PySyncObj cluster, and the test bed (executor, network
managers, test daemon).

Paths below are relative to `src/`.

## 1. Inventory

| Component | State | Operations | Interaction |
|---|---|---|---|
| Paxos roles, `paxos/composable_paxos.py` | `Proposer` (ids, promises, nacks, value, leader), `Acceptor` (promise, vote), `Learner` (last id per peer, counts per id) | `propose_value`, `prepare`, `receive_*` | pure objects: a method returns the message to send |
| Replicated value, `paxos/replicated_value.py`, `resolution_strategy.py`, `sync_strategy.py` | link of the chain, current value, saved promise and vote, state file, retransmit task, drive timer, sync timer | `propose_update`, `receive_*`, `advance_instance`, `save_state`, `drive_to_resolution`, `stop_driving`, `start_driving`, `send_sync_request`, `receive_sync_request`, `receive_catchup` | the mixins wrap the base class (MRO: resolution, sync, base); timers of the reactor; datagrams |
| Messenger, `paxos/messenger.py` | - | `datagramReceived`, `send_*` | UDP; catches every exception of a handler |
| Paxos server, `paxos/custom_server.py` | - | `append_entry` over XML-RPC, in a thread of its own | calls `propose_update` beside the reactor; `onUpdateCallback` calls the test daemon on the first node |
| Demo server, master lease, clients, `paxos/server.py`, `master_strategy.py`, `client.py`, `custom_client.py` | lease | - | not used by Krafters' clusters |
| PySyncObj, `pysyncobj/syncobj.py` | term, role, log, commit and applied index, match and next index, callbacks, snapshot | `_onMessageReceived`, `_onTick`, `_checkCommandsToApply`, `_applyCommand`, log compaction | TCP messages between nodes; `append` callback to the test daemon |
| PySyncObj transport, `node.py`, `connection.py`, `poller.py`, `serializer.py` | connection state, buffers, snapshot transmission | connect, send, receive, serialize | below `syncobj.py` |
| Test daemon, `test_daemon.py` | `CLUSTER_ACK`, results of a run | `run` per back end, `cluster_append_complete` | append to the cluster, wait for its acknowledgement |
| Test executor, `test_executor.py` | the parsed test | parse, repeat, execute | calls daemon and network managers |
| Network manager, `network_manager.py` | queue disciplines | `create_root_qdisc`, `clean_all_qdisc`, `init_qdisc`, `modify_outgoing_connection` | shell commands |
| Provisioner, configure daemon, tear down | processes, ports | configure, wait for ports, stop | Compute Engine, shells, XML-RPC |
| Test generator, plots | - | write and read files | - |

What is hard, for each of them, and the properties that make it correct:

* **Paxos roles.** Messages of old attempts meet the fields of the current one.
  A chosen value must not be contradicted (`ChosenIsStable`), ids must be unique
  (`OneValuePerProposal`), an accept must rest on a majority of promises for
  the same id (`PreparedAccepts`), the learner's counts must stay consistent while
  votes move (`LearnerConsistent`).
* **Replicated value.** Links are resolved, skipped and caught up with on
  different nodes at different times; crashes, state file, failing callbacks. All
  nodes must report prefixes of one chain (`ImplementsChain`, `ChainAgreement`,
  `UpdatesChosen`, `InstanceMonotonic`) and a link with a known proposal must keep
  somebody driving it (`NeverAbandoned`).
* **Paxos server.** Two threads on one unsynchronized object (`ChosenIsStable`
  in `ThreadedAppend`).
* **PySyncObj.** No vote is recorded, answers carry no term, the commit index is
  assigned, the log is cut while it is replicated, and any exception ends the only
  thread. A log must reach from the dump to what is committed and applied
  (`CommittedInLog`), logs must match (`LogMatching`), nodes must set the same values
  (`AppliedAgreement`), a new leader must have all that was applied
  (`LeaderComplete`), callbacks must be called once and tell the truth
  (`AtMostOnce`, `TruthfulAnswers`), the thread must live (`TickThreadAlive`),
  commands be answered (`LeaderAnswers`) and nodes catch up (`CatchesUp`).
* **Test daemon.** An acknowledgement belongs to the append that waits for it
  (`OwnAck`, `AckUsedOnce`, `StaleAcks`); a run ends (`TestEnds`).
* **Executor and network manager.** Loops unroll as written (`ParseUnrolls`),
  everything is checked before anything is executed (`CheckedFirst`), runs meet the
  network the file describes (`MeasuredAsPlanned`), nothing is left behind
  (`NetworkRestored`).

`PROJECT.json` lists the hazards with the line where each bites and the properties
that would catch it.

## 2. Modules

| Module | Models |
|---|---|
| `ComposablePaxos` | The three roles: records with the fields of the classes, one operator per method from (state, message) to state. |
| `ReplicatedValue` | A cluster of nodes as `custom_server.py` composes them, and the datagrams between them. Extends `ComposablePaxos`. |
| `ReplicatedChain` | The abstract specification: one growing chain, every node at some prefix of it. |
| `FaultyReplicatedValue` | Extends `ReplicatedValue` with crash and restart from the state file, and update callbacks that raise. |
| `ThreadedAppend` | Extends `ReplicatedValue` with the XML-RPC thread that runs `propose_update` in three separate steps. |
| `MCReplicatedValue`, `MCFaultyReplicatedValue`, `MCThreadedAppend` | The instances TLC explores. |
| `ReplicatedValueProofs` | TLAPS proofs about `ReplicatedValue`: agreement and what it rests on. |
| `NodeProofs` | Proofs about what a node keeps for itself: its timers and its learner. |
| `ReplicatedChainProofs` | The proof that `ReplicatedValue` implements `ReplicatedChain`. |
| `FaultyReplicatedValueProofs` | What is proved with crashes and raising callbacks. |
| `Transport` | The TCP links between PySyncObj nodes: `node.py`, `connection.py`, and accepting connections in `syncobj.py`. |
| `SyncObj` | The tick thread of a PySyncObj node with the in-memory dump of `serializer.py`, and `custom_server.py`. Extends `Transport`. |
| `MCSyncObj` | Its instances. |
| `SyncObjProofs` | Proofs about PySyncObj: the shape of logs and data, log matching, and one application and one answer of a command. |
| `NetemManager` | The classes `tc` keeps per interface and the methods of `network_manager.py`. |
| `TestDaemon` | `run()` and the acknowledgements it waits for. |
| `TestExecutor` | The executor and `NetemMaster`, composed with the two before. |
| `TestPlan` | What the loops of a test file mean: the reference for the parser, with the only recursive operator of the project. |
| `MCTestExecutor` | Its test files. |
| `TestDaemonProofs`, `TestExecutorProofs`, `TestMeasureProofs` | Proofs about the daemon's acknowledgements, about the executor and the network, and about what is measured. |

### Paxos

How the state corresponds to the code:

| Variable | Code |
|---|---|
| `state[n]` | `instance_number`, `current_value`, `promised_id`, `accepted_id`, `accepted_value` of `BaseReplicatedValue`. The code saves after every assignment of them, inside the same handler, so the variable is the state file as well. |
| `proposer[n]`, `acceptor[n]`, `learner[n]` | the roles of `self.paxos`; replaced by fresh ones in `advance_instance` |
| `retransmit[n]` | `retransmit_task`: what the lambda sends. The lambda captures the id and the value but reads `self.instance_number` when it fires; `TaskMsg` does the same. |
| `delayed[n]` | `delayed_drive` is a running timer |
| `msgs` | every datagram sent so far |
| `updates` | history variable: the arguments of `onUpdateCallback` |
| `faults` | how many faults have happened (bounded) |
| `call[n]` | where the XML-RPC thread of node n is |

Actions are the entry points of the reactor: `ProposeUpdate` (client datagram),
`DelayedDrive`, `Retransmit`, `SendSyncRequest` (timers), and one `Receive...` per
message type. Twisted runs a handler to its end before the next, so a handler with
all the calls it makes is one action: resolving a link, for example, advances,
saves, replaces the roles, reports the update and stops driving in one step.

Conventions:

* Ids are pairs ordered lexicographically. Python 2 orders `None` below every
  tuple; `NoId = <<-1, -1>>` is that `None`.
* `msgs` never shrinks. A datagram in it may be delivered at any later time, again,
  out of order, or never: this is UDP. A message that the code sends to every peer
  is one element, received by each peer separately, the sender included.
* Delays are abstracted: a timer that runs may fire at any time.
  `backoff_window` and the intervals only change *when*, so they are not state.
* Handlers that ignore a message (another link, an older catch-up) are disabled for
  it: the code returns without changing anything.
* The text encoding of datagrams (JSON) is abstracted to records.
* `final_value` is not modelled. `receive_accepted` sets it in the step in which the
  node advances and replaces the object, so its early return is reached only if
  `save_state` raises in between (a hazard, see the plan).
* Operators whose comment begins with "Mutation" describe plausible bugs. Nothing
  refers to them; substituting one for the definition that follows it must break the property
  `PROJECT.json` names, which shows that the property depends on that code.

Environment parameters: `Clients` (which node receives which value),
`Drivers` (nodes whose drive timer fires), `Syncs` (who asks whom),
`Lost` (types of datagrams that are always lost between two nodes). They restrict the
environment so that TLC finishes; the proofs hold for all of them, the unrestricted
ones included.

### PySyncObj

`obj[n]` is a record with the fields of node n's `SyncObj`: `state` (`__raftState`),
`term`, `votes`, `leader`, `log`, `commit`, `applied`, `next`, `match`, `queue`
(`__commandsQueue`), `waitingCommit`, `waitingReply`, `counter`; of its
`Serializer`: `dump`, `dumpId`, `dumping` (`__pid` is -1), `incoming`,
`transmissions`; `data` (the values set so far, of which `custom_server.py` keeps
the last) and `alive` (the tick thread has not ended). `out` and `calls` are empty
between steps: they collect what a handler sends and which callbacks it calls.
`status[n][p]` and `chan[n][p]` are the `Node` object of n for p and the bytes n
wrote that p has not handled. `answers`, `called`, `dumps`, `breaks` are history.

A handler is an operator from the record before it to the record after it; `Then`
chains the phases of a handler and skips the rest once an exception was raised. The
actions:

| Action | Code |
|---|---|
| `PsoAppend` | `pso_append` in the XML-RPC thread: `setValue` puts the command in the queue |
| `Tick` | one pass of `_onTick` up to the poll: election, commit, heartbeat, apply, commands, compaction, dialling, in this order |
| `Receive` | one message that the poll reads, with its whole handler |
| `LinkBreak`, `LinkRepair` | a socket dies; a side notices, a dialled connection is made, the address of the partner is read |

`Tick` has the clock's choices as parameters: the election deadline has passed, the
heartbeat is due, the loop of `__sendAppendEntries` ran out of time, the compaction is
due, the retry time of a peer has passed. Python's locks make `put_nowait` atomic, and
nothing else is shared between the two threads. A callback that reports a failure
passes `None` to an XML-RPC client that cannot send it; the exception ends the tick
thread (`OnUpdateFunction`). The first entry of the log is the last one of the dump,
and index 0 stands for the `None` of `__getPrevLogIndexTerm`, which in Python 2
compares below every number.

### Test bed

| Variable | Code |
|---|---|
| `tc[i]` | what `tc` has for interface i; the nodes of a local cluster share one |
| `pc`, `times`, `results`, `clusterAck` | `run()`: where it is, its argument and result; `CLUSTER_ACK` |
| `appends`, `unacked`, `failedCalls` | the appends so far, those the cluster will still acknowledge, calls that raised |
| `file`, `mode` | the arguments of the executor |
| `phase`, `node` | how far `main` is; the loop variable of `NetemMaster`'s set up |
| `index`, `doOpen`, `pointers` | the locals of `Parser.parse` (levels counted from 1; below that Python counts from the end of the list) |
| `commands` | the list of functions of `main`; `stage` says which call is next: check, execute, or the last one, which has nothing to do |
| `rpcs`, `rows` | the calls `<<source, target, way>>` the current command has still to make, in the order of `modify_connections`' loops; the csv file |
| `plan`, `swallowed` | history: for each command checked its line and the links the file names for it, dropped commands included; the commands whose exception was dropped |

The executor's steps are one node set up, one line parsed, one command checked, one call to a network
manager, one call to the daemon. The daemon's are the statements of
`cluster_append_entry`, because acknowledgements arrive between them. `rand` is a
nondeterministic choice. An append that raises although the node took the value also
stands for the XML-RPC library's own repetition of a call whose connection was reset.

## 3. Runs

### Paxos

Three nodes, quorum of two, two values. These runs assume no fairness: all their
properties are safety properties. Deadlock is not checked, because a cluster really may
stop: without client requests, or when every proposal number of the bound is used.

| Run | Instance | Shows |
|---|---|---|
| `duel` | nodes 1 and 2 do not hear each other and compete for node 3; node 2 has two attempts; nobody learns | `ChosenIsStable`, `OneValuePerProposal`, `PreparedAccepts`: values adopted from promises, kept over attempts, never contradict a choice; promises of the first attempt do not count for the second |
| `contend` | one attempt each, both learn; node 3, which both need, may crash and restart once at any moment | `ChainAgreement`, `ChosenIsStable`: the vote in the state file is enough here |
| `takeover` | node 1 proposes; node 3 steps in with two attempts and is the only learner; nacks are delivered; node 2 catches up with node 3 | `TypeOK`, `NeverAbandoned`, `LearnerConsistent`: nacks leave a driver, votes that move to a higher id keep the counts right |
| `chain` | two links, node 1 proposes both values, node 2 hears no Paxos message and catches up with node 3; one callback of node 2 or 3 raises | `UpdatesChosen`, `ImplementsChain`, `InstanceMonotonic`: the refinement of `ReplicatedChain` |
| `forgotten_promise` | violation of `ChosenIsStable` | finding 1 below |
| `reused_id` | violation of `OneValuePerProposal` | finding 2 |
| `failed_callback` | violation of `PreparedAccepts` | finding 3 |
| `threaded_append` | violation of `ChosenIsStable` | finding 4 |

Why the bounds are enough: with three nodes the interesting schedules have two
quorums that share one node. `duel` and `contend` have exactly this shape, with the
two proposers cut off from each other; `duel` gives the second one a retry, because keeping
fields over attempts is where this code differs from textbook Paxos. Two
links are needed for a message, a task or a catch-up of a link that was left, and
`chain` has them. Nobody learns in `duel` because resolution closes the link and
`contend` covers that part. Values are symmetric in `chain`, where no definition
tells them apart. `MaxNumber`, `MaxInstance` and `MaxFaults` are the bounds in the
guards. What the bounds leave out in safety (more nodes, more attempts, more links,
no loss pattern) is covered by the proofs for clusters without faults; with faults it is not
covered.

### PySyncObj

Three nodes, two commands.

| Run | Instance | Shows |
|---|---|---|
| `raft_handover` | node 1 may lead term 1 and node 2 term 2; a client at node 1 and one at node 3; no link breaks | `TypeOK`, `CommittedInLog`, `LogMatching`, `AppliedAgreement`, `LeaderComplete`, `TruthfulAnswers`, `AtMostOnce`, for commands queued, forwarded, refused, half replicated or overwritten while the leader changes |
| `raft_snapshot` | node 1 leads and has the client; the connection between nodes 1 and 3 may break once; node 1 makes one dump at any moment | `AppliedAgreement`, `TickThreadAlive`, and under fairness `LeaderAnswers` and `CatchesUp`: through lost messages, a cut log and a dump |
| `raft_rivals` | nodes 1 and 2 are both candidates for term 1, their connection may break and come back; the client is at node 3 | violation of `AppliedAgreement`: finding 5 |

The bounds. `Candidates` says who may start an election in which term; with one
candidate per term there is one leader per term, which the code itself does not
ensure (finding 5): all that `raft_handover` shows of logs holds under this
restriction. Two terms are enough for a log that must be overwritten and for a leader
that has to keep what was applied; they are not enough for the schedule in which an
entry of an old term is committed by counting and then overwritten, which needs three
leaders. `MaxInFlight` (3 unread messages per direction) and `MaxBeats` (a heartbeat is
sent when the leader's links are idle; those after a command are always sent)
bound the channels. `Pieces` is 1: a dump is one full piece and the empty one that ends it.
Entries fit in one message (`appendEntriesBatchSize` is 1000). Each client appends its next
value when it has heard of the last one, as the test daemon does. The provisioner gives
one node a test daemon; `raft_handover` gives two, since only then can commands
of different nodes meet at one index. The runs begin when the
connections are up. Deadlock is checked: an idle cluster still ticks.

What `raft_snapshot` does not reach: its commands are appended at the leader, so that none is
forwarded (the assertion at `syncobj.py:357` is not tried) and its client cannot fill the queue
(line 109); with one dump, none is due while another is sent (line 317). These branches are in the
model. `TickThreadAlive` also excludes a thread that a reported failure ended, because
each one does (`pysyncobj/custom_server.py:20`).

Fairness (`raft_snapshot`). `TimelyTick`: the tick thread is a loop with a bounded poll, so
it goes round again, sends the heartbeat that is due and dials when the retry time is over.
`Receive`: the poll returns what has arrived. `LinkRepair`: a dead socket is noticed at the
latest by the read timeout, and a dialled one answers. Nothing is assumed of
elections, clients, dumps or breaks. Both liveness properties are of the form "again
and again", because a command may always be appended later.

`CatchesUp` has an exception, `OffByOne`: a follower whose log ends just before the first
entry the leader kept. The leader sends this entry with `prevLogIdx` None, the follower
refuses and asks for the same entry again, for ever (until new commands or a
new leader change the situation). TLC reaches such states, and the property is false without the exception.

### Test bed

| Run | Instance | Shows |
|---|---|---|
| `testbed` | three nodes, both modes; every test file of up to two lines over ten kinds of lines, every such pair with the second in a loop, nested loops, unmatched loops; one failing call to a manager and one failing append; the network left over from an aborted test | `ParseUnrolls`, `CheckedFirst`, `MeasuredAsPlanned`, `NetworkRestored`, `AckUsedOnce`, `OwnAck`, `StaleAcks`; `TestEnds` under fairness |

The kinds of lines include one for each way a command can fail: an id out of range, single
sources in local mode, a bidirectional link in local mode and random links (both raise
a Python error that `attach_line` drops), a rule that `tc` refuses, and a node 0, which the checks let pass. Two operations per run
are what it takes for an acknowledgement to be taken for another. `plan` has every command for the links
the file names for it: an "on n connections" line for the n it would have drawn, a bidirectional line in local mode
for both directions, although the checks drop both. `MeasuredAsPlanned` is about each link of each run: it has
the rule of the last command before the run that is for it, unless this command is one an exception dropped, in the checks
or half way through its calls. So a loss is excused where it happens, and may not spread: not to other links, and not
beyond the next command for the same link. That rules are lost without a word is reported below. `NetworkRestored`
excludes one case, that the final reset itself is dropped. `ParseUnrolls` leaves out loops of "0 times" (`Repeating`),
whose body the parser executes once.

`tc` is external, and modelled as one that replaces the whole rule of a class. The code passes
the new parameters to `tc qdisc change ... netem` (`network_manager.py:138-151`), where a version of `tc` or of the kernel
that keeps those it is not given (corruption, reordering or rate of an earlier command, after "delay 0ms") would leave
some behind. `MeasuredAsPlanned` and `NetworkRestored` rest on the replacement.
Deadlock is not checked because a test ends.

Fairness: the executor and the daemon are loops of running processes, and *the cluster
acknowledges every append it took*. The last one is an assumption about the cluster and not
always justified: Paxos drops a value when the link already has one, and a PySyncObj node whose
tick thread has ended acknowledges nothing. In these cases `run()` spins for ever.

### Findings

1. `receive_accept` saves the promise of the last *prepare*, not the id it accepts
   (`paxos/replicated_value.py:177`). An acceptor that never saw the prepare of the
   id it voted for comes back from a restart with a lower promise, and may then vote for a
   lower id. In the run the restarted node overwrites its vote, which a majority had made
   a choice, and a later proposer chooses another value.
2. Proposal numbers are not persistent (`paxos/composable_paxos.py:144`): a proposer
   restarted in the middle of a link uses an id a second time with another value.
3. When the update callback raises, `stop_driving` is not reached
   (`paxos/resolution_strategy.py:58`): the accept task of the resolved link
   goes on and sends its id and value in the next link.
4. `append_entry` runs in a thread beside the reactor (`paxos/custom_server.py:44`):
   between the test and the assignment of `propose_value` a promise may bring a chosen value,
   which the assignment replaces.
5. A PySyncObj node does not record its vote (`pysyncobj/syncobj.py:283`): two candidates
   of one term may both win it. In the run node 3 votes for node 1, which appends command 1 at index 2. The
   connection between nodes 1 and 2 breaks with what node 1 had sent, node 2 asks for votes in the same
   term, and node 3 votes again. Nodes 1 and 3 commit and apply command 1. Node 2's first heartbeat, from a log that ends at
   index 1, makes node 3 follow it and cut the entry it has applied; node 3 forwards command 2 to node 2,
   which appends it at index 2. When the connection is back, a heartbeat of node 1 names
   index 2 of term 1 as the entry before and 2 as the commit index. Node 2 has an entry of this index and term, the other
   one, so it follows node 1 and applies command 2 where the others applied command 1. Its
   entry was on no majority.

Met while modelling, and listed with the hazards: a failed command ends the tick thread of its
node (`pysyncobj/custom_server.py:20`); so does a dump that is due while another is being sent
(`syncobj.py:317`) and a forwarded command at a full queue (`syncobj.py:109`); "on n connections" lines
(`test_executor.py:142`) and, in local mode, bidirectional lines (line 109) of a test are dropped without a word (line 48), although
`report/sections/testing_language.tex:14-15,25-26` says what they affect; "0 times" executes the body of a loop once (line 314), although
line 40 of the same text calls the number the number of repetitions; and `modify_link_from_to` ("checks if ids are valid",
`test_executor.py:104`) compares ids with the upper bound only (line 144), so that a link from node 0 passes and
ends, when it is executed, in a `KeyError` that drops what is left of the command.

## 4. Proofs

The theorems hold for every value of the constants: every finite non-empty set of nodes, every set of
values, every bound, every choice of `Clients`, `Drivers`, `Syncs` and `Lost`; for PySyncObj every set of nodes and
commands, every number of terms, breaks, dumps, pieces and messages in flight; and for the test bed every
number of nodes, every set of test files, both modes, and any number of calls that raise.

| Module | Theorem | States |
|---|---|---|
| `ReplicatedValueProofs` | `TypeCorrect` | `Spec => []TypeOK` |
| | `ProposalsUnique` | `Spec => []OneValuePerProposal` |
| | `AcceptsPrepared` | `Spec => []PreparedAccepts` |
| | `Stability` | `Spec => []ChosenIsStable` |
| | `ReportsChosen` | `Spec => []UpdatesChosen` |
| | `Agreement` | `Spec => []ChainAgreement` |
| | `Monotonic` | `Spec => InstanceMonotonic` |
| `NodeProofs` | `AlwaysDriven` | `Spec => []NeverAbandoned` |
| | `LearnerCountsVotes` | `Spec => []LearnerConsistent` |
| `ReplicatedChainProofs` | `Refinement` | `Spec => ImplementsChain` |
| `FaultyReplicatedValueProofs` | `FaultyTypeCorrect` | `FaultSpec => []TypeOK` |
| | `FaultyReportsChosen` | `FaultSpec => []UpdatesChosen` |
| | `FaultyMonotonic` | `FaultSpec => InstanceMonotonic` |
| `SyncObjProofs` | `SyncObjTypes` | `Spec => []TypeOK` |
| | `SyncObjLogMatching` | `ASSUME NEW CONSTANT Elected PROVE Spec /\ []LedBy(Elected) => []LogMatching` |
| | `SyncObjAtMostOnce` | `Spec => []AtMostOnce` |
| `TestDaemonProofs` | `AcksUsedOnce`, `OwnAckRead`, `StaleAcksBounded` | `Spec => []AckUsedOnce`, `[]OwnAck`, `[]StaleAcks` |
| `TestExecutorProofs` | `FileCheckedFirst` | `Spec => []CheckedFirst` |
| | `NetworkIsRestored` | `Spec => []NetworkRestored` |
| `TestMeasureProofs` | `RunsMeasuredAsPlanned` | `Spec => []MeasuredAsPlanned` |

The assumptions are those of the modules: `NodeAssumption` (uids are naturals, which is what
breaks ties between ids), `ValueAssumption` (`None` is not a value),
`BoundAssumption` (types of the bounds); `HostAssumption` (the nodes are 1 to N, as the configuration numbers
them), `RuleAssumption` (`NoDelay` and the refused rule are different rules), `TestFileAssumption` (a test file
is a sequence of the kinds of lines the parser tells apart) and `FailedCallsAssumption`; for PySyncObj
`CallerAssumption`, `CandidateAssumption`, `SizeAssumption` and `BoundAssumption` (types of the parameters; sizes are not 0),
and `NoneAssumption` (a node's address is not `None`, which marks a request that came from a client).
Nothing assumes that bounds are small.

### The Paxos cluster

The inductive invariant `IInv`. None of the safety properties is inductive: that an
accept agrees with a choice depends on what the proposer had collected when it sent it, and that on what
acceptors had promised. `IInv` relates the three, per link of the chain:

* `AcceptorInv`: the acceptor of a node remembers its highest vote in the node's current link,
  its promise is not below that vote, and all its `accepted` messages are of
  earlier links or not above that vote.
* `PromiseInv`: a promise for id *b* reports a vote its sender cast, its sender casts no
  vote between that one and *b* any more, and as long as the sender is in the link
  its acceptor has promised at least *b*.
* `ProposerInv`: every promise counted is a promise message for the *current* id and link,
  `highest_accepted_id` is at least the id reported in each of them and below the
  current id, and if it is not `NoId` then `proposed_value` is the value of a vote at it. This
  holds over several attempts because the two fields are only ever raised together,
  which is why it is safe to keep them.
* `AcceptInv`: every accept is `SafeAt` its id: for every lower id there is a majority of
  nodes each of which voted for the same value there or will never vote there. Its
  sender has left the link, moved to a higher id, or is still the leader of this id.
  (`PreparedAccepts` and `OneValuePerProposal` are conjuncts of `IInv` themselves.)
* `TaskInv`: an accept task sends what was already sent in the current link. This is
  what a failed callback breaks (finding 3).
* `LearnerInv`: `accept_count` is the number of *different* peers that voted for that id and value,
  although it is never decremented, so a resolution means a majority.
* `UpdatesInv`: what was reported was chosen in the previous link, and what a node
  holds was reported, so a catch-up carries a chosen value.

There is one lemma per operation of the roles, one per action for the conjuncts that
it can disturb, and frame lemmas for the rest (`msgs` only grows). That two majorities
meet is proved from `FiniteSetTheorems`.

`NeverAbandoned` alone is not inductive, because a promise can hand a proposer without a value the value
of another. `DriverInv` adds that a proposer which has left the number it starts a link with is driven, and
that prepares and promises carry numbers which `prepare()` made: a promise that is counted is one for a
proposal of the node itself. `LearnerConsistent` follows from an invariant about each learner: it has a status
for exactly the ids its peers support.

**Refinement.** `ChainInv` adds to `IInv` that the reported links are 1 to k without a gap and that a node in link 0
holds no value. The chain is read off `updates`; that two values are never reported for a link is `Agreement`. A step
that resolves a link either appends one value to the chain or moves a node along it, a catch-up moves a node along it
by any number of links, and every other step is a stutter.

**With faults** `IInv` is false: findings 1 to 3 break `AcceptorInv`, `PromiseInv`, `OneValuePerProposal` and `TaskInv`. What
remains (`ReportInv`) is that a vote was asked for, that a learner counts votes which different peers cast in its link,
and that a catch-up repeats a report. It is enough for `UpdatesChosen` and `InstanceMonotonic`; that two reports
agree is what the findings disprove.

### The PySyncObj cluster

Nodes hand each other pieces of their logs: as entries of a message, as a dump, in transmissions that outlive
the log they were made from. None of these can be compared with the log of its origin, which may since have been cut
or overwritten. The invariant `AllKnown` therefore says that there is a set H of *links* `Link(e, t, n)` (an entry e, the term of
the entry before it, and the node that appended it) such that everything a node holds or a channel carries is made of links of H: the log, the two entries of every dump and of
every piece sent or received, the entries of a message together with its `prev` (`Fits`, `Snap`, `Regular`), and the data, whose
i-th value is that of a link of index i + 1 (`Traced`). A handler only rearranges links. In particular `TakeEntries` joins a log and a
message exactly where the term of its last entry is the one the message names, so that the joint is a link too. The one step that
adds a link is `LeaderCommand`.

`SyncObjTypes` follows from this. H has one link for each index, term and appending node (`History`): a node does not append twice at one
place, because of the links it appended it has left the term, follows in it and will not append, or leads and has a
log that reaches beyond them (`Fresh`). This holds whoever else is a candidate or leads.

Two leaders of one term, however, append different links of one index and term, and then logs do not match (finding 5). Nothing in
the state of a node keeps them from being elected, since no vote is recorded. What `SyncObjLogMatching` assumes is therefore not how
elections go but how they end: `[]LedBy(Elected)` says that in the behaviour at hand a term t is led by `Elected[t]` only. Rival candidates, split
votes, elections repeated in later terms, and a vote given to both rivals of which one loses, are all allowed.
A step adds links of a leader's term only, so that every link was appended by the leader of its term (`AllLed`), and H has
one link for each index and term. Two logs with an entry of the same index and term then have the same link
there, hence the same term before it, and so on down: the least distance at which they differ is a contradiction (`NoFirstBad`).

`AtMostOnce` needs neither agreement nor `LedBy`: two leaders of one term append different commands, since a request is only
ever moved. The property itself says nothing about where a command or its callback could still come from, so `AllPlaced` adds two functions of the
commands. `W[c]` is the place of the request: `<<None, n>>` with its client at n, `<<n, n>>` in the queue of n, `<<n, p>>` written by n to p, and
`<<None, None>>` in the logs, where one link of H has it (`LogHeld`). A request that is lost with its connection, or with a thread that ended, stays where it was and
nobody has it. `U[c]` is the holder of the callback: `"new"`, `"queue"`, `"reply"` with the id under which
`commandsWaitingReply` has it, `"commit"` with the index under which `commandsWaitingCommit` has it, or `"told"`. What is in a queue, a table or a channel is
there once and where `W` and `U` say it is (`QueueHeld`, `RepliesHeld`, `CommitsHeld`, `SentHeld`), and who was answered is `"told"` (`AnswersHeld`). So a callback
is told once although the command may go on: the reply that comes after LEADER_CHANGED finds no id, and the entry of a command
whose caller was told of a failure is applied with nobody waiting for it. Each operation moves what it takes (`Moves`, `Turns`) and
leaves alone what the other nodes keep (`OthersKept`); a connection loses messages from its front and doubles none
(`SentFromHello`, `SentTail`). Links of the same command are then the same link, so the data of a node, whose i-th value is
that of a link of index i + 1, has no value twice, whether it was applied or loaded from a dump.

The loops of `_onTick` (over the entries to apply, those who wait for them, the commands queued) are `ForEach`, a recursive function. A
lemma about a loop is proved without induction over data in the same way: of the passes after which the invariant
fails there would be a first one. `TypeOK` does not say that a log is non-empty: a log cut to nothing is possible in this code and
ends the thread (`Indexed`).

### The test bed

`DaemonInv` is about the acknowledgements that can still be read (`Pending`): one that was used is not among them
except between the read and the reset of `CLUSTER_ACK`; without a call that raised there is at most the one
of the append in progress; and there are at most as many as calls that raised, plus that one.

`ExecutorInv` is about the list `main` pops from and appends to. Its order is the argument for all three properties: first the
commands still to be checked, numbered consecutively, then those to be executed, in increasing order; or the one being
executed, then those to be executed, then the spent (`Queue`). So a command is executed only when none is left to be checked
(`CheckedFirst`), and the reset that ends the list stays the last to be executed (`FinalAt`, `ResetInv`). The parser's part
is that a `do` is never the last line, so that it is this reset, and no jump back, that takes the index past the end
of the file. The set up's part is that in local mode, where the nodes share one interface, the classes of one node leave
those of the others alone (`SetUpInv`).

`MeasureInv` carries `MeasuredAsPlanned`: a command of the plan that is for some link was dropped, waits in the list, or has been reached
(`Covered`), so nothing else was skipped; the first command to be executed meets each link as the plan describes it, or
the command that governs the link was dropped (`AsPlanned`, `Meets`); and the one being executed has set its rule on its own links, up to the calls still to be made, and on no other
(`Makes`, `CallsPlanned`). TLC checked the invariants on the `testbed` instance before they were proved.

### Only model-checked

* Liveness under fairness (`LeaderAnswers`, `CatchesUp`, `TestEnds`) and `ENABLED` are out of the prover's reach.
* `ParseUnrolls` compares the parser with a recursive definition; its proof is an induction over the nesting of
  loops, which the installed provers cannot do. `TestPlan` holds it so that `TestExecutor` stays free of recursion.
* PySyncObj: `CommittedInLog`, `AppliedAgreement`, `LeaderComplete` and `TruthfulAnswers` rest on more than one leader per term: that what is
  committed stays committed. In general that is false for this code even with one leader per term, because an entry of an
  old term is committed by counting (`syncobj.py:210`), an answer without a term may set `matchIndex` of a later leadership
  (`syncobj.py:367`) and a refusal sets it too; they hold in the instances, where three leaders, or one that leads twice, do not occur.
  `TickThreadAlive` is false in general as well (the hazards at `syncobj.py:317` and `syncobj.py:109`): it is about the snapshot instance.
* With faults, `ChosenIsStable` and `ChainAgreement` hold in `contend`, whose crashes are those of a node that is no proposer;
  in general they are false (findings 1 to 3).

## 5. Not modelled

* **Paxos**: the master lease strategy and `server.py`, which do not start (the base class has a
  parameter they do not pass); partial writes of the first state file; `save_state` raising;
  the durations of timers.
* **PySyncObj**: restarts (nothing is persistent, so that a restarted node breaks every
  promise of Raft by itself); `bind` failing; the file case of the serializer,
  which `custom_server.py` does not use; the poller, the resolver and the framing of
  messages; the test daemon being away when a callback calls it.
* **Test bed**: the RethinkDB and Datastore back ends (one call each to a service); the
  regular expressions of the parser; the filters of `tc`. In local mode the filters match the port of the
  target only, so that the class of the first node decides for all: the model is about the classes.
  A failed `run` call, after which a second thread of the daemon shares `CLUSTER_ACK`.
* **Provisioner, configure daemon, tear down**: straight-line scripts of shell commands, Compute Engine calls and
  polls of a port. **Test generator, plots**: they write and read files.

## 6. Plan

1. **Proofs about PySyncObj**: a leader's commit restricted to entries of its own term, as an abstract specification for which
   `AppliedAgreement` and `LeaderComplete` can be proved in general.
2. **Larger instances of PySyncObj**: three terms, a node that leads twice, two dumps.
3. **More faults of Paxos**: `save_state` raising in `advance_instance`; progress of a link with one
   undisturbed driver.
