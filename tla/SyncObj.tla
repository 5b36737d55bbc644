------------------------------ MODULE SyncObj ------------------------------
(***************************************************************************)
(* PySyncObj's replicated object: pysyncobj/syncobj.py with the in-memory  *)
(* dump of pysyncobj/serializer.py, as pysyncobj/custom_server.py runs it  *)
(* (autoTick, one append_entries per command, fullDumpFile None).          *)
(*                                                                         *)
(* One thread per node runs _onTick for ever: Tick is one pass of it up to *)
(* the poll, and each message the poll reads is one Receive.  A handler    *)
(* maps the record of its node to the record after it; `out' collects what *)
(* the handler sends and `calls' the callbacks it makes.                   *)
(*                                                                         *)
(* data is the sequence of values set so far: custom_server keeps the last.*)
(***************************************************************************)
EXTENDS Transport, FiniteSetsExt

CONSTANTS Command,           \* the values clients append, numbered in their order
          Caller,            \* Caller[c]: the node c is appended at
          None,              \* no leader, no command, no dump
          QueueSize,         \* commandsQueueSize
          MaxCommandsPerTick,
          Pieces,            \* non-empty pieces a dump is sent in
          Candidates,        \* Candidates[t]: who may start an election for term t
          MaxTerm,           \* bound: elections stop here
          MaxInFlight,       \* bound: unread messages per direction
          MaxBeats,          \* bound: a heartbeat is sent when fewer are unread
          Compactors,        \* bound: the nodes whose compaction time comes
          MaxCompactions     \* bound: dumps made

ASSUME CallerAssumption == Command \subseteq Nat /\ Caller \in [Command -> Node]
ASSUME NoneAssumption == None \notin Node
ASSUME CandidateAssumption == Candidates \in [1..MaxTerm -> SUBSET Node]
ASSUME SizeAssumption == {QueueSize, MaxCommandsPerTick, Pieces, MaxInFlight} \subseteq Nat \ {0}
ASSUME BoundAssumption == {MaxTerm, MaxBeats, MaxCompactions} \subseteq Nat

VARIABLES obj,      \* obj[n]: the fields of node n's SyncObj
          answers,  \* answers[c]: what the callback of c was called with, in order
          called,   \* the commands appended so far
          dumps     \* dumps made so far

vars == <<obj, answers, called, dumps, status, chan, breaks>>

(* One step of a handler after another, unless the first raised; r is       *)
(* evaluated once.                                                          *)
Then(r, Phase(_)) == CHOOSE y \in {IF x.alive THEN Phase(x) ELSE x : x \in {r}} : TRUE

(* A step that asks the log for its first or last entry: an IndexError when *)
(* there is none.                                                           *)
Indexed(r, Phase(_)) ==
    Then(r, LAMBDA s : IF s.log = <<>> THEN [s EXCEPT !.alive = FALSE] ELSE Phase(s))

(* A loop over q.                                                           *)
ForEach(q, r, Step(_, _)) ==
    LET after[k \in 0..Len(q)] == IF k = 0 THEN r ELSE Step(after[k - 1], q[k])
    IN  after[Len(q)]

---------------------------------------------------------------------------
(* The log: a sequence of [cmd, idx, term] whose first entry is the last one*)
(* of the dump.                                                             *)

CurrentLogIndex(log) == Last(log).idx
CurrentLogTerm(log) == Last(log).term
FirstIndex(log) == Head(log).idx

GetEntries(log, from) ==
    IF from < FirstIndex(log) THEN <<>> ELSE SubSeq(log, from - FirstIndex(log) + 1, Len(log))

(* Index 0 stands for the None of (None, None): less than every index.      *)
PrevLogIndexTerm(log, next) ==
    LET prev == GetEntries(log, next - 1)
    IN  IF prev = <<>> THEN [idx |-> 0, term |-> 0] ELSE [idx |-> next - 1, term |-> Head(prev).term]

DeleteEntriesFrom(log, from) ==
    IF from < FirstIndex(log) THEN log ELSE SubSeq(log, 1, from - FirstIndex(log))

DeleteEntriesTo(log, to) ==
    IF to < FirstIndex(log) THEN log ELSE SubSeq(log, to - FirstIndex(log) + 1, Len(log))

(* Mutation: half of the cluster, rounded down, is a majority.              *)
MajorityHalf(count) == count >= Cardinality(Node) \div 2

Majority(count) == count > Cardinality(Node) \div 2

---------------------------------------------------------------------------
(* Sending, callbacks, and the queue of commands.                           *)

SendNode(r, to, m) ==
    Then(r, LAMBDA s : IF to \in DOMAIN s.out THEN [s EXCEPT !.out[to] = Append(@, m)] ELSE s)
Callback(r, cmd, err) == [r EXCEPT !.calls = Append(@, [cmd |-> cmd, err |-> err])]

(* custom_server's callback, called in the tick thread: the None that comes *)
(* with a failure cannot be sent to the test daemon, and the exception ends *)
(* the thread.                                                              *)
OnUpdateFunction(r, cmd, err) ==
    Then(r, LAMBDA t : [Callback(t, cmd, err) EXCEPT !.alive = (err = "SUCCESS")])

(* put_nowait: from is the forwarding node and id its request, or None and 0*)
(* for a callback of this process, which runs in the caller's thread.       *)
ApplyCommand(r, cmd, from, id) ==
    IF Len(r.queue) < QueueSize
    THEN [r EXCEPT !.queue = Append(@, [cmd |-> cmd, from |-> from, id |-> id])]
    ELSE IF from = None THEN Callback(r, cmd, "QUEUE_FULL")
    ELSE [r EXCEPT !.alive = FALSE]    \* callback(None, ...) of a tuple

(* The requests that wait for a reply fail: the first callback raises.      *)
OnLeaderChanged(r) ==
    IF DOMAIN r.waitingReply = {} THEN r
    ELSE OnUpdateFunction(r, r.waitingReply[Min(DOMAIN r.waitingReply)], "LEADER_CHANGED")

---------------------------------------------------------------------------
(* The in-memory dump.  Its bytes are Pieces pieces of one pickled object;  *)
(* <<>> is no dump.  A transmission remembers the bytes it started with.    *)

Serialized(snap) == [k \in 1..Pieces |-> [snap |-> snap, part |-> k]]

(* Mutation: the log is cut when the dump is started.                       *)
SerializeCutsAtOnce(r, snap) ==
    [r EXCEPT !.dump = Serialized(snap), !.dumpId = snap.last.idx, !.dumping = TRUE,
              !.log = DeleteEntriesTo(@, snap.last.idx)]

(* serialize(): the dump is in place at once, but the log is only cut by the*)
(* checkSerializing() of the next tick.                                     *)
Serialize(r, snap) ==
    [r EXCEPT !.dump = Serialized(snap), !.dumpId = snap.last.idx, !.dumping = TRUE]

(* checkSerializing() of a finished dump: transmissions start over.         *)
CheckSerializing(r) == [r EXCEPT !.dumping = FALSE, !.transmissions = [p \in DOMAIN @ |-> None]]

(* A dump is started when the entry before the last applied one is there;   *)
(* that the last applied one is there too is taken for granted.             *)
DumpApplied(r) ==
    LET lastApplied == GetEntries(r.log, r.applied - 1)
    IN  CASE lastApplied = <<>> -> r
          [] Len(lastApplied) = 1 -> [r EXCEPT !.alive = FALSE]
          [] OTHER -> Serialize(r, [data |-> r.data, last |-> lastApplied[2], prev |-> lastApplied[1]])

CutLog(r) == [r EXCEPT !.log = DeleteEntriesTo(@, r.dumpId)]

(* In this tick a dump is finished, or one is started when it is time for it*)
(* (a minute has passed).                                                   *)
TryLogCompaction(r, compact) ==
    CASE r.dumping -> Indexed(CheckSerializing(r), CutLog)
      [] ~r.dumping /\ compact -> Indexed(r, DumpApplied)
      [] OTHER -> r

(* setTransmissionData: a first piece starts over; the last one, which is   *)
(* empty, makes what has come in the dump.  loadDumpFile then replaces the  *)
(* object's data and its log, unless the bytes do not decompress.           *)
SetTransmissionData(r, piece) ==
    LET incoming == IF piece.first THEN piece.bytes ELSE r.incoming \o piece.bytes
    IN  IF ~piece.first /\ r.incoming = None THEN r
        ELSE IF piece.last THEN [r EXCEPT !.incoming = None, !.dump = incoming]
        ELSE [r EXCEPT !.incoming = incoming]

(* Mutation: lastApplied keeps its value.                                   *)
LoadDumpFileOldApplied(r) ==
    LET snap == Head(r.dump).snap
    IN  IF r.dump # <<>> /\ r.dump = Serialized(snap)
        THEN [r EXCEPT !.data = snap.data, !.log = <<snap.prev, snap.last>>]
        ELSE r

LoadDumpFile(r) ==
    LET snap == Head(r.dump).snap
    IN  IF r.dump # <<>> /\ r.dump = Serialized(snap)
        THEN [r EXCEPT !.data = snap.data, !.log = <<snap.prev, snap.last>>, !.applied = snap.last.idx]
        ELSE r

InstallSnapshot(r, piece) ==
    Then(SetTransmissionData(r, piece),
         LAMBDA t : IF piece.last /\ r.incoming # None THEN LoadDumpFile(t) ELSE t)

---------------------------------------------------------------------------
(* The leader's append_entries.  A message carries either the entries after *)
(* prev or one piece of the dump.                                           *)

AppendEntries(r, regular, serialized) ==
    [type |-> "append_entries", term |-> r.term, commit |-> r.commit,
     regular |-> regular, serialized |-> serialized]

EntriesMessage(r, next) ==
    AppendEntries(r, [prev |-> PrevLogIndexTerm(r.log, next), entries |-> GetEntries(r.log, next)], None)

(* getTransmissionData: the piece that follows the first k.                 *)
PieceMessage(r, bytes, k) ==
    AppendEntries(r, None, [bytes |-> IF k < Len(bytes) THEN <<bytes[k + 1]>> ELSE <<>>,
                            first |-> k = 0, last |-> k = Len(bytes)])

(* What one call of __sendAppendEntries does for a connected peer: messages,*)
(* nextIndex and transmission after it.  Unless the call is slow (its loop  *)
(* stops when appendEntriesPeriod is over) a dump goes out whole, followed  *)
(* by the entries from the cut on.  While a dump is being made nothing of it*)
(* can be sent: the message then says neither entries nor piece.            *)
AppendTo(r, p, slow) ==
    LET next  == r.next[p]
        first == FirstIndex(r.log)
        end   == CurrentLogIndex(r.log) + 1
        t     == IF r.transmissions[p] = None THEN [bytes |-> r.dump, sent |-> 0] ELSE r.transmissions[p]
        size  == Len(t.bytes)
        piece(k) == PieceMessage(r, t.bytes, k)
        nothing  == r.dumping \/ t.bytes = <<>>
    IN  CASE next >= first ->
               [msgs |-> <<EntriesMessage(r, next)>>, next |-> IF next < end THEN end ELSE next,
                left |-> r.transmissions[p]]
          [] next < first /\ nothing ->
               [msgs |-> <<AppendEntries(r, None, None)>>, next |-> next, left |-> r.transmissions[p]]
          [] next < first /\ ~nothing /\ slow ->
               [msgs |-> <<piece(t.sent)>>, next |-> IF t.sent = size THEN first ELSE next,
                left |-> IF t.sent = size THEN None ELSE [t EXCEPT !.sent = @ + 1]]
          [] OTHER ->
               [msgs |-> [i \in 1..(size - t.sent + 1) |-> piece(t.sent + i - 1)] \o <<EntriesMessage(r, first)>>,
                next |-> end, left |-> None]

(* to[p]: what is done for p.                                               *)
SendTo(n, r, to) ==
    [r EXCEPT !.out = [p \in Peer(n) |-> IF IsConnected(n, p) THEN @[p] \o to[p].msgs ELSE @[p]],
              !.next = [p \in Peer(n) |-> IF IsConnected(n, p) THEN to[p].next ELSE @[p]],
              !.transmissions = [p \in Peer(n) |-> IF IsConnected(n, p) THEN to[p].left ELSE None]]

SendAppendEntries(n, r, slow) ==
    Then(r, LAMBDA t : SendTo(n, t, [p \in Peer(n) |-> AppendTo(t, p, slow)]))

---------------------------------------------------------------------------
(* One pass of _onTick, in its order.                                       *)

RequestVotes(n, r) ==
    Indexed(r, LAMBDA c : [c EXCEPT !.out = [p \in Peer(n) |-> Append(@[p],
        [type |-> "request_vote", term |-> c.term,
         lastLogIndex |-> CurrentLogIndex(c.log), lastLogTerm |-> CurrentLogTerm(c.log)])]])

(* The election deadline has passed.                                        *)
StartElection(n, r) ==
    LET c == [r EXCEPT !.state = "CANDIDATE", !.leader = None, !.term = @ + 1, !.votes = 1]
    IN  Then(RequestVotes(n, c), OnLeaderChanged)

(* The while loop over nextCommitIndex: it stops at the first index that is *)
(* not on a majority; the term of the entry is not looked at.               *)
Replicated(n, r, i) == Majority(1 + Cardinality({p \in Peer(n) : r.match[p] >= i}))
CommitTo(n, r) ==
    LET from == r.commit + 1
    IN  Max({r.commit} \cup {k \in from..CurrentLogIndex(r.log) : \A i \in from..k : Replicated(n, r, i)})

AdvanceCommit(n, r) == Indexed(r, LAMBDA t : [t EXCEPT !.commit = CommitTo(n, t)])

LeaderTick(n, r, beat, slow) ==
    Then(AdvanceCommit(n, r), LAMBDA t : IF beat THEN SendAppendEntries(n, t, slow) ELSE t)

(* Who waits for index i, and one more who waits for the entry of term t.   *)
Subscribers(r, i) == IF i \in DOMAIN r.waitingCommit THEN r.waitingCommit[i] ELSE <<>>
Subscribe(r, i, t, cmd) ==
    LET waiting == Append(Subscribers(r, i), [term |-> t, cmd |-> cmd])
    IN  [r EXCEPT !.waitingCommit = [j \in DOMAIN @ \cup {i} |-> IF j = i THEN waiting ELSE @[j]]]

(* The value is set, and who waits for this index does so no longer.        *)
SetValue(r, e) ==
    Then(r, LAMBDA t : [t EXCEPT !.data = Append(@, e.cmd),
                                 !.waitingCommit = [i \in DOMAIN @ \ {e.idx} |-> @[i]]])

(* Mutation: the term of the subscriber is not compared.                    *)
TellAnyTerm(r, w, term) == OnUpdateFunction(r, w.cmd, "SUCCESS")

(* A subscriber is told whether it is his entry that came there.            *)
Tell(r, w, term) == OnUpdateFunction(r, w.cmd, IF w.term = term THEN "SUCCESS" ELSE "DISCARDED")

TellAll(r, e) == ForEach(Subscribers(r, e.idx), SetValue(r, e), LAMBDA t, w : Tell(t, w, e.term))

(* One committed entry.                                                     *)
ApplyEntry(r, e) == Then(TellAll(r, e), LAMBDA t : [t EXCEPT !.applied = @ + 1])

(* The entries that are read before the loop.                               *)
ReadyEntries(r) ==
    LET entries == GetEntries(r.log, r.applied + 1)
    IN  SubSeq(entries, 1, Min({r.commit - r.applied, Len(entries)}))

ApplyEntries(r) == ForEach(ReadyEntries(r), r, ApplyEntry)

ApplyCommitted(r) == IF r.commit > r.applied THEN Indexed(r, ApplyEntries) ELSE r

(* One command of the queue: the leader appends it and sends it at once; any*)
(* other node forwards its own to whom it takes for the leader (to nobody,  *)
(* when that is itself) and sends those of others back.                     *)
LeaderCommand(n, r, q, slow) ==
    LET idx == CurrentLogIndex(r.log) + 1
        a   == [r EXCEPT !.log = Append(@, [cmd |-> q.cmd, idx |-> idx, term |-> r.term])]
        b   == IF q.from = None
               THEN Subscribe(a, idx, r.term, q.cmd)
               ELSE SendNode(a, q.from, [type |-> "apply_command_response", id |-> q.id,
                                         error |-> None, idx |-> idx, term |-> r.term])
    IN  SendAppendEntries(n, b, slow)

ForwardCommand(r, q) ==
    LET id == r.counter + 1
    IN  IF q.from = None
        THEN SendNode([r EXCEPT !.counter = id,
                                !.waitingReply = [i \in DOMAIN @ \cup {id} |-> IF i = id THEN q.cmd ELSE @[i]]],
                      r.leader, [type |-> "apply_command", cmd |-> q.cmd, id |-> id])
        ELSE SendNode(r, q.from, [type |-> "apply_command_response", id |-> q.id,
                                  error |-> "NOT_LEADER", idx |-> 0, term |-> 0])

OneCommand(n, r, q, slow) ==
    Then(r, LAMBDA t : IF t.state = "LEADER" THEN LeaderCommand(n, t, q, slow) ELSE ForwardCommand(t, q))

CheckCommandsToApply(n, r, slow) ==
    LET k == IF r.leader = None THEN 0 ELSE Min({MaxCommandsPerTick, Len(r.queue)})
    IN  ForEach(SubSeq(r.queue, 1, k), [r EXCEPT !.queue = SubSeq(@, k + 1, Len(@))],
                LAMBDA t, q : OneCommand(n, t, q, slow))

---------------------------------------------------------------------------
(* _onMessageReceived, one operator per type of message.                    *)

SendNextNodeIdx(r, to, reset) ==
    SendNode(r, to, [type |-> "next_node_idx", next |-> CurrentLogIndex(r.log) + 1, reset |-> reset])

(* Mutation: a vote for a candidate whose log is behind.                    *)
BehindNever(m, log) == FALSE

(* The candidate's log is behind this one.                                  *)
Behind(m, log) ==
    \/ m.lastLogTerm < CurrentLogTerm(log)
    \/ m.lastLogTerm = CurrentLogTerm(log) /\ m.lastLogIndex < CurrentLogIndex(log)

(* No vote is recorded: every candidate of the term whose log is not behind *)
(* gets one.  The leader is not forgotten when the term grows.              *)
OnRequestVote(r, from, m) ==
    LET a == IF m.term > r.term THEN [r EXCEPT !.term = m.term, !.state = "FOLLOWER"] ELSE r
        vote(t) == IF Behind(m, t.log) THEN t
                   ELSE SendNode(t, from, [type |-> "response_vote", term |-> m.term])
    IN  IF a.state # "LEADER" /\ m.term >= a.term THEN Indexed(a, vote) ELSE a

(* The sender of append_entries is the leader from now on.                  *)
FollowLeader(r, from, term) ==
    Then(IF r.leader # from THEN OnLeaderChanged(r) ELSE r,
         LAMBDA t : [t EXCEPT !.leader = from, !.term = term, !.state = "FOLLOWER"])

(* The last steps of append_entries; the commit index may also go back.     *)
Acknowledge(r, from, commit) ==
    Indexed(r, LAMBDA t : [SendNextNodeIdx(t, from, FALSE) EXCEPT !.commit = Min({commit, CurrentLogIndex(t.log)})])

(* Mutation: the entries after prev are kept.                               *)
TakeEntriesKeepTail(r, from, m) ==
    LET prev == GetEntries(r.log, m.regular.prev.idx)
    IN  IF prev = <<>> THEN SendNextNodeIdx(r, from, TRUE)
        ELSE Acknowledge([r EXCEPT !.log = @ \o m.regular.entries], from, m.commit)

(* Regular entries: refused, with nextIndex set back, when prev is not there*)
(* or of another term (a log cut to nothing has no last index to report);   *)
(* otherwise all that follows prev is replaced.                             *)
TakeEntries(r, from, m) ==
    LET at   == m.regular.prev.idx
        prev == GetEntries(r.log, at)
        cut  == [r EXCEPT !.log = DeleteEntriesFrom(@, at)]
    IN  CASE prev = <<>> -> SendNextNodeIdx(r, from, TRUE)
          [] prev # <<>> /\ Head(prev).term # m.regular.prev.term ->
                IF cut.log = <<>> THEN [cut EXCEPT !.alive = FALSE] ELSE SendNextNodeIdx(cut, from, TRUE)
          [] OTHER -> Acknowledge([r EXCEPT !.log = DeleteEntriesFrom(@, at + 1) \o m.regular.entries],
                                  from, m.commit)

OnRegularEntries(r, from, m) == Indexed(r, LAMBDA t : TakeEntries(t, from, m))

(* A message with neither entries nor piece is taken for regular entries and*)
(* has no prevLogIdx: the KeyError ends the tick thread.                    *)
OnAppendEntries(r, from, m) ==
    LET take(a) == CASE m.serialized # None -> Acknowledge(InstallSnapshot(a, m.serialized), from, m.commit)
                     [] m.serialized = None /\ m.regular # None -> OnRegularEntries(a, from, m)
                     [] OTHER -> [a EXCEPT !.alive = FALSE]
    IN  IF m.term >= r.term THEN Then(FollowLeader(r, from, m.term), take) ELSE r

(* Mutation: the request is not removed from those waiting for a reply.     *)
OnApplyCommandResponseKeep(r, m) ==
    LET cmd == r.waitingReply[m.id]
    IN  CASE m.id \notin DOMAIN r.waitingReply -> r
          [] m.id \in DOMAIN r.waitingReply /\ m.error # None -> OnUpdateFunction(r, cmd, m.error)
          [] OTHER -> Subscribe(r, m.idx, m.term, cmd)

OnApplyCommandResponse(r, m) ==
    LET cmd == r.waitingReply[m.id]
        a   == [r EXCEPT !.waitingReply = [i \in DOMAIN @ \ {m.id} |-> @[i]]]
    IN  CASE m.id \notin DOMAIN r.waitingReply -> r
          [] m.id \in DOMAIN r.waitingReply /\ m.error # None -> OnUpdateFunction(a, cmd, m.error)
          [] OTHER -> IF m.idx > r.applied
                      THEN Subscribe(a, m.idx, m.term, cmd)
                      ELSE [a EXCEPT !.alive = FALSE]    \* the assertion fails

OnBecomeLeader(n, r) ==
    Indexed([r EXCEPT !.leader = n, !.state = "LEADER"],
            LAMBDA t : SendAppendEntries(n, [t EXCEPT !.next = [p \in Peer(n) |-> CurrentLogIndex(t.log) + 1],
                                                      !.match = [p \in Peer(n) |-> 0]], FALSE))

OnResponseVote(n, r, m) ==
    LET a == [r EXCEPT !.votes = @ + 1]
    IN  CASE r.state # "CANDIDATE" \/ m.term # r.term -> r
          [] r.state = "CANDIDATE" /\ m.term = r.term /\ ~Majority(a.votes) -> a
          [] OTHER -> OnBecomeLeader(n, a)

(* Mutation: a refusal does not set nextIndex back.                         *)
OnNextNodeIdxNoReset(r, from, m) ==
    IF r.state # "LEADER" THEN r ELSE [r EXCEPT !.match[from] = m.next - 1]

(* Mutation: matchIndex follows refusals only.                              *)
OnNextNodeIdxNoMatch(r, from, m) ==
    IF r.state # "LEADER" \/ ~m.reset THEN r
    ELSE [r EXCEPT !.match[from] = m.next - 1, !.next[from] = m.next]

(* The answer has no term; a refusal sets matchIndex as well.               *)
OnNextNodeIdx(r, from, m) ==
    IF r.state # "LEADER" THEN r
    ELSE [r EXCEPT !.match[from] = m.next - 1, !.next[from] = IF m.reset THEN m.next ELSE @]

OnMessageReceived(n, r, from, m) ==
    CASE m.type = "request_vote" -> OnRequestVote(r, from, m)
      [] m.type = "append_entries" -> OnAppendEntries(r, from, m)
      [] m.type = "apply_command" -> ApplyCommand(r, m.cmd, from, m.id)
      [] m.type = "apply_command_response" -> OnApplyCommandResponse(r, m)
      [] m.type = "response_vote" -> OnResponseVote(n, r, m)
      [] m.type = "next_node_idx" -> OnNextNodeIdx(r, from, m)

---------------------------------------------------------------------------
(* The steps of the cluster.                                                *)

InitObj(n) ==
    [state |-> "FOLLOWER", term |-> 0, votes |-> 0, leader |-> None,
     log |-> <<[cmd |-> None, idx |-> 1, term |-> 0]>>, commit |-> 1, applied |-> 1,
     next |-> [p \in Peer(n) |-> 0], match |-> [p \in Peer(n) |-> 0],
     queue |-> <<>>, waitingCommit |-> <<>>, waitingReply |-> <<>>, counter |-> 0,
     dump |-> <<>>, dumpId |-> 0, dumping |-> FALSE, incoming |-> None,
     transmissions |-> [p \in Peer(n) |-> None],
     data |-> <<>>, alive |-> TRUE, out |-> [p \in Peer(n) |-> <<>>], calls |-> <<>>]

Init ==
    /\ LinkInit
    /\ obj = [n \in Node |-> InitObj(n)]
    /\ answers = [c \in Command |-> <<>>]
    /\ called = {}
    /\ dumps = 0

(* What the callbacks were called with, the calls of this step included.    *)
Answered(calls) ==
    ForEach(calls, answers, LAMBDA told, c : [told EXCEPT ![c.cmd] = Append(@, c.err)])

(* Node n ends a step as the record r.                                      *)
Become(n, r) ==
    /\ obj' = [obj EXCEPT ![n] = [r EXCEPT !.out = [p \in Peer(n) |-> <<>>], !.calls = <<>>]]
    /\ answers' = Answered(r.calls)

(* Nobody reads what is written to a node whose tick thread has ended.      *)
Readable(channels) ==
    [n \in Node |-> [p \in Peer(n) |-> IF obj'[p].alive THEN channels[n][p] ELSE <<>>]]

(* custom_server's pso_append, in a thread of the XML-RPC server.  A test   *)
(* daemon appends its next value when it has heard of the last one.         *)
PsoAppend(n, c) ==
    /\ c \notin called /\ Caller[c] = n
    /\ \A d \in Command : Caller[d] = n /\ d < c => Range(answers[d]) \cap {"SUCCESS", "QUEUE_FULL"} # {}
    /\ called' = called \cup {c}
    /\ Become(n, ApplyCommand(obj[n], c, None, 0))
    /\ UNCHANGED <<dumps, status, chan, breaks>>

MayExpire(n) ==
    /\ obj[n].state # "LEADER"
    /\ obj[n].term < MaxTerm
    /\ n \in Candidates[obj[n].term + 1]

(* Each phase works on what the one before it left.                         *)
Tick(n, expire, beat, slow, compact, dial) ==
    /\ obj[n].alive
    /\ \E a \in {IF expire THEN StartElection(n, obj[n]) ELSE obj[n]} :
       \E b \in {IF a.state = "LEADER" THEN LeaderTick(n, a, beat, slow) ELSE a} :
       \E c \in {Then(b, ApplyCommitted)} :
       \E d \in {Then(c, LAMBDA t : CheckCommandsToApply(n, t, slow))} :
       \E e \in {Then(d, LAMBDA t : TryLogCompaction(t, compact))} :
          /\ \A p \in Peer(n) : e.out[p] = <<>> \/ Len(chan[n][p]) + Len(e.out[p]) <= MaxInFlight
          /\ Become(n, e)
          /\ chan' = Readable(Deliver(n, e.out))
          /\ dumps' = dumps + (IF e.dumping /\ ~d.dumping THEN 1 ELSE 0)
          /\ status' = IF e.alive THEN ConnectIfRequired(n, dial) ELSE status
    /\ UNCHANGED <<called, breaks>>

Receive(n, p) ==
    /\ obj[n].alive
    /\ CanRead(n, p)
    /\ \E r \in {OnMessageReceived(n, obj[n], p, Head(chan[p][n]))} :
          /\ Become(n, r)
          /\ chan' = Readable([Deliver(n, r.out) EXCEPT ![p][n] = Tail(@)])
    /\ UNCHANGED <<called, dumps, status, breaks>>

(* A slow call makes a difference only to a peer that needs the dump.       *)
Slowness(n) == {FALSE} \cup {TRUE : p \in {q \in Peer(n) : obj[n].next[q] < FirstIndex(obj[n].log)}}

AnyTick(n) ==
    \E expire, beat, compact \in BOOLEAN, slow \in Slowness(n), dial \in SUBSET Dialable(n) :
        /\ expire => MayExpire(n)
        /\ beat => obj[n].state = "LEADER" /\ \A p \in Peer(n) : Len(chan[n][p] \o chan[p][n]) < MaxBeats
        /\ compact => dumps < MaxCompactions /\ n \in Compactors
        /\ Tick(n, expire, beat, slow, compact, dial)

LinkBreak(n, p) == Break(n, p) /\ UNCHANGED <<obj, answers, called, dumps>>

LinkRepair(n, p) ==
    /\ obj[n].alive
    /\ LoseConnection(n, p) \/ Connected(n, p) \/ OnPartnerConnected(n, p)
    /\ UNCHANGED <<obj, answers, called, dumps>>

Next ==
    \/ \E n \in Node, c \in Command : PsoAppend(n, c)
    \/ \E n \in Node : AnyTick(n)
    \/ \E n \in Node : \E p \in Peer(n) : Receive(n, p)
    \/ \E n \in Node : \E p \in Peer(n) : LinkBreak(n, p) \/ LinkRepair(n, p)

Spec == Init /\ [][Next]_vars

(* Time passes: the tick thread goes round, heartbeats and retries included,*)
(* reads what arrives, and notices a dead socket.  An election timer need   *)
(* not run out, and no command, break or dump is promised.                  *)
TimelyTick(n) ==
    \E beat \in BOOLEAN, slow \in Slowness(n) :
        /\ beat = (obj[n].state = "LEADER" /\ \A p \in Peer(n) : Len(chan[n][p] \o chan[p][n]) < MaxBeats)
        /\ Tick(n, FALSE, beat, slow, FALSE, Dialable(n))

Fairness ==
    /\ \A n \in Node : WF_vars(TimelyTick(n))
    /\ \A n \in Node : \A p \in Peer(n) : WF_vars(Receive(n, p)) /\ WF_vars(LinkRepair(n, p))

FairSpec == Spec /\ Fairness

---------------------------------------------------------------------------
(* Properties.                                                              *)

Applied(n) == Range(obj[n].data)
EntryOf(n) == Range(obj[n].log)

(* Types, and the shape the handlers rely on: a log is a run of consecutive *)
(* indices, and the data is what was applied up to lastApplied, through logs*)
(* and dumps, and nothing but what clients appended.                        *)
TypeOK ==
    /\ \A n \in Node : LET r == obj[n] IN
        /\ r.state \in {"FOLLOWER", "CANDIDATE", "LEADER"}
        /\ r.term \in 0..MaxTerm /\ r.leader \in Node \cup {None}
        /\ \A i \in DOMAIN r.log : r.log[i].idx = FirstIndex(r.log) + i - 1
        /\ (r.alive => Len(r.data) = r.applied - 1) /\ Applied(n) \subseteq called
        /\ status[n] \in [Peer(n) -> StatusValue]
    /\ called \subseteq Command /\ dumps \in 0..MaxCompactions /\ breaks \in 0..MaxBreaks

(* The log reaches from the dump up to what is committed and applied: what  *)
(* _onTick and __tryLogCompaction take for granted when they index it.      *)
CommittedInLog ==
    \A n \in Node : LET r == obj[n] IN
        /\ r.log # <<>>
        /\ r.commit <= CurrentLogIndex(r.log)
        /\ r.applied \in FirstIndex(r.log)..CurrentLogIndex(r.log)

(* Log matching: two logs that hold an entry of the same index and term hold*)
(* the same command there and agree on all the entries before it that both  *)
(* still have (the prev test of append_entries, and one leader per term).   *)
LogMatching ==
    \A m, n \in Node : \A e \in EntryOf(m), f \in EntryOf(n) :
        e.idx = f.idx /\ e.term = f.term =>
            \A g \in EntryOf(m), h \in EntryOf(n) : g.idx = h.idx /\ g.idx <= e.idx => g = h

(* State machine safety: all the nodes set the same values in the same      *)
(* order, whether they apply their log or load a dump, and lastApplied says *)
(* how far each is (unless its thread ended between the two).               *)
AppliedAgreement ==
    \A m, n \in Node :
        /\ IsPrefix(obj[m].data, obj[n].data) \/ IsPrefix(obj[n].data, obj[m].data)
        /\ obj[m].alive /\ obj[m].applied <= obj[n].applied => IsPrefix(obj[m].data, obj[n].data)

(* Leader completeness: the leader of the highest term holds, in its data or*)
(* its log, every value any node has applied.                               *)
LeaderComplete ==
    \A n \in Node : obj[n].state = "LEADER" /\ (\A m \in Node : obj[m].term <= obj[n].term) =>
        \A m \in Node : Applied(m) \subseteq Applied(n) \cup {e.cmd : e \in EntryOf(n)}

(* The callback tells the truth: SUCCESS means that this node has set the   *)
(* value, every other answer but LEADER_CHANGED that nobody ever does.      *)
TruthfulAnswers ==
    \A c \in Command : \A i \in DOMAIN answers[c] :
        CASE answers[c][i] = "SUCCESS" -> c \in Applied(Caller[c])
          [] answers[c][i] = "LEADER_CHANGED" -> TRUE
          [] OTHER -> \A n \in Node : c \notin Applied(n)

(* A command is applied at most once and its callback is called at most     *)
(* once, however often it is forwarded, discarded or its leader deposed.    *)
AtMostOnce ==
    /\ \A n \in Node : IsInjective(obj[n].data)
    /\ \A c \in Command : Len(answers[c]) <= 1

(* Nothing but a callback that was told of a failure ends a tick thread:    *)
(* neither the assertion on the index of a forwarded command nor an empty   *)
(* log nor a missing key.                                                   *)
TickThreadAlive ==
    \A n \in Node : ~obj[n].alive => \E c \in called : Caller[c] = n /\ answers[c] # <<>> /\ Last(answers[c]) # "SUCCESS"

(* A command appended at a leader is answered while it leads.               *)
LeaderAnswers ==
    []<>(\A c \in called : obj[Caller[c]].state = "LEADER" => answers[c] # <<>>)

(* A follower whose log ends just before the leader's first entry: the      *)
(* leader sends the first entry with prevLogIdx None, the follower refuses  *)
(* and asks for the same entry again.                                       *)
OffByOne(l, p) == CurrentLogIndex(obj[p].log) = FirstIndex(obj[l].log) - 1

(* Catching up: whatever the leader applied reaches every node, through a   *)
(* broken connection and a cut log, except one that is off by one.          *)
CatchesUp ==
    []<>(\A l, p \in Node :
            obj[l].state = "LEADER" => Applied(l) \subseteq Applied(p) \/ OffByOne(l, p))
=============================================================================
