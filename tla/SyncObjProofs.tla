--------------------------- MODULE SyncObjProofs ---------------------------
(***************************************************************************)
(* Proofs about PySyncObj's replicated object, for every cluster, every    *)
(* set of commands and every bound: the types and shapes of SyncObj, log   *)
(* matching when no term has two leaders, and at most one application and  *)
(* one answer of a command.                                                *)
(*                                                                         *)
(* The argument for the first two: there is a set H of links (an entry, the*)
(* term of the entry before it and the node that appended it) such that    *)
(* every log, dump, transmission and message consists of links of H, and H *)
(* holds one link for an index, a term and a node.  A handler only         *)
(* rearranges what is in H; a leader adds a link that is new because its   *)
(* log goes beyond all that it has appended in its term.  When a term is   *)
(* led by one node, H holds one link for an index and a term.              *)
(*                                                                         *)
(* For the third: there are functions W and U of the commands.  W says     *)
(* where the request of a command is: with its client, in the queue of a   *)
(* node, on the way from one node to another, in the logs, or lost.  U says*)
(* who has its callback: nobody yet, the queue of its node, the table of   *)
(* those who wait for a reply or for an index, or nobody any more because  *)
(* it was called.  What is in a queue, a table, a message or a link of H is*)
(* there once and agrees with W and U, and a handler moves a request or a  *)
(* callback from one place to another.                                     *)
(***************************************************************************)
EXTENDS SyncObj, Integers, WellFoundedInduction, TLAPS

Fields == {"state", "term", "votes", "leader", "log", "commit", "applied", "next", "match",
           "queue", "waitingCommit", "waitingReply", "counter", "dump", "dumpId", "dumping",
           "incoming", "transmissions", "data", "alive", "out", "calls"}

Shaped(r) == r = [f \in Fields |-> r[f]]

Entry == [cmd : Command \cup {None}, idx : Nat \ {0}, term : 0..MaxTerm]

(* e, after an entry of term t, as n appended it (nobody: the noop entry).  *)
Link(e, t, n) == [entry |-> e, prev |-> t, by |-> n]
LinkSet == [entry : Entry, prev : 0..MaxTerm, by : Node \cup {None}]

(* Somebody appended e after an entry of term t.                            *)
Has(H, e, t) == \E x \in H : x.entry = e /\ x.prev = t

(* The links known: C are the commands appended so far.  A node appends one *)
(* entry of an index and a term.                                            *)
History(H, C) ==
    /\ H \subseteq LinkSet /\ C \subseteq Command
    /\ \A x \in H : x.entry.idx >= 2 => x.entry.cmd \in C
    /\ \A x, y \in H : x.entry.idx = y.entry.idx /\ x.entry.term = y.entry.term /\ x.by = y.by => x = y

(* A run of consecutive entries whose links are known.                      *)
Fits(q, H) ==
    /\ q \in Seq(Entry)
    /\ \A i \in 1..Len(q) : q[i].idx = q[1].idx + i - 1 /\ \E t \in 0..MaxTerm : Has(H, q[i], t)
    /\ \A i \in 2..Len(q) : Has(H, q[i], q[i - 1].term)

(* The values set are those of a run of entries that starts with index 2.   *)
Traced(d, H) == \A i \in 1..Len(d) : \E x \in H : x.entry.idx = i + 1 /\ x.entry.cmd = d[i]

Snap(H, C) == {s \in [data : Seq(C), last : Entry, prev : Entry] :
                  Fits(<<s.prev, s.last>>, H) /\ Traced(s.data, H) /\ Len(s.data) = s.last.idx - 1}
Bytes(H, C) == Seq([snap : Snap(H, C), part : Nat])
Transmission(H, C) == {t \in [bytes : Bytes(H, C), sent : Nat] : t.sent <= Len(t.bytes)}

(* The entries of a message follow its prev.                                *)
Regular(H) == {g \in [prev : [idx : Nat, term : 0..MaxTerm], entries : Seq(Entry)] :
                  /\ Fits(g.entries, H)
                  /\ g.entries # <<>> /\ g.prev.idx # 0 =>
                        g.entries[1].idx = g.prev.idx + 1 /\ Has(H, g.entries[1], g.prev.term)}
Piece(H, C) == [bytes : Bytes(H, C), first : BOOLEAN, last : BOOLEAN]

Appending(H, C) ==
    [type : {"append_entries"}, term : 0..MaxTerm, commit : Nat,
     regular : Regular(H) \cup {None}, serialized : Piece(H, C) \cup {None}]

Message(H, C) ==
    UNION {{Hello}, Appending(H, C),
           [type : {"request_vote"}, term : 0..MaxTerm, lastLogIndex : Nat, lastLogTerm : 0..MaxTerm],
           [type : {"response_vote"}, term : 0..MaxTerm],
           [type : {"next_node_idx"}, next : Nat, reset : BOOLEAN],
           [type : {"apply_command"}, cmd : C, id : Nat],
           [type : {"apply_command_response"}, id : Nat, error : {None, "NOT_LEADER"}, idx : Nat, term : 0..MaxTerm]}

Request(C) == [cmd : C, from : Node \cup {None}, id : Nat]
Waiting(C) == [term : 0..MaxTerm, cmd : C]

(* The record of node n, in the middle of a handler or between two.         *)
NodeOK(n, r, H, C) ==
    /\ Shaped(r)
    /\ r.state \in {"FOLLOWER", "CANDIDATE", "LEADER"} /\ r.term \in 0..MaxTerm
    /\ r.leader \in Node \cup {None}
    /\ r.state # "FOLLOWER" => r.term # 0 /\ n \in Candidates[r.term]
    /\ Fits(r.log, H)
    /\ r.commit \in Nat /\ r.applied \in Nat \ {0}
    /\ r.next \in [Peer(n) -> Nat]
    /\ r.queue \in Seq(Request(C)) /\ r.counter \in Nat
    /\ r.dump \in Bytes(H, C) /\ r.dumpId \in Nat /\ r.dumping \in BOOLEAN
    /\ r.incoming \in Bytes(H, C) \cup {None}
    /\ r.transmissions \in [Peer(n) -> Transmission(H, C) \cup {None}]
    /\ r.data \in Seq(C) /\ Traced(r.data, H)
    /\ r.alive \in BOOLEAN /\ (r.alive => Len(r.data) = r.applied - 1)
    /\ \A i \in DOMAIN r.waitingCommit : r.waitingCommit[i] \in Seq(Waiting(C))
    /\ \A i \in DOMAIN r.waitingReply : r.waitingReply[i] \in C
    /\ r.out \in [Peer(n) -> Seq(Message(H, C))]

(* What n has appended is of its term or of an older one, and it may append *)
(* more of this term only while it leads, beyond it.                        *)
Fresh(n, r, H) ==
    \A x \in H : x.by = n =>
        \/ r.term > x.entry.term
        \/ r.term = x.entry.term /\ r.state = "FOLLOWER"
        \/ /\ r.term = x.entry.term /\ r.state = "LEADER"
           /\ r.log # <<>> => x.entry.idx <= CurrentLogIndex(r.log)

Good(n, r, H, C) == NodeOK(n, r, H, C) /\ Fresh(n, r, H)

---------------------------------------------------------------------------
(* What a handler may change without touching the log, the term, the state  *)
(* or what is sent.                                                         *)

(* s differs from r in these fields only.                                   *)
Frame(r, s, changed) == Shaped(s) /\ \A f \in Fields \ changed : s[f] = r[f]

(* The same part in the same term.                                          *)
SameRole(r, s) == s.state = r.state /\ s.term = r.term

(* The requests for a command among messages.                               *)
Asks(q) == {i \in 1..Len(q) : q[i].type = "apply_command"}
SameAsks(q, u) == Asks(u) = Asks(q) /\ \A i \in Asks(q) : u[i] = q[i]

(* From r to s no command and no callback moves.                            *)
Still(n, r, s) ==
    /\ s.queue = r.queue /\ s.waitingReply = r.waitingReply /\ s.waitingCommit = r.waitingCommit
    /\ s.counter = r.counter /\ s.calls = r.calls /\ (s.alive => r.alive)
    /\ \A p \in Peer(n) : SameAsks(r.out[p], s.out[p])

QuietFields == {"state", "term", "votes", "leader", "log", "commit", "applied", "next", "match", "dump",
                "dumpId", "dumping", "incoming", "transmissions", "data", "alive"}

LEMMA FrameStill ==
  ASSUME NEW n, NEW r, NEW s, NEW changed \in SUBSET QuietFields, Frame(r, s, changed), s.alive => r.alive
  PROVE  Still(n, r, s)
<1>1. /\ s.queue = r.queue /\ s.waitingReply = r.waitingReply /\ s.waitingCommit = r.waitingCommit
      /\ s.counter = r.counter /\ s.calls = r.calls /\ s.out = r.out
  BY DEF Frame, Fields, QuietFields
<1> QED BY <1>1 DEF Still, SameAsks

LEMMA StillSame ==
  ASSUME NEW n, NEW r
  PROVE  Still(n, r, r)
BY DEF Still, SameAsks

LEMMA StillTrans ==
  ASSUME NEW n, NEW r, NEW s, NEW t, Still(n, r, s), Still(n, s, t)
  PROVE  Still(n, r, t)
BY DEF Still, SameAsks

LEMMA AsksConcat ==
  ASSUME NEW M, NEW q \in Seq(M), NEW u \in Seq(M), \A i \in 1..Len(u) : u[i].type # "apply_command"
  PROVE  SameAsks(q, q \o u)
<1>1. Len(q) \in Nat /\ Len(u) \in Nat /\ Len(q \o u) = Len(q) + Len(u)
  OBVIOUS
<1>2. \A i \in 1..Len(q) : (q \o u)[i] = q[i]
  OBVIOUS
<1>3. \A i \in 1..Len(q \o u) : i \notin 1..Len(q) => i - Len(q) \in 1..Len(u) /\ (q \o u)[i] = u[i - Len(q)]
  BY <1>1
<1> DEFINE v == q \o u
<1> HIDE DEF v
<1>4. Asks(v) = Asks(q)
  BY <1>1, <1>2, <1>3 DEF Asks, v
<1> QED BY <1>2, <1>4 DEF SameAsks, Asks, v

LEMMA AsksAppend ==
  ASSUME NEW M, NEW q \in Seq(M), NEW m \in M, m.type # "apply_command"
  PROVE  SameAsks(q, Append(q, m))
<1>1. Append(q, m) = q \o <<m>> /\ <<m>> \in Seq(M) /\ Len(<<m>>) = 1 /\ <<m>>[1] = m
  OBVIOUS
<1>2. \A i \in 1..Len(<<m>>) : <<m>>[i].type # "apply_command"
  BY <1>1
<1> QED BY <1>1, <1>2, AsksConcat

LEMMA CallbackFrame ==
  ASSUME NEW r, Shaped(r), NEW cmd, NEW err
  PROVE  Frame(r, Callback(r, cmd, err), {"calls"})
BY DEF Frame, Shaped, Fields, Callback

LEMMA OnUpdateFunctionFrame ==
  ASSUME NEW r, Shaped(r), r.alive \in BOOLEAN, NEW cmd, NEW err
  PROVE  /\ Frame(r, OnUpdateFunction(r, cmd, err), {"calls", "alive"})
         /\ OnUpdateFunction(r, cmd, err).alive \in BOOLEAN
         /\ OnUpdateFunction(r, cmd, err).alive => r.alive
<1>1. OnUpdateFunction(r, cmd, err) =
        IF r.alive THEN [Callback(r, cmd, err) EXCEPT !.alive = (err = "SUCCESS")] ELSE r
  BY DEF OnUpdateFunction, Then
<1>2. Frame(r, [Callback(r, cmd, err) EXCEPT !.alive = (err = "SUCCESS")], {"calls", "alive"})
  BY CallbackFrame DEF Frame, Shaped, Fields
<1>3. [Callback(r, cmd, err) EXCEPT !.alive = (err = "SUCCESS")].alive = (err = "SUCCESS")
  BY CallbackFrame DEF Frame, Shaped, Fields
<1> QED BY <1>1, <1>2, <1>3 DEF Frame

LEMMA OnLeaderChangedFrame ==
  ASSUME NEW r, Shaped(r), r.alive \in BOOLEAN
  PROVE  /\ Frame(r, OnLeaderChanged(r), {"calls", "alive"})
         /\ OnLeaderChanged(r).alive \in BOOLEAN
         /\ OnLeaderChanged(r).alive => r.alive
BY OnUpdateFunctionFrame DEF OnLeaderChanged, Frame

LEMMA CallsFrameGood ==
  ASSUME NEW n \in Node, NEW r, NEW s, NEW H, NEW C, Good(n, r, H, C),
         Frame(r, s, {"calls", "alive"}), s.alive \in BOOLEAN, s.alive => r.alive
  PROVE  Good(n, s, H, C)
BY DEF Good, NodeOK, Fresh, Frame, Fields

---------------------------------------------------------------------------
(* Runs of entries: slices, concatenation, more links.                      *)

LEMMA EntryFields ==
  ASSUME NEW e \in Entry
  PROVE  e.idx \in Nat \ {0} /\ e.idx \in Int /\ e.term \in 0..MaxTerm /\ e.cmd \in Command \cup {None}
BY DEF Entry

LEMMA CurrentLog ==
  ASSUME NEW H, NEW q, Fits(q, H), q # <<>>
  PROVE  /\ Len(q) \in Nat \ {0} /\ q[1] \in Entry /\ q[Len(q)] \in Entry
         /\ CurrentLogIndex(q) = q[Len(q)].idx /\ CurrentLogTerm(q) = q[Len(q)].term
         /\ FirstIndex(q) = q[1].idx /\ CurrentLogIndex(q) = FirstIndex(q) + Len(q) - 1
         /\ CurrentLogIndex(q) \in Nat \ {0} /\ FirstIndex(q) \in Nat \ {0}
         /\ CurrentLogTerm(q) \in 0..MaxTerm
<1>1. q \in Seq(Entry) /\ Len(q) \in Nat \ {0} /\ q[1] \in Entry /\ q[Len(q)] \in Entry
  BY DEF Fits
<1>2. q[Len(q)].idx = q[1].idx + Len(q) - 1
  BY <1>1 DEF Fits
<1>3. q[1].idx \in Nat \ {0} /\ q[Len(q)].idx \in Nat \ {0} /\ q[Len(q)].term \in 0..MaxTerm
  BY <1>1 DEF Entry
<1>4. Last(q) = q[Len(q)] /\ Head(q) = q[1]
  BY <1>1 DEF Last
<1> QED BY <1>1, <1>2, <1>3, <1>4 DEF CurrentLogIndex, CurrentLogTerm, FirstIndex

LEMMA FitsSlice ==
  ASSUME NEW H, NEW q, Fits(q, H), NEW a \in Nat \ {0}, NEW b \in Int, b <= Len(q)
  PROVE  /\ Fits(SubSeq(q, a, b), H)
         /\ Len(SubSeq(q, a, b)) = IF b >= a THEN b - a + 1 ELSE 0
         /\ \A i \in 1..(b - a + 1) : SubSeq(q, a, b)[i] = q[a + i - 1]
<1> DEFINE s == SubSeq(q, a, b)
<1>1. q \in Seq(Entry) /\ Len(q) \in Nat
  BY DEF Fits
<1>2. \A i \in 1..(b - a + 1) : a + i - 1 \in 1..Len(q) /\ a + i - 1 \in Nat
  BY <1>1
<1>3. s \in Seq(Entry)
  BY <1>1, <1>2
<1>4. Len(s) = IF b >= a THEN b - a + 1 ELSE 0
  BY <1>1, <1>2
<1>5. \A i \in 1..(b - a + 1) : s[i] = q[a + i - 1]
  BY <1>1, <1>2
<1> HIDE DEF s
<1>6. Len(s) \in Nat /\ \A i \in 1..Len(s) : i \in 1..(b - a + 1) /\ a + i - 1 \in 1..Len(q)
  BY <1>1, <1>2, <1>4
<1>7. \A i \in 1..Len(s) : s[i] = q[a + i - 1]
  BY <1>5, <1>6
<1>8. \A i \in 1..Len(s) : s[i].idx = s[1].idx + i - 1 /\ \E t \in 0..MaxTerm : Has(H, s[i], t)
  <2> SUFFICES ASSUME NEW i \in 1..Len(s)
               PROVE  s[i].idx = s[1].idx + i - 1 /\ \E t \in 0..MaxTerm : Has(H, s[i], t)
    OBVIOUS
  <2> DEFINE j == a + i - 1
  <2>1. i \in Nat /\ 1 \in 1..Len(s) /\ j \in 1..Len(q) /\ a \in 1..Len(q) /\ 1 \in 1..Len(q)
    BY <1>6, <1>1
  <2>2. s[i] = q[j] /\ s[1] = q[a]
    BY <1>7, <2>1
  <2>3. q[j].idx = q[1].idx + j - 1 /\ q[a].idx = q[1].idx + a - 1 /\ \E t \in 0..MaxTerm : Has(H, q[j], t)
    BY <2>1 DEF Fits
  <2>4. q[1].idx \in Int
    BY <1>1, <2>1, EntryFields
  <2>5. i \in Int /\ j \in Int /\ a \in Int /\ j = a + i - 1
    BY <2>1
  <2> HIDE DEF j
  <2>6. q[j].idx = q[a].idx + i - 1
    <3>1. q[j].idx = q[1].idx + j - 1 /\ q[a].idx = q[1].idx + a - 1
      BY <2>3
    <3> QED BY <3>1, <2>4, <2>5, SMTT(30)
  <2>7. s[i].idx = s[1].idx + i - 1
    BY <2>2, <2>6
  <2> QED BY <2>2, <2>3, <2>7
<1>9. \A i \in 2..Len(s) : Has(H, s[i], s[i - 1].term)
  <2> SUFFICES ASSUME NEW i \in 2..Len(s) PROVE Has(H, s[i], s[i - 1].term)
    OBVIOUS
  <2> DEFINE j == a + i - 1
  <2>1. i \in 1..Len(s) /\ i - 1 \in 1..Len(s) /\ j \in 2..Len(q) /\ j - 1 = a + (i - 1) - 1
    BY <1>6, <1>1
  <2>2. s[i] = q[j] /\ s[i - 1] = q[j - 1]
    BY <1>7, <2>1
  <2>3. Has(H, q[j], q[j - 1].term)
    BY <2>1 DEF Fits
  <2> HIDE DEF j
  <2> QED BY <2>2, <2>3
<1> QED BY <1>3, <1>4, <1>5, <1>8, <1>9 DEF Fits, s

LEMMA FitsConcat ==
  ASSUME NEW H, NEW p, NEW q, Fits(p, H), Fits(q, H), p # <<>>,
         q # <<>> => q[1].idx = p[Len(p)].idx + 1 /\ Has(H, q[1], p[Len(p)].term)
  PROVE  Fits(p \o q, H) /\ p \o q # <<>>
<1> DEFINE s == p \o q
<1>1. p \in Seq(Entry) /\ q \in Seq(Entry) /\ Len(p) \in Nat \ {0} /\ Len(q) \in Nat
  BY DEF Fits
<1>2. s \in Seq(Entry) /\ Len(s) = Len(p) + Len(q) /\ s # <<>>
  BY <1>1
<1>3. /\ \A i \in 1..Len(p) : s[i] = p[i]
      /\ \A i \in 1..Len(q) : s[Len(p) + i] = q[i]
  BY <1>1
<1> HIDE DEF s
<1>4. \A i \in 1..Len(s) : i \in 1..Len(p) \/ (i - Len(p) \in 1..Len(q) /\ i = Len(p) + (i - Len(p)))
  BY <1>1, <1>2
<1>5. \A i \in 1..Len(p) : p[i].idx = p[1].idx + i - 1
  BY DEF Fits
<1>6. p[1].idx \in Int
  <2>1. p[1] \in Entry
    BY <1>1
  <2> QED BY <2>1, EntryFields
<1>7. \A i \in 1..Len(s) : s[i].idx = s[1].idx + i - 1 /\ \E t \in 0..MaxTerm : Has(H, s[i], t)
  <2> SUFFICES ASSUME NEW i \in 1..Len(s)
               PROVE  s[i].idx = s[1].idx + i - 1 /\ \E t \in 0..MaxTerm : Has(H, s[i], t)
    OBVIOUS
  <2>1. CASE i \in 1..Len(p)
    <3>1. s[i] = p[i] /\ s[1] = p[1]
      BY <2>1, <1>3, <1>1
    <3> QED BY <2>1, <3>1 DEF Fits
  <2>2. CASE i - Len(p) \in 1..Len(q)
    <3> DEFINE j == i - Len(p)
    <3>1. j \in 1..Len(q) /\ i = Len(p) + j /\ j \in Int /\ i \in Int
      BY <2>2, <1>4, <1>1
    <3> HIDE DEF j
    <3>2. s[i] = q[j] /\ q # <<>> /\ s[1] = p[1]
      BY <3>1, <1>3, <1>1
    <3>3. q[j].idx = q[1].idx + j - 1 /\ q[1].idx = p[Len(p)].idx + 1 /\ p[Len(p)].idx = p[1].idx + Len(p) - 1
      BY <3>1, <3>2, <1>5, <1>1 DEF Fits
    <3>4. q[j].idx = p[1].idx + i - 1
      BY <3>1, <3>3, <1>6, <1>1, SMTT(30)
    <3> QED BY <3>1, <3>2, <3>4 DEF Fits
  <2> QED BY <2>1, <2>2, <1>4
<1>8. \A i \in 2..Len(s) : Has(H, s[i], s[i - 1].term)
  <2> SUFFICES ASSUME NEW i \in 2..Len(s) PROVE Has(H, s[i], s[i - 1].term)
    OBVIOUS
  <2>1. CASE i \in 1..Len(p)
    <3>1. i \in 2..Len(p) /\ s[i] = p[i] /\ s[i - 1] = p[i - 1]
      BY <2>1, <1>3, <1>1
    <3> QED BY <3>1 DEF Fits
  <2>2. CASE i = Len(p) + 1
    <3>1. s[i] = q[1] /\ s[i - 1] = p[Len(p)] /\ q # <<>>
      BY <2>2, <1>3, <1>1, <1>2, SMTT(30)
    <3> QED BY <3>1
  <2>3. CASE i > Len(p) + 1
    <3> DEFINE j == i - Len(p)
    <3>1. j \in 2..Len(q) /\ i = Len(p) + j
      BY <2>3, <1>2, <1>1
    <3> HIDE DEF j
    <3>2. s[i] = q[j] /\ s[i - 1] = q[j - 1]
      <4>1. j - 1 \in 1..Len(q) /\ i - 1 = Len(p) + (j - 1) /\ j \in 1..Len(q)
        BY <3>1, <1>1
      <4> QED BY <4>1, <3>1, <1>3
    <3> QED BY <3>1, <3>2 DEF Fits
  <2> QED BY <2>1, <2>2, <2>3, <1>1, <1>2
<1> QED BY <1>2, <1>7, <1>8 DEF Fits, s

LEMMA GetEntriesFits ==
  ASSUME NEW H, NEW q, Fits(q, H), q # <<>>, NEW from \in Int
  PROVE  /\ Fits(GetEntries(q, from), H)
         /\ GetEntries(q, from) # <<>> =>
              /\ from \in FirstIndex(q)..CurrentLogIndex(q)
              /\ GetEntries(q, from)[1] = q[from - FirstIndex(q) + 1]
              /\ GetEntries(q, from)[1].idx = from
              /\ Len(GetEntries(q, from)) = CurrentLogIndex(q) - from + 1
         /\ from \in FirstIndex(q)..CurrentLogIndex(q) => GetEntries(q, from) # <<>>
<1> DEFINE first == FirstIndex(q)
           len == Len(q)
           g == GetEntries(q, from)
           a == from - first + 1
<1>1. first \in Nat \ {0} /\ len \in Nat \ {0} /\ CurrentLogIndex(q) = first + len - 1 /\ first = q[1].idx
  BY CurrentLog
<1>2. CASE from < first
  <2>1. g = <<>>
    BY <1>2 DEF GetEntries
  <2>2. Fits(<<>>, H)
    BY DEF Fits
  <2> HIDE DEF first, g
  <2> QED BY <2>1, <2>2, <1>2, <1>1 DEF first, g
<1>3. CASE from >= first
  <2>1. g = SubSeq(q, a, len)
    <3>1. ~(from < FirstIndex(q))
      BY <1>3, <1>1
    <3> QED BY <3>1 DEF GetEntries
  <2>2. a \in Nat \ {0}
    BY <1>1, <1>3
  <2>3. Fits(g, H) /\ Len(g) = (IF len >= a THEN len - a + 1 ELSE 0)
        /\ \A i \in 1..(len - a + 1) : g[i] = q[a + i - 1]
    <3> HIDE DEF g, a
    <3> QED BY <2>1, <2>2, <1>1, FitsSlice
  <2>4. g \in Seq(Entry)
    BY <2>3 DEF Fits
  <2>5. g # <<>> => len >= a /\ g[1] = q[a]
    <3> HIDE DEF g, a
    <3> QED BY <2>3, <2>4, <1>1, <2>2
  <2>6. g # <<>> => a \in 1..len /\ q[a].idx = q[1].idx + a - 1
    <3> HIDE DEF g
    <3> QED BY <2>5, <2>2, <1>1, SMTT(30) DEF Fits
  <2>7. len >= a => g # <<>>
    <3> HIDE DEF g, a
    <3> QED BY <2>3, <1>1, <2>2, <2>4
  <2>8. g # <<>> => Len(g) = CurrentLogIndex(q) - from + 1 /\ g[1].idx = from /\ from <= CurrentLogIndex(q)
    <3> HIDE DEF g
    <3> SUFFICES ASSUME g # <<>>
                 PROVE  Len(g) = CurrentLogIndex(q) - from + 1 /\ g[1].idx = from /\ from <= CurrentLogIndex(q)
      OBVIOUS
    <3>1. Len(g) = len - a + 1 /\ g[1].idx = q[1].idx + a - 1 /\ a <= len
      BY <1>1, <2>3, <2>5, <2>6
    <3>2. a = from - q[1].idx + 1 /\ q[1].idx \in Int /\ len \in Int /\ CurrentLogIndex(q) = q[1].idx + len - 1
      BY <1>1
    <3> HIDE DEF a, len
    <3> DEFINE b == q[1].idx
               z == CurrentLogIndex(q)
    <3>3. a = from - b + 1 /\ b \in Int /\ len \in Int /\ z = b + len - 1 /\ a <= len /\ from \in Int
      BY <3>1, <3>2
    <3> HIDE DEF b, z
    <3>4. len - a + 1 = z - from + 1 /\ b + a - 1 = from /\ from <= z
      BY <3>3
    <3> QED BY <3>1, <3>4 DEF b, z
  <2>9. from <= CurrentLogIndex(q) => len >= a
    BY <1>1
  <2> HIDE DEF g
  <2> QED BY <1>1, <1>3, <2>3, <2>5, <2>7, <2>8, <2>9 DEF g
<1> QED BY <1>1, <1>2, <1>3

LEMMA FitsMono ==
  ASSUME NEW H, NEW K, H \subseteq K, NEW q, Fits(q, H)
  PROVE  Fits(q, K)
<1>1. \A e, t : Has(H, e, t) => Has(K, e, t)
  BY DEF Has
<1> QED BY <1>1 DEF Fits

LEMMA BytesMono ==
  ASSUME NEW H, NEW K, H \subseteq K, NEW C, NEW D, C \subseteq D
  PROVE  /\ Snap(H, C) \subseteq Snap(K, D)
         /\ Bytes(H, C) \subseteq Bytes(K, D)
         /\ Transmission(H, C) \subseteq Transmission(K, D)
<1>1. Seq(C) \subseteq Seq(D)
  OBVIOUS
<1>2. Snap(H, C) \subseteq Snap(K, D)
  BY <1>1, FitsMono DEF Snap, Traced
<1>3. [snap : Snap(H, C), part : Nat] \subseteq [snap : Snap(K, D), part : Nat]
  BY <1>2
<1>4. Bytes(H, C) \subseteq Bytes(K, D)
  <2> DEFINE P == [snap : Snap(H, C), part : Nat]
             Q == [snap : Snap(K, D), part : Nat]
  <2>1. P \subseteq Q
    BY <1>3
  <2> HIDE DEF P, Q
  <2>2. Seq(P) \subseteq Seq(Q)
    BY <2>1
  <2> QED BY <2>2 DEF Bytes, P, Q
<1>5. Transmission(H, C) \subseteq Transmission(K, D)
  BY <1>4 DEF Transmission
<1> QED BY <1>2, <1>4, <1>5

LEMMA MessageMono ==
  ASSUME NEW H, NEW K, H \subseteq K, NEW C, NEW D, C \subseteq D
  PROVE  Message(H, C) \subseteq Message(K, D) /\ Seq(Message(H, C)) \subseteq Seq(Message(K, D))
<1>1. Regular(H) \subseteq Regular(K)
  <2>1. \A e, t : Has(H, e, t) => Has(K, e, t)
    BY DEF Has
  <2> QED BY <2>1, FitsMono DEF Regular
<1>2. Piece(H, C) \subseteq Piece(K, D)
  BY BytesMono DEF Piece
<1>3. Message(H, C) \subseteq Message(K, D)
  <2> HIDE DEF Hello
  <2> QED BY <1>1, <1>2 DEF Message, Appending
<1> QED BY <1>3

LEMMA NodeOKMono ==
  ASSUME NEW H, NEW K, H \subseteq K, NEW C, NEW D, C \subseteq D,
         NEW n, NEW r, NodeOK(n, r, H, C)
  PROVE  NodeOK(n, r, K, D)
<1>1. Fits(r.log, K)
  BY FitsMono DEF NodeOK
<1>2. r.dump \in Bytes(K, D) /\ r.incoming \in Bytes(K, D) \cup {None}
  BY BytesMono DEF NodeOK
<1>3. r.transmissions \in [Peer(n) -> Transmission(K, D) \cup {None}]
  <2>1. Transmission(H, C) \cup {None} \subseteq Transmission(K, D) \cup {None}
    BY BytesMono
  <2> QED BY <2>1 DEF NodeOK
<1>4. r.out \in [Peer(n) -> Seq(Message(K, D))]
  BY MessageMono DEF NodeOK
<1>5. r.queue \in Seq(Request(D)) /\ r.data \in Seq(D)
  <2>1. Request(C) \subseteq Request(D)
    BY DEF Request
  <2>2. Seq(Request(C)) \subseteq Seq(Request(D)) /\ Seq(C) \subseteq Seq(D)
    BY <2>1
  <2> QED BY <2>2 DEF NodeOK
<1>6. \A i \in DOMAIN r.waitingCommit : r.waitingCommit[i] \in Seq(Waiting(D))
  <2>1. Waiting(C) \subseteq Waiting(D)
    BY DEF Waiting
  <2>2. Seq(Waiting(C)) \subseteq Seq(Waiting(D))
    BY <2>1
  <2> QED BY <2>2 DEF NodeOK
<1>7. Traced(r.data, K) /\ \A i \in DOMAIN r.waitingReply : r.waitingReply[i] \in D
  BY DEF NodeOK, Traced
<1> QED BY <1>1, <1>2, <1>3, <1>4, <1>5, <1>6, <1>7 DEF NodeOK

---------------------------------------------------------------------------
(* Messages.                                                                *)

LEMMA MessageFields ==
  ASSUME NEW H, NEW C, NEW m \in Message(H, C)
  PROVE  /\ m.type = "request_vote" => m.term \in 0..MaxTerm
         /\ m.type = "append_entries" =>
              /\ m.term \in 0..MaxTerm /\ m.commit \in Nat
              /\ m.regular \in Regular(H) \cup {None} /\ m.serialized \in Piece(H, C) \cup {None}
         /\ m.type = "apply_command" => m.cmd \in C /\ m.id \in Nat
         /\ m.type = "apply_command_response" =>
              m.idx \in Nat /\ m.term \in 0..MaxTerm /\ m.error \in {None, "NOT_LEADER"}
         /\ m.type = "next_node_idx" => m.next \in Nat
         /\ m # Hello => m.type \in {"request_vote", "response_vote", "append_entries", "next_node_idx",
                                     "apply_command", "apply_command_response"}
BY DEF Message, Appending, Hello

LEMMA SendNodeGood ==
  ASSUME NEW n \in Node, NEW r, NEW H, NEW C, Good(n, r, H, C), NEW to, NEW m \in Message(H, C)
  PROVE  /\ Good(n, SendNode(r, to, m), H, C) /\ Frame(r, SendNode(r, to, m), {"out"})
         /\ m.type # "apply_command" => Still(n, r, SendNode(r, to, m))
<1> DEFINE s == [r EXCEPT !.out[to] = Append(@, m)]
<1>1. SendNode(r, to, m) = IF r.alive THEN IF to \in DOMAIN r.out THEN s ELSE r ELSE r
  BY DEF SendNode, Then
<1>2. Frame(r, r, {"out"})
  BY DEF Frame, Good, NodeOK
<1>3. CASE to \in DOMAIN r.out
  <2>1. Frame(r, s, {"out"}) /\ s.out = [r.out EXCEPT ![to] = Append(r.out[to], m)]
    BY DEF Frame, Good, NodeOK, Shaped, Fields
  <2>2. s.out \in [Peer(n) -> Seq(Message(H, C))]
    <3>1. r.out \in [Peer(n) -> Seq(Message(H, C))] /\ to \in Peer(n)
      BY <1>3 DEF Good, NodeOK
    <3>2. Append(r.out[to], m) \in Seq(Message(H, C))
      BY <3>1
    <3> HIDE DEF s
    <3> QED BY <3>1, <3>2, <2>1
  <2>3. Good(n, s, H, C)
    <3> HIDE DEF s
    <3> QED BY <2>1, <2>2 DEF Good, NodeOK, Fresh, Frame, Fields
  <2>4. m.type # "apply_command" => Still(n, r, s)
    <3> SUFFICES ASSUME m.type # "apply_command" PROVE Still(n, r, s)
      OBVIOUS
    <3>1. r.out \in [Peer(n) -> Seq(Message(H, C))] /\ to \in Peer(n)
      BY <1>3 DEF Good, NodeOK
    <3>2. SameAsks(r.out[to], Append(r.out[to], m))
      BY <3>1, AsksAppend
    <3> HIDE DEF s
    <3>3. \A p \in Peer(n) : SameAsks(r.out[p], s.out[p])
      BY <2>1, <3>1, <3>2 DEF SameAsks
    <3> QED BY <2>1, <3>3 DEF Still, Frame, Fields
  <2> QED BY <1>1, <1>2, <2>1, <2>3, <2>4, StillSame
<1> QED BY <1>1, <1>2, <1>3, StillSame

LEMMA ApplyCommandGood ==
  ASSUME NEW n \in Node, NEW r, NEW H, NEW C, Good(n, r, H, C),
         NEW cmd \in C, NEW from \in Node \cup {None}, NEW id \in Nat
  PROVE  Good(n, ApplyCommand(r, cmd, from, id), H, C)
<1>1. Shaped(r) /\ r.alive \in BOOLEAN
  BY DEF Good, NodeOK
<1>2. CASE Len(r.queue) < QueueSize
  <2> DEFINE q == [cmd |-> cmd, from |-> from, id |-> id]
             s == [r EXCEPT !.queue = Append(@, q)]
  <2>1. Frame(r, s, {"queue"}) /\ s.queue = Append(r.queue, q)
    BY <1>1 DEF Frame, Shaped, Fields
  <2>2. q \in Request(C)
    BY DEF Request
  <2>3. s.queue \in Seq(Request(C))
    <3> HIDE DEF q, s
    <3> QED BY <2>1, <2>2 DEF Good, NodeOK
  <2>4. Good(n, s, H, C)
    <3> HIDE DEF q, s
    <3> QED BY <2>1, <2>3 DEF Good, NodeOK, Fresh, Frame, Fields
  <2> QED BY <1>2, <2>4 DEF ApplyCommand
<1>3. CASE ~(Len(r.queue) < QueueSize) /\ from = None
  <2>1. Frame(r, Callback(r, cmd, "QUEUE_FULL"), {"calls", "alive"})
        /\ Callback(r, cmd, "QUEUE_FULL").alive = r.alive
    BY <1>1, CallbackFrame DEF Frame, Fields
  <2> QED BY <1>1, <1>3, <2>1, CallsFrameGood DEF ApplyCommand
<1>4. CASE ~(Len(r.queue) < QueueSize) /\ from # None
  <2>1. /\ Frame(r, [r EXCEPT !.alive = FALSE], {"calls", "alive"})
        /\ [r EXCEPT !.alive = FALSE].alive = FALSE
    BY <1>1 DEF Frame, Shaped, Fields
  <2> QED BY <1>4, <2>1, CallsFrameGood DEF ApplyCommand
<1> QED BY <1>2, <1>3, <1>4

---------------------------------------------------------------------------
(* The dump: made of a log, cut off the log, sent in pieces, loaded.        *)

LEMMA RaiseGood ==
  ASSUME NEW n \in Node, NEW r, NEW H, NEW C, Good(n, r, H, C)
  PROVE  /\ Good(n, [r EXCEPT !.alive = FALSE], H, C) /\ [r EXCEPT !.alive = FALSE].alive = FALSE
         /\ Still(n, r, [r EXCEPT !.alive = FALSE])
<1>1. /\ Frame(r, [r EXCEPT !.alive = FALSE], {"calls", "alive"})
      /\ [r EXCEPT !.alive = FALSE].alive = FALSE
  BY DEF Frame, Shaped, Fields, Good, NodeOK
<1>2. Frame(r, [r EXCEPT !.alive = FALSE], {"alive"})
  BY DEF Frame, Shaped, Fields, Good, NodeOK
<1>3. Still(n, r, [r EXCEPT !.alive = FALSE])
  BY <1>1, <1>2, FrameStill DEF QuietFields
<1> QED BY <1>1, <1>3, CallsFrameGood

LEMMA DeleteEntriesToFits ==
  ASSUME NEW H, NEW q, Fits(q, H), q # <<>>, NEW to \in Nat
  PROVE  /\ Fits(DeleteEntriesTo(q, to), H)
         /\ DeleteEntriesTo(q, to) # <<>> => CurrentLogIndex(DeleteEntriesTo(q, to)) = CurrentLogIndex(q)
<1> DEFINE first == FirstIndex(q)
           len == Len(q)
           d == DeleteEntriesTo(q, to)
           a == to - first + 1
<1>1. first \in Nat \ {0} /\ len \in Nat \ {0}
  BY CurrentLog
<1>2. CASE to < first
  BY <1>2 DEF DeleteEntriesTo
<1>3. CASE ~(to < first)
  <2>1. d = SubSeq(q, a, len)
    BY <1>3 DEF DeleteEntriesTo
  <2>2. a \in Nat \ {0}
    BY <1>1, <1>3
  <2> HIDE DEF d, a
  <2>3. Fits(d, H) /\ Len(d) = (IF len >= a THEN len - a + 1 ELSE 0)
        /\ \A i \in 1..(len - a + 1) : d[i] = q[a + i - 1]
    BY <2>1, <2>2, <1>1, FitsSlice
  <2>4. ASSUME d # <<>> PROVE CurrentLogIndex(d) = CurrentLogIndex(q)
    <3>1. d \in Seq(Entry) /\ Len(d) \in Nat \ {0}
      BY <2>3, <2>4, CurrentLog DEF Fits
    <3>2. Len(d) = len - a + 1 /\ len >= a
      BY <2>3, <3>1
    <3>3. Len(d) \in 1..(len - a + 1) /\ a + Len(d) - 1 = len
      BY <3>1, <3>2, <1>1, <2>2
    <3>4. d[Len(d)] = q[Len(q)]
      BY <2>3, <3>3
    <3> QED BY <3>4, <2>3, <2>4, CurrentLog
  <2> QED BY <2>3, <2>4 DEF d
<1> QED BY <1>2, <1>3

LEMMA DeleteEntriesFromFits ==
  ASSUME NEW H, NEW q, Fits(q, H), q # <<>>, NEW from \in Nat, from <= CurrentLogIndex(q) + 1
  PROVE  /\ Fits(DeleteEntriesFrom(q, from), H)
         /\ from > FirstIndex(q) =>
              /\ DeleteEntriesFrom(q, from) # <<>>
              /\ Len(DeleteEntriesFrom(q, from)) = from - FirstIndex(q)
              /\ DeleteEntriesFrom(q, from)[from - FirstIndex(q)] = q[from - FirstIndex(q)]
<1> DEFINE first == FirstIndex(q)
           len == Len(q)
           d == DeleteEntriesFrom(q, from)
           b == from - first
<1>1. first \in Nat \ {0} /\ len \in Nat \ {0} /\ CurrentLogIndex(q) = first + len - 1
  BY CurrentLog
<1>2. CASE from < first
  BY <1>2, <1>1 DEF DeleteEntriesFrom
<1>3. CASE ~(from < first)
  <2>1. d = SubSeq(q, 1, b)
    BY <1>3 DEF DeleteEntriesFrom
  <2>2. b \in Int /\ b <= len /\ b >= 0
    BY <1>1, <1>3
  <2>3. from > first => b >= 1
    BY <1>1
  <2> HIDE DEF d, b
  <2>4. Fits(d, H) /\ Len(d) = (IF b >= 1 THEN b - 1 + 1 ELSE 0)
        /\ \A i \in 1..(b - 1 + 1) : d[i] = q[1 + i - 1]
    BY <2>1, <2>2, <1>1, FitsSlice
  <2>5. ASSUME b >= 1 PROVE Len(d) = b /\ d[b] = q[b]
    <3>1. b \in 1..(b - 1 + 1) /\ 1 + b - 1 = b /\ b - 1 + 1 = b
      BY <2>2, <2>5
    <3> QED BY <3>1, <2>4, <2>5
  <2>6. b >= 1 => d # <<>>
    <3>1. b >= 1 => Len(d) # 0
      BY <2>5, <2>2
    <3> QED BY <3>1
  <2> QED BY <2>3, <2>4, <2>5, <2>6 DEF d, b
<1> QED BY <1>2, <1>3

LEMMA SerializedBytes ==
  ASSUME NEW H, NEW C, NEW snap \in Snap(H, C)
  PROVE  Serialized(snap) \in Bytes(H, C)
<1>1. Pieces \in Nat
  BY SizeAssumption
<1>2. \A k \in 1..Pieces : [snap |-> snap, part |-> k] \in [snap : Snap(H, C), part : Nat]
  BY <1>1
<1> DEFINE P == [snap : Snap(H, C), part : Nat]
           x(k) == [snap |-> snap, part |-> k]
<1>3. \A k \in 1..Pieces : x(k) \in P
  BY <1>2
<1> HIDE DEF P, x
<1>4. [k \in 1..Pieces |-> x(k)] \in Seq(P)
  BY <1>1, <1>3
<1> QED BY <1>4 DEF Serialized, Bytes, P, x

LEMMA DumpAppliedGood ==
  ASSUME NEW n \in Node, NEW r, NEW H, NEW C, Good(n, r, H, C), r.alive, r.log # <<>>
  PROVE  Good(n, DumpApplied(r), H, C) /\ Still(n, r, DumpApplied(r))
<1> DEFINE last == GetEntries(r.log, r.applied - 1)
           snap == [data |-> r.data, last |-> last[2], prev |-> last[1]]
           s == Serialize(r, snap)
<1>1. r.applied \in Nat \ {0} /\ r.applied - 1 \in Int /\ Fits(r.log, H) /\ Shaped(r)
  BY DEF Good, NodeOK
<1>2. Fits(last, H) /\ (last # <<>> => last[1].idx = r.applied - 1)
  BY <1>1, GetEntriesFits
<1>3. CASE last = <<>>
  BY <1>3, StillSame DEF DumpApplied
<1>4. CASE last # <<>> /\ Len(last) = 1
  BY <1>4, RaiseGood DEF DumpApplied
<1>5. CASE last # <<>> /\ Len(last) # 1
  <2> HIDE DEF last
  <2>1. last \in Seq(Entry) /\ Len(last) \in Nat /\ Len(last) >= 2
    <3>1. last \in Seq(Entry)
      BY <1>2 DEF Fits
    <3>2. Len(last) \in Nat /\ Len(last) # 0
      BY <3>1, <1>5
    <3>3. Len(last) # 1
      BY <1>5
    <3>4. Len(last) >= 2
      BY <3>2, <3>3
    <3> QED BY <3>1, <3>2, <3>4
  <2>2. last[1] \in Entry /\ last[2] \in Entry
    BY <2>1
  <2>3. last[2].idx = last[1].idx + 1
    <3>1. 2 \in 1..Len(last)
      BY <2>1
    <3>2. last[2].idx = last[1].idx + 2 - 1
      BY <3>1, <1>2 DEF Fits
    <3> QED BY <3>2, <2>2, EntryFields
  <2>4. \E t \in 0..MaxTerm : Has(H, last[1], t)
    BY <2>1, <1>2, 1 \in 1..Len(last) DEF Fits
  <2>5. Has(H, last[2], last[1].term) /\ last[1].term \in 0..MaxTerm
    BY <2>1, <1>2, <2>2, 2 \in 2..Len(last), EntryFields DEF Fits
  <2>6. Fits(<<last[1], last[2]>>, H)
    <3> DEFINE x == last[1]
               y == last[2]
    <3>1. /\ x \in Entry /\ y \in Entry /\ y.idx = x.idx + 1 /\ x.idx \in Int
          /\ (\E t \in 0..MaxTerm : Has(H, x, t)) /\ Has(H, y, x.term) /\ x.term \in 0..MaxTerm
      BY <2>2, <2>3, <2>4, <2>5, EntryFields
    <3> HIDE DEF x, y
    <3>2. /\ <<x, y>> \in Seq(Entry) /\ Len(<<x, y>>) = 2 /\ <<x, y>>[1] = x /\ <<x, y>>[2] = y
      BY <3>1
    <3>3. \A i \in 1..2 : i = 1 \/ i = 2
      OBVIOUS
    <3>4. \A i \in 2..2 : i = 2 /\ i - 1 = 1
      OBVIOUS
    <3> QED BY <3>1, <3>2, <3>3, <3>4 DEF Fits, x, y
  <2>7. last[2].idx = r.applied
    BY <2>3, <1>1, <1>2, <1>5
  <2>8. r.data \in Seq(C) /\ Len(r.data) = r.applied - 1 /\ Traced(r.data, H)
    BY DEF Good, NodeOK
  <2>9. snap \in Snap(H, C)
    <3>1. snap \in [data : Seq(C), last : Entry, prev : Entry]
      BY <2>2, <2>8
    <3>2. Fits(<<snap.prev, snap.last>>, H) /\ Traced(snap.data, H) /\ Len(snap.data) = snap.last.idx - 1
      BY <2>6, <2>7, <2>8
    <3> QED BY <3>1, <3>2 DEF Snap
  <2>10. snap.last.idx = r.applied /\ r.applied \in Nat
    BY <2>7, <1>1
  <2> HIDE DEF snap
  <2>11. /\ Frame(r, s, {"dump", "dumpId", "dumping"})
         /\ s.dump = Serialized(snap) /\ s.dumpId = snap.last.idx /\ s.dumping = TRUE
    BY <1>1 DEF Frame, Shaped, Fields, Serialize
  <2> HIDE DEF s
  <2>12. Good(n, s, H, C)
    <3>1. s.dump \in Bytes(H, C) /\ s.dumpId \in Nat /\ s.dumping \in BOOLEAN
      BY <2>9, <2>10, <2>11, SerializedBytes
    <3> QED BY <2>11, <3>1, ZenonT(60) DEF Good, NodeOK, Fresh, Frame, Fields
  <2>13. Still(n, r, s)
    BY <2>11, FrameStill DEF Frame, Fields, QuietFields
  <2> QED BY <1>5, <2>12, <2>13 DEF DumpApplied, s, snap, last
<1> QED BY <1>3, <1>4, <1>5

LEMMA TryLogCompactionGood ==
  ASSUME NEW n \in Node, NEW r, NEW H, NEW C, Good(n, r, H, C), NEW compact \in BOOLEAN
  PROVE  /\ Good(n, TryLogCompaction(r, compact), H, C)
         /\ TryLogCompaction(r, compact).dumping /\ ~r.dumping => compact
         /\ Still(n, r, TryLogCompaction(r, compact))
<1>1. Shaped(r) /\ r.alive \in BOOLEAN /\ r.dumping \in BOOLEAN
  BY DEF Good, NodeOK
<1>2. CASE r.dumping
  <2> DEFINE c == CheckSerializing(r)
             d == CutLog(c)
  <2>1. /\ Frame(r, c, {"dumping", "transmissions"}) /\ c.dumping = FALSE
        /\ c.transmissions = [p \in DOMAIN r.transmissions |-> None]
    BY <1>1 DEF Frame, Shaped, Fields, CheckSerializing
  <2>2. c.transmissions \in [Peer(n) -> Transmission(H, C) \cup {None}]
    <3>1. DOMAIN r.transmissions = Peer(n)
      BY DEF Good, NodeOK
    <3> HIDE DEF c
    <3> QED BY <2>1, <3>1
  <2> HIDE DEF c
  <2>3. Good(n, c, H, C)
    BY <2>1, <2>2 DEF Good, NodeOK, Fresh, Frame, Fields
  <2>6. Still(n, r, c)
    BY <2>1, FrameStill DEF Frame, Fields, QuietFields
  <2>4. TryLogCompaction(r, compact) =
          IF c.alive THEN IF c.log = <<>> THEN [c EXCEPT !.alive = FALSE] ELSE d ELSE c
    BY <1>2 DEF TryLogCompaction, Indexed, Then, c
  <2>5. ASSUME c.log # <<>> PROVE Good(n, d, H, C) /\ Still(n, c, d)
    <3>1. Frame(c, d, {"log"}) /\ d.log = DeleteEntriesTo(c.log, c.dumpId)
      BY <2>3 DEF Frame, Shaped, Fields, CutLog, Good, NodeOK
    <3>2. Fits(d.log, H) /\ (d.log # <<>> => CurrentLogIndex(d.log) = CurrentLogIndex(c.log))
      BY <3>1, <2>3, <2>5, DeleteEntriesToFits DEF Good, NodeOK
    <3> HIDE DEF d
    <3>3. Still(n, c, d)
      BY <3>1, FrameStill DEF Frame, Fields, QuietFields
    <3> QED BY <2>3, <2>5, <3>1, <3>2, <3>3 DEF Good, NodeOK, Fresh, Frame, Fields
  <2> HIDE DEF d
  <2> QED BY <1>2, <2>3, <2>4, <2>5, <2>6, RaiseGood, StillTrans
<1>3. CASE ~r.dumping /\ compact
  <2>1. TryLogCompaction(r, compact) =
          IF r.alive THEN IF r.log = <<>> THEN [r EXCEPT !.alive = FALSE] ELSE DumpApplied(r) ELSE r
    BY <1>3 DEF TryLogCompaction, Indexed, Then
  <2>2. Good(n, TryLogCompaction(r, compact), H, C) /\ Still(n, r, TryLogCompaction(r, compact))
    BY <2>1, RaiseGood, DumpAppliedGood, StillSame
  <2> QED BY <1>3, <2>2
<1>4. CASE ~r.dumping /\ ~compact
  BY <1>4, StillSame DEF TryLogCompaction
<1> QED BY <1>1, <1>2, <1>3, <1>4

LEMMA SetTransmissionDataGood ==
  ASSUME NEW n \in Node, NEW r, NEW H, NEW C, Good(n, r, H, C), NEW piece \in Piece(H, C)
  PROVE  /\ Good(n, SetTransmissionData(r, piece), H, C)
         /\ Frame(r, SetTransmissionData(r, piece), {"incoming", "dump"})
<1> DEFINE incoming == IF piece.first THEN piece.bytes ELSE r.incoming \o piece.bytes
           s == [r EXCEPT !.incoming = None, !.dump = incoming]
           t == [r EXCEPT !.incoming = incoming]
<1>1. piece.bytes \in Bytes(H, C) /\ piece.first \in BOOLEAN /\ piece.last \in BOOLEAN
  BY DEF Piece
<1>2. Shaped(r) /\ r.incoming \in Bytes(H, C) \cup {None}
  BY DEF Good, NodeOK
<1>3. CASE ~piece.first /\ r.incoming = None
  <2>1. SetTransmissionData(r, piece) = r
    BY <1>3 DEF SetTransmissionData
  <2> QED BY <1>2, <2>1 DEF Frame
<1>4. CASE ~(~piece.first /\ r.incoming = None)
  <2>1. incoming \in Bytes(H, C)
    <3>1. ASSUME NEW x \in Bytes(H, C), NEW y \in Bytes(H, C) PROVE x \o y \in Bytes(H, C)
      <4> DEFINE P == [snap : Snap(H, C), part : Nat]
      <4>1. x \in Seq(P) /\ y \in Seq(P)
        BY DEF Bytes
      <4> HIDE DEF P
      <4>2. x \o y \in Seq(P)
        BY <4>1
      <4> QED BY <4>2 DEF P, Bytes
    <3>2. CASE piece.first
      BY <3>2, <1>1
    <3>3. CASE ~piece.first
      BY <3>3, <3>1, <1>1, <1>2, <1>4
    <3> QED BY <3>2, <3>3
  <2> HIDE DEF incoming
  <2>2. Frame(r, s, {"incoming", "dump"}) /\ s.incoming = None /\ s.dump = incoming
    BY <1>2 DEF Frame, Shaped, Fields
  <2>3. Frame(r, t, {"incoming", "dump"}) /\ t.incoming = incoming /\ t.dump = r.dump
    BY <1>2 DEF Frame, Shaped, Fields
  <2> HIDE DEF s, t
  <2>4. Good(n, s, H, C)
    BY <2>1, <2>2 DEF Good, NodeOK, Fresh, Frame, Fields
  <2>5. Good(n, t, H, C)
    BY <2>1, <2>3 DEF Good, NodeOK, Fresh, Frame, Fields
  <2>6. SetTransmissionData(r, piece) = IF piece.last THEN s ELSE t
    BY <1>1, <1>4 DEF SetTransmissionData, s, t, incoming
  <2> QED BY <2>2, <2>3, <2>4, <2>5, <2>6
<1> QED BY <1>3, <1>4

LEMMA LoadDumpFileGood ==
  ASSUME NEW n \in Node, NEW r, NEW H, NEW C, Good(n, r, H, C), r.state = "FOLLOWER"
  PROVE  Good(n, LoadDumpFile(r), H, C) /\ Still(n, r, LoadDumpFile(r))
<1> DEFINE snap == Head(r.dump).snap
           s == [r EXCEPT !.data = snap.data, !.log = <<snap.prev, snap.last>>, !.applied = snap.last.idx]
<1>1. CASE r.dump # <<>>
  <2>1. snap \in Snap(H, C)
    <3> DEFINE P == [snap : Snap(H, C), part : Nat]
    <3>1. r.dump \in Seq(P)
      BY DEF Good, NodeOK, Bytes
    <3> HIDE DEF P
    <3>2. Head(r.dump) \in P
      BY <1>1, <3>1
    <3> QED BY <3>2 DEF P
  <2> HIDE DEF snap
  <2>2. /\ snap.data \in Seq(C) /\ snap.last \in Entry
        /\ Fits(<<snap.prev, snap.last>>, H) /\ Traced(snap.data, H) /\ Len(snap.data) = snap.last.idx - 1
    BY <2>1 DEF Snap
  <2>3. snap.last.idx \in Nat \ {0}
    BY <2>2, EntryFields
  <2>4. /\ Frame(r, s, {"data", "log", "applied"}) /\ s.data = snap.data
        /\ s.log = <<snap.prev, snap.last>> /\ s.applied = snap.last.idx
    BY DEF Frame, Shaped, Fields, Good, NodeOK
  <2> HIDE DEF s
  <2>5. Good(n, s, H, C)
    <3>1. s.data \in Seq(C) /\ Traced(s.data, H) /\ Fits(s.log, H) /\ s.applied \in Nat \ {0} /\ Len(s.data) = s.applied - 1
      BY <2>2, <2>3, <2>4
    <3> QED BY <2>4, <3>1 DEF Good, NodeOK, Fresh, Frame, Fields
  <2>6. Still(n, r, s)
    BY <2>4, FrameStill DEF Frame, Fields, QuietFields
  <2> QED BY <2>5, <2>6, StillSame DEF LoadDumpFile, s, snap
<1>2. CASE r.dump = <<>>
  BY <1>2, StillSame DEF LoadDumpFile
<1> QED BY <1>1, <1>2

LEMMA InstallSnapshotGood ==
  ASSUME NEW n \in Node, NEW r, NEW H, NEW C, Good(n, r, H, C), r.state = "FOLLOWER",
         NEW piece \in Piece(H, C)
  PROVE  Good(n, InstallSnapshot(r, piece), H, C) /\ Still(n, r, InstallSnapshot(r, piece))
<1> DEFINE t == SetTransmissionData(r, piece)
<1>1. Good(n, t, H, C) /\ t.state = "FOLLOWER"
  BY SetTransmissionDataGood DEF Frame, Fields
<1>3. Still(n, r, t)
  <2>1. Frame(r, t, {"incoming", "dump"})
    BY SetTransmissionDataGood
  <2> HIDE DEF t
  <2> QED BY <2>1, FrameStill DEF Frame, Fields, QuietFields
<1>2. InstallSnapshot(r, piece) =
        IF t.alive THEN IF piece.last /\ r.incoming # None THEN LoadDumpFile(t) ELSE t ELSE t
  BY DEF InstallSnapshot, Then
<1> HIDE DEF t
<1> QED BY <1>1, <1>2, <1>3, LoadDumpFileGood, StillTrans

---------------------------------------------------------------------------
(* append_entries: what is sent of the log and of the dump.                 *)

LEMMA EntriesMessageOK ==
  ASSUME NEW n \in Node, NEW r, NEW H, NEW C, Good(n, r, H, C), r.log # <<>>, NEW next \in Nat
  PROVE  EntriesMessage(r, next) \in Appending(H, C)
<1> DEFINE log == r.log
           before == GetEntries(log, next - 1)
           entries == GetEntries(log, next)
           prev == PrevLogIndexTerm(log, next)
           g == [prev |-> prev, entries |-> entries]
<1>1. Fits(log, H) /\ log # <<>> /\ r.term \in 0..MaxTerm /\ r.commit \in Nat /\ next - 1 \in Int
  BY DEF Good, NodeOK
<1> HIDE DEF log
<1>2. FirstIndex(log) \in Nat \ {0} /\ Len(log) \in Nat \ {0} /\ CurrentLogIndex(log) = FirstIndex(log) + Len(log) - 1
  BY <1>1, CurrentLog
<1>3. Fits(before, H) /\ (before # <<>> => next - 1 \in FirstIndex(log)..CurrentLogIndex(log)
                                            /\ before[1] = log[next - 1 - FirstIndex(log) + 1])
  BY <1>1, GetEntriesFits
<1>4. Fits(entries, H) /\ (entries # <<>> => next \in FirstIndex(log)..CurrentLogIndex(log)
                              /\ entries[1] = log[next - FirstIndex(log) + 1] /\ entries[1].idx = next)
  BY <1>1, GetEntriesFits
<1>5. before # <<>> => Head(before) = before[1] /\ before[1] \in Entry
  BY <1>3, CurrentLog DEF Fits
<1>6. before = <<>> => prev = [idx |-> 0, term |-> 0]
  BY DEF PrevLogIndexTerm
<1>7. before # <<>> => prev = [idx |-> next - 1, term |-> before[1].term]
  BY <1>5 DEF PrevLogIndexTerm
<1> HIDE DEF before, entries, prev
<1>8. prev \in [idx : Nat, term : 0..MaxTerm]
  <2>1. CASE before = <<>>
    BY <2>1, <1>6, BoundAssumption
  <2>2. CASE before # <<>>
    <3>1. next - 1 \in Nat /\ before[1].term \in 0..MaxTerm
      BY <2>2, <1>2, <1>3, <1>5, EntryFields
    <3> QED BY <2>2, <3>1, <1>7
  <2> QED BY <2>1, <2>2
<1>9. entries # <<>> /\ prev.idx # 0 => entries[1].idx = prev.idx + 1 /\ Has(H, entries[1], prev.term)
  <2> SUFFICES ASSUME entries # <<>>, prev.idx # 0
               PROVE  entries[1].idx = prev.idx + 1 /\ Has(H, entries[1], prev.term)
    OBVIOUS
  <2>1. before # <<>>
    BY <1>6
  <2>2. prev.idx = next - 1 /\ prev.term = before[1].term
    BY <1>7, <2>1
  <2> DEFINE i == next - FirstIndex(log) + 1
  <2>3. i \in 2..Len(log) /\ i - 1 = next - 1 - FirstIndex(log) + 1
    BY <2>1, <1>2, <1>3, <1>4
  <2>4. entries[1] = log[i] /\ before[1] = log[i - 1]
    BY <2>1, <2>3, <1>3, <1>4
  <2> HIDE DEF i
  <2>5. Has(H, log[i], log[i - 1].term)
    BY <2>3, <1>1 DEF Fits
  <2> QED BY <2>2, <2>4, <2>5, <1>4
<1>10. g \in Regular(H)
  <2>1. entries \in Seq(Entry)
    BY <1>4 DEF Fits
  <2>2. g \in [prev : [idx : Nat, term : 0..MaxTerm], entries : Seq(Entry)]
    BY <2>1, <1>8
  <2>3. g.prev = prev /\ g.entries = entries
    OBVIOUS
  <2> HIDE DEF g
  <2> QED BY <2>2, <2>3, <1>4, <1>9 DEF Regular
<1>11. EntriesMessage(r, next) = [type |-> "append_entries", term |-> r.term, commit |-> r.commit,
                                  regular |-> g, serialized |-> None]
  BY DEF EntriesMessage, AppendEntries, prev, entries, log
<1> HIDE DEF g
<1> QED BY <1>1, <1>10, <1>11 DEF Appending

LEMMA PieceMessageOK ==
  ASSUME NEW n \in Node, NEW r, NEW H, NEW C, Good(n, r, H, C),
         NEW bytes \in Bytes(H, C), NEW k \in 0..Len(bytes)
  PROVE  PieceMessage(r, bytes, k) \in Appending(H, C)
<1> DEFINE b == IF k < Len(bytes) THEN <<bytes[k + 1]>> ELSE <<>>
           x == [bytes |-> b, first |-> k = 0, last |-> k = Len(bytes)]
<1>1. r.term \in 0..MaxTerm /\ r.commit \in Nat
  BY DEF Good, NodeOK
<1>2. b \in Bytes(H, C)
  <2> DEFINE P == [snap : Snap(H, C), part : Nat]
  <2>1. bytes \in Seq(P)
    BY DEF Bytes
  <2> HIDE DEF P
  <2>2. b \in Seq(P)
    <3>1. k \in Nat /\ Len(bytes) \in Nat
      BY <2>1
    <3>2. CASE k < Len(bytes)
      <4>1. bytes[k + 1] \in P
        BY <2>1, <3>1, <3>2
      <4> QED BY <3>2, <4>1
    <3>3. CASE ~(k < Len(bytes))
      BY <3>3
    <3> QED BY <3>2, <3>3
  <2> QED BY <2>2 DEF P, Bytes
<1> HIDE DEF b
<1>3. x \in Piece(H, C)
  BY <1>2 DEF Piece
<1>4. PieceMessage(r, bytes, k) = [type |-> "append_entries", term |-> r.term, commit |-> r.commit,
                                   regular |-> None, serialized |-> x]
  BY DEF PieceMessage, AppendEntries, b
<1> HIDE DEF x
<1> QED BY <1>1, <1>3, <1>4 DEF Appending

LEMMA AppendToOK ==
  ASSUME NEW n \in Node, NEW r, NEW H, NEW C, Good(n, r, H, C), r.log # <<>>,
         NEW p \in Peer(n), NEW slow \in BOOLEAN
  PROVE  /\ AppendTo(r, p, slow).msgs \in Seq(Appending(H, C))
         /\ AppendTo(r, p, slow).next \in Nat
         /\ AppendTo(r, p, slow).left \in Transmission(H, C) \cup {None}
<1> DEFINE next == r.next[p]
           first == FirstIndex(r.log)
           end == CurrentLogIndex(r.log) + 1
           t == IF r.transmissions[p] = None THEN [bytes |-> r.dump, sent |-> 0] ELSE r.transmissions[p]
           size == Len(t.bytes)
           nothing == r.dumping \/ t.bytes = <<>>
           a == AppendTo(r, p, slow)
           Msg == Appending(H, C)
<1>1. next \in Nat /\ r.transmissions[p] \in Transmission(H, C) \cup {None} /\ r.dump \in Bytes(H, C)
      /\ Fits(r.log, H) /\ r.dumping \in BOOLEAN
  BY DEF Good, NodeOK
<1>2. first \in Nat /\ end \in Nat
  BY <1>1, CurrentLog
<1>3. t \in Transmission(H, C)
  <2>1. CASE r.transmissions[p] = None
    <3>1. [bytes |-> r.dump, sent |-> 0] \in [bytes : Bytes(H, C), sent : Nat]
      BY <1>1
    <3>2. 0 <= Len(r.dump)
      <4> DEFINE P == [snap : Snap(H, C), part : Nat]
      <4>1. r.dump \in Seq(P)
        BY <1>1 DEF Bytes
      <4> HIDE DEF P
      <4> QED BY <4>1
    <3> QED BY <2>1, <3>1, <3>2 DEF Transmission
  <2>2. CASE r.transmissions[p] # None
    BY <2>2, <1>1
  <2> QED BY <2>1, <2>2
<1>4. AppendTo(r, p, slow) =
        CASE next >= first ->
               [msgs |-> <<EntriesMessage(r, next)>>, next |-> IF next < end THEN end ELSE next,
                left |-> r.transmissions[p]]
          [] next < first /\ nothing ->
               [msgs |-> <<AppendEntries(r, None, None)>>, next |-> next, left |-> r.transmissions[p]]
          [] next < first /\ ~nothing /\ slow ->
               [msgs |-> <<PieceMessage(r, t.bytes, t.sent)>>, next |-> IF t.sent = size THEN first ELSE next,
                left |-> IF t.sent = size THEN None ELSE [t EXCEPT !.sent = @ + 1]]
          [] OTHER ->
               [msgs |-> [i \in 1..(size - t.sent + 1) |-> PieceMessage(r, t.bytes, t.sent + i - 1)]
                           \o <<EntriesMessage(r, first)>>,
                next |-> end, left |-> None]
  BY DEF AppendTo
<1>5. EntriesMessage(r, next) \in Msg /\ EntriesMessage(r, first) \in Msg
  BY <1>1, <1>2, EntriesMessageOK
<1>6. t.bytes \in Bytes(H, C) /\ t.sent \in 0..size /\ size \in Nat
  <2>1. t.bytes \in Bytes(H, C) /\ t.sent \in Nat /\ t.sent <= Len(t.bytes)
    <3> HIDE DEF t
    <3> QED BY <1>3 DEF Transmission
  <2>2. Len(t.bytes) \in Nat
    <3> DEFINE P == [snap : Snap(H, C), part : Nat]
    <3> HIDE DEF t
    <3>1. t.bytes \in Seq(P)
      BY <2>1 DEF Bytes
    <3> HIDE DEF P
    <3> QED BY <3>1
  <2> HIDE DEF t
  <2> QED BY <2>1, <2>2
<1>7. \A k \in 0..size : PieceMessage(r, t.bytes, k) \in Msg
  <2> HIDE DEF t
  <2> QED BY <1>6, PieceMessageOK
<1>8. AppendEntries(r, None, None) \in Msg
  BY DEF AppendEntries, Appending, Good, NodeOK
<1> HIDE DEF next, first, end, t, nothing, Msg
<1>9. CASE next >= first
  BY <1>1, <1>2, <1>4, <1>5, <1>9 DEF Msg
<1>10. CASE next < first /\ nothing
  BY <1>1, <1>2, <1>4, <1>8, <1>10 DEF Msg
<1>11. CASE next < first /\ ~nothing /\ slow
  <2>1. a = [msgs |-> <<PieceMessage(r, t.bytes, t.sent)>>, next |-> IF t.sent = size THEN first ELSE next,
             left |-> IF t.sent = size THEN None ELSE [t EXCEPT !.sent = @ + 1]]
    BY <1>1, <1>2, <1>4, <1>11
  <2>2. PieceMessage(r, t.bytes, t.sent) \in Msg
    BY <1>6, <1>7
  <2>3. t.sent # size => [t EXCEPT !.sent = @ + 1] \in Transmission(H, C)
    <3> SUFFICES ASSUME t.sent # size PROVE [t EXCEPT !.sent = @ + 1] \in Transmission(H, C)
      OBVIOUS
    <3>1. [t EXCEPT !.sent = @ + 1] = [bytes |-> t.bytes, sent |-> t.sent + 1]
      BY <1>3 DEF Transmission
    <3>2. t.sent + 1 \in Nat /\ t.sent + 1 <= Len(t.bytes)
      BY <1>6
    <3> QED BY <1>6, <3>1, <3>2 DEF Transmission
  <2> QED BY <1>1, <1>2, <2>1, <2>2, <2>3 DEF Msg
<1>12. CASE next < first /\ ~nothing /\ ~slow
  <2> DEFINE x(i) == PieceMessage(r, t.bytes, t.sent + i - 1)
             q == [i \in 1..(size - t.sent + 1) |-> x(i)]
  <2>1. a = [msgs |-> q \o <<EntriesMessage(r, first)>>, next |-> end, left |-> None]
    BY <1>1, <1>2, <1>4, <1>12
  <2>2. size - t.sent + 1 \in Nat /\ \A i \in 1..(size - t.sent + 1) : t.sent + i - 1 \in 0..size
    BY <1>6
  <2>3. \A i \in 1..(size - t.sent + 1) : x(i) \in Msg
    BY <1>7, <2>2
  <2> HIDE DEF x
  <2>4. q \in Seq(Msg)
    BY <2>2, <2>3
  <2> HIDE DEF q
  <2>5. q \o <<EntriesMessage(r, first)>> \in Seq(Msg)
    BY <1>5, <2>4
  <2> QED BY <1>2, <2>1, <2>5 DEF Msg
<1> QED BY <1>1, <1>2, <1>9, <1>10, <1>11, <1>12

LEMMA SendAppendEntriesGood ==
  ASSUME NEW n \in Node, NEW r, NEW H, NEW C, Good(n, r, H, C), r.log # <<>>, NEW slow \in BOOLEAN
  PROVE  /\ Good(n, SendAppendEntries(n, r, slow), H, C)
         /\ Frame(r, SendAppendEntries(n, r, slow), {"out", "next", "transmissions"})
         /\ Still(n, r, SendAppendEntries(n, r, slow))
<1> DEFINE to == [p \in Peer(n) |-> AppendTo(r, p, slow)]
           s == SendTo(n, r, to)
<1>1. SendAppendEntries(n, r, slow) = IF r.alive THEN s ELSE r
  BY DEF SendAppendEntries, Then
<1>2. \A p \in Peer(n) : /\ to[p].msgs \in Seq(Appending(H, C)) /\ to[p].next \in Nat
                         /\ to[p].left \in Transmission(H, C) \cup {None}
  BY AppendToOK
<1> HIDE DEF to
<1>3. /\ Frame(r, s, {"out", "next", "transmissions"})
      /\ s.out = [p \in Peer(n) |-> IF IsConnected(n, p) THEN r.out[p] \o to[p].msgs ELSE r.out[p]]
      /\ s.next = [p \in Peer(n) |-> IF IsConnected(n, p) THEN to[p].next ELSE r.next[p]]
      /\ s.transmissions = [p \in Peer(n) |-> IF IsConnected(n, p) THEN to[p].left ELSE None]
  BY DEF Frame, Shaped, Fields, SendTo, Good, NodeOK
<1> HIDE DEF s
<1>4. s.out \in [Peer(n) -> Seq(Message(H, C))]
  <2>1. \A p \in Peer(n) : r.out[p] \in Seq(Message(H, C)) /\ r.out[p] \o to[p].msgs \in Seq(Message(H, C))
    <3>1. Appending(H, C) \subseteq Message(H, C)
      BY DEF Message
    <3> QED BY <1>2, <3>1 DEF Good, NodeOK
  <2> QED BY <2>1, <1>3
<1>5. s.next \in [Peer(n) -> Nat]
  <2>1. \A p \in Peer(n) : r.next[p] \in Nat
    BY DEF Good, NodeOK
  <2> QED BY <2>1, <1>2, <1>3
<1>6. s.transmissions \in [Peer(n) -> Transmission(H, C) \cup {None}]
  BY <1>2, <1>3
<1>7. Good(n, s, H, C)
  BY <1>3, <1>4, <1>5, <1>6 DEF Good, NodeOK, Fresh, Frame, Fields
<1>8. Frame(r, r, {"out", "next", "transmissions"})
  BY DEF Frame, Good, NodeOK
<1>9. Still(n, r, s)
  <2>1. \A p \in Peer(n) : SameAsks(r.out[p], r.out[p] \o to[p].msgs)
    <3> SUFFICES ASSUME NEW p \in Peer(n) PROVE SameAsks(r.out[p], r.out[p] \o to[p].msgs)
      OBVIOUS
    <3> DEFINE M == Message(H, C)
               u == to[p].msgs
    <3>1. r.out[p] \in Seq(M) /\ u \in Seq(Appending(H, C))
      BY <1>2 DEF Good, NodeOK
    <3>2. Appending(H, C) \subseteq M /\ \A m \in Appending(H, C) : m.type # "apply_command"
      BY DEF Message, Appending
    <3> HIDE DEF M, u
    <3>3. u \in Seq(M) /\ \A i \in 1..Len(u) : u[i].type # "apply_command"
      BY <3>1, <3>2
    <3> QED BY <3>1, <3>3, AsksConcat DEF u
  <2>2. \A p \in Peer(n) : SameAsks(r.out[p], r.out[p])
    BY DEF SameAsks
  <2>3. \A p \in Peer(n) : s.out[p] = r.out[p] \o to[p].msgs \/ s.out[p] = r.out[p]
    BY <1>3
  <2>4. \A p \in Peer(n) : SameAsks(r.out[p], s.out[p])
    BY <2>1, <2>2, <2>3
  <2> QED BY <1>3, <2>4 DEF Still, Frame, Fields
<1> QED BY <1>1, <1>3, <1>7, <1>8, <1>9, StillSame

---------------------------------------------------------------------------
(* The phases of a tick.                                                    *)

LEMMA LeastNat ==
  ASSUME NEW T, T \subseteq Nat, T # {}
  PROVE  \E x \in T : \A y \in T : x <= y
<1>1. PICK x \in T : \A y \in T : ~(<<y, x>> \in OpToRel(<, Nat))
  BY NatLessThanWellFounded, WFMin, Zenon
<1>2. \A y \in T : ~(y < x)
  BY <1>1 DEF OpToRel
<1> QED BY <1>2

LEMMA MaxOfBounded ==
  ASSUME NEW S, S \subseteq Nat, S # {}, NEW b \in Nat, \A y \in S : y <= b
  PROVE  Max(S) \in S /\ \A y \in S : y <= Max(S)
<1> DEFINE T == {c \in Nat : \A y \in S : y <= c}
<1>1. T \subseteq Nat /\ b \in T
  OBVIOUS
<1>2. PICK c \in T : \A d \in T : c <= d
  BY <1>1, LeastNat
<1>3. c \in S
  <2> SUFFICES ASSUME c \notin S PROVE FALSE
    OBVIOUS
  <2>1. c \in Nat /\ \A y \in S : y <= c /\ y # c
    OBVIOUS
  <2>2. c # 0 /\ c - 1 \in Nat
    <3>1. PICK y \in S : y \in Nat
      OBVIOUS
    <3>2. y <= c /\ y # c
      BY <2>1
    <3> QED BY <2>1, <3>1, <3>2
  <2>3. \A y \in S : y <= c - 1
    BY <2>1, <2>2
  <2> QED BY <1>2, <2>2, <2>3
<1>4. \E x \in S : \A y \in S : x >= y
  BY <1>3
<1>5. Max(S) \in S /\ \A y \in S : Max(S) >= y
  BY <1>4 DEF Max
<1> QED BY <1>5

LEMMA MinOfTwo ==
  ASSUME NEW i \in Int, NEW j \in Int
  PROVE  Min({i, j}) = IF i <= j THEN i ELSE j
<1>1. \E x \in {i, j} : \A y \in {i, j} : x <= y
  OBVIOUS
<1>2. Min({i, j}) \in {i, j} /\ \A y \in {i, j} : Min({i, j}) <= y
  BY <1>1 DEF Min
<1> QED BY <1>2

LEMMA StartElectionGood ==
  ASSUME NEW n \in Node, NEW r, NEW H, NEW C, History(H, C), Good(n, r, H, C),
         r.term < MaxTerm, n \in Candidates[r.term + 1]
  PROVE  /\ Good(n, StartElection(n, r), H, C) /\ StartElection(n, r).state = "CANDIDATE"
         /\ \E v : /\ Good(n, v, H, C) /\ Still(n, r, v)
                  /\ StartElection(n, r) = IF v.alive THEN OnLeaderChanged(v) ELSE v
<1> DEFINE c == [r EXCEPT !.state = "CANDIDATE", !.leader = None, !.term = @ + 1, !.votes = 1]
           m == [type |-> "request_vote", term |-> c.term,
                 lastLogIndex |-> CurrentLogIndex(c.log), lastLogTerm |-> CurrentLogTerm(c.log)]
           s == [c EXCEPT !.out = [p \in Peer(n) |-> Append(@[p], m)]]
<1>1. Shaped(r) /\ r.term \in 0..MaxTerm /\ MaxTerm \in Nat
  BY BoundAssumption DEF Good, NodeOK
<1>2. /\ Frame(r, c, {"state", "leader", "term", "votes"})
      /\ c.state = "CANDIDATE" /\ c.leader = None /\ c.term = r.term + 1
  BY <1>1 DEF Frame, Shaped, Fields
<1> HIDE DEF c
<1>3. RequestVotes(n, c) = IF c.alive THEN IF c.log = <<>> THEN [c EXCEPT !.alive = FALSE] ELSE s ELSE c
  BY DEF RequestVotes, Indexed, Then
<1>4. c.term \in 0..MaxTerm /\ c.term # 0 /\ c.term > r.term
  BY <1>1, <1>2
<1>5. \A x \in H : x.entry.term \in 0..MaxTerm
  BY EntryFields DEF History, LinkSet
<1>6. Fresh(n, c, H)
  BY <1>1, <1>2, <1>5 DEF Good, Fresh
<1>7. NodeOK(n, c, H, C)
  BY <1>2, <1>4 DEF Good, NodeOK, Frame, Fields
<1>15. Still(n, r, c)
  BY <1>2, FrameStill DEF Frame, Fields, QuietFields
<1>8. ASSUME c.log # <<>> PROVE Good(n, s, H, C) /\ s.state = "CANDIDATE" /\ Still(n, c, s)
  <2>1. m \in Message(H, C) /\ m.type # "apply_command"
    BY <1>4, <1>7, <1>8, CurrentLog DEF Message, NodeOK
  <2> HIDE DEF m
  <2>2. Frame(c, s, {"out"}) /\ s.out = [p \in Peer(n) |-> Append(c.out[p], m)]
    BY <1>7 DEF Frame, Shaped, Fields, NodeOK
  <2>3. s.out \in [Peer(n) -> Seq(Message(H, C))]
    <3> HIDE DEF s
    <3>1. \A p \in Peer(n) : Append(c.out[p], m) \in Seq(Message(H, C))
      BY <2>1, <1>7 DEF NodeOK
    <3> QED BY <3>1, <2>2
  <2> HIDE DEF s
  <2>4. Still(n, c, s)
    <3>1. \A p \in Peer(n) : SameAsks(c.out[p], Append(c.out[p], m))
      BY <2>1, <1>7, AsksAppend DEF NodeOK
    <3>2. \A p \in Peer(n) : SameAsks(c.out[p], s.out[p])
      BY <2>2, <3>1
    <3> QED BY <2>2, <3>2 DEF Still, Frame, Fields
  <2> QED BY <1>2, <1>6, <1>7, <2>2, <2>3, <2>4 DEF Good, NodeOK, Fresh, Frame, Fields
<1>9. Good(n, c, H, C)
  BY <1>6, <1>7 DEF Good
<1>10. [c EXCEPT !.alive = FALSE].state = "CANDIDATE"
  BY <1>2, <1>7 DEF NodeOK, Shaped, Fields
<1> DEFINE v == RequestVotes(n, c)
<1>11. Good(n, v, H, C) /\ v.state = "CANDIDATE"
  <2> HIDE DEF s
  <2> QED BY <1>2, <1>3, <1>8, <1>9, <1>10, RaiseGood
<1>16. Still(n, r, v)
  <2> HIDE DEF s
  <2> QED BY <1>3, <1>8, <1>9, <1>15, RaiseGood, StillTrans
<1>12. StartElection(n, r) = IF v.alive THEN OnLeaderChanged(v) ELSE v
  BY DEF StartElection, Then, c
<1> HIDE DEF v
<1>13. /\ Frame(v, OnLeaderChanged(v), {"calls", "alive"})
       /\ OnLeaderChanged(v).alive \in BOOLEAN /\ (OnLeaderChanged(v).alive => v.alive)
  BY <1>11, OnLeaderChangedFrame DEF Good, NodeOK
<1>14. Good(n, OnLeaderChanged(v), H, C) /\ OnLeaderChanged(v).state = v.state
  BY <1>11, <1>13, CallsFrameGood DEF Frame, Fields
<1> QED BY <1>11, <1>12, <1>14, <1>16

LEMMA LeaderTickGood ==
  ASSUME NEW n \in Node, NEW r, NEW H, NEW C, Good(n, r, H, C), NEW beat \in BOOLEAN, NEW slow \in BOOLEAN
  PROVE  /\ Good(n, LeaderTick(n, r, beat, slow), H, C)
         /\ LeaderTick(n, r, beat, slow).alive => LeaderTick(n, r, beat, slow).log # <<>>
         /\ LeaderTick(n, r, beat, slow).dumping = r.dumping
         /\ SameRole(r, LeaderTick(n, r, beat, slow))
         /\ Still(n, r, LeaderTick(n, r, beat, slow))
<1> DEFINE s == [r EXCEPT !.commit = CommitTo(n, r)]
           a == AdvanceCommit(n, r)
<1>1. Shaped(r) /\ r.commit \in Nat /\ Fits(r.log, H) /\ r.alive \in BOOLEAN
  BY DEF Good, NodeOK
<1>2. a = IF r.alive THEN IF r.log = <<>> THEN [r EXCEPT !.alive = FALSE] ELSE s ELSE r
  BY DEF AdvanceCommit, Indexed, Then
<1>3. ASSUME r.log # <<>> PROVE CommitTo(n, r) \in Nat
  <2> DEFINE from == r.commit + 1
             K == {k \in from..CurrentLogIndex(r.log) : \A i \in from..k : Replicated(n, r, i)}
             S == {r.commit} \cup K
  <2>1. CurrentLogIndex(r.log) \in Nat
    BY <1>1, <1>3, CurrentLog
  <2>2. CommitTo(n, r) = Max(S)
    BY DEF CommitTo
  <2>3. S \subseteq Nat /\ S # {}
    BY <1>1, <2>1
  <2>4. r.commit + CurrentLogIndex(r.log) \in Nat /\ \A y \in S : y <= r.commit + CurrentLogIndex(r.log)
    BY <1>1, <2>1
  <2> HIDE DEF S
  <2>5. Max(S) \in S
    BY <2>3, <2>4, MaxOfBounded
  <2> QED BY <2>2, <2>3, <2>5
<1>4. Frame(r, s, {"commit"}) /\ s.commit = CommitTo(n, r)
  BY <1>1 DEF Frame, Shaped, Fields
<1> HIDE DEF s
<1>10. Still(n, r, s)
  BY <1>4, FrameStill DEF Frame, Fields, QuietFields
<1>5. r.log # <<>> => Good(n, s, H, C) /\ s.log # <<>> /\ s.dumping = r.dumping /\ SameRole(r, s)
  BY <1>3, <1>4 DEF Good, NodeOK, Fresh, Frame, Fields, SameRole
<1>6. [r EXCEPT !.alive = FALSE].dumping = r.dumping /\ SameRole(r, [r EXCEPT !.alive = FALSE]) /\ SameRole(r, r)
  BY <1>1 DEF Shaped, Fields, SameRole
<1>7. Good(n, a, H, C) /\ (a.alive => a.log # <<>>) /\ a.dumping = r.dumping /\ SameRole(r, a)
  <2>1. CASE ~r.alive
    BY <2>1, <1>2, <1>6
  <2>2. CASE r.alive /\ r.log = <<>>
    BY <2>2, <1>2, <1>6, RaiseGood
  <2>3. CASE r.alive /\ r.log # <<>>
    BY <2>3, <1>2, <1>5
  <2> QED BY <2>1, <2>2, <2>3
<1>11. Still(n, r, a)
  BY <1>2, <1>10, RaiseGood, StillSame
<1>8. LeaderTick(n, r, beat, slow) = IF a.alive THEN IF beat THEN SendAppendEntries(n, a, slow) ELSE a ELSE a
  BY DEF LeaderTick, Then
<1> HIDE DEF a
<1>9. a.log # <<>> => /\ Good(n, SendAppendEntries(n, a, slow), H, C)
                      /\ SendAppendEntries(n, a, slow).log = a.log
                      /\ SendAppendEntries(n, a, slow).dumping = a.dumping
                      /\ SameRole(a, SendAppendEntries(n, a, slow))
                      /\ Still(n, a, SendAppendEntries(n, a, slow))
  BY <1>7, SendAppendEntriesGood DEF Frame, Fields, SameRole
<1>12. SameRole(r, LeaderTick(n, r, beat, slow))
  BY <1>7, <1>8, <1>9 DEF SameRole
<1> QED BY <1>7, <1>8, <1>9, <1>11, <1>12, StillTrans

---------------------------------------------------------------------------
(* The loops of a tick.  body is one pass of a loop over q that starts with *)
(* r; f[k] is what its first k passes make.                                 *)

Body(loop, n, arg, t, x) ==
    CASE loop = "tell" -> Tell(t, x, arg)
      [] loop = "apply" -> ApplyEntry(t, x)
      [] loop = "command" -> OneCommand(n, t, x, arg)
      [] loop = "answer" -> [t EXCEPT ![x.cmd] = Append(@, x.err)]

IsRun(loop, n, arg, f, r, q, m) ==
    f = [k \in 0..m |-> IF k = 0 THEN r ELSE Body(loop, n, arg, f[k - 1], q[k])]

LEMMA RunExists ==
  ASSUME NEW loop, NEW n, NEW arg, NEW r, NEW q
  PROVE  \A m \in Nat : \E f : IsRun(loop, n, arg, f, r, q, m)
<1> DEFINE R(f, m) == IsRun(loop, n, arg, f, r, q, m)
           T == {m \in Nat : ~\E f : R(f, m)}
<1> SUFFICES ASSUME T # {} PROVE FALSE
  OBVIOUS
<1>1. PICK m \in T : \A y \in T : m <= y
  <2>1. T \subseteq Nat
    OBVIOUS
  <2> HIDE DEF T
  <2> QED BY <2>1, LeastNat
<1>2. m \in Nat /\ ~\E f : R(f, m)
  OBVIOUS
<1>3. CASE m = 0
  <2>1. R([k \in 0..m |-> r], m)
    BY <1>3 DEF IsRun
  <2> QED BY <2>1, <1>2
<1>4. CASE m # 0
  <2>1. m - 1 \in Nat /\ m - 1 \notin T
    BY <1>1, <1>2, <1>4
  <2>2. PICK f : R(f, m - 1)
    BY <2>1
  <2> DEFINE g == [k \in 0..m |-> IF k = 0 THEN r ELSE Body(loop, n, arg, f[k - 1], q[k])]
  <2>3. \A k \in 0..(m - 1) : g[k] = f[k]
    BY <2>2, <1>2, <1>4, <2>1 DEF IsRun
  <2>4. \A k \in 0..m : g[k] = IF k = 0 THEN r ELSE Body(loop, n, arg, g[k - 1], q[k])
    <3> SUFFICES ASSUME NEW k \in 0..m PROVE g[k] = IF k = 0 THEN r ELSE Body(loop, n, arg, g[k - 1], q[k])
      OBVIOUS
    <3>1. k # 0 => k - 1 \in 0..(m - 1)
      BY <1>2
    <3> QED BY <3>1, <2>3, <1>2
  <2>5. R(g, m)
    <3>1. g = [k \in 0..m |-> g[k]]
      OBVIOUS
    <3> HIDE DEF g
    <3> QED BY <2>4, <3>1 DEF IsRun
  <2> QED BY <2>5, <1>2
<1> QED BY <1>3, <1>4

(* What holds before a loop and is kept by a pass holds after it: the set   *)
(* Bad of the numbers of passes after which it does not hold is empty.      *)
LEMMA NoFirstBad ==
  ASSUME NEW m \in Nat, NEW Bad, Bad \subseteq 0..m, 0 \notin Bad,
         \A k \in 1..m : k \in Bad => k - 1 \in Bad
  PROVE  Bad = {}
<1> SUFFICES ASSUME Bad # {} PROVE FALSE
  OBVIOUS
<1>1. PICK k \in Bad : \A j \in Bad : k <= j
  <2>1. Bad \subseteq Nat
    OBVIOUS
  <2> QED BY <2>1, LeastNat
<1>2. k \in 1..m
  OBVIOUS
<1> QED BY <1>1, <1>2

LEMMA TellAllUnfolds ==
  ASSUME NEW r, NEW e, Len(Subscribers(r, e.idx)) \in Nat
  PROVE  LET q == Subscribers(r, e.idx) IN
         \E f : /\ TellAll(r, e) = f[Len(q)] /\ f[0] = SetValue(r, e)
                /\ \A k \in 1..Len(q) : f[k] = Tell(f[k - 1], q[k], e.term)
<1> DEFINE q == Subscribers(r, e.idx)
           a == SetValue(r, e)
           after == CHOOSE f : f = [k \in 0..Len(q) |-> IF k = 0 THEN a ELSE Tell(f[k - 1], q[k], e.term)]
<1>1. TellAll(r, e) = after[Len(q)]
  BY DEF TellAll, ForEach
<1> HIDE DEF q, a
<1>2. \E f : f = [k \in 0..Len(q) |-> IF k = 0 THEN a ELSE Tell(f[k - 1], q[k], e.term)]
  <2>1. PICK f : IsRun("tell", 0, e.term, f, a, q, Len(q))
    BY RunExists DEF q
  <2>2. f = [k \in 0..Len(q) |-> IF k = 0 THEN a ELSE Tell(f[k - 1], q[k], e.term)]
    BY <2>1 DEF IsRun, Body
  <2> QED BY <2>2
<1>3. after = [k \in 0..Len(q) |-> IF k = 0 THEN a ELSE Tell(after[k - 1], q[k], e.term)]
  BY <1>2
<1> HIDE DEF after
<1>4. Len(q) \in Nat
  BY DEF q
<1>5. after[0] = a /\ \A k \in 1..Len(q) : after[k] = Tell(after[k - 1], q[k], e.term)
  BY <1>3, <1>4
<1> QED BY <1>1, <1>5 DEF q, a

LEMMA ApplyEntriesUnfolds ==
  ASSUME NEW r, Len(ReadyEntries(r)) \in Nat
  PROVE  LET q == ReadyEntries(r) IN
         \E f : /\ ApplyEntries(r) = f[Len(q)] /\ f[0] = r
                /\ \A k \in 1..Len(q) : f[k] = ApplyEntry(f[k - 1], q[k])
<1> DEFINE q == ReadyEntries(r)
           after == CHOOSE f : f = [k \in 0..Len(q) |-> IF k = 0 THEN r ELSE ApplyEntry(f[k - 1], q[k])]
<1>1. ApplyEntries(r) = after[Len(q)]
  BY DEF ApplyEntries, ForEach
<1> HIDE DEF q
<1>2. \E f : f = [k \in 0..Len(q) |-> IF k = 0 THEN r ELSE ApplyEntry(f[k - 1], q[k])]
  <2>1. PICK f : IsRun("apply", 0, 0, f, r, q, Len(q))
    BY RunExists DEF q
  <2>2. f = [k \in 0..Len(q) |-> IF k = 0 THEN r ELSE ApplyEntry(f[k - 1], q[k])]
    BY <2>1 DEF IsRun, Body
  <2> QED BY <2>2
<1>3. after = [k \in 0..Len(q) |-> IF k = 0 THEN r ELSE ApplyEntry(after[k - 1], q[k])]
  BY <1>2
<1> HIDE DEF after
<1>4. Len(q) \in Nat
  BY DEF q
<1>5. after[0] = r /\ \A k \in 1..Len(q) : after[k] = ApplyEntry(after[k - 1], q[k])
  BY <1>3, <1>4
<1> QED BY <1>1, <1>5 DEF q

(* The fields that setting a value and telling those who wait may change.   *)
ApplyFields == {"data", "waitingCommit", "applied", "calls", "alive"}

LEMMA SubscribersOK ==
  ASSUME NEW n \in Node, NEW r, NEW H, NEW C, Good(n, r, H, C), NEW i
  PROVE  Subscribers(r, i) \in Seq(Waiting(C)) /\ Len(Subscribers(r, i)) \in Nat
<1>1. Subscribers(r, i) \in Seq(Waiting(C))
  BY DEF Subscribers, Good, NodeOK
<1> QED BY <1>1

LEMMA TellAllFrame ==
  ASSUME NEW n \in Node, NEW r, NEW H, NEW C, Good(n, r, H, C), NEW e,
         NEW a, a = SetValue(r, e), Shaped(a), a.alive \in BOOLEAN
  PROVE  /\ Frame(a, TellAll(r, e), {"calls", "alive"})
         /\ TellAll(r, e).alive \in BOOLEAN /\ (TellAll(r, e).alive => a.alive)
<1> DEFINE q == Subscribers(r, e.idx)
           len == Len(q)
<1>1. len \in Nat
  BY SubscribersOK
<1>2. PICK f : /\ TellAll(r, e) = f[len] /\ f[0] = a
               /\ \A k \in 1..len : f[k] = Tell(f[k - 1], q[k], e.term)
  BY <1>1, TellAllUnfolds
<1> HIDE DEF q, len
<1> DEFINE P(k) == Frame(a, f[k], {"calls", "alive"}) /\ f[k].alive \in BOOLEAN /\ (f[k].alive => a.alive)
           Bad == {k \in 0..len : ~P(k)}
<1>3. P(0)
  BY <1>2 DEF Frame
<1>4. ASSUME NEW k \in 1..len, P(k - 1) PROVE P(k)
  <2> DEFINE t == f[k - 1]
             w == q[k]
             err == IF w.term = e.term THEN "SUCCESS" ELSE "DISCARDED"
             s == OnUpdateFunction(t, w.cmd, err)
  <2>1. f[k] = s
    BY <1>2 DEF Tell
  <2>2. Shaped(t) /\ t.alive \in BOOLEAN
    BY <1>4 DEF Frame
  <2>3. Frame(t, s, {"calls", "alive"}) /\ s.alive \in BOOLEAN /\ (s.alive => t.alive)
    <3> HIDE DEF t, w, err
    <3> QED BY <2>2, OnUpdateFunctionFrame
  <2> HIDE DEF s
  <2> QED BY <1>4, <2>1, <2>3 DEF Frame
<1>5. Bad = {}
  <2>1. Bad \subseteq 0..len /\ 0 \notin Bad
    BY <1>3
  <2>2. \A k \in 1..len : k - 1 \in 0..len
    BY <1>1
  <2>3. \A k \in 1..len : k \in Bad => k - 1 \in Bad
    <3> HIDE DEF P
    <3> QED BY <1>4, <2>2
  <2> HIDE DEF Bad
  <2> QED BY <1>1, <2>1, <2>3, NoFirstBad
<1>6. len \in 0..len
  BY <1>1
<1>7. P(len)
  BY <1>5, <1>6
<1> QED BY <1>2, <1>7

LEMMA ApplyEntryGood ==
  ASSUME NEW n \in Node, NEW r, NEW H, NEW C, History(H, C), Good(n, r, H, C),
         NEW e \in Entry, r.alive => e.idx = r.applied + 1, \E t \in 0..MaxTerm : Has(H, e, t)
  PROVE  /\ Good(n, ApplyEntry(r, e), H, C) /\ Frame(r, ApplyEntry(r, e), ApplyFields)
         /\ (ApplyEntry(r, e).alive => r.alive /\ ApplyEntry(r, e).applied = r.applied + 1)
<1> DEFINE v == [r EXCEPT !.data = Append(@, e.cmd), !.waitingCommit = [i \in DOMAIN @ \ {e.idx} |-> @[i]]]
           a == SetValue(r, e)
           b == TellAll(r, e)
           c == [b EXCEPT !.applied = @ + 1]
<1>1. Shaped(r) /\ r.alive \in BOOLEAN /\ r.data \in Seq(C) /\ Traced(r.data, H)
      /\ r.applied \in Nat \ {0} /\ e.idx \in Nat \ {0} /\ (r.alive => Len(r.data) = r.applied - 1)
  BY EntryFields DEF Good, NodeOK
<1>2. a = IF r.alive THEN v ELSE r
  <2> DEFINE W(x) == [x EXCEPT !.data = Append(@, e.cmd), !.waitingCommit = [i \in DOMAIN @ \ {e.idx} |-> @[i]]]
  <2>1. SetValue(r, e) = CHOOSE y \in {IF x.alive THEN W(x) ELSE x : x \in {r}} : TRUE
    BY DEF SetValue, Then
  <2>2. W(r) = v
    OBVIOUS
  <2> HIDE DEF W, v
  <2>3. {IF x.alive THEN W(x) ELSE x : x \in {r}} = {IF r.alive THEN v ELSE r}
    BY <2>2
  <2> QED BY <2>1, <2>3
<1>3. /\ Frame(r, v, {"data", "waitingCommit"}) /\ v.data = Append(r.data, e.cmd)
      /\ v.waitingCommit = [i \in DOMAIN r.waitingCommit \ {e.idx} |-> r.waitingCommit[i]]
  BY <1>1 DEF Frame, Shaped, Fields
<1> HIDE DEF v, a
<1>4. Shaped(a) /\ a.alive = r.alive /\ a.alive \in BOOLEAN
  BY <1>1, <1>2, <1>3 DEF Frame, Fields
<1>5. Frame(a, b, {"calls", "alive"}) /\ b.alive \in BOOLEAN /\ (b.alive => a.alive)
  BY <1>4, TellAllFrame DEF a
<1>6. ApplyEntry(r, e) = IF b.alive THEN c ELSE b
  BY DEF ApplyEntry, Then
<1>7. Frame(b, c, {"applied"}) /\ c.applied = b.applied + 1
  <2> HIDE DEF b
  <2> QED BY <1>5 DEF Frame, Shaped, Fields
<1> HIDE DEF b, c
<1>8. CASE ~r.alive
  <2>1. a = r /\ ~b.alive /\ ApplyEntry(r, e) = b
    BY <1>8, <1>2, <1>4, <1>5, <1>6
  <2>2. Good(n, b, H, C) /\ Frame(r, b, ApplyFields)
    BY <2>1, <1>5, CallsFrameGood DEF Frame, ApplyFields
  <2> QED BY <2>1, <2>2
<1>9. CASE r.alive
  <2>1. a = v
    BY <1>2, <1>9
  <2>2. PICK t \in 0..MaxTerm : Has(H, e, t)
    OBVIOUS
  <2>3. e.cmd \in C
    <3>1. \E x \in H : x.entry = e
      BY <2>2 DEF Has
    <3>2. e.idx >= 2
      BY <1>1, <1>9
    <3> QED BY <2>2, <3>1, <3>2 DEF History
  <2>4. v.data \in Seq(C) /\ Len(v.data) = r.applied /\ Traced(v.data, H)
    <3>1. v.data \in Seq(C) /\ Len(v.data) = Len(r.data) + 1 /\ v.data[Len(r.data) + 1] = e.cmd
          /\ \A i \in 1..Len(r.data) : v.data[i] = r.data[i]
      BY <1>1, <1>3, <2>3
    <3>2. Len(v.data) = r.applied
      BY <1>1, <1>9, <3>1
    <3>3. Traced(v.data, H)
      <4> SUFFICES ASSUME NEW i \in 1..Len(v.data)
                   PROVE  \E x \in H : x.entry.idx = i + 1 /\ x.entry.cmd = v.data[i]
        BY DEF Traced
      <4>1. CASE i \in 1..Len(r.data)
        BY <4>1, <3>1, <1>1 DEF Traced
      <4>2. CASE i \notin 1..Len(r.data)
        <5>1. i = Len(r.data) + 1 /\ e.idx = i + 1
          BY <4>2, <3>1, <1>1, <1>9
        <5>2. e.cmd = v.data[i]
          BY <3>1, <5>1
        <5>3. PICK x \in H : x.entry = e
          BY <2>2 DEF Has
        <5> QED BY <5>1, <5>2, <5>3
      <4> QED BY <4>1, <4>2
    <3> QED BY <3>1, <3>2, <3>3
  <2>5. \A i \in DOMAIN v.waitingCommit : v.waitingCommit[i] \in Seq(Waiting(C))
    BY <1>3 DEF Good, NodeOK
  <2>6. c.applied = r.applied + 1 /\ c.data = v.data /\ c.alive = b.alive /\ b.data = v.data
    BY <2>1, <1>3, <1>5, <1>7 DEF Frame, Fields
  <2>7. /\ Frame(r, b, {"data", "waitingCommit", "calls", "alive"})
        /\ b.waitingCommit = v.waitingCommit /\ b.data = v.data
    BY <2>1, <1>3, <1>5 DEF Frame, Fields
  <2>8. Frame(r, c, ApplyFields) /\ c.waitingCommit = v.waitingCommit
    BY <2>7, <1>7 DEF Frame, Fields, ApplyFields
  <2>9. CASE b.alive
    <3>1. c.applied \in Nat \ {0} /\ Len(c.data) = c.applied - 1 /\ c.alive \in BOOLEAN
      BY <2>4, <2>6, <1>1, <1>5
    <3>2. c.data \in Seq(C) /\ Traced(c.data, H)
          /\ \A i \in DOMAIN c.waitingCommit : c.waitingCommit[i] \in Seq(Waiting(C))
      BY <2>4, <2>5, <2>6, <2>8
    <3>3. Good(n, c, H, C)
      BY <3>1, <3>2, <2>8 DEF Good, NodeOK, Fresh, Frame, Fields, ApplyFields
    <3> QED BY <3>3, <2>6, <2>8, <2>9, <1>6, <1>9
  <2>10. CASE ~b.alive
    <3>1. b.data \in Seq(C) /\ Traced(b.data, H)
          /\ \A i \in DOMAIN b.waitingCommit : b.waitingCommit[i] \in Seq(Waiting(C))
      BY <2>4, <2>5, <2>7
    <3>2. Good(n, b, H, C)
      BY <3>1, <2>7, <2>10, <1>5 DEF Good, NodeOK, Fresh, Frame, Fields
    <3>3. Frame(r, b, ApplyFields)
      BY <2>7 DEF Frame, ApplyFields
    <3> QED BY <3>2, <3>3, <2>10, <1>6
  <2> QED BY <2>9, <2>10
<1> QED BY <1>8, <1>9

LEMMA ReadyEntriesFit ==
  ASSUME NEW n \in Node, NEW r, NEW H, NEW C, Good(n, r, H, C), r.log # <<>>
  PROVE  /\ Fits(ReadyEntries(r), H)
         /\ ReadyEntries(r) # <<>> => ReadyEntries(r)[1].idx = r.applied + 1
<1> DEFINE g == GetEntries(r.log, r.applied + 1)
           k == Min({r.commit - r.applied, Len(g)})
<1>1. r.applied \in Nat /\ r.commit \in Nat /\ Fits(r.log, H)
  BY DEF Good, NodeOK
<1>2. Fits(g, H) /\ (g # <<>> => g[1].idx = r.applied + 1)
  BY <1>1, GetEntriesFits
<1> HIDE DEF g
<1>3. g \in Seq(Entry) /\ Len(g) \in Nat /\ r.commit - r.applied \in Int
  BY <1>1, <1>2 DEF Fits
<1>4. k \in Int /\ k <= Len(g)
  BY <1>3, MinOfTwo
<1> HIDE DEF k
<1>5. ReadyEntries(r) = SubSeq(g, 1, k)
  BY DEF ReadyEntries, g, k
<1>6. /\ Fits(SubSeq(g, 1, k), H)
      /\ Len(SubSeq(g, 1, k)) = IF k >= 1 THEN k - 1 + 1 ELSE 0
      /\ \A i \in 1..(k - 1 + 1) : SubSeq(g, 1, k)[i] = g[1 + i - 1]
  <2>1. k \in Int /\ k <= Len(g) /\ Fits(g, H)
    BY <1>2, <1>4
  <2>2. PICK a \in Nat \ {0} : a = 1
    OBVIOUS
  <2> HIDE DEF g
  <2>3. /\ Fits(SubSeq(g, a, k), H)
        /\ Len(SubSeq(g, a, k)) = IF k >= a THEN k - a + 1 ELSE 0
        /\ \A i \in 1..(k - a + 1) : SubSeq(g, a, k)[i] = g[a + i - 1]
    <3> HIDE <2>2, <1>1, <1>2, <1>3, <1>4, <1>5
    <3> QED BY <2>1, FitsSlice
  <2> QED BY <2>2, <2>3
<1>7. SubSeq(g, 1, k) # <<>> => g # <<>> /\ SubSeq(g, 1, k)[1] = g[1]
  <2> SUFFICES ASSUME SubSeq(g, 1, k) # <<>> PROVE g # <<>> /\ SubSeq(g, 1, k)[1] = g[1]
    OBVIOUS
  <2>1. Len(SubSeq(g, 1, k)) # 0
    BY <1>6, CurrentLog
  <2>2. k >= 1
    BY <2>1, <1>6
  <2>3. 1 \in 1..(k - 1 + 1) /\ 1 + 1 - 1 = 1
    BY <2>2, <1>4
  <2>4. SubSeq(g, 1, k)[1] = g[1]
    BY <2>3, <1>6
  <2>5. g # <<>>
    BY <2>2, <1>4, <1>3
  <2> QED BY <2>4, <2>5
<1> QED BY <1>2, <1>5, <1>6, <1>7

---------------------------------------------------------------------------
(* Commands: a leader's log grows, and with it what is known.               *)

(* K knows more than H: what n, with record r, appended as a leader.        *)
Appends(n, r, x) == r.state = "LEADER" /\ r.term # 0 /\ x.entry.term = r.term /\ x.by = n
Grow(n, r, H, K, C) ==
    /\ H \subseteq K /\ History(K, C)
    /\ \A x \in K \ H : Appends(n, r, x)

LEMMA GrowTrans ==
  ASSUME NEW n, NEW r, NEW s, NEW H, NEW J, NEW K, NEW C, Grow(n, r, H, J, C), Grow(n, s, J, K, C), SameRole(r, s)
  PROVE  Grow(n, r, H, K, C)
BY DEF Grow, Appends, SameRole

LEMMA SubscribeGood ==
  ASSUME NEW n \in Node, NEW r, NEW H, NEW C, Good(n, r, H, C),
         NEW i, NEW t \in 0..MaxTerm, NEW cmd \in C
  PROVE  Good(n, Subscribe(r, i, t, cmd), H, C) /\ Frame(r, Subscribe(r, i, t, cmd), {"waitingCommit"})
<1> DEFINE w == [term |-> t, cmd |-> cmd]
           waiting == Append(Subscribers(r, i), w)
           s == Subscribe(r, i, t, cmd)
<1>1. /\ Frame(r, s, {"waitingCommit"})
      /\ s.waitingCommit = [j \in DOMAIN r.waitingCommit \cup {i} |->
                              IF j = i THEN waiting ELSE r.waitingCommit[j]]
  BY DEF Frame, Shaped, Fields, Subscribe, Good, NodeOK
<1>2. waiting \in Seq(Waiting(C))
  <2>1. w \in Waiting(C)
    BY DEF Waiting
  <2> HIDE DEF w
  <2> QED BY <2>1, SubscribersOK
<1> HIDE DEF s, waiting
<1>3. \A j \in DOMAIN s.waitingCommit : s.waitingCommit[j] \in Seq(Waiting(C))
  BY <1>1, <1>2 DEF Good, NodeOK
<1>4. Good(n, s, H, C)
  BY <1>1, <1>3 DEF Good, NodeOK, Fresh, Frame, Fields
<1> QED BY <1>1, <1>4 DEF s

LEMMA FitsOne ==
  ASSUME NEW H, NEW e \in Entry, NEW t \in 0..MaxTerm, Has(H, e, t)
  PROVE  Fits(<<e>>, H)
<1>1. <<e>> \in Seq(Entry) /\ Len(<<e>>) = 1 /\ <<e>>[1] = e
  OBVIOUS
<1>2. e.idx = e.idx + 1 - 1
  BY EntryFields
<1>3. (\A i \in 1..1 : i = 1) /\ \A i \in 2..1 : FALSE
  OBVIOUS
<1> QED BY <1>1, <1>2, <1>3 DEF Fits

LEMMA LeaderCommandGood ==
  ASSUME NEW n \in Node, NEW r, NEW H, NEW C, History(H, C), Good(n, r, H, C),
         r.state = "LEADER", r.log # <<>>, NEW q \in Request(C), NEW slow \in BOOLEAN
  PROVE  \E K : /\ Grow(n, r, H, K, C) /\ Good(n, LeaderCommand(n, r, q, slow), K, C)
                /\ LeaderCommand(n, r, q, slow).log # <<>>
                /\ SameRole(r, LeaderCommand(n, r, q, slow))
                /\ LeaderCommand(n, r, q, slow).dumping = r.dumping
                /\ \A x, y \in K \ H : x = y /\ x.entry.cmd = q.cmd
                /\ q.from # None => Still(n, r, LeaderCommand(n, r, q, slow))
                /\ q.from = None => \E i, t : Still(n, Subscribe(r, i, t, q.cmd), LeaderCommand(n, r, q, slow))
<1> DEFINE idx == CurrentLogIndex(r.log) + 1
           e == [cmd |-> q.cmd, idx |-> idx, term |-> r.term]
           last == CurrentLogTerm(r.log)
           link == Link(e, last, n)
           K == H \cup {link}
           a == [r EXCEPT !.log = Append(@, e)]
           m == [type |-> "apply_command_response", id |-> q.id, error |-> None, idx |-> idx, term |-> r.term]
           b == IF q.from = None THEN Subscribe(a, idx, r.term, q.cmd) ELSE SendNode(a, q.from, m)
<1>1. /\ Shaped(r) /\ Fits(r.log, H) /\ r.term \in 0..MaxTerm /\ r.term # 0 /\ n \in Candidates[r.term]
      /\ q.cmd \in C /\ q.id \in Nat /\ C \subseteq Command
  BY DEF Good, NodeOK, Request, History
<1>2. /\ CurrentLogIndex(r.log) \in Nat \ {0} /\ last \in 0..MaxTerm
      /\ r.log[Len(r.log)].idx = CurrentLogIndex(r.log) /\ r.log[Len(r.log)].term = last
  BY <1>1, CurrentLog
<1>3. e \in Entry /\ e.idx = CurrentLogIndex(r.log) + 1 /\ e.term = r.term /\ e.cmd \in C
  BY <1>1, <1>2 DEF Entry
<1>4. link \in LinkSet /\ link.entry = e /\ link.prev = last /\ link.by = n
  BY <1>2, <1>3 DEF LinkSet, Link
<1> HIDE DEF e, link
<1>5. \A x \in H : ~(x.entry.idx = e.idx /\ x.entry.term = e.term /\ x.by = n)
  <2> SUFFICES ASSUME NEW x \in H, x.entry.idx = e.idx, x.entry.term = e.term, x.by = n PROVE FALSE
    OBVIOUS
  <2>1. x.entry.idx <= CurrentLogIndex(r.log)
    BY <1>1, <1>3 DEF Good, Fresh
  <2> QED BY <1>2, <1>3, <2>1
<1>6. Grow(n, r, H, K, C)
  <2>1. K \subseteq LinkSet /\ \A x \in K : x.entry.idx >= 2 => x.entry.cmd \in C
    BY <1>3, <1>4 DEF History
  <2>2. \A x, y \in K :
           x.entry.idx = y.entry.idx /\ x.entry.term = y.entry.term /\ x.by = y.by => x = y
    BY <1>4, <1>5 DEF History
  <2>3. \A x \in K \ H : Appends(n, r, x)
    BY <1>1, <1>3, <1>4 DEF Appends
  <2> QED BY <1>1, <2>1, <2>2, <2>3 DEF Grow, History
<1>7. Frame(r, a, {"log"}) /\ a.log = Append(r.log, e)
  BY <1>1 DEF Frame, Shaped, Fields
<1>8. Fits(a.log, K) /\ a.log # <<>> /\ CurrentLogIndex(a.log) = e.idx
  <2>7. Has(K, e, last)
    BY <1>4 DEF Has
  <2>1. Fits(r.log, K) /\ Fits(<<e>>, K)
    BY <1>1, <1>2, <1>3, <2>7, FitsMono, FitsOne
  <2>2. r.log \in Seq(Entry) /\ Len(r.log) \in Nat
    BY <1>1 DEF Fits
  <2>3. Append(r.log, e) = r.log \o <<e>> /\ <<e>>[1] = e
    BY <2>2, <1>3
  <2>4. Has(K, e, r.log[Len(r.log)].term)
    BY <1>2, <2>7
  <2>5. Fits(r.log \o <<e>>, K) /\ r.log \o <<e>> # <<>>
    BY <1>2, <1>3, <2>1, <2>3, <2>4, FitsConcat
  <2>6. Last(Append(r.log, e)) = e
    BY <2>2, <1>3 DEF Last
  <2> HIDE DEF a
  <2> QED BY <1>7, <2>3, <2>5, <2>6 DEF CurrentLogIndex
<1> HIDE DEF a
<1>9. Good(n, a, K, C)
  <2>1. NodeOK(n, r, K, C)
    BY NodeOKMono DEF Good
  <2>2. NodeOK(n, a, K, C)
    BY <2>1, <1>7, <1>8 DEF NodeOK, Frame, Fields
  <2>3. a.state = "LEADER" /\ a.term = r.term
    BY <1>7 DEF Frame, Fields
  <2>4. \A x \in H : x.entry.idx \in Nat /\ x.entry.term \in Nat
    BY EntryFields DEF History, LinkSet
  <2>5. Fresh(n, a, K)
    <3> SUFFICES ASSUME NEW x \in K, x.by = n
                 PROVE  \/ a.term > x.entry.term
                        \/ a.term = x.entry.term /\ a.state = "LEADER" /\ x.entry.idx <= CurrentLogIndex(a.log)
      BY DEF Fresh
    <3>1. CASE x \in H
      <4>1. r.term > x.entry.term \/ (r.term = x.entry.term /\ x.entry.idx <= CurrentLogIndex(r.log))
        BY <3>1 DEF Good, Fresh
      <4> QED BY <4>1, <3>1, <2>3, <2>4, <1>2, <1>3, <1>8
    <3>2. CASE x = link
      BY <3>2, <2>3, <1>2, <1>3, <1>4, <1>8
    <3> QED BY <3>1, <3>2
  <2> QED BY <2>2, <2>5 DEF Good
<1>13. Still(n, r, a)
  BY <1>7, FrameStill DEF Frame, Fields, QuietFields
<1>10. /\ Good(n, b, K, C) /\ b.log # <<>> /\ b.dumping = r.dumping /\ SameRole(r, b)
       /\ q.from # None => Still(n, r, b)
       /\ q.from = None => Still(n, Subscribe(r, idx, r.term, q.cmd), b)
  <2>1. m \in Message(K, C) /\ r.term \in 0..MaxTerm
    BY <1>1, <1>2 DEF Message
  <2>2. a.dumping = r.dumping /\ SameRole(r, a)
    BY <1>7 DEF Frame, Fields, SameRole
  <2> HIDE DEF m, idx
  <2>3. CASE q.from = None
    <3>1. b = Subscribe(a, idx, r.term, q.cmd)
      BY <2>3
    <3> HIDE DEF b
    <3>2. Good(n, b, K, C) /\ Frame(a, b, {"waitingCommit"})
      BY <1>1, <1>9, <2>1, <3>1, SubscribeGood
    <3> DEFINE u == Subscribe(r, idx, r.term, q.cmd)
    <3>3. Frame(r, u, {"waitingCommit"}) /\ Shaped(a)
      BY <1>1, <1>7, SubscribeGood DEF Frame
    <3>4. u.waitingCommit = b.waitingCommit
      <4>1. a.waitingCommit = r.waitingCommit
        BY <1>7 DEF Frame, Fields
      <4>2. Subscribers(a, idx) = Subscribers(r, idx)
        BY <4>1 DEF Subscribers
      <4> QED BY <1>1, <3>1, <3>3, <4>1, <4>2 DEF Subscribe, Shaped, Fields
    <3> HIDE DEF u
    <3>5. Frame(u, b, {"log"})
      BY <1>7, <3>2, <3>3, <3>4 DEF Frame, Fields
    <3>6. Still(n, u, b)
      BY <3>5, FrameStill DEF Frame, Fields, QuietFields
    <3> QED BY <1>8, <2>2, <2>3, <3>2, <3>6 DEF Frame, Fields, SameRole, u
  <2>4. CASE q.from # None
    <3>1. b = SendNode(a, q.from, m) /\ m.type # "apply_command"
      BY <2>4 DEF m
    <3> HIDE DEF b
    <3>2. Good(n, b, K, C) /\ Frame(a, b, {"out"}) /\ Still(n, a, b)
      BY <1>9, <2>1, <3>1, SendNodeGood
    <3>3. Still(n, r, b)
      BY <1>13, <3>2, StillTrans
    <3> QED BY <1>8, <2>2, <2>4, <3>2, <3>3 DEF Frame, Fields, SameRole
  <2> QED BY <2>3, <2>4
<1>11. LeaderCommand(n, r, q, slow) = SendAppendEntries(n, b, slow)
  BY DEF LeaderCommand, a, e
<1> DEFINE s == SendAppendEntries(n, b, slow)
<1>12. Good(n, s, K, C) /\ s.log = b.log /\ s.dumping = b.dumping /\ SameRole(r, s) /\ Still(n, b, s)
  <2> HIDE DEF b
  <2> QED BY <1>10, SendAppendEntriesGood DEF Frame, Fields, SameRole
<1>14. \A x, y \in K \ H : x = y /\ x.entry.cmd = q.cmd
  BY <1>4 DEF e
<1> HIDE DEF s, K, b, idx
<1>15. q.from # None => Still(n, r, s)
  BY <1>10, <1>12, StillTrans
<1>16. q.from = None => Still(n, Subscribe(r, idx, r.term, q.cmd), s)
  BY <1>10, <1>12, StillTrans
<1> QED BY <1>6, <1>10, <1>11, <1>12, <1>14, <1>15, <1>16 DEF s

LEMMA ForwardCommandGood ==
  ASSUME NEW n \in Node, NEW r, NEW H, NEW C, Good(n, r, H, C), NEW q \in Request(C)
  PROVE  /\ Good(n, ForwardCommand(r, q), H, C)
         /\ Frame(r, ForwardCommand(r, q), {"out", "counter", "waitingReply"})
<1>1. q.cmd \in C /\ q.id \in Nat /\ MaxTerm \in Nat /\ Shaped(r) /\ r.counter \in Nat
  BY BoundAssumption DEF Request, Good, NodeOK
<1>2. CASE q.from = None
  <2> DEFINE id == r.counter + 1
             s == [r EXCEPT !.counter = id,
                            !.waitingReply = [i \in DOMAIN @ \cup {id} |-> IF i = id THEN q.cmd ELSE @[i]]]
             m == [type |-> "apply_command", cmd |-> q.cmd, id |-> id]
  <2>1. id \in Nat /\ m \in Message(H, C)
    BY <1>1 DEF Message
  <2> HIDE DEF id, m
  <2>2. /\ Frame(r, s, {"counter", "waitingReply"}) /\ s.counter = id
        /\ s.waitingReply = [i \in DOMAIN r.waitingReply \cup {id} |->
                               IF i = id THEN q.cmd ELSE r.waitingReply[i]]
    BY <1>1 DEF Frame, Shaped, Fields
  <2> HIDE DEF s
  <2>3. \A i \in DOMAIN s.waitingReply : s.waitingReply[i] \in C
    BY <1>1, <2>2 DEF Good, NodeOK
  <2>4. Good(n, s, H, C)
    BY <2>1, <2>2, <2>3 DEF Good, NodeOK, Fresh, Frame, Fields
  <2>5. Good(n, SendNode(s, r.leader, m), H, C) /\ Frame(s, SendNode(s, r.leader, m), {"out"})
    BY <2>1, <2>4, SendNodeGood
  <2>6. Frame(r, SendNode(s, r.leader, m), {"out", "counter", "waitingReply"})
    BY <2>2, <2>5 DEF Frame
  <2> QED BY <1>2, <2>5, <2>6 DEF ForwardCommand, s, m, id
<1>3. CASE q.from # None
  <2> DEFINE m == [type |-> "apply_command_response", id |-> q.id, error |-> "NOT_LEADER", idx |-> 0, term |-> 0]
  <2>1. m \in Message(H, C)
    BY <1>1 DEF Message
  <2> HIDE DEF m
  <2>2. Good(n, SendNode(r, q.from, m), H, C) /\ Frame(r, SendNode(r, q.from, m), {"out"})
    BY <2>1, SendNodeGood
  <2>3. Frame(r, SendNode(r, q.from, m), {"out", "counter", "waitingReply"})
    BY <2>2 DEF Frame
  <2> QED BY <1>3, <2>2, <2>3 DEF ForwardCommand, m
<1> QED BY <1>2, <1>3

Commands(n, r, q, slow) == ForEach(q, r, LAMBDA t, x : OneCommand(n, t, x, slow))

CommandRun(f, n, r, q, slow) ==
    f[0] = r /\ \A k \in 1..Len(q) : f[k] = OneCommand(n, f[k - 1], q[k], slow)

LEMMA CommandsUnfold ==
  ASSUME NEW n, NEW r, NEW q, Len(q) \in Nat, NEW slow \in BOOLEAN
  PROVE  \E f : Commands(n, r, q, slow) = f[Len(q)] /\ CommandRun(f, n, r, q, slow)
<1> DEFINE after == CHOOSE f : f = [k \in 0..Len(q) |-> IF k = 0 THEN r ELSE OneCommand(n, f[k - 1], q[k], slow)]
<1>1. Commands(n, r, q, slow) = after[Len(q)]
  BY DEF Commands, ForEach
<1>2. \E f : f = [k \in 0..Len(q) |-> IF k = 0 THEN r ELSE OneCommand(n, f[k - 1], q[k], slow)]
  <2>1. PICK f : IsRun("command", n, slow, f, r, q, Len(q))
    BY RunExists
  <2>2. f = [k \in 0..Len(q) |-> IF k = 0 THEN r ELSE OneCommand(n, f[k - 1], q[k], slow)]
    BY <2>1 DEF IsRun, Body
  <2> QED BY <2>2
<1>3. after = [k \in 0..Len(q) |-> IF k = 0 THEN r ELSE OneCommand(n, after[k - 1], q[k], slow)]
  BY <1>2
<1> HIDE DEF after
<1>4. CommandRun(after, n, r, q, slow)
  BY <1>3 DEF CommandRun
<1> QED BY <1>1, <1>4

---------------------------------------------------------------------------
(* _onMessageReceived.                                                      *)

LEMMA SendNextNodeIdxGood ==
  ASSUME NEW n \in Node, NEW r, NEW H, NEW C, Good(n, r, H, C), r.log # <<>>, NEW to, NEW reset \in BOOLEAN
  PROVE  /\ Good(n, SendNextNodeIdx(r, to, reset), H, C) /\ Frame(r, SendNextNodeIdx(r, to, reset), {"out"})
         /\ Still(n, r, SendNextNodeIdx(r, to, reset))
<1> DEFINE m == [type |-> "next_node_idx", next |-> CurrentLogIndex(r.log) + 1, reset |-> reset]
<1>1. CurrentLogIndex(r.log) + 1 \in Nat
  BY CurrentLog DEF Good, NodeOK
<1>2. m \in Message(H, C) /\ m.type # "apply_command"
  BY <1>1 DEF Message
<1> HIDE DEF m
<1> QED BY <1>2, SendNodeGood DEF SendNextNodeIdx, m

(* Every link of n's is of its term or of an older one.                     *)
LEMMA FreshTerm ==
  ASSUME NEW n \in Node, NEW r, NEW H, NEW C, History(H, C), Good(n, r, H, C), NEW x \in H, x.by = n
  PROVE  r.term >= x.entry.term /\ x.entry.term \in Nat /\ r.term \in Nat
<1>1. x.entry.term \in 0..MaxTerm /\ r.term \in 0..MaxTerm /\ MaxTerm \in Nat
  BY EntryFields, BoundAssumption DEF History, LinkSet, Good, NodeOK
<1> QED BY <1>1 DEF Good, Fresh

(* A follower of a term that is not older than its own.                     *)
LEMMA FollowGood ==
  ASSUME NEW n \in Node, NEW r, NEW s, NEW H, NEW C, History(H, C), Good(n, r, H, C),
         Frame(r, s, {"term", "state", "leader"}), s.state = "FOLLOWER", s.leader \in Node \cup {None},
         s.term \in 0..MaxTerm, s.term >= r.term
  PROVE  Good(n, s, H, C)
<1>1. NodeOK(n, s, H, C)
  BY DEF Good, NodeOK, Frame, Fields
<1>2. Fresh(n, s, H)
  <2> SUFFICES ASSUME NEW x \in H, x.by = n
               PROVE  s.term > x.entry.term \/ s.term = x.entry.term
    BY DEF Fresh
  <2>1. r.term >= x.entry.term /\ x.entry.term \in Nat /\ r.term \in Nat
    BY FreshTerm
  <2> QED BY <2>1, BoundAssumption
<1> QED BY <1>1, <1>2 DEF Good

LEMMA OnRequestVoteGood ==
  ASSUME NEW n \in Node, NEW r, NEW H, NEW C, History(H, C), Good(n, r, H, C),
         NEW from, NEW m \in Message(H, C), m.type = "request_vote"
  PROVE  Good(n, OnRequestVote(r, from, m), H, C) /\ Still(n, r, OnRequestVote(r, from, m))
<1> DEFINE b == [r EXCEPT !.term = m.term, !.state = "FOLLOWER"]
           a == IF m.term > r.term THEN b ELSE r
           v == [type |-> "response_vote", term |-> m.term]
<1>1. m.term \in 0..MaxTerm /\ r.term \in 0..MaxTerm /\ MaxTerm \in Nat
  BY MessageFields, BoundAssumption DEF Good, NodeOK
<1>2. /\ Frame(r, b, {"term", "state", "leader"}) /\ b.term = m.term /\ b.state = "FOLLOWER"
      /\ b.leader = r.leader
  BY DEF Frame, Shaped, Fields, Good, NodeOK
<1> HIDE DEF b
<1>3. m.term > r.term => Good(n, b, H, C)
  <2>1. b.leader \in Node \cup {None}
    BY <1>2 DEF Good, NodeOK
  <2> QED BY <1>1, <1>2, <2>1, FollowGood
<1>4. Good(n, a, H, C)
  BY <1>3
<1>9. Still(n, r, b)
  BY <1>2, FrameStill DEF Frame, Fields, QuietFields
<1>10. Still(n, r, a)
  BY <1>9, StillSame
<1>5. v \in Message(H, C) /\ v.type # "apply_command"
  BY <1>1 DEF Message
<1> HIDE DEF a, v
<1>6. OnRequestVote(r, from, m) =
        IF a.state # "LEADER" /\ m.term >= a.term
        THEN Indexed(a, LAMBDA t : IF Behind(m, t.log) THEN t ELSE SendNode(t, from, v))
        ELSE a
  BY DEF OnRequestVote, a, b, v
<1>7. Indexed(a, LAMBDA t : IF Behind(m, t.log) THEN t ELSE SendNode(t, from, v)) =
        IF a.alive THEN IF a.log = <<>> THEN [a EXCEPT !.alive = FALSE]
                        ELSE IF Behind(m, a.log) THEN a ELSE SendNode(a, from, v)
        ELSE a
  BY DEF Indexed, Then
<1>8. /\ Good(n, SendNode(a, from, v), H, C) /\ Good(n, [a EXCEPT !.alive = FALSE], H, C)
      /\ Still(n, a, SendNode(a, from, v)) /\ Still(n, a, [a EXCEPT !.alive = FALSE])
  BY <1>4, <1>5, SendNodeGood, RaiseGood
<1> QED BY <1>4, <1>6, <1>7, <1>8, <1>10, StillTrans

LEMMA FollowLeaderGood ==
  ASSUME NEW n \in Node, NEW r, NEW H, NEW C, History(H, C), Good(n, r, H, C),
         NEW from \in Node, NEW term \in 0..MaxTerm, term >= r.term
  PROVE  /\ Good(n, FollowLeader(r, from, term), H, C)
         /\ FollowLeader(r, from, term).alive => FollowLeader(r, from, term).state = "FOLLOWER"
<1> DEFINE a == IF r.leader # from THEN OnLeaderChanged(r) ELSE r
           b == [a EXCEPT !.leader = from, !.term = term, !.state = "FOLLOWER"]
<1>1. /\ Frame(r, OnLeaderChanged(r), {"calls", "alive"})
      /\ OnLeaderChanged(r).alive \in BOOLEAN /\ (OnLeaderChanged(r).alive => r.alive)
  BY OnLeaderChangedFrame DEF Good, NodeOK
<1>2. Good(n, OnLeaderChanged(r), H, C) /\ OnLeaderChanged(r).term = r.term
  BY <1>1, CallsFrameGood DEF Frame, Fields
<1>3. Good(n, a, H, C) /\ a.term = r.term
  BY <1>2
<1>4. FollowLeader(r, from, term) = IF a.alive THEN b ELSE a
  BY DEF FollowLeader, Then
<1> HIDE DEF a
<1>5. Frame(a, b, {"term", "state", "leader"}) /\ b.leader = from /\ b.term = term /\ b.state = "FOLLOWER"
  BY <1>3 DEF Frame, Shaped, Fields, Good, NodeOK
<1> HIDE DEF b
<1>6. Good(n, b, H, C)
  BY <1>3, <1>5, FollowGood
<1> QED BY <1>3, <1>4, <1>5, <1>6

LEMMA AcknowledgeGood ==
  ASSUME NEW n \in Node, NEW r, NEW H, NEW C, Good(n, r, H, C), NEW from, NEW commit \in Nat
  PROVE  Good(n, Acknowledge(r, from, commit), H, C) /\ Still(n, r, Acknowledge(r, from, commit))
<1> DEFINE x == SendNextNodeIdx(r, from, FALSE)
           c == Min({commit, CurrentLogIndex(r.log)})
           s == [x EXCEPT !.commit = c]
<1>1. Acknowledge(r, from, commit) =
        IF r.alive THEN IF r.log = <<>> THEN [r EXCEPT !.alive = FALSE] ELSE s ELSE r
  <2> DEFINE W(t) == [SendNextNodeIdx(t, from, FALSE) EXCEPT !.commit = Min({commit, CurrentLogIndex(t.log)})]
  <2>1. Acknowledge(r, from, commit) = Indexed(r, W)
    BY DEF Acknowledge
  <2>2. W(r) = s
    OBVIOUS
  <2> HIDE DEF W, s
  <2>3. Indexed(r, W) = IF r.alive THEN IF r.log = <<>> THEN [r EXCEPT !.alive = FALSE] ELSE W(r) ELSE r
    BY DEF Indexed, Then
  <2> QED BY <2>1, <2>2, <2>3
<1>2. ASSUME r.log # <<>> PROVE Good(n, s, H, C) /\ Still(n, r, s)
  <2>1. Good(n, x, H, C) /\ Still(n, r, x)
    BY <1>2, SendNextNodeIdxGood
  <2>2. CurrentLogIndex(r.log) \in Nat
    BY <1>2, CurrentLog DEF Good, NodeOK
  <2>3. c \in Nat
    BY <2>2, MinOfTwo
  <2> HIDE DEF x, c
  <2>4. Frame(x, s, {"commit"}) /\ s.commit = c
    BY <2>1 DEF Frame, Shaped, Fields, Good, NodeOK
  <2> HIDE DEF s
  <2>5. Still(n, r, s)
    <3>1. Still(n, x, s)
      BY <2>4, FrameStill DEF Frame, Fields, QuietFields
    <3> QED BY <2>1, <3>1, StillTrans
  <2> QED BY <2>1, <2>3, <2>4, <2>5 DEF Good, NodeOK, Fresh, Frame, Fields
<1> HIDE DEF s
<1> QED BY <1>1, <1>2, RaiseGood, StillSame

LEMMA TakeEntriesGood ==
  ASSUME NEW n \in Node, NEW r, NEW H, NEW C, Good(n, r, H, C), r.state = "FOLLOWER", r.log # <<>>,
         NEW from, NEW m, m.regular \in Regular(H), m.commit \in Nat
  PROVE  Good(n, TakeEntries(r, from, m), H, C) /\ Still(n, r, TakeEntries(r, from, m))
<1> DEFINE at == m.regular.prev.idx
           prev == GetEntries(r.log, at)
           first == FirstIndex(r.log)
           cut == [r EXCEPT !.log = DeleteEntriesFrom(@, at)]
           new == m.regular.entries
           kept == DeleteEntriesFrom(r.log, at + 1)
           s == [r EXCEPT !.log = DeleteEntriesFrom(@, at + 1) \o new]
<1>1. /\ at \in Nat /\ Fits(new, H)
      /\ new # <<>> /\ at # 0 => new[1].idx = at + 1 /\ Has(H, new[1], m.regular.prev.term)
  BY DEF Regular
<1>2. Fits(r.log, H) /\ Shaped(r)
  BY DEF Good, NodeOK
<1>3. first \in Nat \ {0} /\ CurrentLogIndex(r.log) \in Nat
  BY <1>2, CurrentLog
<1>4. prev # <<>> => at \in first..CurrentLogIndex(r.log) /\ prev[1] = r.log[at - first + 1] /\ prev[1].idx = at
  BY <1>1, <1>2, GetEntriesFits
<1>5. prev # <<>> => Head(prev) = prev[1]
  <2>1. Fits(prev, H)
    BY <1>1, <1>2, GetEntriesFits
  <2> HIDE DEF prev
  <2> QED BY <2>1 DEF Fits
<1> HIDE DEF at, prev, new, first
<1>6. CASE prev = <<>>
  <2>1. TakeEntries(r, from, m) = SendNextNodeIdx(r, from, TRUE)
    BY <1>6 DEF TakeEntries, at, prev
  <2> QED BY <2>1, SendNextNodeIdxGood
<1>7. CASE prev # <<>> /\ Head(prev).term # m.regular.prev.term
  <2>1. TakeEntries(r, from, m) =
          IF cut.log = <<>> THEN [cut EXCEPT !.alive = FALSE] ELSE SendNextNodeIdx(cut, from, TRUE)
    BY <1>7 DEF TakeEntries, at, prev
  <2>2. Frame(r, cut, {"log"}) /\ cut.log = DeleteEntriesFrom(r.log, at)
    BY <1>2 DEF Frame, Shaped, Fields
  <2>3. Fits(cut.log, H)
    <3>1. at <= CurrentLogIndex(r.log) + 1
      BY <1>1, <1>3, <1>4, <1>7
    <3> HIDE DEF cut
    <3> QED BY <1>1, <1>2, <2>2, <3>1, DeleteEntriesFromFits
  <2> HIDE DEF cut
  <2>4. Good(n, cut, H, C)
    BY <2>2, <2>3 DEF Good, NodeOK, Fresh, Frame, Fields
  <2>5. Good(n, [cut EXCEPT !.alive = FALSE], H, C) /\ Still(n, cut, [cut EXCEPT !.alive = FALSE])
    BY <2>4, RaiseGood
  <2>6. cut.log # <<>> => /\ Good(n, SendNextNodeIdx(cut, from, TRUE), H, C)
                          /\ Still(n, cut, SendNextNodeIdx(cut, from, TRUE))
    BY <2>4, SendNextNodeIdxGood
  <2>7. Still(n, r, cut)
    BY <2>2, FrameStill DEF Frame, Fields, QuietFields
  <2> QED BY <2>1, <2>5, <2>6, <2>7, StillTrans
<1>8. CASE prev # <<>> /\ Head(prev).term = m.regular.prev.term
  <2>1. TakeEntries(r, from, m) = Acknowledge(s, from, m.commit)
    BY <1>8 DEF TakeEntries, at, prev, new
  <2>2. Frame(r, s, {"log"}) /\ s.log = kept \o new
    BY <1>2 DEF Frame, Shaped, Fields
  <2>3. /\ Fits(kept, H) /\ kept # <<>> /\ Len(kept) = at + 1 - first
        /\ kept[at + 1 - first] = r.log[at + 1 - first]
    <3>1. at + 1 \in Nat /\ at + 1 <= CurrentLogIndex(r.log) + 1 /\ at + 1 > first
      BY <1>1, <1>3, <1>4, <1>8
    <3> DEFINE j == at + 1
    <3>2. j \in Nat /\ j <= CurrentLogIndex(r.log) + 1 /\ j > FirstIndex(r.log)
      BY <3>1 DEF first
    <3> HIDE DEF j
    <3>3. /\ Fits(DeleteEntriesFrom(r.log, j), H) /\ DeleteEntriesFrom(r.log, j) # <<>>
          /\ Len(DeleteEntriesFrom(r.log, j)) = j - FirstIndex(r.log)
          /\ DeleteEntriesFrom(r.log, j)[j - FirstIndex(r.log)] = r.log[j - FirstIndex(r.log)]
      BY <1>2, <3>2, DeleteEntriesFromFits
    <3>4. kept = DeleteEntriesFrom(r.log, j)
      BY DEF j
    <3> DEFINE i == at + 1 - first
    <3>5. /\ Fits(kept, H) /\ kept # <<>> /\ Len(kept) = i /\ kept[i] = r.log[i]
      <4>1. i = j - FirstIndex(r.log)
        BY <1>1, <1>3 DEF j, first
      <4> HIDE DEF kept, i
      <4> QED BY <3>3, <3>4, <4>1
    <3> HIDE DEF kept
    <3> QED BY <3>5
  <2> HIDE DEF kept
  <2>4. kept[Len(kept)] = prev[1] /\ at # 0
    <3>1. at - first + 1 = at + 1 - first
      BY <1>1, <1>3
    <3>2. at # 0
      BY <1>1, <1>3, <1>4, <1>8
    <3> QED BY <3>1, <3>2, <2>3, <1>4, <1>8
  <2>5. new # <<>> => new[1].idx = kept[Len(kept)].idx + 1 /\ Has(H, new[1], kept[Len(kept)].term)
    BY <1>1, <1>4, <1>5, <1>8, <2>4
  <2>6. Fits(kept \o new, H)
    BY <1>1, <2>3, <2>5, FitsConcat
  <2> HIDE DEF s
  <2>7. Good(n, s, H, C)
    BY <2>2, <2>6 DEF Good, NodeOK, Fresh, Frame, Fields
  <2>8. Still(n, r, s)
    BY <2>2, FrameStill DEF Frame, Fields, QuietFields
  <2>9. Good(n, Acknowledge(s, from, m.commit), H, C) /\ Still(n, s, Acknowledge(s, from, m.commit))
    BY <2>7, AcknowledgeGood
  <2> QED BY <2>1, <2>8, <2>9, StillTrans
<1> QED BY <1>6, <1>7, <1>8

LEMMA OnAppendEntriesGood ==
  ASSUME NEW n \in Node, NEW r, NEW H, NEW C, History(H, C), Good(n, r, H, C),
         NEW from \in Node, NEW m \in Message(H, C), m.type = "append_entries"
  PROVE  /\ Good(n, OnAppendEntries(r, from, m), H, C)
         /\ \/ Still(n, r, OnAppendEntries(r, from, m))
            \/ Still(n, FollowLeader(r, from, m.term), OnAppendEntries(r, from, m))
<1> DEFINE a == FollowLeader(r, from, m.term)
           i == Acknowledge(InstallSnapshot(a, m.serialized), from, m.commit)
           e == OnRegularEntries(a, from, m)
           t == CASE m.serialized # None -> i
                  [] m.serialized = None /\ m.regular # None -> e
                  [] OTHER -> [a EXCEPT !.alive = FALSE]
<1>1. /\ m.term \in 0..MaxTerm /\ m.commit \in Nat
      /\ m.regular \in Regular(H) \cup {None} /\ m.serialized \in Piece(H, C) \cup {None}
  BY MessageFields
<1>2. OnAppendEntries(r, from, m) = IF m.term >= r.term THEN IF a.alive THEN t ELSE a ELSE r
  <2> DEFINE W(b) == CASE m.serialized # None -> Acknowledge(InstallSnapshot(b, m.serialized), from, m.commit)
                       [] m.serialized = None /\ m.regular # None -> OnRegularEntries(b, from, m)
                       [] OTHER -> [b EXCEPT !.alive = FALSE]
  <2>1. OnAppendEntries(r, from, m) = IF m.term >= r.term THEN Then(a, W) ELSE r
    BY DEF OnAppendEntries
  <2>2. W(a) = t
    OBVIOUS
  <2> HIDE DEF W, a, t
  <2>3. Then(a, W) = IF a.alive THEN W(a) ELSE a
    BY DEF Then
  <2> QED BY <2>1, <2>2, <2>3
<1>3. CASE m.term >= r.term
  <2>1. Good(n, a, H, C) /\ (a.alive => a.state = "FOLLOWER")
    BY <1>1, <1>3, FollowLeaderGood
  <2> HIDE DEF a
  <2>2. ASSUME a.alive, m.serialized # None PROVE Good(n, i, H, C) /\ Still(n, a, i)
    <3> DEFINE x == InstallSnapshot(a, m.serialized)
    <3>1. Good(n, x, H, C) /\ Still(n, a, x)
      BY <1>1, <2>1, <2>2, InstallSnapshotGood
    <3> HIDE DEF x
    <3>2. Good(n, Acknowledge(x, from, m.commit), H, C) /\ Still(n, x, Acknowledge(x, from, m.commit))
      BY <1>1, <3>1, AcknowledgeGood
    <3> QED BY <3>1, <3>2, StillTrans DEF x
  <2>3. ASSUME a.alive, m.regular # None PROVE Good(n, e, H, C) /\ Still(n, a, e)
    <3> DEFINE x == TakeEntries(a, from, m)
    <3>1. e = IF a.alive THEN IF a.log = <<>> THEN [a EXCEPT !.alive = FALSE] ELSE x ELSE a
      BY DEF OnRegularEntries, Indexed, Then
    <3>2. a.log # <<>> => Good(n, x, H, C) /\ Still(n, a, x)
      BY <1>1, <2>1, <2>3, TakeEntriesGood
    <3> DEFINE y == [a EXCEPT !.alive = FALSE]
    <3>3. Good(n, y, H, C) /\ Still(n, a, y)
      BY <2>1, RaiseGood
    <3> HIDE DEF x, e, y
    <3>4. (e = x /\ a.log # <<>>) \/ e = y
      BY <2>3, <3>1 DEF y
    <3> QED BY <3>2, <3>3, <3>4
  <2>4. Good(n, [a EXCEPT !.alive = FALSE], H, C) /\ Still(n, a, [a EXCEPT !.alive = FALSE])
    BY <2>1, RaiseGood
  <2> HIDE DEF i, e
  <2>5. a.alive => Good(n, t, H, C) /\ Still(n, a, t)
    BY <2>2, <2>3, <2>4
  <2> HIDE DEF t
  <2>6. Still(n, a, a)
    BY StillSame
  <2>7. Good(n, OnAppendEntries(r, from, m), H, C) /\ Still(n, a, OnAppendEntries(r, from, m))
    BY <1>2, <1>3, <2>1, <2>5, <2>6
  <2> QED BY <2>7 DEF a
<1>4. CASE ~(m.term >= r.term)
  <2>1. OnAppendEntries(r, from, m) = r
    BY <1>2, <1>4
  <2> QED BY <2>1, StillSame
<1> QED BY <1>3, <1>4

LEMMA OnApplyCommandResponseGood ==
  ASSUME NEW n \in Node, NEW r, NEW H, NEW C, Good(n, r, H, C),
         NEW m \in Message(H, C), m.type = "apply_command_response"
  PROVE  Good(n, OnApplyCommandResponse(r, m), H, C)
<1> DEFINE cmd == r.waitingReply[m.id]
           a == [r EXCEPT !.waitingReply = [i \in DOMAIN @ \ {m.id} |-> @[i]]]
           u == OnUpdateFunction(a, cmd, m.error)
           w == Subscribe(a, m.idx, m.term, cmd)
<1>1. m.term \in 0..MaxTerm
  BY MessageFields
<1>2. CASE m.id \notin DOMAIN r.waitingReply
  BY <1>2 DEF OnApplyCommandResponse
<1>3. CASE m.id \in DOMAIN r.waitingReply
  <2>1. cmd \in C
    BY <1>3 DEF Good, NodeOK
  <2>2. /\ Frame(r, a, {"waitingReply"})
        /\ a.waitingReply = [i \in DOMAIN r.waitingReply \ {m.id} |-> r.waitingReply[i]]
    BY DEF Frame, Shaped, Fields, Good, NodeOK
  <2>3. OnApplyCommandResponse(r, m) =
          IF m.error # None THEN u ELSE IF m.idx > r.applied THEN w ELSE [a EXCEPT !.alive = FALSE]
    BY <1>3 DEF OnApplyCommandResponse
  <2> HIDE DEF a, cmd
  <2>4. \A i \in DOMAIN a.waitingReply : a.waitingReply[i] \in C
    BY <2>2 DEF Good, NodeOK
  <2>5. Good(n, a, H, C)
    BY <2>2, <2>4 DEF Good, NodeOK, Fresh, Frame, Fields
  <2>6. Good(n, u, H, C)
    <3>1. Frame(a, u, {"calls", "alive"}) /\ u.alive \in BOOLEAN /\ (u.alive => a.alive)
      BY <2>5, OnUpdateFunctionFrame DEF Good, NodeOK
    <3> HIDE DEF u
    <3> QED BY <2>5, <3>1, CallsFrameGood
  <2>7. Good(n, w, H, C)
    BY <1>1, <2>1, <2>5, SubscribeGood
  <2>8. Good(n, [a EXCEPT !.alive = FALSE], H, C)
    BY <2>5, RaiseGood
  <2> HIDE DEF u, w
  <2> QED BY <2>3, <2>6, <2>7, <2>8
<1> QED BY <1>2, <1>3

LEMMA OnBecomeLeaderGood ==
  ASSUME NEW n \in Node, NEW r, NEW H, NEW C, History(H, C), Good(n, r, H, C), r.state = "CANDIDATE"
  PROVE  Good(n, OnBecomeLeader(n, r), H, C) /\ Still(n, r, OnBecomeLeader(n, r))
<1> DEFINE a == [r EXCEPT !.leader = n, !.state = "LEADER"]
           b == [a EXCEPT !.next = [p \in Peer(n) |-> CurrentLogIndex(a.log) + 1], !.match = [p \in Peer(n) |-> 0]]
           s == SendAppendEntries(n, b, FALSE)
<1>1. Frame(r, a, {"leader", "state"}) /\ a.leader = n /\ a.state = "LEADER"
  BY DEF Frame, Shaped, Fields, Good, NodeOK
<1>2. OnBecomeLeader(n, r) = IF a.alive THEN IF a.log = <<>> THEN [a EXCEPT !.alive = FALSE] ELSE s ELSE a
  <2> DEFINE W(t) == SendAppendEntries(n, [t EXCEPT !.next = [p \in Peer(n) |-> CurrentLogIndex(t.log) + 1],
                                                    !.match = [p \in Peer(n) |-> 0]], FALSE)
  <2>1. OnBecomeLeader(n, r) = Indexed(a, W)
    BY DEF OnBecomeLeader
  <2>2. W(a) = s
    OBVIOUS
  <2> HIDE DEF W, a, s
  <2>3. Indexed(a, W) = IF a.alive THEN IF a.log = <<>> THEN [a EXCEPT !.alive = FALSE] ELSE W(a) ELSE a
    BY DEF Indexed, Then
  <2> QED BY <2>1, <2>2, <2>3
<1> HIDE DEF a
<1>3. Good(n, a, H, C)
  <2>1. NodeOK(n, a, H, C)
    BY <1>1 DEF Good, NodeOK, Frame, Fields
  <2>2. \A x \in H : x.by = n => r.term > x.entry.term
    BY DEF Good, Fresh
  <2>3. a.term = r.term
    BY <1>1 DEF Frame, Fields
  <2>4. Fresh(n, a, H)
    BY <2>2, <2>3 DEF Fresh
  <2> QED BY <2>1, <2>4 DEF Good
<1>5. Still(n, r, a)
  BY <1>1, FrameStill DEF Frame, Fields, QuietFields
<1>4. ASSUME a.log # <<>> PROVE Good(n, s, H, C) /\ Still(n, a, s)
  <2> DEFINE next == CurrentLogIndex(a.log) + 1
  <2>1. next \in Nat
    <3>1. Fits(a.log, H)
      BY <1>3 DEF Good, NodeOK
    <3> QED BY <1>4, <3>1, CurrentLog
  <2>2. Frame(a, b, {"next", "match"}) /\ b.next = [p \in Peer(n) |-> next]
    BY <1>3 DEF Frame, Shaped, Fields, Good, NodeOK
  <2> HIDE DEF b, next
  <2>3. b.next \in [Peer(n) -> Nat]
    BY <2>1, <2>2
  <2>4. Good(n, b, H, C) /\ b.log # <<>>
    BY <1>3, <1>4, <2>2, <2>3 DEF Good, NodeOK, Fresh, Frame, Fields
  <2>5. Still(n, a, b)
    BY <2>2, FrameStill DEF Frame, Fields, QuietFields
  <2>6. Good(n, s, H, C) /\ Still(n, b, s)
    BY <2>4, SendAppendEntriesGood
  <2> HIDE DEF s
  <2> QED BY <2>5, <2>6, StillTrans
<1> DEFINE y == [a EXCEPT !.alive = FALSE]
<1>6. Good(n, y, H, C) /\ Still(n, a, y) /\ Still(n, a, a)
  BY <1>3, RaiseGood, StillSame
<1> HIDE DEF s, y
<1>7. OnBecomeLeader(n, r) = y \/ (a.log # <<>> /\ OnBecomeLeader(n, r) = s) \/ OnBecomeLeader(n, r) = a
  BY <1>2 DEF y
<1>8. Good(n, OnBecomeLeader(n, r), H, C) /\ Still(n, a, OnBecomeLeader(n, r))
  BY <1>3, <1>4, <1>6, <1>7
<1> QED BY <1>5, <1>8, StillTrans

LEMMA OnResponseVoteGood ==
  ASSUME NEW n \in Node, NEW r, NEW H, NEW C, History(H, C), Good(n, r, H, C), NEW m
  PROVE  Good(n, OnResponseVote(n, r, m), H, C) /\ Still(n, r, OnResponseVote(n, r, m))
<1> DEFINE a == [r EXCEPT !.votes = @ + 1]
<1>1. Frame(r, a, {"votes"})
  BY DEF Frame, Shaped, Fields, Good, NodeOK
<1>2. CASE r.state # "CANDIDATE" \/ m.term # r.term
  BY <1>2, StillSame DEF OnResponseVote
<1>3. CASE r.state = "CANDIDATE" /\ m.term = r.term
  <2>1. OnResponseVote(n, r, m) = IF Majority(a.votes) THEN OnBecomeLeader(n, a) ELSE a
    BY <1>3 DEF OnResponseVote
  <2> HIDE DEF a
  <2>2. Good(n, a, H, C) /\ a.state = "CANDIDATE"
    BY <1>1, <1>3 DEF Good, NodeOK, Fresh, Frame, Fields
  <2>3. Still(n, r, a)
    BY <1>1, FrameStill DEF Frame, Fields, QuietFields
  <2> QED BY <2>1, <2>2, <2>3, OnBecomeLeaderGood, StillTrans
<1> QED BY <1>2, <1>3

LEMMA OnNextNodeIdxGood ==
  ASSUME NEW n \in Node, NEW r, NEW H, NEW C, Good(n, r, H, C), NEW from \in Peer(n),
         NEW m \in Message(H, C), m.type = "next_node_idx"
  PROVE  Good(n, OnNextNodeIdx(r, from, m), H, C) /\ Still(n, r, OnNextNodeIdx(r, from, m))
<1> DEFINE s == [r EXCEPT !.match[from] = m.next - 1, !.next[from] = IF m.reset THEN m.next ELSE @]
<1>1. m.next \in Nat /\ r.next \in [Peer(n) -> Nat]
  BY MessageFields DEF Good, NodeOK
<1>2. /\ Frame(r, s, {"match", "next"})
      /\ s.next = [r.next EXCEPT ![from] = IF m.reset THEN m.next ELSE r.next[from]]
  BY DEF Frame, Shaped, Fields, Good, NodeOK
<1>3. OnNextNodeIdx(r, from, m) = IF r.state # "LEADER" THEN r ELSE s
  BY DEF OnNextNodeIdx
<1> HIDE DEF s
<1>4. s.next \in [Peer(n) -> Nat]
  BY <1>1, <1>2
<1>5. Good(n, s, H, C)
  BY <1>2, <1>4 DEF Good, NodeOK, Fresh, Frame, Fields
<1>6. Still(n, r, s)
  BY <1>2, FrameStill DEF Frame, Fields, QuietFields
<1> QED BY <1>3, <1>5, <1>6, StillSame

LEMMA OnMessageReceivedGood ==
  ASSUME NEW n \in Node, NEW r, NEW H, NEW C, History(H, C), Good(n, r, H, C), NEW from \in Peer(n),
         NEW m \in Message(H, C), m # Hello
  PROVE  Good(n, OnMessageReceived(n, r, from, m), H, C)
<1>1. from \in Node
  BY DEF Peer
<1>2. m.type \in {"request_vote", "response_vote", "append_entries", "next_node_idx",
                  "apply_command", "apply_command_response"}
  BY MessageFields
<1>3. CASE m.type = "request_vote"
  BY <1>3, OnRequestVoteGood DEF OnMessageReceived
<1>4. CASE m.type = "append_entries"
  BY <1>1, <1>4, OnAppendEntriesGood DEF OnMessageReceived
<1>5. CASE m.type = "apply_command"
  BY <1>1, <1>5, MessageFields, ApplyCommandGood DEF OnMessageReceived
<1>6. CASE m.type = "apply_command_response"
  BY <1>6, OnApplyCommandResponseGood DEF OnMessageReceived
<1>7. CASE m.type = "response_vote"
  BY <1>7, OnResponseVoteGood DEF OnMessageReceived
<1>8. CASE m.type = "next_node_idx"
  BY <1>8, OnNextNodeIdxGood DEF OnMessageReceived
<1> QED BY <1>2, <1>3, <1>4, <1>5, <1>6, <1>7, <1>8

---------------------------------------------------------------------------
(* The channels.                                                            *)

ChansOK(ch, M) == ch = [a \in Node |-> ch[a]] /\ \A a \in Node : ch[a] \in [Peer(a) -> Seq(M)]

LEMMA FromHelloOK ==
  ASSUME NEW M, NEW q \in Seq(M)
  PROVE  /\ FromHello(q) \in Seq(M)
         /\ Hello \in Range(q) => FromHello(q) # <<>> /\ Tail(FromHello(q)) \in Seq(M)
<1> DEFINE I == {i \in 1..Len(q) : q[i] = Hello}
           k == SelectInSeq(q, LAMBDA m : m = Hello)
<1>1. CASE Hello \notin Range(q)
  BY <1>1 DEF FromHello
<1>2. CASE Hello \in Range(q)
  <2>1. I # {} /\ I \subseteq Nat
    BY <1>2 DEF Range
  <2>2. PICK i \in I : \A j \in I : i <= j
    BY <2>1, LeastNat
  <2>3. Min(I) \in I
    BY <2>2 DEF Min
  <2>4. k = Min(I)
    BY <2>1 DEF SelectInSeq
  <2> HIDE DEF k
  <2>5. k \in 1..Len(q) /\ Len(q) \in Nat
    BY <2>3, <2>4
  <2>6. FromHello(q) = SubSeq(q, k, Len(q))
    BY <1>2 DEF FromHello, k
  <2>7. SubSeq(q, k, Len(q)) \in Seq(M) /\ Len(SubSeq(q, k, Len(q))) = Len(q) - k + 1
    <3>1. \A j \in k..Len(q) : j \in 1..Len(q)
      BY <2>5
    <3> QED BY <2>5, <3>1
  <2>8. SubSeq(q, k, Len(q)) # <<>>
    BY <2>5, <2>7
  <2> HIDE DEF I
  <2>9. Tail(SubSeq(q, k, Len(q))) \in Seq(M)
    BY <2>7, <2>8
  <2> QED BY <2>6, <2>7, <2>8, <2>9
<1> QED BY <1>1, <1>2

LEMMA DeliverOK ==
  ASSUME NEW M, ChansOK(chan, M), NEW n \in Node, NEW out \in [Peer(n) -> Seq(M)]
  PROVE  /\ ChansOK(Deliver(n, out), M)
         /\ \A a \in Node \ {n} : Deliver(n, out)[a] = chan[a]
<1> DEFINE x == [p \in Peer(n) |-> IF status[n][p] = "connected" THEN chan[n][p] \o out[p] ELSE chan[n][p]]
<1>1. Deliver(n, out) = [chan EXCEPT ![n] = x]
  BY DEF Deliver
<1>2. \A p \in Peer(n) : chan[n][p] \in Seq(M) /\ chan[n][p] \o out[p] \in Seq(M)
  BY DEF ChansOK
<1>3. x \in [Peer(n) -> Seq(M)]
  BY <1>2
<1> HIDE DEF x
<1> QED BY <1>1, <1>3 DEF ChansOK

LEMMA ReadableOK ==
  ASSUME NEW M, NEW ch, ChansOK(ch, M)
  PROVE  ChansOK(Readable(ch), M)
<1>1. \A a \in Node : \A p \in Peer(a) : ch[a][p] \in Seq(M) /\ <<>> \in Seq(M)
  BY DEF ChansOK
<1> QED BY <1>1 DEF ChansOK, Readable

LEMMA OneChannelOK ==
  ASSUME NEW M, NEW ch, ChansOK(ch, M), NEW n \in Node, NEW p \in Peer(n), NEW q \in Seq(M)
  PROVE  ChansOK([ch EXCEPT ![p][n] = q], M)
<1>1. p \in Node /\ n \in Peer(p)
  BY DEF Peer
<1> QED BY <1>1 DEF ChansOK

---------------------------------------------------------------------------
(* The invariant: what every node, message and channel holds is known.      *)

StatusOK == status = [n \in Node |-> status[n]] /\ \A n \in Node : status[n] \in [Peer(n) -> StatusValue]

Known(H) ==
    /\ History(H, called)
    /\ obj = [n \in Node |-> obj[n]] /\ \A n \in Node : Good(n, obj[n], H, called)
    /\ ChansOK(chan, Message(H, called))
    /\ StatusOK
    /\ dumps \in 0..MaxCompactions /\ breaks \in 0..MaxBreaks

AllKnown == \E H : Known(H)

(* The noop entry that every log starts with.                               *)
Origin == {Link([cmd |-> None, idx |-> 1, term |-> 0], 0, None)}

LEMMA InitKnown == Init => Known(Origin)
<1> SUFFICES ASSUME Init PROVE Known(Origin)
  OBVIOUS
<1> DEFINE e == [cmd |-> None, idx |-> 1, term |-> 0]
           H == {Link(e, 0, None)}
           C == {}
<1>1. e \in Entry /\ e.idx = 1 /\ 0 \in 0..MaxTerm /\ e.term = 0
  BY BoundAssumption DEF Entry
<1> HIDE DEF e
<1>2. History(H, {})
  <2>1. Link(e, 0, None) \in LinkSet /\ Link(e, 0, None).entry = e
    BY <1>1 DEF Link, LinkSet
  <2>2. ~(1 >= 2)
    OBVIOUS
  <2>3. \A x \in H : x = Link(e, 0, None)
    OBVIOUS
  <2> QED BY <1>1, <2>1, <2>2, <2>3 DEF History
<1>3. Fits(<<e>>, H)
  <2>1. Has(H, e, 0)
    BY DEF Has, Link
  <2> HIDE DEF H
  <2> QED BY <1>1, <2>1, FitsOne
<1>4. ASSUME NEW n \in Node PROVE Good(n, InitObj(n), H, {})
  <2> DEFINE r == InitObj(n)
  <2>1. /\ Shaped(r) /\ r.state = "FOLLOWER" /\ r.term = 0 /\ r.leader = None /\ r.log = <<e>>
        /\ r.commit = 1 /\ r.applied = 1 /\ r.next = [p \in Peer(n) |-> 0] /\ r.queue = <<>>
        /\ r.waitingCommit = <<>> /\ r.waitingReply = <<>> /\ r.counter = 0 /\ r.dump = <<>>
        /\ r.dumpId = 0 /\ r.dumping = FALSE /\ r.incoming = None
        /\ r.transmissions = [p \in Peer(n) |-> None] /\ r.data = <<>> /\ r.alive = TRUE
        /\ r.out = [p \in Peer(n) |-> <<>>]
    BY DEF InitObj, Shaped, Fields, e
  <2> HIDE DEF r
  <2>2. /\ r.next \in [Peer(n) -> Nat] /\ r.transmissions \in [Peer(n) -> Transmission(H, C) \cup {None}]
        /\ r.out \in [Peer(n) -> Seq(Message(H, C))]
    <3>1. <<>> \in Seq(Message(H, C))
      OBVIOUS
    <3> QED BY <2>1, <3>1
  <2>3. r.queue \in Seq(Request(C)) /\ r.data \in Seq(C) /\ Len(r.data) = r.applied - 1 /\ Traced(r.data, H)
    BY <2>1 DEF Traced
  <2>4. r.dump \in Bytes(H, C)
    <3> DEFINE P == [snap : Snap(H, C), part : Nat]
    <3>1. <<>> \in Seq(P)
      <4> HIDE DEF P
      <4> QED OBVIOUS
    <3> QED BY <2>1, <3>1 DEF Bytes
  <2>5. DOMAIN r.waitingCommit = {} /\ DOMAIN r.waitingReply = {}
    BY <2>1
  <2>6. NodeOK(n, r, H, C)
    <3> HIDE DEF H, C
    <3>1. r.commit \in Nat /\ r.applied \in Nat \ {0} /\ r.counter \in Nat /\ r.dumpId \in Nat
      BY <2>1
    <3>4. r.dumping \in BOOLEAN /\ r.alive \in BOOLEAN
      BY <2>1, Zenon
    <3>2. Fits(r.log, H) /\ r.term \in 0..MaxTerm /\ r.incoming \in Bytes(H, C) \cup {None}
      BY <1>1, <1>3, <2>1
    <3>3. r.leader \in Node \cup {None} /\ r.state = "FOLLOWER" /\ Shaped(r)
      BY <2>1
    <3> QED BY <3>1, <3>2, <3>3, <3>4, <2>2, <2>3, <2>4, <2>5 DEF NodeOK
  <2>7. Fresh(n, r, H)
    BY NoneAssumption DEF Fresh, Link
  <2> QED BY <2>6, <2>7 DEF Good, r
<1>5. ChansOK(chan, Message(H, {}))
  <2>1. <<>> \in Seq(Message(H, {}))
    OBVIOUS
  <2> QED BY <2>1 DEF Init, LinkInit, ChansOK
<1>6. StatusOK
  BY DEF Init, LinkInit, StatusOK, StatusValue
<1>7. dumps \in 0..MaxCompactions /\ breaks \in 0..MaxBreaks /\ called = {}
  BY BoundAssumption, BreaksAssumption DEF Init, LinkInit
<1>8. obj = [n \in Node |-> obj[n]] /\ \A n \in Node : Good(n, obj[n], H, {})
  BY <1>4 DEF Init
<1> HIDE DEF H
<1>9. Known(H)
  BY <1>2, <1>5, <1>6, <1>7, <1>8 DEF Known
<1> QED BY <1>9 DEF H, e, Origin

LEMMA OthersGood ==
  ASSUME NEW n \in Node, NEW m \in Node, m # n, NEW r, NEW s, NEW H, NEW K, NEW C,
         Grow(n, s, H, K, C), Good(m, r, H, C)
  PROVE  Good(m, r, K, C)
<1>1. NodeOK(m, r, K, C)
  BY NodeOKMono DEF Grow, Good
<1>2. \A x \in K : x.by = m => x \in H
  BY DEF Grow, Appends
<1>3. Fresh(m, r, K)
  BY <1>2 DEF Fresh, Good
<1> QED BY <1>1, <1>3 DEF Good

(* Node n ends a step with a good record.                                   *)
LEMMA BecomeGood ==
  ASSUME NEW n \in Node, NEW r, NEW s0, NEW H, NEW K, NEW C, obj = [m \in Node |-> obj[m]],
         \A m \in Node : Good(m, obj[m], H, C), Grow(n, s0, H, K, C), Good(n, r, K, C), Become(n, r)
  PROVE  obj' = [m \in Node |-> obj'[m]] /\ \A m \in Node : Good(m, obj'[m], K, C)
<1> DEFINE s == [r EXCEPT !.out = [p \in Peer(n) |-> <<>>], !.calls = <<>>]
<1>1. obj' = [obj EXCEPT ![n] = s]
  BY DEF Become
<1>2. Frame(r, s, {"out", "calls"}) /\ s.out = [p \in Peer(n) |-> <<>>]
  BY DEF Frame, Shaped, Fields, Good, NodeOK
<1> HIDE DEF s
<1>3. s.out \in [Peer(n) -> Seq(Message(K, C))]
  <2>1. <<>> \in Seq(Message(K, C))
    OBVIOUS
  <2> QED BY <1>2, <2>1
<1>4. Good(n, s, K, C)
  BY <1>2, <1>3 DEF Good, NodeOK, Fresh, Frame, Fields
<1>5. \A m \in Node : m # n => Good(m, obj[m], K, C)
  BY OthersGood
<1> QED BY <1>1, <1>4, <1>5

LEMMA KnownSame ==
  ASSUME NEW n, NEW r, NEW H, NEW C, History(H, C)
  PROVE  Grow(n, r, H, H, C)
BY DEF Grow

LEMMA PsoAppendKnown ==
  ASSUME NEW H, Known(H), NEW n \in Node, NEW c \in Command, PsoAppend(n, c)
  PROVE  Known(H)'
<1> DEFINE D == called \cup {c}
           r == ApplyCommand(obj[n], c, None, 0)
<1>1. called' = D /\ Become(n, r) /\ UNCHANGED <<dumps, status, chan, breaks>>
  BY DEF PsoAppend
<1>2. History(H, D) /\ called \subseteq D /\ c \in D
  BY DEF Known, History
<1> HIDE DEF D
<1>3. \A m \in Node : Good(m, obj[m], H, D)
  BY <1>2, NodeOKMono DEF Known, Good
<1>4. Good(n, r, H, D)
  BY <1>2, <1>3, ApplyCommandGood
<1> HIDE DEF r
<1>5. obj' = [m \in Node |-> obj'[m]] /\ \A m \in Node : Good(m, obj'[m], H, D)
  <2>1. obj = [m \in Node |-> obj[m]]
    BY DEF Known
  <2> QED BY <1>1, <1>2, <1>3, <1>4, <2>1, KnownSame, BecomeGood
<1>6. ChansOK(chan', Message(H, D))
  <2>1. Seq(Message(H, called)) \subseteq Seq(Message(H, D))
    BY <1>2, MessageMono
  <2> QED BY <1>1, <2>1 DEF Known, ChansOK
<1>7. StatusOK' /\ (dumps \in 0..MaxCompactions)' /\ (breaks \in 0..MaxBreaks)'
  BY <1>1 DEF Known, StatusOK
<1>8. History(H, called') /\ (\A m \in Node : Good(m, obj'[m], H, called')) /\ ChansOK(chan', Message(H, called'))
  BY <1>1, <1>2, <1>5, <1>6
<1> QED BY <1>5, <1>7, <1>8 DEF Known

LEMMA ReceiveKnown ==
  ASSUME NEW H, Known(H), NEW n \in Node, NEW p \in Peer(n), Receive(n, p)
  PROVE  Known(H)'
<1> DEFINE M == Message(H, called)
           m == Head(chan[p][n])
           r == OnMessageReceived(n, obj[n], p, m)
           ch == [Deliver(n, r.out) EXCEPT ![p][n] = Tail(@)]
<1>1. /\ chan[p][n] # <<>> /\ m # Hello /\ Become(n, r) /\ chan' = Readable(ch)
      /\ UNCHANGED <<called, dumps, status, breaks>>
  BY DEF Receive, CanRead
<1>2. p \in Node /\ n \in Peer(p) /\ p # n
  BY DEF Peer
<1>3. chan[p][n] \in Seq(M) /\ ChansOK(chan, M)
  BY <1>2 DEF Known, ChansOK
<1> HIDE DEF M
<1>4. m \in M /\ Tail(chan[p][n]) \in Seq(M)
  <2> DEFINE q == chan[p][n]
  <2>1. q \in Seq(M) /\ q # <<>>
    BY <1>1, <1>3
  <2> HIDE DEF q
  <2>2. Head(q) \in M /\ Tail(q) \in Seq(M)
    BY <2>1
  <2> QED BY <2>2 DEF q
<1>5. Good(n, r, H, called)
  <2> HIDE DEF m
  <2> QED BY <1>1, <1>4, OnMessageReceivedGood DEF Known, M
<1> HIDE DEF r, m
<1>6. obj' = [a \in Node |-> obj'[a]] /\ \A a \in Node : Good(a, obj'[a], H, called)
  <2>1. obj = [a \in Node |-> obj[a]] /\ (\A a \in Node : Good(a, obj[a], H, called)) /\ History(H, called)
    BY DEF Known
  <2> QED BY <1>1, <1>5, <2>1, KnownSame, BecomeGood
<1>7. ChansOK(chan', M)
  <2> DEFINE d == Deliver(n, r.out)
  <2>1. r.out \in [Peer(n) -> Seq(M)]
    BY <1>5 DEF Good, NodeOK, M
  <2>2. ChansOK(d, M) /\ d[p] = chan[p]
    BY <1>2, <1>3, <2>1, DeliverOK
  <2> HIDE DEF d
  <2>3. ch = [d EXCEPT ![p][n] = Tail(chan[p][n])]
    BY <2>2 DEF d
  <2> HIDE DEF ch
  <2>4. ChansOK(ch, M)
    <3> DEFINE q == Tail(chan[p][n])
    <3>1. ch = [d EXCEPT ![p][n] = q] /\ q \in Seq(M)
      BY <1>4, <2>3
    <3> HIDE DEF q
    <3> QED BY <2>2, <3>1, OneChannelOK
  <2> QED BY <1>1, <2>4, ReadableOK
<1>8. StatusOK' /\ (dumps \in 0..MaxCompactions)' /\ (breaks \in 0..MaxBreaks)'
  BY <1>1 DEF Known, StatusOK
<1>9. History(H, called') /\ (\A a \in Node : Good(a, obj'[a], H, called')) /\ ChansOK(chan', Message(H, called'))
  BY <1>1, <1>6, <1>7 DEF Known, M
<1> QED BY <1>6, <1>8, <1>9 DEF Known

LEMMA LinkKnown ==
  ASSUME NEW H, Known(H), NEW n \in Node, NEW p \in Peer(n), LinkBreak(n, p) \/ LinkRepair(n, p)
  PROVE  Known(H)'
<1> DEFINE M == Message(H, called)
           q == chan[p][n]
<1>1. UNCHANGED <<obj, called, dumps>>
  BY DEF LinkBreak, LinkRepair
<1>2. p \in Node /\ n \in Peer(p) /\ p # n
  BY DEF Peer
<1>3. q \in Seq(M) /\ chan[n][p] \in Seq(M) /\ ChansOK(chan, M) /\ StatusOK /\ breaks \in 0..MaxBreaks
      /\ MaxBreaks \in Nat
  BY <1>2, BreaksAssumption DEF Known, ChansOK
<1>4. Hello \in M
  BY DEF Message
<1> HIDE DEF M
<1>5. ChansOK(chan', M) /\ StatusOK' /\ breaks' \in 0..MaxBreaks
  <2>1. CASE LinkBreak(n, p)
    <3>1. /\ breaks < MaxBreaks /\ breaks' = breaks + 1 /\ chan' = chan
          /\ status' = [status EXCEPT ![n][p] = "broken", ![p][n] = "broken"]
      BY <2>1 DEF LinkBreak, Break
    <3>2. StatusOK'
      BY <1>2, <1>3, <3>1 DEF StatusOK, StatusValue
    <3> QED BY <1>3, <3>1, <3>2
  <2>2. CASE LoseConnection(n, p)
    <3>1. /\ breaks' = breaks /\ chan' = [chan EXCEPT ![p][n] = FromHello(q)]
          /\ status' = [status EXCEPT ![n][p] = "disconnected"]
      BY <2>2 DEF LoseConnection
    <3>2. StatusOK'
      BY <1>2, <1>3, <3>1 DEF StatusOK, StatusValue
    <3>3. FromHello(q) \in Seq(M)
      BY <1>3, FromHelloOK
    <3> QED BY <1>3, <3>1, <3>2, <3>3, OneChannelOK
  <2>3. CASE Connected(n, p)
    <3>1. /\ breaks' = breaks /\ chan' = [chan EXCEPT ![n][p] = Append(chan[n][p], Hello)]
          /\ status' = [status EXCEPT ![n][p] = "connected"]
      BY <2>3 DEF Connected
    <3>2. StatusOK'
      BY <1>2, <1>3, <3>1 DEF StatusOK, StatusValue
    <3>3. Append(chan[n][p], Hello) \in Seq(M)
      BY <1>3, <1>4
    <3> QED BY <1>2, <1>3, <3>1, <3>2, <3>3, OneChannelOK
  <2>4. CASE OnPartnerConnected(n, p)
    <3>1. /\ breaks' = breaks /\ chan' = [chan EXCEPT ![p][n] = Tail(FromHello(q))] /\ Hello \in Range(q)
          /\ status' = [status EXCEPT ![n][p] = "connected"]
      BY <2>4 DEF OnPartnerConnected
    <3>2. StatusOK'
      BY <1>2, <1>3, <3>1 DEF StatusOK, StatusValue
    <3>3. Tail(FromHello(q)) \in Seq(M)
      BY <1>3, <3>1, FromHelloOK
    <3> QED BY <1>3, <3>1, <3>2, <3>3, OneChannelOK
  <2> QED BY <2>1, <2>2, <2>3, <2>4 DEF LinkRepair
<1>6. History(H, called') /\ obj' = [a \in Node |-> obj'[a]]
      /\ (\A a \in Node : Good(a, obj'[a], H, called')) /\ ChansOK(chan', Message(H, called'))
  BY <1>1, <1>5 DEF Known, M
<1>7. (dumps \in 0..MaxCompactions)'
  BY <1>1 DEF Known
<1> QED BY <1>5, <1>6, <1>7 DEF Known


---------------------------------------------------------------------------
(* The places of requests and of callbacks.                                 *)

(* What a callback may be told.                                             *)
Outcome == {"SUCCESS", "LEADER_CHANGED", "DISCARDED", "QUEUE_FULL", "NOT_LEADER"}
Call == [cmd : Command, err : Outcome]

(* The requests in the queue of n after the first k, which are dealt with.  *)
(* A request that came from a client has its callback there.                *)
QueueHeld(n, q, k, W, U) ==
    \A i \in (k + 1)..Len(q) :
        /\ W[q[i].cmd] = <<n, n>>
        /\ \A j \in (k + 1)..Len(q) : q[j].cmd = q[i].cmd => j = i
        /\ q[i].from = None => Caller[q[i].cmd] = n /\ U[q[i].cmd] = <<"queue", 0>>

(* The callbacks that wait for the leader's reply, by the id of the request.*)
RepliesHeld(n, w, U) == \A i \in DOMAIN w : i \in Nat /\ Caller[w[i]] = n /\ U[w[i]] = <<"reply", i>>

(* The callbacks that wait for an index.                                    *)
ListHeld(n, l, i, U) ==
    \A j \in 1..Len(l) : /\ Caller[l[j].cmd] = n /\ U[l[j].cmd] = <<"commit", i>>
                         /\ \A k \in 1..Len(l) : l[k].cmd = l[j].cmd => k = j
CommitsHeld(n, w, U) == \A i \in DOMAIN w : ListHeld(n, w[i], i, U)

(* The requests among the messages q, which come after those of sent.       *)
SentHeld(q, sent, at, W) ==
    \A i \in Asks(q) : /\ q[i].cmd \in Command /\ W[q[i].cmd] = at
                       /\ \A j \in Asks(q) : q[j].cmd = q[i].cmd => j = i
                       /\ \A j \in Asks(sent) : sent[j].cmd # q[i].cmd
AsksHeld(n, out, W) ==
    \A p \in Peer(n) : SentHeld(chan[n][p], <<>>, <<n, p>>, W) /\ SentHeld(out[p], chan[n][p], <<n, p>>, W)

(* The callbacks n calls in this step.                                      *)
CallsHeld(n, calls, U) ==
    /\ calls \in Seq(Call)
    /\ \A i \in 1..Len(calls) :
        /\ Caller[calls[i].cmd] = n /\ U[calls[i].cmd] = <<"told", 0>> /\ answers[calls[i].cmd] = <<>>
        /\ \A j \in 1..Len(calls) : calls[j].cmd = calls[i].cmd => j = i

(* The record r of n in the middle of a handler, with q for its queue.      *)
Held(n, r, q, k, W, U) ==
    /\ r.alive => /\ QueueHeld(n, q, k, W, U)
                  /\ RepliesHeld(n, r.waitingReply, U) /\ CommitsHeld(n, r.waitingCommit, U)
    /\ AsksHeld(n, r.out, W) /\ CallsHeld(n, r.calls, U)

(* Who was answered has no callback any more.                               *)
AnswersHeld(U) ==
    /\ answers \in [Command -> Seq(Outcome)]
    /\ \A c \in Command : answers[c] # <<>> => U[c] = <<"told", 0>>

(* A command of a link is in the logs, and in no other link.                *)
LogHeld(H, W) ==
    \A x, y \in H : x.entry.idx >= 2 /\ y.entry.idx >= 2 =>
        W[x.entry.cmd] = <<None, None>> /\ (x.entry.cmd = y.entry.cmd => x = y)

Map(U) == U = [c \in Command |-> U[c]]

(* From U to V only callbacks of n move, and none that is not there.        *)
Turns(n, U, V) ==
    Map(V) /\ \A c \in Command : Caller[c] # n \/ U[c] = <<"told", 0>> \/ U[c] = <<"new", 0>> => V[c] = U[c]

(* From W to X only requests move that were in the queue of n.              *)
Moves(n, W, X) == Map(X) /\ \A c \in Command : W[c] # <<n, n>> => X[c] = W[c]

LEMMA TurnsTrans ==
  ASSUME NEW n, NEW U, NEW V, NEW X, Turns(n, U, V), Turns(n, V, X)
  PROVE  Turns(n, U, X)
BY DEF Turns

LEMMA TurnsSame ==
  ASSUME NEW n, NEW U, Map(U)
  PROVE  Turns(n, U, U)
BY DEF Turns

LEMMA MovesTrans ==
  ASSUME NEW n, NEW U, NEW V, NEW X, Moves(n, U, V), Moves(n, V, X)
  PROVE  Moves(n, U, X)
BY DEF Moves

LEMMA TurnsAnswers ==
  ASSUME NEW n, NEW U, NEW V, Turns(n, U, V), AnswersHeld(U)
  PROVE  AnswersHeld(V)
BY DEF Turns, AnswersHeld

LEMMA AsksSame ==
  ASSUME NEW q, NEW u, SameAsks(q, u)
  PROVE  Asks(u) = Asks(q) /\ \A i \in Asks(q) : u[i].cmd = q[i].cmd
BY DEF SameAsks

(* A handler that moves nothing.                                            *)
LEMMA HeldStill ==
  ASSUME NEW n \in Node, NEW r, NEW s, NEW q, NEW k, NEW W, NEW U, Held(n, r, q, k, W, U), Still(n, r, s)
  PROVE  Held(n, s, q, k, W, U)
<1>1. /\ s.waitingReply = r.waitingReply /\ s.waitingCommit = r.waitingCommit /\ s.calls = r.calls
      /\ (s.alive => r.alive) /\ \A p \in Peer(n) : SameAsks(r.out[p], s.out[p])
  BY DEF Still
<1>2. \A p \in Peer(n) : Asks(s.out[p]) = Asks(r.out[p]) /\ \A i \in Asks(r.out[p]) : s.out[p][i].cmd = r.out[p][i].cmd
  BY <1>1, AsksSame
<1>3. AsksHeld(n, s.out, W)
  <2>1. AsksHeld(n, r.out, W)
    BY DEF Held
  <2>2. \A p \in Peer(n) : SentHeld(s.out[p], chan[n][p], <<n, p>>, W)
    <3> SUFFICES ASSUME NEW p \in Peer(n) PROVE SentHeld(s.out[p], chan[n][p], <<n, p>>, W)
      OBVIOUS
    <3> DEFINE u == r.out[p]
               v == s.out[p]
               at == <<n, p>>
    <3>1. SentHeld(u, chan[n][p], at, W)
      BY <2>1 DEF AsksHeld
    <3>2. Asks(v) = Asks(u) /\ \A i \in Asks(u) : v[i].cmd = u[i].cmd
      BY <1>2
    <3> HIDE DEF u, v, at
    <3>3. SentHeld(v, chan[n][p], at, W)
      BY <3>1, <3>2 DEF SentHeld
    <3> QED BY <3>3 DEF v, at
  <2> QED BY <2>1, <2>2 DEF AsksHeld
<1> QED BY <1>1, <1>3 DEF Held

(* One more callback.                                                       *)
LEMMA CallsGrow ==
  ASSUME NEW n \in Node, NEW calls, NEW U, Map(U), AnswersHeld(U), CallsHeld(n, calls, U),
         NEW c \in Command, Caller[c] = n, U[c] # <<"told", 0>>, U[c] # <<"new", 0>>, NEW err \in Outcome,
         NEW V, V = [U EXCEPT ![c] = <<"told", 0>>]
  PROVE  Turns(n, U, V) /\ CallsHeld(n, Append(calls, [cmd |-> c, err |-> err]), V)
<1> DEFINE x == [cmd |-> c, err |-> err]
           l == Append(calls, x)
<1>1. V[c] = <<"told", 0>> /\ Map(V) /\ \A d \in Command : d # c => V[d] = U[d]
  BY DEF Map
<1>2. Turns(n, U, V)
  BY <1>1 DEF Turns
<1>3. x \in Call /\ x.cmd = c
  BY DEF Call
<1> HIDE DEF x
<1>4. calls \in Seq(Call) /\ Len(calls) \in Nat /\ l \in Seq(Call) /\ Len(l) = Len(calls) + 1
      /\ l[Len(calls) + 1] = x /\ \A i \in 1..Len(calls) : l[i] = calls[i]
  BY <1>3 DEF CallsHeld
<1> HIDE DEF l
<1>5. \A i \in 1..Len(calls) : calls[i].cmd \in Command /\ calls[i].cmd # c
  <2>1. \A y \in Call : y.cmd \in Command
    BY DEF Call
  <2>2. \A i \in 1..Len(calls) : calls[i] \in Call
    BY <1>4
  <2> QED BY <2>1, <2>2 DEF CallsHeld
<1>6. answers[c] = <<>>
  BY DEF AnswersHeld
<1>7. \A i \in 1..Len(l) : i \in 1..Len(calls) \/ i = Len(calls) + 1
  BY <1>4
<1>8. CallsHeld(n, l, V)
  <2> SUFFICES ASSUME NEW i \in 1..Len(l)
               PROVE  /\ Caller[l[i].cmd] = n /\ V[l[i].cmd] = <<"told", 0>> /\ answers[l[i].cmd] = <<>>
                      /\ \A j \in 1..Len(l) : l[j].cmd = l[i].cmd => j = i
    BY <1>4 DEF CallsHeld
  <2>1. CASE i \in 1..Len(calls)
    <3>1. l[i] = calls[i] /\ calls[i].cmd # c /\ calls[i].cmd \in Command
      BY <2>1, <1>4, <1>5
    <3>2. V[l[i].cmd] = U[calls[i].cmd]
      BY <3>1, <1>1
    <3>3. \A j \in 1..Len(l) : l[j].cmd = l[i].cmd => j \in 1..Len(calls)
      BY <3>1, <1>3, <1>4, <1>7
    <3> QED BY <2>1, <3>1, <3>2, <3>3, <1>4 DEF CallsHeld
  <2>2. CASE i = Len(calls) + 1
    <3>1. l[i].cmd = c
      BY <2>2, <1>3, <1>4
    <3>2. \A j \in 1..Len(l) : l[j].cmd = c => j = i
      BY <2>2, <1>4, <1>5, <1>7
    <3> QED BY <3>1, <3>2, <1>1, <1>6
  <2> QED BY <2>1, <2>2, <1>7
<1> QED BY <1>2, <1>8 DEF l, x

LEMMA UpdateCalls ==
  ASSUME NEW r, Shaped(r), r.alive, NEW cmd, NEW err
  PROVE  /\ OnUpdateFunction(r, cmd, err).calls = Append(r.calls, [cmd |-> cmd, err |-> err])
         /\ OnUpdateFunction(r, cmd, err).alive = (err = "SUCCESS")
<1>1. OnUpdateFunction(r, cmd, err) = [Callback(r, cmd, err) EXCEPT !.alive = (err = "SUCCESS")]
  BY DEF OnUpdateFunction, Then
<1>2. /\ [Callback(r, cmd, err) EXCEPT !.alive = (err = "SUCCESS")].calls = Append(r.calls, [cmd |-> cmd, err |-> err])
      /\ [Callback(r, cmd, err) EXCEPT !.alive = (err = "SUCCESS")].alive = (err = "SUCCESS")
  BY DEF Callback, Shaped, Fields
<1> QED BY <1>1, <1>2

LEMMA DeadUpdate ==
  ASSUME NEW r, ~r.alive, NEW cmd, NEW err
  PROVE  OnUpdateFunction(r, cmd, err) = r
BY DEF OnUpdateFunction, Then

(* A callback that is told of a failure: the tick thread ends.              *)
LEMMA FailureHeld ==
  ASSUME NEW n \in Node, NEW r, NEW H, NEW C, Good(n, r, H, C), NEW q, NEW k, NEW W, NEW U, Map(U),
         AnswersHeld(U), Held(n, r, q, k, W, U), NEW c \in Command, Caller[c] = n, U[c] # <<"told", 0>>, U[c] # <<"new", 0>>,
         NEW err \in Outcome \ {"SUCCESS"}
  PROVE  \E V : Turns(n, U, V) /\ Held(n, OnUpdateFunction(r, c, err), q, k, W, V)
<1> DEFINE s == OnUpdateFunction(r, c, err)
           V == [U EXCEPT ![c] = <<"told", 0>>]
<1>1. Shaped(r) /\ r.alive \in BOOLEAN
  BY DEF Good, NodeOK
<1>2. Frame(r, s, {"calls", "alive"})
  BY <1>1, OnUpdateFunctionFrame
<1>3. CASE r.alive
  <2>1. s.calls = Append(r.calls, [cmd |-> c, err |-> err]) /\ ~s.alive
    <3>1. s.calls = Append(r.calls, [cmd |-> c, err |-> err]) /\ s.alive = (err = "SUCCESS")
      BY <1>1, <1>3, UpdateCalls
    <3>2. err # "SUCCESS"
      OBVIOUS
    <3> HIDE DEF s
    <3> QED BY <3>1, <3>2
  <2> HIDE DEF s, V
  <2>2. s.out = r.out
    BY <1>2 DEF Frame, Fields
  <2>3. Turns(n, U, V) /\ CallsHeld(n, s.calls, V)
    BY <2>1, CallsGrow DEF V, Held
  <2>4. Held(n, s, q, k, W, V)
    BY <2>1, <2>2, <2>3 DEF Held
  <2> QED BY <2>3, <2>4 DEF s
<1>4. CASE ~r.alive
  <2>1. s = r
    BY <1>4, DeadUpdate
  <2> QED BY <2>1, TurnsSame
<1> QED BY <1>3, <1>4

(* Who waits for a reply is told of the new leader.                         *)
LEMMA OnLeaderChangedHeld ==
  ASSUME NEW n \in Node, NEW r, NEW H, NEW C, History(H, C), Good(n, r, H, C), NEW q, NEW k, NEW W, NEW U, Map(U),
         AnswersHeld(U), Held(n, r, q, k, W, U)
  PROVE  \E V : Turns(n, U, V) /\ Held(n, OnLeaderChanged(r), q, k, W, V)
<1> DEFINE D == DOMAIN r.waitingReply
           i == Min(D)
           c == r.waitingReply[i]
<1>1. Shaped(r) /\ r.alive \in BOOLEAN
  BY DEF Good, NodeOK
<1>2. CASE D = {}
  BY <1>2, TurnsSame DEF OnLeaderChanged
<1>3. CASE D # {} /\ ~r.alive
  <2>1. OnLeaderChanged(r) = r
    BY <1>3, DeadUpdate DEF OnLeaderChanged
  <2> QED BY <2>1, TurnsSame
<1>4. CASE D # {} /\ r.alive
  <2>1. D \subseteq Nat
    BY <1>4 DEF Held, RepliesHeld
  <2>2. i \in D
    <3> HIDE DEF D
    <3>1. PICK m \in D : \A j \in D : m <= j
      BY <1>4, <2>1, LeastNat
    <3> QED BY <3>1 DEF Min
  <2> HIDE DEF i
  <2>3. c \in Command /\ Caller[c] = n /\ U[c] # <<"told", 0>> /\ U[c] # <<"new", 0>>
    <3>1. c \in C
      BY <2>2 DEF Good, NodeOK
    <3>2. Caller[c] = n /\ U[c] = <<"reply", i>>
      BY <1>4, <2>2 DEF Held, RepliesHeld
    <3> QED BY <3>1, <3>2 DEF History
  <2>4. OnLeaderChanged(r) = OnUpdateFunction(r, c, "LEADER_CHANGED")
    BY <1>4 DEF OnLeaderChanged, i
  <2>5. "LEADER_CHANGED" \in Outcome \ {"SUCCESS"}
    BY DEF Outcome
  <2> HIDE DEF c
  <2> QED BY <2>3, <2>4, <2>5, FailureHeld
<1> QED BY <1>2, <1>3, <1>4

LEMMA StartElectionHeld ==
  ASSUME NEW n \in Node, NEW r, NEW H, NEW C, History(H, C), Good(n, r, H, C), NEW q, NEW k, NEW W, NEW U, Map(U),
         AnswersHeld(U), Held(n, r, q, k, W, U), r.term < MaxTerm, n \in Candidates[r.term + 1]
  PROVE  /\ StartElection(n, r).queue = r.queue
         /\ \E V : Turns(n, U, V) /\ Held(n, StartElection(n, r), q, k, W, V)
<1>1. PICK v : /\ Good(n, v, H, C) /\ Still(n, r, v)
               /\ StartElection(n, r) = IF v.alive THEN OnLeaderChanged(v) ELSE v
  BY StartElectionGood
<1>2. Held(n, v, q, k, W, U)
  BY <1>1, HeldStill
<1>3. \E V : Turns(n, U, V) /\ Held(n, OnLeaderChanged(v), q, k, W, V)
  BY <1>1, <1>2, OnLeaderChangedHeld
<1>4. v.queue = r.queue /\ OnLeaderChanged(v).queue = v.queue
  <2>1. Shaped(v) /\ v.alive \in BOOLEAN /\ v.queue = r.queue
    BY <1>1 DEF Still, Good, NodeOK
  <2> QED BY <2>1, OnLeaderChangedFrame DEF Frame, Fields
<1>5. CASE v.alive
  BY <1>1, <1>3, <1>4, <1>5
<1>6. CASE ~v.alive
  <2>1. StartElection(n, r) = v
    BY <1>1, <1>6
  <2> QED BY <1>2, <1>4, <2>1, TurnsSame
<1> QED BY <1>5, <1>6

LEMMA FollowLeaderHeld ==
  ASSUME NEW n \in Node, NEW r, NEW H, NEW C, History(H, C), Good(n, r, H, C), NEW q, NEW k, NEW W, NEW U, Map(U),
         AnswersHeld(U), Held(n, r, q, k, W, U), NEW from, NEW term
  PROVE  /\ FollowLeader(r, from, term).queue = r.queue
         /\ \E V : Turns(n, U, V) /\ Held(n, FollowLeader(r, from, term), q, k, W, V)
<1> DEFINE a == IF r.leader # from THEN OnLeaderChanged(r) ELSE r
           s == [a EXCEPT !.leader = from, !.term = term, !.state = "FOLLOWER"]
<1>1. FollowLeader(r, from, term) = IF a.alive THEN s ELSE a
  <2> DEFINE P(t) == [t EXCEPT !.leader = from, !.term = term, !.state = "FOLLOWER"]
  <2>1. FollowLeader(r, from, term) = Then(a, P)
    BY DEF FollowLeader
  <2> HIDE DEF a
  <2>2. Then(a, P) = IF a.alive THEN P(a) ELSE a
    BY DEF Then
  <2> QED BY <2>1, <2>2
<1>2. PICK V : Turns(n, U, V) /\ Held(n, a, q, k, W, V)
  BY OnLeaderChangedHeld, TurnsSame
<1>3. Shaped(a) /\ a.queue = r.queue
  BY OnLeaderChangedFrame DEF Good, NodeOK, Frame, Fields
<1> HIDE DEF a
<1>4. Frame(a, s, {"leader", "term", "state"})
  BY <1>3 DEF Frame, Shaped, Fields
<1> HIDE DEF s
<1>5. Still(n, a, s)
  BY <1>4, FrameStill DEF Frame, Fields, QuietFields
<1>6. Held(n, s, q, k, W, V) /\ s.queue = r.queue
  BY <1>2, <1>3, <1>5, HeldStill DEF Still
<1> QED BY <1>1, <1>2, <1>3, <1>6

(* Those who wait for an entry are told in turn, until one callback raises. *)
LEMMA TellAllCalls ==
  ASSUME NEW n \in Node, NEW r, NEW H, NEW C, History(H, C), Good(n, r, H, C), r.calls \in Seq(Call), NEW e,
         NEW a, a = SetValue(r, e), Frame(r, a, {"data", "waitingCommit"})
  PROVE  LET b == TellAll(r, e).calls
             q == Subscribers(r, e.idx)
         IN  /\ b \in Seq(Call) /\ Len(b) \in Len(r.calls)..(Len(r.calls) + Len(q))
             /\ \A i \in 1..Len(r.calls) : b[i] = r.calls[i]
             /\ \A i \in (Len(r.calls) + 1)..Len(b) : b[i].cmd = q[i - Len(r.calls)].cmd
             /\ ~r.alive => b = r.calls
<1> DEFINE q == Subscribers(r, e.idx)
           len == Len(q)
           base == Len(r.calls)
<1>1. len \in Nat /\ q \in Seq(Waiting(C)) /\ base \in Nat
  BY SubscribersOK
<1>2. PICK f : /\ TellAll(r, e) = f[len] /\ f[0] = a
               /\ \A k \in 1..len : f[k] = Tell(f[k - 1], q[k], e.term)
  BY <1>1, TellAllUnfolds
<1>3. \A k \in 1..len : q[k].cmd \in Command
  <2>1. \A w \in Waiting(C) : w.cmd \in Command
    BY DEF Waiting, History
  <2> QED BY <1>1, <2>1
<1> HIDE DEF q, len
<1> DEFINE P(k) == /\ Shaped(f[k]) /\ f[k].alive \in BOOLEAN /\ f[k].calls \in Seq(Call)
                   /\ Len(f[k].calls) \in base..(base + k) /\ (f[k].alive => Len(f[k].calls) = base + k)
                   /\ \A i \in 1..base : f[k].calls[i] = r.calls[i]
                   /\ \A i \in (base + 1)..Len(f[k].calls) : f[k].calls[i].cmd = q[i - base].cmd
                   /\ (f[k].alive => r.alive) /\ (~r.alive => f[k].calls = r.calls)
           Bad == {k \in 0..len : ~P(k)}
<1>4. P(0)
  <2>1. Shaped(a) /\ a.calls = r.calls /\ a.alive = r.alive /\ r.alive \in BOOLEAN
    BY DEF Frame, Fields, Good, NodeOK
  <2>2. base \in base..(base + 0) /\ (base + 1)..base = {} /\ base = base + 0
    BY <1>1
  <2> QED BY <1>2, <2>1, <2>2
<1>5. ASSUME NEW k \in 1..len, P(k - 1) PROVE P(k)
  <2> DEFINE t == f[k - 1]
             w == q[k]
             err == IF w.term = e.term THEN "SUCCESS" ELSE "DISCARDED"
             s == OnUpdateFunction(t, w.cmd, err)
             x == [cmd |-> w.cmd, err |-> err]
  <2>1. f[k] = s
    BY <1>2 DEF Tell
  <2>2. /\ Shaped(t) /\ t.alive \in BOOLEAN /\ t.calls \in Seq(Call)
        /\ Len(t.calls) \in base..(base + (k - 1)) /\ (t.alive => Len(t.calls) = base + (k - 1))
        /\ \A i \in 1..base : t.calls[i] = r.calls[i]
        /\ \A i \in (base + 1)..Len(t.calls) : t.calls[i].cmd = q[i - base].cmd
        /\ (t.alive => r.alive) /\ (~r.alive => t.calls = r.calls)
    BY <1>5
  <2>3. Shaped(s) /\ s.alive \in BOOLEAN
    <3> HIDE DEF t, w, err
    <3> QED BY <2>2, OnUpdateFunctionFrame DEF Frame
  <2>4. x \in Call /\ x.cmd = q[k].cmd /\ k \in Nat
    BY <1>1, <1>3 DEF Call, Outcome
  <2>5. CASE ~t.alive
    <3>1. s = t
      <4> HIDE DEF t, w, err
      <4> QED BY <2>5, DeadUpdate
    <3>2. Len(t.calls) \in base..(base + k)
      BY <2>2, <2>4, <1>1
    <3> HIDE DEF s, t
    <3> QED BY <2>1, <2>2, <2>5, <3>1, <3>2
  <2>6. CASE t.alive
    <3>1. s.calls = Append(t.calls, x)
      <4> HIDE DEF t, w, err
      <4> QED BY <2>2, <2>6, UpdateCalls
    <3> HIDE DEF s, t, x
    <3>2. Len(t.calls) = base + (k - 1)
      BY <2>2, <2>6
    <3>3. /\ s.calls \in Seq(Call) /\ Len(s.calls) = base + k
          /\ \A i \in 1..Len(t.calls) : s.calls[i] = t.calls[i]
          /\ s.calls[base + k] = x
      <4> DEFINE l == t.calls
                 v == s.calls
      <4>1. l \in Seq(Call) /\ x \in Call /\ v = Append(l, x)
        BY <2>2, <2>4, <3>1
      <4>2. Len(l) = base + (k - 1) /\ base \in Nat /\ k \in Nat
        BY <2>4, <3>2, <1>1
      <4> HIDE DEF l, v, base
      <4>3. /\ v \in Seq(Call) /\ Len(v) = Len(l) + 1
            /\ (\A i \in 1..Len(l) : v[i] = l[i]) /\ v[Len(l) + 1] = x
        BY <4>1
      <4>4. Len(l) + 1 = base + k
        BY <4>2
      <4> QED BY <4>3, <4>4 DEF l, v
    <3>4. \A i \in 1..base : s.calls[i] = r.calls[i]
      <4>1. base \in Nat /\ k - 1 \in Nat
        BY <2>4, <1>1
      <4> HIDE DEF base
      <4>2. \A i \in 1..base : i \in 1..(base + (k - 1))
        BY <4>1
      <4> QED BY <2>2, <3>2, <3>3, <4>2
    <3>5. ASSUME NEW i \in (base + 1)..Len(s.calls) PROVE s.calls[i].cmd = q[i - base].cmd
      <4>1. i = base + k \/ i \in (base + 1)..Len(t.calls)
        BY <2>4, <3>2, <3>3, <1>1
      <4>2. CASE i = base + k
        <5>1. i - base = k
          BY <4>2, <2>4, <1>1
        <5> QED BY <4>2, <5>1, <2>4, <3>3
      <4>3. CASE i \in (base + 1)..Len(t.calls)
        <5>1. i \in 1..Len(t.calls)
          BY <4>3, <3>2, <2>4, <1>1
        <5> QED BY <4>3, <5>1, <2>2, <3>3
      <4> QED BY <4>1, <4>2, <4>3
    <3>6. Len(s.calls) \in base..(base + k)
      BY <2>4, <3>3, <1>1
    <3> QED BY <2>1, <2>2, <2>3, <2>6, <3>3, <3>4, <3>5, <3>6
  <2> QED BY <2>5, <2>6
<1>6. Bad = {}
  <2>1. Bad \subseteq 0..len /\ 0 \notin Bad
    BY <1>4
  <2>2. \A k \in 1..len : k - 1 \in 0..len
    BY <1>1 DEF len
  <2>3. \A k \in 1..len : k \in Bad => k - 1 \in Bad
    <3> HIDE DEF P
    <3> QED BY <1>5, <2>2
  <2> HIDE DEF Bad
  <2> QED BY <1>1, <2>1, <2>3, NoFirstBad DEF len
<1>7. len \in 0..len
  BY <1>1 DEF len
<1>8. P(len)
  <2> HIDE DEF P
  <2> QED BY <1>6, <1>7
<1> QED BY <1>2, <1>8 DEF q, len

(* An entry is applied: its index has nobody who waits any more.            *)
LEMMA ApplyEntryHeld ==
  ASSUME NEW n \in Node, NEW r, NEW H, NEW C, History(H, C), Good(n, r, H, C), NEW e,
         NEW q, q \in Seq(Request(C)), NEW k \in Nat, NEW W, NEW U, Map(U), AnswersHeld(U), Held(n, r, q, k, W, U)
  PROVE  \E V : Turns(n, U, V) /\ Held(n, ApplyEntry(r, e), q, k, W, V)
<1> DEFINE v == [r EXCEPT !.data = Append(@, e.cmd), !.waitingCommit = [i \in DOMAIN @ \ {e.idx} |-> @[i]]]
           a == SetValue(r, e)
           b == TellAll(r, e)
           c == [b EXCEPT !.applied = @ + 1]
           l == Subscribers(r, e.idx)
           mark == <<"commit", e.idx>>
           V == [d \in Command |-> IF Caller[d] = n /\ U[d] = mark THEN <<"told", 0>> ELSE U[d]]
<1>1. Shaped(r) /\ r.alive \in BOOLEAN /\ C \subseteq Command
  BY DEF Good, NodeOK, History
<1>2. /\ Frame(r, v, {"data", "waitingCommit"})
      /\ v.waitingCommit = [i \in DOMAIN r.waitingCommit \ {e.idx} |-> r.waitingCommit[i]]
  BY <1>1 DEF Frame, Shaped, Fields
<1>3. a = IF r.alive THEN v ELSE r
  <2> DEFINE P(x) == [x EXCEPT !.data = Append(@, e.cmd), !.waitingCommit = [i \in DOMAIN @ \ {e.idx} |-> @[i]]]
  <2>1. SetValue(r, e) = CHOOSE y \in {IF x.alive THEN P(x) ELSE x : x \in {r}} : TRUE
    BY DEF SetValue, Then
  <2>2. P(r) = v
    OBVIOUS
  <2> HIDE DEF P
  <2>3. (CHOOSE y \in {IF x.alive THEN P(x) ELSE x : x \in {r}} : TRUE) = IF r.alive THEN P(r) ELSE r
    OBVIOUS
  <2> QED BY <2>1, <2>2, <2>3
<1>4. ApplyEntry(r, e) = IF b.alive THEN c ELSE b
  <2> DEFINE P(t) == [t EXCEPT !.applied = @ + 1]
  <2>1. ApplyEntry(r, e) = Then(b, P)
    BY DEF ApplyEntry
  <2> HIDE DEF b
  <2>2. Then(b, P) = IF b.alive THEN P(b) ELSE b
    BY DEF Then
  <2> QED BY <2>1, <2>2
<1> HIDE DEF v
<1>5. Frame(r, a, {"data", "waitingCommit"}) /\ Shaped(a) /\ a.alive = r.alive
  BY <1>1, <1>2, <1>3 DEF Frame, Fields
<1>6. Frame(a, b, {"calls", "alive"}) /\ b.alive \in BOOLEAN /\ (b.alive => a.alive)
  BY <1>1, <1>5, TellAllFrame
<1>7. r.calls \in Seq(Call)
  BY DEF Held, CallsHeld
<1>8. /\ b.calls \in Seq(Call) /\ Len(b.calls) \in Len(r.calls)..(Len(r.calls) + Len(l))
      /\ \A i \in 1..Len(r.calls) : b.calls[i] = r.calls[i]
      /\ \A i \in (Len(r.calls) + 1)..Len(b.calls) : b.calls[i].cmd = l[i - Len(r.calls)].cmd
      /\ ~r.alive => b.calls = r.calls
  BY <1>5, <1>7, TellAllCalls
<1>9. l \in Seq(Waiting(C)) /\ Len(l) \in Nat
  BY SubscribersOK
<1>10. \A i \in 1..Len(l) : l[i].cmd \in Command
  <2>1. \A w \in Waiting(C) : w.cmd \in Command
    BY <1>1 DEF Waiting
  <2> HIDE DEF l
  <2> QED BY <1>9, <2>1
<1>11. r.alive => ListHeld(n, l, e.idx, U)
  <2>1. e.idx \in DOMAIN r.waitingCommit \/ l = <<>>
    BY DEF Subscribers
  <2>2. ListHeld(n, <<>>, e.idx, U)
    BY DEF ListHeld
  <2>3. e.idx \in DOMAIN r.waitingCommit => l = r.waitingCommit[e.idx]
    BY DEF Subscribers
  <2> HIDE DEF l
  <2> QED BY <2>1, <2>2, <2>3 DEF Held, CommitsHeld
<1> HIDE DEF a, b, l
<1>12. Turns(n, U, V) /\ Map(V)
  <2>1. mark # <<"told", 0>> /\ mark # <<"new", 0>>
    OBVIOUS
  <2> HIDE DEF mark
  <2> QED BY <2>1 DEF Turns, Map
<1>13. \A d \in Command : U[d] # mark => V[d] = U[d]
  OBVIOUS
<1>14. \A d \in Command : Caller[d] = n /\ U[d] = mark => V[d] = <<"told", 0>>
  OBVIOUS
<1>22. mark # <<"told", 0>>
  OBVIOUS
<1>15. mark # <<"queue", 0>> /\ (\A i : mark # <<"reply", i>>)
       /\ \A i : i # e.idx => mark # <<"commit", i>>
  OBVIOUS
<1> HIDE DEF V
<1>16. r.alive => CallsHeld(n, b.calls, V)
  <2> SUFFICES ASSUME r.alive, NEW i \in 1..Len(b.calls)
               PROVE  /\ Caller[b.calls[i].cmd] = n /\ V[b.calls[i].cmd] = <<"told", 0>> /\ answers[b.calls[i].cmd] = <<>>
                      /\ \A j \in 1..Len(b.calls) : b.calls[j].cmd = b.calls[i].cmd => j = i
    BY <1>8 DEF CallsHeld
  <2> DEFINE base == Len(r.calls)
  <2>1. base \in Nat /\ Len(b.calls) \in Nat /\ Len(b.calls) <= base + Len(l)
    BY <1>7, <1>8, <1>9
  <2>2. \A j \in 1..base : /\ b.calls[j] = r.calls[j] /\ U[r.calls[j].cmd] = <<"told", 0>> /\ Caller[r.calls[j].cmd] = n
                           /\ answers[r.calls[j].cmd] = <<>> /\ r.calls[j].cmd \in Command
    <3>1. \A x \in Call : x.cmd \in Command
      BY DEF Call
    <3>2. \A j \in 1..base : b.calls[j] = r.calls[j]
      BY <1>8
    <3>3. \A j \in 1..base : r.calls[j] \in Call
      BY <1>7
    <3>4. CallsHeld(n, r.calls, U)
      BY DEF Held
    <3> QED BY <3>1, <3>2, <3>3, <3>4 DEF CallsHeld
  <2>3. ASSUME NEW j \in (base + 1)..Len(b.calls)
        PROVE  /\ j - base \in 1..Len(l) /\ b.calls[j].cmd = l[j - base].cmd /\ b.calls[j].cmd \in Command
               /\ Caller[b.calls[j].cmd] = n /\ U[b.calls[j].cmd] = mark
    <3>1. j - base \in 1..Len(l)
      BY <2>1, <1>9
    <3>2. b.calls[j].cmd = l[j - base].cmd
      BY <1>8
    <3> HIDE DEF base, mark
    <3> QED BY <3>1, <3>2, <1>10, <1>11 DEF ListHeld, mark
  <2>4. \A j \in 1..Len(b.calls) : j \in 1..base \/ j \in (base + 1)..Len(b.calls)
    BY <2>1
  <2> HIDE DEF base, mark
  <2>5. CASE i \in 1..base
    <3>1. V[b.calls[i].cmd] = <<"told", 0>>
      BY <2>2, <2>5, <1>13, <1>22, ZenonT(60)
    <3>2. \A j \in 1..Len(b.calls) : b.calls[j].cmd = b.calls[i].cmd => j \in 1..base
      <4> SUFFICES ASSUME NEW j \in (base + 1)..Len(b.calls), b.calls[j].cmd = b.calls[i].cmd PROVE FALSE
        BY <2>4
      <4>1. U[b.calls[j].cmd] = mark
        BY <2>3
      <4>2. U[b.calls[i].cmd] = <<"told", 0>>
        BY <2>2, <2>5
      <4> QED BY <4>1, <4>2, <1>22
    <3>3. \A j \in 1..base : r.calls[j].cmd = r.calls[i].cmd => j = i
      BY <2>5 DEF Held, CallsHeld, base
    <3> QED BY <2>2, <2>5, <3>1, <3>2, <3>3
  <2>6. CASE i \in (base + 1)..Len(b.calls)
    <3>1. V[b.calls[i].cmd] = <<"told", 0>>
      BY <2>3, <2>6, <1>14
    <3>2. answers[b.calls[i].cmd] = <<>>
      BY <2>3, <2>6, <1>22 DEF AnswersHeld
    <3>3. \A j \in 1..Len(b.calls) : b.calls[j].cmd = b.calls[i].cmd => j \in (base + 1)..Len(b.calls)
      <4> SUFFICES ASSUME NEW j \in 1..base, b.calls[j].cmd = b.calls[i].cmd PROVE FALSE
        BY <2>4
      <4>1. U[b.calls[i].cmd] = mark
        BY <2>3, <2>6
      <4>2. U[b.calls[j].cmd] = <<"told", 0>>
        BY <2>2
      <4> QED BY <4>1, <4>2, <1>22
    <3>4. \A j \in (base + 1)..Len(b.calls) : b.calls[j].cmd = b.calls[i].cmd => j - base = i - base
      BY <2>3, <2>6, <1>11, SMTT(30) DEF ListHeld
    <3>5. \A j \in (base + 1)..Len(b.calls) : j - base = i - base => j = i
      BY <2>1, <2>6
    <3> QED BY <2>3, <2>6, <3>1, <3>2, <3>3, <3>4, <3>5
  <2> QED BY <2>4, <2>5, <2>6
<1>17. r.alive => RepliesHeld(n, b.waitingReply, V) /\ CommitsHeld(n, b.waitingCommit, V) /\ QueueHeld(n, q, k, W, V)
  <2> SUFFICES ASSUME r.alive
               PROVE  RepliesHeld(n, b.waitingReply, V) /\ CommitsHeld(n, b.waitingCommit, V) /\ QueueHeld(n, q, k, W, V)
    OBVIOUS
  <2>1. /\ b.waitingReply = r.waitingReply
        /\ b.waitingCommit = [i \in DOMAIN r.waitingCommit \ {e.idx} |-> r.waitingCommit[i]]
    BY <1>2, <1>3, <1>6 DEF Frame, Fields
  <2>2. \A i \in DOMAIN r.waitingReply : r.waitingReply[i] \in Command
    BY <1>1 DEF Good, NodeOK
  <2>3. \A i \in DOMAIN r.waitingCommit : \A j \in 1..Len(r.waitingCommit[i]) : r.waitingCommit[i][j].cmd \in Command
    <3>1. \A w \in Waiting(C) : w.cmd \in Command
      BY <1>1 DEF Waiting
    <3>2. \A i \in DOMAIN r.waitingCommit : r.waitingCommit[i] \in Seq(Waiting(C))
      BY DEF Good, NodeOK
    <3> QED BY <3>1, <3>2
  <2>4. \A i \in (k + 1)..Len(q) : q[i].cmd \in Command
    <3>1. \A x \in Request(C) : x.cmd \in Command
      BY <1>1 DEF Request
    <3>2. \A i \in (k + 1)..Len(q) : i \in 1..Len(q)
      OBVIOUS
    <3> QED BY <3>1, <3>2
  <2> HIDE DEF mark
  <2>5. RepliesHeld(n, b.waitingReply, V)
    <3> SUFFICES ASSUME NEW i \in DOMAIN r.waitingReply
                 PROVE  i \in Nat /\ Caller[r.waitingReply[i]] = n /\ V[r.waitingReply[i]] = <<"reply", i>>
      BY <2>1 DEF RepliesHeld
    <3>1. i \in Nat /\ Caller[r.waitingReply[i]] = n /\ U[r.waitingReply[i]] = <<"reply", i>>
      BY DEF Held, RepliesHeld
    <3>2. mark # <<"reply", i>>
      BY <1>15
    <3> QED BY <3>1, <3>2, <2>2, <1>13
  <2>6. QueueHeld(n, q, k, W, V)
    BY <2>4, <1>13, <1>15 DEF Held, QueueHeld
  <2>7. CommitsHeld(n, b.waitingCommit, V)
    <3> SUFFICES ASSUME NEW i \in DOMAIN r.waitingCommit, i # e.idx PROVE ListHeld(n, r.waitingCommit[i], i, V)
      BY <2>1 DEF CommitsHeld
    <3>1. ListHeld(n, r.waitingCommit[i], i, U)
      BY DEF Held, CommitsHeld
    <3> QED BY <3>1, <2>3, <1>13, <1>15 DEF ListHeld
  <2> QED BY <2>5, <2>6, <2>7
<1>19. \E X : Turns(n, U, X) /\ Held(n, b, q, k, W, X)
  <2>1. b.out = r.out
    BY <1>5, <1>6 DEF Frame, Fields
  <2>2. CASE r.alive
    <3>1. Held(n, b, q, k, W, V)
      BY <2>1, <2>2, <1>16, <1>17 DEF Held
    <3> QED BY <1>12, <3>1
  <2>3. CASE ~r.alive
    <3>1. Held(n, b, q, k, W, U)
      BY <2>1, <2>3, <1>5, <1>6, <1>8 DEF Held
    <3> QED BY <3>1, TurnsSame
  <2> QED BY <2>2, <2>3
<1>20. Frame(b, c, {"applied"}) 
  BY <1>6 DEF Frame, Shaped, Fields
<1> HIDE DEF c
<1>21. Still(n, b, c)
  BY <1>20, FrameStill DEF Frame, Fields, QuietFields
<1> QED BY <1>4, <1>19, <1>21, HeldStill

LEMMA ApplyCommittedHeld ==
  ASSUME NEW n \in Node, NEW r, NEW H, NEW C, History(H, C), Good(n, r, H, C),
         NEW W, NEW U, Map(U), AnswersHeld(U), Held(n, r, r.queue, 0, W, U)
  PROVE  /\ Good(n, ApplyCommitted(r), H, C) /\ Frame(r, ApplyCommitted(r), ApplyFields)
         /\ (ApplyCommitted(r).alive => r.alive)
         /\ \E V : Turns(n, U, V) /\ Held(n, ApplyCommitted(r), r.queue, 0, W, V)
<1> DEFINE q == ReadyEntries(r)
           len == Len(q)
           G(s) == \E V : Turns(n, U, V) /\ Held(n, s, r.queue, 0, W, V)
           F(s) == Good(n, s, H, C) /\ Frame(r, s, ApplyFields) /\ (s.alive => r.alive) /\ G(s)
<1>1. F(r)
  <2>1. Frame(r, r, ApplyFields)
    BY DEF Frame, Good, NodeOK
  <2> QED BY <2>1, TurnsSame
<1>2. ASSUME r.log # <<>> PROVE F(ApplyEntries(r))
  <2>1. Fits(q, H) /\ (q # <<>> => q[1].idx = r.applied + 1)
    BY <1>2, ReadyEntriesFit
  <2>2. q \in Seq(Entry) /\ len \in Nat
    BY <2>1 DEF Fits
  <2>3. PICK f : /\ ApplyEntries(r) = f[len] /\ f[0] = r
                 /\ \A k \in 1..len : f[k] = ApplyEntry(f[k - 1], q[k])
    BY <2>2, ApplyEntriesUnfolds
  <2> HIDE DEF q, len
  <2> DEFINE P(k) == F(f[k]) /\ (f[k].alive => f[k].applied = r.applied + k)
             Bad == {k \in 0..len : ~P(k)}
  <2>4. P(0)
    <3>1. r.applied = r.applied + 0
      BY DEF Good, NodeOK
    <3> HIDE DEF F
    <3> QED BY <1>1, <2>3, <3>1
  <2>5. ASSUME NEW k \in 1..len, P(k - 1) PROVE P(k)
    <3> DEFINE t == f[k - 1]
               e == q[k]
    <3>1. f[k] = ApplyEntry(t, e) /\ Good(n, t, H, C)
      BY <2>3, <2>5
    <3>2. e \in Entry /\ k \in 1..Len(q) /\ q # <<>> /\ k \in Nat
      BY <2>2 DEF len
    <3>3. e.idx = q[1].idx + k - 1 /\ \E u \in 0..MaxTerm : Has(H, e, u)
      BY <3>2, <2>1 DEF Fits
    <3>4. q[1].idx = r.applied + 1 /\ r.applied \in Nat
      BY <2>1, <3>2 DEF Good, NodeOK
    <3>5. t.alive => t.applied = r.applied + (k - 1)
      BY <2>5
    <3>6. t.alive => e.idx = t.applied + 1
      BY <3>2, <3>3, <3>4, <3>5
    <3> HIDE DEF t, e
    <3>7. /\ Good(n, f[k], H, C) /\ Frame(t, f[k], ApplyFields)
          /\ (f[k].alive => t.alive /\ f[k].applied = t.applied + 1)
      BY <3>1, <3>2, <3>3, <3>6, ApplyEntryGood
    <3>8. Frame(r, f[k], ApplyFields)
      BY <2>5, <3>7 DEF Frame, t
    <3>9. f[k].alive => f[k].applied = r.applied + k
      BY <3>2, <3>4, <3>5, <3>7
    <3>10. f[k].alive => r.alive
      BY <2>5, <3>7 DEF t
    <3>11. G(f[k])
      <4>1. PICK X : Turns(n, U, X) /\ Held(n, t, r.queue, 0, W, X)
        BY <2>5 DEF t
      <4>2. Map(X) /\ AnswersHeld(X) /\ r.queue \in Seq(Request(C)) /\ 0 \in Nat
        BY <4>1, TurnsAnswers, ZenonT(60) DEF Turns, Good, NodeOK
      <4>3. \E V : Turns(n, X, V) /\ Held(n, ApplyEntry(t, e), r.queue, 0, W, V)
        BY <3>1, <4>1, <4>2, ApplyEntryHeld
      <4> QED BY <3>1, <4>1, <4>3, TurnsTrans
    <3> HIDE DEF G
    <3> QED BY <3>7, <3>8, <3>9, <3>10, <3>11
  <2>6. Bad = {}
    <3>1. Bad \subseteq 0..len /\ 0 \notin Bad
      BY <2>4
    <3>2. \A k \in 1..len : k - 1 \in 0..len
      BY <2>2
    <3>3. \A k \in 1..len : k \in Bad => k - 1 \in Bad
      <4> HIDE DEF P
      <4> QED BY <2>5, <3>2
    <3> HIDE DEF Bad
    <3> QED BY <2>2, <3>1, <3>3, NoFirstBad
  <2>7. len \in 0..len
    BY <2>2
  <2>8. P(len)
    <3> HIDE DEF P
    <3> QED BY <2>6, <2>7
  <2> QED BY <2>3, <2>8
<1>3. F([r EXCEPT !.alive = FALSE])
  <2>1. Frame(r, [r EXCEPT !.alive = FALSE], ApplyFields)
    BY DEF Frame, Shaped, Fields, ApplyFields, Good, NodeOK
  <2>2. G([r EXCEPT !.alive = FALSE])
    BY RaiseGood, HeldStill, TurnsSame
  <2> HIDE DEF G
  <2> QED BY <2>1, <2>2, RaiseGood
<1> DEFINE x == ApplyEntries(r)
           y == [r EXCEPT !.alive = FALSE]
<1>4. ApplyCommitted(r) =
        IF r.commit > r.applied THEN IF r.alive THEN IF r.log = <<>> THEN y ELSE x ELSE r ELSE r
  <2>1. Indexed(r, ApplyEntries) = IF r.alive THEN IF r.log = <<>> THEN y ELSE x ELSE r
    BY DEF Indexed, Then
  <2> QED BY <2>1 DEF ApplyCommitted
<1>5. F(ApplyCommitted(r))
  <2>1. ApplyCommitted(r) = y \/ (r.log # <<>> /\ ApplyCommitted(r) = x) \/ ApplyCommitted(r) = r
    BY <1>4
  <2> HIDE DEF F, x, y
  <2> QED BY <2>1, <1>1, <1>2, <1>3 DEF x, y
<1> QED BY <1>5

(* Where a command and its callback go when it leaves the queue is no       *)
(* concern of the others.                                                   *)
LEMMA DropHeld ==
  ASSUME NEW n \in Node, NEW r, NEW H, NEW C, History(H, C), Good(n, r, H, C),
         NEW q, q \in Seq(Request(C)), NEW k \in 1..Len(q), NEW W, NEW U, NEW X, NEW V,
         Held(n, r, q, k - 1, W, U), r.alive,
         \A d \in Command : d # q[k].cmd => X[d] = W[d] /\ V[d] = U[d],
         q[k].from # None => V[q[k].cmd] = U[q[k].cmd]
  PROVE  /\ QueueHeld(n, q, k, X, V) /\ RepliesHeld(n, r.waitingReply, V) /\ CommitsHeld(n, r.waitingCommit, V)
         /\ AsksHeld(n, r.out, X) /\ CallsHeld(n, r.calls, V)
<1> DEFINE c == q[k].cmd
<1>1. C \subseteq Command /\ Len(q) \in Nat /\ k \in Nat /\ k \in ((k - 1) + 1)..Len(q)
  BY DEF History
<1>2. QueueHeld(n, q, k - 1, W, U)
  BY DEF Held
<1>3. W[c] = <<n, n>> /\ (q[k].from = None => U[c] = <<"queue", 0>>)
      /\ \A j \in ((k - 1) + 1)..Len(q) : q[j].cmd = c => j = k
  BY <1>1, <1>2 DEF QueueHeld
<1>4. \A x \in Request(C) : x.cmd \in Command
  BY <1>1 DEF Request
<1>5. \A i \in 1..Len(q) : q[i].cmd \in Command
  BY <1>4
<1> HIDE DEF c
<1>6. \A d \in Command : d # c => X[d] = W[d] /\ V[d] = U[d]
  BY DEF c
<1>7. \A d \in Command : W[d] # <<n, n>> => X[d] = W[d]
  BY <1>3, <1>6
<1>8. \A d \in Command : U[d] # <<"queue", 0>> => V[d] = U[d]
  <2> SUFFICES ASSUME NEW d \in Command, U[d] # <<"queue", 0>> PROVE V[d] = U[d]
    OBVIOUS
  <2>1. CASE d = c
    BY <2>1, <1>3 DEF c
  <2> QED BY <2>1, <1>6
<1>9. QueueHeld(n, q, k, X, V)
  <2> SUFFICES ASSUME NEW i \in (k + 1)..Len(q)
               PROVE  /\ X[q[i].cmd] = <<n, n>>
                      /\ \A j \in (k + 1)..Len(q) : q[j].cmd = q[i].cmd => j = i
                      /\ q[i].from = None => Caller[q[i].cmd] = n /\ V[q[i].cmd] = <<"queue", 0>>
    BY DEF QueueHeld
  <2>1. i \in ((k - 1) + 1)..Len(q) /\ i # k /\ i \in 1..Len(q)
    BY <1>1
  <2>2. \A j \in (k + 1)..Len(q) : j \in ((k - 1) + 1)..Len(q)
    BY <1>1
  <2>3. q[i].cmd # c /\ q[i].cmd \in Command
    BY <2>1, <1>3, <1>5
  <2>4. /\ W[q[i].cmd] = <<n, n>>
        /\ \A j \in ((k - 1) + 1)..Len(q) : q[j].cmd = q[i].cmd => j = i
        /\ q[i].from = None => Caller[q[i].cmd] = n /\ U[q[i].cmd] = <<"queue", 0>>
    BY <2>1, <1>2 DEF QueueHeld
  <2> QED BY <2>2, <2>3, <2>4, <1>6
<1>10. RepliesHeld(n, r.waitingReply, V)
  <2> SUFFICES ASSUME NEW i \in DOMAIN r.waitingReply
               PROVE  i \in Nat /\ Caller[r.waitingReply[i]] = n /\ V[r.waitingReply[i]] = <<"reply", i>>
    BY DEF RepliesHeld
  <2>1. i \in Nat /\ Caller[r.waitingReply[i]] = n /\ U[r.waitingReply[i]] = <<"reply", i>>
    BY DEF Held, RepliesHeld
  <2>2. r.waitingReply[i] \in Command
    BY <1>1 DEF Good, NodeOK
  <2> QED BY <2>1, <2>2, <1>8
<1>11. CommitsHeld(n, r.waitingCommit, V)
  <2> SUFFICES ASSUME NEW i \in DOMAIN r.waitingCommit PROVE ListHeld(n, r.waitingCommit[i], i, V)
    BY DEF CommitsHeld
  <2> DEFINE l == r.waitingCommit[i]
  <2>1. ListHeld(n, l, i, U)
    BY DEF Held, CommitsHeld
  <2>2. l \in Seq(Waiting(C)) /\ \A w \in Waiting(C) : w.cmd \in Command
    BY <1>1 DEF Good, NodeOK, Waiting
  <2> HIDE DEF l
  <2>3. \A j \in 1..Len(l) : l[j].cmd \in Command
    BY <2>2
  <2>4. \A j \in 1..Len(l) : V[l[j].cmd] = <<"commit", i>>
    <3> SUFFICES ASSUME NEW j \in 1..Len(l) PROVE V[l[j].cmd] = <<"commit", i>>
      OBVIOUS
    <3>1. U[l[j].cmd] = <<"commit", i>> /\ l[j].cmd \in Command
      BY <2>1, <2>3 DEF ListHeld
    <3>2. <<"commit", i>> # <<"queue", 0>>
      OBVIOUS
    <3> QED BY <3>1, <3>2, <1>8
  <2> QED BY <2>1, <2>4 DEF ListHeld, l
<1>12. AsksHeld(n, r.out, X)
  <2> SUFFICES ASSUME NEW p \in Peer(n), NEW u, NEW v, SentHeld(u, v, <<n, p>>, W)
               PROVE  SentHeld(u, v, <<n, p>>, X)
    BY DEF AsksHeld, Held
  <2> DEFINE at == <<n, p>>
  <2>2. at # <<n, n>>
    BY DEF Peer
  <2> HIDE DEF at
  <2>5. \A i \in Asks(u) : X[u[i].cmd] = at
    BY <2>2, <1>7 DEF SentHeld, at
  <2> QED BY <2>5 DEF SentHeld, at
<1>13. CallsHeld(n, r.calls, V)
  <2>1. CallsHeld(n, r.calls, U)
    BY DEF Held
  <2> SUFFICES ASSUME NEW i \in 1..Len(r.calls) PROVE V[r.calls[i].cmd] = U[r.calls[i].cmd]
    BY <2>1 DEF CallsHeld
  <2>2. U[r.calls[i].cmd] = <<"told", 0>>
    BY <2>1 DEF CallsHeld
  <2>3. r.calls \in Seq(Call) /\ \A x \in Call : x.cmd \in Command
    BY <2>1 DEF CallsHeld, Call
  <2>4. r.calls[i].cmd \in Command
    BY <2>3
  <2> QED BY <2>2, <2>4, <1>8
<1> QED BY <1>9, <1>10, <1>11, <1>12, <1>13

(* One more who waits for index i.                                          *)
LEMMA SubscribeHeld ==
  ASSUME NEW n \in Node, NEW r, NEW H, NEW C, History(H, C), Good(n, r, H, C), NEW i, NEW t, NEW c \in C,
         NEW V, CommitsHeld(n, r.waitingCommit, V), Caller[c] = n, V[c] = <<"commit", i>>,
         \A j \in 1..Len(Subscribers(r, i)) : Subscribers(r, i)[j].cmd # c
  PROVE  CommitsHeld(n, Subscribe(r, i, t, c).waitingCommit, V)
<1> DEFINE w == [term |-> t, cmd |-> c]
           l == Subscribers(r, i)
           s == Subscribe(r, i, t, c)
           waiting == Append(l, w)
<1>1. s.waitingCommit = [j \in DOMAIN r.waitingCommit \cup {i} |-> IF j = i THEN waiting ELSE r.waitingCommit[j]]
  BY DEF Shaped, Fields, Subscribe, Good, NodeOK
<1>2. l \in Seq(Waiting(C)) /\ Len(l) \in Nat
  BY SubscribersOK
<1>3. ListHeld(n, l, i, V)
  <2>1. ListHeld(n, <<>>, i, V)
    BY DEF ListHeld
  <2> QED BY <2>1 DEF Subscribers, CommitsHeld
<1> HIDE DEF s, l
<1>4. /\ Len(waiting) = Len(l) + 1 /\ waiting[Len(l) + 1].cmd = c
      /\ \A j \in 1..Len(l) : waiting[j] = l[j]
  <2>1. w.cmd = c
    OBVIOUS
  <2>2. l \in Seq(Waiting(C) \cup {w}) /\ w \in Waiting(C) \cup {w}
    BY <1>2
  <2> HIDE DEF w
  <2> QED BY <1>2, <2>1, <2>2
<1> HIDE DEF waiting
<1>5. \A j \in 1..Len(waiting) : j \in 1..Len(l) \/ j = Len(l) + 1
  BY <1>2, <1>4
<1>6. ListHeld(n, waiting, i, V)
  <2> SUFFICES ASSUME NEW j \in 1..Len(waiting)
               PROVE  /\ Caller[waiting[j].cmd] = n /\ V[waiting[j].cmd] = <<"commit", i>>
                      /\ \A k \in 1..Len(waiting) : waiting[k].cmd = waiting[j].cmd => k = j
    BY DEF ListHeld
  <2>1. CASE j \in 1..Len(l)
    <3>1. waiting[j] = l[j] /\ l[j].cmd # c
      BY <2>1, <1>4 DEF l
    <3>2. \A k \in 1..Len(waiting) : waiting[k].cmd = waiting[j].cmd => k \in 1..Len(l) /\ l[k].cmd = l[j].cmd
      BY <3>1, <1>4, <1>5
    <3> QED BY <2>1, <3>1, <3>2, <1>3 DEF ListHeld
  <2>2. CASE j = Len(l) + 1
    <3>1. \A k \in 1..Len(l) : waiting[k].cmd # c
      BY <1>4 DEF l
    <3> QED BY <2>2, <3>1, <1>4, <1>5
  <2> QED BY <2>1, <2>2, <1>5
<1>7. ASSUME NEW j \in DOMAIN s.waitingCommit PROVE ListHeld(n, s.waitingCommit[j], j, V)
  <2>1. CASE j = i
    <3>1. s.waitingCommit[j] = waiting
      BY <2>1, <1>1
    <3> QED BY <2>1, <3>1, <1>6
  <2>2. CASE j # i
    <3>1. j \in DOMAIN r.waitingCommit /\ s.waitingCommit[j] = r.waitingCommit[j]
      BY <2>2, <1>1
    <3> QED BY <3>1 DEF CommitsHeld
  <2> QED BY <2>1, <2>2
<1> QED BY <1>7 DEF CommitsHeld, s

(* A command that is appended was in no log before.                         *)
LEMMA LogHeldGrows ==
  ASSUME NEW n \in Node, NEW H, NEW K, NEW C, History(H, C), H \subseteq K, NEW c \in Command, NEW W, NEW X,
         LogHeld(H, W), W[c] = <<n, n>>, \A d \in Command : d # c => X[d] = W[d],
         \A x, y \in K \ H : x = y /\ x.entry.cmd = c, K # H => X[c] = <<None, None>>
  PROVE  LogHeld(K, X)
<1>1. <<n, n>> # <<None, None>>
  BY NoneAssumption
<1>2. ASSUME NEW x \in H, x.entry.idx >= 2
      PROVE  W[x.entry.cmd] = <<None, None>> /\ x.entry.cmd # c /\ X[x.entry.cmd] = <<None, None>>
  <2>1. x.entry.cmd \in Command
    BY <1>2 DEF History
  <2>2. W[x.entry.cmd] = <<None, None>>
    BY <1>2 DEF LogHeld
  <2> QED BY <1>1, <2>1, <2>2
<1>3. ASSUME NEW x \in K, NEW y \in K, x.entry.idx >= 2, y.entry.idx >= 2
      PROVE  X[x.entry.cmd] = <<None, None>> /\ (x.entry.cmd = y.entry.cmd => x = y)
  <2>1. CASE x \in H /\ y \in H
    BY <1>2, <1>3, <2>1 DEF LogHeld
  <2>2. CASE x \in H /\ y \notin H
    BY <1>2, <1>3, <2>2
  <2>3. CASE x \notin H
    <3>1. x.entry.cmd = c /\ X[c] = <<None, None>> /\ (y \notin H => x = y)
      BY <2>3
    <3> QED BY <3>1, <1>2, <1>3
  <2> QED BY <2>1, <2>2, <2>3
<1> QED BY <1>3 DEF LogHeld

(* A leader appends a command to its log, and its callback waits for the    *)
(* index, at this node or at the one that asked.                            *)
LEMMA LeaderCommandHeld ==
  ASSUME NEW n \in Node, NEW r, NEW H, NEW C, History(H, C), Good(n, r, H, C),
         r.state = "LEADER", r.log # <<>>, r.alive, NEW slow \in BOOLEAN,
         NEW q, q \in Seq(Request(C)), NEW k \in 1..Len(q), NEW W, NEW U, Map(W), Map(U),
         LogHeld(H, W), Held(n, r, q, k - 1, W, U)
  PROVE  LET s == LeaderCommand(n, r, q[k], slow) IN
         \E K, X, V : /\ Grow(n, r, H, K, C) /\ Good(n, s, K, C)
                      /\ s.log # <<>> /\ SameRole(r, s) /\ s.dumping = r.dumping /\ s.queue = r.queue
                      /\ Moves(n, W, X) /\ Turns(n, U, V) /\ LogHeld(K, X) /\ Held(n, s, q, k, X, V)
<1> DEFINE c == q[k].cmd
           s == LeaderCommand(n, r, q[k], slow)
           X == [W EXCEPT ![c] = <<None, None>>]
<1>1. q[k] \in Request(C) /\ c \in C /\ c \in Command /\ k \in ((k - 1) + 1)..Len(q)
  <2>1. q[k] \in Request(C) /\ k \in ((k - 1) + 1)..Len(q)
    OBVIOUS
  <2> QED BY <2>1 DEF Request, History
<1>2. W[c] = <<n, n>> /\ (q[k].from = None => Caller[c] = n /\ U[c] = <<"queue", 0>>)
  BY <1>1 DEF Held, QueueHeld
<1> HIDE DEF c
<1>3. X[c] = <<None, None>> /\ Map(X) /\ \A d \in Command : d # c => X[d] = W[d]
  BY <1>1 DEF Map
<1> HIDE DEF X
<1>4. PICK K : /\ Grow(n, r, H, K, C) /\ Good(n, s, K, C) /\ s.log # <<>> /\ SameRole(r, s) /\ s.dumping = r.dumping
               /\ \A x, y \in K \ H : x = y /\ x.entry.cmd = c
               /\ q[k].from # None => Still(n, r, s)
               /\ q[k].from = None => \E i, t : Still(n, Subscribe(r, i, t, c), s)
  <2> DEFINE z == q[k]
             t == LeaderCommand(n, r, z, slow)
  <2>1. z \in Request(C) /\ c = z.cmd /\ s = t
    BY <1>1 DEF c
  <2> HIDE DEF z, s
  <2>2. \E K : /\ Grow(n, r, H, K, C) /\ Good(n, t, K, C) /\ t.log # <<>> /\ SameRole(r, t)
               /\ t.dumping = r.dumping
               /\ \A x, y \in K \ H : x = y /\ x.entry.cmd = z.cmd
               /\ z.from # None => Still(n, r, t)
               /\ z.from = None => \E i, j : Still(n, Subscribe(r, i, j, z.cmd), t)
    BY <2>1, LeaderCommandGood
  <2> HIDE DEF t
  <2> QED BY <2>1, <2>2 DEF z
<1> HIDE DEF s
<1>5. Moves(n, W, X) /\ LogHeld(K, X)
  <2>1. H \subseteq K /\ \A x, y \in K \ H : x = y /\ x.entry.cmd = c
    BY <1>4 DEF Grow
  <2>2. c \in Command /\ W[c] = <<n, n>> /\ X[c] = <<None, None>> /\ \A d \in Command : d # c => X[d] = W[d]
    BY <1>1, <1>2, <1>3
  <2>3. LogHeld(K, X)
    <3> HIDE <1>1, <1>2, <1>3, <1>4
    <3> QED BY <2>1, <2>2, LogHeldGrows, SMTT(60)
  <2> QED BY <1>2, <1>3, <2>3 DEF Moves
<1>6. CASE q[k].from # None
  <2>1. /\ QueueHeld(n, q, k, X, U) /\ RepliesHeld(n, r.waitingReply, U) /\ CommitsHeld(n, r.waitingCommit, U)
        /\ AsksHeld(n, r.out, X) /\ CallsHeld(n, r.calls, U)
    BY <1>3, DropHeld DEF c
  <2>2. Held(n, r, q, k, X, U)
    BY <2>1 DEF Held
  <2>3. Held(n, s, q, k, X, U) /\ s.queue = r.queue
    BY <1>4, <1>6, <2>2, HeldStill DEF Still
  <2> QED BY <1>4, <1>5, <2>3, TurnsSame DEF s
<1>7. CASE q[k].from = None
  <2>1. PICK i, t : Still(n, Subscribe(r, i, t, c), s)
    BY <1>4, <1>7
  <2> DEFINE V == [U EXCEPT ![c] = <<"commit", i>>]
             b == Subscribe(r, i, t, c)
             l == Subscribers(r, i)
  <2>2. V[c] = <<"commit", i>> /\ Map(V) /\ \A d \in Command : d # c => V[d] = U[d]
    BY <1>1 DEF Map
  <2> HIDE DEF V
  <2>3. Turns(n, U, V)
    BY <1>2, <1>7, <2>2 DEF Turns
  <2>4. /\ QueueHeld(n, q, k, X, V) /\ RepliesHeld(n, r.waitingReply, V) /\ CommitsHeld(n, r.waitingCommit, V)
        /\ AsksHeld(n, r.out, X) /\ CallsHeld(n, r.calls, V)
    BY <1>3, <1>7, <2>2, DropHeld DEF c
  <2>5. \A j \in 1..Len(l) : l[j].cmd # c
    <3>1. i \in DOMAIN r.waitingCommit => l = r.waitingCommit[i]
      BY DEF Subscribers
    <3>2. i \notin DOMAIN r.waitingCommit => l = <<>>
      BY DEF Subscribers
    <3>3. i \in DOMAIN r.waitingCommit => ListHeld(n, l, i, U)
      BY <3>1 DEF Held, CommitsHeld
    <3>4. <<"commit", i>> # <<"queue", 0>>
      OBVIOUS
    <3> HIDE DEF l
    <3> QED BY <3>2, <3>3, <3>4, <1>2, <1>7 DEF ListHeld
  <2>6. CommitsHeld(n, b.waitingCommit, V)
    BY <1>1, <1>2, <1>7, <2>2, <2>4, <2>5, SubscribeHeld
  <2>7. Frame(r, b, {"waitingCommit"})
    BY DEF Frame, Shaped, Fields, Subscribe, Good, NodeOK
  <2> HIDE DEF b
  <2>8. /\ b.alive = r.alive /\ b.waitingReply = r.waitingReply /\ b.out = r.out /\ b.calls = r.calls
        /\ b.queue = r.queue
    BY <2>7 DEF Frame, Fields
  <2>9. Held(n, b, q, k, X, V)
    BY <2>4, <2>6, <2>8 DEF Held
  <2>10. Held(n, s, q, k, X, V) /\ s.queue = r.queue
    <3>1. Still(n, b, s)
      BY <2>1 DEF b
    <3> QED BY <3>1, <2>8, <2>9, HeldStill DEF Still
  <2> QED BY <1>4, <1>5, <2>3, <2>10 DEF s
<1> QED BY <1>6, <1>7

LEMMA SentAppend ==
  ASSUME NEW M, NEW u \in Seq(M), NEW m \in M, m.cmd \in Command, NEW sent, NEW at, NEW W,
         SentHeld(u, sent, at, W), W[m.cmd] = at,
         \A i \in Asks(u) : u[i].cmd # m.cmd, \A i \in Asks(sent) : sent[i].cmd # m.cmd
  PROVE  SentHeld(Append(u, m), sent, at, W)
<1> DEFINE l == Append(u, m)
<1>1. Len(u) \in Nat /\ Len(l) = Len(u) + 1 /\ l[Len(u) + 1] = m /\ \A i \in 1..Len(u) : l[i] = u[i]
  OBVIOUS
<1> HIDE DEF l
<1>2. \A i \in Asks(l) : (i \in Asks(u) /\ l[i] = u[i]) \/ (i = Len(u) + 1 /\ l[i] = m)
  <2>1. \A i \in 1..Len(l) : i \in 1..Len(u) \/ i = Len(u) + 1
    BY <1>1
  <2> QED BY <1>1, <2>1 DEF Asks
<1>3. ASSUME NEW i \in Asks(l)
      PROVE  /\ l[i].cmd \in Command /\ W[l[i].cmd] = at
             /\ \A j \in Asks(l) : l[j].cmd = l[i].cmd => j = i
             /\ \A j \in Asks(sent) : sent[j].cmd # l[i].cmd
  <2>1. CASE i \in Asks(u) /\ l[i] = u[i]
    <3>1. \A j \in Asks(l) : l[j].cmd = l[i].cmd => j \in Asks(u) /\ l[j] = u[j]
      BY <2>1, <1>2
    <3> QED BY <2>1, <3>1 DEF SentHeld
  <2>2. CASE i = Len(u) + 1 /\ l[i] = m
    <3>1. \A j \in Asks(l) : l[j].cmd = l[i].cmd => j = Len(u) + 1
      BY <2>2, <1>2
    <3> QED BY <2>2, <3>1
  <2> QED BY <2>1, <2>2, <1>2
<1> QED BY <1>3 DEF SentHeld, l

(* A follower sends the request to its leader, and keeps the callback.      *)
LEMMA ForwardCommandHeld ==
  ASSUME NEW n \in Node, NEW r, NEW H, NEW C, History(H, C), Good(n, r, H, C), r.alive,
         NEW q, q \in Seq(Request(C)), NEW k \in 1..Len(q), NEW W, NEW U, Map(W), Map(U),
         LogHeld(H, W), Held(n, r, q, k - 1, W, U)
  PROVE  LET s == ForwardCommand(r, q[k]) IN
         \E X, V : Moves(n, W, X) /\ Turns(n, U, V) /\ LogHeld(H, X) /\ Held(n, s, q, k, X, V)
<1> DEFINE c == q[k].cmd
           s == ForwardCommand(r, q[k])
<1>1. /\ q[k] \in Request(C) /\ c \in C /\ c \in Command /\ k \in ((k - 1) + 1)..Len(q) /\ q[k].id \in Nat
      /\ Shaped(r) /\ r.counter \in Nat /\ MaxTerm \in Nat
  <2>1. q[k] \in Request(C) /\ k \in ((k - 1) + 1)..Len(q)
    OBVIOUS
  <2> QED BY <2>1, BoundAssumption DEF Request, History, Good, NodeOK
<1>2. W[c] = <<n, n>> /\ (q[k].from = None => Caller[c] = n /\ U[c] = <<"queue", 0>>)
  BY <1>1 DEF Held, QueueHeld
<1>3. CASE q[k].from # None
  <2> DEFINE m == [type |-> "apply_command_response", id |-> q[k].id, error |-> "NOT_LEADER", idx |-> 0, term |-> 0]
  <2>1. m \in Message(H, C) /\ m.type # "apply_command"
    BY <1>1 DEF Message
  <2>2. s = SendNode(r, q[k].from, m)
    BY <1>3 DEF ForwardCommand
  <2> HIDE DEF m, s
  <2>3. Still(n, r, s)
    BY <2>1, <2>2, SendNodeGood
  <2>4. /\ QueueHeld(n, q, k, W, U) /\ RepliesHeld(n, r.waitingReply, U) /\ CommitsHeld(n, r.waitingCommit, U)
        /\ AsksHeld(n, r.out, W) /\ CallsHeld(n, r.calls, U)
    BY DropHeld
  <2>5. Held(n, r, q, k, W, U)
    BY <2>4 DEF Held
  <2>6. Held(n, s, q, k, W, U)
    BY <2>3, <2>5, HeldStill
  <2> QED BY <2>6, TurnsSame DEF Moves, s
<1>4. CASE q[k].from = None
  <2> HIDE DEF c
  <2> DEFINE id == r.counter + 1
             a == [r EXCEPT !.counter = id,
                            !.waitingReply = [i \in DOMAIN @ \cup {id} |-> IF i = id THEN c ELSE @[i]]]
             m == [type |-> "apply_command", cmd |-> c, id |-> id]
             to == r.leader
             b == [a EXCEPT !.out[to] = Append(@, m)]
             V == [U EXCEPT ![c] = <<"reply", id>>]
             X == IF to \in Peer(n) THEN [W EXCEPT ![c] = <<n, to>>] ELSE W
  <2>1. id \in Nat /\ m \in Message(H, C) /\ m.cmd = c
    BY <1>1 DEF Message
  <2>2. s = SendNode(a, to, m)
    BY <1>4 DEF ForwardCommand, c
  <2> HIDE DEF id, m
  <2>3. /\ Frame(r, a, {"counter", "waitingReply"})
        /\ a.waitingReply = [i \in DOMAIN r.waitingReply \cup {id} |-> IF i = id THEN c ELSE r.waitingReply[i]]
    BY <1>1 DEF Frame, Shaped, Fields
  <2> HIDE DEF a
  <2>4. s = IF a.alive THEN IF to \in DOMAIN a.out THEN b ELSE a ELSE a
    BY <2>2 DEF SendNode, Then
  <2>5. /\ a.alive = r.alive /\ a.out = r.out /\ a.calls = r.calls /\ a.waitingCommit = r.waitingCommit
        /\ Shaped(a) /\ r.out \in [Peer(n) -> Seq(Message(H, C))] /\ DOMAIN a.out = Peer(n)
    BY <2>3 DEF Frame, Fields, Good, NodeOK
  <2>6. V[c] = <<"reply", id>> /\ Map(V) /\ \A d \in Command : d # c => V[d] = U[d]
    BY <1>1 DEF Map
  <2>7. Map(X) /\ (\A d \in Command : d # c => X[d] = W[d]) /\ (to \in Peer(n) => X[c] = <<n, to>>)
    BY <1>1 DEF Map
  <2> HIDE DEF V, X
  <2>8. Turns(n, U, V) /\ Moves(n, W, X) /\ LogHeld(H, X)
    <3>1. LogHeld(H, X)
      <4>1. <<n, n>> # <<None, None>>
        BY NoneAssumption
      <4>2. \A x \in H : x.entry.idx >= 2 => x.entry.cmd \in Command /\ W[x.entry.cmd] = <<None, None>>
        BY DEF LogHeld, History
      <4>3. \A x \in H : x.entry.idx >= 2 => X[x.entry.cmd] = <<None, None>>
        BY <4>1, <4>2, <1>2, <2>7
      <4> QED BY <4>3 DEF LogHeld
    <3> QED BY <1>2, <1>4, <2>6, <2>7, <3>1 DEF Turns, Moves
  <2>9. /\ QueueHeld(n, q, k, X, V) /\ RepliesHeld(n, r.waitingReply, V) /\ CommitsHeld(n, r.waitingCommit, V)
        /\ AsksHeld(n, r.out, X) /\ CallsHeld(n, r.calls, V)
    BY <1>4, <2>6, <2>7, DropHeld, SMTT(30) DEF c
  <2>10. RepliesHeld(n, a.waitingReply, V)
    BY <1>2, <1>4, <2>1, <2>3, <2>6, <2>9, ZenonT(60) DEF RepliesHeld
  <2>11. Held(n, a, q, k, X, V)
    BY <2>5, <2>9, <2>10 DEF Held
  <2>12. CASE to \in Peer(n)
    <3>1. /\ Frame(a, b, {"out"}) /\ b.out = [a.out EXCEPT ![to] = Append(a.out[to], m)]
      BY <2>5 DEF Frame, Shaped, Fields
    <3> HIDE DEF b
    <3>2. /\ b.alive = a.alive /\ b.calls = a.calls /\ b.waitingCommit = a.waitingCommit
          /\ b.waitingReply = a.waitingReply
      BY <3>1 DEF Frame, Fields
    <3>3. ASSUME NEW i \in Asks(r.out[to]) PROVE r.out[to][i].cmd # c
      <4>1. W[r.out[to][i].cmd] = <<n, to>> /\ to # n
        BY <2>12 DEF Held, AsksHeld, SentHeld, Peer
      <4> QED BY <4>1, <1>2
    <3>4. ASSUME NEW i \in Asks(chan[n][to]) PROVE chan[n][to][i].cmd # c
      <4>1. W[chan[n][to][i].cmd] = <<n, to>> /\ to # n
        BY <2>12 DEF Held, AsksHeld, SentHeld, Peer
      <4> QED BY <4>1, <1>2
    <3>5. SentHeld(Append(r.out[to], m), chan[n][to], <<n, to>>, X)
      <4>1. SentHeld(r.out[to], chan[n][to], <<n, to>>, X) /\ r.out[to] \in Seq(Message(H, C))
        BY <2>5, <2>9, <2>12 DEF AsksHeld
      <4> QED BY <4>1, <1>1, <2>1, <2>7, <2>12, <3>3, <3>4, SentAppend
    <3>6. AsksHeld(n, b.out, X)
      <4>1. b.out[to] = Append(r.out[to], m) /\ \A p \in Peer(n) : p # to => b.out[p] = r.out[p]
        BY <2>5, <2>12, <3>1
      <4> SUFFICES ASSUME NEW p \in Peer(n)
                   PROVE  SentHeld(chan[n][p], <<>>, <<n, p>>, X) /\ SentHeld(b.out[p], chan[n][p], <<n, p>>, X)
        BY DEF AsksHeld
      <4>2. SentHeld(chan[n][p], <<>>, <<n, p>>, X) /\ SentHeld(r.out[p], chan[n][p], <<n, p>>, X)
        BY <2>9 DEF AsksHeld
      <4>3. CASE p = to
        BY <3>5, <4>1, <4>2, <4>3
      <4>4. CASE p # to
        BY <4>1, <4>2, <4>4
      <4> QED BY <4>3, <4>4
    <3>7. Held(n, b, q, k, X, V)
      BY <2>11, <3>2, <3>6 DEF Held
    <3> QED BY <2>4, <2>5, <2>8, <2>12, <3>7 DEF s
  <2>13. CASE to \notin Peer(n)
    BY <2>4, <2>5, <2>8, <2>11, <2>13 DEF s
  <2> QED BY <2>12, <2>13
<1> QED BY <1>3, <1>4

LEMMA OneCommandHeld ==
  ASSUME NEW n \in Node, NEW r, NEW H, NEW C, History(H, C), Good(n, r, H, C),
         r.alive /\ r.state = "LEADER" => r.log # <<>>, NEW slow \in BOOLEAN,
         NEW q, q \in Seq(Request(C)), NEW k \in 1..Len(q), NEW W, NEW U, Map(W), Map(U),
         LogHeld(H, W), Held(n, r, q, k - 1, W, U)
  PROVE  LET s == OneCommand(n, r, q[k], slow) IN
         \E K, X, V : /\ Grow(n, r, H, K, C) /\ Good(n, s, K, C)
                      /\ s.alive /\ s.state = "LEADER" => s.log # <<>>
                      /\ SameRole(r, s) /\ s.dumping = r.dumping /\ s.queue = r.queue
                      /\ Moves(n, W, X) /\ Turns(n, U, V) /\ LogHeld(K, X) /\ Held(n, s, q, k, X, V)
<1> DEFINE s == OneCommand(n, r, q[k], slow)
           x == LeaderCommand(n, r, q[k], slow)
           y == ForwardCommand(r, q[k])
<1>1. s = IF r.alive THEN IF r.state = "LEADER" THEN x ELSE y ELSE r
  BY DEF OneCommand, Then
<1>2. Grow(n, r, H, H, C) /\ q[k] \in Request(C)
  BY DEF Grow
<1> HIDE DEF s, x, y
<1>3. CASE ~r.alive
  <2>1. Held(n, r, q, k, W, U) /\ s = r /\ SameRole(r, r) /\ Moves(n, W, W)
    BY <1>1, <1>3 DEF Held, Moves, SameRole
  <2> QED BY <1>2, <1>3, <2>1, TurnsSame DEF s
<1>4. CASE r.alive /\ r.state = "LEADER"
  <2>1. \E K, X, V : /\ Grow(n, r, H, K, C) /\ Good(n, x, K, C)
                     /\ x.log # <<>> /\ SameRole(r, x) /\ x.dumping = r.dumping /\ x.queue = r.queue
                     /\ Moves(n, W, X) /\ Turns(n, U, V) /\ LogHeld(K, X) /\ Held(n, x, q, k, X, V)
    BY <1>4, LeaderCommandHeld DEF x
  <2>2. s = x
    BY <1>1, <1>4
  <2> QED BY <2>1, <2>2 DEF s
<1>5. CASE r.alive /\ r.state # "LEADER"
  <2>1. Good(n, y, H, C) /\ y.state = r.state /\ SameRole(r, y) /\ y.dumping = r.dumping /\ y.queue = r.queue
    BY <1>2, ForwardCommandGood, SMTT(30) DEF y, Frame, Fields, SameRole
  <2>2. \E X, V : Moves(n, W, X) /\ Turns(n, U, V) /\ LogHeld(H, X) /\ Held(n, y, q, k, X, V)
    BY <1>5, ForwardCommandHeld DEF y
  <2>3. s = y /\ y.state # "LEADER"
    BY <1>1, <1>5, <2>1
  <2> QED BY <1>2, <2>1, <2>2, <2>3 DEF s
<1> QED BY <1>3, <1>4, <1>5

LEMMA QueueRest ==
  ASSUME NEW C, NEW q \in Seq(Request(C)), NEW k \in 0..Len(q), NEW n, NEW W, NEW U, QueueHeld(n, q, k, W, U)
  PROVE  QueueHeld(n, SubSeq(q, k + 1, Len(q)), 0, W, U)
<1> DEFINE s == SubSeq(q, k + 1, Len(q))
<1>1. Len(q) \in Nat /\ k \in Nat /\ k <= Len(q)
  OBVIOUS
<1>2. Len(s) = Len(q) - k /\ \A i \in 1..(Len(q) - k) : s[i] = q[k + i]
  BY <1>1
<1> HIDE DEF s
<1>3. \A i \in (0 + 1)..Len(s) : k + i \in (k + 1)..Len(q) /\ s[i] = q[k + i] /\ i \in Int
  BY <1>1, <1>2
<1>4. \A i, j \in Int : k + i = k + j => i = j
  BY <1>1
<1> QED BY <1>3, <1>4, SMTT(30) DEF QueueHeld, s

(* The whole queue, one request after the other.                            *)
LEMMA CheckCommandsToApplyHeld ==
  ASSUME NEW n \in Node, NEW r, NEW H, NEW C, History(H, C), Good(n, r, H, C),
         r.alive /\ r.state = "LEADER" => r.log # <<>>, NEW slow \in BOOLEAN,
         NEW W, NEW U, Map(W), Map(U), LogHeld(H, W), Held(n, r, r.queue, 0, W, U)
  PROVE  LET c == CheckCommandsToApply(n, r, slow) IN
         \E K, X, V : /\ Grow(n, r, H, K, C) /\ Good(n, c, K, C) /\ c.dumping = r.dumping
                      /\ Moves(n, W, X) /\ Turns(n, U, V) /\ LogHeld(K, X) /\ Held(n, c, c.queue, 0, X, V)
<1> DEFINE k0 == IF r.leader = None THEN 0 ELSE Min({MaxCommandsPerTick, Len(r.queue)})
           q == SubSeq(r.queue, 1, k0)
           len == Len(q)
           s == [r EXCEPT !.queue = SubSeq(@, k0 + 1, Len(@))]
           c == CheckCommandsToApply(n, r, slow)
<1>1. r.queue \in Seq(Request(C)) /\ Len(r.queue) \in Nat /\ MaxCommandsPerTick \in Nat /\ Shaped(r)
  BY SizeAssumption DEF Good, NodeOK
<1>2. k0 \in Nat /\ k0 <= Len(r.queue)
  BY <1>1, MinOfTwo
<1>3. c = Commands(n, s, q, slow)
  BY DEF CheckCommandsToApply, Commands
<1> HIDE DEF k0
<1>4. q \in Seq(Request(C)) /\ SubSeq(r.queue, k0 + 1, Len(r.queue)) \in Seq(Request(C))
  <2>1. \A i \in 1..k0 : i \in 1..Len(r.queue)
    BY <1>1, <1>2
  <2>2. \A i \in (k0 + 1)..Len(r.queue) : i \in 1..Len(r.queue)
    BY <1>1, <1>2
  <2> QED BY <1>1, <1>2, <2>1, <2>2
<1>5. len \in Nat /\ len = k0 /\ \A k \in 1..len : q[k] = r.queue[k] /\ k \in 1..Len(r.queue)
  BY <1>1, <1>2
<1>6. Frame(r, s, {"queue"}) /\ s.queue = SubSeq(r.queue, k0 + 1, Len(r.queue))
  BY <1>1 DEF Frame, Shaped, Fields
<1> HIDE DEF q, s, c
<1>7. /\ Good(n, s, H, C) /\ (s.alive /\ s.state = "LEADER" => s.log # <<>>) /\ s.dumping = r.dumping
      /\ SameRole(r, s)
  BY <1>4, <1>6 DEF Good, NodeOK, Fresh, Frame, Fields, SameRole
<1>8. PICK f : /\ c = f[len] /\ f[0] = s
               /\ \A k \in 1..len : f[k] = OneCommand(n, f[k - 1], q[k], slow)
  <2>1. \E f : Commands(n, s, q, slow) = f[Len(q)] /\ CommandRun(f, n, s, q, slow)
    BY <1>5, CommandsUnfold
  <2> QED BY <1>3, <2>1 DEF CommandRun
<1> HIDE DEF len
<1> DEFINE L(t) == (t.alive /\ t.state = "LEADER" => t.log # <<>>) /\ t.dumping = r.dumping /\ SameRole(r, t)
           M(K, X, V, k) == /\ Moves(n, W, X) /\ Turns(n, U, V) /\ LogHeld(K, X)
                            /\ Held(n, f[k], r.queue, k, X, V) /\ f[k].queue = s.queue
           P(k) == \E K, X, V : Grow(n, r, H, K, C) /\ Good(n, f[k], K, C) /\ L(f[k]) /\ M(K, X, V, k)
           Bad == {k \in 0..len : ~P(k)}
<1>9. P(0)
  <2>1. Grow(n, r, H, H, C)
    BY DEF Grow
  <2>2. M(H, W, U, 0)
    <3>1. /\ s.alive = r.alive /\ s.waitingReply = r.waitingReply /\ s.waitingCommit = r.waitingCommit
          /\ s.out = r.out /\ s.calls = r.calls
      BY <1>6 DEF Frame, Fields
    <3>2. Held(n, s, r.queue, 0, W, U)
      BY <3>1 DEF Held
    <3>3. Moves(n, W, W) /\ Turns(n, U, U)
      BY TurnsSame DEF Moves
    <3> QED BY <3>2, <3>3, <1>8
  <2> HIDE DEF M
  <2> QED BY <1>7, <1>8, <2>1, <2>2
<1>10. ASSUME NEW k \in 1..len, P(k - 1) PROVE P(k)
  <2>1. PICK J, Y, T : Grow(n, r, H, J, C) /\ Good(n, f[k - 1], J, C) /\ L(f[k - 1]) /\ M(J, Y, T, k - 1)
    BY <1>10
  <2>2. History(J, C) /\ f[k] = OneCommand(n, f[k - 1], r.queue[k], slow) /\ k \in 1..Len(r.queue)
    BY <2>1, <1>5, <1>8 DEF Grow
  <2> DEFINE t == f[k - 1]
             u == f[k]
  <2>3. \E K, X, V : /\ Grow(n, t, J, K, C) /\ Good(n, u, K, C) /\ SameRole(t, u)
                     /\ (u.alive /\ u.state = "LEADER" => u.log # <<>>) /\ u.dumping = t.dumping
                     /\ u.queue = t.queue /\ Moves(n, Y, X) /\ Turns(n, T, V)
                     /\ LogHeld(K, X) /\ Held(n, u, r.queue, k, X, V)
    <3>1. u = OneCommand(n, t, r.queue[k], slow) /\ Good(n, t, J, C) /\ (t.alive /\ t.state = "LEADER" => t.log # <<>>)
      BY <2>1, <2>2
    <3>2. Map(Y) /\ Map(T) /\ LogHeld(J, Y) /\ Held(n, t, r.queue, k - 1, Y, T)
      BY <2>1 DEF Moves, Turns
    <3> HIDE DEF t, u
    <3> QED BY <1>1, <2>2, <3>1, <3>2, OneCommandHeld
  <2>4. PICK K, X, V : /\ Grow(n, t, J, K, C) /\ Good(n, u, K, C) /\ SameRole(t, u)
                       /\ (u.alive /\ u.state = "LEADER" => u.log # <<>>) /\ u.dumping = t.dumping
                       /\ u.queue = t.queue /\ Moves(n, Y, X) /\ Turns(n, T, V)
                       /\ LogHeld(K, X) /\ Held(n, u, r.queue, k, X, V)
    BY <2>3
  <2>5. Grow(n, r, H, K, C)
    <3> HIDE DEF t
    <3> QED BY <2>1, <2>4, GrowTrans DEF t
  <2>6. L(f[k])
    BY <2>1, <2>4 DEF SameRole
  <2>7. M(K, X, V, k)
    <3>1. Moves(n, W, X) /\ Turns(n, U, V)
      BY <2>1, <2>4, MovesTrans, TurnsTrans
    <3> QED BY <2>1, <2>4, <3>1
  <2> HIDE DEF L, M
  <2> QED BY <2>4, <2>5, <2>6, <2>7
<1>11. Bad = {}
  <2>1. Bad \subseteq 0..len /\ 0 \notin Bad
    BY <1>9
  <2>2. \A k \in 1..len : k - 1 \in 0..len
    BY <1>5
  <2>3. \A k \in 1..len : k \in Bad => k - 1 \in Bad
    <3> HIDE DEF P
    <3> QED BY <1>10, <2>2
  <2> HIDE DEF Bad
  <2> QED BY <1>5, <2>1, <2>3, NoFirstBad
<1>12. len \in 0..len
  BY <1>5
<1>13. P(len)
  <2> HIDE DEF P
  <2> QED BY <1>11, <1>12
<1>14. PICK K, X, V : Grow(n, r, H, K, C) /\ Good(n, c, K, C) /\ L(c) /\ M(K, X, V, len)
  BY <1>8, <1>13
<1>15. Held(n, c, c.queue, 0, X, V)
  <2>1. Held(n, c, r.queue, k0, X, V) /\ c.queue = SubSeq(r.queue, k0 + 1, Len(r.queue))
    BY <1>5, <1>6, <1>8, <1>14
  <2>2. k0 \in 0..Len(r.queue)
    BY <1>1, <1>2
  <2>3. c.alive => QueueHeld(n, c.queue, 0, X, V)
    BY <1>1, <2>1, <2>2, QueueRest DEF Held
  <2> QED BY <2>1, <2>3 DEF Held
<1> QED BY <1>14, <1>15 DEF c

(* A command whose mark nobody at n has may change its mark.                *)
LEMMA ElsewhereHeld ==
  ASSUME NEW n \in Node, NEW r, NEW H, NEW C, History(H, C), Good(n, r, H, C),
         NEW W, NEW U, NEW V, NEW mark, NEW c \in Command, Held(n, r, r.queue, 0, W, U), U[c] = mark,
         mark # <<"queue", 0>>, mark # <<"told", 0>>, \A i \in DOMAIN r.waitingReply : mark # <<"reply", i>>,
         \A i : mark # <<"commit", i>>, \A d \in Command : d # c => V[d] = U[d]
  PROVE  Held(n, r, r.queue, 0, W, V)
<1>1. C \subseteq Command /\ r.queue \in Seq(Request(C))
  BY DEF History, Good, NodeOK
<1>2. \A d \in Command : U[d] # mark => V[d] = U[d]
  OBVIOUS
<1>6. ASSUME r.alive PROVE QueueHeld(n, r.queue, 0, W, V)
  <2> DEFINE q == r.queue
  <2>1. QueueHeld(n, q, 0, W, U)
    BY <1>6 DEF Held
  <2>2. \A x \in Request(C) : x.cmd \in Command
    BY <1>1 DEF Request
  <2> HIDE DEF q
  <2>3. \A i \in (0 + 1)..Len(q) : q[i].cmd \in Command
    BY <2>2, <1>1 DEF q
  <2> QED BY <2>1, <2>3, <1>2 DEF QueueHeld, q
<1>7. ASSUME r.alive PROVE RepliesHeld(n, r.waitingReply, V)
  <2> SUFFICES ASSUME NEW i \in DOMAIN r.waitingReply
               PROVE  i \in Nat /\ Caller[r.waitingReply[i]] = n /\ V[r.waitingReply[i]] = <<"reply", i>>
    BY DEF RepliesHeld
  <2>1. i \in Nat /\ Caller[r.waitingReply[i]] = n /\ U[r.waitingReply[i]] = <<"reply", i>>
    BY <1>7 DEF Held, RepliesHeld
  <2>2. r.waitingReply[i] \in Command
    BY <1>1 DEF Good, NodeOK
  <2>3. mark # <<"reply", i>>
    OBVIOUS
  <2> QED BY <2>1, <2>2, <2>3, <1>2
<1>8. ASSUME r.alive PROVE CommitsHeld(n, r.waitingCommit, V)
  <2> SUFFICES ASSUME NEW i \in DOMAIN r.waitingCommit PROVE ListHeld(n, r.waitingCommit[i], i, V)
    BY DEF CommitsHeld
  <2> DEFINE l == r.waitingCommit[i]
  <2>1. ListHeld(n, l, i, U)
    BY <1>8 DEF Held, CommitsHeld
  <2>2. l \in Seq(Waiting(C)) /\ \A w \in Waiting(C) : w.cmd \in Command
    BY <1>1 DEF Good, NodeOK, Waiting
  <2> HIDE DEF l
  <2>3. \A j \in 1..Len(l) : l[j].cmd \in Command
    BY <2>2
  <2>4. ASSUME NEW j \in 1..Len(l) PROVE V[l[j].cmd] = <<"commit", i>>
    <3>1. U[l[j].cmd] = <<"commit", i>> /\ l[j].cmd \in Command /\ mark # <<"commit", i>>
      BY <2>1, <2>3 DEF ListHeld
    <3> QED BY <3>1, <1>2
  <2> QED BY <2>1, <2>4 DEF ListHeld, l
<1>9. CallsHeld(n, r.calls, V)
  <2>1. CallsHeld(n, r.calls, U)
    BY DEF Held
  <2>2. r.calls \in Seq(Call) /\ \A x \in Call : x.cmd \in Command
    BY <2>1 DEF CallsHeld, Call
  <2>3. \A i \in 1..Len(r.calls) : r.calls[i].cmd \in Command
    BY <2>2
  <2>4. \A i \in 1..Len(r.calls) : V[r.calls[i].cmd] = <<"told", 0>>
    BY <2>1, <2>3, <1>2 DEF CallsHeld
  <2> QED BY <2>1, <2>4 DEF CallsHeld
<1> QED BY <1>6, <1>7, <1>8, <1>9 DEF Held

(* A reply: the callback is told, or waits for the index from now on.       *)
LEMMA OnApplyCommandResponseHeld ==
  ASSUME NEW n \in Node, NEW r, NEW H, NEW C, History(H, C), Good(n, r, H, C), r.alive,
         NEW m \in Message(H, C), m.type = "apply_command_response",
         NEW W, NEW U, Map(U), AnswersHeld(U), Held(n, r, r.queue, 0, W, U)
  PROVE  LET s == OnApplyCommandResponse(r, m) IN
         s.queue = r.queue /\ \E V : Turns(n, U, V) /\ Held(n, s, r.queue, 0, W, V)
<1> DEFINE cmd == r.waitingReply[m.id]
           a == [r EXCEPT !.waitingReply = [i \in DOMAIN @ \ {m.id} |-> @[i]]]
           u == OnUpdateFunction(a, cmd, m.error)
           w == Subscribe(a, m.idx, m.term, cmd)
           y == [a EXCEPT !.alive = FALSE]
           V == [U EXCEPT ![cmd] = <<"commit", m.idx>>]
<1>1. m.term \in 0..MaxTerm /\ m.error \in {None, "NOT_LEADER"}
  BY MessageFields
<1>2. CASE m.id \notin DOMAIN r.waitingReply
  BY <1>2, TurnsSame DEF OnApplyCommandResponse
<1>3. CASE m.id \in DOMAIN r.waitingReply
  <2>1. cmd \in C /\ cmd \in Command /\ Caller[cmd] = n /\ U[cmd] = <<"reply", m.id>>
    BY <1>3 DEF Good, NodeOK, History, Held, RepliesHeld
  <2>2. /\ Frame(r, a, {"waitingReply"})
        /\ a.waitingReply = [i \in DOMAIN r.waitingReply \ {m.id} |-> r.waitingReply[i]]
    BY DEF Frame, Shaped, Fields, Good, NodeOK
  <2>3. OnApplyCommandResponse(r, m) =
          IF m.error # None THEN u ELSE IF m.idx > r.applied THEN w ELSE y
    BY <1>3 DEF OnApplyCommandResponse
  <2> HIDE DEF a, cmd
  <2>4. /\ a.alive = r.alive /\ a.waitingCommit = r.waitingCommit /\ a.out = r.out /\ a.calls = r.calls
        /\ a.queue = r.queue
    BY <2>2 DEF Frame, Fields
  <2>5. Good(n, a, H, C)
    <3>1. \A i \in DOMAIN a.waitingReply : a.waitingReply[i] \in C
      BY <2>2 DEF Good, NodeOK
    <3> QED BY <2>2, <3>1 DEF Good, NodeOK, Fresh, Frame, Fields
  <2>6. Held(n, a, a.queue, 0, W, U)
    <3>1. RepliesHeld(n, a.waitingReply, U)
      BY <2>2 DEF Held, RepliesHeld
    <3> QED BY <2>4, <3>1 DEF Held
  <2>7. CASE m.error # None
    <3>1. m.error \in Outcome \ {"SUCCESS"}
      BY <1>1, <2>7 DEF Outcome
    <3>2. U[cmd] # <<"told", 0>> /\ U[cmd] # <<"new", 0>>
      BY <2>1
    <3>3. \E X : Turns(n, U, X) /\ Held(n, u, r.queue, 0, W, X)
      BY <2>1, <2>4, <2>5, <2>6, <3>1, <3>2, FailureHeld
    <3>4. u.queue = a.queue
      BY <2>5, OnUpdateFunctionFrame DEF Good, NodeOK, Frame, Fields
    <3> HIDE DEF u
    <3> QED BY <2>3, <2>4, <2>7, <3>3, <3>4
  <2>8. CASE m.error = None /\ m.idx > r.applied
    <3>1. V[cmd] = <<"commit", m.idx>> /\ Map(V) /\ \A d \in Command : d # cmd => V[d] = U[d]
      BY <2>1 DEF Map
    <3> HIDE DEF V
    <3>2. Turns(n, U, V)
      BY <2>1, <3>1 DEF Turns
    <3>9. Held(n, a, a.queue, 0, W, V)
      <4> DEFINE mark == <<"reply", m.id>>
      <4>1. m.id \notin DOMAIN a.waitingReply
        BY <2>2
      <4>2. /\ mark # <<"queue", 0>> /\ mark # <<"told", 0>> /\ (\A i : i # m.id => mark # <<"reply", i>>)
            /\ \A i : mark # <<"commit", i>>
        OBVIOUS
      <4>3. U[cmd] = mark
        BY <2>1
      <4> HIDE DEF mark
      <4> QED BY <2>1, <2>5, <2>6, <3>1, <4>1, <4>2, <4>3, ElsewhereHeld, ZenonT(60)
    <3>3. /\ QueueHeld(n, a.queue, 0, W, V) /\ RepliesHeld(n, a.waitingReply, V)
          /\ CommitsHeld(n, a.waitingCommit, V) /\ CallsHeld(n, a.calls, V)
      BY <2>4, <3>9 DEF Held
    <3> DEFINE l == Subscribers(a, m.idx)
    <3>4. \A j \in 1..Len(l) : l[j].cmd # cmd
      <4>1. m.idx \in DOMAIN a.waitingCommit => l = a.waitingCommit[m.idx]
        BY DEF Subscribers
      <4>2. m.idx \notin DOMAIN a.waitingCommit => l = <<>>
        BY DEF Subscribers
      <4>3. m.idx \in DOMAIN a.waitingCommit => ListHeld(n, l, m.idx, U)
        BY <4>1, <2>4, <2>6 DEF Held, CommitsHeld
      <4>4. <<"commit", m.idx>> # <<"reply", m.id>>
        OBVIOUS
      <4> HIDE DEF l
      <4> QED BY <4>2, <4>3, <4>4, <2>1 DEF ListHeld
    <3>5. CommitsHeld(n, w.waitingCommit, V)
      BY <2>1, <2>5, <3>1, <3>3, <3>4, SubscribeHeld
    <3>6. Frame(a, w, {"waitingCommit"})
      BY <1>1, <2>1, <2>5, SubscribeGood
    <3> HIDE DEF w
    <3>7. /\ w.alive = a.alive /\ w.waitingReply = a.waitingReply /\ w.out = a.out /\ w.calls = a.calls
          /\ w.queue = a.queue
      BY <3>6 DEF Frame, Fields
    <3>8. Held(n, w, r.queue, 0, W, V)
      BY <2>4, <2>6, <3>3, <3>5, <3>7 DEF Held
    <3> QED BY <2>3, <2>4, <2>8, <3>2, <3>7, <3>8
  <2>9. CASE m.error = None /\ ~(m.idx > r.applied)
    <3>1. Still(n, a, y)
      BY <2>5, RaiseGood
    <3> HIDE DEF y
    <3>2. Held(n, y, r.queue, 0, W, U) /\ y.queue = r.queue
      BY <2>4, <2>6, <3>1, HeldStill DEF Still
    <3> QED BY <2>3, <2>9, <3>2, TurnsSame
  <2> QED BY <2>7, <2>8, <2>9
<1> QED BY <1>2, <1>3

(* One more request in the queue.                                           *)
LEMMA QueueGrows ==
  ASSUME NEW n \in Node, NEW C, NEW q, q \in Seq(Request(C)), C \subseteq Command, NEW W, NEW V, NEW X,
         QueueHeld(n, q, 0, W, V), NEW x, W[x.cmd] # <<n, n>>, X[x.cmd] = <<n, n>>,
         \A d \in Command : d # x.cmd => X[d] = W[d],
         x.from = None => Caller[x.cmd] = n /\ V[x.cmd] = <<"queue", 0>>
  PROVE  QueueHeld(n, Append(q, x), 0, X, V)
<1> DEFINE l == Append(q, x)
           c == x.cmd
<1>1. Len(q) \in Nat /\ Len(l) = Len(q) + 1 /\ l[Len(q) + 1] = x /\ \A i \in 1..Len(q) : l[i] = q[i]
  OBVIOUS
<1> HIDE DEF l
<1>2. \A i \in 1..Len(q) : q[i].cmd \in Command /\ W[q[i].cmd] = <<n, n>> /\ q[i].cmd # c
  <2>1. \A y \in Request(C) : y.cmd \in Command
    BY DEF Request
  <2>2. \A i \in 1..Len(q) : q[i].cmd \in Command
    BY <2>1
  <2>3. \A i \in 1..Len(q) : W[q[i].cmd] = <<n, n>>
    BY DEF QueueHeld
  <2> QED BY <2>2, <2>3
<1>3. \A i \in (0 + 1)..Len(l) : i \in 1..Len(q) \/ i = Len(q) + 1
  BY <1>1
<1> SUFFICES ASSUME NEW i \in (0 + 1)..Len(l)
             PROVE  /\ X[l[i].cmd] = <<n, n>>
                    /\ \A j \in (0 + 1)..Len(l) : l[j].cmd = l[i].cmd => j = i
                    /\ l[i].from = None => Caller[l[i].cmd] = n /\ V[l[i].cmd] = <<"queue", 0>>
  BY DEF QueueHeld, l
<1>4. CASE i = Len(q) + 1
  <2>1. l[i] = x
    BY <1>1, <1>4
  <2>2. \A j \in (0 + 1)..Len(l) : l[j].cmd = c => j = i
    BY <1>1, <1>2, <1>3, <1>4
  <2> QED BY <2>1, <2>2
<1>5. CASE i \in 1..Len(q)
  <2>1. l[i] = q[i] /\ q[i].cmd # c /\ q[i].cmd \in Command
    BY <1>1, <1>2, <1>5
  <2>2. \A j \in (0 + 1)..Len(l) : l[j].cmd = l[i].cmd => j \in 1..Len(q)
    BY <1>1, <1>3, <2>1
  <2>3. \A j \in 1..Len(q) : q[j].cmd = q[i].cmd => j = i
    BY <1>5 DEF QueueHeld
  <2>4. X[q[i].cmd] = W[q[i].cmd]
    BY <2>1
  <2>5. q[i].from = None => Caller[q[i].cmd] = n /\ V[q[i].cmd] = <<"queue", 0>>
    BY <1>5 DEF QueueHeld
  <2> QED BY <1>1, <1>2, <1>5, <2>1, <2>2, <2>3, <2>4, <2>5
<1> QED BY <1>3, <1>4, <1>5

(* A command that is not in the channels of n may go to another place.      *)
LEMMA AsksElsewhere ==
  ASSUME NEW n \in Node, NEW out, NEW W, NEW X, AsksHeld(n, out, W),
         \A d \in Command : (\E p \in Peer(n) : W[d] = <<n, p>>) => X[d] = W[d]
  PROVE  AsksHeld(n, out, X)
<1> SUFFICES ASSUME NEW p \in Peer(n)
             PROVE  SentHeld(chan[n][p], <<>>, <<n, p>>, X) /\ SentHeld(out[p], chan[n][p], <<n, p>>, X)
  BY DEF AsksHeld
<1> DEFINE at == <<n, p>>
<1>1. SentHeld(chan[n][p], <<>>, at, W) /\ SentHeld(out[p], chan[n][p], at, W)
  BY DEF AsksHeld
<1>2. \A d \in Command : W[d] = at => X[d] = at
  OBVIOUS
<1> HIDE DEF at
<1>3. SentHeld(chan[n][p], <<>>, at, X) /\ SentHeld(out[p], chan[n][p], at, X)
  BY <1>1, <1>2 DEF SentHeld
<1> QED BY <1>3 DEF at

(* A request comes from a client (from is None) or from another node.       *)
LEMMA ApplyCommandHeld ==
  ASSUME NEW n \in Node, NEW r, NEW H, NEW C, History(H, C), Good(n, r, H, C),
         NEW W, NEW U, Map(W), Map(U), AnswersHeld(U), Held(n, r, r.queue, 0, W, U),
         NEW c \in Command, NEW from \in Node \cup {None}, from # n, NEW id, W[c] = <<from, n>>,
         from = None => U[c] = <<"new", 0>> /\ Caller[c] = n,
         NEW X, X[c] = <<n, n>>, \A d \in Command : d # c => X[d] = W[d]
  PROVE  LET s == ApplyCommand(r, c, from, id) IN
         \E V : /\ Map(V) /\ (\A d \in Command : d # c => V[d] = U[d]) /\ (from # None => V = U)
                /\ AnswersHeld(V) /\ Held(n, s, s.queue, 0, X, V)
<1> DEFINE V == IF from = None THEN [U EXCEPT ![c] = <<"queue", 0>>] ELSE U
           x == [cmd |-> c, from |-> from, id |-> id]
           s == [r EXCEPT !.queue = Append(@, x)]
           t == Callback(r, c, "QUEUE_FULL")
           y == [r EXCEPT !.alive = FALSE]
<1>1. /\ Shaped(r) /\ r.alive \in BOOLEAN /\ C \subseteq Command /\ r.queue \in Seq(Request(C))
      /\ ApplyCommand(r, c, from, id) = IF Len(r.queue) < QueueSize THEN s ELSE IF from = None THEN t ELSE y
  BY DEF ApplyCommand, Good, NodeOK, History
<1>2. X[c] = <<n, n>> /\ \A d \in Command : d # c => X[d] = W[d]
  OBVIOUS
<1>3. /\ Map(V) /\ (\A d \in Command : d # c => V[d] = U[d]) /\ (from # None => V = U)
      /\ (from = None => V[c] = <<"queue", 0>>)
  BY DEF Map
<1>4. AnswersHeld(V)
  <2>1. from = None => answers[c] = <<>>
    <3>1. <<"new", 0>> # <<"told", 0>>
      OBVIOUS
    <3> QED BY <3>1 DEF AnswersHeld
  <2> HIDE DEF V
  <2> QED BY <2>1, <1>3 DEF AnswersHeld
<1>5. AsksHeld(n, r.out, X)
  <2>1. \A p \in Peer(n) : <<from, n>> # <<n, p>>
    OBVIOUS
  <2>2. AsksHeld(n, r.out, W)
    BY DEF Held
  <2>3. \A d \in Command : (\E p \in Peer(n) : W[d] = <<n, p>>) => X[d] = W[d]
    BY <1>2, <2>1
  <2> QED BY <2>2, <2>3, AsksElsewhere
<1>6. Held(n, r, r.queue, 0, W, V)
  <2> DEFINE mark == <<"new", 0>>
  <2>1. /\ mark # <<"queue", 0>> /\ mark # <<"told", 0>> /\ (\A i : mark # <<"reply", i>>)
        /\ (\A i : mark # <<"commit", i>>) /\ (from = None => U[c] = mark)
    OBVIOUS
  <2> HIDE DEF mark, V
  <2>2. CASE from = None
    BY <2>1, <2>2, <1>3, ElsewhereHeld
  <2>3. CASE from # None
    BY <2>3, <1>3
  <2> QED BY <2>2, <2>3
<1>7. <<from, n>> # <<n, n>>
  OBVIOUS
<1> HIDE DEF V
<1>8. CASE Len(r.queue) < QueueSize
  <2>1. Frame(r, s, {"queue"}) /\ s.queue = Append(r.queue, x)
    BY <1>1 DEF Frame, Shaped, Fields
  <2>2. x.cmd = c /\ x.from = from
    OBVIOUS
  <2> HIDE DEF s, x
  <2>3. s.alive = r.alive /\ s.waitingReply = r.waitingReply /\ s.waitingCommit = r.waitingCommit
        /\ s.out = r.out /\ s.calls = r.calls
    BY <2>1 DEF Frame, Fields
  <2>4. r.alive => QueueHeld(n, s.queue, 0, X, V)
    <3> SUFFICES ASSUME r.alive PROVE QueueHeld(n, Append(r.queue, x), 0, X, V)
      BY <2>1
    <3>1. QueueHeld(n, r.queue, 0, W, V)
      BY <1>6 DEF Held
    <3>2. \A d \in Command : d # c => X[d] = W[d]
      BY <1>2
    <3>3. x.from = None => Caller[c] = n /\ V[c] = <<"queue", 0>>
      BY <1>3, <2>2
    <3>4. W[c] # <<n, n>> /\ X[c] = <<n, n>>
      BY <1>2, <1>7
    <3> DEFINE q == r.queue
    <3>5. q \in Seq(Request(C)) /\ C \subseteq Command /\ QueueHeld(n, q, 0, W, V) /\ x.cmd = c
      BY <1>1, <2>2, <3>1
    <3> HIDE DEF q
    <3>6. QueueHeld(n, Append(q, x), 0, X, V)
      BY <3>2, <3>3, <3>4, <3>5, QueueGrows
    <3> QED BY <3>6 DEF q
  <2>5. Held(n, s, s.queue, 0, X, V)
    BY <1>5, <1>6, <2>3, <2>4 DEF Held
  <2> QED BY <1>1, <1>3, <1>4, <1>8, <2>5
<1>12. ASSUME NEW T, Held(n, r, r.queue, 0, W, T) PROVE Held(n, r, r.queue, 0, X, T)
  <2> DEFINE q == r.queue
  <2>1. \A i \in (0 + 1)..Len(q) : q[i].cmd \in Command
    <3>1. \A z \in Request(C) : z.cmd \in Command
      BY <1>1 DEF Request
    <3> HIDE DEF q
    <3> QED BY <1>1, <3>1 DEF q
  <2>2. r.alive => QueueHeld(n, q, 0, W, T)
    BY <1>12 DEF Held
  <2> HIDE DEF q
  <2>3. \A d \in Command : W[d] = <<n, n>> => X[d] = <<n, n>>
    BY <1>2
  <2>4. r.alive => QueueHeld(n, q, 0, X, T)
    BY <2>1, <2>2, <2>3 DEF QueueHeld
  <2> QED BY <1>5, <1>12, <2>4 DEF Held, q
<1>9. CASE ~(Len(r.queue) < QueueSize) /\ from = None
  <2>1. Frame(r, t, {"calls"}) /\ t.calls = Append(r.calls, [cmd |-> c, err |-> "QUEUE_FULL"])
    BY <1>1, CallbackFrame DEF Callback, Shaped, Fields
  <2> HIDE DEF t
  <2>2. t.alive = r.alive /\ t.waitingReply = r.waitingReply /\ t.waitingCommit = r.waitingCommit
        /\ t.out = r.out /\ t.queue = r.queue
    BY <2>1 DEF Frame, Fields
  <2> DEFINE T == [V EXCEPT ![c] = <<"told", 0>>]
  <2>3. "QUEUE_FULL" \in Outcome
    BY DEF Outcome
  <2>4. V[c] # <<"told", 0>> /\ V[c] # <<"new", 0>>
    BY <1>3, <1>9
  <2>5. CallsHeld(n, r.calls, V)
    BY <1>6 DEF Held
  <2>6. Turns(n, V, T) /\ CallsHeld(n, t.calls, T)
    BY <1>3, <1>4, <1>9, <2>1, <2>3, <2>4, <2>5, CallsGrow
  <2>7. Map(T) /\ (\A d \in Command : d # c => T[d] = V[d])
    BY <1>3 DEF Map
  <2> HIDE DEF T
  <2>8. Held(n, r, r.queue, 0, X, T)
    <3> DEFINE mark == <<"new", 0>>
    <3>1. /\ mark # <<"queue", 0>> /\ mark # <<"told", 0>> /\ (\A i : mark # <<"reply", i>>)
          /\ \A i : mark # <<"commit", i>>
      OBVIOUS
    <3>2. U[c] = mark
      BY <1>9
    <3> HIDE DEF mark
    <3>3. \A d \in Command : d # c => T[d] = U[d]
      BY <1>3, <2>7
    <3>4. Held(n, r, r.queue, 0, W, T)
      BY <3>1, <3>2, <3>3, ElsewhereHeld
    <3> QED BY <3>4, <1>12
  <2>9. Held(n, t, t.queue, 0, X, T)
    BY <2>2, <2>6, <2>8 DEF Held
  <2>10. AnswersHeld(T)
    BY <1>4, <2>6, TurnsAnswers
  <2> QED BY <1>1, <1>3, <1>9, <2>7, <2>9, <2>10
<1>10. CASE ~(Len(r.queue) < QueueSize) /\ from # None
  <2>1. Still(n, r, y)
    BY RaiseGood
  <2> HIDE DEF y
  <2>2. Held(n, y, y.queue, 0, X, V)
    BY <1>6, <1>12, <2>1, HeldStill DEF Still
  <2> QED BY <1>1, <1>3, <1>4, <1>10, <2>2
<1> QED BY <1>8, <1>9, <1>10

(* A message that asks for a command brings it to n; no other message moves *)
(* one.                                                                     *)
LEMMA OnMessageReceivedHeld ==
  ASSUME NEW n \in Node, NEW r, NEW H, NEW C, History(H, C), Good(n, r, H, C), r.alive, NEW from \in Peer(n),
         NEW m \in Message(H, C), m # Hello, NEW W, NEW U, Map(W), Map(U), AnswersHeld(U),
         Held(n, r, r.queue, 0, W, U), m.type = "apply_command" => W[m.cmd] = <<from, n>>
  PROVE  LET s == OnMessageReceived(n, r, from, m) IN
         \E X, V : /\ Map(X) /\ Turns(n, U, V) /\ Held(n, s, s.queue, 0, X, V)
                   /\ \A d \in Command : X[d] # W[d] => m.type = "apply_command" /\ d = m.cmd
<1> DEFINE s == OnMessageReceived(n, r, from, m)
           Q(X, V) == /\ Map(X) /\ Turns(n, U, V) /\ Held(n, s, s.queue, 0, X, V)
                      /\ \A d \in Command : X[d] # W[d] => m.type = "apply_command" /\ d = m.cmd
<1> SUFFICES \E X, V : Q(X, V)
  OBVIOUS
<1>1. from \in Node /\ from # n
  BY DEF Peer
<1>2. m.type \in {"request_vote", "response_vote", "append_entries", "next_node_idx",
                  "apply_command", "apply_command_response"}
  BY MessageFields
<1>3. ASSUME Still(n, r, s) PROVE Q(W, U)
  <2> HIDE DEF s
  <2>1. s.queue = r.queue
    BY <1>3 DEF Still
  <2>2. Held(n, s, r.queue, 0, W, U)
    BY <1>3, HeldStill
  <2>3. Turns(n, U, U)
    BY TurnsSame
  <2> QED BY <2>1, <2>2, <2>3
<1>4. ASSUME m.type = "request_vote" PROVE Q(W, U)
  <2>1. Still(n, r, s)
    BY <1>4, OnRequestVoteGood DEF OnMessageReceived
  <2> HIDE DEF Q
  <2> QED BY <1>3, <2>1
<1>5. ASSUME m.type = "append_entries" PROVE \E X, V : Q(X, V)
  <2>1. m.term \in 0..MaxTerm /\ s = OnAppendEntries(r, from, m)
    BY <1>5, MessageFields DEF OnMessageReceived
  <2>2. Still(n, r, s) \/ Still(n, FollowLeader(r, from, m.term), s)
    BY <1>1, <1>5, <2>1, OnAppendEntriesGood
  <2>3. ASSUME Still(n, FollowLeader(r, from, m.term), s) PROVE \E V : Q(W, V)
    <3> DEFINE f == FollowLeader(r, from, m.term)
    <3>1. f.queue = r.queue /\ \E V : Turns(n, U, V) /\ Held(n, f, r.queue, 0, W, V)
      BY FollowLeaderHeld
    <3> HIDE DEF f, s
    <3>2. PICK V : Turns(n, U, V) /\ Held(n, f, r.queue, 0, W, V)
      BY <3>1
    <3>3. Still(n, f, s)
      BY <2>3 DEF f
    <3>4. Held(n, s, r.queue, 0, W, V) /\ s.queue = r.queue
      BY <3>1, <3>2, <3>3, HeldStill DEF Still
    <3>5. Q(W, V)
      <4>1. Turns(n, U, V) /\ Held(n, s, s.queue, 0, W, V)
        BY <3>2, <3>4
      <4> QED BY <4>1
    <3> HIDE DEF Q
    <3> QED BY <3>5
  <2> HIDE DEF Q
  <2> QED BY <1>3, <2>2, <2>3
<1>6. ASSUME m.type = "apply_command" PROVE \E X : Q(X, U)
  <2> DEFINE c == m.cmd
             X == [W EXCEPT ![c] = <<n, n>>]
  <2>1. c \in Command /\ from # None /\ s = ApplyCommand(r, c, from, m.id) /\ W[c] = <<from, n>>
    BY <1>1, <1>6, MessageFields, NoneAssumption DEF OnMessageReceived, History
  <2>2. Map(X) /\ X[c] = <<n, n>> /\ \A d \in Command : d # c => X[d] = W[d]
    BY <2>1 DEF Map
  <2> HIDE DEF s, c
  <2>3. PICK V : (from # None => V = U) /\ Held(n, s, s.queue, 0, X, V)
    <3>1. from \in Node \cup {None}
      BY <1>1
    <3> HIDE DEF X
    <3>2. \E V : /\ Map(V) /\ (\A d \in Command : d # c => V[d] = U[d]) /\ (from # None => V = U)
                 /\ AnswersHeld(V) /\ Held(n, s, s.queue, 0, X, V)
      <4>1. from = None => U[c] = <<"new", 0>> /\ Caller[c] = n
        BY <2>1
      <4> DEFINE x == ApplyCommand(r, c, from, m.id)
      <4>2. \E V : /\ Map(V) /\ (\A d \in Command : d # c => V[d] = U[d]) /\ (from # None => V = U)
                   /\ AnswersHeld(V) /\ Held(n, x, x.queue, 0, X, V)
        BY <1>1, <2>1, <2>2, <3>1, <4>1, ApplyCommandHeld
      <4> HIDE DEF x
      <4>3. s = x
        BY <2>1 DEF x
      <4> QED BY <4>2, <4>3
    <3> QED BY <3>2
  <2> HIDE DEF X
  <2>4. Q(X, U)
    <3>1. Turns(n, U, U)
      BY TurnsSame
    <3>2. Held(n, s, s.queue, 0, X, U)
      BY <2>1, <2>3
    <3>3. \A d \in Command : X[d] # W[d] => m.type = "apply_command" /\ d = m.cmd
      BY <1>6, <2>2 DEF c
    <3> QED BY <2>2, <3>1, <3>2, <3>3
  <2> HIDE DEF Q
  <2> QED BY <2>4
<1>7. ASSUME m.type = "apply_command_response" PROVE \E V : Q(W, V)
  <2>1. s = OnApplyCommandResponse(r, m)
    BY <1>7 DEF OnMessageReceived
  <2> HIDE DEF s
  <2>2. s.queue = r.queue /\ \E V : Turns(n, U, V) /\ Held(n, s, r.queue, 0, W, V)
    BY <1>7, <2>1, OnApplyCommandResponseHeld
  <2>3. PICK V : Turns(n, U, V) /\ Held(n, s, r.queue, 0, W, V)
    BY <2>2
  <2>4. Q(W, V)
    <3>1. Turns(n, U, V) /\ Held(n, s, s.queue, 0, W, V)
      BY <2>2, <2>3
    <3> QED BY <3>1
  <2> HIDE DEF Q
  <2> QED BY <2>4
<1>8. ASSUME m.type = "response_vote" PROVE Q(W, U)
  <2>1. Still(n, r, s)
    BY <1>8, OnResponseVoteGood DEF OnMessageReceived
  <2> HIDE DEF Q
  <2> QED BY <1>3, <2>1
<1>9. ASSUME m.type = "next_node_idx" PROVE Q(W, U)
  <2>1. Still(n, r, s)
    BY <1>9, OnNextNodeIdxGood DEF OnMessageReceived
  <2> HIDE DEF Q
  <2> QED BY <1>3, <2>1
<1> HIDE DEF Q
<1> QED BY <1>2, <1>4, <1>5, <1>6, <1>7, <1>8, <1>9

---------------------------------------------------------------------------
(* What is sent, received, lost and answered.                               *)

(* A channel loses messages at its front only, and gains them at its end.   *)
LEMMA SentSlice ==
  ASSUME NEW q, NEW u, NEW k \in Nat, NEW at, NEW W, Len(q) \in Nat, Len(u) \in Nat, SentHeld(q, <<>>, at, W),
         \A i \in 1..Len(u) : i + k \in 1..Len(q) /\ u[i] = q[i + k]
  PROVE  SentHeld(u, <<>>, at, W)
<1>1. \A i \in Asks(u) : i \in Nat /\ i + k \in Asks(q) /\ u[i] = q[i + k]
  BY DEF Asks
<1>2. Asks(<<>>) = {}
  BY DEF Asks
<1> SUFFICES ASSUME NEW i \in Asks(u)
             PROVE  /\ u[i].cmd \in Command /\ W[u[i].cmd] = at
                    /\ \A j \in Asks(u) : u[j].cmd = u[i].cmd => j = i
  BY <1>2 DEF SentHeld
<1>3. u[i].cmd \in Command /\ W[u[i].cmd] = at
  BY <1>1 DEF SentHeld
<1>4. ASSUME NEW j \in Asks(u), u[j].cmd = u[i].cmd PROVE j = i
  <2>1. j + k = i + k
    BY <1>1, <1>4, SMTT(30) DEF SentHeld
  <2> QED BY <1>1, <2>1
<1> QED BY <1>3, <1>4

LEMMA SentConcat ==
  ASSUME NEW M, NEW q \in Seq(M), NEW u \in Seq(M), NEW at, NEW W,
         SentHeld(q, <<>>, at, W), SentHeld(u, q, at, W)
  PROVE  SentHeld(q \o u, <<>>, at, W)
<1> DEFINE v == q \o u
<1>1. Len(q) \in Nat /\ Len(u) \in Nat /\ Len(v) = Len(q) + Len(u)
  OBVIOUS
<1>2. \A i \in 1..Len(q) : v[i] = q[i]
  OBVIOUS
<1>3. \A i \in 1..Len(v) : i \notin 1..Len(q) => i - Len(q) \in 1..Len(u) /\ v[i] = u[i - Len(q)]
  BY <1>1
<1> HIDE DEF v
<1>4. \A i \in Asks(v) : \/ i \in Asks(q) /\ v[i] = q[i]
                         \/ i - Len(q) \in Asks(u) /\ v[i] = u[i - Len(q)] /\ i \in Nat
  BY <1>1, <1>2, <1>3 DEF Asks
<1>5. Asks(<<>>) = {}
  BY DEF Asks
<1> SUFFICES ASSUME NEW i \in Asks(v)
             PROVE  /\ v[i].cmd \in Command /\ W[v[i].cmd] = at
                    /\ \A j \in Asks(v) : v[j].cmd = v[i].cmd => j = i
  BY <1>5 DEF SentHeld, v
<1>6. v[i].cmd \in Command /\ W[v[i].cmd] = at
  BY <1>4 DEF SentHeld
<1>7. ASSUME NEW j \in Asks(v), v[j].cmd = v[i].cmd PROVE j = i
  <2>1. CASE i \in Asks(q) /\ v[i] = q[i] /\ j \in Asks(q) /\ v[j] = q[j]
    BY <1>7, <2>1 DEF SentHeld
  <2>2. CASE i \in Asks(q) /\ v[i] = q[i] /\ j - Len(q) \in Asks(u) /\ v[j] = u[j - Len(q)]
    BY <1>7, <2>2 DEF SentHeld
  <2>3. CASE i - Len(q) \in Asks(u) /\ v[i] = u[i - Len(q)] /\ j \in Asks(q) /\ v[j] = q[j]
    BY <1>7, <2>3 DEF SentHeld
  <2>4. CASE /\ i - Len(q) \in Asks(u) /\ v[i] = u[i - Len(q)] /\ i \in Nat
             /\ j - Len(q) \in Asks(u) /\ v[j] = u[j - Len(q)] /\ j \in Nat
    <3>1. i - Len(q) = j - Len(q)
      BY <1>7, <2>4 DEF SentHeld
    <3> QED BY <1>1, <2>4, <3>1
  <2> QED BY <1>4, <2>1, <2>2, <2>3, <2>4
<1> QED BY <1>6, <1>7

LEMMA SentMoved ==
  ASSUME NEW q, NEW at, NEW W, NEW X, SentHeld(q, <<>>, at, W), \A i \in Asks(q) : X[q[i].cmd] = W[q[i].cmd]
  PROVE  SentHeld(q, <<>>, at, X)
BY DEF SentHeld

LEMMA NothingSent ==
  ASSUME NEW q, NEW at, NEW W
  PROVE  SentHeld(<<>>, q, at, W)
BY DEF SentHeld, Asks

(* A hello is not a request.                                                *)
LEMMA SentHello ==
  ASSUME NEW M, NEW q \in Seq(M), NEW at, NEW W, SentHeld(q, <<>>, at, W), Hello \in M
  PROVE  SentHeld(Append(q, Hello), <<>>, at, W)
<1>1. Hello.type # "apply_command"
  BY DEF Hello
<1> DEFINE u == Append(q, Hello)
<1>2. SameAsks(q, u)
  BY <1>1, AsksAppend
<1> HIDE DEF u
<1>3. Asks(u) = Asks(q) /\ \A i \in Asks(q) : u[i].cmd = q[i].cmd
  BY <1>2, AsksSame
<1>4. SentHeld(u, <<>>, at, W)
  BY <1>3 DEF SentHeld
<1> QED BY <1>4 DEF u

LEMMA SentTail ==
  ASSUME NEW M, NEW q \in Seq(M), q # <<>>, NEW at, NEW W, SentHeld(q, <<>>, at, W)
  PROVE  SentHeld(Tail(q), <<>>, at, W)
<1> DEFINE u == Tail(q)
<1>1. Len(q) \in Nat /\ Len(u) \in Nat /\ \A i \in 1..Len(u) : i + 1 \in 1..Len(q) /\ u[i] = q[i + 1]
  OBVIOUS
<1> HIDE DEF u
<1>2. SentHeld(u, <<>>, at, W)
  BY <1>1, SentSlice
<1> QED BY <1>2 DEF u

LEMMA SentFromHello ==
  ASSUME NEW M, NEW q \in Seq(M), NEW at, NEW W, SentHeld(q, <<>>, at, W)
  PROVE  SentHeld(FromHello(q), <<>>, at, W)
<1> DEFINE I == {i \in 1..Len(q) : q[i] = Hello}
           k == SelectInSeq(q, LAMBDA m : m = Hello)
<1>1. CASE Hello \notin Range(q)
  BY <1>1, NothingSent DEF FromHello
<1>2. CASE Hello \in Range(q)
  <2>1. I # {} /\ I \subseteq Nat
    BY <1>2 DEF Range
  <2>2. PICK i \in I : \A j \in I : i <= j
    BY <2>1, LeastNat
  <2>3. Min(I) \in I
    BY <2>2 DEF Min
  <2>4. k = Min(I)
    BY <2>1 DEF SelectInSeq
  <2> HIDE DEF k
  <2>5. k \in 1..Len(q) /\ Len(q) \in Nat
    BY <2>3, <2>4
  <2> DEFINE u == SubSeq(q, k, Len(q))
  <2>6. FromHello(q) = u
    BY <1>2 DEF FromHello, k
  <2>7. /\ k - 1 \in Nat /\ Len(u) \in Nat
        /\ \A j \in 1..Len(u) : j + (k - 1) \in 1..Len(q) /\ u[j] = q[j + (k - 1)]
    <3>1. Len(u) = Len(q) - k + 1
      <4>1. \A j \in k..Len(q) : j \in 1..Len(q)
        BY <2>5
      <4> QED BY <2>5, <4>1
    <3>2. \A j \in 1..Len(u) : u[j] = q[k + j - 1]
      BY <2>5
    <3>3. \A j \in 1..Len(u) : k + j - 1 = j + (k - 1)
      BY <2>5, <3>1
    <3> HIDE DEF u
    <3> QED BY <2>5, <3>1, <3>2, <3>3
  <2> HIDE DEF u
  <2>8. SentHeld(u, <<>>, at, W)
    BY <2>5, <2>7, SentSlice
  <2> QED BY <2>6, <2>8
<1> QED BY <1>1, <1>2

LEMMA AnsweredUnfolds ==
  ASSUME NEW q, Len(q) \in Nat
  PROVE  \E f : /\ Answered(q) = f[Len(q)] /\ f[0] = answers
                /\ \A k \in 1..Len(q) : f[k] = [f[k - 1] EXCEPT ![q[k].cmd] = Append(@, q[k].err)]
<1> DEFINE after == CHOOSE f : f = [k \in 0..Len(q) |-> IF k = 0 THEN answers
                                        ELSE [f[k - 1] EXCEPT ![q[k].cmd] = Append(@, q[k].err)]]
<1>1. Answered(q) = after[Len(q)]
  BY DEF Answered, ForEach
<1>2. \E f : f = [k \in 0..Len(q) |-> IF k = 0 THEN answers
                                        ELSE [f[k - 1] EXCEPT ![q[k].cmd] = Append(@, q[k].err)]]
  <2> DEFINE a == answers
  <2> HIDE DEF a
  <2>1. PICK f : IsRun("answer", 0, 0, f, a, q, Len(q))
    BY RunExists
  <2>2. f = [k \in 0..Len(q) |-> IF k = 0 THEN a ELSE [f[k - 1] EXCEPT ![q[k].cmd] = Append(@, q[k].err)]]
    BY <2>1 DEF IsRun, Body
  <2> QED BY <2>2 DEF a
<1>3. after = [k \in 0..Len(q) |-> IF k = 0 THEN answers
                                        ELSE [after[k - 1] EXCEPT ![q[k].cmd] = Append(@, q[k].err)]]
  BY <1>2
<1> DEFINE One(t, x) == [t EXCEPT ![x.cmd] = Append(@, x.err)]
<1>4. after = [k \in 0..Len(q) |-> IF k = 0 THEN answers ELSE One(after[k - 1], q[k])]
  BY <1>3
<1> HIDE DEF after, One
<1>5. after[0] = answers /\ \A k \in 1..Len(q) : after[k] = One(after[k - 1], q[k])
  BY <1>4
<1> QED BY <1>1, <1>5 DEF One

(* Those who are told were not told before, and each is told once.          *)
LEMMA AnsweredHeld ==
  ASSUME NEW n \in Node, NEW calls, NEW V, CallsHeld(n, calls, V), AnswersHeld(V),
         \A c \in Command : Len(answers[c]) <= 1
  PROVE  /\ Answered(calls) \in [Command -> Seq(Outcome)]
         /\ \A c \in Command : /\ Len(Answered(calls)[c]) <= 1
                               /\ Answered(calls)[c] # <<>> => V[c] = <<"told", 0>>
<1> DEFINE len == Len(calls)
<1>1. calls \in Seq(Call) /\ len \in Nat
  BY DEF CallsHeld
<1>2. PICK f : /\ Answered(calls) = f[len] /\ f[0] = answers
               /\ \A k \in 1..len : f[k] = [f[k - 1] EXCEPT ![calls[k].cmd] = Append(@, calls[k].err)]
  BY <1>1, AnsweredUnfolds
<1>3. \A k \in 1..len : calls[k].cmd \in Command /\ calls[k].err \in Outcome
  <2>1. \A x \in Call : x.cmd \in Command /\ x.err \in Outcome
    BY DEF Call
  <2> QED BY <1>1, <2>1
<1>4. \A k \in 1..len : /\ V[calls[k].cmd] = <<"told", 0>> /\ answers[calls[k].cmd] = <<>>
                        /\ \A j \in 1..len : calls[j].cmd = calls[k].cmd => j = k
  BY DEF CallsHeld
<1> HIDE DEF len
<1> DEFINE P(k) == /\ f[k] \in [Command -> Seq(Outcome)]
                   /\ \A c \in Command : (\A j \in 1..k : calls[j].cmd # c) => f[k][c] = answers[c]
                   /\ \A j \in 1..k : Len(f[k][calls[j].cmd]) <= 1
           Bad == {k \in 0..len : ~P(k)}
<1>5. P(0)
  BY <1>2 DEF AnswersHeld
<1>6. ASSUME NEW k \in 1..len, P(k - 1) PROVE P(k)
  <2> DEFINE t == f[k - 1]
             c == calls[k].cmd
             x == Append(t[c], calls[k].err)
  <2>1. f[k] = [t EXCEPT ![c] = x] /\ t \in [Command -> Seq(Outcome)] /\ c \in Command
    BY <1>2, <1>3, <1>6
  <2>2. x \in Seq(Outcome) /\ Len(x) = Len(t[c]) + 1 /\ k \in Nat
    <3>1. t[c] \in Seq(Outcome) /\ calls[k].err \in Outcome
      BY <1>3, <2>1
    <3> HIDE DEF t, c
    <3> QED BY <1>1, <3>1 DEF len
  <2>3. t[c] = <<>>
    <3>1. \A j \in 1..(k - 1) : j \in 1..len /\ j # k
      BY <1>1, <2>2 DEF len
    <3>2. \A j \in 1..(k - 1) : calls[j].cmd # c
      BY <1>4, <3>1
    <3> QED BY <1>4, <1>6, <2>1, <3>2
  <2>4. \A j \in 1..(k - 1) : Len(t[calls[j].cmd]) <= 1 /\ calls[j].cmd \in Command
    <3>1. \A j \in 1..(k - 1) : j \in 1..len
      BY <1>1, <2>2 DEF len
    <3> QED BY <1>3, <1>6, <3>1
  <2>5. \A d \in Command : (\A j \in 1..(k - 1) : calls[j].cmd # d) => t[d] = answers[d]
    BY <1>6
  <2>6. \A j \in 1..k : j = k \/ j \in 1..(k - 1)
    BY <2>2
  <2>7. \A j \in 1..(k - 1) : j \in 1..k
    BY <2>2
  <2>8. k \in 1..k
    BY <2>2
  <2>9. Len(x) = 1
    BY <2>2, <2>3
  <2> HIDE DEF t, x
  <2>10. f[k] \in [Command -> Seq(Outcome)] /\ f[k][c] = x /\ \A d \in Command : d # c => f[k][d] = t[d]
    BY <2>1, <2>2
  <2>11. \A d \in Command : (\A j \in 1..k : calls[j].cmd # d) => f[k][d] = answers[d]
    BY <2>5, <2>7, <2>8, <2>10
  <2>12. ASSUME NEW j \in 1..k PROVE Len(f[k][calls[j].cmd]) <= 1
    <3>1. CASE calls[j].cmd = c
      <4>1. f[k][calls[j].cmd] = x
        BY <2>10, <3>1
      <4>2. 1 <= 1
        OBVIOUS
      <4> QED BY <2>9, <4>1, <4>2
    <3>2. CASE calls[j].cmd # c
      <4>1. j \in 1..(k - 1)
        BY <2>6, <3>2
      <4>2. f[k][calls[j].cmd] = t[calls[j].cmd]
        BY <2>4, <2>10, <3>2, <4>1
      <4> QED BY <2>4, <4>1, <4>2
    <3> QED BY <3>1, <3>2
  <2> QED BY <2>10, <2>11, <2>12
<1>7. Bad = {}
  <2>1. Bad \subseteq 0..len /\ 0 \notin Bad
    BY <1>5
  <2>2. \A k \in 1..len : k - 1 \in 0..len
    BY <1>1 DEF len
  <2>3. \A k \in 1..len : k \in Bad => k - 1 \in Bad
    <3> HIDE DEF P
    <3> QED BY <1>6, <2>2
  <2> HIDE DEF Bad
  <2> QED BY <1>1, <2>1, <2>3, NoFirstBad DEF len
<1>8. len \in 0..len
  BY <1>1 DEF len
<1>9. P(len)
  <2> HIDE DEF P
  <2> QED BY <1>7, <1>8
<1> DEFINE a == f[len]
<1>10. /\ a \in [Command -> Seq(Outcome)]
       /\ \A c \in Command : (\A j \in 1..len : calls[j].cmd # c) => a[c] = answers[c]
       /\ \A j \in 1..len : Len(a[calls[j].cmd]) <= 1
  BY <1>9
<1> HIDE DEF a
<1>11. ASSUME NEW c \in Command PROVE Len(a[c]) <= 1 /\ (a[c] # <<>> => V[c] = <<"told", 0>>)
  <2>1. CASE \A j \in 1..len : calls[j].cmd # c
    BY <1>10, <2>1 DEF AnswersHeld
  <2>2. CASE \E j \in 1..len : calls[j].cmd = c
    BY <1>4, <1>10, <2>2
  <2> QED BY <2>1, <2>2
<1> QED BY <1>2, <1>10, <1>11 DEF a

---------------------------------------------------------------------------
(* The invariant: every command has one place and every callback one mark.  *)

(* What no client has appended yet.                                         *)
NewHeld(C, W, U) == \A c \in Command \ C : W[c] = <<None, Caller[c]>> /\ U[c] = <<"new", 0>>

(* What a node keeps between two steps.                                     *)
Kept(n, r, W, U) ==
    r.alive => QueueHeld(n, r.queue, 0, W, U) /\ RepliesHeld(n, r.waitingReply, U) /\ CommitsHeld(n, r.waitingCommit, U)

(* What is on the way.                                                      *)
AllSent(ch, W) == \A n \in Node : \A p \in Peer(n) : SentHeld(ch[n][p], <<>>, <<n, p>>, W)

Placed(H, W, U) ==
    /\ Map(W) /\ Map(U) /\ LogHeld(H, W) /\ AnswersHeld(U) /\ NewHeld(called, W, U)
    /\ \A c \in Command : Len(answers[c]) <= 1
    /\ \A n \in Node : /\ Kept(n, obj[n], W, U)
                       /\ obj[n].out = [p \in Peer(n) |-> <<>>] /\ obj[n].calls = <<>>
    /\ AllSent(chan, W)

LEMMA PlacedHeld ==
  ASSUME NEW H, NEW W, NEW U, Placed(H, W, U), NEW n \in Node
  PROVE  Held(n, obj[n], obj[n].queue, 0, W, U)
<1>1. AsksHeld(n, obj[n].out, W)
  <2> SUFFICES ASSUME NEW p \in Peer(n)
               PROVE  SentHeld(chan[n][p], <<>>, <<n, p>>, W) /\ SentHeld(obj[n].out[p], chan[n][p], <<n, p>>, W)
    BY DEF AsksHeld
  <2>1. obj[n].out[p] = <<>>
    BY DEF Placed
  <2> QED BY <2>1, NothingSent DEF Placed, AllSent
<1>2. CallsHeld(n, obj[n].calls, U)
  <2>1. obj[n].calls = <<>>
    BY DEF Placed
  <2> QED BY <2>1 DEF CallsHeld
<1> QED BY <1>1, <1>2 DEF Held, Placed, Kept

(* What another node keeps stays in its place.                              *)
LEMMA OthersKept ==
  ASSUME NEW n \in Node, NEW m \in Node, m # n, NEW r, NEW H, NEW C, History(H, C), Good(m, r, H, C),
         NEW W, NEW U, NEW X, NEW V, Kept(m, r, W, U), \A c \in Command : Caller[c] # n => V[c] = U[c],
         \A c \in Command : W[c] = <<m, m>> => X[c] = W[c]
  PROVE  Kept(m, r, X, V)
<1> SUFFICES ASSUME r.alive
             PROVE  QueueHeld(m, r.queue, 0, X, V) /\ RepliesHeld(m, r.waitingReply, V)
                    /\ CommitsHeld(m, r.waitingCommit, V)
  BY DEF Kept
<1>1. C \subseteq Command /\ r.queue \in Seq(Request(C))
  BY DEF History, Good, NodeOK
<1>2. \A c \in Command : Caller[c] = m => V[c] = U[c]
  OBVIOUS
<1>3. QueueHeld(m, r.queue, 0, X, V)
  <2> DEFINE q == r.queue
             at == <<m, m>>
  <2>1. QueueHeld(m, q, 0, W, U)
    BY DEF Kept
  <2>2. \A x \in Request(C) : x.cmd \in Command
    BY <1>1 DEF Request
  <2> HIDE DEF q
  <2>3. \A i \in (0 + 1)..Len(q) : q[i].cmd \in Command
    BY <2>2, <1>1 DEF q
  <2>4. \A i \in (0 + 1)..Len(q) : W[q[i].cmd] = at
    BY <2>1 DEF QueueHeld
  <2>5. \A c \in Command : W[c] = at => X[c] = at
    OBVIOUS
  <2> HIDE DEF at
  <2>6. \A i \in (0 + 1)..Len(q) : X[q[i].cmd] = at
    BY <2>3, <2>4, <2>5
  <2>7. \A i \in (0 + 1)..Len(q) : X[q[i].cmd] = <<m, m>>
    BY <2>6 DEF at
  <2> QED BY <2>1, <2>3, <2>7, <1>2 DEF QueueHeld, q
<1>4. RepliesHeld(m, r.waitingReply, V)
  <2>1. \A i \in DOMAIN r.waitingReply : r.waitingReply[i] \in Command
    BY <1>1 DEF Good, NodeOK
  <2> QED BY <2>1, <1>2 DEF Kept, RepliesHeld
<1>5. CommitsHeld(m, r.waitingCommit, V)
  <2> SUFFICES ASSUME NEW i \in DOMAIN r.waitingCommit PROVE ListHeld(m, r.waitingCommit[i], i, V)
    BY DEF CommitsHeld
  <2> DEFINE l == r.waitingCommit[i]
  <2>1. ListHeld(m, l, i, U)
    BY DEF Kept, CommitsHeld
  <2>2. l \in Seq(Waiting(C)) /\ \A w \in Waiting(C) : w.cmd \in Command
    BY <1>1 DEF Good, NodeOK, Waiting
  <2> HIDE DEF l
  <2>3. \A j \in 1..Len(l) : l[j].cmd \in Command
    BY <2>2
  <2>4. \A j \in 1..Len(l) : Caller[l[j].cmd] = m /\ U[l[j].cmd] = <<"commit", i>>
    BY <2>1 DEF ListHeld
  <2>5. \A j \in 1..Len(l) : V[l[j].cmd] = <<"commit", i>>
    BY <2>3, <2>4, <1>2
  <2> QED BY <2>1, <2>5 DEF ListHeld, l
<1> QED BY <1>3, <1>4, <1>5

(* Nothing of the other nodes moves.                                        *)
Rearranged(n, W, U, X, V) ==
    /\ Map(X) /\ Map(V) /\ \A c \in Command : Caller[c] # n => V[c] = U[c]
    /\ \A a \in Node \ {n} : \A c \in Command : W[c] = <<a, a>> => X[c] = W[c]

(* Node n ends a step: X and V are where it leaves commands and callbacks.  *)
LEMMA BecomePlaced ==
  ASSUME NEW H, Known(H), NEW W, NEW U, Placed(H, W, U), NEW n \in Node, NEW r, Shaped(r), Become(n, r),
         NEW K, NEW X, NEW V, Rearranged(n, W, U, X, V), LogHeld(K, X), AnswersHeld(V), NewHeld(called', X, V),
         Held(n, r, r.queue, 0, X, V), AllSent(chan', X)
  PROVE  Placed(K, X, V)'
<1> DEFINE s == [r EXCEPT !.out = [p \in Peer(n) |-> <<>>], !.calls = <<>>]
<1>1. obj' = [obj EXCEPT ![n] = s] /\ answers' = Answered(r.calls) /\ obj = [m \in Node |-> obj[m]]
  BY DEF Become, Known
<1>2. Frame(r, s, {"out", "calls"}) /\ s.out = [p \in Peer(n) |-> <<>>] /\ s.calls = <<>>
  BY DEF Frame, Shaped, Fields
<1> HIDE DEF s
<1>3. /\ answers' \in [Command -> Seq(Outcome)]
      /\ \A c \in Command : Len(answers'[c]) <= 1 /\ (answers'[c] # <<>> => V[c] = <<"told", 0>>)
  <2>1. CallsHeld(n, r.calls, V) /\ \A c \in Command : Len(answers[c]) <= 1
    BY DEF Held, Placed
  <2> QED BY <1>1, <2>1, AnsweredHeld
<1>4. AnswersHeld(V)'
  BY <1>3 DEF AnswersHeld
<1>5. Kept(n, s, X, V)
  <2>1. s.alive = r.alive /\ s.queue = r.queue /\ s.waitingReply = r.waitingReply /\ s.waitingCommit = r.waitingCommit
    BY <1>2 DEF Frame, Fields
  <2> QED BY <2>1 DEF Held, Kept
<1>6. ASSUME NEW m \in Node, m # n PROVE Kept(m, obj[m], X, V)
  <2>1. History(H, called) /\ Good(m, obj[m], H, called) /\ Kept(m, obj[m], W, U)
    BY DEF Known, Placed
  <2>2. /\ \A c \in Command : W[c] = <<m, m>> => X[c] = W[c]
        /\ \A c \in Command : Caller[c] # n => V[c] = U[c]
    BY <1>6 DEF Rearranged
  <2> DEFINE t == obj[m]
             C == called
  <2>3. History(H, C) /\ Good(m, t, H, C) /\ Kept(m, t, W, U)
    BY <2>1
  <2> HIDE DEF t, C
  <2>4. Kept(m, t, X, V)
    BY <1>6, <2>2, <2>3, OthersKept
  <2> QED BY <2>4 DEF t
<1>7. ASSUME NEW m \in Node
      PROVE  /\ Kept(m, obj'[m], X, V) /\ obj'[m].out = [p \in Peer(m) |-> <<>>] /\ obj'[m].calls = <<>>
  <2>1. CASE m = n
    <3>1. obj'[m] = s
      BY <1>1, <2>1
    <3> QED BY <2>1, <3>1, <1>2, <1>5
  <2>2. CASE m # n
    <3>1. obj'[m] = obj[m]
      BY <1>1, <2>2
    <3> QED BY <2>2, <3>1, <1>6 DEF Placed
  <2> QED BY <2>1, <2>2
<1> QED BY <1>3, <1>4, <1>7 DEF Placed, Rearranged

(* The phases of a tick, each of which works on what the one before left.   *)
Phases(n, r, expire, beat, slow, compact, a, b, c, d, e) ==
    /\ a = IF expire THEN StartElection(n, r) ELSE r
    /\ b = IF a.state = "LEADER" THEN LeaderTick(n, a, beat, slow) ELSE a
    /\ c = IF b.alive THEN ApplyCommitted(b) ELSE b
    /\ d = IF c.alive THEN CheckCommandsToApply(n, c, slow) ELSE c
    /\ e = IF d.alive THEN TryLogCompaction(d, compact) ELSE d

LEMMA TickHeld ==
  ASSUME NEW n \in Node, NEW r, NEW H, NEW C, History(H, C), Good(n, r, H, C),
         NEW expire \in BOOLEAN, NEW beat \in BOOLEAN, NEW slow \in BOOLEAN, NEW compact \in BOOLEAN,
         expire => r.term < MaxTerm /\ n \in Candidates[r.term + 1],
         NEW a, NEW b, NEW c, NEW d, NEW e, Phases(n, r, expire, beat, slow, compact, a, b, c, d, e),
         NEW W, NEW U, Map(W), Map(U), LogHeld(H, W), AnswersHeld(U), Held(n, r, r.queue, 0, W, U)
  PROVE  \E K, X, V : /\ Grow(n, r, H, K, C) /\ Good(n, e, K, C) /\ (e.dumping /\ ~d.dumping => compact)
                      /\ Moves(n, W, X) /\ Turns(n, U, V) /\ LogHeld(K, X) /\ Held(n, e, e.queue, 0, X, V)
<1>0. /\ (expire => a = StartElection(n, r)) /\ (~expire => a = r)
      /\ (a.state = "LEADER" => b = LeaderTick(n, a, beat, slow)) /\ (a.state # "LEADER" => b = a)
      /\ (b.alive => c = ApplyCommitted(b)) /\ (~b.alive => c = b)
      /\ (c.alive => d = CheckCommandsToApply(n, c, slow)) /\ (~c.alive => d = c)
      /\ (d.alive => e = TryLogCompaction(d, compact)) /\ (~d.alive => e = d)
  BY DEF Phases
<1>1. /\ Good(n, a, H, C) /\ (a.state = "LEADER" => a = r)
      /\ \E V : Turns(n, U, V) /\ Held(n, a, a.queue, 0, W, V)
  <2>1. CASE expire
    <3> DEFINE x == StartElection(n, r)
    <3>1. Good(n, x, H, C) /\ x.state = "CANDIDATE"
      BY <2>1, StartElectionGood
    <3>2. x.queue = r.queue /\ \E V : Turns(n, U, V) /\ Held(n, x, r.queue, 0, W, V)
      BY <2>1, StartElectionHeld
    <3>3. a = x
      BY <1>0, <2>1
    <3> HIDE DEF x
    <3> QED BY <3>1, <3>2, <3>3
  <2>2. CASE ~expire
    <3>1. a = r
      BY <1>0, <2>2
    <3> QED BY <3>1, TurnsSame
  <2> QED BY <2>1, <2>2
<1>2. PICK V1 : Turns(n, U, V1) /\ Held(n, a, a.queue, 0, W, V1)
  BY <1>1
<1>3. /\ Good(n, b, H, C) /\ (b.alive /\ b.state = "LEADER" => b.log # <<>>) /\ SameRole(a, b)
      /\ Held(n, b, b.queue, 0, W, V1)
  <2>1. CASE a.state = "LEADER"
    <3> DEFINE x == LeaderTick(n, a, beat, slow)
    <3>1. Good(n, x, H, C) /\ (x.alive => x.log # <<>>) /\ Still(n, a, x) /\ SameRole(a, x)
      BY <1>1, LeaderTickGood
    <3>2. b = x
      BY <1>0, <2>1
    <3> HIDE DEF x
    <3>3. Held(n, x, a.queue, 0, W, V1) /\ x.queue = a.queue
      BY <1>2, <3>1, HeldStill DEF Still
    <3> QED BY <3>1, <3>2, <3>3
  <2>2. CASE a.state # "LEADER"
    <3>1. b = a
      BY <1>0, <2>2
    <3> QED BY <1>1, <1>2, <2>2, <3>1 DEF SameRole
  <2> QED BY <2>1, <2>2
<1>4. /\ Good(n, c, H, C) /\ (c.alive /\ c.state = "LEADER" => c.log # <<>>) /\ SameRole(b, c)
      /\ \E V : Turns(n, V1, V) /\ Held(n, c, c.queue, 0, W, V)
  <2>1. Map(V1) /\ AnswersHeld(V1)
    BY <1>2, TurnsAnswers DEF Turns
  <2>2. CASE b.alive
    <3> DEFINE x == ApplyCommitted(b)
    <3>1. /\ Good(n, x, H, C) /\ Frame(b, x, ApplyFields)
          /\ \E V : Turns(n, V1, V) /\ Held(n, x, b.queue, 0, W, V)
      BY <1>3, <2>1, ApplyCommittedHeld
    <3>2. c = x
      BY <1>0, <2>2
    <3> HIDE DEF x
    <3>3. SameRole(b, x) /\ x.state = b.state /\ x.log = b.log /\ x.queue = b.queue
      BY <3>1 DEF Frame, Fields, ApplyFields, SameRole
    <3> QED BY <1>3, <2>2, <3>1, <3>2, <3>3
  <2>3. CASE ~b.alive
    <3>1. c = b
      BY <1>0, <2>3
    <3> QED BY <1>3, <2>1, <3>1, TurnsSame DEF SameRole
  <2> QED BY <2>2, <2>3
<1>5. PICK V2 : Turns(n, V1, V2) /\ Held(n, c, c.queue, 0, W, V2)
  BY <1>4
<1>6. Turns(n, U, V2) /\ Map(V2)
  BY <1>2, <1>5, TurnsTrans DEF Turns
<1>10. \A K : Grow(n, c, H, K, C) => Grow(n, r, H, K, C)
  <2>1. c.state = a.state /\ c.term = a.term
    BY <1>3, <1>4 DEF SameRole
  <2>2. \A x : Appends(n, c, x) => Appends(n, r, x)
    BY <1>1, <2>1 DEF Appends
  <2> QED BY <2>2 DEF Grow
<1>7. PICK K, X, V : /\ Grow(n, r, H, K, C) /\ Good(n, d, K, C)
                     /\ Moves(n, W, X) /\ Turns(n, V2, V) /\ LogHeld(K, X) /\ Held(n, d, d.queue, 0, X, V)
  <2>1. CASE c.alive
    <3> DEFINE x == CheckCommandsToApply(n, c, slow)
    <3>1. \E K, X, V : /\ Grow(n, c, H, K, C) /\ Good(n, x, K, C) /\ x.dumping = c.dumping
                       /\ Moves(n, W, X) /\ Turns(n, V2, V) /\ LogHeld(K, X) /\ Held(n, x, x.queue, 0, X, V)
      BY <1>4, <1>5, <1>6, CheckCommandsToApplyHeld
    <3>2. d = x
      BY <1>0, <2>1
    <3> HIDE DEF x
    <3> QED BY <1>10, <3>1, <3>2
  <2>2. CASE ~c.alive
    <3>1. d = c
      BY <1>0, <2>2
    <3>2. Grow(n, r, H, H, C) /\ Moves(n, W, W) /\ Turns(n, V2, V2)
      BY <1>6, KnownSame, TurnsSame DEF Moves
    <3> QED BY <1>4, <1>5, <3>1, <3>2
  <2> QED BY <2>1, <2>2
<1>8. Good(n, e, K, C) /\ (e.dumping /\ ~d.dumping => compact) /\ Held(n, e, e.queue, 0, X, V)
  <2>1. CASE d.alive
    <3> DEFINE x == TryLogCompaction(d, compact)
    <3>1. Good(n, x, K, C) /\ (x.dumping /\ ~d.dumping => compact) /\ Still(n, d, x)
      BY <1>7, TryLogCompactionGood
    <3>2. e = x
      BY <1>0, <2>1
    <3> HIDE DEF x
    <3>3. Held(n, x, d.queue, 0, X, V) /\ x.queue = d.queue
      BY <1>7, <3>1, HeldStill DEF Still
    <3> QED BY <3>1, <3>2, <3>3
  <2>2. CASE ~d.alive
    <3>1. e = d
      BY <1>0, <2>2
    <3> QED BY <1>7, <3>1
  <2> QED BY <2>1, <2>2
<1>9. Turns(n, U, V)
  BY <1>6, <1>7, TurnsTrans
<1> QED BY <1>7, <1>8, <1>9

(* What n writes joins what it has written before.                          *)
LEMMA DeliverSent ==
  ASSUME NEW M, ChansOK(chan, M), NEW n \in Node, NEW out \in [Peer(n) -> Seq(M)], NEW X, AsksHeld(n, out, X),
         NEW p \in Peer(n)
  PROVE  SentHeld(Deliver(n, out)[n][p], <<>>, <<n, p>>, X)
<1> DEFINE q == chan[n][p]
           u == out[p]
           at == <<n, p>>
<1>1. q \in Seq(M) /\ u \in Seq(M) /\ chan = [a \in Node |-> chan[a]]
  BY DEF ChansOK
<1>2. Deliver(n, out)[n][p] = IF status[n][p] = "connected" THEN q \o u ELSE q
  BY <1>1 DEF Deliver
<1>3. SentHeld(q, <<>>, at, X) /\ SentHeld(u, q, at, X)
  BY DEF AsksHeld
<1> HIDE DEF q, u, at
<1>4. SentHeld(q \o u, <<>>, at, X)
  BY <1>1, <1>3, SentConcat
<1> QED BY <1>2, <1>3, <1>4 DEF at

LEMMA ReadableSent ==
  ASSUME NEW ch, NEW X, AllSent(ch, X)
  PROVE  AllSent(Readable(ch), X)
<1> SUFFICES ASSUME NEW a \in Node, NEW b \in Peer(a) PROVE SentHeld(Readable(ch)[a][b], <<>>, <<a, b>>, X)
  BY DEF AllSent
<1>1. Readable(ch)[a][b] = ch[a][b] \/ Readable(ch)[a][b] = <<>>
  BY DEF Readable
<1> QED BY <1>1, NothingSent DEF AllSent

LEMMA TickPlaced ==
  ASSUME NEW H, Known(H), NEW W, NEW U, Placed(H, W, U), NEW n \in Node,
         NEW expire \in BOOLEAN, NEW beat \in BOOLEAN, NEW slow \in BOOLEAN, NEW compact \in BOOLEAN,
         NEW dial \in SUBSET Dialable(n),
         expire => MayExpire(n), compact => dumps < MaxCompactions,
         Tick(n, expire, beat, slow, compact, dial)
  PROVE  \E K, X, V : Known(K)' /\ Placed(K, X, V)' /\ \A x \in K \ H : Appends(n, obj[n], x)
<1> DEFINE C == called
           r == obj[n]
           a == IF expire THEN StartElection(n, r) ELSE r
           b == IF a.state = "LEADER" THEN LeaderTick(n, a, beat, slow) ELSE a
           c == Then(b, ApplyCommitted)
           d == Then(c, LAMBDA t : CheckCommandsToApply(n, t, slow))
           e == Then(d, LAMBDA t : TryLogCompaction(t, compact))
<1>1. /\ Become(n, e) /\ chan' = Readable(Deliver(n, e.out))
      /\ dumps' = dumps + (IF e.dumping /\ ~d.dumping THEN 1 ELSE 0)
      /\ status' = (IF e.alive THEN ConnectIfRequired(n, dial) ELSE status)
      /\ UNCHANGED <<called, breaks>>
  BY DEF Tick
<1>2. /\ History(H, C) /\ Good(n, r, H, C)
      /\ Map(W) /\ Map(U) /\ LogHeld(H, W) /\ AnswersHeld(U) /\ Held(n, r, r.queue, 0, W, U)
  BY PlacedHeld DEF Known, Placed
<1>3. expire => r.term < MaxTerm /\ n \in Candidates[r.term + 1]
  BY DEF MayExpire
<1>4. Phases(n, r, expire, beat, slow, compact, a, b, c, d, e)
  <2>1. e = IF d.alive THEN TryLogCompaction(d, compact) ELSE d
    <3> HIDE DEF d
    <3> QED BY DEF Then
  <2>2. d = IF c.alive THEN CheckCommandsToApply(n, c, slow) ELSE c
    <3> HIDE DEF c
    <3> QED BY DEF Then
  <2>3. c = IF b.alive THEN ApplyCommitted(b) ELSE b
    <3> HIDE DEF b
    <3> QED BY DEF Then
  <2>4. b = IF a.state = "LEADER" THEN LeaderTick(n, a, beat, slow) ELSE a
    OBVIOUS
  <2>5. a = IF expire THEN StartElection(n, r) ELSE r
    OBVIOUS
  <2> HIDE DEF a, b, c, d, e, r
  <2> QED BY <2>1, <2>2, <2>3, <2>4, <2>5 DEF Phases
<1> HIDE DEF a, b, c, d, e, r, C
<1>9. PICK K, X, V : /\ Grow(n, r, H, K, C) /\ Good(n, e, K, C) /\ (e.dumping /\ ~d.dumping => compact)
                     /\ Moves(n, W, X) /\ Turns(n, U, V) /\ LogHeld(K, X) /\ Held(n, e, e.queue, 0, X, V)
  BY <1>2, <1>3, <1>4, TickHeld
<1> DEFINE M == Message(K, C)
<1>10. ChansOK(chan, M) /\ e.out \in [Peer(n) -> Seq(M)]
  <2>1. Seq(Message(H, C)) \subseteq Seq(M)
    BY <1>9, MessageMono DEF Grow
  <2> QED BY <1>9, <2>1 DEF Known, ChansOK, Good, NodeOK, C
<1> HIDE DEF M
<1>11. ChansOK(Deliver(n, e.out), M) /\ \A m \in Node \ {n} : Deliver(n, e.out)[m] = chan[m]
  BY <1>10, DeliverOK
<1>12. Known(K)'
  <2>1. obj' = [m \in Node |-> obj'[m]] /\ \A m \in Node : Good(m, obj'[m], K, C)
    <3>1. obj = [m \in Node |-> obj[m]] /\ \A m \in Node : Good(m, obj[m], H, C)
      BY DEF Known, C
    <3> QED BY <1>1, <1>9, <3>1, BecomeGood
  <2>2. ChansOK(chan', M)
    BY <1>1, <1>11, ReadableOK
  <2>3. StatusOK'
    <3>1. StatusOK
      BY DEF Known
    <3>2. status' = [status EXCEPT ![n] = [p \in Peer(n) |-> IF p \in dial THEN "connecting" ELSE status[n][p]]]
          \/ status' = status
      BY <1>1 DEF ConnectIfRequired
    <3> QED BY <3>1, <3>2 DEF StatusOK, StatusValue
  <2>4. dumps' \in 0..MaxCompactions /\ breaks' \in 0..MaxBreaks
    <3>1. dumps \in 0..MaxCompactions /\ MaxCompactions \in Nat /\ breaks \in 0..MaxBreaks
      BY BoundAssumption DEF Known
    <3>2. dumps' = dumps \/ (compact /\ dumps' = dumps + 1)
      BY <1>1, <1>9, <3>1
    <3> QED BY <1>1, <3>1, <3>2
  <2>5. History(K, called') /\ (\A m \in Node : Good(m, obj'[m], K, called')) /\ ChansOK(chan', Message(K, called'))
    BY <1>1, <1>9, <2>1, <2>2 DEF Grow, C, M
  <2> QED BY <2>1, <2>3, <2>4, <2>5 DEF Known
<1>13. Placed(K, X, V)'
  <2>1. Map(X) /\ Map(V) /\ AnswersHeld(V) /\ Shaped(e)
    <3>1. AnswersHeld(V)
      BY <1>2, <1>9, TurnsAnswers
    <3> QED BY <1>9, <3>1 DEF Moves, Turns, Good, NodeOK
  <2>2. NewHeld(called', X, V)
    <3> SUFFICES ASSUME NEW k \in Command \ called PROVE X[k] = <<None, Caller[k]>> /\ V[k] = <<"new", 0>>
      BY <1>1 DEF NewHeld
    <3>1. W[k] = <<None, Caller[k]>> /\ U[k] = <<"new", 0>>
      BY DEF Placed, NewHeld
    <3>2. <<None, Caller[k]>> # <<n, n>>
      BY NoneAssumption
    <3> QED BY <1>9, <3>1, <3>2 DEF Moves, Turns
  <2>3. Rearranged(n, W, U, X, V)
    <3>1. \A k \in Command : Caller[k] # n => V[k] = U[k]
      BY <1>9 DEF Turns
    <3>2. \A m \in Node \ {n} : \A k \in Command : W[k] = <<m, m>> => X[k] = W[k]
      BY <1>9 DEF Moves
    <3> QED BY <2>1, <3>1, <3>2 DEF Rearranged
  <2>5. AllSent(Deliver(n, e.out), X)
    <3> SUFFICES ASSUME NEW m \in Node, NEW p \in Peer(m)
                 PROVE  SentHeld(Deliver(n, e.out)[m][p], <<>>, <<m, p>>, X)
      BY DEF AllSent
    <3>1. CASE m = n
      <4>1. AsksHeld(n, e.out, X)
        BY <1>9 DEF Held
      <4> QED BY <1>10, <3>1, <4>1, DeliverSent
    <3>2. CASE m # n
      <4> DEFINE q == chan[m][p]
                 at == <<m, p>>
      <4>1. SentHeld(q, <<>>, at, W) /\ Deliver(n, e.out)[m][p] = q
        BY <1>11, <3>2 DEF Placed, AllSent
      <4>2. at # <<n, n>>
        BY <3>2
      <4> HIDE DEF q, at
      <4>3. \A i \in Asks(q) : X[q[i].cmd] = W[q[i].cmd]
        BY <1>9, <4>1, <4>2 DEF SentHeld, Moves
      <4>4. SentHeld(q, <<>>, at, X)
        BY <4>1, <4>3, SentMoved
      <4> QED BY <4>1, <4>4 DEF at
    <3> QED BY <3>1, <3>2
  <2>6. AllSent(chan', X)
    BY <1>1, <2>5, ReadableSent
  <2>7. Become(n, e) /\ LogHeld(K, X) /\ Held(n, e, e.queue, 0, X, V)
    BY <1>1, <1>9
  <2> QED BY <2>1, <2>2, <2>3, <2>6, <2>7, BecomePlaced
<1>14. \A x \in K \ H : Appends(n, obj[n], x)
  BY <1>9 DEF Grow, r
<1> QED BY <1>12, <1>13, <1>14

(* A command that is in a log stays there.                                  *)
LEMMA LogMoved ==
  ASSUME NEW H, NEW C, History(H, C), NEW W, NEW X, LogHeld(H, W),
         \A d \in Command : W[d] = <<None, None>> => X[d] = W[d]
  PROVE  LogHeld(H, X)
<1>1. \A x \in H : x.entry.idx >= 2 => x.entry.cmd \in Command
  BY DEF History
<1> QED BY <1>1 DEF LogHeld

LEMMA ReceivePlaced ==
  ASSUME NEW H, Known(H), NEW W, NEW U, Placed(H, W, U), NEW n \in Node, NEW p \in Peer(n), Receive(n, p)
  PROVE  \E X, V : Placed(H, X, V)'
<1> DEFINE C == called
           M == Message(H, C)
           o == obj[n]
           q == chan[p][n]
           m == Head(q)
           at == <<p, n>>
           r == OnMessageReceived(n, o, p, m)
           d == Deliver(n, r.out)
           ch == [d EXCEPT ![p][n] = Tail(@)]
<1>1. /\ o.alive /\ q # <<>> /\ m # Hello /\ Become(n, r) /\ chan' = Readable(ch) /\ called' = C
  BY DEF Receive, CanRead
<1>2. p \in Node /\ n \in Peer(p) /\ p # n
  BY DEF Peer
<1>3. q \in Seq(M) /\ ChansOK(chan, M) /\ History(H, C) /\ C \subseteq Command
  BY <1>2 DEF Known, ChansOK, History
<1>4. SentHeld(q, <<>>, at, W)
  BY <1>2 DEF Placed, AllSent
<1>5. /\ Good(n, o, H, C) /\ Map(W) /\ Map(U) /\ LogHeld(H, W) /\ AnswersHeld(U)
      /\ Held(n, o, o.queue, 0, W, U) /\ NewHeld(C, W, U)
  BY PlacedHeld DEF Known, Placed
<1>6. at # <<None, None>> /\ at # <<n, n>> /\ (\A a \in Node : at # <<None, a>> /\ at # <<a, a>>)
  BY <1>2, NoneAssumption
<1>7. ch = [d EXCEPT ![p][n] = Tail(d[p][n])]
  OBVIOUS
<1> HIDE DEF C, o, q, at, M
<1>8. m \in M /\ Tail(q) \in Seq(M) /\ Len(q) \in Nat /\ 1 \in 1..Len(q) /\ q[1] = m
  BY <1>1, <1>3
<1> HIDE DEF m
<1>9. m.type = "apply_command" => m.cmd \in Command /\ W[m.cmd] = at /\ 1 \in Asks(q)
  BY <1>4, <1>8 DEF SentHeld, Asks
<1>10. Good(n, r, H, C)
  BY <1>1, <1>3, <1>5, <1>8, OnMessageReceivedGood DEF M
<1>11. \E X, V : /\ Map(X) /\ Turns(n, U, V) /\ Held(n, r, r.queue, 0, X, V)
                 /\ \A k \in Command : X[k] # W[k] => m.type = "apply_command" /\ k = m.cmd
  <2>1. m.type = "apply_command" => W[m.cmd] = <<p, n>>
    BY <1>9 DEF at
  <2>2. m \in Message(H, C)
    BY <1>8 DEF M
  <2> QED BY <1>1, <1>3, <1>5, <2>1, <2>2, OnMessageReceivedHeld
<1> HIDE DEF r
<1>12. PICK X, V : /\ Map(X) /\ Turns(n, U, V) /\ Held(n, r, r.queue, 0, X, V)
                   /\ \A k \in Command : X[k] # W[k] => m.type = "apply_command" /\ k = m.cmd
  BY <1>11
<1>13. \A k \in Command : X[k] # W[k] => W[k] = at /\ k = m.cmd /\ 1 \in Asks(q)
  BY <1>9, <1>12
<1>14. Map(V) /\ AnswersHeld(V) /\ Shaped(r)
  <2>1. AnswersHeld(V)
    BY <1>5, <1>12, TurnsAnswers
  <2> QED BY <1>10, <1>12, <2>1 DEF Turns, Good, NodeOK
<1>15. LogHeld(H, X)
  BY <1>3, <1>5, <1>6, <1>13, LogMoved
<1>16. NewHeld(called', X, V)
  <2> SUFFICES ASSUME NEW k \in Command \ C PROVE X[k] = <<None, Caller[k]>> /\ V[k] = <<"new", 0>>
    BY <1>1 DEF NewHeld
  <2>1. W[k] = <<None, Caller[k]>> /\ U[k] = <<"new", 0>> /\ Caller[k] \in Node
    BY <1>5, CallerAssumption DEF NewHeld
  <2>2. at # <<None, Caller[k]>>
    BY <1>6, <2>1
  <2> QED BY <1>12, <1>13, <2>1, <2>2 DEF Turns
<1>17. Rearranged(n, W, U, X, V)
  <2>1. \A k \in Command : Caller[k] # n => V[k] = U[k]
    BY <1>12 DEF Turns
  <2>2. \A a \in Node \ {n} : \A k \in Command : W[k] = <<a, a>> => X[k] = W[k]
    BY <1>6, <1>13
  <2> QED BY <1>12, <1>14, <2>1, <2>2 DEF Rearranged
<1>18. r.out \in [Peer(n) -> Seq(M)]
  BY <1>10 DEF Good, NodeOK, M
<1>19. ChansOK(d, M) /\ \A a \in Node \ {n} : d[a] = chan[a]
  BY <1>3, <1>18, DeliverOK
<1>20. ASSUME NEW b \in Peer(n) PROVE SentHeld(d[n][b], <<>>, <<n, b>>, X)
  <2>1. AsksHeld(n, r.out, X)
    BY <1>12 DEF Held
  <2> QED BY <1>3, <1>18, <2>1, DeliverSent
<1> HIDE DEF d
<1>21. ch = [d EXCEPT ![p][n] = Tail(q)]
  BY <1>2, <1>7, <1>19 DEF q
<1> HIDE DEF ch
<1>22. SentHeld(Tail(q), <<>>, at, X)
  <2> DEFINE u == Tail(q)
  <2>1. SentHeld(u, <<>>, at, W)
    BY <1>1, <1>3, <1>4, SentTail
  <2>2. \A i \in 1..Len(u) : i + 1 \in 1..Len(q) /\ u[i] = q[i + 1] /\ i + 1 # 1
    BY <1>1, <1>3
  <2> HIDE DEF u
  <2>3. ASSUME NEW i \in Asks(u) PROVE X[u[i].cmd] = W[u[i].cmd]
    <3>1. i + 1 \in Asks(q) /\ u[i] = q[i + 1] /\ i + 1 # 1
      BY <2>2 DEF Asks
    <3>2. 1 \in Asks(q) => q[i + 1].cmd # q[1].cmd
      BY <1>4, <3>1 DEF SentHeld
    <3>3. u[i].cmd \in Command
      BY <2>1 DEF SentHeld
    <3> QED BY <1>8, <1>13, <3>1, <3>2, <3>3
  <2>4. SentHeld(u, <<>>, at, X)
    BY <2>1, <2>3, SentMoved
  <2> QED BY <2>4 DEF u
<1>23. AllSent(ch, X)
  <2> SUFFICES ASSUME NEW a \in Node, NEW b \in Peer(a) PROVE SentHeld(ch[a][b], <<>>, <<a, b>>, X)
    BY DEF AllSent
  <2>1. d = [x \in Node |-> d[x]] /\ \A x \in Node : d[x] = [y \in Peer(x) |-> d[x][y]]
    BY <1>19 DEF ChansOK
  <2>2. CASE a = p /\ b = n
    <3>1. ch[a][b] = Tail(q)
      BY <1>2, <1>21, <2>1, <2>2
    <3> QED BY <1>22, <2>2, <3>1 DEF at
  <2>3. CASE a = n
    <3>1. ch[a][b] = d[n][b]
      BY <1>2, <1>21, <2>1, <2>3
    <3> QED BY <1>20, <2>3, <3>1
  <2>4. CASE a # n /\ ~(a = p /\ b = n)
    <3> DEFINE u == chan[a][b]
               to == <<a, b>>
    <3>1. ch[a][b] = u
      BY <1>2, <1>19, <1>21, <2>1, <2>4
    <3>2. SentHeld(u, <<>>, to, W)
      BY DEF Placed, AllSent
    <3>3. to # at
      BY <2>4 DEF at
    <3> HIDE DEF u, to
    <3>4. \A i \in Asks(u) : X[u[i].cmd] = W[u[i].cmd]
      BY <1>13, <3>2, <3>3 DEF SentHeld
    <3>5. SentHeld(u, <<>>, to, X)
      BY <3>2, <3>4, SentMoved
    <3> QED BY <3>1, <3>5 DEF to
  <2> QED BY <2>2, <2>3, <2>4
<1>24. AllSent(chan', X)
  BY <1>1, <1>23, ReadableSent
<1>25. Placed(H, X, V)'
  BY <1>1, <1>12, <1>14, <1>15, <1>16, <1>17, <1>24, BecomePlaced
<1> QED BY <1>25

LEMMA PsoAppendPlaced ==
  ASSUME NEW H, Known(H), NEW W, NEW U, Placed(H, W, U), NEW n \in Node, NEW c \in Command, PsoAppend(n, c)
  PROVE  \E X, V : Placed(H, X, V)'
<1> DEFINE C == called
           o == obj[n]
           at == <<None, n>>
           X == [W EXCEPT ![c] = <<n, n>>]
           r == ApplyCommand(o, c, None, 0)
<1>1. c \notin C /\ Caller[c] = n /\ called' = C \cup {c} /\ Become(n, r) /\ chan' = chan
  BY DEF PsoAppend
<1>2. /\ History(H, C) /\ Good(n, o, H, C) /\ Map(W) /\ Map(U) /\ LogHeld(H, W) /\ AnswersHeld(U)
      /\ Held(n, o, o.queue, 0, W, U) /\ NewHeld(C, W, U)
  BY PlacedHeld DEF Known, Placed
<1>3. W[c] = at /\ U[c] = <<"new", 0>>
  BY <1>1, <1>2 DEF NewHeld
<1>4. /\ Map(X) /\ X[c] = <<n, n>> /\ \A k \in Command : k # c => X[k] = W[k]
  <2>1. W = [k \in Command |-> W[k]]
    BY <1>2 DEF Map
  <2>2. X = [k \in Command |-> IF k = c THEN <<n, n>> ELSE W[k]]
    BY <2>1
  <2> HIDE DEF X
  <2> QED BY <2>2 DEF Map
<1>5. at # <<None, None>> /\ (\A a, b \in Node : at # <<a, b>>)
  BY NoneAssumption
<1> HIDE DEF C, o, X
<1>6. \E V : /\ Map(V) /\ (\A k \in Command : k # c => V[k] = U[k])
             /\ AnswersHeld(V) /\ Held(n, r, r.queue, 0, X, V)
  <2>1. None \in Node \cup {None} /\ None # n
    BY NoneAssumption
  <2>2. W[c] = <<None, n>>
    BY <1>3
  <2> QED BY <1>1, <1>2, <1>3, <1>4, <2>1, <2>2, ApplyCommandHeld
<1>7. Shaped(r)
  <2>1. History(H, C \cup {c}) /\ C \subseteq C \cup {c} /\ c \in C \cup {c}
    BY <1>2 DEF History
  <2> DEFINE D == C \cup {c}
  <2> HIDE DEF D
  <2>2. Good(n, o, H, D)
    BY <1>2, <2>1, NodeOKMono DEF Good, D
  <2>3. Good(n, r, H, D)
    BY <2>1, <2>2, ApplyCommandGood DEF D
  <2> QED BY <2>3 DEF Good, NodeOK
<1> HIDE DEF r
<1>8. PICK V : /\ Map(V) /\ (\A k \in Command : k # c => V[k] = U[k])
               /\ AnswersHeld(V) /\ Held(n, r, r.queue, 0, X, V)
  BY <1>6
<1> HIDE DEF at
<1>9. \A k \in Command : W[k] # at => X[k] = W[k]
  BY <1>3, <1>4
<1>10. LogHeld(H, X)
  BY <1>2, <1>5, <1>9, LogMoved
<1>11. NewHeld(called', X, V)
  BY <1>1, <1>2, <1>4, <1>8 DEF NewHeld
<1>12. Rearranged(n, W, U, X, V)
  <2>1. \A k \in Command : Caller[k] # n => V[k] = U[k]
    BY <1>1, <1>8
  <2>2. \A a \in Node \ {n} : \A k \in Command : W[k] = <<a, a>> => X[k] = W[k]
    BY <1>5, <1>9
  <2> QED BY <1>4, <1>8, <2>1, <2>2 DEF Rearranged
<1>13. AllSent(chan, X)
  <2> SUFFICES ASSUME NEW a \in Node, NEW b \in Peer(a) PROVE SentHeld(chan[a][b], <<>>, <<a, b>>, X)
    BY DEF AllSent
  <2> DEFINE u == chan[a][b]
             to == <<a, b>>
  <2>1. SentHeld(u, <<>>, to, W)
    BY DEF Placed, AllSent
  <2>2. to # at
    BY <1>5 DEF Peer
  <2> HIDE DEF u, to
  <2>3. \A i \in Asks(u) : X[u[i].cmd] = W[u[i].cmd]
    BY <1>9, <2>1, <2>2 DEF SentHeld
  <2>4. SentHeld(u, <<>>, to, X)
    BY <2>1, <2>3, SentMoved
  <2> QED BY <2>4 DEF u, to
<1>14. AllSent(chan', X)
  BY <1>1, <1>13
<1>15. Placed(H, X, V)'
  BY <1>1, <1>7, <1>8, <1>10, <1>11, <1>12, <1>14, BecomePlaced
<1> QED BY <1>15

LEMMA LinkPlaced ==
  ASSUME NEW H, Known(H), NEW W, NEW U, Placed(H, W, U), NEW n \in Node, NEW p \in Peer(n),
         LinkBreak(n, p) \/ LinkRepair(n, p)
  PROVE  Placed(H, W, U)'
<1> DEFINE M == Message(H, called)
           q == chan[p][n]
           u == chan[n][p]
           there == <<p, n>>
           here == <<n, p>>
<1>1. obj' = obj /\ answers' = answers /\ called' = called
  BY DEF LinkBreak, LinkRepair
<1>2. p \in Node /\ n \in Peer(p) /\ p # n
  BY DEF Peer
<1>3. q \in Seq(M) /\ u \in Seq(M) /\ ChansOK(chan, M)
  BY <1>2 DEF Known, ChansOK
<1>4. Hello \in M
  BY DEF Message
<1>5. SentHeld(q, <<>>, there, W) /\ SentHeld(u, <<>>, here, W) /\ AllSent(chan, W)
  BY <1>2 DEF Placed, AllSent
<1> HIDE DEF M
<1>6. ASSUME NEW a \in Node, NEW b \in Peer(a), NEW v, SentHeld(v, <<>>, <<a, b>>, W),
             chan' = [chan EXCEPT ![a][b] = v]
      PROVE  AllSent(chan', W)
  <2> SUFFICES ASSUME NEW x \in Node, NEW y \in Peer(x) PROVE SentHeld(chan'[x][y], <<>>, <<x, y>>, W)
    BY DEF AllSent
  <2>1. (x = a /\ y = b /\ chan'[x][y] = v) \/ chan'[x][y] = chan[x][y]
    BY <1>3, <1>6 DEF ChansOK
  <2> QED BY <1>5, <1>6, <2>1 DEF AllSent
<1>7. AllSent(chan', W)
  <2>1. CASE LinkBreak(n, p)
    BY <1>5, <2>1 DEF LinkBreak, Break
  <2>2. CASE LoseConnection(n, p)
    <3> DEFINE v == FromHello(q)
    <3>1. chan' = [chan EXCEPT ![p][n] = v]
      BY <2>2 DEF LoseConnection
    <3> HIDE DEF q, there
    <3>2. SentHeld(v, <<>>, there, W)
      BY <1>3, <1>5, SentFromHello
    <3> HIDE DEF v
    <3> QED BY <1>2, <1>6, <3>1, <3>2 DEF there
  <2>3. CASE Connected(n, p)
    <3> DEFINE v == Append(u, Hello)
    <3>1. chan' = [chan EXCEPT ![n][p] = v]
      BY <2>3 DEF Connected
    <3> HIDE DEF u, here
    <3>2. SentHeld(v, <<>>, here, W)
      BY <1>3, <1>4, <1>5, SentHello
    <3> HIDE DEF v
    <3> QED BY <1>2, <1>6, <3>1, <3>2 DEF here
  <2>4. CASE OnPartnerConnected(n, p)
    <3> DEFINE x == FromHello(q)
               v == Tail(x)
    <3>1. chan' = [chan EXCEPT ![p][n] = v] /\ Hello \in Range(q)
      BY <2>4 DEF OnPartnerConnected
    <3> HIDE DEF q, there
    <3>2. SentHeld(x, <<>>, there, W) /\ x \in Seq(M) /\ x # <<>>
      BY <1>3, <1>5, <3>1, SentFromHello, FromHelloOK
    <3> HIDE DEF x
    <3>3. SentHeld(v, <<>>, there, W)
      BY <3>2, SentTail
    <3> HIDE DEF v
    <3> QED BY <1>2, <1>6, <3>1, <3>3 DEF there
  <2> QED BY <2>1, <2>2, <2>3, <2>4 DEF LinkRepair
<1> QED BY <1>1, <1>7 DEF Placed, AnswersHeld

(* Before the first step every command waits for its client.                *)
LEMMA InitPlaced == Init => \E W, U : Placed(Origin, W, U)
<1> SUFFICES ASSUME Init PROVE \E W, U : Placed(Origin, W, U)
  OBVIOUS
<1> DEFINE W == [c \in Command |-> <<None, Caller[c]>>]
           U == [c \in Command |-> <<"new", 0>>]
           e == [cmd |-> None, idx |-> 1, term |-> 0]
<1>1. /\ obj = [n \in Node |-> InitObj(n)] /\ answers = [c \in Command |-> <<>>] /\ called = {}
      /\ \A n \in Node : \A p \in Peer(n) : chan[n][p] = <<>>
  BY DEF Init, LinkInit
<1>2. Map(W) /\ Map(U) /\ NewHeld(called, W, U)
  BY <1>1 DEF Map, NewHeld
<1>3. LogHeld(Origin, W)
  <2>1. \A x \in Origin : x.entry.idx = 1
    BY DEF Origin, Link
  <2>2. ~(1 >= 2)
    OBVIOUS
  <2> QED BY <2>1, <2>2 DEF LogHeld
<1> HIDE DEF W, U
<1>4. AnswersHeld(U) /\ \A c \in Command : Len(answers[c]) <= 1
  <2>1. answers \in [Command -> Seq(Outcome)] /\ \A c \in Command : answers[c] = <<>> /\ Len(<<>>) <= 1
    BY <1>1
  <2> QED BY <2>1 DEF AnswersHeld
<1>5. ASSUME NEW n \in Node
      PROVE  /\ Kept(n, obj[n], W, U)
             /\ obj[n].out = [p \in Peer(n) |-> <<>>] /\ obj[n].calls = <<>>
  <2> DEFINE r == obj[n]
  <2>1. /\ r.queue = <<>> /\ r.waitingReply = <<>> /\ r.waitingCommit = <<>>
        /\ r.out = [p \in Peer(n) |-> <<>>] /\ r.calls = <<>>
    BY <1>1 DEF InitObj
  <2> HIDE DEF r
  <2>2. Kept(n, r, W, U)
    BY <2>1 DEF Kept, QueueHeld, RepliesHeld, CommitsHeld
  <2> QED BY <2>1, <2>2 DEF r
<1>6. AllSent(chan, W)
  BY <1>1, NothingSent DEF AllSent
<1>7. Placed(Origin, W, U)
  BY <1>2, <1>3, <1>4, <1>5, <1>6 DEF Placed
<1> QED BY <1>7

AllPlaced == \E H, W, U : Known(H) /\ Placed(H, W, U)

LEMMA StepPlaced ==
  ASSUME NEW H, NEW W, NEW U, Known(H), Placed(H, W, U), [Next]_vars
  PROVE  \E K, X, V : /\ Known(K)' /\ Placed(K, X, V)'
                      /\ \A x \in K \ H : \E n \in Node : Appends(n, obj[n], x)
<1>1. (\E X, V : Known(H)' /\ Placed(H, X, V)') =>
         \E K, X, V : /\ Known(K)' /\ Placed(K, X, V)'
                      /\ \A x \in K \ H : \E n \in Node : Appends(n, obj[n], x)
  OBVIOUS
<1>3. CASE \E n \in Node, c \in Command : PsoAppend(n, c)
  BY <1>1, <1>3, PsoAppendKnown, PsoAppendPlaced
<1>4. CASE \E n \in Node : AnyTick(n)
  <2>1. PICK n \in Node : AnyTick(n)
    BY <1>4
  <2>2. Slowness(n) \subseteq BOOLEAN
    BY DEF Slowness
  <2>3. PICK expire \in BOOLEAN, beat \in BOOLEAN, compact \in BOOLEAN, slow \in Slowness(n),
             dial \in SUBSET Dialable(n) :
          /\ expire => MayExpire(n)
          /\ compact => dumps < MaxCompactions
          /\ Tick(n, expire, beat, slow, compact, dial)
    BY <2>1 DEF AnyTick
  <2>4. slow \in BOOLEAN
    BY <2>2, <2>3
  <2>5. \E K, X, V : Known(K)' /\ Placed(K, X, V)' /\ \A x \in K \ H : Appends(n, obj[n], x)
    BY <2>3, <2>4, TickPlaced
  <2> QED BY <2>5
<1>5. CASE \E n \in Node : \E p \in Peer(n) : Receive(n, p)
  BY <1>1, <1>5, ReceiveKnown, ReceivePlaced
<1>6. CASE \E n \in Node : \E p \in Peer(n) : LinkBreak(n, p) \/ LinkRepair(n, p)
  BY <1>1, <1>6, LinkKnown, LinkPlaced
<1>7. CASE UNCHANGED vars
  <2>1. /\ obj' = obj /\ called' = called /\ dumps' = dumps /\ status' = status
        /\ chan' = chan /\ breaks' = breaks /\ answers' = answers
    BY <1>7 DEF vars
  <2>2. Known(H)' /\ Placed(H, W, U)'
    BY <2>1 DEF Known, StatusOK, Placed, AnswersHeld
  <2> QED BY <1>1, <2>2
<1> QED BY <1>3, <1>4, <1>5, <1>6, <1>7 DEF Next

LEMMA AllPlacedAlways == Spec => []AllPlaced
<1>1. Init => AllPlaced
  BY InitKnown, InitPlaced DEF AllPlaced
<1>2. AllPlaced /\ [Next]_vars => AllPlaced'
  BY StepPlaced DEF AllPlaced
<1> QED BY <1>1, <1>2, PTL DEF Spec

LEMMA AllKnownAlways == Spec => []AllKnown
<1>1. AllPlaced => AllKnown
  BY DEF AllPlaced, AllKnown
<1> QED BY <1>1, AllPlacedAlways, PTL

---------------------------------------------------------------------------
(* What the invariant says.                                                *)

LEMMA KnownTypes == AllKnown => TypeOK
<1> SUFFICES ASSUME AllKnown PROVE TypeOK
  OBVIOUS
<1>1. PICK H : Known(H)
  BY DEF AllKnown
<1>2. called \subseteq Command /\ dumps \in 0..MaxCompactions /\ breaks \in 0..MaxBreaks
  BY <1>1 DEF Known, History
<1>3. ASSUME NEW n \in Node
      PROVE  LET r == obj[n] IN
        /\ r.state \in {"FOLLOWER", "CANDIDATE", "LEADER"}
        /\ r.term \in 0..MaxTerm /\ r.leader \in Node \cup {None}
        /\ \A i \in DOMAIN r.log : r.log[i].idx = FirstIndex(r.log) + i - 1
        /\ (r.alive => Len(r.data) = r.applied - 1) /\ Applied(n) \subseteq called
        /\ status[n] \in [Peer(n) -> StatusValue]
  <2> DEFINE r == obj[n]
  <2>1. Good(n, r, H, called) /\ status[n] \in [Peer(n) -> StatusValue]
    BY <1>1 DEF Known, StatusOK
  <2>2. Applied(n) = Range(r.data)
    BY DEF Applied
  <2> HIDE DEF r
  <2>3. /\ r.state \in {"FOLLOWER", "CANDIDATE", "LEADER"}
        /\ r.term \in 0..MaxTerm /\ r.leader \in Node \cup {None}
        /\ (r.alive => Len(r.data) = r.applied - 1)
        /\ r.data \in Seq(called) /\ Fits(r.log, H)
    BY <2>1 DEF Good, NodeOK
  <2>4. Range(r.data) \subseteq called
    BY <2>3 DEF Range
  <2>5. \A i \in DOMAIN r.log : r.log[i].idx = FirstIndex(r.log) + i - 1
    <3> SUFFICES ASSUME NEW i \in DOMAIN r.log PROVE r.log[i].idx = FirstIndex(r.log) + i - 1
      OBVIOUS
    <3>1. r.log \in Seq(Entry)
      BY <2>3 DEF Fits
    <3>2. i \in 1..Len(r.log) /\ r.log # <<>>
      BY <3>1
    <3>3. r.log[i].idx = r.log[1].idx + i - 1 /\ FirstIndex(r.log) = r.log[1].idx
      BY <2>3, <3>2, CurrentLog DEF Fits
    <3> QED BY <3>3
  <2> QED BY <2>1, <2>2, <2>3, <2>4, <2>5 DEF r
<1> QED BY <1>2, <1>3 DEF TypeOK

(* Every record of a node has its types and shape in every reachable state: *)
(* logs are runs of consecutive indices through appends, truncations, cuts  *)
(* and loaded dumps, data has as many values as lastApplied says, and none  *)
(* that no client appended.  No assumption but those of the modules.        *)
THEOREM SyncObjTypes == Spec => []TypeOK
BY AllKnownAlways, KnownTypes, PTL

(* Who leads term t is L[t], and nobody else does.  This is election safety *)
(* of the run at hand: L is not a parameter of the program.                 *)
LedBy(L) == \A n \in Node : obj[n].state = "LEADER" => L[obj[n].term] = n

(* What is known of a term was appended by the one who leads it.            *)
AppendedBy(L, H) == \A x \in H : x.by = IF x.entry.term = 0 THEN None ELSE L[x.entry.term]
AllLed(L) == \E H, W, U : Known(H) /\ Placed(H, W, U) /\ AppendedBy(L, H)

LEMMA InitLed ==
  ASSUME NEW CONSTANT L
  PROVE  Init => AllLed(L)
<1>1. AppendedBy(L, Origin)
  BY DEF AppendedBy, Origin, Link
<1> QED BY <1>1, InitKnown, InitPlaced DEF AllLed

(* A step adds links of a leader's term only.                               *)
LEMMA StepLed ==
  ASSUME NEW CONSTANT L
  PROVE  AllLed(L) /\ LedBy(L) /\ [Next]_vars => AllLed(L)'
<1> SUFFICES ASSUME AllLed(L), LedBy(L), [Next]_vars PROVE AllLed(L)'
  OBVIOUS
<1>1. PICK H, W, U : Known(H) /\ Placed(H, W, U) /\ AppendedBy(L, H)
  BY DEF AllLed
<1>2. PICK K, X, V : /\ Known(K)' /\ Placed(K, X, V)'
                     /\ \A x \in K \ H : \E n \in Node : Appends(n, obj[n], x)
  BY <1>1, StepPlaced
<1>3. AppendedBy(L, K)
  <2> SUFFICES ASSUME NEW x \in K \ H PROVE x.entry.term # 0 /\ x.by = L[x.entry.term]
    BY <1>1 DEF AppendedBy
  <2> QED BY <1>2 DEF Appends, LedBy
<1>4. AppendedBy(L, K)'
  BY <1>3 DEF AppendedBy
<1> QED BY <1>2, <1>4 DEF AllLed

LEMMA LedMatching ==
  ASSUME NEW CONSTANT L
  PROVE  AllLed(L) => LogMatching
<1> SUFFICES ASSUME AllLed(L),
                    NEW m \in Node, NEW n \in Node, NEW e \in EntryOf(m), NEW f \in EntryOf(n),
                    e.idx = f.idx, e.term = f.term,
                    NEW g \in EntryOf(m), NEW h \in EntryOf(n), g.idx = h.idx, g.idx <= e.idx
             PROVE  g = h
  BY DEF LogMatching
<1> DEFINE p == obj[m].log
           q == obj[n].log
<1>1. PICK H : Known(H) /\ AppendedBy(L, H)
  BY DEF AllLed
<1>2. Fits(p, H) /\ Fits(q, H) /\ History(H, called)
  BY <1>1 DEF Known, Good, NodeOK
<1>3. p \in Seq(Entry) /\ q \in Seq(Entry)
  BY <1>2 DEF Fits
<1>4. PICK i \in 1..Len(p), i1 \in 1..Len(p) : p[i] = e /\ p[i1] = g
  <2> HIDE DEF p
  <2>1. e \in Range(p) /\ g \in Range(p)
    BY DEF EntryOf, p
  <2> QED BY <1>3, <2>1 DEF Range
<1>5. PICK j \in 1..Len(q), j1 \in 1..Len(q) : q[j] = f /\ q[j1] = h
  <2> HIDE DEF q
  <2>1. f \in Range(q) /\ h \in Range(q)
    BY DEF EntryOf, q
  <2> QED BY <1>3, <2>1 DEF Range
<1> HIDE DEF p, q
<1>6. Len(p) \in Nat /\ Len(q) \in Nat /\ p[1] \in Entry /\ q[1] \in Entry
  BY <1>3, <1>4, <1>5
<1>7. p[1].idx \in Int /\ q[1].idx \in Int
  BY <1>6, EntryFields
<1> DEFINE A == p[1].idx
           B == q[1].idx
<1>8. /\ \A k \in 1..Len(p) : p[k].idx = A + k - 1
      /\ \A k \in 1..Len(q) : q[k].idx = B + k - 1
      /\ A \in Int /\ B \in Int
  BY <1>2, <1>7 DEF Fits
<1> HIDE DEF A, B
<1>9. /\ \A k \in 1..Len(p) : \E t \in 0..MaxTerm : Has(H, p[k], t)
      /\ \A k \in 1..Len(q) : \E t \in 0..MaxTerm : Has(H, q[k], t)
      /\ \A k \in 2..Len(p) : Has(H, p[k], p[k - 1].term)
      /\ \A k \in 2..Len(q) : Has(H, q[k], q[k - 1].term)
  BY <1>2 DEF Fits
<1>10. \A x, y \in H : x.entry.idx = y.entry.idx /\ x.entry.term = y.entry.term => x = y
  BY <1>1, <1>2 DEF History, AppendedBy
<1>11. ASSUME NEW a, NEW b, NEW s, NEW t, Has(H, a, s), Has(H, b, t), a.idx = b.idx, a.term = b.term
       PROVE  a = b /\ s = t
  <2>1. PICK x \in H, y \in H : x.entry = a /\ x.prev = s /\ y.entry = b /\ y.prev = t
    BY <1>11 DEF Has
  <2>2. x = y
    BY <1>10, <1>11, <2>1
  <2> QED BY <2>1, <2>2
<1> DEFINE d == i - i1
<1>12. d \in Nat /\ d = j - j1 /\ i - d = i1 /\ j - d = j1
  <2>1. e.idx = A + i - 1 /\ g.idx = A + i1 - 1 /\ f.idx = B + j - 1 /\ h.idx = B + j1 - 1
    BY <1>4, <1>5, <1>8
  <2>2. i \in Int /\ i1 \in Int /\ j \in Int /\ j1 \in Int /\ A \in Int /\ B \in Int
    BY <1>6, <1>8
  <2>3. A + i - 1 = B + j - 1 /\ A + i1 - 1 = B + j1 - 1 /\ A + i1 - 1 <= A + i - 1
    BY <2>1
  <2>4. d \in Nat /\ i - i1 = j - j1
    BY <2>2, <2>3
  <2> QED BY <2>2, <2>4
<1> HIDE DEF d
<1> DEFINE Bad == {k \in 0..d : p[i - k] # q[j - k]}
<1>13. 0 \notin Bad
  <2>1. PICK s, t : Has(H, e, s) /\ Has(H, f, t)
    BY <1>4, <1>5, <1>9
  <2>2. e = f
    BY <1>11, <2>1
  <2>3. i - 0 = i /\ j - 0 = j
    BY <1>6
  <2> QED BY <1>4, <1>5, <2>2, <2>3
<1>14. ASSUME NEW k \in 1..d, k - 1 \notin Bad PROVE k \notin Bad
  <2> DEFINE u == i - k
             v == j - k
  <2>1. /\ u \in 1..Len(p) /\ u + 1 \in 2..Len(p) /\ i - (k - 1) = u + 1 /\ (u + 1) - 1 = u
        /\ v \in 1..Len(q) /\ v + 1 \in 2..Len(q) /\ j - (k - 1) = v + 1 /\ (v + 1) - 1 = v
        /\ k - 1 \in 0..d /\ u + 1 \in 1..Len(p) /\ v + 1 \in 1..Len(q)
    BY <1>6, <1>12
  <2>2. p[u + 1] = q[v + 1]
    BY <1>14, <2>1
  <2> HIDE DEF u, v
  <2>3. Has(H, p[u + 1], p[u].term) /\ Has(H, q[v + 1], q[v].term)
    BY <1>9, <2>1
  <2>4. p[u].term = q[v].term
    BY <1>11, <2>2, <2>3
  <2>5. p[u].idx = q[v].idx
    <3>1. /\ p[u].idx = A + u - 1 /\ p[u + 1].idx = A + (u + 1) - 1
          /\ q[v].idx = B + v - 1 /\ q[v + 1].idx = B + (v + 1) - 1
      BY <1>8, <2>1
    <3>2. u \in Int /\ v \in Int /\ A \in Int /\ B \in Int
      BY <1>8, <2>1
    <3>3. A + (u + 1) - 1 = B + (v + 1) - 1
      BY <2>2, <3>1
    <3>4. A + u - 1 = B + v - 1
      BY <3>2, <3>3
    <3> QED BY <3>1, <3>4
  <2>6. PICK s, t : Has(H, p[u], s) /\ Has(H, q[v], t)
    BY <1>9, <2>1
  <2>7. p[u] = q[v]
    BY <1>11, <2>4, <2>5, <2>6
  <2> QED BY <2>7 DEF u, v
<1>15. Bad = {}
  <2>1. Bad \subseteq 0..d
    OBVIOUS
  <2> HIDE DEF Bad
  <2> QED BY <1>12, <1>13, <1>14, <2>1, NoFirstBad
<1>16. d \in 0..d
  BY <1>12
<1>17. p[i - d] = q[j - d]
  BY <1>15, <1>16
<1> QED BY <1>4, <1>5, <1>12, <1>17

(* Log matching, for any number of nodes, terms, candidates, commands, lost *)
(* connections and dumps: in every behaviour in which no term is ever led   *)
(* by two nodes, two logs that hold an entry of the same index and term     *)
(* agree on all that both have up to it.  Rival candidates, split votes and *)
(* repeated elections are allowed; that no two of them win a term is not    *)
(* ensured by the code, which records no vote, so it is an assumption here. *)
THEOREM SyncObjLogMatching ==
  ASSUME NEW CONSTANT Elected
  PROVE  Spec /\ []LedBy(Elected) => []LogMatching
<1>1. Init => AllLed(Elected)
  BY InitLed
<1>2. AllLed(Elected) /\ LedBy(Elected) /\ [Next]_vars => AllLed(Elected)'
  BY StepLed
<1>3. AllLed(Elected) => LogMatching
  BY LedMatching
<1> QED BY <1>1, <1>2, <1>3, PTL DEF Spec

LEMMA PlacedOnce == AllPlaced => AtMostOnce
<1> SUFFICES ASSUME AllPlaced PROVE AtMostOnce
  OBVIOUS
<1>1. PICK H, W, U : Known(H) /\ Placed(H, W, U)
  BY DEF AllPlaced
<1>2. ASSUME NEW n \in Node PROVE IsInjective(obj[n].data)
  <2> DEFINE d == obj[n].data
  <2>1. d \in Seq(called) /\ Traced(d, H) /\ LogHeld(H, W)
    BY <1>1 DEF Known, Placed, Good, NodeOK
  <2> HIDE DEF d
  <2>2. ASSUME NEW i \in 1..Len(d), NEW j \in 1..Len(d), d[i] = d[j] PROVE i = j
    <3>1. PICK x \in H, y \in H : /\ x.entry.idx = i + 1 /\ x.entry.cmd = d[i]
                                  /\ y.entry.idx = j + 1 /\ y.entry.cmd = d[j]
      BY <2>1 DEF Traced
    <3>2. i \in Nat /\ j \in Nat /\ i + 1 >= 2 /\ j + 1 >= 2
      BY <2>1
    <3>3. x = y
      BY <2>1, <2>2, <3>1, <3>2 DEF LogHeld
    <3> QED BY <3>1, <3>2, <3>3
  <2>3. DOMAIN d = 1..Len(d)
    BY <2>1
  <2>4. IsInjective(d)
    BY <2>2, <2>3 DEF IsInjective
  <2> QED BY <2>4 DEF d
<1>3. \A c \in Command : Len(answers[c]) <= 1
  BY <1>1 DEF Placed
<1> QED BY <1>2, <1>3 DEF AtMostOnce

(* A command is applied at most once at every node and its callback is      *)
(* called at most once, for any number of nodes, terms, commands, lost      *)
(* connections and dumps, two candidates of a term included: forwarding,    *)
(* refusing, discarding and deposing move a request, they never copy it.    *)
THEOREM SyncObjAtMostOnce == Spec => []AtMostOnce
BY AllPlacedAlways, PlacedOnce, PTL
=============================================================================
