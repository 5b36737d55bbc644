------------------------- MODULE TestMeasureProofs -------------------------
(***************************************************************************)
(* The proof that a run is measured under the network its test file        *)
(* describes, for every test file, every number of nodes and both modes.   *)
(***************************************************************************)
EXTENDS TestExecutorProofs, WellFoundedInduction

(* What the plan p says of link l when command k is executed: the last of   *)
(* the commands before k that are for l, or 0, and the rule it sets.        *)
Before(p, k, l) == {j \in 1..(k - 1) : l \in p[j].links}
LastOf(on) == CHOOSE j \in on : \A i \in on : i <= j
GovernsBy(p, k, l) == IF Before(p, k, l) = {} THEN 0 ELSE LastOf(Before(p, k, l))
RuleBy(p, g) == IF g = 0 THEN NoDelay ELSE Meaning(p[g].line).rule

(* In network n link l is as the plan says for command k, unless the command*)
(* that governs it is one of those in dropped.                              *)
AsPlanned(p, dropped, k, n, l) ==
    GovernsBy(p, k, l) \in dropped \/ n[l] = RuleBy(p, GovernsBy(p, k, l))

(* A command that was checked is in the plan, with the links it is for.     *)
Marked(c, p) ==
    /\ c.no \in 1..Len(p) /\ p[c.no].line = c.line
    /\ IF Meaning(c.line).op = "link"
       THEN /\ c \in LinkCommand
            /\ p[c.no].links = LinksOf(c.sources, c.targets, Meaning(c.line).bidirectional)
       ELSE p[c.no].links = {}

AllMarked(q, p) == \A i \in DOMAIN q : q[i].stage \in {"execute", "executing"} => Marked(q[i], p)

(* A command of the plan that is for some link was dropped, or waits in the *)
(* list, or the execution has reached it.                                   *)
Waiting(q, j) == \E i \in DOMAIN q : q[i].no = j /\ q[i].stage = "execute"
Reached(q, j) == q = <<>> \/ q[1].stage = "spent" \/ (q[1].stage # "check" /\ j <= q[1].no)
Covered(q, p, dropped) ==
    \A j \in 1..Len(p) : p[j].links # {} => j \in dropped \/ Waiting(q, j) \/ Reached(q, j)

(* The calls still to be made are for links of the command being executed.  *)
CallsPlanned(q, p, calls) == \A c \in calls : CalledLink(c) \in Link => CalledLink(c) \in p[q[1].no].links

(* The network n a command meets, and what the command being executed has   *)
(* made of it.                                                              *)
Meets(q, p, dropped, n) ==
    q # <<>> /\ q[1].stage = "execute" => \A l \in Link : AsPlanned(p, dropped, q[1].no, n, l)
Makes(q, p, dropped, n, calls) ==
    q # <<>> /\ q[1].stage = "executing" =>
        \A l \in Link :
            IF l \in p[q[1].no].links
            THEN n[l] = Meaning(q[1].line).rule \/ \E c \in calls : CalledLink(c) = l
            ELSE AsPlanned(p, dropped, q[1].no, n, l)

Row == [no : Nat, net : [Link -> Rule \cup {None}]]

MeasureInv ==
    /\ rows \in Seq(Row)
    /\ MeasuredAsPlanned
    /\ phase = "execute" =>
          /\ AllMarked(commands, plan)
          /\ Covered(commands, plan, swallowed)
          /\ CallsPlanned(commands, plan, rpcs)
          /\ Meets(commands, plan, swallowed, Network)
          /\ Makes(commands, plan, swallowed, Network, rpcs)

-----------------------------------------------------------------------------
(* What the plan says, from one command to the next.                        *)

(* The last of a set of commands before k, which is not empty.              *)
LEMMA LastExists ==
    ASSUME NEW k \in Nat, NEW on \in SUBSET (1..(k - 1)), on # {}
    PROVE  LastOf(on) \in on /\ \A i \in on : i <= LastOf(on)
<1> DEFINE T == {k - j : j \in on}
<1>1. T \subseteq Nat /\ T # {}
  OBVIOUS
<1>2. PICK x \in T : \A y \in T : ~ (<<y, x>> \in OpToRel(<, Nat))
  <2> HIDE DEF T
  <2> QED BY <1>1, NatLessThanWellFounded, WFMin, Zenon
<1>3. \A y \in T : ~(y < x)
  BY <1>1, <1>2 DEF OpToRel
<1>4. PICK j \in on : x = k - j
  OBVIOUS
<1>5. \A i \in on : i <= j
  <2> SUFFICES ASSUME NEW i \in on PROVE i <= j
    OBVIOUS
  <2>1. k - i \in T /\ i \in Nat /\ j \in Nat
    OBVIOUS
  <2> HIDE DEF T
  <2> QED BY <1>3, <1>4, <2>1
<1> QED BY <1>5 DEF LastOf

(* It is the one that is not less than any.                                 *)
LEMMA LastIs ==
    ASSUME NEW k \in Nat, NEW on \in SUBSET (1..(k - 1)), NEW j \in on, \A i \in on : i <= j
    PROVE  LastOf(on) = j
<1>1. LastOf(on) \in on /\ j <= LastOf(on)
  BY LastExists
<1> DEFINE last == LastOf(on)
<1>2. last \in on /\ j <= last
  BY <1>1
<1> HIDE DEF last
<1>3. last <= j /\ last \in Int /\ j \in Int
  BY <1>2
<1>4. last = j
  BY <1>2, <1>3
<1> QED BY <1>4 DEF last

LEMMA BeforeType ==
    ASSUME NEW p, NEW k, NEW l
    PROVE  Before(p, k, l) \in SUBSET (1..(k - 1))
BY DEF Before

(* The first command meets the network as it was set up.                    *)
LEMMA AsPlannedFirst ==
    ASSUME NEW p, NEW dropped, NEW n, NEW l, n[l] = NoDelay
    PROVE  AsPlanned(p, dropped, 1, n, l)
<1>1. Before(p, 1, l) = {}
  BY DEF Before
<1> QED BY <1>1 DEF AsPlanned, GovernsBy, RuleBy

(* Between a and b the only commands for the link were dropped.             *)
LEMMA AsPlannedSkip ==
    ASSUME NEW p, NEW dropped, NEW a \in Nat, NEW b \in Nat, a <= b, NEW n, NEW l,
           \A j \in 1..(b - 1) : l \in p[j].links => j < a \/ j \in dropped,
           AsPlanned(p, dropped, a, n, l)
    PROVE  AsPlanned(p, dropped, b, n, l)
<1>1. CASE \A j \in Before(p, b, l) : j < a
  <2>1. Before(p, b, l) = Before(p, a, l)
    BY <1>1 DEF Before
  <2> QED BY <2>1 DEF AsPlanned, GovernsBy
<1>2. ASSUME NEW j \in Before(p, b, l), ~(j < a)
      PROVE  AsPlanned(p, dropped, b, n, l)
  <2> DEFINE on == Before(p, b, l)
  <2>1. on \in SUBSET (1..(b - 1)) /\ on # {}
    BY <1>2, BeforeType
  <2> HIDE DEF on
  <2>2. LastOf(on) \in on /\ j <= LastOf(on)
    BY <1>2, <2>1, LastExists DEF on
  <2>3. LastOf(on) \in 1..(b - 1) /\ l \in p[LastOf(on)].links /\ j \in 1..(b - 1)
    BY <1>2, <2>2 DEF on, Before
  <2>4. LastOf(on) \in dropped
    BY <1>2, <2>2, <2>3
  <2> QED BY <2>1, <2>4 DEF AsPlanned, GovernsBy, on
<1> QED BY <1>1, <1>2

(* What command k makes of the network.                                     *)
LEMMA AsPlannedNext ==
    ASSUME NEW p, NEW dropped, NEW k \in Nat, k >= 1, NEW n, NEW l,
           IF l \in p[k].links THEN k \in dropped \/ n[l] = Meaning(p[k].line).rule
           ELSE AsPlanned(p, dropped, k, n, l)
    PROVE  AsPlanned(p, dropped, k + 1, n, l)
<1>1. CASE l \in p[k].links
  <2> DEFINE on == Before(p, k + 1, l)
  <2>1. k \in on /\ on \in SUBSET (1..((k + 1) - 1)) /\ (\A i \in on : i <= k)
    BY <1>1 DEF Before
  <2> HIDE DEF on
  <2>2. LastOf(on) = k
    BY <2>1, LastIs
  <2>3. GovernsBy(p, k + 1, l) = k
    BY <2>1, <2>2 DEF GovernsBy, on
  <2> QED BY <1>1, <2>3 DEF AsPlanned, RuleBy
<1>2. CASE l \notin p[k].links
  <2>1. \A j \in 1..((k + 1) - 1) : l \in p[j].links => j < k
    BY <1>2
  <2> QED BY <1>2, <2>1, AsPlannedSkip
<1> QED BY <1>1, <1>2

LEMMA AsPlannedGrows ==
    ASSUME NEW p, NEW dropped, NEW more, dropped \subseteq more, NEW k, NEW n, NEW l,
           AsPlanned(p, dropped, k, n, l)
    PROVE  AsPlanned(p, more, k, n, l)
BY DEF AsPlanned

(* The first command to be executed is the least of those that wait.        *)
LEMMA LeastWaits ==
    ASSUME NEW q \in Seq(Command), q # <<>>, NEW p \in Nat, Queue(q, p), q[1].stage = "execute",
           NEW j, Waiting(q, j)
    PROVE  q[1].no <= j
<1>1. PICK i \in DOMAIN q : q[i].no = j /\ q[i].stage = "execute"
  BY DEF Waiting
<1>2. /\ Len(q) \in Nat /\ DOMAIN q = 1..Len(q) /\ 1 \in DOMAIN q
      /\ q[1].no \in Nat /\ q[i].no \in Nat
  BY TailFacts, NumberTypes, ElementOfSeq
<1>3. CASE i = 1
  BY <1>1, <1>2, <1>3
<1>4. CASE i # 1
  <2>1. InOrder(q[1], q[i])
    BY <1>2, <1>4 DEF Queue
  <2> QED BY <1>1, <1>2, <2>1 DEF InOrder
<1> QED BY <1>3, <1>4

RowsAsPlanned(csv, p, dropped) ==
    \A i \in DOMAIN csv : \A l \in Link : AsPlanned(p, dropped, csv[i].no, csv[i].net, l)

LEMMA MeasuredRows == MeasuredAsPlanned <=> RowsAsPlanned(rows, plan, swallowed)
<1>1. ASSUME NEW k, NEW l
      PROVE  Governs(k, l) = GovernsBy(plan, k, l) /\ Planned(k, l) = RuleBy(plan, GovernsBy(plan, k, l))
  BY DEF Governs, Planned, GovernsBy, RuleBy, Before, LastOf
<1> QED BY <1>1 DEF MeasuredAsPlanned, RowsAsPlanned, AsPlanned

(* What a step has to show for the invariant.                               *)
LEMMA MeasureNext ==
    ASSUME Lines' = Lines, rows' \in Seq(Row), RowsAsPlanned(rows', plan', swallowed'),
           AllMarked(commands', plan'), Covered(commands', plan', swallowed'),
           CallsPlanned(commands', plan', rpcs'),
           Meets(commands', plan', swallowed', Network'),
           Makes(commands', plan', swallowed', Network', rpcs')
    PROVE  MeasureInv'
<1>0. \A i : Meaning(i)' = Meaning(i)
  BY DEF Meaning
<1>1. MeasuredAsPlanned'
  <2>1. RowsAsPlanned(rows, plan, swallowed)'
    BY <1>0 DEF RowsAsPlanned, AsPlanned, RuleBy
  <2>2. (MeasuredAsPlanned <=> RowsAsPlanned(rows, plan, swallowed))'
    BY MeasuredRows, PTL
  <2> QED BY <2>1, <2>2
<1>2. AllMarked(commands, plan)' /\ Covered(commands, plan, swallowed)' /\ CallsPlanned(commands, plan, rpcs)'
  BY <1>0 DEF AllMarked, Marked, Covered, Waiting, Reached, CallsPlanned
<1>3. Meets(commands, plan, swallowed, Network)' /\ Makes(commands, plan, swallowed, Network, rpcs)'
  BY <1>0 DEF Meets, Makes, AsPlanned, RuleBy
<1> QED BY <1>1, <1>2, <1>3 DEF MeasureInv

(* The rows already written, when the plan is as it was.                    *)
LEMMA RowsKept ==
    ASSUME MeasuredAsPlanned, NEW more, swallowed \subseteq more
    PROVE  RowsAsPlanned(rows, plan, more)
<1>1. RowsAsPlanned(rows, plan, swallowed)
  BY MeasuredRows
<1> QED BY <1>1, AsPlannedGrows DEF RowsAsPlanned

-----------------------------------------------------------------------------
(* The list without its first command.                                      *)
LEMMA StillWaits ==
    ASSUME NEW q \in Seq(Command), q # <<>>, q[1].stage # "execute", NEW r,
           r = Tail(q) \/ \E c \in Command : r = Append(Tail(q), c),
           NEW j, Waiting(q, j)
    PROVE  Waiting(r, j)
<1>1. PICK i \in DOMAIN q : q[i].no = j /\ q[i].stage = "execute"
  BY DEF Waiting
<1>2. Len(q) \in Nat /\ DOMAIN q = 1..Len(q) /\ i \in 1..Len(q) /\ i # 1
  BY <1>1, TailFacts
<1>3. i - 1 \in 1..(Len(q) - 1) /\ i - 1 \in 1..Len(q) /\ (i - 1) + 1 = i
  BY <1>2
<1>4. CASE r = Tail(q)
  <2>1. i - 1 \in DOMAIN r /\ r[i - 1] = q[(i - 1) + 1]
    BY <1>3, <1>4, TailFacts
  <2> QED BY <1>1, <1>3, <2>1 DEF Waiting
<1>5. ASSUME NEW c \in Command, r = Append(Tail(q), c) PROVE Waiting(r, j)
  <2>1. DOMAIN r = 1..Len(q) /\ r[i - 1] = q[(i - 1) + 1]
    BY <1>3, <1>5, RequeueFacts
  <2>2. i - 1 \in DOMAIN r
    BY <1>3, <2>1
  <2> QED BY <1>1, <1>3, <2>1, <2>2 DEF Waiting
<1> QED BY <1>4, <1>5

(* The new first command was the second, or is the one that was put back.   *)
LEMMA NewFirst ==
    ASSUME NEW q \in Seq(Command), q # <<>>, NEW r, r # <<>>, NEW C \in SUBSET Command,
           r = Tail(q) \/ \E c \in C : r = Append(Tail(q), c)
    PROVE  (2 \in DOMAIN q /\ r[1] = q[2]) \/ r[1] \in C
<1>1. Len(q) \in Nat /\ Len(q) >= 1 /\ DOMAIN q = 1..Len(q)
  BY TailFacts
<1>2. CASE r = Tail(q)
  <2>1. Len(r) = Len(q) - 1 /\ r \in Seq(Command)
    BY <1>2, TailFacts
  <2>2. Len(q) >= 2
    BY <1>1, <2>1, EmptySeq
  <2>3. 1 \in 1..(Len(q) - 1) /\ 1 + 1 = 2 /\ 2 \in DOMAIN q
    BY <1>1, <2>2
  <2>4. r[1] = q[1 + 1]
    BY <1>2, <2>3, TailFacts
  <2> QED BY <2>3, <2>4
<1>3. ASSUME NEW c \in C, r = Append(Tail(q), c)
      PROVE  (2 \in DOMAIN q /\ r[1] = q[2]) \/ r[1] = c
  <2>1. r[Len(q)] = c /\ \A i \in 1..(Len(q) - 1) : r[i] = q[i + 1]
    BY <1>3, RequeueFacts
  <2>2. CASE Len(q) = 1
    BY <2>1, <2>2
  <2>3. CASE Len(q) >= 2
    <3>1. 1 \in 1..(Len(q) - 1) /\ 1 + 1 = 2 /\ 2 \in DOMAIN q
      BY <1>1, <2>3
    <3>2. r[1] = q[1 + 1]
      BY <2>1, <3>1
    <3> QED BY <3>1, <3>2
  <2> QED BY <1>1, <2>2, <2>3
<1> QED BY <1>2, <1>3

LEMMA StillMarked ==
    ASSUME NEW q \in Seq(Command), q # <<>>, NEW r, NEW p, AllMarked(q, p),
           \/ r = Tail(q)
           \/ \E c \in Command : /\ r = Append(Tail(q), c)
                                 /\ c.stage \in {"execute", "executing"} => Marked(c, p)
    PROVE  AllMarked(r, p)
<1>1. Len(q) \in Nat /\ DOMAIN q = 1..Len(q) /\ \A i \in 1..(Len(q) - 1) : i + 1 \in DOMAIN q
  BY TailFacts
<1>2. CASE r = Tail(q)
  <2>1. DOMAIN r = 1..(Len(q) - 1) /\ \A i \in 1..(Len(q) - 1) : r[i] = q[i + 1]
    BY <1>2, TailFacts
  <2> QED BY <1>1, <2>1 DEF AllMarked
<1>3. ASSUME NEW c \in Command, r = Append(Tail(q), c), c.stage \in {"execute", "executing"} => Marked(c, p)
      PROVE  AllMarked(r, p)
  <2>1. /\ DOMAIN r = 1..Len(q) /\ r[Len(q)] = c
        /\ \A i \in 1..(Len(q) - 1) : r[i] = q[i + 1]
    BY <1>3, RequeueFacts
  <2>2. \A i \in 1..Len(q) : i \in 1..(Len(q) - 1) \/ i = Len(q)
    BY <1>1, LastOrBefore
  <2> QED BY <1>1, <1>3, <2>1, <2>2 DEF AllMarked
<1> QED BY <1>2, <1>3

(* A longer plan.                                                           *)
LEMMA MarkedLonger ==
    ASSUME NEW p, NEW longer, Len(p) \in Nat, Len(longer) = Len(p) + 1,
           \A j \in 1..Len(p) : longer[j] = p[j],
           NEW q, AllMarked(q, p)
    PROVE  AllMarked(q, longer)
<1>1. ASSUME NEW c, Marked(c, p) PROVE Marked(c, longer)
  BY <1>1 DEF Marked
<1> QED BY <1>1 DEF AllMarked

-----------------------------------------------------------------------------
(***************************************************************************)
(* The steps of main's loop.                                               *)
(***************************************************************************)

(* A command is checked: nothing has been executed, and the first command   *)
(* to be executed meets the network as it was set up.                       *)
LEMMA CheckedMeasure ==
    ASSUME ExecutorInv, ExecutorInv', MeasureInv, Executing, Current.stage = "check", rows' = rows,
           rpcs' = {}, NEW links \in SUBSET Link, plan' \in Seq(PlanEntry), Len(plan') = Len(plan) + 1,
           plan'[Len(plan) + 1] = [line |-> Current.line, links |-> links],
           \A j \in 1..Len(plan) : plan'[j] = plan[j],
           \/ commands' = Tail(commands) /\ swallowed' = swallowed \cup {Len(plan')}
           \/ /\ swallowed' = swallowed
              /\ \E c \in Command : Requeue(c) /\ c.stage = "execute" /\ c.no = Len(plan') /\ Marked(c, plan')
    PROVE  MeasureInv'
<1> DEFINE q == commands
           r == commands'
<1>1. /\ q \in Seq(Command) /\ q # <<>> /\ q[1].stage = "check" /\ Lines' = Lines /\ Network' = Network
      /\ Len(plan) \in Nat /\ ExecuteInv' /\ r \in Seq(Command) /\ Queue(r, Len(plan'))
      /\ 1 \in DOMAIN q /\ Queue(q, Len(plan)) /\ swallowed \subseteq swallowed'
  BY ExecutingFacts DEF Executing, Current, ExecutorInv, ExecuteInv, ExecutorType
<1>10. \/ r = Tail(q) /\ Len(plan') \in swallowed'
       \/ \E c \in Command : r = Append(Tail(q), c) /\ c.stage = "execute" /\ c.no = Len(plan')
  BY DEF Requeue
<1>2. rows = <<>> /\ \A l \in Link : Network[l] = NoDelay
  BY <1>1 DEF ExecutorInv, CheckedFirst, Executing
<1>3. AllMarked(q, plan) /\ Covered(q, plan, swallowed)
  BY DEF MeasureInv, Executing
<1>4. AllMarked(r, plan')
  <2>1. AllMarked(q, plan')
    BY <1>1, <1>3, MarkedLonger
  <2> QED BY <1>1, <2>1, StillMarked DEF Requeue
<1>5. ASSUME NEW j \in 1..Len(plan'), plan'[j].links # {} PROVE j \in swallowed' \/ Waiting(r, j)
  <2>1. CASE j \in 1..Len(plan)
    <3>1. j \in swallowed \/ Waiting(q, j)
      BY <1>1, <1>3, <1>5, <2>1 DEF Covered, Reached
    <3>2. CASE Waiting(q, j)
      <4>1. r = Tail(q) \/ \E c \in Command : r = Append(Tail(q), c)
        BY <1>10
      <4> HIDE DEF q, r
      <4> QED BY <1>1, <3>2, <4>1, StillWaits
    <3> QED BY <1>1, <3>1, <3>2
  <2>2. CASE j = Len(plan') /\ j \notin swallowed'
    <3>2. PICK c \in Command : r = Append(Tail(q), c) /\ c.stage = "execute" /\ c.no = Len(plan')
      BY <1>10, <2>2
    <3>3. Len(q) \in DOMAIN r /\ r[Len(q)] = c
      BY <1>1, <3>2, TailFacts, RequeueFacts
    <3> QED BY <2>2, <3>2, <3>3 DEF Waiting
  <2> QED BY <1>1, <2>1, <2>2
<1>6. Covered(r, plan', swallowed')
  BY <1>5 DEF Covered
<1>7. Meets(r, plan', swallowed', Network')
  <2> SUFFICES ASSUME r # <<>>, r[1].stage = "execute", NEW l \in Link
               PROVE  AsPlanned(plan', swallowed', r[1].no, Network', l)
    BY DEF Meets
  <2>1. r[1].no \in Nat /\ r[1].no <= Len(plan') /\ Len(plan') \in Nat
    <3>1. 1 \in DOMAIN r /\ r[1].no \in Nat
      BY <1>1, TailFacts, NumberTypes
    <3> QED BY <1>1, <3>1 DEF Queue
  <2>2. \A j \in 1..(r[1].no - 1) : l \in plan'[j].links => j \in swallowed'
    <3> SUFFICES ASSUME NEW j \in 1..(r[1].no - 1), l \in plan'[j].links, j \notin swallowed' PROVE FALSE
      OBVIOUS
    <3>1. Waiting(r, j)
      BY <1>5, <2>1
    <3>2. r[1].no <= j
      BY <1>1, <2>1, <3>1, LeastWaits
    <3> QED BY <2>1, <3>2
  <2>3. r[1].no >= 1
    BY <1>1, <1>4, TailFacts DEF AllMarked, Marked
  <2>4. AsPlanned(plan', swallowed', 1, Network', l)
    BY <1>1, <1>2, AsPlannedFirst
  <2> QED BY <2>1, <2>2, <2>3, <2>4, AsPlannedSkip
<1>8. Makes(r, plan', swallowed', Network', rpcs')
  <2>1. r # <<>> => r[1].stage # "executing"
    <3>1. 2 \in DOMAIN q => q[2].stage # "executing"
      BY <1>1 DEF Queue, InOrder
    <3> DEFINE C == {c \in Command : c.stage = "execute"}
    <3> HIDE DEF q, r
    <3>2. C \in SUBSET Command /\ (r = Tail(q) \/ \E c \in C : r = Append(Tail(q), c))
      BY <1>10
    <3>3. r # <<>> => (2 \in DOMAIN q /\ r[1] = q[2]) \/ r[1] \in C
      BY <1>1, <3>2, NewFirst
    <3> QED BY <3>1, <3>3
  <2> QED BY <2>1 DEF Makes
<1>9. CallsPlanned(r, plan', rpcs')
  BY DEF CallsPlanned
<1>11. rows' \in Seq(Row) /\ RowsAsPlanned(rows', plan', swallowed')
  BY <1>2 DEF MeasureInv, RowsAsPlanned
<1> QED BY <1>1, <1>4, <1>6, <1>7, <1>8, <1>9, <1>11, MeasureNext

(* What holds of a command that is executed.                                *)
LEMMA ExecutedFacts ==
    ASSUME ExecutorInv, MeasureInv, phase = "execute", commands # <<>>,
           Current.stage \in {"execute", "executing"}
    PROVE  /\ Marked(Current, plan) /\ Current.no \in Nat /\ Current.no >= 1 /\ Len(plan) \in Nat
           /\ plan[Current.no].line = Current.line
           /\ CurrentLine.op # "link" => plan[Current.no].links = {}
<1>1. Len(plan) \in Nat /\ 1 \in DOMAIN commands
  BY HeadFacts
<1>2. Marked(Current, plan)
  BY <1>1 DEF MeasureInv, AllMarked, Current
<1> QED BY <1>1, <1>2 DEF Marked, CurrentLine

(* The execution of the first command starts.                               *)
LEMMA StartMeasure ==
    ASSUME ExecutorInv, ExecutorInv', MeasureInv, Executing, Current.stage = "execute",
           commands' = [commands EXCEPT ![1].stage = "executing"], UNCHANGED <<plan, rows, swallowed>>,
           \A c \in rpcs' : CalledLink(c) \in Link => CalledLink(c) \in plan[Current.no].links,
           \A l \in plan[Current.no].links : \E c \in rpcs' : CalledLink(c) = l
    PROVE  MeasureInv'
<1> DEFINE q == commands
           r == commands'
           d == [q[1] EXCEPT !.stage = "executing"]
<1>1. /\ q \in Seq(Command) /\ q # <<>> /\ q[1].stage = "execute" /\ Lines' = Lines /\ Network' = Network
      /\ Len(plan) \in Nat /\ 1 \in DOMAIN q /\ q[1] = Current /\ DOMAIN q = 1..Len(q) /\ q[1] \in Command
  BY ExecutingFacts DEF Executing, Current
<1>2. Marked(q[1], plan) /\ q[1].no \in Nat
  BY <1>1, ExecutedFacts DEF Executing
<1>3. d \in Command /\ d.stage = "executing" /\ d.no = q[1].no /\ d.line = q[1].line /\ Marked(d, plan)
  <2>1. CASE q[1] \in LinkCommand
    <3>1. /\ d \in LinkCommand /\ d.stage = "executing" /\ d.no = q[1].no /\ d.line = q[1].line
          /\ d.sources = q[1].sources /\ d.targets = q[1].targets
      BY <2>1 DEF LinkCommand, Stage
    <3> HIDE DEF d
    <3> QED BY <1>2, <3>1 DEF Marked, Command
  <2>2. CASE q[1] \in [no : Nat, line : Nat, stage : Stage] /\ q[1] \notin LinkCommand
    <3>1. /\ d \in [no : Nat, line : Nat, stage : Stage] /\ d.stage = "executing"
          /\ d.no = q[1].no /\ d.line = q[1].line
      BY <2>2 DEF Stage
    <3> HIDE DEF d
    <3> QED BY <1>2, <2>2, <3>1 DEF Marked, Command
  <2> QED BY <1>1, <2>1, <2>2 DEF Command
<1>4. r = [q EXCEPT ![1] = d]
  OBVIOUS
<1> HIDE DEF q, r, d
<1>5. /\ r \in Seq(Command) /\ DOMAIN r = DOMAIN q /\ r[1] = d /\ r # <<>>
      /\ \A i \in DOMAIN q : i # 1 => r[i] = q[i]
  BY <1>1, <1>3, <1>4, SeqReplaced
<1>6. AllMarked(q, plan) /\ Covered(q, plan, swallowed)
  BY DEF MeasureInv, Executing, q
<1>7. AllMarked(r, plan)
  BY <1>3, <1>5, <1>6 DEF AllMarked
<1>8. Covered(r, plan, swallowed)
  <2> SUFFICES ASSUME NEW j \in 1..Len(plan), plan[j].links # {}, j \notin swallowed
               PROVE  Waiting(r, j) \/ Reached(r, j)
    BY DEF Covered
  <2>1. CASE Reached(q, j)
    BY <1>1, <1>3, <1>5, <2>1 DEF Reached
  <2>2. CASE Waiting(q, j)
    <3>1. PICK i \in DOMAIN q : q[i].no = j /\ q[i].stage = "execute"
      BY <2>2 DEF Waiting
    <3>2. CASE i = 1
      BY <1>2, <1>3, <1>5, <3>1, <3>2 DEF Reached
    <3>3. CASE i # 1
      BY <1>5, <3>1, <3>3 DEF Waiting
    <3> QED BY <3>2, <3>3
  <2> QED BY <1>6, <2>1, <2>2 DEF Covered
<1>9. CallsPlanned(r, plan, rpcs')
  BY <1>1, <1>3, <1>5 DEF CallsPlanned
<1>10. Meets(r, plan, swallowed, Network)
  BY <1>3, <1>5 DEF Meets
<1>11. Makes(r, plan, swallowed, Network, rpcs')
  <2>1. \A l \in Link : AsPlanned(plan, swallowed, q[1].no, Network, l)
    BY <1>1 DEF MeasureInv, Executing, Meets, q
  <2> QED BY <1>1, <1>3, <1>5, <2>1 DEF Makes
<1>12. rows' \in Seq(Row) /\ RowsAsPlanned(rows', plan', swallowed')
  BY RowsKept DEF MeasureInv
<1> QED BY <1>1, <1>7, <1>8, <1>9, <1>10, <1>11, <1>12, MeasureNext DEF r

LEMMA StartLinkMeasure ==
    ASSUME ExecutorInv, ExecutorInv', MeasureInv, CommandStep, StartLink
    PROVE  MeasureInv'
<1>1. Executing /\ Current.stage = "execute" /\ CurrentLine.op = "link"
  BY StepFacts DEF Executing, Kept, StartLink
<1>2. /\ Current \in LinkCommand
      /\ plan[Current.no].links = LinksOf(Current.sources, Current.targets, CurrentLine.bidirectional)
  BY <1>1, ExecutedFacts DEF Executing, Marked, CurrentLine
<1> DEFINE S == Current.sources
           T == Current.targets
           both == CurrentLine.bidirectional
<1>3. rpcs' = ModifyConnections(S, T, both)
  BY DEF StartLink
<1> HIDE DEF S, T, both
<1>4. ASSUME NEW c \in ModifyConnections(S, T, both), CalledLink(c) \in Link
      PROVE  CalledLink(c) \in LinksOf(S, T, both)
  <2>1. c[1] \in S /\ c[2] \in T /\ c[3] \in {1, 2} /\ (c[3] = 2 => both)
    BY DEF ModifyConnections
  <2>2. CASE c[3] = 1
    BY <1>4, <2>1, <2>2 DEF CalledLink, LinksOf
  <2>3. CASE c[3] = 2
    BY <1>4, <2>1, <2>3 DEF CalledLink, LinksOf
  <2> QED BY <2>1, <2>2, <2>3
<1>5. ASSUME NEW l \in LinksOf(S, T, both)
      PROVE  \E c \in ModifyConnections(S, T, both) : CalledLink(c) = l
  <2>1. l \in Link /\ l[1] # l[2] /\ l = <<l[1], l[2]>>
    BY SizeFacts DEF LinksOf
  <2>2. CASE l[1] \in S /\ l[2] \in T
    <3>1. <<l[1], l[2], 1>> \in ModifyConnections(S, T, both)
      BY <2>1, <2>2 DEF ModifyConnections
    <3>2. CalledLink(<<l[1], l[2], 1>>) = l
      BY <2>1 DEF CalledLink
    <3> QED BY <3>1, <3>2
  <2>3. CASE both /\ l[2] \in S /\ l[1] \in T
    <3>1. <<l[2], l[1], 2>> \in ModifyConnections(S, T, both)
      BY <2>1, <2>3 DEF ModifyConnections
    <3>2. CalledLink(<<l[2], l[1], 2>>) = l
      BY <2>1 DEF CalledLink
    <3> QED BY <3>1, <3>2
  <2> QED BY <2>2, <2>3 DEF LinksOf
<1> QED BY <1>1, <1>2, <1>3, <1>4, <1>5, StartMeasure DEF StartLink, S, T, both

LEMMA CallRunMeasure ==
    ASSUME ExecutorInv, ExecutorInv', MeasureInv, CommandStep, CallRun
    PROVE  MeasureInv'
<1>1. /\ Executing /\ Current.stage = "execute" /\ CurrentLine.op = "run" /\ rpcs = {}
      /\ UNCHANGED <<plan, rows, swallowed, rpcs>>
  BY StepFacts DEF Executing, Kept, CallRun
<1>2. plan[Current.no].links = {}
  BY <1>1, ExecutedFacts DEF Executing
<1> QED BY <1>1, <1>2, StartMeasure DEF CallRun

(* One of its calls is made.                                                *)
LEMMA ModifyMeasure ==
    ASSUME ExecutorInv, ExecutorInv', MeasureInv, CommandStep, ModifyConnection, phase' = "execute"
    PROVE  MeasureInv'
<1>1. /\ phase = "execute" /\ commands # <<>> /\ Current.stage = "executing"
      /\ UNCHANGED <<file, mode, rows>> /\ ExecutorType /\ ExecuteInv /\ Current.line \in 1..Len(Lines)
  BY StepFacts DEF ModifyConnection
<1>2. PICK c \in rpcs :
         /\ CalledLink(c) \in Link
         /\ tc' = [tc EXCEPT ![Interface(mode, CalledLink(c)[1])] =
                      ModifyOutgoingConnection(@, CalledLink(c), CurrentLine.rule)]
         /\ rpcs' = rpcs \ {c}
         /\ UNCHANGED <<commands, plan, swallowed>>
  BY DEF ModifyConnection, ModifyOk, RaiseTestException
<1> DEFINE l == CalledLink(c)
<1>3. CurrentLine.op = "link" /\ CurrentLine.rule \in Rule
  BY <1>1, <1>2, CurrentLineFacts DEF ExecuteInv
<1>4. \A k \in Link : Network'[k] = IF k = l THEN CurrentLine.rule ELSE Network[k]
  BY <1>1, <1>2, <1>3, ModifiedNetwork
<1>5. l \in plan[Current.no].links
  BY <1>1, <1>2 DEF MeasureInv, CallsPlanned, Current
<1>6. Lines' = Lines
  BY <1>1 DEF Lines
<1>7. AllMarked(commands, plan) /\ Covered(commands, plan, swallowed) /\ CallsPlanned(commands, plan, rpcs')
  BY <1>1, <1>2 DEF MeasureInv, CallsPlanned
<1>8. Meets(commands, plan, swallowed, Network')
  BY <1>1 DEF Meets, Current
<1>9. Makes(commands, plan, swallowed, Network', rpcs')
  <2> SUFFICES ASSUME NEW k \in Link
               PROVE  IF k \in plan[Current.no].links
                      THEN Network'[k] = CurrentLine.rule \/ \E d \in rpcs' : CalledLink(d) = k
                      ELSE AsPlanned(plan, swallowed, Current.no, Network', k)
    BY DEF Makes, Current, CurrentLine
  <2>1. IF k \in plan[Current.no].links
        THEN Network[k] = CurrentLine.rule \/ \E d \in rpcs : CalledLink(d) = k
        ELSE AsPlanned(plan, swallowed, Current.no, Network, k)
    BY <1>1 DEF MeasureInv, Makes, Current, CurrentLine
  <2>2. CASE k = l
    BY <1>4, <1>5, <2>2
  <2>3. CASE k # l
    BY <1>2, <1>4, <2>1, <2>3 DEF AsPlanned
  <2> QED BY <2>2, <2>3
<1>10. rows' \in Seq(Row) /\ RowsAsPlanned(rows', plan', swallowed')
  BY <1>1, <1>2, RowsKept DEF MeasureInv
<1> QED BY <1>1, <1>2, <1>6, <1>7, <1>8, <1>9, <1>10, MeasureNext

(* The first command has been executed, or dropped: the one behind it meets *)
(* what it has made of the network: what is between the two was dropped or is*)
(* for no link.                                                             *)
LEMMA AdvanceMeasure ==
    ASSUME ExecutorInv, ExecutorInv', MeasureInv, Executing, Current.stage \in {"executing", "spent"},
           plan' = plan, rpcs' = {}, swallowed \subseteq swallowed', rows' \in Seq(Row),
           \/ commands' = Tail(commands)
           \/ \E c \in Command : Requeue(c) /\ c.stage = "spent",
           Current.no \in swallowed' \/ plan[Current.no].links = {} \/ rpcs = {},
           RowsAsPlanned(rows', plan, swallowed')
    PROVE  MeasureInv'
<1> DEFINE q == commands
           r == commands'
<1>1. /\ q \in Seq(Command) /\ q # <<>> /\ q[1] = Current /\ Lines' = Lines /\ Network' = Network
      /\ Len(plan) \in Nat /\ 1 \in DOMAIN q /\ DOMAIN q = 1..Len(q) /\ q[1].no \in Nat
      /\ Queue(q, Len(plan)) /\ r \in Seq(Command) /\ Queue(r, Len(plan))
  BY ExecutingFacts, NumberTypes DEF Executing, Current, ExecutorInv, ExecuteInv, ExecutorType
<1>2. r = Tail(q) \/ \E c \in Command : r = Append(Tail(q), c) /\ c.stage = "spent"
  BY DEF Requeue
<1>3. AllMarked(q, plan) /\ Covered(q, plan, swallowed)
  BY DEF MeasureInv, Executing
<1> HIDE DEF q, r
<1>4. AllMarked(r, plan)
  BY <1>1, <1>2, <1>3, StillMarked
<1>5. 2 \in DOMAIN q => InOrder(q[1], q[2]) /\ q[2].no \in Nat
  <2>1. ASSUME 2 \in DOMAIN q PROVE q[2] \in Command
    BY <1>1, <2>1, ElementOfSeq
  <2> QED BY <1>1, <2>1, NumberTypes DEF Queue
<1>6. \/ r = <<>> \/ r[1].stage = "spent"
      \/ /\ q[1].stage = "executing" /\ r[1].stage = "execute" /\ r[1].no \in Nat
         /\ q[1].no < r[1].no
  <2> DEFINE C == {c \in Command : c.stage = "spent"}
  <2>1. C \in SUBSET Command /\ (r = Tail(q) \/ \E c \in C : r = Append(Tail(q), c))
    BY <1>2
  <2>2. r # <<>> => (2 \in DOMAIN q /\ r[1] = q[2]) \/ r[1] \in C
    BY <1>1, <2>1, NewFirst
  <2> QED BY <1>1, <1>5, <2>2 DEF InOrder
<1>7. ASSUME NEW j \in 1..Len(plan), plan[j].links # {}, j \notin swallowed'
      PROVE  Waiting(r, j) \/ r = <<>> \/ r[1].stage = "spent" \/ j <= q[1].no
  <2>1. CASE Waiting(q, j)
    BY <1>1, <1>2, <2>1, StillWaits
  <2>2. CASE Reached(q, j)
    <3>1. CASE q[1].stage = "spent"
      BY <1>6, <3>1
    <3>2. CASE q[1].stage # "spent"
      BY <1>1, <2>2, <3>2 DEF Reached
    <3> QED BY <3>1, <3>2
  <2> QED BY <1>3, <1>7, <2>1, <2>2 DEF Covered
<1>8. Covered(r, plan, swallowed')
  <2> SUFFICES ASSUME NEW j \in 1..Len(plan), plan[j].links # {}, j \notin swallowed'
               PROVE  Waiting(r, j) \/ Reached(r, j)
    BY DEF Covered
  <2>1. Waiting(r, j) \/ r = <<>> \/ r[1].stage = "spent" \/ j <= q[1].no
    BY <1>7
  <2>2. CASE j <= q[1].no /\ r[1].stage = "execute" /\ r[1].no \in Nat /\ q[1].no < r[1].no
    <3>1. j \in Nat /\ j <= r[1].no
      BY <1>1, <2>2
    <3> QED BY <2>2, <3>1 DEF Reached
  <2> QED BY <1>6, <2>1, <2>2 DEF Reached
<1>9. Makes(r, plan, swallowed', Network, rpcs')
  BY <1>6 DEF Makes
<1>10. Meets(r, plan, swallowed', Network)
  <2> SUFFICES ASSUME r # <<>>, r[1].stage = "execute", NEW l \in Link
               PROVE  AsPlanned(plan, swallowed', r[1].no, Network, l)
    BY DEF Meets
  <2> DEFINE k == q[1].no
             n == r[1].no
  <2>1. q[1].stage = "executing" /\ n \in Nat /\ k \in Nat /\ k + 1 <= n
    BY <1>1, <1>6
  <2>2. k >= 1 /\ plan[k].line = q[1].line
    BY <1>1, <2>1, ExecutedFacts DEF Executing, q
  <2>3. n <= Len(plan)
    BY <1>1, <2>1, TailFacts DEF Queue
  <2>4. IF l \in plan[k].links THEN k \in swallowed' \/ Network[l] = Meaning(plan[k].line).rule
        ELSE AsPlanned(plan, swallowed', k, Network, l)
    <3>1. k \in swallowed' \/ plan[k].links = {} \/ rpcs = {}
      BY <1>1
    <3>2. Makes(q, plan, swallowed, Network, rpcs)
      BY DEF MeasureInv, Executing, q
    <3> HIDE DEF k, n
    <3>3. IF l \in plan[k].links THEN Network[l] = Meaning(q[1].line).rule \/ \E c \in rpcs : CalledLink(c) = l
          ELSE AsPlanned(plan, swallowed, k, Network, l)
      BY <1>1, <2>1, <3>2 DEF Makes, k
    <3>4. CASE l \in plan[k].links
      BY <2>2, <3>1, <3>3, <3>4
    <3>5. CASE l \notin plan[k].links
      BY <3>3, <3>5, AsPlannedGrows
    <3> QED BY <3>4, <3>5
  <2>5. \A j \in 1..(n - 1) : l \in plan[j].links => j < k + 1 \/ j \in swallowed'
    <3> SUFFICES ASSUME NEW j \in 1..(n - 1), l \in plan[j].links, ~(j < k + 1), j \notin swallowed'
                 PROVE  FALSE
      OBVIOUS
    <3>1. j \in 1..Len(plan)
      BY <1>1, <2>1, <2>3
    <3>2. Waiting(r, j)
      BY <1>7, <2>1, <3>1
    <3>3. n <= j
      BY <1>1, <3>2, LeastWaits
    <3> QED BY <2>1, <3>3
  <2> HIDE DEF k, n
  <2>6. AsPlanned(plan, swallowed', k + 1, Network, l)
    BY <2>1, <2>2, <2>4, AsPlannedNext
  <2>7. AsPlanned(plan, swallowed', n, Network, l)
    BY <2>1, <2>5, <2>6, AsPlannedSkip
  <2> QED BY <2>7 DEF n
<1>11. CallsPlanned(r, plan, rpcs')
  BY DEF CallsPlanned
<1> QED BY <1>1, <1>4, <1>8, <1>9, <1>10, <1>11, MeasureNext DEF r

(* An exception drops the command.                                          *)
LEMMA SwallowMeasure ==
    ASSUME ExecutorInv, ExecutorInv', MeasureInv, CommandStep, Swallow, UNCHANGED <<tc, rows>>, rpcs' = {},
           \/ Current.stage = "check" /\ \E links \in SUBSET Link : PlannedFor(links)
           \/ Current.stage = "executing" /\ plan' = plan
    PROVE  MeasureInv'
<1>1. Executing /\ commands' = Tail(commands) /\ swallowed' = swallowed \cup {Current.no}
  BY StepFacts DEF Executing, Kept, Swallow
<1>2. ASSUME Current.stage = "check", NEW links \in SUBSET Link, PlannedFor(links)
      PROVE  MeasureInv'
  <2>1. Current.no = Len(plan) + 1
    BY <1>2, StepFacts, HeadFacts DEF ExecuteInv, Queue, Current
  <2>2. /\ plan' \in Seq(PlanEntry) /\ Len(plan') = Len(plan) + 1
        /\ plan'[Len(plan) + 1] = [line |-> Current.line, links |-> links]
        /\ \A j \in 1..Len(plan) : plan'[j] = plan[j]
    BY <1>2, PlannedFacts
  <2>3. commands' = Tail(commands) /\ swallowed' = swallowed \cup {Len(plan')}
    BY <1>1, <2>1, <2>2
  <2> QED BY <1>1, <1>2, <2>2, <2>3, CheckedMeasure
<1>3. CASE Current.stage = "executing" /\ plan' = plan
  <2>1. MeasuredAsPlanned /\ rows' \in Seq(Row) /\ swallowed \subseteq swallowed'
    BY <1>1 DEF MeasureInv
  <2>2. RowsAsPlanned(rows', plan, swallowed')
    BY <2>1, RowsKept
  <2> QED BY <1>1, <1>3, <2>1, <2>2, AdvanceMeasure
<1> QED BY <1>2, <1>3

LEMMA CheckLinkMeasure ==
    ASSUME ExecutorInv, ExecutorInv', MeasureInv, CommandStep, CheckLink, phase' = "execute"
    PROVE  MeasureInv'
<1>1. Current.stage = "check" /\ CurrentLine.op = "link" /\ rpcs = {} /\ UNCHANGED <<rpcs, rows, tc>>
  BY StepFacts DEF CheckLink
<1>2. CASE Swallow /\ \E links \in SUBSET Link : PlannedFor(links)
  BY <1>1, <1>2, SwallowMeasure
<1>3. ASSUME NEW c \in LinkCommand,
             c.no = Current.no, c.line = Current.line, c.stage = "execute", Requeue(c), UNCHANGED swallowed,
             PlannedFor(LinksOf(c.sources, c.targets, CurrentLine.bidirectional))
      PROVE  MeasureInv'
  <2> DEFINE links == LinksOf(c.sources, c.targets, CurrentLine.bidirectional)
  <2>1. links \in SUBSET Link
    BY DEF LinksOf
  <2>2. /\ plan' \in Seq(PlanEntry) /\ Len(plan') = Len(plan) + 1 /\ Len(plan) \in Nat
        /\ plan'[Len(plan) + 1] = [line |-> Current.line, links |-> links]
        /\ \A j \in 1..Len(plan) : plan'[j] = plan[j]
    BY <1>3, <2>1, StepFacts, PlannedFacts
  <2>3. c.no = Len(plan')
    BY <1>1, <1>3, <2>2, StepFacts, HeadFacts DEF ExecuteInv, Queue, Current
  <2>4. Marked(c, plan')
    <3>1. plan'[c.no].line = c.line /\ plan'[c.no].links = links /\ c.no \in 1..Len(plan')
      BY <1>3, <2>2, <2>3
    <3> QED BY <1>1, <1>3, <3>1 DEF Marked, CurrentLine
  <2>5. Executing /\ c \in Command
    BY <1>1, <1>3, StepFacts DEF Executing, Kept, Command
  <2> HIDE DEF links
  <2> QED BY <1>1, <1>3, <2>1, <2>2, <2>3, <2>4, <2>5, CheckedMeasure
<1>4. ~RaiseTestException
  BY DEF RaiseTestException
<1> QED BY <1>2, <1>3, <1>4, CheckLinkCases

LEMMA CheckRunMeasure ==
    ASSUME ExecutorInv, ExecutorInv', MeasureInv, CommandStep, CheckRun
    PROVE  MeasureInv'
<1>1. /\ Current.stage = "check" /\ CurrentLine.op = "run" /\ rpcs = {} /\ PlannedFor({})
      /\ UNCHANGED <<phase, rpcs, rows, swallowed, tc>>
  BY StepFacts DEF CheckRun
<1> DEFINE c == [Current EXCEPT !.stage = "execute"]
<1>2. c \in Command /\ c.stage = "execute" /\ c.no = Current.no /\ c.line = Current.line /\ Requeue(c)
  BY StepFacts DEF CheckRun, Stage
<1> HIDE DEF c
<1>3. {} \in SUBSET Link
  OBVIOUS
<1>4. /\ plan' \in Seq(PlanEntry) /\ Len(plan') = Len(plan) + 1 /\ Len(plan) \in Nat
      /\ plan'[Len(plan) + 1] = [line |-> Current.line, links |-> {}]
      /\ \A j \in 1..Len(plan) : plan'[j] = plan[j]
  BY <1>1, <1>3, StepFacts, PlannedFacts
<1>5. c.no = Len(plan')
  BY <1>1, <1>2, <1>4, StepFacts, HeadFacts DEF ExecuteInv, Queue, Current
<1>6. Marked(c, plan')
  <2>1. plan'[c.no].line = c.line /\ plan'[c.no].links = {} /\ c.no \in 1..Len(plan')
    BY <1>2, <1>4, <1>5
  <2> QED BY <1>1, <1>2, <2>1 DEF Marked, CurrentLine
<1>7. Executing
  BY <1>1, StepFacts DEF Executing, Kept
<1> QED BY <1>1, <1>2, <1>3, <1>4, <1>5, <1>6, <1>7, CheckedMeasure

LEMMA EndLinkMeasure ==
    ASSUME ExecutorInv, ExecutorInv', MeasureInv, CommandStep, EndLink
    PROVE  MeasureInv'
<1>1. /\ Current.stage = "executing" /\ rpcs = {} /\ UNCHANGED <<phase, rpcs, rows, plan, swallowed, tc>>
      /\ Requeue([Current EXCEPT !.stage = "spent"])
  BY DEF EndLink
<1>2. \E c \in Command : Requeue(c) /\ c.stage = "spent"
  BY <1>1, StepFacts DEF Stage
<1>3. Executing
  BY <1>1, StepFacts DEF Executing, Kept
<1>4. MeasuredAsPlanned /\ rows' \in Seq(Row) /\ swallowed \subseteq swallowed'
  BY <1>1 DEF MeasureInv
<1>5. RowsAsPlanned(rows', plan, swallowed')
  BY <1>1, <1>4, RowsKept
<1> QED BY <1>1, <1>2, <1>3, <1>4, <1>5, AdvanceMeasure

LEMMA NetworkType ==
    ASSUME ExecutorType
    PROVE  Network \in [Link -> Rule \cup {None}]
<1>1. ASSUME NEW l \in Link PROVE tc[Interface(mode, l[1])].class[l] \in Rule \cup {None}
  BY SizeFacts DEF ExecutorType, Qdisc
<1> QED BY <1>1 DEF Network

(* A run ends: the network it was measured under is the one it met, as a run*)
(* is for no link.                                                          *)
LEMMA EndRunMeasure ==
    ASSUME ExecutorInv, ExecutorInv', MeasureInv, CommandStep, EndRun
    PROVE  MeasureInv'
<1>1. /\ Current.stage = "executing" /\ CurrentLine.op = "run" /\ rpcs = {}
      /\ UNCHANGED <<phase, rpcs, plan, swallowed, tc>>
      /\ Requeue([Current EXCEPT !.stage = "spent"])
  BY StepFacts DEF EndRun
<1>2. \E c \in Command : Requeue(c) /\ c.stage = "spent"
  BY <1>1, StepFacts DEF Stage
<1>3. Executing
  BY <1>1, StepFacts DEF Executing, Kept
<1>4. MeasuredAsPlanned /\ rows \in Seq(Row) /\ swallowed \subseteq swallowed'
  BY <1>1 DEF MeasureInv
<1>5. RowsAsPlanned(rows, plan, swallowed)
  BY <1>4, RowsKept
<1> DEFINE row == [no |-> Current.no, net |-> Network]
<1>6. row \in Row /\ row.no = Current.no /\ row.net = Network /\ rows' = Append(rows, row)
  BY StepFacts, NetworkType DEF EndRun, Row
<1> HIDE DEF row
<1>7. /\ rows' \in Seq(Row) /\ DOMAIN rows' = 1..(Len(rows) + 1) /\ rows'[Len(rows) + 1] = row
      /\ Len(rows) \in Nat /\ DOMAIN rows = 1..Len(rows)
      /\ \A i \in 1..Len(rows) : rows'[i] = rows[i]
  BY <1>4, <1>6, AppendProperties, LenProperties
<1>8. plan[Current.no].links = {}
  BY <1>1, <1>3, ExecutedFacts DEF Executing
<1>9. ASSUME NEW i \in DOMAIN rows', NEW l \in Link
      PROVE  AsPlanned(plan, swallowed, rows'[i].no, rows'[i].net, l)
  <2>1. CASE i = Len(rows) + 1
    <3>1. Makes(commands, plan, swallowed, Network, rpcs)
      BY <1>3 DEF MeasureInv, Executing
    <3>2. AsPlanned(plan, swallowed, Current.no, Network, l)
      BY <1>1, <1>3, <1>8, <3>1 DEF Makes, Executing, Current
    <3> QED BY <1>6, <1>7, <2>1, <3>2
  <2>2. CASE i \in 1..Len(rows)
    <3>1. AsPlanned(plan, swallowed, rows[i].no, rows[i].net, l)
      BY <1>5, <1>7, <2>2 DEF RowsAsPlanned
    <3> QED BY <1>7, <2>2, <3>1
  <2> QED BY <1>7, <2>1, <2>2
<1>10. RowsAsPlanned(rows', plan, swallowed')
  BY <1>1, <1>9 DEF RowsAsPlanned
<1> QED BY <1>1, <1>2, <1>3, <1>7, <1>10, AdvanceMeasure

LEMMA DropSpentMeasure ==
    ASSUME ExecutorInv, ExecutorInv', MeasureInv, CommandStep, DropSpent
    PROVE  MeasureInv'
<1>1. /\ Executing /\ Current.stage = "spent" /\ rpcs' = {} /\ commands' = Tail(commands)
      /\ UNCHANGED <<rows, plan, swallowed>>
  BY StepFacts DEF Executing, Kept, DropSpent
<1>2. MeasuredAsPlanned /\ rows' \in Seq(Row) /\ swallowed \subseteq swallowed'
  BY <1>1 DEF MeasureInv
<1>3. RowsAsPlanned(rows', plan, swallowed')
  BY <1>1, <1>2, RowsKept
<1>4. rpcs = {}
  BY <1>1, StepFacts
<1> QED BY <1>1, <1>2, <1>3, <1>4, AdvanceMeasure

(* Outside main's loop, and when the program ends, the rows stay as they are.*)
LEMMA RowsStay ==
    ASSUME MeasureInv, UNCHANGED <<file, rows, plan, swallowed>>
    PROVE  rows' \in Seq(Row) /\ MeasuredAsPlanned'
<1>1. Lines' = Lines
  BY DEF Lines
<1>2. \A i : Meaning(i)' = Meaning(i)
  BY <1>1 DEF Meaning
<1>3. RowsAsPlanned(rows, plan, swallowed)
  BY MeasuredRows DEF MeasureInv
<1>4. RowsAsPlanned(rows, plan, swallowed)'
  BY <1>2, <1>3 DEF RowsAsPlanned, AsPlanned, RuleBy
<1>5. (MeasuredAsPlanned <=> RowsAsPlanned(rows, plan, swallowed))'
  BY MeasuredRows, PTL
<1> QED BY <1>4, <1>5 DEF MeasureInv

LEMMA CommandStepMeasure ==
    ASSUME ExecutorInv, ExecutorInv', MeasureInv, CommandStep
    PROVE  MeasureInv'
<1>1. CASE phase' # "execute"
  <2>1. UNCHANGED <<file, rows, plan, swallowed>>
    BY <1>1, StepFacts
       DEF CommandStep, CheckLink, CheckRandomLink, CheckRun, StartLink, ModifyConnection, UnknownNode,
           ModifyRaises, EndLink, CallRun, EndRun, DropSpent, RaiseTestException, Swallow
  <2> QED BY <1>1, <2>1, RowsStay DEF MeasureInv
<1>2. CASE phase' = "execute"
  <2>1. CASE CheckRandomLink
    <3>1. \E links \in SUBSET Link : PlannedFor(links)
      BY <2>1, RandomLinksPlanned DEF CheckRandomLink
    <3> QED BY <2>1, <3>1, StepFacts, SwallowMeasure DEF CheckRandomLink
  <2>2. CASE UnknownNode
    BY <2>2, SwallowMeasure DEF UnknownNode
  <2>3. CASE ModifyRaises
    BY <2>3, SwallowMeasure DEF ModifyRaises
  <2> QED BY <1>2, <2>1, <2>2, <2>3, CheckLinkMeasure, CheckRunMeasure, StartLinkMeasure, ModifyMeasure,
             EndLinkMeasure, CallRunMeasure, EndRunMeasure, DropSpentMeasure DEF CommandStep
<1> QED BY <1>1, <1>2

LEMMA OtherStepsMeasure ==
    ASSUME ExecutorInv, ExecutorInv', MeasureInv,
           \/ NetemMaster \/ ParseLine \/ Parsed \/ Done
           \/ UNCHANGED <<tc, executorVars>>
    PROVE  MeasureInv'
<1>1. UNCHANGED <<file, rows, plan, swallowed>>
  BY DEF NetemMaster, ParseLine, Parsed, Done, executorVars
<1>2. CASE phase' # "execute"
  BY <1>1, <1>2, RowsStay DEF MeasureInv
<1>3. CASE phase' = "execute" /\ UNCHANGED <<tc, executorVars>>
  <2>1. UNCHANGED <<tc, file, mode, phase, commands, rpcs, rows, plan, swallowed>>
    BY <1>3 DEF executorVars
  <2>2. Lines' = Lines /\ Network' = Network
    BY <2>1 DEF Lines, Network
  <2>3. phase = "execute"
    BY <1>3, <2>1
  <2>4. RowsAsPlanned(rows', plan', swallowed') /\ rows' \in Seq(Row)
    BY <2>1, RowsKept DEF MeasureInv
  <2>5. /\ AllMarked(commands', plan') /\ Covered(commands', plan', swallowed')
        /\ CallsPlanned(commands', plan', rpcs')
        /\ Meets(commands', plan', swallowed', Network')
        /\ Makes(commands', plan', swallowed', Network', rpcs')
    BY <2>1, <2>2, <2>3 DEF MeasureInv
  <2> QED BY <2>2, <2>4, <2>5, MeasureNext
<1>4. CASE phase' = "execute" /\ Parsed
  <2>1. /\ phase = "parse" /\ UNCHANGED <<tc, file, mode, commands, rpcs>> /\ rows = <<>> /\ plan = <<>>
        /\ rpcs = {} /\ commands \in Seq(Command)
        /\ \A i \in DOMAIN commands : commands[i].stage = "check"
    BY <1>4 DEF Parsed, ExecutorInv, ParserInv, ExecutorType
  <2>2. Lines' = Lines /\ Len(plan) = 0 /\ (commands # <<>> => commands[1].stage = "check")
    <3>1. commands # <<>> => 1 \in DOMAIN commands
      BY <2>1, TailFacts
    <3> QED BY <2>1, <3>1 DEF Lines
  <2>3. /\ AllMarked(commands', plan') /\ Covered(commands', plan', swallowed')
        /\ CallsPlanned(commands', plan', rpcs')
        /\ Meets(commands', plan', swallowed', Network') /\ Makes(commands', plan', swallowed', Network', rpcs')
    BY <1>1, <2>1, <2>2 DEF AllMarked, Covered, CallsPlanned, Meets, Makes
  <2>4. rows' \in Seq(Row) /\ RowsAsPlanned(rows', plan', swallowed')
    BY <1>1, <2>1 DEF RowsAsPlanned
  <2> QED BY <2>2, <2>3, <2>4, MeasureNext
<1>5. phase' = "execute" => Parsed \/ UNCHANGED <<tc, executorVars>>
  BY DEF NetemMaster, CleanNode, InitNode, SetUpRaises, NextNode, ParseLine, SkipLine, SyntaxError, OpenLoop,
         CloseLoop, Repeat, LeaveLoop, AddCommand, Done
<1> QED BY <1>2, <1>3, <1>4, <1>5

(* MeasuredAsPlanned, for every test file: each run is measured with every  *)
(* link as the last of the lines before it that is for the link describes,  *)
(* loops unrolled, unless an exception dropped that very command.           *)
THEOREM RunsMeasuredAsPlanned == Spec => []MeasuredAsPlanned
<1>1. Init => MeasureInv
  BY DEF Init, MeasureInv, MeasuredAsPlanned
<1>2. ASSUME ExecutorInv, ExecutorInv', MeasureInv, [Next]_vars PROVE MeasureInv'
  <2>1. CASE UNCHANGED vars \/ UNCHANGED <<tc, executorVars>>
    BY <1>2, <2>1, OtherStepsMeasure DEF vars
  <2> QED BY <1>2, <2>1, CommandStepMeasure, OtherStepsMeasure DEF Next, ExecutorStep
<1>3. MeasureInv => MeasuredAsPlanned
  BY DEF MeasureInv
<1> QED BY <1>1, <1>2, <1>3, ExecutorInvariant, PTL DEF Spec
=============================================================================
