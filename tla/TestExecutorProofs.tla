------------------------- MODULE TestExecutorProofs -------------------------
(***************************************************************************)
(* Proofs about the executor and the network managers, for every test file,*)
(* every number of nodes, both modes and every number of calls that raise. *)
(***************************************************************************)
EXTENDS TestExecutor, FiniteSetTheorems, SequenceTheorems, TLAPS

Qdisc == [root : BOOLEAN, class : [Link -> Rule \cup {None}]]
Pointer == [start : Nat \ {0}, repetition : Nat]
Stage == {"check", "execute", "executing", "spent"}
PlanEntry == [line : Nat, links : SUBSET Link]
LinkCommand == [no : Nat, line : Nat, stage : Stage, sources : SUBSET Nat, targets : SUBSET Nat]
Command == [no : Nat, line : Nat, stage : Stage] \cup LinkCommand

ExecutorType ==
    /\ file \in TestFile
    /\ tc \in [Host -> Qdisc]
    /\ node \in Host
    /\ phase \in {"clean", "init", "parse", "execute", "done", "aborted"}
    /\ index \in Nat \ {0} /\ doOpen \in Int /\ pointers \in Seq(Pointer)
    /\ commands \in Seq(Command)

Restored == \A l \in Link : Network[l] = NoDelay

(* The set up: the roots of the nodes already visited, then their classes.  *)
SetUpInv ==
    /\ phase = "clean" => \A h \in Host : h < node => tc[Interface(mode, h)] = CreateRootQdisc(NoQdisc)
    /\ phase = "init" =>
          /\ \A h \in Host : tc[Interface(mode, h)].root
          /\ \A l \in Link : Network[l] = IF l[1] < node THEN NoDelay ELSE None
    /\ phase = "parse" => Restored

(* The parser: a "do" is never the last line, so it is the reset at the end *)
(* of the file that takes the index past it.                                *)
ParserInv ==
    /\ phase \in {"clean", "init"} => index = 1 /\ commands = <<>> /\ pointers = <<>> /\ doOpen = 0
    /\ phase \in {"clean", "init", "parse"} => rows = <<>> /\ plan = <<>> /\ rpcs = {}
    /\ phase = "parse" =>
          /\ \A i \in DOMAIN commands : /\ commands[i].no = i /\ commands[i].stage = "check"
                                        /\ commands[i].line \in 1..Len(Lines)
          /\ index <= Len(Lines) + 1
          /\ index = Len(Lines) + 1 => commands # <<>> /\ commands[Len(commands)].line = Len(Lines)
          /\ doOpen <= Len(pointers)
          /\ \A i \in DOMAIN pointers : pointers[i].start < Len(Lines)

(* The list of commands, a before b: those to be checked, then those to be  *)
(* executed; or the one being executed, those to be executed, the spent.    *)
InOrder(a, b) ==
    /\ a.stage = "check" => b.stage \in {"check", "execute"}
    /\ a.stage \in {"execute", "executing"} => b.stage \in {"execute", "spent"}
    /\ a.stage = "spent" => b.stage = "spent"
    /\ a.stage = "check" /\ b.stage = "execute" => b.no < a.no
    /\ a.stage \in {"execute", "executing"} /\ b.stage = "execute" => a.no < b.no

Queue(q, planned) ==
    /\ \A i, j \in DOMAIN q : i < j => InOrder(q[i], q[j])
    /\ \A i \in DOMAIN q : IF q[i].stage = "check" THEN q[i].no = planned + i ELSE q[i].no <= planned

(* The last line, the reset, is still to be executed, after all the others. *)
FinalAt(q, i, planned) ==
    /\ q[i].line = Len(Lines) /\ q[i].stage # "spent"
    /\ \A j \in DOMAIN q : q[j].stage # "spent" => q[j].no <= q[i].no
    /\ q[i].stage # "check" => q[i].no = planned /\ \A j \in DOMAIN q : q[j].stage # "check"

(* It is, or it has been executed, or it was dropped.                       *)
ResetInv ==
    \/ \E i \in DOMAIN commands : FinalAt(commands, i, Len(plan))
    \/ Restored /\ \A j \in DOMAIN commands : commands[j].stage = "spent"
    \/ Len(plan) \in swallowed /\ \A j \in DOMAIN commands : commands[j].stage # "check"

Everywhere(c) == c \in LinkCommand /\ c.sources = Host /\ c.targets = Host

ExecuteInv ==
    /\ plan \in Seq(PlanEntry)
    /\ Queue(commands, Len(plan))
    /\ \A i \in DOMAIN commands :
          /\ commands[i].line \in 1..Len(Lines)
          /\ commands[i].stage \in {"execute", "executing"} /\ commands[i].line = Len(Lines) =>
                Everywhere(commands[i])
    /\ rpcs # {} => commands # <<>> /\ Current.stage = "executing" /\ CurrentLine.op = "link"
    /\ commands # <<>> /\ Current.stage = "executing" /\ Current.line = Len(Lines) =>
          \A l \in Link : Network[l] = NoDelay \/ <<l[1], l[2], 1>> \in rpcs
    /\ ResetInv

ExecutorInv ==
    /\ ExecutorType
    /\ SetUpInv
    /\ ParserInv
    /\ phase = "execute" => ExecuteInv
    /\ CheckedFirst
    /\ NetworkRestored

-----------------------------------------------------------------------------
LEMMA SizeFacts ==
    /\ Size \in Nat /\ Size >= 1 /\ Host = 1..Size /\ Host \subseteq Nat
    /\ \A h \in Host : Interface(mode, h) \in Host
    /\ \A l \in Link : l[1] \in Host /\ l[2] \in Host /\ l[1] # l[2] /\ l = <<l[1], l[2]>>
<1>1. Size \in Nat /\ Host = 1..Size
  BY HostAssumption, FS_CardinalityType DEF Size
<1>2. Size >= 1
  BY <1>1, HostAssumption
<1> QED BY <1>1, <1>2 DEF Interface, Link

LEMMA LinesFacts ==
    ASSUME ExecutorType
    PROVE  /\ Len(Lines) \in Nat /\ Len(Lines) >= 1
           /\ \A i \in 1..Len(Lines) : Lines[i] \in Line
           /\ Lines[Len(Lines)] = ResetLine
<1>1. file \in Seq(Line) /\ ResetLine \in Line
  BY TestFileAssumption DEF ExecutorType, ResetLine, Line
<1>2. /\ Lines \in Seq(Line) /\ Len(Lines) = Len(file) + 1 /\ Len(file) \in Nat
      /\ Lines[Len(file) + 1] = ResetLine
  BY <1>1 DEF Lines
<1> QED BY <1>2

LEMMA QdiscTypes ==
    /\ NoQdisc \in Qdisc
    /\ \A q \in Qdisc : CreateRootQdisc(CleanAllQdisc(q)) \in Qdisc
    /\ \A q \in Qdisc, h \in Host : InitQdisc(q, h) \in Qdisc
    /\ \A q \in Qdisc, l \in Link, r \in Rule : ModifyOutgoingConnection(q, l, r) \in Qdisc
BY RuleAssumption
   DEF NoQdisc, Qdisc, CreateRootQdisc, CleanAllQdisc, InitQdisc, ModifyOutgoingConnection

-----------------------------------------------------------------------------
(* The set up of the network.                                               *)
LEMMA NextNodeFacts ==
    ASSUME ExecutorType, NEW after, NextNode(after)
    PROVE  /\ node' \in Host
           /\ \/ node < Size /\ node' = node + 1 /\ phase' = phase
              \/ node = Size /\ node' = 1 /\ phase' = after
BY SizeFacts DEF ExecutorType, NextNode

LEMMA CleanNodeInv ==
    ASSUME ExecutorInv, NetemMaster, CleanNode
    PROVE  ExecutorInv'
<1> DEFINE i == Interface(mode, node)
           clean == CreateRootQdisc(NoQdisc)
<1>1. ExecutorType /\ node \in Host /\ i \in Host /\ phase = "clean"
  BY SizeFacts DEF ExecutorInv, ExecutorType, CleanNode
<1>2. tc' = [tc EXCEPT ![i] = clean] /\ mode' = mode
  BY DEF CleanNode, NetemMaster, CleanAllQdisc
<1>3. clean \in Qdisc /\ clean.root /\ \A l \in Link : clean.class[l] = None
  BY QdiscTypes DEF CreateRootQdisc, CleanAllQdisc, NoQdisc
<1> HIDE DEF i, clean
<1>4. tc' \in [Host -> Qdisc] /\ tc'[i] = clean /\ \A h \in Host : h # i => tc'[h] = tc[h]
  BY <1>1, <1>2, <1>3 DEF ExecutorType
<1>5. \A h \in Host : h <= node => tc'[Interface(mode, h)] = clean
  <2> SUFFICES ASSUME NEW h \in Host, h <= node PROVE tc'[Interface(mode, h)] = clean
    OBVIOUS
  <2>1. CASE h = node
    BY <1>4, <2>1 DEF i
  <2>2. CASE h < node
    <3>1. tc[Interface(mode, h)] = clean /\ Interface(mode, h) \in Host
      BY <1>1, <2>2, SizeFacts DEF ExecutorInv, SetUpInv, clean
    <3> QED BY <1>4, <3>1
  <2> QED BY <1>1, <2>1, <2>2, SizeFacts
<1>6. /\ node' \in Host
      /\ \/ node < Size /\ node' = node + 1 /\ phase' = phase
         \/ node = Size /\ node' = 1 /\ phase' = "init"
  BY <1>1, NextNodeFacts DEF CleanNode
<1>7. ExecutorType'
  BY <1>1, <1>4, <1>6 DEF ExecutorType, NetemMaster
<1>8. SetUpInv'
  <2>1. CASE phase' = "clean"
    <3>1. \A h \in Host : h < node' => tc'[Interface(mode, h)] = clean
      BY <1>1, <1>5, <1>6, <2>1, SizeFacts
    <3> QED BY <1>2, <2>1, <3>1 DEF SetUpInv, clean, Interface
  <2>2. CASE phase' = "init"
    <3>1. node = Size /\ node' = 1
      BY <1>1, <1>6, <2>2
    <3>2. \A h \in Host : tc'[Interface(mode, h)] = clean
      BY <1>5, <3>1, SizeFacts
    <3>3. ASSUME NEW l \in Link PROVE Network'[l] = None /\ ~(l[1] < node')
      BY <1>2, <1>3, <3>1, <3>2, SizeFacts DEF Network, Interface
    <3>4. \A h \in Host : tc'[Interface(mode', h)].root
      BY <1>2, <1>3, <3>2
    <3> QED BY <2>2, <3>3, <3>4 DEF SetUpInv
  <2> QED BY <1>1, <1>6, <2>1, <2>2
<1>9. ParserInv'
  BY <1>1, <1>6 DEF ExecutorInv, ParserInv, NetemMaster
<1> QED BY <1>1, <1>6, <1>7, <1>8, <1>9 DEF ExecutorInv, CheckedFirst, NetworkRestored

LEMMA InitNodeInv ==
    ASSUME ExecutorInv, NetemMaster, InitNode
    PROVE  ExecutorInv'
<1> DEFINE i == Interface(mode, node)
<1>1. ExecutorType /\ node \in Host /\ i \in Host /\ phase = "init" /\ tc[i] \in Qdisc
  BY SizeFacts DEF ExecutorInv, ExecutorType, InitNode
<1>2. /\ \A h \in Host : tc[Interface(mode, h)].root
      /\ \A l \in Link : tc[Interface(mode, l[1])].class[l] = IF l[1] < node THEN NoDelay ELSE None
  BY <1>1 DEF ExecutorInv, SetUpInv, Network
<1>3. InitQdiscOk(tc[i], node)
  BY <1>1, <1>2, SizeFacts DEF InitQdiscOk
<1>4. tc' = [tc EXCEPT ![i] = InitQdisc(tc[i], node)] /\ NextNode("parse") /\ mode' = mode
  BY <1>3 DEF InitNode, NetemMaster
<1>5. /\ InitQdisc(tc[i], node) \in Qdisc
      /\ InitQdisc(tc[i], node).root = tc[i].root
      /\ \A l \in Link : InitQdisc(tc[i], node).class[l] = IF l[1] = node THEN NoDelay ELSE tc[i].class[l]
  BY <1>1, QdiscTypes DEF InitQdisc, Qdisc
<1> HIDE DEF i
<1>6. /\ tc' \in [Host -> Qdisc] /\ tc'[i] = InitQdisc(tc[i], node)
      /\ \A h \in Host : h # i => tc'[h] = tc[h]
  BY <1>1, <1>4, <1>5 DEF ExecutorType
<1>7. ASSUME NEW l \in Link
      PROVE  Network'[l] = IF l[1] <= node THEN NoDelay ELSE None
  <2>1. l[1] \in Host /\ l[1] \in Nat /\ Interface(mode, l[1]) \in Host /\ node \in Nat
    BY <1>1, SizeFacts
  <2>2. Network'[l] = tc'[Interface(mode, l[1])].class[l]
    BY <1>4 DEF Network, Interface
  <2>3. CASE l[1] = node
    BY <1>5, <1>6, <2>1, <2>2, <2>3 DEF i
  <2>4. CASE l[1] # node
    <3>1. tc'[Interface(mode, l[1])].class[l] = tc[Interface(mode, l[1])].class[l]
      BY <1>5, <1>6, <2>1, <2>4
    <3> QED BY <1>2, <2>1, <2>2, <2>4, <3>1
  <2> QED BY <2>3, <2>4
<1>8. \A h \in Host : tc'[Interface(mode', h)].root
  BY <1>2, <1>4, <1>5, <1>6, SizeFacts
<1>9. /\ node' \in Host
      /\ \/ node < Size /\ node' = node + 1 /\ phase' = phase
         \/ node = Size /\ node' = 1 /\ phase' = "parse"
  BY <1>1, <1>4, NextNodeFacts
<1>10. ExecutorType'
  BY <1>1, <1>6, <1>9 DEF ExecutorType, NetemMaster
<1>11. SetUpInv'
  <2>1. CASE phase' = "init"
    <3>1. \A l \in Link : Network'[l] = IF l[1] < node' THEN NoDelay ELSE None
      BY <1>1, <1>7, <1>9, <2>1, SizeFacts
    <3> QED BY <1>8, <2>1, <3>1 DEF SetUpInv
  <2>2. CASE phase' = "parse"
    <3>1. \A l \in Link : Network'[l] = NoDelay
      BY <1>1, <1>7, <1>9, <2>2, SizeFacts
    <3> QED BY <2>2, <3>1 DEF SetUpInv, Restored
  <2> QED BY <1>1, <1>9, <2>1, <2>2
<1>12. ParserInv'
  <2>1. Len(Lines') \in Nat /\ Len(Lines') >= 1
    BY <1>1, LinesFacts DEF NetemMaster, Lines
  <2>2. index' = 1 /\ commands' = <<>> /\ pointers' = <<>> /\ doOpen' = 0
        /\ rows' = <<>> /\ plan' = <<>> /\ rpcs' = {}
    BY <1>1 DEF ExecutorInv, ParserInv, NetemMaster
  <2> QED BY <2>1, <2>2 DEF ParserInv
<1> QED BY <1>1, <1>9, <1>10, <1>11, <1>12 DEF ExecutorInv, CheckedFirst, NetworkRestored

(* A step that ends the program.                                            *)
LEMMA AbortInv ==
    ASSUME ExecutorInv, phase' = "aborted", UNCHANGED <<tc, file, node, index, doOpen, pointers, commands>>
    PROVE  ExecutorInv'
BY DEF ExecutorInv, ExecutorType, SetUpInv, ParserInv, CheckedFirst, NetworkRestored

LEMMA NetemMasterInv ==
    ASSUME ExecutorInv, NetemMaster
    PROVE  ExecutorInv'
<1>1. CASE SetUpRaises
  BY <1>1, AbortInv DEF NetemMaster, SetUpRaises
<1> QED BY <1>1, CleanNodeInv, InitNodeInv DEF NetemMaster

-----------------------------------------------------------------------------
(* A sequence with one element replaced.                                    *)
LEMMA SeqReplaced ==
    ASSUME NEW S, NEW s \in Seq(S), NEW k, NEW e \in S, NEW t, t = [s EXCEPT ![k] = e]
    PROVE  /\ t \in Seq(S) /\ Len(t) = Len(s) /\ DOMAIN t = 1..Len(s)
           /\ \A j \in 1..Len(s) : t[j] = IF j = k THEN e ELSE s[j]
<1>1. CASE k \in 1..Len(s)
  BY <1>1, ExceptSeq, LenProperties
<1>2. CASE k \notin 1..Len(s)
  <2>1. DOMAIN s = 1..Len(s) /\ s \in [1..Len(s) -> S]
    BY LenProperties
  <2>2. t = s
    BY <1>2, <2>1
  <2> QED BY <1>2, <2>1, <2>2
<1> QED BY <1>1, <1>2

(* The parser.                                                              *)
LEMMA ParseLineInv ==
    ASSUME ExecutorInv, ParseLine
    PROVE  ExecutorInv'
<1>1. /\ ExecutorType /\ phase = "parse" /\ index <= Len(Lines) /\ index \in 1..Len(Lines)
      /\ UNCHANGED <<tc, file, mode, node, rpcs, rows, plan>>
  BY LinesFacts DEF ExecutorInv, ExecutorType, ParseLine
<1>2. /\ Lines' = Lines /\ Len(Lines) \in Nat /\ Len(Lines) >= 1
      /\ Lines[index] \in Line /\ Lines[Len(Lines)].op = "reset"
  BY <1>1, LinesFacts DEF Lines, ResetLine
<1>3. /\ \A i \in DOMAIN commands : /\ commands[i].no = i /\ commands[i].stage = "check"
                                    /\ commands[i].line \in 1..Len(Lines)
      /\ doOpen <= Len(pointers) /\ \A i \in DOMAIN pointers : pointers[i].start < Len(Lines)
      /\ rows = <<>> /\ plan = <<>> /\ rpcs = {} /\ Restored
  BY <1>1 DEF ExecutorInv, ParserInv, SetUpInv
<1>4. Restored'
  BY <1>1, <1>3 DEF Restored, Network
<1> DEFINE Moves ==
      /\ phase' = "parse" /\ index' \in Nat \ {0} /\ index' <= Len(Lines) + 1
      /\ doOpen' \in Int /\ pointers' \in Seq(Pointer) /\ doOpen' <= Len(pointers')
      /\ \A i \in DOMAIN pointers' : pointers'[i].start < Len(Lines)
<1>5. ASSUME Moves, commands' = commands, index' <= Len(Lines)
      PROVE  ExecutorInv'
  <2>1. ExecutorType'
    BY <1>1, <1>5 DEF ExecutorType
  <2>2. ParserInv'
    BY <1>1, <1>2, <1>3, <1>5 DEF ParserInv
  <2>3. SetUpInv'
    BY <1>4, <1>5 DEF SetUpInv
  <2> QED BY <1>5, <2>1, <2>2, <2>3 DEF ExecutorInv, CheckedFirst, NetworkRestored
<1>6. CASE SkipLine /\ Lines[index].op = "blank"
  <2>1. index + 1 <= Len(Lines)
    BY <1>1, <1>2, <1>6
  <2> QED BY <1>1, <1>3, <1>5, <1>6, <2>1 DEF SkipLine, ExecutorType
<1>7. CASE SyntaxError
  BY <1>1, <1>7, AbortInv DEF SyntaxError
<1>8. CASE OpenLoop /\ Lines[index].op = "do"
  <2> DEFINE p == [start |-> index, repetition |-> 1]
  <2>1. index + 1 <= Len(Lines) /\ index < Len(Lines) /\ p \in Pointer /\ p.start = index
    BY <1>1, <1>2, <1>8 DEF Pointer
  <2> HIDE DEF p
  <2>2. pointers' = Append(pointers, p) \/ pointers' = [pointers EXCEPT ![Level(doOpen + 1)] = p]
    BY <1>8 DEF OpenLoop, p
  <2>3. /\ pointers' \in Seq(Pointer) /\ Len(pointers') \in Nat
        /\ \A i \in DOMAIN pointers' : pointers'[i].start < Len(Lines)
    <3>1. CASE pointers' = Append(pointers, p)
      <4>1. /\ pointers' \in Seq(Pointer) /\ DOMAIN pointers' = 1..(Len(pointers) + 1)
            /\ pointers'[Len(pointers) + 1] = p /\ \A i \in DOMAIN pointers : pointers'[i] = pointers[i]
        BY <1>1, <2>1, <3>1 DEF ExecutorType
      <4>2. \A i \in DOMAIN pointers' : i \in DOMAIN pointers \/ i = Len(pointers) + 1
        BY <1>1, <4>1, LenProperties DEF ExecutorType
      <4>3. Len(pointers') \in Nat
        BY <4>1, LenProperties
      <4> QED BY <1>3, <2>1, <4>1, <4>2, <4>3
    <3>2. CASE pointers' = [pointers EXCEPT ![Level(doOpen + 1)] = p]
      <4>1. /\ pointers' \in Seq(Pointer)
            /\ \A i \in DOMAIN pointers' : i \in DOMAIN pointers /\ pointers'[i] \in {p, pointers[i]}
        BY <1>1, <2>1, <3>2, SeqReplaced, LenProperties DEF ExecutorType
      <4>2. Len(pointers') \in Nat
        BY <4>1, LenProperties
      <4> QED BY <1>3, <2>1, <4>1, <4>2
    <3> QED BY <2>2, <3>1, <3>2
  <2>4. doOpen' = doOpen + 1 /\ doOpen + 1 <= Len(pointers')
    <3>1. CASE Len(pointers) < doOpen + 1
      <4>1. pointers' = Append(pointers, p)
        BY <1>8, <3>1 DEF OpenLoop, p
      <4>2. Len(pointers') = Len(pointers) + 1 /\ Len(pointers) \in Nat
        BY <1>1, <2>1, <4>1 DEF ExecutorType
      <4> QED BY <1>1, <1>3, <1>8, <4>2 DEF OpenLoop, ExecutorType
    <3>2. CASE ~(Len(pointers) < doOpen + 1)
      <4>1. pointers' = [pointers EXCEPT ![Level(doOpen + 1)] = p]
        BY <1>8, <3>2 DEF OpenLoop, p
      <4>2. Len(pointers') = Len(pointers) /\ Len(pointers) \in Nat
        BY <1>1, <2>1, <4>1, SeqReplaced, LenProperties DEF ExecutorType
      <4> QED BY <1>1, <1>8, <3>2, <4>2 DEF OpenLoop, ExecutorType
    <3> QED BY <3>1, <3>2
  <2>5. index' = index + 1 /\ phase' = phase /\ commands' = commands
    BY <1>8 DEF OpenLoop
  <2> QED BY <1>1, <1>5, <2>1, <2>3, <2>4, <2>5 DEF ExecutorType
<1>9. ASSUME NEW n, CloseLoop(n), Lines[index].op = "times"
      PROVE  ExecutorInv'
  <2>1. index + 1 <= Len(Lines)
    BY <1>1, <1>2, <1>9
  <2>2. CASE LeaveLoop
    BY <1>1, <1>3, <1>5, <2>1, <2>2 DEF LeaveLoop, ExecutorType
  <2>3. CASE Repeat /\ ~(Level(doOpen) < 1)
    <3> DEFINE k == Level(doOpen)
    <3>1. k \in DOMAIN pointers
      BY <1>1, <1>3, <2>3 DEF ExecutorType, Level
    <3> HIDE DEF k
    <3>2. pointers[k] \in Pointer /\ pointers[k].start < Len(Lines)
      BY <1>1, <1>3, <3>1 DEF ExecutorType
    <3>3. /\ index' = pointers[k].start + 1
          /\ pointers' = [pointers EXCEPT ![k] = [pointers[k] EXCEPT !.repetition = @ + 1]]
          /\ doOpen' = doOpen /\ phase' = phase /\ commands' = commands
      BY <2>3 DEF Repeat, k
    <3>4. /\ [pointers[k] EXCEPT !.repetition = @ + 1] \in Pointer
          /\ [pointers[k] EXCEPT !.repetition = @ + 1].start = pointers[k].start
      BY <3>2 DEF Pointer
    <3>5. /\ pointers' \in Seq(Pointer) /\ Len(pointers') = Len(pointers)
          /\ \A i \in DOMAIN pointers' : i \in DOMAIN pointers /\ pointers'[i].start = pointers[i].start
      BY <1>1, <3>1, <3>3, <3>4, SeqReplaced, LenProperties DEF ExecutorType
    <3>6. index' \in Nat \ {0} /\ index' <= Len(Lines)
      BY <1>2, <3>2, <3>3 DEF Pointer
    <3>7. Moves
      BY <1>1, <1>2, <1>3, <3>3, <3>5, <3>6 DEF ExecutorType
    <3> QED BY <1>5, <3>3, <3>6, <3>7
  <2> QED BY <1>7, <1>9, <2>2, <2>3 DEF CloseLoop
<1>10. CASE AddCommand
  <2> DEFINE c == [no |-> Len(commands) + 1, line |-> index, stage |-> "check"]
  <2>1. c \in Command /\ c.no = Len(commands) + 1 /\ c.line = index /\ c.stage = "check"
    BY <1>1 DEF Command, Stage, ExecutorType
  <2>2. commands' = Append(commands, c) /\ index' = index + 1 /\ UNCHANGED <<doOpen, pointers, phase>>
    BY <1>10 DEF AddCommand
  <2> HIDE DEF c
  <2>3. /\ commands' \in Seq(Command) /\ Len(commands') = Len(commands) + 1 /\ commands' # <<>>
        /\ DOMAIN commands' = 1..(Len(commands) + 1) /\ Len(commands) \in Nat
        /\ commands'[Len(commands) + 1] = c /\ DOMAIN commands = 1..Len(commands)
        /\ \A i \in DOMAIN commands : commands'[i] = commands[i]
    BY <1>1, <2>1, <2>2 DEF ExecutorType
  <2>4. ExecutorType'
    BY <1>1, <2>2, <2>3 DEF ExecutorType
  <2>5. \A i \in DOMAIN commands' : /\ commands'[i].no = i /\ commands'[i].stage = "check"
                                    /\ commands'[i].line \in 1..Len(Lines)
    BY <1>1, <1>3, <2>1, <2>3
  <2>6. index' <= Len(Lines) + 1 /\ (index' = Len(Lines) + 1 => commands'[Len(commands')].line = Len(Lines))
    BY <1>1, <1>2, <2>1, <2>2, <2>3
  <2>7. ParserInv'
    BY <1>1, <1>2, <1>3, <2>2, <2>3, <2>5, <2>6 DEF ParserInv
  <2>8. SetUpInv'
    BY <1>1, <1>4, <2>2 DEF SetUpInv
  <2> QED BY <1>1, <2>2, <2>4, <2>7, <2>8 DEF ExecutorInv, CheckedFirst, NetworkRestored
<1> QED BY <1>6, <1>7, <1>8, <1>9, <1>10 DEF ParseLine

LEMMA ParsedInv ==
    ASSUME ExecutorInv, Parsed
    PROVE  ExecutorInv'
<1>1. /\ ExecutorType /\ phase = "parse" /\ index > Len(Lines) /\ phase' = "execute"
      /\ UNCHANGED <<tc, daemonVars, file, mode, node, index, doOpen, pointers, commands, rpcs, rows, plan, swallowed>>
  BY DEF ExecutorInv, Parsed
<1>2. Lines' = Lines /\ Len(Lines) \in Nat /\ Network' = Network
  BY <1>1, LinesFacts DEF Lines, Network
<1>3. /\ \A i \in DOMAIN commands : /\ commands[i].no = i /\ commands[i].stage = "check"
                                    /\ commands[i].line \in 1..Len(Lines)
      /\ commands # <<>> /\ commands[Len(commands)].line = Len(Lines)
      /\ rows = <<>> /\ plan = <<>> /\ rpcs = {} /\ Restored
  BY <1>1, <1>2 DEF ExecutorInv, ParserInv, SetUpInv, ExecutorType
<1>4. Len(plan) = 0 /\ plan \in Seq(PlanEntry)
  BY <1>3
<1>5. Queue(commands, 0) /\ FinalAt(commands, Len(commands), 0) /\ Len(commands) \in DOMAIN commands
  <2>1. DOMAIN commands = 1..Len(commands) /\ Len(commands) \in Nat /\ Len(commands) # 0
    BY <1>1, <1>3 DEF ExecutorType
  <2>2. Queue(commands, 0)
    BY <1>3, <2>1 DEF Queue, InOrder
  <2>3. FinalAt(commands, Len(commands), 0)
    BY <1>3, <2>1 DEF FinalAt
  <2> QED BY <2>1, <2>2, <2>3
<1>6. ExecuteInv
  BY <1>3, <1>4, <1>5 DEF ExecuteInv, ResetInv, Current
<1>7. ExecuteInv'
  BY <1>1, <1>2, <1>6 DEF ExecuteInv, ResetInv, Restored, FinalAt, Current, CurrentLine, Meaning
<1>8. CheckedFirst'
  BY <1>1, <1>2, <1>3 DEF CheckedFirst, Restored
<1> QED BY <1>1, <1>7, <1>8 DEF ExecutorInv, ExecutorType, SetUpInv, ParserInv, NetworkRestored

-----------------------------------------------------------------------------
(***************************************************************************)
(* The list of commands: its first element is dropped, goes to the end, or *)
(* changes its stage.                                                      *)
(***************************************************************************)
Popped(q, planned) == IF q[1].stage = "check" THEN planned + 1 ELSE planned

LEMMA LastOrBefore ==
    ASSUME NEW n \in Nat
    PROVE  \A i \in 1..n : i \in 1..(n - 1) \/ i = n
OBVIOUS

LEMMA TailFacts ==
    ASSUME NEW q \in Seq(Command), q # <<>>
    PROVE  /\ Tail(q) \in Seq(Command) /\ Len(Tail(q)) = Len(q) - 1
           /\ Len(q) \in Nat /\ Len(q) >= 1 /\ DOMAIN q = 1..Len(q) /\ q[1] \in Command
           /\ DOMAIN Tail(q) = 1..(Len(q) - 1)
           /\ \A i \in 1..(Len(q) - 1) : Tail(q)[i] = q[i + 1]
<1>1. Len(q) \in Nat /\ Len(q) # 0 /\ DOMAIN q = 1..Len(q)
  BY EmptySeq, LenProperties
<1>2. Tail(q) \in Seq(Command) /\ Len(Tail(q)) = Len(q) - 1
      /\ \A i \in 1..Len(Tail(q)) : Tail(q)[i] = q[i + 1]
  BY HeadTailProperties
<1>3. q[1] \in Command
  BY <1>1, ElementOfSeq
<1> QED BY <1>1, <1>2, <1>3, LenProperties

LEMMA RequeueFacts ==
    ASSUME NEW q \in Seq(Command), q # <<>>, NEW c \in Command,
           NEW r, r = Append(Tail(q), c)
    PROVE  /\ r \in Seq(Command) /\ Len(r) = Len(q) /\ DOMAIN r = 1..Len(q)
           /\ \A i \in 1..(Len(q) - 1) : r[i] = q[i + 1]
           /\ r[Len(q)] = c
<1>1. /\ Tail(q) \in Seq(Command) /\ Len(Tail(q)) = Len(q) - 1 /\ Len(q) \in Nat /\ Len(q) >= 1
      /\ \A i \in 1..(Len(q) - 1) : Tail(q)[i] = q[i + 1]
  BY TailFacts
<1>2. r \in Seq(Command) /\ Len(r) = Len(q)
  BY <1>1
<1>3. r[Len(q)] = c /\ \A i \in 1..(Len(q) - 1) : r[i] = q[i + 1]
  BY <1>1
<1> QED BY <1>2, <1>3, LenProperties

LEMMA NumberTypes ==
    ASSUME NEW c \in Command
    PROVE  c.no \in Nat /\ c.line \in Nat /\ c.stage \in Stage
BY DEF Command, LinkCommand

LEMMA TailQueue ==
    ASSUME NEW q \in Seq(Command), q # <<>>, NEW p \in Nat, Queue(q, p)
    PROVE  Queue(Tail(q), Popped(q, p))
<1> DEFINE r == Tail(q)
<1>1. /\ Len(q) \in Nat /\ Len(q) >= 1 /\ DOMAIN q = 1..Len(q) /\ DOMAIN r = 1..(Len(q) - 1)
      /\ \A i \in 1..(Len(q) - 1) : r[i] = q[i + 1]
  BY TailFacts
<1> HIDE DEF r
<1>2. ASSUME NEW i \in DOMAIN r, NEW j \in DOMAIN r, i < j PROVE InOrder(r[i], r[j])
  <2>1. i + 1 \in DOMAIN q /\ j + 1 \in DOMAIN q /\ i + 1 < j + 1 /\ r[i] = q[i + 1] /\ r[j] = q[j + 1]
    BY <1>1, <1>2
  <2> QED BY <2>1 DEF Queue
<1>3. ASSUME NEW i \in DOMAIN r
      PROVE  IF r[i].stage = "check" THEN r[i].no = Popped(q, p) + i ELSE r[i].no <= Popped(q, p)
  <2>1. i + 1 \in DOMAIN q /\ 1 \in DOMAIN q /\ 1 < i + 1 /\ r[i] = q[i + 1] /\ i \in Nat
    BY <1>1, <1>3
  <2>2. InOrder(q[1], q[i + 1]) /\ q[1].stage \in Stage /\ q[i + 1].no \in Nat
    BY <1>1, <2>1, NumberTypes, ElementOfSeq DEF Queue
  <2>3. IF q[i + 1].stage = "check" THEN q[i + 1].no = p + (i + 1) ELSE q[i + 1].no <= p
    BY <2>1 DEF Queue
  <2>4. CASE q[1].stage = "check"
    BY <2>1, <2>2, <2>3, <2>4 DEF Popped
  <2>5. CASE q[1].stage # "check"
    BY <2>1, <2>2, <2>3, <2>5 DEF Popped, InOrder, Stage
  <2> QED BY <2>4, <2>5
<1> QED BY <1>2, <1>3 DEF Queue, r

(* Nothing but the first command is being executed.                         *)
LEMMA Behind ==
    ASSUME NEW q \in Seq(Command), q # <<>>, NEW p \in Nat, Queue(q, p)
    PROVE  \A i \in 1..(Len(q) - 1) : i + 1 \in DOMAIN q /\ q[i + 1].stage # "executing"
<1>1. Len(q) \in Nat /\ Len(q) >= 1 /\ DOMAIN q = 1..Len(q) /\ q[1].stage \in Stage
  BY TailFacts, NumberTypes
<1>2. ASSUME NEW i \in 1..(Len(q) - 1)
      PROVE  i + 1 \in DOMAIN q /\ q[i + 1].stage # "executing"
  <2>1. 1 \in DOMAIN q /\ i + 1 \in DOMAIN q /\ 1 < i + 1
    BY <1>1
  <2>2. InOrder(q[1], q[i + 1])
    BY <2>1 DEF Queue
  <2> QED BY <1>1, <2>1, <2>2 DEF InOrder, Stage
<1> QED BY <1>2

Advanced(c, d) ==
    /\ d.no = c.no /\ d.line = c.line
    /\ \/ c.stage = "check" /\ d.stage = "execute"
       \/ c.stage = "executing" /\ d.stage = "spent"

LEMMA RequeueQueue ==
    ASSUME NEW q \in Seq(Command), q # <<>>, NEW p \in Nat, Queue(q, p),
           NEW c \in Command, Advanced(q[1], c)
    PROVE  Queue(Append(Tail(q), c), Popped(q, p))
<1> DEFINE r == Append(Tail(q), c)
           t == Tail(q)
<1>1. /\ DOMAIN r = 1..Len(q) /\ Len(q) \in Nat /\ Len(q) >= 1 /\ DOMAIN q = 1..Len(q)
      /\ DOMAIN t = 1..(Len(q) - 1) /\ r[Len(q)] = c
      /\ \A i \in 1..(Len(q) - 1) : r[i] = q[i + 1] /\ t[i] = q[i + 1]
  BY TailFacts, RequeueFacts
<1>2. Queue(t, Popped(q, p))
  BY TailQueue
<1> HIDE DEF r, t
<1>3. q[1].no \in Nat /\ c.no = q[1].no /\ 1 \in DOMAIN q
  BY <1>1, NumberTypes, ElementOfSeq DEF Advanced
<1>4. ASSUME NEW j \in 2..Len(q) PROVE InOrder(q[j], c)
  <2>0. j \in DOMAIN q /\ j \in 1..Len(q) /\ 1 < j /\ q[j] \in Command
    BY <1>1, ElementOfSeq
  <2>1. q[j].no \in Nat /\ q[j].stage \in Stage /\ InOrder(q[1], q[j])
    BY <1>3, <2>0, NumberTypes DEF Queue
  <2>2. CASE q[1].stage = "check" /\ c.stage = "execute"
    <3>1. q[j].stage = "check" => q[1].no = p + 1 /\ q[j].no = p + j
      BY <1>3, <2>0, <2>2 DEF Queue
    <3> QED BY <1>3, <2>0, <2>1, <2>2, <3>1 DEF InOrder
  <2>3. CASE q[1].stage = "executing" /\ c.stage = "spent"
    BY <2>1, <2>3 DEF InOrder, Stage
  <2> QED BY <2>2, <2>3 DEF Advanced
<1>5. ASSUME NEW i \in DOMAIN r, NEW j \in DOMAIN r, i < j PROVE InOrder(r[i], r[j])
  <2>1. CASE j = Len(q)
    <3>1. i \in 1..(Len(q) - 1) /\ i + 1 \in 2..Len(q)
      BY <1>1, <1>5, <2>1
    <3> QED BY <1>1, <1>4, <2>1, <3>1
  <2>2. CASE j # Len(q)
    <3>1. i \in DOMAIN t /\ j \in DOMAIN t /\ r[i] = t[i] /\ r[j] = t[j]
      BY <1>1, <1>5, <2>2
    <3> QED BY <1>2, <1>5, <3>1 DEF Queue
  <2> QED BY <2>1, <2>2
<1>6. ASSUME NEW i \in DOMAIN r
      PROVE  IF r[i].stage = "check" THEN r[i].no = Popped(q, p) + i ELSE r[i].no <= Popped(q, p)
  <2>1. CASE i = Len(q)
    <3>1. IF q[1].stage = "check" THEN q[1].no = p + 1 ELSE q[1].no <= p
      BY <1>3 DEF Queue
    <3> QED BY <1>1, <1>3, <2>1, <3>1 DEF Advanced, Popped
  <2>2. CASE i # Len(q)
    <3>1. i \in DOMAIN t /\ r[i] = t[i]
      BY <1>1, <1>6, <2>2
    <3> QED BY <1>2, <3>1 DEF Queue
  <2> QED BY <2>1, <2>2
<1> QED BY <1>5, <1>6 DEF Queue, r

(* What becomes of the final reset.                                         *)
LEMMA TailFinal ==
    ASSUME NEW q \in Seq(Command), q # <<>>, NEW p \in Nat, Queue(q, p),
           NEW i \in DOMAIN q, i # 1, FinalAt(q, i, p)
    PROVE  i - 1 \in DOMAIN Tail(q) /\ FinalAt(Tail(q), i - 1, Popped(q, p))
<1> DEFINE r == Tail(q)
<1>1. /\ Len(q) \in Nat /\ Len(q) >= 1 /\ DOMAIN q = 1..Len(q) /\ DOMAIN r = 1..(Len(q) - 1)
      /\ \A k \in 1..(Len(q) - 1) : r[k] = q[k + 1]
  BY TailFacts
<1> HIDE DEF r
<1>2. i - 1 \in DOMAIN r /\ r[i - 1] = q[i] /\ 1 \in DOMAIN q
  BY <1>1
<1>3. \A j \in DOMAIN r : j + 1 \in DOMAIN q /\ r[j] = q[j + 1]
  BY <1>1
<1> QED BY <1>2, <1>3 DEF FinalAt, Popped, r

LEMMA RequeueFinal ==
    ASSUME NEW q \in Seq(Command), q # <<>>, NEW p \in Nat, Queue(q, p),
           NEW c \in Command, Advanced(q[1], c),
           NEW i \in DOMAIN q, i # 1, FinalAt(q, i, p)
    PROVE  LET r == Append(Tail(q), c) IN i - 1 \in DOMAIN r /\ FinalAt(r, i - 1, Popped(q, p))
<1> DEFINE r == Append(Tail(q), c)
<1>1. /\ Len(q) \in Nat /\ Len(q) >= 1 /\ DOMAIN q = 1..Len(q) /\ DOMAIN r = 1..Len(q)
      /\ r[Len(q)] = c /\ \A k \in 1..(Len(q) - 1) : r[k] = q[k + 1]
  BY TailFacts, RequeueFacts
<1> HIDE DEF r
<1>2. i - 1 \in DOMAIN r /\ r[i - 1] = q[i] /\ 1 \in DOMAIN q
  BY <1>1
<1>3. \A j \in DOMAIN r : (j + 1 \in DOMAIN q /\ r[j] = q[j + 1]) \/ r[j] = c
  BY <1>1
<1>4. c.stage # "check" /\ c.no = q[1].no /\ q[1].stage # "spent"
  BY DEF Advanced
<1>5. ASSUME NEW j \in DOMAIN r, r[j].stage # "spent" PROVE r[j].no <= r[i - 1].no
  BY <1>2, <1>3, <1>4, <1>5 DEF FinalAt
<1>6. r[i - 1].stage # "check" => r[i - 1].no = Popped(q, p) /\ \A j \in DOMAIN r : r[j].stage # "check"
  BY <1>2, <1>3, <1>4 DEF FinalAt, Popped
<1>7. FinalAt(r, i - 1, Popped(q, p))
  BY <1>2, <1>5, <1>6 DEF FinalAt
<1> QED BY <1>2, <1>7 DEF r

LEMMA HeadFinal ==
    ASSUME NEW q \in Seq(Command), q # <<>>, NEW p \in Nat, Queue(q, p), FinalAt(q, 1, p)
    PROVE  /\ q[1].no = Popped(q, p)
           /\ \A j \in 1..(Len(q) - 1) :
                 /\ q[j + 1].stage # "check"
                 /\ q[1].stage # "check" => q[j + 1].stage = "spent"
                 /\ q[j + 1].stage # "spent" => q[j + 1].no <= q[1].no
<1>1. Len(q) \in Nat /\ Len(q) >= 1 /\ DOMAIN q = 1..Len(q) /\ 1 \in DOMAIN q
      /\ q[1].no \in Nat /\ q[1].stage \in Stage
  BY TailFacts, NumberTypes
<1>2. q[1].no = Popped(q, p)
  BY <1>1 DEF Queue, FinalAt, Popped
<1>3. ASSUME NEW j \in 1..(Len(q) - 1)
      PROVE  /\ q[j + 1].stage # "check"
             /\ q[1].stage # "check" => q[j + 1].stage = "spent"
             /\ q[j + 1].stage # "spent" => q[j + 1].no <= q[1].no
  <2>1. j \in Nat /\ j >= 1 /\ j + 1 \in DOMAIN q /\ q[j + 1].no \in Nat /\ InOrder(q[1], q[j + 1])
    BY <1>1, NumberTypes, ElementOfSeq DEF Queue
  <2>2. ASSUME q[j + 1].stage = "check" PROVE FALSE
    <3>1. q[1].stage = "check"
      BY <1>1, <2>1, <2>2 DEF FinalAt
    <3>2. q[1].no = p + 1 /\ q[j + 1].no = p + (j + 1)
      BY <1>1, <2>1, <2>2, <3>1 DEF Queue
    <3>3. q[j + 1].no <= q[1].no
      BY <2>1, <2>2 DEF FinalAt
    <3> QED BY <2>1, <3>2, <3>3
  <2>3. q[j + 1].stage # "spent" => q[j + 1].no <= q[1].no
    BY <2>1 DEF FinalAt
  <2>4. ASSUME q[1].stage # "check" PROVE q[j + 1].stage = "spent"
    BY <1>1, <2>1, <2>3, <2>4 DEF InOrder, FinalAt, Stage
  <2> QED BY <2>2, <2>3, <2>4
<1> QED BY <1>2, <1>3

LEMMA RequeueHead ==
    ASSUME NEW q \in Seq(Command), q # <<>>, NEW p \in Nat, Queue(q, p), FinalAt(q, 1, p),
           NEW c \in Command, Advanced(q[1], c)
    PROVE  LET r == Append(Tail(q), c)
           IN  /\ q[1].stage = "check" => Len(q) \in DOMAIN r /\ FinalAt(r, Len(q), Popped(q, p))
               /\ q[1].stage # "check" => \A j \in DOMAIN r : r[j].stage = "spent"
<1> DEFINE r == Append(Tail(q), c)
<1>1. /\ Len(q) \in Nat /\ Len(q) >= 1 /\ DOMAIN r = 1..Len(q) /\ r[Len(q)] = c
      /\ \A k \in 1..(Len(q) - 1) : r[k] = q[k + 1]
  BY TailFacts, RequeueFacts
<1> HIDE DEF r
<1>2. /\ q[1].no = Popped(q, p)
      /\ \A j \in 1..(Len(q) - 1) : /\ q[j + 1].stage # "check"
                                    /\ q[1].stage # "check" => q[j + 1].stage = "spent"
                                    /\ q[j + 1].stage # "spent" => q[j + 1].no <= q[1].no
  BY HeadFinal
<1>3. \A j \in DOMAIN r : (j \in 1..(Len(q) - 1) /\ r[j] = q[j + 1]) \/ r[j] = c
  BY <1>1
<1>4. c.no = q[1].no /\ c.line = q[1].line /\ q[1].line = Len(Lines) /\ q[1].no \in Nat
  BY TailFacts, NumberTypes DEF Advanced, FinalAt
<1>5. CASE q[1].stage = "check"
  <2>1. c.stage = "execute"
    BY <1>5 DEF Advanced
  <2>2. ASSUME NEW j \in DOMAIN r
        PROVE  r[j].stage # "check" /\ (r[j].stage # "spent" => r[j].no <= c.no)
    <3>1. CASE r[j] = c
      BY <1>4, <2>1, <3>1
    <3>2. CASE j \in 1..(Len(q) - 1) /\ r[j] = q[j + 1]
      <4>1. q[j + 1].stage # "check" /\ (q[j + 1].stage # "spent" => q[j + 1].no <= q[1].no)
        BY <1>1, <1>2, <3>2
      <4> QED BY <1>4, <3>2, <4>1
    <3> QED BY <1>3, <2>2, <3>1, <3>2
  <2>3. Len(q) \in DOMAIN r
    BY <1>1
  <2> QED BY <1>1, <1>2, <1>4, <1>5, <2>1, <2>2, <2>3 DEF FinalAt
<1>6. CASE q[1].stage # "check"
  <2>1. c.stage = "spent"
    BY <1>6 DEF Advanced
  <2>2. ASSUME NEW j \in DOMAIN r PROVE r[j].stage = "spent"
    <3>1. CASE j \in 1..(Len(q) - 1) /\ r[j] = q[j + 1]
      <4>1. q[j + 1].stage = "spent"
        BY <1>1, <1>2, <1>6, <3>1
      <4> QED BY <3>1, <4>1
    <3> QED BY <1>3, <2>1, <2>2, <3>1
  <2>3. \A j \in DOMAIN r : r[j].stage = "spent"
    BY <2>2
  <2> QED BY <1>6, <2>3 DEF r
<1> QED BY <1>5, <1>6 DEF r

-----------------------------------------------------------------------------
(***************************************************************************)
(* The steps of main's loop.                                               *)
(***************************************************************************)
Kept == UNCHANGED <<tc, file, mode, node, index, doOpen, pointers>>

Executing == phase = "execute" /\ phase' = "execute" /\ commands # <<>> /\ Kept

LEMMA HeadFacts ==
    ASSUME ExecutorInv, phase = "execute", commands # <<>>
    PROVE  /\ ExecutorType /\ ExecuteInv /\ commands \in Seq(Command) /\ Current \in Command
           /\ Len(Lines) \in Nat /\ Len(plan) \in Nat /\ Len(commands) \in Nat /\ Len(commands) >= 1
           /\ DOMAIN commands = 1..Len(commands) /\ 1 \in DOMAIN commands
           /\ Current.line \in 1..Len(Lines)
<1>1. ExecutorType /\ ExecuteInv /\ commands \in Seq(Command)
  BY DEF ExecutorInv, ExecutorType
<1>2. /\ Len(commands) \in Nat /\ Len(commands) >= 1 /\ DOMAIN commands = 1..Len(commands)
      /\ 1 \in DOMAIN commands /\ Current \in Command
  BY <1>1, TailFacts DEF Current
<1>3. Len(plan) \in Nat /\ Current.line \in 1..Len(Lines)
  BY <1>1, <1>2, LenProperties DEF ExecuteInv, Current
<1> QED BY <1>1, <1>2, <1>3, LinesFacts

LEMMA ExecutingFacts ==
    ASSUME ExecutorInv, Executing
    PROVE  /\ ExecutorType /\ ExecuteInv /\ commands \in Seq(Command) /\ Current \in Command
           /\ Lines' = Lines /\ Network' = Network /\ Len(Lines) \in Nat
           /\ Len(plan) \in Nat /\ Len(commands) \in Nat /\ Len(commands) >= 1
           /\ DOMAIN commands = 1..Len(commands) /\ 1 \in DOMAIN commands
           /\ Current.line \in 1..Len(Lines)
<1>1. Lines' = Lines /\ Network' = Network
  BY DEF Executing, Kept, Lines, Network
<1> QED BY <1>1, HeadFacts DEF Executing

(* Every command is a check as long as the first one is one to be followed  *)
(* by a check.                                                              *)
LEMMA ChecksFirst ==
    ASSUME ExecutorInv, phase = "execute", NEW j \in DOMAIN commands, commands[j].stage = "check"
    PROVE  Current.stage = "check"
<1>0. commands # <<>>
  OBVIOUS
<1>1. ExecuteInv /\ 1 \in DOMAIN commands /\ DOMAIN commands = 1..Len(commands) /\ Current.stage \in Stage
  BY <1>0, HeadFacts, NumberTypes
<1>2. CASE j = 1
  BY <1>2 DEF Current
<1>3. CASE j # 1
  <2>1. InOrder(commands[1], commands[j])
    BY <1>1, <1>3 DEF ExecuteInv, Queue
  <2> QED BY <1>1, <2>1 DEF InOrder, Current, Stage
<1> QED BY <1>2, <1>3

LEMMA FinalNext ==
    ASSUME Lines' = Lines, NEW i \in DOMAIN commands', FinalAt(commands', i, Len(plan'))
    PROVE  ResetInv'
<1>1. FinalAt(commands, i, Len(plan))'
  BY DEF FinalAt
<1> QED BY <1>1 DEF ResetInv

(* What a step has to show for the invariant.                               *)
LEMMA ExecutingInv ==
    ASSUME ExecutorInv, Executing, commands' \in Seq(Command), ExecuteInv',
           \A j \in DOMAIN commands' : commands'[j].stage = "check" => Current.stage = "check",
           Current.stage = "check" => rows' = rows
    PROVE  ExecutorInv'
<1>1. ExecutorType'
  BY DEF ExecutorInv, ExecutorType, Executing, Kept
<1>2. CheckedFirst'
  <2>1. CASE Current.stage = "check"
    <3>1. rows = <<>> /\ \A l \in Link : Network[l] = NoDelay
      BY <2>1, ExecutingFacts DEF ExecutorInv, CheckedFirst, Executing, Current
    <3> QED BY <2>1, <3>1, ExecutingFacts DEF CheckedFirst
  <2>2. CASE Current.stage # "check"
    BY <2>2 DEF CheckedFirst
  <2> QED BY <2>1, <2>2
<1> QED BY <1>1, <1>2 DEF ExecutorInv, Executing, SetUpInv, ParserInv, NetworkRestored

(* The first command is dropped.                                            *)
LEMMA PopInv ==
    ASSUME ExecutorInv, Executing, commands' = Tail(commands), plan' \in Seq(PlanEntry),
           Len(plan') = Popped(commands, Len(plan)), rpcs' = {}, rows' = rows,
           swallowed \subseteq swallowed', Current.stage = "spent" \/ Current.no \in swallowed'
    PROVE  ExecutorInv'
<1> DEFINE q == commands
           p == Len(plan)
<1>1. /\ ExecuteInv /\ q \in Seq(Command) /\ q # <<>> /\ p \in Nat /\ Queue(q, p) /\ Lines' = Lines
      /\ Network' = Network /\ Current = q[1]
  BY ExecutingFacts DEF Executing, ExecuteInv, Current
<1> HIDE DEF p
<1>2. /\ commands' \in Seq(Command) /\ DOMAIN commands' = 1..(Len(q) - 1) /\ Len(q) \in Nat /\ Len(q) >= 1
      /\ DOMAIN q = 1..Len(q) /\ \A i \in 1..(Len(q) - 1) : commands'[i] = q[i + 1]
      /\ \A i \in 1..(Len(q) - 1) : i + 1 \in DOMAIN q
  BY <1>1, TailFacts
<1>3. Queue(commands', Len(plan'))
  BY <1>1, TailQueue DEF p
<1>4. \A i \in 1..(Len(q) - 1) : q[i + 1].stage # "executing"
  BY <1>1, Behind
<1>5. commands' # <<>> => commands'[1].stage # "executing"
  <2>1. commands' # <<>> => 1 \in DOMAIN commands'
    BY <1>2, EmptySeq
  <2> QED BY <1>2, <1>4, <2>1
<1>6. ResetInv'
  <2>1. ASSUME NEW i \in DOMAIN q, i # 1, FinalAt(q, i, p) PROVE ResetInv'
    <3>1. i - 1 \in DOMAIN commands' /\ FinalAt(commands', i - 1, Len(plan'))
      BY <1>1, <2>1, TailFinal DEF p
    <3> QED BY <1>1, <3>1, FinalNext
  <2>2. CASE FinalAt(q, 1, p)
    <3>1. q[1].no = Len(plan') /\ \A j \in 1..(Len(q) - 1) : q[j + 1].stage # "check"
      BY <1>1, <2>2, HeadFinal DEF p
    <3>2. q[1].no \in swallowed'
      BY <1>1, <2>2 DEF FinalAt
    <3> QED BY <1>2, <3>1, <3>2 DEF ResetInv
  <2>3. CASE Restored /\ \A j \in DOMAIN q : q[j].stage = "spent"
    <3>1. Restored'
      BY <1>1, <2>3 DEF Restored
    <3> QED BY <1>2, <2>3, <3>1 DEF ResetInv
  <2>4. CASE p \in swallowed /\ \A j \in DOMAIN q : q[j].stage # "check"
    <3>1. Len(plan') = p
      BY <1>2, <2>4 DEF Popped, p
    <3> QED BY <1>2, <2>4, <3>1 DEF ResetInv
  <2> QED BY <1>1, <2>1, <2>2, <2>3, <2>4 DEF ExecuteInv, ResetInv, p
<1>7. ExecuteInv'
  <2>1. \A i \in DOMAIN commands' :
          /\ commands'[i].line \in 1..Len(Lines')
          /\ commands'[i].stage \in {"execute", "executing"} /\ commands'[i].line = Len(Lines') =>
                Everywhere(commands'[i])
    BY <1>1, <1>2 DEF ExecuteInv
  <2> QED BY <1>3, <1>5, <1>6, <2>1 DEF ExecuteInv, Current
<1>8. \A j \in DOMAIN commands' : commands'[j].stage = "check" => Current.stage = "check"
  BY <1>2, ChecksFirst DEF Executing
<1> QED BY <1>2, <1>7, <1>8, ExecutingInv

(* The first command goes to the end.                                       *)
LEMMA RequeueInv ==
    ASSUME ExecutorInv, Executing, NEW c \in Command, Requeue(c), Advanced(Current, c),
           plan' \in Seq(PlanEntry), Len(plan') = Popped(commands, Len(plan)),
           rpcs = {}, rpcs' = {}, swallowed' = swallowed, Current.stage = "check" => rows' = rows,
           c.stage = "execute" /\ c.line = Len(Lines) => Everywhere(c)
    PROVE  ExecutorInv'
<1> DEFINE q == commands
           p == Len(plan)
<1>1. /\ ExecuteInv /\ q \in Seq(Command) /\ q # <<>> /\ p \in Nat /\ Queue(q, p) /\ Lines' = Lines
      /\ Network' = Network /\ Current = q[1] /\ q[1].line \in 1..Len(Lines)
      /\ commands' = Append(Tail(q), c) /\ Advanced(q[1], c)
  BY ExecutingFacts DEF Executing, ExecuteInv, Current, Requeue
<1> HIDE DEF p, q
<1>2. /\ commands' \in Seq(Command) /\ DOMAIN commands' = 1..Len(q) /\ Len(q) \in Nat /\ Len(q) >= 1
      /\ DOMAIN q = 1..Len(q) /\ 1 \in DOMAIN q
      /\ \A i \in 1..(Len(q) - 1) : commands'[i] = q[i + 1]
      /\ \A i \in 1..(Len(q) - 1) : i + 1 \in DOMAIN q
      /\ commands'[Len(q)] = c
      /\ \A i \in 1..Len(q) : i \in 1..(Len(q) - 1) \/ i = Len(q)
  <2>1. Len(q) \in Nat /\ Len(q) >= 1 /\ DOMAIN q = 1..Len(q) /\ 1 \in DOMAIN q
    BY <1>1, TailFacts
  <2>2. /\ commands' \in Seq(Command) /\ DOMAIN commands' = 1..Len(q)
        /\ \A i \in 1..(Len(q) - 1) : commands'[i] = q[i + 1]
        /\ commands'[Len(q)] = c
    BY <1>1, RequeueFacts
  <2>3. \A i \in 1..(Len(q) - 1) : i + 1 \in DOMAIN q
    BY <2>1
  <2>4. \A i \in 1..Len(q) : i \in 1..(Len(q) - 1) \/ i = Len(q)
    BY <2>1, LastOrBefore
  <2> QED BY <2>1, <2>2, <2>3, <2>4
<1>3. Queue(commands', Len(plan'))
  BY <1>1, RequeueQueue DEF p, q
<1>4. \A i \in 1..(Len(q) - 1) : q[i + 1].stage # "executing"
  BY <1>1, Behind
<1>5. c.stage \in {"execute", "spent"} /\ c.line = q[1].line /\ q[1].stage # "spent"
  BY <1>1 DEF Advanced
<1>6. commands'[1].stage # "executing"
  BY <1>2, <1>4, <1>5
<1>7. ResetInv'
  <2>1. ASSUME NEW i \in DOMAIN q, i # 1, FinalAt(q, i, p) PROVE ResetInv'
    <3>1. i - 1 \in DOMAIN commands' /\ FinalAt(commands', i - 1, Len(plan'))
      BY <1>1, <2>1, RequeueFinal DEF p, q
    <3> QED BY <1>1, <3>1, FinalNext
  <2>2. CASE FinalAt(q, 1, p)
    <3>1. CASE q[1].stage = "check"
      <4>1. Len(q) \in DOMAIN commands' /\ FinalAt(commands', Len(q), Len(plan'))
        BY <1>1, <2>2, <3>1, RequeueHead DEF p, q
      <4> QED BY <1>1, <4>1, FinalNext
    <3>2. CASE q[1].stage # "check"
      <4>1. \A j \in DOMAIN commands' : commands'[j].stage = "spent"
        BY <1>1, <2>2, <3>2, RequeueHead
      <4>2. q[1].stage = "executing" /\ q[1].line = Len(Lines)
        BY <1>1, <2>2, <3>2 DEF Advanced, FinalAt
      <4>3. \A l \in Link : Network[l] = NoDelay
        BY <1>1, <4>2 DEF ExecuteInv, Current, q
      <4>4. Restored'
        BY <1>1, <4>3 DEF Restored
      <4> QED BY <4>1, <4>4 DEF ResetInv
    <3> QED BY <3>1, <3>2
  <2>3. CASE p \in swallowed /\ \A j \in DOMAIN q : q[j].stage # "check"
    <3>1. Len(plan') = p
      <4>1. q[1].stage # "check"
        BY <1>2, <2>3
      <4> QED BY <4>1 DEF Popped, p, q
    <3> QED BY <1>2, <1>5, <2>3, <3>1 DEF ResetInv
  <2>4. ~\A j \in DOMAIN q : q[j].stage = "spent"
    BY <1>2, <1>5
  <2> QED BY <1>1, <2>1, <2>2, <2>3, <2>4 DEF ExecuteInv, ResetInv, p, q
<1>8. ExecuteInv'
  <2>1. \A i \in DOMAIN commands' :
          /\ commands'[i].line \in 1..Len(Lines')
          /\ commands'[i].stage \in {"execute", "executing"} /\ commands'[i].line = Len(Lines') =>
                Everywhere(commands'[i])
    <3>1. ASSUME NEW i \in 1..(Len(q) - 1)
          PROVE  /\ commands'[i].line \in 1..Len(Lines)
                 /\ commands'[i].stage \in {"execute", "executing"} /\ commands'[i].line = Len(Lines) =>
                       Everywhere(commands'[i])
      BY <1>1, <1>2 DEF ExecuteInv, q
    <3>2. /\ c.line \in 1..Len(Lines)
          /\ c.stage \in {"execute", "executing"} /\ c.line = Len(Lines) =>
                Everywhere(c)
      BY <1>1, <1>5
    <3> QED BY <1>1, <1>2, <3>1, <3>2
  <2> QED BY <1>3, <1>6, <1>7, <2>1 DEF ExecuteInv, Current
<1>9. \A j \in DOMAIN commands' : commands'[j].stage = "check" => Current.stage = "check"
  BY <1>2, <1>5, ChecksFirst DEF q, Executing
<1> QED BY <1>2, <1>8, <1>9, ExecutingInv

(* The first command's execution starts.                                    *)
LEMMA StartQueue ==
    ASSUME NEW q \in Seq(Command), q # <<>>, NEW p \in Nat, Queue(q, p), q[1].stage = "execute"
    PROVE  LET r == [q EXCEPT ![1].stage = "executing"]
           IN  /\ r \in Seq(Command) /\ DOMAIN r = DOMAIN q /\ Queue(r, p)
               /\ r[1].stage = "executing" /\ r[1].line = q[1].line /\ r[1].no = q[1].no
               /\ Everywhere(q[1]) => Everywhere(r[1])
               /\ \A i \in DOMAIN q : i # 1 => r[i] = q[i]
               /\ \A i \in DOMAIN q : FinalAt(q, i, p) => FinalAt(r, i, p)
<1> DEFINE d == [q[1] EXCEPT !.stage = "executing"]
           r == [q EXCEPT ![1].stage = "executing"]
<1>1. q[1] \in Command /\ q[1].no \in Nat /\ Len(q) \in Nat /\ DOMAIN q = 1..Len(q) /\ 1 \in DOMAIN q
  BY TailFacts, NumberTypes
<1>2. /\ d \in Command /\ d.stage = "executing" /\ d.no = q[1].no /\ d.line = q[1].line
      /\ Everywhere(q[1]) => Everywhere(d)
  <2>1. CASE q[1] \in LinkCommand
    BY <2>1 DEF Command, LinkCommand, Stage, Everywhere
  <2>2. CASE q[1] \in [no : Nat, line : Nat, stage : Stage]
    BY <2>2 DEF Command, LinkCommand, Stage, Everywhere
  <2> QED BY <1>1, <2>1, <2>2 DEF Command
<1>3. r = [q EXCEPT ![1] = d]
  OBVIOUS
<1> HIDE DEF d, r
<1>4. /\ r \in Seq(Command) /\ DOMAIN r = DOMAIN q /\ r[1] = d
      /\ \A i \in DOMAIN q : i # 1 => r[i] = q[i]
  BY <1>1, <1>2, <1>3, SeqReplaced
<1>5. \A i \in DOMAIN q : r[i].no = q[i].no /\ r[i].line = q[i].line
  BY <1>2, <1>4
<1>6. /\ \A i \in DOMAIN q : r[i].stage = "spent" <=> q[i].stage = "spent"
      /\ \A i \in DOMAIN q : r[i].stage = "check" <=> q[i].stage = "check"
  BY <1>2, <1>4
<1>7. ASSUME NEW i \in DOMAIN q, NEW j \in DOMAIN q, i < j PROVE InOrder(r[i], r[j])
  <2>1. InOrder(q[i], q[j]) /\ j # 1 /\ r[j] = q[j]
    BY <1>1, <1>4, <1>7 DEF Queue
  <2>2. CASE i = 1
    BY <1>2, <1>4, <2>1, <2>2 DEF InOrder
  <2>3. CASE i # 1
    BY <1>4, <2>1, <2>3
  <2> QED BY <2>2, <2>3
<1>8. \A i \in DOMAIN q : IF r[i].stage = "check" THEN r[i].no = p + i ELSE r[i].no <= p
  BY <1>5, <1>6 DEF Queue
<1>9. Queue(r, p)
  BY <1>4, <1>7, <1>8 DEF Queue
<1>10. ASSUME NEW i \in DOMAIN q, FinalAt(q, i, p) PROVE FinalAt(r, i, p)
  BY <1>4, <1>5, <1>6, <1>10 DEF FinalAt
<1> QED BY <1>2, <1>4, <1>9, <1>10 DEF r

LEMMA StartInv ==
    ASSUME ExecutorInv, Executing, Current.stage = "execute",
           commands' = [commands EXCEPT ![1].stage = "executing"], UNCHANGED <<plan, swallowed>>,
           rpcs' # {} => CurrentLine.op = "link",
           Current.line = Len(Lines) => \A l \in Link : <<l[1], l[2], 1>> \in rpcs'
    PROVE  ExecutorInv'
<1>1. /\ ExecuteInv /\ commands \in Seq(Command) /\ commands # <<>> /\ Len(plan) \in Nat
      /\ Queue(commands, Len(plan)) /\ Lines' = Lines /\ 1 \in DOMAIN commands
  BY ExecutingFacts DEF Executing, ExecuteInv
<1>2. /\ commands' \in Seq(Command) /\ DOMAIN commands' = DOMAIN commands
      /\ Queue(commands', Len(plan))
      /\ commands'[1].stage = "executing" /\ commands'[1].line = commands[1].line
      /\ Everywhere(commands[1]) => Everywhere(commands'[1])
      /\ \A i \in DOMAIN commands : i # 1 => commands'[i] = commands[i]
      /\ \A i \in DOMAIN commands : FinalAt(commands, i, Len(plan)) => FinalAt(commands', i, Len(plan))
  BY <1>1, StartQueue DEF Current
<1>3. ASSUME NEW j \in DOMAIN commands PROVE commands[j].stage # "check"
  BY ChecksFirst DEF Executing
<1>4. \A j \in DOMAIN commands' : commands'[j].stage # "check"
  BY <1>2, <1>3
<1>5. ResetInv'
  <2>1. ASSUME NEW i \in DOMAIN commands, FinalAt(commands, i, Len(plan)) PROVE ResetInv'
    BY <1>1, <1>2, <2>1, FinalNext
  <2>2. CASE Len(plan) \in swallowed
    BY <1>4, <2>2 DEF ResetInv
  <2>3. ~\A j \in DOMAIN commands : commands[j].stage = "spent"
    BY <1>1 DEF Current
  <2> QED BY <1>1, <2>1, <2>2, <2>3 DEF ExecuteInv, ResetInv
<1>6. CurrentLine' = CurrentLine /\ Current'.stage = "executing" /\ Current'.line = Current.line
  BY <1>1, <1>2 DEF CurrentLine, Meaning, Current
<1>7. ASSUME NEW i \in DOMAIN commands'
      PROVE  /\ commands'[i].line \in 1..Len(Lines)
             /\ commands'[i].stage \in {"execute", "executing"} /\ commands'[i].line = Len(Lines) =>
                   Everywhere(commands'[i])
  <2>1. /\ commands[i].line \in 1..Len(Lines)
        /\ commands[i].stage \in {"execute", "executing"} /\ commands[i].line = Len(Lines) =>
              Everywhere(commands[i])
    BY <1>1, <1>2 DEF ExecuteInv
  <2>2. CASE i = 1
    BY <1>2, <2>1, <2>2 DEF Current
  <2>3. CASE i # 1
    BY <1>2, <2>1, <2>3
  <2> QED BY <2>2, <2>3
<1>8. commands' # <<>>
  BY <1>1, <1>2
<1>9. plan' \in Seq(PlanEntry) /\ Len(plan') = Len(plan)
  BY <1>1 DEF ExecuteInv
<1>10. ExecuteInv'
  BY <1>1, <1>2, <1>5, <1>6, <1>7, <1>8, <1>9 DEF ExecuteInv
<1> QED BY <1>2, <1>4, <1>10, ExecutingInv

(* The line of a command; the last one is the reset.                        *)
LEMMA CurrentLineFacts ==
    ASSUME ExecutorType, Current.line \in 1..Len(Lines)
    PROVE  /\ CurrentLine.op = "link" =>
                 /\ CurrentLine.from.ids \subseteq Nat /\ CurrentLine.to.ids \subseteq Nat
                 /\ CurrentLine.rule \in Rule
           /\ Current.line = Len(Lines) =>
                 /\ CurrentLine.op = "link" /\ CurrentLine.rule = NoDelay
                 /\ CurrentLine.from.all /\ CurrentLine.to.all
                 /\ CurrentLine.from.ids = {} /\ CurrentLine.to.ids = {}
<1> DEFINE line == Lines[Current.line]
           every == [all |-> TRUE, ids |-> {}, rand |-> 0]
           nobody == [every EXCEPT !.all = FALSE]
<1>1. line \in Line /\ (Current.line = Len(Lines) => line = ResetLine)
  BY LinesFacts
<1>2. CASE line.op = "reset"
  <2>1. CurrentLine = [op |-> "link", from |-> every, to |-> every, rule |-> NoDelay, bidirectional |-> FALSE]
    BY <1>2 DEF CurrentLine, Meaning
  <2> QED BY <2>1, RuleAssumption
<1>3. CASE line.op = "rlink" /\ line.n = 0
  <2>1. CurrentLine = [op |-> "link", from |-> nobody, to |-> nobody, rule |-> line.rule,
                       bidirectional |-> line.bidirectional]
    BY <1>3 DEF CurrentLine, Meaning
  <2>2. line.rule \in Rule
    BY <1>1, <1>3 DEF Line
  <2>3. Current.line # Len(Lines)
    BY <1>1, <1>3 DEF ResetLine
  <2> QED BY <2>1, <2>2, <2>3
<1>4. CASE line.op # "reset" /\ ~(line.op = "rlink" /\ line.n = 0)
  <2>1. CurrentLine = line
    BY <1>4 DEF CurrentLine, Meaning
  <2>2. line.op = "link" => line.from.ids \subseteq Nat /\ line.to.ids \subseteq Nat /\ line.rule \in Rule
    BY <1>1 DEF Line, IdList
  <2>3. Current.line # Len(Lines)
    BY <1>1, <1>4 DEF ResetLine
  <2> QED BY <2>1, <2>2, <2>3
<1> QED BY <1>2, <1>3, <1>4

(* One call of a network manager that succeeds.                             *)
LEMMA ModifiedNetwork ==
    ASSUME ExecutorType, mode' = mode, NEW l \in Link, NEW rule \in Rule,
           tc' = [tc EXCEPT ![Interface(mode, l[1])] = ModifyOutgoingConnection(@, l, rule)]
    PROVE  /\ tc' \in [Host -> Qdisc]
           /\ \A k \in Link : Network'[k] = IF k = l THEN rule ELSE Network[k]
<1> DEFINE i == Interface(mode, l[1])
           m == ModifyOutgoingConnection(tc[i], l, rule)
<1>1. i \in Host /\ tc \in [Host -> Qdisc] /\ tc[i] \in Qdisc
  BY SizeFacts DEF ExecutorType
<1>2. m \in Qdisc
  BY <1>1, QdiscTypes
<1>3. m.class[l] = rule /\ \A k \in Link : k # l => m.class[k] = tc[i].class[k]
  BY <1>1 DEF ModifyOutgoingConnection, Qdisc
<1>4. tc' = [tc EXCEPT ![i] = m]
  OBVIOUS
<1> HIDE DEF i, m
<1>5. tc' \in [Host -> Qdisc] /\ tc'[i] = m /\ \A h \in Host : h # i => tc'[h] = tc[h]
  BY <1>1, <1>2, <1>4
<1>6. ASSUME NEW k \in Link PROVE Network'[k] = IF k = l THEN rule ELSE Network[k]
  <2>1. Network'[k] = tc'[Interface(mode, k[1])].class[k] /\ Network[k] = tc[Interface(mode, k[1])].class[k]
    BY DEF Network, Interface
  <2>2. Interface(mode, k[1]) \in Host
    BY SizeFacts
  <2>3. CASE k = l
    BY <1>3, <1>5, <2>1, <2>3 DEF i
  <2>4. CASE k # l
    BY <1>3, <1>5, <2>1, <2>2, <2>4
  <2> QED BY <2>3, <2>4
<1> QED BY <1>5, <1>6

LEMMA ModifyConnectionInv ==
    ASSUME ExecutorInv, CommandStep, ModifyConnection
    PROVE  ExecutorInv'
<1>1. /\ phase = "execute" /\ commands # <<>> /\ Current.stage = "executing"
      /\ UNCHANGED <<file, mode, node, index, doOpen, pointers, rows>>
  BY DEF CommandStep, ModifyConnection
<1>2. /\ ExecutorType /\ ExecuteInv /\ commands \in Seq(Command)
      /\ Current.line \in 1..Len(Lines) /\ 1 \in DOMAIN commands
  BY <1>1, HeadFacts
<1>3. PICK c \in rpcs :
         \/ /\ CalledLink(c)[1] \in Host
            /\ ModifyOk(tc[Interface(mode, CalledLink(c)[1])], CalledLink(c), CurrentLine.rule)
            /\ tc' = [tc EXCEPT ![Interface(mode, CalledLink(c)[1])] =
                         ModifyOutgoingConnection(@, CalledLink(c), CurrentLine.rule)]
            /\ rpcs' = rpcs \ {c}
            /\ UNCHANGED <<phase, commands, plan, swallowed>>
         \/ RaiseTestException /\ UNCHANGED <<tc, rpcs>>
  BY DEF ModifyConnection
<1>4. CASE RaiseTestException /\ UNCHANGED <<tc, rpcs>>
  BY <1>1, <1>4, AbortInv DEF RaiseTestException
<1> DEFINE l == CalledLink(c)
<1>5. CASE /\ l \in Link /\ rpcs' = rpcs \ {c}
           /\ tc' = [tc EXCEPT ![Interface(mode, l[1])] = ModifyOutgoingConnection(@, l, CurrentLine.rule)]
           /\ UNCHANGED <<phase, commands, plan, swallowed>>
  <2>1. CurrentLine.op = "link" /\ CurrentLine.rule \in Rule
    BY <1>2, <1>3, CurrentLineFacts DEF ExecuteInv
  <2>2. tc' \in [Host -> Qdisc] /\ \A k \in Link : Network'[k] = IF k = l THEN CurrentLine.rule ELSE Network[k]
    BY <1>1, <1>2, <1>5, <2>1, ModifiedNetwork
  <2>3. Lines' = Lines /\ Current' = Current /\ CurrentLine' = CurrentLine
    BY <1>1, <1>5 DEF Lines, Current, CurrentLine, Meaning
  <2>4. ASSUME NEW k \in Link, Current.line = Len(Lines)
        PROVE  Network'[k] = NoDelay \/ <<k[1], k[2], 1>> \in rpcs'
    <3>1. CurrentLine.rule = NoDelay
      BY <1>2, <2>4, CurrentLineFacts
    <3>2. Network[k] = NoDelay \/ <<k[1], k[2], 1>> \in rpcs
      BY <1>1, <1>2, <2>4 DEF ExecuteInv
    <3>3. <<k[1], k[2], 1>> = c => k = l
      BY SizeFacts DEF CalledLink
    <3> QED BY <1>5, <2>2, <3>1, <3>2, <3>3
  <2>5. \A j \in DOMAIN commands : commands[j].stage # "check"
    BY <1>1, ChecksFirst
  <2>6. ResetInv'
    <3>1. ~\A j \in DOMAIN commands : commands[j].stage = "spent"
      BY <1>1, <1>2 DEF Current
    <3>2. ASSUME NEW i \in DOMAIN commands, FinalAt(commands, i, Len(plan)) PROVE ResetInv'
      <4>1. i \in DOMAIN commands' /\ FinalAt(commands', i, Len(plan'))
        BY <1>5, <3>2
      <4> QED BY <2>3, <4>1, FinalNext
    <3>3. CASE Len(plan) \in swallowed /\ \A j \in DOMAIN commands : commands[j].stage # "check"
      BY <1>5, <3>3 DEF ResetInv
    <3> QED BY <1>2, <3>1, <3>2, <3>3 DEF ExecuteInv, ResetInv
  <2>7. ExecuteInv'
    BY <1>2, <1>5, <2>3, <2>4, <2>6 DEF ExecuteInv
  <2>8. ExecutorType'
    BY <1>1, <1>2, <1>5, <2>2 DEF ExecutorType
  <2>9. CheckedFirst'
    BY <1>5, <2>5 DEF CheckedFirst
  <2> QED BY <1>1, <1>5, <2>7, <2>8, <2>9 DEF ExecutorInv, SetUpInv, ParserInv, NetworkRestored
<1> QED BY <1>3, <1>4, <1>5 DEF ModifyOk

(* What the steps below have in common.                                     *)
LEMMA StepFacts ==
    ASSUME ExecutorInv, CommandStep
    PROVE  /\ phase = "execute" /\ commands # <<>> /\ UNCHANGED <<file, mode, node, index, doOpen, pointers>>
           /\ Current \in Command /\ Current.line \in 1..Len(Lines) /\ Current.no \in Nat
           /\ ExecutorType /\ ExecuteInv /\ plan \in Seq(PlanEntry) /\ Len(plan) \in Nat
           /\ rpcs # {} => Current.stage = "executing" /\ CurrentLine.op = "link"
           /\ Current.line = Len(Lines) => CurrentLine.op = "link"
           /\ \A stage \in Stage : /\ [Current EXCEPT !.stage = stage] \in Command
                                   /\ [Current EXCEPT !.stage = stage].stage = stage
                                   /\ [Current EXCEPT !.stage = stage].no = Current.no
                                   /\ [Current EXCEPT !.stage = stage].line = Current.line
<1>1. phase = "execute" /\ commands # <<>> /\ UNCHANGED <<file, mode, node, index, doOpen, pointers>>
  BY DEF CommandStep
<1>2. /\ Current \in Command /\ Current.line \in 1..Len(Lines) /\ Len(plan) \in Nat
      /\ ExecutorType /\ ExecuteInv
  BY <1>1, HeadFacts
<1>3. /\ plan \in Seq(PlanEntry)
      /\ rpcs # {} => Current.stage = "executing" /\ CurrentLine.op = "link"
  BY <1>2 DEF ExecuteInv
<1>4. Current.line = Len(Lines) => CurrentLine.op = "link"
  BY <1>2, CurrentLineFacts
<1>5. ASSUME NEW stage \in Stage
      PROVE  /\ [Current EXCEPT !.stage = stage] \in Command
             /\ [Current EXCEPT !.stage = stage].stage = stage
             /\ [Current EXCEPT !.stage = stage].no = Current.no
             /\ [Current EXCEPT !.stage = stage].line = Current.line
  <2>1. CASE Current \in LinkCommand
    BY <2>1 DEF Command, LinkCommand
  <2>2. CASE Current \in [no : Nat, line : Nat, stage : Stage]
    BY <2>2 DEF Command, LinkCommand
  <2> QED BY <1>2, <2>1, <2>2 DEF Command
<1> QED BY <1>1, <1>2, <1>3, <1>4, <1>5, NumberTypes

LEMMA PlannedFacts ==
    ASSUME ExecutorInv, CommandStep, NEW links \in SUBSET Link, PlannedFor(links)
    PROVE  /\ plan' \in Seq(PlanEntry) /\ Len(plan') = Len(plan) + 1
           /\ plan'[Len(plan) + 1] = [line |-> Current.line, links |-> links]
           /\ \A j \in 1..Len(plan) : plan'[j] = plan[j]
<1> DEFINE e == [line |-> Current.line, links |-> links]
<1>1. e \in PlanEntry /\ plan \in Seq(PlanEntry)
  BY StepFacts, NumberTypes DEF PlanEntry
<1>2. plan' = Append(plan, e)
  BY DEF PlannedFor
<1> HIDE DEF e
<1>3. /\ plan' \in Seq(PlanEntry) /\ Len(plan') = Len(plan) + 1 /\ plan'[Len(plan) + 1] = e
      /\ \A j \in 1..Len(plan) : plan'[j] = plan[j]
  BY <1>1, <1>2, AppendProperties
<1> QED BY <1>3 DEF e

(* An exception of a command that attach_line drops.                        *)
LEMMA SwallowInv ==
    ASSUME ExecutorInv, CommandStep, Swallow, UNCHANGED <<tc, rows>>, rpcs' = {},
           IF Current.stage = "check" THEN \E links \in SUBSET Link : PlannedFor(links) ELSE plan' = plan
    PROVE  ExecutorInv'
<1>1. /\ Executing /\ commands' = Tail(commands) /\ swallowed \subseteq swallowed'
      /\ Current.no \in swallowed'
  BY StepFacts DEF Executing, Kept, Swallow
<1>2. plan' \in Seq(PlanEntry) /\ Len(plan') = Popped(commands, Len(plan))
  <2>1. CASE Current.stage = "check"
    <3>1. PICK links \in SUBSET Link : PlannedFor(links)
      BY <2>1
    <3>2. plan' \in Seq(PlanEntry) /\ Len(plan') = Len(plan) + 1
      BY <3>1, PlannedFacts
    <3> QED BY <2>1, <3>2 DEF Popped, Current
  <2>2. CASE Current.stage # "check"
    BY <2>2, StepFacts DEF Popped, Current
  <2> QED BY <2>1, <2>2
<1> QED BY <1>1, <1>2, PopInv

(* What becomes of a link that is checked.                                  *)
LEMMA CheckLinkCases ==
    ASSUME ExecutorInv, CommandStep, CheckLink
    PROVE  \/ RaiseTestException
           \/ Swallow /\ \E links \in SUBSET Link : PlannedFor(links)
           \/ \E c \in LinkCommand :
                 /\ c.no = Current.no /\ c.line = Current.line /\ c.stage = "execute"
                 /\ c.line = Len(Lines) => Everywhere(c)
                 /\ Requeue(c) /\ UNCHANGED <<phase, swallowed>>
                 /\ PlannedFor(LinksOf(c.sources, c.targets, CurrentLine.bidirectional))
<1>1. Current.stage = "check" /\ CurrentLine.op = "link"
  BY DEF CheckLink
<1> DEFINE Waits(sources, targets) ==
             [no |-> Current.no, line |-> Current.line, stage |-> "execute",
              sources |-> sources, targets |-> targets]
<1>2. CASE RaiseTestException \/ (Swallow /\ \E links \in SUBSET Link : PlannedFor(links))
  BY <1>2
<1>4. \A sources, targets, both : LinksOf(sources, targets, both) \in SUBSET Link
  BY DEF LinksOf
<1>3. ASSUME NEW d \in Draws(CurrentLine), NEW sources, NEW targets,
             sources = Resolve(CurrentLine.from, d[1]), targets = Resolve(CurrentLine.to, d[2]),
             Requeue(Waits(sources, targets)), UNCHANGED <<phase, swallowed>>,
             PlannedFor(LinksOf(sources, targets, CurrentLine.bidirectional))
      PROVE  \E c \in LinkCommand :
                 /\ c.no = Current.no /\ c.line = Current.line /\ c.stage = "execute"
                 /\ c.line = Len(Lines) => Everywhere(c)
                 /\ Requeue(c) /\ UNCHANGED <<phase, swallowed>>
                 /\ PlannedFor(LinksOf(c.sources, c.targets, CurrentLine.bidirectional))
  <2> DEFINE c == Waits(sources, targets)
  <2>1. d[1] \subseteq Host /\ d[2] \subseteq Host /\ Host \subseteq Nat
    BY <1>3, SizeFacts DEF Draws
  <2>2. /\ CurrentLine.from.ids \subseteq Nat /\ CurrentLine.to.ids \subseteq Nat
        /\ Current.line = Len(Lines) => /\ CurrentLine.from.all /\ CurrentLine.to.all
                                        /\ CurrentLine.from.ids = {} /\ CurrentLine.to.ids = {}
    BY <1>1, StepFacts, CurrentLineFacts
  <2>3. sources \subseteq Nat /\ targets \subseteq Nat
    BY <1>3, <2>1, <2>2 DEF Resolve
  <2>4. Current.line = Len(Lines) => sources = Host /\ targets = Host
    BY <1>3, <2>1, <2>2 DEF Resolve
  <2>5. Current.no \in Nat /\ Current.line \in Nat
    BY StepFacts, NumberTypes
  <2>6. /\ c \in LinkCommand /\ c.no = Current.no /\ c.line = Current.line /\ c.stage = "execute"
        /\ c.sources = sources /\ c.targets = targets /\ Requeue(c)
    BY <1>3, <2>3, <2>5 DEF LinkCommand, Stage
  <2> HIDE DEF c
  <2>7. c.line = Len(Lines) => Everywhere(c)
    BY <2>4, <2>6 DEF Everywhere
  <2>8. PlannedFor(LinksOf(c.sources, c.targets, CurrentLine.bidirectional))
    BY <1>3, <2>6
  <2> QED BY <1>3, <2>6, <2>7, <2>8
<1> QED BY <1>2, <1>3, <1>4 DEF CheckLink

LEMMA CheckLinkInv ==
    ASSUME ExecutorInv, CommandStep, CheckLink
    PROVE  ExecutorInv'
<1>1. /\ Current.stage = "check" /\ rpcs = {} /\ UNCHANGED <<rpcs, rows, tc>>
  BY StepFacts DEF CheckLink
<1>2. CASE RaiseTestException
  BY <1>1, <1>2, StepFacts, AbortInv DEF RaiseTestException
<1>3. CASE Swallow /\ \E links \in SUBSET Link : PlannedFor(links)
  BY <1>1, <1>3, SwallowInv
<1>4. ASSUME NEW c \in LinkCommand,
             c.no = Current.no, c.line = Current.line, c.stage = "execute",
             c.line = Len(Lines) => Everywhere(c), Requeue(c), UNCHANGED <<phase, swallowed>>,
             PlannedFor(LinksOf(c.sources, c.targets, CurrentLine.bidirectional))
      PROVE  ExecutorInv'
  <2>1. LinksOf(c.sources, c.targets, CurrentLine.bidirectional) \in SUBSET Link
    BY DEF LinksOf
  <2>2. c \in Command /\ Advanced(Current, c)
    BY <1>1, <1>4 DEF Command, Advanced
  <2>3. plan' \in Seq(PlanEntry) /\ Len(plan') = Popped(commands, Len(plan))
    <3>1. plan' \in Seq(PlanEntry) /\ Len(plan') = Len(plan) + 1
      BY <1>4, <2>1, PlannedFacts
    <3> QED BY <1>1, <3>1 DEF Popped, Current
  <2>4. Executing
    BY <1>1, <1>4, StepFacts DEF Executing, Kept
  <2> QED BY <1>1, <1>4, <2>2, <2>3, <2>4, RequeueInv
<1> QED BY <1>2, <1>3, <1>4, CheckLinkCases

LEMMA RandomLinksPlanned ==
    ASSUME CheckRandomLink
    PROVE  \E links \in SUBSET Link : PlannedFor(links)
<1>1. \A drawn \in SUBSET Link : WaysBack(drawn) \in SUBSET Link
  BY DEF WaysBack, Link
<1>2. PICK drawn \in SUBSET Link :
         PlannedFor(IF CurrentLine.bidirectional THEN drawn \cup WaysBack(drawn) ELSE drawn)
  BY DEF CheckRandomLink, RandomLinks
<1>3. (IF CurrentLine.bidirectional THEN drawn \cup WaysBack(drawn) ELSE drawn) \in SUBSET Link
  BY <1>1
<1> QED BY <1>2, <1>3

LEMMA CheckRandomLinkInv ==
    ASSUME ExecutorInv, CommandStep, CheckRandomLink
    PROVE  ExecutorInv'
BY StepFacts, SwallowInv, RandomLinksPlanned DEF CheckRandomLink

(* The two requeues that only change the stage.                             *)
LEMMA StageInv ==
    ASSUME ExecutorInv, CommandStep, UNCHANGED <<phase, tc, rpcs, swallowed>>, rpcs = {},
           NEW stage, Requeue([Current EXCEPT !.stage = stage]),
           \/ /\ Current.stage = "check" /\ stage = "execute" /\ CurrentLine.op # "link"
              /\ PlannedFor({}) /\ rows' = rows
           \/ Current.stage = "executing" /\ stage = "spent" /\ plan' = plan
    PROVE  ExecutorInv'
<1> DEFINE c == [Current EXCEPT !.stage = stage]
<1>1. stage \in Stage
  BY DEF Stage
<1>2. c \in Command /\ c.stage = stage /\ c.no = Current.no /\ c.line = Current.line /\ Requeue(c)
  BY <1>1, StepFacts
<1> HIDE DEF c
<1>3. Advanced(Current, c)
  BY <1>2 DEF Advanced
<1>4. c.stage = "execute" /\ c.line = Len(Lines) => Everywhere(c)
  BY <1>2, StepFacts
<1>5. plan' \in Seq(PlanEntry) /\ Len(plan') = Popped(commands, Len(plan))
  <2>1. CASE Current.stage = "check"
    <3>1. PlannedFor({}) /\ {} \in SUBSET Link
      BY <2>1
    <3>2. plan' \in Seq(PlanEntry) /\ Len(plan') = Len(plan) + 1
      BY <3>1, PlannedFacts
    <3> QED BY <2>1, <3>2 DEF Popped, Current
  <2>2. CASE Current.stage # "check"
    BY <2>2, StepFacts DEF Popped, Current
  <2> QED BY <2>1, <2>2
<1>6. Executing
  BY StepFacts DEF Executing, Kept
<1>7. rpcs' = {} /\ swallowed' = swallowed /\ (Current.stage = "check" => rows' = rows)
  OBVIOUS
<1> QED BY <1>2, <1>3, <1>4, <1>5, <1>6, <1>7, RequeueInv

LEMMA StartLinkInv ==
    ASSUME ExecutorInv, CommandStep, StartLink
    PROVE  ExecutorInv'
<1>1. Executing
  BY StepFacts DEF Executing, Kept, StartLink
<1>2. ASSUME Current.line = Len(Lines), NEW l \in Link PROVE <<l[1], l[2], 1>> \in rpcs'
  <2>1. Current.sources = Host /\ Current.targets = Host
    BY <1>1, <1>2, ExecutingFacts DEF ExecuteInv, StartLink, Everywhere, Current
  <2> QED BY <2>1, SizeFacts DEF StartLink, ModifyConnections
<1> QED BY <1>1, <1>2, StartInv DEF StartLink

LEMMA CommandStepInv ==
    ASSUME ExecutorInv, CommandStep
    PROVE  ExecutorInv'
<1>1. CASE CheckRun
  BY <1>1, StepFacts, StageInv DEF CheckRun
<1>2. CASE EndLink
  BY <1>2, StepFacts, StageInv DEF EndLink
<1>3. CASE EndRun
  BY <1>3, StepFacts, StageInv DEF EndRun
<1>4. CASE UnknownNode
  BY <1>4, SwallowInv DEF UnknownNode
<1>5. CASE ModifyRaises
  BY <1>5, SwallowInv DEF ModifyRaises
<1>6. CASE CallRun
  <2>1. Executing /\ rpcs' = {} /\ Current.line # Len(Lines)
    BY <1>6, StepFacts DEF Executing, Kept, CallRun
  <2> QED BY <1>6, <2>1, StartInv DEF CallRun
<1>7. CASE DropSpent
  <2>1. Executing /\ rpcs' = {} /\ plan' \in Seq(PlanEntry) /\ Len(plan') = Popped(commands, Len(plan))
    BY <1>7, StepFacts DEF Executing, Kept, DropSpent, Popped, Current
  <2> QED BY <1>7, <2>1, PopInv DEF DropSpent
<1> QED BY <1>1, <1>2, <1>3, <1>4, <1>5, <1>6, <1>7, CheckLinkInv, CheckRandomLinkInv, StartLinkInv,
           ModifyConnectionInv DEF CommandStep

LEMMA DoneInv ==
    ASSUME ExecutorInv, Done
    PROVE  ExecutorInv'
<1>1. /\ phase = "execute" /\ commands = <<>> /\ phase' = "done" /\ ExecuteInv
      /\ UNCHANGED <<tc, file, mode, node, index, doOpen, pointers, commands, plan, swallowed>>
  BY DEF ExecutorInv, Done
<1>2. Restored \/ Len(plan) \in swallowed
  BY <1>1 DEF ExecuteInv, ResetInv
<1>3. NetworkRestored'
  BY <1>1, <1>2 DEF NetworkRestored, Restored, Network
<1> QED BY <1>1, <1>3 DEF ExecutorInv, ExecutorType, SetUpInv, ParserInv, CheckedFirst

(* The daemon and the cluster leave what the executor keeps alone.          *)
LEMMA UnchangedInv ==
    ASSUME ExecutorInv, UNCHANGED <<tc, executorVars>>
    PROVE  ExecutorInv'
<1>1. /\ UNCHANGED <<tc, file, mode, phase, node, index, doOpen, pointers>>
      /\ UNCHANGED <<commands, rpcs, rows, plan, swallowed, failedRpcs>>
  BY DEF executorVars
<1>2. Lines' = Lines /\ Network' = Network /\ Current' = Current /\ CurrentLine' = CurrentLine
  BY <1>1 DEF Lines, Network, Current, CurrentLine, Meaning
<1>3. ExecuteInv => ExecuteInv'
  BY <1>1, <1>2 DEF ExecuteInv, ResetInv, FinalAt, Restored
<1>4. ParserInv' /\ SetUpInv'
  BY <1>1, <1>2 DEF ExecutorInv, ParserInv, SetUpInv, Restored
<1> QED BY <1>1, <1>2, <1>3, <1>4 DEF ExecutorInv, ExecutorType, CheckedFirst, NetworkRestored

LEMMA ExecutorInit == Init => ExecutorInv
<1> SUFFICES ASSUME Init PROVE ExecutorInv
  OBVIOUS
<1>1. tc \in [Host -> Qdisc]
  <2>1. CASE tc = [i \in Host |-> NoQdisc]
    BY <2>1, QdiscTypes
  <2>2. ASSUME NEW rule \in Rule,
               tc = [i \in Host |-> [root |-> TRUE,
                                     class |-> [l \in Link |-> IF l[1] = i THEN rule ELSE None]]]
        PROVE  tc \in [Host -> Qdisc]
    <3>1. ASSUME NEW i \in Host
          PROVE  [root |-> TRUE, class |-> [l \in Link |-> IF l[1] = i THEN rule ELSE None]] \in Qdisc
      BY DEF Qdisc
    <3> QED BY <2>2, <3>1
  <2> QED BY <2>1, <2>2 DEF Init, TcInit
<1>2. ExecutorType /\ ParserInv
  BY <1>1, SizeFacts DEF Init, ExecutorType, ParserInv
<1>3. SetUpInv
  BY SizeFacts DEF Init, SetUpInv
<1> QED BY <1>2, <1>3 DEF Init, ExecutorInv, CheckedFirst, NetworkRestored

LEMMA ExecutorInvariant == Spec => []ExecutorInv
<1>1. ASSUME ExecutorInv, [Next]_vars PROVE ExecutorInv'
  <2>1. CASE UNCHANGED vars \/ UNCHANGED <<tc, executorVars>>
    BY <1>1, <2>1, UnchangedInv DEF vars
  <2> QED BY <1>1, <2>1, NetemMasterInv, ParseLineInv, ParsedInv, CommandStepInv, DoneInv
          DEF Next, ExecutorStep
<1> QED BY <1>1, ExecutorInit, PTL DEF Spec

(* CheckedFirst, for every test file: no rule is set and nothing is measured*)
(* before CommandUnwrapper has passed every command of the file.            *)
THEOREM FileCheckedFirst == Spec => []CheckedFirst
<1>1. ExecutorInv => CheckedFirst
  BY DEF ExecutorInv
<1> QED BY <1>1, ExecutorInvariant, PTL

(* NetworkRestored, for every test file: main ends with the network as it   *)
(* was set up, whatever calls to the network managers raised, unless the    *)
(* exception was one of the final reset.                                    *)
THEOREM NetworkIsRestored == Spec => []NetworkRestored
<1>1. ExecutorInv => NetworkRestored
  BY DEF ExecutorInv
<1> QED BY <1>1, ExecutorInvariant, PTL
=============================================================================
