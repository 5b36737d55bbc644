---------------------------- MODULE TestExecutor ----------------------------
(***************************************************************************)
(* test_executor.py: parses a test file, checks all its commands, and then *)
(* executes them one after the other against the network managers and the  *)
(* test daemon, which are composed with it here.                           *)
(*                                                                         *)
(* A line of a test file is a record; op is                                *)
(*   "link"   from ... to ... [bidirectional] set rule                     *)
(*   "rlink"  on n connections [bidirectional] set rule                    *)
(*   "reset", "run" (n operations), "do", "times" (n times)                *)
(*   "blank", "unknown"                                                    *)
(* The ids of a link are [all, ids, rand]: whether `all' is among them, the*)
(* numbers, and how many `rand'.                                           *)
(***************************************************************************)
EXTENDS NetemManager, TestDaemon, Integers

CONSTANTS TestFile,        \* the test files, sequences of lines
          Mode,            \* the modes a configuration may have: "local", "gce"
          MaxFailedRpcs    \* bound: calls to network managers that raise

IdList == [all : BOOLEAN, ids : SUBSET Nat, rand : Nat]
Line == [op : {"link"}, from : IdList, to : IdList, rule : Rule, bidirectional : BOOLEAN]
        \cup [op : {"rlink"}, n : Nat, rule : Rule, bidirectional : BOOLEAN]
        \cup [op : {"run", "times"}, n : Nat]
        \cup [op : {"reset", "do", "blank", "unknown"}]

ASSUME TestFileAssumption == TestFile \subseteq Seq(Line)

VARIABLES file, mode,      \* what the program was started with
          phase,           \* how far main is
          node,            \* the loop variable of NetemMaster's set up
          index, doOpen, pointers,   \* the locals of Parser.parse
          commands,        \* the list main pops from and appends to
          rpcs,            \* the links the command being executed has still to change
          rows,            \* the csv file: for each run its command and the network it met
          plan,            \* history: for each command checked its line and the links it is for
          swallowed,       \* history: the commands whose exception attach_line dropped
          failedRpcs

executorVars == <<file, mode, phase, node, index, doOpen, pointers, commands, rpcs, rows, plan, swallowed, failedRpcs>>
vars == <<tc, daemonVars, executorVars>>

Size == Cardinality(Host)
ResetLine == [op |-> "reset"]

---------------------------------------------------------------------------
(* main: the configuration, and NetemMaster's set up of the network, one    *)
(* node after the other in the order of the configuration: every node is    *)
(* cleaned and gets its root before the classes of any of them are made.    *)
(* The first that fails, or cannot be called, ends the program.             *)

Init ==
    /\ TcInit /\ DaemonInit
    /\ file \in TestFile /\ mode \in Mode
    /\ phase = "clean" /\ node = 1 /\ index = 1 /\ doOpen = 0 /\ pointers = <<>>
    /\ commands = <<>> /\ rpcs = {} /\ rows = <<>> /\ plan = <<>> /\ swallowed = {} /\ failedRpcs = 0

NextNode(after) ==
    IF node < Size THEN node' = node + 1 /\ UNCHANGED phase
    ELSE node' = 1 /\ phase' = after

CleanNode ==
    /\ phase = "clean"
    /\ tc' = [tc EXCEPT ![Interface(mode, node)] = CreateRootQdisc(CleanAllQdisc(@))]
    /\ NextNode("init")
    /\ UNCHANGED failedRpcs

InitNode ==
    /\ phase = "init"
    /\ LET i == Interface(mode, node)
       IN  IF InitQdiscOk(tc[i], node)
           THEN tc' = [tc EXCEPT ![i] = InitQdisc(@, node)] /\ NextNode("parse")
           ELSE phase' = "aborted" /\ UNCHANGED <<tc, node>>
    /\ UNCHANGED failedRpcs

SetUpRaises ==
    /\ phase \in {"clean", "init"} /\ failedRpcs < MaxFailedRpcs
    /\ failedRpcs' = failedRpcs + 1
    /\ phase' = "aborted"
    /\ UNCHANGED <<tc, node>>

NetemMaster ==
    /\ CleanNode \/ InitNode \/ SetUpRaises
    /\ UNCHANGED <<daemonVars, file, mode, index, doOpen, pointers, commands, rpcs, rows, plan, swallowed>>

---------------------------------------------------------------------------
(* Parser.parse: loops are unrolled with one pointer per level, counted from*)
(* 1 here (do_open + 1 in the code).  A pointer is [start, repetition].     *)

(* Mutation: no reset at the end.                                           *)
LinesAsWritten == file

(* test_file.append("reset")                                                *)
Lines == Append(file, ResetLine)

(* pointers[do_open]: below the first level Python counts from the end.     *)
Level(d) == IF d > 0 THEN d ELSE Len(pointers) + d
SyntaxError == phase' = "aborted" /\ UNCHANGED <<index, doOpen, pointers, commands>>

OpenLoop ==
    LET p == [start |-> index, repetition |-> 1]
    IN  /\ doOpen' = doOpen + 1
        /\ pointers' = IF Len(pointers) < doOpen + 1 THEN Append(pointers, p)
                       ELSE [pointers EXCEPT ![Level(doOpen + 1)] = p]
        /\ index' = index + 1
        /\ UNCHANGED <<phase, commands>>

Repeat ==
    /\ index' = pointers[Level(doOpen)].start + 1
    /\ pointers' = [pointers EXCEPT ![Level(doOpen)].repetition = @ + 1]
    /\ UNCHANGED <<doOpen, phase, commands>>
LeaveLoop ==
    /\ doOpen' = doOpen - 1
    /\ index' = index + 1
    /\ UNCHANGED <<pointers, phase, commands>>

(* Mutation: one repetition too many.                                       *)
CloseLoopOnceMore(n) ==
    IF Level(doOpen) < 1 THEN SyntaxError
    ELSE IF pointers[Level(doOpen)].repetition <= n THEN Repeat ELSE LeaveLoop

CloseLoop(n) ==
    IF Level(doOpen) < 1 THEN SyntaxError
    ELSE IF pointers[Level(doOpen)].repetition < n THEN Repeat ELSE LeaveLoop

SkipLine == index' = index + 1 /\ UNCHANGED <<doOpen, pointers, phase, commands>>

AddCommand ==
    /\ commands' = Append(commands, [no |-> Len(commands) + 1, line |-> index, stage |-> "check"])
    /\ index' = index + 1
    /\ UNCHANGED <<doOpen, pointers, phase>>

ParseLine ==
    /\ phase = "parse" /\ index <= Len(Lines)
    /\ LET line == Lines[index]
       IN  CASE line.op = "blank" -> SkipLine
             [] line.op = "unknown" -> SyntaxError
             [] line.op = "do" -> OpenLoop
             [] line.op = "times" -> CloseLoop(line.n)
             [] OTHER -> AddCommand
    /\ UNCHANGED <<tc, daemonVars, file, mode, node, rpcs, rows, plan, swallowed, failedRpcs>>

Parsed ==
    /\ phase = "parse" /\ index > Len(Lines)
    /\ phase' = "execute"
    /\ UNCHANGED <<tc, daemonVars, file, mode, node, index, doOpen, pointers, commands, rpcs, rows, plan, swallowed, failedRpcs>>

---------------------------------------------------------------------------
(* main's loop: the first command is called, and what it returns goes to the*)
(* end of the list.  A command is called three times: CommandUnwrapper      *)
(* checks it, Executor executes it, and the last call has nothing to do.    *)

Current == commands[1]

(* reset is a link from all to all, and `on 0 connections' one from none to *)
(* none.                                                                    *)
Meaning(i) ==
    LET line == Lines[i]
        every == [all |-> TRUE, ids |-> {}, rand |-> 0]
        nobody == [every EXCEPT !.all = FALSE]
        link(ids, rule, both) ==
            [op |-> "link", from |-> ids, to |-> ids, rule |-> rule, bidirectional |-> both]
    IN  CASE line.op = "reset" -> link(every, NoDelay, FALSE)
          [] line.op = "rlink" /\ line.n = 0 -> link(nobody, line.rule, line.bidirectional)
          [] OTHER -> line

CurrentLine == Meaning(Current.line)

(* Mutation: the command is executed as soon as it is checked.              *)
RequeueFirst(c) == commands' = <<c>> \o Tail(commands)

Requeue(c) == commands' = Append(Tail(commands), c)

(* attach_line: a TestException ends the program; any other exception is    *)
(* dropped, and the command with it.                                        *)
RaiseTestException == phase' = "aborted" /\ UNCHANGED <<commands, plan, swallowed>>
Swallow == commands' = Tail(commands) /\ swallowed' = swallowed \cup {Current.no} /\ UNCHANGED phase

PlannedFor(links) == plan' = Append(plan, [line |-> Current.line, links |-> links])

(* resolve_ids: the numbers used, and how many other nodes `rand' needs.    *)
Referred(line) == line.from.ids \cup line.to.ids
IdError(line) ==
    \/ Cardinality(Referred(line)) + line.from.rand + line.to.rand > Size
    \/ \E i \in Referred(line) : i > Size

(* One side of a link, given the nodes drawn for its `rand's.               *)
Resolve(ids, drawn) == ids.ids \cup drawn \cup (IF ids.all THEN Host ELSE {})
Draws(line) ==
    {d \in (SUBSET (Host \ Referred(line))) \X (SUBSET (Host \ Referred(line))) :
        d[1] \cap d[2] = {} /\ Cardinality(d[1]) = line.from.rand /\ Cardinality(d[2]) = line.to.rand}

(* The links a command is for.                                              *)
LinksOf(sources, targets, bidirectional) ==
    {l \in Link : \/ l[1] \in sources /\ l[2] \in targets
                  \/ bidirectional /\ l[2] \in sources /\ l[1] \in targets}

(* modify_link_from_to of CommandUnwrapper.  In local mode single sources   *)
(* are refused; the test of the targets of a bidirectional link compares a  *)
(* set with a number, which raises a TypeError.                             *)
CheckLink ==
    /\ Current.stage = "check" /\ CurrentLine.op = "link"
    /\ IF IdError(CurrentLine) THEN RaiseTestException
       ELSE \E d \in Draws(CurrentLine) :
              LET sources == Resolve(CurrentLine.from, d[1])
                  targets == Resolve(CurrentLine.to, d[2])
              IN  CASE mode = "local" /\ Cardinality(sources) < Size - 1 -> RaiseTestException
                    [] mode = "local" /\ Cardinality(sources) >= Size - 1 /\ CurrentLine.bidirectional ->
                         Swallow /\ PlannedFor(LinksOf(sources, targets, TRUE))
                    [] OTHER ->
                         /\ Requeue([no |-> Current.no, line |-> Current.line, stage |-> "execute",
                                     sources |-> sources, targets |-> targets])
                         /\ PlannedFor(LinksOf(sources, targets, CurrentLine.bidirectional))
                         /\ UNCHANGED <<phase, swallowed>>
    /\ UNCHANGED <<rpcs, rows, failedRpcs, tc, daemonVars>>

(* The n different connections an "on n connections" line is for: of a link  *)
(* and its reverse only one is drawn when the line is bidirectional.        *)
WaysBack(links) == {<<l[2], l[1]>> : l \in links}
RandomLinks(line) ==
    {drawn \in SUBSET Link : /\ Cardinality(drawn) = line.n
                             /\ line.bidirectional => drawn \cap WaysBack(drawn) = {}}

(* modify_random_link draws them (for ever, if there are not so many), then *)
(* passes numbers where resolve_ids takes strings.                          *)
CheckRandomLink ==
    /\ Current.stage = "check" /\ CurrentLine.op = "rlink"
    /\ Swallow
    /\ \E drawn \in RandomLinks(CurrentLine) :
          PlannedFor(IF CurrentLine.bidirectional THEN drawn \cup WaysBack(drawn) ELSE drawn)
    /\ UNCHANGED <<rpcs, rows, failedRpcs, tc, daemonVars>>

CheckRun ==
    /\ Current.stage = "check" /\ CurrentLine.op = "run"
    /\ Requeue([Current EXCEPT !.stage = "execute"])
    /\ PlannedFor({})
    /\ UNCHANGED <<phase, swallowed, rpcs, rows, failedRpcs, tc, daemonVars>>

---------------------------------------------------------------------------
(* Executor and NetemMaster: one call to a network manager at a time.       *)

(* Mutation: a bidirectional rule is set in one direction.                  *)
ModifyConnectionsOneWay(sources, targets, bidirectional) ==
    {c \in sources \X targets \X {1, 2} : c[1] # c[2] /\ c[3] = 1}

(* modify_connections: a call <<source, target, 1>> for each source and each*)
(* other target, and <<source, target, 2>> for the way back.                *)
ModifyConnections(sources, targets, bidirectional) ==
    {c \in sources \X targets \X {1, 2} : c[1] # c[2] /\ (c[3] = 2 => bidirectional)}

(* The order of the two for loops, the way back right after the way there.  *)
NotAfter(c, d) ==
    \/ c[1] < d[1]
    \/ c[1] = d[1] /\ (c[2] < d[2] \/ (c[2] = d[2] /\ c[3] <= d[3]))

CalledLink(c) == IF c[3] = 1 THEN <<c[1], c[2]>> ELSE <<c[2], c[1]>>

StartLink ==
    /\ Current.stage = "execute" /\ CurrentLine.op = "link"
    /\ rpcs' = ModifyConnections(Current.sources, Current.targets, CurrentLine.bidirectional)
    /\ commands' = [commands EXCEPT ![1].stage = "executing"]
    /\ UNCHANGED <<phase, rows, plan, swallowed, failedRpcs, tc, daemonVars>>

ModifyConnection ==
    /\ Current.stage = "executing"
    /\ \E c \in rpcs :
          /\ \A d \in rpcs : NotAfter(c, d)
          /\ LET l == CalledLink(c)
                 i == Interface(mode, l[1])
             IN  /\ l[1] \in Host
                 /\ IF ModifyOk(tc[i], l, CurrentLine.rule)
                    THEN /\ tc' = [tc EXCEPT ![i] = ModifyOutgoingConnection(@, l, CurrentLine.rule)]
                         /\ rpcs' = rpcs \ {c}
                         /\ UNCHANGED <<phase, commands, plan, swallowed>>
                    ELSE RaiseTestException /\ UNCHANGED <<tc, rpcs>>
    /\ UNCHANGED <<rows, failedRpcs, daemonVars>>

(* nodes_rpc has no node 0, which passes the checks: the KeyError drops the *)
(* rest of the command.                                                     *)
UnknownNode ==
    /\ Current.stage = "executing"
    /\ \E c \in rpcs : (\A d \in rpcs : NotAfter(c, d)) /\ CalledLink(c)[1] \notin Host
    /\ rpcs' = {} /\ Swallow
    /\ UNCHANGED <<rows, plan, failedRpcs, tc, daemonVars>>

(* A call that raises (the manager is away): the rest of the command is     *)
(* dropped and the program goes on.                                         *)
ModifyRaises ==
    /\ Current.stage = "executing" /\ rpcs # {}
    /\ failedRpcs < MaxFailedRpcs
    /\ failedRpcs' = failedRpcs + 1
    /\ rpcs' = {} /\ Swallow
    /\ UNCHANGED <<rows, plan, tc, daemonVars>>

EndLink ==
    /\ Current.stage = "executing" /\ CurrentLine.op = "link" /\ rpcs = {}
    /\ Requeue([Current EXCEPT !.stage = "spent"])
    /\ UNCHANGED <<phase, rpcs, rows, plan, swallowed, failedRpcs, tc, daemonVars>>

(* run_command: the call to the daemon lasts until all is measured.         *)
CallRun ==
    /\ Current.stage = "execute" /\ CurrentLine.op = "run"
    /\ StartRun(CurrentLine.n)
    /\ commands' = [commands EXCEPT ![1].stage = "executing"]
    /\ UNCHANGED <<phase, rpcs, rows, plan, swallowed, failedRpcs, tc>>

Network == [l \in Link |-> tc[Interface(mode, l[1])].class[l]]

EndRun ==
    /\ Current.stage = "executing" /\ CurrentLine.op = "run"
    /\ RunReturns
    /\ rows' = Append(rows, [no |-> Current.no, net |-> Network])
    /\ Requeue([Current EXCEPT !.stage = "spent"])
    /\ UNCHANGED <<phase, rpcs, plan, swallowed, failedRpcs, tc>>

DropSpent ==
    /\ Current.stage = "spent"
    /\ commands' = Tail(commands)
    /\ UNCHANGED <<phase, rpcs, rows, plan, swallowed, failedRpcs, tc, daemonVars>>

CommandStep ==
    /\ phase = "execute" /\ commands # <<>>
    /\ \/ CheckLink \/ CheckRandomLink \/ CheckRun
       \/ StartLink \/ ModifyConnection \/ UnknownNode \/ ModifyRaises \/ EndLink
       \/ CallRun \/ EndRun \/ DropSpent
    /\ UNCHANGED <<file, mode, node, index, doOpen, pointers>>

Done ==
    /\ phase = "execute" /\ commands = <<>>
    /\ phase' = "done"
    /\ UNCHANGED <<tc, daemonVars, file, mode, node, index, doOpen, pointers, commands, rpcs, rows, plan, swallowed, failedRpcs>>

ExecutorStep == NetemMaster \/ ParseLine \/ Parsed \/ CommandStep \/ Done

Next ==
    \/ ExecutorStep
    \/ DaemonStep /\ UNCHANGED <<tc, executorVars>>
    \/ ClusterStep /\ UNCHANGED <<tc, executorVars>>

(* The executor and the daemon do not stop, and the cluster acknowledges.   *)
Spec ==
    /\ Init /\ [][Next]_vars
    /\ WF_vars(ExecutorStep)
    /\ WF_vars(DaemonStep /\ UNCHANGED <<tc, executorVars>>)
    /\ WF_vars(ClusterStep /\ UNCHANGED <<tc, executorVars>>)

---------------------------------------------------------------------------
(* Properties.                                                              *)

(* The whole file is checked before anything of it is executed: while a     *)
(* command is unchecked the network is as it was set up and nothing is      *)
(* measured.                                                                *)
CheckedFirst ==
    phase = "execute" /\ (\E i \in DOMAIN commands : commands[i].stage = "check") =>
        rows = <<>> /\ \A l \in Link : Network[l] = NoDelay

(* The last of the commands before command k that are for link l, or 0, and *)
(* the rule that l has by the plan when command k is executed.              *)
Governs(k, l) ==
    LET on == {j \in 1..(k - 1) : l \in plan[j].links}
    IN  IF on = {} THEN 0 ELSE CHOOSE j \in on : \A i \in on : i <= j
Planned(k, l) == IF Governs(k, l) = 0 THEN NoDelay ELSE Meaning(plan[Governs(k, l)].line).rule

(* Each run meets on every link the rule that the commands before it in the *)
(* unrolled file describe, whatever was dropped of earlier commands for that*)
(* link, unless it is the last one for it that an exception dropped.        *)
MeasuredAsPlanned ==
    \A i \in DOMAIN rows : \A l \in Link :
        Governs(rows[i].no, l) \notin swallowed => rows[i].net[l] = Planned(rows[i].no, l)

(* A test that completes leaves no rule behind, whatever went wrong before  *)
(* the last command, unless the final reset itself was dropped.             *)
NetworkRestored ==
    phase = "done" /\ Len(plan) \notin swallowed => \A l \in Link : Network[l] = NoDelay

(* Every test ends: the daemon's run returns although it spins on an        *)
(* acknowledgement another thread delivers and calls are retried.           *)
TestEnds == <>(phase \in {"done", "aborted"})
=============================================================================
