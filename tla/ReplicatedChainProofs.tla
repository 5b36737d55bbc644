------------------------ MODULE ReplicatedChainProofs ------------------------
(***************************************************************************)
(* The proof that the cluster of ReplicatedValue implements the one chain  *)
(* of ReplicatedChain.                                                     *)
(***************************************************************************)
EXTENDS ReplicatedValueProofs, Sequences, SequenceTheorems

-----------------------------------------------------------------------------
(* The reported links are the first ones of the chain, without a gap, and a *)
(* node that has not moved yet holds no value.                              *)
ChainInv ==
    /\ \E k \in Nat : ReportedLinks = 1 .. k
    /\ \A n \in Node : state[n].instance_number = 0 => state[n].current_value = NoValue

(* The chain that a set U of updates determines: it covers the links of U   *)
(* if these have no gap and no link has two values.                         *)
Covers(U, k) ==
    /\ U \subseteq (Nat \X Value) /\ {e[1] : e \in U} = 1 .. k
    /\ \A e, f \in U : e[1] = f[1] => e[2] = f[2]

ChainOf(U) == [i \in 1 .. Cardinality({e[1] : e \in U}) |-> CHOOSE v \in Value : <<i, v>> \in U]

LEMMA ChainOfUpdates ==
    ASSUME NEW U, NEW k \in Nat, Covers(U, k)
    PROVE  /\ ChainOf(U) \in Seq(Value) /\ Len(ChainOf(U)) = k
           /\ \A i \in 1 .. k : ChainOf(U)[i] \in Value /\ <<i, ChainOf(U)[i]>> \in U
           /\ \A e \in U : e[1] \in 1 .. k /\ ChainOf(U)[e[1]] = e[2]
<1>1. Cardinality({e[1] : e \in U}) = k
  <2>1. Cardinality(1 .. k) = k
    BY FS_Interval
  <2> QED BY <2>1 DEF Covers
<1>2. \A i \in 1 .. k : \E v \in Value : <<i, v>> \in U
  <2> SUFFICES ASSUME NEW i \in 1 .. k PROVE \E v \in Value : <<i, v>> \in U
    OBVIOUS
  <2>1. PICK e \in U : e[1] = i
    BY DEF Covers
  <2>2. e = <<i, e[2]>> /\ e[2] \in Value
    BY <2>1 DEF Covers
  <2> QED BY <2>1, <2>2
<1>3. ChainOf(U) = [i \in 1 .. k |-> CHOOSE v \in Value : <<i, v>> \in U]
  BY <1>1 DEF ChainOf
<1>4. \A i \in 1 .. k : ChainOf(U)[i] \in Value /\ <<i, ChainOf(U)[i]>> \in U
  BY <1>2, <1>3
<1>5. ChainOf(U) \in Seq(Value) /\ Len(ChainOf(U)) = k
  <2> HIDE DEF ChainOf
  <2>1. ChainOf(U) \in [1 .. k -> Value]
    BY <1>3, <1>4
  <2>2. ChainOf(U) \in Seq(Value)
    BY <2>1, SeqDef
  <2>3. 1 .. Len(ChainOf(U)) = 1 .. k /\ Len(ChainOf(U)) \in Nat
    BY <2>1, <2>2, LenProperties
  <2> QED BY <2>2, <2>3
<1>6. ASSUME NEW e \in U PROVE e[1] \in 1 .. k /\ ChainOf(U)[e[1]] = e[2]
  <2>1. e[1] \in 1 .. k
    BY DEF Covers
  <2>2. <<e[1], ChainOf(U)[e[1]]>> \in U
    BY <1>4, <2>1
  <2> HIDE DEF ChainOf
  <2>3. \A i, v : <<i, v>> \in U /\ i = e[1] => v = e[2]
    BY DEF Covers
  <2> QED BY <2>1, <2>2, <2>3
<1> QED BY <1>4, <1>5, <1>6

(* One more update either is in the chain already or appends its value.     *)
LEMMA ChainGrows ==
    ASSUME NEW U, NEW k \in Nat, Covers(U, k), NEW v \in Value,
           Covers(U \cup {<<k + 1, v>>}, k + 1)
    PROVE  ChainOf(U \cup {<<k + 1, v>>}) = Append(ChainOf(U), v)
<1> DEFINE W == U \cup {<<k + 1, v>>}
           c == ChainOf(U)
           d == ChainOf(W)
<1>1. /\ c \in Seq(Value) /\ Len(c) = k
      /\ \A i \in 1 .. k : <<i, c[i]>> \in U
  BY ChainOfUpdates
<1>2. /\ d \in Seq(Value) /\ Len(d) = k + 1
      /\ \A e \in W : d[e[1]] = e[2]
  <2>1. k + 1 \in Nat /\ Covers(W, k + 1)
    OBVIOUS
  <2> HIDE DEF W
  <2> QED BY <2>1, ChainOfUpdates
<1>3. d[k + 1] = v /\ \A i \in 1 .. k : d[i] = c[i]
  <2>1. \A a, b : <<a, b>> \in W => d[a] = b
    BY <1>2
  <2> HIDE DEF c, d
  <2> QED BY <1>1, <2>1
<1> HIDE DEF c, d
<1>4. /\ Append(c, v) \in Seq(Value) /\ Len(Append(c, v)) = k + 1
      /\ Append(c, v)[k + 1] = v /\ \A i \in 1 .. k : Append(c, v)[i] = c[i]
  BY <1>1, AppendProperties
<1>5. \A i \in 1 .. (k + 1) : d[i] = Append(c, v)[i]
  BY <1>3, <1>4
<1> QED BY <1>2, <1>4, <1>5, SeqEqual DEF c, d

-----------------------------------------------------------------------------
(* What a step does to the attributes the chain is made of: nothing, or one *)
(* node moves forward and reports.                                          *)
Advances(n, j, v) ==
    /\ j \in Nat /\ v \in Value /\ j > state[n].instance_number
    /\ j = state[n].instance_number + 1 \/ <<j, v>> \in updates
    /\ \A k \in Node : /\ state'[k].instance_number = IF k = n THEN j ELSE state[k].instance_number
                       /\ state'[k].current_value = IF k = n THEN v ELSE state[k].current_value
    /\ updates' = updates \cup {<<j, v>>}

Rests ==
    /\ \A k \in Node : /\ state'[k].instance_number = state[k].instance_number
                       /\ state'[k].current_value = state[k].current_value
    /\ updates' = updates

LEMMA StepAdvancesOrRests ==
    ASSUME IInv, [Next]_vars
    PROVE  Rests \/ \E n \in Node : \E j, v : Advances(n, j, v)
<1>0. TypeOK /\ \A k \in Node : state[k].instance_number \in Nat
  BY NodeTypes DEF IInv
<1>1. ASSUME NEW n \in Node, NEW j \in Nat, NEW v \in Value, AdvanceInstance(n, j, v),
             j > state[n].instance_number,
             j = state[n].instance_number + 1 \/ <<j, v>> \in updates
      PROVE  Advances(n, j, v)
  <2> DEFINE s == SavedState(j, v, NoId, NoId, NoValue)
  <2>1. s.instance_number = j /\ s.current_value = v
    BY DEF SavedState
  <2>2. state' = [state EXCEPT ![n] = s] /\ updates' = updates \cup {<<j, v>>}
    BY <1>1 DEF AdvanceInstance, BaseAdvance
  <2> HIDE DEF s
  <2>3. \A k \in Node : state'[k] = IF k = n THEN s ELSE state[k]
    BY <1>0, <2>2 DEF TypeOK
  <2> QED BY <1>1, <2>1, <2>2, <2>3 DEF Advances
<1>2. ASSUME NEW n \in Node, NEW a, NEW b, NEW c, UNCHANGED updates,
             state' = [state EXCEPT ![n] = SavedState(inst(n), state[n].current_value, a, b, c)]
      PROVE  Rests
  <2> DEFINE s == SavedState(inst(n), state[n].current_value, a, b, c)
  <2>1. s.instance_number = state[n].instance_number /\ s.current_value = state[n].current_value
    BY DEF SavedState, inst
  <2>2. \A k \in Node : state'[k] = IF k = n THEN s ELSE state[k]
    BY <1>0, <1>2 DEF TypeOK
  <2> HIDE DEF s
  <2> QED BY <1>2, <2>1, <2>2 DEF Rests
<1>3. CASE UNCHANGED <<state, updates>>
  BY <1>3 DEF Rests
<1>4. ASSUME NEW n \in Node, NEW m \in msgs, Receive(n, m), ~UNCHANGED <<state, updates>>
      PROVE  Rests \/ \E j, v : Advances(n, j, v)
  <2>0. m \in Message /\ m.inst \in Nat
    BY <1>0, MessageFields DEF TypeOK
  <2>1. CASE ReceivePrepare(n, m)
    BY <1>2, <1>4, <2>1 DEF ReceivePrepare
  <2>2. CASE ReceiveAccept(n, m)
    BY <1>2, <1>4, <2>2 DEF ReceiveAccept
  <2>3. CASE ReceiveAccepted(n, m)
    <3>1. m.val \in Value /\ inst(n) = state[n].instance_number /\ inst(n) + 1 \in Nat
      BY <1>0, <2>0, <2>3, MessageFields DEF ReceiveAccepted, inst
    <3>2. AdvanceInstance(n, inst(n) + 1, m.val)
      BY <1>4, <2>3 DEF ReceiveAccepted
    <3>3. inst(n) + 1 > state[n].instance_number /\ inst(n) + 1 = state[n].instance_number + 1
      BY <1>0, <3>1
    <3>4. Advances(n, inst(n) + 1, m.val)
      BY <1>1, <3>1, <3>2, <3>3
    <3> QED BY <3>4
  <2>4. CASE ReceiveCatchup(n, m)
    <3>1. m.val \in Value /\ m.inst > state[n].instance_number /\ AdvanceInstance(n, m.inst, m.val)
      BY <2>0, <2>4, MessageFields DEF ReceiveCatchup, inst
    <3>2. <<m.inst, m.val>> \in updates
      BY <2>4 DEF ReceiveCatchup, IInv, MsgInv
    <3> QED BY <1>1, <2>0, <3>1, <3>2
  <2> QED BY <1>4, <2>1, <2>2, <2>3, <2>4
          DEF Receive, ReceiveNack, ReceivePromise, ReceiveSyncRequest
<1> QED BY <1>3, <1>4 DEF Next, vars, ProposeUpdate, DelayedDrive, Retransmit, SendSyncRequest

(* The updates of a reachable state cover the chain.                        *)
LEMMA UpdatesCover ==
    ASSUME IInv, NEW k \in Nat, ReportedLinks = 1 .. k
    PROVE  Covers(updates, k)
<1>1. ChainAgreement
  BY InvImplies
<1>2. updates \subseteq (Nat \X Value)
  BY BoundAssumption DEF IInv, TypeOK, Instance
<1> QED BY <1>1, <1>2 DEF Covers, ChainAgreement, ReportedLinks

(* A step of the cluster keeps the reported links without a gap, and is a   *)
(* step of the abstract chain or leaves it alone.                           *)
LEMMA ChainStep ==
    ASSUME IInv, TypeOK', ChainAgreement', ChainInv, [Next]_vars
    PROVE  ChainInv' /\ [Abstract!Next]_(Abstract!vars)
<1> DEFINE number == [n \in Node |-> state[n].instance_number]
           value == [n \in Node |-> state[n].current_value]
<1>0. PICK k \in Nat : ReportedLinks = 1 .. k
  BY DEF ChainInv
<1>1. Covers(updates, k) /\ \A n \in Node : state[n].instance_number \in Nat
  BY <1>0, UpdatesCover, NodeTypes DEF IInv
<1>2. ReportedChain = ChainOf(updates) /\ ReportedChain' = ChainOf(updates')
  BY DEF ReportedChain, ReportedLinks, ChainOf
<1>3. CASE Rests
  <2>1. number' = number /\ value' = value
    BY <1>3 DEF Rests
  <2>2. ReportedChain' = ReportedChain /\ ReportedLinks' = ReportedLinks
    BY <1>3 DEF Rests, ReportedChain, ReportedLinks
  <2>3. ChainInv'
    BY <1>3, <2>2 DEF ChainInv, Rests
  <2>4. UNCHANGED Abstract!vars
    BY <2>1, <2>2 DEF Abstract!vars
  <2> QED BY <2>3, <2>4
<1>4. ASSUME NEW n \in Node, NEW j, NEW v, Advances(n, j, v)
      PROVE  ChainInv' /\ Abstract!Next
  <2>1. j \in Nat /\ v \in Value /\ j > number[n] /\ updates' = updates \cup {<<j, v>>}
    BY <1>4 DEF Advances
  <2>2. number' = [number EXCEPT ![n] = j] /\ value' = [value EXCEPT ![n] = v]
    BY <1>4 DEF Advances
  <2>3. \A q \in Node : state'[q].instance_number = 0 => state'[q].current_value = NoValue
    BY <1>1, <1>4, <2>1 DEF Advances, ChainInv
  <2>4. CASE <<j, v>> \in updates
    <3>1. updates' = updates
      BY <2>1, <2>4
    <3>2. ReportedChain' = ReportedChain /\ ReportedLinks' = ReportedLinks
      BY <3>1 DEF ReportedChain, ReportedLinks
    <3>3. j \in 1 .. Len(ReportedChain) /\ ReportedChain[j] = v
      <4>1. Len(ChainOf(updates)) = k /\ \A e \in updates : e[1] \in 1 .. k /\ ChainOf(updates)[e[1]] = e[2]
        BY <1>1, ChainOfUpdates
      <4>2. \A a, b : <<a, b>> \in updates => a \in 1 .. k /\ ChainOf(updates)[a] = b
        BY <4>1
      <4> QED BY <1>2, <2>4, <4>1, <4>2
    <3>4. Abstract!Update(n, j)
      <4> HIDE DEF number, value
      <4> QED BY <2>1, <2>2, <3>2, <3>3 DEF Abstract!Update, number, value
    <3> QED BY <2>3, <3>2, <3>3, <3>4, <1>0 DEF ChainInv, Abstract!Next
  <2>5. CASE <<j, v>> \notin updates
    <3>1. j = state[n].instance_number + 1
      BY <1>4, <2>5 DEF Advances
    <3>2. state[n].instance_number \in 0 .. k
      <4>1. state[n].instance_number > 0 => state[n].instance_number \in ReportedLinks
        <5>1. state[n].instance_number > 0 => <<state[n].instance_number, state[n].current_value>> \in updates
          BY DEF IInv, UpdatesInv
        <5>2. \A a, b : <<a, b>> \in updates => a \in ReportedLinks
          BY DEF ReportedLinks
        <5> QED BY <5>1, <5>2
      <4> QED BY <1>0, <1>1, <4>1
    <3>3. j \notin 1 .. k
      <4> SUFFICES ASSUME j \in 1 .. k PROVE FALSE
        OBVIOUS
      <4>1. PICK e \in updates : e[1] = j
        BY <1>0 DEF ReportedLinks
      <4>2. e = <<e[1], e[2]>>
        BY <1>1 DEF Covers
      <4>3. <<j, v>> \in updates' /\ e \in updates'
        BY <2>1
      <4>4. <<j, v>>[2] = e[2]
        BY <4>1, <4>3 DEF ChainAgreement
      <4> QED BY <2>5, <4>1, <4>2, <4>4
    <3>4. j = k + 1 /\ state[n].instance_number = k
      BY <3>1, <3>2, <3>3
    <3>5. ReportedLinks' = 1 .. (k + 1)
      <4>1. ReportedLinks' = ReportedLinks \cup {j}
        <5>1. <<j, v>>[1] = j
          OBVIOUS
        <5>2. \A x : x \in ReportedLinks' <=> x \in ReportedLinks \/ x = <<j, v>>[1]
          BY <2>1, Zenon DEF ReportedLinks
        <5> QED BY <5>1, <5>2
      <4> QED BY <1>0, <3>4, <4>1
    <3>6. Covers(updates', k + 1)
      <4>1. updates' \subseteq (Nat \X Value)
        BY BoundAssumption DEF TypeOK, Instance
      <4> QED BY <3>5, <4>1 DEF Covers, ChainAgreement, ReportedLinks
    <3>7. ReportedChain' = Append(ReportedChain, v)
      BY <1>1, <1>2, <2>1, <3>4, <3>6, ChainGrows
    <3>8. Len(ReportedChain) = k
      BY <1>1, <1>2, ChainOfUpdates
    <3>9. Abstract!Extend(n, v)
      BY <2>2, <3>4, <3>7, <3>8 DEF Abstract!Extend
    <3> QED BY <2>1, <2>3, <3>5, <3>9 DEF ChainInv, Abstract!Next
  <2> QED BY <2>4, <2>5
<1> QED BY <1>3, <1>4, StepAdvancesOrRests

(* The cluster implements the one chain of ReplicatedChain: nodes that      *)
(* resolve links on their own, fall behind and catch up report one sequence *)
(* of values, which grows by one link at a time, and each holds the last    *)
(* value of a prefix of it.                                                 *)
THEOREM Refinement == Spec => ImplementsChain
<1>1. Init => ChainInv /\ Abstract!Init
  <2> SUFFICES ASSUME Init PROVE ChainInv /\ Abstract!Init
    OBVIOUS
  <2>1. \A n \in Node : state[n].instance_number = 0 /\ state[n].current_value = NoValue
    BY DEF Init, SavedState
  <2>2. ReportedLinks = {} /\ ReportedLinks = 1 .. 0
    BY DEF Init, ReportedLinks
  <2>3. ReportedChain = << >>
    <3>1. Cardinality(ReportedLinks) = 0
      BY <2>2, FS_EmptySet
    <3> QED BY <3>1 DEF ReportedChain
  <2> QED BY <2>1, <2>2, <2>3 DEF ChainInv, Abstract!Init
<1>2. IInv /\ TypeOK' /\ ChainAgreement' /\ ChainInv /\ [Next]_vars => ChainInv' /\ [Abstract!Next]_(Abstract!vars)
  BY ChainStep
<1> QED BY <1>1, <1>2, InvCorrect, TypeCorrect, Agreement, PTL DEF Spec, ImplementsChain, Abstract!Spec
=============================================================================
