--------------------------- MODULE MCTestExecutor ---------------------------
(***************************************************************************)
(* The finite instance of TestExecutor: three nodes, and every test file of*)
(* up to two lines over the alphabet below, with one line in a loop as well,*)
(* two with nested and repeated loops, and some whose loops do not match.  *)
(***************************************************************************)
EXTENDS TestPlan

CONSTANTS slow, bad, zero

Ids(ids) == [all |-> FALSE, ids |-> ids, rand |-> 0]
Rand == [all |-> FALSE, ids |-> {}, rand |-> 1]
All == [all |-> TRUE, ids |-> {}, rand |-> 0]
LinkLine(from, to, rule, both) ==
    [op |-> "link", from |-> from, to |-> to, rule |-> rule, bidirectional |-> both]

Do == [op |-> "do"]
Times(n) == [op |-> "times", n |-> n]
Run == [op |-> "run", n |-> 2]

Simple == {Run, ResetLine, LinkLine(All, Ids({3}), slow, FALSE), LinkLine(Ids({1}), Rand, slow, TRUE),
           LinkLine(All, Ids({1}), slow, TRUE), LinkLine(All, Ids({2}), bad, FALSE),
           LinkLine(Ids({4}), All, slow, FALSE), LinkLine(Ids({0, 2}), Ids({1}), slow, FALSE),
           [op |-> "rlink", n |-> 1, rule |-> slow, bidirectional |-> TRUE],
           [op |-> "rlink", n |-> 0, rule |-> slow, bidirectional |-> FALSE]}

Straight == UNION {[1..n -> Simple] : n \in 0..2}
Looped == {<<a, Do, b, Times(n)>> : a \in Simple, b \in Simple, n \in 0..2}
Nested ==
    LET set == LinkLine(All, Ids({3}), slow, FALSE)
    IN  {<<Do, set, Do, Run, Times(2), ResetLine, Times(2)>>,
         <<Do, Do, set, Times(2), Do, Run, Times(2), Times(2)>>}
Malformed ==
    LET set == LinkLine(All, Ids({3}), slow, FALSE)
    IN  {<<set, Times(2)>>, <<Do, set, Times(2), Times(3)>>, <<Do, Do, set, Times(2), Times(2), Times(1), Times(1)>>,
         <<Do, Do, Run, Times(1), Times(1), Times(1), Do, set>>, <<Do, set, Times(1), Times(1), Times(1), Do, set>>,
         <<Do, Run, Times(1), Times(1), Do, set>>,
         <<Do, set>>, <<[op |-> "blank"], Run>>, <<Run, [op |-> "unknown"]>>}

Files == Straight \cup Looped \cup Nested \cup Malformed
=============================================================================
