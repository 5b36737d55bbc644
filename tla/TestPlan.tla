------------------------------ MODULE TestPlan ------------------------------
(***************************************************************************)
(* What the loops of a test file mean, read off its structure, and what the*)
(* parser of test_executor.py makes of them.                               *)
(***************************************************************************)
EXTENDS TestExecutor, SequencesExt

(* What "do ... n times" means, read off the structure of the file: the line*)
(* that closes the loop opened at line i, and the lines from i to j in the  *)
(* order of execution, a body n times.                                      *)
Closes(i) ==
    LET depth(k) == Cardinality({l \in i..k : Lines[l].op = "do"}) - Cardinality({l \in i..k : Lines[l].op = "times"})
    IN  CHOOSE k \in i..Len(Lines) : depth(k) = 0 /\ \A l \in i..(k - 1) : depth(l) > 0

RECURSIVE Unrolled(_, _)
Unrolled(i, j) ==
    IF i > j THEN <<>>
    ELSE IF Lines[i].op = "blank" THEN Unrolled(i + 1, j)
    ELSE IF Lines[i].op # "do" THEN <<i>> \o Unrolled(i + 1, j)
    ELSE LET k == Closes(i)
             body == Unrolled(i + 1, k - 1)
         IN  FlattenSeq([r \in 1..Lines[k].n |-> body]) \o Unrolled(k + 1, j)

(* Every "do" has its "times" and the other way round.                      *)
Balanced ==
    LET depth(k) == Cardinality({l \in 1..k : Lines[l].op = "do"}) - Cardinality({l \in 1..k : Lines[l].op = "times"})
    IN  depth(Len(Lines)) = 0 /\ \A k \in DOMAIN Lines : depth(k) >= 0

(* "0 times" is left out: the parser comes to the end of a body before it   *)
(* reads the number of repetitions, so that such a body is executed once.   *)
Repeating == \A k \in DOMAIN Lines : Lines[k].op = "times" => Lines[k].n > 0

(* The pointers of the parser unroll nested loops as their structure says,  *)
(* loops that follow each other at the same level included, and end with the*)
(* reset that was not in the file.                                          *)
ParseUnrolls ==
    phase = "parse" /\ index > Len(Lines) /\ Balanced /\ Repeating =>
        /\ [i \in DOMAIN commands |-> commands[i].line] = Unrolled(1, Len(Lines))
        /\ Lines[Last(commands).line].op = "reset"
=============================================================================
