------------------------------ MODULE MCTsHost ------------------------------
(* Two files of two lines for TsHost; line 1 of a.md is blank.              *)
EXTENDS TsHost

CONSTANTS fa, fb, t1, t2

Word  == [words |-> 1, blank |-> FALSE, width |-> 1, accesses |-> <<>>, outs |-> 0, exc |-> "none"]
Empty == [Word EXCEPT !.words = 0, !.blank = TRUE, !.width = 0]

TwoFiles  == (fa :> <<Word, Empty>>) @@ (fb :> <<Word, Word>>)
SomeLists == {<<>>, <<1, 0>>}
=============================================================================
