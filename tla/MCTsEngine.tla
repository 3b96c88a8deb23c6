----------------------------- MODULE MCTsEngine -----------------------------
(***************************************************************************)
(* Two small files for TsEngine.  a.md writes and reads a variable, has a   *)
(* blank line in the middle and ends with an exception; b.md has a blank    *)
(* first line and one word.                                                 *)
(***************************************************************************)
EXTENDS TsEngine

CONSTANTS fa, fb, nx, boom, t1

Text(words, accesses, exc) ==
  [words |-> words, blank |-> FALSE, width |-> words,
   accesses |-> accesses, outs |-> 0, exc |-> exc]
Blank  == [Text(0, <<>>, "none") EXCEPT !.blank = TRUE]
Put(n) == [name |-> n, assign |-> TRUE]
Get(n) == [name |-> n, assign |-> FALSE]

TwoTexts == (fa :> <<Text(1, <<Put(nx)>>, "none"), Blank, Text(1, <<>>, boom)>>)
            @@ (fb :> <<Blank, Text(1, <<>>, "none")>>)

ProgramOrNone == {fa, None}
Boom == {[named |-> boom, others |-> FALSE]}
=============================================================================
