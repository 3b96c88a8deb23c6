---------------------------- MODULE MCGoRuntime ----------------------------
(***************************************************************************)
(* Small files for GoRuntime.                                               *)
(***************************************************************************)
EXTENDS GoRuntime, TLC

CONSTANTS fa, nx, boom, g1, g2

Text3(words, accesses, exc) ==
  [words |-> words, blank |-> FALSE, width |-> 2,
   accesses |-> accesses, outs |-> 0, exc |-> exc]
Blank  == [Text3(0, <<>>, "none") EXCEPT !.blank = TRUE]
Empty  == [Blank EXCEPT !.width = 0]
Get(n) == [name |-> n, assign |-> FALSE]
Put(n) == [name |-> n, assign |-> TRUE]

\* $x=1 $x, a blank line, exception(boom), and an end of line.
RichLines  == fa :> <<Text3(2, <<Put(nx), Get(nx)>>, "none"), Blank,
                      Text3(1, <<>>, boom), Empty>>
\* Two lines, one of which assigns.
ShortLines == fa :> <<Text3(1, <<Put(nx)>>, "none"), Text3(1, <<>>, "none")>>

Boom     == {[named |-> boom, others |-> FALSE]}
NoFile   == {None}
ProgramsToo == {fa, None}
Threading == Permutations(Goroutines)
=============================================================================
