---------------------------- MODULE MCInProcess ----------------------------
(***************************************************************************)
(* Two files for InProcess.  a.md declares and reads a variable, has a      *)
(* blank line, and raises an exception; b.md begins with a lazy line whose  *)
(* mark sends breakpoints up, above the file.                               *)
(***************************************************************************)
EXTENDS InProcess

CONSTANTS fa, fb, nx, boom, t1, t2, t3

Word(accesses, outs, exc) ==
  [words |-> 1, blank |-> FALSE, width |-> 1, accesses |-> accesses, outs |-> outs, exc |-> exc]
Blank == [Word(<<>>, 0, "none") EXCEPT !.words = 0, !.blank = TRUE, !.width = 0]
Put   == [name |-> nx, assign |-> TRUE]
Get   == [name |-> nx, assign |-> FALSE]

TwoTexts == (fa :> <<Word(<<Put, Get>>, 1, "none"), Blank, Word(<<>>, 0, boom), Blank>>)
            @@ (fb :> <<Word(<<>>, 0, "none"), Word(<<>>, 0, "none")>>)

SomeLists == {<<1, 0>>}
FirstUp  == {<<fb, 0>>}
SecondDown == {<<fb, 1>>}
Reads    == {{"read"}}
Boom     == {[named |-> boom, others |-> FALSE]}
=============================================================================
