--------------------------- MODULE MCDebugSession ---------------------------
(***************************************************************************)
(* Two files, one of which is the program.                                  *)
(***************************************************************************)
EXTENDS DebugSession

CONSTANTS fa, fb, caught, h1, h2

=============================================================================
