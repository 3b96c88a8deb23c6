--------------------------- MODULE MCRuntimeProxy ---------------------------
(***************************************************************************)
(* One variable, two lines, and a session of a few requests.        *)
(***************************************************************************)
EXTENDS RuntimeProxy

CONSTANTS x, v1, v2

Symmetry   == Permutations(Values)
Everything == {{}, Lines}
=============================================================================
