--------------------------- MODULE MCSessionViews ---------------------------
(***************************************************************************)
(* Two variables, one of them lazy, and two long requests of each kind.     *)
(* The variables and the long requests share no state, so a behaviour takes  *)
(* up one of the two halves: the actions are those of Next, each in its half. *)
(***************************************************************************)
EXTENDS SessionViews

CONSTANTS nx, lazy, n1, s1, s2, letter, other, bad, r1, r2, p1, p2

VARIABLE half

In(h, A) == half = h /\ A /\ UNCHANGED half
V(A) == In("variables", A)
R(A) == In("requests", A)

MCInit == Init /\ half \in {"variables", "requests"}

MCNext ==
  \/ \E n \in Names, v \in Values : V(Assign(n, v))
  \/ V(VariablesRequest)
  \/ \E n \in Names : V(Evaluate(n))
  \/ \E n \in Names, v \in Plain \cup Strings : \/ V(SetVariableRequest(n, v))
                                                \/ V(SetExpressionRequest(n, v))
                                                \/ V(EvaluateAssignment(n, v))
  \/ V(\E o \in Objects, v \in Structures : SetMember(o, v))
  \/ V(\E o \in Objects, v \in Values : SetPlaceholder(o, v))
  \/ V(\E o \in Objects, i \in 1 .. Width, byte \in Bytes : WriteMemoryRequest(o, i, byte))
  \/ \E r \in Fetches : R(FetchGlobals(r)) \/ R(CancelFetch(r)) \/ R(NextGlobal(r))
  \/ \E p \in Progresses : \/ R(ProgressSequence(p)) \/ R(CancelProgress(p))
                           \/ R(ProgressStart(p)) \/ R(ProgressUpdate(p))

MCSpec == MCInit /\ [][MCNext]_<<vars, half>> /\ Fairness
=============================================================================
