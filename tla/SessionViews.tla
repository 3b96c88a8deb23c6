---------------------------- MODULE SessionViews ----------------------------
(***************************************************************************)
(* What a client sees and changes of a stopped program, and the requests    *)
(* that take their time (vscode-mock-debug/src/mockDebug.ts over its        *)
(* in-process runtime).                                                     *)
(*                                                                          *)
(* A variable is an object: the program binds its name to a new one at      *)
(* every assignment, while the client's edits change the object they find,  *)
(* by name or through a reference it was given earlier.  Fetching globals   *)
(* and reporting progress wait for timers, and look between two waits       *)
(* whether the client has cancelled them.                                   *)
(***************************************************************************)
EXTENDS Integers, Sequences, FiniteSets

CONSTANTS Names, LazyNames,           \* variables; those whose name says lazy
          Plain, Structures,          \* values: numbers and booleans, arrays
          Letters, Invalid, Replacement, \* characters; a byte that is none, and
                                      \* the character it is decoded to
          Width,                      \* length of the strings
          Fetches,                    \* variables requests for the globals
          Progresses,                 \* progress sequences
          Globals,                    \* global variables, one fetched a second
          Polls,                      \* updates of a progress sequence
          MaxObjects,                 \* bound on the assignments of the program
          None                        \* JavaScript's undefined

Strings == [1 .. Width -> Letters \cup {Replacement}]
Bytes   == Letters \cup {Replacement, Invalid}
Values  == Plain \cup Strings \cup Structures

ViewsAssumption ==
  /\ LazyNames \subseteq Names /\ Width \in Nat
  /\ None \notin Values \cup Progresses /\ None \notin Nat
  /\ Plain \cap Strings = {} /\ Plain \cap Structures = {} /\ Strings \cap Structures = {}
  /\ Invalid \notin Letters \cup {Replacement}
  /\ Globals \in Nat \ {0} /\ Polls \in Nat \ {0} /\ MaxObjects \in Nat
ASSUME ViewsAssumption

VARIABLES
  bound,       \* the runtime's variables: the object of each name
  object,      \* every object there was, in the order made
  held,        \* the objects the client was given a reference to
  edited,      \* history: what the client last set a name to
  fetch,       \* the variables requests for the globals
  tokens,      \* _cancellationTokens: the requests that have an entry
  cancelled,   \*   and those whose entry is true
  progress,    \* the progress sequences
  cancellable, \* _isProgressCancellable: whether the next one is
  cancelledProgressId,
  asked        \* history: what the client asked to cancel

variables == <<bound, object, held, edited>>
requests  == <<fetch, tokens, cancelled, progress, cancellable, cancelledProgressId, asked>>
vars      == <<variables, requests>>

\* memory: the encoded string, once it was asked for; copy: what the reference
\* of a lazy variable opens instead of its value.
Object == [name : Names, value : Values, memory : [1 .. Width -> Bytes] \cup {None},
           copy : Values \cup {None}]
Objects == DOMAIN object
FetchRecord    == [at : {"none", "waiting", "over"}, got : 0 .. Globals]
ProgressRecord == [at : {"none", "starting", "running", "ended", "cancelled"},
                   update : 0 .. Polls, cancellable : BOOLEAN]

Init ==
  /\ bound = [n \in Names |-> None] /\ object = <<>>
  /\ held = {} /\ edited = [n \in Names |-> None]
  /\ fetch = [r \in Fetches |-> [at |-> "none", got |-> 0]]
  /\ tokens = {} /\ cancelled = {}
  /\ progress = [p \in Progresses |-> [at |-> "none", update |-> 0, cancellable |-> FALSE]]
  /\ cancellable = TRUE /\ cancelledProgressId = None /\ asked = {}

-----------------------------------------------------------------------------
(* Variables.                                                               *)

\* executeLine assigns: the name gets a new object.
Assign(n, v) ==
  /\ Len(object) < MaxObjects
  /\ object' = Append(object, [name |-> n, value |-> v, memory |-> None, copy |-> None])
  /\ bound' = [bound EXCEPT ![n] = Len(object) + 1]
  /\ edited' = [edited EXCEPT ![n] = None]
  /\ UNCHANGED <<held, requests>>

\* Fault: the setter keeps the memory.
SetValueOnly(x, v) == [x EXCEPT !.value = v]

SetValue(x, v) == [x EXCEPT !.value = v, !.memory = None]

\* TextDecoder: what is no character becomes the replacement character.
Decode(m) == [i \in 1 .. Width |-> IF m[i] = Invalid THEN Replacement ELSE m[i]]

\* Fault: whatever the value is, it is encoded.
MemoryOfAny(x) == IF x.memory = None THEN x.value ELSE x.memory

\* The memory getter encodes a string once.
Memory(x) == IF x.memory = None /\ x.value \in Strings THEN x.value ELSE x.memory

OpensCopy(x) == x.name \in LazyNames

\* convertFromRuntime: a lazy variable is shown by a placeholder, whose
\* reference opens the value of this moment from then on.
Shown(x) == [x EXCEPT !.memory = Memory(x),
                      !.copy = IF OpensCopy(x) /\ @ = None THEN x.value ELSE @]
HasReference(x) == OpensCopy(x) \/ x.value \notin Plain

\* The objects S, with their values as in objects, are put in an answer.
Show(objects, S) ==
  /\ object' = [o \in DOMAIN objects |-> IF o \in S THEN Shown(objects[o]) ELSE objects[o]]
  /\ held' = held \cup {o \in S : HasReference(objects[o])}

Locals == {bound[n] : n \in Names} \ {None}

VariablesRequest ==
  /\ Show(object, Locals) /\ UNCHANGED <<bound, edited, requests>>

Evaluate(n) ==
  /\ bound[n] # None
  /\ Show(object, {bound[n]}) /\ UNCHANGED <<bound, edited, requests>>

\* An edit by name changes the object in place, and shows it.
Edit(n, v) ==
  /\ bound[n] # None
  /\ Show([object EXCEPT ![bound[n]] = SetValue(@, v)], {bound[n]})
  /\ edited' = [edited EXCEPT ![n] = v]
  /\ UNCHANGED <<bound, requests>>

SetVariableRequest(n, v)   == Edit(n, v)
SetExpressionRequest(n, v) == Edit(n, v)
EvaluateAssignment(n, v)   == Edit(n, v)

\* What is changed through a reference is the variable of that name while the
\* program has not assigned it since.
Through(o, x, v) ==
  /\ object' = [object EXCEPT ![o] = x]
  /\ edited' = IF bound[object[o].name] = o THEN [edited EXCEPT ![object[o].name] = v] ELSE edited
  /\ UNCHANGED <<bound, held, requests>>

\* A member is set in the structure itself, so a placeholder that was made
\* for this structure shows it, too.
SetMember(o, v) ==
  /\ o \in held /\ object[o].value \in Structures
  /\ OpensCopy(object[o]) => object[o].copy \in Structures
  /\ Through(o, [object[o] EXCEPT !.value = v, !.copy = IF OpensCopy(object[o]) THEN v ELSE @], v)

\* What a placeholder opens is changed, and the variable is not.
SetPlaceholder(o, v) ==
  /\ o \in held /\ OpensCopy(object[o])
  /\ v \in Structures => object[o].copy \in Structures /\ object[o].value \notin Structures
  /\ object' = [object EXCEPT ![o].copy = v]
  /\ UNCHANGED <<bound, held, edited, requests>>

Written(x, m) == [x EXCEPT !.memory = m, !.value = Decode(m)]

\* setMemory: one byte of a string; a placeholder has no memory.
WriteMemoryRequest(o, i, byte) ==
  LET m == [Memory(object[o]) EXCEPT ![i] = byte]
  IN /\ o \in held /\ ~OpensCopy(object[o]) /\ object[o].value \in Strings
     /\ Through(o, Written(object[o], m), [object[o].value EXCEPT ![i] = Decode(m)[i]])

-----------------------------------------------------------------------------
(* The globals, and their cancellation.                                     *)

\* The first global is there at once.
FetchGlobals(r) ==
  /\ fetch[r].at = "none"
  /\ fetch' = [fetch EXCEPT ![r] = [at |-> "waiting", got |-> 1]]
  /\ tokens' = tokens \cup {r} /\ cancelled' = cancelled \ {r}
  /\ UNCHANGED <<variables, progress, cancellable, cancelledProgressId, asked>>

\* Fault: one token for all requests.
IsCancelledAny(r) == cancelled # {}

IsCancelled(r) == r \in cancelled

Answer(r) == tokens' = tokens \ {r} /\ cancelled' = cancelled \ {r}

\* A second later: all are there, or one more, which may be the last.
NextGlobal(r) ==
  /\ fetch[r].at = "waiting"
  /\ \/ /\ fetch[r].got = Globals
        /\ fetch' = [fetch EXCEPT ![r].at = "over"]
        /\ Answer(r)
     \/ /\ fetch[r].got < Globals /\ IsCancelled(r)
        /\ fetch' = [fetch EXCEPT ![r] = [at |-> "over", got |-> @.got + 1]]
        /\ Answer(r)
     \/ /\ fetch[r].got < Globals /\ ~IsCancelled(r)
        /\ fetch' = [fetch EXCEPT ![r].got = @ + 1]
        /\ UNCHANGED <<tokens, cancelled>>
  /\ UNCHANGED <<variables, progress, cancellable, cancelledProgressId, asked>>

\* A cancel may come after the request it names was answered; nothing takes the
\* entry away then.
CancelFetch(r) ==
  /\ fetch[r].at # "none"
  /\ tokens' = tokens \cup {r} /\ cancelled' = cancelled \cup {r}
  /\ asked' = asked \cup {r}
  /\ UNCHANGED <<variables, fetch, progress, cancellable, cancelledProgressId>>

-----------------------------------------------------------------------------
(* Progress.                                                                *)

ProgressSequence(p) ==
  /\ progress[p].at = "none"
  /\ progress' = [progress EXCEPT ![p].at = "starting"]
  /\ UNCHANGED <<variables, fetch, tokens, cancelled, cancellable, cancelledProgressId, asked>>

ProgressStart(p) ==
  /\ progress[p].at = "starting"
  /\ progress' = [progress EXCEPT ![p].at = "running", ![p].cancellable = cancellable]
  /\ cancellable' = ~cancellable
  /\ UNCHANGED <<variables, fetch, tokens, cancelled, cancelledProgressId, asked>>

\* Fault: an update does not count while a cancel is pending.
CountedIfNone(p) == IF cancelledProgressId = None THEN progress[p].update + 1
                    ELSE progress[p].update

Counted(p) == progress[p].update + 1

\* There is one slot for the cancelled progress: the end of any empties it.
ProgressUpdate(p) ==
  /\ progress[p].at = "running"
  /\ \/ /\ cancelledProgressId = p
        /\ progress' = [progress EXCEPT ![p].at = "cancelled"]
        /\ cancelledProgressId' = None
     \/ /\ cancelledProgressId # p /\ Counted(p) = Polls
        /\ progress' = [progress EXCEPT ![p].at = "ended", ![p].update = Polls]
        /\ cancelledProgressId' = None
     \/ /\ cancelledProgressId # p /\ Counted(p) < Polls
        /\ progress' = [progress EXCEPT ![p].update = Counted(p)]
        /\ UNCHANGED cancelledProgressId
  /\ UNCHANGED <<variables, fetch, tokens, cancelled, cancellable, asked>>

CancelProgress(p) ==
  /\ progress[p].at \notin {"none", "starting"} /\ progress[p].cancellable
  /\ cancelledProgressId' = p /\ asked' = asked \cup {p}
  /\ UNCHANGED <<variables, fetch, tokens, cancelled, progress, cancellable>>

-----------------------------------------------------------------------------
Program == \E n \in Names, v \in Values : Assign(n, v)

Client ==
  \/ VariablesRequest
  \/ \E n \in Names : Evaluate(n) \/ \E v \in Plain \cup Strings :
       SetVariableRequest(n, v) \/ SetExpressionRequest(n, v) \/ EvaluateAssignment(n, v)
  \/ \E o \in Objects :
       \/ \E v \in Structures : SetMember(o, v)
       \/ \E v \in Values : SetPlaceholder(o, v)
       \/ \E i \in 1 .. Width, byte \in Bytes : WriteMemoryRequest(o, i, byte)
  \/ \E r \in Fetches : FetchGlobals(r) \/ CancelFetch(r)
  \/ \E p \in Progresses : ProgressSequence(p) \/ CancelProgress(p)

Timer == \/ \E r \in Fetches : NextGlobal(r)
         \/ \E p \in Progresses : ProgressStart(p) \/ ProgressUpdate(p)

Next == Program \/ Client \/ Timer

\* Every timer fires.
Fairness == /\ \A r \in Fetches : WF_vars(NextGlobal(r))
            /\ \A p \in Progresses : WF_vars(ProgressStart(p) \/ ProgressUpdate(p))

Spec     == Init /\ [][Next]_vars
FairSpec == Spec /\ Fairness

-----------------------------------------------------------------------------
(* Properties.                                                              *)

\* Every variable has its type, and references are of objects there are.
TypeOK ==
  /\ bound \in [Names -> Objects \cup {None}] /\ object \in Seq(Object)
  /\ held \in SUBSET Objects
  /\ edited \in [Names -> Values \cup {None}]
  /\ fetch \in [Fetches -> FetchRecord]
  /\ tokens \in SUBSET Fetches /\ cancelled \in SUBSET tokens
  /\ progress \in [Progresses -> ProgressRecord]
  /\ cancellable \in BOOLEAN /\ cancelledProgressId \in Progresses \cup {None}
  /\ asked \in SUBSET (Fetches \cup Progresses)

\* What the client set a variable to is its value until the program assigns it
\* again, whichever way it was set (by name, through a member of a structure, or
\* byte by byte through its memory) and whatever is written through placeholders and
\* through references that the program's assignments have left behind; and the
\* memory the client is shown is that value's (mockRuntime.ts:55, 69).
EditsStay == \A n \in Names : edited[n] # None =>
  LET x == object[bound[n]]
  IN x.value = edited[n] /\ (x.memory # None => Decode(x.memory) = edited[n])

\* Nothing is cut short that the client did not cancel: a fetch that was
\* answered with fewer than all the globals, and a progress that ended as cancelled,
\* were asked to, however cancels and ends of several overlap (mockDebug.ts:602, 811).
OnlyAskedCutShort ==
  /\ \A r \in Fetches : fetch[r].at = "over" /\ fetch[r].got < Globals => r \in asked
  /\ \A p \in Progresses : progress[p].at = "cancelled" => p \in asked

\* Every fetch is answered and every progress ends, cancelled or not.
LongRequestsEnd ==
  /\ \A r \in Fetches : fetch[r].at = "waiting" ~> fetch[r].at = "over"
  /\ \A p \in Progresses : progress[p].at = "starting"
                             ~> progress[p].at \in {"ended", "cancelled"}
=============================================================================
