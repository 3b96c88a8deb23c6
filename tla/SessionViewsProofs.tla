------------------------- MODULE SessionViewsProofs -------------------------
(***************************************************************************)
(* Theorems about SessionViews, for any variables, values, requests and     *)
(* bounds.  The two halves of the module share no state, and each has its   *)
(* own invariant.                                                           *)
(***************************************************************************)
EXTENDS SessionViews, SequenceTheorems, TLAPS

\* The memory of an object, where there is one, is that of its value.
Agrees(x) == x.memory # None => Decode(x.memory) = x.value

VariablesInv ==
  /\ bound \in [Names -> Objects \cup {None}] /\ object \in Seq(Object)
  /\ held \in SUBSET Objects /\ edited \in [Names -> Values \cup {None}]
  /\ \A o \in Objects : Agrees(object[o])
  /\ \A n \in Names : bound[n] # None => object[bound[n]].name = n
  /\ \A n \in Names : edited[n] # None => bound[n] # None /\ object[bound[n]].value = edited[n]

RequestsInv ==
  /\ fetch \in [Fetches -> FetchRecord]
  /\ tokens \in SUBSET Fetches /\ cancelled \in SUBSET tokens
  /\ progress \in [Progresses -> ProgressRecord]
  /\ cancellable \in BOOLEAN /\ cancelledProgressId \in Progresses \cup {None}
  /\ asked \in SUBSET (Fetches \cup Progresses)
  /\ cancelled \subseteq asked
  /\ cancelledProgressId # None => cancelledProgressId \in asked
  /\ OnlyAskedCutShort

Inv == VariablesInv /\ RequestsInv

-----------------------------------------------------------------------------
(* Objects.                                                                 *)

\* A string decodes to itself, and any memory to a string.
LEMMA DecodeType ==
  /\ \A m \in [1 .. Width -> Bytes] : Decode(m) \in Strings
  /\ \A s \in Strings : s \in [1 .. Width -> Bytes] /\ Decode(s) = s
<1>1. ASSUME NEW m \in [1 .. Width -> Bytes] PROVE Decode(m) \in Strings
  BY <1>1 DEF Decode, Strings, Bytes
<1>2. ASSUME NEW s \in Strings PROVE s \in [1 .. Width -> Bytes] /\ Decode(s) = s
  <2>1. s \in [1 .. Width -> Bytes]
    BY DEF Strings, Bytes
  <2>2. \A i \in 1 .. Width : s[i] # Invalid
    BY ViewsAssumption DEF Strings, ViewsAssumption
  <2>3. Decode(s) = [i \in 1 .. Width |-> s[i]]
    BY <2>2 DEF Decode
  <2> QED
    BY <2>1, <2>3 DEF Strings
<1> QED
  BY <1>1, <1>2

\* Showing an object changes neither its name nor its value.
LEMMA ShownKeeps ==
  ASSUME NEW x \in Object, Agrees(x)
  PROVE  /\ Shown(x) \in Object /\ Agrees(Shown(x))
         /\ Shown(x).name = x.name /\ Shown(x).value = x.value
<1>1. Memory(x) \in [1 .. Width -> Bytes] \cup {None}
  BY DecodeType DEF Memory, Object
<1>2. Memory(x) # None => Decode(Memory(x)) = x.value
  BY DecodeType DEF Memory, Agrees
<1>3. (IF OpensCopy(x) /\ x.copy = None THEN x.value ELSE x.copy) \in Values \cup {None}
  BY DEF Object
<1> QED
  BY <1>1, <1>2, <1>3 DEF Shown, Object, Agrees

\* Setting an object's value drops the memory of the old one.
LEMMA SetValueSets ==
  ASSUME NEW x \in Object, NEW v \in Values
  PROVE  /\ SetValue(x, v) \in Object /\ Agrees(SetValue(x, v))
         /\ SetValue(x, v).name = x.name /\ SetValue(x, v).value = v
BY DEF SetValue, Object, Agrees

\* Writing a byte writes the character it is decoded to.
LEMMA WrittenWrites ==
  ASSUME NEW x \in Object, Agrees(x), x.value \in Strings,
         NEW i \in 1 .. Width, NEW byte \in Bytes,
         NEW m, m = [Memory(x) EXCEPT ![i] = byte]
  PROVE  /\ Written(x, m) \in Object /\ Agrees(Written(x, m))
         /\ Written(x, m).name = x.name
         /\ Written(x, m).value = [x.value EXCEPT ![i] = Decode(m)[i]]
<1>1. Memory(x) \in [1 .. Width -> Bytes] /\ Decode(Memory(x)) = x.value
  BY DecodeType DEF Memory, Agrees, Object
<1>2. m \in [1 .. Width -> Bytes] /\ \A j \in 1 .. Width \ {i} : m[j] = Memory(x)[j]
  BY <1>1
<1>3. Decode(m) = [x.value EXCEPT ![i] = Decode(m)[i]]
  <2>1. x.value = [j \in 1 .. Width |-> Decode(Memory(x))[j]]
    BY <1>1 DEF Decode
  <2>2. \A j \in 1 .. Width \ {i} : Decode(m)[j] = Decode(Memory(x))[j]
    BY <1>2 DEF Decode
  <2>3. Decode(m) = [j \in 1 .. Width |-> Decode(m)[j]]
    BY DEF Decode
  <2> QED
    BY <2>1, <2>2, <2>3
<1>4. Decode(m) \in Strings
  BY <1>2, DecodeType
<1> QED
  BY <1>2, <1>3, <1>4 DEF Written, Object, Agrees, Values

\* What maps every object to an object is a sequence of them.
LEMMA SameObjects ==
  ASSUME NEW s \in Seq(Object), NEW f \in [DOMAIN s -> Object]
  PROVE  f \in Seq(Object) /\ DOMAIN f = DOMAIN s
BY LenProperties DEF Seq

-----------------------------------------------------------------------------
(* The steps of the variables.                                              *)

\* A step that keeps the objects' names, and leaves what the client set at what
\* it was set to, keeps the invariant.
LEMMA ChangeKeeps ==
  ASSUME VariablesInv, bound' = bound,
         object' \in [Objects -> Object], held' \in SUBSET Objects,
         edited' \in [Names -> Values \cup {None}],
         \A o \in Objects : object'[o].name = object[o].name /\ Agrees(object'[o]),
         \A n \in Names : edited'[n] # None =>
           bound[n] # None /\ object'[bound[n]].value = edited'[n]
  PROVE  VariablesInv'
<1>1. object' \in Seq(Object) /\ Objects' = Objects
  BY SameObjects DEF VariablesInv, Objects
<1>2. \A n \in Names : bound[n] # None => bound[n] \in Objects
  BY DEF VariablesInv
<1> QED
  BY <1>1, <1>2 DEF VariablesInv, Agrees, Decode

LEMMA AssignStep ==
  ASSUME VariablesInv, NEW n \in Names, NEW v \in Values, Assign(n, v)
  PROVE  VariablesInv'
<1> DEFINE x == [name |-> n, value |-> v, memory |-> None, copy |-> None]
<1>1. x \in Object /\ x.name = n /\ Agrees(x)
  BY DEF Object, Agrees
<1> HIDE DEF x
<1>2. /\ object' = Append(object, x) /\ bound' = [bound EXCEPT ![n] = Len(object) + 1]
      /\ edited' = [edited EXCEPT ![n] = None] /\ held' = held
  BY DEF Assign, x
<1>3. object \in Seq(Object) /\ Objects = 1 .. Len(object) /\ Len(object) \in Nat
  BY DEF VariablesInv, Objects
<1>4. /\ object' \in Seq(Object) /\ Objects' = 1 .. Len(object) + 1
      /\ object'[Len(object) + 1] = x /\ \A o \in Objects : object'[o] = object[o]
  BY <1>1, <1>2, <1>3 DEF Objects
<1>5. /\ bound' \in [Names -> Objects' \cup {None}] /\ held' \in SUBSET Objects'
      /\ edited' \in [Names -> Values \cup {None}]
  BY <1>2, <1>3, <1>4 DEF VariablesInv
<1>6. \A o \in Objects' : Agrees(object'[o])
  BY <1>1, <1>3, <1>4 DEF VariablesInv
<1>7. \A m \in Names : bound'[m] # None => object'[bound'[m]].name = m
  BY <1>1, <1>2, <1>3, <1>4 DEF VariablesInv
<1>8. \A m \in Names : edited'[m] # None =>
        bound'[m] # None /\ object'[bound'[m]].value = edited'[m]
  <2> SUFFICES ASSUME NEW m \in Names, edited'[m] # None
               PROVE  bound'[m] # None /\ object'[bound'[m]].value = edited'[m]
    OBVIOUS
  <2>1. m # n
    BY <1>2 DEF VariablesInv
  <2>2. edited'[m] = edited[m] /\ bound'[m] = bound[m]
    BY <2>1, <1>2 DEF VariablesInv
  <2>3. bound[m] # None /\ bound[m] \in Objects
    BY <2>2 DEF VariablesInv
  <2> QED
    BY <2>2, <2>3, <1>4 DEF VariablesInv
<1> QED
  BY <1>4, <1>5, <1>6, <1>7, <1>8 DEF VariablesInv, Agrees, Decode

\* Showing any of the objects, as they are or as they have just become.
LEMMA ShowKeeps ==
  ASSUME VariablesInv, bound' = bound, NEW S \in SUBSET Objects,
         NEW objects \in [Objects -> Object],
         \A o \in Objects : objects[o].name = object[o].name /\ Agrees(objects[o]),
         edited' \in [Names -> Values \cup {None}],
         \A n \in Names : edited'[n] # None =>
           bound[n] # None /\ objects[bound[n]].value = edited'[n],
         Show(objects, S)
  PROVE  VariablesInv'
<1>1. \A o \in Objects : /\ object'[o] \in Object /\ object'[o].name = object[o].name
                         /\ object'[o].value = objects[o].value /\ Agrees(object'[o])
  BY ShownKeeps DEF Show
<1>2. object' \in [Objects -> Object] /\ held' \in SUBSET Objects
  BY <1>1 DEF Show, VariablesInv
<1>3. \A n \in Names : bound[n] # None => bound[n] \in Objects
  BY DEF VariablesInv
<1> QED
  BY <1>1, <1>2, <1>3, ChangeKeeps

LEMMA LookStep ==
  ASSUME VariablesInv, VariablesRequest \/ \E n \in Names : Evaluate(n)
  PROVE  VariablesInv'
<1>1. /\ object \in [Objects -> Object] /\ Locals \in SUBSET Objects
      /\ \A n \in Names : bound[n] # None => {bound[n]} \in SUBSET Objects
  BY DEF VariablesInv, Objects, Locals
<1>2. PICK S \in SUBSET Objects : Show(object, S) /\ bound' = bound /\ edited' = edited
  BY <1>1 DEF VariablesRequest, Evaluate
<1> QED
  BY <1>1, <1>2, ShowKeeps DEF VariablesInv

LEMMA EditStep ==
  ASSUME VariablesInv, NEW n \in Names, NEW v \in Plain \cup Strings, Edit(n, v)
  PROVE  VariablesInv'
<1> DEFINE objects == [object EXCEPT ![bound[n]] = SetValue(@, v)]
<1>1. bound[n] \in Objects /\ object \in [Objects -> Object] /\ v \in Values
  BY DEF Edit, VariablesInv, Objects, Values
<1>2. /\ objects \in [Objects -> Object] /\ objects[bound[n]].value = v
      /\ \A o \in Objects : /\ objects[o].name = object[o].name /\ Agrees(objects[o])
                            /\ o # bound[n] => objects[o] = object[o]
  BY <1>1, SetValueSets DEF VariablesInv
<1>3. Show(objects, {bound[n]}) /\ edited' = [edited EXCEPT ![n] = v] /\ bound' = bound
  BY DEF Edit
<1> HIDE DEF objects
<1>4. edited' \in [Names -> Values \cup {None}]
  BY <1>1, <1>3 DEF VariablesInv
<1>5. \A m \in Names : edited'[m] # None => bound[m] # None /\ objects[bound[m]].value = edited'[m]
  <2> SUFFICES ASSUME NEW m \in Names, edited'[m] # None
               PROVE  bound[m] # None /\ objects[bound[m]].value = edited'[m]
    OBVIOUS
  <2>1. CASE m = n
    BY <2>1, <1>2, <1>3 DEF VariablesInv, Edit
  <2>2. CASE m # n
    <3>1. edited'[m] = edited[m] /\ bound[m] # None /\ bound[m] \in Objects
      BY <2>2, <1>3 DEF VariablesInv
    <3>2. object[bound[m]].name = m /\ object[bound[n]].name = n
      BY <3>1 DEF VariablesInv, Edit
    <3>3. bound[m] # bound[n]
      BY <3>2, <2>2
    <3> QED
      BY <3>1, <3>3, <1>2 DEF VariablesInv
  <2> QED
    BY <2>1, <2>2
<1> QED
  BY <1>1, <1>2, <1>3, <1>4, <1>5, ShowKeeps

\* Changing one object through a reference.
LEMMA ThroughKeeps ==
  ASSUME VariablesInv, NEW o \in Objects, NEW x \in Object, NEW v \in Values,
         x.name = object[o].name, Agrees(x), x.value = v, Through(o, x, v)
  PROVE  VariablesInv'
<1>1. object \in [Objects -> Object] /\ object[o].name \in Names
  <2>1. object \in [Objects -> Object]
    BY DEF VariablesInv, Objects
  <2> QED
    BY <2>1 DEF Object
<1>2. /\ object' \in [Objects -> Object] /\ bound' = bound /\ held' \in SUBSET Objects
      /\ object'[o] = x /\ \A q \in Objects \ {o} : object'[q] = object[q]
  BY <1>1 DEF Through, VariablesInv
<1>3. edited' \in [Names -> Values \cup {None}]
  BY <1>1 DEF Through, VariablesInv
<1>4. \A n \in Names : edited'[n] # None =>
        bound[n] # None /\ object'[bound[n]].value = edited'[n]
  <2> SUFFICES ASSUME NEW n \in Names, edited'[n] # None
               PROVE  bound[n] # None /\ object'[bound[n]].value = edited'[n]
    OBVIOUS
  <2>1. CASE bound[n] = o
    <3>1. o # None
      BY ViewsAssumption DEF ViewsAssumption, VariablesInv, Objects
    <3>2. object[o].name = n
      BY <2>1, <3>1 DEF VariablesInv
    <3>3. edited' = [edited EXCEPT ![n] = v]
      BY <3>2, <2>1 DEF Through
    <3> QED
      BY <2>1, <3>1, <3>3, <1>2 DEF VariablesInv
  <2>2. CASE bound[n] # o
    <3>1. edited'[n] = edited[n]
      BY <2>2 DEF Through, VariablesInv
    <3>2. bound[n] # None /\ bound[n] \in Objects
      BY <3>1 DEF VariablesInv
    <3> QED
      BY <3>1, <3>2, <2>2, <1>2 DEF VariablesInv
  <2> QED
    BY <2>1, <2>2
<1>5. \A q \in Objects : object'[q].name = object[q].name /\ Agrees(object'[q])
  BY <1>2 DEF VariablesInv
<1> QED
  BY <1>2, <1>3, <1>4, <1>5, ChangeKeeps

LEMMA SetMemberStep ==
  ASSUME VariablesInv, NEW o \in Objects, NEW v \in Structures, SetMember(o, v)
  PROVE  VariablesInv'
<1> DEFINE x == [object[o] EXCEPT !.value = v, !.copy = IF OpensCopy(object[o]) THEN v ELSE @]
<1>1. object[o] \in Object /\ v \in Values /\ Agrees(object[o])
  BY DEF VariablesInv, Objects, Values
<1>2. object[o].memory = None
  <2>1. object[o].value \notin Strings
    BY ViewsAssumption DEF ViewsAssumption, SetMember
  <2> QED
    BY <2>1, <1>1, DecodeType DEF Agrees, Object
<1>3. x \in Object /\ x.name = object[o].name /\ x.value = v /\ x.memory = None
  BY <1>1, <1>2 DEF Object
<1>4. Through(o, x, v)
  BY DEF SetMember
<1> HIDE DEF x
<1> QED
  BY <1>1, <1>3, <1>4, ThroughKeeps DEF Agrees

LEMMA SetPlaceholderStep ==
  ASSUME VariablesInv, NEW o \in Objects, NEW v \in Values, SetPlaceholder(o, v)
  PROVE  VariablesInv'
<1>1. object \in [Objects -> Object]
  BY DEF VariablesInv, Objects
<1>2. /\ object' = [object EXCEPT ![o].copy = v]
      /\ bound' = bound /\ held' = held /\ edited' = edited
  BY DEF SetPlaceholder
<1>3. /\ object' \in [Objects -> Object]
      /\ \A q \in Objects : /\ object'[q].name = object[q].name
                            /\ object'[q].value = object[q].value
                            /\ object'[q].memory = object[q].memory
  BY <1>1, <1>2 DEF Object
<1>4. \A n \in Names : bound[n] # None => bound[n] \in Objects
  BY DEF VariablesInv
<1> QED
  BY <1>2, <1>3, <1>4, ChangeKeeps DEF VariablesInv, Agrees

LEMMA WriteMemoryStep ==
  ASSUME VariablesInv, NEW o \in Objects, NEW i \in 1 .. Width, NEW byte \in Bytes,
         WriteMemoryRequest(o, i, byte)
  PROVE  VariablesInv'
<1>1. PICK m : /\ m = [Memory(object[o]) EXCEPT ![i] = byte]
               /\ Through(o, Written(object[o], m), [object[o].value EXCEPT ![i] = Decode(m)[i]])
  BY DEF WriteMemoryRequest
<1>2. object[o] \in Object /\ Agrees(object[o]) /\ object[o].value \in Strings
  BY DEF VariablesInv, Objects, WriteMemoryRequest
<1>3. /\ Written(object[o], m) \in Object /\ Agrees(Written(object[o], m))
      /\ Written(object[o], m).name = object[o].name
      /\ Written(object[o], m).value = [object[o].value EXCEPT ![i] = Decode(m)[i]]
  BY <1>1, <1>2, WrittenWrites
<1>4. Written(object[o], m).value \in Values
  BY <1>3 DEF Object
<1> QED
  BY <1>1, <1>3, <1>4, ThroughKeeps

-----------------------------------------------------------------------------
(* The steps of the long requests.                                          *)

LEMMA FetchStep ==
  ASSUME RequestsInv, NEW r \in Fetches, FetchGlobals(r) \/ CancelFetch(r) \/ NextGlobal(r)
  PROVE  RequestsInv'
<1>1. CASE FetchGlobals(r)
  BY <1>1, ViewsAssumption
     DEF ViewsAssumption, RequestsInv, FetchGlobals, FetchRecord, OnlyAskedCutShort
<1>2. CASE CancelFetch(r)
  BY <1>2 DEF RequestsInv, CancelFetch, OnlyAskedCutShort
<1>3. CASE NextGlobal(r)
  <2>1. fetch' \in [Fetches -> FetchRecord]
    BY <1>3, ViewsAssumption DEF ViewsAssumption, RequestsInv, NextGlobal, FetchRecord
  <2>2. \A q \in Fetches : fetch'[q].at = "over" /\ fetch'[q].got < Globals => q \in asked
    BY <1>3, ViewsAssumption
       DEF ViewsAssumption, RequestsInv, NextGlobal, FetchRecord, OnlyAskedCutShort, IsCancelled
  <2>3. tokens' \in SUBSET Fetches /\ cancelled' \in SUBSET tokens' /\ cancelled' \subseteq asked
    BY <1>3 DEF RequestsInv, NextGlobal, Answer
  <2> QED
    BY <1>3, <2>1, <2>2, <2>3 DEF RequestsInv, NextGlobal, OnlyAskedCutShort
<1> QED
  BY <1>1, <1>2, <1>3

LEMMA ProgressStep ==
  ASSUME RequestsInv, NEW p \in Progresses,
         \/ ProgressSequence(p) \/ ProgressStart(p) \/ ProgressUpdate(p) \/ CancelProgress(p)
  PROVE  RequestsInv'
<1>1. CASE ProgressSequence(p)
  BY <1>1 DEF RequestsInv, ProgressSequence, ProgressRecord, OnlyAskedCutShort
<1>2. CASE ProgressStart(p)
  BY <1>2 DEF RequestsInv, ProgressStart, ProgressRecord, OnlyAskedCutShort
<1>3. CASE CancelProgress(p)
  BY <1>3 DEF RequestsInv, CancelProgress, OnlyAskedCutShort
<1>4. CASE ProgressUpdate(p)
  <2>1. progress' \in [Progresses -> ProgressRecord]
    BY <1>4, ViewsAssumption DEF ViewsAssumption, RequestsInv, ProgressUpdate, ProgressRecord, Counted
  <2>2. \A q \in Progresses : progress'[q].at = "cancelled" => q \in asked
    <3>1. p # None
      BY ViewsAssumption DEF ViewsAssumption
    <3> QED
      BY <3>1, <1>4 DEF RequestsInv, ProgressUpdate, ProgressRecord, OnlyAskedCutShort
  <2>3. /\ cancelledProgressId' \in Progresses \cup {None}
        /\ cancelledProgressId' # None => cancelledProgressId' \in asked
    BY <1>4 DEF RequestsInv, ProgressUpdate
  <2> QED
    BY <1>4, <2>1, <2>2, <2>3 DEF RequestsInv, ProgressUpdate, OnlyAskedCutShort
<1> QED
  BY <1>1, <1>2, <1>3, <1>4

-----------------------------------------------------------------------------
LEMMA InitInv == Init => Inv
<1> SUFFICES ASSUME Init PROVE Inv
  OBVIOUS
<1>1. VariablesInv
  BY DEF Init, VariablesInv, Objects
<1>2. RequestsInv
  BY ViewsAssumption
     DEF ViewsAssumption, Init, RequestsInv, FetchRecord, ProgressRecord, OnlyAskedCutShort
<1> QED
  BY <1>1, <1>2 DEF Inv

LEMMA StillVariables == VariablesInv /\ UNCHANGED variables => VariablesInv'
BY DEF variables, VariablesInv, Objects, Agrees, Decode

LEMMA StillRequests == RequestsInv /\ UNCHANGED requests => RequestsInv'
BY DEF requests, RequestsInv, OnlyAskedCutShort

\* A step of one half leaves the other alone.
LEMMA NextInv == Inv /\ [Next]_vars => Inv'
<1> SUFFICES ASSUME Inv, [Next]_vars PROVE Inv'
  OBVIOUS
<1> USE DEF Inv
<1>1. CASE UNCHANGED vars
  BY <1>1, StillVariables, StillRequests DEF vars
<1>2. CASE Program
  <2>1. PICK n \in Names, v \in Values : Assign(n, v)
    BY <1>2 DEF Program
  <2> QED
    BY <2>1, AssignStep, StillRequests DEF Assign
<1>3. CASE VariablesRequest \/ \E n \in Names : Evaluate(n)
  BY <1>3, LookStep, StillRequests DEF VariablesRequest, Evaluate
<1>4. CASE \E n \in Names, v \in Plain \cup Strings : Edit(n, v)
  <2>1. PICK n \in Names, v \in Plain \cup Strings : Edit(n, v)
    BY <1>4
  <2> QED
    BY <2>1, EditStep, StillRequests DEF Edit
<1>5. CASE \E o \in Objects, v \in Structures : SetMember(o, v)
  <2>1. PICK o \in Objects, v \in Structures : SetMember(o, v)
    BY <1>5
  <2> QED
    BY <2>1, SetMemberStep, StillRequests DEF SetMember, Through
<1>6. CASE \E o \in Objects, v \in Values : SetPlaceholder(o, v)
  <2>1. PICK o \in Objects, v \in Values : SetPlaceholder(o, v)
    BY <1>6
  <2> QED
    BY <2>1, SetPlaceholderStep, StillRequests DEF SetPlaceholder
<1>7. CASE \E o \in Objects, i \in 1 .. Width, byte \in Bytes : WriteMemoryRequest(o, i, byte)
  <2>1. PICK o \in Objects, i \in 1 .. Width, byte \in Bytes : WriteMemoryRequest(o, i, byte)
    BY <1>7
  <2> QED
    BY <2>1, WriteMemoryStep, StillRequests DEF WriteMemoryRequest, Through
<1>8. CASE \E r \in Fetches : FetchGlobals(r) \/ CancelFetch(r) \/ NextGlobal(r)
  BY <1>8, FetchStep, StillVariables DEF FetchGlobals, CancelFetch, NextGlobal
<1>9. CASE \E p \in Progresses : \/ ProgressSequence(p) \/ ProgressStart(p)
                                \/ ProgressUpdate(p) \/ CancelProgress(p)
  BY <1>9, ProgressStep, StillVariables
     DEF ProgressSequence, ProgressStart, ProgressUpdate, CancelProgress
<1> QED
  BY <1>1, <1>2, <1>3, <1>4, <1>5, <1>6, <1>7, <1>8, <1>9
     DEF Next, Client, Timer, SetVariableRequest, SetExpressionRequest, EvaluateAssignment

\* The inductive invariant: what the client set is the value of an object of that
\* name that is still bound, memory agrees with values, and whatever is cancelled
\* was asked to be.
THEOREM Invariant == Spec => []Inv
<1>1. Init => Inv
  BY InitInv
<1>2. Inv /\ [Next]_vars => Inv'
  BY NextInv
<1> QED
  BY <1>1, <1>2, PTL DEF Spec

\* Every reachable state is well typed.
THEOREM TypeCorrect == Spec => []TypeOK
<1>1. Inv => TypeOK
  BY DEF Inv, VariablesInv, RequestsInv, TypeOK
<1> QED
  BY <1>1, Invariant, PTL

\* For any program and any edits, by name, by member or in memory, in any order
\* and through references however old: what was set last is there.
THEOREM EditsAreKept == Spec => []EditsStay
<1>1. Inv => EditsStay
  BY DEF Inv, VariablesInv, EditsStay, Agrees
<1> QED
  BY <1>1, Invariant, PTL

\* For any number of overlapping requests and cancels, only what the client
\* cancelled is cut short.
THEOREM CutShortOnlyIfAsked == Spec => []OnlyAskedCutShort
<1>1. Inv => OnlyAskedCutShort
  BY DEF Inv, RequestsInv
<1> QED
  BY <1>1, Invariant, PTL
=============================================================================
