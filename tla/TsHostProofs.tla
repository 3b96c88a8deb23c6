---------------------------- MODULE TsHostProofs ----------------------------
(***************************************************************************)
(* Proofs about the TypeScript host, for every text, any number of           *)
(* overlapping handlers and every bound: what holds of the engine whatever   *)
(* calls it holds of the engine under this host, and a set of breakpoints    *)
(* replaces the one before.                                                 *)
(***************************************************************************)
EXTENDS TsHost, TsEngineProofs

\* What the handlers call the engine with is what a request may hold.
Asks ==
  /\ handler \in [Tasks -> HandlerRecord]
  /\ immediates \in Seq(Directions) /\ requests \in Nat
  /\ \A t \in Tasks :
       /\ handler[t].call = "setBreakpoints" => handler[t].file \in BpFiles
       /\ handler[t].todo # <<>> => handler[t].call = "setBreakpoints"
       /\ phase = "opening" => ~Awaits(t)

Sets(r, f) == r.call = "setBreakpoints" /\ r.file = f

\* One handler sets a file; the lines it has added and those left are the set.
OnePerFile ==
  \A t, u \in Tasks, f \in Files : Sets(handler[t], f) /\ Sets(handler[u], f) => t = u
SetSoFar(f) ==
  wanted[f] # None =>
    /\ (\A t \in Tasks : ~Sets(handler[t], f)) => LinesOf(f) = wanted[f]
    /\ \A t \in Tasks : Sets(handler[t], f) => LinesOf(f) \o handler[t].todo = wanted[f]
Replacing == /\ DOMAIN wanted = Files
             /\ Waits => OnePerFile /\ \A f \in Files : SetSoFar(f)

HostInv == Inv /\ Asks /\ Replacing

-----------------------------------------------------------------------------
(* The host calls the engine as the engine allows.                          *)

LEMMA RequestCalls ==
  ASSUME Request PROVE Next \/ UNCHANGED vars
<1>1. ASSUME NEW t \in Tasks, NEW f \in Programs, NEW entry \in BOOLEAN, Launch(t, f, entry)
      PROVE  Next
  BY <1>1 DEF Launch, Next, Command
<1>2. ASSUME NEW t \in Tasks, NEW f \in BpFiles, NEW set \in LineLists, SetBreakpoints(t, f, set)
      PROVE  Next
  BY <1>2 DEF SetBreakpoints, Next, Command
<1>3. ASSUME NEW reverse \in Directions, ContinueRequest(reverse) PROVE UNCHANGED vars
  BY <1>3 DEF ContinueRequest
<1>4. CASE AtOnce
  BY <1>4 DEF AtOnce, PauseRequest, Move, Settings, Next, Command
<1>5. CASE View \/ Disconnect
  BY <1>5 DEF View, Disconnect
<1> QED
  BY <1>1, <1>2, <1>3, <1>4, <1>5 DEF Request

LEMMA TurnCalls ==
  ASSUME Asks, NEW t \in Tasks, TaskTurn(t) PROVE Next \/ UNCHANGED vars
<1>1. CASE AddBreakpoint(t)
  <2>1. handler[t].file \in BpFiles /\ handler[t].todo \in Seq(BpLines)
    BY <1>1 DEF AddBreakpoint, Asks, HandlerRecord
  <2>2. Head(handler[t].todo) \in BpLines
    BY <1>1, <2>1, HeadTailProperties DEF AddBreakpoint
  <2> QED
    BY <1>1, <2>1, <2>2 DEF AddBreakpoint, Next, Command
<1>2. CASE Done(t)
  BY <1>2 DEF Done
<1>3. CASE Reject(t) \/ Resume(t) \/ Read(t)
  BY <1>3 DEF Reject, Resume, Read, Next, TaskStep
<1> QED
  BY <1>1, <1>2, <1>3 DEF TaskTurn

LEMMA HostCalls == Asks /\ [HostNext]_all => [Next]_vars
<1> SUFFICES ASSUME Asks, [HostNext]_all PROVE Next \/ UNCHANGED vars
  OBVIOUS
<1>1. ASSUME NEW t \in Tasks, NEW f \in Programs \ {None}, NEW entry \in BOOLEAN,
             Preload(t, f, entry)
      PROVE  Next
  BY <1>1 DEF Preload, Next, Command
<1>2. CASE Immediate
  BY <1>2, HeadTailProperties DEF Immediate, Asks, Next, Command
<1>3. CASE OnStack \/ Write \/ Serve
  BY <1>3 DEF OnStack, Write, Serve, Next
<1>4. CASE UNCHANGED all
  BY <1>4 DEF all
<1> QED
  BY <1>1, <1>2, <1>3, <1>4, RequestCalls, TurnCalls DEF HostNext

-----------------------------------------------------------------------------
(* What the handlers hold keeps its type.                                   *)

LEMMA AwaitAsks ==
  ASSUME Asks, NEW t \in Tasks, NEW call \in {"preload", "launch", "setBreakpoints"},
         NEW f \in Files \cup {None}, NEW todo \in Seq(BpLines), NEW n \in Nat, Await(t, call, f, todo, n),
         call = "setBreakpoints" => f \in BpFiles, todo # <<>> => call = "setBreakpoints",
         UNCHANGED immediates, requests' \in Nat, phase' # "opening"
  PROVE  Asks'
<1> DEFINE r == [call |-> call, file |-> f, todo |-> todo, id |-> n]
<1>1. r \in HandlerRecord /\ r.call = call /\ r.file = f /\ r.todo = todo
  BY DEF HandlerRecord
<1> HIDE DEF r
<1>2. handler' = [handler EXCEPT ![t] = r]
  BY DEF Await, r
<1> QED
  BY <1>1, <1>2 DEF Asks

LEMMA AnswerAsks ==
  ASSUME Asks, NEW t \in Tasks, NEW n, Answer(t, n), UNCHANGED <<immediates, requests>>,
         phase' = "opening" => phase = "opening"
  PROVE  Asks'
<1>1. NoHandler \in HandlerRecord /\ NoHandler.call = "none" /\ NoHandler.todo = <<>>
  BY DEF NoHandler, HandlerRecord
<1> QED
  BY <1>1 DEF Asks, Answer, Awaits

LEMMA RequestAsks ==
  ASSUME Asks, Request PROVE Asks'
<1>1. ASSUME NEW t \in Tasks, NEW f \in Programs, NEW entry \in BOOLEAN, Launch(t, f, entry)
      PROVE  Asks'
  <2>1. f \in Files \cup {None} /\ <<>> \in Seq(BpLines) /\ requests' \in Nat
    BY <1>1, ConstantsAssumption DEF ConstantsAssumption, Launch, Line, Asks
  <2> QED
    BY <1>1, <2>1, AwaitAsks DEF Launch, Line
<1>2. ASSUME NEW t \in Tasks, NEW f \in BpFiles, NEW set \in LineLists, SetBreakpoints(t, f, set)
      PROVE  Asks'
  <2>1. f \in Files /\ set \in Seq(BpLines) /\ requests' \in Nat
    BY <1>2, ConstantsAssumption, HostAssumption
       DEF ConstantsAssumption, HostAssumption, SetBreakpoints, Line, Asks
  <2> QED
    BY <1>2, <2>1, AwaitAsks DEF SetBreakpoints, Line
<1>3. ASSUME NEW reverse \in Directions, ContinueRequest(reverse) PROVE Asks'
  BY <1>3, AppendProperties DEF ContinueRequest, Line, Asks, Awaits
<1>4. CASE AtOnce \/ View \/ Disconnect
  <2>1. Line /\ UNCHANGED <<handler, immediates>> /\ (phase' = "opening" => phase = "opening")
    BY <1>4 DEF AtOnce, PauseRequest, View, Disconnect
  <2> QED
    BY <2>1 DEF Line, Asks, Awaits
<1> QED
  BY <1>1, <1>2, <1>3, <1>4 DEF Request

LEMMA TurnAsks ==
  ASSUME Asks, NEW t \in Tasks, TaskTurn(t) PROVE Asks'
<1>1. CASE AddBreakpoint(t)
  <2>1. /\ handler[t].call = "setBreakpoints" /\ handler[t].file \in BpFiles
        /\ handler[t].todo \in Seq(BpLines) /\ handler[t].todo # <<>>
        /\ handler[t].id \in Nat
    BY <1>1 DEF AddBreakpoint, Asks, HandlerRecord
  <2>2. Tail(handler[t].todo) \in Seq(BpLines) /\ handler[t].file \in Files
    BY <2>1, HeadTailProperties, ConstantsAssumption DEF ConstantsAssumption
  <2>3. Await(t, "setBreakpoints", handler[t].file, Tail(handler[t].todo), handler[t].id)
    BY <1>1, <2>1 DEF AddBreakpoint
  <2> QED
    BY <1>1, <2>1, <2>2, <2>3, AwaitAsks DEF AddBreakpoint, Resumes, Asks
<1>2. CASE Done(t) \/ Reject(t)
  BY <1>2, AnswerAsks DEF Done, Reject
<1>3. CASE Resume(t) \/ Read(t)
  BY <1>3 DEF Resume, Read, Asks, Awaits
<1> QED
  BY <1>1, <1>2, <1>3 DEF TaskTurn

LEMMA HostAsks == Asks /\ [HostNext]_all => Asks'
<1> SUFFICES ASSUME Asks, [HostNext]_all PROVE Asks'
  OBVIOUS
<1>1. ASSUME NEW t \in Tasks, NEW f \in Programs \ {None}, NEW entry \in BOOLEAN,
             Preload(t, f, entry)
      PROVE  Asks'
  <2>1. f \in Files \cup {None} /\ <<>> \in Seq(BpLines)
    BY ConstantsAssumption DEF ConstantsAssumption
  <2> QED
    BY <1>1, <2>1, AwaitAsks DEF Preload, Asks
<1>2. CASE Immediate
  BY <1>2, HeadTailProperties DEF Immediate, Asks, Awaits
<1>3. CASE OnStack \/ Write \/ Serve \/ UNCHANGED all
  BY <1>3 DEF OnStack, Write, Serve, all, host, Asks, Awaits
<1> QED
  BY <1>1, <1>2, <1>3, RequestAsks, TurnAsks DEF HostNext

-----------------------------------------------------------------------------
(* Only SetBreakPoint and ClearBreakpoints change the lines of a file.      *)

LinesKept == /\ breakPoints' = breakPoints
             /\ \A id \in Ids : breakpoint'[id].line = breakpoint[id].line

LEMMA LinesOfType ==
  ASSUME TypeOK, NEW f \in Files
  PROVE  /\ LinesOf(f) \in Seq(Int) /\ Len(LinesOf(f)) = Len(breakPoints[f])
         /\ \A i \in 1 .. Len(breakPoints[f]) : breakPoints[f][i] \in Ids
<1>1. breakPoints[f] \in Seq(Ids)
  BY DEF TypeOK
<1>2. \A i \in DOMAIN breakPoints[f] : breakPoints[f][i] \in Ids /\ breakpoint[breakPoints[f][i]].line \in Int
  BY <1>1, ElementOfSeq DEF TypeOK, Breakpoint
<1>3. DOMAIN breakPoints[f] = 1 .. Len(breakPoints[f]) /\ Len(breakPoints[f]) \in Nat
  BY <1>1
<1> QED
  BY <1>2, <1>3, IsASeq DEF LinesOf

LEMMA SameLines ==
  ASSUME TypeOK, NEW f \in Files, breakPoints'[f] = breakPoints[f],
         \A id \in Ids : breakpoint'[id].line = breakpoint[id].line
  PROVE  LinesOf(f)' = LinesOf(f)
BY LinesOfType DEF LinesOf, TypeOK

LEMMA VerifyKeepsLines ==
  ASSUME Inv, NEW id \in Ids, NEW v,
         breakPoints' = breakPoints, breakpoint' = [breakpoint EXCEPT ![id].verified = v]
  PROVE  LinesKept
BY DEF LinesKept, Inv, TypeOK, Breakpoint

LEMMA VerifyOneLines == ASSUME Inv, VerifyOne PROVE LinesKept
<1>1. verifying.todo \in Seq(Ids) /\ verifying.todo # <<>> /\ breakPoints' = breakPoints
  BY DEF VerifyOne, Inv, TypeOK, NoneAssumption
<1>2. Head(verifying.todo) \in Ids
  BY <1>1, HeadTailProperties
<1>3. \/ UNCHANGED breakpoint
      \/ breakpoint' = [breakpoint EXCEPT ![Head(verifying.todo)].verified =
                          NonBlank(loaded, breakpoint[Head(verifying.todo)].line)]
  BY DEF VerifyOne
<1> QED
  BY <1>1, <1>2, <1>3, VerifyKeepsLines DEF LinesKept

LEMMA FindBreakpointLines == ASSUME Inv, FindBreakpoint PROVE LinesKept
<1>1. PICK l \in FirstOf(Landings) : \E i \in BreakpointsOn(l) :
        breakpoint' = [breakpoint EXCEPT ![BreakpointsOf(sourceFile)[i]].verified = TRUE]
  BY DEF FindBreakpoint
<1>2. PICK i \in BreakpointsOn(l) :
        breakpoint' = [breakpoint EXCEPT ![BreakpointsOf(sourceFile)[i]].verified = TRUE]
  BY <1>1
<1>3. sourceFile \in Files /\ i \in DOMAIN breakPoints[sourceFile]
  BY <1>2 DEF BreakpointsOn, BreakpointsOf, Inv, TypeOK
<1>4. BreakpointsOf(sourceFile)[i] \in Ids
  BY <1>3, LinesOfType, NoneAssumption DEF BreakpointsOf, NoneAssumption, Inv, TypeOK
<1>5. breakPoints' = breakPoints
  BY DEF FindBreakpoint
<1> QED
  BY <1>4, <1>5, <1>2, VerifyKeepsLines

LEMMA OtherLines ==
  ASSUME Inv,
         \/ RunStep \/ VerifyOne \/ Verified \/ Pause \/ Move \/ Settings \/ Deliver
         \/ (\E t \in Tasks : TaskStep(t))
         \/ (\E t \in Tasks, f \in Programs, entry \in BOOLEAN : Start(t, f, entry))
         \/ (\E reverse \in BOOLEAN : Continue(reverse)) \/ UNCHANGED vars
  PROVE  LinesKept
<1>1. CASE RunStep
  <2>1. CASE FindBreakpoint
    BY <2>1, FindBreakpointLines
  <2>2. CASE FindInstruction \/ FindStatement \/ RunOff \/ UpdateCurrentLine
    BY <2>2 DEF LinesKept, FindInstruction, FindStatement, RunOff, UpdateCurrentLine, stops
  <2>3. CASE HitInstruction \/ HitData
    BY <2>3 DEF LinesKept, HitInstruction, HitData, stops
  <2>4. CASE HitException \/ ExecuteLine
    BY <2>4 DEF LinesKept, HitException, ExecuteLine, LineDone, stops
  <2> QED
    BY <1>1, <2>1, <2>2, <2>3, <2>4 DEF RunStep
<1>2. CASE VerifyOne
  BY <1>2, VerifyOneLines
<1>3. CASE Verified \/ Pause \/ Deliver \/ UNCHANGED vars
  BY <1>3 DEF Verified, Pause, Deliver, stops, vars, LinesKept
<1>4. CASE Move
  BY <1>4 DEF Move, Step, Call, StepIn, StepOut, StepInTarget, SetColumn, stops, LinesKept
<1>5. CASE Settings
  BY <1>5 DEF Settings, SetVariable, SetDataBreakpoint, ClearAllDataBreakpoints,
              SetExceptionsFilters, SetInstructionBreakpoint, ClearInstructionBreakpoints,
              ChangeInstructionBreakpoints, stops, LinesKept
<1>6. ASSUME NEW t \in Tasks, TaskStep(t) PROVE LinesKept
  BY <1>6 DEF TaskStep, ReadDone, ReadFail, AfterLoad, Verify, FinishStart, stops, LinesKept
<1>7. ASSUME NEW t \in Tasks, NEW f \in Programs, NEW entry \in BOOLEAN, Start(t, f, entry)
      PROVE  LinesKept
  BY <1>7 DEF Start, stops, LinesKept
<1>8. ASSUME NEW reverse \in BOOLEAN, Continue(reverse) PROVE LinesKept
  BY <1>8 DEF Continue, Call, stops, LinesKept
<1> QED
  BY <1>1, <1>2, <1>3, <1>4, <1>5, <1>6, <1>7, <1>8

-----------------------------------------------------------------------------
(* A set replaces the one before.                                           *)

LEMMA StillReplacing ==
  ASSUME Inv, Replacing, LinesKept, UNCHANGED wanted,
         \A t \in Tasks, f \in Files :
           Sets(handler[t], f) \/ Sets(handler'[t], f) => handler'[t] = handler[t]
  PROVE  Replacing'
<1>1. \A f \in Files : LinesOf(f)' = LinesOf(f)
  BY SameLines DEF LinesKept, Inv
<1>2. \A t \in Tasks, f \in Files : Sets(handler'[t], f) <=> Sets(handler[t], f)
  OBVIOUS
<1>3. ASSUME Waits, NEW f \in Files PROVE SetSoFar(f)'
  BY <1>1, <1>2, <1>3 DEF SetSoFar, Replacing
<1> QED
  BY <1>2, <1>3 DEF Replacing, OnePerFile

\* A request that is not a set leaves what handlers set alone.
LEMMA AwaitOther ==
  ASSUME Asks, NEW t \in Tasks, ~Awaits(t),
         NEW call \in {"preload", "launch"}, NEW f, NEW todo, NEW n, Await(t, call, f, todo, n)
  PROVE  \A u \in Tasks, g \in Files :
           Sets(handler[u], g) \/ Sets(handler'[u], g) => handler'[u] = handler[u]
BY DEF Asks, Await, Awaits, Sets

LEMMA SetReplaces ==
  ASSUME HostInv, NEW t \in Tasks, NEW f \in BpFiles, NEW set \in LineLists,
         SetBreakpoints(t, f, set)
  PROVE  Replacing'
<1> DEFINE r == [call |-> "setBreakpoints", file |-> f, todo |-> set, id |-> requests']
<1>1. f \in Files /\ set \in Seq(BpLines)
  BY ConstantsAssumption, HostAssumption DEF ConstantsAssumption, HostAssumption
<1>2. /\ handler' = [handler EXCEPT ![t] = r] /\ handler \in [Tasks -> HandlerRecord]
      /\ r.call = "setBreakpoints" /\ r.file = f /\ r.todo = set
      /\ wanted' = [wanted EXCEPT ![f] = set] /\ DOMAIN wanted = Files
      /\ handler[t].call = "none" /\ (Waits => Free(f))
  BY DEF SetBreakpoints, Takes, Await, Awaits, HostInv, Asks, Replacing
<1> HIDE DEF r
<1>3. /\ breakPoints' = [breakPoints EXCEPT ![f] = <<>>] /\ breakpoint' = breakpoint
      /\ breakPoints \in [Files -> Seq(Ids)]
  BY DEF SetBreakpoints, ClearBreakpoints, HostInv, Inv, TypeOK
<1>4. LinesOf(f)' = <<>>
  BY <1>1, <1>3 DEF LinesOf
<1>5. ASSUME NEW g \in Files, g # f PROVE LinesOf(g)' = LinesOf(g)
  BY <1>3, <1>5, SameLines DEF HostInv, Inv
<1>6. ASSUME NEW u \in Tasks, u # t PROVE handler'[u] = handler[u]
  BY <1>2, <1>6
<1>7. handler'[t] = r
  BY <1>2
<1>8. ASSUME Waits, NEW u \in Tasks, NEW v \in Tasks, NEW g \in Files,
             Sets(handler'[u], g), Sets(handler'[v], g)
      PROVE  u = v
  BY <1>2, <1>6, <1>7, <1>8 DEF Sets, Free, HostInv, Replacing, OnePerFile
<1>9. ASSUME Waits PROVE SetSoFar(f)'
  <2>1. \A u \in Tasks : Sets(handler'[u], f) => u = t
    BY <1>2, <1>6, <1>9 DEF Sets, Free
  <2>2. LinesOf(f)' \o handler'[t].todo = wanted'[f]
    BY <1>1, <1>2, <1>4, <1>7, ConcatEmptySeq
  <2>3. Sets(handler'[t], f)
    BY <1>2, <1>7 DEF Sets
  <2> QED
    BY <2>1, <2>2, <2>3 DEF SetSoFar
<1>10. ASSUME Waits, NEW g \in Files, g # f PROVE SetSoFar(g)'
  <2>1. \A u \in Tasks : Sets(handler'[u], g) => Sets(handler[u], g) /\ handler'[u] = handler[u]
    BY <1>2, <1>6, <1>7, <1>10 DEF Sets
  <2>2. \A u \in Tasks : Sets(handler[u], g) => Sets(handler'[u], g)
    BY <1>2, <1>6 DEF Sets
  <2>3. wanted'[g] = wanted[g]
    BY <1>2, <1>10
  <2> QED
    BY <1>5, <1>10, <2>1, <2>2, <2>3 DEF SetSoFar, HostInv, Replacing
<1> QED
  BY <1>2, <1>8, <1>9, <1>10 DEF Replacing, OnePerFile

LEMMA AddReplaces ==
  ASSUME HostInv, NEW t \in Tasks, AddBreakpoint(t)
  PROVE  Replacing'
<1>0. PICK f \in BpFiles, todo \in Seq(BpLines) : f = handler[t].file /\ todo = handler[t].todo
  BY DEF AddBreakpoint, HostInv, Asks, HandlerRecord
<1> DEFINE r == [call |-> "setBreakpoints", file |-> f, todo |-> Tail(todo), id |-> handler[t].id]
<1>1. handler[t].call = "setBreakpoints" /\ f \in Files /\ todo # <<>>
  BY <1>0, ConstantsAssumption DEF AddBreakpoint, HostInv, Asks, ConstantsAssumption
<1>2. /\ handler' = [handler EXCEPT ![t] = r] /\ handler \in [Tasks -> HandlerRecord]
      /\ r.call = "setBreakpoints" /\ r.file = f /\ r.todo = Tail(todo)
      /\ wanted' = wanted
  BY <1>0, <1>1 DEF AddBreakpoint, Await, HostInv, Asks
<1>3. /\ breakPoints' = [breakPoints EXCEPT ![f] = Append(@, breakpointId)]
      /\ breakpoint' = Append(breakpoint, [line |-> Head(todo), verified |-> FALSE])
      /\ breakPoints \in [Files -> Seq(Ids)] /\ breakpointId \in Nat \ {0}
      /\ breakpoint \in [1 .. breakpointId - 1 -> Breakpoint]
  BY <1>0 DEF AddBreakpoint, SetBreakPoint, HostInv, Inv, TypeOK, Ids
<1> HIDE DEF r
<1>4. /\ breakpoint \in Seq(Breakpoint) /\ Len(breakpoint) = breakpointId - 1
      /\ \A id \in Ids : breakpoint'[id] = breakpoint[id]
      /\ breakpoint'[breakpointId].line = Head(todo)
  <2>1. breakpointId - 1 \in Nat
    BY <1>3
  <2>2. breakpoint \in Seq(Breakpoint) /\ Len(breakpoint) = breakpointId - 1
    BY <1>3, <2>1
  <2> QED
    BY <1>3, <2>2 DEF Ids
<1>5. ASSUME NEW g \in Files, g # f PROVE LinesOf(g)' = LinesOf(g)
  BY <1>3, <1>4, <1>5, SameLines DEF HostInv, Inv
<1>6. LinesOf(f)' = Append(LinesOf(f), Head(todo))
  <2>1. breakPoints[f] \in Seq(Ids) /\ breakPoints'[f] = Append(breakPoints[f], breakpointId)
    BY <1>1, <1>3
  <2>2. /\ LinesOf(f) \in Seq(Int) /\ Len(LinesOf(f)) = Len(breakPoints[f])
        /\ \A i \in 1 .. Len(breakPoints[f]) :
             breakPoints[f][i] \in Ids /\ LinesOf(f)[i] = breakpoint[breakPoints[f][i]].line
    BY <1>1, <2>1, LinesOfType DEF LinesOf, HostInv, Inv
  <2>3. LinesOf(f)' = [i \in DOMAIN breakPoints'[f] |-> breakpoint'[breakPoints'[f][i]].line]
    BY DEF LinesOf
  <2>4. /\ Len(breakPoints[f]) \in Nat
        /\ DOMAIN breakPoints'[f] = 1 .. Len(breakPoints[f]) + 1
        /\ DOMAIN Append(LinesOf(f), Head(todo)) = 1 .. Len(breakPoints[f]) + 1
    BY <2>1, <2>2
  <2>5. ASSUME NEW i \in 1 .. Len(breakPoints[f]) + 1
        PROVE  breakpoint'[breakPoints'[f][i]].line = Append(LinesOf(f), Head(todo))[i]
    <3>1. CASE i \in 1 .. Len(breakPoints[f])
      <4>1. breakPoints'[f][i] = breakPoints[f][i] /\ breakPoints[f][i] \in Ids
        BY <2>1, <2>2, <2>4, <3>1
      <4>2. Append(LinesOf(f), Head(todo))[i] = LinesOf(f)[i]
        BY <2>2, <2>4, <3>1
      <4> QED
        BY <1>4, <2>2, <3>1, <4>1, <4>2
    <3>2. CASE i = Len(breakPoints[f]) + 1
      <4>1. breakPoints'[f][i] = breakpointId
        BY <2>1, <2>4, <3>2
      <4>2. Append(LinesOf(f), Head(todo))[i] = Head(todo)
        BY <2>2, <2>4, <3>2
      <4> QED
        BY <1>4, <4>1, <4>2
    <3> QED
      BY <2>4, <3>1, <3>2
  <2>6. Append(LinesOf(f), Head(todo)) =
          [i \in 1 .. Len(breakPoints[f]) + 1 |-> Append(LinesOf(f), Head(todo))[i]]
    <3>1. Head(todo) \in Int
      BY <1>1, HeadTailProperties, ConstantsAssumption DEF ConstantsAssumption
    <3>2. Append(LinesOf(f), Head(todo)) \in Seq(Int)
      BY <2>2, <3>1, AppendProperties
    <3>3. Len(Append(LinesOf(f), Head(todo))) = Len(breakPoints[f]) + 1
      BY <2>2, <3>1, AppendProperties
    <3>4. Append(LinesOf(f), Head(todo)) \in [1 .. Len(breakPoints[f]) + 1 -> Int]
      <4> DEFINE s == Append(LinesOf(f), Head(todo))
      <4>1. s \in Seq(Int) /\ Len(s) = Len(breakPoints[f]) + 1
        BY <3>2, <3>3
      <4> HIDE DEF s
      <4>2. s \in [1 .. Len(s) -> Int]
        BY <4>1, LenProperties
      <4>3. s \in [1 .. Len(breakPoints[f]) + 1 -> Int]
        BY <4>1, <4>2
      <4> QED
        BY <4>3 DEF s
    <3> QED
      BY <3>4
  <2> QED
    BY <2>3, <2>4, <2>5, <2>6
<1>7. ASSUME NEW u \in Tasks, NEW g \in Files
      PROVE  Sets(handler'[u], g) <=> Sets(handler[u], g)
  BY <1>0, <1>1, <1>2 DEF Sets
<1>8. ASSUME Waits PROVE SetSoFar(f)'
  <2>1. Sets(handler[t], f) /\ Sets(handler'[t], f) /\ handler'[t].todo = Tail(todo)
    BY <1>0, <1>1, <1>2 DEF Sets
  <2>2. wanted[f] # None => LinesOf(f) \o todo = wanted[f]
    BY <1>0, <1>1, <1>8, <2>1 DEF HostInv, Replacing, SetSoFar
  <2>3. Append(LinesOf(f), Head(todo)) \o Tail(todo) = LinesOf(f) \o todo
    <3>1. LinesOf(f) \in Seq(Int) /\ todo \in Seq(Int)
      BY <1>1, LinesOfType, ConstantsAssumption, SeqMonotonic DEF ConstantsAssumption, HostInv, Inv
    <3> QED
      BY <1>1, <3>1
  <2>4. \A u \in Tasks : Sets(handler'[u], f) => u = t
    BY <1>1, <1>7, <1>8, <2>1 DEF HostInv, Replacing, OnePerFile
  <2> QED
    BY <1>2, <1>6, <2>1, <2>2, <2>3, <2>4 DEF SetSoFar
<1>9. ASSUME Waits, NEW g \in Files, g # f PROVE SetSoFar(g)'
  <2>1. \A u \in Tasks : Sets(handler[u], g) => handler'[u] = handler[u]
    BY <1>0, <1>1, <1>2, <1>9 DEF Sets
  <2> QED
    BY <1>2, <1>5, <1>7, <1>9, <2>1 DEF SetSoFar, HostInv, Replacing
<1>10. Waits => OnePerFile'
  BY <1>7 DEF OnePerFile, HostInv, Replacing
<1> QED
  BY <1>2, <1>8, <1>9, <1>10 DEF Replacing, HostInv

LEMMA DoneReplaces ==
  ASSUME HostInv, NEW t \in Tasks, Done(t)
  PROVE  Replacing'
<1>1. /\ handler' = [handler EXCEPT ![t] = NoHandler] /\ handler \in [Tasks -> HandlerRecord]
      /\ wanted' = wanted /\ handler[t].todo = <<>>
      /\ \A f \in Files : ~Sets(NoHandler, f)
  BY DEF Done, Answer, NoHandler, Sets, HostInv, Asks
<1>2. ASSUME NEW f \in Files PROVE LinesOf(f)' = LinesOf(f) /\ LinesOf(f) \in Seq(Int)
  BY SameLines, LinesOfType DEF Done, vars, stops, HostInv, Inv
<1>3. ASSUME NEW u \in Tasks, NEW f \in Files
      PROVE  Sets(handler'[u], f) <=> Sets(handler[u], f) /\ u # t
  BY <1>1
<1>4. ASSUME NEW u \in Tasks, u # t PROVE handler'[u] = handler[u]
  BY <1>1, <1>4
<1>5. ASSUME Waits, NEW f \in Files PROVE SetSoFar(f)'
  <2>1. CASE Sets(handler[t], f)
    <3>1. wanted[f] # None => LinesOf(f) \o <<>> = wanted[f]
      BY <1>1, <1>5, <2>1 DEF HostInv, Replacing, SetSoFar
    <3>2. wanted[f] # None => LinesOf(f) = wanted[f]
      BY <1>2, <3>1, ConcatEmptySeq
    <3>3. \A u \in Tasks : ~Sets(handler'[u], f)
      BY <1>3, <1>5, <2>1 DEF HostInv, Replacing, OnePerFile
    <3> QED
      BY <1>1, <1>2, <3>2, <3>3 DEF SetSoFar
  <2>2. CASE ~Sets(handler[t], f)
    <3>1. \A u \in Tasks : Sets(handler'[u], f) <=> Sets(handler[u], f)
      BY <1>3, <2>2
    <3>2. \A u \in Tasks : Sets(handler[u], f) => handler'[u] = handler[u]
      BY <1>4, <2>2
    <3> QED
      BY <1>1, <1>2, <1>5, <3>1, <3>2 DEF SetSoFar, HostInv, Replacing
  <2> QED
    BY <2>1, <2>2
<1>6. Waits => OnePerFile'
  BY <1>3 DEF OnePerFile, HostInv, Replacing
<1> QED
  BY <1>1, <1>5, <1>6 DEF Replacing, HostInv

LEMMA RejectReplaces ==
  ASSUME HostInv, NEW t \in Tasks, Reject(t)
  PROVE  Replacing'
<1>1. /\ handler' = [handler EXCEPT ![t] = NoHandler] /\ handler \in [Tasks -> HandlerRecord]
      /\ DOMAIN wanted = Files
      /\ \A f \in Files : ~Sets(NoHandler, f)
  BY DEF Reject, Answer, NoHandler, Sets, HostInv, Asks, Replacing
<1>2. DOMAIN wanted' = Files
      /\ \A f \in Files : wanted'[f] = IF Sets(handler[t], f) THEN None ELSE wanted[f]
  <2>1. CASE handler[t].call = "setBreakpoints"
    <3>1. wanted' = [wanted EXCEPT ![handler[t].file] = None]
      BY <2>1 DEF Reject
    <3> QED
      BY <1>1, <2>1, <3>1 DEF Sets
  <2>2. CASE handler[t].call # "setBreakpoints"
    BY <1>1, <2>2 DEF Reject, Sets
  <2> QED
    BY <2>1, <2>2
<1>3. ASSUME NEW f \in Files PROVE LinesOf(f)' = LinesOf(f)
  <2>1. TaskStep(t)
    BY DEF Reject, TaskStep
  <2> QED
    BY <2>1, OtherLines, SameLines DEF LinesKept, HostInv, Inv
<1>4. ASSUME NEW u \in Tasks, NEW f \in Files
      PROVE  Sets(handler'[u], f) <=> Sets(handler[u], f) /\ u # t
  BY <1>1
<1>5. ASSUME NEW u \in Tasks, u # t PROVE handler'[u] = handler[u]
  BY <1>1, <1>5
<1>6. ASSUME Waits, NEW f \in Files PROVE SetSoFar(f)'
  <2>1. CASE Sets(handler[t], f)
    BY <1>2, <2>1 DEF SetSoFar
  <2>2. CASE ~Sets(handler[t], f)
    <3>1. \A u \in Tasks : Sets(handler'[u], f) <=> Sets(handler[u], f)
      BY <1>4, <2>2
    <3>2. \A u \in Tasks : Sets(handler[u], f) => handler'[u] = handler[u]
      BY <1>5, <2>2
    <3> QED
      BY <1>2, <1>3, <1>6, <2>2, <3>1, <3>2 DEF SetSoFar, HostInv, Replacing
  <2> QED
    BY <2>1, <2>2
<1>7. Waits => OnePerFile'
  BY <1>4 DEF OnePerFile, HostInv, Replacing
<1> QED
  BY <1>2, <1>6, <1>7 DEF Replacing

LEMMA RequestReplaces ==
  ASSUME HostInv, Request PROVE Replacing'
<1>1. ASSUME NEW t \in Tasks, NEW f \in Programs, NEW entry \in BOOLEAN, Launch(t, f, entry)
      PROVE  Replacing'
  <2>1. \A u \in Tasks, g \in Files :
          Sets(handler[u], g) \/ Sets(handler'[u], g) => handler'[u] = handler[u]
    BY <1>1, AwaitOther DEF Launch, Takes, HostInv
  <2> QED
    BY <1>1, <2>1, OtherLines, StillReplacing DEF Launch, HostInv
<1>2. ASSUME NEW t \in Tasks, NEW f \in BpFiles, NEW set \in LineLists, SetBreakpoints(t, f, set)
      PROVE  Replacing'
  BY <1>2, SetReplaces
<1>3. ASSUME NEW reverse \in Directions, ContinueRequest(reverse) PROVE Replacing'
  BY <1>3, OtherLines, StillReplacing DEF ContinueRequest, HostInv
<1>4. CASE AtOnce
  BY <1>4, OtherLines, StillReplacing DEF AtOnce, PauseRequest, HostInv
<1>5. CASE View \/ Disconnect
  BY <1>5, OtherLines, StillReplacing DEF View, Disconnect, HostInv
<1> QED
  BY <1>1, <1>2, <1>3, <1>4, <1>5 DEF Request

LEMMA HostReplaces == HostInv /\ [HostNext]_all => Replacing'
<1> SUFFICES ASSUME HostInv, [HostNext]_all PROVE Replacing'
  OBVIOUS
<1>1. ASSUME NEW t \in Tasks, NEW f \in Programs \ {None}, NEW entry \in BOOLEAN,
             Preload(t, f, entry)
      PROVE  Replacing'
  <2>1. \A u \in Tasks, g \in Files :
          Sets(handler[u], g) \/ Sets(handler'[u], g) => handler'[u] = handler[u]
    BY <1>1, AwaitOther DEF Preload, HostInv, Asks
  <2> QED
    BY <1>1, <2>1, OtherLines, StillReplacing DEF Preload, HostInv
<1>2. CASE Immediate
  <2>1. Head(immediates) \in BOOLEAN
    BY <1>2, HeadTailProperties, ConstantsAssumption
       DEF Immediate, ConstantsAssumption, HostInv, Asks
  <2> QED
    BY <1>2, <2>1, OtherLines, StillReplacing DEF Immediate, HostInv
<1>3. CASE OnStack \/ Write \/ Serve \/ UNCHANGED all
  BY <1>3, OtherLines, StillReplacing DEF OnStack, Write, Serve, all, host, HostInv
<1>4. ASSUME NEW t \in Tasks, TaskTurn(t) PROVE Replacing'
  <2>1. CASE Resume(t) \/ Read(t)
    BY <2>1, OtherLines, StillReplacing DEF Resume, Read, TaskStep, HostInv
  <2> QED
    BY <1>4, <2>1, AddReplaces, DoneReplaces, RejectReplaces DEF TaskTurn
<1> QED
  BY <1>1, <1>2, <1>3, <1>4, RequestReplaces DEF HostNext

-----------------------------------------------------------------------------
(* The numbers of the answers.                                              *)

Asked(r) == r.call \in {"launch", "setBreakpoints"}

\* A handler still has to answer the number it came with, and no other has it.
Numbers ==
  /\ pending \subseteq 1 .. requests
  /\ \A t \in Tasks : Asked(handler[t]) => handler[t].id \in pending
  /\ \A t \in Tasks : handler[t].call = "preload" => handler[t].id = 0
  /\ \A t, u \in Tasks : Asked(handler[t]) /\ Asked(handler[u]) /\ handler[t].id = handler[u].id
                            => t = u

LEMMA SameNumbers ==
  ASSUME Asks, Numbers, UNCHANGED <<handler, pending>>, requests' \in {requests, requests + 1}
  PROVE  Numbers'
<1>1. requests \in Nat /\ 1 .. requests \subseteq 1 .. requests'
  BY DEF Asks
<1> QED
  BY <1>1 DEF Numbers

LEMMA NewNumber ==
  ASSUME Asks, Numbers, NEW t \in Tasks, NEW call \in {"launch", "setBreakpoints"},
         NEW f, NEW todo, Await(t, call, f, todo, requests'), requests' = requests + 1,
         pending' = pending \cup {requests'}
  PROVE  Numbers'
<1> DEFINE r == [call |-> call, file |-> f, todo |-> todo, id |-> requests']
<1>1. r.call = call /\ r.id = requests + 1
  OBVIOUS
<1>2. handler' = [handler EXCEPT ![t] = r] /\ handler \in [Tasks -> HandlerRecord]
  BY DEF Await, Asks
<1> HIDE DEF r
<1>3. handler'[t] = r /\ \A u \in Tasks : u # t => handler'[u] = handler[u]
  BY <1>2
<1>4. requests \in Nat /\ requests + 1 \notin pending /\ pending' \subseteq 1 .. requests'
  BY DEF Asks, Numbers
<1> QED
  BY <1>1, <1>3, <1>4 DEF Numbers, Asked

LEMMA KeepNumber ==
  ASSUME Asks, Numbers, NEW t \in Tasks, handler[t].call = "setBreakpoints", NEW f, NEW todo,
         Await(t, "setBreakpoints", f, todo, handler[t].id), UNCHANGED <<pending, requests>>
  PROVE  Numbers'
<1> DEFINE r == [call |-> "setBreakpoints", file |-> f, todo |-> todo, id |-> handler[t].id]
<1>1. r.call = "setBreakpoints" /\ r.id = handler[t].id
  OBVIOUS
<1>2. handler' = [handler EXCEPT ![t] = r] /\ handler \in [Tasks -> HandlerRecord]
  BY DEF Await, Asks
<1> HIDE DEF r
<1>3. handler'[t] = r /\ \A u \in Tasks : u # t => handler'[u] = handler[u]
  BY <1>2
<1>4. \A u \in Tasks : /\ Asked(handler'[u]) <=> Asked(handler[u])
                       /\ handler'[u].id = handler[u].id
                       /\ handler'[u].call = "preload" <=> handler[u].call = "preload"
  BY <1>1, <1>3 DEF Asked
<1> QED
  BY <1>4 DEF Numbers

\* The number a handler answers is its own, or nobody's.
LEMMA AnswerNumbers ==
  ASSUME Asks, Numbers, NEW t \in Tasks, NEW n \in {handler[t].id, -1}, Awaits(t),
         Answer(t, n), UNCHANGED requests
  PROVE  Numbers'
<1>1. /\ handler' = [handler EXCEPT ![t] = NoHandler] /\ handler \in [Tasks -> HandlerRecord]
      /\ ~Asked(NoHandler) /\ NoHandler.call # "preload"
  BY DEF Answer, NoHandler, Asked, Asks
<1>2. ~Asked(handler'[t]) /\ handler'[t].call # "preload"
      /\ \A u \in Tasks : u # t => handler'[u] = handler[u]
  BY <1>1
<1>3. Asked(handler[t]) \/ handler[t].call = "preload"
  BY DEF Awaits, Asks, HandlerRecord, Asked
<1>4. ASSUME NEW u \in Tasks, u # t, Asked(handler[u]) PROVE handler[u].id # n
  <2>1. handler[u].id \in 1 .. requests /\ requests \in Nat
    BY <1>4 DEF Numbers, Asks
  <2> QED
    BY <1>3, <1>4, <2>1 DEF Numbers
<1>5. pending' = pending \ {n}
  BY DEF Answer
<1> QED
  BY <1>2, <1>4, <1>5 DEF Numbers

LEMMA HostNumbers == Asks /\ Numbers /\ [HostNext]_all => Numbers'
<1> SUFFICES ASSUME Asks, Numbers, [HostNext]_all PROVE Numbers'
  OBVIOUS
<1>1. ASSUME NEW t \in Tasks, NEW f \in Programs \ {None}, NEW entry \in BOOLEAN,
             Preload(t, f, entry)
      PROVE  Numbers'
  <2> DEFINE r == [call |-> "preload", file |-> f, todo |-> <<>>, id |-> 0]
  <2>1. r.call = "preload" /\ r.id = 0 /\ ~Asked(r)
    BY DEF Asked
  <2>2. /\ handler' = [handler EXCEPT ![t] = r] /\ handler \in [Tasks -> HandlerRecord]
        /\ UNCHANGED <<pending, requests>>
    BY <1>1 DEF Preload, Await, Asks
  <2> HIDE DEF r
  <2>3. handler'[t] = r /\ \A u \in Tasks : u # t => handler'[u] = handler[u]
    BY <2>2
  <2> QED
    BY <2>1, <2>2, <2>3 DEF Numbers
<1>2. ASSUME NEW t \in Tasks, NEW f \in Programs, NEW entry \in BOOLEAN, Launch(t, f, entry)
      PROVE  Numbers'
  BY <1>2, NewNumber DEF Launch, Line
<1>3. ASSUME NEW t \in Tasks, NEW f \in BpFiles, NEW set \in LineLists, SetBreakpoints(t, f, set)
      PROVE  Numbers'
  BY <1>3, NewNumber DEF SetBreakpoints, Line
<1>4. ASSUME NEW reverse \in Directions, ContinueRequest(reverse) PROVE Numbers'
  BY <1>4, SameNumbers DEF ContinueRequest, Line
<1>5. CASE AtOnce \/ View \/ Disconnect
  <2>1. Line /\ UNCHANGED <<handler, pending>>
    BY <1>5 DEF AtOnce, PauseRequest, View, Disconnect
  <2> QED
    BY <2>1, SameNumbers DEF Line
<1>6. ASSUME NEW t \in Tasks, TaskTurn(t) PROVE Numbers'
  <2>1. CASE AddBreakpoint(t)
    <3>1. handler[t].call = "setBreakpoints"
      BY <2>1 DEF AddBreakpoint, Asks
    <3> QED
      BY <2>1, <3>1, KeepNumber DEF AddBreakpoint
  <2>2. CASE Done(t)
    BY <2>2, AnswerNumbers DEF Done, Resumes
  <2>3. CASE Reject(t)
    <3>1. CASE Awaits(t)
      BY <2>3, <3>1, AnswerNumbers DEF Reject
    <3>2. CASE ~Awaits(t)
      <4>1. /\ handler' = [handler EXCEPT ![t] = NoHandler] /\ handler \in [Tasks -> HandlerRecord]
            /\ ~Asked(NoHandler) /\ NoHandler.call = "none" /\ handler[t].call = "none"
            /\ pending' = pending \ {-1} /\ requests' = requests
        BY <2>3, <3>2 DEF Reject, Answer, NoHandler, Asked, Asks, Awaits
      <4>2. \A u \in Tasks : handler'[u] = handler[u] \/ handler'[u].call = "none"
        BY <4>1
      <4>3. -1 \notin pending
        BY DEF Numbers, Asks
      <4> QED
        BY <4>1, <4>2, <4>3 DEF Numbers, Asked
    <3> QED
      BY <3>1, <3>2
  <2>4. CASE Resume(t) \/ Read(t)
    BY <2>4, SameNumbers DEF Resume, Read
  <2> QED
    BY <1>6, <2>1, <2>2, <2>3, <2>4 DEF TaskTurn
<1>7. CASE Immediate \/ OnStack \/ Write \/ Serve \/ UNCHANGED all
  BY <1>7, SameNumbers DEF Immediate, OnStack, Write, Serve, all, host
<1> QED
  BY <1>1, <1>2, <1>3, <1>4, <1>5, <1>6, <1>7 DEF HostNext, Request

-----------------------------------------------------------------------------
(* The theorems.                                                            *)

LEMMA HostInitInv == HostInit => HostInv
<1> SUFFICES ASSUME HostInit PROVE HostInv
  OBVIOUS
<1>1. Inv
  BY InitInv DEF HostInit
<1>2. Asks
  <2>1. NoHandler \in HandlerRecord /\ NoHandler.call = "none" /\ NoHandler.todo = <<>>
    BY DEF NoHandler, HandlerRecord
  <2> QED
    BY <2>1 DEF HostInit, Asks, Awaits
<1>3. \A t \in Tasks, f \in Files : ~Sets(handler[t], f)
  BY DEF HostInit, NoHandler, Sets
<1>4. \A f \in Files : LinesOf(f) = <<>> /\ wanted[f] = <<>>
  BY DEF HostInit, Init, LinesOf
<1>5. DOMAIN wanted = Files
  BY DEF HostInit
<1> QED
  BY <1>1, <1>2, <1>3, <1>4, <1>5 DEF HostInv, Replacing, OnePerFile, SetSoFar

\* Under its host the engine keeps the invariant it has whoever calls it, the
\* handlers hold what their requests may name, and the breakpoints of a file with
\* those its set has left are the set (cli.ts:63).
THEOREM HostInvariant == HostSpec => []HostInv
<1>1. HostInv /\ [HostNext]_all => HostInv'
  BY HostCalls, NextInv, HostAsks, HostReplaces DEF HostInv
<1> QED
  BY <1>1, HostInitInv, PTL DEF HostSpec

\* The host calls the engine as TsEngine says it may be called: whatever holds of
\* the engine under every caller holds under this one.
THEOREM HostImplements == HostSpec => Spec
<1>1. HostInit => Init
  BY DEF HostInit
<1>2. HostInv /\ [HostNext]_all => [Next]_vars
  BY HostCalls DEF HostInv
<1> QED
  BY <1>1, <1>2, HostInvariant, PTL DEF HostSpec, Spec

\* Preloads, launches and failed reads of this host leave the engine on a line of
\* the text it holds, with its pointer on that line (runtime.ts:267).
THEOREM HostOnItsLine == HostSpec => []InstructionOnLine
BY HostImplements, OnItsLine, PTL

\* No order of requests, reads and failures takes a verified breakpoint back.
THEOREM HostStaysVerified == HostSpec => StaysVerified
BY HostImplements, NeverUnverified

\* Under this host too, whose launches overlap with the sets of the last session,
\* a command is followed by one stop or end (cli.ts:54-58).
THEOREM HostKeepsControl == HostSpec => OneNoticePerCommand
BY HostImplements, ImplementsRunControl

\* A client that waits for the answer to a set before it sets the file again
\* finds the file with the lines it asked for, whatever else it asked for
\* meanwhile (mock-ts/README.md:19).
THEOREM SetsReplace == HostSpec => [](Waits => BreakpointsReplaced)
<1>1. HostInv => (Waits => BreakpointsReplaced)
  <2> SUFFICES ASSUME HostInv, Waits, NEW f \in Files, Free(f), wanted[f] # None
               PROVE  LinesOf(f) = wanted[f]
    BY DEF BreakpointsReplaced
  <2>1. \A t \in Tasks : ~Sets(handler[t], f)
    BY DEF Free, Sets
  <2> QED
    BY <2>1 DEF HostInv, Replacing, SetSoFar
<1> QED
  BY <1>1, HostInvariant, PTL

\* No request is answered for another: a handler that is under way, whatever was
\* read, answered or failed before its turn, still has the client waiting for its
\* number, and no other handler can answer to it (cli.ts:59 and 73).
THEOREM OwnNumber == HostSpec => []Numbers
<1>1. HostInit => Numbers
  BY DEF HostInit, NoHandler, Numbers, Asked
<1>2. HostInv /\ Numbers /\ [HostNext]_all => Numbers'
  BY HostNumbers DEF HostInv
<1> QED
  BY <1>1, <1>2, HostInvariant, PTL DEF HostSpec
=============================================================================
