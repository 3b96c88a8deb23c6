----------------------------- MODULE InProcess -----------------------------
(***************************************************************************)
(* The runtime that lives in the adapter's own process, class MockRuntime   *)
(* of vscode-mock-debug/src/mockRuntime.ts, as the session drives it after  *)
(* launchRequest created it: the breakpoints of the cache are set one after *)
(* another, the program is started, and then every request of the client    *)
(* is a direct call.                                                        *)
(*                                                                          *)
(* The engine of mock-ts (TsEngine) was made from this one, and what the    *)
(* two share is taken from there.  This one keeps its line when it loads    *)
(* another text, moves breakpoints off lines that take none, looks for its  *)
(* entry, steps single instructions, and fails where it has no line.        *)
(***************************************************************************)
EXTENDS TsEngine

CONSTANTS Launcher,          \* the task of launchRequest's own calls
          LineLists,         \* what setBreakPointsRequest may ask for
          AccessTypes,       \* what setDataBreakpointsRequest may ask of a name
          Plus, Minus, Lazy, \* <<file, line>> of the lines marked so
          MaxInstruction,    \* bound on stepping instruction by instruction
          MaxRequests        \* bound on the requests of a session

VARIABLES launch,     \* the arguments of start, and how far the launch is
          stepEvent,  \* the argument of the findNextStatement on the stack
          strayed,    \* the client changed breakpoints too early, or elsewhere
          requests    \* requests so far

client    == <<launch, stepEvent, strayed>>
localVars == <<vars, client, requests>>

LaunchRecord == [file : Files \cup {None}, debug : BOOLEAN,
                 at : {"applying", "starting", "begun", "failed"}]

InProcessAssumption ==
  /\ Launcher \in Tasks /\ None \notin {"stopOnStep", "stopOnEntry"}
  /\ LineLists \subseteq Seq(Int) /\ \A ls \in LineLists : ls # <<>>
  /\ AccessTypes \subseteq SUBSET {"read", "write"}
  /\ MaxInstruction \in Nat /\ MaxRequests \in Nat
ASSUME InProcessAssumption

LocalInit ==
  /\ Init
  /\ launch = [file |-> None, debug |-> FALSE, at |-> "applying"]
  /\ stepEvent = None /\ strayed = FALSE /\ requests = 0

-----------------------------------------------------------------------------
(* Setting breakpoints and starting.                                        *)

\* launchRequest awaits each of these before it goes on.
Reapply(f, l) ==
  /\ launch.at = "applying"
  /\ SetBreakPoint(Launcher, f, l)
  /\ UNCHANGED client

\* Fault: a launch takes any source that is there for its own.
LaunchRequestThere(f, entry, debug) ==
  /\ launch.at = "applying" /\ f # None
  /\ MayCall /\ tasks[Launcher] = NoTask
  /\ LoadSourceOnce(Launcher, StartOf(f, entry), "loaded")
  /\ launch' = [file |-> f, debug |-> debug, at |-> "starting"]
  /\ UNCHANGED <<loaded, currentLine, currentColumn, instruction, variables,
                 stops, run, verifying, events, stepEvent, strayed>>

LaunchRequest(f, entry, debug) ==
  /\ launch.at = "applying" /\ f # None
  /\ Start(Launcher, f, entry)
  /\ launch' = [file |-> f, debug |-> debug, at |-> "starting"]
  /\ UNCHANGED <<stepEvent, strayed>>

Stray(f) == /\ strayed' = (strayed \/ launch.at # "begun" \/ f # launch.file)
            /\ UNCHANGED <<launch, stepEvent>>

\* The array is replaced, and one setBreakPoint begun for every line before any
\* of them gets on: the first names the file and has to read it, the others
\* find it named.
SetBreakPointsRequest(f, ls) ==
  /\ MayCall /\ breakpointId + Len(ls) - 1 <= MaxBreakpointId
  /\ breakpointId' = breakpointId + Len(ls)
  /\ breakpoint' = breakpoint \o [i \in 1 .. Len(ls) |-> [line |-> ls[i], verified |-> FALSE]]
  /\ breakPoints' = [breakPoints EXCEPT ![f] = [i \in 1 .. Len(ls) |-> breakpointId + i - 1]]
  /\ sourceFile' = f
  /\ \E calls \in SUBSET {t \in Tasks \ {Launcher} : tasks[t] = NoTask}, first \in Tasks :
       /\ Cardinality(calls) = Len(ls) /\ first \in calls
       /\ tasks' = [t \in Tasks |->
            IF t \notin calls THEN Detached(f)[t]
            ELSE [BreakpointTask(f) EXCEPT
                    !.at = IF t = first /\ sourceFile # f THEN "reading" ELSE "verify"]]
  /\ Stray(f)
  /\ UNCHANGED <<loaded, currentLine, currentColumn, instruction, variables,
                 instructionBreakpoints, breakAddresses, filters, run, verifying, events>>

ClearRequest(f) == ClearBreakpoints(f) /\ Stray(f)

\* The console's "new" and "del" are about the file that is named.
EvaluateNew(t, l) ==
  /\ t # Launcher /\ sourceFile # None
  /\ SetBreakPoint(t, sourceFile, l) /\ Stray(sourceFile)
EvaluateDel(l) ==
  /\ sourceFile # None
  /\ ClearBreakPoint(sourceFile, l) /\ UNCHANGED client

\* The new text, on the line and instruction the old one was left on.
InitializeContents(t) ==
  /\ Idle /\ ~Promised /\ tasks[t].at = "reading"
  /\ loaded' = tasks[t].file
  /\ tasks' = [tasks EXCEPT ![t].at = AfterRead(tasks[t])]
  /\ UNCHANGED <<sourceFile, currentLine, currentColumn, instruction, variables,
                 stops, run, verifying, events, client>>

\* What rejects in launchRequest rejects the launch, which is never answered.
Rejected(t) ==
  /\ launch' = IF t = Launcher THEN [launch EXCEPT !.at = "failed"] ELSE launch
  /\ UNCHANGED <<stepEvent, strayed>>

ReadRejected(t) == ReadFail(t) /\ Rejected(t)

\* Without debugging nothing is verified.
SourceLoaded(t) ==
  /\ Idle /\ tasks[t].at = "loaded"
  /\ tasks' = [tasks EXCEPT ![t] =
       IF launch.debug THEN [@ EXCEPT !.at = "verify", !.file = sourceFile, !.live = TRUE]
       ELSE [@ EXCEPT !.at = "finish"]]
  /\ UNCHANGED <<program, stops, run, verifying, events, client>>

-----------------------------------------------------------------------------
(* verifyBreakpoints.                                                       *)

Shift(l) == IF ~NonBlank(loaded, l) \/ <<loaded, l>> \in Plus THEN 1
            ELSE IF <<loaded, l>> \in Minus THEN -1 ELSE 0

Visiting == verifying # None /\ verifying.todo # <<>>
Visitee == breakpoint[Head(verifying.todo)]

\* Fault: a breakpoint that is verified already is moved on.
DueAlways == Visitee.line < NumLines(loaded)

Due == ~Visitee.verified /\ Visitee.line < NumLines(loaded)

Pass ==
  /\ Visiting /\ ~Due
  /\ verifying' = [verifying EXCEPT !.todo = Tail(@)]
  /\ UNCHANGED <<program, stops, run, tasks, events, client>>

\* A breakpoint on a lazy line moves, and stays unverified until it is hit.
MoveAndVerify ==
  /\ Visiting /\ Due /\ Visitee.line >= 0
  /\ LET id == Head(verifying.todo)
         at == <<loaded, Visitee.line>>
     IN /\ breakpoint' = [breakpoint EXCEPT ![id] =
             [line |-> @.line + Shift(@.line), verified |-> @.verified \/ at \notin Lazy]]
        /\ Emit(IF at \in Lazy THEN <<>> ELSE <<Validated(id)>>)
  /\ verifying' = [verifying EXCEPT !.todo = Tail(@)]
  /\ UNCHANGED <<program, breakPoints, breakpointId, instructionBreakpoints,
                 breakAddresses, filters, run, tasks, client>>

\* Moved up from the first line, it is on none: reading its text throws.
VerifyThrows ==
  /\ Visiting /\ Due /\ Visitee.line < 0
  /\ verifying' = None
  /\ tasks' = [tasks EXCEPT ![verifying.task] = NoTask]
  /\ Rejected(verifying.task)
  /\ UNCHANGED <<program, stops, run, events>>

-----------------------------------------------------------------------------
(* start, continue, step.                                                   *)

Starting ==
  /\ Idle /\ tasks[Launcher].at = "finish"
  /\ tasks' = [tasks EXCEPT ![Launcher] = NoTask]
  /\ UNCHANGED <<program, stops, verifying, events, strayed>>
AtEntry == launch.debug /\ tasks[Launcher].entry

\* Stop on entry means: at the first statement, or a breakpoint before it.
FindEntry ==
  /\ Starting /\ AtEntry
  /\ run' = [Running("step", FALSE) EXCEPT !.at = "find"]
  /\ stepEvent' = "stopOnEntry"
  /\ launch' = [launch EXCEPT !.at = "begun"]

RunProgram ==
  /\ Starting /\ ~AtEntry /\ currentLine \in Lines(loaded)
  /\ run' = Running("continue", FALSE)
  /\ stepEvent' = None
  /\ launch' = [launch EXCEPT !.at = "begun"]

\* Without a text executeLine throws at once.
RunNothing ==
  /\ Starting /\ ~AtEntry /\ currentLine \notin Lines(loaded)
  /\ launch' = [launch EXCEPT !.at = "failed"]
  /\ UNCHANGED <<run, stepEvent>>

\* A request that finds no text under the current line is answered with an
\* error, and changes nothing.
ContinueRequest(reverse) ==
  /\ launch.at = "begun" /\ currentLine \in Lines(loaded)
  /\ Continue(reverse)
  /\ stepEvent' = None /\ UNCHANGED <<launch, strayed>>

NextRequest(reverse) ==
  /\ launch.at = "begun" /\ currentLine \in Lines(loaded)
  /\ Step(reverse)
  /\ stepEvent' = "stopOnStep" /\ UNCHANGED <<launch, strayed>>

\* One instruction on or back; the line stays, even past its last word.
StepInstruction(reverse) ==
  /\ launch.at = "begun" /\ MayCall
  /\ instruction' = IF reverse THEN instruction - 1 ELSE instruction + 1
  /\ instruction' \in -1 .. MaxInstruction
  /\ Emit(<<At("stopOnStep", currentLine)>>)
  /\ UNCHANGED <<sourceFile, loaded, currentLine, currentColumn, variables,
                 stops, run, verifying, tasks, client>>

Goto == /\ launch.at = "begun" /\ UNCHANGED client
        /\ StepIn \/ StepOut \/ \E c \in Targets : StepInTarget(c)

\* executeLine and updateCurrentLine.
Execute ==
  /\ \/ HitInstruction \/ HitData \/ HitException \/ ExecuteLine
     \/ UpdateCurrentLine \/ RunOff
  /\ UNCHANGED client

\* Fault: blank lines are skipped before their breakpoints are looked up.
StatementsWithText == {l \in Ahead : NonBlank(loaded, l)}

Statements == {l \in Ahead : BreakpointsOn(l) # {} \/ NonBlank(loaded, l)}

\* The stop is reported before the verification.
FindsBreakpoint ==
  /\ Finding
  /\ \E l \in FirstOf(Statements) : \E i \in BreakpointsOn(l) :
       LET id == BreakpointsOf(sourceFile)[i]
       IN /\ \A j \in BreakpointsOn(l) : i <= j
          /\ SetCurrentLine(l)
          /\ breakpoint' = [breakpoint EXCEPT ![id].verified = TRUE]
          /\ StopWith(<<At("stopOnBreakpoint", l)>>
                        \o (IF breakpoint[id].verified THEN <<>> ELSE <<Validated(id)>>))
  /\ UNCHANGED <<sourceFile, loaded, currentColumn, variables, breakPoints, breakpointId,
                 instructionBreakpoints, breakAddresses, filters, verifying, tasks, client>>

\* Fault: a step event is sent, and the run goes on.
ReportsGoingOn(l) ==
  /\ run' = [run EXCEPT !.at = "execute"]
  /\ IF stepEvent # None THEN Emit(<<At(stepEvent, l)>>) ELSE UNCHANGED events

Reports(l) ==
  IF stepEvent # None THEN StopWith(<<At(stepEvent, l)>>)
  ELSE run' = [run EXCEPT !.at = "execute"] /\ UNCHANGED events

FindsStatement ==
  /\ Finding
  /\ \/ \E l \in FirstOf(Statements) : BreakpointsOn(l) = {} /\ SetCurrentLine(l) /\ Reports(l)
     \/ /\ Statements = {}
        /\ UNCHANGED <<currentLine, instruction>> /\ Reports(currentLine)
  /\ UNCHANGED <<sourceFile, loaded, currentColumn, variables, stops, verifying, tasks, client>>

-----------------------------------------------------------------------------
(* The other settings: each request replaces all there is of its kind.      *)

SetDataBreakpointsRequest(kinds) ==
  /\ MayCall
  /\ breakAddresses' = [n \in Names |-> IF n \in Edits THEN kinds[n] ELSE {}]
  /\ UNCHANGED <<program, breakPoints, breakpoint, breakpointId,
                 instructionBreakpoints, filters, run, verifying, tasks, events, client>>

Settings ==
  /\ \/ \E S \in SUBSET Addresses : ChangeInstructionBreakpoints(S)
     \/ \E x \in Filters : SetExceptionsFilters(x)
  /\ UNCHANGED client

LocalRequest ==
  \/ \E f \in BpFiles :
       \/ \E l \in BpLines : Reapply(f, l)
       \/ \E ls \in LineLists : SetBreakPointsRequest(f, ls)
       \/ ClearRequest(f)
  \/ \E f \in Programs, entry \in BOOLEAN, debug \in BOOLEAN : LaunchRequest(f, entry, debug)
  \/ \E l \in BpLines : EvaluateDel(l) \/ \E t \in Tasks : EvaluateNew(t, l)
  \/ \E reverse \in Directions : \/ ContinueRequest(reverse) \/ NextRequest(reverse)
                                 \/ StepInstruction(reverse)
  \/ Goto \/ Settings
  \/ \E kinds \in [Edits -> AccessTypes] : SetDataBreakpointsRequest(kinds)

LocalRunStep  == Execute \/ FindsBreakpoint \/ FindsStatement
LocalVisit    == Pass \/ MoveAndVerify \/ VerifyThrows \/ (Verified /\ UNCHANGED client)
LocalTaskStep(t) ==
  \/ InitializeContents(t) \/ ReadRejected(t) \/ SourceLoaded(t)
  \/ (Verify(t) /\ UNCHANGED client)
  \/ t = Launcher /\ (FindEntry \/ RunProgram \/ RunNothing)

LocalDeliver == Deliver /\ UNCHANGED client

Own(A) == A /\ UNCHANGED requests

LocalNext ==
  \/ LocalRequest /\ requests < MaxRequests /\ requests' = requests + 1
  \/ Own(LocalRunStep) \/ Own(LocalVisit) \/ Own(LocalDeliver)
  \/ \E t \in Tasks : Own(LocalTaskStep(t))

\* JavaScript code on the stack runs to its end.
LocalFairness == WF_localVars(Own(LocalRunStep)) /\ WF_localVars(Own(LocalVisit))

LocalSpec     == LocalInit /\ [][LocalNext]_localVars
LocalFairSpec == LocalSpec /\ LocalFairness

-----------------------------------------------------------------------------
(* Properties.                                                              *)

\* Every variable has its type.
LocalTypeOK == /\ TypeOK /\ launch \in LaunchRecord
               /\ stepEvent \in {None, "stopOnStep", "stopOnEntry"}
               /\ strayed \in BOOLEAN /\ requests \in Nat

\* "the initial (and one and only) file we are 'debugging'" (mockRuntime.ts:108): whatever files
\* had breakpoints before the launch, a client that then keeps to the program's
\* own file, and waits for the launch, debugs the text it launched, on a line
\* of it.  stack() throws on any other.
OneFileDebugged ==
  launch.at = "begun" /\ ~strayed =>
    /\ sourceFile = launch.file /\ loaded = launch.file
    /\ currentLine \in Lines(loaded)

\* A breakpoint the client was shown as verified is neither moved nor taken
\* back by later verifications of its file, through any console command or
\* launch.
StaysPut ==
  [][\A id \in Ids : breakpoint[id].verified => breakpoint'[id] = breakpoint[id]]_localVars

\* A run that ends at the end of the program (or at its entry, backwards) left
\* no breakpoint of the file in front of it, moved ones and those on blank
\* lines included.
EndsPastAll ==
  [][RunOff => \A l \in InFront : BreakpointsOn(l) = {}]_localVars

\* Every continue and every step comes to its end.
LocalRunsEnd == run # None ~> run = None

\* The runtime keeps the promise of RunControl: a launch, a continue or a step is
\* answered by exactly one stop or end, and none comes unasked.
OneStopPerRequest == OneNoticePerCommand
=============================================================================
