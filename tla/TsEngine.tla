------------------------------ MODULE TsEngine ------------------------------
(***************************************************************************)
(* The TypeScript engine, class MockRuntime of mock-ts/src/runtime.ts.       *)
(*                                                                          *)
(* JavaScript runs one piece of code at a time: while continue() or step()   *)
(* loops (run), or forEach visits breakpoints (verifying), nothing else      *)
(* moves.  The asynchronous methods start() and setBreakPoint() give the     *)
(* thread up at every await; each unfinished call is a task, and anything    *)
(* may happen between two parts of one.  Events leave by setTimeout(0), in   *)
(* the order they were raised, once no promise is waiting to resume.         *)
(***************************************************************************)
EXTENDS MockSource, SequencesExt

CONSTANTS Tasks,           \* calls of start and setBreakPoint in progress
          Programs,        \* what launch may name; None is the empty string
          Flaky,           \* files whose readFile may fail
          BpFiles,         \* files breakpoints may be set in
          BpLines,         \* lines breakpoints may be set on
          Addresses,       \* addresses of instruction breakpoints
          Targets,         \* step-in targets
          Filters,         \* settings of setExceptionsFilters
          Edits,           \* names setVariable and setDataBreakpoint may take
          Directions,      \* values of the argument reverse
          MaxBreakpointId, \* bound on the breakpoints ever created
          MaxEvents,       \* no command is issued over this many events
          MinColumn        \* bound on stepOut, which has none of its own

RunRecord    == [kind : {"continue", "step"}, reverse : BOOLEAN, from : Nat,
                 at : {"execute", "advance", "find"}]
FilterRecord == [named : Exceptions \cup {None}, others : BOOLEAN]

ConstantsAssumption ==
  /\ IsFiniteSet(Tasks) /\ None \notin RunRecord
  /\ Programs \subseteq Files \cup {None}
  /\ Flaky \subseteq Files
  /\ BpFiles \subseteq Files
  /\ BpLines \subseteq Int
  /\ Addresses \subseteq Int
  /\ Targets \subseteq Int
  /\ Filters \subseteq FilterRecord
  /\ Edits \subseteq Names
  /\ Directions \subseteq BOOLEAN
  /\ MaxBreakpointId \in Nat /\ MaxEvents \in Nat /\ MinColumn \in Int
ASSUME ConstantsAssumption

VARIABLES
  sourceFile,             \* the file last asked for
  loaded,                 \* the file sourceLines, starts and ends come from
  currentLine, currentColumn, instruction,
  variables,              \* the names declared so far
  breakPoints,            \* each file's breakpoints, in the order set
  breakpoint,             \* the object behind each id ever given
  breakpointId,
  instructionBreakpoints,
  breakAddresses,         \* the access kinds each name stops on
  filters,                \* namedException and otherExceptions
  run,                    \* the continue() or step() on the stack
  verifying,              \* the forEach of verifyBreakpoints on the stack
  tasks,                  \* the suspended asynchronous calls
  events                  \* raised by sendEvent, not yet emitted

program  == <<sourceFile, loaded, currentLine, currentColumn, instruction, variables>>
stops    == <<breakPoints, breakpoint, breakpointId, instructionBreakpoints,
              breakAddresses, filters>>
vars     == <<program, stops, run, verifying, tasks, events>>

-----------------------------------------------------------------------------
Stopped == {"stopOnEntry", "stopOnStep", "stopOnPause", "stopOnBreakpoint",
            "stopOnDataBreakpoint", "stopOnInstructionBreakpoint", "stopOnException"}
EventNames == Stopped \cup {"end", "output", "breakpointValidated"}

Ids == 1 .. breakpointId - 1
Breakpoint == [line : Int, verified : BOOLEAN]
Event == [event : EventNames, line : Int \cup {None}, id : Nat]

At(e, l)      == [event |-> e, line |-> l, id |-> 0]
Validated(id) == [event |-> "breakpointValidated", line |-> None, id |-> id]

\* The stages of a suspended call: waiting for readFile, or for the promise of
\* loadSource, or (two more) for that of verifyBreakpoints.
Stages == {"none", "reading", "loaded", "verify", "finish"}
TaskRecord == [call : {"none", "start", "setBreakPoint"}, at : Stages,
               file : Files \cup {None}, entry : BOOLEAN, live : BOOLEAN, held : Seq(Ids)]
NoTask == [call |-> "none", at |-> "none", file |-> None, entry |-> FALSE,
           live |-> FALSE, held |-> <<>>]
StartOf(f, entry) == [NoTask EXCEPT !.call = "start", !.file = f, !.entry = entry]
BreakpointTask(f) == [NoTask EXCEPT !.call = "setBreakPoint", !.file = f, !.live = TRUE]

Idle      == run = None /\ verifying = None
Promised  == \E t \in Tasks : tasks[t].at \in {"loaded", "verify", "finish"}
MayCall   == Idle /\ Len(events) <= MaxEvents
Emit(es)  == events' = events \o es

Init ==
  /\ sourceFile = None /\ loaded = None
  /\ currentLine = 0 /\ currentColumn = None /\ instruction = 0
  /\ variables = {}
  /\ breakPoints = [f \in Files |-> <<>>]
  /\ breakpoint = <<>> /\ breakpointId = 1
  /\ instructionBreakpoints = {}
  /\ breakAddresses = [n \in Names |-> {}]
  /\ filters = [named |-> None, others |-> FALSE]
  /\ run = None /\ verifying = None
  /\ tasks = [t \in Tasks |-> NoTask]
  /\ events = <<>>

-----------------------------------------------------------------------------
(* Loading: loadSource, start, setBreakPoint, verifyBreakpoints.            *)

\* Fault: only the first file is ever read.
LoadSourceOnce(t, task, next) ==
  /\ sourceFile' = task.file
  /\ tasks' = [tasks EXCEPT ![t] =
                 [task EXCEPT !.at = IF sourceFile = None THEN "reading" ELSE next]]

\* The part of loadSource before its await: the name is taken at once, the
\* text when it has been read; a file already named is not read again.
LoadSource(t, task, next) ==
  /\ sourceFile' = task.file
  /\ tasks' = [tasks EXCEPT ![t] =
                 [task EXCEPT !.at = IF sourceFile # task.file THEN "reading" ELSE next]]

Start(t, f, entry) ==
  /\ MayCall /\ tasks[t] = NoTask
  /\ LoadSource(t, StartOf(f, entry), "loaded")
  /\ UNCHANGED <<loaded, currentLine, currentColumn, instruction, variables,
                 stops, run, verifying, events>>

SetBreakPoint(t, f, l) ==
  /\ MayCall /\ tasks[t] = NoTask /\ breakpointId <= MaxBreakpointId
  /\ breakpointId' = breakpointId + 1
  /\ breakpoint' = Append(breakpoint, [line |-> l, verified |-> FALSE])
  /\ breakPoints' = [breakPoints EXCEPT ![f] = Append(@, breakpointId)]
  /\ LoadSource(t, BreakpointTask(f), "verify")
  /\ UNCHANGED <<loaded, currentLine, currentColumn, instruction, variables,
                 instructionBreakpoints, breakAddresses, filters, run, verifying, events>>

AfterRead(task) == IF task.call = "start" THEN "loaded" ELSE "verify"

\* Fault: the new text is entered on the line the old one was left on.
ReadDoneInPlace(t) ==
  /\ Idle /\ ~Promised /\ tasks[t].at = "reading" /\ tasks[t].file # None
  /\ loaded' = tasks[t].file
  /\ tasks' = [tasks EXCEPT ![t].at = AfterRead(tasks[t])]
  /\ UNCHANGED <<sourceFile, currentLine, instruction, currentColumn, variables,
                 stops, run, verifying, events>>

\* initializeContents: the new text, from its first line.
ReadDone(t) ==
  /\ Idle /\ ~Promised /\ tasks[t].at = "reading" /\ tasks[t].file # None
  /\ loaded' = tasks[t].file
  /\ currentLine' = 0 /\ instruction' = Starts(tasks[t].file, 0)
  /\ tasks' = [tasks EXCEPT ![t].at = AfterRead(tasks[t])]
  /\ UNCHANGED <<sourceFile, currentColumn, variables, stops, run, verifying, events>>

\* readFile rejects: the call ends, and the name stays taken.
ReadFail(t) ==
  /\ Idle /\ ~Promised /\ tasks[t].at = "reading"
  /\ tasks[t].file \in Flaky \cup {None}
  /\ tasks' = [tasks EXCEPT ![t] = NoTask]
  /\ UNCHANGED <<program, stops, run, verifying, events>>

\* start verifies the breakpoints of whatever file is named by now.
AfterLoad(t) ==
  /\ Idle /\ tasks[t].at = "loaded"
  /\ tasks' = [tasks EXCEPT ![t] =
       IF sourceFile = None THEN [@ EXCEPT !.at = "finish"]
       ELSE [@ EXCEPT !.at = "verify", !.file = sourceFile, !.live = TRUE]]
  /\ UNCHANGED <<program, stops, run, verifying, events>>

Verify(t) ==
  /\ Idle /\ tasks[t].at = "verify"
  /\ verifying' = [task |-> t,
                   todo |-> IF tasks[t].live THEN breakPoints[tasks[t].file]
                                             ELSE tasks[t].held]
  /\ UNCHANGED <<program, stops, run, tasks, events>>

\* Fault: a breakpoint that is verified already is verified again.
VerifyOneAgain ==
  /\ verifying # None /\ verifying.todo # <<>>
  /\ LET id == Head(verifying.todo)
         bp == breakpoint[id]
     IN IF bp.line \in Lines(loaded)
        THEN /\ breakpoint' = [breakpoint EXCEPT ![id].verified = NonBlank(loaded, bp.line)]
             /\ Emit(<<Validated(id)>>)
        ELSE UNCHANGED <<breakpoint, events>>
  /\ verifying' = [verifying EXCEPT !.todo = Tail(@)]
  /\ UNCHANGED <<program, breakPoints, breakpointId, instructionBreakpoints,
                 breakAddresses, filters, run, tasks>>

\* Fault: the last line of the file is taken to be past its end.
VerifyOneShort ==
  /\ verifying # None /\ verifying.todo # <<>>
  /\ LET id == Head(verifying.todo)
         bp == breakpoint[id]
     IN IF ~bp.verified /\ bp.line + 1 \in Lines(loaded)
        THEN /\ breakpoint' = [breakpoint EXCEPT ![id].verified = NonBlank(loaded, bp.line)]
             /\ Emit(<<Validated(id)>>)
        ELSE UNCHANGED <<breakpoint, events>>
  /\ verifying' = [verifying EXCEPT !.todo = Tail(@)]
  /\ UNCHANGED <<program, breakPoints, breakpointId, instructionBreakpoints,
                 breakAddresses, filters, run, tasks>>

VerifyOne ==
  /\ verifying # None /\ verifying.todo # <<>>
  /\ LET id == Head(verifying.todo)
         bp == breakpoint[id]
     IN IF ~bp.verified /\ bp.line \in Lines(loaded)
        THEN /\ breakpoint' = [breakpoint EXCEPT ![id].verified = NonBlank(loaded, bp.line)]
             /\ Emit(<<Validated(id)>>)
        ELSE UNCHANGED <<breakpoint, events>>
  /\ verifying' = [verifying EXCEPT !.todo = Tail(@)]
  /\ UNCHANGED <<program, breakPoints, breakpointId, instructionBreakpoints,
                 breakAddresses, filters, run, tasks>>

Verified ==
  /\ verifying # None /\ verifying.todo = <<>>
  /\ verifying' = None
  /\ tasks' = [tasks EXCEPT ![verifying.task] =
                 IF @.call = "start" THEN [@ EXCEPT !.at = "finish"] ELSE NoTask]
  /\ UNCHANGED <<program, stops, run, events>>

-----------------------------------------------------------------------------
(* Running: continue, step, and the end of start.                           *)

Running(kind, reverse) ==
  [kind |-> kind, reverse |-> reverse, from |-> currentLine, at |-> "execute"]

Call(kind, reverse) ==
  /\ MayCall
  /\ run' = Running(kind, reverse)
  /\ UNCHANGED <<program, stops, verifying, tasks, events>>

Continue(reverse) == Call("continue", reverse)
Step(reverse)     == Call("step", reverse)

\* Fault: start goes on running after its stop on entry.
FinishStartTwice(t) ==
  /\ Idle /\ tasks[t].at = "finish"
  /\ tasks' = [tasks EXCEPT ![t] = NoTask]
  /\ IF tasks[t].entry THEN Emit(<<At("stopOnEntry", currentLine)>>) ELSE UNCHANGED events
  /\ run' = Running("continue", FALSE)
  /\ UNCHANGED <<program, stops, verifying>>

FinishStart(t) ==
  /\ Idle /\ tasks[t].at = "finish"
  /\ tasks' = [tasks EXCEPT ![t] = NoTask]
  /\ IF tasks[t].entry
     THEN Emit(<<At("stopOnEntry", currentLine)>>) /\ UNCHANGED run
     ELSE run' = Running("continue", FALSE) /\ UNCHANGED events
  /\ UNCHANGED <<program, stops, verifying>>

\* The addresses executeLine moves to, one at a time; none without a source.
Visited ==
  IF currentLine \notin Lines(loaded) THEN {}
  ELSE IF run.reverse THEN Starts(loaded, currentLine) - 1 .. instruction - 1
       ELSE instruction + 1 .. Ends(loaded, currentLine)

Sooner(a, b) == IF run.reverse THEN a > b ELSE a < b
FirstOf(S)   == {a \in S : \A b \in S : ~Sooner(b, a)}
LastOf(S)    == {a \in S : \A b \in S : ~Sooner(a, b)}

StopWith(es) == run' = None /\ Emit(es)

HitInstruction ==
  /\ run # None /\ run.at = "execute"
  /\ \E a \in FirstOf(Visited \cap instructionBreakpoints) : instruction' = a
  /\ StopWith(<<At("stopOnInstructionBreakpoint", currentLine)>>)
  /\ UNCHANGED <<sourceFile, loaded, currentLine, currentColumn, variables,
                 stops, verifying, tasks>>

\* The loop over the words leaves instruction on the last one it moved to.
WordsDone ==
  /\ run # None /\ run.at = "execute"
  /\ Visited \cap instructionBreakpoints = {}
  /\ instruction' \in IF Visited = {} THEN {instruction} ELSE LastOf(Visited)

AccessesHere ==
  IF currentLine \in Lines(loaded) THEN TextOf(loaded, currentLine).accesses ELSE <<>>
OutputsHere ==
  IF currentLine \in Lines(loaded)
  THEN [i \in 1 .. TextOf(loaded, currentLine).outs |-> At("output", currentLine)]
  ELSE <<>>

\* The names declared before the k-th access of the line: its earlier
\* assignments declare theirs.
DeclaredBefore(k) ==
  variables \cup {AccessesHere[j].name : j \in {i \in 1 .. k - 1 : AccessesHere[i].assign}}

\* The first access to a name only declares it, and stops nothing.
DataHits ==
  {k \in 1 .. Len(AccessesHere) :
     LET a == AccessesHere[k]
     IN /\ a.name \in DeclaredBefore(k)
        /\ (IF a.assign THEN "write" ELSE "read") \in breakAddresses[a.name]}

HitData ==
  /\ WordsDone
  /\ \E k \in DataHits : /\ \A j \in DataHits : k <= j
                         /\ variables' = DeclaredBefore(k + 1)
  /\ StopWith(<<At("stopOnDataBreakpoint", currentLine)>>)
  /\ UNCHANGED <<sourceFile, loaded, currentLine, currentColumn, stops, verifying, tasks>>

\* A named exception stops under its own filter, any exception under others.
Raises ==
  /\ currentLine \in Lines(loaded)
  /\ LET x == TextOf(loaded, currentLine).exc
     IN x # "none" /\ (x = filters.named \/ filters.others)

LineDone ==
  /\ WordsDone /\ DataHits = {}
  /\ variables' = DeclaredBefore(Len(AccessesHere) + 1)
  /\ UNCHANGED <<sourceFile, loaded, currentLine, currentColumn, stops, verifying, tasks>>

HitException ==
  /\ LineDone /\ Raises
  /\ StopWith(OutputsHere \o <<At("stopOnException", currentLine)>>)

ExecuteLine ==
  /\ LineDone /\ ~Raises
  /\ Emit(OutputsHere)
  /\ run' = [run EXCEPT !.at = "advance"]

\* The setter of currentLine puts instruction on the line's first word.
SetCurrentLine(l) == currentLine' = l /\ instruction' = Starts(loaded, l)

\* Fault: a run backwards stays on its line.
NextLineForward == IF run.reverse THEN currentLine ELSE currentLine + 1

NextLine == IF run.reverse THEN currentLine - 1 ELSE currentLine + 1

UpdateCurrentLine ==
  /\ run # None /\ run.at = "advance" /\ NextLine \in Lines(loaded)
  /\ SetCurrentLine(NextLine)
  /\ run' = [run EXCEPT !.at = "find"]
  /\ UNCHANGED <<sourceFile, loaded, currentColumn, variables, stops, verifying, tasks, events>>

\* Fault: the line is moved before it is compared with the first.
RunOffBelow ==
  /\ run # None /\ run.at = "advance" /\ NextLine \notin Lines(loaded)
  /\ currentColumn' = None
  /\ IF run.reverse
     THEN SetCurrentLine(currentLine - 1) /\ StopWith(<<At("stopOnEntry", None)>>)
     ELSE UNCHANGED <<currentLine, instruction>> /\ StopWith(<<At("end", None)>>)
  /\ UNCHANGED <<sourceFile, loaded, variables, stops, verifying, tasks>>

\* Off the end the program is over; off the beginning it is back at its entry,
\* in an event that carries no line.
RunOff ==
  /\ run # None /\ run.at = "advance" /\ NextLine \notin Lines(loaded)
  /\ currentColumn' = None
  /\ IF run.reverse
     THEN SetCurrentLine(0) /\ StopWith(<<At("stopOnEntry", None)>>)
     ELSE UNCHANGED <<currentLine, instruction>> /\ StopWith(<<At("end", None)>>)
  /\ UNCHANGED <<sourceFile, loaded, variables, stops, verifying, tasks>>

-----------------------------------------------------------------------------
(* findNextStatement.                                                       *)

BreakpointsOf(f)  == IF f = None THEN <<>> ELSE breakPoints[f]
BreakpointsOn(l)  == {i \in DOMAIN BreakpointsOf(sourceFile) :
                        breakpoint[BreakpointsOf(sourceFile)[i]].line = l}
InstructionStop(l) ==
  (IF run.reverse THEN Starts(loaded, l) ELSE Ends(loaded, l) - 1) \in instructionBreakpoints

Ahead == IF run.reverse THEN 0 .. currentLine ELSE currentLine .. NumLines(loaded) - 1
\* Fault: blank lines are skipped before their breakpoints are looked up.
LandingsWithText == {l \in Ahead : NonBlank(loaded, l)}

Landings == {l \in Ahead : \/ BreakpointsOn(l) # {}
                           \/ InstructionStop(l)
                           \/ NonBlank(loaded, l)}

Finding == run # None /\ run.at = "find"

FindBreakpoint ==
  /\ Finding
  /\ \E l \in FirstOf(Landings) : \E i \in BreakpointsOn(l) :
       LET id == BreakpointsOf(sourceFile)[i]
       IN /\ \A j \in BreakpointsOn(l) : i <= j
          /\ SetCurrentLine(l)
          /\ breakpoint' = [breakpoint EXCEPT ![id].verified = TRUE]
          /\ StopWith((IF breakpoint[id].verified THEN <<>> ELSE <<Validated(id)>>)
                        \o <<At("stopOnBreakpoint", l)>>)
  /\ UNCHANGED <<sourceFile, loaded, currentColumn, variables, breakPoints, breakpointId,
                 instructionBreakpoints, breakAddresses, filters, verifying, tasks>>

FindInstruction ==
  /\ Finding
  /\ \E l \in FirstOf(Landings) :
       /\ BreakpointsOn(l) = {} /\ InstructionStop(l)
       /\ SetCurrentLine(l)
       /\ StopWith(<<At("stopOnInstructionBreakpoint", l)>>)
  /\ UNCHANGED <<sourceFile, loaded, currentColumn, variables, stops, verifying, tasks>>

\* A line to execute, or none left: step reports where it is, continue goes on.
Arrived(l) ==
  IF run.kind = "step" THEN StopWith(<<At("stopOnStep", l)>>)
  ELSE run' = [run EXCEPT !.at = "execute"] /\ UNCHANGED events

FindStatement ==
  /\ Finding
  /\ \/ \E l \in FirstOf(Landings) : /\ BreakpointsOn(l) = {} /\ ~InstructionStop(l)
                                     /\ SetCurrentLine(l) /\ Arrived(l)
     \/ /\ Landings = {}
        /\ UNCHANGED <<currentLine, instruction>> /\ Arrived(currentLine)
  /\ UNCHANGED <<sourceFile, loaded, currentColumn, variables, stops, verifying, tasks>>

-----------------------------------------------------------------------------
(* Commands that are over at once.                                          *)

Pause ==
  /\ MayCall /\ Emit(<<At("stopOnPause", currentLine)>>)
  /\ UNCHANGED <<program, stops, run, verifying, tasks>>

SetColumn(c) ==
  /\ currentColumn' = c /\ Emit(<<At("stopOnStep", currentLine)>>)
  /\ UNCHANGED <<sourceFile, loaded, currentLine, instruction, variables,
                 stops, run, verifying, tasks>>

StepInTarget(target) == MayCall /\ SetColumn(target)

\* Without a source and with a column, reading the line's length throws.
StepIn ==
  /\ MayCall
  /\ currentColumn # None => currentLine \in Lines(loaded)
  /\ SetColumn(IF currentColumn = None THEN 1
               ELSE IF currentColumn <= TextOf(loaded, currentLine).width
                    THEN currentColumn + 1 ELSE currentColumn)

StepOut ==
  /\ MayCall /\ (currentColumn # None => currentColumn > MinColumn)
  /\ SetColumn(IF currentColumn \in {None, 1} THEN None ELSE currentColumn - 1)

SetVariable(n) ==
  /\ MayCall /\ variables' = variables \cup {n}
  /\ UNCHANGED <<sourceFile, loaded, currentLine, currentColumn, instruction,
                 stops, run, verifying, tasks, events>>

\* Only the array of the file goes: a task that holds it keeps it.
Detached(f) ==
  [t \in Tasks |-> IF tasks[t].live /\ tasks[t].file = f
                   THEN [tasks[t] EXCEPT !.live = FALSE, !.held = breakPoints[f]]
                   ELSE tasks[t]]

ClearBreakpoints(f) ==
  /\ MayCall
  /\ breakPoints' = [breakPoints EXCEPT ![f] = <<>>]
  /\ tasks' = Detached(f)
  /\ UNCHANGED <<program, breakpoint, breakpointId, instructionBreakpoints,
                 breakAddresses, filters, run, verifying, events>>

\* clearBreakPoint takes the first of the line out of the array itself.
ClearBreakPoint(f, l) ==
  /\ MayCall
  /\ \E i \in DOMAIN breakPoints[f] :
       /\ breakpoint[breakPoints[f][i]].line = l
       /\ \A j \in 1 .. i - 1 : breakpoint[breakPoints[f][j]].line # l
       /\ breakPoints' = [breakPoints EXCEPT ![f] = RemoveAt(@, i)]
  /\ UNCHANGED <<program, breakpoint, breakpointId, instructionBreakpoints,
                 breakAddresses, filters, run, verifying, tasks, events>>

\* A second, different access kind on a name makes it both.
SetDataBreakpoint(n, kinds) ==
  /\ MayCall /\ breakAddresses' = [breakAddresses EXCEPT ![n] = @ \cup kinds]
  /\ UNCHANGED <<program, breakPoints, breakpoint, breakpointId,
                 instructionBreakpoints, filters, run, verifying, tasks, events>>

ClearAllDataBreakpoints ==
  /\ MayCall /\ breakAddresses' = [n \in Names |-> {}]
  /\ UNCHANGED <<program, breakPoints, breakpoint, breakpointId,
                 instructionBreakpoints, filters, run, verifying, tasks, events>>

SetExceptionsFilters(x) ==
  /\ MayCall /\ filters' = x
  /\ UNCHANGED <<program, breakPoints, breakpoint, breakpointId,
                 instructionBreakpoints, breakAddresses, run, verifying, tasks, events>>

ChangeInstructionBreakpoints(S) ==
  /\ MayCall /\ instructionBreakpoints' = S
  /\ UNCHANGED <<program, breakPoints, breakpoint, breakpointId,
                 breakAddresses, filters, run, verifying, tasks, events>>

SetInstructionBreakpoint(a) == ChangeInstructionBreakpoints(instructionBreakpoints \cup {a})
ClearInstructionBreakpoints == ChangeInstructionBreakpoints({})

\* A timer fires only when no promise is waiting to resume.
Deliver ==
  /\ Idle /\ ~Promised /\ events # <<>>
  /\ events' = Tail(events)
  /\ UNCHANGED <<program, stops, run, verifying, tasks>>

-----------------------------------------------------------------------------
Command ==
  \/ \E t \in Tasks : \/ \E f \in Programs, entry \in BOOLEAN : Start(t, f, entry)
                      \/ \E f \in BpFiles, l \in BpLines : SetBreakPoint(t, f, l)
  \/ \E reverse \in Directions : Continue(reverse) \/ Step(reverse)
  \/ Pause \/ StepIn \/ StepOut
  \/ \E c \in Targets : StepInTarget(c)
  \/ \E f \in BpFiles : \/ ClearBreakpoints(f)
                        \/ \E l \in BpLines : ClearBreakPoint(f, l)
  \/ \E n \in Edits : \/ SetVariable(n)
                      \/ \E kinds \in SUBSET {"read", "write"} \ {{}} :
                           SetDataBreakpoint(n, kinds)
  \/ ClearAllDataBreakpoints
  \/ \E x \in Filters : SetExceptionsFilters(x)
  \/ \E a \in Addresses : SetInstructionBreakpoint(a)
  \/ ClearInstructionBreakpoints

RunStep == HitInstruction \/ HitData \/ HitException \/ ExecuteLine
           \/ UpdateCurrentLine \/ RunOff
           \/ FindBreakpoint \/ FindInstruction \/ FindStatement

TaskStep(t) == ReadDone(t) \/ ReadFail(t) \/ AfterLoad(t) \/ Verify(t) \/ FinishStart(t)

Next == Command \/ RunStep \/ VerifyOne \/ Verified
        \/ (\E t \in Tasks : TaskStep(t)) \/ Deliver

Spec == Init /\ [][Next]_vars

-----------------------------------------------------------------------------
(* Properties.                                                              *)

\* Every variable has its type, and every id that is kept anywhere belongs to
\* a breakpoint that was created.
TypeOK ==
  /\ sourceFile \in Files \cup {None} /\ loaded \in Files \cup {None}
  /\ currentLine \in Nat /\ currentColumn \in Int \cup {None} /\ instruction \in Int
  /\ variables \in SUBSET Names
  /\ breakpointId \in Nat \ {0}
  /\ breakpoint \in [Ids -> Breakpoint]
  /\ breakPoints \in [Files -> Seq(Ids)]
  /\ instructionBreakpoints \in SUBSET Int
  /\ breakAddresses \in [Names -> SUBSET {"read", "write"}]
  /\ filters \in FilterRecord
  /\ run \in RunRecord \cup {None}
  /\ verifying \in [task : Tasks, todo : Seq(Ids)] \cup {None}
  /\ tasks \in [Tasks -> TaskRecord]
  /\ events \in Seq(Event)

\* However the program was moved about, the engine is on a line of the text it
\* holds, and its instruction pointer on that line: on one of its words, just
\* after them, or (going backwards) just before them.  disassemble and the
\* loops of executeLine rely on it; a launch that is still reading, or whose
\* read failed, must not break it.
InstructionOnLine ==
  IF loaded = None THEN currentLine = 0 /\ instruction = 0
  ELSE /\ currentLine \in Lines(loaded)
       /\ Starts(loaded, currentLine) - 1 <= instruction
       /\ instruction <= Ends(loaded, currentLine)

\* The lines a run has left behind or is about to execute, since its start.
Passed ==
  IF run.at = "find"
  THEN IF run.reverse THEN currentLine + 1 .. run.from - 1 ELSE run.from + 1 .. currentLine - 1
  ELSE IF run.reverse THEN currentLine .. run.from - 1 ELSE run.from + 1 .. currentLine

\* continue (runtime.ts:112) skips no breakpoint, blank lines included: while a
\* run is going on, none of the lines it passed has a breakpoint of the file
\* under debug, whatever it landed on in between.
NoBreakpointPassed ==
  run # None => \A l \in Passed : BreakpointsOn(l) = {}

\* So a program ends, or is back at its entry, only from a run that met every
\* breakpoint in front of it: none is left beyond the line it started on.
InFront == IF run.reverse THEN 0 .. run.from - 1 ELSE run.from + 1 .. NumLines(loaded) - 1
EndMeansNoneInFront ==
  [][RunOff => \A l \in InFront : BreakpointsOn(l) = {}]_vars

\* Whatever the text, the breakpoints and the filters, every step of a run brings
\* it nearer to its end, in both directions and over blank lines with no
\* statement behind them: no run goes round in a circle.
LinesLeft == IF run.reverse THEN currentLine
             ELSE IF currentLine \in Lines(loaded) THEN NumLines(loaded) - currentLine ELSE 0
StageLeft == CASE run.at = "find" -> 2 [] run.at = "execute" -> 1 [] OTHER -> 0
StepsLeft == 3 * LinesLeft + StageLeft
RunsShrink == [][run # None /\ run' # None => StepsLeft' \in 0 .. StepsLeft - 1]_vars

\* With one call at a time and readable files, the text held is that of the
\* file named (stack() reports the one with lines of the other) whenever no
\* call is in progress and the last launch named a program.
NoCall == \A t \in Tasks : tasks[t] = NoTask
SourceSettled == NoCall /\ sourceFile # None => loaded = sourceFile

\* Under the same conditions a breakpoint on a line with text is verified by the
\* time its file is the one loaded, whether it was set before the launch, in
\* another file, or while the file was loaded (README.md:116).
VerifiedWhenSettled ==
  NoCall /\ loaded # None =>
    \A i \in DOMAIN breakPoints[loaded] :
      NonBlank(loaded, breakpoint[breakPoints[loaded][i]].line)
        => breakpoint[breakPoints[loaded][i]].verified

\* A breakpoint the client was told of as verified stays so, through every
\* later verification of its array and of the arrays it was taken from.
StaysVerified ==
  [][\A id \in Ids : breakpoint[id].verified => breakpoint'[id].verified]_vars

\* The engine keeps the promise of RunControl.
MessageOf(e) == IF e.event \in Stopped THEN "stopped"
                ELSE IF e.event = "end" THEN "ended" ELSE "info"
Control == INSTANCE RunControl
             WITH launching <- Cardinality({t \in Tasks : tasks[t].call = "start"}),
                  running   <- run # None,
                  queue     <- [i \in 1 .. Len(events) |-> MessageOf(events[i])]
OneNoticePerCommand == Control!Spec
=============================================================================
