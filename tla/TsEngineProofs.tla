--------------------------- MODULE TsEngineProofs ---------------------------
(***************************************************************************)
(* Proofs about the TypeScript engine, for every program text, every set of *)
(* overlapping calls and every bound.                                       *)
(***************************************************************************)
EXTENDS TsEngine, MockSourceProofs, SequenceTheorems

\* While a run is on the stack no forEach is, and only a run that has a source
\* gets as far as looking for its next statement.
OneAtATime == run # None => /\ verifying = None
                            /\ (run.at = "find" => loaded # None)

\* A call that is about to verify breakpoints knows whose.
FileNamed == \A t \in Tasks : tasks[t].at = "verify" => tasks[t].file # None

Inv == TypeOK /\ InstructionOnLine /\ OneAtATime /\ FileNamed /\ NoBreakpointPassed

-----------------------------------------------------------------------------
LEMMA EventTypes ==
  /\ \A e \in EventNames, l \in Int \cup {None} : At(e, l) \in Event
  /\ \A id \in Nat : Validated(id) \in Event
BY DEF At, Validated, Event, EventNames

LEMMA EmitType ==
  ASSUME NEW es \in Seq(Event), events \in Seq(Event), Emit(es)
  PROVE  events' \in Seq(Event)
BY ConcatProperties DEF Emit

LEMMA EmitOne ==
  ASSUME NEW e \in EventNames, NEW l \in Int \cup {None},
         events \in Seq(Event), Emit(<<At(e, l)>>)
  PROVE  events' \in Seq(Event)
<1>1. <<At(e, l)>> \in Seq(Event)
  BY EventTypes
<1> QED
  BY <1>1, EmitType

\* What a run can read of the text: the line it is on, and the line's words.
LEMMA OnLine ==
  ASSUME TypeOK, InstructionOnLine
  PROVE  /\ currentLine \in Nat
         /\ loaded = None => currentLine = 0 /\ Lines(loaded) = {} /\ NumLines(loaded) = 0
         /\ loaded # None => /\ loaded \in Files
                             /\ currentLine \in Lines(loaded)
                             /\ Lines(loaded) = 0 .. NumLines(loaded) - 1
                             /\ NumLines(loaded) \in Nat \ {0}
BY LinesType DEF TypeOK, InstructionOnLine, Lines, NumLines

LEMMA InitInv == Init => Inv
<1> SUFFICES ASSUME Init PROVE Inv
  OBVIOUS
<1>1. TypeOK
  BY DEF Init, TypeOK, Ids, NoTask, TaskRecord, FilterRecord, Stages, Event, Breakpoint
<1>2. InstructionOnLine /\ OneAtATime /\ FileNamed /\ NoBreakpointPassed
  BY DEF Init, InstructionOnLine, OneAtATime, FileNamed, NoTask, NoBreakpointPassed
<1> QED
  BY <1>1, <1>2 DEF Inv

-----------------------------------------------------------------------------
(* Steps that leave the program where it is, with nothing running after.    *)

LEMMA StillKeeps ==
  ASSUME Inv, TypeOK', FileNamed', run' = None, UNCHANGED <<loaded, currentLine, instruction>>
  PROVE  Inv'
BY DEF Inv, InstructionOnLine, OneAtATime, NoBreakpointPassed

LEMMA NoTaskType == NoTask \in TaskRecord
BY DEF NoTask, TaskRecord, Stages

LEMMA LoadSourceTasks ==
  ASSUME TypeOK, Ids \subseteq Ids',
         NEW t \in Tasks, NEW task \in TaskRecord,
         NEW next \in {"loaded", "verify"}, LoadSource(t, task, next)
  PROVE  /\ tasks' \in [Tasks -> TaskRecord']
         /\ sourceFile' \in Files \cup {None}
         /\ FileNamed /\ (next = "verify" => task.file # None) => FileNamed'
<1>1. \A T \in TaskRecord : T \in TaskRecord'
  <2>1. Seq(Ids) \subseteq Seq(Ids')
    BY SeqMonotonic
  <2> QED
    BY <2>1 DEF TaskRecord, Stages
<1>2. [task EXCEPT !.at = IF sourceFile # task.file THEN "reading" ELSE next] \in TaskRecord
  BY DEF TaskRecord, Stages
<1>3. tasks' \in [Tasks -> TaskRecord'] /\ sourceFile' \in Files \cup {None}
  BY <1>1, <1>2 DEF LoadSource, TypeOK, TaskRecord
<1>4. FileNamed /\ (next = "verify" => task.file # None) => FileNamed'
  BY DEF LoadSource, FileNamed, TypeOK, TaskRecord
<1> QED
  BY <1>3, <1>4

LEMMA StartStep ==
  ASSUME Inv, NEW t \in Tasks, NEW f \in Programs, NEW entry \in BOOLEAN, Start(t, f, entry)
  PROVE  Inv'
<1>0. f \in Files \cup {None}
  BY ConstantsAssumption DEF ConstantsAssumption
<1>1. StartOf(f, entry) \in TaskRecord
  BY <1>0, NoTaskType DEF StartOf, TaskRecord
<1>2. LoadSource(t, StartOf(f, entry), "loaded") /\ breakpointId' = breakpointId /\ Ids' = Ids
  BY DEF Start, stops, Ids
<1>3. tasks' \in [Tasks -> TaskRecord'] /\ sourceFile' \in Files \cup {None} /\ FileNamed'
  BY <1>1, <1>2, LoadSourceTasks DEF Inv
<1>4. TypeOK'
  BY <1>2, <1>3 DEF Start, stops, Inv, TypeOK, Ids
<1> QED
  BY <1>3, <1>4, StillKeeps DEF Start, MayCall, Idle

LEMMA SetBreakPointStep ==
  ASSUME Inv, NEW t \in Tasks, NEW f \in BpFiles, NEW l \in BpLines, SetBreakPoint(t, f, l)
  PROVE  Inv'
<1>1. f \in Files /\ l \in Int
  BY ConstantsAssumption DEF ConstantsAssumption
<1>2. BreakpointTask(f) \in TaskRecord
  BY <1>1, NoTaskType DEF BreakpointTask, TaskRecord
<1>3. /\ LoadSource(t, BreakpointTask(f), "verify")
      /\ breakpointId \in Nat \ {0} /\ breakpointId' = breakpointId + 1
      /\ Ids \subseteq Ids' /\ breakpointId \in Ids'
  BY DEF SetBreakPoint, Inv, TypeOK, Ids
<1>4. tasks' \in [Tasks -> TaskRecord'] /\ sourceFile' \in Files \cup {None} /\ FileNamed'
  <2>1. BreakpointTask(f).file # None
    BY <1>1, NoneAssumption DEF BreakpointTask, NoTask, NoneAssumption
  <2> QED
    BY <1>2, <1>3, <2>1, LoadSourceTasks DEF Inv
<1>5. breakpoint' \in [Ids' -> Breakpoint]
  <2>1. breakpoint \in Seq(Breakpoint) /\ Len(breakpoint) = breakpointId - 1
    <3>1. breakpointId - 1 \in Nat /\ breakpoint \in [1 .. breakpointId - 1 -> Breakpoint]
      BY DEF Inv, TypeOK, Ids
    <3> QED
      BY <3>1
  <2>2. [line |-> l, verified |-> FALSE] \in Breakpoint
    BY <1>1 DEF Breakpoint
  <2>3. /\ breakpoint' = Append(breakpoint, [line |-> l, verified |-> FALSE])
        /\ breakpoint' \in Seq(Breakpoint)
        /\ Len(breakpoint') = Len(breakpoint) + 1
    BY <2>1, <2>2, AppendProperties DEF SetBreakPoint
  <2>4. Ids' = 1 .. Len(breakpoint')
    BY <2>1, <2>3, <1>3 DEF Ids
  <2> QED
    BY <2>3, <2>4, LenProperties
<1>6. breakPoints' \in [Files -> Seq(Ids')]
  <2>2. \A g \in Files : breakPoints[g] \in Seq(Ids')
    BY <1>3, SeqMonotonic DEF Inv, TypeOK
  <2>3. Append(breakPoints[f], breakpointId) \in Seq(Ids')
    BY <1>1, <1>3, <2>2, AppendProperties
  <2> QED
    BY <2>2, <2>3 DEF SetBreakPoint, Inv, TypeOK
<1>7. TypeOK'
  <2>1. verifying' = None /\ run' = None
    BY DEF SetBreakPoint, MayCall, Idle
  <2>2. breakpointId' \in Nat \ {0}
    BY <1>3
  <2> QED
    BY <1>4, <1>5, <1>6, <2>1, <2>2 DEF SetBreakPoint, Inv, TypeOK
<1> QED
  BY <1>4, <1>7, StillKeeps DEF SetBreakPoint, MayCall, Idle

LEMMA ReadDoneStep ==
  ASSUME Inv, NEW t \in Tasks, ReadDone(t)
  PROVE  Inv'
<1>1. tasks[t] \in TaskRecord /\ tasks[t].file \in Files /\ Ids' = Ids
  BY DEF ReadDone, Inv, TypeOK, TaskRecord, stops, Ids
<1>2. [tasks[t] EXCEPT !.at = AfterRead(tasks[t])] \in TaskRecord
  BY <1>1 DEF TaskRecord, Stages, AfterRead
<1>3. /\ 0 \in Lines(tasks[t].file)
      /\ Starts(tasks[t].file, 0) = 0
      /\ 0 <= Ends(tasks[t].file, 0)
  BY <1>1, LinesType, StartsType, EndsType
<1>4. loaded' = tasks[t].file /\ currentLine' = 0 /\ instruction' = 0
  BY <1>3 DEF ReadDone
<1>5. TypeOK'
  BY <1>1, <1>2, <1>4 DEF ReadDone, stops, Inv, TypeOK, TaskRecord
<1>6. InstructionOnLine'
  BY <1>1, <1>3, <1>4, NoneAssumption DEF InstructionOnLine, NoneAssumption
<1>7. FileNamed'
  BY <1>1 DEF ReadDone, FileNamed, Inv, TypeOK, TaskRecord
<1> QED
  BY <1>5, <1>6, <1>7 DEF ReadDone, Idle, Inv, OneAtATime, NoBreakpointPassed

LEMMA ReadFailStep ==
  ASSUME Inv, NEW t \in Tasks, ReadFail(t)
  PROVE  Inv'
<1>1. TypeOK'
  BY NoTaskType DEF ReadFail, program, stops, Inv, TypeOK, TaskRecord, Ids
<1>2. FileNamed'
  BY DEF ReadFail, FileNamed, NoTask, Inv, TypeOK
<1> QED
  BY <1>1, <1>2, StillKeeps DEF ReadFail, Idle, program

LEMMA AfterLoadStep ==
  ASSUME Inv, NEW t \in Tasks, AfterLoad(t)
  PROVE  Inv'
<1>1. tasks' \in [Tasks -> TaskRecord] /\ FileNamed'
  <2>1. CASE sourceFile = None
    <3>1. [tasks[t] EXCEPT !.at = "finish"] \in TaskRecord
      BY DEF Inv, TypeOK, TaskRecord, Stages
    <3>2. tasks' = [tasks EXCEPT ![t] = [tasks[t] EXCEPT !.at = "finish"]]
      BY <2>1 DEF AfterLoad
    <3> QED
      BY <3>1, <3>2 DEF Inv, TypeOK, TaskRecord, FileNamed
  <2>2. CASE sourceFile # None
    <3>1. [tasks[t] EXCEPT !.at = "verify", !.file = sourceFile, !.live = TRUE] \in TaskRecord
      BY DEF Inv, TypeOK, TaskRecord, Stages
    <3>2. tasks' = [tasks EXCEPT ![t] =
                      [tasks[t] EXCEPT !.at = "verify", !.file = sourceFile, !.live = TRUE]]
      BY <2>2 DEF AfterLoad
    <3> QED
      BY <2>2, <3>1, <3>2 DEF Inv, TypeOK, TaskRecord, FileNamed
  <2> QED
    BY <2>1, <2>2
<1>2. TypeOK'
  BY <1>1 DEF AfterLoad, program, stops, Inv, TypeOK, TaskRecord, Ids
<1> QED
  BY <1>1, <1>2, StillKeeps DEF AfterLoad, Idle, program

LEMMA VerifyStep ==
  ASSUME Inv, NEW t \in Tasks, Verify(t)
  PROVE  Inv'
<1>1. tasks[t] \in TaskRecord
  BY DEF Inv, TypeOK
<1>2. (IF tasks[t].live THEN breakPoints[tasks[t].file] ELSE tasks[t].held) \in Seq(Ids)
  BY <1>1 DEF Verify, Inv, TypeOK, TaskRecord, FileNamed
<1>3. TypeOK'
  BY <1>2 DEF Verify, program, stops, Inv, TypeOK, TaskRecord, Ids
<1> QED
  BY <1>3, StillKeeps DEF Verify, Inv, FileNamed, Idle, program

LEMMA VerifyOneStep ==
  ASSUME Inv, VerifyOne
  PROVE  Inv'
<1>1. /\ verifying \in [task : Tasks, todo : Seq(Ids)]
      /\ verifying.todo # <<>>
      /\ Head(verifying.todo) \in Ids /\ Tail(verifying.todo) \in Seq(Ids)
  BY HeadTailProperties DEF VerifyOne, Inv, TypeOK
<1>2. breakpoint' \in [Ids -> Breakpoint] /\ events' \in Seq(Event)
  <2> DEFINE id == Head(verifying.todo)
  <2>1. CASE ~breakpoint[id].verified /\ breakpoint[id].line \in Lines(loaded)
    <3>1. NonBlank(loaded, breakpoint[id].line) \in BOOLEAN
      BY DEF NonBlank
    <3>2. breakpoint' = [breakpoint EXCEPT ![id].verified = NonBlank(loaded, breakpoint[id].line)]
      BY <2>1 DEF VerifyOne
    <3>3. <<Validated(id)>> \in Seq(Event) /\ Emit(<<Validated(id)>>)
      BY <1>1, <2>1, EventTypes DEF VerifyOne, Ids
    <3> QED
      BY <1>1, <3>1, <3>2, <3>3, EmitType DEF Inv, TypeOK, Breakpoint
  <2>2. CASE ~(~breakpoint[id].verified /\ breakpoint[id].line \in Lines(loaded))
    BY <2>2 DEF VerifyOne, Inv, TypeOK
  <2> QED
    BY <2>1, <2>2
<1>3. TypeOK'
  BY <1>1, <1>2 DEF VerifyOne, program, Inv, TypeOK, TaskRecord, Ids
<1>4. run' = None
  BY DEF VerifyOne, Inv, OneAtATime
<1> QED
  BY <1>3, <1>4, StillKeeps DEF VerifyOne, Inv, FileNamed, program

LEMMA VerifiedStep ==
  ASSUME Inv, Verified
  PROVE  Inv'
<1>1. tasks' \in [Tasks -> TaskRecord] /\ FileNamed'
  <2> DEFINE k == verifying.task
             next == IF tasks[k].call = "start" THEN [tasks[k] EXCEPT !.at = "finish"] ELSE NoTask
  <2>1. k \in Tasks /\ tasks' = [tasks EXCEPT ![k] = next]
    BY DEF Verified, Inv, TypeOK
  <2>2. next \in TaskRecord /\ next.at # "verify"
    BY <2>1, NoTaskType DEF Inv, TypeOK, TaskRecord, Stages, NoTask
  <2> HIDE DEF k, next
  <2> QED
    BY <2>1, <2>2 DEF Inv, TypeOK, FileNamed
<1>2. TypeOK'
  BY <1>1 DEF Verified, program, stops, Inv, TypeOK, TaskRecord, Ids
<1>3. run' = None
  BY DEF Verified, Inv, OneAtATime
<1> QED
  BY <1>1, <1>2, <1>3, StillKeeps DEF Verified, program

\* A run that has just begun has passed nothing.
LEMMA BeginKeeps ==
  ASSUME Inv, TypeOK', FileNamed', NEW kind \in {"continue", "step"}, NEW reverse \in BOOLEAN,
         run' = Running(kind, reverse), verifying' = None,
         UNCHANGED program
  PROVE  Inv'
<1>1. run'.from = currentLine /\ currentLine \in Nat /\ run'.at = "execute"
  BY DEF Running, Inv, TypeOK
<1>2. Passed' = {}
  BY <1>1 DEF Passed, program
<1> QED
  BY <1>1, <1>2 DEF Inv, program, InstructionOnLine, OneAtATime, NoBreakpointPassed

LEMMA RunningType ==
  ASSUME TypeOK, NEW kind \in {"continue", "step"}, NEW reverse \in BOOLEAN
  PROVE  Running(kind, reverse) \in RunRecord
BY DEF Running, RunRecord, TypeOK

LEMMA CallStep ==
  ASSUME Inv, NEW kind \in {"continue", "step"}, NEW reverse \in Directions,
         Call(kind, reverse)
  PROVE  Inv'
<1>1. reverse \in BOOLEAN
  BY ConstantsAssumption DEF ConstantsAssumption
<1>2. TypeOK'
  BY <1>1, RunningType DEF Call, program, stops, Inv, TypeOK, TaskRecord, Ids
<1> QED
  BY <1>1, <1>2, BeginKeeps DEF Call, MayCall, Idle, Inv, FileNamed

LEMMA FinishStartStep ==
  ASSUME Inv, NEW t \in Tasks, FinishStart(t)
  PROVE  Inv'
<1>1. tasks' \in [Tasks -> TaskRecord] /\ FileNamed'
  BY NoTaskType DEF FinishStart, Inv, TypeOK, FileNamed, NoTask
<1>2. CASE tasks[t].entry
  <2>1. events' \in Seq(Event)
    BY <1>2, EmitOne DEF FinishStart, Inv, TypeOK, EventNames, Stopped
  <2>2. TypeOK'
    BY <1>1, <1>2, <2>1 DEF FinishStart, program, stops, Inv, TypeOK, TaskRecord, Ids
  <2> QED
    BY <1>1, <1>2, <2>2, StillKeeps DEF FinishStart, Idle, program
<1>3. CASE ~tasks[t].entry
  <2>1. run' = Running("continue", FALSE) /\ verifying' = None /\ UNCHANGED program
    BY <1>3 DEF FinishStart, Idle
  <2>2. TypeOK'
    BY <1>1, <1>3, <2>1, RunningType
    DEF FinishStart, program, stops, Inv, TypeOK, TaskRecord, Ids
  <2> QED
    BY <1>1, <2>1, <2>2, BeginKeeps
<1> QED
  BY <1>2, <1>3

-----------------------------------------------------------------------------
(* Commands that are over at once.                                          *)

LEMMA PauseStep ==
  ASSUME Inv, Pause
  PROVE  Inv'
<1>0. "stopOnPause" \in EventNames /\ currentLine \in Int \cup {None} /\ events \in Seq(Event)
  BY DEF EventNames, Stopped, Inv, TypeOK
<1>1. events' \in Seq(Event)
  BY <1>0, EmitOne DEF Pause
<1>2. TypeOK'
  BY <1>1 DEF Pause, program, stops, Inv, TypeOK, TaskRecord, Ids
<1> QED
  BY <1>2, StillKeeps DEF Pause, MayCall, Idle, program, Inv, FileNamed

LEMMA SetColumnStep ==
  ASSUME Inv, NEW c \in Int \cup {None}, Idle, SetColumn(c)
  PROVE  Inv'
<1>1. events' \in Seq(Event)
  BY EmitOne DEF SetColumn, Inv, TypeOK, EventNames, Stopped
<1>2. TypeOK'
  BY <1>1 DEF SetColumn, stops, Inv, TypeOK, TaskRecord, Ids
<1> QED
  BY <1>2, StillKeeps DEF SetColumn, Idle, Inv, FileNamed

LEMMA StepInTargetStep ==
  ASSUME Inv, NEW c \in Targets, StepInTarget(c)
  PROVE  Inv'
BY SetColumnStep, ConstantsAssumption DEF StepInTarget, MayCall, ConstantsAssumption

LEMMA StepInStep ==
  ASSUME Inv, StepIn
  PROVE  Inv'
<1> DEFINE c == IF currentColumn = None THEN 1
                ELSE IF currentColumn <= TextOf(loaded, currentLine).width
                     THEN currentColumn + 1 ELSE currentColumn
<1>1. c \in Int \cup {None}
  BY DEF Inv, TypeOK
<1>2. Idle /\ SetColumn(c)
  BY DEF StepIn, MayCall
<1> HIDE DEF c
<1> QED
  BY <1>1, <1>2, SetColumnStep

LEMMA StepOutStep ==
  ASSUME Inv, StepOut
  PROVE  Inv'
<1> DEFINE c == IF currentColumn \in {None, 1} THEN None ELSE currentColumn - 1
<1>1. c \in Int \cup {None}
  BY DEF Inv, TypeOK
<1>2. Idle /\ SetColumn(c)
  BY DEF StepOut, MayCall
<1> HIDE DEF c
<1> QED
  BY <1>1, <1>2, SetColumnStep

LEMMA ClearBreakpointsStep ==
  ASSUME Inv, NEW f \in BpFiles, ClearBreakpoints(f)
  PROVE  Inv'
<1>1. f \in Files
  BY ConstantsAssumption DEF ConstantsAssumption
<1>2. tasks' \in [Tasks -> TaskRecord] /\ FileNamed'
  <2>1. \A t \in Tasks : /\ tasks[t] \in TaskRecord
                         /\ [tasks[t] EXCEPT !.live = FALSE, !.held = breakPoints[f]] \in TaskRecord
    BY <1>1 DEF Inv, TypeOK, TaskRecord
  <2>2. \A t \in Tasks : tasks'[t] \in TaskRecord
    BY <2>1 DEF ClearBreakpoints, Detached
  <2>3. \A t \in Tasks : tasks'[t].at = tasks[t].at /\ tasks'[t].file = tasks[t].file
    BY <2>1 DEF ClearBreakpoints, Detached, TaskRecord
  <2>4. tasks' = [t \in Tasks |-> tasks'[t]]
    BY DEF ClearBreakpoints, Detached
  <2> QED
    BY <2>2, <2>3, <2>4 DEF Inv, FileNamed
<1>3. breakPoints' \in [Files -> Seq(Ids)]
  BY EmptySeq DEF ClearBreakpoints, Inv, TypeOK
<1>4. TypeOK'
  BY <1>2, <1>3 DEF ClearBreakpoints, program, Inv, TypeOK, TaskRecord, Ids
<1> QED
  BY <1>2, <1>4, StillKeeps DEF ClearBreakpoints, MayCall, Idle, program

LEMMA RemoveAtType ==
  ASSUME NEW S, NEW s \in Seq(S), NEW i \in DOMAIN s
  PROVE  RemoveAt(s, i) \in Seq(S)
<1>1. Len(s) \in Nat /\ i \in 1 .. Len(s)
  BY LenProperties
<1>2. SubSeq(s, 1, i - 1) \in Seq(S) /\ SubSeq(s, i + 1, Len(s)) \in Seq(S)
  BY <1>1, SubSeqProperties, ElementOfSeq
<1> QED
  BY <1>2, ConcatProperties DEF RemoveAt

LEMMA ClearBreakPointStep ==
  ASSUME Inv, NEW f \in BpFiles, NEW l \in BpLines, ClearBreakPoint(f, l)
  PROVE  Inv'
<1>1. f \in Files
  BY ConstantsAssumption DEF ConstantsAssumption
<1>2. PICK i \in DOMAIN breakPoints[f] :
        breakPoints' = [breakPoints EXCEPT ![f] = RemoveAt(breakPoints[f], i)]
  BY DEF ClearBreakPoint
<1>3. RemoveAt(breakPoints[f], i) \in Seq(Ids)
  BY <1>1, RemoveAtType DEF Inv, TypeOK
<1>4. breakPoints' \in [Files -> Seq(Ids)]
  BY <1>2, <1>3 DEF Inv, TypeOK
<1>5. TypeOK'
  BY <1>4 DEF ClearBreakPoint, program, Inv, TypeOK, TaskRecord, Ids
<1> QED
  BY <1>5, StillKeeps DEF ClearBreakPoint, MayCall, Idle, program, Inv, FileNamed

LEMMA SetVariableStep ==
  ASSUME Inv, NEW n \in Edits, SetVariable(n)
  PROVE  Inv'
<1>1. n \in Names
  BY ConstantsAssumption DEF ConstantsAssumption
<1>2. TypeOK'
  BY <1>1 DEF SetVariable, stops, Inv, TypeOK, TaskRecord, Ids
<1> QED
  BY <1>2, StillKeeps DEF SetVariable, MayCall, Idle, Inv, FileNamed

LEMMA SettingsStep ==
  ASSUME Inv,
         \/ \E n \in Edits, kinds \in SUBSET {"read", "write"} \ {{}} : SetDataBreakpoint(n, kinds)
         \/ ClearAllDataBreakpoints
         \/ \E x \in Filters : SetExceptionsFilters(x)
         \/ \E a \in Addresses : SetInstructionBreakpoint(a)
         \/ ClearInstructionBreakpoints
  PROVE  Inv'
<1>1. /\ run = None /\ UNCHANGED <<program, breakPoints, breakpoint, breakpointId,
                                   run, verifying, tasks, events>>
      /\ breakAddresses' \in [Names -> SUBSET {"read", "write"}]
      /\ filters' \in FilterRecord
      /\ instructionBreakpoints' \in SUBSET Int
  <2>1. ASSUME NEW n \in Edits, NEW kinds \in SUBSET {"read", "write"}, SetDataBreakpoint(n, kinds)
        PROVE  <1>1!1 /\ <1>1!2 /\ <1>1!3 /\ <1>1!4
    BY <2>1 DEF SetDataBreakpoint, MayCall, Idle, Inv, TypeOK
  <2>2. CASE ClearAllDataBreakpoints
    BY <2>2 DEF ClearAllDataBreakpoints, MayCall, Idle, Inv, TypeOK
  <2>3. ASSUME NEW x \in Filters, SetExceptionsFilters(x)
        PROVE  <1>1!1 /\ <1>1!2 /\ <1>1!3 /\ <1>1!4
    BY <2>3, ConstantsAssumption
    DEF SetExceptionsFilters, MayCall, Idle, Inv, TypeOK, ConstantsAssumption
  <2>4. ASSUME NEW a \in Addresses, SetInstructionBreakpoint(a)
        PROVE  <1>1!1 /\ <1>1!2 /\ <1>1!3 /\ <1>1!4
    BY <2>4, ConstantsAssumption
    DEF SetInstructionBreakpoint, ChangeInstructionBreakpoints, MayCall, Idle, Inv, TypeOK,
        ConstantsAssumption
  <2>5. CASE ClearInstructionBreakpoints
    BY <2>5
    DEF ClearInstructionBreakpoints, ChangeInstructionBreakpoints, MayCall, Idle, Inv, TypeOK
  <2> QED
    BY <2>1, <2>2, <2>3, <2>4, <2>5
<1>2. TypeOK'
  BY <1>1 DEF program, Inv, TypeOK, TaskRecord, Ids
<1> QED
  BY <1>1, <1>2, StillKeeps DEF program, Inv, FileNamed

LEMMA DeliverStep ==
  ASSUME Inv, Deliver
  PROVE  Inv'
<1>1. events' \in Seq(Event)
  BY HeadTailProperties DEF Deliver, Inv, TypeOK
<1>2. TypeOK'
  BY <1>1 DEF Deliver, program, stops, Inv, TypeOK, TaskRecord, Ids
<1> QED
  BY <1>2, StillKeeps DEF Deliver, Idle, program, Inv, FileNamed

-----------------------------------------------------------------------------
(* The steps of a run.                                                      *)

LEMMA StopKeeps ==
  ASSUME Inv, TypeOK', InstructionOnLine', run' = None, UNCHANGED tasks
  PROVE  Inv'
BY DEF Inv, OneAtATime, NoBreakpointPassed, FileNamed

\* The instruction pointer never leaves the words of the line executed.
LEMMA VisitedOnLine ==
  ASSUME Inv, run # None
  PROVE  /\ loaded = None => Visited = {}
         /\ loaded # None => Visited \subseteq Starts(loaded, currentLine) - 1 .. Ends(loaded, currentLine)
         /\ Visited \subseteq Int
<1>1. CASE loaded = None
  BY <1>1, OnLine DEF Visited, Inv
<1>2. CASE loaded # None
  <2>1. /\ loaded \in Files /\ currentLine \in Lines(loaded)
        /\ Starts(loaded, currentLine) \in Nat /\ Ends(loaded, currentLine) \in Nat
        /\ Starts(loaded, currentLine) <= Ends(loaded, currentLine)
    BY <1>2, OnLine, StartsType, EndsType DEF Inv
  <2>2. /\ instruction \in Int
        /\ Starts(loaded, currentLine) - 1 <= instruction
        /\ instruction <= Ends(loaded, currentLine)
    BY <1>2 DEF Inv, TypeOK, InstructionOnLine
  <2> QED
    BY <1>2, <2>1, <2>2 DEF Visited
<1> QED
  BY <1>1, <1>2

LEMMA InstructionKept ==
  ASSUME Inv, run # None, instruction' \in Visited \cup {instruction},
         UNCHANGED <<loaded, currentLine>>
  PROVE  InstructionOnLine' /\ instruction' \in Int
<1>1. CASE loaded = None
  BY <1>1, VisitedOnLine DEF Inv, TypeOK, InstructionOnLine
<1>2. CASE loaded # None
  <2>1. /\ loaded \in Files /\ currentLine \in Lines(loaded)
        /\ Starts(loaded, currentLine) \in Nat /\ Ends(loaded, currentLine) \in Nat
    BY <1>2, OnLine, StartsType, EndsType DEF Inv
  <2> QED
    BY <1>2, <2>1, VisitedOnLine DEF Inv, TypeOK, InstructionOnLine
<1> QED
  BY <1>1, <1>2

LEMMA HitInstructionStep ==
  ASSUME Inv, HitInstruction
  PROVE  Inv'
<1>1. run # None /\ instruction' \in Visited
  BY DEF HitInstruction, FirstOf
<1>2. InstructionOnLine' /\ instruction' \in Int
  BY <1>1, InstructionKept DEF HitInstruction
<1>3. events' \in Seq(Event)
  <2>1. /\ "stopOnInstructionBreakpoint" \in EventNames
        /\ currentLine \in Int \cup {None} /\ events \in Seq(Event)
    BY DEF EventNames, Stopped, Inv, TypeOK
  <2> QED
    BY <2>1, EmitOne DEF HitInstruction, StopWith
<1>4. TypeOK'
  BY <1>2, <1>3 DEF HitInstruction, StopWith, stops, Inv, TypeOK, TaskRecord, Ids
<1> QED
  BY <1>2, <1>4, StopKeeps DEF HitInstruction, StopWith

LEMMA WordsDoneKept ==
  ASSUME Inv, WordsDone, UNCHANGED <<loaded, currentLine>>
  PROVE  InstructionOnLine' /\ instruction' \in Int
<1>1. run # None /\ instruction' \in Visited \cup {instruction}
  BY DEF WordsDone, LastOf
<1> QED
  BY <1>1, InstructionKept

LEMMA AccessesType ==
  ASSUME TypeOK
  PROVE  /\ AccessesHere \in Seq(Access)
         /\ \A k \in Nat : DeclaredBefore(k) \in SUBSET Names \/ k > Len(AccessesHere) + 1
         /\ OutputsHere \in Seq(Event)
<1>1. CASE currentLine \notin Lines(loaded)
  <2>1. AccessesHere = <<>> /\ OutputsHere = <<>>
    BY <1>1 DEF AccessesHere, OutputsHere
  <2>2. \A k \in Nat : k <= 1 => DeclaredBefore(k) = variables
    BY <2>1 DEF DeclaredBefore
  <2> QED
    BY <2>1, <2>2 DEF TypeOK
<1>2. CASE currentLine \in Lines(loaded)
  <2>1. loaded \in Files /\ TextOf(loaded, currentLine) \in LineRecord
    BY <1>2, LinesType DEF TypeOK, Lines, NumLines
  <2>2. AccessesHere \in Seq(Access) /\ TextOf(loaded, currentLine).outs \in Nat
    BY <1>2, <2>1 DEF AccessesHere, LineRecord
  <2>3. \A i \in 1 .. Len(AccessesHere) : AccessesHere[i].name \in Names
    <3>1. \A i \in 1 .. Len(AccessesHere) : AccessesHere[i] \in Access
      BY <2>2, ElementOfSeq
    <3> QED
      BY <3>1 DEF Access
  <2>4. \A k \in Nat : k <= Len(AccessesHere) + 1 => DeclaredBefore(k) \in SUBSET Names
    BY <2>2, <2>3 DEF DeclaredBefore, Inv, TypeOK
  <2>5. OutputsHere \in Seq(Event)
    <3>1. At("output", currentLine) \in Event
      <4>1. "output" \in EventNames /\ currentLine \in Int \cup {None}
        BY DEF TypeOK, EventNames
      <4> QED
        BY <4>1, EventTypes
    <3> QED
      BY <1>2, <2>2, <3>1 DEF OutputsHere
  <2> QED
    BY <2>2, <2>4, <2>5
<1> QED
  BY <1>1, <1>2

LEMMA DeclaredType ==
  ASSUME TypeOK, NEW k \in 0 .. Len(AccessesHere)
  PROVE  DeclaredBefore(k + 1) \in SUBSET Names
<1>1. Len(AccessesHere) \in Nat
  BY AccessesType
<1> QED
  BY <1>1, AccessesType

LEMMA HitDataStep ==
  ASSUME Inv, HitData
  PROVE  Inv'
<1>1. InstructionOnLine' /\ instruction' \in Int
  BY WordsDoneKept DEF HitData
<1>2. variables' \in SUBSET Names
  <2>1. PICK k \in DataHits : variables' = DeclaredBefore(k + 1)
    BY DEF HitData
  <2>2. k \in 0 .. Len(AccessesHere)
    BY DEF DataHits
  <2> QED
    BY <2>1, <2>2, DeclaredType DEF Inv
<1>3. events' \in Seq(Event)
  <2>1. /\ "stopOnDataBreakpoint" \in EventNames
        /\ currentLine \in Int \cup {None} /\ events \in Seq(Event)
    BY DEF EventNames, Stopped, Inv, TypeOK
  <2> QED
    BY <2>1, EmitOne DEF HitData, StopWith
<1>4. TypeOK'
  BY <1>1, <1>2, <1>3 DEF HitData, StopWith, stops, Inv, TypeOK, TaskRecord, Ids
<1> QED
  BY <1>1, <1>4, StopKeeps DEF HitData, StopWith

LEMMA LineDoneKept ==
  ASSUME Inv, LineDone
  PROVE  /\ InstructionOnLine' /\ instruction' \in Int
         /\ variables' \in SUBSET Names
<1>1. Len(AccessesHere) \in 0 .. Len(AccessesHere)
  BY AccessesType DEF Inv
<1> QED
  BY <1>1, WordsDoneKept, DeclaredType DEF LineDone, Inv

LEMMA HitExceptionStep ==
  ASSUME Inv, HitException
  PROVE  Inv'
<1>1. InstructionOnLine' /\ instruction' \in Int /\ variables' \in SUBSET Names
  BY LineDoneKept DEF HitException
<1>2. events' \in Seq(Event)
  <2>1. <<At("stopOnException", currentLine)>> \in Seq(Event)
    BY EventTypes DEF EventNames, Stopped, Inv, TypeOK
  <2>2. OutputsHere \o <<At("stopOnException", currentLine)>> \in Seq(Event)
    BY <2>1, AccessesType, ConcatProperties DEF Inv
  <2> QED
    BY <2>2, EmitType DEF HitException, StopWith, Inv, TypeOK
<1>3. TypeOK'
  BY <1>1, <1>2 DEF HitException, LineDone, StopWith, stops, Inv, TypeOK, TaskRecord, Ids
<1> QED
  BY <1>1, <1>3, StopKeeps DEF HitException, LineDone, StopWith

LEMMA ExecuteLineStep ==
  ASSUME Inv, ExecuteLine
  PROVE  Inv'
<1>1. InstructionOnLine' /\ instruction' \in Int /\ variables' \in SUBSET Names
  BY LineDoneKept DEF ExecuteLine
<1>2. events' \in Seq(Event)
  BY AccessesType, EmitType DEF ExecuteLine, Inv, TypeOK
<1>3. run \in RunRecord /\ run.at = "execute" /\ run # None
  BY DEF ExecuteLine, LineDone, WordsDone, Inv, TypeOK
<1>4. run' \in RunRecord /\ run' = [run EXCEPT !.at = "advance"]
  BY <1>3 DEF ExecuteLine, RunRecord
<1>5. TypeOK'
  BY <1>1, <1>2, <1>4 DEF ExecuteLine, LineDone, stops, Inv, TypeOK, TaskRecord, Ids
<1>6. NoBreakpointPassed'
  <2>1. Passed' = Passed
    BY <1>3, <1>4 DEF Passed, RunRecord, ExecuteLine, LineDone
  <2>2. \A l : BreakpointsOn(l)' = BreakpointsOn(l)
    BY DEF BreakpointsOn, BreakpointsOf, ExecuteLine, LineDone, stops
  <2> QED
    BY <1>3, <2>1, <2>2 DEF NoBreakpointPassed, Inv
<1>7. OneAtATime' /\ FileNamed'
  BY <1>3, <1>4 DEF OneAtATime, FileNamed, ExecuteLine, LineDone, Inv, RunRecord
<1> QED
  BY <1>1, <1>5, <1>6, <1>7 DEF Inv

\* The setter keeps the instruction pointer on the line it sets.
LEMMA SetLineKept ==
  ASSUME Inv, loaded # None, NEW l \in Lines(loaded), SetCurrentLine(l), UNCHANGED loaded
  PROVE  InstructionOnLine' /\ currentLine' \in Nat /\ instruction' \in Int
<1>1. loaded \in Files /\ l \in Nat
  BY OnLine DEF Inv
<1>2. /\ Starts(loaded, l) \in Nat /\ Ends(loaded, l) \in Nat
      /\ Starts(loaded, l) <= Ends(loaded, l)
  BY <1>1, StartsType, EndsType
<1> QED
  BY <1>1, <1>2 DEF SetCurrentLine, InstructionOnLine

LEMMA UpdateCurrentLineStep ==
  ASSUME Inv, UpdateCurrentLine
  PROVE  Inv'
<1>1. /\ run # None /\ run \in RunRecord /\ run.at = "advance"
      /\ NextLine \in Lines(loaded) /\ SetCurrentLine(NextLine) /\ UNCHANGED loaded
  BY DEF UpdateCurrentLine, Inv, TypeOK
<1>2. loaded # None
  BY <1>1, OnLine DEF Inv
<1>3. InstructionOnLine' /\ currentLine' \in Nat /\ instruction' \in Int
  BY <1>1, <1>2, SetLineKept
<1>4. /\ run' = [run EXCEPT !.at = "find"] /\ run' \in RunRecord /\ run' # None
      /\ run'.at = "find" /\ run'.reverse = run.reverse /\ run'.from = run.from
  BY <1>1, ConstantsAssumption DEF UpdateCurrentLine, RunRecord, ConstantsAssumption
<1>5. TypeOK'
  BY <1>3, <1>4 DEF UpdateCurrentLine, stops, Inv, TypeOK, TaskRecord, Ids
<1>6. NoBreakpointPassed'
  <2>1. Passed' = Passed
    BY <1>1, <1>4 DEF Passed, NextLine, SetCurrentLine, RunRecord, Inv, TypeOK
  <2>2. \A l : BreakpointsOn(l)' = BreakpointsOn(l)
    BY DEF BreakpointsOn, BreakpointsOf, UpdateCurrentLine, stops
  <2> QED
    BY <1>1, <2>1, <2>2 DEF NoBreakpointPassed, Inv
<1>7. OneAtATime' /\ FileNamed'
  BY <1>1, <1>2, <1>4 DEF OneAtATime, FileNamed, UpdateCurrentLine, Inv
<1> QED
  BY <1>3, <1>5, <1>6, <1>7 DEF Inv

LEMMA RunOffStep ==
  ASSUME Inv, RunOff
  PROVE  Inv'
<1>1. /\ InstructionOnLine' /\ currentLine' \in Nat /\ instruction' \in Int
  <2>1. CASE run.reverse /\ loaded # None
    <3>1. 0 \in Lines(loaded)
      BY <2>1, OnLine DEF Inv
    <3> QED
      BY <2>1, <3>1, SetLineKept DEF RunOff
  <2>2. CASE run.reverse /\ loaded = None
    <3>1. Starts(None, 0) = 0
      <4>1. WordsBefore(None, 0) = {}
        BY DEF WordsBefore
      <4> QED
        BY <4>1, FS_EmptySet DEF Starts
    <3> QED
      BY <2>2, <3>1 DEF RunOff, SetCurrentLine, InstructionOnLine
  <2>3. CASE ~run.reverse
    BY <2>3 DEF RunOff, Inv, TypeOK, InstructionOnLine
  <2> QED
    BY <2>1, <2>2, <2>3
<1>2. events' \in Seq(Event)
  <2>1. /\ {"stopOnEntry", "end"} \subseteq EventNames /\ events \in Seq(Event)
    BY DEF EventNames, Stopped, Inv, TypeOK
  <2> QED
    BY <2>1, EmitOne DEF RunOff, StopWith
<1>3. run' = None
  BY DEF RunOff, StopWith
<1>4. TypeOK'
  BY <1>1, <1>2, <1>3 DEF RunOff, stops, Inv, TypeOK, TaskRecord, Ids
<1> QED
  BY <1>1, <1>3, <1>4, StopKeeps DEF RunOff

LEMMA LandingOnLine ==
  ASSUME Inv, Finding
  PROVE  loaded # None /\ Landings \subseteq Lines(loaded)
BY OnLine DEF Inv, OneAtATime, Finding, Landings, Ahead

LEMMA FindBreakpointStep ==
  ASSUME Inv, FindBreakpoint
  PROVE  Inv'
<1>1. PICK l \in FirstOf(Landings) : \E i \in BreakpointsOn(l) :
        LET id == BreakpointsOf(sourceFile)[i]
        IN /\ SetCurrentLine(l)
           /\ breakpoint' = [breakpoint EXCEPT ![id].verified = TRUE]
           /\ StopWith((IF breakpoint[id].verified THEN <<>> ELSE <<Validated(id)>>)
                         \o <<At("stopOnBreakpoint", l)>>)
  BY DEF FindBreakpoint
<1>2. PICK i \in BreakpointsOn(l) :
        /\ SetCurrentLine(l)
        /\ breakpoint' = [breakpoint EXCEPT ![BreakpointsOf(sourceFile)[i]].verified = TRUE]
        /\ StopWith((IF breakpoint[BreakpointsOf(sourceFile)[i]].verified
                     THEN <<>> ELSE <<Validated(BreakpointsOf(sourceFile)[i])>>)
                      \o <<At("stopOnBreakpoint", l)>>)
  BY <1>1
<1> DEFINE id == BreakpointsOf(sourceFile)[i]
<1>3. id \in Ids /\ id \in Nat
  <2>1. BreakpointsOf(sourceFile) \in Seq(Ids)
    BY EmptySeq DEF BreakpointsOf, Inv, TypeOK
  <2>2. i \in DOMAIN BreakpointsOf(sourceFile)
    BY DEF BreakpointsOn
  <2>3. id \in Ids
    BY <2>1, <2>2, ElementOfSeq, LenProperties
  <2> QED
    BY <2>3 DEF Ids, Inv, TypeOK
<1>4. l \in Lines(loaded) /\ loaded # None /\ UNCHANGED loaded
  BY LandingOnLine DEF FindBreakpoint, FirstOf
<1>5. InstructionOnLine' /\ currentLine' \in Nat /\ instruction' \in Int
  BY <1>2, <1>4, SetLineKept
<1>6. breakpoint' \in [Ids -> Breakpoint]
  BY <1>2, <1>3 DEF Inv, TypeOK, Breakpoint
<1>7. events' \in Seq(Event)
  <2>1. "stopOnBreakpoint" \in EventNames /\ l \in Int \cup {None}
    BY <1>4, OnLine DEF EventNames, Stopped, Inv
  <2>2. /\ <<At("stopOnBreakpoint", l)>> \in Seq(Event)
        /\ <<Validated(id)>> \in Seq(Event) /\ <<>> \in Seq(Event)
    BY <1>3, <2>1, EventTypes
  <2> QED
    BY <1>2, <2>2, ConcatProperties, EmitType DEF StopWith, Inv, TypeOK
<1>8. run' = None
  BY <1>2 DEF StopWith
<1>9. TypeOK'
  BY <1>5, <1>6, <1>7, <1>8 DEF FindBreakpoint, Inv, TypeOK, TaskRecord, Ids
<1> QED
  BY <1>5, <1>8, <1>9, StopKeeps DEF FindBreakpoint

LEMMA FindInstructionStep ==
  ASSUME Inv, FindInstruction
  PROVE  Inv'
<1>1. PICK l \in FirstOf(Landings) :
        SetCurrentLine(l) /\ StopWith(<<At("stopOnInstructionBreakpoint", l)>>)
  BY DEF FindInstruction
<1>2. l \in Lines(loaded) /\ loaded # None /\ UNCHANGED loaded
  BY LandingOnLine DEF FindInstruction, FirstOf
<1>3. InstructionOnLine' /\ currentLine' \in Nat /\ instruction' \in Int
  BY <1>1, <1>2, SetLineKept
<1>4. events' \in Seq(Event)
  <2>1. /\ "stopOnInstructionBreakpoint" \in EventNames
        /\ l \in Int \cup {None} /\ events \in Seq(Event)
    BY <1>2, OnLine DEF EventNames, Stopped, Inv, TypeOK
  <2> QED
    BY <1>1, <2>1, EmitOne DEF StopWith
<1>5. run' = None
  BY <1>1 DEF StopWith
<1>6. TypeOK'
  BY <1>3, <1>4, <1>5 DEF FindInstruction, stops, Inv, TypeOK, TaskRecord, Ids
<1> QED
  BY <1>3, <1>5, <1>6, StopKeeps DEF FindInstruction

\* Whatever line is not a landing has no breakpoint, up to where the search ends.
LEMMA FindStatementPassed ==
  ASSUME Inv, FindStatement, run' # None
  PROVE  NoBreakpointPassed'
<1>1. /\ run # None /\ run \in RunRecord /\ run.at = "find" /\ loaded # None
      /\ Arrived(currentLine')
  BY DEF FindStatement, Finding, Inv, TypeOK, OneAtATime, SetCurrentLine
<1>2. run' = [run EXCEPT !.at = "execute"]
  BY <1>1 DEF Arrived, StopWith
<1>3. run'.at = "execute" /\ run'.reverse = run.reverse /\ run'.from = run.from /\ run.from \in Nat
  BY <1>1, <1>2 DEF RunRecord
<1>4. \A l : BreakpointsOn(l)' = BreakpointsOn(l)
  BY DEF BreakpointsOn, BreakpointsOf, FindStatement, stops
<1>5. /\ currentLine \in Nat /\ currentLine \in Lines(loaded)
      /\ Lines(loaded) = 0 .. NumLines(loaded) - 1 /\ NumLines(loaded) \in Nat
  BY <1>1, OnLine DEF Inv
<1>6. \A l \in Ahead : BreakpointsOn(l) # {} => l \in Landings
  BY DEF Landings
<1>7. /\ currentLine' \in Ahead
      /\ \A l \in Ahead : (IF run.reverse THEN currentLine' <= l ELSE l <= currentLine')
                            => BreakpointsOn(l) = {}
  <2>1. CASE Landings = {} /\ UNCHANGED currentLine
    BY <1>5, <1>6, <2>1 DEF Ahead
  <2>2. ASSUME NEW l \in FirstOf(Landings), BreakpointsOn(l) = {}, SetCurrentLine(l)
        PROVE  <1>7
    <3>1. currentLine' = l /\ l \in Ahead /\ Ahead \subseteq Int
      BY <1>5, <2>2 DEF SetCurrentLine, FirstOf, Landings, Ahead
    <3>2. \A m \in Ahead : BreakpointsOn(m) # {} => ~Sooner(m, l) /\ m # l
      BY <1>6, <2>2 DEF FirstOf
    <3> QED
      BY <3>1, <3>2 DEF Sooner
  <2> QED
    BY <2>1, <2>2 DEF FindStatement
<1>8. \A l \in Passed' :
        \/ l \in Passed
        \/ /\ l \in Ahead
           /\ IF run.reverse THEN currentLine' <= l ELSE l <= currentLine'
  BY <1>1, <1>3, <1>5, <1>7 DEF Passed, Ahead
<1> QED
  BY <1>1, <1>4, <1>7, <1>8 DEF NoBreakpointPassed, Inv

LEMMA FindStatementStep ==
  ASSUME Inv, FindStatement
  PROVE  Inv'
<1>1. /\ run # None /\ run \in RunRecord /\ loaded # None /\ UNCHANGED loaded
      /\ Arrived(currentLine')
  BY DEF FindStatement, Finding, Inv, TypeOK, OneAtATime, SetCurrentLine
<1>2. InstructionOnLine' /\ currentLine' \in Nat /\ instruction' \in Int
  <2>1. CASE UNCHANGED <<currentLine, instruction>>
    BY <1>1, <2>1 DEF Inv, TypeOK, InstructionOnLine
  <2>2. ASSUME NEW l \in FirstOf(Landings), SetCurrentLine(l)
        PROVE  <1>2
    <3>1. l \in Lines(loaded)
      BY LandingOnLine DEF FindStatement, FirstOf
    <3> QED
      BY <1>1, <2>2, <3>1, SetLineKept
  <2> QED
    BY <2>1, <2>2 DEF FindStatement
<1>3. CASE run.kind = "step"
  <2>1. run' = None /\ Emit(<<At("stopOnStep", currentLine')>>)
    BY <1>1, <1>3 DEF Arrived, StopWith
  <2>2. events' \in Seq(Event)
    <3>1. /\ "stopOnStep" \in EventNames
          /\ currentLine' \in Int \cup {None} /\ events \in Seq(Event)
      BY <1>2 DEF EventNames, Stopped, Inv, TypeOK
    <3> QED
      BY <2>1, <3>1, EmitOne
  <2>3. TypeOK'
    BY <1>2, <2>1, <2>2 DEF FindStatement, stops, Inv, TypeOK, TaskRecord, Ids
  <2> QED
    BY <1>2, <2>1, <2>3, StopKeeps DEF FindStatement
<1>4. CASE run.kind # "step"
  <2>1. run' = [run EXCEPT !.at = "execute"] /\ UNCHANGED events
    BY <1>1, <1>4 DEF Arrived
  <2>2. run' \in RunRecord /\ run' # None /\ run'.at = "execute"
    BY <1>1, <2>1, ConstantsAssumption DEF RunRecord, ConstantsAssumption
  <2>3. TypeOK'
    BY <1>2, <2>1, <2>2 DEF FindStatement, stops, Inv, TypeOK, TaskRecord, Ids
  <2>4. OneAtATime' /\ FileNamed'
    BY <1>1, <2>2 DEF OneAtATime, FileNamed, FindStatement, Inv
  <2> QED
    BY <1>2, <2>2, <2>3, <2>4, FindStatementPassed DEF Inv
<1> QED
  BY <1>3, <1>4

-----------------------------------------------------------------------------
(* The theorems.                                                            *)

LEMMA NextInv == Inv /\ [Next]_vars => Inv'
<1> SUFFICES ASSUME Inv, [Next]_vars PROVE Inv'
  OBVIOUS
<1>1. CASE Command
  <2>1. ASSUME NEW t \in Tasks, NEW f \in Programs, NEW entry \in BOOLEAN, Start(t, f, entry)
        PROVE  Inv'
    BY <2>1, StartStep
  <2>2. ASSUME NEW t \in Tasks, NEW f \in BpFiles, NEW l \in BpLines, SetBreakPoint(t, f, l)
        PROVE  Inv'
    BY <2>2, SetBreakPointStep
  <2>3. ASSUME NEW reverse \in Directions, Continue(reverse) \/ Step(reverse)
        PROVE  Inv'
    BY <2>3, CallStep DEF Continue, Step
  <2>4. CASE Pause
    BY <2>4, PauseStep
  <2>5. CASE StepIn
    BY <2>5, StepInStep
  <2>6. CASE StepOut
    BY <2>6, StepOutStep
  <2>7. ASSUME NEW c \in Targets, StepInTarget(c)
        PROVE  Inv'
    BY <2>7, StepInTargetStep
  <2>8. ASSUME NEW f \in BpFiles, ClearBreakpoints(f)
        PROVE  Inv'
    BY <2>8, ClearBreakpointsStep
  <2>9. ASSUME NEW f \in BpFiles, NEW l \in BpLines, ClearBreakPoint(f, l)
        PROVE  Inv'
    BY <2>9, ClearBreakPointStep
  <2>10. ASSUME NEW n \in Edits, SetVariable(n)
         PROVE  Inv'
    BY <2>10, SetVariableStep
  <2>11. CASE \/ \E n \in Edits, kinds \in SUBSET {"read", "write"} \ {{}} :
                   SetDataBreakpoint(n, kinds)
              \/ ClearAllDataBreakpoints
              \/ \E x \in Filters : SetExceptionsFilters(x)
              \/ \E a \in Addresses : SetInstructionBreakpoint(a)
              \/ ClearInstructionBreakpoints
    BY <2>11, SettingsStep
  <2> QED
    BY <1>1, <2>1, <2>2, <2>3, <2>4, <2>5, <2>6, <2>7, <2>8, <2>9, <2>10, <2>11 DEF Command
<1>2. CASE RunStep
  BY <1>2, HitInstructionStep, HitDataStep, HitExceptionStep, ExecuteLineStep,
     UpdateCurrentLineStep, RunOffStep, FindBreakpointStep, FindInstructionStep,
     FindStatementStep
  DEF RunStep
<1>3. CASE VerifyOne \/ Verified
  BY <1>3, VerifyOneStep, VerifiedStep
<1>4. ASSUME NEW t \in Tasks, TaskStep(t)
      PROVE  Inv'
  BY <1>4, ReadDoneStep, ReadFailStep, AfterLoadStep, VerifyStep, FinishStartStep DEF TaskStep
<1>5. CASE Deliver
  BY <1>5, DeliverStep
<1>6. CASE UNCHANGED vars
  <2>1. TypeOK' /\ InstructionOnLine' /\ OneAtATime' /\ FileNamed'
    BY <1>6
    DEF vars, program, stops, Inv, TypeOK, TaskRecord, Ids, InstructionOnLine, OneAtATime, FileNamed
  <2>2. NoBreakpointPassed'
    BY <1>6
    DEF vars, program, stops, Inv, NoBreakpointPassed, Passed, BreakpointsOn, BreakpointsOf
  <2> QED
    BY <2>1, <2>2 DEF Inv
<1> QED
  BY <1>1, <1>2, <1>3, <1>4, <1>5, <1>6 DEF Next

\* The invariant of the proofs, for every text, every number of overlapping
\* calls and every bound.
THEOREM Invariant == Spec => []Inv
<1>1. Init => Inv
  BY InitInv
<1>2. Inv /\ [Next]_vars => Inv'
  BY NextInv
<1> QED
  BY <1>1, <1>2, PTL DEF Spec

\* Every variable keeps its type: no id of a breakpoint that was never created
\* is ever held in a list, a task or a forEach (runtime.ts:179-198, 338-353).
THEOREM TypeCorrect == Spec => []TypeOK
<1>1. Inv => TypeOK
  BY DEF Inv
<1> QED
  BY <1>1, Invariant, PTL

\* The engine is always on a line of the text it holds and on that line's
\* words, whatever loads, fails to load or overlaps (runtime.ts:86, 257-280).
THEOREM OnItsLine == Spec => []InstructionOnLine
<1>1. Inv => InstructionOnLine
  BY DEF Inv
<1> QED
  BY <1>1, Invariant, PTL

\* A run passes no breakpoint of the file under debug (runtime.ts:112, 282).
THEOREM PassesNoBreakpoint == Spec => []NoBreakpointPassed
<1>1. Inv => NoBreakpointPassed
  BY DEF Inv
<1> QED
  BY <1>1, Invariant, PTL

LEMMA RunOffNoneInFront ==
  ASSUME Inv, RunOff, NEW l \in InFront
  PROVE  BreakpointsOn(l) = {}
<1>1. run # None /\ run \in RunRecord /\ run.at = "advance" /\ run.from \in Nat
      /\ NextLine \notin Lines(loaded)
  BY DEF RunOff, Inv, TypeOK, RunRecord
<1>2. l \in Passed
  <2>1. currentLine \in Nat /\ NumLines(loaded) \in Nat
    BY OnLine DEF Inv
  <2>2. /\ ~run.reverse => NumLines(loaded) - 1 <= currentLine
        /\ run.reverse => currentLine <= 0
    BY <1>1, OnLine DEF NextLine, Lines, Inv
  <2> QED
    BY <1>1, <2>1, <2>2 DEF InFront, Passed
<1> QED
  BY <1>1, <1>2 DEF Inv, NoBreakpointPassed

\* A run that leaves the program has met every breakpoint in front of the line
\* it started on (runtime.ts:355-362).
THEOREM EndsPastEveryBreakpoint == Spec => EndMeansNoneInFront
<1>1. Inv /\ [Next]_vars => [RunOff => \A l \in InFront : BreakpointsOn(l) = {}]_vars
  BY RunOffNoneInFront
<1> QED
  BY <1>1, Invariant, PTL DEF Spec, EndMeansNoneInFront

LEMMA VerifiedStays ==
  ASSUME Inv, Next, NEW id \in Ids, breakpoint[id].verified
  PROVE  breakpoint'[id].verified
<1>1. breakpoint \in [Ids -> Breakpoint] /\ breakpointId \in Nat \ {0}
  BY DEF Inv, TypeOK
<1>2. CASE UNCHANGED breakpoint
  BY <1>2
<1>3. ASSUME NEW t \in Tasks, NEW f \in BpFiles, NEW l \in BpLines, SetBreakPoint(t, f, l)
      PROVE  breakpoint'[id].verified
  <2>1. breakpoint \in Seq(Breakpoint) /\ id \in 1 .. Len(breakpoint)
    <3>1. breakpointId - 1 \in Nat /\ breakpoint \in [1 .. breakpointId - 1 -> Breakpoint]
      BY <1>1 DEF Ids
    <3> QED
      BY <3>1 DEF Ids
  <2>2. breakpoint' = Append(breakpoint, [line |-> l, verified |-> FALSE])
    BY <1>3 DEF SetBreakPoint
  <2> QED
    BY <2>1, <2>2
<1>4. CASE VerifyOne
  <2>1. Head(verifying.todo) \in Ids
    BY <1>4, HeadTailProperties DEF VerifyOne, Inv, TypeOK
  <2> QED
    BY <1>1, <1>4, <2>1 DEF VerifyOne, Breakpoint
<1>5. CASE FindBreakpoint
  BY <1>1, <1>5 DEF FindBreakpoint, Breakpoint
<1>6. CASE /\ ~VerifyOne /\ ~FindBreakpoint
           /\ ~\E t \in Tasks, f \in BpFiles, l \in BpLines : SetBreakPoint(t, f, l)
  <2>1. UNCHANGED breakpoint
    BY <1>6
    DEF Next, Command, RunStep, TaskStep, stops, Start, Continue, Step, Call, Pause, StepIn, StepOut,
        StepInTarget, SetColumn, ClearBreakpoints, ClearBreakPoint, SetVariable,
        SetDataBreakpoint, ClearAllDataBreakpoints, SetExceptionsFilters,
        SetInstructionBreakpoint, ClearInstructionBreakpoints, ChangeInstructionBreakpoints,
        HitInstruction, HitData, HitException, ExecuteLine, LineDone, UpdateCurrentLine, RunOff,
        FindInstruction, FindStatement, Verified, ReadDone, ReadFail, AfterLoad, Verify,
        FinishStart, Deliver
  <2> QED
    BY <2>1
<1> QED
  BY <1>3, <1>4, <1>5, <1>6

\* A breakpoint verified once is never taken back (runtime.ts:343-349).
THEOREM NeverUnverified == Spec => StaysVerified
<1>1. Inv /\ [Next]_vars
        => [\A id \in Ids : breakpoint[id].verified => breakpoint'[id].verified]_vars
  BY VerifiedStays
<1> QED
  BY <1>1, Invariant, PTL DEF Spec, StaysVerified

-----------------------------------------------------------------------------
(* Runs come to their end.                                                  *)

LEMMA LinesLeftType ==
  ASSUME currentLine \in Nat, loaded \in Files \cup {None}
  PROVE  /\ NumLines(loaded) \in Nat /\ Lines(loaded) = 0 .. NumLines(loaded) - 1
         /\ LinesLeft \in Nat
<1>1. NumLines(loaded) \in Nat
  <2>1. CASE loaded = None
    BY <2>1 DEF NumLines
  <2>2. CASE loaded \in Files
    BY <2>2, LinesType
  <2> QED
    BY <2>1, <2>2
<1> QED
  BY <1>1 DEF LinesLeft, Lines

\* A step inside the line, or one that leaves the line behind.
LEMMA LessLeft ==
  ASSUME TypeOK, LinesLeft' \in Nat,
         run.at \in {"execute", "advance", "find"}, run'.at \in {"execute", "advance", "find"},
         \/ LinesLeft' <= LinesLeft /\ StageLeft' < StageLeft
         \/ LinesLeft' < LinesLeft
  PROVE  StepsLeft' \in 0 .. StepsLeft - 1
<1>1. LinesLeft \in Nat
  BY LinesLeftType DEF TypeOK
<1>2. StageLeft \in 0 .. 2 /\ StageLeft' \in 0 .. 2
  BY DEF StageLeft
<1>3. StepsLeft = 3 * LinesLeft + StageLeft /\ StepsLeft' = 3 * LinesLeft' + StageLeft'
  BY DEF StepsLeft
<1>4. ASSUME NEW a \in Nat, NEW b \in Nat, NEW c \in 0 .. 2, NEW d \in 0 .. 2,
             (b <= a /\ d < c) \/ b < a
      PROVE  3 * b + d \in 0 .. (3 * a + c) - 1
  BY <1>4
<1>5. PICK a \in Nat, b \in Nat : a = LinesLeft /\ b = LinesLeft'
  BY <1>1
<1>6. PICK c \in 0 .. 2, d \in 0 .. 2 : c = StageLeft /\ d = StageLeft'
  BY <1>2
<1>7. 3 * b + d \in 0 .. (3 * a + c) - 1
  BY <1>4, <1>5, <1>6
<1> QED
  BY <1>3, <1>5, <1>6, <1>7

LEMMA ExecuteShrinks ==
  ASSUME TypeOK, ExecuteLine
  PROVE  StepsLeft' \in 0 .. StepsLeft - 1
<1>1. /\ run # None /\ run.at = "execute" /\ run \in RunRecord
      /\ run' = [run EXCEPT !.at = "advance"] /\ UNCHANGED <<loaded, currentLine>>
  BY DEF ExecuteLine, LineDone, WordsDone, TypeOK
<1>2. run'.at = "advance" /\ run'.reverse = run.reverse
  BY <1>1 DEF RunRecord
<1>3. LinesLeft' = LinesLeft /\ LinesLeft \in Nat
  BY <1>1, <1>2, LinesLeftType DEF LinesLeft, TypeOK
<1>4. StageLeft' < StageLeft
  BY <1>1, <1>2 DEF StageLeft
<1> QED
  BY <1>1, <1>2, <1>3, <1>4, LessLeft

LEMMA AdvanceShrinks ==
  ASSUME TypeOK, UpdateCurrentLine
  PROVE  StepsLeft' \in 0 .. StepsLeft - 1
<1>1. /\ run # None /\ run.at = "advance" /\ run \in RunRecord
      /\ run' = [run EXCEPT !.at = "find"] /\ UNCHANGED loaded
      /\ currentLine' = NextLine /\ NextLine \in Lines(loaded)
  BY DEF UpdateCurrentLine, SetCurrentLine, TypeOK
<1>2. run'.at = "find" /\ run'.reverse = run.reverse
  BY <1>1 DEF RunRecord
<1>3. /\ currentLine \in Nat /\ LinesLeft \in Nat
      /\ NumLines(loaded) \in Nat /\ Lines(loaded) = 0 .. NumLines(loaded) - 1
  BY LinesLeftType DEF TypeOK
<1>4. LinesLeft' < LinesLeft /\ LinesLeft' \in Nat
  BY <1>1, <1>2, <1>3 DEF LinesLeft, NextLine
<1> QED
  BY <1>1, <1>2, <1>4, LessLeft

\* The search for a statement goes on from a line in front, or finds none.
LEMMA SearchShrinks ==
  ASSUME TypeOK, Finding, run' = [run EXCEPT !.at = "execute"], UNCHANGED loaded,
         currentLine' \in Ahead \cup {currentLine}
  PROVE  StepsLeft' \in 0 .. StepsLeft - 1
<1>1. run # None /\ run.at = "find" /\ run \in RunRecord
  BY DEF Finding, TypeOK
<1>2. run'.at = "execute" /\ run'.reverse = run.reverse
  BY <1>1 DEF RunRecord
<1>3. /\ currentLine \in Nat /\ LinesLeft \in Nat
      /\ NumLines(loaded) \in Nat /\ Lines(loaded) = 0 .. NumLines(loaded) - 1
  BY LinesLeftType DEF TypeOK
<1>4. LinesLeft' <= LinesLeft /\ LinesLeft' \in Nat
  BY <1>2, <1>3 DEF LinesLeft, Ahead
<1>5. StageLeft' < StageLeft
  BY <1>1, <1>2 DEF StageLeft
<1> QED
  BY <1>1, <1>2, <1>4, <1>5, LessLeft

LEMMA RunStepShrinks ==
  ASSUME TypeOK, RunStep, run' # None
  PROVE  StepsLeft' \in 0 .. StepsLeft - 1
<1>1. CASE FindStatement
  <2>1. Finding /\ UNCHANGED loaded
    BY <1>1 DEF FindStatement
  <2>2. PICK l \in Ahead \cup {currentLine} : currentLine' = l /\ Arrived(l)
    BY <1>1 DEF FindStatement, FirstOf, Landings, SetCurrentLine
  <2>3. run' = [run EXCEPT !.at = "execute"]
    BY <2>2 DEF Arrived, StopWith
  <2> QED
    BY <2>1, <2>2, <2>3, SearchShrinks
<1>2. CASE ~(ExecuteLine \/ UpdateCurrentLine \/ FindStatement)
  BY <1>2 DEF RunStep, HitInstruction, HitData, HitException, RunOff, FindBreakpoint,
     FindInstruction, StopWith
<1> QED
  BY <1>1, <1>2, ExecuteShrinks, AdvanceShrinks

\* While a run is on the stack nothing else moves.
LEMMA NothingElse ==
  ASSUME Inv, Next, run # None
  PROVE  RunStep
<1>1. ~MayCall /\ ~Idle /\ verifying = None
  BY DEF Idle, MayCall, Inv, OneAtATime
<1>2. ~Command
  BY <1>1 DEF Command, Start, SetBreakPoint, Continue, Step, Call, Pause, StepIn, StepOut,
     StepInTarget, ClearBreakpoints, ClearBreakPoint, SetVariable, SetDataBreakpoint,
     ClearAllDataBreakpoints, SetExceptionsFilters, SetInstructionBreakpoint,
     ClearInstructionBreakpoints, ChangeInstructionBreakpoints
<1> QED
  BY <1>1, <1>2 DEF Next, VerifyOne, Verified, TaskStep, ReadDone, ReadFail, AfterLoad, Verify,
     FinishStart, Deliver

\* Every step of a run brings it nearer to its end (runtime.ts: executeLine,
\* updateCurrentLine, findNextStatement): no text, breakpoint or filter makes it go round.
THEOREM RunsComeNearer == Spec => RunsShrink
<1>1. Inv /\ [Next]_vars
        => [run # None /\ run' # None => StepsLeft' \in 0 .. StepsLeft - 1]_vars
  BY NothingElse, RunStepShrinks DEF Inv
<1> QED
  BY <1>1, Invariant, PTL DEF Spec, RunsShrink

-----------------------------------------------------------------------------
(* The engine as RunControl sees it.                                        *)

\* The launches in progress, and the messages that wait.
Launches == {t \in Tasks : tasks[t].call = "start"}
Queue    == [i \in 1 .. Len(events) |-> MessageOf(events[i])]

LEMMA StartingCount == IsFiniteSet(Launches) /\ Cardinality(Launches) \in Nat
<1>1. IsFiniteSet(Tasks) /\ Launches \subseteq Tasks
  BY ConstantsAssumption DEF ConstantsAssumption, Launches
<1>2. IsFiniteSet(Launches)
  BY <1>1, FS_Subset
<1> QED
  BY <1>2, FS_CardinalityType

LEMMA LaunchEnds ==
  ASSUME NEW t \in Launches, Launches' = Launches \ {t}
  PROVE  Control!LaunchTaken
<1>1. Cardinality(Launches \ {t}) = Cardinality(Launches) - 1
  BY StartingCount, FS_RemoveElement
<1>2. Cardinality(Launches \ {t}) \in Nat
  BY StartingCount, FS_RemoveElement, FS_CardinalityType
<1>3. Cardinality(Launches) > 0 /\ Cardinality(Launches') = Cardinality(Launches) - 1
  BY <1>1, <1>2, StartingCount
<1> QED
  BY <1>3 DEF Launches, Control!LaunchTaken

LEMMA LaunchBegins ==
  ASSUME NEW t \in Tasks, t \notin Launches, Launches' = Launches \cup {t},
         UNCHANGED <<run, events>>
  PROVE  Control!Launch
<1>1. Cardinality(Launches') = Cardinality(Launches) + 1
  BY StartingCount, FS_AddElement
<1> QED
  BY <1>1 DEF Launches, Control!Launch

LEMMA SameLaunches ==
  ASSUME Launches' = Launches
  PROVE  UNCHANGED Cardinality({t \in Tasks : tasks[t].call = "start"})
BY DEF Launches

LEMMA QueueType ==
  ASSUME events \in Seq(Event)
  PROVE  Queue \in Seq(Control!Messages) /\ Len(Queue) = Len(events)
<1>1. Len(events) \in Nat /\ Queue \in [1 .. Len(events) -> Control!Messages]
  BY DEF Queue, MessageOf, Control!Messages, Control!Notices
<1> QED
  BY <1>1

LEMMA QueueGrows ==
  ASSUME events \in Seq(Event), NEW es \in Seq(Event), Emit(es)
  PROVE  /\ Control!Grew
         /\ Control!Added = Len(events) + 1 .. Len(events) + Len(es)
         /\ \A i \in 1 .. Len(es) : Queue'[Len(events) + i] = MessageOf(es[i])
<1>1. /\ events' \in Seq(Event) /\ Len(events') = Len(events) + Len(es)
      /\ \A i \in 1 .. Len(events) : events'[i] = events[i]
      /\ \A i \in 1 .. Len(es) : events'[Len(events) + i] = es[i]
      /\ Len(events) \in Nat /\ Len(es) \in Nat
  BY ConcatProperties DEF Emit
<1>2. Len(Queue) = Len(events) /\ Len(Queue') = Len(events')
  <2>1. Len(Queue) = Len(events)
    BY QueueType
  <2>2. events' \in Seq(Event) => Len(Queue') = Len(events')
    <3>1. events' \in Seq(Event) =>
            Len(events') \in Nat /\ Queue' \in [1 .. Len(events') -> Control!Messages]
      BY DEF Queue, MessageOf, Control!Messages, Control!Notices
    <3> QED
      BY <3>1
  <2> QED
    BY <1>1, <2>1, <2>2
<1>3. /\ \A i \in 1 .. Len(events) : Queue'[i] = Queue[i]
      /\ \A i \in 1 .. Len(es) : Queue'[Len(events) + i] = MessageOf(es[i])
  BY <1>1 DEF Queue, MessageOf
<1> QED
  BY <1>1, <1>2, <1>3 DEF Queue, Control!Grew, Control!Added

LEMMA OnlyInformation ==
  ASSUME events \in Seq(Event), NEW es \in Seq(Event), Emit(es),
         \A i \in 1 .. Len(es) : MessageOf(es[i]) = "info"
  PROVE  Control!OnlyInfo
<1>1. /\ Control!Grew /\ Len(events) \in Nat /\ Len(es) \in Nat
      /\ Control!Added = Len(events) + 1 .. Len(events) + Len(es)
      /\ \A i \in 1 .. Len(es) : Queue'[Len(events) + i] = MessageOf(es[i])
  BY QueueGrows
<1>2. ASSUME NEW i \in Control!Added PROVE Queue'[i] = "info"
  <2>1. i - Len(events) \in 1 .. Len(es) /\ Len(events) + (i - Len(events)) = i
    BY <1>1
  <2> QED
    BY <1>1, <2>1
<1> QED
  BY <1>1, <1>2 DEF Queue, Control!OnlyInfo

LEMMA OneNoticeAmong ==
  ASSUME events \in Seq(Event), NEW es \in Seq(Event), Emit(es),
         NEW k \in 1 .. Len(es), MessageOf(es[k]) # "info",
         \A i \in 1 .. Len(es) : i # k => MessageOf(es[i]) = "info"
  PROVE  Control!OneNotice
<1>1. /\ Control!Grew /\ Len(events) \in Nat /\ Len(es) \in Nat
      /\ Control!Added = Len(events) + 1 .. Len(events) + Len(es)
      /\ \A i \in 1 .. Len(es) : Queue'[Len(events) + i] = MessageOf(es[i])
  BY QueueGrows
<1>2. Len(events) + k \in Control!Added /\ Queue'[Len(events) + k] \in Control!Notices
  BY <1>1 DEF MessageOf, Control!Notices
<1>3. ASSUME NEW j \in Control!Added \ {Len(events) + k} PROVE Queue'[j] = "info"
  <2>1. j - Len(events) \in 1 .. Len(es) /\ Len(events) + (j - Len(events)) = j
        /\ j - Len(events) # k
    BY <1>1
  <2> QED
    BY <1>1, <2>1
<1> QED
  BY <1>1, <1>2, <1>3 DEF Queue, Control!OneNotice

\* The messages of a tuple of one or two events.
LEMMA ShortTuples ==
  /\ \A a \in Event : <<a>> \in Seq(Event) /\ Len(<<a>>) = 1 /\ <<a>>[1] = a
  /\ \A a, b \in Event : /\ <<a, b>> \in Seq(Event) /\ Len(<<a, b>>) = 2
                         /\ <<a, b>>[1] = a /\ <<a, b>>[2] = b
OBVIOUS

LEMMA JoinedTuples ==
  /\ \A a \in Event : <<>> \o <<a>> = <<a>> /\ <<a>> \o <<>> = <<a>>
  /\ \A a, b \in Event : <<a>> \o <<b>> = <<a, b>>
<1>1. \A a \in Event : <<>> \o <<a>> = <<a>> /\ <<a>> \o <<>> = <<a>>
  BY ShortTuples, ConcatEmptySeq
<1>2. ASSUME NEW a \in Event, NEW b \in Event PROVE <<a>> \o <<b>> = <<a, b>>
  <2> DEFINE s == <<a>>
             t == <<b>>
             u == <<a, b>>
  <2>1. /\ s \in Seq(Event) /\ Len(s) = 1 /\ s[1] = a
        /\ t \in Seq(Event) /\ Len(t) = 1 /\ t[1] = b
        /\ u \in Seq(Event) /\ Len(u) = 2 /\ u[1] = a /\ u[2] = b
    BY ShortTuples
  <2> HIDE DEF s, t, u
  <2>2. s \o t \in Seq(Event) /\ Len(s \o t) = 2 /\ (s \o t)[1] = a /\ (s \o t)[2] = b
    <3>1. /\ s \o t \in Seq(Event) /\ Len(s \o t) = 1 + 1
          /\ \A i \in 1 .. 1 + 1 : (s \o t)[i] = IF i <= 1 THEN s[i] ELSE t[i - 1]
      BY <2>1, ConcatProperties
    <3>2. 1 \in 1 .. 1 + 1 /\ 2 \in 1 .. 1 + 1 /\ 2 - 1 = 1
      OBVIOUS
    <3> QED
      BY <2>1, <3>1, <3>2
  <2>3. \A i \in 1 .. Len(u) : (s \o t)[i] = u[i]
    BY <2>1, <2>2
  <2>4. s \o t = u
    BY <2>1, <2>2, <2>3, SeqEqual
  <2> QED
    BY <2>4 DEF s, t, u
<1> QED
  BY <1>1, <1>2

LEMMA JustOneNotice ==
  ASSUME events \in Seq(Event), NEW e \in Stopped \cup {"end"}, NEW l \in Int \cup {None},
         Emit(<<At(e, l)>>)
  PROVE  Control!OneNotice
<1>1. At(e, l) \in Event /\ MessageOf(At(e, l)) # "info"
  BY EventTypes DEF At, MessageOf, EventNames
<1> DEFINE es == <<At(e, l)>>
<1>2. es \in Seq(Event) /\ Len(es) = 1 /\ es[1] = At(e, l) /\ Emit(es)
  BY <1>1, ShortTuples
<1> HIDE DEF es
<1>3. 1 \in 1 .. Len(es) /\ \A i \in 1 .. Len(es) : i = 1
  BY <1>2
<1> QED
  BY <1>1, <1>2, <1>3, OneNoticeAmong

LEMMA SeenNothing ==
  ASSUME Launches' = Launches, events' = events, run' = None <=> run = None
  PROVE  UNCHANGED Control!vars
<1>1. Queue' = Queue
  BY DEF Queue, MessageOf
<1> QED
  BY <1>1 DEF Queue, Launches, Control!vars

LEMMA SeenInform ==
  ASSUME Control!OnlyInfo, Launches' = Launches, run' = None <=> run = None
  PROVE  Control!Next
BY SameLaunches DEF Control!Next, Control!Inform

LEMMA SeenReport ==
  ASSUME run # None, run' = None, Launches' = Launches, Control!OneNotice
  PROVE  Control!Next
BY SameLaunches DEF Control!Next, Control!Report

LEMMA SeenAtOnce ==
  ASSUME run = None, run' = None, Control!OneNotice,
         Launches' = Launches \/ \E t \in Launches : Launches' = Launches \ {t}
  PROVE  Control!Next
BY SameLaunches, LaunchEnds DEF Control!Next, Control!StopAtOnce

LEMMA SeenBegin ==
  ASSUME run = None, run' # None, events' = events,
         Launches' = Launches \/ \E t \in Launches : Launches' = Launches \ {t}
  PROVE  Control!Next
<1>1. Queue' = Queue
  BY DEF Queue, MessageOf
<1> QED
  BY <1>1, SameLaunches, LaunchEnds DEF Queue, Control!Next, Control!Begin

LEMMA LaunchOverSeen ==
  ASSUME Launches' = Launches \/ \E t \in Launches : Launches' = Launches \ {t},
         UNCHANGED <<run, events>>
  PROVE  Control!Next \/ UNCHANGED Control!vars
<1>1. CASE Launches' = Launches
  BY <1>1, SeenNothing
<1>2. CASE \E t \in Launches : Launches' = Launches \ {t}
  <2>1. Control!LaunchTaken /\ Queue' = Queue
    BY <1>2, LaunchEnds DEF Queue, MessageOf
  <2> QED
    BY <2>1 DEF Queue, Control!Next, Control!LaunchFail
<1> QED
  BY <1>1, <1>2

\* Steps of tasks.
LEMMA TaskEnds ==
  ASSUME NEW t \in Tasks, tasks \in [Tasks -> TaskRecord],
         tasks' = [tasks EXCEPT ![t] = NoTask]
  PROVE  Launches' = Launches \/ \E u \in Launches : Launches' = Launches \ {u}
<1>1. Launches' = Launches \ {t}
  BY DEF Launches, NoTask
<1> QED
  BY <1>1

LEMMA TaskGoesOn ==
  ASSUME NEW t \in Tasks, NEW task, tasks \in [Tasks -> TaskRecord],
         tasks' = [tasks EXCEPT ![t] = task], task.call = "start" <=> tasks[t].call = "start"
  PROVE  Launches' = Launches
BY DEF Launches

\* Calls, whoever makes them.
LEMMA LaunchSeen ==
  ASSUME TypeOK, NEW t \in Tasks, NEW f, NEW entry, Start(t, f, entry)
  PROVE  Control!Next
<1>1. t \notin Launches /\ Launches' = Launches \cup {t}
  BY DEF Start, LoadSource, Launches, StartOf, NoTask, TypeOK
<1> QED
  BY <1>1, LaunchBegins DEF Start, Control!Next

LEMMA SetSeen ==
  ASSUME TypeOK, NEW t \in Tasks, NEW f, NEW l, SetBreakPoint(t, f, l)
  PROVE  UNCHANGED Control!vars
<1>1. Launches' = Launches
  BY DEF SetBreakPoint, LoadSource, Launches, BreakpointTask, NoTask, TypeOK
<1> QED
  BY <1>1, SeenNothing DEF SetBreakPoint

LEMMA CallSeen ==
  ASSUME TypeOK, NEW reverse \in Directions, Continue(reverse) \/ Step(reverse)
  PROVE  Control!Next
<1>1. reverse \in BOOLEAN /\ None \notin RunRecord
  BY ConstantsAssumption DEF ConstantsAssumption
<1>2. run = None /\ run' # None /\ UNCHANGED <<tasks, events>>
  BY <1>1, RunningType DEF Continue, Step, Call, MayCall, Idle
<1>3. Launches' = Launches
  BY <1>2 DEF Launches
<1> QED
  BY <1>2, <1>3, SeenBegin

LEMMA AtOnceSeen ==
  ASSUME TypeOK, Pause \/ StepIn \/ StepOut \/ \E c \in Targets : StepInTarget(c)
  PROVE  Control!Next
<1>1. run = None /\ run' = None /\ tasks' = tasks
      /\ \E e \in Stopped : Emit(<<At(e, currentLine)>>)
  BY DEF Pause, StepIn, StepOut, StepInTarget, SetColumn, MayCall, Idle, Stopped
<1>2. Launches' = Launches
  BY <1>1 DEF Launches
<1> QED
  BY <1>1, <1>2, JustOneNotice, SeenAtOnce DEF TypeOK

LEMMA ClearSeen ==
  ASSUME TypeOK, NEW f, ClearBreakpoints(f)
  PROVE  UNCHANGED Control!vars
<1>1. Launches' = Launches
  BY DEF ClearBreakpoints, Detached, Launches, TaskRecord, TypeOK
<1> QED
  BY <1>1, SeenNothing DEF ClearBreakpoints

LEMMA SettingSeen ==
  ASSUME UNCHANGED <<run, tasks, events>>
  PROVE  UNCHANGED Control!vars
<1>1. Launches' = Launches
  BY DEF Launches
<1> QED
  BY <1>1, SeenNothing

LEMMA CommandSeen ==
  ASSUME Inv, Command
  PROVE  Control!Next \/ UNCHANGED Control!vars
<1>1. TypeOK
  BY DEF Inv
<1>2. CASE \/ \E f \in BpFiles, l \in BpLines : ClearBreakPoint(f, l)
           \/ \E n \in Edits : \/ SetVariable(n)
                               \/ \E kinds \in SUBSET {"read", "write"} \ {{}} :
                                    SetDataBreakpoint(n, kinds)
           \/ ClearAllDataBreakpoints
           \/ \E x \in Filters : SetExceptionsFilters(x)
           \/ \E a \in Addresses : SetInstructionBreakpoint(a)
           \/ ClearInstructionBreakpoints
  <2>1. UNCHANGED <<run, tasks, events>>
    BY <1>2 DEF ClearBreakPoint, SetVariable, SetDataBreakpoint, ClearAllDataBreakpoints,
        SetExceptionsFilters, SetInstructionBreakpoint, ClearInstructionBreakpoints,
        ChangeInstructionBreakpoints
  <2> QED
    BY <2>1, SettingSeen
<1> QED
  BY <1>1, <1>2, LaunchSeen, SetSeen, CallSeen, AtOnceSeen, ClearSeen DEF Command

\* A run ends with one event, or with a stop and a piece of information.
LEMMA StopSeen ==
  ASSUME events \in Seq(Event), run # None, Launches' = Launches,
         NEW e \in Stopped \cup {"end"}, NEW l \in Int \cup {None}, StopWith(<<At(e, l)>>)
  PROVE  Control!Next
BY JustOneNotice, SeenReport DEF StopWith

LEMMA StopAndInformation ==
  ASSUME events \in Seq(Event), run # None, Launches' = Launches,
         NEW stop \in Event, NEW note \in Event,
         MessageOf(stop) # "info", MessageOf(note) = "info",
         StopWith(<<note, stop>>) \/ StopWith(<<stop, note>>)
  PROVE  Control!Next
<1>1. ASSUME NEW es \in Seq(Event), NEW k \in 1 .. 2, Len(es) = 2, StopWith(es),
             MessageOf(es[k]) # "info", \A i \in 1 .. 2 : i # k => MessageOf(es[i]) = "info"
      PROVE  Control!Next
  <2>1. Control!OneNotice
    BY <1>1, OneNoticeAmong DEF StopWith
  <2> QED
    BY <1>1, <2>1, SeenReport DEF StopWith
<1>2. ASSUME NEW a \in Event, NEW b \in Event, StopWith(<<a, b>>),
             \/ MessageOf(a) # "info" /\ MessageOf(b) = "info"
             \/ MessageOf(a) = "info" /\ MessageOf(b) # "info"
      PROVE  Control!Next
  <2> DEFINE es == <<a, b>>
  <2>1. /\ es \in Seq(Event) /\ Len(es) = 2 /\ es[1] = a /\ es[2] = b /\ StopWith(es)
    BY <1>2, ShortTuples
  <2> HIDE DEF es
  <2>2. PICK k \in 1 .. 2 :
          /\ MessageOf(es[k]) # "info"
          /\ \A i \in 1 .. 2 : i # k => MessageOf(es[i]) = "info"
    <3>1. 1 \in 1 .. 2 /\ 2 \in 1 .. 2 /\ \A i \in 1 .. 2 : i = 1 \/ i = 2
      OBVIOUS
    <3> QED
      BY <1>2, <2>1, <3>1
  <2> QED
    BY <1>1, <2>1, <2>2
<1> QED
  BY <1>2

LEMMA ExecutionSeen ==
  ASSUME TypeOK,
         \/ HitInstruction \/ HitData \/ HitException \/ ExecuteLine
         \/ UpdateCurrentLine \/ RunOff
  PROVE  Control!Next \/ UNCHANGED Control!vars
<1>0. /\ events \in Seq(Event) /\ currentLine \in Int
      /\ run \in RunRecord \cup {None} /\ None \notin RunRecord
  BY ConstantsAssumption DEF TypeOK, ConstantsAssumption
<1>1. run # None /\ tasks' = tasks
  BY <1>0 DEF HitInstruction, HitData, HitException, ExecuteLine, LineDone, WordsDone,
      UpdateCurrentLine, RunOff
<1>2. Launches' = Launches /\ run # None
  BY <1>1 DEF Launches
<1>3. ASSUME NEW at \in {"execute", "advance", "find"}, run' = [run EXCEPT !.at = at]
      PROVE  run' # None
  BY <1>0, <1>1, <1>3 DEF RunRecord
<1>4. CASE HitInstruction \/ HitData
  BY <1>0, <1>2, <1>4, StopSeen DEF HitInstruction, HitData, Stopped
<1>5. CASE HitException
  <2> DEFINE es == OutputsHere \o <<At("stopOnException", currentLine)>>
  <2>1. OutputsHere \in Seq(Event) /\ \A i \in 1 .. Len(OutputsHere) : OutputsHere[i].event = "output"
    <3>1. OutputsHere \in Seq(Event)
      BY AccessesType     <3>2. \A i \in DOMAIN OutputsHere : OutputsHere[i].event = "output"
      BY DEF OutputsHere, At
    <3> QED
      BY <3>1, <3>2
  <2>2. At("stopOnException", currentLine) \in Event
    BY <1>0, EventTypes DEF EventNames, Stopped
  <2>3. /\ es \in Seq(Event) /\ Len(es) = Len(OutputsHere) + 1
        /\ es[Len(OutputsHere) + 1] = At("stopOnException", currentLine)
        /\ \A i \in 1 .. Len(OutputsHere) : es[i] = OutputsHere[i]
        /\ Len(OutputsHere) \in Nat
    BY <2>1, <2>2, ConcatProperties
  <2>4. run' = None /\ Emit(es)
    BY <1>5 DEF HitException, StopWith
  <2>5. MessageOf(es[Len(OutputsHere) + 1]) # "info"
        /\ \A i \in 1 .. Len(OutputsHere) : MessageOf(es[i]) = "info"
    BY <2>1, <2>3 DEF MessageOf, At, Stopped
  <2> DEFINE k == Len(OutputsHere) + 1
  <2> HIDE DEF es
  <2>6. /\ k \in 1 .. Len(es) /\ MessageOf(es[k]) # "info"
        /\ \A i \in 1 .. Len(es) : i # k => MessageOf(es[i]) = "info"
    BY <2>3, <2>5
  <2> HIDE DEF k
  <2>7. Control!OneNotice
    BY <1>0, <2>3, <2>4, <2>6, OneNoticeAmong
  <2> QED
    BY <1>1, <1>2, <2>4, <2>7, SeenReport
<1>6. CASE ExecuteLine
  <2>1. OutputsHere \in Seq(Event) /\ \A i \in 1 .. Len(OutputsHere) : OutputsHere[i].event = "output"
    <3>1. OutputsHere \in Seq(Event)
      BY AccessesType     <3>2. \A i \in DOMAIN OutputsHere : OutputsHere[i].event = "output"
      BY DEF OutputsHere, At
    <3> QED
      BY <3>1, <3>2
  <2>2. \A i \in 1 .. Len(OutputsHere) : MessageOf(OutputsHere[i]) = "info"
    BY <2>1 DEF MessageOf, Stopped
  <2>3. Emit(OutputsHere) /\ run' # None
    BY <1>3, <1>6 DEF ExecuteLine
  <2>4. Control!OnlyInfo
    BY <1>0, <2>1, <2>2, <2>3, OnlyInformation
  <2> QED
    BY <1>1, <1>2, <2>3, <2>4, SeenInform
<1>7. CASE UpdateCurrentLine
  BY <1>1, <1>2, <1>3, <1>7, SeenNothing DEF UpdateCurrentLine
<1>8. CASE RunOff
  BY <1>0, <1>2, <1>8, StopSeen DEF RunOff, Stopped
<1> QED
  BY <1>4, <1>5, <1>6, <1>7, <1>8

LEMMA RunSeen ==
  ASSUME Inv, RunStep
  PROVE  Control!Next \/ UNCHANGED Control!vars
<1>0. /\ events \in Seq(Event) /\ currentLine \in Int
      /\ run \in RunRecord \cup {None} /\ None \notin RunRecord
  BY ConstantsAssumption DEF Inv, TypeOK, ConstantsAssumption
<1>1. run # None /\ tasks' = tasks
  BY DEF RunStep, HitInstruction, HitData, HitException, ExecuteLine, LineDone, WordsDone,
      UpdateCurrentLine, RunOff, Finding, FindBreakpoint, FindInstruction, FindStatement
<1>2. Launches' = Launches /\ run # None
  BY <1>1 DEF Launches
<1>3. ASSUME NEW at \in {"execute", "advance", "find"}, run' = [run EXCEPT !.at = at]
      PROVE  run' # None
  BY <1>0, <1>1, <1>3 DEF RunRecord
<1>4. CASE FindBreakpoint
  <2>1. PICK l \in FirstOf(Landings) : \E i \in BreakpointsOn(l) :
               /\ breakpoint' = [breakpoint EXCEPT ![BreakpointsOf(sourceFile)[i]].verified = TRUE]
               /\ StopWith((IF breakpoint[BreakpointsOf(sourceFile)[i]].verified THEN <<>>
                            ELSE <<Validated(BreakpointsOf(sourceFile)[i])>>)
                           \o <<At("stopOnBreakpoint", l)>>)
    BY <1>4 DEF FindBreakpoint
  <2>2. PICK i \in BreakpointsOn(l) :
               StopWith((IF breakpoint[BreakpointsOf(sourceFile)[i]].verified THEN <<>>
                         ELSE <<Validated(BreakpointsOf(sourceFile)[i])>>)
                        \o <<At("stopOnBreakpoint", l)>>)
    BY <2>1
  <2>3. l \in Int /\ BreakpointsOf(sourceFile)[i] \in Nat
    <3>1. loaded # None /\ Landings \subseteq Lines(loaded)
      BY <1>4, LandingOnLine DEF FindBreakpoint
    <3>2. l \in Int
      BY <2>1, <3>1, OnLine DEF FirstOf, Inv
    <3>3. i \in DOMAIN BreakpointsOf(sourceFile) /\ sourceFile \in Files \cup {None}
      BY <2>2 DEF BreakpointsOn, Inv, TypeOK
    <3>4. BreakpointsOf(sourceFile)[i] \in Ids
      BY <3>3, ElementOfSeq DEF BreakpointsOf, Inv, TypeOK
    <3> QED
      BY <3>2, <3>4 DEF Ids
  <2> DEFINE stop == At("stopOnBreakpoint", l)
             note == Validated(BreakpointsOf(sourceFile)[i])
  <2>4. stop \in Event /\ note \in Event /\ MessageOf(stop) # "info" /\ MessageOf(note) = "info"
    BY <2>3, EventTypes DEF EventNames, Stopped, MessageOf, At, Validated
  <2>5. StopWith(<<stop>>) \/ StopWith(<<note, stop>>)
    <3>1. <<>> \o <<stop>> = <<stop>> /\ <<note>> \o <<stop>> = <<note, stop>>
      BY <2>4, JoinedTuples
    <3>2. CASE breakpoint[BreakpointsOf(sourceFile)[i]].verified
      BY <2>2, <3>1, <3>2
    <3>3. CASE ~breakpoint[BreakpointsOf(sourceFile)[i]].verified
      BY <2>2, <3>1, <3>3
    <3> QED
      BY <3>2, <3>3
  <2>6. CASE StopWith(<<stop>>)
    BY <1>0, <1>2, <2>3, <2>6, StopSeen DEF Stopped
  <2>7. CASE StopWith(<<note, stop>>)
    BY <1>0, <1>2, <2>4, <2>7, StopAndInformation
  <2> QED
    BY <2>5, <2>6, <2>7
<1>5. CASE FindInstruction
  <2>1. PICK l \in FirstOf(Landings) : StopWith(<<At("stopOnInstructionBreakpoint", l)>>)
    BY <1>5 DEF FindInstruction
  <2>2. l \in Int
    BY <1>5, <2>1, LandingOnLine, OnLine DEF FindInstruction, FirstOf, Inv
  <2> QED
    BY <1>0, <1>2, <2>1, <2>2, StopSeen DEF Stopped
<1>6. CASE FindStatement
  <2>1. PICK l \in Int : Arrived(l)
    BY <1>0, <1>6, LandingOnLine, OnLine DEF FindStatement, FirstOf, Inv
  <2> QED
    BY <1>0, <1>1, <1>2, <1>3, <2>1, SeenNothing, StopSeen DEF Arrived, Stopped
<1> QED
  BY <1>4, <1>5, <1>6, ExecutionSeen DEF RunStep, Inv

LEMMA TaskSeen ==
  ASSUME TypeOK, NEW t \in Tasks, TaskStep(t)
  PROVE  Control!Next \/ UNCHANGED Control!vars
<1>0. /\ tasks \in [Tasks -> TaskRecord] /\ events \in Seq(Event) /\ currentLine \in Int
  BY DEF TypeOK
<1>1. CASE ReadDone(t)
  <2>1. Launches' = Launches
    BY <1>0, <1>1 DEF ReadDone, Launches, TaskRecord
  <2> QED
    BY <1>1, <2>1, SeenNothing DEF ReadDone, stops
<1>2. CASE ReadFail(t)
  BY <1>0, <1>2, TaskEnds, LaunchOverSeen DEF ReadFail
<1>3. CASE AfterLoad(t)
  <2>1. Launches' = Launches
    BY <1>0, <1>3 DEF AfterLoad, Launches, TaskRecord
  <2> QED
    BY <1>3, <2>1, SeenNothing DEF AfterLoad
<1>4. CASE Verify(t)
  <2>1. Launches' = Launches
    BY <1>4 DEF Verify, Launches
  <2> QED
    BY <1>4, <2>1, SeenNothing DEF Verify
<1>5. CASE FinishStart(t)
  <2>1. Launches' = Launches \/ \E u \in Launches : Launches' = Launches \ {u}
    BY <1>0, <1>5, TaskEnds DEF FinishStart
  <2>2. CASE tasks[t].entry
    <3>1. Emit(<<At("stopOnEntry", currentLine)>>) /\ run = None /\ run' = None
      BY <1>5, <2>2 DEF FinishStart, Idle
    <3>2. Control!OneNotice
      BY <1>0, <3>1, JustOneNotice DEF Stopped
    <3> QED
      BY <2>1, <3>1, <3>2, SeenAtOnce
  <2>3. CASE ~tasks[t].entry
    <3>1. run = None /\ run' = Running("continue", FALSE) /\ events' = events
      BY <1>5, <2>3 DEF FinishStart, Idle
    <3>2. run' # None
      BY <3>1, RunningType, ConstantsAssumption DEF ConstantsAssumption
    <3> QED
      BY <2>1, <3>1, <3>2, SeenBegin
  <2> QED
    BY <2>2, <2>3
<1> QED
  BY <1>1, <1>2, <1>3, <1>4, <1>5 DEF TaskStep

LEMMA VisitSeen ==
  ASSUME TypeOK, VerifyOne \/ Verified
  PROVE  Control!Next \/ UNCHANGED Control!vars
<1>0. tasks \in [Tasks -> TaskRecord] /\ events \in Seq(Event)
  BY DEF TypeOK
<1>1. CASE VerifyOne
  <2>1. Launches' = Launches /\ run' = run
    BY <1>1 DEF VerifyOne, Launches
  <2>2. Head(verifying.todo) \in Nat
    BY <1>1, HeadTailProperties DEF VerifyOne, TypeOK, Ids
  <2>3. CASE events' = events
    BY <2>1, <2>3, SeenNothing
  <2>4. CASE Emit(<<Validated(Head(verifying.todo))>>)
    <3> DEFINE es == <<Validated(Head(verifying.todo))>>
    <3>1. /\ Validated(Head(verifying.todo)) \in Event
          /\ MessageOf(Validated(Head(verifying.todo))) = "info"
      BY <2>2, EventTypes DEF Validated, MessageOf, Stopped
    <3>2. /\ es \in Seq(Event) /\ Emit(es)
          /\ Len(es) = 1 /\ es[1] = Validated(Head(verifying.todo))
      BY <2>4, <3>1, ShortTuples
    <3> HIDE DEF es
    <3>3. \A i \in 1 .. Len(es) : MessageOf(es[i]) = "info"
      BY <3>1, <3>2
    <3>4. Control!OnlyInfo
      BY <1>0, <3>2, <3>3, OnlyInformation
    <3> QED
      BY <2>1, <3>4, SeenInform
  <2> QED
    BY <1>1, <2>3, <2>4 DEF VerifyOne
<1>2. CASE Verified
  <2>1. Launches' = Launches
    BY <1>0, <1>2 DEF Verified, Launches, NoTask, TaskRecord
  <2> QED
    BY <1>2, <2>1, SeenNothing DEF Verified
<1> QED
  BY <1>1, <1>2

LEMMA DeliverSeen ==
  ASSUME TypeOK, Deliver
  PROVE  Control!Next
<1>1. events \in Seq(Event) /\ events # <<>> /\ events' = Tail(events)
  BY DEF Deliver, TypeOK
<1>2. Launches' = Launches /\ run' = run
  BY DEF Deliver, Launches
<1>3. /\ Len(events) \in Nat /\ Len(events) # 0 /\ Len(events') = Len(events) - 1
      /\ \A i \in 1 .. Len(events') : events'[i] = events[i + 1]
  BY <1>1, HeadTailProperties
<1>4. Queue \in Seq(Control!Messages) /\ Len(Queue) = Len(events)
  BY <1>1, QueueType
<1>5. Queue # <<>> /\ Queue' = Tail(Queue)
  <2>1. Len(Queue) # 0 /\ Queue # <<>>
    <3>1. Len(Queue) # 0
      BY <1>3, <1>4
    <3> QED
      BY <3>1
  <2>2. /\ Tail(Queue) \in Seq(Control!Messages) /\ Len(Tail(Queue)) = Len(events) - 1
        /\ \A i \in 1 .. Len(events) - 1 : Tail(Queue)[i] = Queue[i + 1]
    BY <1>3, <1>4, <2>1, HeadTailProperties
  <2>3. \A i \in 1 .. Len(events) - 1 : Queue[i + 1] = MessageOf(events[i + 1])
    BY <1>3 DEF Queue
  <2>4. Queue' = [i \in 1 .. Len(events) - 1 |-> MessageOf(events[i + 1])]
    BY <1>3 DEF Queue, MessageOf
  <2>5. Queue' \in Seq(Control!Messages) /\ Len(Queue') = Len(events) - 1
    <3>1. /\ Len(events) - 1 \in Nat
          /\ Queue' \in [1 .. Len(events) - 1 -> Control!Messages]
      BY <1>3, <2>4 DEF MessageOf, Control!Messages, Control!Notices
    <3> QED
      BY <3>1
  <2>6. \A i \in 1 .. Len(Queue') : Queue'[i] = Tail(Queue)[i]
    BY <2>2, <2>3, <2>4, <2>5
  <2> QED
    BY <2>1, <2>2, <2>5, <2>6, SeqEqual
<1> QED
  BY <1>2, <1>5, SameLaunches DEF Queue, Control!Next, Control!Deliver

LEMMA InitSeen == Init => Control!Init
<1> SUFFICES ASSUME Init PROVE Control!Init
  OBVIOUS
<1>1. Launches = {} /\ Queue = <<>>
  BY DEF Init, Launches, NoTask, Queue
<1>2. Cardinality(Launches) = 0
  BY <1>1, FS_EmptySet
<1> QED
  BY <1>1, <1>2 DEF Init, Launches, Queue, Control!Init

\* Every command is followed by exactly one notice of a stop or of the end,
\* and none comes unasked: the engine implements RunControl, for every text,
\* every number of overlapping launches and everything that may stop a run
\* (runtime.ts:99-252, 355-369).
THEOREM ImplementsRunControl == Spec => OneNoticePerCommand
<1>1. Init => Control!Init
  BY InitSeen
<1>2. Inv /\ [Next]_vars => [Control!Next]_(Control!vars)
  <2> SUFFICES ASSUME Inv, [Next]_vars PROVE Control!Next \/ UNCHANGED Control!vars
    OBVIOUS
  <2>1. CASE UNCHANGED vars
    BY <2>1, SeenNothing DEF vars, Launches
  <2>2. CASE Next
    BY <2>2, CommandSeen, RunSeen, TaskSeen, VisitSeen, DeliverSeen DEF Next, Inv
  <2> QED
    BY <2>1, <2>2
<1> QED
  BY <1>1, <1>2, Invariant, PTL DEF Spec, OneNoticePerCommand, Control!Spec

-----------------------------------------------------------------------------
(* One call at a time, of files that can be read.                           *)

OneCall == (\A s, t \in Tasks : s = t) /\ Flaky = {}

\* A breakpoint of the text held that is still to be verified, and the stages of a
\* call that will verify those of its file.
Unchecked(id) == NonBlank(loaded, breakpoint[id].line) /\ ~breakpoint[id].verified
WillVisit(t) == \/ tasks[t].at = "reading" /\ tasks[t].file = loaded
                \/ tasks[t].at = "loaded" /\ sourceFile # None
                \/ tasks[t].at = "verify"

\* The text held is that of the file named unless its call is still reading it.
TextHeld ==
  /\ sourceFile # None /\ (\A t \in Tasks : tasks[t].at # "reading") => loaded = sourceFile
  /\ \A t \in Tasks : /\ tasks[t].at = "reading" => tasks[t].file = sourceFile
                      /\ tasks[t].at = "verify" => tasks[t].file = loaded

\* Breakpoints of the text held wait only for a call that will come to them, and
\* for the loop that is about to.
AllVisited ==
  (\A t \in Tasks : ~WillVisit(t)) =>
    \A i \in DOMAIN BreakpointsOf(loaded) : ~Unchecked(BreakpointsOf(loaded)[i])
VisitedSoFar ==
  verifying # None =>
    /\ tasks[verifying.task].at = "verify"
    /\ \A i \in DOMAIN BreakpointsOf(loaded) :
         Unchecked(BreakpointsOf(loaded)[i]) =>
           \E k \in DOMAIN verifying.todo : verifying.todo[k] = BreakpointsOf(loaded)[i]

\* A call holds on to an array only once its file has no other.
HeldAlone ==
  \A t \in Tasks :
    /\ tasks[t].at # "none" /\ (tasks[t].call = "start" => tasks[t].at = "verify")
    /\ ~tasks[t].live
    => tasks[t].file \in Files /\ breakPoints[tasks[t].file] = <<>>

Settled == TextHeld /\ AllVisited /\ VisitedSoFar /\ HeldAlone

LEMMA SettledAtFirst == Init => Settled
<1> SUFFICES ASSUME Init PROVE Settled
  OBVIOUS
<1>1. sourceFile = None /\ loaded = None /\ verifying = None
      /\ \A t \in Tasks : tasks[t] = NoTask
  BY DEF Init
<1>2. NoTask.at = "none" /\ NoTask.call = "none"
  BY DEF NoTask
<1>3. BreakpointsOf(loaded) = <<>>
  BY <1>1 DEF BreakpointsOf
<1> QED
  BY <1>1, <1>2, <1>3 DEF Settled, TextHeld, AllVisited, VisitedSoFar, HeldAlone

LEMMA RestSettled ==
  ASSUME Settled, UNCHANGED <<sourceFile, loaded, breakPoints, breakpoint, verifying, tasks>>
  PROVE  Settled'
BY DEF Settled, TextHeld, AllVisited, VisitedSoFar, HeldAlone, BreakpointsOf, Unchecked, WillVisit

\* Before a call begins the text is that of the file named, and nothing waits.
LEMMA SettledBetween ==
  ASSUME OneCall, Settled, NEW t \in Tasks, tasks[t] = NoTask
  PROVE  /\ \A s \in Tasks : s = t
         /\ sourceFile # None => loaded = sourceFile
         /\ \A i \in DOMAIN BreakpointsOf(loaded) : ~Unchecked(BreakpointsOf(loaded)[i])
<1>1. NoTask.at = "none"
  BY DEF NoTask
<1> QED
  BY <1>1 DEF OneCall, Settled, TextHeld, AllVisited, WillVisit

LEMMA StartSettled ==
  ASSUME OneCall, Inv, Settled, NEW t \in Tasks, NEW f, NEW entry, Start(t, f, entry)
  PROVE  Settled'
<1> DEFINE next == IF sourceFile # f THEN "reading" ELSE "loaded"
<1>1. /\ \A s \in Tasks : s = t
      /\ sourceFile # None => loaded = sourceFile
      /\ \A i \in DOMAIN BreakpointsOf(loaded) : ~Unchecked(BreakpointsOf(loaded)[i])
  BY SettledBetween DEF Start
<1>2. verifying = None /\ UNCHANGED <<loaded, breakPoints, breakpoint, verifying>>
  BY DEF Start, MayCall, Idle, stops
<1>3. sourceFile' = f /\ tasks' = [tasks EXCEPT ![t] = [StartOf(f, entry) EXCEPT !.at = next]]
  BY DEF Start, LoadSource, StartOf, NoTask
<1>4. /\ tasks'[t].at = next /\ tasks'[t].file = f /\ tasks'[t].call = "start"
  BY <1>3 DEF StartOf, NoTask, Inv, TypeOK
<1> HIDE DEF next
<1>5. next \in {"reading", "loaded"} /\ (next = "loaded" => f = sourceFile)
  BY DEF next
<1>6. TextHeld'
  BY <1>1, <1>2, <1>3, <1>4, <1>5 DEF TextHeld
<1>7. AllVisited' /\ VisitedSoFar'
  BY <1>1, <1>2 DEF AllVisited, VisitedSoFar, BreakpointsOf, Unchecked
<1>8. HeldAlone'
  BY <1>1, <1>4, <1>5 DEF HeldAlone
<1> QED
  BY <1>6, <1>7, <1>8 DEF Settled

LEMMA SetBreakPointSettled ==
  ASSUME OneCall, Inv, Settled, NEW t \in Tasks, NEW f \in BpFiles, NEW l \in BpLines,
         SetBreakPoint(t, f, l)
  PROVE  Settled'
<1> DEFINE next == IF sourceFile # f THEN "reading" ELSE "verify"
<1>0. f \in Files /\ f # None
  BY ConstantsAssumption, NoneAssumption DEF ConstantsAssumption, NoneAssumption
<1>1. /\ \A s \in Tasks : s = t
      /\ sourceFile # None => loaded = sourceFile
      /\ \A i \in DOMAIN BreakpointsOf(loaded) : ~Unchecked(BreakpointsOf(loaded)[i])
  BY SettledBetween DEF SetBreakPoint
<1>2. /\ verifying = None /\ UNCHANGED <<loaded, verifying>>
      /\ breakpoint' = Append(breakpoint, [line |-> l, verified |-> FALSE])
      /\ breakPoints' = [breakPoints EXCEPT ![f] = Append(breakPoints[f], breakpointId)]
  BY DEF SetBreakPoint, MayCall, Idle
<1>3. sourceFile' = f /\ tasks' = [tasks EXCEPT ![t] = [BreakpointTask(f) EXCEPT !.at = next]]
  BY DEF SetBreakPoint, LoadSource, BreakpointTask, NoTask
<1>4. tasks'[t].at = next /\ tasks'[t].file = f /\ tasks'[t].live
  BY <1>3 DEF BreakpointTask, NoTask, Inv, TypeOK
<1> HIDE DEF next
<1>5. next \in {"reading", "verify"} /\ (next = "verify" => f = sourceFile)
  BY DEF next
<1>6. TextHeld'
  BY <1>0, <1>1, <1>2, <1>3, <1>4, <1>5 DEF TextHeld
<1>7. AllVisited'
  <2>1. CASE loaded = f
    <3>1. WillVisit(t)'
      BY <1>2, <1>4, <1>5, <2>1 DEF WillVisit
    <3> QED
      BY <3>1 DEF AllVisited
  <2>2. CASE loaded # f
    <3>1. BreakpointsOf(loaded)' = BreakpointsOf(loaded)
      BY <1>2, <2>2 DEF BreakpointsOf, Inv, TypeOK
    <3>2. \A i \in DOMAIN BreakpointsOf(loaded) :
            breakpoint'[BreakpointsOf(loaded)[i]] = breakpoint[BreakpointsOf(loaded)[i]]
      <4>1. \A i \in DOMAIN BreakpointsOf(loaded) : BreakpointsOf(loaded)[i] \in Ids
        <5>1. BreakpointsOf(loaded) \in Seq(Ids)
          BY DEF BreakpointsOf, Inv, TypeOK
        <5> QED
          BY <5>1, ElementOfSeq, LenProperties
      <4>2. breakpoint \in Seq(Breakpoint) /\ \A id \in Ids : id \in 1 .. Len(breakpoint)
        <5>1. breakpointId - 1 \in Nat /\ breakpoint \in [1 .. breakpointId - 1 -> Breakpoint]
          BY DEF Ids, Inv, TypeOK
        <5> QED
          BY <5>1 DEF Ids
      <4>3. \A id \in Ids : breakpoint'[id] = breakpoint[id]
        BY <1>2, <4>2
      <4> QED
        BY <4>1, <4>3
    <3> QED
      BY <1>1, <1>2, <3>1, <3>2 DEF AllVisited, Unchecked
  <2> QED
    BY <2>1, <2>2
<1>8. VisitedSoFar' /\ HeldAlone'
  BY <1>1, <1>2, <1>4 DEF VisitedSoFar, HeldAlone
<1> QED
  BY <1>6, <1>7, <1>8 DEF Settled

LEMMA ReadDoneSettled ==
  ASSUME OneCall, Inv, Settled, NEW t \in Tasks, ReadDone(t)
  PROVE  Settled'
<1>1. /\ \A s \in Tasks : s = t
      /\ verifying = None /\ UNCHANGED <<sourceFile, breakPoints, breakpoint, verifying>>
      /\ tasks[t].at = "reading" /\ tasks[t].file # None /\ loaded' = tasks[t].file
  BY DEF OneCall, ReadDone, Idle, stops
<1>2. tasks[t].file = sourceFile
  BY <1>1 DEF Settled, TextHeld
<1>3. tasks' = [tasks EXCEPT ![t].at = AfterRead(tasks[t])]
      /\ AfterRead(tasks[t]) \in {"loaded", "verify"}
      /\ (AfterRead(tasks[t]) = "verify" <=> tasks[t].call # "start")
  BY DEF ReadDone, AfterRead
<1>4. /\ tasks'[t].at = AfterRead(tasks[t]) /\ tasks'[t].file = tasks[t].file
      /\ tasks'[t].call = tasks[t].call /\ tasks'[t].live = tasks[t].live
      /\ tasks[t] \in TaskRecord
  BY <1>3 DEF Inv, TypeOK, TaskRecord
<1>5. TextHeld'
  BY <1>1, <1>2, <1>3, <1>4 DEF TextHeld
<1>6. WillVisit(t)'
  BY <1>1, <1>2, <1>3, <1>4 DEF WillVisit
<1>7. AllVisited' /\ VisitedSoFar'
  BY <1>1, <1>6 DEF AllVisited, VisitedSoFar
<1>8. HeldAlone'
  BY <1>1, <1>3, <1>4 DEF Settled, HeldAlone
<1> QED
  BY <1>5, <1>7, <1>8 DEF Settled

LEMMA ReadFailSettled ==
  ASSUME OneCall, Inv, Settled, NEW t \in Tasks, ReadFail(t)
  PROVE  Settled'
<1>1. /\ \A s \in Tasks : s = t
      /\ verifying = None /\ UNCHANGED <<sourceFile, loaded, breakPoints, breakpoint, verifying>>
      /\ tasks[t].at = "reading" /\ tasks[t].file = None
      /\ tasks' = [tasks EXCEPT ![t] = NoTask]
  BY DEF OneCall, ReadFail, Idle, stops, program
<1>2. tasks'[t].at = "none" /\ tasks'[t].call = "none"
  BY <1>1 DEF NoTask, Inv, TypeOK
<1>3. sourceFile = None
  BY <1>1 DEF Settled, TextHeld
<1>4. TextHeld' /\ HeldAlone' /\ VisitedSoFar'
  BY <1>1, <1>2, <1>3 DEF TextHeld, HeldAlone, VisitedSoFar
<1>5. AllVisited'
  <2>1. CASE loaded = None
    <3>1. BreakpointsOf(loaded)' = <<>>
      BY <1>1, <2>1 DEF BreakpointsOf
    <3> QED
      BY <3>1 DEF AllVisited
  <2>2. CASE loaded # None
    <3>1. ~WillVisit(t)
      BY <1>1, <2>2 DEF WillVisit
    <3> QED
      BY <1>1, <3>1 DEF Settled, AllVisited, BreakpointsOf, Unchecked
  <2> QED
    BY <2>1, <2>2
<1> QED
  BY <1>4, <1>5 DEF Settled

LEMMA AfterLoadSettled ==
  ASSUME OneCall, Inv, Settled, NEW t \in Tasks, AfterLoad(t)
  PROVE  Settled'
<1>1. /\ \A s \in Tasks : s = t
      /\ verifying = None /\ UNCHANGED <<sourceFile, loaded, breakPoints, breakpoint, verifying>>
      /\ tasks[t].at = "loaded"
  BY DEF OneCall, AfterLoad, Idle, stops, program
<1>2. sourceFile # None => loaded = sourceFile
  BY <1>1 DEF Settled, TextHeld
<1>3. CASE sourceFile = None
  <2>1. tasks' = [tasks EXCEPT ![t] = [tasks[t] EXCEPT !.at = "finish"]]
    BY <1>3 DEF AfterLoad
  <2>2. /\ tasks'[t].at = "finish" /\ tasks'[t].file = tasks[t].file
        /\ tasks'[t].call = tasks[t].call /\ tasks'[t].live = tasks[t].live
    BY <2>1 DEF Inv, TypeOK, TaskRecord
  <2>3. ~WillVisit(t)
    BY <1>1, <1>3 DEF WillVisit
  <2>4. AllVisited'
    BY <1>1, <2>3 DEF Settled, AllVisited, BreakpointsOf, Unchecked
  <2>5. TextHeld' /\ HeldAlone' /\ VisitedSoFar'
    BY <1>1, <1>3, <2>2 DEF Settled, TextHeld, HeldAlone, VisitedSoFar
  <2> QED
    BY <2>4, <2>5 DEF Settled
<1>4. CASE sourceFile # None
  <2>1. tasks' = [tasks EXCEPT ![t] = [tasks[t] EXCEPT !.at = "verify", !.file = sourceFile,
                                                       !.live = TRUE]]
    BY <1>4 DEF AfterLoad
  <2>2. tasks'[t].at = "verify" /\ tasks'[t].file = sourceFile /\ tasks'[t].live
    BY <2>1 DEF Inv, TypeOK, TaskRecord
  <2>3. WillVisit(t)'
    BY <2>2 DEF WillVisit
  <2> QED
    BY <1>1, <1>2, <1>4, <2>2, <2>3
       DEF Settled, TextHeld, AllVisited, HeldAlone, VisitedSoFar
<1> QED
  BY <1>3, <1>4

\* The loop will come to every breakpoint of the text.
LEMMA VerifySettled ==
  ASSUME OneCall, Inv, Settled, NEW t \in Tasks, Verify(t)
  PROVE  Settled'
<1>1. /\ UNCHANGED <<sourceFile, loaded, breakPoints, breakpoint, tasks>>
      /\ tasks[t].at = "verify"
      /\ verifying' = [task |-> t, todo |-> IF tasks[t].live THEN breakPoints[tasks[t].file]
                                                             ELSE tasks[t].held]
  BY DEF Verify, stops, program
<1>2. tasks[t].file = loaded /\ loaded # None
  BY <1>1 DEF Settled, TextHeld, Inv, FileNamed
<1>3. verifying'.task = t /\ (tasks[t].live => verifying'.todo = breakPoints[loaded])
  BY <1>1, <1>2
<1>4. BreakpointsOf(loaded) = breakPoints[loaded] /\ BreakpointsOf(loaded)' = breakPoints[loaded]
  BY <1>1, <1>2 DEF BreakpointsOf
<1>5. ~tasks[t].live => breakPoints[loaded] = <<>>
  BY <1>1, <1>2 DEF Settled, HeldAlone
<1>6. VisitedSoFar'
  <2>1. CASE tasks[t].live
    BY <1>1, <1>3, <1>4, <2>1 DEF VisitedSoFar
  <2>2. CASE ~tasks[t].live
    BY <1>1, <1>3, <1>4, <1>5, <2>2 DEF VisitedSoFar
  <2> QED
    BY <2>1, <2>2
<1>7. TextHeld' /\ HeldAlone' /\ AllVisited'
  BY <1>1, <1>4 DEF Settled, TextHeld, HeldAlone, AllVisited, WillVisit, Unchecked
<1> QED
  BY <1>6, <1>7 DEF Settled

LEMMA VerifyOneSettled ==
  ASSUME Inv, Settled, VerifyOne
  PROVE  Settled'
<1>1. /\ UNCHANGED <<sourceFile, loaded, breakPoints, tasks>> /\ verifying # None
      /\ verifying.todo # <<>> /\ verifying' = [verifying EXCEPT !.todo = Tail(verifying.todo)]
  BY DEF VerifyOne, program
<1>2. /\ verifying \in [task : Tasks, todo : Seq(Ids)] /\ breakpoint \in [Ids -> Breakpoint]
      /\ verifying.todo \in Seq(Ids)
  BY <1>1 DEF Inv, TypeOK
<1>3. PICK id \in Ids : id = Head(verifying.todo)
  BY <1>1, <1>2, HeadTailProperties
<1>4. verifying'.task = verifying.task /\ verifying'.todo = Tail(verifying.todo)
  BY <1>1, <1>2
<1>5. \A j \in Ids : j # id => breakpoint'[j] = breakpoint[j]
  BY <1>1, <1>2, <1>3 DEF VerifyOne
<1>6. ~Unchecked(id)'
  <2>1. CASE ~breakpoint[id].verified /\ breakpoint[id].line \in Lines(loaded)
    <3>1. breakpoint' = [breakpoint EXCEPT ![id].verified = NonBlank(loaded, breakpoint[id].line)]
      BY <1>3, <2>1 DEF VerifyOne
    <3>2. breakpoint'[id].verified = NonBlank(loaded, breakpoint[id].line)
          /\ breakpoint'[id].line = breakpoint[id].line
      BY <1>2, <1>3, <3>1 DEF Breakpoint
    <3> QED
      BY <1>1, <3>2 DEF Unchecked
  <2>2. CASE breakpoint[id].verified \/ breakpoint[id].line \notin Lines(loaded)
    <3>1. breakpoint' = breakpoint
      BY <1>3, <2>2 DEF VerifyOne
    <3> QED
      BY <1>1, <2>2, <3>1 DEF Unchecked, NonBlank
  <2> QED
    BY <2>1, <2>2
<1>7. tasks[verifying.task].at = "verify" /\ verifying.task \in Tasks
  BY <1>1, <1>2 DEF Settled, VisitedSoFar
<1>8. WillVisit(verifying.task)'
  BY <1>1, <1>4, <1>7 DEF WillVisit
<1>9. /\ BreakpointsOf(loaded)' = BreakpointsOf(loaded)
      /\ \A i \in DOMAIN BreakpointsOf(loaded) : BreakpointsOf(loaded)[i] \in Ids
  <2>1. BreakpointsOf(loaded) \in Seq(Ids)
    BY DEF BreakpointsOf, Inv, TypeOK
  <2> QED
    BY <1>1, <2>1, ElementOfSeq, LenProperties DEF BreakpointsOf
<1>10. ASSUME NEW i \in DOMAIN BreakpointsOf(loaded), Unchecked(BreakpointsOf(loaded)[i])'
       PROVE  \E k \in DOMAIN verifying'.todo : verifying'.todo[k] = BreakpointsOf(loaded)[i]
  <2>1. BreakpointsOf(loaded)[i] # id /\ BreakpointsOf(loaded)[i] \in Ids
    BY <1>1, <1>6, <1>9, <1>10
  <2>2. Unchecked(BreakpointsOf(loaded)[i])
    BY <1>1, <1>5, <1>9, <1>10, <2>1 DEF Unchecked
  <2>3. PICK k \in DOMAIN verifying.todo : verifying.todo[k] = BreakpointsOf(loaded)[i]
    BY <1>1, <2>2 DEF Settled, VisitedSoFar
  <2>4. Len(verifying.todo) \in Nat /\ DOMAIN verifying.todo = 1 .. Len(verifying.todo)
        /\ id = verifying.todo[1]
    BY <1>1, <1>2, <1>3, LenProperties
  <2>5. k # 1 /\ k - 1 \in DOMAIN verifying'.todo /\ verifying'.todo[k - 1] = verifying.todo[k]
    BY <1>1, <1>2, <1>4, <2>1, <2>3, <2>4, HeadTailProperties
  <2> QED
    BY <2>3, <2>5
<1>11. VisitedSoFar'
  BY <1>1, <1>4, <1>7, <1>9, <1>10 DEF VisitedSoFar
<1>12. TextHeld' /\ HeldAlone' /\ AllVisited'
  BY <1>1, <1>4, <1>7, <1>8 DEF Settled, TextHeld, HeldAlone, AllVisited
<1> QED
  BY <1>11, <1>12 DEF Settled

\* The loop is over: nothing is left to verify.
LEMMA VerifiedSettled ==
  ASSUME OneCall, Inv, Settled, Verified
  PROVE  Settled'
<1>1. /\ UNCHANGED <<sourceFile, loaded, breakPoints, breakpoint>> /\ verifying # None
      /\ verifying.todo = <<>> /\ verifying' = None
      /\ verifying \in [task : Tasks, todo : Seq(Ids)]
  BY DEF Verified, stops, program, Inv, TypeOK
<1>2. PICK t \in Tasks : t = verifying.task
  BY <1>1
<1>3. (\A s \in Tasks : s = t) /\ tasks[t].at = "verify"
  BY <1>1, <1>2 DEF OneCall, Settled, VisitedSoFar
<1>4. tasks' = [tasks EXCEPT ![t] = IF tasks[t].call = "start"
                                    THEN [tasks[t] EXCEPT !.at = "finish"] ELSE NoTask]
  BY <1>2 DEF Verified
<1>5. tasks'[t].at \in {"finish", "none"} /\ (tasks'[t].at = "finish" => tasks'[t].call = "start")
  BY <1>4 DEF NoTask, Inv, TypeOK, TaskRecord
<1>6. TextHeld' /\ HeldAlone' /\ VisitedSoFar'
  BY <1>1, <1>3, <1>5 DEF Settled, TextHeld, HeldAlone, VisitedSoFar
<1>7. AllVisited'
  <2>1. \A i \in DOMAIN BreakpointsOf(loaded) : ~Unchecked(BreakpointsOf(loaded)[i])
    BY <1>1 DEF Settled, VisitedSoFar
  <2> QED
    BY <1>1, <2>1 DEF AllVisited, BreakpointsOf, Unchecked
<1> QED
  BY <1>6, <1>7 DEF Settled

LEMMA FinishStartSettled ==
  ASSUME OneCall, Inv, Settled, NEW t \in Tasks, FinishStart(t)
  PROVE  Settled'
<1>1. /\ \A s \in Tasks : s = t
      /\ verifying = None /\ UNCHANGED <<sourceFile, loaded, breakPoints, breakpoint, verifying>>
      /\ tasks[t].at = "finish" /\ tasks' = [tasks EXCEPT ![t] = NoTask]
  BY DEF OneCall, FinishStart, Idle, stops, program
<1>2. tasks'[t].at = "none"
  BY <1>1 DEF NoTask, Inv, TypeOK
<1>3. ~WillVisit(t)
  BY <1>1 DEF WillVisit
<1>4. TextHeld' /\ HeldAlone' /\ VisitedSoFar'
  BY <1>1, <1>2 DEF Settled, TextHeld, HeldAlone, VisitedSoFar
<1>5. AllVisited'
  BY <1>1, <1>3 DEF Settled, AllVisited, BreakpointsOf, Unchecked
<1> QED
  BY <1>4, <1>5 DEF Settled

\* What is taken out of an array is not to be verified any more.
LEMMA FewerSettled ==
  ASSUME Settled, UNCHANGED <<sourceFile, loaded, breakpoint, verifying>>, verifying = None,
         \A t \in Tasks : /\ tasks'[t].at = tasks[t].at /\ tasks'[t].file = tasks[t].file
                          /\ tasks'[t].call = tasks[t].call,
         \A i \in DOMAIN BreakpointsOf(loaded)' : \E j \in DOMAIN BreakpointsOf(loaded) :
           BreakpointsOf(loaded)'[i] = BreakpointsOf(loaded)[j],
         HeldAlone'
  PROVE  Settled'
<1>1. TextHeld'
  BY DEF Settled, TextHeld
<1>2. VisitedSoFar'
  BY DEF VisitedSoFar
<1>3. AllVisited'
  <2> SUFFICES ASSUME \A t \in Tasks : ~WillVisit(t)', NEW i \in DOMAIN BreakpointsOf(loaded)'
               PROVE  ~Unchecked(BreakpointsOf(loaded)'[i])
    BY DEF AllVisited, Unchecked
  <2>1. \A t \in Tasks : ~WillVisit(t)
    BY DEF WillVisit
  <2> QED
    BY <2>1 DEF Settled, AllVisited
<1> QED
  BY <1>1, <1>2, <1>3 DEF Settled

LEMMA ClearBreakpointsSettled ==
  ASSUME Inv, Settled, NEW f \in BpFiles, ClearBreakpoints(f)
  PROVE  Settled'
<1>0. f \in Files
  BY ConstantsAssumption DEF ConstantsAssumption
<1>1. /\ verifying = None /\ UNCHANGED <<sourceFile, loaded, breakpoint, verifying>>
      /\ breakPoints' = [breakPoints EXCEPT ![f] = <<>>] /\ tasks' = Detached(f)
  BY DEF ClearBreakpoints, MayCall, Idle, program
<1>2. \A t \in Tasks : /\ tasks'[t].at = tasks[t].at /\ tasks'[t].file = tasks[t].file
                       /\ tasks'[t].call = tasks[t].call
                       /\ tasks'[t].live = tasks[t].live \/ tasks[t].file = f
  BY <1>1 DEF Detached, Inv, TypeOK, TaskRecord
<1>3. HeldAlone'
  BY <1>0, <1>1, <1>2 DEF Settled, HeldAlone, Inv, TypeOK
<1>4. \A i \in DOMAIN BreakpointsOf(loaded)' : \E j \in DOMAIN BreakpointsOf(loaded) :
        BreakpointsOf(loaded)'[i] = BreakpointsOf(loaded)[j]
  <2>1. CASE loaded = f
    BY <1>0, <1>1, <2>1 DEF BreakpointsOf, Inv, TypeOK
  <2>2. CASE loaded # f
    BY <1>1, <2>2 DEF BreakpointsOf, Inv, TypeOK
  <2> QED
    BY <2>1, <2>2
<1> QED
  BY <1>1, <1>2, <1>3, <1>4, FewerSettled

LEMMA RemoveAtElements ==
  ASSUME NEW S, NEW s \in Seq(S), NEW i \in DOMAIN s
  PROVE  \A k \in DOMAIN RemoveAt(s, i) : \E j \in DOMAIN s : RemoveAt(s, i)[k] = s[j]
<1> DEFINE before == SubSeq(s, 1, i - 1)
           after  == SubSeq(s, i + 1, Len(s))
<1>1. Len(s) \in Nat /\ DOMAIN s = 1 .. Len(s) /\ i \in 1 .. Len(s)
  BY LenProperties
<1>2. /\ before \in Seq(S) /\ Len(before) = i - 1
      /\ \A k \in 1 .. i - 1 : before[k] = s[k]
  <2>1. \A k \in 1 .. i - 1 : s[k] \in S
    BY <1>1, ElementOfSeq
  <2> QED
    BY <1>1, <2>1, SubSeqProperties
<1>3. /\ after \in Seq(S) /\ Len(after) = Len(s) - i
      /\ \A k \in 1 .. Len(s) - i : after[k] = s[i + k]
  <2>1. \A k \in i + 1 .. Len(s) : s[k] \in S
    BY <1>1, ElementOfSeq
  <2>2. after \in Seq(S) /\ Len(after) = Len(s) - i
    BY <1>1, <2>1, SubSeqProperties
  <2>3. \A k \in 1 .. Len(s) - (i + 1) + 1 : after[k] = s[(i + 1) + k - 1]
    BY <1>1, <2>1, SubSeqProperties
  <2> QED
    BY <1>1, <2>2, <2>3
<1>4. RemoveAt(s, i) = before \o after
  BY DEF RemoveAt
<1> HIDE DEF before, after
<1>5. /\ DOMAIN (before \o after) = 1 .. Len(s) - 1
      /\ \A k \in 1 .. Len(s) - 1 :
           (before \o after)[k] = IF k <= i - 1 THEN before[k] ELSE after[k - (i - 1)]
  <2>1. /\ before \o after \in Seq(S) /\ Len(before \o after) = Len(s) - 1
        /\ \A k \in 1 .. Len(s) - 1 :
             (before \o after)[k] = IF k <= Len(before) THEN before[k]
                                                        ELSE after[k - Len(before)]
    <3>1. /\ before \o after \in Seq(S)
          /\ Len(before \o after) = Len(before) + Len(after)
          /\ \A k \in 1 .. Len(before) + Len(after) :
               (before \o after)[k] = IF k <= Len(before) THEN before[k]
                                                          ELSE after[k - Len(before)]
      BY <1>2, <1>3, ConcatProperties
    <3>2. Len(before) + Len(after) = Len(s) - 1
      BY <1>1, <1>2, <1>3
    <3> QED
      BY <3>1, <3>2
  <2>2. DOMAIN (before \o after) = 1 .. Len(s) - 1
    BY <2>1, LenProperties
  <2> QED
    BY <1>2, <2>1, <2>2
<1>6. ASSUME NEW k \in 1 .. Len(s) - 1
      PROVE  \E j \in DOMAIN s : (before \o after)[k] = s[j]
  <2>1. CASE k <= i - 1
    <3>1. k \in 1 .. i - 1 /\ k \in DOMAIN s
      BY <1>1, <2>1
    <3>2. before[k] = s[k]
      BY <1>2, <3>1
    <3>3. (before \o after)[k] = before[k]
      BY <1>5, <2>1
    <3> QED
      BY <3>1, <3>2, <3>3
  <2>2. CASE ~(k <= i - 1)
    <3>1. k - (i - 1) \in 1 .. Len(s) - i /\ k + 1 \in DOMAIN s
      BY <1>1, <2>2
    <3>2. after[k - (i - 1)] = s[i + (k - (i - 1))] /\ i + (k - (i - 1)) = k + 1
      BY <1>1, <1>3, <3>1
    <3> QED
      BY <1>5, <2>2, <3>1, <3>2
  <2> QED
    BY <2>1, <2>2
<1> QED
  BY <1>4, <1>5, <1>6

LEMMA ClearBreakPointSettled ==
  ASSUME Inv, Settled, NEW f \in BpFiles, NEW l \in BpLines, ClearBreakPoint(f, l)
  PROVE  Settled'
<1>0. f \in Files
  BY ConstantsAssumption DEF ConstantsAssumption
<1>1. verifying = None /\ UNCHANGED <<sourceFile, loaded, breakpoint, verifying, tasks>>
  BY DEF ClearBreakPoint, MayCall, Idle, program
<1>2. PICK i \in DOMAIN breakPoints[f] :
        breakPoints' = [breakPoints EXCEPT ![f] = RemoveAt(breakPoints[f], i)]
  BY DEF ClearBreakPoint
<1>3. breakPoints \in [Files -> Seq(Ids)] /\ breakPoints[f] \in Seq(Ids)
  BY <1>0 DEF Inv, TypeOK
<1>4. \A k \in DOMAIN breakPoints'[f] : \E j \in DOMAIN breakPoints[f] :
        breakPoints'[f][k] = breakPoints[f][j]
  <2>1. breakPoints'[f] = RemoveAt(breakPoints[f], i)
    BY <1>0, <1>2, <1>3
  <2> QED
    BY <1>3, <2>1, RemoveAtElements
<1>5. HeldAlone'
  <2>1. breakPoints[f] # <<>>
    BY <1>2
  <2> QED
    BY <1>1, <1>2, <1>3, <2>1 DEF Settled, HeldAlone
<1>6. \A k \in DOMAIN BreakpointsOf(loaded)' : \E j \in DOMAIN BreakpointsOf(loaded) :
        BreakpointsOf(loaded)'[k] = BreakpointsOf(loaded)[j]
  <2>1. CASE loaded = f
    <3>1. BreakpointsOf(loaded)' = breakPoints'[f] /\ BreakpointsOf(loaded) = breakPoints[f]
      BY <1>0, <1>1, <2>1, NoneAssumption DEF BreakpointsOf, NoneAssumption
    <3> QED
      BY <1>4, <3>1
  <2>2. CASE loaded # f
    <3>1. BreakpointsOf(loaded)' = BreakpointsOf(loaded)
      BY <1>1, <1>2, <1>3, <2>2 DEF BreakpointsOf, Inv, TypeOK
    <3> QED
      BY <3>1
  <2> QED
    BY <2>1, <2>2
<1> QED
  BY <1>1, <1>5, <1>6, FewerSettled

LEMMA FindBreakpointSettled ==
  ASSUME Inv, Settled, FindBreakpoint
  PROVE  Settled'
<1>1. UNCHANGED <<sourceFile, loaded, breakPoints, verifying, tasks>>
  BY DEF FindBreakpoint
<1>2. PICK id : breakpoint' = [breakpoint EXCEPT ![id].verified = TRUE]
  BY DEF FindBreakpoint
<1>3. breakpoint \in [Ids -> Breakpoint]
  BY DEF Inv, TypeOK
<1>4. \A j \in Ids : breakpoint'[j].line = breakpoint[j].line
                     /\ (breakpoint[j].verified => breakpoint'[j].verified)
  BY <1>2, <1>3 DEF Breakpoint
<1>5. /\ BreakpointsOf(loaded)' = BreakpointsOf(loaded)
      /\ \A i \in DOMAIN BreakpointsOf(loaded) : BreakpointsOf(loaded)[i] \in Ids
  <2>1. BreakpointsOf(loaded) \in Seq(Ids)
    BY DEF BreakpointsOf, Inv, TypeOK
  <2> QED
    BY <1>1, <2>1, ElementOfSeq, LenProperties DEF BreakpointsOf
<1>6. \A i \in DOMAIN BreakpointsOf(loaded) :
        Unchecked(BreakpointsOf(loaded)[i])' => Unchecked(BreakpointsOf(loaded)[i])
  BY <1>1, <1>4, <1>5 DEF Unchecked
<1>7. TextHeld' /\ HeldAlone'
  BY <1>1 DEF Settled, TextHeld, HeldAlone
<1>8. AllVisited' /\ VisitedSoFar'
  BY <1>1, <1>5, <1>6 DEF Settled, AllVisited, VisitedSoFar, WillVisit
<1> QED
  BY <1>7, <1>8 DEF Settled

LEMMA NextSettled == OneCall /\ Inv /\ Settled /\ [Next]_vars => Settled'
<1> SUFFICES ASSUME OneCall, Inv, Settled, [Next]_vars PROVE Settled'
  OBVIOUS
<1>1. CASE \E t \in Tasks : \/ \E f \in Programs, entry \in BOOLEAN : Start(t, f, entry)
                            \/ \E f \in BpFiles, l \in BpLines : SetBreakPoint(t, f, l)
  BY <1>1, StartSettled, SetBreakPointSettled
<1>2. CASE \E f \in BpFiles : \/ ClearBreakpoints(f)
                              \/ \E l \in BpLines : ClearBreakPoint(f, l)
  BY <1>2, ClearBreakpointsSettled, ClearBreakPointSettled
<1>3. CASE \E t \in Tasks : TaskStep(t)
  BY <1>3, ReadDoneSettled, ReadFailSettled, AfterLoadSettled, VerifySettled, FinishStartSettled
     DEF TaskStep
<1>4. CASE VerifyOne \/ Verified \/ FindBreakpoint
  BY <1>4, VerifyOneSettled, VerifiedSettled, FindBreakpointSettled
<1>5. ASSUME UNCHANGED <<sourceFile, loaded, breakPoints, breakpoint, verifying, tasks>>
      PROVE  Settled'
  BY <1>5, RestSettled
<1>6. CASE Deliver \/ UNCHANGED vars
  BY <1>5, <1>6 DEF Deliver, vars, program, stops
<1>7. CASE \/ \E reverse \in Directions : Continue(reverse) \/ Step(reverse)
           \/ Pause \/ StepIn \/ StepOut
           \/ \E c \in Targets : StepInTarget(c)
           \/ \E n \in Edits : \/ SetVariable(n)
                               \/ \E kinds \in SUBSET {"read", "write"} \ {{}} :
                                    SetDataBreakpoint(n, kinds)
           \/ ClearAllDataBreakpoints
           \/ \E x \in Filters : SetExceptionsFilters(x)
           \/ \E a \in Addresses : SetInstructionBreakpoint(a)
           \/ ClearInstructionBreakpoints
  BY <1>5, <1>7
     DEF Continue, Step, Call, Pause, StepIn, StepOut, StepInTarget, SetColumn, SetVariable,
         SetDataBreakpoint, ClearAllDataBreakpoints, SetExceptionsFilters,
         SetInstructionBreakpoint, ClearInstructionBreakpoints, ChangeInstructionBreakpoints,
         program, stops
<1>8. CASE HitInstruction \/ HitData \/ HitException \/ ExecuteLine \/ UpdateCurrentLine \/ RunOff
           \/ FindInstruction \/ FindStatement
  BY <1>5, <1>8
     DEF HitInstruction, HitData, HitException, ExecuteLine, LineDone, UpdateCurrentLine, RunOff,
         FindInstruction, FindStatement, stops
<1> QED
  BY <1>1, <1>2, <1>3, <1>4, <1>6, <1>7, <1>8 DEF Next, Command, RunStep

LEMMA SettledAlways ==
  ASSUME OneCall
  PROVE  Spec => []Settled
<1>1. Init => Settled
  BY SettledAtFirst
<1>2. Inv /\ Settled /\ [Next]_vars => Settled'
  BY NextSettled
<1> QED
  BY <1>1, <1>2, Invariant, PTL DEF Spec

\* With one call at a time and readable files, whenever no call is in progress the
\* text held is that of the file named (runtime.ts:316-349 loadSource), although the
\* name is taken before the text is there and a breakpoint of another file takes both.
THEOREM TextOfTheFileNamed ==
  ASSUME OneCall
  PROVE  Spec => []SourceSettled
<1>1. Settled => SourceSettled
  BY DEF Settled, TextHeld, SourceSettled, NoCall, NoTask
<1> QED
  BY <1>1, SettledAlways, PTL

\* And every breakpoint of it on a line with text is verified by then.
THEOREM VerifiedByThen ==
  ASSUME OneCall
  PROVE  Spec => []VerifiedWhenSettled
<1>1. Settled => VerifiedWhenSettled
  BY DEF Settled, AllVisited, VerifiedWhenSettled, NoCall, NoTask, WillVisit, Unchecked,
         BreakpointsOf
<1> QED
  BY <1>1, SettledAlways, PTL
=============================================================================
