-------------------------- MODULE InProcessProofs --------------------------
(***************************************************************************)
(* Theorems about InProcess, for every text and mark, any number of         *)
(* overlapping calls, and every bound.                                      *)
(***************************************************************************)
EXTENDS InProcess, TsEngineProofs

\* The types of everything but the bound on the requests.
CoreType == /\ TypeOK /\ launch \in LaunchRecord
            /\ stepEvent \in {None, "stopOnStep", "stopOnEntry"} /\ strayed \in BOOLEAN

\* While a run is on the stack no forEach is, and the launch is over.
OneJob == run # None => verifying = None /\ launch.at = "begun"

\* A forEach is of a call that verifies.
Visits == verifying # None => tasks[verifying.task].at = "verify"

\* Where a call waits, a file is named, and the call knows which it is for.
Named == \A t \in Tasks : tasks[t].at # "none" => sourceFile # None /\ tasks[t].file # None

\* A run that may go on is on a line of the text.
OnText == run # None => \/ currentLine \in Lines(loaded)
                        \/ run.at = "find" /\ stepEvent # None /\ ~run.reverse

\* What the launch waits for.
LaunchStages ==
  /\ launch.at = "applying" =>
       tasks[Launcher].call # "start" /\ tasks[Launcher].at \notin {"loaded", "finish"}
  /\ launch.at \in {"begun", "failed"} => tasks[Launcher] = NoTask

\* A client that keeps to its program finds the launch alone with its calls,
\* and the line not moved before the program has begun.
OneFile ==
  ~strayed =>
    /\ launch.at \in {"applying", "starting"} =>
         /\ currentLine = 0
         /\ \A t \in Tasks \ {Launcher} : tasks[t] = NoTask
         /\ IF tasks[Launcher].at = "reading" THEN tasks[Launcher].file = sourceFile
                                              ELSE loaded = sourceFile
    /\ launch.at = "starting" => sourceFile = launch.file
    /\ launch.at = "begun" => /\ \A t \in Tasks : tasks[t].at # "reading"
                              /\ sourceFile = launch.file /\ loaded = launch.file
                              /\ currentLine \in Lines(loaded)

CoreInv == /\ CoreType /\ OneJob /\ Visits /\ Named /\ OnText /\ NoBreakpointPassed
           /\ LaunchStages /\ OneFile

LocalInv == CoreInv /\ requests \in Nat

-----------------------------------------------------------------------------
(* What the steps have in common.                                           *)

LEMMA LauncherIsTask == Launcher \in Tasks
BY InProcessAssumption DEF InProcessAssumption

LEMMA FirstLine == \A f \in Files : 0 \in Lines(f)
BY LinesType

\* With nothing running after it, a step is judged by its types and its tasks.
LEMMA QuietKeeps ==
  ASSUME CoreType', Visits', Named', LaunchStages', OneFile', run' = None
  PROVE  CoreInv'
BY DEF CoreInv, OneJob, OnText, NoBreakpointPassed

\* A step that moves no task and neither the line nor the texts.
LEMMA SameTasksKeep ==
  ASSUME CoreInv, CoreType', run' = None,
         verifying' # None => tasks[verifying'.task].at = "verify",
         UNCHANGED <<sourceFile, loaded, currentLine, tasks, launch, strayed>>
  PROVE  CoreInv'
<1>1. Visits' /\ Named' /\ LaunchStages' /\ OneFile'
  BY DEF CoreInv, Visits, Named, LaunchStages, OneFile
<1> QED
  BY <1>1, QuietKeeps

\* A call at rest or over after a step that leaves the texts alone.
LEMMA TaskMoveKeeps ==
  ASSUME CoreInv, CoreType', run' = None, verifying' = None, NEW t \in Tasks, NEW task,
         task.at # "none" => sourceFile # None /\ task.file # None,
         task.at # "reading", t # Launcher => tasks[t] # NoTask \/ task = NoTask,
         tasks' = [tasks EXCEPT ![t] = task], tasks[t].at # "reading",
         t = Launcher /\ launch'.at = "applying" =>
           task.call # "start" /\ task.at \notin {"loaded", "finish"},
         t = Launcher /\ launch'.at \in {"begun", "failed"} => task = NoTask,
         launch' = launch \/ (t = Launcher /\ launch'.at = "failed"),
         UNCHANGED <<sourceFile, loaded, currentLine, strayed>>
  PROVE  CoreInv'
<1>1. tasks \in [Tasks -> TaskRecord] /\ Launcher \in Tasks
  BY LauncherIsTask DEF CoreInv, CoreType, TypeOK
<1>2. tasks'[t] = task /\ \A u \in Tasks \ {t} : tasks'[u] = tasks[u]
  BY <1>1
<1>3. Named'
  BY <1>2 DEF CoreInv, Named
<1>4. LaunchStages'
  BY <1>1, <1>2 DEF CoreInv, LaunchStages
<1>5. OneFile'
  BY <1>1, <1>2 DEF CoreInv, OneFile
<1> QED
  BY <1>3, <1>4, <1>5, QuietKeeps DEF Visits

\* A step of a run moves no task, and stays on the lines of its text.
LEMMA RunKeeps ==
  ASSUME CoreInv, run # None, CoreType', OnText', NoBreakpointPassed',
         currentLine' = currentLine \/ currentLine' \in Lines(loaded),
         UNCHANGED <<sourceFile, loaded, tasks, verifying, launch, strayed>>
  PROVE  CoreInv'
<1>1. launch.at = "begun" /\ verifying = None
  BY DEF CoreInv, OneJob
<1>2. OneJob' /\ Visits' /\ Named' /\ LaunchStages'
  BY <1>1 DEF CoreInv, OneJob, Visits, Named, LaunchStages
<1>3. OneFile'
  BY <1>1 DEF CoreInv, OneFile, Lines, NumLines
<1> QED
  BY <1>2, <1>3 DEF CoreInv

\* A run stops, on its line or another of its text.
LEMMA StopKeepsCore ==
  ASSUME CoreInv, run # None, run' = None, CoreType',
         currentLine' = currentLine \/ currentLine' \in Lines(loaded),
         UNCHANGED <<sourceFile, loaded, tasks, verifying, launch, strayed>>
  PROVE  CoreInv'
BY RunKeeps DEF OnText, NoBreakpointPassed

-----------------------------------------------------------------------------
LEMMA LocalInitInv == LocalInit => LocalInv
<1> SUFFICES ASSUME LocalInit PROVE LocalInv
  OBVIOUS
<1>1. Init /\ TypeOK
  BY InitInv DEF LocalInit, Inv
<1>2. CoreType /\ requests \in Nat
  BY <1>1 DEF LocalInit, CoreType, LaunchRecord
<1>3. /\ run = None /\ sourceFile = None /\ loaded = None /\ currentLine = 0
      /\ \A t \in Tasks : tasks[t] = NoTask /\ tasks[t].at = "none" /\ tasks[t].call = "none"
  BY <1>1 DEF Init, NoTask
<1>4. OneJob /\ Visits /\ Named /\ OnText /\ NoBreakpointPassed /\ LaunchStages /\ OneFile
  BY <1>3, LauncherIsTask
     DEF LocalInit, Init, OneJob, Visits, Named, OnText, NoBreakpointPassed, LaunchStages, OneFile
<1> QED
  BY <1>2, <1>4 DEF LocalInv, CoreInv
-----------------------------------------------------------------------------
(* Setting breakpoints and starting.                                        *)

\* A step that begins a call of the launch or of setBreakPoint.
LEMMA BeginTypes ==
  ASSUME TypeOK, NEW t \in Tasks, NEW f \in Files, NEW l \in BpLines, SetBreakPoint(t, f, l)
  PROVE  TypeOK'
<1>1. f \in Files /\ l \in Int
  BY ConstantsAssumption DEF ConstantsAssumption
<1>2. BreakpointTask(f) \in TaskRecord
  BY <1>1, NoTaskType DEF BreakpointTask, TaskRecord
<1>3. /\ LoadSource(t, BreakpointTask(f), "verify")
      /\ breakpointId \in Nat \ {0} /\ breakpointId' = breakpointId + 1
      /\ Ids \subseteq Ids' /\ breakpointId \in Ids'
  BY DEF SetBreakPoint, TypeOK, Ids
<1>4. tasks' \in [Tasks -> TaskRecord'] /\ sourceFile' \in Files \cup {None}
  BY <1>2, <1>3, LoadSourceTasks
<1>5. breakpoint' \in [Ids' -> Breakpoint]
  <2>1. breakpoint \in Seq(Breakpoint) /\ Len(breakpoint) = breakpointId - 1
    <3>1. breakpointId - 1 \in Nat /\ breakpoint \in [1 .. breakpointId - 1 -> Breakpoint]
      BY DEF TypeOK, Ids
    <3> QED
      BY <3>1
  <2>2. [line |-> l, verified |-> FALSE] \in Breakpoint
    BY <1>1 DEF Breakpoint
  <2>3. /\ breakpoint' = Append(breakpoint, [line |-> l, verified |-> FALSE])
        /\ breakpoint' \in Seq(Breakpoint)
        /\ Len(breakpoint') = Len(breakpoint) + 1
    BY <2>1, <2>2, AppendProperties DEF SetBreakPoint
  <2>4. Ids' = 1 .. Len(breakpoint')
    BY <2>1, <2>3, <1>3 DEF Ids
  <2> QED
    BY <2>3, <2>4, LenProperties
<1>6. breakPoints' \in [Files -> Seq(Ids')]
  <2>1. \A g \in Files : breakPoints[g] \in Seq(Ids')
    BY <1>3, SeqMonotonic DEF TypeOK
  <2>2. Append(breakPoints[f], breakpointId) \in Seq(Ids')
    BY <1>1, <1>3, <2>1, AppendProperties
  <2> QED
    BY <2>1, <2>2 DEF SetBreakPoint, TypeOK
<1>7. verifying' = None /\ run' = None
  BY DEF SetBreakPoint, MayCall, Idle
<1>8. breakpointId' \in Nat \ {0}
  BY <1>3
<1> QED
  BY <1>4, <1>5, <1>6, <1>7, <1>8 DEF SetBreakPoint, TypeOK

LEMMA ReapplyStep ==
  ASSUME CoreInv, NEW f \in BpFiles, NEW l \in BpLines, Reapply(f, l)
  PROVE  CoreInv'
<1>1. /\ SetBreakPoint(Launcher, f, l) /\ LoadSource(Launcher, BreakpointTask(f), "verify")
      /\ launch' = launch /\ launch.at = "applying" /\ UNCHANGED <<stepEvent, strayed>>
  BY DEF Reapply, client, SetBreakPoint
<1>2. f \in Files /\ f # None
  BY ConstantsAssumption, NoneAssumption DEF ConstantsAssumption, NoneAssumption
<1>3. CoreType'
  BY <1>1, <1>2, BeginTypes, LauncherIsTask DEF CoreInv, CoreType
<1>4. /\ sourceFile' = f /\ loaded' = loaded /\ currentLine' = currentLine
      /\ run' = None /\ verifying' = None /\ tasks[Launcher] = NoTask
      /\ \A u \in Tasks \ {Launcher} : tasks'[u] = tasks[u]
      /\ tasks'[Launcher].at = IF sourceFile # f THEN "reading" ELSE "verify"
      /\ tasks'[Launcher].file = f /\ tasks'[Launcher].call = "setBreakPoint"
  BY <1>1, LauncherIsTask
     DEF SetBreakPoint, LoadSource, MayCall, Idle, BreakpointTask, NoTask, CoreInv, CoreType, TypeOK
<1>5. Named'
  BY <1>2, <1>4 DEF CoreInv, Named
<1>6. LaunchStages'
  BY <1>1, <1>4 DEF LaunchStages
<1>7. OneFile'
  <2>1. NoTask.at # "reading"
    BY DEF NoTask
  <2> QED
    BY <1>1, <1>4, <2>1 DEF CoreInv, OneFile
<1> QED
  BY <1>3, <1>4, <1>5, <1>6, <1>7, QuietKeeps DEF Visits

LEMMA LaunchRequestStep ==
  ASSUME CoreInv, NEW f \in Programs, NEW entry \in BOOLEAN, NEW debug \in BOOLEAN,
         LaunchRequest(f, entry, debug)
  PROVE  CoreInv'
<1>1. f \in Files /\ f # None
  BY ConstantsAssumption DEF ConstantsAssumption, LaunchRequest
<1>2. StartOf(f, entry) \in TaskRecord
  BY <1>1, NoTaskType DEF StartOf, TaskRecord
<1>3. /\ LoadSource(Launcher, StartOf(f, entry), "loaded") /\ Ids' = Ids
      /\ launch' = [file |-> f, debug |-> debug, at |-> "starting"]
      /\ launch.at = "applying" /\ UNCHANGED <<stepEvent, strayed>>
  BY DEF LaunchRequest, Start, stops, Ids
<1>4. tasks' \in [Tasks -> TaskRecord'] /\ sourceFile' \in Files \cup {None}
  BY <1>2, <1>3, LoadSourceTasks, LauncherIsTask DEF CoreInv, CoreType
<1>5. TypeOK'
  BY <1>3, <1>4 DEF LaunchRequest, Start, stops, CoreInv, CoreType, TypeOK, Ids
<1>6. CoreType'
  BY <1>1, <1>3, <1>5 DEF CoreInv, CoreType, LaunchRecord
<1>7. /\ sourceFile' = f /\ loaded' = loaded /\ currentLine' = currentLine
      /\ run' = None /\ verifying' = None /\ tasks[Launcher] = NoTask
      /\ \A u \in Tasks \ {Launcher} : tasks'[u] = tasks[u]
      /\ tasks'[Launcher].at = IF sourceFile # f THEN "reading" ELSE "loaded"
      /\ tasks'[Launcher].file = f
  BY <1>3, LauncherIsTask
     DEF LaunchRequest, Start, LoadSource, MayCall, Idle, StartOf, NoTask, CoreInv, CoreType, TypeOK
<1>8. Named' /\ LaunchStages'
  BY <1>1, <1>3, <1>7 DEF CoreInv, Named, LaunchStages
<1>9. OneFile'
  <2>1. NoTask.at # "reading"
    BY DEF NoTask
  <2> QED
    BY <1>3, <1>7, <2>1 DEF CoreInv, OneFile
<1> QED
  BY <1>6, <1>7, <1>8, <1>9, QuietKeeps DEF Visits

LEMMA EvaluateNewStep ==
  ASSUME CoreInv, NEW t \in Tasks, NEW l \in BpLines, EvaluateNew(t, l)
  PROVE  CoreInv'
<1>1. /\ SetBreakPoint(t, sourceFile, l)
      /\ strayed' = (strayed \/ launch.at # "begun" \/ sourceFile # launch.file)
      /\ launch' = launch /\ stepEvent' = stepEvent /\ t # Launcher /\ sourceFile # None
  BY DEF EvaluateNew, Stray
<1>2. CoreType'
  <2>1. strayed' \in BOOLEAN /\ TypeOK /\ sourceFile \in Files
    BY <1>1 DEF CoreInv, CoreType, TypeOK
  <2> QED
    BY <1>1, <2>1, BeginTypes DEF CoreInv, CoreType
<1>3. /\ sourceFile' = sourceFile /\ loaded' = loaded /\ currentLine' = currentLine
      /\ run' = None /\ verifying' = None
      /\ \A u \in Tasks \ {t} : tasks'[u] = tasks[u]
      /\ tasks'[t].at = "verify" /\ tasks'[t].file = sourceFile
  BY <1>1 DEF SetBreakPoint, LoadSource, MayCall, Idle, BreakpointTask, NoTask,
              CoreInv, CoreType, TypeOK
<1>4. Named' /\ LaunchStages'
  BY <1>1, <1>3, LauncherIsTask DEF CoreInv, Named, LaunchStages
<1>5. OneFile'
  BY <1>1, <1>3 DEF CoreInv, OneFile
<1> QED
  BY <1>2, <1>3, <1>4, <1>5, QuietKeeps DEF Visits
\* A call that holds an array gets a copy of it, and stays what it is.
LEMMA DetachedKeeps ==
  ASSUME TypeOK, NEW f \in Files
  PROVE  /\ Detached(f) \in [Tasks -> TaskRecord]
         /\ \A t \in Tasks : /\ Detached(f)[t].at = tasks[t].at /\ Detached(f)[t].file = tasks[t].file
                             /\ Detached(f)[t].call = tasks[t].call
                             /\ tasks[t] = NoTask => Detached(f)[t] = NoTask
<1>1. \A t \in Tasks : /\ tasks[t] \in TaskRecord
                       /\ [tasks[t] EXCEPT !.live = FALSE, !.held = breakPoints[f]] \in TaskRecord
  BY DEF TypeOK, TaskRecord
<1>2. \A t \in Tasks : Detached(f)[t] \in TaskRecord
  BY <1>1 DEF Detached
<1>3. Detached(f) \in [Tasks -> TaskRecord]
  BY <1>2 DEF Detached
<1>4. NoTask.live = FALSE
  BY DEF NoTask
<1> QED
  BY <1>1, <1>3, <1>4 DEF Detached, TaskRecord

LEMMA SetBreakPointsRequestStep ==
  ASSUME CoreInv, NEW f \in BpFiles, NEW ls \in LineLists, SetBreakPointsRequest(f, ls)
  PROVE  CoreInv'
<1> DEFINE more == [i \in 1 .. Len(ls) |-> [line |-> ls[i], verified |-> FALSE]]
           ids  == [i \in 1 .. Len(ls) |-> breakpointId + i - 1]
<1>1. /\ f \in Files /\ f # None /\ ls \in Seq(Int) /\ Len(ls) \in Nat
  BY ConstantsAssumption, NoneAssumption, InProcessAssumption
     DEF ConstantsAssumption, NoneAssumption, InProcessAssumption
<1>2. /\ breakpointId \in Nat \ {0} /\ breakpointId' = breakpointId + Len(ls)
      /\ breakpointId' \in Nat \ {0} /\ Ids \subseteq Ids'
  BY <1>1 DEF SetBreakPointsRequest, CoreInv, CoreType, TypeOK, Ids
<1>3. breakpoint' \in [Ids' -> Breakpoint]
  <2>1. breakpoint \in Seq(Breakpoint) /\ Len(breakpoint) = breakpointId - 1
    <3>1. breakpointId - 1 \in Nat /\ breakpoint \in [1 .. breakpointId - 1 -> Breakpoint]
      BY <1>2 DEF CoreInv, CoreType, TypeOK, Ids
    <3> QED
      BY <3>1
  <2>2. more \in Seq(Breakpoint) /\ Len(more) = Len(ls)
    BY <1>1 DEF Breakpoint
  <2>3. breakpoint' = breakpoint \o more
    BY DEF SetBreakPointsRequest
  <2> HIDE DEF more
  <2>4. breakpoint' \in Seq(Breakpoint) /\ Len(breakpoint') = breakpointId - 1 + Len(ls)
    <3>1. breakpoint \o more \in Seq(Breakpoint)
      BY <2>1, <2>2, ConcatProperties, Zenon
    <3>2. Len(breakpoint \o more) = Len(breakpoint) + Len(more)
      BY <2>1, <2>2, ConcatProperties
    <3> QED
      BY <2>1, <2>2, <2>3, <3>1, <3>2
  <2>5. Ids' = 1 .. Len(breakpoint')
    BY <2>4, <1>1, <1>2 DEF Ids
  <2> QED
    BY <2>4, <2>5, LenProperties
<1>4. breakPoints' \in [Files -> Seq(Ids')]
  <2>1. \A g \in Files : breakPoints[g] \in Seq(Ids')
    BY <1>2, SeqMonotonic DEF CoreInv, CoreType, TypeOK
  <2>2. ids \in Seq(Ids')
    BY <1>1, <1>2 DEF Ids
  <2>3. breakPoints' = [breakPoints EXCEPT ![f] = ids]
    BY DEF SetBreakPointsRequest
  <2> HIDE DEF ids
  <2> QED
    BY <2>1, <2>2, <2>3 DEF CoreInv, CoreType, TypeOK
<1>5. PICK calls \in SUBSET {t \in Tasks \ {Launcher} : tasks[t] = NoTask}, first \in Tasks :
        tasks' = [t \in Tasks |->
          IF t \notin calls THEN Detached(f)[t]
          ELSE [BreakpointTask(f) EXCEPT
                  !.at = IF t = first /\ sourceFile # f THEN "reading" ELSE "verify"]]
  BY DEF SetBreakPointsRequest
<1>6. \A T \in TaskRecord : T \in TaskRecord'
  <2>1. Seq(Ids) \subseteq Seq(Ids')
    BY <1>2, SeqMonotonic
  <2> QED
    BY <2>1 DEF TaskRecord, Stages
<1>7. \A t \in Tasks :
        IF t \notin calls THEN tasks'[t] = Detached(f)[t]
        ELSE /\ tasks'[t].at = IF t = first /\ sourceFile # f THEN "reading" ELSE "verify"
             /\ tasks'[t].file = f /\ tasks'[t] \in TaskRecord
  <2>1. BreakpointTask(f) \in TaskRecord /\ BreakpointTask(f).file = f
    BY <1>1, NoTaskType DEF BreakpointTask, TaskRecord, NoTask
  <2>2. \A at \in Stages : /\ [BreakpointTask(f) EXCEPT !.at = at] \in TaskRecord
                           /\ [BreakpointTask(f) EXCEPT !.at = at].file = f
                           /\ [BreakpointTask(f) EXCEPT !.at = at].at = at
    BY <2>1 DEF TaskRecord
  <2> QED
    BY <1>5, <2>2 DEF Stages
<1>8. /\ Detached(f) \in [Tasks -> TaskRecord]
      /\ \A t \in Tasks : /\ Detached(f)[t].at = tasks[t].at /\ Detached(f)[t].file = tasks[t].file
                          /\ Detached(f)[t].call = tasks[t].call
                          /\ tasks[t] = NoTask => Detached(f)[t] = NoTask
  BY <1>1, DetachedKeeps DEF CoreInv, CoreType
<1>9. tasks' \in [Tasks -> TaskRecord']
  <2>1. \A t \in Tasks : tasks'[t] \in TaskRecord'
    BY <1>6, <1>7, <1>8
  <2> QED
    BY <1>5, <2>1
<1>10. /\ sourceFile' = f /\ loaded' = loaded /\ currentLine' = currentLine /\ launch' = launch
       /\ strayed' = (strayed \/ launch.at # "begun" \/ f # launch.file) /\ stepEvent' = stepEvent
       /\ run' = None /\ verifying' = None
  BY DEF SetBreakPointsRequest, Stray, MayCall, Idle
<1>11. CoreType'
  <2>1. strayed' \in BOOLEAN
    BY <1>10
  <2> QED
    BY <1>1, <1>2, <1>3, <1>4, <1>9, <1>10, <2>1
       DEF SetBreakPointsRequest, CoreInv, CoreType, TypeOK
<1>12. Named'
  BY <1>1, <1>7, <1>8, <1>10 DEF CoreInv, Named
<1>13. LaunchStages'
  BY <1>5, <1>7, <1>8, <1>10, LauncherIsTask DEF CoreInv, LaunchStages
<1>14. OneFile'
  <2> SUFFICES ASSUME ~strayed' PROVE OneFile'
    BY DEF OneFile
  <2>1. ~strayed /\ launch.at = "begun" /\ f = launch.file /\ launch'.at = "begun"
    BY <1>10
  <2>2. /\ \A t \in Tasks : tasks[t].at # "reading"
        /\ sourceFile = f /\ loaded = f /\ currentLine \in Lines(loaded)
    BY <2>1 DEF CoreInv, OneFile
  <2>3. \A t \in Tasks : tasks'[t].at # "reading"
    BY <1>7, <1>8, <2>2
  <2> QED
    BY <1>10, <2>1, <2>2, <2>3 DEF OneFile
<1> QED
  BY <1>10, <1>11, <1>12, <1>13, <1>14, QuietKeeps DEF Visits

LEMMA ClearRequestStep ==
  ASSUME CoreInv, NEW f \in BpFiles, ClearRequest(f)
  PROVE  CoreInv'
<1>1. f \in Files
  BY ConstantsAssumption DEF ConstantsAssumption
<1>2. /\ Detached(f) \in [Tasks -> TaskRecord]
      /\ \A t \in Tasks : /\ Detached(f)[t].at = tasks[t].at /\ Detached(f)[t].file = tasks[t].file
                          /\ Detached(f)[t].call = tasks[t].call
                          /\ tasks[t] = NoTask => Detached(f)[t] = NoTask
  BY <1>1, DetachedKeeps DEF CoreInv, CoreType
<1>3. /\ tasks' = Detached(f) /\ UNCHANGED <<program, launch, stepEvent>>
      /\ strayed' = (strayed \/ launch.at # "begun" \/ f # launch.file)
      /\ run' = None /\ verifying' = None
  BY DEF ClearRequest, ClearBreakpoints, Stray, MayCall, Idle
<1>4. CoreType'
  <2>1. breakPoints' \in [Files -> Seq(Ids)] /\ strayed' \in BOOLEAN
    BY <1>3, EmptySeq DEF ClearRequest, ClearBreakpoints, CoreInv, CoreType, TypeOK
  <2> QED
    BY <1>2, <1>3, <2>1
       DEF ClearRequest, ClearBreakpoints, program, CoreInv, CoreType, TypeOK, TaskRecord, Ids
<1>5. Named' /\ LaunchStages' /\ OneFile'
  BY <1>2, <1>3, LauncherIsTask DEF CoreInv, program, Named, LaunchStages, OneFile
<1> QED
  BY <1>3, <1>4, <1>5, QuietKeeps DEF Visits

LEMMA EvaluateDelStep ==
  ASSUME CoreInv, NEW l \in BpLines, EvaluateDel(l)
  PROVE  CoreInv'
<1>1. /\ ClearBreakPoint(sourceFile, l) /\ sourceFile \in Files
      /\ UNCHANGED <<launch, stepEvent, strayed>>
  BY DEF EvaluateDel, client, CoreInv, CoreType, TypeOK
<1>2. PICK i \in DOMAIN breakPoints[sourceFile] :
        breakPoints' = [breakPoints EXCEPT ![sourceFile] = RemoveAt(breakPoints[sourceFile], i)]
  BY <1>1 DEF ClearBreakPoint
<1>3. RemoveAt(breakPoints[sourceFile], i) \in Seq(Ids)
  BY <1>1, RemoveAtType DEF CoreInv, CoreType, TypeOK
<1>4. breakPoints' \in [Files -> Seq(Ids)]
  BY <1>2, <1>3 DEF CoreInv, CoreType, TypeOK
<1>5. CoreType'
  BY <1>1, <1>4 DEF ClearBreakPoint, program, CoreInv, CoreType, TypeOK, TaskRecord, Ids
<1> QED
  BY <1>1, <1>5, SameTasksKeep DEF ClearBreakPoint, MayCall, Idle, program

LEMMA InitializeContentsStep ==
  ASSUME CoreInv, NEW t \in Tasks, InitializeContents(t)
  PROVE  CoreInv'
<1>1. /\ tasks[t] \in TaskRecord /\ tasks[t].file \in Files /\ Ids' = Ids
      /\ tasks[t].at = "reading" /\ sourceFile # None
      /\ UNCHANGED <<launch, stepEvent, strayed, sourceFile, currentLine>>
      /\ run' = None /\ verifying' = None /\ loaded' = tasks[t].file
  BY DEF InitializeContents, client, CoreInv, CoreType, TypeOK, TaskRecord, stops, Ids, Idle, Named
<1> DEFINE task == [tasks[t] EXCEPT !.at = AfterRead(tasks[t])]
<1>2. /\ task \in TaskRecord /\ task.file = tasks[t].file /\ task.call = tasks[t].call
      /\ task.at \in {"loaded", "verify"} /\ (task.at = "loaded" => task.call = "start")
  BY <1>1 DEF TaskRecord, Stages, AfterRead
<1>3. tasks' = [tasks EXCEPT ![t] = task]
  BY DEF InitializeContents
<1> HIDE DEF task
<1>4. CoreType'
  BY <1>1, <1>2, <1>3 DEF InitializeContents, stops, CoreInv, CoreType, TypeOK, TaskRecord
<1>5. tasks'[t] = task /\ \A u \in Tasks \ {t} : tasks'[u] = tasks[u]
  BY <1>3 DEF CoreInv, CoreType, TypeOK
<1>6. Named'
  BY <1>1, <1>2, <1>5, NoneAssumption DEF CoreInv, Named, NoneAssumption
<1>7. LaunchStages'
  <2>1. tasks[t] # NoTask
    BY <1>1 DEF NoTask
  <2> QED
    BY <1>1, <1>2, <1>5, <2>1, LauncherIsTask DEF CoreInv, LaunchStages
<1>8. OneFile'
  <2>1. tasks[t] # NoTask
    BY <1>1 DEF NoTask
  <2> QED
    BY <1>1, <1>2, <1>5, <2>1, LauncherIsTask DEF CoreInv, OneFile
<1> QED
  BY <1>1, <1>4, <1>6, <1>7, <1>8, QuietKeeps DEF Visits

LEMMA ReadRejectedStep ==
  ASSUME CoreInv, NEW t \in Tasks, ReadRejected(t)
  PROVE  CoreInv'
<1>1. /\ tasks' = [tasks EXCEPT ![t] = NoTask] /\ tasks[t].at = "reading"
      /\ UNCHANGED <<program, stops, stepEvent, strayed, events>> /\ run' = None /\ verifying' = None
      /\ launch' = IF t = Launcher THEN [launch EXCEPT !.at = "failed"] ELSE launch
  BY DEF ReadRejected, ReadFail, Rejected, Idle
<1>2. launch \in LaunchRecord /\ launch' \in LaunchRecord
  BY <1>1 DEF CoreInv, CoreType, LaunchRecord
<1>3. CoreType'
  BY <1>1, <1>2, NoTaskType DEF program, stops, CoreInv, CoreType, TypeOK, TaskRecord, Ids
<1>4. tasks'[t] = NoTask /\ \A u \in Tasks \ {t} : tasks'[u] = tasks[u]
  BY <1>1 DEF CoreInv, CoreType, TypeOK
<1>5. NoTask.at = "none" /\ NoTask.call = "none" /\ tasks[t] # NoTask
  BY <1>1 DEF NoTask
<1>6. t = Launcher => launch'.at = "failed"
  BY <1>1, <1>2 DEF LaunchRecord
<1>7. Named' /\ LaunchStages'
  BY <1>1, <1>4, <1>5, <1>6 DEF program, CoreInv, Named, LaunchStages
<1>8. OneFile'
  BY <1>1, <1>4, <1>5, <1>6, LauncherIsTask DEF program, CoreInv, OneFile
<1> QED
  BY <1>1, <1>3, <1>7, <1>8, QuietKeeps DEF Visits

LEMMA SourceLoadedStep ==
  ASSUME CoreInv, NEW t \in Tasks, SourceLoaded(t)
  PROVE  CoreInv'
<1> DEFINE task == IF launch.debug
                   THEN [tasks[t] EXCEPT !.at = "verify", !.file = sourceFile, !.live = TRUE]
                   ELSE [tasks[t] EXCEPT !.at = "finish"]
<1>1. /\ tasks[t] \in TaskRecord /\ tasks[t].at = "loaded" /\ sourceFile \in Files \cup {None}
      /\ sourceFile # None /\ tasks[t].file # None /\ tasks' = [tasks EXCEPT ![t] = task]
      /\ UNCHANGED <<program, stops, events, launch, stepEvent, strayed>>
      /\ run' = None /\ verifying' = None
  BY DEF SourceLoaded, client, Idle, CoreInv, CoreType, TypeOK, Named
<1>2. /\ task \in TaskRecord /\ task.file # None /\ task.at \in {"verify", "finish"}
  BY <1>1 DEF TaskRecord, Stages
<1> HIDE DEF task
<1>3. CoreType'
  BY <1>1, <1>2 DEF program, stops, CoreInv, CoreType, TypeOK, TaskRecord, Ids
<1>4. tasks[t] # NoTask
  BY <1>1 DEF NoTask
<1>5. t = Launcher => launch.at = "starting"
  BY <1>1, <1>4 DEF CoreInv, CoreType, LaunchRecord, LaunchStages
<1> QED
  BY <1>1, <1>2, <1>3, <1>4, <1>5, TaskMoveKeeps DEF program

-----------------------------------------------------------------------------
(* verifyBreakpoints.                                                       *)

LEMMA LocalVerifyStep ==
  ASSUME CoreInv, NEW t \in Tasks, Verify(t), UNCHANGED client
  PROVE  CoreInv'
<1>1. tasks[t] \in TaskRecord /\ tasks[t].at = "verify" /\ tasks[t].file # None
  BY DEF Verify, CoreInv, CoreType, TypeOK, Named
<1>2. (IF tasks[t].live THEN breakPoints[tasks[t].file] ELSE tasks[t].held) \in Seq(Ids)
  BY <1>1 DEF CoreInv, CoreType, TypeOK, TaskRecord
<1>3. CoreType'
  BY <1>2 DEF Verify, client, program, stops, CoreInv, CoreType, TypeOK, TaskRecord, Ids
<1>4. verifying'.task = t /\ run' = None
  BY DEF Verify, Idle
<1> QED
  BY <1>1, <1>3, <1>4, SameTasksKeep DEF Verify, client, program

\* What a visit of the forEach works on.
LEMMA VisitTypes ==
  ASSUME CoreInv, Visiting
  PROVE  /\ verifying \in [task : Tasks, todo : Seq(Ids)] /\ run = None
         /\ tasks[verifying.task].at = "verify"
         /\ Head(verifying.todo) \in Ids /\ Head(verifying.todo) \in Nat
         /\ [verifying EXCEPT !.todo = Tail(@)] \in [task : Tasks, todo : Seq(Ids)]
         /\ [verifying EXCEPT !.todo = Tail(@)].task = verifying.task
<1>1. verifying \in [task : Tasks, todo : Seq(Ids)] /\ verifying.todo # <<>>
  BY DEF Visiting, CoreInv, CoreType, TypeOK
<1>2. Head(verifying.todo) \in Ids /\ Tail(verifying.todo) \in Seq(Ids)
  BY <1>1, HeadTailProperties
<1>3. run = None /\ tasks[verifying.task].at = "verify"
  BY DEF Visiting, CoreInv, OneJob, Visits
<1>4. Head(verifying.todo) \in Nat
  BY <1>2 DEF Ids, CoreInv, CoreType, TypeOK
<1>5. PICK rest \in Seq(Ids) : rest = Tail(verifying.todo)
  BY <1>2
<1>6. /\ [verifying EXCEPT !.todo = rest] \in [task : Tasks, todo : Seq(Ids)]
      /\ [verifying EXCEPT !.todo = rest].task = verifying.task
  BY <1>1
<1> QED
  BY <1>1, <1>2, <1>3, <1>4, <1>5, <1>6

LEMMA PassStep ==
  ASSUME CoreInv, Pass
  PROVE  CoreInv'
<1>1. /\ verifying' \in [task : Tasks, todo : Seq(Ids)] /\ verifying'.task = verifying.task
      /\ run' = None /\ tasks[verifying.task].at = "verify"
  BY VisitTypes DEF Pass
<1>2. CoreType'
  BY <1>1 DEF Pass, client, program, stops, CoreInv, CoreType, TypeOK, TaskRecord, Ids
<1> QED
  BY <1>1, <1>2, SameTasksKeep DEF Pass, client, program

LEMMA ShiftType == \A l : Shift(l) \in {-1, 0, 1}
BY DEF Shift

LEMMA MoveAndVerifyStep ==
  ASSUME CoreInv, MoveAndVerify
  PROVE  CoreInv'
<1>1. /\ verifying' \in [task : Tasks, todo : Seq(Ids)] /\ verifying'.task = verifying.task
      /\ run' = None /\ tasks[verifying.task].at = "verify"
      /\ Head(verifying.todo) \in Ids /\ Head(verifying.todo) \in Nat
  BY VisitTypes DEF MoveAndVerify
<1> DEFINE id == Head(verifying.todo)
<1>2. PICK bp : bp = breakpoint[id]
  OBVIOUS
<1>3. bp \in Breakpoint
  BY <1>1, <1>2 DEF CoreInv, CoreType, TypeOK
<1>4. PICK more \in BOOLEAN : more = (<<loaded, bp.line>> \notin Lazy)
  OBVIOUS
<1>5. /\ breakpoint' = [breakpoint EXCEPT ![id] =
           [line |-> bp.line + Shift(bp.line), verified |-> bp.verified \/ more]]
      /\ Emit(IF more THEN <<Validated(id)>> ELSE <<>>)
  BY <1>2, <1>4, Zenon DEF MoveAndVerify, Visitee
<1>6. [line |-> bp.line + Shift(bp.line), verified |-> bp.verified \/ more] \in Breakpoint
  BY <1>3, ShiftType DEF Breakpoint
<1>7. breakpoint' \in [Ids -> Breakpoint]
  BY <1>1, <1>5, <1>6 DEF CoreInv, CoreType, TypeOK
<1>8. events' \in Seq(Event)
  <2>1. <<Validated(id)>> \in Seq(Event) /\ <<>> \in Seq(Event)
    BY <1>1, EventTypes
  <2> QED
    BY <1>5, <2>1, EmitType DEF CoreInv, CoreType, TypeOK
<1>9. CoreType'
  BY <1>1, <1>7, <1>8
     DEF MoveAndVerify, client, program, CoreInv, CoreType, TypeOK, TaskRecord, Ids
<1> QED
  BY <1>1, <1>9, SameTasksKeep DEF MoveAndVerify, client, program

LEMMA VerifyThrowsStep ==
  ASSUME CoreInv, VerifyThrows
  PROVE  CoreInv'
<1>1. PICK t \in Tasks : t = verifying.task
  BY VisitTypes DEF VerifyThrows
<1>2. /\ tasks' = [tasks EXCEPT ![t] = NoTask] /\ tasks[t].at = "verify"
      /\ UNCHANGED <<program, stops, stepEvent, strayed, events>> /\ run' = None /\ verifying' = None
      /\ launch' = IF t = Launcher THEN [launch EXCEPT !.at = "failed"] ELSE launch
  BY <1>1, VisitTypes DEF VerifyThrows, Rejected
<1>3. launch \in LaunchRecord /\ launch' \in LaunchRecord /\ (t = Launcher => launch'.at = "failed")
  BY <1>2 DEF CoreInv, CoreType, LaunchRecord
<1>4. CoreType'
  BY <1>2, <1>3, NoTaskType DEF program, stops, CoreInv, CoreType, TypeOK, TaskRecord, Ids
<1>5. NoTask.at = "none" /\ NoTask.call = "none"
  BY DEF NoTask
<1> QED
  BY <1>2, <1>3, <1>4, <1>5, TaskMoveKeeps DEF program

LEMMA LocalVerifiedStep ==
  ASSUME CoreInv, Verified, UNCHANGED client
  PROVE  CoreInv'
<1>1. PICK t \in Tasks : t = verifying.task /\ tasks[t].at = "verify" /\ run = None
  BY DEF Verified, CoreInv, CoreType, TypeOK, Visits, OneJob
<1>2. PICK task : task = IF tasks[t].call = "start"
                         THEN [tasks[t] EXCEPT !.at = "finish"] ELSE NoTask
  OBVIOUS
<1>3. /\ tasks' = [tasks EXCEPT ![t] = task] /\ run' = None /\ verifying' = None
      /\ UNCHANGED <<program, stops, events, launch, stepEvent, strayed>>
  BY <1>1, <1>2 DEF Verified, client
<1>4. tasks[t] \in TaskRecord /\ tasks[t].file # None /\ sourceFile # None /\ tasks[t] # NoTask
  BY <1>1 DEF CoreInv, CoreType, TypeOK, Named, NoTask
<1>5. /\ task \in TaskRecord /\ task.at \in {"none", "finish"}
      /\ task.at = "finish" => tasks[t].call = "start" /\ task.file # None
      /\ task.at = "none" => task = NoTask /\ task.call = "none"
  <2>1. CASE tasks[t].call = "start"
    BY <1>2, <1>4, <2>1 DEF TaskRecord, Stages
  <2>2. CASE tasks[t].call # "start"
    BY <1>2, <2>2, NoTaskType DEF NoTask
  <2> QED
    BY <2>1, <2>2
<1>6. CoreType'
  BY <1>3, <1>5 DEF program, stops, CoreInv, CoreType, TypeOK, TaskRecord, Ids
<1>7. t = Launcher => /\ launch.at \notin {"begun", "failed"}
                      /\ launch.at = "applying" => task = NoTask /\ task.call = "none"
  BY <1>4, <1>5 DEF CoreInv, LaunchStages
<1>8. /\ task.at # "none" => sourceFile # None /\ task.file # None
      /\ task.at # "reading" /\ tasks[t].at # "reading"
      /\ t = Launcher /\ launch'.at = "applying" =>
           task.call # "start" /\ task.at \notin {"loaded", "finish"}
      /\ t = Launcher /\ launch'.at \in {"begun", "failed"} => task = NoTask
  BY <1>1, <1>3, <1>4, <1>5, <1>7 DEF NoTask
<1> QED
  BY <1>3, <1>4, <1>6, <1>8, TaskMoveKeeps DEF program

-----------------------------------------------------------------------------
(* start, continue, step.                                                   *)

\* A run begins, of the launch or of a request after it.
LEMMA BeginKeepsCore ==
  ASSUME CoreInv, CoreType', OnText', run' \in RunRecord, Passed' = {}, verifying' = None,
         \/ /\ tasks[Launcher].at = "finish"
            /\ tasks' = [tasks EXCEPT ![Launcher] = NoTask]
            /\ launch' = [launch EXCEPT !.at = "begun"]
         \/ launch.at = "begun" /\ UNCHANGED <<tasks, launch>>,
         UNCHANGED <<sourceFile, loaded, currentLine, strayed>>
  PROVE  CoreInv'
<1>1. tasks \in [Tasks -> TaskRecord] /\ launch \in LaunchRecord /\ NoTask.at = "none"
  BY DEF CoreInv, CoreType, TypeOK, NoTask
<1>2. /\ launch'.at = "begun" /\ launch'.file = launch.file
      /\ tasks'[Launcher] = NoTask
      /\ \A u \in Tasks \ {Launcher} : tasks'[u] = tasks[u]
      /\ launch.at # "begun" => launch.at = "starting" /\ tasks[Launcher].at = "finish"
  BY <1>1, LauncherIsTask DEF CoreInv, LaunchStages, LaunchRecord
<1>3. OneJob' /\ Visits' /\ LaunchStages'
  BY <1>2 DEF OneJob, Visits, LaunchStages
<1>4. Named'
  BY <1>1, <1>2, LauncherIsTask DEF CoreInv, Named
<1>5. OneFile'
  <2>1. CASE launch.at = "begun"
    BY <1>1, <1>2, <2>1 DEF CoreInv, OneFile
  <2>2. CASE launch.at # "begun"
    <3>1. sourceFile \in Files /\ launch.at = "starting" /\ tasks[Launcher].at = "finish"
      BY <1>2, <2>2, LauncherIsTask DEF CoreInv, CoreType, TypeOK, Named
    <3>2. 0 \in Lines(sourceFile)
      BY <3>1, FirstLine
    <3> QED
      BY <1>1, <1>2, <3>1, <3>2 DEF CoreInv, OneFile
  <2> QED
    BY <2>1, <2>2
<1>6. NoBreakpointPassed'
  BY DEF NoBreakpointPassed
<1> QED
  BY <1>3, <1>4, <1>5, <1>6 DEF CoreInv

LEMMA FindEntryStep ==
  ASSUME CoreInv, FindEntry
  PROVE  CoreInv'
<1>1. PICK r : r = Running("step", FALSE)
  OBVIOUS
<1>2. r \in RunRecord /\ r.from = currentLine /\ ~r.reverse /\ currentLine \in Nat
  BY <1>1, RunningType DEF CoreInv, CoreType, TypeOK, Running
<1>3. /\ run' = [r EXCEPT !.at = "find"] /\ stepEvent' = "stopOnEntry"
      /\ UNCHANGED <<program, stops, events, strayed>> /\ verifying' = None
      /\ tasks[Launcher].at = "finish" /\ tasks' = [tasks EXCEPT ![Launcher] = NoTask]
      /\ launch' = [launch EXCEPT !.at = "begun"]
  BY <1>1 DEF FindEntry, Starting, Idle
<1>4. /\ run' \in RunRecord /\ run'.at = "find" /\ run'.from = currentLine /\ ~run'.reverse
  BY <1>2, <1>3 DEF RunRecord
<1>5. launch' \in LaunchRecord
  BY <1>3 DEF CoreInv, CoreType, LaunchRecord
<1>6. CoreType'
  BY <1>3, <1>4, <1>5, NoTaskType
     DEF program, stops, CoreInv, CoreType, TypeOK, TaskRecord, Ids
<1>7. Passed' = {}
  BY <1>2, <1>3, <1>4 DEF Passed, program
<1>8. OnText'
  BY <1>3, <1>4, InProcessAssumption DEF OnText, InProcessAssumption
<1> QED
  BY <1>3, <1>4, <1>6, <1>7, <1>8, BeginKeepsCore DEF program

LEMMA RunProgramStep ==
  ASSUME CoreInv, RunProgram
  PROVE  CoreInv'
<1>1. /\ run' = Running("continue", FALSE) /\ stepEvent' = None
      /\ UNCHANGED <<program, stops, events, strayed>> /\ verifying' = None
      /\ tasks[Launcher].at = "finish" /\ tasks' = [tasks EXCEPT ![Launcher] = NoTask]
      /\ launch' = [launch EXCEPT !.at = "begun"] /\ currentLine \in Lines(loaded)
  BY DEF RunProgram, Starting, Idle
<1>2. run' \in RunRecord /\ run'.at = "execute" /\ run'.from = currentLine /\ currentLine \in Nat
  BY <1>1, RunningType DEF CoreInv, CoreType, TypeOK, Running
<1>3. launch' \in LaunchRecord
  BY <1>1 DEF CoreInv, CoreType, LaunchRecord
<1>4. CoreType'
  BY <1>1, <1>2, <1>3, NoTaskType
     DEF program, stops, CoreInv, CoreType, TypeOK, TaskRecord, Ids
<1>5. Passed' = {}
  <2>1. currentLine' = currentLine
    BY <1>1 DEF program
  <2> QED
    BY <1>2, <2>1 DEF Passed
<1>6. OnText'
  BY <1>1 DEF OnText, program
<1> QED
  BY <1>1, <1>2, <1>4, <1>5, <1>6, BeginKeepsCore DEF program

LEMMA RunNothingStep ==
  ASSUME CoreInv, RunNothing
  PROVE  CoreInv'
<1>1. /\ UNCHANGED <<program, stops, events, strayed, run, stepEvent>>
      /\ run' = None /\ verifying' = None
      /\ tasks[Launcher].at = "finish" /\ tasks' = [tasks EXCEPT ![Launcher] = NoTask]
      /\ launch' = [launch EXCEPT !.at = "failed"]
  BY DEF RunNothing, Starting, Idle
<1>2. launch' \in LaunchRecord /\ launch'.at = "failed" /\ NoTask.at = "none"
  BY <1>1 DEF CoreInv, CoreType, LaunchRecord, NoTask
<1>3. CoreType'
  BY <1>1, <1>2, NoTaskType DEF program, stops, CoreInv, CoreType, TypeOK, TaskRecord, Ids
<1> QED
  BY <1>1, <1>2, <1>3, LauncherIsTask, TaskMoveKeeps DEF program

LEMMA RequestStep ==
  ASSUME CoreInv, NEW reverse \in Directions, ContinueRequest(reverse) \/ NextRequest(reverse)
  PROVE  CoreInv'
<1>1. PICK kind \in {"continue", "step"} : run' = Running(kind, reverse)
  BY DEF ContinueRequest, NextRequest, Continue, Step, Call
<1>2. /\ UNCHANGED <<program, stops, events, tasks, launch, strayed>> /\ verifying' = None
      /\ launch.at = "begun" /\ currentLine \in Lines(loaded)
      /\ stepEvent' \in {None, "stopOnStep", "stopOnEntry"}
  BY DEF ContinueRequest, NextRequest, Continue, Step, Call, MayCall, Idle
<1>3. run' \in RunRecord /\ run'.at = "execute" /\ run'.from = currentLine /\ currentLine \in Nat
  <2>1. reverse \in BOOLEAN
    BY ConstantsAssumption DEF ConstantsAssumption
  <2> QED
    BY <1>1, <2>1, RunningType DEF CoreInv, CoreType, TypeOK, Running
<1>4. CoreType'
  BY <1>2, <1>3 DEF program, stops, CoreInv, CoreType, TypeOK, TaskRecord, Ids
<1>5. Passed' = {} /\ OnText'
  BY <1>2, <1>3 DEF Passed, OnText, program
<1> QED
  BY <1>2, <1>3, <1>4, <1>5, BeginKeepsCore DEF program

LEMMA StepInstructionStep ==
  ASSUME CoreInv, NEW reverse \in Directions, StepInstruction(reverse)
  PROVE  CoreInv'
<1>1. instruction' \in Int
  BY InProcessAssumption DEF StepInstruction, InProcessAssumption
<1>2. events' \in Seq(Event)
  <2>1. /\ "stopOnStep" \in EventNames /\ events \in Seq(Event)
        /\ currentLine \in Int \cup {None}
    BY DEF EventNames, Stopped, CoreInv, CoreType, TypeOK
  <2> QED
    BY <2>1, EmitOne DEF StepInstruction
<1>3. CoreType'
  BY <1>1, <1>2 DEF StepInstruction, client, stops, CoreInv, CoreType, TypeOK, TaskRecord, Ids
<1>4. run' = None /\ verifying' = None
  BY DEF StepInstruction, MayCall, Idle
<1> QED
  BY <1>3, <1>4, SameTasksKeep DEF StepInstruction, client

LEMMA GotoStep ==
  ASSUME CoreInv, Goto
  PROVE  CoreInv'
<1>1. PICK c \in Int \cup {None} : SetColumn(c) /\ Idle
  <2>1. CASE StepIn
    BY <2>1 DEF StepIn, MayCall, CoreInv, CoreType, TypeOK
  <2>2. CASE StepOut
    BY <2>2 DEF StepOut, MayCall, CoreInv, CoreType, TypeOK
  <2>3. ASSUME NEW d \in Targets, StepInTarget(d)
        PROVE  \E e \in Int \cup {None} : SetColumn(e) /\ Idle
    BY <2>3, ConstantsAssumption DEF StepInTarget, MayCall, ConstantsAssumption
  <2> QED
    BY <2>1, <2>2, <2>3 DEF Goto
<1>2. events' \in Seq(Event)
  <2>1. /\ "stopOnStep" \in EventNames /\ events \in Seq(Event)
        /\ currentLine \in Int \cup {None}
    BY DEF EventNames, Stopped, CoreInv, CoreType, TypeOK
  <2> QED
    BY <1>1, <2>1, EmitOne DEF SetColumn
<1>3. CoreType'
  BY <1>1, <1>2 DEF Goto, SetColumn, client, stops, CoreInv, CoreType, TypeOK, TaskRecord, Ids
<1>4. run' = None /\ verifying' = None
  BY <1>1 DEF SetColumn, Idle
<1> QED
  BY <1>1, <1>3, <1>4, SameTasksKeep DEF Goto, SetColumn, client

LEMMA LocalSettingsStep ==
  ASSUME CoreInv,
         Settings \/ \E kinds \in [Edits -> AccessTypes] : SetDataBreakpointsRequest(kinds)
  PROVE  CoreInv'
<1>1. /\ run' = None /\ verifying' = None
      /\ UNCHANGED <<program, breakPoints, breakpoint, breakpointId, tasks, events, client>>
      /\ breakAddresses' \in [Names -> SUBSET {"read", "write"}]
      /\ filters' \in FilterRecord
      /\ instructionBreakpoints' \in SUBSET Int
  <2>1. ASSUME NEW S \in SUBSET Addresses, ChangeInstructionBreakpoints(S), UNCHANGED client
        PROVE  <1>1!1 /\ <1>1!2 /\ <1>1!3 /\ <1>1!4 /\ <1>1!5
    BY <2>1, ConstantsAssumption
       DEF ChangeInstructionBreakpoints, MayCall, Idle, CoreInv, CoreType, TypeOK,
           ConstantsAssumption
  <2>2. ASSUME NEW x \in Filters, SetExceptionsFilters(x), UNCHANGED client
        PROVE  <1>1!1 /\ <1>1!2 /\ <1>1!3 /\ <1>1!4 /\ <1>1!5
    BY <2>2, ConstantsAssumption
       DEF SetExceptionsFilters, MayCall, Idle, CoreInv, CoreType, TypeOK, ConstantsAssumption
  <2>3. ASSUME NEW kinds \in [Edits -> AccessTypes], SetDataBreakpointsRequest(kinds)
        PROVE  <1>1!1 /\ <1>1!2 /\ <1>1!3 /\ <1>1!4 /\ <1>1!5
    <3>1. \A n \in Names :
            (IF n \in Edits THEN kinds[n] ELSE {}) \in SUBSET {"read", "write"}
      BY InProcessAssumption DEF InProcessAssumption
    <3> QED
      BY <2>3, <3>1
         DEF SetDataBreakpointsRequest, MayCall, Idle, CoreInv, CoreType, TypeOK
  <2> QED
    BY <2>1, <2>2, <2>3 DEF Settings
<1>2. CoreType'
  BY <1>1 DEF program, client, CoreInv, CoreType, TypeOK, TaskRecord, Ids
<1> QED
  BY <1>1, <1>2, SameTasksKeep DEF program, client

LEMMA LocalDeliverStep ==
  ASSUME CoreInv, LocalDeliver
  PROVE  CoreInv'
<1>1. events' \in Seq(Event)
  BY HeadTailProperties DEF LocalDeliver, Deliver, CoreInv, CoreType, TypeOK
<1>2. CoreType'
  BY <1>1
     DEF LocalDeliver, Deliver, client, program, stops, CoreInv, CoreType, TypeOK, TaskRecord, Ids
<1>3. run' = None /\ verifying' = None
  BY DEF LocalDeliver, Deliver, Idle
<1> QED
  BY <1>2, <1>3, SameTasksKeep DEF LocalDeliver, Deliver, client, program

-----------------------------------------------------------------------------
(* The steps of a run.                                                      *)

LEMMA VisitedType ==
  ASSUME TypeOK, run # None
  PROVE  Visited \subseteq Int
<1>1. CASE currentLine \notin Lines(loaded)
  BY <1>1 DEF Visited
<1>2. CASE currentLine \in Lines(loaded)
  <2>1. loaded \in Files
    BY <1>2 DEF TypeOK, Lines, NumLines
  <2>2. Starts(loaded, currentLine) \in Int /\ Ends(loaded, currentLine) \in Int
    BY <1>2, <2>1, StartsType, EndsType
  <2> QED
    BY <1>2, <2>2 DEF Visited, TypeOK
<1> QED
  BY <1>1, <1>2

LEMMA WordsDoneType ==
  ASSUME TypeOK, WordsDone
  PROVE  instruction' \in Int
BY VisitedType DEF WordsDone, LastOf, TypeOK

LEMMA LineDoneType ==
  ASSUME TypeOK, LineDone
  PROVE  instruction' \in Int /\ variables' \in SUBSET Names
<1>1. Len(AccessesHere) \in 0 .. Len(AccessesHere)
  BY AccessesType
<1> QED
  BY <1>1, WordsDoneType, DeclaredType DEF LineDone

LEMMA LocalHitInstructionStep ==
  ASSUME CoreInv, HitInstruction, UNCHANGED client
  PROVE  CoreInv'
<1>1. instruction' \in Int
  BY VisitedType DEF HitInstruction, FirstOf, CoreInv, CoreType
<1>2. events' \in Seq(Event)
  <2>1. /\ "stopOnInstructionBreakpoint" \in EventNames
        /\ currentLine \in Int \cup {None} /\ events \in Seq(Event)
    BY DEF EventNames, Stopped, CoreInv, CoreType, TypeOK
  <2> QED
    BY <2>1, EmitOne DEF HitInstruction, StopWith
<1>3. CoreType'
  BY <1>1, <1>2
     DEF HitInstruction, StopWith, client, stops, CoreInv, CoreType, TypeOK, TaskRecord, Ids
<1> QED
  BY <1>3, StopKeepsCore DEF HitInstruction, StopWith, client

LEMMA LocalHitDataStep ==
  ASSUME CoreInv, HitData, UNCHANGED client
  PROVE  CoreInv'
<1>1. instruction' \in Int
  BY WordsDoneType DEF HitData, CoreInv, CoreType
<1>2. variables' \in SUBSET Names
  <2>1. PICK k \in DataHits : variables' = DeclaredBefore(k + 1)
    BY DEF HitData
  <2>2. k \in 0 .. Len(AccessesHere)
    BY DEF DataHits
  <2> QED
    BY <2>1, <2>2, DeclaredType DEF CoreInv, CoreType
<1>3. events' \in Seq(Event)
  <2>1. /\ "stopOnDataBreakpoint" \in EventNames
        /\ currentLine \in Int \cup {None} /\ events \in Seq(Event)
    BY DEF EventNames, Stopped, CoreInv, CoreType, TypeOK
  <2> QED
    BY <2>1, EmitOne DEF HitData, StopWith
<1>4. CoreType'
  BY <1>1, <1>2, <1>3
     DEF HitData, StopWith, client, stops, CoreInv, CoreType, TypeOK, TaskRecord, Ids
<1>5. run # None
  BY DEF HitData, WordsDone
<1> QED
  BY <1>4, <1>5, StopKeepsCore DEF HitData, StopWith, client

LEMMA LocalHitExceptionStep ==
  ASSUME CoreInv, HitException, UNCHANGED client
  PROVE  CoreInv'
<1>1. instruction' \in Int /\ variables' \in SUBSET Names
  BY LineDoneType DEF HitException, CoreInv, CoreType
<1>2. events' \in Seq(Event)
  <2>1. <<At("stopOnException", currentLine)>> \in Seq(Event)
    BY EventTypes DEF EventNames, Stopped, CoreInv, CoreType, TypeOK
  <2>2. OutputsHere \o <<At("stopOnException", currentLine)>> \in Seq(Event)
    BY <2>1, AccessesType, ConcatProperties DEF CoreInv, CoreType
  <2> QED
    BY <2>2, EmitType DEF HitException, StopWith, CoreInv, CoreType, TypeOK
<1>3. CoreType'
  BY <1>1, <1>2
     DEF HitException, LineDone, StopWith, client, stops, CoreInv, CoreType, TypeOK, TaskRecord, Ids
<1>4. run # None
  BY DEF HitException, LineDone, WordsDone
<1> QED
  BY <1>3, <1>4, StopKeepsCore DEF HitException, LineDone, StopWith, client

\* A run in its loop is on a line of a text it holds.
LEMMA RunLine ==
  ASSUME CoreInv, run # None, run.at # "find" \/ stepEvent = None
  PROVE  /\ run \in RunRecord /\ currentLine \in Lines(loaded) /\ loaded \in Files
         /\ Lines(loaded) = 0 .. NumLines(loaded) - 1 /\ NumLines(loaded) \in Nat
         /\ currentLine \in Nat
<1>1. currentLine \in Lines(loaded) /\ run \in RunRecord
  BY DEF CoreInv, CoreType, TypeOK, OnText
<1>2. loaded \in Files /\ currentLine \in Nat
  BY <1>1 DEF CoreInv, CoreType, TypeOK, Lines, NumLines
<1> QED
  BY <1>1, <1>2, LinesType

LEMMA LocalExecuteLineStep ==
  ASSUME CoreInv, ExecuteLine, UNCHANGED client
  PROVE  CoreInv'
<1>1. instruction' \in Int /\ variables' \in SUBSET Names
  BY LineDoneType DEF ExecuteLine, CoreInv, CoreType
<1>2. events' \in Seq(Event)
  BY AccessesType, EmitType DEF ExecuteLine, CoreInv, CoreType, TypeOK
<1>3. run \in RunRecord /\ run.at = "execute" /\ run # None
  BY DEF ExecuteLine, LineDone, WordsDone, CoreInv, CoreType, TypeOK
<1>4. /\ run' \in RunRecord /\ run' = [run EXCEPT !.at = "advance"]
      /\ run'.at = "advance" /\ run'.reverse = run.reverse /\ run'.from = run.from
  BY <1>3 DEF ExecuteLine, RunRecord
<1>5. CoreType'
  BY <1>1, <1>2, <1>4
     DEF ExecuteLine, LineDone, client, stops, CoreInv, CoreType, TypeOK, TaskRecord, Ids
<1>6. NoBreakpointPassed'
  <2>1. Passed' = Passed
    BY <1>3, <1>4 DEF Passed, ExecuteLine, LineDone
  <2>2. \A l : BreakpointsOn(l)' = BreakpointsOn(l)
    BY DEF BreakpointsOn, BreakpointsOf, ExecuteLine, LineDone, stops
  <2> QED
    BY <1>3, <2>1, <2>2 DEF NoBreakpointPassed, CoreInv
<1>7. OnText'
  BY <1>3, RunLine DEF OnText, ExecuteLine, LineDone
<1> QED
  BY <1>3, <1>5, <1>6, <1>7, RunKeeps DEF ExecuteLine, LineDone, client

\* The setter's instruction is one of the text.
LEMMA SetLineType ==
  ASSUME loaded \in Files, NEW l \in Lines(loaded), SetCurrentLine(l)
  PROVE  currentLine' = l /\ currentLine' \in Nat /\ instruction' \in Int
<1>1. Starts(loaded, l) \in Nat /\ l \in Nat
  BY StartsType, LinesType
<1> QED
  BY <1>1 DEF SetCurrentLine

LEMMA LocalUpdateCurrentLineStep ==
  ASSUME CoreInv, UpdateCurrentLine, UNCHANGED client
  PROVE  CoreInv'
<1>1. run # None /\ run.at = "advance" /\ run \in RunRecord
  BY DEF UpdateCurrentLine, CoreInv, CoreType, TypeOK
<1>2. loaded \in Files /\ currentLine \in Nat
  BY <1>1, RunLine
<1>3. NextLine \in Lines(loaded) /\ SetCurrentLine(NextLine)
  BY DEF UpdateCurrentLine
<1>4. currentLine' = NextLine /\ currentLine' \in Nat /\ instruction' \in Int
  BY <1>2, <1>3, SetLineType
<1>5. /\ run' \in RunRecord /\ run'.at = "find"
      /\ run'.reverse = run.reverse /\ run'.from = run.from
  BY <1>1 DEF UpdateCurrentLine, RunRecord
<1>6. CoreType'
  BY <1>4, <1>5 DEF UpdateCurrentLine, client, stops, CoreInv, CoreType, TypeOK, TaskRecord, Ids
<1>7. NoBreakpointPassed'
  <2>1. Passed' = Passed
    BY <1>1, <1>2, <1>4, <1>5 DEF Passed, NextLine, RunRecord
  <2>2. \A l : BreakpointsOn(l)' = BreakpointsOn(l)
    BY DEF BreakpointsOn, BreakpointsOf, UpdateCurrentLine, stops
  <2> QED
    BY <1>1, <2>1, <2>2 DEF NoBreakpointPassed, CoreInv
<1>8. OnText'
  BY <1>3, <1>4 DEF OnText, UpdateCurrentLine
<1> QED
  BY <1>1, <1>3, <1>4, <1>6, <1>7, <1>8, RunKeeps DEF UpdateCurrentLine, client

LEMMA LocalRunOffStep ==
  ASSUME CoreInv, RunOff, UNCHANGED client
  PROVE  CoreInv'
<1>1. /\ run # None /\ run.at = "advance" /\ run' = None
  BY DEF RunOff, StopWith
<1>2. loaded \in Files /\ currentLine \in Nat /\ 0 \in Lines(loaded)
  BY <1>1, RunLine, FirstLine
<1>3. /\ currentLine' \in Nat /\ instruction' \in Int
      /\ currentLine' = currentLine \/ currentLine' \in Lines(loaded)
  <2>1. CASE run.reverse
    BY <1>2, <2>1, SetLineType DEF RunOff
  <2>2. CASE ~run.reverse
    BY <1>2, <2>2 DEF RunOff, CoreInv, CoreType, TypeOK
  <2> QED
    BY <2>1, <2>2
<1>4. events' \in Seq(Event)
  <2>1. {"stopOnEntry", "end"} \subseteq EventNames /\ events \in Seq(Event)
    BY DEF EventNames, Stopped, CoreInv, CoreType, TypeOK
  <2> QED
    BY <2>1, EmitOne DEF RunOff, StopWith
<1>5. CoreType'
  BY <1>1, <1>3, <1>4 DEF RunOff, client, stops, CoreInv, CoreType, TypeOK, TaskRecord, Ids
<1> QED
  BY <1>1, <1>3, <1>5, StopKeepsCore DEF RunOff, client

\* What is looked at lies ahead, on lines of the text.
LEMMA AheadOnText ==
  ASSUME CoreInv, Finding
  PROVE  Statements \subseteq Lines(loaded) /\ (Statements # {} => loaded \in Files)
<1>1. currentLine \in Nat /\ loaded \in Files \cup {None}
  BY DEF CoreInv, CoreType, TypeOK
<1>2. NumLines(loaded) \in Nat /\ Lines(loaded) = 0 .. NumLines(loaded) - 1
      /\ (loaded = None => Lines(loaded) = {})
  BY <1>1, LinesType DEF NumLines, Lines
<1>3. currentLine \in Lines(loaded) \/ ~run.reverse
  BY DEF CoreInv, OnText, Finding
<1>4. Ahead \subseteq Lines(loaded)
  BY <1>1, <1>2, <1>3 DEF Ahead
<1> QED
  BY <1>1, <1>2, <1>4 DEF Statements

LEMMA FindsBreakpointStep ==
  ASSUME CoreInv, FindsBreakpoint
  PROVE  CoreInv'
<1>1. PICK l \in FirstOf(Statements) : \E i \in BreakpointsOn(l) :
        LET id == BreakpointsOf(sourceFile)[i]
        IN /\ SetCurrentLine(l)
           /\ breakpoint' = [breakpoint EXCEPT ![id].verified = TRUE]
           /\ StopWith(<<At("stopOnBreakpoint", l)>>
                         \o (IF breakpoint[id].verified THEN <<>> ELSE <<Validated(id)>>))
  BY DEF FindsBreakpoint
<1>2. PICK i \in BreakpointsOn(l) :
        /\ SetCurrentLine(l)
        /\ breakpoint' = [breakpoint EXCEPT ![BreakpointsOf(sourceFile)[i]].verified = TRUE]
        /\ StopWith(<<At("stopOnBreakpoint", l)>>
                      \o (IF breakpoint[BreakpointsOf(sourceFile)[i]].verified
                          THEN <<>> ELSE <<Validated(BreakpointsOf(sourceFile)[i])>>))
  BY <1>1
<1> DEFINE id == BreakpointsOf(sourceFile)[i]
<1>3. id \in Ids /\ id \in Nat
  <2>1. BreakpointsOf(sourceFile) \in Seq(Ids)
    BY EmptySeq DEF BreakpointsOf, CoreInv, CoreType, TypeOK
  <2>2. i \in DOMAIN BreakpointsOf(sourceFile)
    BY DEF BreakpointsOn
  <2>3. id \in Ids
    BY <2>1, <2>2, ElementOfSeq, LenProperties
  <2> QED
    BY <2>3 DEF Ids, CoreInv, CoreType, TypeOK
<1>4. l \in Lines(loaded) /\ loaded \in Files
  BY AheadOnText DEF FindsBreakpoint, FirstOf
<1>5. currentLine' = l /\ currentLine' \in Nat /\ instruction' \in Int
  BY <1>2, <1>4, SetLineType
<1>6. breakpoint' \in [Ids -> Breakpoint]
  BY <1>2, <1>3 DEF CoreInv, CoreType, TypeOK, Breakpoint
<1>7. events' \in Seq(Event)
  <2>1. "stopOnBreakpoint" \in EventNames /\ l \in Int \cup {None}
    BY <1>4, LinesType DEF EventNames, Stopped
  <2>2. /\ <<At("stopOnBreakpoint", l)>> \in Seq(Event)
        /\ <<Validated(id)>> \in Seq(Event) /\ <<>> \in Seq(Event)
    BY <1>3, <2>1, EventTypes
  <2> QED
    BY <1>2, <2>2, ConcatProperties, EmitType DEF StopWith, CoreInv, CoreType, TypeOK
<1>8. run' = None /\ run # None
  BY <1>2 DEF StopWith, FindsBreakpoint, Finding
<1>9. CoreType'
  BY <1>5, <1>6, <1>7, <1>8
     DEF FindsBreakpoint, client, CoreInv, CoreType, TypeOK, TaskRecord, Ids
<1> QED
  BY <1>4, <1>5, <1>8, <1>9, StopKeepsCore DEF FindsBreakpoint, client

\* Whatever line is no statement has no breakpoint, up to where the search ends.
LEMMA FindsStatementPassed ==
  ASSUME CoreInv, FindsStatement, run' # None
  PROVE  NoBreakpointPassed'
<1>1. /\ run # None /\ run.at = "find" /\ Reports(currentLine')
  BY DEF FindsStatement, Finding, SetCurrentLine
<1>2. stepEvent = None /\ run' = [run EXCEPT !.at = "execute"]
  BY <1>1 DEF Reports, StopWith
<1>3. /\ run \in RunRecord /\ currentLine \in Nat /\ currentLine \in Lines(loaded)
      /\ Lines(loaded) = 0 .. NumLines(loaded) - 1 /\ NumLines(loaded) \in Nat
  BY <1>1, <1>2, RunLine
<1>4. run'.at = "execute" /\ run'.reverse = run.reverse /\ run'.from = run.from /\ run.from \in Nat
  BY <1>2, <1>3 DEF RunRecord
<1>5. \A l : BreakpointsOn(l)' = BreakpointsOn(l)
  BY DEF BreakpointsOn, BreakpointsOf, FindsStatement, stops
<1>6. \A l \in Ahead : BreakpointsOn(l) # {} => l \in Statements
  BY DEF Statements
<1>7. /\ currentLine' \in Ahead
      /\ \A l \in Ahead : (IF run.reverse THEN currentLine' <= l ELSE l <= currentLine')
                            => BreakpointsOn(l) = {}
  <2>1. CASE Statements = {} /\ UNCHANGED currentLine
    BY <1>3, <1>6, <2>1 DEF Ahead
  <2>2. ASSUME NEW l \in FirstOf(Statements), BreakpointsOn(l) = {}, SetCurrentLine(l)
        PROVE  <1>7
    <3>1. currentLine' = l /\ l \in Ahead /\ Ahead \subseteq Int
      BY <1>3, <2>2 DEF SetCurrentLine, FirstOf, Statements, Ahead
    <3>2. \A m \in Ahead : BreakpointsOn(m) # {} => ~Sooner(m, l) /\ m # l
      BY <1>6, <2>2 DEF FirstOf
    <3> QED
      BY <3>1, <3>2 DEF Sooner
  <2> QED
    BY <2>1, <2>2 DEF FindsStatement
<1>8. \A l \in Passed' :
        \/ l \in Passed
        \/ /\ l \in Ahead
           /\ IF run.reverse THEN currentLine' <= l ELSE l <= currentLine'
  BY <1>1, <1>3, <1>4, <1>7 DEF Passed, Ahead
<1> QED
  BY <1>1, <1>5, <1>7, <1>8 DEF NoBreakpointPassed, CoreInv

LEMMA FindsStatementStep ==
  ASSUME CoreInv, FindsStatement
  PROVE  CoreInv'
<1>1. run # None /\ run \in RunRecord /\ run.at = "find" /\ Reports(currentLine')
  BY DEF FindsStatement, Finding, SetCurrentLine, CoreInv, CoreType, TypeOK
<1>2. /\ currentLine' \in Nat /\ instruction' \in Int
      /\ currentLine' = currentLine \/ currentLine' \in Lines(loaded)
  <2>1. CASE UNCHANGED <<currentLine, instruction>>
    BY <2>1 DEF CoreInv, CoreType, TypeOK
  <2>2. ASSUME NEW l \in FirstOf(Statements), SetCurrentLine(l)
        PROVE  <1>2
    <3>1. l \in Lines(loaded) /\ loaded \in Files
      BY AheadOnText DEF FindsStatement, FirstOf
    <3> QED
      BY <2>2, <3>1, SetLineType
  <2> QED
    BY <2>1, <2>2 DEF FindsStatement
<1>3. CASE stepEvent # None
  <2>1. run' = None /\ Emit(<<At(stepEvent, currentLine')>>)
    BY <1>1, <1>3 DEF Reports, StopWith
  <2>2. events' \in Seq(Event)
    <3>1. /\ stepEvent \in EventNames
          /\ currentLine' \in Int \cup {None} /\ events \in Seq(Event)
      BY <1>2, <1>3 DEF EventNames, Stopped, CoreInv, CoreType, TypeOK
    <3> QED
      BY <2>1, <3>1, EmitOne
  <2>3. CoreType'
    BY <1>2, <2>1, <2>2
       DEF FindsStatement, client, stops, CoreInv, CoreType, TypeOK, TaskRecord, Ids
  <2> QED
    BY <1>1, <1>2, <2>1, <2>3, StopKeepsCore DEF FindsStatement, client
<1>4. CASE stepEvent = None
  <2>1. run' = [run EXCEPT !.at = "execute"] /\ UNCHANGED events
    BY <1>1, <1>4 DEF Reports
  <2>2. run' \in RunRecord /\ run' # None
    BY <1>1, <2>1, ConstantsAssumption DEF RunRecord, ConstantsAssumption
  <2>3. CoreType'
    BY <1>2, <2>1, <2>2
       DEF FindsStatement, client, stops, CoreInv, CoreType, TypeOK, TaskRecord, Ids
  <2>4. OnText'
    BY <1>1, <1>2, <1>4, RunLine DEF OnText, FindsStatement
  <2> QED
    BY <1>1, <1>2, <2>2, <2>3, <2>4, FindsStatementPassed, RunKeeps DEF FindsStatement, client
<1> QED
  BY <1>3, <1>4

-----------------------------------------------------------------------------
(* The theorems.                                                            *)

LEMMA LocalRequestStep ==
  ASSUME CoreInv, LocalRequest
  PROVE  CoreInv'
<1>1. ASSUME NEW f \in BpFiles,
             \/ \E l \in BpLines : Reapply(f, l)
             \/ \E ls \in LineLists : SetBreakPointsRequest(f, ls)
             \/ ClearRequest(f)
      PROVE  CoreInv'
  BY <1>1, ReapplyStep, SetBreakPointsRequestStep, ClearRequestStep
<1>2. ASSUME NEW f \in Programs, NEW entry \in BOOLEAN, NEW debug \in BOOLEAN,
             LaunchRequest(f, entry, debug)
      PROVE  CoreInv'
  BY <1>2, LaunchRequestStep
<1>3. ASSUME NEW l \in BpLines, EvaluateDel(l) \/ \E t \in Tasks : EvaluateNew(t, l)
      PROVE  CoreInv'
  BY <1>3, EvaluateDelStep, EvaluateNewStep
<1>4. ASSUME NEW reverse \in Directions,
             ContinueRequest(reverse) \/ NextRequest(reverse) \/ StepInstruction(reverse)
      PROVE  CoreInv'
  BY <1>4, RequestStep, StepInstructionStep
<1>5. CASE Goto
  BY <1>5, GotoStep
<1>6. CASE Settings \/ \E kinds \in [Edits -> AccessTypes] : SetDataBreakpointsRequest(kinds)
  BY <1>6, LocalSettingsStep
<1> QED
  BY <1>1, <1>2, <1>3, <1>4, <1>5, <1>6 DEF LocalRequest

LEMMA LocalNextInv == LocalInv /\ [LocalNext]_localVars => LocalInv'
<1> SUFFICES ASSUME LocalInv, [LocalNext]_localVars PROVE LocalInv'
  OBVIOUS
<1>1. CASE LocalRequest /\ requests' = requests + 1
  BY <1>1, LocalRequestStep DEF LocalInv
<1>2. CASE Own(LocalRunStep)
  <2>1. CASE Execute
    BY <1>2, <2>1, LocalHitInstructionStep, LocalHitDataStep, LocalHitExceptionStep,
       LocalExecuteLineStep, LocalUpdateCurrentLineStep, LocalRunOffStep
       DEF Execute, Own, LocalInv
  <2>2. CASE FindsBreakpoint \/ FindsStatement
    BY <1>2, <2>2, FindsBreakpointStep, FindsStatementStep DEF Own, LocalInv
  <2> QED
    BY <1>2, <2>1, <2>2 DEF Own, LocalRunStep, LocalInv
<1>3. CASE Own(LocalVisit)
  BY <1>3, PassStep, MoveAndVerifyStep, VerifyThrowsStep, LocalVerifiedStep
     DEF Own, LocalVisit, LocalInv
<1>4. CASE Own(LocalDeliver)
  BY <1>4, LocalDeliverStep DEF Own, LocalInv
<1>5. ASSUME NEW t \in Tasks, Own(LocalTaskStep(t))
      PROVE  LocalInv'
  BY <1>5, InitializeContentsStep, ReadRejectedStep, SourceLoadedStep, LocalVerifyStep,
     FindEntryStep, RunProgramStep, RunNothingStep
     DEF Own, LocalTaskStep, LocalInv
<1>6. CASE UNCHANGED localVars
  <2>1. CoreType' /\ requests' \in Nat
    BY <1>6
       DEF localVars, client, vars, program, stops, LocalInv, CoreInv, CoreType, TypeOK,
           TaskRecord, Ids
  <2>2. OneJob' /\ Visits' /\ Named' /\ OnText' /\ LaunchStages' /\ OneFile'
    BY <1>6
       DEF localVars, client, vars, program, stops, LocalInv, CoreInv, OneJob, Visits, Named,
           OnText, LaunchStages, OneFile
  <2>3. NoBreakpointPassed'
    BY <1>6
       DEF localVars, client, vars, program, stops, LocalInv, CoreInv, NoBreakpointPassed,
           Passed, BreakpointsOn, BreakpointsOf
  <2> QED
    BY <2>1, <2>2, <2>3 DEF LocalInv, CoreInv
<1> QED
  BY <1>1, <1>2, <1>3, <1>4, <1>5, <1>6 DEF LocalNext

\* The invariant of the proofs, for every text, mark, client and bound.
THEOREM LocalInvariant == LocalSpec => []LocalInv
<1>1. LocalInit => LocalInv
  BY LocalInitInv
<1>2. LocalInv /\ [LocalNext]_localVars => LocalInv'
  BY LocalNextInv
<1> QED
  BY <1>1, <1>2, PTL DEF LocalSpec

\* Every variable keeps its type: whatever verification moves or throws away,
\* no id is held of a breakpoint that was never created (mockRuntime.ts:229-241,
\* 632-675).
THEOREM LocalTypeCorrect == LocalSpec => []LocalTypeOK
<1>1. LocalInv => LocalTypeOK
  BY DEF LocalInv, CoreInv, CoreType, LocalTypeOK
<1> QED
  BY <1>1, LocalInvariant, PTL

\* The program that was launched is the one that is debugged, on one of its
\* lines, as long as the client keeps to it (mockRuntime.ts:108, 147-166).
THEOREM OneFileOnly == LocalSpec => []OneFileDebugged
<1>1. LocalInv => OneFileDebugged
  BY DEF LocalInv, CoreInv, OneFile, OneFileDebugged
<1> QED
  BY <1>1, LocalInvariant, PTL

LEMMA LocalNoneInFront ==
  ASSUME LocalInv, RunOff, NEW l \in InFront
  PROVE  BreakpointsOn(l) = {}
<1>1. run # None /\ run.at = "advance" /\ NextLine \notin Lines(loaded)
  BY DEF RunOff
<1>2. /\ run \in RunRecord /\ currentLine \in Lines(loaded) /\ currentLine \in Nat
      /\ Lines(loaded) = 0 .. NumLines(loaded) - 1 /\ NumLines(loaded) \in Nat
  BY <1>1, RunLine DEF LocalInv
<1>3. l \in Passed
  <2>1. run.from \in Nat
    BY <1>2 DEF RunRecord
  <2>2. /\ ~run.reverse => NumLines(loaded) - 1 <= currentLine
        /\ run.reverse => currentLine <= 0
    BY <1>1, <1>2 DEF NextLine
  <2> QED
    BY <1>1, <1>2, <2>1, <2>2 DEF InFront, Passed
<1> QED
  BY <1>1, <1>3 DEF LocalInv, CoreInv, NoBreakpointPassed

\* A run that leaves the program has met every breakpoint in front of the line
\* it started on, those that verification moved included (mockRuntime.ts:465-510).
THEOREM EndsPastThemAll == LocalSpec => EndsPastAll
<1>1. LocalInv /\ [LocalNext]_localVars
        => [RunOff => \A l \in InFront : BreakpointsOn(l) = {}]_localVars
  BY LocalNoneInFront
<1> QED
  BY <1>1, LocalInvariant, PTL DEF LocalSpec, EndsPastAll

\* The run of this runtime comes nearer to its end as the engine's does.
LEMMA LocalRunShrinks ==
  ASSUME LocalInv, LocalRunStep, run' # None
  PROVE  StepsLeft' \in 0 .. StepsLeft - 1
<1>1. TypeOK
  BY DEF LocalInv, CoreInv, CoreType
<1>2. CASE Execute
  BY <1>1, <1>2, ExecuteShrinks, AdvanceShrinks
     DEF Execute, HitInstruction, HitData, HitException, RunOff, StopWith
<1>3. CASE FindsBreakpoint
  BY <1>3 DEF FindsBreakpoint, StopWith
<1>4. CASE FindsStatement
  <2>1. Finding /\ UNCHANGED loaded
    BY <1>4 DEF FindsStatement
  <2>2. PICK l \in Ahead \cup {currentLine} : currentLine' = l /\ Reports(l)
    BY <1>4 DEF FindsStatement, FirstOf, Statements, SetCurrentLine
  <2>3. run' = [run EXCEPT !.at = "execute"]
    BY <2>2 DEF Reports, StopWith
  <2> QED
    BY <1>1, <2>1, <2>2, <2>3, SearchShrinks
<1> QED
  BY <1>2, <1>3, <1>4 DEF LocalRunStep

LEMMA NothingElseLocally ==
  ASSUME LocalInv, LocalNext, run # None
  PROVE  LocalRunStep
<1>1. ~MayCall /\ ~Idle /\ verifying = None
  BY DEF Idle, MayCall, LocalInv, CoreInv, OneJob
<1>2. ~LocalRequest
  BY <1>1 DEF LocalRequest, Reapply, SetBreakPoint, SetBreakPointsRequest, ClearRequest,
     ClearBreakpoints, LaunchRequest, Start, EvaluateDel, ClearBreakPoint, EvaluateNew,
     ContinueRequest, Continue, NextRequest, Step, Call, StepInstruction, Goto, StepIn, StepOut,
     StepInTarget, Settings, ChangeInstructionBreakpoints, SetExceptionsFilters,
     SetDataBreakpointsRequest
<1>3. ~LocalVisit
  BY <1>1 DEF LocalVisit, Pass, MoveAndVerify, VerifyThrows, Visiting, Verified
<1>4. \A t \in Tasks : ~LocalTaskStep(t)
  BY <1>1 DEF LocalTaskStep, InitializeContents, ReadRejected, ReadFail, SourceLoaded, Verify,
     FindEntry, RunProgram, RunNothing, Starting
<1> QED
  BY <1>1, <1>2, <1>3, <1>4 DEF LocalNext, Own, LocalDeliver, Deliver

\* Every step of a run brings it nearer to its end, started on entry, left beside its line
\* by a step of one instruction, or meeting lazy breakpoints (mockRuntime.ts:167-190, 213-228, 500-600).
THEOREM LocalRunsComeNearer ==
  LocalSpec => [][run # None /\ run' # None => StepsLeft' \in 0 .. StepsLeft - 1]_localVars
<1>1. LocalInv /\ [LocalNext]_localVars
        => [run # None /\ run' # None => StepsLeft' \in 0 .. StepsLeft - 1]_localVars
  BY NothingElseLocally, LocalRunShrinks
<1> QED
  BY <1>1, LocalInvariant, PTL DEF LocalSpec

LEMMA VerifiedUnmoved ==
  ASSUME LocalInv, LocalNext, NEW id \in Ids, breakpoint[id].verified
  PROVE  breakpoint'[id] = breakpoint[id]
<1>1. breakpoint \in [Ids -> Breakpoint] /\ breakpointId \in Nat \ {0}
  BY DEF LocalInv, CoreInv, CoreType, TypeOK
<1>2. breakpoint \in Seq(Breakpoint) /\ id \in 1 .. Len(breakpoint)
  <2>1. breakpointId - 1 \in Nat /\ breakpoint \in [1 .. breakpointId - 1 -> Breakpoint]
    BY <1>1 DEF Ids
  <2> QED
    BY <2>1 DEF Ids
<1>3. ASSUME NEW t \in Tasks, NEW f, NEW l, SetBreakPoint(t, f, l)
      PROVE  breakpoint'[id] = breakpoint[id]
  <2>1. breakpoint' = Append(breakpoint, [line |-> l, verified |-> FALSE])
    BY <1>3 DEF SetBreakPoint
  <2> QED
    BY <1>2, <2>1
<1>4. ASSUME NEW f \in BpFiles, NEW ls \in LineLists, SetBreakPointsRequest(f, ls)
      PROVE  breakpoint'[id] = breakpoint[id]
  <2>1. ls \in Seq(Int) /\ Len(ls) \in Nat
    BY InProcessAssumption DEF InProcessAssumption
  <2>2. PICK more : /\ more = [i \in 1 .. Len(ls) |-> [line |-> ls[i], verified |-> FALSE]]
                    /\ breakpoint' = breakpoint \o more
    BY <1>4 DEF SetBreakPointsRequest
  <2>3. more \in Seq(Breakpoint)
    BY <2>1, <2>2 DEF Breakpoint
  <2> QED
    BY <1>2, <2>2, <2>3, ConcatProperties
<1>5. CASE MoveAndVerify
  <2>1. Head(verifying.todo) \in Ids /\ Head(verifying.todo) # id
    BY <1>5, VisitTypes DEF MoveAndVerify, Due, Visitee, LocalInv
  <2> QED
    BY <1>1, <1>5, <2>1 DEF MoveAndVerify
<1>6. CASE FindsBreakpoint
  BY <1>1, <1>6 DEF FindsBreakpoint, Breakpoint
<1>7. CASE UNCHANGED breakpoint
  BY <1>7
<1>8. CASE LocalRequest
  <2>1. ASSUME NEW f \in BpFiles, NEW l \in BpLines, Reapply(f, l)
        PROVE  breakpoint'[id] = breakpoint[id]
    BY <1>3, <2>1, LauncherIsTask DEF Reapply
  <2>2. ASSUME NEW l \in BpLines, NEW t \in Tasks, EvaluateNew(t, l)
        PROVE  breakpoint'[id] = breakpoint[id]
    BY <1>3, <2>2 DEF EvaluateNew
  <2>3. ASSUME LocalRequest,
               ~\E f \in BpFiles : \/ \E l \in BpLines : Reapply(f, l)
                                   \/ \E ls \in LineLists : SetBreakPointsRequest(f, ls),
               ~\E l \in BpLines, t \in Tasks : EvaluateNew(t, l)
        PROVE  UNCHANGED breakpoint
    BY <2>3
       DEF LocalRequest, ClearRequest, ClearBreakpoints, LaunchRequest, Start, EvaluateDel,
           ClearBreakPoint, ContinueRequest, NextRequest, Continue, Step, Call, StepInstruction,
           Goto, StepIn, StepOut, StepInTarget, SetColumn, Settings,
           ChangeInstructionBreakpoints, SetExceptionsFilters, SetDataBreakpointsRequest, stops
  <2> QED
    BY <1>4, <1>7, <1>8, <2>1, <2>2, <2>3
<1>9. CASE /\ ~LocalRequest /\ ~MoveAndVerify /\ ~FindsBreakpoint
  <2>1. UNCHANGED breakpoint
    BY <1>9
       DEF LocalNext, Own, LocalRunStep, Execute, HitInstruction, HitData, HitException,
           ExecuteLine, LineDone, UpdateCurrentLine, RunOff, FindsStatement, LocalVisit, Pass,
           VerifyThrows, Verified, LocalDeliver, Deliver, LocalTaskStep, InitializeContents,
           ReadRejected, ReadFail, SourceLoaded, Verify, FindEntry, RunProgram, RunNothing,
           Starting, stops
  <2> QED
    BY <1>7, <2>1
<1> QED
  BY <1>5, <1>6, <1>8, <1>9

\* A verified breakpoint is neither moved nor taken back (mockRuntime.ts:645-675).
THEOREM VerifiedStaysPut == LocalSpec => StaysPut
<1>1. LocalInv /\ [LocalNext]_localVars
        => [\A id \in Ids : breakpoint[id].verified => breakpoint'[id] = breakpoint[id]]_localVars
  BY VerifiedUnmoved
<1> QED
  BY <1>1, LocalInvariant, PTL DEF LocalSpec, StaysPut

-----------------------------------------------------------------------------
(* The runtime as RunControl sees it.                                       *)

LEMMA LocalRequestSeen ==
  ASSUME CoreInv, LocalRequest
  PROVE  Control!Next \/ UNCHANGED Control!vars
<1>0. TypeOK /\ Launcher \in Tasks
  BY LauncherIsTask DEF CoreInv, CoreType
<1>1. ASSUME NEW f \in BpFiles, NEW l \in BpLines, Reapply(f, l)
      PROVE  UNCHANGED Control!vars
  BY <1>0, <1>1, SetSeen DEF Reapply
<1>2. ASSUME NEW f \in BpFiles, NEW ls \in LineLists, SetBreakPointsRequest(f, ls)
      PROVE  UNCHANGED Control!vars
  <2>1. PICK calls \in SUBSET {t \in Tasks \ {Launcher} : tasks[t] = NoTask}, first \in Tasks :
          tasks' = [t \in Tasks |->
            IF t \notin calls THEN Detached(f)[t]
            ELSE [BreakpointTask(f) EXCEPT
                    !.at = IF t = first /\ sourceFile # f THEN "reading" ELSE "verify"]]
    BY <1>2 DEF SetBreakPointsRequest
  <2>2. ASSUME NEW t \in Tasks
        PROVE  tasks'[t].call = "start" <=> tasks[t].call = "start"
    <3>1. CASE t \in calls
      <4>1. tasks[t] = NoTask /\ NoTask.call = "none"
        BY <2>1, <3>1 DEF NoTask
      <4>2. PICK at : tasks'[t] = [BreakpointTask(f) EXCEPT !.at = at]
        BY <2>1, <3>1
      <4>3. tasks'[t].call = "setBreakPoint"
        BY <4>2 DEF BreakpointTask, NoTask
      <4> QED
        BY <4>1, <4>3
    <3>2. CASE t \notin calls
      <4>1. f \in Files
        BY ConstantsAssumption DEF ConstantsAssumption
      <4> QED
        BY <1>0, <2>1, <3>2, <4>1, DetachedKeeps
    <3> QED
      BY <3>1, <3>2
  <2>3. Launches' = Launches
    BY <2>2 DEF Launches
  <2> QED
    BY <1>2, <2>3, SeenNothing DEF SetBreakPointsRequest
<1>3. ASSUME NEW f \in BpFiles, ClearRequest(f)
      PROVE  UNCHANGED Control!vars
  BY <1>0, <1>3, ClearSeen DEF ClearRequest
<1>4. ASSUME NEW f \in Programs, NEW entry \in BOOLEAN, NEW debug \in BOOLEAN,
             LaunchRequest(f, entry, debug)
      PROVE  Control!Next
  BY <1>0, <1>4, LaunchSeen DEF LaunchRequest
<1>5. ASSUME NEW l \in BpLines, NEW t \in Tasks, EvaluateNew(t, l)
      PROVE  UNCHANGED Control!vars
  BY <1>0, <1>5, SetSeen DEF EvaluateNew
<1>6. ASSUME NEW reverse \in Directions, ContinueRequest(reverse) \/ NextRequest(reverse)
      PROVE  Control!Next
  BY <1>0, <1>6, CallSeen DEF ContinueRequest, NextRequest
<1>7. ASSUME NEW reverse \in Directions, StepInstruction(reverse)
      PROVE  Control!Next
  <2>1. run = None /\ run' = None /\ Emit(<<At("stopOnStep", currentLine)>>) /\ tasks' = tasks
    BY <1>7 DEF StepInstruction, MayCall, Idle
  <2>2. Launches' = Launches
    BY <2>1 DEF Launches
  <2> QED
    BY <1>0, <2>1, <2>2, JustOneNotice, SeenAtOnce DEF Stopped, TypeOK
<1>8. CASE Goto
  BY <1>0, <1>8, AtOnceSeen DEF Goto
<1>9. CASE \/ \E l \in BpLines : EvaluateDel(l)
           \/ Settings
           \/ \E kinds \in [Edits -> AccessTypes] : SetDataBreakpointsRequest(kinds)
  <2>1. UNCHANGED <<run, tasks, events>>
    BY <1>9 DEF EvaluateDel, ClearBreakPoint, Settings, ChangeInstructionBreakpoints,
        SetExceptionsFilters, SetDataBreakpointsRequest
  <2> QED
    BY <2>1, SettingSeen
<1> QED
  BY <1>1, <1>2, <1>3, <1>4, <1>5, <1>6, <1>7, <1>8, <1>9 DEF LocalRequest

LEMMA LocalRunSeen ==
  ASSUME CoreInv, LocalRunStep
  PROVE  Control!Next \/ UNCHANGED Control!vars
<1>0. /\ TypeOK /\ events \in Seq(Event) /\ currentLine \in Int
      /\ run \in RunRecord \cup {None} /\ None \notin RunRecord
  BY ConstantsAssumption DEF CoreInv, CoreType, TypeOK, ConstantsAssumption
<1>1. CASE Execute
  BY <1>0, <1>1, ExecutionSeen DEF Execute
<1>2. CASE FindsBreakpoint
  <2>1. PICK l \in FirstOf(Statements) : \E i \in BreakpointsOn(l) :
          StopWith(<<At("stopOnBreakpoint", l)>>
                     \o (IF breakpoint[BreakpointsOf(sourceFile)[i]].verified THEN <<>>
                         ELSE <<Validated(BreakpointsOf(sourceFile)[i])>>))
    BY <1>2 DEF FindsBreakpoint
  <2>2. PICK i \in BreakpointsOn(l) :
          StopWith(<<At("stopOnBreakpoint", l)>>
                     \o (IF breakpoint[BreakpointsOf(sourceFile)[i]].verified THEN <<>>
                         ELSE <<Validated(BreakpointsOf(sourceFile)[i])>>))
    BY <2>1
  <2> DEFINE stop == At("stopOnBreakpoint", l)
             note == Validated(BreakpointsOf(sourceFile)[i])
  <2>3. l \in Int
    BY <1>2, <2>1, AheadOnText, LinesType DEF FindsBreakpoint, FirstOf
  <2>4. BreakpointsOf(sourceFile)[i] \in Nat
    <3>1. BreakpointsOf(sourceFile) \in Seq(Ids) /\ i \in DOMAIN BreakpointsOf(sourceFile)
      BY <1>0, <2>2, EmptySeq DEF BreakpointsOf, BreakpointsOn, TypeOK
    <3> QED
      BY <1>0, <3>1, ElementOfSeq, LenProperties DEF Ids, TypeOK
  <2>5. stop \in Event /\ note \in Event /\ MessageOf(stop) # "info" /\ MessageOf(note) = "info"
    BY <2>3, <2>4, EventTypes DEF EventNames, Stopped, MessageOf, At, Validated
  <2>6. StopWith(<<stop>>) \/ StopWith(<<stop, note>>)
    <3>1. <<stop>> \o <<>> = <<stop>> /\ <<stop>> \o <<note>> = <<stop, note>>
      BY <2>5, JoinedTuples
    <3>2. CASE breakpoint[BreakpointsOf(sourceFile)[i]].verified
      BY <2>2, <3>1, <3>2
    <3>3. CASE ~breakpoint[BreakpointsOf(sourceFile)[i]].verified
      BY <2>2, <3>1, <3>3
    <3> QED
      BY <3>2, <3>3
  <2>7. run # None /\ Launches' = Launches
    BY <1>2 DEF FindsBreakpoint, Finding, Launches
  <2>8. CASE StopWith(<<stop>>)
    BY <1>0, <2>3, <2>7, <2>8, StopSeen DEF Stopped
  <2>9. CASE StopWith(<<stop, note>>)
    BY <1>0, <2>5, <2>7, <2>9, StopAndInformation
  <2> QED
    BY <2>6, <2>8, <2>9
<1>3. CASE FindsStatement
  <2>1. run # None /\ Launches' = Launches
    BY <1>3 DEF FindsStatement, Finding, Launches
  <2>2. PICK l \in Int : Reports(l)
    BY <1>0, <1>3, AheadOnText, LinesType DEF FindsStatement, FirstOf
  <2>3. CASE stepEvent # None
    <3>1. stepEvent \in Stopped
      BY <2>3 DEF CoreInv, CoreType, Stopped
    <3> QED
      BY <1>0, <2>1, <2>2, <2>3, <3>1, StopSeen DEF Reports
  <2>4. CASE stepEvent = None
    <3>1. run' # None /\ events' = events
      BY <1>0, <2>1, <2>2, <2>4 DEF Reports, RunRecord
    <3> QED
      BY <2>1, <3>1, SeenNothing
  <2> QED
    BY <2>3, <2>4
<1> QED
  BY <1>1, <1>2, <1>3 DEF LocalRunStep

LEMMA LocalVisitSeen ==
  ASSUME CoreInv, LocalVisit
  PROVE  Control!Next \/ UNCHANGED Control!vars
<1>0. TypeOK /\ events \in Seq(Event)
  BY DEF CoreInv, CoreType, TypeOK
<1>1. CASE Pass
  BY <1>1, SettingSeen DEF Pass
<1>2. CASE MoveAndVerify
  <2>1. run' = run /\ tasks' = tasks /\ Head(verifying.todo) \in Nat
    BY <1>2, VisitTypes DEF MoveAndVerify
  <2>2. Launches' = Launches
    BY <2>1 DEF Launches
  <2>3. CASE Emit(<<>>)
    <3>1. events' = events
      BY <1>0, <2>3, ConcatEmptySeq DEF Emit
    <3> QED
      BY <2>1, <2>2, <3>1, SeenNothing
  <2>4. CASE Emit(<<Validated(Head(verifying.todo))>>)
    <3> DEFINE note == Validated(Head(verifying.todo))
               es == <<note>>
    <3>1. note \in Event /\ MessageOf(note) = "info"
      BY <2>1, EventTypes DEF MessageOf, Validated, Stopped
    <3>2. es \in Seq(Event) /\ Len(es) = 1 /\ es[1] = note /\ Emit(es)
      BY <2>4, <3>1, ShortTuples
    <3> HIDE DEF es
    <3>3. \A i \in 1 .. Len(es) : MessageOf(es[i]) = "info"
      BY <3>1, <3>2
    <3>4. Control!OnlyInfo
      BY <1>0, <3>2, <3>3, OnlyInformation
    <3> QED
      BY <2>1, <2>2, <3>4, SeenInform
  <2> QED
    BY <1>2, <2>3, <2>4 DEF MoveAndVerify
<1>3. CASE VerifyThrows
  <2>1. PICK t \in Tasks : t = verifying.task
    BY <1>3, VisitTypes DEF VerifyThrows
  <2>2. /\ Launches' = Launches \/ \E u \in Launches : Launches' = Launches \ {u}
        /\ UNCHANGED <<run, events>>
    BY <1>0, <1>3, <2>1, TaskEnds DEF VerifyThrows, TypeOK
  <2> QED
    BY <2>2, LaunchOverSeen
<1>4. CASE Verified
  BY <1>0, <1>4, VisitSeen
<1> QED
  BY <1>1, <1>2, <1>3, <1>4 DEF LocalVisit

LEMMA LocalTaskSeen ==
  ASSUME CoreInv, NEW t \in Tasks, LocalTaskStep(t)
  PROVE  Control!Next \/ UNCHANGED Control!vars
<1>0. /\ TypeOK /\ tasks \in [Tasks -> TaskRecord] /\ events \in Seq(Event)
      /\ Launcher \in Tasks
  BY LauncherIsTask DEF CoreInv, CoreType, TypeOK
<1>1. CASE InitializeContents(t)
  <2>1. Launches' = Launches
    BY <1>0, <1>1 DEF InitializeContents, Launches, TaskRecord
  <2> QED
    BY <1>1, <2>1, SeenNothing DEF InitializeContents
<1>2. CASE ReadRejected(t) \/ Verify(t)
  BY <1>0, <1>2, TaskSeen DEF ReadRejected, TaskStep
<1>3. CASE SourceLoaded(t)
  <2>1. Launches' = Launches
    BY <1>0, <1>3 DEF SourceLoaded, Launches, TaskRecord
  <2> QED
    BY <1>3, <2>1, SeenNothing DEF SourceLoaded
<1>4. CASE FindEntry \/ RunProgram \/ RunNothing
  <2>0. Starting
    BY <1>4 DEF FindEntry, RunProgram, RunNothing
  <2>1. Launches' = Launches \/ \E u \in Launches : Launches' = Launches \ {u}
    BY <1>0, <2>0, TaskEnds DEF Starting
  <2>2. run = None /\ events' = events
    BY <2>0 DEF Starting, Idle
  <2>3. CASE FindEntry \/ RunProgram
    <3>1. /\ Running("step", FALSE) \in RunRecord /\ Running("continue", FALSE) \in RunRecord
          /\ None \notin RunRecord
      BY <1>0, RunningType, ConstantsAssumption DEF ConstantsAssumption
    <3>2. run' # None
      BY <2>3, <3>1 DEF FindEntry, RunProgram, RunRecord
    <3> QED
      BY <2>1, <2>2, <3>2, SeenBegin
  <2>4. CASE RunNothing
    BY <2>1, <2>2, <2>4, LaunchOverSeen DEF RunNothing
  <2> QED
    BY <1>4, <2>3, <2>4
<1> QED
  BY <1>1, <1>2, <1>3, <1>4 DEF LocalTaskStep

\* A launch, a continue or a step of the in-process runtime is answered by exactly
\* one stop or end, and none comes unasked: it implements RunControl, though its
\* verification may fail, and a step looks for its line as a run does
\* (mockRuntime.ts:159, 180, 195, 500).
THEOREM ImplementsControl == LocalSpec => OneStopPerRequest
<1>1. LocalInit => Control!Init
  BY InitSeen DEF LocalInit
<1>2. LocalInv /\ [LocalNext]_localVars => [Control!Next]_(Control!vars)
  <2> SUFFICES ASSUME LocalInv, [LocalNext]_localVars
               PROVE  Control!Next \/ UNCHANGED Control!vars
    OBVIOUS
  <2>1. CASE UNCHANGED localVars
    BY <2>1, SettingSeen DEF localVars, vars
  <2>2. CASE LocalNext
    <3>1. CASE Deliver
      BY <3>1, DeliverSeen DEF LocalInv, CoreInv, CoreType
    <3> QED
      BY <2>2, <3>1, LocalRequestSeen, LocalRunSeen, LocalVisitSeen, LocalTaskSeen
         DEF LocalNext, Own, LocalDeliver, LocalInv
  <2> QED
    BY <2>1, <2>2
<1> QED
  BY <1>1, <1>2, LocalInvariant, PTL
     DEF LocalSpec, OneStopPerRequest, OneNoticePerCommand, Control!Spec
=============================================================================
