--------------------------- MODULE GoRuntimeProofs ---------------------------
(***************************************************************************)
(* Proofs about the Go runtime, for every program and every number of        *)
(* goroutines: what holds of every client, patient or not, and then what    *)
(* holds of a careful one.                                                  *)
(***************************************************************************)
EXTENDS GoRuntime, MockSourceProofs, SequenceTheorems

\* The requests that set the program going.
Starting == RunCommands \cup {"launch"}

Failed(i) == wire[i].event = "failed"

\* A launch is refused at most once at a time, and nothing is loaded until the
\* client, told of it, has launched again.
Launching ==
  /\ client.view = "new" => request # "launch"
  /\ client.view = "new" \/ request = "launch" =>
       loaded = None /\ \A i \in 1 .. Len(wire) : ~Failed(i)
  /\ \A i \in 1 .. Len(wire) : Failed(i) => loaded = None
  /\ \A i, j \in 1 .. Len(wire) : Failed(i) /\ Failed(j) => i = j

\* What a waiting client waits for: a notice, a thread, or a request that will
\* begin one; a pause alone would not do, since it may be dropped.
Waited ==
  Up /\ loaded # None /\ client.view = "running" =>
    wire # <<>> \/ request \in Starting \/ \E t \in Threads : thread[t].at # "idle"

Inv == TypeOK /\ Launching /\ Waited

-----------------------------------------------------------------------------
(* Helpers.                                                                 *)

LEMMA RaisedWire ==
  ASSUME wire \in Seq(Notice), NEW e, NEW l, Raise(e, l),
         e \in Stopped \cup {"terminated", "failed"}, l \in Int
  PROVE  /\ wire' \in Seq(Notice) /\ wire' # <<>>
         /\ Len(wire') = Len(wire) + 1
         /\ \A i \in 1 .. Len(wire) : wire'[i] = wire[i]
         /\ wire'[Len(wire) + 1].event = e
<1> DEFINE n == [event |-> e, line |-> l]
<1>1. n \in Notice /\ wire' = Append(wire, n)
  BY DEF Notice, Raise
<1>2. n.event = e
  OBVIOUS
<1> HIDE DEF n
<1> QED
  BY <1>1, <1>2

\* A notice other than "failed" changes nothing about launching.
LEMMA RaiseKeepsLaunching ==
  ASSUME Inv, NEW e \in Stopped \cup {"terminated"}, NEW l \in Int, Raise(e, l),
         UNCHANGED <<loaded, client>>, request' \in {request, None}
  PROVE  Launching' /\ Waited' /\ wire' \in Seq(Notice)
<1>1. /\ wire' \in Seq(Notice) /\ wire' # <<>> /\ Len(wire') = Len(wire) + 1
      /\ \A i \in 1 .. Len(wire) : wire'[i] = wire[i]
      /\ wire'[Len(wire) + 1].event = e
  BY RaisedWire DEF Inv, TypeOK
<1>2. e # "failed" /\ Len(wire) \in Nat
  BY DEF Stopped, Inv, TypeOK
<1>3. \A i \in 1 .. Len(wire') : Failed(i)' => i \in 1 .. Len(wire) /\ Failed(i)
  BY <1>1, <1>2 DEF Failed
<1>4. request' = "launch" => request = "launch"
  BY GoAssumption DEF GoAssumption, Commands
<1>5. Launching'
  BY <1>3, <1>4 DEF Launching, Inv
<1> QED
  BY <1>1, <1>5 DEF Waited

\* What leaves the pipe and the requests alone, and a thread at work.
LEMMA MoveKeepsLaunching ==
  ASSUME Inv, UNCHANGED <<loaded, client, wire, process>>, request' \in {request, None},
         \/ UNCHANGED thread /\ (request \in Starting => request' = request)
         \/ \E t \in Threads : thread'[t].at # "idle"
  PROVE  Launching' /\ Waited'
<1>1. request' = "launch" => request = "launch"
  BY GoAssumption DEF GoAssumption, Commands
<1>2. Launching'
  BY <1>1 DEF Launching, Inv, Failed
<1> QED
  BY <1>2 DEF Waited, Inv, Up

LEMMA GotoType ==
  ASSUME TypeOK, NEW t \in Threads, NEW at \in Stages, NEW ln \in Int, Goto(t, at, ln)
  PROVE  thread' \in [Threads -> ThreadRecord] /\ thread'[t].at = at
BY DEF TypeOK, Goto, ThreadRecord

LEMMA ReturnType ==
  ASSUME TypeOK, NEW t \in Threads, Return(t)
  PROVE  thread' \in [Threads -> ThreadRecord]
BY DEF TypeOK, Return, ThreadRecord, Idle, Stages

\* The lines bufio.Scanner returns are lines of the text.
LEMMA GoLinesType ==
  ASSUME TypeOK, NEW l \in GoLines
  PROVE  loaded \in Files /\ l \in Lines(loaded) /\ l \in Nat
<1>1. loaded \in Files
  BY DEF TypeOK, GoLines
<1> QED
  BY <1>1, LinesType DEF GoLines

LEMMA WordBounds ==
  ASSUME TypeOK, NEW l \in GoLines
  PROVE  Starts(loaded, l) \in Nat /\ Ends(loaded, l) \in Nat
BY GoLinesType, StartsType, EndsType

LEMMA LastLineType ==
  ASSUME TypeOK
  PROVE  LastLine \in Int
<1>1. IsFiniteSet(GoLines)
  <2>1. CASE loaded = None
    BY <2>1, FS_EmptySet DEF GoLines
  <2>2. CASE loaded \in Files
    BY <2>2, LinesType, FS_Interval DEF GoLines
  <2> QED
    BY <2>1, <2>2 DEF TypeOK
<1> QED
  BY <1>1, FS_CardinalityType DEF LastLine

LEMMA DeclaredType ==
  ASSUME TypeOK, NEW t \in Threads, thread[t].ln \in GoLines,
         NEW k \in 0 .. Len(Text(t).accesses)
  PROVE  DeclaredBefore(t, k + 1) \in SUBSET Names
<1>1. Text(t) \in LineRecord
  BY GoLinesType, LinesType DEF Text
<1>2. Text(t).accesses \in Seq(Access)
  BY <1>1 DEF LineRecord
<1>3. \A i \in 1 .. Len(Text(t).accesses) : Text(t).accesses[i].name \in Names
  <2>1. \A i \in 1 .. Len(Text(t).accesses) : Text(t).accesses[i] \in Access
    BY <1>2, ElementOfSeq
  <2> QED
    BY <2>1 DEF Access
<1>4. \A i \in 1 .. k + 1 - 1 : i \in 1 .. Len(Text(t).accesses)
  BY <1>2
<1> QED
  BY <1>3, <1>4 DEF DeclaredBefore, TypeOK

-----------------------------------------------------------------------------
(* The steps of a thread.                                                   *)

LEMMA ReasonTypes ==
  /\ "pause" \in Stopped \cup {"terminated"} /\ "entry" \in Stopped \cup {"terminated"}
  /\ "step" \in Stopped \cup {"terminated"} /\ "terminated" \in Stopped \cup {"terminated"}
  /\ "breakpoint" \in Stopped \cup {"terminated"}
  /\ "exception" \in Stopped \cup {"terminated"}
  /\ "dataBreakpoint" \in Stopped \cup {"terminated"}
  /\ "instructionBreakpoint" \in Stopped \cup {"terminated"}
BY DEF Stopped

LEMMA StageTypes ==
  {"unpause", "check", "execute", "advance", "store", "seek", "find", "over"}
    \subseteq Stages \ {"idle"}
BY DEF Stages

LEMMA ThreadType ==
  ASSUME TypeOK, NEW t \in Threads
  PROVE  /\ thread[t].at \in Stages /\ thread[t].reverse \in BOOLEAN
         /\ thread[t].from \in Int /\ thread[t].ln \in Int
BY DEF TypeOK, ThreadRecord

LEMMA NormaliseStep ==
  ASSUME Inv, NEW t \in Threads, Normalise(t)
  PROVE  Inv'
<1>1. instruction' \in Int
  BY WordBounds DEF Normalise, Inv, TypeOK
<1>2. thread' \in [Threads -> ThreadRecord] /\ thread'[t].at # "idle"
  <2>1. PICK at \in Stages \ {"idle"} :
          thread' = [thread EXCEPT ![t].at = at, ![t].from = currentLine, ![t].ln = currentLine]
    <3>1. PICK a1 \in Stages \ {"idle"}, a2 \in Stages \ {"idle"} :
            a1 = "execute" /\ a2 = "unpause"
      BY StageTypes
    <3>2. CASE t = Main
      BY <3>1, <3>2 DEF Normalise
    <3>3. CASE t # Main
      BY <3>1, <3>3 DEF Normalise
    <3> QED
      BY <3>2, <3>3
  <2> QED
    BY <2>1 DEF Inv, TypeOK, ThreadRecord
<1>3. Launching' /\ Waited'
  BY <1>2, MoveKeepsLaunching DEF Normalise, session
<1>4. TypeOK'
  BY <1>1, <1>2 DEF Normalise, stops, session, Inv, TypeOK
<1> QED
  BY <1>3, <1>4 DEF Inv

LEMMA GotoStep ==
  ASSUME Inv, NEW t \in Threads, NEW at \in Stages \ {"idle"}, NEW ln \in Int,
         Goto(t, at, ln),
         currentLine' \in Int, instruction' \in Int, currentCol' \in Int \cup {None},
         variables' \in SUBSET Names, paused' \in BOOLEAN,
         UNCHANGED <<loaded, stops, request, adding, wire, session>>
  PROVE  Inv'
<1>1. thread' \in [Threads -> ThreadRecord] /\ thread'[t].at # "idle"
  BY GotoType DEF Inv
<1>2. Launching' /\ Waited'
  BY <1>1, MoveKeepsLaunching DEF session
<1>3. TypeOK'
  BY <1>1 DEF stops, session, Inv, TypeOK
<1> QED
  BY <1>2, <1>3 DEF Inv

LEMMA NoticeStep ==
  ASSUME Inv, NEW e \in Stopped \cup {"terminated"}, NEW l \in Int, Raise(e, l),
         thread' \in [Threads -> ThreadRecord], request' \in {request, None},
         currentLine' \in Int, instruction' \in Int, currentCol' \in Int \cup {None},
         variables' \in SUBSET Names, paused' \in BOOLEAN,
         UNCHANGED <<loaded, stops, adding, session>>
  PROVE  Inv'
<1>1. Launching' /\ Waited' /\ wire' \in Seq(Notice)
  BY RaiseKeepsLaunching DEF session
<1>2. TypeOK'
  BY <1>1 DEF stops, session, Inv, TypeOK
<1> QED
  BY <1>1, <1>2 DEF Inv

LEMMA UnpauseStep ==
  ASSUME Inv, NEW t \in Threads, Unpause(t)
  PROVE  Inv'
<1>1. PICK at \in Stages \ {"idle"} : at = "check"
  BY StageTypes
<1>2. Goto(t, at, thread[t].ln) /\ thread[t].ln \in Int
  BY <1>1, ThreadType DEF Unpause, Inv
<1> QED
  BY <1>2, GotoStep DEF Unpause, program, Inv, TypeOK

LEMMA CheckStep ==
  ASSUME Inv, NEW t \in Threads, Check(t)
  PROVE  Inv'
<1>1. CASE paused
  <2>1. PICK e \in Stopped \cup {"terminated"} : e = "pause"
    BY ReasonTypes
  <2>2. Raise(e, currentLine) /\ Return(t)
    BY <1>1, <2>1 DEF Check
  <2>3. thread' \in [Threads -> ThreadRecord]
    BY <2>2, ReturnType DEF Inv
  <2> QED
    BY <2>2, <2>3, NoticeStep DEF Check, program, Inv, TypeOK
<1>2. CASE ~paused
  <2>1. PICK at \in Stages \ {"idle"} : at = "execute"
    BY StageTypes
  <2>2. Goto(t, at, currentLine) /\ UNCHANGED wire
    BY <1>2, <2>1 DEF Check
  <2> QED
    BY <2>2, GotoStep DEF Check, program, Inv, TypeOK
<1> QED
  BY <1>1, <1>2

LEMMA DeathStep ==
  ASSUME Inv, process' \in {"crashed", "exited"}, request' \in {request, None},
         UNCHANGED <<program, stops, paused, thread, adding, wire, client, requests>>
  PROVE  Inv'
<1>1. request' = "launch" => request = "launch"
  BY GoAssumption DEF GoAssumption, Commands
<1>2. Launching'
  BY <1>1 DEF Launching, Inv, Failed, program
<1>3. Waited'
  BY DEF Waited, Up
<1>4. TypeOK'
  BY DEF program, stops, Inv, TypeOK
<1> QED
  BY <1>2, <1>3, <1>4 DEF Inv

LEMMA WordStep ==
  ASSUME Inv, NEW t \in Threads, Word(t)
  PROVE  Inv'
<1>0. instruction' \in Int /\ thread[t].ln \in Int /\ At(t, "execute")
  BY ThreadType DEF Word, Executing, Inv, TypeOK
<1>1. CASE instruction' \in instrBps
  <2>1. PICK e \in Stopped \cup {"terminated"} : e = "instructionBreakpoint"
    BY ReasonTypes
  <2>2. Raise(e, thread[t].ln) /\ Return(t)
    BY <1>1, <2>1 DEF Word
  <2>3. thread' \in [Threads -> ThreadRecord]
    BY <2>2, ReturnType DEF Inv
  <2> QED
    BY <1>0, <2>2, <2>3, NoticeStep DEF Word, Inv, TypeOK
<1>2. CASE instruction' \notin instrBps
  <2>1. UNCHANGED <<thread, wire, loaded, request, client, process>>
    BY <1>2 DEF Word, session
  <2>2. Launching' /\ Waited'
    BY <2>1, MoveKeepsLaunching
  <2>3. TypeOK'
    BY <1>0, <2>1 DEF Word, stops, session, Inv, TypeOK
  <2> QED
    BY <2>2, <2>3 DEF Inv
<1> QED
  BY <1>1, <1>2

LEMMA HitDataStep ==
  ASSUME Inv, NEW t \in Threads, HitData(t)
  PROVE  Inv'
<1>1. variables' \in SUBSET Names
  <2>1. PICK k \in DataHits(t) : variables' = DeclaredBefore(t, k + 1)
    BY DEF HitData
  <2>2. k \in 0 .. Len(Text(t).accesses)
    BY <2>1 DEF DataHits
  <2> QED
    BY <2>1, <2>2, DeclaredType DEF HitData, Executing, Inv
<1>2. PICK e \in Stopped \cup {"terminated"} : e = "dataBreakpoint"
  BY ReasonTypes
<1>3. Raise(e, thread[t].ln) /\ Return(t)
  BY <1>2 DEF HitData
<1>4. thread' \in [Threads -> ThreadRecord] /\ thread[t].ln \in Int
  BY <1>3, ReturnType, ThreadType DEF Inv
<1> QED
  BY <1>1, <1>3, <1>4, NoticeStep DEF HitData, Inv, TypeOK

LEMMA LineDoneStep ==
  ASSUME Inv, NEW t \in Threads, LineDone(t)
  PROVE  Inv'
<1>1. variables' \in SUBSET Names
  <2>1. Text(t).accesses \in Seq(Access)
    <3>1. Text(t) \in LineRecord
      BY GoLinesType, LinesType DEF Text, LineDone, Executing, Inv
    <3> QED
      BY <3>1 DEF LineRecord
  <2>2. Len(Text(t).accesses) \in 0 .. Len(Text(t).accesses)
    BY <2>1
  <2> QED
    BY <2>2, DeclaredType DEF LineDone, Executing, Inv
<1>2. thread[t].ln \in Int
  BY ThreadType DEF Inv
<1>3. ASSUME NEW e \in Stopped \cup {"terminated"}, Raise(e, thread[t].ln), Return(t)
      PROVE  Inv'
  <2>1. thread' \in [Threads -> ThreadRecord]
    BY <1>3, ReturnType DEF Inv
  <2> QED
    BY <1>1, <1>2, <1>3, <2>1, NoticeStep DEF LineDone, Inv, TypeOK
<1>4. ASSUME NEW at \in Stages \ {"idle"}, Goto(t, at, thread[t].ln), UNCHANGED wire
      PROVE  Inv'
  BY <1>1, <1>2, <1>4, GotoStep DEF LineDone, Inv, TypeOK
<1>5. PICK e \in Stopped \cup {"terminated"} : e = "exception"
  BY ReasonTypes
<1>6. PICK at \in Stages \ {"idle"} : at = "advance"
  BY StageTypes
<1>7. \/ Raise(e, thread[t].ln) /\ Return(t)
      \/ Goto(t, at, thread[t].ln) /\ UNCHANGED wire
  BY <1>5, <1>6 DEF LineDone
<1> QED
  BY <1>3, <1>4, <1>7

LEMMA AdvanceStep ==
  ASSUME Inv, NEW t \in Threads, Advance(t)
  PROVE  Inv'
<1>1. PICK at \in Stages \ {"idle"} : at = "store"
  BY StageTypes
<1>2. Goto(t, at, currentLine)
  BY <1>1 DEF Advance
<1> QED
  BY <1>2, GotoStep DEF Advance, program, Inv, TypeOK

LEMMA StoreStep ==
  ASSUME Inv, NEW t \in Threads, Store(t)
  PROVE  Inv'
<1>1. PICK at \in Stages \ {"idle"} : at = "seek"
  BY StageTypes
<1>2. Goto(t, at, thread[t].ln) /\ thread[t].ln \in Int
  BY <1>1, ThreadType DEF Store, Inv
<1>3. currentLine' \in Int
  BY <1>2 DEF Store, Inv, TypeOK
<1> QED
  BY <1>2, <1>3, GotoStep DEF Store, Inv, TypeOK

\* Off the beginning the stop on entry comes before the end of the run.
LEMMA RunOffStep ==
  ASSUME Inv, NEW t \in Threads, RunOff(t)
  PROVE  Inv'
<1>1. PICK at \in Stages \ {"idle"} : at = "over"
  BY StageTypes
<1>2. Goto(t, at, thread[t].ln) /\ thread[t].ln \in Int
  BY <1>1, ThreadType DEF RunOff, Inv
<1>3. CASE thread[t].reverse
  <2>1. PICK e \in Stopped \cup {"terminated"} : e = "entry"
    BY ReasonTypes
  <2>2. Raise(e, 0)
    BY <1>3, <2>1 DEF RunOff
  <2>3. thread' \in [Threads -> ThreadRecord]
    BY <1>2, GotoType DEF Inv
  <2>4. currentLine' \in Int
    BY <1>3 DEF RunOff
  <2> QED
    BY <2>2, <2>3, <2>4, NoticeStep DEF RunOff, Inv, TypeOK
<1>4. CASE ~thread[t].reverse
  BY <1>2, <1>4, GotoStep DEF RunOff, Inv, TypeOK
<1> QED
  BY <1>3, <1>4

LEMMA SeekStep ==
  ASSUME Inv, NEW t \in Threads, Seek(t)
  PROVE  Inv'
<1>1. PICK at \in Stages \ {"idle"} : at = "find"
  BY StageTypes
<1>2. Goto(t, at, currentLine)
  BY <1>1 DEF Seek
<1> QED
  BY <1>2, GotoStep DEF Seek, program, Inv, TypeOK

LEMMA StopFindingStep ==
  ASSUME Inv, NEW t \in Threads, NEW why \in Stopped \cup {"terminated"},
         StopFinding(t, why)
  PROVE  Inv'
<1>1. PICK at \in Stages \ {"idle"} : at = "over"
  BY StageTypes
<1>2. thread[t].ln \in Int
  BY ThreadType DEF Inv
<1>3. Goto(t, at, thread[t].ln) \/ Return(t)
  BY <1>1 DEF StopFinding
<1>4. thread' \in [Threads -> ThreadRecord]
  BY <1>2, <1>3, GotoType, ReturnType DEF Inv
<1> QED
  BY <1>2, <1>4, NoticeStep DEF StopFinding, Inv, TypeOK

LEMMA FoundStep ==
  ASSUME Inv, NEW t \in Threads, FindStatement(t) \/ SkipBlank(t)
  PROVE  Inv'
<1>1. thread[t].ln \in Int
  BY ThreadType DEF Inv
<1>2. PICK at \in Stages \ {"idle"}, ln \in Int : Goto(t, at, ln)
  <2>1. \A x \in {"over", "check", "find"} : x \in Stages \ {"idle"}
    BY StageTypes
  <2>2. CASE Found(t)
    BY <1>1, <2>1, <2>2 DEF Found
  <2>3. CASE ~Found(t)
    BY <1>1, <2>1, <2>3 DEF FindStatement, SkipBlank
  <2> QED
    BY <2>2, <2>3
<1>3. currentLine' \in Int
  BY <1>1 DEF FindStatement, SkipBlank, program, Inv, TypeOK
<1> QED
  BY <1>2, <1>3, GotoStep DEF FindStatement, SkipBlank, program, Inv, TypeOK

LEMMA FinishStep ==
  ASSUME Inv, NEW t \in Threads, Finish(t)
  PROVE  Inv'
<1>1. PICK e \in Stopped \cup {"terminated"}, l \in Int : Raise(e, l)
  <2>1. PICK e1 \in Stopped \cup {"terminated"}, e2 \in Stopped \cup {"terminated"} :
          e1 = "step" /\ e2 = "terminated"
    BY ReasonTypes
  <2>2. currentLine \in Int /\ 0 \in Int
    BY DEF Inv, TypeOK
  <2>3. Raise(e1, currentLine) \/ Raise(e2, 0)
    BY <2>1 DEF Finish
  <2> QED
    BY <2>2, <2>3
<1>2. thread' \in [Threads -> ThreadRecord]
  BY ReturnType DEF Finish, Inv
<1> QED
  BY <1>1, <1>2, NoticeStep DEF Finish, program, Inv, TypeOK

LEMMA ThreadSteps ==
  ASSUME Inv, NEW t \in Threads, ThreadStep(t)
  PROVE  Inv'
<1>1. ASSUME FindBreakpoint(t) \/ FindInstruction(t) PROVE Inv'
  <2>1. PICK e1 \in Stopped \cup {"terminated"}, e2 \in Stopped \cup {"terminated"} :
          e1 = "breakpoint" /\ e2 = "instructionBreakpoint"
    BY ReasonTypes
  <2>2. StopFinding(t, e1) \/ StopFinding(t, e2)
    BY <1>1, <2>1 DEF FindBreakpoint, FindInstruction
  <2> QED
    BY <2>2, StopFindingStep
<1>2. ASSUME Panic(t) PROVE Inv'
  BY <1>2, DeathStep DEF Panic
<1> QED
  BY <1>1, <1>2, NormaliseStep, UnpauseStep, CheckStep, WordStep, HitDataStep,
     LineDoneStep, AdvanceStep, StoreStep, RunOffStep, SeekStep, FoundStep, FinishStep
     DEF ThreadStep

-----------------------------------------------------------------------------
(* The requests.                                                            *)

LEMMA StartingTypes ==
  /\ Starting \subseteq Commands
  /\ \A c \in Configuration \cup StopCommands \cup {"attach", "pause", "disconnect"} :
       c \notin Starting /\ c # "launch"
BY DEF Starting, RunCommands, StopCommands, Configuration, Commands

LEMMA BeginRecord ==
  ASSUME NEW reverse \in BOOLEAN
  PROVE  Begin(reverse) \in ThreadRecord /\ Begin(reverse).at # "idle" /\ Idle \in ThreadRecord
<1>1. "normalise" \in Stages /\ "idle" \in Stages
  BY DEF Stages
<1>2. Idle \in ThreadRecord
  BY <1>1 DEF Idle, ThreadRecord
<1>3. Begin(reverse) \in ThreadRecord
  BY <1>1, <1>2 DEF Begin, ThreadRecord
<1>4. Begin(reverse).at = "normalise"
  BY <1>2 DEF Begin, ThreadRecord
<1> QED
  BY <1>2, <1>3, <1>4

LEMMA BeginType ==
  ASSUME TypeOK, NEW t \in Threads, NEW reverse \in BOOLEAN,
         thread' = [thread EXCEPT ![t] = Begin(reverse)]
  PROVE  thread' \in [Threads -> ThreadRecord] /\ thread'[t].at # "idle"
BY BeginRecord DEF TypeOK

LEMMA ServeType ==
  ASSUME NEW c, Serving(c)
  PROVE  request = c /\ request' = None /\ request' \in {request, None}
BY DEF Serving

\* A continue, a next, or a launch that runs: a thread takes over.
LEMMA BeginStep ==
  ASSUME Inv, NEW c, Serving(c), NEW t \in Threads, NEW reverse \in BOOLEAN,
         thread' = [thread EXCEPT ![t] = Begin(reverse)],
         UNCHANGED <<program, stops, paused, adding, wire, session>>
  PROVE  Inv'
<1>1. thread' \in [Threads -> ThreadRecord] /\ thread'[t].at # "idle"
  BY BeginType DEF Inv
<1>2. Launching' /\ Waited'
  BY <1>1, MoveKeepsLaunching, ServeType DEF program, session
<1>3. TypeOK'
  BY <1>1, ServeType DEF program, stops, session, Inv, TypeOK
<1> QED
  BY <1>2, <1>3 DEF Inv

\* A launch is over before the client, told of it, may launch again.
LEMMA LaunchStep ==
  ASSUME Inv, NEW f \in Programs, NEW entry \in BOOLEAN, Launch(f, entry)
  PROVE  Inv'
<1>0. /\ request = "launch" /\ request' = None /\ client.view # "new" /\ loaded = None
      /\ \A i \in 1 .. Len(wire) : ~Failed(i)
      /\ UNCHANGED <<stops, paused, adding, session>>
      /\ f \in Files \cup {None} /\ wire \in Seq(Notice) /\ Len(wire) \in Nat
      /\ request' # "launch" /\ request' \in Commands \cup {None}
  BY GoAssumption DEF GoAssumption, Commands, Launch, Serving, Inv, Launching, TypeOK
<1>1. CASE f = None
  <2>1. Raise("failed", 0) /\ UNCHANGED <<program, thread>>
    BY <1>1 DEF Launch
  <2>2. /\ wire' \in Seq(Notice) /\ wire' # <<>> /\ Len(wire') = Len(wire) + 1
        /\ \A i \in 1 .. Len(wire) : wire'[i] = wire[i]
    BY <1>0, <2>1, RaisedWire
  <2>3. \A i \in 1 .. Len(wire') : Failed(i)' => i = Len(wire) + 1
    BY <1>0, <2>2 DEF Failed
  <2>4. Launching'
    BY <1>0, <2>1, <2>3 DEF Launching, program, session
  <2>5. Waited'
    BY <2>2 DEF Waited
  <2>6. TypeOK'
    BY <1>0, <2>1, <2>2 DEF program, stops, session, Inv, TypeOK
  <2> QED
    BY <2>4, <2>5, <2>6 DEF Inv
<1>2. CASE f # None
  <2>0. /\ loaded' = f /\ currentLine' = 0 /\ currentCol' = None /\ instruction' = 0
        /\ variables' = variables
    BY <1>2 DEF Launch
  <2>1. wire' \in Seq(Notice) /\ \A i \in 1 .. Len(wire') : ~Failed(i)'
    <3>1. CASE wire' = wire
      BY <1>0, <3>1 DEF Failed
    <3>2. CASE wire' # wire
      <4>1. PICK e \in Stopped \cup {"terminated"} : e = "entry"
        BY ReasonTypes
      <4>2. Raise(e, 0) /\ e # "failed"
        BY <1>2, <3>2, <4>1 DEF Launch
      <4>3. /\ wire' \in Seq(Notice) /\ Len(wire') = Len(wire) + 1
            /\ \A i \in 1 .. Len(wire) : wire'[i] = wire[i]
            /\ wire'[Len(wire) + 1].event = e
        BY <1>0, <4>2, RaisedWire
      <4> QED
        BY <1>0, <4>2, <4>3 DEF Failed
    <3> QED
      BY <3>1, <3>2
  <2>2. thread' \in [Threads -> ThreadRecord] /\ Waited'
    <3>1. CASE entry
      BY <1>2, <3>1 DEF Launch, Raise, Waited, Inv, TypeOK
    <3>2. CASE ~entry
      <4>1. PICK g \in Goroutines : thread' = [thread EXCEPT ![g] = Begin(FALSE)]
        BY <1>2, <3>2 DEF Launch
      <4>2. g \in Threads
        BY DEF Threads
      <4>3. thread' \in [Threads -> ThreadRecord] /\ thread'[g].at # "idle"
        BY <4>1, <4>2, BeginType DEF Inv
      <4> QED
        BY <4>2, <4>3 DEF Waited
    <3> QED
      BY <3>1, <3>2
  <2>3. Launching'
    BY <1>0, <2>1 DEF Launching, session
  <2>4. TypeOK'
    BY <1>0, <1>2, <2>0, <2>1, <2>2 DEF stops, session, Inv, TypeOK
  <2> QED
    BY <2>2, <2>3, <2>4 DEF Inv
<1> QED
  BY <1>1, <1>2

\* A request that begins nothing and reports nothing.
LEMMA QuietStep ==
  ASSUME Inv, NEW c \in Configuration \cup StopCommands \cup {"attach", "pause", "disconnect"},
         Serving(c),
         bps' \in [Files -> SUBSET Int], dataBps' \in [Names -> SUBSET {"read", "write"}],
         instrBps' \in SUBSET Int, filters' \in FilterRecord, paused' \in BOOLEAN,
         adding' \in [file : Files, todo : (SUBSET Int) \ {{}}] \cup {None},
         UNCHANGED <<program, thread, wire, session>>
  PROVE  Inv'
<1>1. request = c /\ c \notin Starting /\ request' = None
  BY StartingTypes, ServeType
<1>2. Launching' /\ Waited'
  BY <1>1, MoveKeepsLaunching DEF program, session
<1>3. TypeOK'
  BY <1>1 DEF program, session, Inv, TypeOK
<1> QED
  BY <1>2, <1>3 DEF Inv

LEMMA PauseStep ==
  ASSUME Inv, NEW c \in {"attach", "pause"}, Serving(c), PauseEngine
  PROVE  Inv'
<1>1. CASE paused
  BY <1>1, QuietStep DEF PauseEngine, stops, Inv, TypeOK
<1>2. CASE ~paused
  <2>1. PICK e \in Stopped \cup {"terminated"} : e = "pause"
    BY ReasonTypes
  <2>2. Raise(e, currentLine)
    BY <1>2, <2>1 DEF PauseEngine
  <2> QED
    BY <2>2, ServeType, NoticeStep DEF PauseEngine, program, Inv, TypeOK
<1> QED
  BY <1>1, <1>2

LEMMA AttachStep ==
  ASSUME Inv, NEW stop \in BOOLEAN, Attach(stop)
  PROVE  Inv'
<1>1. PICK c \in {"attach", "pause"} : c = "attach"
  OBVIOUS
<1>2. Serving(c)
  BY <1>1 DEF Attach
<1>3. CASE stop
  BY <1>2, <1>3, PauseStep DEF Attach
<1>4. CASE ~stop
  BY <1>2, <1>4, QuietStep DEF Attach, stops, Inv, TypeOK
<1> QED
  BY <1>3, <1>4

LEMMA ColumnStep ==
  ASSUME Inv, NEW c, Serving(c), NEW col \in Int \cup {None}, SetColumn(col)
  PROVE  Inv'
<1>1. PICK e \in Stopped \cup {"terminated"} : e = "step"
  BY ReasonTypes
<1>2. Raise(e, currentLine)
  BY <1>1 DEF SetColumn
<1> QED
  BY <1>2, ServeType, NoticeStep DEF SetColumn, Inv, TypeOK

LEMMA BreakpointSteps ==
  ASSUME Inv,
         \/ \E f \in BpFiles, lines \in SUBSET BpLines : SetBreakpoints(f, lines)
         \/ \E l \in BpLines : AddBreakpoint(l)
  PROVE  Inv'
<1>1. ASSUME NEW f \in BpFiles, NEW lines \in SUBSET BpLines, SetBreakpoints(f, lines)
      PROVE  Inv'
  <2>1. PICK c \in Configuration \cup StopCommands \cup {"attach", "pause", "disconnect"} :
          c = "setBreakpoints"
    BY DEF Configuration
  <2>2. Serving(c)
    BY <1>1, <2>1 DEF SetBreakpoints
  <2>3. f \in Files /\ lines \in SUBSET Int
    BY GoAssumption DEF GoAssumption
  <2>4. adding' \in [file : Files, todo : (SUBSET Int) \ {{}}] \cup {None}
    BY <1>1, <2>3 DEF SetBreakpoints
  <2> QED
    BY <1>1, <2>2, <2>3, <2>4, QuietStep DEF SetBreakpoints, Inv, TypeOK
<1>2. ASSUME NEW l \in BpLines, AddBreakpoint(l) PROVE Inv'
  <2>1. l \in Int
    BY GoAssumption DEF GoAssumption
  <2>2. adding \in [file : Files, todo : (SUBSET Int) \ {{}}]
    BY <1>2 DEF AddBreakpoint, Inv, TypeOK
  <2>3. bps' \in [Files -> SUBSET Int]
        /\ adding' \in [file : Files, todo : (SUBSET Int) \ {{}}] \cup {None}
    BY <1>2, <2>1, <2>2 DEF AddBreakpoint, Inv, TypeOK
  <2>4. Launching' /\ Waited'
    BY <1>2, MoveKeepsLaunching DEF AddBreakpoint, program, session
  <2>5. TypeOK'
    BY <1>2, <2>3 DEF AddBreakpoint, program, session, Inv, TypeOK
  <2> QED
    BY <2>4, <2>5 DEF Inv
<1> QED
  BY <1>1, <1>2

LEMMA ConfigurationSteps ==
  ASSUME Inv,
         \/ \E n \in Edits, kinds \in SUBSET {"read", "write"} \ {{}} : SetDataBreakpoint(n, kinds)
         \/ \E a \in Addresses : SetInstructionBreakpoint(a)
         \/ \E x \in Filters : SetExceptionsFilters(x)
         \/ ClearAllDataBreakpoints \/ ClearInstructionBreakpoints
         \/ \E c \in StopCommands : Locals(c)
  PROVE  Inv'
<1>0. Edits \subseteq Names /\ Addresses \subseteq Int /\ Filters \subseteq FilterRecord
  BY GoAssumption DEF GoAssumption
<1>1. PICK c \in Configuration \cup StopCommands \cup {"attach", "pause", "disconnect"} :
        Serving(c)
  <2>1. \A c \in {"setDataBreakpoint", "setInstructionBreakpoint", "setExceptionBreakpoints",
                  "clearAllDataBreakpoints", "clearInstructionBreakpoints"} :
          c \in Configuration
    BY DEF Configuration
  <2>2. \E c \in Configuration \cup StopCommands : Serving(c)
    BY <2>1 DEF SetDataBreakpoint, SetInstructionBreakpoint, SetExceptionsFilters,
       ClearAllDataBreakpoints, ClearInstructionBreakpoints, Locals
  <2> QED
    BY <2>2
<1>2. Unmoved
  BY DEF SetDataBreakpoint, SetInstructionBreakpoint, SetExceptionsFilters,
     ClearAllDataBreakpoints, ClearInstructionBreakpoints, Locals
<1>3. dataBps' \in [Names -> SUBSET {"read", "write"}]
  <2>1. ASSUME NEW n \in Edits, NEW kinds \in SUBSET {"read", "write"} \ {{}},
               SetDataBreakpoint(n, kinds)
        PROVE  dataBps' \in [Names -> SUBSET {"read", "write"}]
    <3>1. n \in Names /\ kinds \in SUBSET {"read", "write"}
      BY <1>0
    <3>2. dataBps \in [Names -> SUBSET {"read", "write"}]
      BY DEF Inv, TypeOK
    <3>3. dataBps' = [dataBps EXCEPT ![n] = @ \cup kinds]
      BY <2>1 DEF SetDataBreakpoint
    <3>4. dataBps[n] \cup kinds \in SUBSET {"read", "write"}
      BY <3>1, <3>2
    <3> QED
      BY <3>2, <3>3, <3>4
  <2>2. ASSUME \/ \E a \in Addresses : SetInstructionBreakpoint(a)
               \/ \E x \in Filters : SetExceptionsFilters(x)
               \/ ClearAllDataBreakpoints \/ ClearInstructionBreakpoints
               \/ \E c1 \in StopCommands : Locals(c1)
        PROVE  dataBps' \in [Names -> SUBSET {"read", "write"}]
    BY <2>2 DEF SetInstructionBreakpoint, SetExceptionsFilters,
       ClearAllDataBreakpoints, ClearInstructionBreakpoints, Locals, Inv, TypeOK
  <2> QED
    BY <2>1, <2>2
<1>4. instrBps' \in SUBSET Int /\ filters' \in FilterRecord
  BY <1>0 DEF SetDataBreakpoint, SetInstructionBreakpoint, SetExceptionsFilters,
     ClearAllDataBreakpoints, ClearInstructionBreakpoints, Locals, Inv, TypeOK
<1> QED
  BY <1>1, <1>2, <1>3, <1>4, QuietStep DEF Unmoved, Inv, TypeOK

LEMMA ServeStep ==
  ASSUME Inv, Serve
  PROVE  Inv'
<1>1. ASSUME Pause PROVE Inv'
  <2>1. PICK c \in {"attach", "pause"} : c = "pause"
    OBVIOUS
  <2> QED
    BY <1>1, <2>1, PauseStep DEF Pause
<1>2. ASSUME StepOut \/ \E target \in Targets : StepIn(target) PROVE Inv'
  <2>1. currentCol \in Int \cup {None}
    BY DEF Inv, TypeOK
  <2>2. ASSUME NEW target \in Targets, StepIn(target) PROVE Inv'
    <3>1. PICK next \in Int \cup {None} :
            next = IF currentCol = None THEN 1 ELSE currentCol + 1
      BY <2>1
    <3>2. target \in Int \cup {None}
      BY GoAssumption DEF GoAssumption
    <3>3. PICK col \in Int \cup {None} : col = IF target # None THEN target ELSE next
      BY <3>2
    <3> QED
      BY <2>2, <3>1, <3>3, ColumnStep DEF StepIn
  <2>3. CASE StepOut
    <3>1. PICK col \in Int \cup {None} :
            col = IF currentCol = None \/ currentCol <= 1 THEN None ELSE currentCol - 1
      <4>1. CASE currentCol = None
        BY <4>1
      <4>2. CASE currentCol \in Int
        <5>1. currentCol # None /\ currentCol - 1 \in Int
          BY <4>2, NoneAssumption DEF NoneAssumption
        <5> QED
          BY <5>1
      <4> QED
        BY <2>1, <4>1, <4>2
    <3> QED
      BY <2>3, <3>1, ColumnStep DEF StepOut
  <2> QED
    BY <1>2, <2>2, <2>3
<1>3. ASSUME Disconnect PROVE Inv'
  BY <1>3, DeathStep, ServeType DEF Disconnect
<1>4. ASSUME NEW reverse \in Directions, Continue(reverse) \/ NextLine(reverse)
      PROVE  Inv'
  <2>1. reverse \in BOOLEAN
    BY GoAssumption DEF GoAssumption
  <2>2. ASSUME Continue(reverse) PROVE Inv'
    <3>1. PICK g \in Goroutines : thread' = [thread EXCEPT ![g] = Begin(reverse)]
      BY <2>2 DEF Continue
    <3>2. g \in Threads
      BY DEF Threads
    <3> QED
      BY <2>1, <2>2, <3>1, <3>2, BeginStep DEF Continue
  <2>3. ASSUME NextLine(reverse) PROVE Inv'
    <3>1. Main \in Threads
      BY DEF Threads
    <3> QED
      BY <2>1, <2>3, <3>1, BeginStep DEF NextLine
  <2> QED
    BY <1>4, <2>2, <2>3
<1> QED
  BY <1>1, <1>2, <1>3, <1>4, LaunchStep, AttachStep, BreakpointSteps, ConfigurationSteps
     DEF Serve

-----------------------------------------------------------------------------
(* The client.                                                              *)

LEMMA SendStep ==
  ASSUME Inv, NEW c \in Calls, Send(c)
  PROVE  Inv'
<1>1. c \in Commands /\ c # None
  BY GoAssumption DEF GoAssumption
<1>2. /\ request' = c /\ request = None /\ requests' = requests + 1
      /\ UNCHANGED <<loaded, thread, wire, process>>
      /\ client' \in [view : Views, line : Int]
  BY DEF Send, Inv, TypeOK, Views, program
<1>3. client'.view = IF c \in {"launch", "attach"} \cup RunCommands THEN "running"
                     ELSE client.view
  BY DEF Send, Inv, TypeOK
<1>4. c \in {"launch", "attach"} => client.view = "new"
  BY DEF Send, Allowed, RunCommands, StopCommands, Configuration
<1>5. client'.view # "new" \/ client.view = "new"
  BY <1>3
<1>6. client'.view = "new" => c # "launch"
  BY <1>3
<1>7. Launching'
  BY <1>2, <1>4, <1>5, <1>6 DEF Launching, Failed, Inv
<1>8. Waited'
  <2>1. CASE c \in {"launch", "attach"}
    BY <1>2, <1>4, <2>1 DEF Waited, Launching, Inv
  <2>2. CASE c \in RunCommands
    BY <1>2, <2>2 DEF Waited, Starting
  <2>3. CASE c \notin {"launch", "attach"} \cup RunCommands
    <3>1. client'.view = client.view /\ None \notin Starting
      BY <1>3, <2>3, StartingTypes, GoAssumption DEF GoAssumption
    <3> QED
      BY <1>2, <3>1 DEF Waited, Inv, Up
  <2> QED
    BY <2>1, <2>2, <2>3
<1>9. TypeOK'
  BY <1>1, <1>2 DEF Send, program, stops, Inv, TypeOK
<1> QED
  BY <1>7, <1>8, <1>9 DEF Inv

LEMMA ReceiveStep ==
  ASSUME Inv, Receive
  PROVE  Inv'
<1>1. /\ wire \in Seq(Notice) /\ wire # <<>> /\ Head(wire) \in Notice
      /\ wire' \in Seq(Notice) /\ Len(wire') = Len(wire) - 1 /\ Len(wire) \in Nat
      /\ \A i \in 1 .. Len(wire') : wire'[i] = wire[i + 1]
      /\ Head(wire) = wire[1]
  BY DEF Receive, Inv, TypeOK
<1>2. /\ client'.view = ViewAfter(wire[1].event)
      /\ client' \in [view : Views, line : Int]
  BY <1>1 DEF Receive, ViewAfter, Views, Notice
<1>3. UNCHANGED <<loaded, request>>
  BY DEF Receive, program
<1>4. \A i \in 1 .. Len(wire') : i + 1 \in 1 .. Len(wire) /\ i + 1 # 1
                                 /\ (Failed(i)' <=> Failed(i + 1))
  BY <1>1 DEF Failed
<1>5. client'.view # "running" /\ (client'.view = "new" => Failed(1))
  BY <1>2 DEF ViewAfter, Failed
<1>6. 1 \in 1 .. Len(wire)
  BY <1>1
<1>7. Launching'
  BY <1>3, <1>4, <1>5, <1>6 DEF Launching, Inv
<1>8. Waited'
  BY <1>5 DEF Waited
<1>9. TypeOK'
  BY <1>1, <1>2 DEF Receive, program, stops, Inv, TypeOK
<1> QED
  BY <1>7, <1>8, <1>9 DEF Inv

LEMMA ClosedStep ==
  ASSUME Inv, Closed
  PROVE  Inv'
<1>1. client' \in [view : Views, line : Int] /\ client'.view = "ended"
  BY DEF Closed, Inv, TypeOK, Views
<1>2. Launching'
  BY <1>1 DEF Launching, Failed, Closed, program, Inv
<1>3. Waited'
  BY <1>1 DEF Waited
<1>4. TypeOK'
  BY <1>1 DEF Closed, program, stops, Inv, TypeOK
<1> QED
  BY <1>2, <1>3, <1>4 DEF Inv

-----------------------------------------------------------------------------
(* The theorems.                                                            *)

LEMMA Initially == Init => Inv
<1> SUFFICES ASSUME Init PROVE Inv
  OBVIOUS
<1>1. loaded \in Files \cup {None}
  BY GoAssumption DEF GoAssumption, Init
<1>2. thread \in [Threads -> ThreadRecord]
  <2>1. Idle \in ThreadRecord /\ Begin(FALSE) \in ThreadRecord
    BY BeginRecord
  <2>2. [t \in Threads |-> Idle] \in [Threads -> ThreadRecord]
    BY <2>1
  <2>3. \/ thread = [t \in Threads |-> Idle]
        \/ \E g \in Goroutines :
              thread = [[t \in Threads |-> Idle] EXCEPT ![g] = Begin(FALSE)]
    BY DEF Init
  <2> QED
    BY <2>1, <2>2, <2>3
<1>3. wire \in Seq(Notice) /\ \A i \in 1 .. Len(wire) : ~Failed(i)
  <2> DEFINE n == [event |-> "entry", line |-> 0]
  <2>1. n \in Notice /\ n.event # "failed"
    BY DEF Notice, Stopped
  <2>2. wire = <<>> \/ wire = <<n>>
    BY Zenon DEF Init
  <2> HIDE DEF n
  <2>3. CASE wire = <<>>
    BY <2>3
  <2>4. CASE wire = <<n>>
    BY <2>1, <2>4 DEF Failed
  <2> QED
    BY <2>2, <2>3, <2>4
<1>4. \/ /\ loaded = None /\ request = None
         /\ client = [view |-> "new", line |-> 0]
      \/ /\ loaded # None /\ request = "attach"
         /\ client = [view |-> "running", line |-> 0]
  BY DEF Init
<1>5. "attach" \in Commands /\ "launch" \in Commands /\ None \notin Commands
  BY GoAssumption DEF Commands, GoAssumption
<1>6. /\ client \in [view : Views, line : Int]
      /\ request \in Commands \cup {None} /\ request # "launch"
      /\ client.view = "new" => loaded = None
  <2>1. "new" \in Views /\ "running" \in Views
    BY DEF Views
  <2> QED
    BY <1>4, <1>5, <2>1
<1>7. TypeOK
  <2>1. /\ currentLine \in Int /\ currentCol \in Int \cup {None} /\ instruction \in Int
        /\ variables \in SUBSET Names /\ paused \in BOOLEAN /\ requests \in Nat
        /\ instrBps \in SUBSET Int /\ process \in {"up", "exited", "crashed"}
        /\ adding \in [file : Files, todo : (SUBSET Int) \ {{}}] \cup {None}
    <3>1. /\ currentLine = 0 /\ currentCol = None /\ instruction = 0 /\ variables = {}
          /\ instrBps = {} /\ paused = FALSE /\ adding = None /\ requests = 0
          /\ process = "up"
      BY DEF Init
    <3>2. paused \in BOOLEAN
      BY <3>1, Zenon
    <3>3. adding \in [file : Files, todo : (SUBSET Int) \ {{}}] \cup {None}
      BY <3>1, Zenon
    <3> QED
      BY <3>1, <3>2, <3>3
  <2>2. bps \in [Files -> SUBSET Int] /\ dataBps \in [Names -> SUBSET {"read", "write"}]
    <3>1. bps = [f \in Files |-> {}] /\ dataBps = [n \in Names |-> {}]
      BY DEF Init
    <3> QED
      BY <3>1
  <2>3. filters \in FilterRecord
    BY DEF Init, FilterRecord
  <2> QED
    BY <1>1, <1>2, <1>3, <1>6, <2>1, <2>2, <2>3 DEF TypeOK
<1>8. Launching
  BY <1>3, <1>6 DEF Launching
<1>9. Waited
  <2>1. ASSUME NEW g \in Goroutines,
               thread = [[t \in Threads |-> Idle] EXCEPT ![g] = Begin(FALSE)]
        PROVE  g \in Threads /\ thread[g].at # "idle"
    BY <2>1, BeginRecord DEF Threads
  <2>2. CASE loaded = None
    BY <2>2 DEF Waited
  <2>3. CASE loaded # None
    <3>1. \/ wire = <<[event |-> "entry", line |-> 0]>>
          \/ \E g \in Goroutines :
                thread = [[t \in Threads |-> Idle] EXCEPT ![g] = Begin(FALSE)]
      BY <2>3 DEF Init
    <3>2. wire # <<>> \/ \E t \in Threads : thread[t].at # "idle"
      <4>1. \A n : <<n>> # <<>>
        OBVIOUS
      <4>2. CASE wire = <<[event |-> "entry", line |-> 0]>>
        BY <4>1, <4>2, Zenon
      <4>3. CASE \E g \in Goroutines :
                   thread = [[t \in Threads |-> Idle] EXCEPT ![g] = Begin(FALSE)]
        BY <2>1, <4>3, Zenon
      <4> QED
        BY <3>1, <4>2, <4>3, Zenon
    <3> QED
      BY <3>2 DEF Waited
  <2> QED
    BY <2>2, <2>3
<1> QED
  BY <1>7, <1>8, <1>9 DEF Inv

LEMMA Stuttering == Inv /\ UNCHANGED vars => Inv'
BY DEF Inv, TypeOK, Launching, Failed, Waited, Up,
   vars, program, stops, session

\* The inductive invariant: the types, when a launch can be refused, and what a
\* waiting client waits for.
THEOREM Invariant == Spec => []Inv
<1>1. Inv /\ [Next]_vars => Inv'
  <2> SUFFICES ASSUME Inv, [Next]_vars PROVE Inv'
    OBVIOUS
  <2>1. CASE MapClash
    BY <2>1, DeathStep DEF MapClash
  <2>2. CASE UNCHANGED vars
    BY <2>2, Stuttering
  <2> QED
    BY <2>1, <2>2, ThreadSteps, ServeStep, SendStep, ReceiveStep, ClosedStep DEF Next
<1> QED
  BY <1>1, Initially, PTL DEF Spec

\* The engine, the handler, the pipe and the client keep their types, whatever
\* runs beside whatever.
THEOREM TypeCorrect == Spec => []TypeOK
<1>1. Inv => TypeOK
  BY DEF Inv
<1> QED
  BY <1>1, Invariant, PTL

\* A client that waits for the Go runtime has a notice, a request or a thread to
\* wait for: handleConn and Continue may drop or undo a pause, but never the
\* last thing that would report.
THEOREM SomethingWillTell == Spec => []NeverLeftWaiting
<1>1. Inv => NeverLeftWaiting
  <2>1. \A c \in Starting : c # None
    BY StartingTypes, GoAssumption DEF GoAssumption
  <2> QED
    BY <2>1 DEF Inv, Waited, NeverLeftWaiting
<1> QED
  BY <1>1, Invariant, PTL

-----------------------------------------------------------------------------
(* A client that waits for quiet, pauses nothing, and launches programs of  *)
(* at least one line: what "at least one" means is what bufio.Scanner       *)
(* returns, so a text of one empty line is not one.                         *)

Careful ==
  /\ Patient /\ Calls \cap {"pause", "attach"} = {} /\ Preloads \subseteq {None}
  /\ \A f \in Programs \ {None} : NumLines(f) = 1 => TextOf(f, 0).width # 0

Ending(i) == wire[i].event = "terminated"
AllEnding == \A i \in 1 .. Len(wire) : Ending(i)
Running   == \E t \in Threads : Moving(t)

\* Nothing pauses it, kills it, or loads what was not launched.
Undisturbed == /\ ~paused /\ request \notin {"pause", "attach"} /\ process # "crashed"
               /\ loaded \in Programs \cup {None}

\* Before a program is loaded, nothing runs and nothing stops.
Unloaded ==
  loaded = None =>
    /\ \A t \in Threads : thread[t].at = "idle"
    /\ \A i \in 1 .. Len(wire) : wire[i].event = "failed"
    /\ client.view # "stopped" /\ request \notin RunCommands

Alone == OneRun /\ (thread[Main].at = "over" => ~Running)

\* While something runs, the client has nothing on its way that concerns it, and
\* nothing to make it believe that the program has stopped.
Hushed == Running => /\ adding = None /\ request \in {None, "disconnect"}
                     /\ AllEnding /\ client.view \in {"running", "ended"}

\* While a request is on its way there was nothing else to hear of.
Asked == request \notin {None, "disconnect"} \/ adding # None =>
           /\ thread[Main].at = "idle" /\ AllEnding
           /\ request \in Starting => client.view \in {"running", "ended"}

\* Every stop, on its way or read, tells the line the program is on.
Told == /\ loaded # None => currentLine \in GoLines
        /\ \A i \in 1 .. Len(wire) : wire[i].event \in Stopped => wire[i].line = currentLine
        /\ client.view = "stopped" => client.line = currentLine

\* From where it began up to here, a run crossed no breakpoint.
Clear(t, here) ==
  (IF thread[t].reverse THEN here .. thread[t].from - 1 ELSE thread[t].from + 1 .. here)
     \cap bps[loaded] = {}

\* Where a run stands to the current line, and what it has left behind it.
OnItsWay(t) ==
  LET r == thread[t]
  IN /\ r.at = "unpause" => r.from = currentLine
     /\ r.at = "check" => Clear(t, currentLine)
     /\ r.at \in {"execute", "advance", "store"} => r.ln = currentLine /\ Clear(t, r.ln)
     /\ r.at = "store" => IF r.reverse THEN currentLine > 0 ELSE currentLine < LastLine
     /\ r.at = "seek" => /\ Clear(t, r.ln)
                         /\ currentLine = IF r.reverse THEN r.ln - 1 ELSE r.ln + 1
     /\ r.at = "find" => /\ r.ln \in GoLines
                         /\ Clear(t, IF r.reverse THEN r.ln + 1 ELSE r.ln - 1)
                         /\ IF r.reverse THEN r.ln <= currentLine ELSE r.ln >= currentLine

Orderly == /\ Undisturbed /\ Unloaded /\ Alone /\ Hushed /\ Asked /\ Told
           /\ \A t \in Threads : OnItsWay(t)

OnlyMoves(t) == \A s \in Threads \ {t} : thread'[s] = thread[s]

\* A program has a first and a last line.
LEMMA ProgramLines ==
  ASSUME TypeOK, Careful, Undisturbed, loaded # None
  PROVE  LastLine \in Nat /\ GoLines = 0 .. LastLine
<1>1. loaded \in Files /\ loaded \in Programs
  BY GoAssumption DEF GoAssumption, Undisturbed
<1>2. NumLines(loaded) \in Nat \ {0} /\ Lines(loaded) = 0 .. NumLines(loaded) - 1
  BY <1>1, LinesType
<1>3. PICK n \in Nat : GoLines = 0 .. n
  <2>1. CASE TextOf(loaded, NumLines(loaded) - 1).width = 0
    <3>1. NumLines(loaded) # 1
      BY <1>1, <2>1 DEF Careful
    <3>2. NumLines(loaded) - 2 \in Nat
      BY <1>2, <3>1
    <3> QED
      BY <2>1, <3>2 DEF GoLines
  <2>2. CASE TextOf(loaded, NumLines(loaded) - 1).width # 0
    <3>1. NumLines(loaded) - 1 \in Nat
      BY <1>2
    <3> QED
      BY <1>2, <2>2, <3>1 DEF GoLines
  <2> QED
    BY <2>1, <2>2
<1>4. Cardinality(0 .. n) = n + 1
  BY FS_Interval
<1> QED
  BY <1>3, <1>4 DEF LastLine

LEMMA MovingStages ==
  ASSUME TypeOK, NEW t \in Threads
  PROVE  Moving(t) <=> thread[t].at \in {"normalise", "unpause", "check", "execute",
                                         "advance", "store", "seek", "find"}
BY ThreadType DEF Moving, Stages

\* A thread that moves is the only one, and what it moves is loaded.
LEMMA TheRun ==
  ASSUME TypeOK, Careful, Orderly, NEW t \in Threads, Moving(t)
  PROVE  /\ loaded # None /\ loaded \in Files /\ currentLine \in GoLines
         /\ adding = None /\ request \in {None, "disconnect"} /\ AllEnding
         /\ client.view \in {"running", "ended"}
         /\ \A s \in Threads \ {t} : ~Moving(s)
         /\ thread[Main].at # "over"
         /\ OnItsWay(t)
<1>1. Running
  BY DEF Running
<1>2. loaded # None
  BY DEF Orderly, Unloaded, Moving
<1> QED
  BY <1>1, <1>2 DEF Orderly, Hushed, Alone, OneRun, Told, TypeOK

\* What rests is nowhere on its way.
LEMMA AtRest ==
  ASSUME NEW t \in Threads, ~Moving(t)
  PROVE  OnItsWay(t)
BY DEF Moving, OnItsWay

\* The run moves on.
LEMMA Onward ==
  ASSUME TypeOK, Careful, Orderly, NEW t \in Threads, Moving(t), OnlyMoves(t),
         thread'[t].at \notin {"idle", "over"}, currentLine' \in GoLines, ~paused',
         UNCHANGED <<loaded, request, adding, wire, session>>, OnItsWay(t)'
  PROVE  Orderly'
<1>1. \A s \in Threads \ {t} : ~Moving(s)'
  BY TheRun DEF OnlyMoves, Moving
<1>2. thread'[Main].at # "over"
  BY TheRun DEF OnlyMoves, Threads
<1>3. Undisturbed' /\ Hushed' /\ Asked' /\ Unloaded'
  BY TheRun DEF Orderly, Undisturbed, Hushed, Asked, Unloaded, AllEnding, Ending, session
<1>4. Alone'
  BY <1>1, <1>2 DEF Alone, OneRun
<1>5. Told'
  <2>1. GoLines' = GoLines
    BY DEF GoLines
  <2>2. \A i \in 1 .. Len(wire) : wire[i].event \notin Stopped
    BY TheRun DEF AllEnding, Ending, Stopped
  <2> QED
    BY TheRun, <2>1, <2>2 DEF Told, session
<1>6. \A s \in Threads : OnItsWay(s)'
  <2>1. ASSUME NEW s \in Threads \ {t} PROVE OnItsWay(s)'
    BY <1>1 DEF Moving, OnItsWay
  <2> QED
    BY <2>1
<1> QED
  BY <1>3, <1>4, <1>5, <1>6 DEF Orderly

\* The run is over: with a stop where it is, or with none.
LEMMA ComesToRest ==
  ASSUME TypeOK, Careful, Orderly, NEW t \in Threads, Moving(t), OnlyMoves(t),
         thread'[t].at \in {"idle", "over"}, currentLine' \in GoLines, ~paused',
         UNCHANGED <<loaded, request, adding, session>>,
         \/ UNCHANGED wire
         \/ \E e \in Stopped : Raise(e, currentLine')
  PROVE  Orderly'
<1>1. \A s \in Threads : ~Moving(s)'
  BY TheRun DEF OnlyMoves, Moving
<1>2. Undisturbed' /\ Asked' /\ Unloaded'
  BY TheRun DEF Orderly, Undisturbed, Asked, Unloaded, session
<1>3. Alone' /\ Hushed'
  BY <1>1 DEF Alone, OneRun, Hushed, Running
<1>4. Told'
  <2>1. GoLines' = GoLines
    BY DEF GoLines
  <2>2. \A i \in 1 .. Len(wire) : wire[i].event \notin Stopped
    BY TheRun DEF AllEnding, Ending, Stopped
  <2>3. \A i \in 1 .. Len(wire') : wire'[i].event \in Stopped => wire'[i].line = currentLine'
    <3>1. ASSUME NEW e \in Stopped, Raise(e, currentLine')
          PROVE  \A i \in 1 .. Len(wire') : wire'[i].event \in Stopped => wire'[i].line = currentLine'
      <4> DEFINE n == [event |-> e, line |-> currentLine']
      <4>1. wire' = Append(wire, n) /\ n.line = currentLine' /\ wire \in Seq(Notice)
        BY <3>1 DEF Raise, TypeOK
      <4> HIDE DEF n
      <4> QED
        BY <4>1, <2>2
    <3> QED
      BY <2>2, <3>1
  <2> QED
    BY TheRun, <2>1, <2>3 DEF Told, session
<1>5. \A s \in Threads : OnItsWay(s)'
  BY <1>1 DEF Moving, OnItsWay
<1> QED
  BY <1>2, <1>3, <1>4, <1>5 DEF Orderly

\* Where Goto and Return lead.
LEMMA Leads ==
  ASSUME TypeOK, NEW t \in Threads, NEW at, NEW ln, Goto(t, at, ln)
  PROVE  /\ OnlyMoves(t) /\ thread'[t].at = at /\ thread'[t].ln = ln
         /\ thread'[t].reverse = thread[t].reverse /\ thread'[t].from = thread[t].from
BY DEF Goto, OnlyMoves, TypeOK, ThreadRecord

LEMMA Returns ==
  ASSUME TypeOK, NEW t \in Threads, Return(t)
  PROVE  OnlyMoves(t) /\ thread'[t].at = "idle"
BY DEF Return, OnlyMoves, TypeOK, Idle

LEMMA SameText ==
  ASSUME UNCHANGED loaded
  PROVE  GoLines' = GoLines /\ LastLine' = LastLine
BY DEF GoLines, LastLine

\* The way of a thread that does not move the current line or the breakpoints.
LEMMA NormaliseInOrder ==
  ASSUME TypeOK, Careful, Orderly, NEW t \in Threads, Normalise(t)
  PROVE  Orderly'
<1>1. Moving(t)
  BY DEF Normalise, At, Moving
<1>2. /\ OnlyMoves(t) /\ thread'[t].at \in {"execute", "unpause"}
      /\ thread'[t].ln = currentLine /\ thread'[t].from = currentLine
  BY DEF Normalise, OnlyMoves, TypeOK, ThreadRecord
<1>3. OnItsWay(t)'
  <2>1. currentLine' = currentLine /\ currentLine \in Int
    BY DEF Normalise, TypeOK
  <2> QED
    BY <1>2, <2>1 DEF OnItsWay, Clear
<1>4. ~paused' /\ UNCHANGED <<loaded, currentLine, request, adding, wire, session>>
  BY DEF Normalise, Orderly, Undisturbed
<1> QED
  BY <1>1, <1>2, <1>3, <1>4, TheRun, Onward

LEMMA UnpauseInOrder ==
  ASSUME TypeOK, Careful, Orderly, NEW t \in Threads, Unpause(t)
  PROVE  Orderly'
<1>1. Moving(t)
  BY DEF Unpause, At, Moving
<1>2. Goto(t, "check", thread[t].ln) /\ thread[t].at = "unpause"
  BY DEF Unpause, At
<1>3. UNCHANGED <<loaded, currentLine, request, adding, wire, session>> /\ ~paused'
  BY DEF Unpause, program
<1>4. OnItsWay(t)'
  <2>1. thread[t].from = currentLine /\ currentLine \in Int
    BY <1>1, <1>2, TheRun DEF OnItsWay, TypeOK
  <2> QED
    BY <1>2, <1>3, <2>1, Leads DEF OnItsWay, Clear
<1> QED
  BY <1>1, <1>2, <1>3, <1>4, Leads, TheRun, Onward

LEMMA CheckInOrder ==
  ASSUME TypeOK, Careful, Orderly, NEW t \in Threads, Check(t)
  PROVE  Orderly'
<1>1. Moving(t)
  BY DEF Check, At, Moving
<1>2. Goto(t, "execute", currentLine) /\ UNCHANGED wire /\ thread[t].at = "check"
  BY DEF Check, At, Orderly, Undisturbed
<1>3. UNCHANGED <<loaded, currentLine, bps, request, adding, wire, session>> /\ ~paused'
  BY <1>2 DEF Check, program, stops
<1>4. OnItsWay(t)'
  <2>1. Clear(t, currentLine)
    BY <1>1, <1>2, TheRun DEF OnItsWay
  <2>2. Clear(t, currentLine)'
    BY <1>2, <1>3, <2>1, Leads DEF Clear
  <2> QED
    BY <1>2, <1>3, <2>2, Leads DEF OnItsWay
<1> QED
  BY <1>1, <1>2, <1>3, <1>4, Leads, TheRun, Onward

\* A thread that executes is on the current line, and stops there or stays.
LEMMA WordInOrder ==
  ASSUME TypeOK, Careful, Orderly, NEW t \in Threads, Word(t)
  PROVE  Orderly'
<1>1. Moving(t) /\ thread[t].at = "execute"
  BY DEF Word, Executing, At, Moving
<1>2. /\ UNCHANGED <<loaded, currentLine, bps, request, adding, session>> /\ ~paused'
      /\ thread[t].ln = currentLine
  BY <1>1, TheRun DEF Word, stops, OnItsWay, Orderly, Undisturbed
<1>3. CASE instruction' \in instrBps
  <2>1. PICK e \in Stopped : e = "instructionBreakpoint"
    BY DEF Stopped
  <2>2. Raise(e, currentLine') /\ Return(t)
    BY <1>2, <1>3, <2>1 DEF Word
  <2> QED
    BY <1>1, <1>2, <2>2, Returns, TheRun, ComesToRest
<1>4. CASE instruction' \notin instrBps
  <2>1. UNCHANGED <<wire, thread>>
    BY <1>4 DEF Word
  <2>2. OnItsWay(t)'
    BY <1>1, <1>2, <2>1, TheRun, SameText DEF OnItsWay, Clear
  <2>3. OnlyMoves(t) /\ thread'[t].at \notin {"idle", "over"}
    BY <1>1, <2>1 DEF OnlyMoves
  <2> QED
    BY <1>1, <1>2, <2>1, <2>2, <2>3, TheRun, Onward
<1> QED
  BY <1>3, <1>4

LEMMA HitDataInOrder ==
  ASSUME TypeOK, Careful, Orderly, NEW t \in Threads, HitData(t)
  PROVE  Orderly'
<1>1. Moving(t) /\ thread[t].at = "execute"
  BY DEF HitData, Executing, At, Moving
<1>2. /\ UNCHANGED <<loaded, currentLine, request, adding, session>> /\ ~paused'
      /\ thread[t].ln = currentLine
  BY <1>1, TheRun DEF HitData, OnItsWay, Orderly, Undisturbed
<1>3. PICK e \in Stopped : e = "dataBreakpoint"
  BY DEF Stopped
<1>4. Raise(e, currentLine') /\ Return(t)
  BY <1>2, <1>3 DEF HitData
<1> QED
  BY <1>1, <1>2, <1>4, Returns, TheRun, ComesToRest

LEMMA LineDoneInOrder ==
  ASSUME TypeOK, Careful, Orderly, NEW t \in Threads, LineDone(t)
  PROVE  Orderly'
<1>1. Moving(t) /\ thread[t].at = "execute"
  BY DEF LineDone, Executing, At, Moving
<1>2. /\ UNCHANGED <<loaded, currentLine, bps, request, adding, session>> /\ ~paused'
      /\ thread[t].ln = currentLine /\ Clear(t, currentLine)
  BY <1>1, TheRun DEF LineDone, stops, OnItsWay, Orderly, Undisturbed
<1>3. PICK e \in Stopped : e = "exception"
  BY DEF Stopped
<1>4. CASE Raise(e, thread[t].ln) /\ Return(t)
  <2>1. Raise(e, currentLine')
    BY <1>2, <1>4
  <2> QED
    BY <1>1, <1>2, <1>4, <2>1, Returns, TheRun, ComesToRest
<1>5. CASE Goto(t, "advance", thread[t].ln) /\ UNCHANGED wire
  <2>1. Clear(t, currentLine)'
    BY <1>2, <1>5, Leads DEF Clear
  <2>2. OnItsWay(t)'
    BY <1>2, <1>5, <2>1, Leads DEF OnItsWay
  <2> QED
    BY <1>1, <1>2, <1>5, <2>2, Leads, TheRun, Onward
<1> QED
  BY <1>3, <1>4, <1>5 DEF LineDone

\* The line is moved by one, and within the text.
LEMMA AdvanceInOrder ==
  ASSUME TypeOK, Careful, Orderly, NEW t \in Threads, Advance(t)
  PROVE  Orderly'
<1>1. Moving(t) /\ thread[t].at = "advance" /\ Goto(t, "store", currentLine)
  BY DEF Advance, At, Moving
<1>2. /\ UNCHANGED <<loaded, currentLine, bps, request, adding, wire, session>> /\ ~paused'
      /\ Clear(t, currentLine)
  BY <1>1, TheRun DEF Advance, program, stops, OnItsWay, Orderly, Undisturbed
<1>3. Clear(t, currentLine)'
  BY <1>1, <1>2, Leads DEF Clear
<1>4. OnItsWay(t)'
  BY <1>1, <1>2, <1>3, Leads, SameText DEF OnItsWay, Advance
<1> QED
  BY <1>1, <1>2, <1>4, Leads, TheRun, Onward

LEMMA StoreInOrder ==
  ASSUME TypeOK, Careful, Orderly, NEW t \in Threads, Store(t)
  PROVE  Orderly'
<1>1. Moving(t) /\ thread[t].at = "store" /\ Goto(t, "seek", thread[t].ln)
  BY DEF Store, At, Moving
<1>2. /\ UNCHANGED <<loaded, bps, request, adding, wire, session>> /\ ~paused'
      /\ thread[t].ln = currentLine /\ Clear(t, thread[t].ln)
      /\ IF thread[t].reverse THEN currentLine > 0 ELSE currentLine < LastLine
  BY <1>1, TheRun DEF Store, stops, OnItsWay, Orderly, Undisturbed
<1>3. currentLine' = IF thread[t].reverse THEN currentLine - 1 ELSE currentLine + 1
  BY <1>2 DEF Store
<1>4. currentLine' \in GoLines
  <2>1. LastLine \in Nat /\ GoLines = 0 .. LastLine /\ currentLine \in GoLines
    BY <1>1, TheRun, ProgramLines DEF Orderly
  <2> QED
    BY <1>2, <1>3, <2>1
<1>5. OnItsWay(t)'
  <2>1. Clear(t, thread[t].ln)'
    BY <1>1, <1>2, Leads DEF Clear
  <2> QED
    BY <1>1, <1>2, <1>3, <2>1, Leads DEF OnItsWay
<1> QED
  BY <1>1, <1>2, <1>4, <1>5, Leads, Onward

LEMMA RunOffInOrder ==
  ASSUME TypeOK, Careful, Orderly, NEW t \in Threads, RunOff(t)
  PROVE  Orderly'
<1>1. Moving(t) /\ Goto(t, "over", thread[t].ln)
  BY DEF RunOff, At, Moving
<1>2. UNCHANGED <<loaded, request, adding, session>> /\ ~paused'
  BY DEF RunOff, Orderly, Undisturbed
<1>3. CASE thread[t].reverse
  <2>1. PICK e \in Stopped : e = "entry"
    BY DEF Stopped
  <2>2. Raise(e, currentLine') /\ currentLine' = 0
    BY <1>3, <2>1 DEF RunOff
  <2>3. 0 \in GoLines
    BY <1>1, TheRun, ProgramLines DEF Orderly
  <2> QED
    BY <1>1, <1>2, <2>2, <2>3, Leads, ComesToRest
<1>4. CASE ~thread[t].reverse
  <2>1. UNCHANGED <<currentLine, wire>>
    BY <1>4 DEF RunOff
  <2> QED
    BY <1>1, <1>2, <2>1, Leads, TheRun, ComesToRest
<1> QED
  BY <1>3, <1>4

LEMMA SeekInOrder ==
  ASSUME TypeOK, Careful, Orderly, NEW t \in Threads, Seek(t)
  PROVE  Orderly'
<1>1. Moving(t) /\ thread[t].at = "seek" /\ Goto(t, "find", currentLine)
  BY DEF Seek, At, Moving
<1>2. /\ UNCHANGED <<loaded, currentLine, bps, request, adding, wire, session>> /\ ~paused'
      /\ Clear(t, thread[t].ln)
      /\ currentLine = IF thread[t].reverse THEN thread[t].ln - 1 ELSE thread[t].ln + 1
  BY <1>1, TheRun DEF Seek, program, stops, OnItsWay, Orderly, Undisturbed
<1>3. /\ thread[t].ln \in Int /\ currentLine \in Int /\ currentLine \in GoLines
      /\ thread[t].reverse \in BOOLEAN
  BY <1>1, ThreadType, TheRun DEF TypeOK
<1>4. Clear(t, IF thread[t].reverse THEN thread[t].ln + 1 ELSE thread[t].ln - 1)'
  <2>1. thread[t].ln = IF thread[t].reverse THEN currentLine + 1 ELSE currentLine - 1
    BY <1>2, <1>3
  <2>2. Clear(t, thread[t].ln) /\ UNCHANGED <<loaded, bps>>
    BY <1>2
  <2>3. (IF thread[t].reverse THEN thread[t].ln + 1 ELSE thread[t].ln - 1)' = thread[t].ln
    BY <1>1, <2>1, Leads
  <2> QED
    BY <1>1, <2>2, <2>3, Leads DEF Clear
<1>5. OnItsWay(t)'
  BY <1>1, <1>2, <1>3, <1>4, Leads, SameText DEF OnItsWay
<1> QED
  BY <1>1, <1>2, <1>3, <1>5, Leads, Onward

LEMMA StopFindingInOrder ==
  ASSUME TypeOK, Careful, Orderly, NEW t \in Threads, FindBreakpoint(t) \/ FindInstruction(t)
  PROVE  Orderly'
<1>1. Moving(t) /\ thread[t].at = "find"
  BY DEF FindBreakpoint, FindInstruction, Passable, Finding, At, Moving
<1>2. PICK e \in Stopped : StopFinding(t, e)
  <2>1. "breakpoint" \in Stopped /\ "instructionBreakpoint" \in Stopped
    BY DEF Stopped
  <2> QED
    BY <2>1 DEF FindBreakpoint, FindInstruction
<1>3. currentLine' \in GoLines
  BY <1>1, <1>2, TheRun DEF StopFinding, OnItsWay
<1>4. OnlyMoves(t) /\ thread'[t].at \in {"idle", "over"}
  <2>1. Goto(t, "over", thread[t].ln) \/ Return(t)
    BY <1>2 DEF StopFinding
  <2> QED
    BY <2>1, Leads, Returns
<1>5. /\ Raise(e, currentLine') /\ ~paused'
      /\ UNCHANGED <<loaded, request, adding, session>>
  BY <1>2 DEF StopFinding, Orderly, Undisturbed
<1> QED
  BY <1>1, <1>3, <1>4, <1>5, ComesToRest

\* What a search leaves behind when it passes the line it is at.
LEMMA Passing ==
  ASSUME TypeOK, Careful, Orderly, NEW t \in Threads, Passable(t)
  PROVE  /\ Moving(t) /\ thread[t].at = "find" /\ thread[t].ln \in GoLines
         /\ thread[t].ln \in Int /\ thread[t].from \in Int /\ thread[t].reverse \in BOOLEAN
         /\ currentLine \in Int /\ currentLine \in GoLines
         /\ Clear(t, thread[t].ln) /\ Clear(t, currentLine)
<1>1. Moving(t) /\ thread[t].at = "find"
  BY DEF Passable, Finding, At, Moving
<1>2. /\ thread[t].ln \in Int /\ thread[t].from \in Int /\ thread[t].reverse \in BOOLEAN
      /\ currentLine \in Int /\ currentLine \in GoLines
  BY <1>1, TheRun, ThreadType DEF TypeOK
<1>3. /\ thread[t].ln \in GoLines /\ thread[t].ln \notin bps[loaded]
      /\ Clear(t, IF thread[t].reverse THEN thread[t].ln + 1 ELSE thread[t].ln - 1)
      /\ IF thread[t].reverse THEN thread[t].ln <= currentLine ELSE thread[t].ln >= currentLine
  BY <1>1, TheRun DEF OnItsWay, Passable, Finding
<1>4. CASE thread[t].reverse
  BY <1>1, <1>2, <1>3, <1>4 DEF Clear
<1>5. CASE ~thread[t].reverse
  BY <1>1, <1>2, <1>3, <1>5 DEF Clear
<1> QED
  BY <1>1, <1>2, <1>3, <1>4, <1>5

\* Found, or at an end of the text: a next is over, a run begins again.
LEMMA FoundInOrder ==
  ASSUME TypeOK, Careful, Orderly, NEW t \in Threads, Passable(t), Found(t),
         currentLine' \in {thread[t].ln, currentLine}, ~paused',
         UNCHANGED <<loaded, bps, request, adding, wire, session>>
  PROVE  Orderly'
<1>1. currentLine' \in GoLines /\ Clear(t, currentLine')
  BY Passing
<1>2. CASE Goto(t, "over", thread[t].ln)
  BY <1>1, <1>2, Passing, Leads, ComesToRest
<1>3. CASE Goto(t, "check", thread[t].ln)
  <2>1. Clear(t, currentLine)'
    BY <1>1, <1>3, Leads DEF Clear
  <2>2. OnItsWay(t)'
    BY <1>3, <2>1, Leads DEF OnItsWay
  <2> QED
    BY <1>1, <1>3, <2>2, Passing, Leads, Onward
<1> QED
  BY <1>2, <1>3 DEF Found

LEMMA FindStatementInOrder ==
  ASSUME TypeOK, Careful, Orderly, NEW t \in Threads, FindStatement(t)
  PROVE  Orderly'
BY FoundInOrder DEF FindStatement, stops, Orderly, Undisturbed

LEMMA SkipBlankInOrder ==
  ASSUME TypeOK, Careful, Orderly, NEW t \in Threads, SkipBlank(t)
  PROVE  Orderly'
<1>1. /\ Passable(t) /\ ~paused'
      /\ UNCHANGED <<loaded, currentLine, bps, request, adding, wire, session>>
  BY DEF SkipBlank, program, stops, Orderly, Undisturbed
<1>2. CASE Found(t)
  BY <1>1, <1>2, FoundInOrder
<1>3. CASE ~Found(t)
  <2>1. PICK ln \in GoLines :
          /\ Goto(t, "find", ln)
          /\ ln = IF thread[t].reverse THEN thread[t].ln - 1 ELSE thread[t].ln + 1
    BY <1>3 DEF SkipBlank
  <2>2. thread[t].ln = IF thread[t].reverse THEN ln + 1 ELSE ln - 1
    BY <1>1, <2>1, Passing
  <2>3. Clear(t, IF thread[t].reverse THEN thread[t].ln + 1 ELSE thread[t].ln - 1)'
    <3>1. Clear(t, thread[t].ln)
      BY <1>1, Passing
    <3>2. (IF thread[t].reverse THEN thread[t].ln + 1 ELSE thread[t].ln - 1)' = thread[t].ln
      BY <2>1, <2>2, Leads
    <3> QED
      BY <1>1, <2>1, <3>1, <3>2, Leads DEF Clear
  <2>4. IF thread[t].reverse THEN ln <= currentLine ELSE ln >= currentLine
    <3>1. IF thread[t].reverse THEN thread[t].ln <= currentLine ELSE thread[t].ln >= currentLine
      BY <1>1, Passing, TheRun DEF OnItsWay
    <3> QED
      BY <1>1, <2>1, <3>1, Passing
  <2>5. OnItsWay(t)'
    BY <1>1, <2>1, <2>3, <2>4, Leads, SameText DEF OnItsWay
  <2> QED
    BY <1>1, <2>1, <2>5, Passing, Leads, Onward
<1> QED
  BY <1>2, <1>3

\* A thread that is over reports it; nothing moves by that.
LEMMA FinishInOrder ==
  ASSUME TypeOK, Careful, Orderly, NEW t \in Threads, Finish(t)
  PROVE  Orderly'
<1>0. /\ thread[t].at = "over" /\ OnlyMoves(t) /\ thread'[t].at = "idle"
      /\ UNCHANGED <<loaded, currentLine, bps, paused, request, adding, session>>
      /\ wire \in Seq(Notice) /\ loaded # None
  BY Returns DEF Finish, At, program, stops, TypeOK, Orderly, Unloaded
<1>1. \A s \in Threads : (Moving(s)' <=> Moving(s)) /\ (Moving(s) => thread'[s] = thread[s])
  BY <1>0 DEF Moving, OnlyMoves
<1>2. \A s \in Threads : OnItsWay(s)'
  <2> SUFFICES ASSUME NEW s \in Threads, Moving(s) PROVE OnItsWay(s)'
    BY <1>1 DEF Moving, OnItsWay
  <2>1. thread'[s] = thread[s] /\ OnItsWay(s) /\ UNCHANGED <<loaded, currentLine, bps>>
    BY <1>0, <1>1 DEF Orderly
  <2> QED
    BY <2>1, SameText DEF OnItsWay, Clear
<1>3. Undisturbed' /\ Unloaded'
  BY <1>0 DEF Orderly, Undisturbed, Unloaded, session
<1>4. Alone' /\ (Running' <=> Running)
  BY <1>0, <1>1 DEF Orderly, Alone, OneRun, OnlyMoves, Running, Threads
<1>5. CASE t = Main
  <2>1. ~Running /\ request \in {None, "disconnect"} /\ adding = None
    BY <1>0, <1>5 DEF Orderly, Alone, Asked
  <2>2. Hushed' /\ Asked'
    BY <1>0, <1>4, <2>1 DEF Hushed, Asked
  <2>3. Told'
    <3> DEFINE n == [event |-> "step", line |-> currentLine]
    <3>1. wire' = Append(wire, n) /\ n.line = currentLine
      BY <1>5 DEF Finish, Raise
    <3> HIDE DEF n
    <3> QED
      BY <1>0, <3>1, SameText DEF Orderly, Told, session
  <2> QED
    BY <1>2, <1>3, <1>4, <2>2, <2>3 DEF Orderly
<1>6. CASE t # Main
  <2> DEFINE n == [event |-> "terminated", line |-> 0]
  <2>1. wire' = Append(wire, n) /\ n.event = "terminated" /\ "terminated" \notin Stopped
    BY <1>6 DEF Finish, Raise, Stopped
  <2> HIDE DEF n
  <2>2. AllEnding => AllEnding'
    BY <1>0, <2>1 DEF AllEnding, Ending
  <2>3. thread'[Main] = thread[Main]
    BY <1>0, <1>6 DEF OnlyMoves, Threads
  <2>4. Hushed' /\ Asked'
    BY <1>0, <1>4, <2>2, <2>3 DEF Orderly, Hushed, Asked, session
  <2>5. Told'
    BY <1>0, <2>1, SameText DEF Orderly, Told, session
  <2> QED
    BY <1>2, <1>3, <1>4, <2>4, <2>5 DEF Orderly
<1> QED
  BY <1>5, <1>6

\* No thread is beyond the text.
LEMMA NoPanic ==
  ASSUME TypeOK, Careful, Orderly, NEW t \in Threads
  PROVE  ~Panic(t)
<1> SUFFICES ASSUME Panic(t) PROVE FALSE
  OBVIOUS
<1>1. Moving(t) /\ thread[t].ln \notin GoLines /\ thread[t].at \in {"execute", "find"}
  BY DEF Panic, Moving
<1> QED
  BY <1>1, TheRun DEF OnItsWay

\* Nobody touches a map but the thread that moves, or the handler alone.
LEMMA NoMapClash ==
  ASSUME TypeOK, Careful, Orderly
  PROVE  ~MapClash
<1> SUFFICES ASSUME MapClash PROVE FALSE
  OBVIOUS
<1>0. \A c \in {"getLocalVariables", "setBreakpoints", "setDataBreakpoint",
              "setInstructionBreakpoint", "setVariable"} : c \notin {None, "disconnect"}
  BY GoAssumption DEF GoAssumption, Commands, Configuration, StopCommands
<1>1. PICK s \in Threads : \E t \in Threads \ {s} : Writes(s) \cap (Reads(t) \cup Writes(t)) # {}
  BY DEF MapClash
<1>2. \A x \in Threads : ~Moving(x) /\ x # Main => Writes(x) = {} /\ Reads(x) = {}
  BY DEF Writes, Reads, Executing, At, Moving
<1>3. \A x \in Threads : Moving(x) => \A y \in Threads \ {x} : Writes(y) = {} /\ Reads(y) = {}
  <2> SUFFICES ASSUME NEW x \in Threads, Moving(x), NEW y \in Threads \ {x}
               PROVE  Writes(y) = {} /\ Reads(y) = {}
    OBVIOUS
  <2>1. ~Moving(y) /\ adding = None /\ request \in {None, "disconnect"}
    BY TheRun
  <2> QED
    BY <1>0, <2>1 DEF Writes, Reads, Executing, At, Moving
<1> QED
  BY <1>1, <1>2, <1>3

LEMMA ThreadsInOrder ==
  ASSUME TypeOK, Careful, Orderly, NEW t \in Threads, ThreadStep(t)
  PROVE  Orderly'
BY NormaliseInOrder, UnpauseInOrder, CheckInOrder, NoPanic, WordInOrder, HitDataInOrder,
   LineDoneInOrder, AdvanceInOrder, StoreInOrder, RunOffInOrder, SeekInOrder,
   StopFindingInOrder, FindStatementInOrder, SkipBlankInOrder, FinishInOrder DEF ThreadStep

-----------------------------------------------------------------------------
(* The requests of a careful client.                                        *)

\* While a request or what is left of one is served, nothing moves.
LEMMA NothingMoves ==
  ASSUME TypeOK, Careful, Orderly, request \notin {None, "disconnect"} \/ adding # None
  PROVE  /\ \A t \in Threads : ~Moving(t)
         /\ thread[Main].at = "idle" /\ AllEnding
         /\ request \in Starting => client.view \in {"running", "ended"}
BY DEF Orderly, Hushed, Asked, Running

\* Something is set going.
LEMMA BeginInOrder ==
  ASSUME TypeOK, Careful, Orderly, NEW c \in Starting, Serving(c), NEW t \in Threads,
         NEW reverse \in BOOLEAN, thread' = [thread EXCEPT ![t] = Begin(reverse)],
         loaded' # None, loaded' \in Programs, currentLine' \in GoLines',
         UNCHANGED <<bps, paused, adding, wire, session>>
  PROVE  Orderly'
<1>1. /\ request = c /\ request' = None /\ adding = None
      /\ c \notin {None, "disconnect", "pause", "attach"} /\ None \notin {"pause", "attach"}
      /\ None \notin RunCommands
  BY StartingTypes, GoAssumption DEF Serving, GoAssumption, Commands, Starting, RunCommands
<1>2. /\ \A s \in Threads : ~Moving(s)
      /\ thread[Main].at = "idle" /\ AllEnding /\ client.view \in {"running", "ended"}
  BY <1>1, NothingMoves
<1>3. /\ thread'[t].at = "normalise" /\ \A s \in Threads \ {t} : thread'[s] = thread[s]
  <2>1. Begin(reverse).at = "normalise"
    BY DEF Begin, Idle
  <2> QED
    BY <2>1 DEF TypeOK
<1>4. \A s \in Threads : Moving(s)' <=> s = t
  BY <1>2, <1>3 DEF Moving
<1>5. Alone'
  <2>1. thread'[Main].at # "over"
    BY <1>2, <1>3 DEF Threads
  <2> QED
    BY <1>4, <2>1 DEF Alone, OneRun
<1>6. Undisturbed' /\ Unloaded' /\ Asked'
  BY <1>1 DEF Orderly, Undisturbed, Unloaded, Asked, session
<1>7. Hushed'
  BY <1>1, <1>2 DEF Hushed, AllEnding, Ending, session
<1>8. Told'
  BY <1>2 DEF Told, AllEnding, Ending, Stopped, session
<1>9. \A s \in Threads : OnItsWay(s)'
  BY <1>3, <1>4 DEF Moving, OnItsWay
<1> QED
  BY <1>5, <1>6, <1>7, <1>8, <1>9 DEF Orderly

\* A stop is reported at the line the program is on.
LEMMA ReportInOrder ==
  ASSUME TypeOK, Careful, Orderly, NEW c \in Starting, Serving(c),
         NEW e \in Stopped, NEW l, Raise(e, l), l = currentLine',
         loaded' # None, loaded' \in Programs, currentLine' \in GoLines',
         UNCHANGED <<bps, paused, thread, adding, session>>
  PROVE  Orderly'
<1>1. /\ request = c /\ request' = None /\ adding = None /\ wire \in Seq(Notice)
      /\ c \notin {None, "disconnect", "pause", "attach"} /\ None \notin {"pause", "attach"}
      /\ None \notin RunCommands
  BY StartingTypes, GoAssumption
     DEF Serving, GoAssumption, Commands, Starting, RunCommands, TypeOK
<1>2. /\ \A s \in Threads : ~Moving(s)
      /\ AllEnding /\ client.view \in {"running", "ended"}
  BY <1>1, NothingMoves
<1>3. \A s \in Threads : ~Moving(s)'
  BY <1>2 DEF Moving
<1>4. Undisturbed' /\ Unloaded' /\ Asked'
  BY <1>1 DEF Orderly, Undisturbed, Unloaded, Asked, session
<1>5. Alone' /\ Hushed'
  BY <1>3 DEF Alone, OneRun, Hushed, Running
<1>6. Told'
  <2> DEFINE n == [event |-> e, line |-> l]
  <2>1. wire' = Append(wire, n) /\ n.line = currentLine'
    BY DEF Raise
  <2> HIDE DEF n
  <2> QED
    BY <1>1, <1>2, <2>1 DEF Told, AllEnding, Ending, Stopped, session
<1>7. \A s \in Threads : OnItsWay(s)'
  BY <1>3 DEF Moving, OnItsWay
<1> QED
  BY <1>4, <1>5, <1>6, <1>7 DEF Orderly

\* A request that only sets what a run will read.
LEMMA QuietInOrder ==
  ASSUME TypeOK, Careful, Orderly,
         NEW c \in Configuration \cup StopCommands, Serving(c),
         UNCHANGED <<program, paused, thread, wire, session>>
  PROVE  Orderly'
<1>1. /\ request = c /\ request' = None
      /\ c \notin {None, "disconnect", "pause", "attach"} /\ None \notin {"pause", "attach"}
      /\ None \notin Starting /\ None \notin RunCommands
  BY GoAssumption, StartingTypes
     DEF Serving, GoAssumption, Commands, Configuration, StopCommands, RunCommands, Starting
<1>2. (\A s \in Threads : ~Moving(s)) /\ thread[Main].at = "idle" /\ AllEnding
  BY <1>1, NothingMoves
<1>3. \A s \in Threads : ~Moving(s)'
  BY <1>2 DEF Moving
<1>4. Undisturbed' /\ Unloaded'
  BY <1>1 DEF Orderly, Undisturbed, Unloaded, program, session
<1>5. Asked'
  BY <1>1, <1>2 DEF Asked, AllEnding, Ending
<1>6. Alone' /\ Hushed'
  BY <1>3 DEF Alone, OneRun, Hushed, Running
<1>7. Told'
  BY SameText DEF Orderly, Told, program, session
<1>8. \A s \in Threads : OnItsWay(s)'
  BY <1>3 DEF Moving, OnItsWay
<1> QED
  BY <1>4, <1>5, <1>6, <1>7, <1>8 DEF Orderly

LEMMA LaunchInOrder ==
  ASSUME Inv, Careful, Orderly, NEW f \in Programs, NEW entry \in BOOLEAN, Launch(f, entry)
  PROVE  Orderly'
<1>0. /\ TypeOK /\ "launch" \in Starting /\ Serving("launch") /\ loaded = None
      /\ UNCHANGED <<bps, paused, adding, session>>
  BY DEF Inv, Starting, Launch, Launching, Serving, stops
<1>1. CASE f = None
  <2>1. /\ request = "launch" /\ request' = None /\ adding = None /\ wire \in Seq(Notice)
        /\ "launch" \notin {None, "disconnect"} /\ None \notin {"pause", "attach"}
        /\ None \notin RunCommands
    BY <1>0, GoAssumption DEF Serving, GoAssumption, Commands, RunCommands, TypeOK
  <2>2. UNCHANGED <<loaded, currentLine, thread>>
    BY <1>1 DEF Launch, program
  <2>3. /\ \A s \in Threads : ~Moving(s) /\ ~Moving(s)'
    BY <1>0, <2>1, <2>2, NothingMoves DEF Moving
  <2> DEFINE n == [event |-> "failed", line |-> 0]
  <2>4. wire' = Append(wire, n) /\ n.event = "failed" /\ "failed" \notin Stopped
    BY <1>1 DEF Launch, Raise, Stopped
  <2> HIDE DEF n
  <2>5. Unloaded'
    BY <1>0, <2>1, <2>2, <2>4 DEF Orderly, Unloaded, session
  <2>6. Undisturbed' /\ Asked'
    BY <1>0, <2>1, <2>2 DEF Orderly, Undisturbed, Asked, session
  <2>7. Alone' /\ Hushed'
    BY <2>3 DEF Alone, OneRun, Hushed, Running
  <2>8. Told'
    BY <1>0, <2>1, <2>2, <2>4, SameText DEF Orderly, Told, session
  <2>9. \A s \in Threads : OnItsWay(s)'
    BY <2>3 DEF Moving, OnItsWay
  <2> QED
    BY <2>5, <2>6, <2>7, <2>8, <2>9 DEF Orderly
<1>2. CASE f # None
  <2>1. /\ loaded' = f /\ loaded' # None /\ loaded' \in Programs /\ currentLine' = 0
    BY <1>2 DEF Launch
  <2>2. 0 \in GoLines'
    <3>1. f \in Files /\ NumLines(f) \in Nat \ {0} /\ Lines(f) = 0 .. NumLines(f) - 1
      BY <1>2, GoAssumption, LinesType DEF GoAssumption
    <3>2. NumLines(f) = 1 => TextOf(f, NumLines(f) - 1).width # 0
      BY <1>2, <3>1 DEF Careful
    <3> QED
      BY <2>1, <3>1, <3>2 DEF GoLines
  <2>3. CASE entry
    <3>1. PICK e \in Stopped : e = "entry"
      BY DEF Stopped
    <3>2. Raise(e, 0) /\ UNCHANGED thread
      BY <1>2, <2>3, <3>1 DEF Launch
    <3> QED
      BY <1>0, <2>1, <2>2, <3>2, ReportInOrder
  <2>4. CASE ~entry
    <3>1. PICK g \in Goroutines : thread' = [thread EXCEPT ![g] = Begin(FALSE)]
      BY <1>2, <2>4 DEF Launch
    <3>2. g \in Threads /\ UNCHANGED wire
      BY <1>2, <2>4 DEF Launch, Threads
    <3> QED
      BY <1>0, <2>1, <2>2, <3>1, <3>2, BeginInOrder
  <2> QED
    BY <2>3, <2>4
<1> QED
  BY <1>1, <1>2

\* What runs on or is stepped was loaded.
LEMMA RunRequested ==
  ASSUME TypeOK, Careful, Orderly, NEW c \in RunCommands, Serving(c), UNCHANGED program
  PROVE  /\ loaded' # None /\ loaded' \in Programs /\ currentLine' \in GoLines'
         /\ c \in Starting
BY SameText DEF Serving, Orderly, Unloaded, Undisturbed, Told, program, Starting

LEMMA RunCommandsInOrder ==
  ASSUME TypeOK, Careful, Orderly,
         \/ \E reverse \in Directions : Continue(reverse) \/ NextLine(reverse)
         \/ StepOut \/ \E target \in Targets : StepIn(target)
  PROVE  Orderly'
<1>1. ASSUME NEW reverse \in Directions, Continue(reverse) PROVE Orderly'
  <2>1. PICK c \in RunCommands : c = "continue"
    BY DEF RunCommands
  <2>2. PICK g \in Goroutines : thread' = [thread EXCEPT ![g] = Begin(reverse)]
    BY <1>1 DEF Continue
  <2>3. /\ g \in Threads /\ reverse \in BOOLEAN /\ Serving(c) /\ UNCHANGED program
        /\ UNCHANGED <<bps, paused, adding, wire, session>>
    BY <1>1, <2>1, GoAssumption DEF GoAssumption, Threads, Continue, stops
  <2> QED
    BY <2>2, <2>3, RunRequested, BeginInOrder
<1>2. ASSUME NEW reverse \in Directions, NextLine(reverse) PROVE Orderly'
  <2>1. PICK c \in RunCommands : c = "next"
    BY DEF RunCommands
  <2>2. /\ Main \in Threads /\ reverse \in BOOLEAN /\ Serving(c) /\ UNCHANGED program
        /\ thread' = [thread EXCEPT ![Main] = Begin(reverse)]
        /\ UNCHANGED <<bps, paused, adding, wire, session>>
    BY <1>2, <2>1, GoAssumption DEF GoAssumption, Threads, NextLine, stops
  <2> QED
    BY <2>2, RunRequested, BeginInOrder
<1>3. ASSUME NEW c \in RunCommands, Serving(c), NEW col, SetColumn(col) PROVE Orderly'
  <2>1. PICK e \in Stopped : e = "step"
    BY DEF Stopped
  <2>2. /\ Raise(e, currentLine) /\ UNCHANGED <<loaded, currentLine>>
        /\ UNCHANGED <<bps, paused, thread, adding, session>>
    BY <1>3, <2>1 DEF SetColumn, stops
  <2>3. request \in RunCommands /\ loaded # None
    BY <1>3 DEF Serving, Orderly, Unloaded
  <2>4. loaded' # None /\ loaded' \in Programs /\ currentLine' \in GoLines' /\ c \in Starting
    BY <2>2, <2>3, SameText DEF Orderly, Undisturbed, Told, Starting
  <2> QED
    BY <1>3, <2>2, <2>4, ReportInOrder
<1>4. "stepIn" \in RunCommands /\ "stepOut" \in RunCommands
  BY DEF RunCommands
<1> QED
  BY <1>1, <1>2, <1>3, <1>4 DEF StepIn, StepOut

LEMMA ConfigurationInOrder ==
  ASSUME TypeOK, Careful, Orderly,
         \/ \E f \in BpFiles, lines \in SUBSET BpLines : SetBreakpoints(f, lines)
         \/ \E n \in Edits, kinds \in SUBSET {"read", "write"} \ {{}} : SetDataBreakpoint(n, kinds)
         \/ \E a \in Addresses : SetInstructionBreakpoint(a)
         \/ \E x \in Filters : SetExceptionsFilters(x)
         \/ ClearAllDataBreakpoints \/ ClearInstructionBreakpoints
         \/ \E c \in StopCommands : Locals(c)
  PROVE  Orderly'
<1>1. \A c \in {"setBreakpoints", "setDataBreakpoint", "setInstructionBreakpoint",
              "setExceptionBreakpoints", "clearAllDataBreakpoints",
              "clearInstructionBreakpoints"} : c \in Configuration
  BY DEF Configuration
<1>2. PICK c \in Configuration \cup StopCommands : Serving(c)
  BY <1>1 DEF SetBreakpoints, SetDataBreakpoint, SetInstructionBreakpoint,
     SetExceptionsFilters, ClearAllDataBreakpoints, ClearInstructionBreakpoints, Locals
<1>3. UNCHANGED <<program, paused, thread, wire, session>>
  BY DEF SetBreakpoints, SetDataBreakpoint, SetInstructionBreakpoint,
     SetExceptionsFilters, ClearAllDataBreakpoints, ClearInstructionBreakpoints, Locals, Unmoved
<1> QED
  BY <1>2, <1>3, QuietInOrder

LEMMA AddBreakpointInOrder ==
  ASSUME TypeOK, Careful, Orderly, NEW l \in BpLines, AddBreakpoint(l)
  PROVE  Orderly'
<1>1. /\ adding # None
      /\ UNCHANGED <<loaded, currentLine, paused, thread, request, wire, session>>
  BY DEF AddBreakpoint, program
<1>2. (\A s \in Threads : ~Moving(s)) /\ thread[Main].at = "idle" /\ AllEnding
  BY <1>1, NothingMoves
<1>3. \A s \in Threads : ~Moving(s)'
  BY <1>1, <1>2 DEF Moving
<1>4. Undisturbed' /\ Unloaded'
  BY <1>1 DEF Orderly, Undisturbed, Unloaded, session
<1>5. Asked'
  BY <1>1, <1>2 DEF Orderly, Asked, AllEnding, Ending, session
<1>6. Alone' /\ Hushed'
  BY <1>3 DEF Alone, OneRun, Hushed, Running
<1>7. Told'
  BY <1>1, SameText DEF Orderly, Told, session
<1>8. \A s \in Threads : OnItsWay(s)'
  BY <1>3 DEF Moving, OnItsWay
<1> QED
  BY <1>4, <1>5, <1>6, <1>7, <1>8 DEF Orderly

LEMMA DisconnectInOrder ==
  ASSUME TypeOK, Careful, Orderly, Disconnect
  PROVE  Orderly'
<1>1. /\ request' = None /\ process' = "exited" /\ adding = None
      /\ UNCHANGED <<loaded, currentLine, bps, paused, thread, adding, wire, client>>
      /\ None \notin RunCommands /\ None \notin {"pause", "attach"}
  BY GoAssumption DEF Disconnect, Serving, program, stops, GoAssumption, Commands
<1>2. Undisturbed' /\ Unloaded' /\ Asked'
  BY <1>1 DEF Orderly, Undisturbed, Unloaded, Asked
<1>3. Alone'
  BY <1>1 DEF Orderly, Alone, OneRun, Running, Moving
<1>4. Hushed'
  BY <1>1 DEF Orderly, Hushed, Running, Moving, AllEnding, Ending
<1>5. Told'
  BY <1>1, SameText DEF Orderly, Told
<1>6. \A s \in Threads : OnItsWay(s)'
  BY <1>1, SameText DEF Orderly, OnItsWay, Clear
<1> QED
  BY <1>2, <1>3, <1>4, <1>5, <1>6 DEF Orderly

LEMMA ServeInOrder ==
  ASSUME Inv, Careful, Orderly, Serve
  PROVE  Orderly'
<1>1. TypeOK /\ ~Pause /\ \A stop \in BOOLEAN : ~Attach(stop)
  BY DEF Inv, Orderly, Undisturbed, Pause, Attach, Serving
<1> QED
  BY <1>1, LaunchInOrder, RunCommandsInOrder, ConfigurationInOrder, AddBreakpointInOrder,
     DisconnectInOrder DEF Serve

-----------------------------------------------------------------------------
(* The careful client itself.                                               *)

LEMMA SendInOrder ==
  ASSUME TypeOK, Careful, Orderly, NEW c \in Calls, Send(c)
  PROVE  Orderly'
<1>1. /\ adding = None /\ thread[Main] = Idle /\ wire = <<>> /\ request' = c
      /\ c \notin {"pause", "attach"} /\ Allowed(c)
      /\ UNCHANGED <<loaded, currentLine, bps, paused, thread, adding, wire, process>>
  BY DEF Send, Quiet, Careful, program, stops
<1>2. /\ client' \in [view : Views, line : Int] /\ client'.line = client.line
      /\ client'.view = IF c \in {"launch", "attach"} \cup RunCommands THEN "running"
                        ELSE client.view
  BY DEF Send, TypeOK, Views
<1>3. AllEnding' /\ Len(wire') = 0
  BY <1>1 DEF AllEnding, Ending
<1>4. thread[Main].at = "idle"
  BY <1>1 DEF Idle
<1>5. Undisturbed'
  BY <1>1 DEF Orderly, Undisturbed
<1>6. Unloaded'
  <2>1. CASE loaded = None
    <3>1. client.view # "stopped" /\ \A t \in Threads : thread[t].at = "idle"
      BY <2>1 DEF Orderly, Unloaded
    <3>2. c \notin RunCommands
      BY <1>1, <3>1 DEF Allowed, RunCommands, Configuration
    <3> QED
      BY <1>1, <1>2, <1>3, <3>1, <3>2 DEF Unloaded
  <2>2. CASE loaded # None
    BY <1>1, <2>2 DEF Unloaded
  <2> QED
    BY <2>1, <2>2
<1>7. Alone'
  BY <1>1 DEF Orderly, Alone, OneRun, Running, Moving
<1>8. Running => c = "disconnect"
  <2>1. Running => client.view \in {"running", "ended"}
    BY DEF Orderly, Hushed
  <2> QED
    BY <1>1, <2>1 DEF Allowed, Careful
<1>9. Hushed'
  <2>1. Running' <=> Running
    BY <1>1 DEF Running, Moving
  <2>2. Running => client.view \in {"running", "ended"}
    BY DEF Orderly, Hushed
  <2> QED
    BY <1>1, <1>2, <1>3, <1>8, <2>1, <2>2 DEF Hushed
<1>10. Asked'
  BY <1>1, <1>2, <1>3, <1>4 DEF Asked, Starting
<1>11. Told'
  BY <1>1, <1>2, <1>3, SameText DEF Orderly, Told
<1>12. \A s \in Threads : OnItsWay(s)'
  BY <1>1, SameText DEF Orderly, OnItsWay, Clear
<1> QED
  BY <1>5, <1>6, <1>7, <1>9, <1>10, <1>11, <1>12 DEF Orderly

LEMMA ReceiveInOrder ==
  ASSUME TypeOK, Careful, Orderly, Receive
  PROVE  Orderly'
<1>1. /\ wire \in Seq(Notice) /\ wire # <<>> /\ Head(wire) = wire[1] /\ 1 \in 1 .. Len(wire)
      /\ Len(wire') = Len(wire) - 1 /\ Len(wire) \in Nat
      /\ \A i \in 1 .. Len(wire') : wire'[i] = wire[i + 1] /\ i + 1 \in 1 .. Len(wire)
  BY DEF Receive, TypeOK
<1>2. /\ client'.view = ViewAfter(wire[1].event) /\ client'.line = wire[1].line
      /\ UNCHANGED <<loaded, currentLine, bps, paused, thread, request, adding, process>>
  BY <1>1 DEF Receive, program, stops
<1>3. wire[1].event \in Stopped \cup {"terminated", "failed"}
  <2>1. wire[1] \in Notice
    BY <1>1
  <2> QED
    BY <2>1 DEF Notice
<1>4. AllEnding => AllEnding' /\ client'.view = "ended"
  <2>1. AllEnding => AllEnding'
    BY <1>1 DEF AllEnding, Ending
  <2>2. AllEnding => wire[1].event = "terminated"
    BY <1>1 DEF AllEnding, Ending
  <2> QED
    BY <1>2, <2>1, <2>2 DEF ViewAfter
<1>5. Undisturbed'
  BY <1>2 DEF Orderly, Undisturbed
<1>6. Unloaded'
  BY <1>1, <1>2 DEF Orderly, Unloaded, ViewAfter
<1>7. Alone' /\ (Running' <=> Running)
  BY <1>2 DEF Orderly, Alone, OneRun, Running, Moving
<1>8. Hushed' /\ Asked'
  BY <1>2, <1>4, <1>7 DEF Orderly, Hushed, Asked
<1>9. Told'
  <2>1. client'.view = "stopped" => wire[1].event \in Stopped
    BY <1>2, <1>3 DEF ViewAfter
  <2> QED
    BY <1>1, <1>2, <2>1, SameText DEF Orderly, Told
<1>10. \A s \in Threads : OnItsWay(s)'
  BY <1>2, SameText DEF Orderly, OnItsWay, Clear
<1> QED
  BY <1>5, <1>6, <1>7, <1>8, <1>9, <1>10 DEF Orderly

LEMMA ClosedInOrder ==
  ASSUME TypeOK, Careful, Orderly, Closed
  PROVE  Orderly'
<1>1. /\ client'.view = "ended"
      /\ UNCHANGED <<loaded, currentLine, bps, paused, thread, request, adding, wire, process>>
  BY DEF Closed, TypeOK, program, stops
<1>2. Undisturbed' /\ Unloaded' /\ Alone' /\ Hushed' /\ Asked'
  BY <1>1 DEF Orderly, Undisturbed, Unloaded, Alone, OneRun, Hushed, Asked, Running, Moving,
     AllEnding, Ending
<1>3. Told'
  BY <1>1, SameText DEF Orderly, Told
<1>4. \A s \in Threads : OnItsWay(s)'
  BY <1>1, SameText DEF Orderly, OnItsWay, Clear
<1> QED
  BY <1>2, <1>3, <1>4 DEF Orderly

LEMMA OrderlyAtFirst ==
  ASSUME Careful, Init
  PROVE  Orderly
<1>1. /\ loaded = None /\ paused = FALSE /\ adding = None /\ process = "up"
      /\ thread = [t \in Threads |-> Idle] /\ wire = <<>> /\ request = None
      /\ client = [view |-> "new", line |-> 0]
  BY DEF Init, Careful
<1>2. (\A t \in Threads : thread[t].at = "idle") /\ Main \in Threads /\ client.view = "new"
  BY <1>1 DEF Idle, Threads
<1>3. (\A t \in Threads : ~Moving(t)) /\ Len(wire) = 0
  BY <1>1, <1>2 DEF Moving
<1>4. Undisturbed /\ Unloaded
  BY <1>1, <1>2, <1>3, GoAssumption
     DEF Undisturbed, Unloaded, GoAssumption, Commands, RunCommands
<1>5. Alone /\ Hushed /\ Asked /\ Told
  BY <1>1, <1>2, <1>3 DEF Alone, OneRun, Running, Hushed, Asked, Told
<1>6. \A t \in Threads : OnItsWay(t)
  BY <1>3, AtRest
<1> QED
  BY <1>4, <1>5, <1>6 DEF Orderly

\* A careful client keeps the Go engine in order: one run at a time, that tells
\* the line it stops on before the client asks for anything else.
THEOREM Order ==
  ASSUME Careful
  PROVE  Spec => []Orderly
<1>1. Init => Orderly
  BY OrderlyAtFirst
<1>2. Inv /\ Orderly /\ [Next]_vars => Orderly'
  <2> SUFFICES ASSUME Inv, Orderly, [Next]_vars PROVE Orderly'
    OBVIOUS
  <2>1. TypeOK
    BY DEF Inv
  <2>2. CASE UNCHANGED vars
    BY <2>2, SameText DEF vars, program, stops, session, Orderly, Undisturbed, Unloaded, Alone,
       OneRun, Hushed, Asked, Told, Running, Moving, AllEnding, Ending, OnItsWay, Clear
  <2> QED
    BY <2>1, <2>2, ThreadsInOrder, ServeInOrder, NoMapClash, SendInOrder, ReceiveInOrder,
       ClosedInOrder DEF Next
<1> QED
  BY <1>1, <1>2, Invariant, PTL DEF Spec

\* continue returns before the run it starts has begun, yet a careful client
\* never has two goroutines in the program.
THEOREM OneRunAtATime ==
  ASSUME Careful
  PROVE  Spec => []OneRun
<1>1. Orderly => OneRun
  BY DEF Orderly, Alone
<1> QED
  BY <1>1, Order, PTL

\* No run of a careful client passes a breakpoint, blank lines and both
\* directions included.
THEOREM NoBreakpointIsPassed ==
  ASSUME Careful
  PROVE  Spec => []NoBreakpointPassed
<1>1. TypeOK /\ Orderly => NoBreakpointPassed
  <2> SUFFICES ASSUME TypeOK, Orderly, NEW t \in Threads,
                      thread[t].at \in {"check", "execute", "advance", "store", "find"}
               PROVE  Passed(t) \cap bps[loaded] = {}
    BY DEF NoBreakpointPassed
  <2>1. OnItsWay(t)
    BY DEF Orderly
  <2> QED
    BY <2>1 DEF OnItsWay, Clear, Passed
<1> QED
  BY <1>1, Order, TypeCorrect, PTL

\* A careful client that was told of a stop was told the line the program is on.
THEOREM ToldTheLine ==
  ASSUME Careful
  PROVE  Spec => []ToldWhereItIs
<1>1. Orderly => ToldWhereItIs
  BY DEF Orderly, Told, ToldWhereItIs
<1> QED
  BY <1>1, Order, PTL

\* No careful client kills the runtime: no index is out of range, and no two
\* goroutines meet in a map.
THEOREM TheRuntimeSurvives ==
  ASSUME Careful
  PROVE  Spec => []Survives
<1>1. Orderly => Survives
  BY DEF Orderly, Undisturbed, Survives
<1> QED
  BY <1>1, Order, PTL

-----------------------------------------------------------------------------
(* The runs of a careful client come to their end.                          *)

\* How far it is to the last line, or to the first.
LEMMA HowFar ==
  ASSUME TypeOK, Careful, Orderly, NEW t \in Threads, Moving(t)
  PROVE  /\ LastLine \in Nat /\ GoLines = 0 .. LastLine
         /\ thread[t].reverse \in BOOLEAN /\ thread[t].ln \in Int
         /\ currentLine \in 0 .. LastLine /\ LinesLeft(t) \in 0 .. LastLine
<1>1. LastLine \in Nat /\ GoLines = 0 .. LastLine /\ currentLine \in 0 .. LastLine
  BY TheRun, ProgramLines DEF Orderly
<1> QED
  BY <1>1, ThreadType DEF LinesLeft, LinesFrom

\* On the line it is on, the run comes to a later stage.
LEMMA NextStage ==
  ASSUME NEW t \in Threads, UNCHANGED <<loaded, currentLine>>,
         thread'[t].reverse = thread[t].reverse, StageLeft(t)' < StageLeft(t)
  PROVE  Closer(t)
<1>1. LinesLeft(t)' = LinesLeft(t)
  BY SameText DEF LinesLeft, LinesFrom
<1> QED
  BY <1>1 DEF Closer

LEMMA StagesPass ==
  ASSUME TypeOK, Careful, Orderly, NEW t \in Threads,
         \/ Normalise(t) \/ Unpause(t) \/ Check(t) \/ LineDone(t) \/ Advance(t) \/ Seek(t),
         Moving(t)'
  PROVE  Closer(t)
<1>1. CASE Normalise(t)
  <2>1. /\ thread[t].at = "normalise" /\ thread'[t].at \in {"execute", "unpause"}
        /\ thread'[t].reverse = thread[t].reverse /\ UNCHANGED <<loaded, currentLine>>
    BY <1>1 DEF Normalise, At, TypeOK, ThreadRecord
  <2> QED
    BY <2>1, NextStage DEF StageLeft
<1>2. CASE Unpause(t)
  <2>1. /\ thread[t].at = "unpause" /\ thread'[t].at = "check"
        /\ thread'[t].reverse = thread[t].reverse /\ UNCHANGED <<loaded, currentLine>>
    BY <1>2, Leads DEF Unpause, At, program
  <2> QED
    BY <2>1, NextStage DEF StageLeft
<1>3. CASE Check(t)
  <2>1. Goto(t, "execute", currentLine)
    BY <1>3 DEF Check, Orderly, Undisturbed
  <2>2. /\ thread[t].at = "check" /\ thread'[t].at = "execute"
        /\ thread'[t].reverse = thread[t].reverse /\ UNCHANGED <<loaded, currentLine>>
    BY <1>3, <2>1, Leads DEF Check, At, program
  <2> QED
    BY <2>2, NextStage DEF StageLeft
<1>4. CASE LineDone(t)
  <2>1. Goto(t, "advance", thread[t].ln)
    BY <1>4, Returns DEF LineDone, Moving
  <2>2. /\ thread[t].at = "execute" /\ thread'[t].at = "advance"
        /\ thread'[t].reverse = thread[t].reverse /\ UNCHANGED <<loaded, currentLine>>
    BY <1>4, <2>1, Leads DEF LineDone, Executing, At
  <2> QED
    BY <2>2, NextStage DEF StageLeft
<1>5. CASE Advance(t)
  <2>1. /\ thread[t].at = "advance" /\ thread'[t].at = "store"
        /\ thread'[t].reverse = thread[t].reverse /\ UNCHANGED <<loaded, currentLine>>
    BY <1>5, Leads DEF Advance, At, program
  <2> QED
    BY <2>1, NextStage DEF StageLeft
<1>6. CASE Seek(t)
  <2>1. /\ thread[t].at = "seek" /\ thread'[t].at = "find"
        /\ thread'[t].reverse = thread[t].reverse /\ UNCHANGED <<loaded, currentLine>>
    BY <1>6, Leads DEF Seek, At, program
  <2> QED
    BY <2>1, NextStage DEF StageLeft
<1> QED
  BY <1>1, <1>2, <1>3, <1>4, <1>5, <1>6

\* A word less on the line.
LEMMA WordCloser ==
  ASSUME TypeOK, Careful, Orderly, NEW t \in Threads, Word(t), Moving(t)'
  PROVE  Closer(t)
<1>1. /\ thread[t].at = "execute" /\ thread[t].ln \in GoLines /\ WordsLeft(t)
      /\ instruction' = IF thread[t].reverse THEN instruction - 1 ELSE instruction + 1
      /\ UNCHANGED <<loaded, currentLine>>
  BY DEF Word, Executing, At
<1>2. UNCHANGED thread
  BY Returns DEF Word, Moving
<1>3. /\ Starts(loaded, thread[t].ln) \in Int /\ Ends(loaded, thread[t].ln) \in Int
      /\ instruction \in Int /\ thread[t].reverse \in BOOLEAN
  BY <1>1, WordBounds, ThreadType DEF TypeOK
<1>4. /\ LinesLeft(t)' = LinesLeft(t) /\ StageLeft(t)' = StageLeft(t)
      /\ WordsOn(t)' = WordsOn(t) - 1
  BY <1>1, <1>2, <1>3, SameText DEF LinesLeft, LinesFrom, StageLeft, WordsOn
<1>5. WordsOn(t) \in Nat /\ WordsOn(t) > 0 /\ InLineLeft(t) = WordsOn(t)
  BY <1>1, <1>3 DEF WordsOn, WordsLeft, InLineLeft
<1>6. InLineLeft(t)' \in {0, WordsOn(t)'}
  BY <1>1, <1>2 DEF InLineLeft
<1> QED
  BY <1>4, <1>5, <1>6 DEF Closer

\* A line is left behind.
LEMMA StoreCloser ==
  ASSUME TypeOK, Careful, Orderly, NEW t \in Threads, Store(t)
  PROVE  Closer(t)
<1>1. Moving(t) /\ thread[t].at = "store" /\ Goto(t, "seek", thread[t].ln)
  BY DEF Store, At, Moving
<1>2. /\ UNCHANGED loaded /\ thread[t].ln = currentLine
      /\ IF thread[t].reverse THEN currentLine > 0 ELSE currentLine < LastLine
  BY <1>1, TheRun DEF Store, OnItsWay
<1>3. currentLine' = IF thread[t].reverse THEN currentLine - 1 ELSE currentLine + 1
  BY <1>2 DEF Store
<1>4. LinesLeft(t)' \in 0 .. LinesLeft(t) - 1
  BY <1>1, <1>2, <1>3, HowFar, Leads, SameText DEF LinesLeft, LinesFrom
<1> QED
  BY <1>4 DEF Closer

\* A search found a statement, on the line it began at or further on.
LEMMA FoundCloser ==
  ASSUME TypeOK, Careful, Orderly, NEW t \in Threads, Passable(t), Found(t),
         currentLine' \in {thread[t].ln, currentLine}, UNCHANGED loaded, Moving(t)'
  PROVE  Closer(t)
<1>1. /\ Moving(t) /\ thread[t].at = "find" /\ thread[t].ln \in GoLines
      /\ IF thread[t].reverse THEN thread[t].ln <= currentLine ELSE thread[t].ln >= currentLine
  BY Passing, TheRun DEF OnItsWay
<1>2. thread'[t].at = "check" /\ thread'[t].reverse = thread[t].reverse
  BY Leads DEF Found, Moving
<1>3. LinesLeft(t)' \in 0 .. LinesLeft(t)
  BY <1>1, <1>2, HowFar, SameText DEF LinesLeft, LinesFrom
<1>4. StageLeft(t)' < StageLeft(t)
  BY <1>1, <1>2 DEF StageLeft
<1> QED
  BY <1>1, <1>3, <1>4, HowFar DEF Closer

LEMMA SkipCloser ==
  ASSUME TypeOK, Careful, Orderly, NEW t \in Threads, SkipBlank(t), Moving(t)'
  PROVE  Closer(t)
<1>1. Passable(t) /\ UNCHANGED <<loaded, currentLine>>
  BY DEF SkipBlank, program
<1>2. CASE Found(t)
  BY <1>1, <1>2, FoundCloser
<1>3. CASE ~Found(t)
  <2>1. PICK ln \in GoLines :
          /\ Goto(t, "find", ln)
          /\ ln = IF thread[t].reverse THEN thread[t].ln - 1 ELSE thread[t].ln + 1
    BY <1>3 DEF SkipBlank
  <2>2. /\ thread[t].at = "find" /\ thread'[t].at = "find" /\ thread'[t].ln = ln
        /\ thread'[t].reverse = thread[t].reverse
    BY <1>1, <2>1, Passing, Leads
  <2>3. LinesLeft(t)' = LinesLeft(t) /\ StageLeft(t)' = StageLeft(t)
    BY <1>1, <2>2, SameText DEF LinesLeft, LinesFrom, StageLeft
  <2>4. LinesFrom(t, thread[t].ln)' \in 0 .. LinesFrom(t, thread[t].ln) - 1
    BY <1>1, <2>1, <2>2, Passing, HowFar, SameText DEF LinesFrom
  <2>5. InLineLeft(t) = LinesFrom(t, thread[t].ln) /\ InLineLeft(t)' = LinesFrom(t, thread[t].ln)'
    BY <2>2 DEF InLineLeft
  <2> QED
    BY <2>3, <2>4, <2>5 DEF Closer
<1> QED
  BY <1>2, <1>3

LEMMA ThreadCloser ==
  ASSUME TypeOK, Careful, Orderly, NEW t \in Threads, ThreadStep(t), Moving(t), Moving(t)'
  PROVE  Closer(t)
<1>1. CASE FindStatement(t)
  BY <1>1, FoundCloser DEF FindStatement
<1>2. CASE FindBreakpoint(t) \/ FindInstruction(t)
  <2>1. Goto(t, "over", thread[t].ln) \/ Return(t)
    BY <1>2 DEF FindBreakpoint, FindInstruction, StopFinding
  <2> QED
    BY <2>1, Leads, Returns DEF Moving
<1>3. CASE RunOff(t) \/ HitData(t) \/ Finish(t)
  BY <1>3, Leads, Returns DEF RunOff, HitData, Finish, Moving
<1> QED
  BY <1>1, <1>2, <1>3, NoPanic, StagesPass, WordCloser, StoreCloser, SkipCloser DEF ThreadStep

\* While a run is on its way, nothing but it moves the program, or the thread it is in.
LEMMA LeftAlone ==
  ASSUME TypeOK, Careful, Orderly, Next, NEW t \in Threads, Moving(t), ~ThreadStep(t)
  PROVE  thread'[t] = thread[t] /\ UNCHANGED <<loaded, currentLine, instruction>>
<1>1. CASE \E s \in Threads : ThreadStep(s)
  <2>1. PICK s \in Threads \ {t} : ThreadStep(s) /\ ~Moving(s)
    BY <1>1, TheRun
  <2>2. Finish(s)
    BY <2>1, NoPanic DEF ThreadStep, Normalise, Unpause, Check, Word, HitData, LineDone, Executing,
       Advance, Store, RunOff, Seek, FindBreakpoint, FindInstruction, FindStatement, SkipBlank,
       Passable, Finding, At, Moving
  <2> QED
    BY <2>2, Returns DEF Finish, program, OnlyMoves
<1>2. CASE Serve
  <2>1. /\ adding = None /\ request \in {None, "disconnect"}
        /\ \A c \in Commands : c # None
    BY TheRun, GoAssumption DEF GoAssumption
  <2>2. \A c \in Commands \ {"disconnect"} : ~Serving(c)
    BY <2>1 DEF Serving
  <2>3. Disconnect
    BY <1>2, <2>1, <2>2
    DEF Serve, Launch, Attach, Pause, StepOut, StepIn, Continue, NextLine, SetBreakpoints,
        AddBreakpoint, SetDataBreakpoint, SetInstructionBreakpoint, SetExceptionsFilters,
        ClearAllDataBreakpoints, ClearInstructionBreakpoints, Locals, Commands, RunCommands,
        StopCommands, Configuration
  <2> QED
    BY <2>3 DEF Disconnect, program
<1>3. CASE ~Serve /\ ~\E s \in Threads : ThreadStep(s)
  BY <1>3, NoMapClash DEF Next, Send, Receive, Closed, program
<1> QED
  BY <1>1, <1>2, <1>3

\* Every step of a careful client's run brings it nearer to its end (engine.go:109-154,
\* 291-397): however many words, blank lines and searches, it does not go round.
THEOREM RunsComeNearer ==
  ASSUME Careful
  PROVE  Spec => RunsShrink
<1>1. TypeOK /\ Orderly /\ [Next]_vars
        => [\A t \in Threads : Moving(t) /\ Moving(t)' =>
              IF ThreadStep(t) THEN Closer(t)
              ELSE UNCHANGED <<LinesLeft(t), StageLeft(t), InLineLeft(t)>>]_vars
  <2> SUFFICES ASSUME TypeOK, Orderly, Next, NEW t \in Threads, Moving(t), Moving(t)',
                      ~ThreadStep(t)
               PROVE  UNCHANGED <<LinesLeft(t), StageLeft(t), InLineLeft(t)>>
    BY ThreadCloser
  <2>1. thread'[t] = thread[t] /\ UNCHANGED <<loaded, currentLine, instruction>>
    BY LeftAlone
  <2> QED
    BY <2>1, SameText DEF LinesLeft, LinesFrom, StageLeft, InLineLeft, WordsOn, WordsLeft
<1> QED
  BY <1>1, Order, TypeCorrect, PTL DEF Spec, RunsShrink
=============================================================================
