------------------------------ MODULE GoRuntime ------------------------------
(***************************************************************************)
(* The Go runtime: mock-go/internal/engine/engine.go behind the loop of       *)
(* handleConn in mock-go/cmd/mock-go/main.go, and the adapter that drives it. *)
(*                                                                          *)
(* handleConn serves one request after the other, and starts every continue *)
(* in a goroutine of its own; the goroutines and the handler share the      *)
(* engine without a lock.  A thread is one of those goroutines, or Main,     *)
(* which steps through a `next` itself.  A step of a thread is a stretch of  *)
(* code that reads and writes the engine in one place; everything may happen *)
(* between two of them, and what a thread holds in a local variable (ln)     *)
(* stays as it was read.                                                    *)
(***************************************************************************)
EXTENDS MockSource

CONSTANTS Goroutines,   \* what `go eng.Continue` may run in, a bound on them
          Main,         \* the goroutine of handleConn
          Preloads,     \* what --program may name; None is no --program
          Programs,     \* what launch may name; None cannot be read
          BpFiles, BpLines, Addresses, Filters, Edits, Targets,   \* arguments
          Directions,   \* values of the argument reverse
          Calls,        \* the requests the client makes
          Patient,      \* the client acts when all is quiet
          MaxRequests   \* bound on the requests of a session

Threads      == Goroutines \cup {Main}
FilterRecord == [named : Exceptions \cup {None}, others : BOOLEAN]

\* Those that set the program going, those that look at it while it is stopped,
\* and those that may come at any time.
RunCommands   == {"continue", "next", "stepIn", "stepOut"}
StopCommands  == {"getLocalVariables", "setVariable"}
Configuration == {"setBreakpoints", "setDataBreakpoint", "clearAllDataBreakpoints",
                  "setInstructionBreakpoint", "clearInstructionBreakpoints",
                  "setExceptionBreakpoints"}
Commands == {"launch", "attach", "pause", "disconnect"}
              \cup RunCommands \cup StopCommands \cup Configuration

GoAssumption ==
  /\ Main \notin Goroutines
  /\ Preloads \subseteq Files \cup {None} /\ Programs \subseteq Files \cup {None}
  /\ BpFiles \subseteq Files /\ BpLines \subseteq Int /\ Addresses \subseteq Int
  /\ Filters \subseteq FilterRecord /\ Edits \subseteq Names
  /\ Targets \subseteq Int \cup {None}
  /\ Directions \subseteq BOOLEAN /\ Patient \in BOOLEAN
  /\ Calls \subseteq Commands /\ None \notin Commands
  /\ MaxRequests \in Nat
ASSUME GoAssumption

VARIABLES
  loaded,                 \* sourceFile, and what LoadSource took from its text
  currentLine, currentCol, instruction, variables,
  bps,                    \* the lines with a breakpoint, for each file
  dataBps, instrBps, filters,
  paused,
  thread,                 \* where each thread is
  request,                \* the request the handler has or is about to read
  adding,                 \* the breakpoints setBreakpoints has still to append
  wire,                   \* notices written and not yet read by the client
  client,                 \* what the client has been told
  requests,               \* how many the client has made
  process                 \* whether the process lives

program == <<loaded, currentLine, currentCol, instruction, variables>>
stops   == <<bps, dataBps, instrBps, filters>>
session == <<client, requests, process>>
vars    == <<program, stops, paused, thread, request, adding, wire, session>>

-----------------------------------------------------------------------------
\* bufio.Scanner returns no empty last line; an empty file has no line at all.
GoLines == IF loaded = None THEN {}
           ELSE IF TextOf(loaded, NumLines(loaded) - 1).width = 0
                THEN 0 .. NumLines(loaded) - 2 ELSE Lines(loaded)
LastLine == Cardinality(GoLines) - 1

\* Where a thread is in Continue or Next, and in what they call.
Stages == {"idle", "normalise", "unpause", "check", "execute", "advance",
           "store", "seek", "find", "over"}
ThreadRecord == [at : Stages, reverse : BOOLEAN, from : Int, ln : Int]
Idle == [at |-> "idle", reverse |-> FALSE, from |-> 0, ln |-> 0]
Begin(reverse) == [Idle EXCEPT !.at = "normalise", !.reverse = reverse]

Stopped == {"entry", "step", "breakpoint", "exception", "dataBreakpoint",
            "instructionBreakpoint", "pause"}
Notice  == [event : Stopped \cup {"terminated", "failed"}, line : Int]
Views   == {"new", "running", "stopped", "ended"}

Raise(e, l)     == wire' = Append(wire, [event |-> e, line |-> l])
Goto(t, at, ln) == thread' = [thread EXCEPT ![t].at = at, ![t].ln = ln]
Return(t)       == thread' = [thread EXCEPT ![t] = Idle]

Up       == process = "up"
At(t, s) == Up /\ thread[t].at = s

\* A server with --program runs it, or stops it on entry, as soon as a client
\* connects, and the client's first request is attach.
Init ==
  /\ loaded \in Preloads \cup {None}
  /\ currentLine = 0 /\ currentCol = None /\ instruction = 0 /\ variables = {}
  /\ bps = [f \in Files |-> {}] /\ dataBps = [n \in Names |-> {}]
  /\ instrBps = {} /\ filters = [named |-> None, others |-> FALSE]
  /\ paused = FALSE /\ adding = None /\ requests = 0 /\ process = "up"
  /\ IF loaded = None
     THEN /\ thread = [t \in Threads |-> Idle] /\ wire = <<>>
          /\ request = None /\ client = [view |-> "new", line |-> 0]
     ELSE /\ request = "attach" /\ client = [view |-> "running", line |-> 0]
          /\ \/ /\ thread = [t \in Threads |-> Idle]
                /\ wire = <<[event |-> "entry", line |-> 0]>>
             \/ /\ \E g \in Goroutines :
                     thread = [[t \in Threads |-> Idle] EXCEPT ![g] = Begin(FALSE)]
                /\ wire = <<>>

-----------------------------------------------------------------------------
(* Continue and Next.                                                       *)

\* The instruction is put at the end of the current line the run leaves from.
Normalise(t) ==
  /\ At(t, "normalise")
  /\ instruction' = IF currentLine \notin GoLines THEN instruction
                    ELSE IF ~thread[t].reverse THEN Starts(loaded, currentLine)
                    ELSE IF Ends(loaded, currentLine) > 0
                         THEN Ends(loaded, currentLine) - 1 ELSE 0
  /\ thread' = [thread EXCEPT ![t].at = IF t = Main THEN "execute" ELSE "unpause",
                              ![t].from = currentLine, ![t].ln = currentLine]
  /\ UNCHANGED <<loaded, currentLine, currentCol, variables, stops, paused,
                 request, adding, wire, session>>

Unpause(t) ==
  /\ At(t, "unpause") /\ paused' = FALSE /\ Goto(t, "check", thread[t].ln)
  /\ UNCHANGED <<program, stops, request, adding, wire, session>>

\* Fault: a paused run waits instead of ending.
CheckWaiting(t) ==
  /\ At(t, "check") /\ ~paused
  /\ Goto(t, "execute", currentLine)
  /\ UNCHANGED <<program, stops, paused, request, adding, wire, session>>

Check(t) ==
  /\ At(t, "check")
  /\ paused' = FALSE
  /\ IF paused THEN Raise("pause", currentLine) /\ Return(t)
               ELSE Goto(t, "execute", currentLine) /\ UNCHANGED wire
  /\ UNCHANGED <<program, stops, request, adding, session>>

\* starts[ln] and ends[ln] of a line that is not there: the process dies, unless
\* a search finds a breakpoint there first.
Panic(t) ==
  /\ Up /\ thread[t].ln \notin GoLines
  /\ \/ thread[t].at = "execute"
     \/ thread[t].at = "find" /\ thread[t].ln \notin bps[loaded]
  /\ process' = "crashed"
  /\ UNCHANGED <<program, stops, paused, thread, request, adding, wire, client, requests>>

Executing(t) == At(t, "execute") /\ thread[t].ln \in GoLines
Text(t)      == TextOf(loaded, thread[t].ln)

WordsLeft(t) == IF thread[t].reverse THEN instruction >= Starts(loaded, thread[t].ln)
                                     ELSE instruction < Ends(loaded, thread[t].ln)

\* One word of executeLine, and the look-up of its address.
Word(t) ==
  /\ Executing(t) /\ WordsLeft(t)
  /\ instruction' = IF thread[t].reverse THEN instruction - 1 ELSE instruction + 1
  /\ IF instruction' \in instrBps
     THEN Raise("instructionBreakpoint", thread[t].ln) /\ Return(t)
     ELSE UNCHANGED <<wire, thread>>
  /\ UNCHANGED <<loaded, currentLine, currentCol, variables, stops, paused,
                 request, adding, session>>

\* The names declared before the k-th access of the line.
DeclaredBefore(t, k) ==
  variables \cup {Text(t).accesses[j].name : j \in {i \in 1 .. k - 1 : Text(t).accesses[i].assign}}

\* The first access to a name only declares it, and stops nothing.
DataHits(t) ==
  {k \in 1 .. Len(Text(t).accesses) :
     LET a == Text(t).accesses[k]
     IN /\ a.name \in DeclaredBefore(t, k)
        /\ (IF a.assign THEN "write" ELSE "read") \in dataBps[a.name]}

HitData(t) ==
  /\ Executing(t) /\ ~WordsLeft(t)
  /\ \E k \in DataHits(t) : /\ \A j \in DataHits(t) : k <= j
                            /\ variables' = DeclaredBefore(t, k + 1)
  /\ Raise("dataBreakpoint", thread[t].ln) /\ Return(t)
  /\ UNCHANGED <<loaded, currentLine, currentCol, instruction, stops, paused,
                 request, adding, session>>

\* The end of executeLine: an exception the filters name, or the line is done.
LineDone(t) ==
  /\ Executing(t) /\ ~WordsLeft(t) /\ DataHits(t) = {}
  /\ variables' = DeclaredBefore(t, Len(Text(t).accesses) + 1)
  /\ IF Text(t).exc # "none" /\ (Text(t).exc = filters.named \/ filters.others)
     THEN Raise("exception", thread[t].ln) /\ Return(t)
     ELSE Goto(t, "advance", thread[t].ln) /\ UNCHANGED wire
  /\ UNCHANGED <<loaded, currentLine, currentCol, instruction, stops, paused,
                 request, adding, session>>

\* Fault: the last line is taken to have one after it.
AdvanceFar(t) ==
  /\ At(t, "advance")
  /\ IF thread[t].reverse THEN currentLine > 0 ELSE currentLine <= LastLine
  /\ Goto(t, "store", currentLine)
  /\ UNCHANGED <<program, stops, paused, request, adding, wire, session>>

\* updateCurrentLine reads the line and compares it with the end of the text.
Advance(t) ==
  /\ At(t, "advance")
  /\ IF thread[t].reverse THEN currentLine > 0 ELSE currentLine < LastLine
  /\ Goto(t, "store", currentLine)
  /\ UNCHANGED <<program, stops, paused, request, adding, wire, session>>

\* Fault: the line is stored as it was.
StoreSame(t) ==
  /\ At(t, "store")
  /\ currentLine' = thread[t].ln
  /\ Goto(t, "seek", thread[t].ln)
  /\ UNCHANGED <<loaded, currentCol, instruction, variables, stops, paused,
                 request, adding, wire, session>>

\* The line it read, or (as the compiler sees fit) reads again, is moved on.
Store(t) ==
  /\ At(t, "store")
  /\ currentLine' \in IF thread[t].reverse THEN {thread[t].ln - 1, currentLine - 1}
                                           ELSE {thread[t].ln + 1, currentLine + 1}
  /\ Goto(t, "seek", thread[t].ln)
  /\ UNCHANGED <<loaded, currentCol, instruction, variables, stops, paused,
                 request, adding, wire, session>>

RunOff(t) ==
  /\ At(t, "advance")
  /\ currentCol' = None
  /\ IF thread[t].reverse
     THEN currentLine <= 0 /\ currentLine' = 0 /\ Raise("entry", 0)
     ELSE currentLine >= LastLine /\ UNCHANGED <<currentLine, wire>>
  /\ Goto(t, "over", thread[t].ln)
  /\ UNCHANGED <<loaded, instruction, variables, stops, paused, request, adding, session>>

\* findNextStatement begins from the line as it is by then.
Seek(t) ==
  /\ At(t, "seek") /\ Goto(t, "find", currentLine)
  /\ UNCHANGED <<program, stops, paused, request, adding, wire, session>>

Finding(t) == At(t, "find") /\ thread[t].ln \in GoLines

\* Fault: the stop is reported, and the run goes on.
StopFindingGoOn(t, why) ==
  /\ currentLine' = thread[t].ln
  /\ Raise(why, thread[t].ln)
  /\ Goto(t, IF t = Main THEN "over" ELSE "check", thread[t].ln)
  /\ UNCHANGED <<loaded, currentCol, instruction, variables, stops, paused,
                 request, adding, session>>

\* Fault: the stop is reported before the line is set.
StopFindingFirst(t, why) ==
  /\ currentLine' = thread[t].ln
  /\ Raise(why, currentLine)
  /\ IF t = Main THEN Goto(t, "over", thread[t].ln) ELSE Return(t)
  /\ UNCHANGED <<loaded, currentCol, instruction, variables, stops, paused,
                 request, adding, session>>

\* A run is over where it stopped, a next goes on to its own stop.
StopFinding(t, why) ==
  /\ currentLine' = thread[t].ln
  /\ Raise(why, thread[t].ln)
  /\ IF t = Main THEN Goto(t, "over", thread[t].ln) ELSE Return(t)
  /\ UNCHANGED <<loaded, currentCol, instruction, variables, stops, paused,
                 request, adding, session>>

FindBreakpoint(t) == At(t, "find") /\ thread[t].ln \in bps[loaded] /\ StopFinding(t, "breakpoint")

InstructionStop(t) ==
  (IF thread[t].reverse THEN Starts(loaded, thread[t].ln)
                        ELSE Ends(loaded, thread[t].ln) - 1) \in instrBps
\* Fault: the breakpoints of the line are not looked at.
PassableAlways(t) == Finding(t)
Passable(t) == Finding(t) /\ thread[t].ln \notin bps[loaded]

FindInstruction(t) ==
  Passable(t) /\ InstructionStop(t) /\ StopFinding(t, "instructionBreakpoint")

Found(t) == Goto(t, IF t = Main THEN "over" ELSE "check", thread[t].ln)

FindStatement(t) ==
  /\ Passable(t) /\ ~InstructionStop(t) /\ NonBlank(loaded, thread[t].ln)
  /\ currentLine' = thread[t].ln /\ Found(t)
  /\ UNCHANGED <<loaded, currentCol, instruction, variables, stops, paused,
                 request, adding, wire, session>>

\* A blank line is passed; beyond the text there is nothing to find.
SkipBlank(t) ==
  /\ Passable(t) /\ ~InstructionStop(t) /\ ~NonBlank(loaded, thread[t].ln)
  /\ LET ln == IF thread[t].reverse THEN thread[t].ln - 1 ELSE thread[t].ln + 1
     IN IF ln \in GoLines THEN Goto(t, "find", ln) ELSE Found(t)
  /\ UNCHANGED <<program, stops, paused, request, adding, wire, session>>

\* Fault: the end of a run is not reported.
FinishSilent(t) ==
  /\ At(t, "over") /\ Return(t)
  /\ IF t = Main THEN Raise("step", currentLine) ELSE UNCHANGED wire
  /\ UNCHANGED <<program, stops, paused, request, adding, session>>

Finish(t) ==
  /\ At(t, "over") /\ Return(t)
  /\ IF t = Main THEN Raise("step", currentLine) ELSE Raise("terminated", 0)
  /\ UNCHANGED <<program, stops, paused, request, adding, session>>

ThreadStep(t) ==
  \/ Normalise(t) \/ Unpause(t) \/ Check(t) \/ Panic(t)
  \/ Word(t) \/ HitData(t) \/ LineDone(t)
  \/ Advance(t) \/ Store(t) \/ RunOff(t)
  \/ Seek(t) \/ FindBreakpoint(t) \/ FindInstruction(t) \/ FindStatement(t) \/ SkipBlank(t)
  \/ Finish(t)

-----------------------------------------------------------------------------
(* The requests handleConn serves.                                          *)

Serving(c) == /\ At(Main, "idle") /\ adding = None /\ request = c
              /\ request' = None

Launch(f, entry) ==
  /\ Serving("launch")
  /\ IF f = None
     THEN Raise("failed", 0) /\ UNCHANGED <<program, thread>>
     ELSE /\ loaded' = f /\ currentLine' = 0 /\ currentCol' = None /\ instruction' = 0
          /\ IF entry THEN Raise("entry", 0) /\ UNCHANGED thread
             ELSE /\ UNCHANGED wire
                  /\ \E g \in Goroutines : /\ thread[g] = Idle
                                           /\ thread' = [thread EXCEPT ![g] = Begin(FALSE)]
          /\ UNCHANGED variables
  /\ UNCHANGED <<stops, paused, adding, session>>

\* A pause while one is on its way is dropped; any other is reported at once.
PauseEngine ==
  /\ paused' = TRUE
  /\ IF paused THEN UNCHANGED wire ELSE Raise("pause", currentLine)
  /\ UNCHANGED <<program, stops, thread, adding, session>>

Pause == Serving("pause") /\ PauseEngine

Attach(stop) ==
  /\ Serving("attach")
  /\ IF stop THEN PauseEngine
     ELSE UNCHANGED <<program, stops, paused, thread, adding, wire, session>>

Continue(reverse) ==
  /\ Serving("continue")
  /\ \E g \in Goroutines : /\ thread[g] = Idle
                           /\ thread' = [thread EXCEPT ![g] = Begin(reverse)]
  /\ UNCHANGED <<program, stops, paused, adding, wire, session>>

NextLine(reverse) ==
  /\ Serving("next")
  /\ thread' = [thread EXCEPT ![Main] = Begin(reverse)]
  /\ UNCHANGED <<program, stops, paused, adding, wire, session>>

SetColumn(c) ==
  /\ currentCol' = c /\ Raise("step", currentLine)
  /\ UNCHANGED <<loaded, currentLine, instruction, variables, stops, paused,
                 thread, adding, session>>
StepIn(target) ==
  /\ Serving("stepIn")
  /\ SetColumn(IF target # None THEN target
               ELSE IF currentCol = None THEN 1 ELSE currentCol + 1)
StepOut == Serving("stepOut") /\ SetColumn(IF currentCol = None \/ currentCol <= 1
                                           THEN None ELSE currentCol - 1)

\* The map entry is emptied first, and the breakpoints appended one by one.
SetBreakpoints(f, lines) ==
  /\ Serving("setBreakpoints")
  /\ bps' = [bps EXCEPT ![f] = {}]
  /\ adding' = IF lines = {} THEN None ELSE [file |-> f, todo |-> lines]
  /\ UNCHANGED <<program, dataBps, instrBps, filters, paused, thread, wire, session>>

\* Fault: the loop does not see that it is through.
AddBreakpointOn(l) ==
  /\ Up /\ adding # None /\ l \in adding.todo
  /\ bps' = [bps EXCEPT ![adding.file] = @ \cup {l}]
  /\ adding' = [adding EXCEPT !.todo = @ \ {l}]
  /\ UNCHANGED <<program, dataBps, instrBps, filters, paused, thread, request, wire, session>>

AddBreakpoint(l) ==
  /\ Up /\ adding # None /\ l \in adding.todo
  /\ bps' = [bps EXCEPT ![adding.file] = @ \cup {l}]
  /\ adding' = IF adding.todo = {l} THEN None ELSE [adding EXCEPT !.todo = @ \ {l}]
  /\ UNCHANGED <<program, dataBps, instrBps, filters, paused, thread, request, wire, session>>

Unmoved == UNCHANGED <<program, bps, paused, thread, adding, wire, session>>

\* A second, different access kind on a name makes it both.
SetDataBreakpoint(n, kinds) ==
  /\ Serving("setDataBreakpoint")
  /\ dataBps' = [dataBps EXCEPT ![n] = @ \cup kinds]
  /\ Unmoved /\ UNCHANGED <<instrBps, filters>>
ClearAllDataBreakpoints ==
  /\ Serving("clearAllDataBreakpoints") /\ dataBps' = [n \in Names |-> {}]
  /\ Unmoved /\ UNCHANGED <<instrBps, filters>>
SetInstructionBreakpoint(a) ==
  /\ Serving("setInstructionBreakpoint") /\ instrBps' = instrBps \cup {a}
  /\ Unmoved /\ UNCHANGED <<dataBps, filters>>
ClearInstructionBreakpoints ==
  /\ Serving("clearInstructionBreakpoints") /\ instrBps' = {}
  /\ Unmoved /\ UNCHANGED <<dataBps, filters>>
SetExceptionsFilters(x) ==
  /\ Serving("setExceptionBreakpoints") /\ filters' = x
  /\ Unmoved /\ UNCHANGED <<dataBps, instrBps>>

\* getLocalVariables and setVariable concern values only.
Locals(c) == Serving(c) /\ Unmoved /\ UNCHANGED <<dataBps, instrBps, filters>>

\* handleConn returns, and with it main and every goroutine; a server closes the
\* connection, on which nothing its goroutines still do can be seen.
Disconnect ==
  /\ Serving("disconnect") /\ process' = "exited"
  /\ UNCHANGED <<program, stops, paused, thread, adding, wire, client, requests>>

Serve ==
  \/ \E f \in Programs, entry \in BOOLEAN : Launch(f, entry)
  \/ \E stop \in BOOLEAN : Attach(stop)
  \/ Pause \/ StepOut \/ Disconnect
  \/ \E target \in Targets : StepIn(target)
  \/ \E reverse \in Directions : Continue(reverse) \/ NextLine(reverse)
  \/ \E f \in BpFiles, lines \in SUBSET BpLines : SetBreakpoints(f, lines)
  \/ \E l \in BpLines : AddBreakpoint(l)
  \/ \E n \in Edits, kinds \in SUBSET {"read", "write"} \ {{}} : SetDataBreakpoint(n, kinds)
  \/ \E a \in Addresses : SetInstructionBreakpoint(a)
  \/ \E x \in Filters : SetExceptionsFilters(x)
  \/ ClearAllDataBreakpoints \/ ClearInstructionBreakpoints
  \/ \E c \in StopCommands : Locals(c)

-----------------------------------------------------------------------------
(* The maps of the engine.  Go's runtime kills a process it catches writing  *)
(* a map that another goroutine is reading or writing.                      *)

Reads(t) ==
  IF Executing(t) /\ WordsLeft(t) THEN {"instrBps"}
  ELSE IF Executing(t) /\ Text(t).accesses # <<>> THEN {"variables", "dataBps"}
  ELSE IF At(t, "find") THEN {"bps", "instrBps"}
  ELSE IF t = Main /\ At(t, "idle") /\ adding = None /\ request = "getLocalVariables"
       THEN {"locals"} ELSE {}

Writes(t) ==
  IF Executing(t) /\ ~WordsLeft(t) /\ \E i \in DOMAIN Text(t).accesses : Text(t).accesses[i].assign
  THEN {"variables", "locals"}
  ELSE IF t # Main \/ ~At(t, "idle") THEN {}
  ELSE IF adding # None \/ request = "setBreakpoints" THEN {"bps"}
  ELSE IF request = "setDataBreakpoint" THEN {"dataBps"}
  ELSE IF request = "setInstructionBreakpoint" THEN {"instrBps"}
  ELSE IF request = "setVariable" THEN {"locals"} ELSE {}

MapClash ==
  /\ Up
  /\ \E s \in Threads : \E t \in Threads \ {s} : Writes(s) \cap (Reads(t) \cup Writes(t)) # {}
  /\ process' = "crashed"
  /\ UNCHANGED <<program, stops, paused, thread, request, adding, wire, client, requests>>

-----------------------------------------------------------------------------
(* The client: the adapter, as far as it keeps to what it was told.  It has  *)
(* one request on its way at a time.                                        *)

Quiet == /\ request = None /\ adding = None /\ thread[Main] = Idle /\ wire = <<>>

Allowed(c) ==
  \/ c \in {"launch", "attach"} /\ client.view = "new"
  \/ c \in RunCommands \cup StopCommands /\ client.view = "stopped"
  \/ c = "pause" /\ client.view = "running"
  \/ c \in Configuration /\ client.view # "ended" /\ (Patient => client.view # "running")
  \/ c = "disconnect"

Send(c) ==
  /\ Up /\ request = None /\ requests < MaxRequests
  /\ Allowed(c) /\ (Patient => Quiet)
  /\ c \in {"launch", "continue"} => \E g \in Goroutines : thread[g] = Idle
  /\ request' = c /\ requests' = requests + 1
  /\ client' = [client EXCEPT !.view = IF c \in {"launch", "attach"} \cup RunCommands
                                       THEN "running" ELSE @]
  /\ UNCHANGED <<program, stops, paused, thread, adding, wire, process>>

ViewAfter(e) == IF client.view = "ended" \/ e = "terminated" THEN "ended"
                ELSE IF e = "failed" THEN "new" ELSE "stopped"

Receive ==
  /\ wire # <<>> /\ wire' = Tail(wire)
  /\ client' = [view |-> ViewAfter(Head(wire).event), line |-> Head(wire).line]
  /\ UNCHANGED <<program, stops, paused, thread, request, adding, requests, process>>

\* The client sees the pipe or the socket close.
Closed ==
  /\ ~Up /\ wire = <<>> /\ client.view # "ended"
  /\ client' = [client EXCEPT !.view = "ended"]
  /\ UNCHANGED <<program, stops, paused, thread, request, adding, wire, requests, process>>

Next == \/ \E t \in Threads : ThreadStep(t)
        \/ Serve \/ MapClash
        \/ \E c \in Calls : Send(c)
        \/ Receive \/ Closed

\* Goroutines are scheduled fairly, the handler reads on, and so does the client.
Fairness == /\ \A t \in Threads : WF_vars(ThreadStep(t))
            /\ WF_vars(Serve) /\ WF_vars(Receive) /\ WF_vars(Closed)

Spec     == Init /\ [][Next]_vars
FairSpec == Spec /\ Fairness

-----------------------------------------------------------------------------
(* Properties.                                                              *)

\* Every variable has its type.
TypeOK ==
  /\ loaded \in Files \cup {None} /\ currentLine \in Int
  /\ currentCol \in Int \cup {None} /\ instruction \in Int
  /\ variables \in SUBSET Names
  /\ bps \in [Files -> SUBSET Int] /\ dataBps \in [Names -> SUBSET {"read", "write"}]
  /\ instrBps \in SUBSET Int /\ filters \in FilterRecord
  /\ paused \in BOOLEAN
  /\ thread \in [Threads -> ThreadRecord]
  /\ request \in Commands \cup {None}
  /\ adding \in [file : Files, todo : (SUBSET Int) \ {{}}] \cup {None}
  /\ wire \in Seq(Notice)
  /\ client \in [view : Views, line : Int]
  /\ requests \in Nat
  /\ process \in {"up", "exited", "crashed"}

\* The threads that may still move the program.
Moving(t) == thread[t].at \notin {"idle", "over"}

\* A client that pauses nothing and waits for quiet has one run at a time,
\* although continue returns before the run it starts has begun.
OneRun == \A s, t \in Threads : Moving(s) /\ Moving(t) => s = t

\* continue (engine.go:109) and next skip no breakpoint, blank lines included:
\* none of the lines a run has passed since it began has one.
Passed(t) ==
  LET here == IF thread[t].at \in {"execute", "advance", "store"} THEN thread[t].ln
              ELSE IF thread[t].at = "check" THEN currentLine
              ELSE IF thread[t].reverse THEN thread[t].ln + 1 ELSE thread[t].ln - 1
  IN IF thread[t].reverse THEN here .. thread[t].from - 1 ELSE thread[t].from + 1 .. here
NoBreakpointPassed ==
  \A t \in Threads : thread[t].at \in {"check", "execute", "advance", "store", "find"}
                       => Passed(t) \cap bps[loaded] = {}

\* When everything is quiet, a client that was told of a stop was told the line
\* the program is on; the stack, the variables and the next step are about it.
AllQuiet == Quiet /\ \A t \in Threads : thread[t].at = "idle"
ToldWhereItIs ==
  Up /\ AllQuiet /\ client.view = "stopped" => client.line = currentLine

\* Such a client's runs come nearer to their end with every step, and nothing else
\* moves them: first the line they are on, then the stage they are at, then the words left
\* on the line or the lines left to search.  A search that finds nothing leaves the
\* line as it was, and is begun anew from the next.
LinesFrom(t, l) == IF thread[t].reverse THEN l ELSE LastLine - l
StageLeft(t) ==
  CASE thread[t].at = "normalise" -> 8 [] thread[t].at = "unpause" -> 7
    [] thread[t].at = "seek"      -> 6 [] thread[t].at = "find"    -> 5
    [] thread[t].at = "check"     -> 4 [] thread[t].at = "execute" -> 3
    [] thread[t].at = "advance"   -> 2 [] OTHER                    -> 1
WordsOn(t) == IF thread[t].reverse THEN instruction + 1 - Starts(loaded, thread[t].ln)
                                   ELSE Ends(loaded, thread[t].ln) - instruction
InLineLeft(t) ==
  CASE thread[t].at = "execute" -> IF WordsLeft(t) THEN WordsOn(t) ELSE 0
    [] thread[t].at = "find"    -> LinesFrom(t, thread[t].ln)
    [] OTHER                    -> 0
LinesLeft(t) == LinesFrom(t, currentLine)

Closer(t) ==
  \/ LinesLeft(t)' \in 0 .. LinesLeft(t) - 1
  \/ /\ LinesLeft(t)' = LinesLeft(t)
     /\ \/ StageLeft(t)' < StageLeft(t)
        \/ StageLeft(t)' = StageLeft(t) /\ InLineLeft(t)' \in 0 .. InLineLeft(t) - 1
RunsShrink ==
  [][\A t \in Threads : Moving(t) /\ Moving(t)' =>
       IF ThreadStep(t) THEN Closer(t)
       ELSE UNCHANGED <<LinesLeft(t), StageLeft(t), InLineLeft(t)>>]_vars

\* A program of at least one line kills the runtime under no such client
\* (PROTOCOL.md:46).
Survives == process # "crashed"

\* Whatever a client does, pauses that cross a stop, are dropped, or are undone
\* by the run they were to stop included: while it waits for a program that was
\* loaded, something is there that will tell it.
NeverLeftWaiting ==
  Up /\ loaded # None /\ client.view = "running" =>
    wire # <<>> \/ request # None \/ \E t \in Threads : thread[t].at # "idle"

\* And so it is told, in the end, that the program stopped or is over.
ClientTold == loaded # None /\ client.view = "running" ~> client.view # "running"

\* Runs end, however many there are at a time, as long as all go forward.
RunsEnd == \A t \in Threads : thread[t].at # "idle" ~> thread[t].at = "idle" \/ ~Up
=============================================================================
