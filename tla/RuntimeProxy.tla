---------------------------- MODULE RuntimeProxy ----------------------------
(***************************************************************************)
(* The adapter's side of the protocol: RuntimeBase of baseRuntime.ts, over   *)
(* the pipe of StdioRuntimeProxy, with a runtime at the other end that       *)
(* serves one request after the other (mock-go/main.go, CliHost.cs) while    *)
(* the program it runs moves on its own, and with the debug client.          *)
(*                                                                          *)
(* JavaScript calls onLine for every line of a chunk of the pipe before any  *)
(* promise it settled resumes its caller: chunk is the number of lines left  *)
(* in that loop, and ready holds the callers to resume, in order.            *)
(***************************************************************************)
EXTENDS Integers, SequencesExt

CONSTANTS Names,        \* of local variables
          Values,
          Lines,        \* of the program
          LineKinds,    \* whether stopped events carry a line; PROTOCOL.md allows both
          Entries,      \* values of stopOnEntry
          MayFail,      \* launch may be refused
          MayDie,       \* the runtime's process may exit at any moment
          BreakpointSets, \* arguments of setBreakpointsBulk
          MaxRequests,  \* bound on the requests sent in a session
          MaxEdits,     \* bound on the calls of setLocalVariable
          Calls,        \* what the client does in a session
          Patient,      \* the client edits no variable during a refresh
          None

ConstantsAssumption ==
  /\ Lines \subseteq Nat /\ 0 \in Lines
  /\ LineKinds \subseteq BOOLEAN /\ LineKinds # {}
  /\ Entries \subseteq BOOLEAN
  /\ MayFail \in BOOLEAN /\ MayDie \in BOOLEAN
  /\ BreakpointSets \subseteq SUBSET Lines
  /\ MaxRequests \in Nat /\ MaxEdits \in Nat
  /\ Calls \subseteq {"run", "pause", "disconnect", "locals", "edit", "breakpoints"}
  /\ Patient \in BOOLEAN
  /\ None \notin Values /\ None \notin Lines
ASSUME ConstantsAssumption

VARIABLES
  reqId,             \* the id of the next request
  pending,           \* the calls waiting for a response, by id
  locals, pendingLocalEdits, localsFresh,
  currentLine,
  breakpoints,       \* of one file
  starting,          \* how far start() has come
  chunk, ready,
  toRuntime,         \* requests in the runtime's stdin
  fromRuntime,       \* responses and events in its stdout
  state,             \* of the program: idle, running, stopped, ended; or exited
  line, vars, lines, \* the runtime's current line, variables and breakpoints
  hasLine,           \* whether its stopped events carry the line
  raised,            \* the stops it has reported
  view,              \* what the client was last told: none, running, stopped, ended
  notices, notified, \* the stop notices it got, and the stop the last was for
  edits              \* the calls of setLocalVariable made

cache    == <<locals, pendingLocalEdits, localsFresh, currentLine>>
loop     == <<chunk, ready>>
runtime  == <<state, line, vars, lines, hasLine, raised>>
client   == <<view, notices, notified, edits>>
allVars  == <<reqId, pending, cache, breakpoints, starting, loop,
              toRuntime, fromRuntime, runtime, client>>

-----------------------------------------------------------------------------
Commands == {"initialize", "launch", "continue", "pause", "next", "disconnect",
             "getLocalVariables", "setVariable", "stackTrace", "setBreakpoints"}
Locals   == [Names -> Values \cup {None}]
Edit     == [name : Names, value : Values]
StopEvent == [n : Nat, line : Lines \cup {None}]

\* What a settled promise does: nothing, refresh the locals, go on with the
\* dispatch of a stopped event, clear an edit, or go on with start().
Call == [command : Commands, then : {"none", "refresh", "stop", "edit", "start"},
         stop : StopEvent \cup {None}, name : Names \cup {None}]
Quiet(command)    == [command |-> command, then |-> "none", stop |-> None, name |-> None]
Refresh           == [Quiet("getLocalVariables") EXCEPT !.then = "refresh"]
Stopping(c, stop) == [Quiet(c) EXCEPT !.then = "stop", !.stop = stop]
Editing(n)        == [Quiet("setVariable") EXCEPT !.then = "edit", !.name = n]
Starting(c)       == [Quiet(c) EXCEPT !.then = "start"]

\* The command of a response is not on the wire: it is there for the invariants.
Request(id, command, arg) == [id |-> id, command |-> command, arg |-> arg]
Response(r, success, body) == [type |-> "response", id |-> r.id, command |-> r.command,
                               success |-> success, body |-> body]
Event(type, stop) == [type |-> type, id |-> 0, command |-> None,
                      success |-> TRUE, body |-> stop]

Edited(ls, es) == [n \in Names |-> IF es[n] = None THEN ls[n] ELSE es[n]]
NoLocals == [n \in Names |-> None]

Init ==
  /\ reqId = 1 /\ pending = <<>>
  /\ locals = NoLocals /\ pendingLocalEdits = NoLocals
  /\ localsFresh = FALSE /\ currentLine = 0
  /\ breakpoints = {} /\ starting = "no"
  /\ chunk = 0 /\ ready = <<>>
  /\ toRuntime = <<>> /\ fromRuntime = <<>>
  /\ state = "idle" /\ line = 0 /\ vars = NoLocals /\ lines = {}
  /\ hasLine \in LineKinds /\ raised = 0
  /\ view = "none" /\ notices = 0 /\ notified = 0 /\ edits = 0

-----------------------------------------------------------------------------
(* send: the request is written, then its promise is recorded.  What is      *)
(* written after the process has exited goes nowhere.                        *)

Write(rs) == toRuntime' = IF state = "exited" THEN toRuntime ELSE toRuntime \o rs

\* Fault: the counter is not advanced.
SendSameId(call, arg) ==
  /\ pending' = [id \in DOMAIN pending \cup {reqId} |->
                   IF id = reqId THEN call ELSE pending[id]]
  /\ Write(<<Request(reqId, call.command, arg)>>)
  /\ reqId' = reqId

Send(call, arg) ==
  /\ pending' = [id \in DOMAIN pending \cup {reqId} |->
                   IF id = reqId THEN call ELSE pending[id]]
  /\ Write(<<Request(reqId, call.command, arg)>>)
  /\ reqId' = reqId + 1

NoSend == UNCHANGED <<reqId, pending, toRuntime>>

\* The client's calls come between chunks, when no promise is left to resume.
MayCall == chunk = 0 /\ ready = <<>> /\ reqId <= MaxRequests

MayEdit ==
  /\ MayCall /\ "edit" \in Calls /\ view = "stopped" /\ edits < MaxEdits
  /\ Patient => \A id \in DOMAIN pending : pending[id].then # "refresh"

-----------------------------------------------------------------------------
(* The client's calls.                                                      *)

\* start reads the program (the text is only shown), then sends initialize.
Start ==
  /\ MayCall /\ starting = "no"
  /\ starting' = "initialize" /\ view' = "running"
  /\ Send(Starting("initialize"), None)
  /\ UNCHANGED <<cache, breakpoints, loop, fromRuntime, runtime, notices, notified, edits>>

\* continue, step, stepIn and stepOut; the client runs what it saw stop.
Run(command) ==
  /\ MayCall /\ "run" \in Calls /\ view = "stopped"
  /\ view' = "running"
  /\ localsFresh' = FALSE
  /\ Send(Quiet(command), None)
  /\ UNCHANGED <<locals, pendingLocalEdits, currentLine, breakpoints, starting, loop,
                 fromRuntime, runtime, notices, notified, edits>>

Pause ==
  /\ MayCall /\ "pause" \in Calls /\ view = "running" /\ starting = "done"
  /\ Send(Quiet("pause"), None)
  /\ UNCHANGED <<cache, breakpoints, starting, loop, fromRuntime, runtime, client>>

Disconnect ==
  /\ MayCall /\ "disconnect" \in Calls /\ starting # "no" /\ view # "ended"
  /\ Send(Quiet("disconnect"), None)
  /\ UNCHANGED <<cache, breakpoints, starting, loop, fromRuntime, runtime, client>>

\* The cache is returned as it is; a refresh is sent when it is not fresh.
GetLocalVariables ==
  /\ MayCall /\ "locals" \in Calls /\ starting = "done" /\ ~localsFresh
  /\ Send(Refresh, None)
  /\ UNCHANGED <<cache, breakpoints, starting, loop, fromRuntime, runtime, client>>

SetLocalVariable(n, v) ==
  /\ MayEdit
  /\ edits' = edits + 1
  /\ locals' = [locals EXCEPT ![n] = v]
  /\ pendingLocalEdits' = [pendingLocalEdits EXCEPT ![n] = v]
  /\ Send(Editing(n), [name |-> n, value |-> v])
  /\ UNCHANGED <<localsFresh, currentLine, breakpoints, starting, loop,
                 fromRuntime, runtime, view, notices, notified>>

\* Every change of the breakpoints sends them all.
SendBreakpoints(bs) ==
  /\ MayCall /\ "breakpoints" \in Calls
  /\ breakpoints' = bs
  /\ Send(Quiet("setBreakpoints"), bs)
  /\ UNCHANGED <<cache, starting, loop, fromRuntime, runtime, client>>

\* Fault: only the line that was set is sent.
SetBreakPointAlone(l) ==
  /\ MayCall /\ "breakpoints" \in Calls
  /\ breakpoints' = breakpoints \cup {l}
  /\ Send(Quiet("setBreakpoints"), {l})
  /\ UNCHANGED <<cache, starting, loop, fromRuntime, runtime, client>>

\* The client clears a line it has set; with no set for the file nothing is sent.
SetBreakPoint(l)       == SendBreakpoints(breakpoints \cup {l})
ClearBreakPoint(l)     == l \in breakpoints /\ SendBreakpoints(breakpoints \ {l})
ClearBreakpoints       == SendBreakpoints({})
SetBreakpointsBulk(bs) == SendBreakpoints(bs)

-----------------------------------------------------------------------------
(* onStdout and onLine: one line of the chunk.                              *)

\* Fault: an answered call stays in the table.
ResolveKeeping(m) ==
  IF m.id \in DOMAIN pending
  THEN pending' = pending /\ ready' = Append(ready, [call |-> pending[m.id], answer |-> m])
  ELSE UNCHANGED <<pending, ready>>

\* A response settles the promise of its id, whose caller resumes later.
Resolve(m) ==
  IF m.id \in DOMAIN pending
  THEN /\ pending' = [id \in DOMAIN pending \ {m.id} |-> pending[id]]
       /\ ready' = Append(ready, [call |-> pending[m.id], answer |-> m])
  ELSE UNCHANGED <<pending, ready>>

Receive(m) ==
  /\ fromRuntime # <<>> /\ Head(fromRuntime) = m
  /\ \/ chunk # 0 /\ chunk' = chunk - 1
     \/ chunk = 0 /\ ready = <<>> /\ chunk' \in 0 .. Len(fromRuntime) - 1
  /\ fromRuntime' = Tail(fromRuntime)

OnResponse(m) ==
  /\ m.type = "response"
  /\ Receive(m) /\ Resolve(m)
  /\ UNCHANGED <<reqId, cache, breakpoints, starting, toRuntime, runtime, client>>

\* Fault: a stop is ignored while another is being dispatched.
OnStoppedOnce(m) ==
  /\ m.type = "stopped"
  /\ Receive(m)
  /\ IF \E id \in DOMAIN pending : pending[id].then = "stop" THEN NoSend
     ELSE Send(Stopping("getLocalVariables", m.body), None)
  /\ UNCHANGED <<cache, breakpoints, starting, ready, runtime, client>>

\* dispatchEvent of a stopped event, up to its first await.
OnStopped(m) ==
  /\ m.type = "stopped"
  /\ Receive(m)
  /\ Send(Stopping("getLocalVariables", m.body), None)
  /\ UNCHANGED <<cache, breakpoints, starting, ready, runtime, client>>

\* The notice of the end is given at once.
OnTerminated(m) ==
  /\ m.type = "terminated"
  /\ Receive(m)
  /\ view' = "ended"
  /\ NoSend
  /\ UNCHANGED <<cache, breakpoints, starting, ready, runtime, notices, notified, edits>>

\* Fault: the exit is noticed only by a call that waits for its answer.
OnExitPending ==
  /\ chunk = 0 /\ ready = <<>> /\ state = "exited" /\ view # "ended"
  /\ DOMAIN pending # {}
  /\ view' = "ended"
  /\ UNCHANGED <<reqId, pending, cache, breakpoints, starting, loop,
                 toRuntime, fromRuntime, runtime, notices, notified, edits>>

\* The child's exit is noticed whenever Node gets to it, even before what it
\* had still written is read.
OnExit ==
  /\ chunk = 0 /\ ready = <<>> /\ state = "exited" /\ view # "ended"
  /\ view' = "ended"
  /\ UNCHANGED <<reqId, pending, cache, breakpoints, starting, loop,
                 toRuntime, fromRuntime, runtime, notices, notified, edits>>

-----------------------------------------------------------------------------
(* The callers that resume, once the chunk is done.                         *)

Resume(then) ==
  /\ chunk = 0 /\ ready # <<>>
  /\ Head(ready).call.then = then
  /\ ready' = Tail(ready) /\ UNCHANGED chunk

Answered == Head(ready).answer
Stop     == Head(ready).call.stop

Nothing ==
  /\ Resume("none") /\ NoSend
  /\ UNCHANGED <<cache, breakpoints, starting, fromRuntime, runtime, client>>

\* updateLocalsFromPayload adds and replaces; it never removes a name.
Merged(payload) == Edited(locals, payload)

Refreshed ==
  /\ Resume("refresh") /\ NoSend
  /\ locals' = Merged(Answered.body) /\ localsFresh' = TRUE
  /\ UNCHANGED <<pendingLocalEdits, currentLine, breakpoints, starting,
                 fromRuntime, runtime, client>>

\* Fault: a notice is given only for a stop that carries its line.
NotifyWithLine(stop) ==
  IF stop.line # None
  THEN /\ view' = (IF view = "ended" THEN "ended" ELSE "stopped")
       /\ notices' = notices + 1 /\ notified' = stop.n
  ELSE UNCHANGED <<view, notices, notified>>

\* The notice is given even after that of the end, which the client goes by.
Notify(stop) ==
  /\ view' = (IF view = "ended" THEN "ended" ELSE "stopped")
  /\ notices' = notices + 1 /\ notified' = stop.n

\* Fault: the edits still on their way are forgotten.
StopRefreshedOver ==
  /\ Resume("stop") /\ Head(ready).call.command = "getLocalVariables"
  /\ locals' = Merged(Answered.body) /\ localsFresh' = TRUE
  /\ IF Stop.line # None
     THEN currentLine' = Stop.line /\ Notify(Stop) /\ NoSend
     ELSE /\ Send(Stopping("stackTrace", Stop), None)
          /\ UNCHANGED <<currentLine, view, notices, notified>>
  /\ UNCHANGED <<pendingLocalEdits, breakpoints, starting, fromRuntime, runtime, edits>>

\* The dispatch of a stop goes on: the locals are the runtime's, under the edits
\* it has not confirmed; a stop that carries no line asks for the stack first.
StopRefreshed ==
  /\ Resume("stop") /\ Head(ready).call.command = "getLocalVariables"
  /\ locals' = Edited(Merged(Answered.body), pendingLocalEdits) /\ localsFresh' = TRUE
  /\ IF Stop.line # None
     THEN currentLine' = Stop.line /\ Notify(Stop) /\ NoSend
     ELSE /\ Send(Stopping("stackTrace", Stop), None)
          /\ UNCHANGED <<currentLine, view, notices, notified>>
  /\ UNCHANGED <<pendingLocalEdits, breakpoints, starting, fromRuntime, runtime, edits>>

StopLocated ==
  /\ Resume("stop") /\ Head(ready).call.command = "stackTrace"
  /\ currentLine' = Answered.body
  /\ Notify(Stop) /\ NoSend
  /\ UNCHANGED <<locals, pendingLocalEdits, localsFresh, breakpoints, starting,
                 fromRuntime, runtime, edits>>

\* The entry of the name goes, whatever was set under it since.
EditConfirmed ==
  /\ Resume("edit") /\ NoSend
  /\ pendingLocalEdits' = [pendingLocalEdits EXCEPT ![Head(ready).call.name] = None]
  /\ UNCHANGED <<locals, localsFresh, currentLine, breakpoints, starting,
                 fromRuntime, runtime, client>>

StartWentOn ==
  /\ Resume("start")
  /\ IF ~Answered.success
     THEN starting' = "failed" /\ NoSend
     ELSE IF Head(ready).call.command = "initialize"
     THEN \E entry \in Entries : Send(Starting("launch"), entry) /\ starting' = "launch"
     ELSE Send(Refresh, None) /\ starting' = "done"
  /\ UNCHANGED <<cache, breakpoints, fromRuntime, runtime, client>>

-----------------------------------------------------------------------------
(* The runtime: one request at a time, the program beside it.               *)

Reply(success, body, stops) ==
  LET r == Head(toRuntime)
  IN /\ toRuntime' = Tail(toRuntime)
     /\ fromRuntime' = fromRuntime \o <<Response(r, success, body)>> \o stops

StopAt(n, l) == <<Event("stopped", [n |-> n, line |-> IF hasLine THEN l ELSE None])>>

Serve(command) ==
  /\ state # "exited"
  /\ toRuntime # <<>> /\ Head(toRuntime).command = command
  /\ UNCHANGED <<reqId, pending, cache, breakpoints, starting, loop, hasLine, client>>

Argument == Head(toRuntime).arg

ServeInitialize ==
  Serve("initialize") /\ Reply(TRUE, None, <<>>) /\ UNCHANGED <<state, line, vars, lines, raised>>

ServeLaunch ==
  /\ Serve("launch")
  /\ \/ /\ Argument
        /\ Reply(TRUE, None, StopAt(raised + 1, line))
        /\ state' = "stopped" /\ raised' = raised + 1
     \/ ~Argument /\ Reply(TRUE, None, <<>>) /\ state' = "running" /\ UNCHANGED raised
  /\ UNCHANGED <<line, vars, lines>>

RefuseLaunch ==
  /\ MayFail
  /\ Serve("launch") /\ Reply(FALSE, None, <<>>)
  /\ UNCHANGED <<state, line, vars, lines, raised>>

ServeRun(command) ==
  /\ Serve(command) /\ Reply(TRUE, None, <<>>)
  /\ state' = "running" /\ UNCHANGED <<line, vars, lines, raised>>

\* pause reports a stop, whether or not the program was running.
ServePause ==
  /\ Serve("pause") /\ Reply(TRUE, None, StopAt(raised + 1, line))
  /\ raised' = raised + 1
  /\ state' = (IF state = "running" THEN "stopped" ELSE state)
  /\ UNCHANGED <<line, vars, lines>>

ServeLocals ==
  /\ Serve("getLocalVariables") /\ Reply(TRUE, vars, <<>>)
  /\ UNCHANGED <<state, line, vars, lines, raised>>

ServeStack ==
  /\ Serve("stackTrace") /\ Reply(TRUE, line, <<>>)
  /\ UNCHANGED <<state, line, vars, lines, raised>>

ServeSetVariable ==
  /\ Serve("setVariable") /\ Reply(TRUE, None, <<>>)
  /\ vars' = [vars EXCEPT ![Argument.name] = Argument.value]
  /\ UNCHANGED <<state, line, lines, raised>>

ServeBreakpoints ==
  /\ Serve("setBreakpoints") /\ Reply(TRUE, None, <<>>)
  /\ lines' = Argument
  /\ UNCHANGED <<state, line, vars, raised>>

\* The process ends after its answer.
ServeDisconnect ==
  /\ Serve("disconnect") /\ Reply(TRUE, None, <<>>)
  /\ state' = "exited" /\ UNCHANGED <<line, vars, lines, raised>>

Exit ==
  /\ MayDie /\ state # "exited"
  /\ state' = "exited" /\ toRuntime' = <<>>
  /\ UNCHANGED <<reqId, pending, cache, breakpoints, starting, loop, fromRuntime,
                 line, vars, lines, hasLine, raised, client>>

Program ==
  /\ state = "running"
  /\ UNCHANGED <<reqId, pending, cache, breakpoints, starting, loop, toRuntime,
                 lines, hasLine, client>>

ProgramAssigns(n, v) ==
  /\ Program
  /\ vars' = [vars EXCEPT ![n] = v]
  /\ UNCHANGED <<fromRuntime, state, line, raised>>

ProgramStops(l) ==
  /\ Program
  /\ line' = l /\ state' = "stopped" /\ raised' = raised + 1
  /\ fromRuntime' = fromRuntime \o StopAt(raised + 1, l)
  /\ UNCHANGED vars

ProgramEnds ==
  /\ Program
  /\ state' = "ended" /\ fromRuntime' = Append(fromRuntime, Event("terminated", None))
  /\ UNCHANGED <<line, vars, raised>>

-----------------------------------------------------------------------------
OnLine ==
  \E m \in {fromRuntime[i] : i \in DOMAIN fromRuntime} :
    OnResponse(m) \/ OnStopped(m) \/ OnTerminated(m)

Continuation ==
  Nothing \/ Refreshed \/ StopRefreshed \/ StopLocated \/ EditConfirmed \/ StartWentOn

Client ==
  \/ Start \/ Pause \/ Disconnect \/ GetLocalVariables \/ ClearBreakpoints
  \/ \E command \in {"continue", "next"} : Run(command)
  \/ \E n \in Names, v \in Values : SetLocalVariable(n, v)
  \/ \E l \in Lines : SetBreakPoint(l) \/ ClearBreakPoint(l)
  \/ \E bs \in BreakpointSets : SetBreakpointsBulk(bs)

Service ==
  \/ ServeInitialize \/ ServeLaunch \/ RefuseLaunch \/ ServePause \/ ServeLocals
  \/ ServeStack \/ ServeSetVariable \/ ServeBreakpoints \/ ServeDisconnect
  \/ \E command \in {"continue", "next"} : ServeRun(command)

ProgramReports == ProgramEnds \/ \E l \in Lines : ProgramStops(l)

Next ==
  \/ OnLine \/ Continuation \/ OnExit \/ Client \/ Service \/ Exit \/ ProgramReports
  \/ \E n \in Names, v \in Values : ProgramAssigns(n, v)

Spec == Init /\ [][Next]_allVars

\* Node serves the pipe, the promises and the child's exit; the runtime reads its
\* requests, and the program it runs comes to a stop or to its end.
Fairness ==
  /\ WF_allVars(OnLine) /\ WF_allVars(Continuation) /\ WF_allVars(OnExit)
  /\ WF_allVars(Service) /\ WF_allVars(ProgramReports)

FairSpec == Spec /\ Fairness

-----------------------------------------------------------------------------
(* Properties.                                                              *)

RequestOK(r) ==
  /\ r.id \in Nat /\ r.command \in Commands
  /\ r.command = "launch" => r.arg \in BOOLEAN
  /\ r.command = "setVariable" => r.arg \in Edit
  /\ r.command = "setBreakpoints" => r.arg \in SUBSET Lines

MessageOK(m) ==
  \/ m.type = "stopped" /\ m.body \in StopEvent
  \/ m.type = "terminated"
  \/ /\ m.type = "response" /\ m.id \in Nat /\ m.success \in BOOLEAN
     /\ m.command \in Commands
     /\ m.command = "getLocalVariables" => m.body \in Locals
     /\ m.command = "stackTrace" => m.body \in Lines

\* What a caller that goes on does with the answer is what the command answers.
CallOK(call) ==
  /\ call \in Call
  /\ call.then = "refresh" => call.command = "getLocalVariables"
  /\ call.then = "stop" => /\ call.command \in {"getLocalVariables", "stackTrace"}
                           /\ call.stop \in StopEvent
  /\ call.then = "edit" => call.name \in Names

ReadyOK(r) ==
  /\ CallOK(r.call) /\ MessageOK(r.answer)
  /\ r.answer.type = "response" /\ r.answer.command = r.call.command

\* The type invariant.
TypeOK ==
  /\ reqId \in Nat \ {0}
  /\ DOMAIN pending \subseteq 1 .. reqId - 1
  /\ \A id \in DOMAIN pending : CallOK(pending[id])
  /\ locals \in Locals /\ pendingLocalEdits \in Locals
  /\ localsFresh \in BOOLEAN /\ currentLine \in Lines
  /\ breakpoints \subseteq Lines
  /\ starting \in {"no", "initialize", "launch", "done", "failed"}
  /\ chunk \in Nat
  /\ \A i \in DOMAIN ready : ReadyOK(ready[i])
  /\ \A i \in DOMAIN toRuntime : RequestOK(toRuntime[i])
  /\ \A i \in DOMAIN fromRuntime : MessageOK(fromRuntime[i])
  /\ state \in {"idle", "running", "stopped", "ended", "exited"}
  /\ line \in Lines /\ vars \in Locals /\ lines \subseteq Lines
  /\ hasLine \in BOOLEAN /\ raised \in Nat
  /\ view \in {"none", "running", "stopped", "ended"}
  /\ notices \in Nat /\ notified \in Nat /\ edits \in Nat

ResponseAt(i) == fromRuntime[i].type = "response"

\* Every answer on its way is to a call that still waits, was asked by that call's
\* command, and is the only one: no payload reaches the wrong caller.
AnswersMatch ==
  /\ \A i \in DOMAIN fromRuntime : ResponseAt(i) =>
       /\ fromRuntime[i].id \in DOMAIN pending
       /\ pending[fromRuntime[i].id].command = fromRuntime[i].command
  /\ \A i, j \in DOMAIN fromRuntime :
       ResponseAt(i) /\ ResponseAt(j) /\ fromRuntime[i].id = fromRuntime[j].id => i = j

\* While the runtime lives, nothing waits for an answer that is on neither pipe:
\* the table of calls never keeps an entry for ever.
NoneForgotten ==
  state # "exited" =>
    \A id \in DOMAIN pending :
      \/ \E i \in DOMAIN toRuntime : toRuntime[i].id = id
      \/ \E i \in DOMAIN fromRuntime : ResponseAt(i) /\ fromRuntime[i].id = id

\* The client gets one notice for every stop, in the order of the stops, although
\* each notice waits for one or two answers while later stops come in.
InTurn == notices = notified

Settled ==
  chunk = 0 /\ ready = <<>> /\ toRuntime = <<>> /\ fromRuntime = <<>> /\ state # "exited"

\* Once all is quiet, a stopped runtime and the adapter agree: its last stop was
\* notified, the line is the runtime's and so is every variable of the cache, which
\* is called fresh.
CacheAgrees ==
  Settled /\ state = "stopped" =>
    /\ notified = raised /\ currentLine = line
    /\ localsFresh /\ locals = vars

\* With no change of them under way, the runtime has the adapter's breakpoints.
BreakpointsAgree ==
  state # "exited" /\ (\A i \in DOMAIN toRuntime : toRuntime[i].command # "setBreakpoints")
    => lines = breakpoints

\* Every stop is notified, unless the runtime exits.
StopsNotified == (notified < raised) ~> (notified = raised \/ state = "exited")

\* After start, continue or a step the client is told of a stop or of the end,
\* unless start failed.
ControlReturns == (view = "running") ~> (view # "running" \/ starting = "failed")
=============================================================================
