------------------------------- MODULE TsHost -------------------------------
(***************************************************************************)
(* The TypeScript engine under its host, handleConnection of mock-ts/src/    *)
(* cli.ts: the requests of one client call it, instead of anything at any    *)
(* time.                                                                    *)
(*                                                                          *)
(* A handler runs to its first await as soon as its line is read, and the    *)
(* lines of one chunk are read one after another (chunk); then the promises  *)
(* that are settled resume, and only then a file, a timer, an immediate or   *)
(* another chunk has its turn.                                               *)
(***************************************************************************)
EXTENDS TsEngine

CONSTANTS LineLists,     \* arguments of setBreakpoints
          Waits,         \* the client waits for an answer before it sets the
                         \* breakpoints of the same file again
          MaxRequests    \* bound on the requests of a connection

HostAssumption == /\ LineLists \subseteq Seq(BpLines)
                  /\ Waits \in BOOLEAN /\ MaxRequests \in Nat
ASSUME HostAssumption

VARIABLES
  phase,        \* of the connection: before its preload, serving, or over
  handler,      \* the request that awaits each engine call
  immediates,   \* continue, scheduled by setImmediate
  chunk,        \* the lines of one chunk are being handled
  wanted,       \* the last set of a file; None once a set has failed
  requests,     \* the number of the last request
  pending       \* the numbers of the launches and sets the client waits for

host == <<phase, handler, immediates, chunk, wanted, requests, pending>>
all  == <<vars, host>>

HandlerRecord == [call : {"none", "preload", "launch", "setBreakpoints"},
                  file : Files \cup {None}, todo : Seq(BpLines), id : Nat]
NoHandler == [call |-> "none", file |-> None, todo |-> <<>>, id |-> 0]
Await(t, call, f, todo, id) ==
  handler' = [handler EXCEPT ![t] = [call |-> call, file |-> f, todo |-> todo, id |-> id]]
\* The handler ends with an answer to a number; nobody asked for a preload, number 0.
Answer(t, id) == /\ handler' = [handler EXCEPT ![t] = NoHandler]
                 /\ pending' = pending \ {id}

Awaits(t)  == handler[t].call # "none"
\* Handlers are alike: a request takes one of the free places, whichever.
Takes(t)   == ~Awaits(t) /\ t = CHOOSE u \in Tasks : ~Awaits(u)
\* The call a handler awaits is over, or it has not made its next one.
Resumes(t) == Awaits(t) /\ tasks[t] = NoTask
Drained    == Idle /\ ~Promised /\ \A t \in Tasks : ~Resumes(t)

HostInit ==
  /\ Init
  /\ phase = "opening"
  /\ handler = [t \in Tasks |-> NoHandler]
  /\ immediates = <<>> /\ chunk = FALSE
  /\ wanted = [f \in Files |-> <<>>]
  /\ requests = 0 /\ pending = {}

-----------------------------------------------------------------------------
(* The connection.                                                          *)

\* A server's program is started before any line is read.
Preload(t, f, entry) ==
  /\ Takes(t) /\ phase = "opening" /\ phase' = "preloading"
  /\ Start(t, f, entry) /\ Await(t, "preload", f, <<>>, 0)
  /\ UNCHANGED <<immediates, chunk, wanted, requests, pending>>

Serve ==
  /\ phase = "opening" /\ phase' = "serving"
  /\ UNCHANGED <<vars, handler, immediates, chunk, wanted, requests, pending>>

\* A line is read.
Line == /\ phase = "serving" /\ Idle
        /\ chunk \/ ~Promised
        /\ \A t \in Tasks : ~Resumes(t)
        /\ requests < MaxRequests /\ requests' = requests + 1
        /\ chunk' = TRUE

Disconnect ==
  /\ Line /\ phase' = "closed"
  /\ UNCHANGED <<vars, handler, immediates, wanted, pending>>

-----------------------------------------------------------------------------
(* Requests that await the engine.                                          *)

Launch(t, f, entry) ==
  /\ Line /\ Takes(t)
  /\ Start(t, f, entry) /\ Await(t, "launch", f, <<>>, requests')
  /\ pending' = pending \cup {requests'}
  /\ UNCHANGED <<phase, immediates, wanted>>

Free(f) == \A t \in Tasks : handler[t].call = "setBreakpoints" => handler[t].file # f

\* Fault: an empty set leaves the file alone.
SetBreakpointsSome(t, f, set) ==
  /\ Line /\ Takes(t) /\ (Waits => Free(f))
  /\ IF set = <<>> THEN UNCHANGED vars ELSE ClearBreakpoints(f)
  /\ Await(t, "setBreakpoints", f, set, requests')
  /\ pending' = pending \cup {requests'}
  /\ wanted' = [wanted EXCEPT ![f] = set]
  /\ UNCHANGED <<phase, immediates>>

\* clear then re-add
SetBreakpoints(t, f, set) ==
  /\ Line /\ Takes(t) /\ (Waits => Free(f))
  /\ ClearBreakpoints(f)
  /\ Await(t, "setBreakpoints", f, set, requests')
  /\ pending' = pending \cup {requests'}
  /\ wanted' = [wanted EXCEPT ![f] = set]
  /\ UNCHANGED <<phase, immediates>>

\* The next line of a set, awaited like the one before.
AddBreakpoint(t) ==
  /\ Resumes(t) /\ handler[t].todo # <<>>
  /\ SetBreakPoint(t, handler[t].file, Head(handler[t].todo))
  /\ Await(t, handler[t].call, handler[t].file, Tail(handler[t].todo), handler[t].id)
  /\ UNCHANGED <<phase, immediates, chunk, wanted, requests, pending>>

\* Fault: the number is looked up when the answer is written.
DoneAsLast(t) ==
  /\ Idle /\ Resumes(t) /\ handler[t].todo = <<>>
  /\ Answer(t, requests)
  /\ phase' = IF handler[t].call = "preload" THEN "serving" ELSE phase
  /\ UNCHANGED <<vars, immediates, chunk, wanted, requests>>

\* The answer; once the preload is done, lines are read.
Done(t) ==
  /\ Idle /\ Resumes(t) /\ handler[t].todo = <<>>
  /\ Answer(t, handler[t].id)
  /\ phase' = IF handler[t].call = "preload" THEN "serving" ELSE phase
  /\ UNCHANGED <<vars, immediates, chunk, wanted, requests>>

\* A read that fails: the request is answered as number -1, which no call of the
\* client has; a preload that fails is nobody's, and ends the process.
Reject(t) ==
  /\ Drained /\ ReadFail(t) /\ Answer(t, -1)
  /\ phase' = IF handler[t].call = "preload" THEN "crashed" ELSE phase
  /\ wanted' = IF handler[t].call = "setBreakpoints"
               THEN [wanted EXCEPT ![handler[t].file] = None] ELSE wanted
  /\ chunk' = FALSE
  /\ UNCHANGED <<immediates, requests>>

-----------------------------------------------------------------------------
(* Requests that do not.                                                    *)

\* Answered at once; the run begins when the lines of the chunk are done.
ContinueRequest(reverse) ==
  /\ Line /\ immediates' = Append(immediates, reverse)
  /\ UNCHANGED <<vars, phase, handler, wanted, pending>>

Immediate ==
  /\ Drained /\ immediates # <<>>
  /\ Continue(Head(immediates)) /\ immediates' = Tail(immediates)
  /\ chunk' = FALSE
  /\ UNCHANGED <<phase, handler, wanted, requests, pending>>

\* attach with stopOnAttach, and pause.
PauseRequest == Line /\ Pause
Move == \/ \E reverse \in Directions : Step(reverse)
        \/ StepIn \/ StepOut \/ \E c \in Targets : StepInTarget(c)
Settings ==
  \/ \E n \in Edits : \/ SetVariable(n)
                      \/ \E kinds \in SUBSET {"read", "write"} \ {{}} :
                           SetDataBreakpoint(n, kinds)
  \/ ClearAllDataBreakpoints
  \/ \E x \in Filters : SetExceptionsFilters(x)
  \/ \E a \in Addresses : SetInstructionBreakpoint(a)
  \/ ClearInstructionBreakpoints

AtOnce ==
  /\ PauseRequest \/ (Line /\ Move) \/ (Line /\ Settings)
  /\ UNCHANGED <<phase, handler, immediates, wanted, pending>>

\* The requests that read the engine, and those it does not know.
View == Line /\ UNCHANGED <<vars, phase, handler, immediates, wanted, pending>>

-----------------------------------------------------------------------------
(* The event loop.                                                          *)

\* What a piece of code does until it returns.
OnStack == /\ RunStep \/ VerifyOne \/ Verified
           /\ UNCHANGED host

\* A handler that has just read its line goes on to its first await before that.
Resume(t) ==
  /\ chunk => \A u \in Tasks : ~Resumes(u)
  /\ AfterLoad(t) \/ Verify(t) \/ FinishStart(t)
  /\ chunk' = FALSE
  /\ UNCHANGED <<phase, handler, immediates, wanted, requests, pending>>

\* A file has been read.
Read(t) ==
  /\ Drained /\ ReadDone(t) /\ chunk' = FALSE
  /\ UNCHANGED <<phase, handler, immediates, wanted, requests, pending>>

\* mapRuntimeEvents writes what the engine emits.
Write ==
  /\ Drained /\ Deliver /\ chunk' = FALSE
  /\ UNCHANGED <<phase, handler, immediates, wanted, requests, pending>>

Request ==
  \/ \E t \in Tasks : \/ \E f \in Programs, entry \in BOOLEAN : Launch(t, f, entry)
                      \/ \E f \in BpFiles, set \in LineLists : SetBreakpoints(t, f, set)
  \/ \E reverse \in Directions : ContinueRequest(reverse)
  \/ AtOnce \/ View \/ Disconnect

TaskTurn(t) == AddBreakpoint(t) \/ Done(t) \/ Reject(t) \/ Resume(t) \/ Read(t)

HostNext ==
  \/ (\E t \in Tasks, f \in Programs \ {None}, entry \in BOOLEAN : Preload(t, f, entry))
  \/ Serve \/ Request
  \/ OnStack \/ (\E t \in Tasks : TaskTurn(t)) \/ Immediate \/ Write

HostSpec == HostInit /\ [][HostNext]_all
\* Node takes its queues in turn, and every file is read or found missing.
HostFairSpec ==
  /\ HostSpec
  /\ WF_all(OnStack) /\ SF_all(Immediate) /\ SF_all(Write)
  /\ \A t \in Tasks : SF_all(TaskTurn(t))

-----------------------------------------------------------------------------
(* Properties.                                                              *)

LinesOf(f) == [i \in DOMAIN breakPoints[f] |-> breakpoint[breakPoints[f][i]].line]

\* setBreakpoints replaces existing breakpoints for a path (mock-ts/README.md:19):
\* once it has been answered, the file has the lines that were asked for, in
\* order, whatever sets of other files and launches were handled between its awaits.
BreakpointsReplaced ==
  \A f \in Files : Free(f) /\ wanted[f] # None => LinesOf(f) = wanted[f]

\* A launch or setBreakpoints of a file that can be read is answered, by the number
\* the client knows it by (PROTOCOL.md, `id`), whatever requests come and whatever
\* reads fail between its awaits.  One whose file cannot be read is not: its answer
\* has the number -1 (cli.ts:198), and the call of the client goes on waiting.
Answered ==
  \A n \in 1 .. MaxRequests :
    (\E t \in Tasks : handler[t].id = n /\ handler[t].file \notin Flaky \cup {None})
      ~> n \notin pending
=============================================================================
