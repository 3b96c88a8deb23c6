---------------------------- MODULE DebugSession ----------------------------
(***************************************************************************)
(* How the session of mockDebug.ts brings a runtime up: the client's         *)
(* breakpoints and exception filters, kept in _bpCache and                   *)
(* _exceptionFilterCache, and the launch or attach that replaces the runtime *)
(* and applies them to the new one.                                         *)
(*                                                                          *)
(* A handler is one request whose answer takes an await.  What a handler     *)
(* does after a promise that was settled without input or output runs       *)
(* before anything else (Prompt); other awaits let everything in between.    *)
(* A runtime in a child process or behind a socket serves its requests one  *)
(* by one, as mock-go and mock-csharp do, so what was sent is what it will  *)
(* have.  (mock-ts does not: see TsHostSets.)                               *)
(***************************************************************************)
EXTENDS Integers, SequencesExt

CONSTANTS Files, Lines,   \* whose breakpoints the client sets; lines are left
                          \* where they are by the runtime's verification
          LineSets,       \* arguments of setBreakpoints
          Program,        \* what launch starts
          Filters,        \* arguments of setExceptionBreakpoints
          Kinds,          \* of runtime: launched inprocess or as a child, attached
          Handlers,       \* a bound on the requests under way
          Waits,          \* the client waits for an answer before it sets the
                          \* breakpoints of the same file again
          MaxRequests,    \* bound on the requests of a session
          None

AllKinds == {"inprocess", "child", "socket"}
\* A socket that is not there throws when it is written to; one that is connecting
\* keeps what is written for later; what is written to a lost one is gone.
Wires == {"absent", "connecting", "up", "lost"}

SessionAssumption ==
  /\ LineSets \subseteq SUBSET Lines
  /\ Program \in Files /\ Kinds \subseteq AllKinds /\ MaxRequests \in Nat
  /\ Waits \in BOOLEAN
  /\ None \notin Files /\ None \notin Filters /\ None \notin AllKinds
ASSUME SessionAssumption

VARIABLES
  bound,               \* _runtime: its kind, and what becomes of what is written
  named, text,         \* in process: _sourceFile, and the file sourceLines is of
  lines, filters,      \* the breakpoints and filters the runtime has
  bpCache, bpOrder,    \* _bpCache: the lines by file, and the order of its keys
  filterCache,
  handler,             \* where each request is
  launched,            \* the kind asked for
  started,             \* the program runs
  unanswered,          \* requests that will never be answered
  wantedLines, wantedFilters,   \* what the client asked for last
  requests

runtime == <<bound, named, text, lines, filters>>
caches  == <<bpCache, bpOrder, filterCache>>
client  == <<launched, wantedLines, wantedFilters, requests>>
vars    == <<runtime, caches, handler, started, unanswered, client>>

-----------------------------------------------------------------------------
Calls  == {"launch", "attach", "setBreakpoints"}
\* Stages at a promise that is settled, and at one that something settles later.
Prompt == {"rebind", "visit", "push", "begin", "run"}
Slow   == {"configuring", "loading", "outdated", "sent", "starting", "opening", "launching",
           "connecting", "attaching", "reading"}

\* A request, its stage, the file it is at, the lines it has still to set, and how
\* many keys of _bpCache it has visited.
HandlerRecord == [call : Calls, at : {"idle"} \cup Prompt \cup Slow,
                  file : Files, todo : SUBSET Lines, visited : Nat]
Idle == [call |-> "launch", at |-> "idle", file |-> Program, todo |-> {}, visited |-> 0]

Busy(h)  == handler[h].at # "idle"
Turn(h, at) == /\ handler[h].at = at
               /\ at \in Slow => \A i \in Handlers : handler[i].at \notin Prompt
Go(h, at) == handler' = [handler EXCEPT ![h].at = at]
Answer(h) == handler' = [handler EXCEPT ![h] = Idle]

\* The same handlers under another runtime: a read goes on for the old one.
Rebound(hs) == [i \in Handlers |-> IF hs[i].at = "loading"
                                   THEN [hs[i] EXCEPT !.at = "outdated"] ELSE hs[i]]

Proxied == bound.kind # "inprocess"
NewRuntime(kind, wire) ==
  /\ bound' = [kind |-> kind, wire |-> wire]
  /\ named' = None /\ text' = None
  /\ lines' = [f \in Files |-> {}]

Init ==
  /\ bound = [kind |-> "inprocess", wire |-> "up"]
  /\ named = None /\ text = None
  /\ lines = [f \in Files |-> {}] /\ filters = None
  /\ bpCache = [f \in Files |-> {}] /\ bpOrder = <<>> /\ filterCache = None
  /\ handler = [h \in Handlers |-> Idle]
  /\ launched = None /\ started = FALSE /\ unanswered = {}
  /\ wantedLines = [f \in Files |-> {}] /\ wantedFilters = None /\ requests = 0

\* The client sends a request when no code is waiting to run.
Ask == /\ \A h \in Handlers : handler[h].at \notin Prompt
       /\ requests < MaxRequests /\ requests' = requests + 1

-----------------------------------------------------------------------------
(* setBreakPointsRequest and setExceptionBreakPointsRequest.                *)

Setting(f) == \E h \in Handlers : Busy(h) /\ handler[h].call = "setBreakpoints"
                                          /\ handler[h].file = f

\* Fault: only the first set of a file is cached.
SetBreakPointsOnce(h, f, set) ==
  /\ Ask /\ ~Busy(h) /\ (Waits => ~Setting(f))
  /\ bpCache' = IF f \in ToSet(bpOrder) THEN bpCache ELSE [bpCache EXCEPT ![f] = set]
  /\ bpOrder' = IF f \in ToSet(bpOrder) THEN bpOrder ELSE Append(bpOrder, f)
  /\ handler' = [handler EXCEPT ![h] = [Idle EXCEPT !.call = "setBreakpoints", !.at = "reading",
                                                    !.file = f, !.todo = set]]
  /\ wantedLines' = [wantedLines EXCEPT ![f] = set]
  /\ UNCHANGED <<runtime, filterCache, launched, wantedFilters, started, unanswered>>

\* The set is cached, and the file read to see which lines have text.
SetBreakPointsRequest(h, f, set) ==
  /\ Ask /\ ~Busy(h) /\ (Waits => ~Setting(f))
  /\ bpCache' = [bpCache EXCEPT ![f] = set]
  /\ bpOrder' = IF f \in ToSet(bpOrder) THEN bpOrder ELSE Append(bpOrder, f)
  /\ handler' = [handler EXCEPT ![h] = [Idle EXCEPT !.call = "setBreakpoints", !.at = "reading",
                                                    !.file = f, !.todo = set]]
  /\ wantedLines' = [wantedLines EXCEPT ![f] = set]
  /\ UNCHANGED <<runtime, filterCache, launched, wantedFilters, started, unanswered>>

\* setBreakpointsBulk, or clearBreakpoints and setBreakPoint for every line at
\* once, on the runtime there is by then.  A request that throws is not answered.
ReadDone(h) ==
  /\ Turn(h, "reading")
  /\ LET f == handler[h].file
     IN IF bound.wire = "absent"
        THEN /\ Answer(h) /\ unanswered' = unanswered \cup {"setBreakpoints"}
             /\ UNCHANGED <<lines, named>>
        ELSE /\ lines' = [lines EXCEPT ![f] = handler[h].todo]
             /\ UNCHANGED unanswered
             /\ IF Proxied THEN Go(h, "sent") /\ UNCHANGED named
                ELSE IF handler[h].todo = {} \/ named = f THEN Answer(h) /\ UNCHANGED named
                ELSE Go(h, "loading") /\ named' = f
  /\ UNCHANGED <<bound, text, filters, caches, started, client>>

SetExceptionBreakPointsRequest(x) ==
  /\ Ask
  /\ filterCache' = x /\ wantedFilters' = x
  /\ IF bound.wire = "absent"
     THEN unanswered' = unanswered \cup {"setExceptionBreakpoints"} /\ UNCHANGED filters
     ELSE filters' = x /\ UNCHANGED unanswered
  /\ UNCHANGED <<bound, named, text, lines, bpCache, bpOrder, handler, launched,
                 wantedLines, started>>

-----------------------------------------------------------------------------
(* launchRequest.                                                           *)

LaunchRequest(h, kind) ==
  /\ Ask /\ ~Busy(h) /\ launched = None /\ kind # "socket"
  /\ launched' = kind
  /\ handler' = [handler EXCEPT ![h] = [Idle EXCEPT !.at = "configuring"]]
  /\ UNCHANGED <<runtime, caches, wantedLines, wantedFilters, started, unanswered>>

\* A notification nobody waits for is lost.
ConfigurationDoneRequest ==
  /\ Ask
  /\ handler' = [h \in Handlers |-> IF handler[h].at = "configuring"
                                    THEN [handler[h] EXCEPT !.at = "rebind"] ELSE handler[h]]
  /\ UNCHANGED <<runtime, caches, launched, wantedLines, wantedFilters, started, unanswered>>

\* Fault: the wait has no limit.
TimeoutNever(h) == FALSE

\* After a second launch goes on all the same.
Timeout(h) ==
  /\ Turn(h, "configuring") /\ Go(h, "rebind")
  /\ UNCHANGED <<runtime, caches, started, unanswered, client>>

\* Fault: the new runtime does not get the filters.
RebindBare(h) ==
  /\ Turn(h, "rebind")
  /\ NewRuntime(launched, "up") /\ filters' = None
  /\ handler' = Rebound([handler EXCEPT ![h].at = "visit"])
  /\ UNCHANGED <<caches, started, unanswered, client>>

Rebind(h) ==
  /\ Turn(h, "rebind")
  /\ NewRuntime(launched, "up") /\ filters' = filterCache
  /\ handler' = Rebound([handler EXCEPT ![h].at = "visit"])
  /\ UNCHANGED <<caches, started, unanswered, client>>

\* Fault: the last key is left out.
VisitShort(h) ==
  /\ Turn(h, "visit")
  /\ IF handler[h].visited + 1 >= Len(bpOrder)
     THEN /\ IF handler[h].call = "launch" THEN Go(h, "begin") ELSE Answer(h)
          /\ UNCHANGED lines
     ELSE LET f == bpOrder[handler[h].visited + 1]
          IN /\ lines' = [lines EXCEPT ![f] = IF Proxied THEN bpCache[f] ELSE {}]
             /\ handler' = [handler EXCEPT ![h] =
                  [@ EXCEPT !.visited = handler[h].visited + 1, !.file = f,
                            !.todo = IF Proxied THEN {} ELSE bpCache[f],
                            !.at = IF Proxied THEN "sent" ELSE "push"]]
  /\ UNCHANGED <<bound, named, text, filters, caches, started, unanswered, client>>

\* The next key of _bpCache; keys added meanwhile come last.
Visit(h) ==
  /\ Turn(h, "visit")
  /\ IF handler[h].visited >= Len(bpOrder)
     THEN /\ IF handler[h].call = "launch" THEN Go(h, "begin") ELSE Answer(h)
          /\ UNCHANGED lines
     ELSE LET f == bpOrder[handler[h].visited + 1]
          IN /\ lines' = [lines EXCEPT ![f] = IF Proxied THEN bpCache[f] ELSE {}]
             /\ handler' = [handler EXCEPT ![h] =
                  [@ EXCEPT !.visited = handler[h].visited + 1, !.file = f,
                            !.todo = IF Proxied THEN {} ELSE bpCache[f],
                            !.at = IF Proxied THEN "sent" ELSE "push"]]
  /\ UNCHANGED <<bound, named, text, filters, caches, started, unanswered, client>>

\* setBreakPoint, line by line, each awaited; the first of a file that is not the
\* runtime's reads it.
Push(h, l) ==
  /\ Turn(h, "push") /\ l \in handler[h].todo
  /\ LET f == handler[h].file
     IN /\ lines' = [lines EXCEPT ![f] = @ \cup {l}]
        /\ named' = f
        /\ handler' = [handler EXCEPT ![h].todo = @ \ {l},
                                      ![h].at = IF named = f THEN "push" ELSE "loading"]
  /\ UNCHANGED <<bound, text, filters, caches, started, unanswered, client>>

Pushed(h) ==
  /\ Turn(h, "push") /\ handler[h].todo = {} /\ Go(h, "visit")
  /\ UNCHANGED <<runtime, caches, started, unanswered, client>>

\* The file that was read becomes the text, whatever the runtime's file is by then.
Loaded(h) ==
  /\ \/ Turn(h, "loading") /\ text' = handler[h].file
     \/ Turn(h, "outdated") /\ UNCHANGED text
  /\ IF handler[h].call = "setBreakpoints" THEN Answer(h) ELSE Go(h, "push")
  /\ UNCHANGED <<bound, named, lines, filters, caches, started, unanswered, client>>

\* A file that is not there: what awaited it throws.
Unreadable(h) ==
  /\ \E at \in {"loading", "outdated", "opening"} : Turn(h, at)
  /\ Answer(h) /\ unanswered' = unanswered \cup {handler[h].call}
  /\ UNCHANGED <<runtime, caches, started, client>>

Sent(h) ==
  /\ Turn(h, "sent") /\ bound.wire = "up"
  /\ IF handler[h].call = "setBreakpoints" THEN Answer(h) ELSE Go(h, "visit")
  /\ UNCHANGED <<runtime, caches, started, unanswered, client>>

\* start(), of the runtime that launch has made.
Begin(h) ==
  /\ Turn(h, "begin")
  /\ IF Proxied THEN Go(h, "starting") /\ UNCHANGED named
     ELSE /\ named' = Program
          /\ IF named = Program THEN Go(h, "run") ELSE Go(h, "opening")
  /\ UNCHANGED <<bound, text, lines, filters, caches, started, unanswered, client>>

Opened(h) ==
  /\ Turn(h, "opening") /\ text' = Program /\ Go(h, "run")
  /\ UNCHANGED <<bound, named, lines, filters, caches, started, unanswered, client>>

\* Without a text the run throws, unless it stops on entry.
Run(h) ==
  /\ Turn(h, "run") /\ Answer(h)
  /\ \/ started' = TRUE /\ UNCHANGED unanswered
     \/ text = None /\ unanswered' = unanswered \cup {"launch"} /\ UNCHANGED started
  /\ UNCHANGED <<runtime, caches, client>>

SendLaunch(h) ==
  /\ Turn(h, "starting") /\ started' = TRUE /\ Go(h, "launching")
  /\ UNCHANGED <<runtime, caches, unanswered, client>>

\* A launch the runtime refuses rejects start(), and is not answered.
Launched(h) ==
  /\ Turn(h, "launching") /\ Answer(h)
  /\ unanswered' \in {unanswered, unanswered \cup {"launch"}}
  /\ UNCHANGED <<runtime, caches, started, client>>

-----------------------------------------------------------------------------
(* attachRequest.                                                           *)

\* The cached filters are sent before there is a socket: that throws, and the
\* attach is answered with an error.
AttachRequest(h) ==
  /\ Ask /\ ~Busy(h) /\ launched = None
  /\ launched' = "socket" /\ filters' = None
  /\ IF filterCache # None THEN NewRuntime("socket", "absent") /\ handler' = Rebound(handler)
     ELSE /\ NewRuntime("socket", "connecting")
          /\ handler' = Rebound([handler EXCEPT ![h] = [Idle EXCEPT !.call = "attach",
                                                                    !.at = "connecting"]])
  /\ UNCHANGED <<caches, wantedLines, wantedFilters, started, unanswered>>

Connected(h) ==
  /\ Turn(h, "connecting") /\ bound' = [bound EXCEPT !.wire = "up"] /\ Go(h, "attaching")
  /\ UNCHANGED <<named, text, lines, filters, caches, started, unanswered, client>>

\* Fault: the failure is noted, and the request never ended.
UnreachableStuck(h) ==
  /\ Turn(h, "connecting") /\ Go(h, "failed")
  /\ bound' = [bound EXCEPT !.wire = "lost"]
  /\ UNCHANGED <<named, text, lines, filters, caches, started, unanswered, client>>

Unreachable(h) ==
  /\ Turn(h, "connecting") /\ Answer(h)
  /\ bound' = [bound EXCEPT !.wire = "lost"]
  /\ UNCHANGED <<named, text, lines, filters, caches, started, unanswered, client>>

Attached(h) ==
  /\ Turn(h, "attaching") /\ Go(h, "visit")
  /\ UNCHANGED <<runtime, caches, started, unanswered, client>>

-----------------------------------------------------------------------------
Step(h) ==
  \/ ReadDone(h) \/ Loaded(h) \/ Unreadable(h) \/ Sent(h)
  \/ Timeout(h) \/ Rebind(h) \/ Visit(h) \/ Pushed(h) \/ \E l \in Lines : Push(h, l)
  \/ Begin(h) \/ Opened(h) \/ Run(h) \/ SendLaunch(h) \/ Launched(h)
  \/ Connected(h) \/ Unreachable(h) \/ Attached(h)

Request ==
  \/ \E h \in Handlers, f \in Files, set \in LineSets : SetBreakPointsRequest(h, f, set)
  \/ \E x \in Filters : SetExceptionBreakPointsRequest(x)
  \/ \E h \in Handlers, kind \in Kinds : LaunchRequest(h, kind)
  \/ "socket" \in Kinds /\ \E h \in Handlers : AttachRequest(h)
  \/ ConfigurationDoneRequest

Next == Request \/ \E h \in Handlers : Step(h)

\* Node's queues are first in, first out; reads, answers and the timer come.
Spec     == Init /\ [][Next]_vars
FairSpec == Spec /\ \A h \in Handlers : WF_vars(Step(h))

-----------------------------------------------------------------------------
(* Properties.                                                              *)

\* Every variable has its type.
TypeOK ==
  /\ bound \in [kind : AllKinds, wire : Wires]
  /\ named \in Files \cup {None} /\ text \in Files \cup {None}
  /\ lines \in [Files -> SUBSET Lines] /\ filters \in Filters \cup {None}
  /\ bpCache \in [Files -> SUBSET Lines] /\ bpOrder \in Seq(Files)
  /\ filterCache \in Filters \cup {None}
  /\ handler \in [Handlers -> HandlerRecord]
  /\ launched \in AllKinds \cup {None}
  /\ started \in BOOLEAN
  /\ unanswered \in SUBSET {"launch", "setBreakpoints", "setExceptionBreakpoints"}
  /\ wantedLines \in [Files -> SUBSET Lines] /\ wantedFilters \in Filters \cup {None}
  /\ requests \in Nat

Has(f) == /\ wantedLines[f] \subseteq lines[f]
          /\ Proxied => lines[f] = wantedLines[f]

\* The caches are there so that a new runtime gets what the old one had
\* (mockDebug.ts:83): when no request is under way and the launch has not thrown, the
\* runtime in use has every breakpoint the client asked for last, however launch,
\* attach and the client's changes overlapped; and one behind a pipe or socket has
\* no others.  This needs a client that waits: of two sets of one file the one
\* whose file is read last is applied last (mockDebug.ts:400).
BreakpointsReach ==
  bound.wire = "up" /\ "launch" \notin unanswered /\ (\A h \in Handlers : ~Busy(h))
    => \A f \in Files : Has(f)

\* A runtime that can be written to never works with other filters than the last the
\* client set (mockDebug.ts:80), except until the rebinding of a launch.
FiltersReach ==
  bound.wire # "absent" /\ wantedFilters # None => filters = wantedFilters

\* A program does not start before the breakpoints of every answered request and
\* the filters are in place (mockDebug.ts:352 and 357).
StartedConfigured ==
  [][started' # started =>
       /\ \A f \in Files : Setting(f) \/ Has(f)
       /\ wantedFilters # None => filters = wantedFilters]_vars

\* Every handler comes to its end, whether or not the client ever ends its
\* configuration, unless the connection it waits on fails.
HandlersEnd == \A h \in Handlers : Busy(h) ~> ~Busy(h) \/ bound.wire = "lost"

\* Attach applies the cached filters (mockDebug.ts:316), as launch does, to any
\* runtime it reaches.
FiltersReattached ==
  launched = "socket" /\ bound.wire # "lost" /\ wantedFilters # None
    => filters = wantedFilters
=============================================================================
