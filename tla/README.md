# A TLA+ model of the mock debuggers

This directory holds a specification of the programs in this repository: a VS Code
debug adapter (`vscode-mock-debug`) and the runtimes it can drive (`mock-ts`,
`mock-go`, `mock-csharp`), which "run" a text file line by line and speak the
JSON-over-lines protocol of `PROTOCOL.md`.  Modules are checked with TLC on small
instances; the files ending in `Proofs` hold theorems checked by TLAPS.

## The system

| Part | State it keeps | Operations | What is hard about it |
| --- | --- | --- | --- |
| TypeScript engine, `mock-ts/src/runtime.ts` | text and its words, current line, column and instruction, declared variables, breakpoints of four kinds, filters | start, continue, step, stepIn/Out, pause, set and clear breakpoints | `start` and `setBreakPoint` give the thread up while a file is read; events leave later than answers; two directions over blank lines |
| TypeScript host, `mock-ts/src/cli.ts` | the locals of handlers that await | one handler per command | a handler's awaits let the next request in; a preload or a read may fail |
| Go engine and host, `mock-go` | as the TypeScript engine, and `paused` | the same commands | `continue` runs in a goroutine beside the handler, with no lock |
| C# engine and host, `mock-csharp` | as the Go engine | the same commands | `continue` yields to other handlers; a server reuses one engine |
| Proxy, `runtimes/baseRuntime.ts`, `stdioRuntime.ts`, `socketRuntime.ts` | request counter, pending calls, variable cache and pending edits, breakpoint cache, current line | start, run commands, variables, breakpoints, the dispatch of events | every answer resumes a caller later, among newer events; the child process may die |
| Debug session, `mockDebug.ts` | cached breakpoints and filters, the runtime in use, variable handles, cancellation | the DAP requests | a request awaits between reading the cache and using it; the runtime is replaced at launch |
| In-process runtime, `mockRuntime.ts` | as the TypeScript engine; each variable's value, memory and reference | the same, called directly, and stepping by instruction | as the TypeScript engine; verification moves breakpoints, a load keeps the line of the text before |
| Activation and entry points | none | registration | glue to VS Code |

The session calls a runtime through one interface.  The in-process runtime is called
directly; the others run behind a proxy, which writes requests into the child's stdin
(or a socket) and reads responses and events from its stdout.  The session only ever
learns of stops through events, which the proxy passes on after it has refreshed its
copy of the variables.

### What makes each part correct

* Engine: no breakpoint in the way of a run is passed; every run ends; every command
  is followed by exactly one notice of where the program is; the line, the
  instruction and the text belong together although texts are loaded while calls
  overlap; breakpoints on lines with text get verified and stay so.
* Host: one request's work is not mixed with another's; a launch or a set of
  breakpoints whose file can be read is answered by its own number, whatever fails beside it.
* Proxy: every answer reaches the call that asked; stops are passed on once each and in
  order; what the session reads of variables and breakpoints is what the runtime has
  once nothing is under way; the session is told of every stop or of the end.
* Session: a new runtime gets the configuration the client has set last; every handler
  comes to its end; what the client set a variable to stays, whichever way it was set; only
  what was cancelled is cut short.
* In-process runtime: as the engine, and the file under debug is the launched one, a
  verified breakpoint stays where the client was shown it.

## Modules

| Module | Models | |
| --- | --- | --- |
| `MockSource` | the text all engines run, reduced to what they tell apart about a line | constants and operators |
| `TsEngine` | class `MockRuntime` of `mock-ts/src/runtime.ts` | state machine |
| `TsHost` | `handleConnection` of `mock-ts/src/cli.ts` over `TsEngine` | state machine |
| `RunControl` | what an engine promises to whoever issues commands | abstract specification |
| `RuntimeProxy` | `RuntimeBase` over `StdioRuntimeProxy`, the client above it and a runtime at the other end of the pipes | state machine |
| `GoRuntime` | the engine and host of `mock-go`: goroutines, handler, and the client they talk to | state machine |
| `DebugSession` | the handlers of `mockDebug.ts` that configure a runtime, with the client above and any kind of runtime below | state machine |
| `InProcess` | class `MockRuntime` of `vscode-mock-debug/src/mockRuntime.ts` over what it shares with `TsEngine`, under the requests of the session | state machine |
| `SessionViews` | variables, evaluate, memory, progress and cancellation of `mockDebug.ts` | state machine |
| `MCTsEngine`, `MCTsHost`, `MCRuntimeProxy`, `MCGoRuntime`, `MCDebugSession`, `MCInProcess`, `MCSessionViews` | values for TLC | |
| `MockSourceProofs`, `TsEngineProofs`, `TsHostProofs`, `RuntimeProxyProofs`, `GoRuntimeProofs`, `DebugSessionProofs`, `InProcessProofs`, `SessionViewsProofs` | theorems | |

Definitions commented "Fault:" are mutated forms of the one that follows.  No behaviour
uses them; putting one in the place of its original shows which property notices.

### TsEngine

The variables are the fields of the class.  JavaScript runs one piece of code at a time,
so the loops of `continue`, `step` and `verifyBreakpoints` are spelled out with the
program counters `run` and `verifying`, and nothing else moves while either is set.
`start` and `setBreakPoint` are asynchronous: each call in progress is an element of
`Tasks`, whose stage says what it awaits.  A promise that is settled is resumed before
any new input is handled (`Promised`), a file is read in any time (`ReadDone`,
`ReadFail`).  `events` holds what `sendEvent` has scheduled and not yet emitted.

One line of `executeLine` is one step of the model, split by how it ends: an instruction
breakpoint, a data breakpoint, an exception, or the end of the line; `updateCurrentLine`
and `findNextStatement` are steps of their own, so that a run is visible line by line.

`RunControl` knows only who is moving: a command in progress, and the notices that have
been given.  `OneNoticePerCommand` states that the engine implements it, with the
refinement mapping at the end of `TsEngine`.

### TsHost

`TsEngine` lets anyone call the engine at any time.  `TsHost` keeps its variables and its
actions and decides who calls: each action of the host is one action of the engine, or
leaves the engine alone, joined with what the handler does before or after it.  So every
run of the host is a run of the engine (`HostImplements`), and what is proved of the engine
under every caller holds here.

`handler[t]` is the request that awaits the engine call `t`: the preload of a server, a
launch, or a set of breakpoints with the lines it has still to add.  All other requests are
over at once, except that `continue` leaves its run to `setImmediate` (`immediates`).  Node's
order is kept where it decides what a client sees: the lines of one chunk are read one
after another (`chunk`), promises that are settled resume before the next file, timer,
immediate or chunk has its turn (`Drained`).  A launch or a set whose file cannot be read is
answered as number -1 (`Reject`); a preload that fails is an unhandled rejection and ends
the process (`phase`).  Handlers are alike, so a request takes a fixed one of the free places
(`Takes`), which keeps the states that differ by names alone from being counted twice.

A handler keeps the number of its request (`id`), and `pending` has the numbers of the launches and
sets whose answer the client waits for, which is what the table of calls of
`runtimes/baseRuntime.ts` holds.  `Answered` says that a number whose file can be read leaves it.  A request
whose file cannot be read never does: its answer is to number -1 (`cli.ts:198`), where
`PROTOCOL.md:46` asks for a failed response.

`wanted` records the set of each file that was asked for last.  With `Waits` the client
waits for the answer to a set before it sets the same file again.

### RuntimeProxy

`pending` maps the id of a request to the call that waits and to what its caller does
next (`then`).  The two pipes are sequences.  `onStdout` calls `onLine` for every line of a
chunk before any promise it settled resumes its caller: `chunk` is the rest of that
loop, of any length, and `ready` the callers to resume, in order.  The runtime at the other
end serves its requests one by one, as both `mock-go` and `mock-csharp` read them, and
the program it runs may assign variables, stop and end beside it.  Whether `stopped`
events carry a line is a choice of the initial state, since `PROTOCOL.md` leaves it open;
without one the proxy asks for the stack.  The client runs and edits only what it saw
stop; with `Patient` it edits nothing while a refresh is under way.

### GoRuntime

`handleConn` serves requests one by one and starts every `continue` in a goroutine of its
own; nothing locks the engine.  A thread is a goroutine or the handler itself (`Main`),
which steps through `next`.  `thread` holds the program counter of each and the line it has
read into `ln`.  A step is a stretch of code that touches the engine in one place: a
word of a line, the end of a line, the test and the store of `currentLine++` (which may
use the value it tested or read the field again, as the compiler sees fit), one line of the
scan of `findNextStatement`.  `SetBreakpoints` empties the list of a file and appends one
breakpoint at a time (`adding`).  Where two threads use one map and one of them writes it,
Go's runtime may end the process (`MapClash`); indexing a line that is not there does so
surely (`Panic`).

A session is a launch over stdio or an attach to a server that may have a program loaded
and running.  The client has one request on its way; it acts on what it was last told
(`client`), and with `Patient` only when everything is quiet and never to pause.  `disconnect`
ends what there is to see.  Two clients of one server each have an engine of their own and
share only the process: that a crash ends both is not modelled.

### DebugSession

Each element of `Handlers` is a request whose answer takes an await: `setBreakPointsRequest`
while it reads the file, `launchRequest` and `attachRequest` through all their awaits.  `at`
names the await a handler is at.  Some promises are settled already (`Prompt`: the
notification that configuration is done, `setBreakPoint` for a file that is loaded, a loop's
next turn); Node resumes those before it handles new input, so while one waits no request
arrives.  The others (`Slow`: a file, the child's answer, the socket, the timer of one second)
let any request and any other handler in between.

`bound` is `_runtime`: its kind, and what becomes of a write (`Wires`): a socket that does not
exist throws, one that is connecting keeps the write for later, one that failed swallows it.
In process, `setBreakPoint` is called line by line and reads the file when it is not the one
`named` last; a read that was begun for a runtime that has since been replaced changes
nothing (`outdated`).  Behind a pipe the whole set is sent at once, and requests are served in
the order they were written; the answer only lets the handler go on.

`wantedLines` and `wantedFilters` record what the client asked for last, and `unanswered`
the requests whose handler threw.  With `Waits` the client waits for the answer to
`setBreakpoints` before it sets the same file again; everything else overlaps.  That is an assumption:
neither the adapter nor the protocol of VS Code enforces it, and without it
`BreakpointsReach` and `StartedConfigured` are false, since the set whose file is read last is
applied last (`mockDebug.ts:400`).  Lines stay where the
client put them: that verification in process moves a breakpoint off a blank line is left out.
A child that was spawned stays alive.  A runtime behind a pipe is taken to serve its requests
one by one; `mock-ts` does not, and what it makes of two sets of one file is in `TsHostSets`.

### InProcess

The engine of `mock-ts` was made from the in-process one, and the model says so: `InProcess`
extends `TsEngine`, takes over the actions the two share, and defines those that differ.  A
load keeps the line and the instruction of the text before (`InitializeContents`), so that the
program can be on a line its text does not have; verification moves a breakpoint off a
blank or `+` line, down, and off a `-` line, up, by the text that is loaded at that moment
(`Pass`, `MoveAndVerify`), and throws above the first line (`VerifyThrows`); a `lazy` one is
verified by the run that meets it; the entry is searched for (`FindEntry`); and
stepping by instruction moves the pointer and nothing else.  `Plus`, `Minus` and `Lazy` are
the lines marked so.

The caller is the session.  `Launcher` is the task of `launchRequest`: it sets the cached
breakpoints one after another (`Reapply`) and starts the program; afterwards every request of
the client is a call.  `EvaluateNew` and `EvaluateDel` are the console's `new` and `del`, which
go past the session's cache.  `strayed` records that the client changed breakpoints too early,
or in another file, which `OneFileDebugged` excludes.

### SessionViews

A variable is an object (`object`), to which the program binds its name (`bound`) anew at each
assignment; a client's edit changes the object it finds, by name, through a reference it
was given (`held`) or byte by byte in its memory.  `memory` and `copy` are what the object
keeps beside its value: the encoded string, and what the placeholder of a lazy variable opens.
Strings are functions from positions to letters, of one length; writing a byte that is no
character makes `Decode` show a replacement.  Edits of another length are left out, and the
write longer than the memory, which throws.

`fetch` and `progress` are the two requests that take seconds: fetching globals one by one, and
a sequence of progress updates.  `tokens` and `cancelled` are the table of
cancellation tokens, `cancelledProgressId` its one-place counterpart for progress.  `edited` and
`asked` record what the client set and cancelled.  The two halves share no variable but
are one session; `MCSessionViews` lets one half move at a time, since their interleavings
add nothing: no action of one reads what the other writes.

## Runs

| Configuration | Question | Bounds |
| --- | --- | --- |
| `TsEngineRun` | What does a run pass, where is its instruction, what do loading and verifying leave behind? | two files of three and two lines with blank ones, a written variable and an exception, one breakpoint in either file, one instruction breakpoint, both directions, one call at a time, a launch that names no program |
| `TsHost` | What if handlers overlap at every await? Does a set replace the one before, and is a request answered by its own number although another fails? | two handlers at a time, three requests and a preload, two files of two lines with a blank one, one of which may not be readable, sets of no and of two lines, forward |
| `ProxyCache` | Do notices keep their order and the cache its truth? | one name, two values, one edit, seven requests |
| `ProxyWire` | Does every answer reach its call? Do the breakpoints agree? Is the client told of every stop and of the end? | six requests; stops without a line, launch may be refused, the runtime may die |
| `GoRun` | Is there one run at a time, where does it stop, does each step bring it nearer its end, does the process live? | a text of two lines with a blank one between them and an empty last one, two goroutines, seven requests of fourteen kinds, both directions |
| `GoPause` | Does a client that pauses at any moment get told, and do runs end? | two lines, two goroutines, three requests, forward |
| `Session` | Does a new runtime get what the client asked for last, before its program starts? Does every handler end? | two files, two lines, one filter, two handlers, five requests, all three kinds of runtime, a client that waits for one set of a file before the next |
| `InProcess` | What do overlapping sets, the console and a launch make of the breakpoints, and do runs end, each with one stop? | two files of four and two lines, marks that move breakpoints down and up, one of them lazy, one file perhaps unreadable, three overlapping calls, four requests, both directions and by instruction |
| `SessionViews` | Does an edit stay? Is only what was cancelled cut short, and does everything long end? | two variables, one of them lazy; a plain value, strings of two letters, two structures; two assignments by the program; two fetches of three globals and two progress sequences of two updates |

The bounds are large enough for what can go wrong: two lines and a blank one make every
case of the scan for the next statement, two overlapping calls every pair of awaits, and
three refreshes with an edit between them every order in which an answer can be late.  The
constants `MaxRequests`, `MaxEdits`, `MaxBreakpointId`, `MaxEvents` and `MinColumn` bound
what grows without limit; each guards the client's or the environment's choice to begin
something new and never an answer, an event or a resumed caller.
The types of `TsEngine` and the end of its runs are checked in `InProcess`, of the actions the
two share (`LocalTypeOK`, `LocalRunsEnd`), and proved of `TsEngine` itself.

Three further configurations end in a counterexample.  They show where the code does not do
what a document or comment of the repository says: `TsHostSets` (a second set of a file
that arrives before the first is answered is mixed with it), `GoCrash` (a client that attaches to a Go
server without a program and continues ends the process; so does launching an empty file)
and `SessionAttach` (cached filters are written before the socket exists, so an attach is
refused once filters have been set, whether or not the client waits).  More is in the models without a
configuration of its own: `loadSource` takes a file's name before it is read (`LoadSource`)
and does not give it back when reading fails (`ReadFail`), so a later launch of that file
starts without a text.  In `RuntimeProxy` the answer to the first of two edits of a name drops
the pending entry of the second, and a refresh in between leaves the cache older than the
runtime (`ProxyCache` has one edit).  In `TsEngine` a launch of the loaded file reports its
entry stop at the line of the last session, and a run verifies a breakpoint that
verification refused.

### Fairness

`TsHost`: code on the stack is run to completion, so its steps are weakly fair; a
settled promise, a file read, an immediate and a due timer get their turn however often other
code runs between, since Node's queues are first in, first out, so those are strongly fair;
nothing makes the client send.
`InProcess`: only code on the stack: the steps of a run and the visits of verification.
`RuntimeProxy`: Node serves the pipe, the settled promises and the child's exit; the
runtime reads its requests; the program it runs comes to a stop or to its end.  Nothing
makes the client issue a command, and nothing makes the runtime exit.
`GoRuntime`: Go's scheduler runs every goroutine, the handler reads on, and the client reads
what was written; nothing makes the client send.  `GoPause` only runs forward: two runs in
opposite directions can move the program to and fro.
`DebugSession`: the steps of one handler are weakly fair, since files are read, the child
answers, a socket connects or fails and the timer fires; nothing makes the client send, so a
launch whose configuration is never ended goes on by the timer alone.
`SessionViews`: every timer fires.

## Theorems

* `TsEngineProofs`, for every text, every set of files, calls, lines and addresses.  The
  inductive invariant joins the types with the place of the instruction on its line and
  with what a run has behind it: between the line it started from and the one it is on
  there is no breakpoint.  From it: `TypeOK`, `InstructionOnLine`, `NoBreakpointPassed`,
  and the action properties `EndMeansNoneInFront` and `StaysVerified`.  `ImplementsRunControl`
  is the refinement: every step of the engine is a step of `RunControl` or changes nothing it
  sees.  The lemmas before it map each kind of step, from what it adds to the queue (one notice
  among information, or information alone) and what it does to the set of launches.
  `RunsComeNearer` proves `RunsShrink`: with every step a run has fewer lines before it, or fewer
  stages of its line; that it ends follows as soon as its steps are taken.  `SourceSettled` and
  `VerifiedWhenSettled` are about an engine whose calls do not overlap and whose files can be read
  (`OneCall`; they are false otherwise, see below).  They speak of moments when no call is in
  progress, so the invariant (`Settled`) says what holds meanwhile: a call that reads a file reads
  the one named, a breakpoint on a line with text that is still to be verified belongs to a call that will come to it,
  or is in what the running loop has left, and an array that only a call still holds has no
  successor.
* `TsHostProofs`, for every set of files and lists of lines, any number of overlapping
  handlers.  What handlers hold is what the engine may be called with (`Asks`), which gives
  `HostImplements` and with it the engine's theorems for the host, the refinement of
  `RunControl` (`HostKeepsControl`) among them.  `SetsReplace` is about
  answered sets; the invariant (`Replacing`) says of an unanswered one that the lines added
  so far, followed by those its handler has left, are the set, and that for a client that
  waits one handler sets a file.  `OwnNumber` is the safe half of `Answered`: a handler under
  way has a number that is still pending and is no other handler's.
* `RuntimeProxyProofs`, for every client, program and number of requests.
  `AnswersMatch` is not inductive: that an answer finds its call depends on the request it
  answers having been that call's, so the invariant adds `QuestionsMatch`, the same for
  the requests on the other pipe, and that no call is on both pipes.  `NoneForgotten` needs
  it too: an answer takes exactly one call from the table.  Typing needs both, since what a
  resumed caller reads is typed by the command it was asked with.
  `BreakpointsAgree` is strengthened to `LastChange`: the last change on its way carries the
  adapter's set.  `InTurn` rests on two invariants of the order of things.  `CallsInOrder`: ids
  increase along the answers, then the requests, and along the callers to resume, so callers
  go on in the order they asked.  `Served`: every stop not yet notified is on the pipe or in
  exactly one dispatch, and dispatches are in the order of their stops; without a line in the
  event, those that already ask for the stack are ahead of those that ask for the variables.
  `CacheAgrees` (`CacheArrives`) adds `Cached`: the value of an edit that is
  not confirmed is in the cache and in what asks for it, the last stop carries the
  program's line wherever it is, a stale cache has a refresh or a stop still to come, and the last
  look at the variables saw them as they are but for what was set since.  It holds for a
  client that, besides being patient, does not set a name again before its edit was confirmed
  (`OneEditEach`): the first of two answers deletes the entry of the second edit.
  `CacheArrivesOnce` needs no such condition where there is one edit (`SingleEdit`), as in
  `ProxyCache`.
* `GoRuntimeProofs`, for every client, patient or not, every text and any number of
  goroutines.  `NeverLeftWaiting` is not inductive: a pause on its way may be dropped, so
  the invariant (`Waited`) asks for a notice, a thread, or a request that starts one; and a
  refused launch must not be taken for a running program, so it adds (`Launching`) that
  nothing is loaded while a refusal is on the wire.
  The other theorems are about a `Careful` client, the one of `GoRun`: patient, without `pause` or
  `attach`, and with programs that have a line.  Without
  these conditions runs overlap, as in `GoPause`, and the process may die (`GoCrash`).  The invariant (`Orderly`)
  says that one thread at most is in the program, that the
  client has nothing on its way that concerns it and nothing on the wire that
  would let it act, that a run is on the current line or one away from it, stage by stage, with
  no breakpoint between there and its start, and that every stop on the wire tells
  the current line.  From it: `OneRun`, `NoBreakpointPassed`, `ToldWhereItIs`, `Survives`, and
  `RunsShrink`, which counts the lines before the run, the stages of a line, and
  the words left on it or the lines left to search.
* `DebugSessionProofs`, for every set of files, lines and filters, any number of overlapping
  requests and every kind of runtime, under a client that waits (`Waits`).  `BreakpointsReach` speaks only of quiet states, so the
  invariant says what holds on the way there (`Settled`): of a file that no set still reads for
  and no loop has still to come to, every cached line is with the runtime or among the lines
  a loop has left to push.  That needs where each stage of a handler can be (`Places`), that
  there is one launch or attach and one set per file (`Alone`), that the caches hold what the
  client asked for last (`Cached`), and which runtime is bound when (`Bound`).  From it:
  `TypeOK`, `BreakpointsReach`, `FiltersReach` and the action property `StartedConfigured`.
* `InProcessProofs`, for every text, every marking of lines, any number of overlapping requests.
  The inductive invariant joins the types with what suspended calls hold, with the launched
  file being the one named or being read as long as the client has not strayed, with what a run
  has behind it, with the text the visits of verification judge by, and with the stages of the
  launch: nothing runs before the entry was found.  From it: `LocalTypeOK`, `OneFileDebugged`, the
  action properties `StaysPut` and `EndsPastAll`, and the refinement of `RunControl`
  (`OneStopPerRequest`), which takes the steps shared with the engine from `TsEngineProofs`.
  `LocalRunsComeNearer` is the engine's `RunsShrink` for its runs.
* `SessionViewsProofs`, for every set of names, values and overlapping requests.  `EditsStay`
  needs that a bound object has its name and that its memory decodes to its value;
  `OnlyAskedCutShort` that every cancelled token and the cancelled progress were asked for.
* `MockSourceProofs` holds the facts about the numbering of words the engine proofs use.

Only model-checked: the liveness properties `StopsNotified`, `ControlReturns`, `ClientTold`,
`RunsEnd`, `HandlersEnd`, `LocalRunsEnd`, `LongRequestsEnd` and `Answered`, since liveness under
fairness is beyond the prover.  What is proved towards them are the measures that shrink
(`RunsShrink`), that something is there to tell a waiting client (`NeverLeftWaiting`), that no
call and no stop is lost (`NoneForgotten`, `Served`), and that no request of the host is answered for
another (`OwnNumber`).

## Not modelled, and next

Left out for good: the pure views (stack, disassembly, step-in targets, breakpoint
locations, completions), output texts, log points, logging, VS Code's activation, the choice
of a runtime.  Left out too are the branches for answers that no runtime modelled here gives
under the number of the call: a refused `getLocalVariables` or `stackTrace` (the catches of
`baseRuntime.ts:68` and `84`), and an attach that is refused once the socket is connected.

The C# engine and host (`MockRuntime.Core`, `MockRuntime.Cli`) are not modelled: they are a third
form of the same commands, with requests handled one at a time.  What would be worth
asking of them is where they differ from the other two: the cooperative pause, the reverse
run at the first line, breakpoints looked up by the file's name when the path is not found, and a
server that reuses one engine for all its clients.

Known and not claimed by any property: a launch or a set of a file that cannot be read is never
answered by `mock-ts` under its number; a call that is under way when the child exits never
returns, and a stop notice may follow the end (`baseRuntime.ts:122`); a breakpoint may be verified by
the text of another file when two calls of `TsEngine` overlap (`runtime.ts:341`); in process,
breakpoints set from the console are dropped by the next set or launch, and a
breakpoint set in another file replaces the text under the program; data and
instruction breakpoints set before a launch go to the runtime it replaces; a write of more bytes than a string has throws and leaves
its request unanswered (`mockRuntime.ts:75`); a write to a lazy string reports that it was
written; `setVariable` of a child makes a local of that name when the runtime is external;
a filter's options are taken from the first only (`mockDebug.ts:464`); `cancelRequest` is never
answered; a `TsHost` launch answers after its first stop may have been raised; the child of
`StdioRuntimeProxy` is not spawned again after it died; the Go runtime does not implement
`RunControl`, because a `next` that meets a breakpoint and a run backwards that reaches the first line raise two
notices for one command (`engine.go:139-154`, `engine.go:291-298`); in `TsEngine` a launch that overlaps another,
or whose file could not be read, runs with a text that is not its own or with none.

Proofs to come: measures that shrink for the handlers of `DebugSession` and the long requests of
`SessionViews`, as `RunsShrink` does for runs; the breakpoints of `Session` line by line in
process, where lines of a set may be left over.
