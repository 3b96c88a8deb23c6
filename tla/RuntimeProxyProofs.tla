------------------------- MODULE RuntimeProxyProofs -------------------------
(***************************************************************************)
(* Proofs about the adapter's side of the protocol, for every program,      *)
(* every client and every number of requests on the way.                    *)
(***************************************************************************)
EXTENDS RuntimeProxy, SequenceTheorems, TLAPS

\* What may be on the pipes and among the callers to resume.
Arguments   == UNION {BOOLEAN, SUBSET Lines, Edit, {None}}
Bodies      == Locals \cup Lines \cup StopEvent \cup {None}
Requests    == {r \in [id : Nat, command : Commands, arg : Arguments] : RequestOK(r)}
Messages    == {m \in [type : {"response", "stopped", "terminated"}, id : Nat,
                       command : Commands \cup {None}, success : BOOLEAN, body : Bodies] :
                  MessageOK(m)}
Resumptions == {r \in [call : Call, answer : Messages] : ReadyOK(r)}

Pipes == /\ toRuntime \in Seq(Requests)
         /\ fromRuntime \in Seq(Messages)
         /\ ready \in Seq(Resumptions)

\* The table of calls: every id in use was given out by send.
TableType == /\ reqId \in Nat \ {0}
             /\ DOMAIN pending \subseteq 1 .. reqId - 1
             /\ \A id \in DOMAIN pending : CallOK(pending[id])

\* The proxy's cache, the runtime and the client.
CacheType == /\ locals \in Locals /\ pendingLocalEdits \in Locals
             /\ localsFresh \in BOOLEAN /\ currentLine \in Lines
             /\ breakpoints \subseteq Lines
             /\ starting \in {"no", "initialize", "launch", "done", "failed"}
             /\ chunk \in Nat
RuntimeType == /\ state \in {"idle", "running", "stopped", "ended", "exited"}
               /\ line \in Lines /\ vars \in Locals /\ lines \subseteq Lines
               /\ hasLine \in BOOLEAN /\ raised \in Nat
ClientType == /\ view \in {"none", "running", "stopped", "ended"}
              /\ notices \in Nat /\ notified \in Nat /\ edits \in Nat

TypeInv == Pipes /\ TableType /\ CacheType /\ RuntimeType /\ ClientType

\* A request on its way is that of a call that waits, and no call is on its way
\* twice, neither as two requests nor as a request and its answer.
QuestionsMatch ==
  /\ \A i \in DOMAIN toRuntime :
       /\ toRuntime[i].id \in DOMAIN pending
       /\ pending[toRuntime[i].id].command = toRuntime[i].command
  /\ \A i, j \in DOMAIN toRuntime : toRuntime[i].id = toRuntime[j].id => i = j
  /\ \A i \in DOMAIN toRuntime, j \in DOMAIN fromRuntime :
       ResponseAt(j) => toRuntime[i].id # fromRuntime[j].id

Inv == TypeInv /\ QuestionsMatch /\ AnswersMatch /\ NoneForgotten

-----------------------------------------------------------------------------
(* Types.                                                                   *)

LEMMA TypeInvGivesTypeOK == TypeInv => TypeOK
<1> SUFFICES ASSUME TypeInv PROVE TypeOK
  OBVIOUS
<1>1. \A i \in DOMAIN toRuntime : RequestOK(toRuntime[i])
  BY ElementOfSeq, LenProperties DEF TypeInv, Pipes, Requests
<1>2. \A i \in DOMAIN fromRuntime : MessageOK(fromRuntime[i])
  BY ElementOfSeq, LenProperties DEF TypeInv, Pipes, Messages
<1>3. \A i \in DOMAIN ready : ReadyOK(ready[i])
  BY ElementOfSeq, LenProperties DEF TypeInv, Pipes, Resumptions
<1> QED
  BY <1>1, <1>2, <1>3 DEF TypeInv, TableType, CacheType, RuntimeType, ClientType, TypeOK

LEMMA ArgumentTypes ==
  /\ None \in Arguments
  /\ \A entry \in BOOLEAN : entry \in Arguments
  /\ \A bs \in SUBSET Lines : bs \in Arguments
  /\ \A edit \in Edit : edit \in Arguments
<1>1. \A S : S \in {BOOLEAN, SUBSET Lines, Edit, {None}} => \A x \in S : x \in Arguments
  BY DEF Arguments
<1> QED
  BY <1>1

LEMMA RequestType ==
  ASSUME NEW id \in Nat, NEW command \in Commands, NEW arg \in Arguments,
         command = "launch" => arg \in BOOLEAN,
         command = "setVariable" => arg \in Edit,
         command = "setBreakpoints" => arg \in SUBSET Lines
  PROVE  Request(id, command, arg) \in Requests
BY DEF Request, Requests, RequestOK

LEMMA ResponseType ==
  ASSUME NEW r \in Requests, NEW success \in BOOLEAN, NEW body \in Bodies,
         r.command = "getLocalVariables" => body \in Locals,
         r.command = "stackTrace" => body \in Lines
  PROVE  Response(r, success, body) \in Messages
BY DEF Response, Requests, RequestOK, Messages, MessageOK

LEMMA StopType ==
  ASSUME NEW n \in Nat, NEW l \in Lines
  PROVE  StopAt(n, l) \in Seq(Messages)
<1>1. [n |-> n, line |-> IF hasLine THEN l ELSE None] \in StopEvent
  BY DEF StopEvent
<1>2. Event("stopped", [n |-> n, line |-> IF hasLine THEN l ELSE None]) \in Messages
  BY <1>1 DEF Event, Messages, MessageOK, Bodies
<1> QED
  BY <1>2 DEF StopAt

LEMMA EndType == Event("terminated", None) \in Messages
BY DEF Event, Messages, MessageOK, Bodies

LEMMA CallTypes ==
  /\ \A command \in Commands : CallOK(Quiet(command)) /\ CallOK(Starting(command))
  /\ CallOK(Refresh)
  /\ \A n \in Names : CallOK(Editing(n))
  /\ \A stop \in StopEvent :
       CallOK(Stopping("getLocalVariables", stop)) /\ CallOK(Stopping("stackTrace", stop))
BY DEF Commands, CallOK, Call, Quiet, Starting, Refresh, Editing, Stopping

LEMMA CommandsOfCalls ==
  /\ \A command : /\ Quiet(command).command = command
                  /\ Starting(command).command = command
  /\ Refresh.command = "getLocalVariables"
  /\ \A n : Editing(n).command = "setVariable"
  /\ \A command, stop : Stopping(command, stop).command = command
BY DEF Quiet, Starting, Refresh, Editing, Stopping

LEMMA EditedType ==
  ASSUME NEW ls \in Locals, NEW es \in Locals
  PROVE  Edited(ls, es) \in Locals
BY DEF Edited, Locals

\* A request is written and its call recorded.
LEMMA SendType ==
  ASSUME Pipes, TableType, NEW call, CallOK(call), NEW arg \in Arguments, Send(call, arg),
         call.command = "launch" => arg \in BOOLEAN,
         call.command = "setVariable" => arg \in Edit,
         call.command = "setBreakpoints" => arg \in SUBSET Lines
  PROVE  TableType' /\ toRuntime' \in Seq(Requests)
<1>1. call.command \in Commands
  BY DEF CallOK, Call
<1>2. Request(reqId, call.command, arg) \in Requests
  BY <1>1, RequestType DEF TableType
<1>3. toRuntime' \in Seq(Requests)
  BY <1>2, ConcatProperties DEF Send, Write, Pipes
<1>4. reqId' \in Nat \ {0} /\ reqId' = reqId + 1
  BY DEF Send, TableType
<1>5. DOMAIN pending' = DOMAIN pending \cup {reqId}
  BY DEF Send
<1>6. DOMAIN pending' \subseteq 1 .. reqId' - 1
  BY <1>4, <1>5 DEF TableType
<1>7. \A id \in DOMAIN pending' : CallOK(pending'[id])
  BY <1>5 DEF Send, TableType
<1> QED
  BY <1>3, <1>4, <1>6, <1>7 DEF TableType

\* A call of the client's: one request, and nothing else on the pipes.
LEMMA CallKeepsTypes ==
  ASSUME TypeInv, CacheType', ClientType', UNCHANGED <<ready, fromRuntime, runtime>>,
         NEW call, CallOK(call), NEW arg \in Arguments, Send(call, arg),
         call.command = "launch" => arg \in BOOLEAN,
         call.command = "setVariable" => arg \in Edit,
         call.command = "setBreakpoints" => arg \in SUBSET Lines
  PROVE  TypeInv'
<1>1. TableType' /\ toRuntime' \in Seq(Requests)
  BY SendType DEF TypeInv
<1>2. Pipes' /\ RuntimeType'
  BY <1>1 DEF TypeInv, Pipes, RuntimeType, runtime
<1> QED
  BY <1>1, <1>2 DEF TypeInv

LEMMA ClientTypes == TypeInv /\ Client => TypeInv'
<1> SUFFICES ASSUME TypeInv, Client PROVE TypeInv'
  OBVIOUS
<1> USE DEF CacheType, ClientType, cache, client, loop
<1>0. None \in Arguments
  BY ArgumentTypes
<1>1. CASE Start
  <2>1. Send(Starting("initialize"), None) /\ CallOK(Starting("initialize"))
        /\ Starting("initialize").command = "initialize"
    BY <1>1, CallTypes, CommandsOfCalls DEF Start, Commands
  <2>2. CacheType' /\ ClientType' /\ UNCHANGED <<ready, fromRuntime, runtime>>
    BY <1>1 DEF Start, TypeInv
  <2> QED
    BY <1>0, <2>1, <2>2, CallKeepsTypes
<1>2. CASE Pause \/ Disconnect
  <2>1. PICK command \in {"pause", "disconnect"} : Send(Quiet(command), None)
    BY <1>2 DEF Pause, Disconnect
  <2>2. CallOK(Quiet(command)) /\ Quiet(command).command = command
    BY <2>1, CallTypes, CommandsOfCalls DEF Commands
  <2>3. CacheType' /\ ClientType' /\ UNCHANGED <<ready, fromRuntime, runtime>>
    BY <1>2 DEF Pause, Disconnect, TypeInv
  <2> QED
    BY <1>0, <2>1, <2>2, <2>3, CallKeepsTypes
<1>3. CASE GetLocalVariables
  <2>1. Send(Refresh, None)
    BY <1>3 DEF GetLocalVariables
  <2>2. CacheType' /\ ClientType' /\ UNCHANGED <<ready, fromRuntime, runtime>>
    BY <1>3 DEF GetLocalVariables, TypeInv
  <2> QED
    BY <1>0, <2>1, <2>2, CallTypes, CommandsOfCalls, CallKeepsTypes
<1>4. ASSUME NEW command \in {"continue", "next"}, Run(command) PROVE TypeInv'
  <2>1. Send(Quiet(command), None)
    BY <1>4 DEF Run
  <2>2. CallOK(Quiet(command)) /\ Quiet(command).command = command
    BY CallTypes, CommandsOfCalls DEF Commands
  <2>3. CacheType' /\ ClientType' /\ UNCHANGED <<ready, fromRuntime, runtime>>
    BY <1>4 DEF Run, TypeInv
  <2> QED
    BY <1>0, <2>1, <2>2, <2>3, CallKeepsTypes
<1>5. ASSUME NEW n \in Names, NEW v \in Values, SetLocalVariable(n, v) PROVE TypeInv'
  <2>1. Send(Editing(n), [name |-> n, value |-> v])
    BY <1>5 DEF SetLocalVariable
  <2>2. [name |-> n, value |-> v] \in Edit /\ [name |-> n, value |-> v] \in Arguments
    BY ArgumentTypes DEF Edit
  <2>3. locals' \in Locals /\ pendingLocalEdits' \in Locals
    BY <1>5 DEF SetLocalVariable, TypeInv, Locals
  <2>4. CacheType' /\ ClientType' /\ UNCHANGED <<ready, fromRuntime, runtime>>
    BY <1>5, <2>3 DEF SetLocalVariable, TypeInv
  <2>5. CallOK(Editing(n)) /\ Editing(n).command = "setVariable"
    BY CallTypes, CommandsOfCalls
  <2> QED
    BY <2>1, <2>2, <2>4, <2>5, CallKeepsTypes
<1>6. ASSUME NEW bs \in SUBSET Lines, SendBreakpoints(bs) PROVE TypeInv'
  <2>1. Send(Quiet("setBreakpoints"), bs)
    BY <1>6 DEF SendBreakpoints
  <2>2. CallOK(Quiet("setBreakpoints")) /\ Quiet("setBreakpoints").command = "setBreakpoints"
    BY CallTypes, CommandsOfCalls DEF Commands
  <2>3. bs \in Arguments
    BY ArgumentTypes
  <2>4. CacheType' /\ ClientType' /\ UNCHANGED <<ready, fromRuntime, runtime>>
    BY <1>6 DEF SendBreakpoints, TypeInv
  <2> QED
    BY <2>1, <2>2, <2>3, <2>4, CallKeepsTypes
<1>7. ClearBreakpoints => TypeInv'
  BY <1>6 DEF ClearBreakpoints
<1>8. ASSUME NEW l \in Lines, SetBreakPoint(l) \/ ClearBreakPoint(l) PROVE TypeInv'
  BY <1>6, <1>8 DEF SetBreakPoint, ClearBreakPoint, TypeInv
<1>9. ASSUME NEW bs \in BreakpointSets, SetBreakpointsBulk(bs) PROVE TypeInv'
  <2>1. bs \in SUBSET Lines
    BY ConstantsAssumption DEF ConstantsAssumption
  <2> QED
    BY <1>6, <1>9, <2>1 DEF SetBreakpointsBulk
<1> QED
  BY <1>1, <1>2, <1>3, <1>4, <1>5, <1>7, <1>8, <1>9 DEF Client

-----------------------------------------------------------------------------
\* One line of the pipe.
LEMMA ReceiveTypes ==
  ASSUME TypeInv, NEW m, Receive(m)
  PROVE  /\ m \in Messages /\ MessageOK(m)
         /\ fromRuntime' \in Seq(Messages)
         /\ chunk' \in Nat
<1>1. fromRuntime \in Seq(Messages) /\ fromRuntime # <<>> /\ m = Head(fromRuntime)
      /\ fromRuntime' = Tail(fromRuntime)
  BY DEF TypeInv, Pipes, Receive
<1>2. m \in Messages /\ fromRuntime' \in Seq(Messages)
  BY <1>1, HeadTailProperties
<1>3. chunk' \in Nat
  <2>1. Len(fromRuntime) \in Nat \ {0}
    BY <1>1, EmptySeq
  <2>2. CASE chunk # 0 /\ chunk' = chunk - 1
    BY <2>2 DEF TypeInv, CacheType
  <2>3. CASE chunk' \in 0 .. Len(fromRuntime) - 1
    BY <2>1, <2>3
  <2> QED
    BY <2>2, <2>3 DEF Receive
<1> QED
  BY <1>2, <1>3 DEF Messages

LEMMA OnLineTypes ==
  ASSUME TypeInv, QuestionsMatch, AnswersMatch, OnLine PROVE TypeInv'
<1> USE DEF CacheType, ClientType, RuntimeType, cache, client, runtime, loop
<1>1. PICK m : OnResponse(m) \/ OnStopped(m) \/ OnTerminated(m)
  BY DEF OnLine
<1>2. CASE OnResponse(m)
  <2>1. Receive(m) /\ Resolve(m) /\ m.type = "response"
    BY <1>2 DEF OnResponse
  <2>2. m \in Messages /\ MessageOK(m) /\ fromRuntime' \in Seq(Messages) /\ chunk' \in Nat
    BY <2>1, ReceiveTypes
  <2>3. m.id \in DOMAIN pending /\ pending[m.id].command = m.command
    <3>1. fromRuntime \in Seq(Messages) /\ fromRuntime # <<>> /\ m = Head(fromRuntime)
      BY <2>1 DEF TypeInv, Pipes, Receive
    <3>2. 1 \in DOMAIN fromRuntime /\ m = fromRuntime[1]
      BY <3>1, EmptySeq, LenProperties
    <3> QED
      BY <3>2, <2>1 DEF AnswersMatch, ResponseAt
  <2>4. /\ pending' = [id \in DOMAIN pending \ {m.id} |-> pending[id]]
        /\ ready' = Append(ready, [call |-> pending[m.id], answer |-> m])
    BY <2>1, <2>3 DEF Resolve
  <2>5. [call |-> pending[m.id], answer |-> m] \in Resumptions
    <3>1. CallOK(pending[m.id])
      BY <2>3 DEF TypeInv, TableType
    <3> QED
      BY <3>1, <2>1, <2>2, <2>3 DEF Resumptions, ReadyOK, CallOK
  <2>6. ready' \in Seq(Resumptions)
    BY <2>4, <2>5, AppendProperties DEF TypeInv, Pipes
  <2>7. TableType'
    BY <1>2, <2>4 DEF TypeInv, TableType, OnResponse
  <2>8. Pipes'
    BY <1>2, <2>2, <2>6 DEF TypeInv, Pipes, OnResponse
  <2> QED
    BY <1>2, <2>2, <2>7, <2>8 DEF TypeInv, OnResponse
<1>3. CASE OnStopped(m)
  <2>1. Receive(m) /\ m.type = "stopped" /\ Send(Stopping("getLocalVariables", m.body), None)
    BY <1>3 DEF OnStopped
  <2>2. MessageOK(m) /\ fromRuntime' \in Seq(Messages) /\ chunk' \in Nat
    BY <2>1, ReceiveTypes
  <2>3. m.body \in StopEvent
    BY <2>1, <2>2 DEF MessageOK
  <2>4. CallOK(Stopping("getLocalVariables", m.body)) /\ None \in Arguments
        /\ Stopping("getLocalVariables", m.body).command = "getLocalVariables"
    BY <2>3, CallTypes, CommandsOfCalls, ArgumentTypes
  <2>5. TableType' /\ toRuntime' \in Seq(Requests)
    BY <2>1, <2>4, SendType DEF TypeInv
  <2>6. Pipes'
    BY <1>3, <2>2, <2>5 DEF TypeInv, Pipes, OnStopped
  <2> QED
    BY <1>3, <2>2, <2>5, <2>6 DEF TypeInv, OnStopped
<1>4. CASE OnTerminated(m)
  <2>1. fromRuntime' \in Seq(Messages) /\ chunk' \in Nat
    BY <1>4, ReceiveTypes DEF OnTerminated
  <2>2. Pipes' /\ TableType'
    BY <1>4, <2>1 DEF TypeInv, Pipes, TableType, OnTerminated, NoSend
  <2> QED
    BY <1>4, <2>1, <2>2 DEF TypeInv, OnTerminated
<1> QED
  BY <1>1, <1>2, <1>3, <1>4

-----------------------------------------------------------------------------
\* The first caller to resume, its call and its answer.
LEMMA ResumeTypes ==
  ASSUME TypeInv, NEW then, Resume(then)
  PROVE  /\ CallOK(Head(ready).call) /\ Head(ready).call.then = then
         /\ MessageOK(Answered) /\ Answered.type = "response"
         /\ Answered.command = Head(ready).call.command
         /\ ready' \in Seq(Resumptions) /\ chunk' = chunk
<1>1. ready \in Seq(Resumptions) /\ ready # <<>> /\ ready' = Tail(ready)
  BY DEF TypeInv, Pipes, Resume
<1>2. Head(ready) \in Resumptions /\ ready' \in Seq(Resumptions)
  BY <1>1, HeadTailProperties
<1> QED
  BY <1>2 DEF Resumptions, ReadyOK, Resume, Answered

\* A caller that sends nothing more.
LEMMA QuietResumeTypes ==
  ASSUME TypeInv, ready' \in Seq(Resumptions), NoSend, CacheType', ClientType',
         UNCHANGED <<fromRuntime, runtime>>
  PROVE  TypeInv'
BY DEF TypeInv, Pipes, TableType, RuntimeType, NoSend, runtime

\* A caller that sends one more request.
LEMMA SendingResumeTypes ==
  ASSUME TypeInv, ready' \in Seq(Resumptions), CacheType', ClientType',
         UNCHANGED <<fromRuntime, runtime>>,
         NEW call, CallOK(call), NEW arg \in Arguments, Send(call, arg),
         call.command = "launch" => arg \in BOOLEAN,
         call.command \notin {"setVariable", "setBreakpoints"}
  PROVE  TypeInv'
<1>1. TableType' /\ toRuntime' \in Seq(Requests)
  BY SendType DEF TypeInv
<1>2. Pipes' /\ RuntimeType'
  BY <1>1 DEF TypeInv, Pipes, RuntimeType, runtime
<1> QED
  BY <1>1, <1>2 DEF TypeInv

LEMMA ContinuationTypes == TypeInv /\ Continuation => TypeInv'
<1> SUFFICES ASSUME TypeInv, Continuation PROVE TypeInv'
  OBVIOUS
<1> USE DEF CacheType, ClientType, cache, client
<1>1. CASE Nothing
  <2>1. ready' \in Seq(Resumptions) /\ chunk' = chunk
    BY <1>1, ResumeTypes DEF Nothing
  <2> QED
    BY <1>1, <2>1, QuietResumeTypes DEF Nothing, TypeInv
<1>2. CASE Refreshed
  <2>1. /\ ready' \in Seq(Resumptions) /\ chunk' = chunk
        /\ CallOK(Head(ready).call) /\ Head(ready).call.then = "refresh"
        /\ MessageOK(Answered) /\ Answered.type = "response"
        /\ Answered.command = Head(ready).call.command
    BY <1>2, ResumeTypes DEF Refreshed
  <2>2. Answered.body \in Locals
    BY <2>1 DEF CallOK, MessageOK
  <2>3. locals' \in Locals
    BY <1>2, <2>2, EditedType DEF Refreshed, Merged, TypeInv
  <2> QED
    BY <1>2, <2>1, <2>3, QuietResumeTypes DEF Refreshed, TypeInv
<1>3. CASE StopRefreshed
  <2>1. /\ ready' \in Seq(Resumptions) /\ chunk' = chunk
        /\ CallOK(Head(ready).call) /\ Head(ready).call.then = "stop"
        /\ MessageOK(Answered) /\ Answered.type = "response"
        /\ Answered.command = Head(ready).call.command
        /\ Head(ready).call.command = "getLocalVariables"
    BY <1>3, ResumeTypes DEF StopRefreshed
  <2>2. Answered.body \in Locals /\ Stop \in StopEvent
    BY <2>1 DEF CallOK, MessageOK, Stop
  <2>3. locals' \in Locals
    BY <1>3, <2>2, EditedType DEF StopRefreshed, Merged, TypeInv
  <2>4. CASE Stop.line # None
    <3>1. Stop.line \in Lines /\ Stop.n \in Nat
      BY <2>2, <2>4 DEF StopEvent
    <3>2. CacheType' /\ ClientType' /\ NoSend
      BY <1>3, <2>1, <2>3, <2>4, <3>1 DEF StopRefreshed, TypeInv, Notify
    <3> QED
      BY <1>3, <2>1, <3>2, QuietResumeTypes DEF StopRefreshed
  <2>5. CASE Stop.line = None
    <3>1. /\ CallOK(Stopping("stackTrace", Stop)) /\ None \in Arguments
          /\ Stopping("stackTrace", Stop).command = "stackTrace"
      BY <2>2, CallTypes, CommandsOfCalls, ArgumentTypes
    <3>2. Send(Stopping("stackTrace", Stop), None) /\ CacheType' /\ ClientType'
      BY <1>3, <2>1, <2>3, <2>5 DEF StopRefreshed, TypeInv
    <3> QED
      BY <1>3, <2>1, <3>1, <3>2, SendingResumeTypes DEF StopRefreshed
  <2> QED
    BY <2>4, <2>5
<1>4. CASE StopLocated
  <2>1. /\ ready' \in Seq(Resumptions) /\ chunk' = chunk
        /\ CallOK(Head(ready).call) /\ Head(ready).call.then = "stop"
        /\ MessageOK(Answered) /\ Answered.type = "response"
        /\ Answered.command = Head(ready).call.command
        /\ Head(ready).call.command = "stackTrace"
    BY <1>4, ResumeTypes DEF StopLocated
  <2>2. Answered.body \in Lines /\ Stop.n \in Nat
    BY <2>1 DEF CallOK, MessageOK, Stop, StopEvent
  <2> QED
    BY <1>4, <2>1, <2>2, QuietResumeTypes DEF StopLocated, TypeInv, Notify
<1>5. CASE EditConfirmed
  <2>1. /\ ready' \in Seq(Resumptions) /\ chunk' = chunk
        /\ CallOK(Head(ready).call) /\ Head(ready).call.then = "edit"
    BY <1>5, ResumeTypes DEF EditConfirmed
  <2>2. pendingLocalEdits' \in Locals
    BY <1>5, <2>1 DEF EditConfirmed, CallOK, TypeInv, Locals
  <2> QED
    BY <1>5, <2>1, <2>2, QuietResumeTypes DEF EditConfirmed, TypeInv
<1>6. CASE StartWentOn
  <2>1. ready' \in Seq(Resumptions) /\ chunk' = chunk
    BY <1>6, ResumeTypes DEF StartWentOn
  <2>2. CASE ~Answered.success
    BY <1>6, <2>1, <2>2, QuietResumeTypes DEF StartWentOn, TypeInv
  <2>3. CASE Answered.success /\ Head(ready).call.command = "initialize"
    <3>1. PICK entry \in Entries : Send(Starting("launch"), entry)
      BY <1>6, <2>3 DEF StartWentOn
    <3>2. entry \in BOOLEAN /\ entry \in Arguments
      BY ConstantsAssumption, ArgumentTypes DEF ConstantsAssumption
    <3>3. CallOK(Starting("launch")) /\ Starting("launch").command = "launch"
      BY CallTypes, CommandsOfCalls DEF Commands
    <3>4. CacheType' /\ ClientType' /\ UNCHANGED <<fromRuntime, runtime>>
      BY <1>6, <2>1, <2>3 DEF StartWentOn, TypeInv
    <3> QED
      BY <2>1, <3>1, <3>2, <3>3, <3>4, SendingResumeTypes
  <2>4. CASE Answered.success /\ Head(ready).call.command # "initialize"
    <3>1. /\ Send(Refresh, None) /\ CacheType' /\ ClientType'
          /\ UNCHANGED <<fromRuntime, runtime>>
      BY <1>6, <2>1, <2>4 DEF StartWentOn, TypeInv
    <3> QED
      BY <2>1, <3>1, CallTypes, CommandsOfCalls, ArgumentTypes, SendingResumeTypes
  <2> QED
    BY <2>2, <2>3, <2>4
<1> QED
  BY <1>1, <1>2, <1>3, <1>4, <1>5, <1>6 DEF Continuation

-----------------------------------------------------------------------------
\* The runtime answers its next request.
LEMMA ReplyTypes ==
  ASSUME TypeInv, NEW command, Serve(command),
         NEW success \in BOOLEAN, NEW body \in Bodies, NEW stops \in Seq(Messages),
         Reply(success, body, stops), RuntimeType',
         command = "getLocalVariables" => body \in Locals,
         command = "stackTrace" => body \in Lines
  PROVE  TypeInv'
<1>1. toRuntime \in Seq(Requests) /\ toRuntime # <<>> /\ Head(toRuntime).command = command
      /\ toRuntime' = Tail(toRuntime)
      /\ fromRuntime' = fromRuntime \o <<Response(Head(toRuntime), success, body)>> \o stops
  BY DEF TypeInv, Pipes, Serve, Reply
<1>2. Head(toRuntime) \in Requests /\ toRuntime' \in Seq(Requests)
  BY <1>1, HeadTailProperties
<1>3. <<Response(Head(toRuntime), success, body)>> \in Seq(Messages)
  BY <1>1, <1>2, ResponseType
<1>4. fromRuntime \o <<Response(Head(toRuntime), success, body)>> \in Seq(Messages)
  BY <1>3, ConcatProperties DEF TypeInv, Pipes
<1>5. fromRuntime' \in Seq(Messages)
  BY <1>1, <1>4, ConcatProperties
<1>6. Pipes' /\ TableType'
  BY <1>2, <1>5 DEF TypeInv, Pipes, TableType, Serve, loop
<1>7. CacheType' /\ ClientType'
  BY DEF TypeInv, CacheType, ClientType, Serve, cache, client, loop
<1> QED
  BY <1>6, <1>7 DEF TypeInv

LEMMA BodyTypes ==
  /\ None \in Bodies
  /\ \A ls \in Locals : ls \in Bodies
  /\ \A l \in Lines : l \in Bodies
<1>1. \A S : S \in {Locals, Lines, StopEvent, {None}} => \A x \in S : x \in Bodies
  BY DEF Bodies
<1> QED
  BY <1>1

LEMMA ServiceTypes == TypeInv /\ Service => TypeInv'
<1> SUFFICES ASSUME TypeInv, Service PROVE TypeInv'
  OBVIOUS
<1>a. RuntimeType
  BY DEF TypeInv
<1>0. <<>> \in Seq(Messages) /\ None \in Bodies
  BY BodyTypes, EmptySeq
<1>1. CASE ServeInitialize
  <2>1. PICK command \in {"initialize"} :
          Serve(command) /\ Reply(TRUE, None, <<>>) /\ RuntimeType'
    BY <1>a, <1>1 DEF ServeInitialize, Serve, RuntimeType
  <2> QED
    BY <1>0, <2>1, ReplyTypes
<1>2. CASE ServeLaunch
  <2>1. StopAt(raised + 1, line) \in Seq(Messages)
    BY <1>a, StopType DEF RuntimeType
  <2>2. PICK command \in {"launch"} : Serve(command)
    BY <1>2 DEF ServeLaunch
  <2>4. raised' \in Nat /\ state' \in {"stopped", "running"}
    <3>1. \/ state' = "stopped" /\ raised' = raised + 1
          \/ state' = "running" /\ raised' = raised
      BY <1>2, Zenon DEF ServeLaunch
    <3> QED
      BY <1>a, <3>1 DEF RuntimeType
  <2>5. RuntimeType'
    BY <1>a, <1>2, <2>2, <2>4 DEF ServeLaunch, Serve, RuntimeType
  <2>3. Reply(TRUE, None, StopAt(raised + 1, line)) \/ Reply(TRUE, None, <<>>)
    BY <1>2 DEF ServeLaunch
  <2> QED
    BY <1>0, <2>1, <2>2, <2>3, <2>5, ReplyTypes
<1>3. CASE RefuseLaunch
  <2>1. PICK command \in {"launch"} :
          Serve(command) /\ Reply(FALSE, None, <<>>) /\ RuntimeType'
    BY <1>a, <1>3 DEF RefuseLaunch, Serve, RuntimeType
  <2> QED
    BY <1>0, <2>1, ReplyTypes
<1>4. ASSUME NEW command \in {"continue", "next"}, ServeRun(command) PROVE TypeInv'
  <2>1. Serve(command) /\ Reply(TRUE, None, <<>>) /\ RuntimeType'
    BY <1>a, <1>4 DEF ServeRun, Serve, RuntimeType
  <2> QED
    BY <1>0, <2>1, ReplyTypes
<1>5. CASE ServePause
  <2>1. StopAt(raised + 1, line) \in Seq(Messages)
    BY <1>a, StopType DEF RuntimeType
  <2>2. PICK command \in {"pause"} :
          Serve(command) /\ Reply(TRUE, None, StopAt(raised + 1, line))
    BY <1>5 DEF ServePause
  <2>3. raised' \in Nat /\ state' \in {"idle", "running", "stopped", "ended", "exited"}
    BY <1>a, <1>5 DEF ServePause, RuntimeType
  <2>4. RuntimeType'
    BY <1>a, <1>5, <2>2, <2>3 DEF ServePause, Serve, RuntimeType
  <2> QED
    BY <1>0, <2>1, <2>2, <2>4, ReplyTypes
<1>6. CASE ServeLocals
  <2>1. PICK command \in {"getLocalVariables"} :
          Serve(command) /\ Reply(TRUE, vars, <<>>) /\ RuntimeType'
    BY <1>a, <1>6 DEF ServeLocals, Serve, RuntimeType
  <2>2. vars \in Locals /\ vars \in Bodies
    BY <1>a, BodyTypes DEF RuntimeType
  <2> QED
    BY <1>0, <2>1, <2>2, ReplyTypes
<1>7. CASE ServeStack
  <2>1. PICK command \in {"stackTrace"} :
          Serve(command) /\ Reply(TRUE, line, <<>>) /\ RuntimeType'
    BY <1>a, <1>7 DEF ServeStack, Serve, RuntimeType
  <2>2. line \in Lines /\ line \in Bodies
    BY <1>a, BodyTypes DEF RuntimeType
  <2> QED
    BY <1>0, <2>1, <2>2, ReplyTypes
<1>8. CASE ServeSetVariable \/ ServeBreakpoints
  <2>1. PICK command \in {"setVariable", "setBreakpoints"} :
          Serve(command) /\ Reply(TRUE, None, <<>>)
    BY <1>8 DEF ServeSetVariable, ServeBreakpoints
  <2>2. RequestOK(Head(toRuntime))
    <3>1. toRuntime \in Seq(Requests) /\ toRuntime # <<>>
      BY <2>1 DEF TypeInv, Pipes, Serve
    <3> QED
      BY <3>1, HeadTailProperties DEF Requests
  <2>3. CASE ServeSetVariable
    <3>1. Argument \in Edit
      BY <2>2, <2>3 DEF RequestOK, ServeSetVariable, Serve, Argument
    <3>2. vars' \in Locals
      BY <1>a, <2>3, <3>1 DEF ServeSetVariable, Locals, Edit, RuntimeType
    <3>3. RuntimeType'
      BY <1>a, <2>3, <3>2 DEF ServeSetVariable, Serve, RuntimeType
    <3> QED
      BY <1>0, <2>1, <3>3, ReplyTypes
  <2>4. CASE ServeBreakpoints
    <3>1. Argument \in SUBSET Lines
      BY <2>2, <2>4 DEF RequestOK, ServeBreakpoints, Serve, Argument
    <3>2. RuntimeType'
      BY <1>a, <2>4, <3>1 DEF ServeBreakpoints, Serve, RuntimeType
    <3> QED
      BY <1>0, <2>1, <3>2, ReplyTypes
  <2> QED
    BY <1>8, <2>3, <2>4
<1>9. CASE ServeDisconnect
  <2>1. PICK command \in {"disconnect"} :
          Serve(command) /\ Reply(TRUE, None, <<>>) /\ RuntimeType'
    BY <1>a, <1>9 DEF ServeDisconnect, Serve, RuntimeType
  <2> QED
    BY <1>0, <2>1, ReplyTypes
<1> QED
  BY <1>1, <1>2, <1>3, <1>4, <1>5, <1>6, <1>7, <1>8, <1>9 DEF Service

LEMMA ProgramTypes ==
  ASSUME TypeInv,
         ProgramReports \/ \E n \in Names, v \in Values : ProgramAssigns(n, v)
  PROVE  TypeInv'
<1> USE DEF CacheType, ClientType, RuntimeType, cache, client, loop
<1>1. CASE ProgramEnds
  <2>1. fromRuntime' \in Seq(Messages)
    BY <1>1, EndType, AppendProperties DEF ProgramEnds, TypeInv, Pipes
  <2>2. Pipes' /\ TableType'
    BY <1>1, <2>1 DEF ProgramEnds, Program, TypeInv, Pipes, TableType
  <2> QED
    BY <1>1, <2>2 DEF ProgramEnds, Program, TypeInv
<1>2. ASSUME NEW l \in Lines, ProgramStops(l) PROVE TypeInv'
  <2>1. StopAt(raised + 1, l) \in Seq(Messages)
    BY StopType DEF TypeInv
  <2>2. fromRuntime' \in Seq(Messages)
    BY <1>2, <2>1, ConcatProperties DEF ProgramStops, TypeInv, Pipes
  <2>3. Pipes' /\ TableType'
    BY <1>2, <2>2 DEF ProgramStops, Program, TypeInv, Pipes, TableType
  <2> QED
    BY <1>2, <2>3 DEF ProgramStops, Program, TypeInv
<1>3. ASSUME NEW n \in Names, NEW v \in Values, ProgramAssigns(n, v) PROVE TypeInv'
  <2>1. vars' \in Locals
    BY <1>3 DEF ProgramAssigns, TypeInv, Locals
  <2>2. Pipes' /\ TableType'
    BY <1>3 DEF ProgramAssigns, Program, TypeInv, Pipes, TableType
  <2> QED
    BY <1>3, <2>1, <2>2 DEF ProgramAssigns, Program, TypeInv
<1> QED
  BY <1>1, <1>2, <1>3 DEF ProgramReports

LEMMA ExitTypes == TypeInv /\ (Exit \/ OnExit \/ UNCHANGED allVars) => TypeInv'
<1> USE DEF TypeInv, Pipes, TableType, CacheType, ClientType, RuntimeType, cache, client,
            runtime, loop
<1>1. TypeInv /\ Exit => TypeInv'
  BY EmptySeq DEF Exit
<1>2. TypeInv /\ OnExit => TypeInv'
  BY DEF OnExit
<1>3. TypeInv /\ UNCHANGED allVars => TypeInv'
  BY DEF allVars
<1> QED
  BY <1>1, <1>2, <1>3

-----------------------------------------------------------------------------
(* The table of calls and the pipes.                                        *)

Table == QuestionsMatch /\ AnswersMatch /\ NoneForgotten

\* The first k lines, none of them a response, have been read from the pipe.
Shifted(k) ==
  /\ Len(fromRuntime') = Len(fromRuntime) - k
  /\ \A i \in 1 .. Len(fromRuntime') : fromRuntime'[i] = fromRuntime[i + k]
  /\ k = 1 => fromRuntime[1].type # "response"

LEMMA PipeDomains ==
  ASSUME Pipes
  PROVE  /\ Len(toRuntime) \in Nat /\ DOMAIN toRuntime = 1 .. Len(toRuntime)
         /\ Len(fromRuntime) \in Nat /\ DOMAIN fromRuntime = 1 .. Len(fromRuntime)
BY LenProperties DEF Pipes

LEMMA NotShifted == ASSUME Pipes, fromRuntime' = fromRuntime PROVE Shifted(0)
<1>1. Len(fromRuntime) \in Nat
  BY PipeDomains
<1> QED
  BY <1>1 DEF Shifted

LEMMA ReceiveShifts ==
  ASSUME Pipes, NEW m, Receive(m), m.type # "response"
  PROVE  Shifted(1)
<1>1. fromRuntime \in Seq(Messages) /\ fromRuntime # <<>> /\ m = Head(fromRuntime)
      /\ fromRuntime' = Tail(fromRuntime)
  BY DEF Pipes, Receive
<1>2. m = fromRuntime[1]
  BY <1>1
<1>3. Len(Tail(fromRuntime)) = Len(fromRuntime) - 1
      /\ \A i \in 1 .. Len(Tail(fromRuntime)) : Tail(fromRuntime)[i] = fromRuntime[i + 1]
  BY <1>1, HeadTailProperties
<1> QED
  BY <1>1, <1>2, <1>3 DEF Shifted

\* What send leaves on the pipe: the requests there were and, while the runtime
\* lives, the new one.
LEMMA SendPipe ==
  ASSUME Pipes, TableType, NEW call, NEW arg, Send(call, arg), toRuntime' \in Seq(Requests)
  PROVE  /\ state = "exited" => toRuntime' = toRuntime
         /\ state # "exited" =>
              /\ Len(toRuntime') = Len(toRuntime) + 1
              /\ \A i \in 1 .. Len(toRuntime) : toRuntime'[i] = toRuntime[i]
              /\ toRuntime'[Len(toRuntime) + 1] = Request(reqId, call.command, arg)
         /\ reqId \notin DOMAIN pending
         /\ DOMAIN pending' = DOMAIN pending \cup {reqId}
         /\ pending'[reqId] = call
         /\ \A id \in DOMAIN pending : pending'[id] = pending[id]
<1>1. state = "exited" => toRuntime' = toRuntime
  BY DEF Send, Write
<1>2. ASSUME state # "exited"
      PROVE  /\ Len(toRuntime') = Len(toRuntime) + 1
             /\ \A i \in 1 .. Len(toRuntime) : toRuntime'[i] = toRuntime[i]
             /\ toRuntime'[Len(toRuntime) + 1] = Request(reqId, call.command, arg)
  <2>1. toRuntime' = toRuntime \o <<Request(reqId, call.command, arg)>>
    BY <1>2 DEF Send, Write
  <2>2. toRuntime \in Seq(Requests)
    BY DEF Pipes
  <2> QED
    BY <2>1, <2>2
<1>3. reqId \notin DOMAIN pending
  BY DEF TableType
<1>4. /\ DOMAIN pending' = DOMAIN pending \cup {reqId} /\ pending'[reqId] = call
      /\ \A id \in DOMAIN pending : pending'[id] = pending[id]
  BY <1>3 DEF Send
<1> QED
  BY <1>1, <1>2, <1>3, <1>4

LEMMA SendTable ==
  ASSUME Pipes, TableType, Table, state' = state, Pipes',
         NEW call, NEW arg, Send(call, arg), NEW k \in {0, 1}, Shifted(k)
  PROVE  Table'
<1>0. /\ Len(toRuntime) \in Nat /\ DOMAIN toRuntime = 1 .. Len(toRuntime)
      /\ Len(fromRuntime) \in Nat /\ DOMAIN fromRuntime = 1 .. Len(fromRuntime)
      /\ Len(toRuntime') \in Nat /\ DOMAIN toRuntime' = 1 .. Len(toRuntime')
      /\ Len(fromRuntime') \in Nat /\ DOMAIN fromRuntime' = 1 .. Len(fromRuntime')
  BY LenProperties DEF Pipes
<1>1. /\ state = "exited" => toRuntime' = toRuntime
      /\ state # "exited" =>
           /\ Len(toRuntime') = Len(toRuntime) + 1
           /\ \A i \in 1 .. Len(toRuntime) : toRuntime'[i] = toRuntime[i]
           /\ toRuntime'[Len(toRuntime) + 1] = Request(reqId, call.command, arg)
      /\ reqId \notin DOMAIN pending
      /\ DOMAIN pending' = DOMAIN pending \cup {reqId}
      /\ pending'[reqId] = call
      /\ \A id \in DOMAIN pending : pending'[id] = pending[id]
  BY SendPipe DEF Pipes
<1>2. /\ Request(reqId, call.command, arg).id = reqId
      /\ Request(reqId, call.command, arg).command = call.command
  BY DEF Request
<1>3. \A i \in DOMAIN toRuntime' :
        \/ i \in DOMAIN toRuntime /\ toRuntime'[i] = toRuntime[i]
        \/ /\ i = Len(toRuntime) + 1
           /\ toRuntime'[i].id = reqId /\ toRuntime'[i].command = call.command
  <2>1. CASE state = "exited"
    BY <1>1, <2>1
  <2>2. CASE state # "exited"
    <3>1. \A i \in DOMAIN toRuntime' : i \in DOMAIN toRuntime \/ i = Len(toRuntime) + 1
      BY <1>0, <1>1, <2>2
    <3> QED
      BY <1>0, <1>1, <1>2, <2>2, <3>1
  <2> QED
    BY <2>1, <2>2
<1>4. \A i \in DOMAIN fromRuntime' :
        i + k \in DOMAIN fromRuntime /\ fromRuntime'[i] = fromRuntime[i + k]
  <2>1. k \in Int /\ Len(fromRuntime') = Len(fromRuntime) - k
        /\ \A i \in 1 .. Len(fromRuntime') : fromRuntime'[i] = fromRuntime[i + k]
    BY DEF Shifted
  <2>2. \A i \in 1 .. Len(fromRuntime') : i + k \in 1 .. Len(fromRuntime)
    BY <1>0, <2>1
  <2> QED
    BY <1>0, <2>1, <2>2
<1>5. \A i \in DOMAIN fromRuntime' : ResponseAt(i)' => ResponseAt(i + k)
  BY <1>4 DEF ResponseAt
<1>6. QuestionsMatch'
  <2>1. \A i \in DOMAIN toRuntime' :
          /\ toRuntime'[i].id \in DOMAIN pending'
          /\ pending'[toRuntime'[i].id].command = toRuntime'[i].command
    BY <1>1, <1>3 DEF Table, QuestionsMatch
  <2>2. \A i, j \in DOMAIN toRuntime' : toRuntime'[i].id = toRuntime'[j].id => i = j
    BY <1>1, <1>3 DEF Table, QuestionsMatch
  <2>3. \A i \in DOMAIN toRuntime', j \in DOMAIN fromRuntime' :
          ResponseAt(j)' => toRuntime'[i].id # fromRuntime'[j].id
    BY <1>1, <1>3, <1>4, <1>5 DEF Table, QuestionsMatch, AnswersMatch
  <2> QED
    BY <2>1, <2>2, <2>3 DEF QuestionsMatch
<1>7. AnswersMatch'
  <2>1. \A i \in DOMAIN fromRuntime' : ResponseAt(i)' =>
          /\ fromRuntime'[i].id \in DOMAIN pending'
          /\ pending'[fromRuntime'[i].id].command = fromRuntime'[i].command
    BY <1>1, <1>4, <1>5 DEF Table, AnswersMatch
  <2>2. ASSUME NEW i \in DOMAIN fromRuntime', NEW j \in DOMAIN fromRuntime',
               ResponseAt(i)', ResponseAt(j)', fromRuntime'[i].id = fromRuntime'[j].id
        PROVE  i = j
    <3>1. i + k = j + k
      BY <1>4, <1>5, <2>2 DEF Table, AnswersMatch
    <3> QED
      BY <3>1, <1>0
  <2> QED
    BY <2>1, <2>2 DEF AnswersMatch
<1>8. NoneForgotten'
  <2> SUFFICES ASSUME state' # "exited", NEW id \in DOMAIN pending'
               PROVE  \/ \E i \in DOMAIN toRuntime' : toRuntime'[i].id = id
                      \/ \E i \in DOMAIN fromRuntime' : ResponseAt(i)' /\ fromRuntime'[i].id = id
    BY DEF NoneForgotten
  <2>1. CASE id = reqId
    <3>1. Len(toRuntime) + 1 \in DOMAIN toRuntime'
      BY <1>0, <1>1
    <3> QED
      BY <1>1, <1>2, <2>1, <3>1
  <2>2. CASE \E i \in DOMAIN toRuntime : toRuntime[i].id = id
    <3>1. PICK i \in DOMAIN toRuntime : toRuntime[i].id = id
      BY <2>2
    <3>2. i \in DOMAIN toRuntime' /\ toRuntime'[i] = toRuntime[i]
      BY <1>0, <1>1, <3>1
    <3> QED
      BY <3>1, <3>2
  <2>3. CASE \E i \in DOMAIN fromRuntime : ResponseAt(i) /\ fromRuntime[i].id = id
    <3>1. PICK i \in DOMAIN fromRuntime : ResponseAt(i) /\ fromRuntime[i].id = id
      BY <2>3
    <3>2. i - k \in 1 .. Len(fromRuntime')
      BY <1>0, <3>1 DEF Shifted, ResponseAt
    <3>3. fromRuntime'[i - k] = fromRuntime[i]
      BY <1>0, <3>1, <3>2 DEF Shifted
    <3> QED
      BY <1>0, <3>1, <3>2, <3>3 DEF ResponseAt
  <2> QED
    BY <1>1, <2>1, <2>2, <2>3 DEF Table, NoneForgotten
<1> QED
  BY <1>6, <1>7, <1>8 DEF Table

\* Nothing is sent, and no response is read.
LEMMA QuietTable ==
  ASSUME Pipes, Pipes', Table, NoSend, state' = state, NEW k \in {0, 1}, Shifted(k)
  PROVE  Table'
<1>0. /\ Len(fromRuntime) \in Nat /\ DOMAIN fromRuntime = 1 .. Len(fromRuntime)
      /\ Len(fromRuntime') \in Nat /\ DOMAIN fromRuntime' = 1 .. Len(fromRuntime')
  BY LenProperties DEF Pipes
<1>1. \A i \in DOMAIN fromRuntime' :
        i + k \in DOMAIN fromRuntime /\ fromRuntime'[i] = fromRuntime[i + k]
  <2>1. k \in Int /\ Len(fromRuntime') = Len(fromRuntime) - k
        /\ \A i \in 1 .. Len(fromRuntime') : fromRuntime'[i] = fromRuntime[i + k]
    BY DEF Shifted
  <2>2. \A i \in 1 .. Len(fromRuntime') : i + k \in 1 .. Len(fromRuntime)
    BY <1>0, <2>1
  <2> QED
    BY <1>0, <2>1, <2>2
<1>2. \A i \in DOMAIN fromRuntime' : ResponseAt(i)' => ResponseAt(i + k)
  BY <1>1 DEF ResponseAt
<1>3. QuestionsMatch'
  BY <1>1, <1>2 DEF Table, QuestionsMatch, NoSend
<1>4. AnswersMatch'
  <2>1. \A i \in DOMAIN fromRuntime' : ResponseAt(i)' =>
          /\ fromRuntime'[i].id \in DOMAIN pending'
          /\ pending'[fromRuntime'[i].id].command = fromRuntime'[i].command
    BY <1>1, <1>2 DEF Table, AnswersMatch, NoSend
  <2>2. ASSUME NEW i \in DOMAIN fromRuntime', NEW j \in DOMAIN fromRuntime',
               ResponseAt(i)', ResponseAt(j)', fromRuntime'[i].id = fromRuntime'[j].id
        PROVE  i = j
    <3>1. i + k = j + k
      BY <1>1, <1>2, <2>2 DEF Table, AnswersMatch
    <3> QED
      BY <3>1, <1>0
  <2> QED
    BY <2>1, <2>2 DEF AnswersMatch
<1>5. NoneForgotten'
  <2> SUFFICES ASSUME state' # "exited", NEW id \in DOMAIN pending',
                      ~ \E i \in DOMAIN toRuntime' : toRuntime'[i].id = id
               PROVE  \E i \in DOMAIN fromRuntime' : ResponseAt(i)' /\ fromRuntime'[i].id = id
    BY DEF NoneForgotten
  <2>1. PICK i \in DOMAIN fromRuntime : ResponseAt(i) /\ fromRuntime[i].id = id
    BY DEF Table, NoneForgotten, NoSend
  <2>2. i - k \in 1 .. Len(fromRuntime')
    BY <1>0, <2>1 DEF Shifted, ResponseAt
  <2>3. fromRuntime'[i - k] = fromRuntime[i]
    BY <1>0, <2>1, <2>2 DEF Shifted
  <2> QED
    BY <1>0, <2>1, <2>2, <2>3 DEF ResponseAt
<1> QED
  BY <1>3, <1>4, <1>5 DEF Table

\* A response takes its call from the table.
LEMMA ResolveTable ==
  ASSUME Pipes, Pipes', Table, NEW m, m.type = "response", Receive(m), Resolve(m),
         UNCHANGED <<toRuntime, state>>
  PROVE  Table'
<1>0. /\ Len(fromRuntime) \in Nat /\ DOMAIN fromRuntime = 1 .. Len(fromRuntime)
      /\ Len(fromRuntime') \in Nat /\ DOMAIN fromRuntime' = 1 .. Len(fromRuntime')
  BY LenProperties DEF Pipes
<1>1. fromRuntime \in Seq(Messages) /\ fromRuntime # <<>> /\ m = Head(fromRuntime)
      /\ fromRuntime' = Tail(fromRuntime)
  BY DEF Pipes, Receive
<1>2. 1 \in DOMAIN fromRuntime /\ m = fromRuntime[1] /\ ResponseAt(1)
  BY <1>1, EmptySeq, LenProperties DEF ResponseAt
<1>3. Len(fromRuntime') = Len(fromRuntime) - 1
      /\ \A i \in 1 .. Len(fromRuntime') : fromRuntime'[i] = fromRuntime[i + 1]
  BY <1>1, HeadTailProperties
<1>4. \A i \in DOMAIN fromRuntime' :
        i + 1 \in DOMAIN fromRuntime /\ fromRuntime'[i] = fromRuntime[i + 1] /\ i + 1 # 1
  BY <1>0, <1>3
<1>5. \A i \in DOMAIN fromRuntime' : ResponseAt(i)' =>
        ResponseAt(i + 1) /\ fromRuntime[i + 1].id # m.id
  BY <1>2, <1>4 DEF Table, AnswersMatch, ResponseAt
<1>6. pending' = [id \in DOMAIN pending \ {m.id} |-> pending[id]]
  BY <1>2 DEF Table, AnswersMatch, Resolve
<1>7. /\ DOMAIN pending' = DOMAIN pending \ {m.id}
      /\ \A id \in DOMAIN pending' : pending'[id] = pending[id]
  BY <1>6
<1>8. \A i \in DOMAIN toRuntime : toRuntime[i].id # m.id
  BY <1>2 DEF Table, QuestionsMatch
<1>9. QuestionsMatch'
  BY <1>4, <1>5, <1>7, <1>8 DEF Table, QuestionsMatch
<1>10. AnswersMatch'
  <2>1. \A i \in DOMAIN fromRuntime' : ResponseAt(i)' =>
          /\ fromRuntime'[i].id \in DOMAIN pending'
          /\ pending'[fromRuntime'[i].id].command = fromRuntime'[i].command
    BY <1>4, <1>5, <1>7 DEF Table, AnswersMatch
  <2>2. ASSUME NEW i \in DOMAIN fromRuntime', NEW j \in DOMAIN fromRuntime',
               ResponseAt(i)', ResponseAt(j)', fromRuntime'[i].id = fromRuntime'[j].id
        PROVE  i = j
    <3>1. i + 1 = j + 1
      BY <1>4, <1>5, <2>2 DEF Table, AnswersMatch
    <3> QED
      BY <3>1, <1>0
  <2> QED
    BY <2>1, <2>2 DEF AnswersMatch
<1>11. NoneForgotten'
  <2> SUFFICES ASSUME state' # "exited", NEW id \in DOMAIN pending',
                      ~ \E i \in DOMAIN toRuntime' : toRuntime'[i].id = id
               PROVE  \E i \in DOMAIN fromRuntime' : ResponseAt(i)' /\ fromRuntime'[i].id = id
    BY DEF NoneForgotten
  <2>1. PICK i \in DOMAIN fromRuntime : ResponseAt(i) /\ fromRuntime[i].id = id
    BY <1>7 DEF Table, NoneForgotten
  <2>2. i # 1
    BY <1>2, <1>7, <2>1
  <2>3. i - 1 \in 1 .. Len(fromRuntime')
    BY <1>0, <1>3, <2>1, <2>2
  <2>4. fromRuntime'[i - 1] = fromRuntime[i]
    BY <1>0, <1>3, <2>1, <2>3
  <2> QED
    BY <1>0, <2>1, <2>3, <2>4 DEF ResponseAt
<1> QED
  BY <1>9, <1>10, <1>11 DEF Table

\* The runtime's first request moves over to the other pipe as its answer, and
\* what the program reports follows it.
LEMMA ReplyPipes ==
  ASSUME Pipes, Pipes', toRuntime # <<>>,
         NEW success, NEW body, NEW stops \in Seq(Messages),
         Response(Head(toRuntime), success, body) \in Messages,
         Reply(success, body, stops)
  PROVE  /\ 1 \in DOMAIN toRuntime /\ Head(toRuntime) = toRuntime[1]
         /\ Len(toRuntime') = Len(toRuntime) - 1
         /\ \A i \in 1 .. Len(toRuntime') : toRuntime'[i] = toRuntime[i + 1]
         /\ Len(fromRuntime') = Len(fromRuntime) + 1 + Len(stops)
         /\ \A i \in 1 .. Len(fromRuntime) : fromRuntime'[i] = fromRuntime[i]
         /\ fromRuntime'[Len(fromRuntime) + 1] = Response(Head(toRuntime), success, body)
         /\ \A i \in Len(fromRuntime) + 2 .. Len(fromRuntime') :
              fromRuntime'[i] = stops[i - Len(fromRuntime) - 1]
<1> DEFINE answer == Response(Head(toRuntime), success, body)
           n == Len(fromRuntime)
<1>0. /\ Len(toRuntime) \in Nat /\ DOMAIN toRuntime = 1 .. Len(toRuntime)
      /\ n \in Nat /\ Len(stops) \in Nat
  BY LenProperties DEF Pipes
<1>1. /\ 1 \in DOMAIN toRuntime /\ Head(toRuntime) = toRuntime[1]
      /\ Len(toRuntime') = Len(toRuntime) - 1
      /\ \A i \in 1 .. Len(toRuntime') : toRuntime'[i] = toRuntime[i + 1]
  <2>1. toRuntime \in Seq(Requests) /\ toRuntime' = Tail(toRuntime)
    BY DEF Pipes, Reply
  <2> QED
    BY <1>0, <2>1, EmptySeq, HeadTailProperties
<1>2. <<answer>> \in Seq(Messages) /\ Len(<<answer>>) = 1 /\ <<answer>>[1] = answer
  OBVIOUS
<1>3. fromRuntime' = (fromRuntime \o <<answer>>) \o stops
  BY DEF Reply
<1> HIDE DEF answer
<1>4. /\ fromRuntime \o <<answer>> \in Seq(Messages)
      /\ Len(fromRuntime \o <<answer>>) = n + 1
      /\ \A i \in 1 .. n : (fromRuntime \o <<answer>>)[i] = fromRuntime[i]
      /\ (fromRuntime \o <<answer>>)[n + 1] = answer
  BY <1>0, <1>2, ConcatProperties DEF Pipes
<1>5. /\ Len(fromRuntime') = n + 1 + Len(stops)
      /\ \A i \in 1 .. n + 1 + Len(stops) :
           fromRuntime'[i] = IF i <= n + 1 THEN (fromRuntime \o <<answer>>)[i]
                                           ELSE stops[i - (n + 1)]
  BY <1>3, <1>4, ConcatProperties
<1>6. /\ \A i \in 1 .. n : fromRuntime'[i] = fromRuntime[i]
      /\ fromRuntime'[n + 1] = answer
      /\ \A i \in n + 2 .. Len(fromRuntime') : fromRuntime'[i] = stops[i - n - 1]
  BY <1>0, <1>4, <1>5
<1> QED
  BY <1>1, <1>5, <1>6 DEF answer

\* The runtime's first request moves over to the other pipe as its answer.
LEMMA ReplyTable ==
  ASSUME Pipes, Pipes', Table, UNCHANGED pending, state # "exited", toRuntime # <<>>,
         NEW success, NEW body, NEW stops \in Seq(Messages),
         \A i \in 1 .. Len(stops) : stops[i].type # "response",
         Response(Head(toRuntime), success, body) \in Messages,
         Reply(success, body, stops)
  PROVE  Table'
<1> DEFINE answer == Response(Head(toRuntime), success, body)
           n == Len(fromRuntime)
<1>0. /\ Len(toRuntime) \in Nat /\ DOMAIN toRuntime = 1 .. Len(toRuntime)
      /\ n \in Nat /\ DOMAIN fromRuntime = 1 .. n
      /\ Len(toRuntime') \in Nat /\ DOMAIN toRuntime' = 1 .. Len(toRuntime')
      /\ Len(fromRuntime') \in Nat /\ DOMAIN fromRuntime' = 1 .. Len(fromRuntime')
      /\ Len(stops) \in Nat
  BY LenProperties DEF Pipes
<1>1. /\ 1 \in DOMAIN toRuntime /\ Head(toRuntime) = toRuntime[1]
      /\ Len(toRuntime') = Len(toRuntime) - 1
      /\ \A i \in 1 .. Len(toRuntime') : toRuntime'[i] = toRuntime[i + 1]
  BY ReplyPipes
<1>2. \A i \in DOMAIN toRuntime' :
        i + 1 \in DOMAIN toRuntime /\ toRuntime'[i] = toRuntime[i + 1] /\ i + 1 # 1
  BY <1>0, <1>1
<1>3. /\ Len(fromRuntime') = n + 1 + Len(stops)
      /\ \A i \in 1 .. n : fromRuntime'[i] = fromRuntime[i]
      /\ fromRuntime'[n + 1] = answer
      /\ \A i \in n + 2 .. Len(fromRuntime') : fromRuntime'[i] = stops[i - n - 1]
  BY ReplyPipes
<1>4. answer.type = "response" /\ answer.id = toRuntime[1].id
      /\ answer.command = toRuntime[1].command
  BY <1>1 DEF Response
<1> HIDE DEF answer
<1>5. \A i \in DOMAIN fromRuntime' : ResponseAt(i)' =>
        \/ i \in DOMAIN fromRuntime /\ fromRuntime'[i] = fromRuntime[i] /\ ResponseAt(i)
        \/ /\ i = n + 1
           /\ fromRuntime'[i].id = toRuntime[1].id
           /\ fromRuntime'[i].command = toRuntime[1].command
  <2> SUFFICES ASSUME NEW i \in DOMAIN fromRuntime', ResponseAt(i)'
               PROVE  \/ /\ i \in DOMAIN fromRuntime /\ fromRuntime'[i] = fromRuntime[i]
                         /\ ResponseAt(i)
                      \/ /\ i = n + 1
                         /\ fromRuntime'[i].id = toRuntime[1].id
                         /\ fromRuntime'[i].command = toRuntime[1].command
    OBVIOUS
  <2>1. CASE i \in 1 .. n
    BY <1>0, <1>3, <2>1 DEF ResponseAt
  <2>2. CASE i = n + 1
    BY <1>3, <1>4, <2>2
  <2>3. CASE i \in n + 2 .. Len(fromRuntime')
    <3>1. fromRuntime'[i] = stops[i - n - 1] /\ i - n - 1 \in 1 .. Len(stops)
      BY <1>0, <1>3, <2>3
    <3> QED
      BY <3>1 DEF ResponseAt
  <2> QED
    BY <1>0, <2>1, <2>2, <2>3
<1>6. QuestionsMatch'
  <2>1. \A i \in DOMAIN toRuntime' :
          /\ toRuntime'[i].id \in DOMAIN pending'
          /\ pending'[toRuntime'[i].id].command = toRuntime'[i].command
    BY <1>2 DEF Table, QuestionsMatch
  <2>2. ASSUME NEW i \in DOMAIN toRuntime', NEW j \in DOMAIN toRuntime',
               toRuntime'[i].id = toRuntime'[j].id
        PROVE  i = j
    <3>1. i + 1 = j + 1
      BY <1>2, <2>2 DEF Table, QuestionsMatch
    <3> QED
      BY <3>1, <1>0
  <2>3. \A i \in DOMAIN toRuntime', j \in DOMAIN fromRuntime' :
          ResponseAt(j)' => toRuntime'[i].id # fromRuntime'[j].id
    BY <1>1, <1>2, <1>5 DEF Table, QuestionsMatch
  <2> QED
    BY <2>1, <2>2, <2>3 DEF QuestionsMatch
<1>7. AnswersMatch'
  <2>1. \A i \in DOMAIN fromRuntime' : ResponseAt(i)' =>
          /\ fromRuntime'[i].id \in DOMAIN pending'
          /\ pending'[fromRuntime'[i].id].command = fromRuntime'[i].command
    BY <1>1, <1>5 DEF Table, QuestionsMatch, AnswersMatch
  <2>2. ASSUME NEW i \in DOMAIN fromRuntime', NEW j \in DOMAIN fromRuntime',
               ResponseAt(i)', ResponseAt(j)', fromRuntime'[i].id = fromRuntime'[j].id
        PROVE  i = j
    BY <1>1, <1>5, <2>2 DEF Table, QuestionsMatch, AnswersMatch
  <2> QED
    BY <2>1, <2>2 DEF AnswersMatch
<1>8. NoneForgotten'
  <2> SUFFICES ASSUME NEW id \in DOMAIN pending'
               PROVE  \/ \E i \in DOMAIN toRuntime' : toRuntime'[i].id = id
                      \/ \E i \in DOMAIN fromRuntime' : ResponseAt(i)' /\ fromRuntime'[i].id = id
    BY DEF NoneForgotten
  <2>1. ASSUME NEW i \in DOMAIN toRuntime, toRuntime[i].id = id
        PROVE  \/ \E j \in DOMAIN toRuntime' : toRuntime'[j].id = id
               \/ \E j \in DOMAIN fromRuntime' : ResponseAt(j)' /\ fromRuntime'[j].id = id
    <3>1. CASE i = 1
      <4>1. n + 1 \in DOMAIN fromRuntime' /\ fromRuntime'[n + 1].id = id
            /\ fromRuntime'[n + 1].type = "response"
        BY <1>0, <1>3, <1>4, <2>1, <3>1
      <4> QED
        BY <4>1 DEF ResponseAt
    <3>2. CASE i # 1
      <4>1. i - 1 \in DOMAIN toRuntime' /\ toRuntime'[i - 1] = toRuntime[i]
        BY <1>0, <1>1, <3>2
      <4> QED
        BY <2>1, <4>1
    <3> QED
      BY <3>1, <3>2
  <2>2. ASSUME NEW i \in DOMAIN fromRuntime, ResponseAt(i), fromRuntime[i].id = id
        PROVE  \E j \in DOMAIN fromRuntime' : ResponseAt(j)' /\ fromRuntime'[j].id = id
    <3>1. i \in DOMAIN fromRuntime' /\ fromRuntime'[i] = fromRuntime[i]
      BY <1>0, <1>3
    <3> QED
      BY <2>2, <3>1 DEF ResponseAt
  <2> QED
    BY <2>1, <2>2 DEF Table, NoneForgotten
<1> QED
  BY <1>6, <1>7, <1>8 DEF Table

\* The program reports something that is no answer.
LEMMA ReportTable ==
  ASSUME Pipes, Pipes', Table, UNCHANGED <<pending, toRuntime>>, state # "exited",
         NEW events \in Seq(Messages),
         \A i \in 1 .. Len(events) : events[i].type # "response",
         fromRuntime' = fromRuntime \o events
  PROVE  Table'
<1>0. /\ Len(fromRuntime) \in Nat /\ DOMAIN fromRuntime = 1 .. Len(fromRuntime)
      /\ Len(fromRuntime') \in Nat /\ DOMAIN fromRuntime' = 1 .. Len(fromRuntime')
      /\ Len(events) \in Nat
  BY LenProperties DEF Pipes
<1>1. /\ Len(fromRuntime') = Len(fromRuntime) + Len(events)
      /\ \A i \in 1 .. Len(fromRuntime) + Len(events) :
           fromRuntime'[i] = IF i <= Len(fromRuntime) THEN fromRuntime[i]
                                                      ELSE events[i - Len(fromRuntime)]
  BY ConcatProperties DEF Pipes
<1>2. \A i \in DOMAIN fromRuntime :
        /\ i \in DOMAIN fromRuntime' /\ fromRuntime'[i] = fromRuntime[i]
        /\ ResponseAt(i) => ResponseAt(i)'
  BY <1>0, <1>1 DEF ResponseAt
<1>3. \A i \in DOMAIN fromRuntime' : ResponseAt(i)' =>
        i \in DOMAIN fromRuntime /\ ResponseAt(i)
  <2> SUFFICES ASSUME NEW i \in DOMAIN fromRuntime', ResponseAt(i)', i \notin DOMAIN fromRuntime
               PROVE  FALSE
    BY <1>2 DEF ResponseAt
  <2>1. i - Len(fromRuntime) \in 1 .. Len(events)
        /\ fromRuntime'[i] = events[i - Len(fromRuntime)]
    BY <1>0, <1>1
  <2> QED
    BY <2>1 DEF ResponseAt
<1>4. QuestionsMatch'
  BY <1>2, <1>3 DEF Table, QuestionsMatch
<1>5. AnswersMatch'
  BY <1>2, <1>3 DEF Table, AnswersMatch
<1>6. NoneForgotten'
  BY <1>2 DEF Table, NoneForgotten
<1> QED
  BY <1>4, <1>5, <1>6 DEF Table

\* A stop and the end are no answers.
LEMMA EventsAreNoAnswers ==
  /\ \A n, l : /\ Len(StopAt(n, l)) = 1
               /\ \A i \in 1 .. Len(StopAt(n, l)) : StopAt(n, l)[i].type # "response"
  /\ Event("terminated", None).type # "response"
BY DEF StopAt, Event

-----------------------------------------------------------------------------
LEMMA ClientKeepsTable == Inv /\ Pipes' /\ Client => Table'
<1> SUFFICES ASSUME Inv, Pipes', Client PROVE Table'
  OBVIOUS
<1>1. Pipes /\ TableType /\ Table
  BY DEF Inv, TypeInv, Table
<1>2. fromRuntime' = fromRuntime /\ state' = state /\ \E call, arg : Send(call, arg)
  BY DEF Client, Start, Run, Pause, Disconnect, GetLocalVariables, SetLocalVariable,
         SendBreakpoints, SetBreakPoint, ClearBreakPoint, ClearBreakpoints,
         SetBreakpointsBulk, runtime
<1>3. Shifted(0)
  BY <1>1, <1>2, NotShifted
<1>4. PICK call, arg : Send(call, arg)
  BY <1>2
<1> QED
  BY <1>1, <1>2, <1>3, <1>4, SendTable

LEMMA OnLineKeepsTable == Inv /\ Pipes' /\ OnLine => Table'
<1> SUFFICES ASSUME Inv, Pipes', NEW m, OnResponse(m) \/ OnStopped(m) \/ OnTerminated(m)
             PROVE  Table'
  BY DEF OnLine
<1>1. Pipes /\ TableType /\ Table
  BY DEF Inv, TypeInv, Table
<1>2. CASE OnResponse(m)
  BY <1>1, <1>2, ResolveTable DEF OnResponse, runtime
<1>3. CASE OnStopped(m)
  <2>1. Shifted(1)
    BY <1>1, <1>3, ReceiveShifts DEF OnStopped
  <2> QED
    BY <1>1, <1>3, <2>1, SendTable DEF OnStopped, runtime
<1>4. CASE OnTerminated(m)
  <2>1. Shifted(1)
    BY <1>1, <1>4, ReceiveShifts DEF OnTerminated
  <2> QED
    BY <1>1, <1>4, <2>1, QuietTable DEF OnTerminated, runtime
<1> QED
  BY <1>2, <1>3, <1>4

LEMMA ContinuationKeepsTable == Inv /\ Pipes' /\ Continuation => Table'
<1> SUFFICES ASSUME Inv, Pipes', Continuation PROVE Table'
  OBVIOUS
<1>1. Pipes /\ TableType /\ Table
  BY DEF Inv, TypeInv, Table
<1>2. fromRuntime' = fromRuntime /\ state' = state /\ (NoSend \/ \E call, arg : Send(call, arg))
  BY DEF Continuation, Nothing, Refreshed, StopRefreshed, StopLocated, EditConfirmed,
         StartWentOn, runtime
<1>3. Shifted(0)
  BY <1>1, <1>2, NotShifted
<1>4. CASE NoSend
  BY <1>1, <1>2, <1>3, <1>4, QuietTable
<1>5. ASSUME NEW call, NEW arg, Send(call, arg) PROVE Table'
  BY <1>1, <1>2, <1>3, <1>5, SendTable
<1> QED
  BY <1>2, <1>4, <1>5

LEMMA AnswerType ==
  ASSUME Pipes, NEW command, Serve(command), NEW success \in BOOLEAN, NEW body \in Bodies,
         command = "getLocalVariables" => body \in Locals,
         command = "stackTrace" => body \in Lines
  PROVE  Response(Head(toRuntime), success, body) \in Messages
<1>1. toRuntime \in Seq(Requests) /\ toRuntime # <<>> /\ Head(toRuntime).command = command
  BY DEF Pipes, Serve
<1>2. Head(toRuntime) \in Requests
  BY <1>1, HeadTailProperties
<1> QED
  BY <1>1, <1>2, ResponseType

\* Every request is answered once; with a launch or a pause may come one stop.
LEMMA ServiceReplies ==
  ASSUME Pipes, RuntimeType, Service
  PROVE  \E success \in BOOLEAN, body \in Bodies, stops \in Seq(Messages) :
           /\ Response(Head(toRuntime), success, body) \in Messages
           /\ Reply(success, body, stops)
           /\ \A i \in 1 .. Len(stops) : stops[i].type # "response"
           /\ \/ stops = <<>> /\ raised' = raised
              \/ stops = StopAt(raised + 1, line) /\ raised' = raised + 1
<1> DEFINE Replied(success, body, stops) ==
      /\ Response(Head(toRuntime), success, body) \in Messages
      /\ Reply(success, body, stops)
      /\ \A i \in 1 .. Len(stops) : stops[i].type # "response"
      /\ \/ stops = <<>> /\ raised' = raised
         \/ stops = StopAt(raised + 1, line) /\ raised' = raised + 1
<1>1. /\ <<>> \in Seq(Messages) /\ None \in Bodies
      /\ \A i \in 1 .. Len(<<>>) : <<>>[i].type # "response"
  BY BodyTypes, EmptySeq
<1>2. StopAt(raised + 1, line) \in Seq(Messages)
      /\ \A i \in 1 .. Len(StopAt(raised + 1, line)) :
           StopAt(raised + 1, line)[i].type # "response"
  BY StopType, EventsAreNoAnswers DEF RuntimeType
<1>3. CASE ServeLocals
  <2>1. PICK command \in {"getLocalVariables"} :
          Serve(command) /\ Reply(TRUE, vars, <<>>) /\ raised' = raised
    BY <1>3 DEF ServeLocals
  <2>2. vars \in Locals /\ vars \in Bodies
    BY BodyTypes DEF RuntimeType
  <2>3. Replied(TRUE, vars, <<>>)
    BY <1>1, <2>1, <2>2, AnswerType
  <2> QED
    BY <1>1, <2>2, <2>3
<1>4. CASE ServeStack
  <2>1. PICK command \in {"stackTrace"} :
          Serve(command) /\ Reply(TRUE, line, <<>>) /\ raised' = raised
    BY <1>4 DEF ServeStack
  <2>2. line \in Lines /\ line \in Bodies
    BY BodyTypes DEF RuntimeType
  <2>3. Replied(TRUE, line, <<>>)
    BY <1>1, <2>1, <2>2, AnswerType
  <2> QED
    BY <1>1, <2>2, <2>3
<1>5. CASE ServeLaunch \/ ServePause
  <2>1. PICK command \in {"launch", "pause"}, stops \in {<<>>, StopAt(raised + 1, line)} :
          /\ Serve(command) /\ Reply(TRUE, None, stops)
          /\ \/ stops = <<>> /\ raised' = raised
             \/ stops = StopAt(raised + 1, line) /\ raised' = raised + 1
    BY <1>5 DEF ServeLaunch, ServePause
  <2>2. Replied(TRUE, None, stops) /\ stops \in Seq(Messages)
    BY <1>1, <1>2, <2>1, AnswerType
  <2> QED
    BY <1>1, <2>2
<1>6. CASE ServeInitialize \/ RefuseLaunch \/ ServeSetVariable \/ ServeBreakpoints
           \/ ServeDisconnect \/ \E command \in {"continue", "next"} : ServeRun(command)
  <2>1. PICK command \in Commands \ {"getLocalVariables", "stackTrace"}, success \in BOOLEAN :
          Serve(command) /\ Reply(success, None, <<>>) /\ raised' = raised
    BY <1>6 DEF ServeInitialize, RefuseLaunch, ServeSetVariable, ServeBreakpoints,
                ServeDisconnect, ServeRun, Commands
  <2>2. Replied(success, None, <<>>)
    BY <1>1, <2>1, AnswerType
  <2> QED
    BY <1>1, <2>2
<1> QED
  BY <1>3, <1>4, <1>5, <1>6 DEF Service

LEMMA ServiceWaits ==
  Service => /\ state # "exited" /\ toRuntime # <<>>
             /\ UNCHANGED <<reqId, pending, ready, hasLine, notices, notified>>
BY DEF Service, ServeInitialize, ServeLaunch, RefuseLaunch, ServePause, ServeLocals, ServeStack,
       ServeSetVariable, ServeBreakpoints, ServeDisconnect, ServeRun, Serve, loop, client

LEMMA ServiceKeepsTable == Inv /\ Pipes' /\ Service => Table'
<1> SUFFICES ASSUME Inv, Pipes', Service PROVE Table'
  OBVIOUS
<1>1. Pipes /\ Table /\ RuntimeType
  BY DEF Inv, TypeInv, Table
<1>2. PICK success \in BOOLEAN, body \in Bodies, stops \in Seq(Messages) :
        /\ Response(Head(toRuntime), success, body) \in Messages
        /\ Reply(success, body, stops)
        /\ \A i \in 1 .. Len(stops) : stops[i].type # "response"
  BY <1>1, ServiceReplies
<1> QED
  BY <1>1, <1>2, ServiceWaits, ReplyTable

\* What the program reports is the end or one stop.
LEMMA ReportsAreEvents ==
  ASSUME Pipes, RuntimeType, ProgramReports
  PROVE  \E events \in Seq(Messages) :
           /\ \A i \in 1 .. Len(events) : events[i].type # "response"
           /\ fromRuntime' = fromRuntime \o events
           /\ \/ events = <<Event("terminated", None)>> /\ raised' = raised
              \/ \E l \in Lines : events = StopAt(raised + 1, l) /\ raised' = raised + 1
<1>1. CASE ProgramEnds
  <2>1. <<Event("terminated", None)>> \in Seq(Messages)
        /\ Len(<<Event("terminated", None)>>) = 1
        /\ <<Event("terminated", None)>>[1] = Event("terminated", None)
    BY EndType
  <2>2. fromRuntime' = fromRuntime \o <<Event("terminated", None)>> /\ raised' = raised
    BY <1>1, AppendIsConcat, EndType DEF ProgramEnds, Pipes
  <2>3. \A i \in 1 .. Len(<<Event("terminated", None)>>) :
          <<Event("terminated", None)>>[i].type # "response"
    BY <2>1, EventsAreNoAnswers
  <2> QED
    BY <2>1, <2>2, <2>3
<1>2. ASSUME NEW l \in Lines, ProgramStops(l)
      PROVE  \E events \in Seq(Messages) :
               /\ \A i \in 1 .. Len(events) : events[i].type # "response"
               /\ fromRuntime' = fromRuntime \o events
               /\ events = StopAt(raised + 1, l) /\ raised' = raised + 1
  <2>1. StopAt(raised + 1, l) \in Seq(Messages)
        /\ \A i \in 1 .. Len(StopAt(raised + 1, l)) :
             StopAt(raised + 1, l)[i].type # "response"
    BY StopType, EventsAreNoAnswers DEF RuntimeType
  <2> QED
    BY <1>2, <2>1 DEF ProgramStops
<1> QED
  BY <1>1, <1>2 DEF ProgramReports

LEMMA ProgramKeepsTable ==
  ASSUME Inv, Pipes',
         ProgramReports \/ \E n \in Names, v \in Values : ProgramAssigns(n, v)
  PROVE  Table'
<1>1. Pipes /\ Table /\ RuntimeType
  BY DEF Inv, TypeInv, Table
<1>2. CASE ProgramReports
  <2>1. UNCHANGED <<pending, toRuntime>> /\ state # "exited"
    BY <1>2 DEF ProgramReports, ProgramEnds, ProgramStops, Program
  <2>2. PICK events \in Seq(Messages) :
          /\ \A i \in 1 .. Len(events) : events[i].type # "response"
          /\ fromRuntime' = fromRuntime \o events
    BY <1>1, <1>2, ReportsAreEvents
  <2> QED
    BY <1>1, <2>1, <2>2, ReportTable
<1>3. ASSUME NEW n \in Names, NEW v \in Values, ProgramAssigns(n, v) PROVE Table'
  BY <1>1, <1>3, NotShifted, QuietTable DEF ProgramAssigns, Program, NoSend
<1> QED
  BY <1>2, <1>3

LEMMA ExitKeepsTable == Inv /\ Pipes' /\ (Exit \/ OnExit \/ UNCHANGED allVars) => Table'
<1> SUFFICES ASSUME Inv, Pipes', Exit \/ OnExit \/ UNCHANGED allVars PROVE Table'
  OBVIOUS
<1>1. Pipes /\ Table
  BY DEF Inv, TypeInv, Table
<1>2. CASE Exit
  <2>1. toRuntime' = <<>> /\ state' = "exited" /\ UNCHANGED <<pending, fromRuntime>>
    BY <1>2 DEF Exit
  <2>2. DOMAIN toRuntime' = {}
    BY <2>1
  <2>3. QuestionsMatch' /\ NoneForgotten'
    BY <2>1, <2>2 DEF QuestionsMatch, NoneForgotten
  <2>4. AnswersMatch'
    BY <1>1, <2>1 DEF Table, AnswersMatch, ResponseAt
  <2> QED
    BY <2>3, <2>4 DEF Table
<1>3. CASE OnExit \/ UNCHANGED allVars
  BY <1>1, <1>3, NotShifted, QuietTable DEF OnExit, allVars, runtime, NoSend
<1> QED
  BY <1>2, <1>3

LEMMA InitInv == Init => Inv
<1> SUFFICES ASSUME Init PROVE Inv
  OBVIOUS
<1>1. DOMAIN toRuntime = {} /\ DOMAIN fromRuntime = {} /\ DOMAIN pending = {}
  BY DEF Init
<1>2. NoLocals \in Locals
  BY DEF NoLocals, Locals
<1>3. Pipes
  BY EmptySeq DEF Init, Pipes
<1>4. TableType
  BY <1>1 DEF Init, TableType
<1>5. CacheType /\ RuntimeType /\ ClientType
  BY <1>2, ConstantsAssumption
     DEF Init, ConstantsAssumption, CacheType, RuntimeType, ClientType
<1>6. QuestionsMatch /\ AnswersMatch /\ NoneForgotten
  BY <1>1 DEF QuestionsMatch, AnswersMatch, NoneForgotten
<1> QED
  BY <1>3, <1>4, <1>5, <1>6 DEF Inv, TypeInv

LEMMA NextInv == Inv /\ [Next]_allVars => Inv'
<1> SUFFICES ASSUME Inv, [Next]_allVars PROVE Inv'
  OBVIOUS
<1>1. TypeInv'
  BY OnLineTypes, ContinuationTypes, ClientTypes, ServiceTypes, ProgramTypes, ExitTypes
     DEF Inv, Next
<1>2. Pipes'
  BY <1>1 DEF TypeInv
<1>3. Table'
  BY <1>2, OnLineKeepsTable, ContinuationKeepsTable, ClientKeepsTable, ServiceKeepsTable,
     ProgramKeepsTable, ExitKeepsTable DEF Next
<1> QED
  BY <1>1, <1>3 DEF Inv, Table

-----------------------------------------------------------------------------
(* Theorems.                                                                *)

\* The types, the matching of requests and answers with the table of pending calls,
\* and that no call is forgotten hold together after every step of the proxy
\* (baseRuntime.ts), the client and the runtime.
THEOREM Invariant == Spec => []Inv
BY InitInv, NextInv, PTL DEF Spec

\* Type correctness: in particular, what a promise of send resumes with is what the
\* command of its request answers, whatever order requests were sent in.
THEOREM TypeCorrect == Spec => []TypeOK
<1>1. Inv => TypeOK
  BY TypeInvGivesTypeOK DEF Inv
<1> QED
  BY <1>1, Invariant, PTL

\* Every response onLine reads finds its call in the pending map, the right one,
\* and no two responses claim the same call, however many calls overlap.
THEOREM EveryAnswerExpected == Spec => []AnswersMatch
<1>1. Inv => AnswersMatch
  BY DEF Inv
<1> QED
  BY <1>1, Invariant, PTL

\* The pending map of send holds no call that nothing will settle, as long as the
\* runtime's process lives.
THEOREM NothingForgotten == Spec => []NoneForgotten
<1>1. Inv => NoneForgotten
  BY DEF Inv
<1> QED
  BY <1>1, Invariant, PTL

-----------------------------------------------------------------------------
(* The breakpoints.                                                         *)

Changes(i) == toRuntime[i].command = "setBreakpoints"

\* While the runtime lives, the last change of the breakpoints on its way to it is
\* the adapter's set, and with none on its way it has that set.
LastChange ==
  /\ state # "exited" =>
       \A i \in DOMAIN toRuntime :
         Changes(i) /\ (\A j \in DOMAIN toRuntime : j > i => ~Changes(j))
           => toRuntime[i].arg = breakpoints
  /\ BreakpointsAgree

LEMMA SendKeepsLast ==
  ASSUME Inv, Pipes', LastChange, NEW call, NEW arg, Send(call, arg), UNCHANGED <<state, lines>>,
         IF call.command = "setBreakpoints" THEN breakpoints' = arg
                                            ELSE breakpoints' = breakpoints
  PROVE  LastChange'
<1> SUFFICES ASSUME state # "exited" PROVE LastChange'
  BY DEF LastChange, BreakpointsAgree
<1>1. /\ Len(toRuntime) \in Nat /\ DOMAIN toRuntime = 1 .. Len(toRuntime)
      /\ DOMAIN toRuntime' = 1 .. Len(toRuntime')
  BY PipeDomains, LenProperties DEF Inv, TypeInv, Pipes
<1>2. /\ Len(toRuntime') = Len(toRuntime) + 1
      /\ \A i \in 1 .. Len(toRuntime) : toRuntime'[i] = toRuntime[i]
      /\ toRuntime'[Len(toRuntime) + 1] = Request(reqId, call.command, arg)
  BY SendPipe DEF Inv, TypeInv, Pipes
<1>3. Request(reqId, call.command, arg).command = call.command
      /\ Request(reqId, call.command, arg).arg = arg
  BY DEF Request
<1>4. CASE call.command = "setBreakpoints"
  <2>0. PICK k \in Nat : k = Len(toRuntime) + 1
    BY <1>1
  <2>1. Changes(k)' /\ toRuntime'[k].arg = breakpoints'
    BY <1>2, <1>3, <1>4, <2>0 DEF Changes
  <2>2. \A i \in DOMAIN toRuntime' : i = k \/ k > i
    BY <1>1, <1>2, <2>0
  <2>3. k \in DOMAIN toRuntime'
    BY <1>1, <1>2, <2>0
  <2> QED
    BY <2>1, <2>2, <2>3 DEF LastChange, BreakpointsAgree, Changes
<1>5. CASE call.command # "setBreakpoints"
  <2>1. \A i \in DOMAIN toRuntime' : Changes(i)' => i \in DOMAIN toRuntime /\ Changes(i)
                                                   /\ toRuntime'[i].arg = toRuntime[i].arg
    <3>1. \A i \in DOMAIN toRuntime' : i \in DOMAIN toRuntime \/ i = Len(toRuntime) + 1
      BY <1>1, <1>2
    <3> QED
      BY <1>1, <1>2, <1>3, <1>5, <3>1 DEF Changes
  <2>2. \A i \in DOMAIN toRuntime : i \in DOMAIN toRuntime' /\ (Changes(i) => Changes(i)')
    BY <1>1, <1>2 DEF Changes
  <2> QED
    BY <1>5, <2>1, <2>2 DEF LastChange, BreakpointsAgree, Changes
<1> QED
  BY <1>4, <1>5

LEMMA RestKeepsLast ==
  ASSUME LastChange, UNCHANGED <<toRuntime, breakpoints, lines>>,
         state' # "exited" => state # "exited"
  PROVE  LastChange'
BY DEF LastChange, BreakpointsAgree, Changes

LEMMA ReplyKeepsLast ==
  ASSUME Inv, Pipes', LastChange, NEW command, Serve(command),
         NEW success, NEW body, NEW stops, Reply(success, body, stops),
         IF command = "setBreakpoints" THEN lines' = Argument ELSE lines' = lines
  PROVE  LastChange'
<1>1. /\ Len(toRuntime) \in Nat /\ DOMAIN toRuntime = 1 .. Len(toRuntime)
      /\ DOMAIN toRuntime' = 1 .. Len(toRuntime')
  BY PipeDomains, LenProperties DEF Inv, TypeInv, Pipes
<1>2. /\ toRuntime \in Seq(Requests) /\ toRuntime # <<>> /\ Head(toRuntime).command = command
      /\ toRuntime' = Tail(toRuntime) /\ Head(toRuntime) = toRuntime[1]
      /\ state # "exited" /\ breakpoints' = breakpoints
  BY DEF Inv, TypeInv, Pipes, Serve, Reply
<1>3. /\ Len(toRuntime') = Len(toRuntime) - 1 /\ 1 \in DOMAIN toRuntime
      /\ \A i \in DOMAIN toRuntime' : toRuntime'[i] = toRuntime[i + 1] /\ i + 1 \in DOMAIN toRuntime
  <2>1. Len(toRuntime) # 0
    BY <1>2, EmptySeq
  <2> QED
    BY <1>1, <1>2, <2>1, HeadTailProperties
<1>4. \A j \in DOMAIN toRuntime : j = 1 \/ j - 1 \in DOMAIN toRuntime'
  BY <1>1, <1>3
<1>5. \A i \in DOMAIN toRuntime' : Changes(i)' <=> Changes(i + 1)
  BY <1>3 DEF Changes
<1>6. ASSUME NEW i \in DOMAIN toRuntime', Changes(i)',
             \A j \in DOMAIN toRuntime' : j > i => ~Changes(j)'
      PROVE  toRuntime'[i].arg = breakpoints'
  <2>1. \A j \in DOMAIN toRuntime : j > i + 1 => ~Changes(j)
    <3> SUFFICES ASSUME NEW j \in DOMAIN toRuntime, j > i + 1 PROVE ~Changes(j)
      OBVIOUS
    <3>1. j - 1 \in DOMAIN toRuntime' /\ j - 1 > i /\ (j - 1) + 1 = j
      BY <1>1, <1>3, <1>4
    <3> QED
      BY <1>5, <1>6, <3>1
  <2> QED
    BY <1>2, <1>3, <1>5, <1>6, <2>1 DEF LastChange
<1>7. ASSUME \A j \in DOMAIN toRuntime' : ~Changes(j)' PROVE lines' = breakpoints'
  <2>1. \A j \in DOMAIN toRuntime : j # 1 => ~Changes(j)
    <3> SUFFICES ASSUME NEW j \in DOMAIN toRuntime, j # 1 PROVE ~Changes(j)
      OBVIOUS
    <3>1. j - 1 \in DOMAIN toRuntime' /\ (j - 1) + 1 = j
      BY <1>1, <1>4
    <3> QED
      BY <1>5, <1>7, <3>1
  <2>2. CASE command = "setBreakpoints"
    <3>1. Changes(1) /\ lines' = toRuntime[1].arg
      BY <1>2, <2>2 DEF Changes, Argument
    <3>2. \A j \in DOMAIN toRuntime : j > 1 => ~Changes(j)
      BY <1>1, <2>1
    <3>3. toRuntime[1].arg = breakpoints
      BY <1>2, <1>3, <3>1, <3>2 DEF LastChange
    <3> QED
      BY <1>2, <3>1, <3>3
  <2>3. CASE command # "setBreakpoints"
    <3>1. ~Changes(1)
      BY <1>2, <2>3 DEF Changes
    <3>2. \A j \in DOMAIN toRuntime : ~Changes(j)
      BY <2>1, <3>1
    <3> QED
      BY <1>2, <2>3, <3>2 DEF LastChange, BreakpointsAgree, Changes
  <2> QED
    BY <2>2, <2>3
<1> QED
  BY <1>6, <1>7 DEF LastChange, BreakpointsAgree, Changes

LEMMA NextKeepsLast == Inv /\ LastChange /\ Inv' /\ [Next]_allVars => LastChange'
<1> SUFFICES ASSUME Inv, LastChange, Inv', [Next]_allVars PROVE LastChange'
  OBVIOUS
<1>0. Pipes'
  BY DEF Inv, TypeInv
<1>1. CASE Client
  <2>1. ASSUME NEW bs, SendBreakpoints(bs) PROVE LastChange'
    BY <1>0, <2>1, CommandsOfCalls, SendKeepsLast DEF SendBreakpoints, runtime
  <2>2. CASE \E bs : SendBreakpoints(bs)
    BY <2>1, <2>2
  <2>3. CASE ~ \E bs : SendBreakpoints(bs)
    <3>1. PICK call, arg : Send(call, arg) /\ call.command # "setBreakpoints"
      <4>1. \/ Start \/ Pause \/ Disconnect \/ GetLocalVariables
            \/ \E command \in {"continue", "next"} : Run(command)
            \/ \E n \in Names, v \in Values : SetLocalVariable(n, v)
        BY <1>1, <2>3 DEF Client, SetBreakPoint, ClearBreakPoint, ClearBreakpoints,
           SetBreakpointsBulk
      <4> QED
        BY <4>1, CommandsOfCalls DEF Start, Run, Pause, Disconnect, GetLocalVariables,
           SetLocalVariable
    <3>2. UNCHANGED <<state, lines, breakpoints>>
      BY <1>1, <2>3 DEF Client, Start, Run, Pause, Disconnect, GetLocalVariables,
         SetLocalVariable, SetBreakPoint, ClearBreakPoint, ClearBreakpoints,
         SetBreakpointsBulk, runtime
    <3> QED
      BY <1>0, <3>1, <3>2, SendKeepsLast
  <2> QED
    BY <2>2, <2>3
<1>2. CASE OnLine \/ Continuation
  <2>1. UNCHANGED <<state, lines, breakpoints>>
    BY <1>2 DEF OnLine, OnResponse, OnStopped, OnTerminated, Continuation, Nothing, Refreshed,
       StopRefreshed, StopLocated, EditConfirmed, StartWentOn, runtime
  <2>2. \/ UNCHANGED toRuntime
        \/ \E call, arg : Send(call, arg) /\ call.command # "setBreakpoints"
    BY <1>2, CommandsOfCalls DEF OnLine, OnResponse, OnStopped, OnTerminated, Continuation,
       Nothing, Refreshed, StopRefreshed, StopLocated, EditConfirmed, StartWentOn, NoSend
  <2> QED
    BY <1>0, <2>1, <2>2, SendKeepsLast, RestKeepsLast
<1>3. CASE Service
  <2>1. CASE ServeBreakpoints
    BY <1>0, <2>1, ReplyKeepsLast DEF ServeBreakpoints
  <2>2. CASE ~ServeBreakpoints
    <3>1. PICK command \in Commands \ {"setBreakpoints"} :
            Serve(command) /\ \E success, body, stops : Reply(success, body, stops)
      BY <1>3, <2>2 DEF Service, ServeInitialize, ServeLaunch, RefuseLaunch, ServePause,
         ServeLocals, ServeStack, ServeSetVariable, ServeDisconnect, ServeRun, Commands
    <3>2. lines' = lines
      BY <1>3, <2>2 DEF Service, ServeInitialize, ServeLaunch, RefuseLaunch, ServePause,
         ServeLocals, ServeStack, ServeSetVariable, ServeDisconnect, ServeRun
    <3> QED
      BY <1>0, <3>1, <3>2, ReplyKeepsLast
  <2> QED
    BY <2>1, <2>2
<1>4. CASE Exit
  BY <1>4 DEF Exit, LastChange, BreakpointsAgree
<1>5. CASE \/ OnExit \/ ProgramReports \/ UNCHANGED allVars
           \/ \E n \in Names, v \in Values : ProgramAssigns(n, v)
  BY <1>5, RestKeepsLast DEF OnExit, ProgramReports, ProgramEnds, ProgramStops, ProgramAssigns,
     Program, allVars, runtime
<1> QED
  BY <1>1, <1>2, <1>3, <1>4, <1>5 DEF Next

LEMMA LastChangeAtFirst == Init => LastChange
BY DEF Init, LastChange, BreakpointsAgree

\* With no change of the breakpoints under way, the runtime has the adapter's.
THEOREM BreakpointsArrive == Spec => []BreakpointsAgree
<1>1. Spec => []LastChange
  BY LastChangeAtFirst, NextKeepsLast, Invariant, PTL DEF Spec
<1>2. LastChange => BreakpointsAgree
  BY DEF LastChange
<1> QED
  BY <1>1, <1>2, PTL

-----------------------------------------------------------------------------
(* The order of the calls.                                                  *)

\* The answers and, behind them, the requests are in the order of their ids, and
\* a call older than one that is answered is answered before it.
PipesInOrder ==
  /\ \A i, j \in DOMAIN fromRuntime :
       ResponseAt(i) /\ ResponseAt(j) /\ i < j => fromRuntime[i].id < fromRuntime[j].id
  /\ \A i, j \in DOMAIN toRuntime : i < j => toRuntime[i].id < toRuntime[j].id
  /\ \A i \in DOMAIN fromRuntime, j \in DOMAIN toRuntime :
       ResponseAt(i) => fromRuntime[i].id < toRuntime[j].id
  /\ \A i \in DOMAIN fromRuntime, id \in DOMAIN pending :
       ResponseAt(i) /\ id < fromRuntime[i].id =>
         \E j \in DOMAIN fromRuntime : ResponseAt(j) /\ fromRuntime[j].id = id

\* The callers to resume are in the order of their ids, before all that wait.
ReadyInOrder ==
  /\ \A i, j \in DOMAIN ready : i < j => ready[i].answer.id < ready[j].answer.id
  /\ \A i \in DOMAIN ready : /\ ready[i].answer.id < reqId
                             /\ \A id \in DOMAIN pending : ready[i].answer.id < id

LEMMA ShiftedAnswers ==
  ASSUME Pipes, Pipes', NEW k \in {0, 1}, Shifted(k)
  PROVE  /\ \A i \in DOMAIN fromRuntime' :
              /\ i + k \in DOMAIN fromRuntime /\ fromRuntime'[i] = fromRuntime[i + k]
              /\ ResponseAt(i)' => ResponseAt(i + k)
         /\ \A i \in DOMAIN fromRuntime : ResponseAt(i) =>
              /\ i - k \in DOMAIN fromRuntime' /\ fromRuntime'[i - k] = fromRuntime[i]
              /\ ResponseAt(i - k)'
<1>0. /\ Len(fromRuntime) \in Nat /\ DOMAIN fromRuntime = 1 .. Len(fromRuntime)
      /\ Len(fromRuntime') \in Nat /\ DOMAIN fromRuntime' = 1 .. Len(fromRuntime')
  BY LenProperties DEF Pipes
<1>1. /\ Len(fromRuntime') = Len(fromRuntime) - k
      /\ \A i \in 1 .. Len(fromRuntime') : fromRuntime'[i] = fromRuntime[i + k]
  BY DEF Shifted
<1>2. \A i \in DOMAIN fromRuntime' :
        i + k \in DOMAIN fromRuntime /\ fromRuntime'[i] = fromRuntime[i + k]
  <2>1. k \in Int
    OBVIOUS
  <2>2. \A i \in 1 .. Len(fromRuntime') : i + k \in 1 .. Len(fromRuntime)
    BY <1>0, <1>1, <2>1
  <2> QED
    BY <1>0, <1>1, <2>2
<1>3. ASSUME NEW i \in DOMAIN fromRuntime, ResponseAt(i)
      PROVE  /\ i - k \in DOMAIN fromRuntime' /\ fromRuntime'[i - k] = fromRuntime[i]
             /\ ResponseAt(i - k)'
  <2>1. i - k \in 1 .. Len(fromRuntime')
    BY <1>0, <1>1, <1>3 DEF Shifted, ResponseAt
  <2>2. fromRuntime'[i - k] = fromRuntime[i]
    BY <1>0, <1>1, <2>1
  <2> QED
    BY <1>0, <1>3, <2>1, <2>2 DEF ResponseAt
<1> QED
  BY <1>2, <1>3 DEF ResponseAt

LEMMA SendPipesInOrder ==
  ASSUME Pipes, Pipes', TableType, Table, PipesInOrder, state' = state,
         NEW call, NEW arg, Send(call, arg), NEW k \in {0, 1}, Shifted(k)
  PROVE  PipesInOrder'
<1>0. Len(toRuntime) \in Nat /\ DOMAIN toRuntime = 1 .. Len(toRuntime)
      /\ DOMAIN toRuntime' = 1 .. Len(toRuntime')
  BY LenProperties DEF Pipes
<1>1. /\ \A i \in DOMAIN fromRuntime' :
           /\ i + k \in DOMAIN fromRuntime /\ fromRuntime'[i] = fromRuntime[i + k]
           /\ ResponseAt(i)' => ResponseAt(i + k)
      /\ \A i \in DOMAIN fromRuntime : ResponseAt(i) =>
           /\ i - k \in DOMAIN fromRuntime' /\ fromRuntime'[i - k] = fromRuntime[i]
           /\ ResponseAt(i - k)'
  BY ShiftedAnswers
<1>2. reqId \in Nat /\ \A id \in DOMAIN pending : id \in Nat /\ id < reqId
  BY DEF TableType
<1>3. DOMAIN pending' = DOMAIN pending \cup {reqId}
  BY SendPipe DEF Pipes
<1>4. \A i \in DOMAIN toRuntime' :
        \/ i \in DOMAIN toRuntime /\ toRuntime'[i] = toRuntime[i]
        \/ i = Len(toRuntime) + 1 /\ toRuntime'[i].id = reqId
  <2>1. Request(reqId, call.command, arg).id = reqId
    BY DEF Request
  <2>2. CASE state = "exited"
    BY <2>2, SendPipe DEF Pipes
  <2>3. CASE state # "exited"
    <3>1. /\ Len(toRuntime') = Len(toRuntime) + 1
          /\ \A i \in 1 .. Len(toRuntime) : toRuntime'[i] = toRuntime[i]
          /\ toRuntime'[Len(toRuntime) + 1].id = reqId
      BY <2>1, <2>3, SendPipe DEF Pipes
    <3> QED
      BY <1>0, <3>1
  <2> QED
    BY <2>2, <2>3
<1>5. /\ \A i \in DOMAIN toRuntime : toRuntime[i].id < reqId /\ toRuntime[i].id \in Nat
      /\ \A i \in DOMAIN fromRuntime :
           ResponseAt(i) => fromRuntime[i].id < reqId /\ fromRuntime[i].id \in Nat
  BY <1>2 DEF Table, QuestionsMatch, AnswersMatch
<1>6. \A i, j \in DOMAIN fromRuntime' :
        ResponseAt(i)' /\ ResponseAt(j)' /\ i < j => fromRuntime'[i].id < fromRuntime'[j].id
  <2> SUFFICES ASSUME NEW i \in DOMAIN fromRuntime', NEW j \in DOMAIN fromRuntime',
                      ResponseAt(i)', ResponseAt(j)', i < j
               PROVE  fromRuntime'[i].id < fromRuntime'[j].id
    OBVIOUS
  <2>1. i + k < j + k
    BY LenProperties DEF Pipes
  <2> QED
    BY <1>1, <2>1 DEF PipesInOrder
<1>7. \A i, j \in DOMAIN toRuntime' : i < j => toRuntime'[i].id < toRuntime'[j].id
  BY <1>0, <1>4, <1>5 DEF PipesInOrder
<1>8. \A i \in DOMAIN fromRuntime', j \in DOMAIN toRuntime' :
        ResponseAt(i)' => fromRuntime'[i].id < toRuntime'[j].id
  BY <1>1, <1>4, <1>5 DEF PipesInOrder
<1>9. \A i \in DOMAIN fromRuntime', id \in DOMAIN pending' :
        ResponseAt(i)' /\ id < fromRuntime'[i].id =>
          \E j \in DOMAIN fromRuntime' : ResponseAt(j)' /\ fromRuntime'[j].id = id
  <2> SUFFICES ASSUME NEW i \in DOMAIN fromRuntime', NEW id \in DOMAIN pending',
                      ResponseAt(i)', id < fromRuntime'[i].id
               PROVE  \E j \in DOMAIN fromRuntime' : ResponseAt(j)' /\ fromRuntime'[j].id = id
    OBVIOUS
  <2>1. /\ i + k \in DOMAIN fromRuntime /\ ResponseAt(i + k)
        /\ fromRuntime[i + k].id = fromRuntime'[i].id
    BY <1>1
  <2>2. id \in DOMAIN pending
    BY <1>2, <1>3, <1>5, <2>1
  <2>3. PICK j \in DOMAIN fromRuntime : ResponseAt(j) /\ fromRuntime[j].id = id
    BY <2>1, <2>2 DEF PipesInOrder
  <2> QED
    BY <1>1, <2>3
<1> QED
  BY <1>6, <1>7, <1>8, <1>9 DEF PipesInOrder

LEMMA QuietPipesInOrder ==
  ASSUME Pipes, Pipes', PipesInOrder, NoSend, NEW k \in {0, 1}, Shifted(k)
  PROVE  PipesInOrder'
<1>1. /\ \A i \in DOMAIN fromRuntime' :
           /\ i + k \in DOMAIN fromRuntime /\ fromRuntime'[i] = fromRuntime[i + k]
           /\ ResponseAt(i)' => ResponseAt(i + k)
      /\ \A i \in DOMAIN fromRuntime : ResponseAt(i) =>
           /\ i - k \in DOMAIN fromRuntime' /\ fromRuntime'[i - k] = fromRuntime[i]
           /\ ResponseAt(i - k)'
  BY ShiftedAnswers
<1>2. \A i, j \in DOMAIN fromRuntime' :
        ResponseAt(i)' /\ ResponseAt(j)' /\ i < j => fromRuntime'[i].id < fromRuntime'[j].id
  <2> SUFFICES ASSUME NEW i \in DOMAIN fromRuntime', NEW j \in DOMAIN fromRuntime',
                      ResponseAt(i)', ResponseAt(j)', i < j
               PROVE  fromRuntime'[i].id < fromRuntime'[j].id
    OBVIOUS
  <2>1. i + k < j + k
    BY LenProperties DEF Pipes
  <2> QED
    BY <1>1, <2>1 DEF PipesInOrder
<1>3. UNCHANGED <<toRuntime, pending>>
  BY DEF NoSend
<1>4. \A i \in DOMAIN fromRuntime', j \in DOMAIN toRuntime' :
        ResponseAt(i)' => fromRuntime'[i].id < toRuntime'[j].id
  BY <1>1, <1>3 DEF PipesInOrder
<1>5. \A i \in DOMAIN fromRuntime', id \in DOMAIN pending' :
        ResponseAt(i)' /\ id < fromRuntime'[i].id =>
          \E j \in DOMAIN fromRuntime' : ResponseAt(j)' /\ fromRuntime'[j].id = id
  <2> SUFFICES ASSUME NEW i \in DOMAIN fromRuntime', NEW id \in DOMAIN pending',
                      ResponseAt(i)', id < fromRuntime'[i].id
               PROVE  \E j \in DOMAIN fromRuntime' : ResponseAt(j)' /\ fromRuntime'[j].id = id
    OBVIOUS
  <2>1. PICK j \in DOMAIN fromRuntime : ResponseAt(j) /\ fromRuntime[j].id = id
    BY <1>1, <1>3 DEF PipesInOrder
  <2> QED
    BY <1>1, <2>1
<1> QED
  BY <1>2, <1>3, <1>4, <1>5 DEF PipesInOrder

\* The first answer is to the oldest call, which leaves the table for the callers
\* to resume.
LEMMA ResolveInOrder ==
  ASSUME Pipes, Pipes', TableType, Table, PipesInOrder, ReadyInOrder,
         NEW m, m.type = "response", Receive(m), Resolve(m), UNCHANGED <<toRuntime, reqId>>
  PROVE  /\ PipesInOrder' /\ ReadyInOrder'
         /\ m.id \in DOMAIN pending
         /\ pending' = [id \in DOMAIN pending \ {m.id} |-> pending[id]]
         /\ ready' = Append(ready, [call |-> pending[m.id], answer |-> m])
<1>0. /\ Len(fromRuntime) \in Nat /\ DOMAIN fromRuntime = 1 .. Len(fromRuntime)
      /\ Len(fromRuntime') \in Nat /\ DOMAIN fromRuntime' = 1 .. Len(fromRuntime')
  BY LenProperties DEF Pipes
<1>1. fromRuntime \in Seq(Messages) /\ fromRuntime # <<>> /\ m = Head(fromRuntime)
      /\ fromRuntime' = Tail(fromRuntime)
  BY DEF Pipes, Receive
<1>2. 1 \in DOMAIN fromRuntime /\ m = fromRuntime[1] /\ ResponseAt(1)
  BY <1>1, EmptySeq, LenProperties DEF ResponseAt
<1>3. \A i \in DOMAIN fromRuntime' :
        /\ i + 1 \in DOMAIN fromRuntime /\ fromRuntime'[i] = fromRuntime[i + 1] /\ 1 < i + 1
        /\ ResponseAt(i)' => ResponseAt(i + 1)
  <2>1. Len(fromRuntime') = Len(fromRuntime) - 1
        /\ \A i \in 1 .. Len(fromRuntime') : fromRuntime'[i] = fromRuntime[i + 1]
    BY <1>1, HeadTailProperties
  <2> QED
    BY <1>0, <2>1 DEF ResponseAt
<1>4. \A i \in DOMAIN fromRuntime : ResponseAt(i) /\ i # 1 =>
        /\ i - 1 \in DOMAIN fromRuntime' /\ fromRuntime'[i - 1] = fromRuntime[i]
        /\ ResponseAt(i - 1)'
  <2> SUFFICES ASSUME NEW i \in DOMAIN fromRuntime, ResponseAt(i), i # 1
               PROVE  /\ i - 1 \in DOMAIN fromRuntime' /\ fromRuntime'[i - 1] = fromRuntime[i]
                      /\ ResponseAt(i - 1)'
    OBVIOUS
  <2>1. i - 1 \in DOMAIN fromRuntime'
    BY <1>0, <1>1, HeadTailProperties
  <2>2. fromRuntime'[i - 1] = fromRuntime[i]
    BY <1>0, <1>3, <2>1
  <2> QED
    BY <2>1, <2>2 DEF ResponseAt
<1>5. m.id \in DOMAIN pending /\ m.id \in Nat /\ m.id < reqId
  BY <1>2 DEF Table, AnswersMatch, TableType
<1>6. /\ pending' = [id \in DOMAIN pending \ {m.id} |-> pending[id]]
      /\ ready' = Append(ready, [call |-> pending[m.id], answer |-> m])
      /\ DOMAIN pending' = DOMAIN pending \ {m.id}
  BY <1>5 DEF Resolve
<1>7. \A id \in DOMAIN pending' : m.id < id
  <2> SUFFICES ASSUME NEW id \in DOMAIN pending, id # m.id, ~(m.id < id) PROVE FALSE
    BY <1>6
  <2>1. id \in Nat /\ id < fromRuntime[1].id
    BY <1>2, <1>5 DEF TableType
  <2>2. PICK j \in DOMAIN fromRuntime : ResponseAt(j) /\ fromRuntime[j].id = id
    BY <1>2, <2>1 DEF PipesInOrder
  <2>3. j = 1 \/ 1 < j
    BY <1>0
  <2> QED
    BY <1>2, <1>5, <2>1, <2>2, <2>3 DEF PipesInOrder
<1>8. PipesInOrder'
  <2>1. \A i, j \in DOMAIN fromRuntime' :
          ResponseAt(i)' /\ ResponseAt(j)' /\ i < j => fromRuntime'[i].id < fromRuntime'[j].id
    <3> SUFFICES ASSUME NEW i \in DOMAIN fromRuntime', NEW j \in DOMAIN fromRuntime',
                        ResponseAt(i)', ResponseAt(j)', i < j
                 PROVE  fromRuntime'[i].id < fromRuntime'[j].id
      OBVIOUS
    <3>1. i + 1 < j + 1
      BY <1>0
    <3> QED
      BY <1>3, <3>1 DEF PipesInOrder
  <2>2. \A i \in DOMAIN fromRuntime', j \in DOMAIN toRuntime' :
          ResponseAt(i)' => fromRuntime'[i].id < toRuntime'[j].id
    BY <1>3 DEF PipesInOrder
  <2>3. \A i \in DOMAIN fromRuntime', id \in DOMAIN pending' :
          ResponseAt(i)' /\ id < fromRuntime'[i].id =>
            \E j \in DOMAIN fromRuntime' : ResponseAt(j)' /\ fromRuntime'[j].id = id
    <3> SUFFICES ASSUME NEW i \in DOMAIN fromRuntime', NEW id \in DOMAIN pending',
                        ResponseAt(i)', id < fromRuntime'[i].id
                 PROVE  \E j \in DOMAIN fromRuntime' : ResponseAt(j)' /\ fromRuntime'[j].id = id
      OBVIOUS
    <3>1. PICK j \in DOMAIN fromRuntime : ResponseAt(j) /\ fromRuntime[j].id = id
      BY <1>3, <1>6 DEF PipesInOrder
    <3>2. j # 1
      BY <1>2, <1>6, <3>1
    <3> QED
      BY <1>4, <3>1, <3>2
  <2> QED
    BY <2>1, <2>2, <2>3 DEF PipesInOrder
<1>9. ReadyInOrder'
  <2> DEFINE r == [call |-> pending[m.id], answer |-> m]
  <2>1. ready' = Append(ready, r) /\ r.answer = m /\ ready \in Seq(Resumptions)
    BY <1>6 DEF Pipes
  <2> HIDE DEF r
  <2>2. /\ Len(ready) \in Nat /\ DOMAIN ready = 1 .. Len(ready)
        /\ DOMAIN ready' = 1 .. Len(ready) + 1
        /\ \A i \in 1 .. Len(ready) : ready'[i] = ready[i]
        /\ ready'[Len(ready) + 1] = r
    BY <2>1
  <2>3. \A i \in DOMAIN ready : ready[i].answer.id < m.id
    BY <1>5 DEF ReadyInOrder
  <2>4. \A i, j \in DOMAIN ready' : i < j => ready'[i].answer.id < ready'[j].answer.id
    BY <2>1, <2>2, <2>3 DEF ReadyInOrder
  <2>5. \A i \in DOMAIN ready' : /\ ready'[i].answer.id < reqId'
                                 /\ \A id \in DOMAIN pending' : ready'[i].answer.id < id
    BY <1>5, <1>6, <1>7, <2>1, <2>2 DEF ReadyInOrder
  <2> QED
    BY <2>4, <2>5 DEF ReadyInOrder
<1> QED
  BY <1>5, <1>6, <1>8, <1>9

LEMMA ReplyPipesInOrder ==
  ASSUME Pipes, Pipes', TableType, Table, PipesInOrder, UNCHANGED pending,
         state # "exited", toRuntime # <<>>,
         NEW success, NEW body, NEW stops \in Seq(Messages),
         \A i \in 1 .. Len(stops) : stops[i].type # "response",
         Response(Head(toRuntime), success, body) \in Messages,
         Reply(success, body, stops)
  PROVE  PipesInOrder'
<1>0. /\ Len(toRuntime) \in Nat /\ DOMAIN toRuntime = 1 .. Len(toRuntime)
      /\ Len(fromRuntime) \in Nat /\ DOMAIN fromRuntime = 1 .. Len(fromRuntime)
      /\ Len(toRuntime') \in Nat /\ DOMAIN toRuntime' = 1 .. Len(toRuntime')
      /\ Len(fromRuntime') \in Nat /\ DOMAIN fromRuntime' = 1 .. Len(fromRuntime')
      /\ Len(stops) \in Nat
  BY LenProperties DEF Pipes
<1>1. 1 \in DOMAIN toRuntime /\ Head(toRuntime) = toRuntime[1]
  BY ReplyPipes
<1>2. \A i \in DOMAIN toRuntime' :
        i + 1 \in DOMAIN toRuntime /\ toRuntime'[i] = toRuntime[i + 1] /\ 1 < i + 1
  <2>1. /\ Len(toRuntime') = Len(toRuntime) - 1
        /\ \A i \in 1 .. Len(toRuntime') : toRuntime'[i] = toRuntime[i + 1]
    BY ReplyPipes
  <2> QED
    BY <1>0, <2>1
<1>3. \A i \in DOMAIN fromRuntime : i \in DOMAIN fromRuntime' /\ fromRuntime'[i] = fromRuntime[i]
  <2>1. Len(fromRuntime') = Len(fromRuntime) + 1 + Len(stops)
        /\ \A i \in 1 .. Len(fromRuntime) : fromRuntime'[i] = fromRuntime[i]
    BY ReplyPipes
  <2> QED
    BY <1>0, <2>1
<1>4. PICK k \in Nat : k = Len(fromRuntime) + 1
  BY <1>0
<1>5. k \in DOMAIN fromRuntime' /\ ResponseAt(k)' /\ fromRuntime'[k].id = toRuntime[1].id
  <2>1. fromRuntime'[k] = Response(Head(toRuntime), success, body)
        /\ Len(fromRuntime') = k + Len(stops)
    BY <1>4, ReplyPipes
  <2> QED
    BY <1>0, <1>1, <1>4, <2>1 DEF Response, ResponseAt
<1>6. \A i \in DOMAIN fromRuntime' : ResponseAt(i)' =>
        i = k \/ (i < k /\ i \in DOMAIN fromRuntime /\ ResponseAt(i))
  <2> SUFFICES ASSUME NEW i \in DOMAIN fromRuntime', ResponseAt(i)'
               PROVE  i = k \/ (i < k /\ i \in DOMAIN fromRuntime /\ ResponseAt(i))
    OBVIOUS
  <2>1. CASE i \in DOMAIN fromRuntime
    BY <1>0, <1>3, <1>4, <2>1 DEF ResponseAt
  <2>2. CASE i \notin DOMAIN fromRuntime /\ i # k
    <3>1. i \in Len(fromRuntime) + 2 .. Len(fromRuntime')
      BY <1>0, <1>4, <2>2
    <3>2. fromRuntime'[i] = stops[i - Len(fromRuntime) - 1]
      BY <3>1, ReplyPipes
    <3>3. i - Len(fromRuntime) - 1 \in 1 .. Len(stops)
      <4>1. Len(fromRuntime') = Len(fromRuntime) + 1 + Len(stops)
        BY ReplyPipes
      <4> QED
        BY <1>0, <3>1, <4>1
    <3> QED
      BY <3>2, <3>3 DEF ResponseAt
  <2> QED
    BY <2>1, <2>2
<1>7. \A i, j \in DOMAIN fromRuntime' :
        ResponseAt(i)' /\ ResponseAt(j)' /\ i < j => fromRuntime'[i].id < fromRuntime'[j].id
  <2> SUFFICES ASSUME NEW i \in DOMAIN fromRuntime', NEW j \in DOMAIN fromRuntime',
                      ResponseAt(i)', ResponseAt(j)', i < j
               PROVE  fromRuntime'[i].id < fromRuntime'[j].id
    OBVIOUS
  <2>1. i < k /\ i \in DOMAIN fromRuntime /\ ResponseAt(i)
    BY <1>0, <1>4, <1>6
  <2>2. CASE j = k
    BY <1>1, <1>3, <1>5, <2>1, <2>2 DEF PipesInOrder
  <2>3. CASE j # k
    BY <1>3, <1>6, <2>1, <2>3 DEF PipesInOrder
  <2> QED
    BY <2>2, <2>3
<1>8. \A i, j \in DOMAIN toRuntime' : i < j => toRuntime'[i].id < toRuntime'[j].id
  <2> SUFFICES ASSUME NEW i \in DOMAIN toRuntime', NEW j \in DOMAIN toRuntime', i < j
               PROVE  toRuntime'[i].id < toRuntime'[j].id
    OBVIOUS
  <2>1. i + 1 < j + 1
    BY <1>0
  <2> QED
    BY <1>2, <2>1 DEF PipesInOrder
<1>9. \A i \in DOMAIN fromRuntime', j \in DOMAIN toRuntime' :
        ResponseAt(i)' => fromRuntime'[i].id < toRuntime'[j].id
  <2> SUFFICES ASSUME NEW i \in DOMAIN fromRuntime', NEW j \in DOMAIN toRuntime', ResponseAt(i)'
               PROVE  fromRuntime'[i].id < toRuntime'[j].id
    OBVIOUS
  <2>1. CASE i = k
    BY <1>1, <1>2, <1>5, <2>1 DEF PipesInOrder
  <2>2. CASE i # k
    BY <1>2, <1>3, <1>6, <2>2 DEF PipesInOrder
  <2> QED
    BY <2>1, <2>2
<1>10. \A i \in DOMAIN fromRuntime', id \in DOMAIN pending' :
         ResponseAt(i)' /\ id < fromRuntime'[i].id =>
           \E j \in DOMAIN fromRuntime' : ResponseAt(j)' /\ fromRuntime'[j].id = id
  <2> SUFFICES ASSUME NEW i \in DOMAIN fromRuntime', NEW id \in DOMAIN pending,
                      ResponseAt(i)', id < fromRuntime'[i].id
               PROVE  \E j \in DOMAIN fromRuntime : ResponseAt(j) /\ fromRuntime[j].id = id
    BY <1>3 DEF ResponseAt
  <2>1. CASE i # k
    BY <1>3, <1>6, <2>1 DEF PipesInOrder
  <2>2. CASE i = k
    <3>1. \A j \in DOMAIN toRuntime : toRuntime[j].id # id
      <4> SUFFICES ASSUME NEW j \in DOMAIN toRuntime, toRuntime[j].id = id PROVE FALSE
        OBVIOUS
      <4>1. j = 1 \/ 1 < j
        BY <1>0
      <4>2. id \in Nat /\ toRuntime[1].id \in Nat /\ id < toRuntime[1].id
        BY <1>1, <1>5, <2>2 DEF TableType, Table, QuestionsMatch
      <4> QED
        BY <1>1, <4>1, <4>2 DEF PipesInOrder
    <3> QED
      BY <3>1 DEF Table, NoneForgotten
  <2> QED
    BY <2>1, <2>2
<1> QED
  BY <1>7, <1>8, <1>9, <1>10 DEF PipesInOrder

LEMMA ReportPipesInOrder ==
  ASSUME Pipes, Pipes', PipesInOrder, UNCHANGED <<pending, toRuntime>>,
         NEW events \in Seq(Messages),
         \A i \in 1 .. Len(events) : events[i].type # "response",
         fromRuntime' = fromRuntime \o events
  PROVE  PipesInOrder'
<1>0. /\ Len(fromRuntime) \in Nat /\ DOMAIN fromRuntime = 1 .. Len(fromRuntime)
      /\ Len(fromRuntime') \in Nat /\ DOMAIN fromRuntime' = 1 .. Len(fromRuntime')
      /\ Len(events) \in Nat
  BY LenProperties DEF Pipes
<1>1. /\ Len(fromRuntime') = Len(fromRuntime) + Len(events)
      /\ \A i \in 1 .. Len(fromRuntime) + Len(events) :
           fromRuntime'[i] = IF i <= Len(fromRuntime) THEN fromRuntime[i]
                                                      ELSE events[i - Len(fromRuntime)]
  BY ConcatProperties DEF Pipes
<1>2. \A i \in DOMAIN fromRuntime :
        /\ i \in DOMAIN fromRuntime' /\ fromRuntime'[i] = fromRuntime[i]
        /\ ResponseAt(i) => ResponseAt(i)'
  BY <1>0, <1>1 DEF ResponseAt
<1>3. \A i \in DOMAIN fromRuntime' : ResponseAt(i)' =>
        i \in DOMAIN fromRuntime /\ ResponseAt(i)
  <2> SUFFICES ASSUME NEW i \in DOMAIN fromRuntime', ResponseAt(i)', i \notin DOMAIN fromRuntime
               PROVE  FALSE
    BY <1>2 DEF ResponseAt
  <2>1. i - Len(fromRuntime) \in 1 .. Len(events)
        /\ fromRuntime'[i] = events[i - Len(fromRuntime)]
    BY <1>0, <1>1
  <2> QED
    BY <2>1 DEF ResponseAt
<1>4. \A i \in DOMAIN fromRuntime', id \in DOMAIN pending' :
        ResponseAt(i)' /\ id < fromRuntime'[i].id =>
          \E j \in DOMAIN fromRuntime' : ResponseAt(j)' /\ fromRuntime'[j].id = id
  <2> SUFFICES ASSUME NEW i \in DOMAIN fromRuntime', NEW id \in DOMAIN pending',
                      ResponseAt(i)', id < fromRuntime'[i].id
               PROVE  \E j \in DOMAIN fromRuntime' : ResponseAt(j)' /\ fromRuntime'[j].id = id
    OBVIOUS
  <2>1. PICK j \in DOMAIN fromRuntime : ResponseAt(j) /\ fromRuntime[j].id = id
    BY <1>2, <1>3 DEF PipesInOrder
  <2> QED
    BY <1>2, <2>1
<1> QED
  BY <1>2, <1>3, <1>4 DEF PipesInOrder

\* A request sent meanwhile is behind every caller to resume.
LEMMA SendReadyInOrder ==
  ASSUME Pipes, Pipes', TableType, ReadyInOrder, NEW call, NEW arg, Send(call, arg),
         ready' = ready \/ (ready # <<>> /\ ready' = Tail(ready))
  PROVE  ReadyInOrder'
<1>1. DOMAIN pending' = DOMAIN pending \cup {reqId}
  BY SendPipe DEF Pipes
<1>2. reqId \in Nat /\ reqId' = reqId + 1
  BY DEF TableType, Send
<1>3. \A i \in DOMAIN ready : ready[i].answer.id \in Nat
  <2>1. ready \in Seq(Resumptions)
    BY DEF Pipes
  <2>2. \A r \in Resumptions : r.answer \in Messages
    BY DEF Resumptions
  <2>3. \A m \in Messages : m.id \in Nat
    BY DEF Messages
  <2> QED
    BY <2>1, <2>2, <2>3, ElementOfSeq, LenProperties
<1>4. CASE ready' = ready
  BY <1>1, <1>2, <1>3, <1>4 DEF ReadyInOrder
<1>5. CASE ready # <<>> /\ ready' = Tail(ready)
  <2>1. \A i \in DOMAIN ready' : /\ i + 1 \in DOMAIN ready /\ ready'[i] = ready[i + 1]
                                 /\ i \in Int
    BY <1>5, LenProperties, HeadTailProperties DEF Pipes
  <2>2. ASSUME NEW i \in DOMAIN ready', NEW j \in DOMAIN ready', i < j
        PROVE  ready'[i].answer.id < ready'[j].answer.id
    <3>1. i + 1 < j + 1
      BY <2>1, <2>2
    <3> QED
      BY <2>1, <3>1 DEF ReadyInOrder
  <2> QED
    BY <1>1, <1>2, <1>3, <2>1, <2>2 DEF ReadyInOrder
<1> QED
  BY <1>4, <1>5

LEMMA QuietReadyInOrder ==
  ASSUME Pipes, ReadyInOrder, UNCHANGED <<reqId, pending>>,
         ready' = ready \/ (ready # <<>> /\ ready' = Tail(ready))
  PROVE  ReadyInOrder'
<1>1. CASE ready' = ready
  BY <1>1 DEF ReadyInOrder
<1>2. CASE ready # <<>> /\ ready' = Tail(ready)
  <2>1. \A i \in DOMAIN ready' : /\ i + 1 \in DOMAIN ready /\ ready'[i] = ready[i + 1]
                                 /\ i \in Int
    BY <1>2, LenProperties, HeadTailProperties DEF Pipes
  <2>2. ASSUME NEW i \in DOMAIN ready', NEW j \in DOMAIN ready', i < j
        PROVE  ready'[i].answer.id < ready'[j].answer.id
    <3>1. i + 1 < j + 1
      BY <2>1, <2>2
    <3> QED
      BY <2>1, <3>1 DEF ReadyInOrder
  <2> QED
    BY <2>1, <2>2 DEF ReadyInOrder
<1> QED
  BY <1>1, <1>2

\* The runtime answers and the callers resume in the order of the requests.
CallsInOrder == PipesInOrder /\ ReadyInOrder

LEMMA NextKeepsCallsInOrder ==
  Inv /\ CallsInOrder /\ Inv' /\ [Next]_allVars => CallsInOrder'
<1> SUFFICES ASSUME Inv, CallsInOrder, Inv', [Next]_allVars PROVE CallsInOrder'
  OBVIOUS
<1>1. Pipes /\ Pipes' /\ TableType /\ Table /\ RuntimeType
  BY DEF Inv, TypeInv, Table
<1>2. PipesInOrder /\ ReadyInOrder
  BY DEF CallsInOrder
<1>3. CASE Client
  <2>1. PICK call, arg : Send(call, arg)
    BY <1>3 DEF Client, Start, Run, Pause, Disconnect, GetLocalVariables, SetLocalVariable,
       SendBreakpoints, SetBreakPoint, ClearBreakPoint, ClearBreakpoints, SetBreakpointsBulk
  <2>2. UNCHANGED <<fromRuntime, state, ready>>
    BY <1>3 DEF Client, Start, Run, Pause, Disconnect, GetLocalVariables, SetLocalVariable,
       SendBreakpoints, SetBreakPoint, ClearBreakPoint, ClearBreakpoints, SetBreakpointsBulk,
       runtime, loop
  <2>3. Shifted(0)
    BY <1>1, <2>2, NotShifted
  <2> QED
    BY <1>1, <1>2, <2>1, <2>2, <2>3, SendPipesInOrder, SendReadyInOrder DEF CallsInOrder
<1>4. CASE OnLine
  <2>1. PICK m : OnResponse(m) \/ OnStopped(m) \/ OnTerminated(m)
    BY <1>4 DEF OnLine
  <2>2. CASE OnResponse(m)
    BY <1>1, <1>2, <2>2, ResolveInOrder DEF OnResponse, CallsInOrder
  <2>3. CASE OnStopped(m)
    <3>1. Shifted(1)
      BY <1>1, <2>3, ReceiveShifts DEF OnStopped
    <3> QED
      BY <1>1, <1>2, <2>3, <3>1, SendPipesInOrder, SendReadyInOrder
         DEF OnStopped, CallsInOrder, runtime
  <2>4. CASE OnTerminated(m)
    <3>1. Shifted(1)
      BY <1>1, <2>4, ReceiveShifts DEF OnTerminated
    <3> QED
      BY <1>1, <1>2, <2>4, <3>1, QuietPipesInOrder, QuietReadyInOrder
         DEF OnTerminated, CallsInOrder, NoSend
  <2> QED
    BY <2>1, <2>2, <2>3, <2>4
<1>5. CASE Continuation
  <2>1. /\ UNCHANGED <<fromRuntime, state>> /\ ready # <<>> /\ ready' = Tail(ready)
        /\ NoSend \/ \E call, arg : Send(call, arg)
    BY <1>5 DEF Continuation, Nothing, Refreshed, StopRefreshed, StopLocated, EditConfirmed,
       StartWentOn, Resume, runtime
  <2>2. Shifted(0)
    BY <1>1, <2>1, NotShifted
  <2>3. CASE NoSend
    BY <1>1, <1>2, <2>1, <2>2, <2>3, QuietPipesInOrder, QuietReadyInOrder
       DEF CallsInOrder, NoSend
  <2>4. CASE \E call, arg : Send(call, arg)
    BY <1>1, <1>2, <2>1, <2>2, <2>4, SendPipesInOrder, SendReadyInOrder DEF CallsInOrder
  <2> QED
    BY <2>1, <2>3, <2>4
<1>6. CASE Service
  <2>1. PICK success \in BOOLEAN, body \in Bodies, stops \in Seq(Messages) :
          /\ Response(Head(toRuntime), success, body) \in Messages
          /\ Reply(success, body, stops)
          /\ \A i \in 1 .. Len(stops) : stops[i].type # "response"
    BY <1>1, <1>6, ServiceReplies
  <2> QED
    BY <1>1, <1>2, <1>6, <2>1, ServiceWaits, ReplyPipesInOrder, QuietReadyInOrder
       DEF CallsInOrder
<1>7. CASE Exit
  <2>1. toRuntime' = <<>> /\ UNCHANGED <<reqId, pending, ready, fromRuntime>>
    BY <1>7 DEF Exit, loop
  <2>2. DOMAIN toRuntime' = {}
    BY <2>1
  <2>3. PipesInOrder'
    BY <1>2, <2>1, <2>2 DEF PipesInOrder, ResponseAt
  <2> QED
    BY <1>1, <1>2, <2>1, <2>3, QuietReadyInOrder DEF CallsInOrder
<1>8. CASE ProgramReports
  <2>1. UNCHANGED <<reqId, pending, ready, toRuntime>>
    BY <1>8 DEF ProgramReports, ProgramEnds, ProgramStops, Program, loop
  <2>2. PICK events \in Seq(Messages) :
          /\ \A i \in 1 .. Len(events) : events[i].type # "response"
          /\ fromRuntime' = fromRuntime \o events
    BY <1>1, <1>8, ReportsAreEvents
  <2>3. PipesInOrder'
    BY <1>1, <1>2, <2>1, <2>2, ReportPipesInOrder
  <2> QED
    BY <1>1, <1>2, <2>1, <2>3, QuietReadyInOrder DEF CallsInOrder
<1>9. CASE OnExit \/ UNCHANGED allVars \/ \E n \in Names, v \in Values : ProgramAssigns(n, v)
  <2>1. UNCHANGED <<reqId, pending, ready, toRuntime, fromRuntime>>
    BY <1>9 DEF OnExit, allVars, ProgramAssigns, Program, loop
  <2>2. NoSend /\ Shifted(0)
    BY <1>1, <2>1, NotShifted DEF NoSend
  <2> QED
    BY <1>1, <1>2, <2>1, <2>2, QuietPipesInOrder, QuietReadyInOrder DEF CallsInOrder
<1> QED
  BY <1>3, <1>4, <1>5, <1>6, <1>7, <1>8, <1>9 DEF Next

LEMMA CallsInOrderAtFirst == Init => CallsInOrder
BY DEF Init, CallsInOrder, PipesInOrder, ReadyInOrder

-----------------------------------------------------------------------------
(* The stops on their way to the client.                                    *)

\* The calls not yet gone on with, in the table or among the callers to resume.
Callers  == {[id |-> id, call |-> pending[id]] : id \in DOMAIN pending}
              \cup {[id |-> ready[i].answer.id, call |-> ready[i].call] : i \in DOMAIN ready}
Stoppers == {c \in Callers : c.call.then = "stop"}
Sited(c) == c.call.command = "stackTrace"
First    == [id |-> Answered.id, call |-> Head(ready).call]
StopAtI(i) == fromRuntime[i].type = "stopped"

\* A stop is dispatched behind those before it: a dispatch that asks for the stack
\* is ahead of all that ask for the locals.
StoppersInOrder ==
  \A c, d \in Stoppers :
    /\ c.id < d.id /\ (Sited(c) <=> Sited(d)) => c.call.stop.n < d.call.stop.n
    /\ Sited(c) /\ ~Sited(d) => c.call.stop.n < d.call.stop.n

StoppersWait ==
  \A c \in Stoppers :
    /\ c.call.stop.n \in notified + 1 .. raised
    /\ hasLine <=> c.call.stop.line # None
    /\ hasLine => ~Sited(c)
    /\ \A i \in DOMAIN fromRuntime : StopAtI(i) => c.call.stop.n < fromRuntime[i].body.n

StopsInOrder ==
  \A i \in DOMAIN fromRuntime : StopAtI(i) =>
    /\ fromRuntime[i].body.n \in notified + 1 .. raised
    /\ hasLine <=> fromRuntime[i].body.line # None
    /\ \A j \in DOMAIN fromRuntime :
         StopAtI(j) /\ i < j => fromRuntime[i].body.n < fromRuntime[j].body.n

NoStopLost ==
  \A n \in notified + 1 .. raised :
    \/ \E c \in Stoppers : c.call.stop.n = n
    \/ \E i \in DOMAIN fromRuntime : StopAtI(i) /\ fromRuntime[i].body.n = n

Served == /\ StoppersInOrder /\ StoppersWait /\ StopsInOrder /\ NoStopLost
          /\ notified <= raised /\ InTurn

-----------------------------------------------------------------------------
LEMMA CallersTypes ==
  ASSUME Pipes, TableType, ReadyInOrder
  PROVE  \A c \in Callers : /\ c.id \in Nat /\ c.id < reqId
                            /\ c.call.then = "stop" =>
                                 /\ c.call.command \in {"getLocalVariables", "stackTrace"}
                                 /\ c.call.stop.n \in Nat
<1>1. \A call : CallOK(call) /\ call.then = "stop" =>
        call.command \in {"getLocalVariables", "stackTrace"} /\ call.stop.n \in Nat
  BY DEF CallOK, StopEvent
<1>2. \A id \in DOMAIN pending : id \in Nat /\ id < reqId /\ CallOK(pending[id])
  BY DEF TableType
<1>3. \A i \in DOMAIN ready : /\ ready[i].answer.id \in Nat /\ ready[i].answer.id < reqId
                              /\ CallOK(ready[i].call)
  <2>1. ready \in Seq(Resumptions)
    BY DEF Pipes
  <2>2. \A r \in Resumptions : r.answer \in Messages /\ CallOK(r.call)
    BY DEF Resumptions, ReadyOK
  <2>3. \A m \in Messages : m.id \in Nat
    BY DEF Messages
  <2> QED
    BY <2>1, <2>2, <2>3, ElementOfSeq, LenProperties DEF ReadyInOrder
<1> QED
  BY <1>1, <1>2, <1>3 DEF Callers

LEMMA SendCallers ==
  ASSUME Pipes, Pipes', TableType, NEW call, NEW arg, Send(call, arg), UNCHANGED ready
  PROVE  Callers' = Callers \cup {[id |-> reqId, call |-> call]}
<1>1. /\ DOMAIN pending' = DOMAIN pending \cup {reqId}
      /\ pending'[reqId] = call
      /\ \A id \in DOMAIN pending : pending'[id] = pending[id]
  BY SendPipe DEF Pipes
<1> QED
  BY <1>1 DEF Callers

LEMMA QuietCallers ==
  ASSUME UNCHANGED <<pending, ready>>
  PROVE  Callers' = Callers
BY DEF Callers

\* An answered call only changes places.
LEMMA ResolveCallers ==
  ASSUME Pipes, NEW m, m.id \in DOMAIN pending,
         pending' = [id \in DOMAIN pending \ {m.id} |-> pending[id]],
         ready' = Append(ready, [call |-> pending[m.id], answer |-> m])
  PROVE  Callers' = Callers
<1> DEFINE r == [call |-> pending[m.id], answer |-> m]
<1>1. ready \in Seq(Resumptions) /\ r.answer = m /\ r.call = pending[m.id]
  BY DEF Pipes
<1>2. ready' = Append(ready, r)
  OBVIOUS
<1> HIDE DEF r
<1>3. /\ Len(ready) \in Nat /\ DOMAIN ready = 1 .. Len(ready)
      /\ DOMAIN ready' = 1 .. Len(ready) + 1
      /\ \A i \in 1 .. Len(ready) : ready'[i] = ready[i]
      /\ ready'[Len(ready) + 1] = r
  BY <1>1, <1>2
<1>4. DOMAIN pending' = DOMAIN pending \ {m.id}
      /\ \A id \in DOMAIN pending' : pending'[id] = pending[id]
  OBVIOUS
<1>5. ASSUME NEW c \in Callers PROVE c \in Callers'
  <2>1. ASSUME NEW id \in DOMAIN pending, c = [id |-> id, call |-> pending[id]]
        PROVE  c \in Callers'
    <3>1. CASE id = m.id
      <4>1. c = [id |-> ready'[Len(ready) + 1].answer.id, call |-> ready'[Len(ready) + 1].call]
        BY <1>1, <1>3, <2>1, <3>1
      <4>2. Len(ready) + 1 \in DOMAIN ready'
        BY <1>3
      <4> QED
        BY <4>1, <4>2 DEF Callers
    <3>2. CASE id # m.id
      BY <1>4, <2>1, <3>2 DEF Callers
    <3> QED
      BY <3>1, <3>2
  <2>2. ASSUME NEW i \in DOMAIN ready,
               c = [id |-> ready[i].answer.id, call |-> ready[i].call]
        PROVE  c \in Callers'
    <3>1. i \in DOMAIN ready' /\ ready'[i] = ready[i]
      BY <1>3
    <3> QED
      BY <2>2, <3>1 DEF Callers
  <2> QED
    BY <2>1, <2>2 DEF Callers
<1>6. ASSUME NEW c \in Callers' PROVE c \in Callers
  <2>1. ASSUME NEW id \in DOMAIN pending', c = [id |-> id, call |-> pending'[id]]
        PROVE  c \in Callers
    BY <1>4, <2>1 DEF Callers
  <2>2. ASSUME NEW i \in DOMAIN ready',
               c = [id |-> ready'[i].answer.id, call |-> ready'[i].call]
        PROVE  c \in Callers
    <3>1. CASE i \in DOMAIN ready
      BY <1>3, <2>2, <3>1 DEF Callers
    <3>2. CASE i = Len(ready) + 1
      <4>1. c = [id |-> m.id, call |-> pending[m.id]]
        BY <1>1, <1>3, <2>2, <3>2
      <4> QED
        BY <4>1 DEF Callers
    <3> QED
      BY <1>3, <3>1, <3>2
  <2> QED
    BY <2>1, <2>2 DEF Callers
<1> QED
  BY <1>5, <1>6

\* The caller that resumes is the oldest.
LEMMA ResumeCallers ==
  ASSUME Pipes, Pipes', TableType, ReadyInOrder, NEW then, Resume(then)
  PROVE  /\ First \in Callers /\ First.call.then = then
         /\ \A c \in Callers : c # First => First.id < c.id
         /\ NoSend => Callers' = Callers \ {First}
         /\ \A call, arg : Send(call, arg) =>
              Callers' = (Callers \ {First}) \cup {[id |-> reqId, call |-> call]}
<1> DEFINE P == {[id |-> id, call |-> pending[id]] : id \in DOMAIN pending}
           R == {[id |-> ready[i].answer.id, call |-> ready[i].call] : i \in DOMAIN ready}
           Q == {[id |-> id, call |-> pending'[id]] : id \in DOMAIN pending'}
           S == {[id |-> ready'[i].answer.id, call |-> ready'[i].call] : i \in DOMAIN ready'}
<1>1. ready \in Seq(Resumptions) /\ ready # <<>> /\ ready' = Tail(ready)
      /\ Head(ready).call.then = then
  BY DEF Pipes, Resume
<1>2. /\ Len(ready) \in Nat /\ DOMAIN ready = 1 .. Len(ready) /\ 1 \in DOMAIN ready
      /\ Head(ready) = ready[1] /\ Len(ready') = Len(ready) - 1
      /\ DOMAIN ready' = 1 .. Len(ready')
      /\ \A i \in DOMAIN ready' : ready'[i] = ready[i + 1]
  <2>1. Len(ready) # 0
    BY <1>1, EmptySeq
  <2> QED
    BY <1>1, <2>1, HeadTailProperties, LenProperties
<1>3. First = [id |-> ready[1].answer.id, call |-> ready[1].call] /\ First.call.then = then
  BY <1>1, <1>2 DEF First, Answered
<1>4. First \in R /\ Callers = P \cup R /\ Callers' = Q \cup S
  BY <1>2, <1>3 DEF Callers
<1>5. \A c \in P : First.id < c.id
  BY <1>2, <1>3 DEF ReadyInOrder
<1>6. \A i \in DOMAIN ready : i # 1 => First.id < ready[i].answer.id
  BY <1>2, <1>3 DEF ReadyInOrder
<1>7. \A c \in R : c # First => First.id < c.id
  BY <1>3, <1>6
<1>8. First.id \in Nat
  BY <1>4, CallersTypes
<1>9. S = R \ {First}
  <2>1. ASSUME NEW c \in S PROVE c \in R /\ c # First
    <3>1. PICK i \in DOMAIN ready' :
            c = [id |-> ready'[i].answer.id, call |-> ready'[i].call]
      BY <2>1
    <3>2. i + 1 \in DOMAIN ready /\ i + 1 # 1 /\ ready'[i] = ready[i + 1]
      BY <1>2
    <3> QED
      BY <1>6, <1>8, <3>1, <3>2
  <2>2. ASSUME NEW c \in R, c # First PROVE c \in S
    <3>1. PICK i \in DOMAIN ready : c = [id |-> ready[i].answer.id, call |-> ready[i].call]
      BY <2>2
    <3>2. i # 1
      BY <1>3, <2>2, <3>1
    <3>3. i - 1 \in DOMAIN ready' /\ ready'[i - 1] = ready[i]
      BY <1>2, <3>2
    <3> QED
      BY <3>1, <3>3
  <2> QED
    BY <2>1, <2>2
<1>10. First \notin P
  BY <1>5, <1>8
<1>11. ASSUME NoSend PROVE Q = P
  BY <1>11 DEF NoSend
<1>12. ASSUME NEW call, NEW arg, Send(call, arg)
       PROVE  Q = P \cup {[id |-> reqId, call |-> call]}
  <2>1. /\ DOMAIN pending' = DOMAIN pending \cup {reqId}
        /\ pending'[reqId] = call
        /\ \A id \in DOMAIN pending : pending'[id] = pending[id]
    BY <1>12, SendPipe DEF Pipes
  <2> QED
    BY <2>1
<1> HIDE DEF P, Q, R, S
<1>13. reqId # First.id
  BY <1>3, <1>8, <1>2 DEF ReadyInOrder, TableType
<1>14. \A call, arg : Send(call, arg) =>
         Callers' = (Callers \ {First}) \cup {[id |-> reqId, call |-> call]}
  BY <1>4, <1>9, <1>10, <1>12
<1> QED
  BY <1>3, <1>4, <1>5, <1>7, <1>9, <1>10, <1>11, <1>14

\* The number of every stop under way, whose order the provers compare.
LEMMA StopNumbers ==
  ASSUME Pipes, TableType, RuntimeType, ClientType, ReadyInOrder
  PROVE  /\ \A c \in Stoppers : c.call.stop.n \in Nat /\ c.id \in Nat /\ c.id < reqId
         /\ \A i \in DOMAIN fromRuntime : StopAtI(i) => fromRuntime[i].body.n \in Nat
         /\ notified \in Nat /\ raised \in Nat
         /\ \A i \in DOMAIN fromRuntime : i \in Nat
<1>1. \A i \in DOMAIN fromRuntime : MessageOK(fromRuntime[i]) /\ i \in Nat
  BY ElementOfSeq, LenProperties DEF Pipes, Messages
<1>2. \A i \in DOMAIN fromRuntime : StopAtI(i) => fromRuntime[i].body.n \in Nat
  BY <1>1 DEF MessageOK, StopEvent, StopAtI
<1> QED
  BY <1>1, <1>2, CallersTypes DEF Stoppers, RuntimeType, ClientType

\* A stop carries its line when the runtime's stops do.
LEMMA StopSaysLine ==
  ASSUME NEW n, NEW l \in Lines
  PROVE  /\ Len(StopAt(n, l)) = 1
         /\ StopAt(n, l)[1].type = "stopped" /\ StopAt(n, l)[1].body.n = n
         /\ hasLine <=> StopAt(n, l)[1].body.line # None
BY ConstantsAssumption DEF StopAt, Event, ConstantsAssumption

\* Nothing happens to the stops; k messages other than stops are read.
LEMMA QuietServed ==
  ASSUME Pipes, Pipes', Served, Stoppers' = Stoppers,
         UNCHANGED <<hasLine, raised, notices, notified>>, NEW k \in {0, 1},
         Len(fromRuntime') = Len(fromRuntime) - k,
         \A i \in 1 .. Len(fromRuntime') : fromRuntime'[i] = fromRuntime[i + k],
         k = 1 => ~StopAtI(1)
  PROVE  Served'
<1>0. /\ Len(fromRuntime) \in Nat /\ DOMAIN fromRuntime = 1 .. Len(fromRuntime)
      /\ Len(fromRuntime') \in Nat /\ DOMAIN fromRuntime' = 1 .. Len(fromRuntime')
      /\ k \in Int
  BY LenProperties DEF Pipes
<1>1. \A i \in DOMAIN fromRuntime' :
        /\ i + k \in DOMAIN fromRuntime /\ fromRuntime'[i] = fromRuntime[i + k]
        /\ StopAtI(i)' => StopAtI(i + k)
  <2>1. \A i \in 1 .. Len(fromRuntime') : i + k \in 1 .. Len(fromRuntime)
    BY <1>0
  <2>2. \A i \in DOMAIN fromRuntime' : fromRuntime'[i] = fromRuntime[i + k]
    BY <1>0
  <2> QED
    BY <1>0, <2>1, <2>2 DEF StopAtI
<1>2. \A i \in DOMAIN fromRuntime : StopAtI(i) =>
        /\ i - k \in DOMAIN fromRuntime' /\ fromRuntime'[i - k] = fromRuntime[i]
        /\ StopAtI(i - k)'
  <2> SUFFICES ASSUME NEW i \in DOMAIN fromRuntime, StopAtI(i)
               PROVE  /\ i - k \in DOMAIN fromRuntime' /\ fromRuntime'[i - k] = fromRuntime[i]
                      /\ StopAtI(i - k)'
    OBVIOUS
  <2>1. i - k \in 1 .. Len(fromRuntime')
    <3>1. CASE k = 0
      BY <1>0, <3>1
    <3>2. CASE k = 1
      <4>1. i # 1
        BY <3>2
      <4> QED
        BY <1>0, <3>2, <4>1
    <3> QED
      BY <3>1, <3>2
  <2>2. fromRuntime'[i - k] = fromRuntime[i]
    BY <1>0, <2>1
  <2> QED
    BY <1>0, <2>1, <2>2 DEF StopAtI
<1>3. StoppersInOrder'
  BY DEF Served, StoppersInOrder
<1>4. StoppersWait'
  BY <1>1 DEF Served, StoppersWait
<1>5. StopsInOrder'
  <2> SUFFICES ASSUME NEW i \in DOMAIN fromRuntime', StopAtI(i)'
               PROVE  /\ fromRuntime'[i].body.n \in notified' + 1 .. raised'
                      /\ hasLine' <=> fromRuntime'[i].body.line # None
                      /\ \A j \in DOMAIN fromRuntime' : StopAtI(j)' /\ i < j =>
                           fromRuntime'[i].body.n < fromRuntime'[j].body.n
    BY DEF StopsInOrder
  <2>1. i + k \in DOMAIN fromRuntime /\ fromRuntime'[i] = fromRuntime[i + k] /\ StopAtI(i + k)
    BY <1>1
  <2>2. ASSUME NEW j \in DOMAIN fromRuntime', StopAtI(j)', i < j
        PROVE  fromRuntime'[i].body.n < fromRuntime'[j].body.n
    <3>1. i + k < j + k
      BY <1>0, <2>2
    <3> QED
      BY <1>1, <2>1, <2>2, <3>1 DEF Served, StopsInOrder
  <2> QED
    BY <2>1, <2>2 DEF Served, StopsInOrder
<1>6. NoStopLost'
  <2> SUFFICES ASSUME NEW n \in notified' + 1 .. raised'
               PROVE  \/ \E c \in Stoppers' : c.call.stop.n = n
                      \/ \E i \in DOMAIN fromRuntime' : StopAtI(i)' /\ fromRuntime'[i].body.n = n
    BY DEF NoStopLost
  <2>1. \/ \E c \in Stoppers : c.call.stop.n = n
        \/ \E i \in DOMAIN fromRuntime : StopAtI(i) /\ fromRuntime[i].body.n = n
    BY DEF Served, NoStopLost
  <2> QED
    BY <1>2, <2>1
<1>7. InTurn' /\ (notified <= raised)'
  BY DEF Served, InTurn
<1> QED
  BY <1>3, <1>4, <1>5, <1>6, <1>7 DEF Served

\* At most one stop is reported, the next one.
LEMMA ReportServed ==
  ASSUME Pipes, Pipes', TableType, RuntimeType, ClientType, ReadyInOrder,
         Served, Stoppers' = Stoppers, UNCHANGED <<hasLine, notices, notified>>,
         DOMAIN fromRuntime \subseteq DOMAIN fromRuntime',
         \A i \in DOMAIN fromRuntime : fromRuntime'[i] = fromRuntime[i],
         \/ /\ raised' = raised
            /\ \A i \in DOMAIN fromRuntime' \ DOMAIN fromRuntime : ~StopAtI(i)'
         \/ /\ raised' = raised + 1
            /\ \E s \in DOMAIN fromRuntime' \ DOMAIN fromRuntime :
                 /\ StopAtI(s)' /\ fromRuntime'[s].body.n = raised + 1
                 /\ hasLine <=> fromRuntime'[s].body.line # None
                 /\ \A i \in DOMAIN fromRuntime' \ DOMAIN fromRuntime : StopAtI(i)' => i = s
  PROVE  Served'
<1>0. /\ \A c \in Stoppers : c.call.stop.n \in Nat
      /\ \A i \in DOMAIN fromRuntime : StopAtI(i) => fromRuntime[i].body.n \in Nat
      /\ notified \in Nat /\ raised \in Nat
  BY StopNumbers
<1>1. \A i \in DOMAIN fromRuntime : StopAtI(i)' <=> StopAtI(i)
  BY DEF StopAtI
<1>2. StoppersInOrder' /\ InTurn' /\ (notified <= raised)'
  BY <1>0 DEF Served, StoppersInOrder, InTurn
<1>3. CASE /\ raised' = raised
           /\ \A i \in DOMAIN fromRuntime' \ DOMAIN fromRuntime : ~StopAtI(i)'
  <2>1. StoppersWait'
    BY <1>1, <1>3 DEF Served, StoppersWait
  <2>2. StopsInOrder'
    BY <1>1, <1>3 DEF Served, StopsInOrder
  <2>3. NoStopLost'
    BY <1>1, <1>3 DEF Served, NoStopLost
  <2> QED
    BY <1>2, <2>1, <2>2, <2>3 DEF Served
<1>4. ASSUME raised' = raised + 1, NEW s \in DOMAIN fromRuntime' \ DOMAIN fromRuntime,
             StopAtI(s)', fromRuntime'[s].body.n = raised + 1,
             hasLine <=> fromRuntime'[s].body.line # None,
             \A i \in DOMAIN fromRuntime' \ DOMAIN fromRuntime : StopAtI(i)' => i = s
      PROVE  Served'
  <2>1. StoppersWait'
    BY <1>0, <1>1, <1>4 DEF Served, StoppersWait
  <2>2. StopsInOrder'
    <3> SUFFICES ASSUME NEW i \in DOMAIN fromRuntime', StopAtI(i)'
                 PROVE  /\ fromRuntime'[i].body.n \in notified' + 1 .. raised'
                        /\ hasLine' <=> fromRuntime'[i].body.line # None
                        /\ \A j \in DOMAIN fromRuntime' : StopAtI(j)' /\ i < j =>
                             fromRuntime'[i].body.n < fromRuntime'[j].body.n
      BY DEF StopsInOrder
    <3>1. CASE i \in DOMAIN fromRuntime
      BY <1>0, <1>1, <1>4, <3>1 DEF Served, StopsInOrder
    <3>2. CASE i \notin DOMAIN fromRuntime
      <4>1. i = s
        BY <1>4, <3>2
      <4>2. notified + 1 <= raised + 1
        BY <1>0 DEF Served
      <4>3. \A j \in DOMAIN fromRuntime' : StopAtI(j)' /\ s < j => FALSE
        <5>1. /\ Len(fromRuntime) \in Nat /\ DOMAIN fromRuntime = 1 .. Len(fromRuntime)
              /\ Len(fromRuntime') \in Nat /\ DOMAIN fromRuntime' = 1 .. Len(fromRuntime')
          BY LenProperties DEF Pipes
        <5> QED
          BY <5>1, <1>4
      <4> QED
        BY <1>0, <1>4, <4>1, <4>2, <4>3
    <3> QED
      BY <3>1, <3>2
  <2>3. NoStopLost'
    <3> SUFFICES ASSUME NEW n \in notified' + 1 .. raised'
                 PROVE  \/ \E c \in Stoppers' : c.call.stop.n = n
                        \/ \E i \in DOMAIN fromRuntime' : StopAtI(i)' /\ fromRuntime'[i].body.n = n
      BY DEF NoStopLost
    <3>1. n = raised + 1 \/ n \in notified + 1 .. raised
      BY <1>0, <1>4
    <3> QED
      BY <1>1, <1>4, <3>1 DEF Served, NoStopLost
  <2> QED
    BY <1>2, <2>1, <2>2, <2>3 DEF Served
<1> QED
  BY <1>3, <1>4

\* The first stop on the pipe becomes a call for the locals, behind all others.
LEMMA OnStoppedServed ==
  ASSUME Inv, Inv', ReadyInOrder, Served, NEW m, OnStopped(m)
  PROVE  Served'
<1> DEFINE new == [id |-> reqId, call |-> Stopping("getLocalVariables", m.body)]
<1>1. Pipes /\ Pipes' /\ TableType /\ RuntimeType /\ ClientType
  BY DEF Inv, TypeInv
<1>2. /\ \A c \in Stoppers : c.call.stop.n \in Nat /\ c.id \in Nat /\ c.id < reqId
      /\ \A i \in DOMAIN fromRuntime : StopAtI(i) => fromRuntime[i].body.n \in Nat
      /\ notified \in Nat /\ raised \in Nat
  BY <1>1, StopNumbers
<1>3. /\ Len(fromRuntime) \in Nat /\ DOMAIN fromRuntime = 1 .. Len(fromRuntime)
      /\ Len(fromRuntime') \in Nat /\ DOMAIN fromRuntime' = 1 .. Len(fromRuntime')
  BY <1>1, LenProperties DEF Pipes
<1>4. /\ 1 \in DOMAIN fromRuntime /\ m = fromRuntime[1] /\ StopAtI(1)
      /\ Len(fromRuntime') = Len(fromRuntime) - 1
      /\ \A i \in 1 .. Len(fromRuntime') : fromRuntime'[i] = fromRuntime[i + 1]
  <2>1. fromRuntime \in Seq(Messages) /\ fromRuntime # <<>> /\ m = Head(fromRuntime)
        /\ fromRuntime' = Tail(fromRuntime) /\ m.type = "stopped"
    BY <1>1 DEF OnStopped, Receive, Pipes
  <2>2. Len(fromRuntime) # 0
    BY <2>1, EmptySeq
  <2> QED
    BY <1>3, <2>1, <2>2, HeadTailProperties DEF StopAtI
<1>5. \A i \in DOMAIN fromRuntime' :
        /\ i + 1 \in DOMAIN fromRuntime /\ fromRuntime'[i] = fromRuntime[i + 1] /\ 1 < i + 1
        /\ StopAtI(i)' => StopAtI(i + 1)
  BY <1>3, <1>4 DEF StopAtI
<1>6. \A i \in DOMAIN fromRuntime : StopAtI(i) /\ i # 1 =>
        /\ i - 1 \in DOMAIN fromRuntime' /\ fromRuntime'[i - 1] = fromRuntime[i]
        /\ StopAtI(i - 1)'
  <2> SUFFICES ASSUME NEW i \in DOMAIN fromRuntime, StopAtI(i), i # 1
               PROVE  /\ i - 1 \in DOMAIN fromRuntime' /\ fromRuntime'[i - 1] = fromRuntime[i]
                      /\ StopAtI(i - 1)'
    OBVIOUS
  <2>1. i - 1 \in 1 .. Len(fromRuntime')
    BY <1>3, <1>4
  <2>2. fromRuntime'[i - 1] = fromRuntime[i]
    BY <1>3, <1>4, <2>1
  <2> QED
    BY <1>3, <2>1, <2>2 DEF StopAtI
<1>7. Callers' = Callers \cup {new}
  BY <1>1, SendCallers DEF OnStopped
<1>8. /\ new.id = reqId /\ new.call.then = "stop" /\ ~Sited(new)
      /\ new.call.stop = m.body
  BY DEF Stopping, Quiet, Sited
<1> HIDE DEF new
<1>9. Stoppers' = Stoppers \cup {new} /\ UNCHANGED <<hasLine, raised, notices, notified>>
  <2>1. UNCHANGED <<hasLine, raised, notices, notified>>
    BY DEF OnStopped, runtime, client
  <2> QED
    BY <1>7, <1>8, <2>1 DEF Stoppers
<1>10. /\ m.body.n \in notified + 1 .. raised
       /\ hasLine <=> m.body.line # None
       /\ \A j \in DOMAIN fromRuntime : StopAtI(j) /\ 1 < j => m.body.n < fromRuntime[j].body.n
       /\ \A c \in Stoppers : c.call.stop.n < m.body.n
  BY <1>4 DEF Served, StopsInOrder, StoppersWait
<1>11. StoppersInOrder'
  <2> SUFFICES ASSUME NEW c \in Stoppers', NEW d \in Stoppers'
               PROVE  /\ c.id < d.id /\ (Sited(c) <=> Sited(d)) => c.call.stop.n < d.call.stop.n
                      /\ Sited(c) /\ ~Sited(d) => c.call.stop.n < d.call.stop.n
    BY DEF StoppersInOrder
  <2>1. CASE c \in Stoppers /\ d \in Stoppers
    BY <2>1 DEF Served, StoppersInOrder
  <2>2. CASE c \in Stoppers /\ d = new
    BY <1>8, <1>10, <2>2
  <2>3. CASE c = new /\ d \in Stoppers
    <3>1. ~(c.id < d.id)
      BY <1>1, <1>2, <1>8, <2>3 DEF TableType
    <3> QED
      BY <1>8, <2>3, <3>1
  <2>4. CASE c = new /\ d = new
    BY <1>1, <1>8, <2>4 DEF TableType
  <2> QED
    BY <1>9, <2>1, <2>2, <2>3, <2>4
<1>12. StoppersWait'
  <2> SUFFICES ASSUME NEW c \in Stoppers'
               PROVE  /\ c.call.stop.n \in notified + 1 .. raised
                      /\ hasLine <=> c.call.stop.line # None
                      /\ hasLine => ~Sited(c)
                      /\ \A i \in DOMAIN fromRuntime' :
                           StopAtI(i)' => c.call.stop.n < fromRuntime'[i].body.n
    BY <1>9 DEF StoppersWait
  <2>1. CASE c \in Stoppers
    BY <1>5, <2>1 DEF Served, StoppersWait
  <2>2. CASE c = new
    BY <1>5, <1>8, <1>10, <2>2
  <2> QED
    BY <1>9, <2>1, <2>2
<1>13. StopsInOrder'
  <2> SUFFICES ASSUME NEW i \in DOMAIN fromRuntime', StopAtI(i)'
               PROVE  /\ fromRuntime'[i].body.n \in notified + 1 .. raised
                      /\ hasLine <=> fromRuntime'[i].body.line # None
                      /\ \A j \in DOMAIN fromRuntime' : StopAtI(j)' /\ i < j =>
                           fromRuntime'[i].body.n < fromRuntime'[j].body.n
    BY <1>9 DEF StopsInOrder
  <2>1. ASSUME NEW j \in DOMAIN fromRuntime', StopAtI(j)', i < j
        PROVE  fromRuntime'[i].body.n < fromRuntime'[j].body.n
    <3>1. i + 1 < j + 1
      BY <1>3, <2>1
    <3> QED
      BY <1>5, <2>1, <3>1 DEF Served, StopsInOrder
  <2> QED
    BY <1>5, <2>1 DEF Served, StopsInOrder
<1>14. NoStopLost'
  <2> SUFFICES ASSUME NEW n \in notified + 1 .. raised
               PROVE  \/ \E c \in Stoppers' : c.call.stop.n = n
                      \/ \E i \in DOMAIN fromRuntime' : StopAtI(i)' /\ fromRuntime'[i].body.n = n
    BY <1>9 DEF NoStopLost
  <2>1. CASE \E c \in Stoppers : c.call.stop.n = n
    BY <1>9, <2>1
  <2>2. ASSUME NEW i \in DOMAIN fromRuntime, StopAtI(i), fromRuntime[i].body.n = n
        PROVE  \/ \E c \in Stoppers' : c.call.stop.n = n
               \/ \E j \in DOMAIN fromRuntime' : StopAtI(j)' /\ fromRuntime'[j].body.n = n
    <3>1. CASE i = 1
      BY <1>4, <1>8, <1>9, <2>2, <3>1
    <3>2. CASE i # 1
      BY <1>6, <2>2, <3>2
    <3> QED
      BY <3>1, <3>2
  <2> QED
    BY <2>1, <2>2 DEF Served, NoStopLost
<1> QED
  BY <1>9, <1>11, <1>12, <1>13, <1>14 DEF Served, InTurn

\* The first dispatch that goes on to its notice is that of the next stop.
LEMMA NotifyServed ==
  ASSUME Inv, Inv', ReadyInOrder, Served, Resume("stop"), Notify(Stop), NoSend,
         Sited(First) \/ hasLine, UNCHANGED <<fromRuntime, hasLine, raised>>
  PROVE  Served'
<1>1. Pipes /\ Pipes' /\ TableType /\ RuntimeType /\ ClientType
  BY DEF Inv, TypeInv
<1>2. /\ \A c \in Stoppers : c.call.stop.n \in Nat /\ c.id \in Nat
      /\ \A i \in DOMAIN fromRuntime : StopAtI(i) => fromRuntime[i].body.n \in Nat
      /\ notified \in Nat /\ raised \in Nat
  BY <1>1, StopNumbers
<1>3. /\ First \in Stoppers
      /\ \A c \in Callers : c # First => First.id < c.id
      /\ Stoppers' = Stoppers \ {First}
  BY <1>1, ResumeCallers DEF Stoppers
<1>4. First.call.stop = Stop
  BY DEF First, Stop
<1>5. \A c \in Stoppers : c # First => Stop.n < c.call.stop.n
  <2> SUFFICES ASSUME NEW c \in Stoppers, c # First PROVE Stop.n < c.call.stop.n
    OBVIOUS
  <2>1. First.id < c.id
    BY <1>3 DEF Stoppers
  <2>2. Sited(First) \/ ~Sited(c)
    BY DEF Served, StoppersWait
  <2> QED
    BY <1>3, <1>4, <2>1, <2>2 DEF Served, StoppersInOrder
<1>6. /\ Stop.n \in notified + 1 .. raised
      /\ \A i \in DOMAIN fromRuntime : StopAtI(i) => Stop.n < fromRuntime[i].body.n
  BY <1>3, <1>4 DEF Served, StoppersWait
<1>7. Stop.n = notified + 1
  <2> SUFFICES ASSUME Stop.n # notified + 1 PROVE FALSE
    OBVIOUS
  <2>1. notified + 1 \in notified + 1 .. raised /\ notified + 1 < Stop.n
    BY <1>2, <1>6
  <2>2. ASSUME NEW c \in Stoppers, c.call.stop.n = notified + 1 PROVE FALSE
    <3>1. c # First
      BY <1>4, <2>2
    <3>2. Stop.n < notified + 1
      BY <1>5, <2>2, <3>1
    <3> QED
      BY <1>2, <2>1, <3>2, <1>6
  <2>3. CASE \E i \in DOMAIN fromRuntime : StopAtI(i) /\ fromRuntime[i].body.n = notified + 1
    BY <1>2, <1>6, <2>1, <2>3
  <2> QED
    BY <2>1, <2>2, <2>3 DEF Served, NoStopLost
<1>8. notices' = notices + 1 /\ notified' = notified + 1
  BY <1>7 DEF Notify
<1>9. InTurn' /\ (notified <= raised)'
  BY <1>2, <1>6, <1>7, <1>8 DEF Served, InTurn
<1>10. StoppersInOrder'
  BY <1>3 DEF Served, StoppersInOrder
<1>11. StoppersWait'
  <2>1. \A c \in Stoppers' : c.call.stop.n \in notified' + 1 .. raised'
    BY <1>2, <1>3, <1>5, <1>7, <1>8 DEF Served, StoppersWait
  <2> QED
    BY <1>3, <2>1 DEF Served, StoppersWait, StopAtI
<1>12. StopsInOrder'
  <2>1. \A i \in DOMAIN fromRuntime : StopAtI(i) =>
          fromRuntime[i].body.n \in notified' + 1 .. raised'
    BY <1>2, <1>6, <1>7, <1>8 DEF Served, StopsInOrder
  <2> QED
    BY <2>1 DEF Served, StopsInOrder, StopAtI
<1>13. NoStopLost'
  <2> SUFFICES ASSUME NEW n \in notified' + 1 .. raised'
               PROVE  \/ \E c \in Stoppers' : c.call.stop.n = n
                      \/ \E i \in DOMAIN fromRuntime' : StopAtI(i)' /\ fromRuntime'[i].body.n = n
    BY DEF NoStopLost
  <2>1. n \in notified + 1 .. raised /\ n # notified + 1
    BY <1>2, <1>8
  <2>2. ASSUME NEW c \in Stoppers, c.call.stop.n = n PROVE c \in Stoppers'
    BY <1>3, <1>4, <1>7, <2>1, <2>2
  <2> QED
    BY <2>1, <2>2 DEF Served, NoStopLost, StopAtI
<1> QED
  BY <1>9, <1>10, <1>11, <1>12, <1>13 DEF Served

\* The first dispatch asks for the stack: it goes behind those that did before.
LEMMA SiteServed ==
  ASSUME Inv, Inv', ReadyInOrder, Served, Resume("stop"), ~hasLine, ~Sited(First),
         Send(Stopping("stackTrace", Stop), None),
         UNCHANGED <<fromRuntime, hasLine, raised, notices, notified>>
  PROVE  Served'
<1> DEFINE new == [id |-> reqId, call |-> Stopping("stackTrace", Stop)]
<1>1. Pipes /\ Pipes' /\ TableType /\ RuntimeType /\ ClientType
  BY DEF Inv, TypeInv
<1>2. \A c \in Stoppers : c.call.stop.n \in Nat /\ c.id \in Nat /\ c.id < reqId
  BY <1>1, StopNumbers
<1>3. /\ First \in Callers /\ First.call.then = "stop"
      /\ \A c \in Callers : c # First => First.id < c.id
      /\ Callers' = (Callers \ {First}) \cup {new}
  BY <1>1, ResumeCallers
<1>4. /\ new.id = reqId /\ new.call.then = "stop" /\ Sited(new)
      /\ new.call.stop = First.call.stop
  BY DEF Stopping, Quiet, Sited, First, Stop
<1> HIDE DEF new
<1>5. First \in Stoppers /\ Stoppers' = (Stoppers \ {First}) \cup {new}
  BY <1>3, <1>4 DEF Stoppers
<1>6. \A c \in Stoppers : Sited(c) => c.call.stop.n < new.call.stop.n
  BY <1>4, <1>5 DEF Served, StoppersInOrder
<1>7. \A c \in Stoppers : ~Sited(c) /\ c # First => new.call.stop.n < c.call.stop.n
  BY <1>3, <1>4, <1>5 DEF Served, StoppersInOrder, Stoppers
<1>8. StoppersInOrder'
  <2> SUFFICES ASSUME NEW c \in Stoppers', NEW d \in Stoppers'
               PROVE  /\ c.id < d.id /\ (Sited(c) <=> Sited(d)) => c.call.stop.n < d.call.stop.n
                      /\ Sited(c) /\ ~Sited(d) => c.call.stop.n < d.call.stop.n
    BY DEF StoppersInOrder
  <2>1. CASE c \in Stoppers /\ d \in Stoppers
    BY <2>1 DEF Served, StoppersInOrder
  <2>2. CASE c \in Stoppers /\ d = new
    BY <1>4, <1>6, <2>2
  <2>3. CASE c = new /\ d \in Stoppers /\ d # First
    <3>1. ~(c.id < d.id)
      BY <1>1, <1>2, <1>4, <2>3 DEF TableType
    <3> QED
      BY <1>4, <1>7, <2>3, <3>1
  <2>4. CASE c = new /\ d = new
    BY <1>1, <1>4, <2>4 DEF TableType
  <2> QED
    BY <1>5, <2>1, <2>2, <2>3, <2>4
<1>9. StoppersWait'
  BY <1>4, <1>5 DEF Served, StoppersWait, StopAtI
<1>10. StopsInOrder'
  BY DEF Served, StopsInOrder, StopAtI
<1>11. NoStopLost'
  <2> SUFFICES ASSUME NEW n \in notified + 1 .. raised
               PROVE  \/ \E c \in Stoppers' : c.call.stop.n = n
                      \/ \E i \in DOMAIN fromRuntime' : StopAtI(i)' /\ fromRuntime'[i].body.n = n
    BY DEF NoStopLost
  <2>1. ASSUME NEW c \in Stoppers, c.call.stop.n = n
        PROVE  \E d \in Stoppers' : d.call.stop.n = n
    <3>1. CASE c = First
      BY <1>4, <1>5, <2>1, <3>1
    <3>2. CASE c # First
      BY <1>5, <2>1, <3>2
    <3> QED
      BY <3>1, <3>2
  <2> QED
    BY <2>1 DEF Served, NoStopLost, StopAtI
<1> QED
  BY <1>8, <1>9, <1>10, <1>11 DEF Served, InTurn

LEMMA NextKeepsServed ==
  Inv /\ CallsInOrder /\ Served /\ Inv' /\ [Next]_allVars => Served'
<1> SUFFICES ASSUME Inv, CallsInOrder, Served, Inv', [Next]_allVars PROVE Served'
  OBVIOUS
<1>1. Pipes /\ Pipes' /\ TableType /\ RuntimeType /\ ClientType /\ Table
  BY DEF Inv, TypeInv, Table
<1>2. PipesInOrder /\ ReadyInOrder
  BY DEF CallsInOrder
<1>3. Len(fromRuntime) \in Nat /\ DOMAIN fromRuntime = 1 .. Len(fromRuntime)
      /\ Len(fromRuntime') \in Nat /\ DOMAIN fromRuntime' = 1 .. Len(fromRuntime')
  BY <1>1, LenProperties DEF Pipes
\* The pipe from the runtime stays as it is.
<1>4. ASSUME UNCHANGED <<fromRuntime, hasLine, raised, notices, notified>>,
             Stoppers' = Stoppers
      PROVE  Served'
  BY <1>1, <1>3, <1>4, QuietServed
<1>5. CASE Client
  <2>1. PICK call, arg : Send(call, arg) /\ call.then # "stop"
    <3>1. /\ Refresh.then # "stop"
          /\ \A command : Quiet(command).then # "stop" /\ Starting(command).then # "stop"
          /\ \A n : Editing(n).then # "stop"
      BY DEF Quiet, Starting, Refresh, Editing
    <3> QED
      BY <1>5, <3>1 DEF Client, Start, Run, Pause, Disconnect, GetLocalVariables,
         SetLocalVariable, SendBreakpoints, SetBreakPoint, ClearBreakPoint, ClearBreakpoints,
         SetBreakpointsBulk
  <2>2. UNCHANGED <<fromRuntime, hasLine, raised, notices, notified, ready>>
    BY <1>5 DEF Client, Start, Run, Pause, Disconnect, GetLocalVariables, SetLocalVariable,
       SendBreakpoints, SetBreakPoint, ClearBreakPoint, ClearBreakpoints, SetBreakpointsBulk,
       runtime, loop, client
  <2>3. Callers' = Callers \cup {[id |-> reqId, call |-> call]}
    BY <1>1, <2>1, <2>2, SendCallers
  <2>4. Stoppers' = Stoppers
    BY <2>1, <2>3 DEF Stoppers
  <2> QED
    BY <1>4, <2>2, <2>4
<1>6. CASE OnLine
  <2>1. PICK m : OnResponse(m) \/ OnStopped(m) \/ OnTerminated(m)
    BY <1>6 DEF OnLine
  <2>2. CASE OnStopped(m)
    BY <1>2, <2>2, OnStoppedServed
  <2>3. CASE OnResponse(m) \/ OnTerminated(m)
    <3>1. UNCHANGED <<hasLine, raised, notices, notified>>
      BY <2>3 DEF OnResponse, OnTerminated, runtime, client
    <3>2. fromRuntime \in Seq(Messages) /\ fromRuntime # <<>> /\ m = Head(fromRuntime)
          /\ fromRuntime' = Tail(fromRuntime) /\ m.type # "stopped"
      BY <1>1, <2>3 DEF OnResponse, OnTerminated, Receive, Pipes
    <3>3. /\ Len(fromRuntime') = Len(fromRuntime) - 1
          /\ \A i \in 1 .. Len(fromRuntime') : fromRuntime'[i] = fromRuntime[i + 1]
          /\ ~StopAtI(1)
      BY <3>2, HeadTailProperties DEF StopAtI
    <3>4. Callers' = Callers
      <4>1. CASE OnResponse(m)
        BY <1>1, <1>2, <4>1, ResolveInOrder, ResolveCallers DEF OnResponse
      <4>2. CASE OnTerminated(m)
        BY <4>2, QuietCallers DEF OnTerminated, NoSend
      <4> QED
        BY <2>3, <4>1, <4>2
    <3>5. Stoppers' = Stoppers
      BY <3>4 DEF Stoppers
    <3> QED
      BY <1>1, <3>1, <3>3, <3>5, QuietServed
  <2> QED
    BY <2>1, <2>2, <2>3
<1>7. CASE Continuation
  <2>1. CASE Nothing \/ Refreshed \/ EditConfirmed \/ StartWentOn
    <3>1. UNCHANGED <<fromRuntime, hasLine, raised, notices, notified>>
      BY <2>1 DEF Nothing, Refreshed, EditConfirmed, StartWentOn, runtime, client
    <3>2. PICK then \in {"none", "refresh", "edit", "start"} : Resume(then)
      BY <2>1 DEF Nothing, Refreshed, EditConfirmed, StartWentOn
    <3>3. NoSend \/ \E call, arg : Send(call, arg) /\ call.then # "stop"
      BY <2>1 DEF Nothing, Refreshed, EditConfirmed, StartWentOn, Starting, Refresh, Quiet
    <3>4. First.call.then # "stop"
      BY <3>2, <1>1, <1>2, ResumeCallers
    <3>5. CASE NoSend
      <4>1. Callers' = Callers \ {First}
        BY <1>1, <1>2, <3>2, <3>5, ResumeCallers
      <4> QED
        BY <1>4, <3>1, <3>4, <4>1 DEF Stoppers
    <3>6. ASSUME NEW call, NEW arg, Send(call, arg), call.then # "stop" PROVE Served'
      <4>1. Callers' = (Callers \ {First}) \cup {[id |-> reqId, call |-> call]}
        BY <1>1, <1>2, <3>2, <3>6, ResumeCallers
      <4>2. Stoppers' = Stoppers
        BY <3>4, <3>6, <4>1 DEF Stoppers
      <4> QED
        BY <1>4, <3>1, <4>2
    <3> QED
      BY <3>3, <3>5, <3>6
  <2>2. CASE StopRefreshed \/ StopLocated
    <3>1. Resume("stop") /\ UNCHANGED <<fromRuntime, hasLine, raised>>
      BY <2>2 DEF StopRefreshed, StopLocated, runtime
    <3>2. First \in Stoppers /\ First.call = Head(ready).call /\ First.call.stop = Stop
      BY <3>1, <1>1, <1>2, ResumeCallers DEF Stoppers, First, Stop
    <3>3. CASE StopLocated
      <4>1. Notify(Stop) /\ NoSend /\ Sited(First)
        BY <3>2, <3>3 DEF StopLocated, Sited
      <4> QED
        BY <1>2, <3>1, <4>1, NotifyServed
    <3>4. CASE StopRefreshed /\ Stop.line # None
      <4>1. Notify(Stop) /\ NoSend
        BY <3>4 DEF StopRefreshed
      <4>2. hasLine
        BY <3>2, <3>4 DEF Served, StoppersWait
      <4> QED
        BY <1>2, <3>1, <4>1, <4>2, NotifyServed
    <3>5. CASE StopRefreshed /\ Stop.line = None
      <4>1. Send(Stopping("stackTrace", Stop), None) /\ UNCHANGED <<notices, notified>>
            /\ ~Sited(First)
        BY <3>2, <3>5 DEF StopRefreshed, Sited
      <4>2. ~hasLine
        BY <3>2, <3>5 DEF Served, StoppersWait
      <4> QED
        BY <1>2, <3>1, <4>1, <4>2, SiteServed
    <3> QED
      BY <2>2, <3>3, <3>4, <3>5
  <2> QED
    BY <1>7, <2>1, <2>2 DEF Continuation
<1>8. CASE Service
  <2>1. PICK success \in BOOLEAN, body \in Bodies, stops \in Seq(Messages) :
          /\ Response(Head(toRuntime), success, body) \in Messages
          /\ Reply(success, body, stops)
          /\ \/ stops = <<>> /\ raised' = raised
             \/ stops = StopAt(raised + 1, line) /\ raised' = raised + 1
    BY <1>1, <1>8, ServiceReplies
  <2>2. UNCHANGED <<pending, ready, hasLine, notices, notified>> /\ toRuntime # <<>>
    BY <1>8, ServiceWaits
  <2>3. Stoppers' = Stoppers
    BY <2>2, QuietCallers DEF Stoppers
  <2>4. /\ Len(fromRuntime') = Len(fromRuntime) + 1 + Len(stops)
        /\ \A i \in 1 .. Len(fromRuntime) : fromRuntime'[i] = fromRuntime[i]
        /\ fromRuntime'[Len(fromRuntime) + 1] = Response(Head(toRuntime), success, body)
        /\ \A i \in Len(fromRuntime) + 2 .. Len(fromRuntime') :
             fromRuntime'[i] = stops[i - Len(fromRuntime) - 1]
    BY <1>1, <2>1, <2>2, ReplyPipes
  <2>5. Response(Head(toRuntime), success, body).type # "stopped"
    BY DEF Response
  <2>6. CASE stops = <<>> /\ raised' = raised
    <3>1. DOMAIN fromRuntime \subseteq DOMAIN fromRuntime'
          /\ \A i \in DOMAIN fromRuntime' \ DOMAIN fromRuntime : i = Len(fromRuntime) + 1
      BY <1>3, <2>4, <2>6
    <3>2. \A i \in DOMAIN fromRuntime' \ DOMAIN fromRuntime : ~StopAtI(i)'
      BY <2>4, <2>5, <3>1 DEF StopAtI
    <3> QED
      BY <1>1, <1>2, <1>3, <2>2, <2>3, <2>4, <2>6, <3>1, <3>2, ReportServed
  <2>7. CASE stops = StopAt(raised + 1, line) /\ raised' = raised + 1
    <3>1. /\ Len(stops) = 1 /\ stops[1].type = "stopped" /\ stops[1].body.n = raised + 1
          /\ hasLine <=> stops[1].body.line # None
      BY <1>1, <2>7, StopSaysLine DEF RuntimeType
    <3>2. PICK s \in Nat : s = Len(fromRuntime) + 2
      BY <1>3
    <3>3. DOMAIN fromRuntime \subseteq DOMAIN fromRuntime'
          /\ s \in DOMAIN fromRuntime' \ DOMAIN fromRuntime /\ fromRuntime'[s] = stops[1]
          /\ \A i \in DOMAIN fromRuntime' \ DOMAIN fromRuntime :
               i = s \/ i = Len(fromRuntime) + 1
      BY <1>3, <2>4, <3>1, <3>2
    <3>4. \A i \in DOMAIN fromRuntime' \ DOMAIN fromRuntime : StopAtI(i)' => i = s
      BY <2>4, <2>5, <3>3 DEF StopAtI
    <3>5. StopAtI(s)'
      BY <3>1, <3>3 DEF StopAtI
    <3> QED
      BY <1>1, <1>2, <1>3, <2>2, <2>3, <2>4, <2>7, <3>1, <3>3, <3>4, <3>5, ReportServed
  <2> QED
    BY <2>1, <2>6, <2>7
<1>9. CASE ProgramReports
  <2>1. UNCHANGED <<pending, ready, hasLine, notices, notified>>
    BY <1>9 DEF ProgramReports, ProgramEnds, ProgramStops, Program, loop, client
  <2>2. Stoppers' = Stoppers
    BY <2>1, QuietCallers DEF Stoppers
  <2>3. PICK events \in Seq(Messages) :
          /\ fromRuntime' = fromRuntime \o events
          /\ \/ events = <<Event("terminated", None)>> /\ raised' = raised
             \/ \E l \in Lines : events = StopAt(raised + 1, l) /\ raised' = raised + 1
    BY <1>1, <1>9, ReportsAreEvents
  <2>4. Len(events) = 1
    BY <2>3, EventsAreNoAnswers
  <2>5. PICK s \in Nat : s = Len(fromRuntime) + 1
    BY <1>3
  <2>6. /\ DOMAIN fromRuntime \subseteq DOMAIN fromRuntime'
        /\ \A i \in DOMAIN fromRuntime : fromRuntime'[i] = fromRuntime[i]
        /\ s \in DOMAIN fromRuntime' \ DOMAIN fromRuntime /\ fromRuntime'[s] = events[1]
        /\ \A i \in DOMAIN fromRuntime' \ DOMAIN fromRuntime : i = s
    <3>1. /\ Len(fromRuntime') = Len(fromRuntime) + Len(events)
          /\ \A i \in 1 .. Len(fromRuntime) + Len(events) :
               fromRuntime'[i] = IF i <= Len(fromRuntime) THEN fromRuntime[i]
                                                          ELSE events[i - Len(fromRuntime)]
      BY <1>1, <2>3, ConcatProperties DEF Pipes
    <3> QED
      BY <1>3, <2>4, <2>5, <3>1
  <2>7. CASE events = <<Event("terminated", None)>> /\ raised' = raised
    <3>1. ~StopAtI(s)'
      BY <2>6, <2>7 DEF StopAtI, Event
    <3> QED
      BY <1>1, <1>2, <2>1, <2>2, <2>6, <2>7, <3>1, ReportServed
  <2>8. ASSUME NEW l \in Lines, events = StopAt(raised + 1, l), raised' = raised + 1
        PROVE  Served'
    <3>1. /\ events[1].type = "stopped" /\ events[1].body.n = raised + 1
          /\ hasLine <=> events[1].body.line # None
      BY <2>8, StopSaysLine
    <3>2. StopAtI(s)'
      BY <2>6, <3>1 DEF StopAtI
    <3> QED
      BY <1>1, <1>2, <2>1, <2>2, <2>6, <2>8, <3>1, <3>2, ReportServed
  <2> QED
    BY <2>3, <2>7, <2>8
<1>10. CASE \/ Exit \/ OnExit \/ UNCHANGED allVars
            \/ \E n \in Names, v \in Values : ProgramAssigns(n, v)
  <2>1. UNCHANGED <<pending, ready, fromRuntime, hasLine, raised, notices, notified>>
    BY <1>10 DEF Exit, OnExit, allVars, ProgramAssigns, Program, loop, client, runtime
  <2> QED
    BY <1>4, <2>1, QuietCallers DEF Stoppers
<1> QED
  BY <1>5, <1>6, <1>7, <1>8, <1>9, <1>10 DEF Next

LEMMA ServedAtFirst == Init => Served
<1> SUFFICES ASSUME Init PROVE Served
  OBVIOUS
<1>1. Callers = {} /\ DOMAIN fromRuntime = {} /\ notified = 0 /\ raised = 0 /\ notices = 0
  BY DEF Init, Callers
<1>2. Stoppers = {}
  BY <1>1 DEF Stoppers
<1> QED
  BY <1>1, <1>2 DEF Served, StoppersInOrder, StoppersWait, StopsInOrder, NoStopLost, InTurn

\* Answers come back in the order of the requests, and the callers they settle
\* resume in that order (send, onLine), whatever stops and ends come between.
THEOREM AnsweredInOrder == Spec => []CallsInOrder
BY CallsInOrderAtFirst, NextKeepsCallsInOrder, Invariant, PTL DEF Spec

\* Every stop the runtime has reported and the client was not told of is on the pipe or
\* being dispatched (onLine, dispatchEvent), once, and behind those before it.
THEOREM NoStopIsLost == Spec => []Served
BY ServedAtFirst, NextKeepsServed, Invariant, AnsweredInOrder, PTL DEF Spec

\* The client gets one notice for every stop, in the order of the stops, although the
\* dispatch of a stop (onLine, dispatchEvent) waits for one answer or two while more
\* stops come in, calls overlap and the runtime may exit.
THEOREM NotifiedInTurn == Spec => []InTurn
<1>1. Served => InTurn
  BY DEF Served
<1> QED
  BY <1>1, NoStopIsLost, PTL

-----------------------------------------------------------------------------
(* The cache.                                                               *)

\* What is on its way: requests, answers that were not gone on with, and stops.
Asked    == {toRuntime[i] : i \in DOMAIN toRuntime}
Answers  == {fromRuntime[i] : i \in {j \in DOMAIN fromRuntime : ResponseAt(j)}}
              \cup {ready[i].answer : i \in DOMAIN ready}
Reported == {fromRuntime[i].body : i \in {j \in DOMAIN fromRuntime : StopAtI(j)}}

Edits(n)   == {c \in Callers : c.call.then = "edit" /\ c.call.name = n}
Setting(n) == {q \in Asked : q.command = "setVariable" /\ q.arg.name = n}
Looks      == {a \in Answers : a.command = "getLocalVariables"}

\* No variable is set again before its last edit was confirmed.
OneEditEach == \A n \in Names : \A c, d \in Edits(n) : c = d

\* What a call is for, and what an edit that is not confirmed holds.
CallersPurpose ==
  \A c \in Callers :
    /\ c.call.then = "edit" <=> c.call.command = "setVariable"
    /\ c.call.command = "getLocalVariables" => c.call.then \in {"refresh", "stop"}
EditsHeld ==
  /\ \A n \in Names : pendingLocalEdits[n] # None <=> Edits(n) # {}
  /\ \A n \in Names : pendingLocalEdits[n] # None => locals[n] = pendingLocalEdits[n]
  /\ \A n \in Names : \A q \in Setting(n) :
       q.arg.value = pendingLocalEdits[n] /\ \E c \in Edits(n) : c.id = q.id
  /\ \A c \in Callers, n \in Names : c.call.then = "refresh" =>
       \A d \in Edits(n) : d.id < c.id

\* The last stop, wherever it is, carries or will get the program's line.
LineHeld ==
  /\ \A s \in Reported : s.n = raised /\ s.line # None => s.line = line
  /\ \A c \in Stoppers : c.call.stop.n = raised =>
       /\ c.call.stop.line # None => c.call.stop.line = line
       /\ \A a \in Answers : Sited(c) /\ a.id = c.id => a.body = line
  /\ notified = raised => currentLine = line

\* A stale cache is stale only until the next stop.
FreshSoon ==
  state = "stopped" /\ ~localsFresh =>
    \/ \E q \in Asked : q.command \in {"continue", "next"}
    \/ Reported # {}
    \/ \E c \in Stoppers : ~Sited(c)

\* A variable once set is never unset.
NoneUnset ==
  /\ \A a \in Looks, n \in Names : a.body[n] # None => vars[n] # None
  /\ state # "exited" => \A n \in Names : locals[n] # None /\ vars[n] = None => Setting(n) # {}

\* With no more look at the variables to come, the last one saw them as they are,
\* but for those set since; and those are in the cache already.
LooksToCome == Reported # {} \/ \E q \in Asked : q.command = "getLocalVariables"
LastLook ==
  state = "stopped" /\ ~LooksToCome =>
    \A n \in Names :
      /\ \A a \in Looks :
           (\A b \in Looks : b.id <= a.id) /\ (\A c \in Edits(n) : c.id < a.id)
             => a.body[n] = vars[n]
      /\ (\A a \in Looks : \E c \in Edits(n) : a.id < c.id) /\ Setting(n) = {}
           => locals[n] = vars[n]

Cached == /\ CallersPurpose /\ EditsHeld /\ LineHeld /\ FreshSoon /\ NoneUnset /\ LastLook

-----------------------------------------------------------------------------
(* Requests, answers and stops on their way, as sets.                       *)

LEMMA PipeElements ==
  ASSUME Pipes
  PROVE  /\ \A i \in DOMAIN toRuntime : toRuntime[i] \in Requests
         /\ \A i \in DOMAIN fromRuntime : fromRuntime[i] \in Messages
         /\ \A i \in DOMAIN ready : ready[i] \in Resumptions
BY ElementOfSeq, LenProperties DEF Pipes

\* Whose every request and answer is.
LEMMA OnTheirWay ==
  ASSUME Inv, CallsInOrder
  PROVE  /\ \A c \in Callers : c.id \in Nat /\ c.id < reqId /\ CallOK(c.call)
         /\ \A c, d \in Callers : c.id = d.id => c = d
         /\ \A q \in Asked : /\ q \in Requests
                             /\ \E c \in Callers : c.id = q.id /\ c.call.command = q.command
         /\ \A a \in Answers : /\ a \in Messages /\ a.type = "response"
                               /\ \E c \in Callers : c.id = a.id /\ c.call.command = a.command
         /\ \A a \in Answers, q \in Asked : a.id < q.id
         /\ \A a, b \in Answers : a.id = b.id => a = b
         /\ state # "exited" => \A c \in Callers : \/ \E q \in Asked : q.id = c.id
                                                   \/ \E a \in Answers : a.id = c.id
         /\ \A s \in Reported : s \in StopEvent
<1>1. Pipes /\ TableType
  BY DEF Inv, TypeInv
<1>2. PipesInOrder /\ ReadyInOrder
  BY DEF CallsInOrder
<1>3. /\ \A i \in DOMAIN toRuntime : toRuntime[i] \in Requests
      /\ \A i \in DOMAIN fromRuntime : fromRuntime[i] \in Messages
      /\ \A i \in DOMAIN ready : ready[i] \in Resumptions
  BY <1>1, PipeElements
<1>4. /\ DOMAIN toRuntime = 1 .. Len(toRuntime) /\ Len(toRuntime) \in Nat
      /\ DOMAIN fromRuntime = 1 .. Len(fromRuntime) /\ Len(fromRuntime) \in Nat
      /\ DOMAIN ready = 1 .. Len(ready) /\ Len(ready) \in Nat
  BY <1>1, LenProperties DEF Pipes
<1>5. \A r \in Resumptions : /\ r.answer \in Messages /\ r.answer.type = "response"
                             /\ CallOK(r.call) /\ r.answer.command = r.call.command
  BY DEF Resumptions, ReadyOK
<1>6. \A m \in Messages : m.id \in Nat /\ MessageOK(m)
  BY DEF Messages
<1>7. \A q \in Requests : q.id \in Nat
  BY DEF Requests
<1>8. ASSUME NEW c \in Callers
      PROVE  \/ c.id \in DOMAIN pending /\ c.call = pending[c.id]
             \/ \E i \in DOMAIN ready : c.id = ready[i].answer.id /\ c.call = ready[i].call
  BY DEF Callers
<1>9. \A c \in Callers : c = [id |-> c.id, call |-> c.call]
  BY DEF Callers
<1>10. \A c \in Callers : c.id \in Nat /\ c.id < reqId /\ CallOK(c.call)
  BY <1>1, <1>2, <1>3, <1>5, <1>6, <1>8 DEF TableType, ReadyInOrder
<1>11. \A c, d \in Callers : c.id = d.id => c = d
  <2> SUFFICES ASSUME NEW c \in Callers, NEW d \in Callers, c.id = d.id PROVE c.call = d.call
    BY <1>9
  <2>1. CASE c.id \in DOMAIN pending \/ d.id \in DOMAIN pending
    BY <1>2, <1>8, <1>10, <2>1 DEF ReadyInOrder
  <2>2. CASE ~(c.id \in DOMAIN pending \/ d.id \in DOMAIN pending)
    <3>1. PICK i \in DOMAIN ready : c.id = ready[i].answer.id /\ c.call = ready[i].call
      BY <1>8, <2>2
    <3>2. PICK j \in DOMAIN ready : d.id = ready[j].answer.id /\ d.call = ready[j].call
      BY <1>8, <2>2
    <3>3. i = j
      <4>0. ready[i].answer.id = ready[j].answer.id /\ ready[j].answer.id \in Nat
        BY <1>10, <3>1, <3>2
      <4>1. ~(ready[i].answer.id < ready[j].answer.id)
            /\ ~(ready[j].answer.id < ready[i].answer.id)
        BY <4>0
      <4>2. ~(i < j) /\ ~(j < i)
        BY <1>2, <4>1 DEF ReadyInOrder
      <4> QED
        BY <1>4, <4>2
    <3> QED
      BY <3>1, <3>2, <3>3
  <2> QED
    BY <2>1, <2>2
<1>12. ASSUME NEW id \in DOMAIN pending
       PROVE  \E c \in Callers : c.id = id /\ c.call = pending[id]
  <2>1. PICK c : c = [id |-> id, call |-> pending[id]]
    OBVIOUS
  <2>2. c \in Callers
    BY <2>1 DEF Callers
  <2> QED
    BY <2>1, <2>2
<1>13. ASSUME NEW i \in DOMAIN ready
       PROVE  \E c \in Callers : c.id = ready[i].answer.id /\ c.call = ready[i].call
  <2>1. PICK c : c = [id |-> ready[i].answer.id, call |-> ready[i].call]
    OBVIOUS
  <2>2. c \in Callers
    BY <2>1 DEF Callers
  <2> QED
    BY <2>1, <2>2
<1>14. ASSUME NEW q \in Asked
       PROVE  /\ q \in Requests /\ q.id \in DOMAIN pending
              /\ \E c \in Callers : c.id = q.id /\ c.call.command = q.command
  <2>1. PICK i \in DOMAIN toRuntime : q = toRuntime[i]
    BY DEF Asked
  <2>2. q.id \in DOMAIN pending /\ pending[q.id].command = q.command
    BY <2>1 DEF Inv, QuestionsMatch
  <2> QED
    BY <1>3, <1>12, <2>1, <2>2
<1>15. ASSUME NEW a \in Answers
       PROVE  \/ \E i \in DOMAIN fromRuntime :
                   /\ ResponseAt(i) /\ a = fromRuntime[i]
                   /\ a.id \in DOMAIN pending /\ pending[a.id].command = a.command
              \/ \E i \in DOMAIN ready : a = ready[i].answer
  BY DEF Answers, Inv, AnswersMatch
<1>16. ASSUME NEW a \in Answers
       PROVE  /\ a \in Messages /\ a.type = "response"
              /\ \E c \in Callers : c.id = a.id /\ c.call.command = a.command
  BY <1>3, <1>5, <1>12, <1>13, <1>15 DEF ResponseAt
<1>17. \A a \in Answers, q \in Asked : a.id < q.id
  <2> SUFFICES ASSUME NEW a \in Answers, NEW q \in Asked PROVE a.id < q.id
    OBVIOUS
  <2>1. PICK i \in DOMAIN toRuntime : q = toRuntime[i]
    BY DEF Asked
  <2> QED
    BY <1>2, <1>14, <1>15, <2>1 DEF PipesInOrder, ReadyInOrder
<1>18. \A a, b \in Answers : a.id = b.id => a = b
  <2> SUFFICES ASSUME NEW a \in Answers, NEW b \in Answers, a.id = b.id PROVE a = b
    OBVIOUS
  <2>0. a.id \in Nat
    BY <1>6, <1>16
  <2>1. CASE (\E i \in DOMAIN ready : a = ready[i].answer)
             /\ (\E i \in DOMAIN ready : b = ready[i].answer)
    <3>1. PICK i \in DOMAIN ready : a = ready[i].answer
      BY <2>1
    <3>2. PICK j \in DOMAIN ready : b = ready[j].answer
      BY <2>1
    <3>3. ~(i < j) /\ ~(j < i)
      BY <1>2, <2>0, <3>1, <3>2 DEF ReadyInOrder
    <3>4. i = j
      BY <1>4, <3>3
    <3> QED
      BY <3>1, <3>2, <3>4
  <2>2. CASE a.id \in DOMAIN pending
    <3>1. ~ \E i \in DOMAIN ready : a.id = ready[i].answer.id
      BY <1>2, <2>0, <2>2 DEF ReadyInOrder
    <3> QED
      BY <1>15, <3>1 DEF Inv, AnswersMatch
  <2> QED
    BY <1>15, <2>1, <2>2
<1>19. ASSUME state # "exited", NEW c \in Callers
       PROVE  (\E q \in Asked : q.id = c.id) \/ (\E a \in Answers : a.id = c.id)
  BY <1>8, <1>19 DEF Inv, NoneForgotten, Asked, Answers
<1>20. \A s \in Reported : s \in StopEvent
  BY <1>3, <1>6 DEF Reported, StopAtI, MessageOK
<1> QED
  BY <1>10, <1>11, <1>14, <1>16, <1>17, <1>18, <1>19, <1>20

LEMMA SendAsks ==
  ASSUME Pipes, Pipes', TableType, NEW call, NEW arg, Send(call, arg)
  PROVE  /\ state = "exited" => Asked' = Asked
         /\ state # "exited" => Asked' = Asked \cup {Request(reqId, call.command, arg)}
<1>1. CASE state = "exited"
  BY <1>1, SendPipe DEF Asked, Pipes
<1>2. CASE state # "exited"
  <2>1. /\ Len(toRuntime') = Len(toRuntime) + 1
        /\ \A i \in 1 .. Len(toRuntime) : toRuntime'[i] = toRuntime[i]
        /\ toRuntime'[Len(toRuntime) + 1] = Request(reqId, call.command, arg)
    BY <1>2, SendPipe DEF Pipes
  <2>2. /\ Len(toRuntime) \in Nat /\ DOMAIN toRuntime = 1 .. Len(toRuntime)
        /\ DOMAIN toRuntime' = 1 .. Len(toRuntime')
    BY LenProperties DEF Pipes
  <2> QED
    BY <1>2, <2>1, <2>2 DEF Asked
<1> QED
  BY <1>1, <1>2

LEMMA WhatIsOnItsWay ==
  /\ \A a : a \in Answers <=> \/ \E i \in DOMAIN fromRuntime : ResponseAt(i) /\ a = fromRuntime[i]
                              \/ \E i \in DOMAIN ready : a = ready[i].answer
  /\ \A s : s \in Reported <=> \E i \in DOMAIN fromRuntime : StopAtI(i) /\ s = fromRuntime[i].body
  /\ \A a : a \in Answers' <=>
       \/ \E i \in DOMAIN fromRuntime' : ResponseAt(i)' /\ a = fromRuntime'[i]
       \/ \E i \in DOMAIN ready' : a = ready'[i].answer
  /\ \A s : s \in Reported' <=>
       \E i \in DOMAIN fromRuntime' : StopAtI(i)' /\ s = fromRuntime'[i].body
BY DEF Answers, Reported

LEMMA SameAnswers ==
  ASSUME UNCHANGED <<fromRuntime, ready>>
  PROVE  Answers' = Answers /\ Reported' = Reported
BY DEF Answers, Reported, ResponseAt, StopAtI

\* A line that is read: a stop leaves those reported, and an answer only moves on.
LEMMA LineRead ==
  ASSUME Pipes, Pipes', NEW m, Receive(m)
  PROVE  /\ 1 \in DOMAIN fromRuntime /\ m = fromRuntime[1]
         /\ DOMAIN fromRuntime = {1} \cup {i + 1 : i \in DOMAIN fromRuntime'}
         /\ \A i \in DOMAIN fromRuntime' : fromRuntime'[i] = fromRuntime[i + 1]
<1>1. fromRuntime \in Seq(Messages) /\ fromRuntime # <<>> /\ m = Head(fromRuntime)
      /\ fromRuntime' = Tail(fromRuntime)
  BY DEF Pipes, Receive
<1>2. /\ Len(fromRuntime) \in Nat /\ DOMAIN fromRuntime = 1 .. Len(fromRuntime)
      /\ Len(fromRuntime') \in Nat /\ DOMAIN fromRuntime' = 1 .. Len(fromRuntime')
  BY LenProperties DEF Pipes
<1>3. Len(fromRuntime) # 0
  BY <1>1, EmptySeq
<1>4. /\ Len(fromRuntime') = Len(fromRuntime) - 1
      /\ \A i \in 1 .. Len(fromRuntime') : fromRuntime'[i] = fromRuntime[i + 1]
  BY <1>1, HeadTailProperties
<1>5. \A i \in DOMAIN fromRuntime : i = 1 \/ (i - 1 \in DOMAIN fromRuntime' /\ i = (i - 1) + 1)
  BY <1>2, <1>4
<1>6. \A i \in DOMAIN fromRuntime' : i + 1 \in DOMAIN fromRuntime
  BY <1>2, <1>4
<1> QED
  BY <1>1, <1>2, <1>3, <1>4, <1>5, <1>6

LEMMA EventRead ==
  ASSUME Pipes, Pipes', NEW m, Receive(m), m.type # "response", UNCHANGED ready
  PROVE  /\ Answers' = Answers
         /\ Reported = Reported' \cup (IF m.type = "stopped" THEN {m.body} ELSE {})
<1>1. /\ 1 \in DOMAIN fromRuntime /\ m = fromRuntime[1]
      /\ DOMAIN fromRuntime = {1} \cup {i + 1 : i \in DOMAIN fromRuntime'}
      /\ \A i \in DOMAIN fromRuntime' : fromRuntime'[i] = fromRuntime[i + 1]
  BY LineRead
<1>2. \A a : (\E i \in DOMAIN fromRuntime : ResponseAt(i) /\ a = fromRuntime[i])
               <=> (\E i \in DOMAIN fromRuntime' : ResponseAt(i)' /\ a = fromRuntime'[i])
  BY <1>1 DEF ResponseAt
<1>3. \A s : (\E i \in DOMAIN fromRuntime : StopAtI(i) /\ s = fromRuntime[i].body)
               <=> \/ \E i \in DOMAIN fromRuntime' : StopAtI(i)' /\ s = fromRuntime'[i].body
                   \/ m.type = "stopped" /\ s = m.body
  BY <1>1 DEF StopAtI
<1>4. \A a : a \in Answers' <=> a \in Answers
  BY <1>2, WhatIsOnItsWay
<1>5. \A s : s \in Reported <=>
        s \in Reported' \/ s \in (IF m.type = "stopped" THEN {m.body} ELSE {})
  BY <1>3, WhatIsOnItsWay
<1> QED
  BY <1>4, <1>5

LEMMA AnswerRead ==
  ASSUME Pipes, Pipes', NEW m, Receive(m), m.type = "response",
         NEW call, ready' = Append(ready, [call |-> call, answer |-> m])
  PROVE  Answers' = Answers /\ Reported' = Reported
<1>1. /\ 1 \in DOMAIN fromRuntime /\ m = fromRuntime[1]
      /\ DOMAIN fromRuntime = {1} \cup {i + 1 : i \in DOMAIN fromRuntime'}
      /\ \A i \in DOMAIN fromRuntime' : fromRuntime'[i] = fromRuntime[i + 1]
  BY LineRead
<1>2. \A a : (\E i \in DOMAIN fromRuntime : ResponseAt(i) /\ a = fromRuntime[i])
               <=> \/ \E i \in DOMAIN fromRuntime' : ResponseAt(i)' /\ a = fromRuntime'[i]
                   \/ a = m
  BY <1>1 DEF ResponseAt
<1>3. \A s : (\E i \in DOMAIN fromRuntime : StopAtI(i) /\ s = fromRuntime[i].body)
               <=> (\E i \in DOMAIN fromRuntime' : StopAtI(i)' /\ s = fromRuntime'[i].body)
  BY <1>1 DEF StopAtI
<1>4. \A a : (\E i \in DOMAIN ready' : a = ready'[i].answer)
               <=> (\E i \in DOMAIN ready : a = ready[i].answer) \/ a = m
  <2>1. PICK r : r = [call |-> call, answer |-> m]
    OBVIOUS
  <2>2. /\ Len(ready) \in Nat /\ DOMAIN ready = 1 .. Len(ready)
        /\ DOMAIN ready' = 1 .. Len(ready) + 1
        /\ \A i \in 1 .. Len(ready) : ready'[i] = ready[i]
        /\ ready'[Len(ready) + 1] = r
    <3>1. ready \in Seq(Resumptions \cup {r}) /\ ready' = Append(ready, r)
      BY <2>1 DEF Pipes
    <3> QED
      BY <3>1, AppendProperties
  <2>3. Len(ready) + 1 \in DOMAIN ready' /\ r.answer = m
    BY <2>1, <2>2
  <2>4. \A i \in DOMAIN ready' : i \in DOMAIN ready \/ i = Len(ready) + 1
    BY <2>2
  <2>5. \A i \in DOMAIN ready : i \in DOMAIN ready'
    BY <2>2
  <2> QED
    BY <2>2, <2>3, <2>4, <2>5
<1>5. ASSUME NEW a PROVE a \in Answers' <=> a \in Answers
  <2>1. a \in Answers <=> \/ \E i \in DOMAIN fromRuntime : ResponseAt(i) /\ a = fromRuntime[i]
                          \/ \E i \in DOMAIN ready : a = ready[i].answer
    BY WhatIsOnItsWay
  <2>2. a \in Answers' <=> \/ \E i \in DOMAIN fromRuntime' : ResponseAt(i)' /\ a = fromRuntime'[i]
                           \/ \E i \in DOMAIN ready' : a = ready'[i].answer
    BY WhatIsOnItsWay
  <2>3. (\E i \in DOMAIN fromRuntime : ResponseAt(i) /\ a = fromRuntime[i])
          <=> (\E i \in DOMAIN fromRuntime' : ResponseAt(i)' /\ a = fromRuntime'[i]) \/ a = m
    BY <1>2
  <2>4. (\E i \in DOMAIN ready' : a = ready'[i].answer)
          <=> (\E i \in DOMAIN ready : a = ready[i].answer) \/ a = m
    BY <1>4
  <2> QED
    BY <2>1, <2>2, <2>3, <2>4
<1>6. \A s : s \in Reported' <=> s \in Reported
  BY <1>3, WhatIsOnItsWay
<1> QED
  BY <1>5, <1>6

\* The caller that resumes takes its answer along.
LEMMA ResumeTakes ==
  ASSUME Inv, CallsInOrder, Pipes', NEW then, Resume(then), UNCHANGED fromRuntime
  PROVE  /\ Answered \in Answers /\ Answers' = Answers \ {Answered} /\ Reported' = Reported
         /\ Answered.id = First.id /\ Answered.command = First.call.command
         /\ Answered \in Messages /\ Answered.type = "response"
         /\ First.call = Head(ready).call
<1>1. Pipes
  BY DEF Inv, TypeInv
<1>2. ready \in Seq(Resumptions) /\ ready # <<>> /\ ready' = Tail(ready)
  BY <1>1 DEF Pipes, Resume
<1>3. /\ Len(ready) \in Nat /\ DOMAIN ready = 1 .. Len(ready) /\ 1 \in DOMAIN ready
      /\ Head(ready) = ready[1] /\ Len(ready') = Len(ready) - 1
      /\ DOMAIN ready' = 1 .. Len(ready')
      /\ \A i \in DOMAIN ready' : ready'[i] = ready[i + 1]
  <2>1. Len(ready) # 0
    BY <1>2, EmptySeq
  <2> QED
    BY <1>2, <2>1, HeadTailProperties, LenProperties
<1>4. Answered = ready[1].answer /\ First.id = Answered.id /\ First.call = ready[1].call
  BY <1>3 DEF Answered, First
<1>5. ready[1] \in Resumptions
  BY <1>1, <1>3, PipeElements
<1>6. /\ Answered.command = First.call.command
      /\ Answered \in Messages /\ Answered.type = "response"
  BY <1>4, <1>5 DEF Resumptions, ReadyOK
<1>7. Answered.id \in Nat
  BY <1>6 DEF Messages
<1>8. \A i \in DOMAIN ready : i # 1 => ready[i].answer # Answered
  <2> SUFFICES ASSUME NEW i \in DOMAIN ready, i # 1 PROVE ready[i].answer # Answered
    OBVIOUS
  <2>1. 1 < i
    BY <1>3
  <2>2. ready[1].answer.id < ready[i].answer.id
    BY <1>3, <2>1 DEF CallsInOrder, ReadyInOrder
  <2> QED
    BY <1>4, <1>7, <2>2
<1>9. \A i \in DOMAIN fromRuntime : ResponseAt(i) => fromRuntime[i] # Answered
  <2> SUFFICES ASSUME NEW i \in DOMAIN fromRuntime, ResponseAt(i)
               PROVE  fromRuntime[i] # Answered
    OBVIOUS
  <2>1. fromRuntime[i].id \in DOMAIN pending
    BY DEF Inv, AnswersMatch
  <2>2. Answered.id < fromRuntime[i].id
    BY <1>3, <1>4, <2>1 DEF CallsInOrder, ReadyInOrder
  <2> QED
    BY <1>7, <2>2
<1>10. \A a : (\E i \in DOMAIN ready' : a = ready'[i].answer)
                <=> (\E i \in DOMAIN ready : i # 1 /\ a = ready[i].answer)
  <2>1. \A i \in DOMAIN ready' : i + 1 \in DOMAIN ready /\ i + 1 # 1 /\ ready'[i] = ready[i + 1]
    BY <1>3
  <2>2. \A i \in DOMAIN ready : i # 1 => i - 1 \in DOMAIN ready' /\ ready'[i - 1] = ready[i]
    BY <1>3
  <2> QED
    BY <2>1, <2>2
<1>11. ASSUME NEW a PROVE a \in Answers' <=> a \in Answers /\ a # Answered
  <2>1. a \in Answers <=> \/ \E i \in DOMAIN fromRuntime : ResponseAt(i) /\ a = fromRuntime[i]
                          \/ \E i \in DOMAIN ready : a = ready[i].answer
    BY WhatIsOnItsWay
  <2>2. a \in Answers' <=> \/ \E i \in DOMAIN fromRuntime : ResponseAt(i) /\ a = fromRuntime[i]
                           \/ \E i \in DOMAIN ready' : a = ready'[i].answer
    BY WhatIsOnItsWay DEF ResponseAt
  <2>3. (\E i \in DOMAIN ready' : a = ready'[i].answer)
          <=> (\E i \in DOMAIN ready : i # 1 /\ a = ready[i].answer)
    BY <1>10
  <2>4. (\E i \in DOMAIN fromRuntime : ResponseAt(i) /\ a = fromRuntime[i]) => a # Answered
    BY <1>9
  <2>5. (\E i \in DOMAIN ready : i # 1 /\ a = ready[i].answer)
          <=> (\E i \in DOMAIN ready : a = ready[i].answer) /\ a # Answered
    BY <1>4, <1>8
  <2> QED
    BY <2>1, <2>2, <2>3, <2>4, <2>5
<1>12. Answered \in Answers
  BY <1>3, <1>4 DEF Answers
<1>13. Reported' = Reported
  BY DEF Reported, StopAtI
<1> QED
  BY <1>3, <1>4, <1>6, <1>11, <1>12, <1>13

StopBody(n, l) == [n |-> n, line |-> IF hasLine THEN l ELSE None]

\* The first request is answered, and a stop may follow.
LEMMA ReplyAnswers ==
  ASSUME Inv, CallsInOrder, Pipes', NEW command, Serve(command),
         NEW success \in BOOLEAN, NEW body \in Bodies, NEW stops,
         stops = <<>> \/ stops = StopAt(raised + 1, line),
         command = "getLocalVariables" => body \in Locals,
         command = "stackTrace" => body \in Lines,
         Reply(success, body, stops)
  PROVE  \E q \in Asked, a \in Messages :
           /\ q.command = command /\ Argument = q.arg /\ Asked' = Asked \ {q}
           /\ a.id = q.id /\ a.command = command /\ a.body = body
           /\ Answers' = Answers \cup {a}
           /\ Reported' = Reported \cup
                (IF stops = <<>> THEN {} ELSE {StopBody(raised + 1, line)})
<1>1. Pipes /\ RuntimeType /\ PipesInOrder
  BY DEF Inv, TypeInv, CallsInOrder
<1>2. stops \in Seq(Messages)
  <2>1. CASE stops = <<>>
    BY <2>1, EmptySeq
  <2>2. CASE stops = StopAt(raised + 1, line)
    <3>1. raised + 1 \in Nat /\ line \in Lines
      BY <1>1 DEF RuntimeType
    <3> QED
      BY <2>2, <3>1, StopType
  <2> QED
    BY <2>1, <2>2
<1>3. toRuntime # <<>> /\ Head(toRuntime).command = command /\ UNCHANGED ready
  BY DEF Serve, loop
<1>4. PICK q : q = Head(toRuntime)
  OBVIOUS
<1>5. PICK a : a = Response(q, success, body)
  OBVIOUS
<1>6. a \in Messages
  BY <1>1, <1>4, <1>5, AnswerType
<1>7. /\ 1 \in DOMAIN toRuntime /\ q = toRuntime[1]
      /\ Len(toRuntime') = Len(toRuntime) - 1
      /\ \A i \in 1 .. Len(toRuntime') : toRuntime'[i] = toRuntime[i + 1]
      /\ Len(fromRuntime') = Len(fromRuntime) + 1 + Len(stops)
      /\ \A i \in 1 .. Len(fromRuntime) : fromRuntime'[i] = fromRuntime[i]
      /\ fromRuntime'[Len(fromRuntime) + 1] = a
      /\ \A i \in Len(fromRuntime) + 2 .. Len(fromRuntime') :
           fromRuntime'[i] = stops[i - Len(fromRuntime) - 1]
  BY <1>1, <1>2, <1>3, <1>4, <1>5, <1>6, ReplyPipes
<1>8. /\ Len(toRuntime) \in Nat /\ DOMAIN toRuntime = 1 .. Len(toRuntime)
      /\ Len(toRuntime') \in Nat /\ DOMAIN toRuntime' = 1 .. Len(toRuntime')
      /\ Len(fromRuntime) \in Nat /\ DOMAIN fromRuntime = 1 .. Len(fromRuntime)
      /\ Len(fromRuntime') \in Nat /\ DOMAIN fromRuntime' = 1 .. Len(fromRuntime')
      /\ Len(stops) \in Nat
  BY <1>1, <1>2, LenProperties DEF Pipes
<1>9. q \in Asked /\ q.command = command /\ Argument = q.arg /\ q \in Requests
  BY <1>1, <1>3, <1>4, <1>7, PipeElements DEF Asked, Argument
<1>10. Asked' = Asked \ {q}
  <2>1. \A i \in DOMAIN toRuntime' : i + 1 \in DOMAIN toRuntime /\ i + 1 # 1
                                       /\ toRuntime'[i] = toRuntime[i + 1]
    BY <1>7, <1>8
  <2>2. \A i \in DOMAIN toRuntime : i # 1 =>
          i - 1 \in DOMAIN toRuntime' /\ toRuntime'[i - 1] = toRuntime[i]
    BY <1>7, <1>8
  <2>3. \A i \in DOMAIN toRuntime : i # 1 => toRuntime[i] # q
    BY <1>7 DEF Inv, QuestionsMatch
  <2>4. ASSUME NEW r PROVE r \in Asked' <=> r \in Asked /\ r # q
    <3>1. r \in Asked' <=> \E i \in DOMAIN toRuntime' : r = toRuntime'[i]
      BY DEF Asked
    <3>2. r \in Asked <=> \E i \in DOMAIN toRuntime : r = toRuntime[i]
      BY DEF Asked
    <3>3. ASSUME NEW i \in DOMAIN toRuntime', r = toRuntime'[i] PROVE r \in Asked /\ r # q
      BY <2>1, <2>3, <3>2, <3>3
    <3>4. ASSUME NEW i \in DOMAIN toRuntime, r = toRuntime[i], r # q PROVE r \in Asked'
      <4>1. i # 1
        BY <1>7, <3>4
      <4> QED
        BY <2>2, <3>1, <3>4, <4>1
    <3> QED
      BY <3>1, <3>2, <3>3, <3>4
  <2> QED
    BY <2>4
<1>11. a.id = q.id /\ a.command = command /\ a.body = body /\ a.type = "response"
  BY <1>5, <1>9 DEF Response
<1>12. PICK s \in Nat : s = Len(fromRuntime) + 1
  BY <1>8
<1>13. /\ DOMAIN fromRuntime \subseteq DOMAIN fromRuntime' /\ s \in DOMAIN fromRuntime'
       /\ s \notin DOMAIN fromRuntime /\ fromRuntime'[s] = a
       /\ \A i \in DOMAIN fromRuntime : fromRuntime'[i] = fromRuntime[i]
  BY <1>7, <1>8, <1>12
<1>14. CASE stops = <<>>
  <2>1. \A i \in DOMAIN fromRuntime' : i \in DOMAIN fromRuntime \/ i = s
    <3>1. Len(stops) = 0
      BY <1>14
    <3> QED
      BY <1>7, <1>8, <1>12, <3>1
  <2>2. ASSUME NEW b PROVE b \in Answers' <=> b \in Answers \/ b = a
    <3>1. (\E i \in DOMAIN fromRuntime' : ResponseAt(i)' /\ b = fromRuntime'[i])
            <=> (\E i \in DOMAIN fromRuntime : ResponseAt(i) /\ b = fromRuntime[i]) \/ b = a
      BY <1>11, <1>13, <2>1 DEF ResponseAt
    <3> QED
      BY <1>3, <3>1, WhatIsOnItsWay
  <2>3. ASSUME NEW b PROVE b \in Reported' <=> b \in Reported
    <3>1. (\E i \in DOMAIN fromRuntime' : StopAtI(i)' /\ b = fromRuntime'[i].body)
            <=> (\E i \in DOMAIN fromRuntime : StopAtI(i) /\ b = fromRuntime[i].body)
      BY <1>11, <1>13, <2>1 DEF StopAtI
    <3> QED
      BY <3>1, WhatIsOnItsWay
  <2> QED
    BY <1>6, <1>9, <1>10, <1>11, <1>14, <2>2, <2>3
<1>15. CASE stops # <<>>
  <2>1. /\ Len(stops) = 1 /\ stops[1].type = "stopped"
        /\ stops[1].body = StopBody(raised + 1, line)
    BY <1>15 DEF StopAt, Event, StopBody
  <2>2. PICK t \in Nat : t = Len(fromRuntime) + 2
    BY <1>8
  <2>3. /\ t \in DOMAIN fromRuntime' /\ fromRuntime'[t] = stops[1] /\ t \notin DOMAIN fromRuntime
        /\ \A i \in DOMAIN fromRuntime' : i \in DOMAIN fromRuntime \/ i = s \/ i = t
    BY <1>7, <1>8, <1>12, <2>1, <2>2
  <2>4. ASSUME NEW b PROVE b \in Answers' <=> b \in Answers \/ b = a
    <3>1. (\E i \in DOMAIN fromRuntime' : ResponseAt(i)' /\ b = fromRuntime'[i])
            <=> (\E i \in DOMAIN fromRuntime : ResponseAt(i) /\ b = fromRuntime[i]) \/ b = a
      BY <1>11, <1>13, <2>1, <2>3 DEF ResponseAt
    <3> QED
      BY <1>3, <3>1, WhatIsOnItsWay
  <2>5. ASSUME NEW b PROVE b \in Reported' <=> b \in Reported \/ b = StopBody(raised + 1, line)
    <3>1. (\E i \in DOMAIN fromRuntime' : StopAtI(i)' /\ b = fromRuntime'[i].body)
            <=> \/ \E i \in DOMAIN fromRuntime : StopAtI(i) /\ b = fromRuntime[i].body
                \/ b = StopBody(raised + 1, line)
      BY <1>11, <1>13, <2>1, <2>3 DEF StopAtI
    <3> QED
      BY <3>1, WhatIsOnItsWay
  <2> QED
    BY <1>6, <1>9, <1>10, <1>11, <1>15, <2>4, <2>5
<1> QED
  BY <1>14, <1>15

\* One event more behind those on the pipe.
LEMMA EventReported ==
  ASSUME Pipes, UNCHANGED ready, NEW e, e.type # "response",
         Len(fromRuntime') = Len(fromRuntime) + 1, DOMAIN fromRuntime' = 1 .. Len(fromRuntime'),
         fromRuntime'[Len(fromRuntime) + 1] = e,
         \A i \in 1 .. Len(fromRuntime) : fromRuntime'[i] = fromRuntime[i]
  PROVE  /\ Answers' = Answers
         /\ Reported' = Reported \cup (IF e.type = "stopped" THEN {e.body} ELSE {})
<1>1. Len(fromRuntime) \in Nat /\ DOMAIN fromRuntime = 1 .. Len(fromRuntime)
  BY LenProperties DEF Pipes
<1>2. PICK s \in Nat : s = Len(fromRuntime) + 1
  BY <1>1
<1>3. /\ DOMAIN fromRuntime' = DOMAIN fromRuntime \cup {s} /\ fromRuntime'[s] = e
      /\ \A i \in DOMAIN fromRuntime : fromRuntime'[i] = fromRuntime[i]
      /\ s \notin DOMAIN fromRuntime
  BY <1>1, <1>2
<1>4. ASSUME NEW b PROVE b \in Answers' <=> b \in Answers
  <2>1. (\E i \in DOMAIN fromRuntime' : ResponseAt(i)' /\ b = fromRuntime'[i])
          <=> (\E i \in DOMAIN fromRuntime : ResponseAt(i) /\ b = fromRuntime[i])
    BY <1>3 DEF ResponseAt
  <2> QED
    BY <2>1, WhatIsOnItsWay
<1>5. ASSUME NEW b
      PROVE  b \in Reported' <=> b \in Reported \/ (e.type = "stopped" /\ b = e.body)
  <2>1. (\E i \in DOMAIN fromRuntime' : StopAtI(i)' /\ b = fromRuntime'[i].body)
          <=> \/ \E i \in DOMAIN fromRuntime : StopAtI(i) /\ b = fromRuntime[i].body
              \/ e.type = "stopped" /\ b = e.body
    BY <1>3 DEF StopAtI
  <2>2. b \in Reported <=> \E i \in DOMAIN fromRuntime : StopAtI(i) /\ b = fromRuntime[i].body
    BY WhatIsOnItsWay
  <2>3. b \in Reported'
          <=> \E i \in DOMAIN fromRuntime' : StopAtI(i)' /\ b = fromRuntime'[i].body
    BY WhatIsOnItsWay
  <2> QED
    BY <2>1, <2>2, <2>3
<1>6. CASE e.type = "stopped"
  BY <1>4, <1>5, <1>6
<1>7. CASE e.type # "stopped"
  BY <1>4, <1>5, <1>7
<1> QED
  BY <1>6, <1>7

LEMMA EndReported ==
  ASSUME Pipes, UNCHANGED ready,
         fromRuntime' = Append(fromRuntime, Event("terminated", None))
  PROVE  Answers' = Answers /\ Reported' = Reported
<1>1. PICK e : e = Event("terminated", None)
  OBVIOUS
<1>2. e.type = "terminated" /\ e \in Messages
  BY <1>1, EndType DEF Event
<1>3. /\ Len(fromRuntime') = Len(fromRuntime) + 1 /\ DOMAIN fromRuntime' = 1 .. Len(fromRuntime')
      /\ fromRuntime'[Len(fromRuntime) + 1] = e
      /\ \A i \in 1 .. Len(fromRuntime) : fromRuntime'[i] = fromRuntime[i]
  BY <1>1, <1>2 DEF Pipes
<1> QED
  BY <1>2, <1>3, EventReported

LEMMA StopReported ==
  ASSUME Pipes, RuntimeType, UNCHANGED ready, NEW l \in Lines,
         fromRuntime' = fromRuntime \o StopAt(raised + 1, l)
  PROVE  Answers' = Answers /\ Reported' = Reported \cup {StopBody(raised + 1, l)}
<1>1. PICK stops : stops = StopAt(raised + 1, l)
  OBVIOUS
<1>2. /\ stops \in Seq(Messages) /\ Len(stops) = 1 /\ stops[1].type = "stopped"
      /\ stops[1].body = StopBody(raised + 1, l)
  <2>1. stops \in Seq(Messages)
    BY <1>1, StopType DEF RuntimeType
  <2> QED
    BY <1>1, <2>1 DEF StopAt, Event, StopBody
<1>3. fromRuntime \in Seq(Messages) /\ fromRuntime' = fromRuntime \o stops
      /\ Len(fromRuntime) \in Nat
  BY <1>1, LenProperties DEF Pipes
<1>4. /\ fromRuntime' \in Seq(Messages)
      /\ Len(fromRuntime') = Len(fromRuntime) + Len(stops)
      /\ \A i \in 1 .. Len(fromRuntime) + Len(stops) :
           fromRuntime'[i] = IF i <= Len(fromRuntime) THEN fromRuntime[i]
                                                      ELSE stops[i - Len(fromRuntime)]
  <2>1. /\ fromRuntime \o stops \in Seq(Messages)
        /\ Len(fromRuntime \o stops) = Len(fromRuntime) + Len(stops)
        /\ \A i \in 1 .. Len(fromRuntime) + Len(stops) :
             (fromRuntime \o stops)[i] = IF i <= Len(fromRuntime) THEN fromRuntime[i]
                                         ELSE stops[i - Len(fromRuntime)]
    BY <1>2, <1>3, ConcatProperties
  <2> QED
    BY <1>3, <2>1
<1>5. /\ Len(fromRuntime') = Len(fromRuntime) + 1 /\ DOMAIN fromRuntime' = 1 .. Len(fromRuntime')
      /\ fromRuntime'[Len(fromRuntime) + 1] = stops[1]
      /\ \A i \in 1 .. Len(fromRuntime) : fromRuntime'[i] = fromRuntime[i]
  BY <1>2, <1>3, <1>4, LenProperties
<1> QED
  BY <1>2, <1>5, EventReported

-----------------------------------------------------------------------------
(* The cache against the program.                                           *)

\* A step that disturbs neither the variables nor the calls that are about them.
LEMMA QuietCached ==
  ASSUME Inv, CallsInOrder, Cached,
         UNCHANGED <<locals, pendingLocalEdits, currentLine, vars, line, raised, notified>>,
         state' = state \/ state' # "stopped", state = "exited" => state' = "exited",
         Reported' = Reported, Stoppers' = Stoppers, Looks' = Looks,
         \A n \in Names : /\ Edits(n)' = Edits(n) /\ Setting(n)' \subseteq Setting(n)
                          /\ state' # "exited" => Setting(n)' = Setting(n),
         \A c \in Callers' :
           \/ c \in Callers
           \/ /\ c.id = reqId /\ c.call.then # "edit" /\ c.call.command # "setVariable"
              /\ c.call.command = "getLocalVariables" => c.call.then \in {"refresh", "stop"},
         \A a \in Answers' : a \in Answers
                            \/ \A c \in Stoppers : Sited(c) /\ a.id = c.id => a.body = line,
         state' = "stopped" /\ (\E q \in Asked : q.command = "getLocalVariables")
           => \E q \in Asked' : q.command = "getLocalVariables",
         state' = "stopped" /\ ~localsFresh' =>
           \/ \E q \in Asked' : q.command \in {"continue", "next"}
           \/ /\ ~localsFresh
              /\ \A q \in Asked : q.command \in {"continue", "next"} => q \in Asked'
  PROVE  Cached'
<1>0. \A c \in Callers : c.id \in Nat /\ c.id < reqId
  BY OnTheirWay
<1>1. CallersPurpose'
  BY DEF Cached, CallersPurpose
<1>2. EditsHeld'
  <2>1. EditsHeld
    BY DEF Cached
  <2>2. ASSUME NEW c \in Callers', NEW n \in Names, c.call.then = "refresh", NEW d \in Edits(n)'
        PROVE  d.id < c.id
    <3>1. d \in Edits(n) /\ d \in Callers
      BY <2>2 DEF Edits
    <3>2. CASE c \in Callers
      BY <2>1, <2>2, <3>1, <3>2 DEF EditsHeld
    <3>3. CASE c.id = reqId
      BY <1>0, <3>1, <3>3
    <3> QED
      BY <3>2, <3>3
  <2>3. \A n \in Names : pendingLocalEdits'[n] # None <=> Edits(n)' # {}
    BY <2>1 DEF EditsHeld
  <2>4. \A n \in Names : \A q \in Setting(n)' :
          q.arg.value = pendingLocalEdits'[n] /\ \E c \in Edits(n)' : c.id = q.id
    BY <2>1 DEF EditsHeld
  <2>5. \A n \in Names : pendingLocalEdits'[n] # None => locals'[n] = pendingLocalEdits'[n]
    BY <2>1 DEF EditsHeld
  <2> QED
    BY <2>2, <2>3, <2>4, <2>5 DEF EditsHeld
<1>3. LineHeld'
  BY DEF Cached, LineHeld, Sited
<1>4. FreshSoon'
  BY DEF Cached, FreshSoon, Sited
<1>5. NoneUnset'
  BY DEF Cached, NoneUnset
<1>6. LastLook'
  <2>1. CASE state' = "stopped" /\ ~LooksToCome'
    <3>1. state = "stopped" /\ ~LooksToCome
      BY <2>1 DEF LooksToCome
    <3> QED
      BY <2>1, <3>1 DEF Cached, LastLook
  <2>2. CASE ~(state' = "stopped" /\ ~LooksToCome')
    BY <2>2 DEF LastLook
  <2> QED
    BY <2>1, <2>2
<1> QED
  BY <1>1, <1>2, <1>3, <1>4, <1>5, <1>6 DEF Cached

\* The next request of a client who changes no variable, or of start.
LEMMA SendCached ==
  ASSUME Inv, Inv', CallsInOrder, Cached, NEW call, NEW arg, Send(call, arg),
         UNCHANGED <<locals, pendingLocalEdits, currentLine, runtime, notified>>,
         call.then \in {"none", "refresh", "start"}, call.command # "setVariable",
         call.command = "getLocalVariables" => call.then = "refresh",
         localsFresh' = localsFresh \/ call.command \in {"continue", "next"},
         Reported' = Reported,
         \/ Callers' = Callers \cup {[id |-> reqId, call |-> call]} /\ Answers' = Answers
         \/ \E a \in Answers :
              /\ Callers' = (Callers \ {First}) \cup {[id |-> reqId, call |-> call]}
              /\ Answers' = Answers \ {a} /\ a.command # "getLocalVariables"
              /\ First.call.then \notin {"stop", "edit"}
  PROVE  Cached'
<1> DEFINE new == [id |-> reqId, call |-> call]
           q   == Request(reqId, call.command, arg)
<1>1. /\ state = "exited" => Asked' = Asked
      /\ state # "exited" => Asked' = Asked \cup {q}
  BY SendAsks DEF Inv, TypeInv
<1>2. UNCHANGED <<state, line, vars, raised, hasLine>>
  BY DEF runtime
<1>3. new.id = reqId /\ new.call = call /\ q.command = call.command
  BY DEF Request
<1> HIDE DEF new, q
<1>4. \A c \in Callers' : c \in Callers \/ c = new
  BY DEF new
<1>5. Stoppers' = Stoppers
  BY <1>3 DEF Stoppers, new
<1>6. \A n \in Names : Edits(n)' = Edits(n)
  BY <1>3 DEF Edits, new
<1>7. \A n \in Names : Setting(n)' = Setting(n)
  BY <1>1, <1>3 DEF Setting
<1>8. Looks' = Looks
  BY DEF Looks
<1>9. \A c \in Callers' :
        \/ c \in Callers
        \/ /\ c.id = reqId /\ c.call.then # "edit" /\ c.call.command # "setVariable"
           /\ c.call.command = "getLocalVariables" => c.call.then \in {"refresh", "stop"}
  BY <1>3, <1>4
<1>10. state' = "stopped" /\ ~localsFresh' =>
         \/ \E r \in Asked' : r.command \in {"continue", "next"}
         \/ /\ ~localsFresh
            /\ \A r \in Asked : r.command \in {"continue", "next"} => r \in Asked'
  BY <1>1, <1>2, <1>3
<1>11. state' = "stopped" /\ (\E r \in Asked : r.command = "getLocalVariables")
         => \E r \in Asked' : r.command = "getLocalVariables"
  BY <1>1, <1>2
<1>12. \A a \in Answers' : a \in Answers
  OBVIOUS
<1> QED
  BY <1>2, <1>5, <1>6, <1>7, <1>8, <1>9, <1>10, <1>11, <1>12, QuietCached

\* A variable is set: in the cache at once, in the program when its request is served.
LEMMA EditCached ==
  ASSUME Inv, Inv', CallsInOrder, Cached, OneEditEach', Patient,
         NEW n \in Names, NEW v \in Values, SetLocalVariable(n, v)
  PROVE  Cached'
<1> DEFINE new == [id |-> reqId, call |-> Editing(n)]
           q   == Request(reqId, "setVariable", [name |-> n, value |-> v])
<1>0. Pipes /\ Pipes' /\ TableType /\ CacheType /\ RuntimeType
  BY DEF Inv, TypeInv
<1>1. /\ new.id = reqId /\ new.call.then = "edit" /\ new.call.command = "setVariable"
      /\ new.call.name = n
      /\ q.id = reqId /\ q.command = "setVariable" /\ q.arg.name = n /\ q.arg.value = v
      /\ Editing(n).command = "setVariable"
  BY DEF Editing, Quiet, Request
<1>2. /\ state = "exited" => Asked' = Asked
      /\ state # "exited" => Asked' = Asked \cup {q}
  BY <1>0, <1>1, SendAsks DEF SetLocalVariable
<1>3. Callers' = Callers \cup {new} /\ UNCHANGED ready
  BY <1>0, SendCallers DEF SetLocalVariable, loop
<1>4. Answers' = Answers /\ Reported' = Reported
  BY <1>3, SameAnswers DEF SetLocalVariable
<1>5. /\ UNCHANGED <<state, line, vars, raised, currentLine, notified, localsFresh>>
      /\ locals' = [locals EXCEPT ![n] = v]
      /\ pendingLocalEdits' = [pendingLocalEdits EXCEPT ![n] = v]
      /\ ready = <<>> /\ \A id \in DOMAIN pending : pending[id].then # "refresh"
  BY DEF SetLocalVariable, runtime, MayEdit, MayCall
<1> HIDE DEF new, q
<1>6. \A c \in Callers : c.call.then # "refresh" /\ c.id \in Nat /\ c.id < reqId
  BY <1>5, OnTheirWay DEF Callers
<1>7. new \notin Callers
  BY <1>1, <1>6
<1>8. /\ Edits(n)' = Edits(n) \cup {new}
      /\ \A k \in Names \ {n} : Edits(k)' = Edits(k)
  BY <1>1, <1>3 DEF Edits
<1>9. Edits(n) = {} /\ Edits(n)' = {new}
  BY <1>7, <1>8 DEF OneEditEach, Edits
<1>10. /\ \A k \in Names \ {n} : Setting(k)' = Setting(k)
       /\ Setting(n)' \subseteq Setting(n) \cup {q}
       /\ state # "exited" => q \in Setting(n)'
  BY <1>1, <1>2 DEF Setting
<1>11. Setting(n) = {}
  BY <1>9 DEF Cached, EditsHeld
<1>12. /\ locals'[n] = v /\ pendingLocalEdits'[n] = v /\ v # None
       /\ \A k \in Names \ {n} : locals'[k] = locals[k] /\ pendingLocalEdits'[k] = pendingLocalEdits[k]
  BY <1>0, <1>5, ConstantsAssumption DEF CacheType, Locals, ConstantsAssumption
<1>13. Stoppers' = Stoppers /\ Looks' = Looks
  BY <1>1, <1>3, <1>4 DEF Stoppers, Looks
<1>14. CallersPurpose'
  BY <1>1, <1>3 DEF Cached, CallersPurpose
<1>15. EditsHeld'
  <2>1. \A k \in Names : pendingLocalEdits'[k] # None <=> Edits(k)' # {}
    BY <1>8, <1>9, <1>12 DEF Cached, EditsHeld
  <2>2. \A k \in Names : pendingLocalEdits'[k] # None => locals'[k] = pendingLocalEdits'[k]
    BY <1>12 DEF Cached, EditsHeld
  <2>3. \A k \in Names : \A r \in Setting(k)' :
          r.arg.value = pendingLocalEdits'[k] /\ \E c \in Edits(k)' : c.id = r.id
    BY <1>1, <1>8, <1>9, <1>10, <1>11, <1>12 DEF Cached, EditsHeld
  <2>4. \A c \in Callers' : c.call.then # "refresh"
    BY <1>1, <1>3, <1>6
  <2> QED
    BY <2>1, <2>2, <2>3, <2>4 DEF EditsHeld
<1>16. LineHeld'
  BY <1>4, <1>5, <1>13 DEF Cached, LineHeld, Sited
<1>17. FreshSoon'
  BY <1>2, <1>4, <1>5, <1>13 DEF Cached, FreshSoon, Sited
<1>18. NoneUnset'
  BY <1>4, <1>5, <1>10, <1>12, <1>13 DEF Cached, NoneUnset
<1>19. LastLook'
  <2> SUFFICES ASSUME state = "stopped", ~LooksToCome', NEW k \in Names
               PROVE  /\ \A a \in Looks :
                           /\ \A b \in Looks : b.id <= a.id
                           /\ \A c \in Edits(k)' : c.id < a.id
                           => a.body[k] = vars[k]
                      /\ (\A a \in Looks : \E c \in Edits(k)' : a.id < c.id) /\ Setting(k)' = {}
                           => locals'[k] = vars[k]
    BY <1>5, <1>13 DEF LastLook
  <2>1. ~LooksToCome
    BY <1>2, <1>4 DEF LooksToCome
  <2>2. CASE k # n
    BY <1>8, <1>10, <1>12, <2>1, <2>2 DEF Cached, LastLook
  <2>3. CASE k = n
    <3>1. \A a \in Looks : a.id \in Nat /\ a.id < reqId
      BY OnTheirWay DEF Looks
    <3>2. \A a \in Looks : ~(new.id < a.id)
      BY <1>0, <1>1, <3>1 DEF TableType
    <3> QED
      BY <1>9, <1>10, <2>3, <3>2
  <2> QED
    BY <2>2, <2>3
<1> QED
  BY <1>14, <1>15, <1>16, <1>17, <1>18, <1>19 DEF Cached

\* A stop is read: it asks for the variables.
LEMMA OnStoppedCached ==
  ASSUME Inv, Inv', CallsInOrder, Served, Cached, NEW m, OnStopped(m)
  PROVE  Cached'
<1> DEFINE new == [id |-> reqId, call |-> Stopping("getLocalVariables", m.body)]
           q   == Request(reqId, "getLocalVariables", None)
<1>0. Pipes /\ Pipes' /\ TableType
  BY DEF Inv, TypeInv
<1>1. /\ new.id = reqId /\ new.call.then = "stop" /\ new.call.command = "getLocalVariables"
      /\ new.call.stop = m.body /\ ~Sited(new)
      /\ q.command = "getLocalVariables"
      /\ Stopping("getLocalVariables", m.body).command = "getLocalVariables"
  BY DEF Stopping, Quiet, Request, Sited
<1>2. /\ state = "exited" => Asked' = Asked
      /\ state # "exited" => Asked' = Asked \cup {q}
  BY <1>0, <1>1, SendAsks DEF OnStopped
<1>3. Callers' = Callers \cup {new}
  BY <1>0, SendCallers DEF OnStopped
<1>4. Answers' = Answers /\ Reported = Reported' \cup {m.body}
  BY <1>0, EventRead DEF OnStopped
<1>5. UNCHANGED <<state, line, vars, raised, currentLine, notified, localsFresh, locals,
                  pendingLocalEdits>>
  BY DEF OnStopped, runtime, cache, client
<1> HIDE DEF new, q
<1>6. \A c \in Callers : c.id \in Nat /\ c.id < reqId
  BY OnTheirWay
<1>7. \A n \in Names : Edits(n)' = Edits(n) /\ Setting(n)' = Setting(n)
  BY <1>1, <1>2, <1>3 DEF Edits, Setting
<1>8. Stoppers' = Stoppers \cup {new} /\ Looks' = Looks
  BY <1>1, <1>3, <1>4 DEF Stoppers, Looks
<1>9. CallersPurpose'
  BY <1>1, <1>3 DEF Cached, CallersPurpose
<1>10. EditsHeld'
  BY <1>1, <1>3, <1>5, <1>7 DEF Cached, EditsHeld
<1>11. LineHeld'
  <2>1. m.body.n = raised /\ m.body.line # None => m.body.line = line
    BY <1>4 DEF Cached, LineHeld
  <2>2. \A s \in Reported' : s.n = raised' /\ s.line # None => s.line = line'
    BY <1>4, <1>5 DEF Cached, LineHeld
  <2>3. ASSUME NEW c \in Stoppers', c.call.stop.n = raised'
        PROVE  /\ c.call.stop.line # None => c.call.stop.line = line'
               /\ \A a \in Answers' : Sited(c) /\ a.id = c.id => a.body = line'
    BY <1>1, <1>4, <1>5, <1>8, <2>1, <2>3 DEF Cached, LineHeld
  <2>4. notified' = raised' => currentLine' = line'
    BY <1>5 DEF Cached, LineHeld
  <2> QED
    BY <2>2, <2>3, <2>4 DEF LineHeld, Sited
<1>12. FreshSoon'
  <2>1. new \in Stoppers' /\ ~Sited(new)
    BY <1>1, <1>8
  <2> QED
    BY <2>1 DEF FreshSoon, Sited
<1>13. NoneUnset'
  BY <1>5, <1>7, <1>8 DEF Cached, NoneUnset
<1>14. LastLook'
  <2>1. state' = "stopped" => q \in Asked'
    BY <1>2, <1>5
  <2> QED
    BY <1>1, <2>1 DEF LastLook, LooksToCome
<1> QED
  BY <1>9, <1>10, <1>11, <1>12, <1>13, <1>14 DEF Cached

\* The caller that resumes changes no variable and asks for nothing.
LEMMA ResumedCached ==
  ASSUME Inv, Inv', CallsInOrder, Cached, Resume("none") \/ Resume("start"), NoSend,
         UNCHANGED <<cache, fromRuntime, runtime, notified>>
  PROVE  Cached'
<1>0. Pipes /\ Pipes' /\ TableType /\ ReadyInOrder
  BY DEF Inv, TypeInv, CallsInOrder
<1>1. PICK then \in {"none", "start"} : Resume(then)
  OBVIOUS
<1>2. /\ First \in Callers /\ First.call.then = then /\ Callers' = Callers \ {First}
      /\ Answered \in Answers /\ Answers' = Answers \ {Answered} /\ Reported' = Reported
      /\ Answered.command = First.call.command
  BY <1>0, <1>1, ResumeCallers, ResumeTakes
<1>3. Answered.command # "getLocalVariables"
  BY <1>1, <1>2 DEF Cached, CallersPurpose
<1>4. Stoppers' = Stoppers /\ Looks' = Looks
  BY <1>1, <1>2, <1>3 DEF Stoppers, Looks
<1>5. \A n \in Names : Edits(n)' = Edits(n)
  BY <1>1, <1>2 DEF Edits
<1>6. Asked' = Asked
  BY DEF NoSend, Asked
<1>7. \A n \in Names : Setting(n)' = Setting(n)
  BY <1>6 DEF Setting
<1>8. UNCHANGED <<locals, pendingLocalEdits, localsFresh, currentLine, vars, line, raised,
                  state, notified>>
  BY DEF cache, runtime
<1> QED
  BY <1>2, <1>4, <1>5, <1>6, <1>7, <1>8, QuietCached

\* An edit is confirmed: the cache and the program have it, if nothing came between.
LEMMA ConfirmedCached ==
  ASSUME Inv, Inv', CallsInOrder, OneEditEach, Cached, EditConfirmed
  PROVE  Cached'
<1>0. Pipes /\ Pipes' /\ TableType /\ CacheType /\ ReadyInOrder
  BY DEF Inv, TypeInv, CallsInOrder
<1>1. /\ Resume("edit") /\ NoSend
      /\ pendingLocalEdits' = [pendingLocalEdits EXCEPT ![Head(ready).call.name] = None]
      /\ UNCHANGED <<locals, localsFresh, currentLine, vars, line, raised, state, notified>>
  BY DEF EditConfirmed, runtime, client
<1>2. /\ First \in Callers /\ First.call.then = "edit" /\ Callers' = Callers \ {First}
      /\ \A c \in Callers : c # First => First.id < c.id
      /\ Answered \in Answers /\ Answers' = Answers \ {Answered} /\ Reported' = Reported
      /\ Answered.command = First.call.command /\ Answered.id = First.id
      /\ First.call = Head(ready).call
  BY <1>0, <1>1, ResumeCallers, ResumeTakes DEF EditConfirmed
<1>3. /\ \A c \in Callers : CallOK(c.call) /\ c.id \in Nat
      /\ \A a, b \in Answers : a.id = b.id => a = b
      /\ \A a \in Answers, r \in Asked : a.id < r.id
      /\ \A a \in Answers : a.id \in Nat /\ \E c \in Callers : c.id = a.id
      /\ \A c, d \in Callers : c.id = d.id => c = d
  BY OnTheirWay DEF Messages
<1>4. PICK n \in Names : n = First.call.name
  BY <1>2, <1>3 DEF CallOK
<1>5. /\ pendingLocalEdits'[n] = None
      /\ \A k \in Names \ {n} : pendingLocalEdits'[k] = pendingLocalEdits[k]
  BY <1>0, <1>1, <1>2, <1>4 DEF CacheType, Locals
<1>6. Edits(n) = {First} /\ Edits(n)' = {} /\ \A k \in Names \ {n} : Edits(k)' = Edits(k)
  BY <1>2, <1>4 DEF Edits, OneEditEach
<1>7. Answered.command = "setVariable"
  BY <1>2 DEF Cached, CallersPurpose
<1>8. Asked' = Asked /\ Looks' = Looks /\ Stoppers' = Stoppers
  BY <1>1, <1>2, <1>7 DEF NoSend, Asked, Looks, Stoppers
<1>9. \A k \in Names : Setting(k)' = Setting(k)
  BY <1>8 DEF Setting
\* Its request is no longer on the pipe.
<1>10. Setting(n) = {}
  <2> SUFFICES ASSUME NEW r \in Setting(n) PROVE FALSE
    OBVIOUS
  <2>1. r \in Asked /\ r.id = First.id
    BY <1>6 DEF Cached, EditsHeld, Setting
  <2>2. Answered.id < r.id /\ Answered.id \in Nat
    BY <1>2, <1>3, <2>1
  <2> QED
    BY <1>2, <2>1, <2>2
<1>11. \A a \in Looks : First.id < a.id
  <2> SUFFICES ASSUME NEW a \in Looks PROVE First.id < a.id
    OBVIOUS
  <2>1. a # Answered /\ a \in Answers
    BY <1>7 DEF Looks
  <2>2. PICK c \in Callers : c.id = a.id
    BY <1>3, <2>1
  <2>3. c # First
    BY <1>2, <1>3, <2>1, <2>2
  <2> QED
    BY <1>2, <2>2, <2>3
<1>12. CallersPurpose'
  BY <1>2 DEF Cached, CallersPurpose
<1>13. EditsHeld'
  <2>1. \A k \in Names : pendingLocalEdits'[k] # None <=> Edits(k)' # {}
    BY <1>5, <1>6 DEF Cached, EditsHeld
  <2>2. \A k \in Names : pendingLocalEdits'[k] # None => locals'[k] = pendingLocalEdits'[k]
    BY <1>1, <1>5 DEF Cached, EditsHeld
  <2>3. \A k \in Names : \A r \in Setting(k)' :
          r.arg.value = pendingLocalEdits'[k] /\ \E c \in Edits(k)' : c.id = r.id
    BY <1>5, <1>6, <1>9, <1>10 DEF Cached, EditsHeld
  <2>4. \A c \in Callers', k \in Names : c.call.then = "refresh" =>
          \A d \in Edits(k)' : d.id < c.id
    BY <1>2, <1>6 DEF Cached, EditsHeld
  <2> QED
    BY <2>1, <2>2, <2>3, <2>4 DEF EditsHeld
<1>14. LineHeld'
  BY <1>1, <1>2, <1>8 DEF Cached, LineHeld, Sited
<1>15. FreshSoon'
  BY <1>1, <1>2, <1>8 DEF Cached, FreshSoon, Sited
<1>16. NoneUnset'
  BY <1>1, <1>8, <1>9 DEF Cached, NoneUnset
<1>17. LastLook'
  <2> SUFFICES ASSUME state = "stopped", ~LooksToCome', NEW k \in Names
               PROVE  /\ \A a \in Looks :
                           /\ \A b \in Looks : b.id <= a.id
                           /\ \A c \in Edits(k)' : c.id < a.id
                           => a.body[k] = vars[k]
                      /\ (\A a \in Looks : \E c \in Edits(k)' : a.id < c.id) /\ Setting(k) = {}
                           => locals[k] = vars[k]
    BY <1>1, <1>8, <1>9 DEF LastLook
  <2>1. ~LooksToCome
    BY <1>2, <1>8 DEF LooksToCome
  <2>2. CASE k # n
    BY <1>6, <2>1, <2>2 DEF Cached, LastLook
  <2>3. CASE k = n
    BY <1>6, <1>10, <1>11, <2>1, <2>3 DEF Cached, LastLook
  <2> QED
    BY <2>2, <2>3
<1> QED
  BY <1>12, <1>13, <1>14, <1>15, <1>16, <1>17 DEF Cached

\* The variables arrive, for a stop or a refresh: those that are being set stay as
\* the client set them.
LEMMA LookCached ==
  ASSUME Inv, Inv', CallsInOrder, Cached, NEW then \in {"stop", "refresh"}, Resume(then),
         Head(ready).call.command = "getLocalVariables",
         locals' = (IF then = "stop" THEN Edited(Merged(Answered.body), pendingLocalEdits)
                                     ELSE Merged(Answered.body)),
         UNCHANGED <<pendingLocalEdits, fromRuntime, state, vars>>,
         NoSend \/ \E call, arg : Send(call, arg) /\ call.then = "stop" /\ call.command = "stackTrace"
  PROVE  /\ CallersPurpose' /\ EditsHeld' /\ NoneUnset' /\ LastLook'
         /\ First \in Callers /\ Reported' = Reported /\ Answers' = Answers \ {Answered}
         /\ Answered.id = First.id
         /\ \A n \in Names : Setting(n)' = Setting(n) /\ Edits(n)' = Edits(n)
<1>0. Pipes /\ Pipes' /\ TableType /\ CacheType /\ RuntimeType /\ ReadyInOrder
  BY DEF Inv, TypeInv, CallsInOrder
<1>1. /\ First \in Callers /\ First.call.then = then
      /\ \A c \in Callers : c # First => First.id < c.id
      /\ Answered \in Answers /\ Answers' = Answers \ {Answered} /\ Reported' = Reported
      /\ Answered.id = First.id /\ Answered.command = "getLocalVariables"
      /\ Answered \in Messages /\ Answered.type = "response"
      /\ First.call.command = "getLocalVariables"
  BY <1>0, ResumeCallers, ResumeTakes
<1>2. \/ Callers' = Callers \ {First} /\ Asked' = Asked
      \/ \E new, q :
           /\ Callers' = (Callers \ {First}) \cup {new}
           /\ Asked' = Asked \/ Asked' = Asked \cup {q}
           /\ new.call.then = "stop" /\ new.call.command = "stackTrace"
           /\ q.command = "stackTrace"
  <2>1. CASE NoSend
    BY <1>0, <2>1, ResumeCallers DEF NoSend, Asked
  <2>2. ASSUME NEW call, NEW arg, Send(call, arg), call.then = "stop",
               call.command = "stackTrace"
        PROVE  \E new, q :
                 /\ Callers' = (Callers \ {First}) \cup {new}
                 /\ Asked' = Asked \/ Asked' = Asked \cup {q}
                 /\ new.call.then = "stop" /\ new.call.command = "stackTrace"
                 /\ q.command = "stackTrace"
    <3>1. PICK new : new = [id |-> reqId, call |-> call]
      OBVIOUS
    <3>2. PICK q : q = Request(reqId, call.command, arg)
      OBVIOUS
    <3>3. Callers' = (Callers \ {First}) \cup {new}
      BY <1>0, <2>2, <3>1, ResumeCallers
    <3>4. Asked' = Asked \/ Asked' = Asked \cup {q}
      BY <1>0, <2>2, <3>2, SendAsks
    <3>5. new.call = call /\ q.command = call.command
      BY <3>1, <3>2 DEF Request
    <3> QED
      BY <2>2, <3>3, <3>4, <3>5
  <2> QED
    BY <2>1, <2>2
<1>3. /\ \A n \in Names : Setting(n)' = Setting(n) /\ Edits(n)' = Edits(n)
      /\ \A q \in Asked : q \in Asked'
  BY <1>1, <1>2 DEF Setting, Edits
<1>4. Looks' = Looks \ {Answered} /\ Answered \in Looks
  BY <1>1 DEF Looks
<1>5. Answered.body \in Locals
  BY <1>1 DEF Messages, MessageOK
\* What becomes of one variable.
<1>6. /\ \A n \in Names : Merged(Answered.body)[n] = IF Answered.body[n] = None THEN locals[n]
                                                     ELSE Answered.body[n]
      /\ \A n \in Names : then = "stop" /\ pendingLocalEdits[n] # None =>
           locals'[n] = pendingLocalEdits[n]
      /\ \A n \in Names : then = "refresh" \/ pendingLocalEdits[n] = None =>
           locals'[n] = Merged(Answered.body)[n]
  BY DEF Merged, Edited
<1>7. then = "refresh" => \A n \in Names : Edits(n) = {}
  <2> SUFFICES ASSUME then = "refresh", NEW n \in Names, NEW d \in Edits(n) PROVE FALSE
    OBVIOUS
  <2>1. d \in Callers /\ d.id < First.id /\ d # First
    BY <1>1 DEF Cached, EditsHeld, Edits
  <2>2. First.id \in Nat /\ d.id \in Nat
    BY <1>1, <2>1, OnTheirWay
  <2> QED
    BY <1>1, <2>1, <2>2
<1>8. \A n \in Names :
        \/ Edits(n) # {} /\ pendingLocalEdits[n] # None /\ locals'[n] = locals[n]
        \/ /\ Edits(n) = {} /\ pendingLocalEdits[n] = None
           /\ locals'[n] = IF Answered.body[n] = None THEN locals[n] ELSE Answered.body[n]
  BY <1>6, <1>7 DEF Cached, EditsHeld
<1>9. CallersPurpose'
  BY <1>2 DEF Cached, CallersPurpose
<1>10. EditsHeld'
  <2>1. \A n \in Names : pendingLocalEdits'[n] # None => locals'[n] = pendingLocalEdits'[n]
    BY <1>8 DEF Cached, EditsHeld
  <2>2. \A c \in Callers', n \in Names : c.call.then = "refresh" =>
          \A d \in Edits(n)' : d.id < c.id
    BY <1>2, <1>3 DEF Cached, EditsHeld
  <2>3. \A n \in Names : pendingLocalEdits'[n] # None <=> Edits(n)' # {}
    BY <1>3 DEF Cached, EditsHeld
  <2>4. \A n \in Names : \A q \in Setting(n)' :
          q.arg.value = pendingLocalEdits'[n] /\ \E c \in Edits(n)' : c.id = q.id
    BY <1>3 DEF Cached, EditsHeld
  <2> QED
    BY <2>1, <2>2, <2>3, <2>4 DEF EditsHeld
<1>11. NoneUnset'
  <2>1. \A n \in Names : locals'[n] = locals[n] \/ locals'[n] = Answered.body[n]
    BY <1>8
  <2>2. \A n \in Names : Answered.body[n] # None => vars[n] # None
    BY <1>4 DEF Cached, NoneUnset
  <2>3. \A a \in Looks', n \in Names : a.body[n] # None => vars'[n] # None
    BY <1>4 DEF Cached, NoneUnset
  <2>4. state' # "exited" =>
          \A n \in Names : locals'[n] # None /\ vars'[n] = None => Setting(n)' # {}
    BY <1>3, <2>1, <2>2 DEF Cached, NoneUnset
  <2> QED
    BY <2>3, <2>4 DEF NoneUnset
<1>12. LastLook'
  <2> SUFFICES ASSUME state = "stopped", ~LooksToCome', NEW n \in Names
               PROVE  /\ \A a \in Looks' :
                           /\ \A b \in Looks' : b.id <= a.id
                           /\ \A c \in Edits(n) : c.id < a.id
                           => a.body[n] = vars[n]
                      /\ (\A a \in Looks' : \E c \in Edits(n) : a.id < c.id) /\ Setting(n) = {}
                           => locals'[n] = vars[n]
    BY <1>3 DEF LastLook
  <2>1. ~LooksToCome
    BY <1>1, <1>3 DEF LooksToCome
  <2>2. \A a \in Looks : a.id \in Nat /\ \E c \in Callers : c.id = a.id
    BY OnTheirWay DEF Looks, Messages
  <2>3. \A a \in Looks' : Answered.id <= a.id
    <3> SUFFICES ASSUME NEW a \in Looks' PROVE Answered.id <= a.id
      OBVIOUS
    <3>1. PICK c \in Callers : c.id = a.id
      BY <1>4, <2>2
    <3>2. c = First \/ First.id < c.id
      BY <1>1
    <3> QED
      BY <1>1, <1>4, <2>2, <3>1, <3>2
  <2>4. ASSUME NEW a \in Looks', \A b \in Looks' : b.id <= a.id, \A c \in Edits(n) : c.id < a.id
        PROVE  a.body[n] = vars[n]
    <3>1. \A b \in Looks : b.id <= a.id
      BY <1>4, <2>3, <2>4
    <3> QED
      BY <1>4, <2>1, <2>4, <3>1 DEF Cached, LastLook
  <2>5. ASSUME \A a \in Looks' : \E c \in Edits(n) : a.id < c.id, Setting(n) = {}
        PROVE  locals'[n] = vars[n]
    <3>1. CASE Edits(n) # {}
      <4>1. PICK c : c \in Edits(n)
        BY <3>1
      <4>2. c \in Callers /\ c # First
        BY <1>1, <4>1 DEF Edits
      <4>3. Answered.id < c.id
        BY <1>1, <4>2
      <4>4. \A a \in Looks : \E d \in Edits(n) : a.id < d.id
        BY <1>4, <2>5, <4>1, <4>3
      <4>5. locals[n] = vars[n]
        BY <2>1, <2>5, <4>4 DEF Cached, LastLook
      <4> QED
        BY <1>8, <3>1, <4>5
    <3>2. CASE Edits(n) = {}
      <4>1. Looks = {Answered}
        BY <1>4, <2>5, <3>2
      <4>2. \A b \in Looks : b.id <= Answered.id
        BY <2>2, <4>1
      <4>3. Answered.body[n] = vars[n]
        BY <1>4, <2>1, <3>2, <4>2 DEF Cached, LastLook
      <4>4. vars[n] = None => locals[n] = None
        BY <2>5 DEF Cached, NoneUnset
      <4> QED
        BY <1>8, <3>2, <4>3, <4>4
    <3> QED
      BY <3>1, <3>2
  <2> QED
    BY <2>4, <2>5
<1> QED
  BY <1>1, <1>3, <1>9, <1>10, <1>11, <1>12

LEMMA RefreshedCached ==
  ASSUME Inv, Inv', CallsInOrder, Cached, Refreshed
  PROVE  Cached'
<1>0. Pipes /\ Pipes' /\ TableType /\ ReadyInOrder
  BY DEF Inv, TypeInv, CallsInOrder
<1>1. /\ Resume("refresh") /\ NoSend /\ locals' = Merged(Answered.body) /\ localsFresh'
      /\ UNCHANGED <<pendingLocalEdits, fromRuntime, state, vars, line, raised, currentLine,
                     notified>>
  BY DEF Refreshed, runtime, client
<1>2. First \in Callers /\ First.call.then = "refresh" /\ First.call = Head(ready).call
      /\ Callers' = Callers \ {First}
  BY <1>0, <1>1, ResumeCallers, ResumeTakes
<1>3. Head(ready).call.command = "getLocalVariables"
  BY <1>2, OnTheirWay DEF CallOK
<1>4. PICK then \in {"stop", "refresh"} : then = "refresh"
  OBVIOUS
<1>5. locals' = IF then = "stop" THEN Edited(Merged(Answered.body), pendingLocalEdits)
                                 ELSE Merged(Answered.body)
  BY <1>1, <1>4
<1>6. /\ CallersPurpose' /\ EditsHeld' /\ NoneUnset' /\ LastLook'
      /\ Reported' = Reported /\ Answers' = Answers \ {Answered}
  BY <1>1, <1>3, <1>4, <1>5, LookCached
<1>7. Stoppers' = Stoppers
  BY <1>2 DEF Stoppers
<1>8. LineHeld'
  BY <1>1, <1>6, <1>7 DEF Cached, LineHeld, Sited
<1>9. FreshSoon'
  BY <1>1 DEF FreshSoon
<1> QED
  BY <1>6, <1>8, <1>9 DEF Cached

LEMMA StopRefreshedCached ==
  ASSUME Inv, Inv', CallsInOrder, Served, Cached, StopRefreshed
  PROVE  Cached'
<1>0. Pipes /\ Pipes' /\ TableType /\ ReadyInOrder
  BY DEF Inv, TypeInv, CallsInOrder
<1>1. /\ Resume("stop") /\ Head(ready).call.command = "getLocalVariables"
      /\ locals' = Edited(Merged(Answered.body), pendingLocalEdits) /\ localsFresh'
      /\ UNCHANGED <<pendingLocalEdits, fromRuntime, state, vars, line, raised>>
  BY DEF StopRefreshed, runtime
<1>2. \/ Stop.line # None /\ NoSend /\ currentLine' = Stop.line /\ notified' = Stop.n
      \/ /\ Stop.line = None /\ Send(Stopping("stackTrace", Stop), None)
         /\ UNCHANGED <<currentLine, notified>>
  BY DEF StopRefreshed, Notify
<1>3. Stopping("stackTrace", Stop).then = "stop"
      /\ Stopping("stackTrace", Stop).command = "stackTrace"
      /\ Stopping("stackTrace", Stop).stop = Stop
  BY DEF Stopping, Quiet
<1>4. NoSend \/ \E call, arg : Send(call, arg) /\ call.then = "stop" /\ call.command = "stackTrace"
  BY <1>2, <1>3
<1>5. PICK then \in {"stop", "refresh"} : then = "stop"
  OBVIOUS
<1>6. locals' = IF then = "stop" THEN Edited(Merged(Answered.body), pendingLocalEdits)
                                 ELSE Merged(Answered.body)
  BY <1>1, <1>5
<1>7. /\ CallersPurpose' /\ EditsHeld' /\ NoneUnset' /\ LastLook'
      /\ Reported' = Reported /\ Answers' = Answers \ {Answered}
  BY <1>1, <1>4, <1>5, <1>6, LookCached
<1>8. /\ First \in Callers /\ First.call.then = "stop" /\ First.call.stop = Stop
      /\ NoSend => Callers' = Callers \ {First}
      /\ \A call, arg : Send(call, arg) =>
           Callers' = (Callers \ {First}) \cup {[id |-> reqId, call |-> call]}
  BY <1>0, <1>1, ResumeCallers, ResumeTakes DEF Stop
<1>9. Stop.n = raised /\ Stop.line # None => Stop.line = line
  BY <1>8 DEF Cached, LineHeld, Stoppers
<1>10. LineHeld'
  <2>1. CASE Stop.line # None
    <3>1. Stoppers' \subseteq Stoppers
      BY <1>2, <1>8, <2>1 DEF Stoppers
    <3> QED
      BY <1>1, <1>2, <1>7, <1>9, <2>1, <3>1 DEF Cached, LineHeld, Sited
  <2>2. CASE Stop.line = None
    <3>1. PICK new : new = [id |-> reqId, call |-> Stopping("stackTrace", Stop)]
      OBVIOUS
    <3>2. new.id = reqId /\ new.call.stop = Stop /\ Stoppers' \subseteq Stoppers \cup {new}
      BY <1>2, <1>3, <1>8, <2>2, <3>1 DEF Stoppers
    <3>3. \A a \in Answers : a.id # reqId
      <4>1. \A a \in Answers : a.id \in Nat /\ a.id < reqId
        BY OnTheirWay
      <4> QED
        BY <1>0, <4>1 DEF TableType
    <3>4. ASSUME NEW c \in Stoppers', c.call.stop.n = raised
          PROVE  /\ c.call.stop.line # None => c.call.stop.line = line
                 /\ \A a \in Answers' : c.call.command = "stackTrace" /\ a.id = c.id => a.body = line
      <4>1. CASE c \in Stoppers
        BY <1>7, <3>4, <4>1 DEF Cached, LineHeld, Sited
      <4>2. CASE c = new
        BY <1>7, <2>2, <3>2, <3>3, <4>2
      <4> QED
        BY <3>2, <4>1, <4>2
    <3>5. notified' = raised' => currentLine' = line'
      BY <1>1, <1>2, <2>2 DEF Cached, LineHeld
    <3>6. \A s \in Reported' : s.n = raised' /\ s.line # None => s.line = line'
      BY <1>1, <1>7 DEF Cached, LineHeld
    <3> QED
      BY <1>1, <3>4, <3>5, <3>6 DEF LineHeld, Sited
  <2> QED
    BY <2>1, <2>2
<1>11. FreshSoon'
  BY <1>1 DEF FreshSoon
<1> QED
  BY <1>7, <1>10, <1>11 DEF Cached

LEMMA StopLocatedCached ==
  ASSUME Inv, Inv', CallsInOrder, Served, Cached, StopLocated
  PROVE  Cached'
<1>0. Pipes /\ Pipes' /\ TableType /\ ReadyInOrder
  BY DEF Inv, TypeInv, CallsInOrder
<1>1. /\ Resume("stop") /\ Head(ready).call.command = "stackTrace" /\ NoSend
      /\ currentLine' = Answered.body /\ notified' = Stop.n
      /\ UNCHANGED <<locals, pendingLocalEdits, localsFresh, fromRuntime, state, vars, line, raised>>
  BY DEF StopLocated, Notify, runtime
<1>2. /\ First \in Callers /\ First.call.then = "stop" /\ First.call.stop = Stop
      /\ First.call.command = "stackTrace"
      /\ Callers' = Callers \ {First}
      /\ Answered \in Answers /\ Answers' = Answers \ {Answered} /\ Reported' = Reported
      /\ Answered.id = First.id /\ Answered.command = "stackTrace"
  BY <1>0, <1>1, ResumeCallers, ResumeTakes DEF Stop
<1>3. First \in Stoppers /\ Sited(First) /\ Stoppers' = Stoppers \ {First}
  BY <1>2 DEF Stoppers, Sited
<1>4. Asked' = Asked /\ Looks' = Looks
  BY <1>1, <1>2 DEF NoSend, Asked, Looks
<1>5. \A n \in Names : Edits(n)' = Edits(n) /\ Setting(n)' = Setting(n)
  BY <1>2, <1>4 DEF Edits, Setting
<1>6. CallersPurpose'
  BY <1>2 DEF Cached, CallersPurpose
<1>7. EditsHeld'
  BY <1>1, <1>2, <1>5 DEF Cached, EditsHeld
<1>8. LineHeld'
  <2>1. Stop.n = raised => Answered.body = line
    BY <1>2, <1>3 DEF Cached, LineHeld
  <2>2. notified' = raised' => currentLine' = line'
    BY <1>1, <2>1
  <2>3. \A c \in Stoppers' : c.call.stop.n = raised' =>
          /\ c.call.stop.line # None => c.call.stop.line = line'
          /\ \A a \in Answers' : Sited(c) /\ a.id = c.id => a.body = line'
    BY <1>1, <1>2, <1>3 DEF Cached, LineHeld
  <2>4. \A s \in Reported' : s.n = raised' /\ s.line # None => s.line = line'
    BY <1>1, <1>2 DEF Cached, LineHeld
  <2> QED
    BY <2>2, <2>3, <2>4 DEF LineHeld, Sited
<1>9. FreshSoon'
  BY <1>1, <1>2, <1>3, <1>4 DEF Cached, FreshSoon, Sited
<1>10. NoneUnset'
  BY <1>1, <1>4, <1>5 DEF Cached, NoneUnset
<1>11. LastLook'
  BY <1>1, <1>2, <1>4, <1>5 DEF Cached, LastLook, LooksToCome
<1> QED
  BY <1>6, <1>7, <1>8, <1>9, <1>10, <1>11 DEF Cached

\* An answer to a request that is about neither the variables nor the stack.
LEMMA PlainReplyCached ==
  ASSUME Inv, Inv', CallsInOrder, Cached, NEW command, Serve(command),
         command \notin {"getLocalVariables", "setVariable"},
         NEW success \in BOOLEAN, NEW body \in Bodies, Reply(success, body, <<>>),
         command = "stackTrace" => body = line,
         UNCHANGED <<line, vars, raised>>,
         state' = state \/ state' # "stopped",
         command \in {"continue", "next"} => state' # "stopped"
  PROVE  Cached'
<1>0. Pipes' /\ RuntimeType
  BY DEF Inv, TypeInv
<1>1. command = "stackTrace" => body \in Lines
  BY <1>0 DEF RuntimeType
<1>2. PICK stops \in {<<>>} : Reply(success, body, stops)
  OBVIOUS
<1>3. PICK q \in Asked, a \in Messages :
        /\ q.command = command /\ Asked' = Asked \ {q}
        /\ a.id = q.id /\ a.command = command /\ a.body = body
        /\ Answers' = Answers \cup {a}
        /\ Reported' = Reported \cup (IF stops = <<>> THEN {} ELSE {StopBody(raised + 1, line)})
  BY <1>0, <1>1, <1>2, ReplyAnswers
<1>4. Reported' = Reported
  BY <1>2, <1>3
<1>5. /\ UNCHANGED <<pending, ready, locals, pendingLocalEdits, localsFresh, currentLine, notified>>
      /\ state # "exited"
  BY DEF Serve, cache, loop, client
<1>6. Callers' = Callers
  BY <1>5, QuietCallers
<1>7. Stoppers' = Stoppers /\ Looks' = Looks
  BY <1>3, <1>6 DEF Stoppers, Looks
<1>8. \A n \in Names : Edits(n)' = Edits(n) /\ Setting(n)' = Setting(n)
  BY <1>3, <1>6 DEF Edits, Setting
<1>9. \A c \in Stoppers : Sited(c) /\ a.id = c.id => a.body = line
  <2> SUFFICES ASSUME NEW c \in Stoppers, Sited(c), a.id = c.id PROVE a.body = line
    OBVIOUS
  <2>1. PICK d \in Callers : d.id = q.id /\ d.call.command = q.command
    BY OnTheirWay
  <2>2. c \in Callers /\ c.id = d.id
    BY <1>3, <2>1 DEF Stoppers
  <2>3. c = d
    BY <2>1, <2>2, OnTheirWay
  <2> QED
    BY <1>3, <2>1, <2>3 DEF Sited
<1>10. state' = "stopped" /\ (\E r \in Asked : r.command = "getLocalVariables")
         => \E r \in Asked' : r.command = "getLocalVariables"
  BY <1>3
<1>11. state' = "stopped" /\ ~localsFresh' =>
         \/ \E r \in Asked' : r.command \in {"continue", "next"}
         \/ /\ ~localsFresh
            /\ \A r \in Asked : r.command \in {"continue", "next"} => r \in Asked'
  BY <1>3, <1>5
<1>12. \A b \in Answers' : \/ b \in Answers
                           \/ \A c \in Stoppers : Sited(c) /\ b.id = c.id => b.body = line
  BY <1>3, <1>9
<1> QED
  BY <1>4, <1>5, <1>6, <1>7, <1>8, <1>10, <1>11, <1>12, QuietCached

\* A new stop: the variables will be asked for again.
LEMMA ReportCached ==
  ASSUME Inv, CallsInOrder, Served, Cached, Callers' = Callers,
         UNCHANGED <<locals, pendingLocalEdits, currentLine, notified, vars>>,
         state = "exited" => state' = "exited", raised' = raised + 1,
         NEW l, line' = l, Reported' = Reported \cup {StopBody(raised + 1, l)},
         Looks' = Looks, \A n \in Names : Setting(n)' = Setting(n)
  PROVE  Cached'
<1>1. Stoppers' = Stoppers /\ \A n \in Names : Edits(n)' = Edits(n)
  BY DEF Stoppers, Edits
<1>2. raised \in Nat /\ notified \in Nat /\ notified <= raised
  BY DEF Inv, TypeInv, RuntimeType, ClientType, Served
<1>3. CallersPurpose' /\ EditsHeld'
  BY <1>1 DEF Cached, CallersPurpose, EditsHeld
<1>4. NoneUnset'
  BY DEF Cached, NoneUnset
<1>5. LineHeld'
  <2>1. \A s \in Reported : s.n # raised'
    <3>1. \A s \in Reported : s.n \in notified + 1 .. raised
      BY DEF Served, StopsInOrder, Reported
    <3> QED
      BY <1>2, <3>1
  <2>2. \A c \in Stoppers : c.call.stop.n # raised'
    <3>1. \A c \in Stoppers : c.call.stop.n \in notified + 1 .. raised
      BY DEF Served, StoppersWait
    <3> QED
      BY <1>2, <3>1
  <2>3. StopBody(raised + 1, l).line # None => StopBody(raised + 1, l).line = line'
    BY DEF StopBody
  <2>4. notified' # raised'
    BY <1>2
  <2> QED
    BY <1>1, <2>1, <2>2, <2>3, <2>4 DEF LineHeld
<1>6. Reported' # {}
  OBVIOUS
<1>7. FreshSoon' /\ LastLook'
  BY <1>6 DEF FreshSoon, LastLook, LooksToCome
<1> QED
  BY <1>3, <1>4, <1>5, <1>7 DEF Cached

LEMMA ServeStopCached ==
  ASSUME Inv, Inv', CallsInOrder, Served, Cached, NEW command \in {"launch", "pause"},
         Serve(command), Reply(TRUE, None, StopAt(raised + 1, line)),
         raised' = raised + 1, UNCHANGED <<line, vars>>
  PROVE  Cached'
<1>0. Pipes' /\ None \in Bodies
  BY BodyTypes DEF Inv, TypeInv
<1>1. PICK success \in BOOLEAN, body \in Bodies, stops \in {StopAt(raised + 1, line)} :
        Reply(success, body, stops)
  BY <1>0
<1>2. stops # <<>>
  BY <1>1 DEF StopAt
<1>3. PICK q \in Asked, a \in Messages :
        /\ q.command = command /\ Asked' = Asked \ {q}
        /\ a.id = q.id /\ a.command = command
        /\ Answers' = Answers \cup {a}
        /\ Reported' = Reported \cup (IF stops = <<>> THEN {} ELSE {StopBody(raised + 1, line)})
  <2>1. command # "getLocalVariables" /\ command # "stackTrace"
    OBVIOUS
  <2> QED
    BY <1>0, <1>1, <2>1, ReplyAnswers
<1>4. Reported' = Reported \cup {StopBody(raised + 1, line)}
  BY <1>2, <1>3
<1>5. UNCHANGED <<pending, ready, locals, pendingLocalEdits, currentLine, notified>>
      /\ state # "exited"
  BY DEF Serve, cache, loop, client
<1>6. Callers' = Callers
  BY <1>5, QuietCallers
<1>7. Looks' = Looks /\ \A n \in Names : Setting(n)' = Setting(n)
  BY <1>3 DEF Looks, Setting
<1> QED
  BY <1>4, <1>5, <1>6, <1>7, ReportCached

\* The runtime looks: what it answers is what the variables are.
LEMMA ServeLocalsCached ==
  ASSUME Inv, Inv', CallsInOrder, Cached, ServeLocals
  PROVE  Cached'
<1>0. Pipes' /\ RuntimeType /\ vars \in Bodies /\ vars \in Locals
  BY BodyTypes DEF Inv, TypeInv, RuntimeType
<1>1. PICK command \in {"getLocalVariables"}, stops \in {<<>>}, success \in BOOLEAN,
           body \in Bodies :
        Serve(command) /\ Reply(success, body, stops) /\ body = vars
  BY <1>0 DEF ServeLocals
<1>2. PICK q \in Asked, a \in Messages :
        /\ q.command = command /\ Asked' = Asked \ {q}
        /\ a.id = q.id /\ a.command = command /\ a.body = vars
        /\ Answers' = Answers \cup {a}
        /\ Reported' = Reported \cup (IF stops = <<>> THEN {} ELSE {StopBody(raised + 1, line)})
  <2>1. command # "stackTrace" /\ body \in Locals
    BY <1>0, <1>1
  <2> QED
    BY <1>0, <1>1, <2>1, ReplyAnswers
<1>3. q.command = "getLocalVariables" /\ a.command = "getLocalVariables" /\ Reported' = Reported
  BY <1>1, <1>2
<1>4. UNCHANGED <<pending, ready, locals, pendingLocalEdits, localsFresh, currentLine, notified,
                  state, line, vars, raised>>
  BY DEF ServeLocals, Serve, cache, loop, client
<1>5. Callers' = Callers
  BY <1>4, QuietCallers
<1>6. /\ Stoppers' = Stoppers /\ Looks' = Looks \cup {a}
      /\ \A n \in Names : Edits(n)' = Edits(n) /\ Setting(n)' = Setting(n)
  BY <1>2, <1>3, <1>5 DEF Stoppers, Looks, Edits, Setting
<1>7. CallersPurpose' /\ EditsHeld'
  BY <1>4, <1>5, <1>6 DEF Cached, CallersPurpose, EditsHeld
<1>8. LineHeld'
  <2>1. \A c \in Stoppers : a.id = c.id => ~Sited(c)
    <3> SUFFICES ASSUME NEW c \in Stoppers, a.id = c.id PROVE ~Sited(c)
      OBVIOUS
    <3>1. PICK d \in Callers : d.id = q.id /\ d.call.command = q.command
      BY OnTheirWay
    <3>2. c \in Callers /\ c.id = d.id
      BY <1>2, <3>1 DEF Stoppers
    <3>3. c = d
      BY <3>1, <3>2, OnTheirWay
    <3> QED
      BY <1>3, <3>1, <3>3 DEF Sited
  <2> QED
    BY <1>2, <1>3, <1>4, <1>6, <2>1 DEF Cached, LineHeld, Sited
<1>9. FreshSoon'
  BY <1>2, <1>3, <1>4, <1>6 DEF Cached, FreshSoon, Sited
<1>10. NoneUnset'
  BY <1>2, <1>4, <1>6 DEF Cached, NoneUnset
<1>11. LastLook'
  <2> SUFFICES ASSUME state = "stopped", NEW n \in Names
               PROVE  /\ \A b \in Looks' :
                           /\ \A d \in Looks' : d.id <= b.id
                           /\ \A c \in Edits(n) : c.id < b.id
                           => b.body[n] = vars[n]
                      /\ (\A b \in Looks' : \E c \in Edits(n) : b.id < c.id) /\ Setting(n) = {}
                           => locals[n] = vars[n]
    BY <1>4, <1>6 DEF LastLook
  <2>1. \A b \in Looks : b.id < a.id /\ b.id \in Nat /\ a.id \in Nat
    BY <1>2, OnTheirWay DEF Looks, Messages
  <2>2. ASSUME NEW b \in Looks', \A d \in Looks' : d.id <= b.id PROVE b.body[n] = vars[n]
    <3>1. b = a
      BY <1>6, <2>1, <2>2
    <3> QED
      BY <1>2, <3>1
  <2>3. ASSUME NEW c \in Edits(n), a.id < c.id PROVE Setting(n) # {}
    <3>1. c \in Callers /\ c.call.command = "setVariable" /\ c.id \in Nat
      BY OnTheirWay DEF Edits, Cached, CallersPurpose
    <3>2. \A b \in Answers : b.id # c.id
      <4>1. \A b \in Answers : b.id < a.id /\ b.id \in Nat /\ a.id \in Nat
        BY <1>2, OnTheirWay DEF Messages
      <4> QED
        BY <2>3, <3>1, <4>1
    <3>3. PICK r \in Asked : r.id = c.id
      BY <3>1, <3>2, OnTheirWay
    <3>4. r.command = "setVariable" /\ r \in Requests
      BY <3>1, <3>3, OnTheirWay
    <3>5. PICK k \in Names : k = r.arg.name
      BY <3>4 DEF Requests, RequestOK, Edit
    <3>6. r \in Setting(k)
      BY <3>4, <3>5 DEF Setting
    <3>7. PICK d \in Edits(k) : d.id = r.id
      BY <3>6 DEF Cached, EditsHeld
    <3>8. d = c
      BY <3>1, <3>3, <3>7, OnTheirWay DEF Edits
    <3>9. k = n
      BY <3>7, <3>8 DEF Edits
    <3> QED
      BY <3>6, <3>9
  <2> QED
    BY <1>6, <2>2, <2>3
<1> QED
  BY <1>7, <1>8, <1>9, <1>10, <1>11 DEF Cached

\* The variable gets the value the cache has had since the client set it.
LEMMA ServeSetVariableCached ==
  ASSUME Inv, Inv', CallsInOrder, OneEditEach, Cached, ServeSetVariable
  PROVE  Cached'
<1>0. Pipes' /\ RuntimeType /\ None \in Bodies
  BY BodyTypes DEF Inv, TypeInv
<1>1. PICK command \in {"setVariable"}, stops \in {<<>>}, success \in BOOLEAN,
           body \in Bodies :
        Serve(command) /\ Reply(success, body, stops)
  BY <1>0 DEF ServeSetVariable
<1>2. PICK q \in Asked, a \in Messages :
        /\ q.command = command /\ Argument = q.arg /\ Asked' = Asked \ {q}
        /\ a.id = q.id /\ a.command = command
        /\ Answers' = Answers \cup {a}
        /\ Reported' = Reported \cup (IF stops = <<>> THEN {} ELSE {StopBody(raised + 1, line)})
  <2>1. command # "getLocalVariables" /\ command # "stackTrace"
    BY <1>1
  <2> QED
    BY <1>0, <1>1, <2>1, ReplyAnswers
<1>3. q.command = "setVariable" /\ a.command = "setVariable" /\ Reported' = Reported
  BY <1>1, <1>2
<1>4. /\ UNCHANGED <<pending, ready, locals, pendingLocalEdits, localsFresh, currentLine,
                     notified, state, line, raised>>
      /\ vars' = [vars EXCEPT ![Argument.name] = Argument.value]
  BY DEF ServeSetVariable, Serve, cache, loop, client
<1>5. q \in Requests
  BY OnTheirWay
<1>6. PICK n \in Names : n = q.arg.name
  BY <1>3, <1>5 DEF Requests, RequestOK, Edit
<1>7. PICK v \in Values : v = q.arg.value
  BY <1>3, <1>5 DEF Requests, RequestOK, Edit
<1>8. /\ vars'[n] = v /\ v # None
      /\ \A k \in Names \ {n} : vars'[k] = vars[k]
  BY <1>0, <1>2, <1>4, <1>6, <1>7, ConstantsAssumption
     DEF RuntimeType, Locals, ConstantsAssumption
<1>9. Callers' = Callers
  BY <1>4, QuietCallers
<1>10. /\ Stoppers' = Stoppers /\ Looks' = Looks
       /\ \A k \in Names : Edits(k)' = Edits(k) /\ Setting(k)' \subseteq Setting(k)
       /\ \A k \in Names \ {n} : Setting(k)' = Setting(k)
       /\ q \in Setting(n)
  BY <1>2, <1>3, <1>6, <1>9 DEF Stoppers, Looks, Edits, Setting
<1>11. PICK c \in Edits(n) : c.id = q.id /\ v = pendingLocalEdits[n]
  BY <1>7, <1>10 DEF Cached, EditsHeld
<1>12. locals[n] = v /\ Edits(n) = {c}
  BY <1>8, <1>11 DEF Cached, EditsHeld, OneEditEach
<1>13. CallersPurpose' /\ EditsHeld'
  BY <1>4, <1>9, <1>10 DEF Cached, CallersPurpose, EditsHeld
<1>14. LineHeld'
  <2>1. \A d \in Stoppers : a.id = d.id => ~Sited(d)
    <3> SUFFICES ASSUME NEW d \in Stoppers, a.id = d.id PROVE ~Sited(d)
      OBVIOUS
    <3>1. PICK e \in Callers : e.id = q.id /\ e.call.command = q.command
      BY OnTheirWay
    <3>2. d \in Callers /\ d.id = e.id
      BY <1>2, <3>1 DEF Stoppers
    <3>3. d = e
      BY <3>1, <3>2, OnTheirWay
    <3> QED
      BY <1>3, <3>1, <3>3 DEF Sited
  <2> QED
    BY <1>2, <1>3, <1>4, <1>10, <2>1 DEF Cached, LineHeld, Sited
<1>15. FreshSoon'
  BY <1>2, <1>3, <1>4, <1>10 DEF Cached, FreshSoon, Sited
<1>16. NoneUnset'
  BY <1>4, <1>8, <1>10 DEF Cached, NoneUnset
<1>17. LastLook'
  <2> SUFFICES ASSUME state = "stopped", ~LooksToCome', NEW k \in Names
               PROVE  /\ \A b \in Looks :
                           /\ \A d \in Looks : d.id <= b.id
                           /\ \A e \in Edits(k) : e.id < b.id
                           => b.body[k] = vars'[k]
                      /\ (\A b \in Looks : \E e \in Edits(k) : b.id < e.id) /\ Setting(k)' = {}
                           => locals[k] = vars'[k]
    BY <1>4, <1>10 DEF LastLook
  <2>1. ~LooksToCome
    BY <1>2, <1>3 DEF LooksToCome
  <2>2. CASE k # n
    BY <1>8, <1>10, <2>1, <2>2 DEF Cached, LastLook
  <2>3. CASE k = n
    <3>1. \A b \in Looks : b.id < c.id /\ b.id \in Nat /\ c.id \in Nat
      BY <1>2, <1>11, OnTheirWay DEF Looks, Edits
    <3>2. \A b \in Looks : ~(c.id < b.id)
      BY <3>1
    <3> QED
      BY <1>8, <1>11, <1>12, <2>3, <3>2
  <2> QED
    BY <2>2, <2>3
<1> QED
  BY <1>13, <1>14, <1>15, <1>16, <1>17 DEF Cached

\* A client's call other than an edit sends one request; only a run makes the cache old.
LEMMA PlainCalls ==
  ASSUME Client, ~ \E n \in Names, v \in Values : SetLocalVariable(n, v)
  PROVE  /\ UNCHANGED <<fromRuntime, ready, locals, pendingLocalEdits, currentLine, runtime,
                        notified, edits>>
         /\ \E call, arg :
              /\ Send(call, arg) /\ call.then \in {"none", "refresh", "start"}
              /\ call.command # "setVariable"
              /\ call.command = "getLocalVariables" => call.then = "refresh"
              /\ localsFresh' = localsFresh \/ call.command \in {"continue", "next"}
<1>0. /\ Refresh.then = "refresh" /\ Refresh.command = "getLocalVariables"
      /\ \A c : /\ Quiet(c).then = "none" /\ Quiet(c).command = c
                /\ Starting(c).then = "start" /\ Starting(c).command = c
  BY DEF Refresh, Quiet, Starting
<1>1. CASE \/ Start \/ Pause \/ Disconnect \/ ClearBreakpoints
           \/ \E l \in Lines : SetBreakPoint(l) \/ ClearBreakPoint(l)
           \/ \E bs \in BreakpointSets : SetBreakpointsBulk(bs)
  <2>1. /\ UNCHANGED <<fromRuntime, ready, locals, pendingLocalEdits, localsFresh, currentLine,
                       runtime, notified, edits>>
        /\ \E command \in {"pause", "disconnect", "setBreakpoints", "initialize"} : \E arg :
             Send(Quiet(command), arg) \/ Send(Starting(command), arg)
    BY <1>1 DEF Start, Pause, Disconnect, SendBreakpoints, SetBreakPoint, ClearBreakPoint,
       ClearBreakpoints, SetBreakpointsBulk, cache, loop, client
  <2>2. PICK command \in {"pause", "disconnect", "setBreakpoints", "initialize"} :
          \E arg : Send(Quiet(command), arg) \/ Send(Starting(command), arg)
    BY <2>1
  <2>3. PICK arg : Send(Quiet(command), arg) \/ Send(Starting(command), arg)
    BY <2>2
  <2>4. CASE Send(Quiet(command), arg)
    BY <1>0, <2>1, <2>4
  <2>5. CASE Send(Starting(command), arg)
    BY <1>0, <2>1, <2>5
  <2> QED
    BY <2>3, <2>4, <2>5
<1>2. ASSUME NEW command \in {"continue", "next"}, Run(command)
      PROVE  /\ UNCHANGED <<fromRuntime, ready, locals, pendingLocalEdits, currentLine, runtime,
                            notified, edits>>
             /\ Send(Quiet(command), None) /\ command \in {"continue", "next"}
  BY <1>2 DEF Run, loop, client
<1>3. CASE GetLocalVariables
  BY <1>0, <1>3 DEF GetLocalVariables, cache, loop, client
<1>4. CASE \E command \in {"continue", "next"} : Run(command)
  BY <1>0, <1>2, <1>4
<1> QED
  BY <1>1, <1>3, <1>4 DEF Client

LEMMA ClientCached ==
  ASSUME Inv, Inv', CallsInOrder, OneEditEach', Patient, Cached, Client
  PROVE  Cached'
<1>1. Pipes /\ Pipes' /\ TableType
  BY DEF Inv, TypeInv
<1>2. ASSUME NEW call, NEW arg, Send(call, arg), UNCHANGED <<fromRuntime, ready>>
      PROVE  /\ Callers' = Callers \cup {[id |-> reqId, call |-> call]}
             /\ Answers' = Answers /\ Reported' = Reported
  BY <1>1, <1>2, SendCallers, SameAnswers
<1>3. CASE \E n \in Names, v \in Values : SetLocalVariable(n, v)
  BY <1>3, EditCached
<1>4. CASE ~ \E n \in Names, v \in Values : SetLocalVariable(n, v)
  BY <1>2, <1>4, PlainCalls, SendCached
<1> QED
  BY <1>3, <1>4

LEMMA ContinuationCached ==
  ASSUME Inv, Inv', CallsInOrder, Served, OneEditEach, Cached, Continuation
  PROVE  Cached'
<1>0. Pipes /\ Pipes' /\ TableType /\ ReadyInOrder
  BY DEF Inv, TypeInv, CallsInOrder
<1>1. CASE Nothing
  BY <1>1, ResumedCached DEF Nothing, client
<1>2. CASE StartWentOn
  <2>1. Resume("start") /\ UNCHANGED <<cache, fromRuntime, runtime, notified>>
    BY <1>2 DEF StartWentOn, client
  <2>2. \/ NoSend
        \/ \E entry \in Entries : Send(Starting("launch"), entry)
        \/ Send(Refresh, None)
    BY <1>2 DEF StartWentOn
  <2>3. CASE NoSend
    BY <2>1, <2>3, ResumedCached
  <2>4. ASSUME NEW call, NEW arg, Send(call, arg), call.then \in {"start", "refresh"},
               call.command # "setVariable",
               call.command = "getLocalVariables" => call.then = "refresh"
        PROVE  Cached'
    <3>1. /\ First \in Callers /\ First.call.then = "start"
          /\ Callers' = (Callers \ {First}) \cup {[id |-> reqId, call |-> call]}
          /\ Answered \in Answers /\ Answers' = Answers \ {Answered} /\ Reported' = Reported
          /\ Answered.command = First.call.command
      BY <1>0, <2>1, <2>4, ResumeCallers, ResumeTakes
    <3>2. Answered.command # "getLocalVariables"
      BY <3>1 DEF Cached, CallersPurpose
    <3>3. UNCHANGED <<locals, pendingLocalEdits, currentLine, localsFresh, runtime, notified>>
      BY <2>1 DEF cache
    <3> QED
      BY <2>4, <3>1, <3>2, <3>3, SendCached
  <2>5. /\ Starting("launch").then = "start" /\ Starting("launch").command = "launch"
        /\ Refresh.then = "refresh" /\ Refresh.command = "getLocalVariables"
    BY DEF Starting, Refresh, Quiet
  <2> QED
    BY <2>2, <2>3, <2>4, <2>5
<1>3. CASE Refreshed
  BY <1>3, RefreshedCached
<1>4. CASE StopRefreshed
  BY <1>4, StopRefreshedCached
<1>5. CASE StopLocated
  BY <1>5, StopLocatedCached
<1>6. CASE EditConfirmed
  BY <1>6, ConfirmedCached
<1> QED
  BY <1>1, <1>2, <1>3, <1>4, <1>5, <1>6 DEF Continuation

LEMMA ServiceCached ==
  ASSUME Inv, Inv', CallsInOrder, Served, OneEditEach, Cached, Service
  PROVE  Cached'
<1>0. None \in Bodies /\ line \in Bodies
  BY BodyTypes DEF Inv, TypeInv, RuntimeType
<1>1. ASSUME NEW command, Serve(command),
             command \notin {"getLocalVariables", "setVariable", "stackTrace"},
             NEW success \in BOOLEAN, Reply(success, None, <<>>),
             UNCHANGED <<line, vars, raised>>, state' = state \/ state' # "stopped",
             command \in {"continue", "next"} => state' # "stopped"
      PROVE  Cached'
  BY <1>0, <1>1, PlainReplyCached
<1>2. CASE ServeInitialize \/ RefuseLaunch \/ ServeBreakpoints \/ ServeDisconnect
           \/ \E command \in {"continue", "next"} : ServeRun(command)
  <2> DEFINE Plain(command, success) ==
        /\ Serve(command) /\ Reply(success, None, <<>>) /\ UNCHANGED <<line, vars, raised>>
        /\ state' = state \/ state' # "stopped"
        /\ command \in {"continue", "next"} => state' # "stopped"
      Other == {"initialize", "launch", "continue", "next", "disconnect", "setBreakpoints"}
  <2>1. ServeInitialize => Plain("initialize", TRUE)
    BY DEF ServeInitialize
  <2>2. RefuseLaunch => Plain("launch", FALSE)
    BY DEF RefuseLaunch
  <2>3. ServeBreakpoints => Plain("setBreakpoints", TRUE)
    BY DEF ServeBreakpoints
  <2>4. ServeDisconnect => Plain("disconnect", TRUE)
    BY DEF ServeDisconnect
  <2>5. ASSUME NEW command \in {"continue", "next"}
        PROVE  ServeRun(command) => Plain(command, TRUE)
    BY DEF ServeRun
  <2>6. ASSUME NEW command \in Other, NEW success \in BOOLEAN, Plain(command, success)
        PROVE  Cached'
    BY <1>1, <2>6
  <2> HIDE DEF Plain
  <2> QED
    BY <1>2, <2>1, <2>2, <2>3, <2>4, <2>5, <2>6
<1>3. CASE ServeLaunch \/ ServePause
  <2>1. PICK command \in {"launch", "pause"} :
          /\ Serve(command) /\ UNCHANGED <<line, vars>>
          /\ \/ Reply(TRUE, None, StopAt(raised + 1, line)) /\ raised' = raised + 1
             \/ Reply(TRUE, None, <<>>) /\ raised' = raised /\ state' # "stopped"
    BY <1>3 DEF ServeLaunch, ServePause
  <2>2. CASE Reply(TRUE, None, StopAt(raised + 1, line)) /\ raised' = raised + 1
    BY <2>1, <2>2, ServeStopCached
  <2>3. CASE Reply(TRUE, None, <<>>) /\ raised' = raised /\ state' # "stopped"
    BY <1>1, <2>1, <2>3
  <2> QED
    BY <2>1, <2>2, <2>3
<1>4. CASE ServeLocals
  BY <1>4, ServeLocalsCached
<1>5. CASE ServeSetVariable
  BY <1>5, ServeSetVariableCached
<1>6. CASE ServeStack
  <2>1. PICK command \in {"stackTrace"}, success \in BOOLEAN, body \in Bodies :
          /\ Serve(command) /\ Reply(success, body, <<>>) /\ body = line
          /\ UNCHANGED <<state, line, vars, raised>>
    BY <1>0, <1>6 DEF ServeStack
  <2> QED
    BY <2>1, PlainReplyCached
<1> QED
  BY <1>2, <1>3, <1>4, <1>5, <1>6 DEF Service

\* The program's own steps, and those in which nothing moves but what is read.
LEMMA OtherCached ==
  ASSUME Inv, Inv', CallsInOrder, Served, Cached,
         \/ OnLine \/ OnExit \/ Exit \/ ProgramReports \/ UNCHANGED allVars
         \/ \E n \in Names, v \in Values : ProgramAssigns(n, v)
  PROVE  Cached'
<1>0. Pipes /\ Pipes' /\ TableType /\ RuntimeType
  BY DEF Inv, TypeInv
\* The sets stay as they are, requests aside.
<1>1. ASSUME Callers' = Callers, Answers' = Answers, Reported' = Reported,
             Asked' = Asked \/ (Asked' = {} /\ state' = "exited"),
             state' = state \/ state' # "stopped", state = "exited" => state' = "exited",
             UNCHANGED <<locals, pendingLocalEdits, localsFresh, currentLine, vars, line, raised,
                         notified>>
      PROVE  Cached'
  <2>1. Stoppers' = Stoppers /\ Looks' = Looks
    BY <1>1 DEF Stoppers, Looks
  <2>2. \A n \in Names : /\ Edits(n)' = Edits(n) /\ Setting(n)' \subseteq Setting(n)
                         /\ state' # "exited" => Setting(n)' = Setting(n)
    BY <1>1 DEF Edits, Setting
  <2> QED
    BY <1>1, <2>1, <2>2, QuietCached
<1>2. ASSUME NEW m, OnResponse(m) PROVE Cached'
  <2>1. /\ m.id \in DOMAIN pending
        /\ pending' = [id \in DOMAIN pending \ {m.id} |-> pending[id]]
        /\ ready' = Append(ready, [call |-> pending[m.id], answer |-> m])
    <3>1. 1 \in DOMAIN fromRuntime /\ m = fromRuntime[1] /\ ResponseAt(1)
      BY <1>0, <1>2, LineRead DEF OnResponse, ResponseAt
    <3>2. m.id \in DOMAIN pending
      BY <3>1 DEF Inv, AnswersMatch
    <3> QED
      BY <1>2, <3>2 DEF OnResponse, Resolve
  <2>2. Callers' = Callers
    BY <1>0, <2>1, ResolveCallers
  <2>3. Answers' = Answers /\ Reported' = Reported
    BY <1>0, <1>2, <2>1, AnswerRead DEF OnResponse
  <2> QED
    BY <1>1, <1>2, <2>2, <2>3 DEF OnResponse, Asked, cache, runtime, client
<1>3. ASSUME NEW m, OnTerminated(m) PROVE Cached'
  <2>1. Answers' = Answers /\ Reported' = Reported
    BY <1>0, <1>3, EventRead DEF OnTerminated
  <2> QED
    BY <1>1, <1>3, <2>1, QuietCallers DEF OnTerminated, NoSend, Asked, cache, runtime
<1>4. CASE OnLine
  BY <1>2, <1>3, <1>4, OnStoppedCached DEF OnLine
<1>5. CASE OnExit \/ UNCHANGED allVars
  BY <1>1, <1>5, QuietCallers, SameAnswers
     DEF OnExit, allVars, Asked, cache, loop, runtime, client
<1>6. CASE Exit
  <2>1. Asked' = {}
    BY <1>6 DEF Exit, Asked
  <2> QED
    BY <1>1, <1>6, <2>1, QuietCallers, SameAnswers DEF Exit, cache, loop, client
<1>7. CASE ProgramReports
  <2>1. /\ UNCHANGED <<pending, ready, toRuntime, locals, pendingLocalEdits, localsFresh,
                       currentLine, notified, vars>>
        /\ state = "running" /\ state' \in {"ended", "stopped"}
    BY <1>7 DEF ProgramReports, ProgramEnds, ProgramStops, Program, cache, loop, client
  <2>2. Callers' = Callers /\ Asked' = Asked
    BY <2>1, QuietCallers DEF Asked
  <2>3. CASE ProgramEnds
    <3>1. /\ fromRuntime' = Append(fromRuntime, Event("terminated", None))
          /\ state' = "ended" /\ UNCHANGED <<line, raised>>
      BY <2>3 DEF ProgramEnds
    <3>2. Answers' = Answers /\ Reported' = Reported
      BY <1>0, <2>1, <3>1, EndReported
    <3> QED
      BY <1>1, <2>1, <2>2, <3>1, <3>2
  <2>4. ASSUME NEW l \in Lines, ProgramStops(l) PROVE Cached'
    <3>1. /\ fromRuntime' = fromRuntime \o StopAt(raised + 1, l)
          /\ line' = l /\ raised' = raised + 1
      BY <2>4 DEF ProgramStops
    <3>2. Answers' = Answers /\ Reported' = Reported \cup {StopBody(raised + 1, l)}
      BY <1>0, <2>1, <3>1, StopReported
    <3>3. Looks' = Looks /\ \A n \in Names : Setting(n)' = Setting(n)
      BY <2>2, <3>2 DEF Looks, Setting
    <3> QED
      BY <2>1, <2>2, <3>1, <3>2, <3>3, ReportCached
  <2> QED
    BY <1>7, <2>3, <2>4 DEF ProgramReports
<1>8. ASSUME NEW n \in Names, NEW v \in Values, ProgramAssigns(n, v) PROVE Cached'
  <2>1. /\ UNCHANGED <<pending, ready, toRuntime, fromRuntime, locals, pendingLocalEdits,
                       localsFresh, currentLine, notified, line, raised, state>>
        /\ state = "running" /\ vars' = [vars EXCEPT ![n] = v]
    BY <1>8 DEF ProgramAssigns, Program, cache, loop, client
  <2>2. /\ Callers' = Callers /\ Asked' = Asked /\ Answers' = Answers /\ Reported' = Reported
    BY <2>1, QuietCallers, SameAnswers DEF Asked
  <2>3. /\ Stoppers' = Stoppers /\ Looks' = Looks
        /\ \A k \in Names : Edits(k)' = Edits(k) /\ Setting(k)' = Setting(k)
    BY <2>2 DEF Stoppers, Looks, Edits, Setting
  <2>4. \A k \in Names : vars[k] # None => vars'[k] # None
    BY <1>0, <2>1, ConstantsAssumption DEF RuntimeType, Locals, ConstantsAssumption
  <2>5. CallersPurpose' /\ EditsHeld'
    BY <2>1, <2>2, <2>3 DEF Cached, CallersPurpose, EditsHeld
  <2>6. LineHeld'
    BY <2>1, <2>2, <2>3 DEF Cached, LineHeld, Sited
  <2>7. FreshSoon' /\ LastLook'
    BY <2>1 DEF FreshSoon, LastLook
  <2>8. NoneUnset'
    BY <2>1, <2>3, <2>4 DEF Cached, NoneUnset
  <2> QED
    BY <2>5, <2>6, <2>7, <2>8 DEF Cached
<1> QED
  BY <1>4, <1>5, <1>6, <1>7, <1>8

LEMMA NextKeepsCached ==
  Patient /\ Inv /\ CallsInOrder /\ Served /\ OneEditEach /\ Cached /\ Inv' /\ OneEditEach'
    /\ [Next]_allVars => Cached'
BY ClientCached, ContinuationCached, ServiceCached, OtherCached DEF Next

LEMMA CachedAtFirst == Init => Cached
<1> SUFFICES ASSUME Init PROVE Cached
  OBVIOUS
<1>1. /\ DOMAIN pending = {} /\ DOMAIN ready = {} /\ DOMAIN toRuntime = {}
      /\ DOMAIN fromRuntime = {} /\ state = "idle" /\ line = 0 /\ currentLine = 0
      /\ locals = NoLocals /\ pendingLocalEdits = NoLocals /\ vars = NoLocals
  BY DEF Init
<1>2. Callers = {} /\ Asked = {} /\ Answers = {} /\ Reported = {}
  BY <1>1 DEF Callers, Asked, Answers, Reported
<1>3. Stoppers = {} /\ Looks = {} /\ \A n \in Names : Edits(n) = {} /\ Setting(n) = {}
  BY <1>2 DEF Stoppers, Looks, Edits, Setting
<1>4. \A n \in Names : pendingLocalEdits[n] = None /\ locals[n] = None
  BY <1>1 DEF NoLocals
<1> QED
  BY <1>1, <1>2, <1>3, <1>4 DEF Cached, CallersPurpose, EditsHeld, LineHeld, FreshSoon, NoneUnset,
     LastLook

\* Nothing is on its way, and the program is stopped.
LEMMA CachedAgrees == Inv /\ Served /\ Cached => CacheAgrees
<1> SUFFICES ASSUME Inv, Served, Cached, Settled, state = "stopped"
             PROVE  notified = raised /\ currentLine = line /\ localsFresh /\ locals = vars
  BY DEF CacheAgrees
<1>1. DOMAIN toRuntime = {} /\ DOMAIN fromRuntime = {} /\ DOMAIN ready = {}
  BY DEF Settled
<1>2. DOMAIN pending = {}
  BY <1>1 DEF Inv, NoneForgotten
<1>3. Callers = {} /\ Asked = {} /\ Answers = {} /\ Reported = {}
  BY <1>1, <1>2 DEF Callers, Asked, Answers, Reported
<1>4. Stoppers = {} /\ Looks = {} /\ \A n \in Names : Edits(n) = {} /\ Setting(n) = {}
  BY <1>3 DEF Stoppers, Looks, Edits, Setting
<1>5. notified = raised
  <2>1. notified \in Nat /\ raised \in Nat /\ notified <= raised
    BY DEF Inv, TypeInv, RuntimeType, ClientType, Served
  <2>2. raised \notin notified + 1 .. raised
    BY <1>1, <1>4 DEF Served, NoStopLost
  <2> QED
    BY <2>1, <2>2
<1>6. currentLine = line
  BY <1>5 DEF Cached, LineHeld
<1>7. localsFresh
  BY <1>3, <1>4 DEF Cached, FreshSoon
<1>8. locals = vars
  <2>1. \A n \in Names : locals[n] = vars[n]
    BY <1>3, <1>4 DEF Cached, LastLook, LooksToCome
  <2>2. locals \in Locals /\ vars \in Locals
    BY DEF Inv, TypeInv, CacheType, RuntimeType
  <2> QED
    BY <2>1, <2>2 DEF Locals
<1> QED
  BY <1>5, <1>6, <1>7, <1>8

\* Whatever overlaps, a stopped runtime and a quiet adapter agree on the last stop, its
\* line and every variable (baseRuntime.ts: onLine, dispatchEvent, setLocalVariable), for
\* a client that edits nothing during a refresh and no variable again before its edit
\* was confirmed.  Without the second, the answer of the first edit takes the second out
\* of pendingLocalEdits, and a stop on its way puts the old value back.
THEOREM CacheArrives ==
  ASSUME Patient
  PROVE  Spec /\ []OneEditEach => []CacheAgrees
<1>1. Spec => []Inv /\ []CallsInOrder
  BY AnsweredInOrder, Invariant, PTL
<1>2. Spec => []Served
  BY NoStopIsLost
<1>3. Inv /\ CallsInOrder /\ Served /\ OneEditEach /\ Cached /\ Inv' /\ OneEditEach'
        /\ [Next]_allVars => Cached'
  BY NextKeepsCached
<1>4. Spec /\ []OneEditEach => []Cached
  BY <1>1, <1>2, <1>3, CachedAtFirst, PTL DEF Spec
<1> QED
  BY <1>1, <1>2, <1>4, CachedAgrees, PTL

-----------------------------------------------------------------------------
(* One edit at most.                                                        *)

IsEdit(c) == c.call.then = "edit"
SingleEdit ==
  /\ edits <= 1
  /\ edits = 0 => \A c \in Callers : ~IsEdit(c)
  /\ \A c, d \in Callers : IsEdit(c) /\ IsEdit(d) => c = d

\* A step adds no call that edits, or it is the edit itself.
LEMMA EditsMade ==
  ASSUME Inv, Inv', CallsInOrder, Next
  PROVE  \/ edits' = edits /\ \A c \in Callers' : c \in Callers \/ ~IsEdit(c)
         \/ edits < MaxEdits /\ edits' = edits + 1 /\ \E c : Callers' = Callers \cup {c}
<1>0. Pipes /\ Pipes' /\ TableType /\ ReadyInOrder
  BY DEF Inv, TypeInv, CallsInOrder
<1>1. ASSUME UNCHANGED <<edits, pending, ready>>
      PROVE  edits' = edits /\ \A c \in Callers' : c \in Callers
  BY <1>1, QuietCallers
<1>2. CASE OnLine
  <2>1. ASSUME NEW m, OnResponse(m)
        PROVE  edits' = edits /\ Callers' = Callers
    <3>1. m.id \in DOMAIN pending
      <4>1. 1 \in DOMAIN fromRuntime /\ m = fromRuntime[1] /\ ResponseAt(1)
        BY <1>0, <2>1, LineRead DEF OnResponse, ResponseAt
      <4> QED
        BY <4>1 DEF Inv, AnswersMatch
    <3>2. /\ pending' = [id \in DOMAIN pending \ {m.id} |-> pending[id]]
          /\ ready' = Append(ready, [call |-> pending[m.id], answer |-> m])
      BY <2>1, <3>1 DEF OnResponse, Resolve
    <3> QED
      BY <1>0, <2>1, <3>1, <3>2, ResolveCallers DEF OnResponse, client
  <2>2. ASSUME NEW m, OnStopped(m)
        PROVE  edits' = edits /\ \A c \in Callers' : c \in Callers \/ ~IsEdit(c)
    <3>1. Callers' = Callers \cup
            {[id |-> reqId, call |-> Stopping("getLocalVariables", m.body)]}
      BY <1>0, <2>2, SendCallers DEF OnStopped
    <3>2. Stopping("getLocalVariables", m.body).then = "stop"
      BY DEF Stopping, Quiet
    <3> QED
      BY <2>2, <3>1, <3>2 DEF OnStopped, client, IsEdit
  <2>3. ASSUME NEW m, OnTerminated(m) PROVE UNCHANGED <<edits, pending, ready>>
    BY <2>3 DEF OnTerminated, NoSend
  <2> QED
    BY <1>1, <1>2, <2>1, <2>2, <2>3 DEF OnLine
<1>3. CASE Continuation
  <2>1. /\ edits' = edits
        /\ \E then : Resume(then)
        /\ \/ NoSend
           \/ \E call, arg : Send(call, arg) /\ call.then # "edit"
    <3>1. /\ Refresh.then = "refresh"
          /\ \A c : Starting(c).then = "start"
          /\ \A c, stop : Stopping(c, stop).then = "stop"
      BY DEF Refresh, Starting, Stopping, Quiet
    <3>2. Nothing \/ Refreshed \/ EditConfirmed \/ StopLocated =>
            edits' = edits /\ (\E then : Resume(then)) /\ NoSend
      BY DEF Nothing, Refreshed, EditConfirmed, StopLocated, Notify, client
    <3>3. StartWentOn =>
            /\ edits' = edits /\ \E then : Resume(then)
            /\ NoSend \/ \E call, arg : Send(call, arg) /\ call.then # "edit"
      BY <3>1 DEF StartWentOn, client
    <3>4. StopRefreshed =>
            /\ edits' = edits /\ \E then : Resume(then)
            /\ NoSend \/ \E call, arg : Send(call, arg) /\ call.then # "edit"
      BY <3>1 DEF StopRefreshed, Notify
    <3> QED
      BY <1>3, <3>2, <3>3, <3>4 DEF Continuation
  <2>2. PICK then : Resume(then)
    BY <2>1
  <2>3. CASE NoSend
    BY <1>0, <2>1, <2>2, <2>3, ResumeCallers
  <2>4. ASSUME NEW call, NEW arg, Send(call, arg), call.then # "edit"
        PROVE  \A c \in Callers' : c \in Callers \/ ~IsEdit(c)
    BY <1>0, <2>2, <2>4, ResumeCallers DEF IsEdit
  <2> QED
    BY <2>1, <2>3, <2>4
<1>4. CASE Client /\ ~ \E n \in Names, v \in Values : SetLocalVariable(n, v)
  <2>1. PICK call, arg : Send(call, arg) /\ call.then # "edit" /\ UNCHANGED <<ready, edits>>
    BY <1>4, PlainCalls
  <2>2. Callers' = Callers \cup {[id |-> reqId, call |-> call]}
    BY <1>0, <2>1, SendCallers
  <2> QED
    BY <2>1, <2>2 DEF IsEdit
<1>5. ASSUME NEW n \in Names, NEW v \in Values, SetLocalVariable(n, v)
      PROVE  edits < MaxEdits /\ edits' = edits + 1 /\ \E c : Callers' = Callers \cup {c}
  <2>1. PICK arg : Send(Editing(n), arg) /\ UNCHANGED ready
    BY <1>5 DEF SetLocalVariable, loop
  <2>2. Callers' = Callers \cup {[id |-> reqId, call |-> Editing(n)]}
    BY <1>0, <2>1, SendCallers
  <2> QED
    BY <1>5, <2>2 DEF SetLocalVariable, MayEdit
<1>6. CASE Service
  <2>1. UNCHANGED <<edits, pending, ready>>
    BY <1>6 DEF Service, ServeInitialize, ServeLaunch, RefuseLaunch, ServePause, ServeLocals,
       ServeStack, ServeSetVariable, ServeBreakpoints, ServeDisconnect, ServeRun, Serve, loop,
       client
  <2> QED
    BY <1>1, <2>1
<1>7. CASE \/ OnExit \/ Exit \/ ProgramReports
           \/ \E n \in Names, v \in Values : ProgramAssigns(n, v)
  <2>1. UNCHANGED <<edits, pending, ready>>
    BY <1>7 DEF OnExit, Exit, ProgramReports, ProgramEnds, ProgramStops, ProgramAssigns, Program,
       loop, client
  <2> QED
    BY <1>1, <2>1
<1> QED
  BY <1>2, <1>3, <1>4, <1>5, <1>6, <1>7 DEF Next, Client

LEMMA NextKeepsSingle ==
  ASSUME MaxEdits <= 1
  PROVE  Inv /\ Inv' /\ CallsInOrder /\ SingleEdit /\ [Next]_allVars => SingleEdit'
<1> SUFFICES ASSUME Inv, Inv', CallsInOrder, SingleEdit, [Next]_allVars PROVE SingleEdit'
  OBVIOUS
<1>1. edits \in Nat /\ MaxEdits \in Nat
  BY ConstantsAssumption DEF Inv, TypeInv, ClientType, ConstantsAssumption
<1>2. CASE edits' = edits /\ \A c \in Callers' : c \in Callers \/ ~IsEdit(c)
  BY <1>2 DEF SingleEdit
<1>3. CASE edits < MaxEdits /\ edits' = edits + 1 /\ \E c : Callers' = Callers \cup {c}
  <2>1. edits = 0 /\ edits' = 1
    BY <1>1, <1>3
  <2> QED
    BY <1>3, <2>1 DEF SingleEdit
<1>4. CASE UNCHANGED allVars
  <2>1. UNCHANGED <<edits, pending, ready>>
    BY <1>4 DEF allVars, loop, client
  <2> QED
    BY <1>2, <2>1, QuietCallers
<1> QED
  BY <1>2, <1>3, <1>4, EditsMade

LEMMA SingleIsOneEach == SingleEdit => OneEditEach
BY DEF SingleEdit, OneEditEach, Edits, IsEdit

LEMMA SingleAtFirst == Init => SingleEdit
<1> SUFFICES ASSUME Init PROVE SingleEdit
  OBVIOUS
<1>1. DOMAIN pending = {} /\ DOMAIN ready = {} /\ edits = 0
  BY DEF Init
<1>2. Callers = {}
  BY <1>1 DEF Callers
<1> QED
  BY <1>1, <1>2 DEF SingleEdit

\* The same of a client that edits once: nothing more is asked of what it does.
THEOREM CacheArrivesOnce ==
  ASSUME Patient, MaxEdits <= 1
  PROVE  Spec => []CacheAgrees
<1>1. Spec => []Inv /\ []CallsInOrder
  BY AnsweredInOrder, Invariant, PTL
<1>2. Inv /\ Inv' /\ CallsInOrder /\ SingleEdit /\ [Next]_allVars => SingleEdit'
  BY NextKeepsSingle
<1>3. Spec => []SingleEdit
  BY <1>1, <1>2, SingleAtFirst, PTL DEF Spec
<1>4. Spec => []OneEditEach
  BY <1>3, SingleIsOneEach, PTL
<1>5. Spec /\ []OneEditEach => []CacheAgrees
  BY CacheArrives
<1> QED
  BY <1>4, <1>5, PTL
=============================================================================
