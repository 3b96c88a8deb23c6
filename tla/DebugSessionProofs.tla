------------------------- MODULE DebugSessionProofs -------------------------
(***************************************************************************)
(* Proofs about the debug session, for every set of files, lines and         *)
(* filters, any number of overlapping requests and every kind of runtime.    *)
(***************************************************************************)
EXTENDS DebugSession, SequenceTheorems, TLAPS

\* launch and attach go through these before they apply the cache, while they
\* apply it, and after.
Before == {"configuring", "rebind", "connecting", "attaching"}
During == {"visit", "push", "loading", "sent"}
After  == {"begin", "opening", "run", "starting", "launching"}

\* A record r of a handler: of launch or attach, or of setBreakpoints.
Loops(r) == r.at # "idle" /\ r.call # "setBreakpoints"
Sets(r)  == r.at # "idle" /\ r.call = "setBreakpoints"

Keys == ToSet(bpOrder)

\* What a handler still has to apply: a set it reads the file for, the files the loop
\* has not come to, and the lines that are left of the one it is at.
Unread(r, f) == r.at = "reading" /\ r.file = f
Ahead(r, f)  ==
  \/ r.at \in Before
  \/ /\ Loops(r) /\ r.at \in During
     /\ \E k \in 1 .. Len(bpOrder) : k > r.visited /\ bpOrder[k] = f
Left(r, f, l) == Loops(r) /\ r.at \in {"push", "loading"} /\ r.file = f /\ l \in r.todo

\* Where each kind of handler can be, and what it then knows.
InPlace(r) ==
  /\ r.at \in Before => r.visited = 0
  /\ r.at \in {"connecting", "attaching"} => r.call = "attach"
  /\ r.at \in After \cup {"configuring", "rebind"} => r.call = "launch"
  /\ r.at \in {"visit", "push"} => r.call # "setBreakpoints"
  /\ r.at \in {"reading", "outdated"} => r.call = "setBreakpoints"
  /\ r.at = "reading" => r.todo = bpCache[r.file]
  /\ Sets(r) \/ r.at = "push" \/ r.at = "loading" => r.file \in Keys
  /\ Loops(r) /\ r.at \in {"push", "loading"} => ~Proxied
Places == \A h \in Handlers : InPlace(handler[h])

\* One launch or attach in a session, and one set of breakpoints per file under way.
Alone ==
  /\ \A h, i \in Handlers : Loops(handler[h]) /\ Loops(handler[i]) => h = i
  /\ \A h, i \in Handlers :
       Sets(handler[h]) /\ Sets(handler[i]) /\ handler[h].file = handler[i].file => h = i
  /\ \A h \in Handlers :
       /\ Loops(handler[h]) => launched # None
       /\ Loops(handler[h]) /\ handler[h].call = "launch" =>
            launched # "socket" /\ "launch" \notin unanswered
       /\ Loops(handler[h]) /\ handler[h].call = "attach" => launched = "socket"
  /\ launched = None => "launch" \notin unanswered

\* The caches hold what the client asked for last; a file nobody asked about has
\* nothing anywhere.
Cached ==
  /\ bpCache = wantedLines /\ filterCache = wantedFilters
  /\ \A f \in Files : f \notin Keys => bpCache[f] = {} /\ lines[f] = {}

\* The runtime is of the kind asked for once it is bound, and only an attach has
\* one that may not be there.
Bound ==
  /\ launched # "socket" => bound.wire = "up" /\ bound.kind # "socket"
  /\ launched = "socket" => bound.kind = "socket"
  /\ bound.wire # "absent" => filters = filterCache
  /\ \A h \in Handlers : handler[h].at = "connecting" => bound.wire = "connecting"

\* What no handler has still to apply to a file is there.
SettledFile(f) ==
  (\A h \in Handlers : ~Unread(handler[h], f) /\ ~Ahead(handler[h], f)) =>
    /\ \A l \in bpCache[f] : l \in lines[f] \/ \E h \in Handlers : Left(handler[h], f, l)
    /\ Proxied => lines[f] = bpCache[f]
Serving == bound.wire \in {"up", "connecting"} /\ "launch" \notin unanswered
Settled == Serving => \A f \in Files : SettledFile(f)

Rest == Places /\ Alone /\ Cached /\ Bound /\ Settled
Inv  == TypeOK /\ Rest

-----------------------------------------------------------------------------
(* One handler moves.                                                       *)

LEMMA KeysAre ==
  ASSUME TypeOK
  PROVE  /\ Keys \subseteq Files
         /\ \A f : f \in Keys <=> \E k \in 1 .. Len(bpOrder) : bpOrder[k] = f
BY DEF TypeOK, Keys, ToSet

asked == <<launched, wantedLines, wantedFilters>>

\* A handler r follows another: it is the same request further on, or nothing.
Follows(r, old) ==
  r.at # "idle" => old.at # "idle" /\ r.call = old.call /\ (Sets(r) => r.file = old.file)

\* What the old handler had still to apply the new one has, or it is nothing.
Keeps(r, old) ==
  /\ old.at # "reading"
  /\ \A f \in Files : Ahead(old, f) => Ahead(r, f) \/ f \notin Keys
  /\ \A f \in Files, l \in Lines : Left(old, f, l) => Left(r, f, l)

\* Whoever takes one handler on keeps the places and the numbers of handlers.
LEMMA ReplaceHandler ==
  ASSUME Inv, NEW h \in Handlers, NEW r \in HandlerRecord,
         handler' = [handler EXCEPT ![h] = r], InPlace(r), Follows(r, handler[h]),
         UNCHANGED <<caches, asked>>, bound'.kind = bound.kind,
         \/ "launch" \in unanswered' => "launch" \in unanswered
         \/ Loops(handler[h]) /\ r.at = "idle"
  PROVE  /\ Places' /\ Alone' /\ Keys' = Keys /\ Proxied' = Proxied
         /\ handler'[h] = r /\ \A i \in Handlers : i # h => handler'[i] = handler[i]
         /\ \A f, q : (Unread(q, f))' = Unread(q, f) /\ (Ahead(q, f))' = Ahead(q, f)
<1>1. handler'[h] = r /\ \A i \in Handlers : i # h => handler'[i] = handler[i]
  BY DEF Inv, Rest, TypeOK
<1>2. Keys' = Keys /\ Proxied' = Proxied
  BY DEF Keys, Proxied, caches
<1>3. \A q : InPlace(q) => InPlace(q)'
  BY <1>2 DEF InPlace, caches, Loops, Sets
<1>4. Places'
  BY <1>1, <1>3 DEF Places, Inv, Rest
<1>5. /\ r.at # "idle" => /\ handler[h].at # "idle"
                          /\ r.call = handler[h].call
                          /\ Sets(r) => r.file = handler[h].file
      /\ Loops(r) => Loops(handler[h])
      /\ Sets(r) => Sets(handler[h])
  BY DEF Follows, Loops, Sets
<1>6. Alone'
  <2>1. \A i \in Handlers : /\ Loops(handler'[i]) => Loops(handler[i])
                            /\ Sets(handler'[i]) => Sets(handler[i])
                            /\ handler'[i].at # "idle" =>
                                 /\ handler'[i].call = handler[i].call
                                 /\ Sets(handler'[i]) => handler'[i].file = handler[i].file
    <3> SUFFICES ASSUME NEW i \in Handlers
                 PROVE  /\ Loops(handler'[i]) => Loops(handler[i])
                        /\ Sets(handler'[i]) => Sets(handler[i])
                        /\ handler'[i].at # "idle" =>
                             /\ handler'[i].call = handler[i].call
                             /\ Sets(handler'[i]) => handler'[i].file = handler[i].file
      OBVIOUS
    <3>1. CASE i = h
      <4>1. handler'[i] = r /\ handler[i] = handler[h]
        BY <1>1, <3>1
      <4> QED
        BY <1>5, <4>1 DEF Loops, Sets
    <3>2. CASE i # h
      BY <1>1, <3>2
    <3> QED
      BY <3>1, <3>2
  <2>2. \/ "launch" \in unanswered' => "launch" \in unanswered
        \/ launched # None /\ \A i \in Handlers : ~Loops(handler'[i])
    BY <1>1, <2>1 DEF Alone, Inv, Rest, Loops
  <2>3. \A i \in Handlers :
          /\ Loops(handler'[i]) => launched' # None
          /\ Loops(handler'[i]) /\ handler'[i].call = "launch" =>
               launched' # "socket" /\ "launch" \notin unanswered'
          /\ Loops(handler'[i]) /\ handler'[i].call = "attach" => launched' = "socket"
    <3> SUFFICES ASSUME NEW i \in Handlers, Loops(handler'[i])
                 PROVE  /\ launched' # None
                        /\ handler'[i].call = "launch" =>
                             launched' # "socket" /\ "launch" \notin unanswered'
                        /\ handler'[i].call = "attach" => launched' = "socket"
      OBVIOUS
    <3>1. Loops(handler[i]) /\ handler'[i].call = handler[i].call
      BY <2>1 DEF Loops
    <3>2. launched' = launched
      BY DEF asked
    <3> QED
      BY <3>1, <3>2, <2>2 DEF Alone, Inv, Rest
  <2>4. launched' = None => "launch" \notin unanswered'
    BY <2>2 DEF Alone, Inv, Rest, asked
  <2>5. \A i, j \in Handlers : Loops(handler'[i]) /\ Loops(handler'[j]) => i = j
    BY <2>1 DEF Alone, Inv, Rest
  <2>6. \A i, j \in Handlers :
          Sets(handler'[i]) /\ Sets(handler'[j]) /\ handler'[i].file = handler'[j].file => i = j
    BY <2>1 DEF Alone, Inv, Rest, Sets
  <2> QED
    BY <2>3, <2>4, <2>5, <2>6 DEF Alone
<1>7. \A f, q : (Unread(q, f))' = Unread(q, f) /\ (Ahead(q, f))' = Ahead(q, f)
  BY DEF Unread, Ahead, caches
<1> QED
  BY <1>1, <1>2, <1>4, <1>6, <1>7

\* The step of one handler that keeps the runtime's breakpoints and the caches keeps
\* the invariant, also when it ends a launch that is not answered.
LEMMA Replace ==
  ASSUME Inv, NEW h \in Handlers, NEW r \in HandlerRecord,
         handler' = [handler EXCEPT ![h] = r], InPlace(r),
         Follows(r, handler[h]), Serving' => Serving /\ Keeps(r, handler[h]),
         UNCHANGED <<lines, caches, asked>>, bound'.kind = bound.kind, Bound',
         \/ "launch" \in unanswered' => "launch" \in unanswered
         \/ Loops(handler[h]) /\ r.at = "idle"
  PROVE  Rest'
<1>1. /\ Places' /\ Alone' /\ Keys' = Keys /\ Proxied' = Proxied
      /\ handler'[h] = r /\ \A i \in Handlers : i # h => handler'[i] = handler[i]
      /\ \A f, q : (Unread(q, f))' = Unread(q, f) /\ (Ahead(q, f))' = Ahead(q, f)
  BY ReplaceHandler
<1>2. Cached'
  BY <1>1 DEF Cached, Inv, Rest, caches, asked
<1>3. Settled'
  <2> SUFFICES ASSUME Serving',
                      NEW f \in Files,
                      \A i \in Handlers : ~Unread(handler'[i], f) /\ ~Ahead(handler'[i], f)
               PROVE  /\ \A l \in bpCache[f] :
                           l \in lines[f] \/ \E i \in Handlers : Left(handler'[i], f, l)
                      /\ Proxied => lines[f] = bpCache[f]
    BY <1>1 DEF Settled, SettledFile, caches
  <2>1. CASE f \notin Keys
    BY <2>1 DEF Cached, Inv, Rest
  <2>2. CASE f \in Keys
    <3>1. \A i \in Handlers : ~Unread(handler[i], f) /\ ~Ahead(handler[i], f)
      BY <1>1, <2>2 DEF Follows, Keeps, Unread
    <3>2. \A i \in Handlers, l \in Lines :
            Left(handler[i], f, l) => Left(handler'[i], f, l)
      BY <1>1 DEF Keeps
    <3>3. SettledFile(f) /\ bpCache[f] \subseteq Lines
      BY DEF Settled, Inv, Rest, TypeOK
    <3> QED
      BY <3>1, <3>2, <3>3 DEF SettledFile
  <2> QED
    BY <2>1, <2>2
<1> QED
  BY <1>1, <1>2, <1>3 DEF Rest

-----------------------------------------------------------------------------
(* Steps that only move a handler on, or end it.                            *)

Stages == {"idle"} \cup Prompt \cup Slow

LEMMA GoRecord ==
  ASSUME TypeOK, NEW h \in Handlers, NEW at \in Stages, Go(h, at)
  PROVE  \E r \in HandlerRecord :
           /\ handler' = [handler EXCEPT ![h] = r]
           /\ r.at = at /\ r.call = handler[h].call /\ r.file = handler[h].file
           /\ r.todo = handler[h].todo /\ r.visited = handler[h].visited
<1> DEFINE r == [handler[h] EXCEPT !.at = at]
<1>1. handler[h] \in HandlerRecord
  BY DEF TypeOK
<1>2. r \in HandlerRecord
  BY <1>1 DEF HandlerRecord, Stages
<1>3. handler' = [handler EXCEPT ![h] = r]
  BY DEF Go
<1>4. /\ r.at = at /\ r.call = handler[h].call /\ r.file = handler[h].file
      /\ r.todo = handler[h].todo /\ r.visited = handler[h].visited
  BY <1>1 DEF HandlerRecord
<1> QED
  BY <1>2, <1>3, <1>4

LEMMA IdleRecord == Idle \in HandlerRecord /\ Idle.at = "idle" /\ InPlace(Idle)
BY SessionAssumption DEF Idle, HandlerRecord, SessionAssumption, Calls, InPlace, Sets, Loops,
     Before, After

\* The stages whose successor has the same still to apply, and knows no more.
Moves(h, at) ==
  \/ handler[h].at = "configuring" /\ at = "rebind"
  \/ handler[h].at = "connecting" /\ at = "attaching"
  \/ handler[h].at = "attaching" /\ at = "visit"
  \/ handler[h].at = "push" /\ at = "visit" /\ handler[h].todo = {}
  \/ handler[h].at = "loading" /\ at = "push" /\ Loops(handler[h])
  \/ handler[h].at = "sent" /\ at = "visit" /\ Loops(handler[h])
  \/ /\ handler[h].at = "visit" /\ handler[h].call = "launch" /\ at = "begin"
     /\ handler[h].visited >= Len(bpOrder)
  \/ handler[h].at \in After /\ at \in After

LEMMA GoKeeps ==
  ASSUME Inv, NEW h \in Handlers, NEW at \in Stages, Go(h, at), Moves(h, at),
         UNCHANGED <<lines, caches, asked, unanswered>>,
         bound'.kind = bound.kind, Bound', Serving' => Serving
  PROVE  Rest'
<1>1. PICK r \in HandlerRecord :
           /\ handler' = [handler EXCEPT ![h] = r]
           /\ r.at = at /\ r.call = handler[h].call /\ r.file = handler[h].file
           /\ r.todo = handler[h].todo /\ r.visited = handler[h].visited
  BY GoRecord DEF Inv, Rest
<1>2. InPlace(handler[h])
  BY DEF Inv, Rest, Places
<1>3. InPlace(r)
  BY <1>1, <1>2 DEF Moves, InPlace, Before, After, Sets, Loops
<1>4. Follows(r, handler[h])
  BY <1>1 DEF Moves, Follows, After, Loops
<1>5. Keeps(r, handler[h])
  <2>1. \A f \in Files, l \in Lines : Left(handler[h], f, l) => Left(r, f, l)
    BY <1>1 DEF Moves, Left, After, Loops
  <2>2. \A f \in Files : Ahead(handler[h], f) => Ahead(r, f) \/ f \notin Keys
    <3> SUFFICES ASSUME NEW f \in Files, Ahead(handler[h], f), f \in Keys
                 PROVE  Ahead(r, f)
      OBVIOUS
    <3>1. PICK k \in 1 .. Len(bpOrder) : bpOrder[k] = f
      BY KeysAre DEF Inv, Rest
    <3>2. Len(bpOrder) \in Nat /\ r.visited \in Nat
      BY DEF HandlerRecord, Inv, Rest, TypeOK
    <3>3. CASE handler[h].at \in Before
      BY <1>1, <1>2, <3>1, <3>2, <3>3 DEF Moves, Ahead, InPlace, Before, During, After, Loops
    <3>4. CASE handler[h].at \in During
      BY <1>1, <3>1, <3>2, <3>4 DEF Moves, Ahead, Before, During, After, Loops
    <3> QED
      BY <3>3, <3>4 DEF Ahead
  <2>3. handler[h].at # "reading"
    BY DEF Moves, After
  <2> QED
    BY <2>1, <2>2, <2>3 DEF Keeps
<1> QED
  BY <1>1, <1>3, <1>4, <1>5, Replace DEF Rest

\* A handler that ends had nothing more to apply, or leaves a runtime nobody uses.
LEMMA AnswerKeeps ==
  ASSUME Inv, NEW h \in Handlers, Answer(h), UNCHANGED <<lines, caches, asked>>,
         bound'.kind = bound.kind, Bound', handler[h].at # "reading",
         \/ "launch" \in unanswered' => "launch" \in unanswered
         \/ Loops(handler[h]),
         Serving' => /\ Serving
                     /\ \/ handler[h].at \in After \cup {"outdated"}
                        \/ Sets(handler[h])
                        \/ handler[h].at = "visit" /\ handler[h].visited >= Len(bpOrder)
  PROVE  Rest'
<1>1. handler' = [handler EXCEPT ![h] = Idle]
  BY DEF Answer
<1>2. Follows(Idle, handler[h])
  <2>1. Idle.at = "idle"
    BY IdleRecord
  <2> QED
    BY <2>1 DEF Follows
<1>3. InPlace(handler[h]) /\ handler[h] \in HandlerRecord
  BY DEF Inv, Rest, Places, TypeOK
<1>4. ASSUME Serving' PROVE Keeps(Idle, handler[h])
  <2>1. \A f \in Files : ~Ahead(handler[h], f)
    BY <1>3, <1>4 DEF Ahead, InPlace, Before, During, After, Loops, Sets, HandlerRecord, Inv, Rest, TypeOK
  <2>2. \A f \in Files, l \in Lines : ~Left(handler[h], f, l)
    BY <1>3, <1>4 DEF Left, InPlace, Before, During, After, Loops, Sets
  <2> QED
    BY <2>1, <2>2 DEF Keeps
<1> QED
  BY <1>1, <1>2, <1>4, IdleRecord, Replace DEF Rest

-----------------------------------------------------------------------------
(* Type correctness.                                                        *)

LEMMA StagesAre ==
  HandlerRecord = [call : Calls, at : Stages, file : Files, todo : SUBSET Lines, visited : Nat]
BY DEF HandlerRecord, Stages

LEMMA GoType ==
  ASSUME TypeOK, NEW h \in Handlers, NEW at \in Stages, Go(h, at)
  PROVE  handler' \in [Handlers -> HandlerRecord]
BY GoRecord DEF TypeOK

LEMMA AnswerType ==
  ASSUME TypeOK, NEW h \in Handlers, Answer(h)
  PROVE  handler' \in [Handlers -> HandlerRecord]
BY IdleRecord DEF TypeOK, Answer

LEMMA ReboundType ==
  ASSUME NEW hs \in [Handlers -> HandlerRecord]
  PROVE  Rebound(hs) \in [Handlers -> HandlerRecord]
<1>1. \A i \in Handlers : [hs[i] EXCEPT !.at = "outdated"] \in HandlerRecord
  BY DEF HandlerRecord, Slow
<1> QED
  BY <1>1 DEF Rebound

LEMMA ReadingType ==
  ASSUME NEW f \in Files, NEW set \in LineSets
  PROVE  LET r == [Idle EXCEPT !.call = "setBreakpoints", !.at = "reading",
                               !.file = f, !.todo = set]
         IN  /\ r \in HandlerRecord
             /\ r.call = "setBreakpoints" /\ r.at = "reading" /\ r.file = f /\ r.todo = set
BY SessionAssumption DEF SessionAssumption, Idle, HandlerRecord, Slow, Calls

LEMMA RequestType ==
  ASSUME TypeOK, Request
  PROVE  TypeOK'
<1>1. ASSUME NEW h \in Handlers, NEW f \in Files, NEW set \in LineSets,
             SetBreakPointsRequest(h, f, set)
      PROVE  TypeOK'
  <2>1. handler' \in [Handlers -> HandlerRecord]
    BY <1>1, ReadingType DEF TypeOK, SetBreakPointsRequest
  <2>2. bpOrder' \in Seq(Files)
    BY <1>1 DEF TypeOK, SetBreakPointsRequest
  <2>3. set \subseteq Lines
    BY SessionAssumption DEF SessionAssumption
  <2>4. requests' \in Nat
    BY <1>1 DEF TypeOK, SetBreakPointsRequest, Ask
  <2> QED
    BY <1>1, <2>1, <2>2, <2>3, <2>4 DEF TypeOK, SetBreakPointsRequest, runtime
<1>2. ASSUME NEW x \in Filters, SetExceptionBreakPointsRequest(x) PROVE TypeOK'
  <2>1. requests' \in Nat
    BY <1>2 DEF TypeOK, SetExceptionBreakPointsRequest, Ask
  <2> QED
    BY <1>2, <2>1 DEF TypeOK, SetExceptionBreakPointsRequest
<1>3. ASSUME NEW h \in Handlers, NEW kind \in Kinds, LaunchRequest(h, kind) PROVE TypeOK'
  <2>1. [Idle EXCEPT !.at = "configuring"] \in HandlerRecord
    BY IdleRecord DEF HandlerRecord, Slow
  <2>2. kind \in AllKinds
    BY SessionAssumption DEF SessionAssumption
  <2>3. requests' \in Nat
    BY <1>3 DEF TypeOK, LaunchRequest, Ask
  <2> QED
    BY <1>3, <2>1, <2>2, <2>3 DEF TypeOK, LaunchRequest, runtime, caches
<1>4. ASSUME NEW h \in Handlers, AttachRequest(h) PROVE TypeOK'
  <2>1. [Idle EXCEPT !.call = "attach", !.at = "connecting"] \in HandlerRecord
    BY IdleRecord DEF HandlerRecord, Slow, Calls
  <2>2. handler' \in [Handlers -> HandlerRecord]
    BY <1>4, <2>1, ReboundType DEF TypeOK, AttachRequest
  <2>3. requests' \in Nat
    BY <1>4 DEF TypeOK, AttachRequest, Ask
  <2> QED
    BY <1>4, <2>2, <2>3 DEF TypeOK, AttachRequest, NewRuntime, AllKinds, Wires, caches
<1>5. ASSUME ConfigurationDoneRequest PROVE TypeOK'
  <2>1. \A h \in Handlers : [handler[h] EXCEPT !.at = "rebind"] \in HandlerRecord
    BY DEF TypeOK, HandlerRecord, Prompt
  <2>2. requests' \in Nat
    BY <1>5 DEF TypeOK, ConfigurationDoneRequest, Ask
  <2> QED
    BY <1>5, <2>1, <2>2 DEF TypeOK, ConfigurationDoneRequest, runtime, caches
<1> QED
  BY <1>1, <1>2, <1>3, <1>4, <1>5 DEF Request

LEMMA StepType ==
  ASSUME Inv, NEW h \in Handlers, Step(h)
  PROVE  TypeOK'
<1> USE DEF Inv, Rest
<1>r. handler[h] \in HandlerRecord
  BY DEF TypeOK
<1>1. CASE ReadDone(h)
  <2>1. handler' \in [Handlers -> HandlerRecord]
    BY <1>1, GoType, AnswerType DEF ReadDone, Stages, Slow
  <2> QED
    BY <1>1, <1>r, <2>1 DEF ReadDone, TypeOK, HandlerRecord, caches, client
<1>2. CASE Loaded(h)
  <2>1. handler' \in [Handlers -> HandlerRecord]
    BY <1>2, GoType, AnswerType DEF Loaded, Stages, Prompt
  <2> QED
    BY <1>2, <1>r, <2>1 DEF Loaded, TypeOK, HandlerRecord, caches, client
<1>3. CASE Unreadable(h)
  <2>1. handler' \in [Handlers -> HandlerRecord]
    BY <1>3, AnswerType DEF Unreadable
  <2>2. handler[h].call # "attach"
    <3>1. handler[h].at \in {"loading", "outdated", "opening"}
      BY <1>3 DEF Unreadable, Turn
    <3>2. InPlace(handler[h])
      BY DEF Places
    <3> QED
      BY <3>1, <3>2 DEF InPlace, After, Loops, Alone, Bound, Proxied
  <2>3. handler[h].call \in {"launch", "setBreakpoints"}
    BY <1>r, <2>2 DEF HandlerRecord, Calls
  <2> QED
    BY <1>3, <2>1, <2>3 DEF Unreadable, TypeOK, runtime, caches, client
<1>4. CASE Sent(h)
  <2>1. handler' \in [Handlers -> HandlerRecord]
    BY <1>4, GoType, AnswerType DEF Sent, Stages, Prompt
  <2> QED
    BY <1>4, <2>1 DEF Sent, TypeOK, runtime, caches, client
<1>5. CASE Timeout(h)
  <2>1. handler' \in [Handlers -> HandlerRecord]
    BY <1>5, GoType DEF Timeout, Stages, Prompt
  <2> QED
    BY <1>5, <2>1 DEF Timeout, TypeOK, runtime, caches, client
<1>6. CASE Rebind(h)
  <2>1. [handler[h] EXCEPT !.at = "visit"] \in HandlerRecord
    BY <1>r DEF HandlerRecord, Prompt
  <2>2. handler' \in [Handlers -> HandlerRecord]
    BY <1>6, <2>1, ReboundType DEF TypeOK, Rebind
  <2>3. launched \in AllKinds
    <3>1. handler[h].at = "rebind" /\ InPlace(handler[h])
      BY <1>6 DEF Rebind, Turn, Places
    <3>2. Loops(handler[h])
      BY <3>1 DEF InPlace, Loops
    <3> QED
      BY <3>2 DEF Alone, TypeOK
  <2> QED
    BY <1>6, <2>2, <2>3 DEF Rebind, NewRuntime, TypeOK, Wires, caches, client
<1>7. CASE Visit(h)
  <2>1. CASE handler[h].visited >= Len(bpOrder)
    <3>1. handler' \in [Handlers -> HandlerRecord]
      BY <1>7, <2>1, GoType, AnswerType DEF Visit, Stages, Prompt
    <3> QED
      BY <1>7, <2>1, <3>1 DEF Visit, TypeOK, caches, client
  <2>2. CASE ~(handler[h].visited >= Len(bpOrder))
    <3> DEFINE f == bpOrder[handler[h].visited + 1]
    <3>1. f \in Files /\ handler[h].visited + 1 \in Nat
      BY <1>r, <2>2 DEF TypeOK, HandlerRecord
    <3>2. bpCache[f] \subseteq Lines
      BY <3>1 DEF TypeOK
    <3> DEFINE r == [handler[h] EXCEPT
                       !.visited = handler[h].visited + 1, !.file = f,
                       !.todo = IF Proxied THEN {} ELSE bpCache[f],
                       !.at = IF Proxied THEN "sent" ELSE "push"]
    <3>3. handler' = [handler EXCEPT ![h] = r]
      BY <1>7, <1>r, <2>2 DEF Visit, TypeOK
    <3>4. lines' = [lines EXCEPT ![f] = IF Proxied THEN bpCache[f] ELSE {}]
      BY <1>7, <1>r, <2>2 DEF Visit, TypeOK
    <3> HIDE DEF f
    <3>5. r \in HandlerRecord
      BY <1>r, <3>1, <3>2 DEF HandlerRecord, Prompt, Slow
    <3> HIDE DEF r
    <3>6. handler' \in [Handlers -> HandlerRecord]
      BY <3>3, <3>5 DEF TypeOK
    <3>7. lines' \in [Files -> SUBSET Lines]
      BY <3>1, <3>2, <3>4 DEF TypeOK
    <3> QED
      BY <1>7, <3>6, <3>7 DEF Visit, TypeOK, caches, client
  <2> QED
    BY <2>1, <2>2
<1>8. CASE Pushed(h)
  <2>1. handler' \in [Handlers -> HandlerRecord]
    BY <1>8, GoType DEF Pushed, Stages, Prompt
  <2> QED
    BY <1>8, <2>1 DEF Pushed, TypeOK, runtime, caches, client
<1>9. ASSUME NEW l \in Lines, Push(h, l) PROVE TypeOK'
  <2> DEFINE r == [handler[h] EXCEPT !.todo = handler[h].todo \ {l},
                                     !.at = IF named = handler[h].file THEN "push" ELSE "loading"]
  <2>1. r \in HandlerRecord
    BY <1>r DEF HandlerRecord, Prompt, Slow
  <2>2. handler' = [handler EXCEPT ![h] = r]
    BY <1>9, <1>r DEF Push, TypeOK
  <2> HIDE DEF r
  <2>3. handler' \in [Handlers -> HandlerRecord]
    BY <2>1, <2>2 DEF TypeOK
  <2> QED
    BY <1>9, <1>r, <2>3 DEF Push, TypeOK, HandlerRecord, caches, client
<1>10. CASE Begin(h)
  <2>1. handler' \in [Handlers -> HandlerRecord]
    BY <1>10, GoType DEF Begin, Stages, Prompt, Slow
  <2> QED
    BY <1>10, <2>1, SessionAssumption DEF Begin, TypeOK, SessionAssumption, caches, client
<1>11. CASE Opened(h)
  <2>1. handler' \in [Handlers -> HandlerRecord]
    BY <1>11, GoType DEF Opened, Stages, Prompt
  <2> QED
    BY <1>11, <2>1, SessionAssumption DEF Opened, TypeOK, SessionAssumption, caches, client
<1>12. CASE Run(h)
  <2>1. handler' \in [Handlers -> HandlerRecord]
    BY <1>12, AnswerType DEF Run
  <2>2. started' \in BOOLEAN
    BY <1>12 DEF Run, TypeOK
  <2> QED
    BY <1>12, <2>1, <2>2 DEF Run, TypeOK, runtime, caches, client
<1>13. CASE SendLaunch(h)
  <2>1. handler' \in [Handlers -> HandlerRecord]
    BY <1>13, GoType DEF SendLaunch, Stages, Slow
  <2> QED
    BY <1>13, <2>1 DEF SendLaunch, TypeOK, runtime, caches, client
<1>14. CASE Launched(h)
  <2>1. handler' \in [Handlers -> HandlerRecord]
    BY <1>14, AnswerType DEF Launched
  <2> QED
    BY <1>14, <2>1 DEF Launched, TypeOK, runtime, caches, client
<1>15. CASE Connected(h)
  <2>1. handler' \in [Handlers -> HandlerRecord]
    BY <1>15, GoType DEF Connected, Stages, Slow
  <2> QED
    BY <1>15, <2>1 DEF Connected, TypeOK, Wires, caches, client
<1>16. CASE Unreachable(h)
  <2>1. handler' \in [Handlers -> HandlerRecord]
    BY <1>16, AnswerType DEF Unreachable
  <2> QED
    BY <1>16, <2>1 DEF Unreachable, TypeOK, Wires, caches, client
<1>17. CASE Attached(h)
  <2>1. handler' \in [Handlers -> HandlerRecord]
    BY <1>17, GoType DEF Attached, Stages, Prompt
  <2> QED
    BY <1>17, <2>1 DEF Attached, TypeOK, runtime, caches, client
<1> QED
  BY <1>1, <1>2, <1>3, <1>4, <1>5, <1>6, <1>7, <1>8, <1>9, <1>10, <1>11, <1>12, <1>13, <1>14,
     <1>15, <1>16, <1>17 DEF Step

-----------------------------------------------------------------------------
(* The invariant, step by step.                                             *)

LEMMA BoundKept ==
  ASSUME Inv, UNCHANGED <<bound, filters, filterCache, launched>>, NEW h \in Handlers,
         Answer(h) \/ \E at \in Stages \ {"connecting"} : Go(h, at)
  PROVE  Bound'
<1>1. \A i \in Handlers : handler'[i].at = "connecting" => handler[i].at = "connecting"
  <2>1. CASE Answer(h)
    BY <2>1, IdleRecord DEF Answer, Inv, Rest, TypeOK
  <2>2. ASSUME NEW at \in Stages \ {"connecting"}, Go(h, at)
        PROVE  \A i \in Handlers : handler'[i].at = "connecting" => handler[i].at = "connecting"
    <3>1. PICK r \in HandlerRecord : handler' = [handler EXCEPT ![h] = r] /\ r.at = at
      BY <2>2, GoRecord DEF Inv, Rest
    <3> QED
      BY <3>1 DEF Inv, Rest, TypeOK
  <2> QED
    BY <2>1, <2>2
<1> QED
  BY <1>1 DEF Inv, Rest, Bound

LEMMA PlainGo ==
  ASSUME Inv, NEW h \in Handlers, NEW at \in Stages \ {"connecting"}, Go(h, at), Moves(h, at),
         UNCHANGED <<bound, filters, lines, caches, asked, unanswered>>
  PROVE  Rest'
<1>1. Bound'
  BY BoundKept DEF caches, client, asked
<1> QED
  BY <1>1, GoKeeps DEF Serving

LEMMA PlainAnswer ==
  ASSUME Inv, NEW h \in Handlers, Answer(h), UNCHANGED <<bound, filters, lines, caches, asked>>,
         \/ unanswered' = unanswered /\ Sets(handler[h]) /\ handler[h].at # "reading"
         \/ unanswered' = unanswered /\ handler[h].at = "visit" /\ handler[h].visited >= Len(bpOrder)
         \/ unanswered \subseteq unanswered' /\ handler[h].at \in After
  PROVE  Rest'
<1>1. Bound'
  BY BoundKept DEF caches, client, asked
<1>2. handler[h].at \in After => Loops(handler[h])
  BY DEF Inv, Rest, Places, InPlace, Loops, After
<1>3. handler[h].at # "reading"
  BY DEF After
<1> QED
  BY <1>1, <1>2, <1>3, AnswerKeeps DEF Serving

\* The handlers that neither push lines nor change the runtime.
LEMMA MoveKeeps ==
  ASSUME Inv, NEW h \in Handlers,
         \/ Loaded(h) \/ Unreadable(h) \/ Sent(h) \/ Timeout(h) \/ Pushed(h) \/ Begin(h)
         \/ Opened(h) \/ Run(h) \/ SendLaunch(h) \/ Launched(h) \/ Connected(h)
         \/ Unreachable(h) \/ Attached(h)
  PROVE  Rest'
<1>r. handler[h] \in HandlerRecord /\ InPlace(handler[h])
  BY DEF Inv, Rest, TypeOK, Places
<1>1. CASE Loaded(h)
  <2>1. UNCHANGED <<bound, filters, lines, caches, asked, unanswered>>
    BY <1>1 DEF Loaded, runtime, caches, client, asked
  <2>2. CASE handler[h].call = "setBreakpoints"
    BY <1>1, <2>1, <2>2, PlainAnswer DEF Loaded, Turn, Sets
  <2>3. CASE handler[h].call # "setBreakpoints"
    <3>1. handler[h].at = "loading" /\ Loops(handler[h]) /\ Go(h, "push")
      BY <1>1, <1>r, <2>3 DEF Loaded, Turn, InPlace, Loops
    <3>2. "push" \in Stages /\ Moves(h, "push")
      BY <3>1 DEF Stages, Prompt, Moves
    <3> QED
      BY <2>1, <3>1, <3>2, PlainGo
  <2> QED
    BY <2>2, <2>3
<1>2. CASE Unreadable(h)
  <2>1. /\ Answer(h)
        /\ UNCHANGED <<bound, filters, filterCache, launched, lines, caches, asked>>
    BY <1>2 DEF Unreadable, runtime, caches, client, asked
  <2>2. /\ handler[h].at \in {"loading", "outdated", "opening"}
        /\ unanswered' = unanswered \cup {handler[h].call}
    BY <1>2 DEF Unreadable, Turn
  <2>3. CASE Sets(handler[h])
    BY <2>1, <2>2, <2>3, BoundKept, AnswerKeeps DEF Sets, Serving
  <2>4. CASE ~Sets(handler[h])
    <3>1. Loops(handler[h])
      BY <2>2, <2>4 DEF Loops, Sets
    <3>2. handler[h].call = "launch"
      BY <1>r, <2>2, <3>1 DEF InPlace, HandlerRecord, Calls, Loops, After, Inv, Rest, Alone, Bound, Proxied
    <3>3. ~Serving'
      BY <2>2, <3>2 DEF Serving
    <3> QED
      BY <2>1, <2>2, <3>1, <3>3, BoundKept, AnswerKeeps
  <2> QED
    BY <2>3, <2>4
<1>3. CASE Sent(h)
  <2>1. UNCHANGED <<bound, filters, lines, caches, asked, unanswered>>
    BY <1>3 DEF Sent, runtime, caches, client, asked
  <2>2. CASE handler[h].call = "setBreakpoints"
    BY <1>3, <2>1, <2>2, PlainAnswer DEF Sent, Turn, Sets
  <2>3. CASE handler[h].call # "setBreakpoints"
    <3>1. handler[h].at = "sent" /\ Loops(handler[h]) /\ Go(h, "visit")
      BY <1>3, <1>r, <2>3 DEF Sent, Turn, InPlace, Loops
    <3>2. "visit" \in Stages /\ Moves(h, "visit")
      BY <3>1 DEF Stages, Prompt, Moves
    <3> QED
      BY <2>1, <3>1, <3>2, PlainGo
  <2> QED
    BY <2>2, <2>3
<1>4. CASE Timeout(h)
  <2>1. "rebind" \in Stages /\ Go(h, "rebind") /\ Moves(h, "rebind")
    BY <1>4 DEF Timeout, Turn, Moves, Stages, Prompt
  <2>2. UNCHANGED <<bound, filters, lines, caches, asked, unanswered>>
    BY <1>4 DEF Timeout, runtime, caches, client, asked
  <2> QED
    BY <2>1, <2>2, PlainGo
<1>5. CASE Pushed(h)
  <2>1. "visit" \in Stages /\ Go(h, "visit") /\ Moves(h, "visit")
    BY <1>5 DEF Pushed, Turn, Moves, Stages, Prompt
  <2>2. UNCHANGED <<bound, filters, lines, caches, asked, unanswered>>
    BY <1>5 DEF Pushed, runtime, caches, client, asked
  <2> QED
    BY <2>1, <2>2, PlainGo
<1>6. CASE Begin(h)
  <2>1. PICK at \in {"starting", "run", "opening"} : Go(h, at)
    BY <1>6 DEF Begin
  <2>2. at \in Stages /\ at # "connecting" /\ Moves(h, at)
    BY <1>6 DEF Begin, Turn, Stages, Prompt, Slow, After, Moves
  <2>3. UNCHANGED <<bound, filters, lines, caches, asked, unanswered>>
    BY <1>6 DEF Begin, caches, client, asked
  <2> QED
    BY <2>1, <2>2, <2>3, PlainGo
<1>7. CASE Opened(h)
  <2>1. "run" \in Stages /\ Go(h, "run") /\ Moves(h, "run")
    BY <1>7 DEF Opened, Turn, Moves, Stages, Prompt, After
  <2>2. UNCHANGED <<bound, filters, lines, caches, asked, unanswered>>
    BY <1>7 DEF Opened, runtime, caches, client, asked
  <2> QED
    BY <2>1, <2>2, PlainGo
<1>8. CASE SendLaunch(h)
  <2>1. "launching" \in Stages /\ Go(h, "launching") /\ Moves(h, "launching")
    BY <1>8 DEF SendLaunch, Turn, Moves, Stages, Slow, After
  <2>2. UNCHANGED <<bound, filters, lines, caches, asked, unanswered>>
    BY <1>8 DEF SendLaunch, runtime, caches, client, asked
  <2> QED
    BY <2>1, <2>2, PlainGo
<1>9. CASE Run(h) \/ Launched(h)
  <2>1. /\ UNCHANGED <<bound, filters, lines, caches, asked>> /\ Answer(h)
        /\ unanswered \subseteq unanswered'
    BY <1>9 DEF Run, Launched, runtime, caches, client, asked
  <2>2. handler[h].at \in After
    BY <1>9 DEF Run, Launched, Turn, After
  <2> QED
    BY <2>1, <2>2, PlainAnswer
<1>10. CASE Connected(h)
  <2>1. /\ UNCHANGED <<lines, caches, asked, unanswered, filters>>
        /\ bound' = [bound EXCEPT !.wire = "up"] /\ handler[h].at = "connecting"
    BY <1>10 DEF Connected, Turn, caches, client, asked
  <2>2. launched = "socket"
    BY <1>r, <2>1 DEF InPlace, Loops, Inv, Rest, Alone
  <2>3. bound.wire = "connecting"
    BY <2>1 DEF Inv, Rest, Bound
  <2>4. "attaching" \in Stages /\ Go(h, "attaching") /\ Moves(h, "attaching")
    BY <1>10, <2>1 DEF Connected, Stages, Slow, Moves
  <2>5. \A i \in Handlers : handler'[i].at # "connecting"
    <3>1. PICK r \in HandlerRecord : handler' = [handler EXCEPT ![h] = r] /\ r.at = "attaching"
      BY <2>4, GoRecord DEF Inv, Rest
    <3>2. \A i \in Handlers : handler[i].at = "connecting" => i = h
      BY <1>r, <2>1 DEF InPlace, Inv, Rest, Places, Alone, Loops
    <3> QED
      BY <3>1, <3>2 DEF Inv, Rest, TypeOK
  <2>6. bound'.wire = "up" /\ bound'.kind = bound.kind
    BY <2>1 DEF Inv, Rest, TypeOK
  <2>7. Bound'
    BY <2>1, <2>2, <2>3, <2>5, <2>6 DEF Inv, Rest, Bound, client, asked, caches
  <2>8. Serving' => Serving
    BY <2>1, <2>3 DEF Serving
  <2> QED
    BY <2>1, <2>4, <2>6, <2>7, <2>8, GoKeeps
<1>11. CASE Unreachable(h)
  <2>1. /\ UNCHANGED <<lines, caches, asked, unanswered, filters>>
        /\ bound' = [bound EXCEPT !.wire = "lost"] /\ handler[h].at = "connecting" /\ Answer(h)
    BY <1>11 DEF Unreachable, Turn, caches, client, asked
  <2>2. launched = "socket" /\ bound.wire = "connecting"
    BY <1>r, <2>1 DEF InPlace, Loops, Inv, Rest, Alone, Bound
  <2>3. \A i \in Handlers : handler'[i].at # "connecting"
    <3>1. \A i \in Handlers : handler[i].at = "connecting" => i = h
      BY <1>r, <2>1 DEF InPlace, Inv, Rest, Places, Alone, Loops
    <3> QED
      BY <2>1, <3>1, IdleRecord DEF Answer, Inv, Rest, TypeOK
  <2>4. bound'.wire = "lost" /\ bound'.kind = bound.kind
    BY <2>1 DEF Inv, Rest, TypeOK
  <2>5. Bound'
    BY <2>1, <2>2, <2>3, <2>4 DEF Inv, Rest, Bound, client, asked, caches
  <2>6. ~Serving'
    BY <2>4 DEF Serving
  <2> QED
    BY <2>1, <2>4, <2>5, <2>6, AnswerKeeps
<1>12. CASE Attached(h)
  <2>1. "visit" \in Stages /\ Go(h, "visit") /\ Moves(h, "visit")
    BY <1>12 DEF Attached, Turn, Moves, Stages, Prompt
  <2>2. UNCHANGED <<bound, filters, lines, caches, asked, unanswered>>
    BY <1>12 DEF Attached, runtime, caches, client, asked
  <2> QED
    BY <2>1, <2>2, PlainGo
<1> QED
  BY <1>1, <1>2, <1>3, <1>4, <1>5, <1>6, <1>7, <1>8, <1>9, <1>10, <1>11, <1>12

-----------------------------------------------------------------------------
(* The steps that change what the runtime has.                              *)

LEMMA OnlyHandler ==
  ASSUME Inv, NEW h \in Handlers, NEW r, handler' = [handler EXCEPT ![h] = r]
  PROVE  handler'[h] = r /\ \A i \in Handlers : i # h => handler'[i] = handler[i]
BY DEF Inv, TypeOK

\* Nothing is left to apply of a file at a handler that does not set it and loops not.
LEMMA ReadDoneKeeps ==
  ASSUME Inv, NEW h \in Handlers, ReadDone(h)
  PROVE  Rest'
<1> DEFINE f == handler[h].file
<1>1. /\ handler[h].at = "reading" /\ handler[h] \in HandlerRecord /\ InPlace(handler[h])
      /\ UNCHANGED <<bound, filters, bpCache, bpOrder, filterCache, client>>
  BY DEF ReadDone, Turn, Inv, Rest, TypeOK, Places, caches
<1>2. /\ Sets(handler[h]) /\ handler[h].todo = bpCache[f] /\ f \in Keys /\ f \in Files
  BY <1>1 DEF InPlace, Sets, HandlerRecord
<1>3. PICK r \in HandlerRecord : /\ handler' = [handler EXCEPT ![h] = r]
                                 /\ r.at \in {"idle", "sent", "loading"}
                                 /\ r.at # "idle" => r.call = "setBreakpoints" /\ r.file = f
  <2>1. CASE Answer(h)
    BY <2>1, IdleRecord DEF Answer
  <2>2. ASSUME NEW at \in {"sent", "loading"}, Go(h, at)
        PROVE  \E r \in HandlerRecord : /\ handler' = [handler EXCEPT ![h] = r]
                                        /\ r.at \in {"idle", "sent", "loading"}
                                        /\ r.at # "idle" => r.call = "setBreakpoints" /\ r.file = f
    BY <1>2, <2>2, GoRecord DEF Stages, Slow, Inv, Sets
  <2> QED
    BY <2>1, <2>2 DEF ReadDone
<1>4. /\ handler'[h] = r /\ \A i \in Handlers : i # h => handler'[i] = handler[i]
      /\ Keys' = Keys /\ Proxied' = Proxied
  BY <1>1, <1>3, OnlyHandler DEF Keys, Proxied
<1>5. /\ "launch" \in unanswered' <=> "launch" \in unanswered
      /\ Serving' => lines' = [lines EXCEPT ![f] = bpCache[f]]
      /\ lines' = lines \/ lines' = [lines EXCEPT ![f] = bpCache[f]]
      /\ Serving' = Serving
  BY <1>1, <1>2 DEF ReadDone, Serving
<1>6. Places'
  <2>1. \A q : InPlace(q) => (InPlace(q))'
    BY <1>1, <1>4 DEF InPlace
  <2>2. InPlace(r)
    BY <1>2, <1>3 DEF InPlace, Before, After, Sets, Loops
  <2> QED
    BY <1>4, <2>1, <2>2 DEF Places, Inv, Rest
<1>7. Alone'
  <2>1. \A i \in Handlers : /\ Loops(handler'[i]) => i # h
                            /\ Sets(handler'[i]) => Sets(handler[i]) /\ handler'[i].file = handler[i].file
    BY <1>2, <1>3, <1>4 DEF Loops, Sets
  <2>2. launched' = launched
    BY <1>1 DEF client
  <2>3. \A i, j \in Handlers :
          Sets(handler'[i]) /\ Sets(handler'[j]) /\ handler'[i].file = handler'[j].file => i = j
    BY <2>1 DEF Alone, Inv, Rest
  <2>4. \A i, j \in Handlers : Loops(handler'[i]) /\ Loops(handler'[j]) => i = j
    BY <1>4, <2>1 DEF Alone, Inv, Rest
  <2> QED
    BY <1>4, <1>5, <2>1, <2>2, <2>3, <2>4 DEF Alone, Inv, Rest
<1>8. Cached'
  BY <1>1, <1>2, <1>4, <1>5 DEF Cached, Inv, Rest, client, TypeOK
<1>9. Bound'
  BY <1>1, <1>3, <1>4 DEF Bound, Inv, Rest, client
<1>10. Settled'
  <2> SUFFICES ASSUME Serving, NEW g \in Files,
                      \A i \in Handlers : ~Unread(handler'[i], g) /\ ~Ahead(handler'[i], g)
               PROVE  /\ \A l \in bpCache[g] :
                           l \in lines'[g] \/ \E i \in Handlers : Left(handler'[i], g, l)
                      /\ Proxied => lines'[g] = bpCache[g]
    <3>1. \A q, g : (Unread(q, g))' = Unread(q, g) /\ (Ahead(q, g))' = Ahead(q, g)
      BY <1>1 DEF Unread, Ahead
    <3>2. bpCache' = bpCache
      BY <1>1
    <3> QED
      BY <1>4, <1>5, <3>1, <3>2 DEF Settled, SettledFile
  <2>1. lines' = [lines EXCEPT ![f] = bpCache[f]]
    BY <1>5
  <2>2. CASE g = f
    BY <2>1, <2>2 DEF Inv, TypeOK
  <2>3. CASE g # f
    <3>1. lines'[g] = lines[g]
      BY <2>1, <2>3 DEF Inv, TypeOK
    <3>2. ~Unread(handler[h], g) /\ ~Ahead(handler[h], g)
      BY <1>1, <1>2, <2>3 DEF Unread, Ahead, Before, During, Loops, Sets
    <3>3. \A i \in Handlers : \A l : Left(handler[i], g, l) => Left(handler'[i], g, l)
      BY <1>2, <1>4 DEF Left, Loops, Sets
    <3> QED
      BY <1>4, <3>1, <3>2, <3>3 DEF Settled, SettledFile, Inv, Rest
  <2> QED
    BY <2>2, <2>3
<1> QED
  BY <1>6, <1>7, <1>8, <1>9, <1>10 DEF Rest

\* A line that is set goes from what is left to what is there.
LEMMA PushKeeps ==
  ASSUME Inv, NEW h \in Handlers, NEW l \in Lines, Push(h, l)
  PROVE  Rest'
<1> DEFINE f == handler[h].file
           at == IF named = f THEN "push" ELSE "loading"
           r  == [handler[h] EXCEPT !.todo = handler[h].todo \ {l}, !.at = at]
<1>1. /\ handler[h].at = "push" /\ handler[h] \in HandlerRecord /\ InPlace(handler[h])
      /\ UNCHANGED <<bound, filters, unanswered, caches, client>>
      /\ lines' = [lines EXCEPT ![f] = lines[f] \cup {l}]
      /\ handler' = [handler EXCEPT ![h] = r]
  BY DEF Push, Turn, Inv, Rest, TypeOK, Places
<1>2. /\ r \in HandlerRecord /\ r.at \in {"push", "loading"} /\ r.call = handler[h].call
      /\ r.file = f /\ r.todo = handler[h].todo \ {l} /\ r.visited = handler[h].visited
  BY <1>1 DEF HandlerRecord, Prompt, Slow
<1> HIDE DEF r
<1>3. InPlace(r) /\ Loops(r) /\ Loops(handler[h]) /\ f \in Keys /\ ~Proxied
  BY <1>1, <1>2 DEF InPlace, Loops, Sets, Before, After
<1>4. Follows(r, handler[h])
  BY <1>1, <1>2 DEF Follows
<1>5. /\ Places' /\ Alone' /\ Keys' = Keys /\ Proxied' = Proxied
      /\ handler'[h] = r /\ \A i \in Handlers : i # h => handler'[i] = handler[i]
      /\ \A g, q : (Unread(q, g))' = Unread(q, g) /\ (Ahead(q, g))' = Ahead(q, g)
  BY <1>1, <1>2, <1>3, <1>4, ReplaceHandler DEF client, asked
<1>6. f \in Files
  BY <1>1 DEF HandlerRecord
<1>7. Cached'
  BY <1>1, <1>3, <1>5, <1>6 DEF Cached, Inv, Rest, caches, client, TypeOK
<1>8. Bound'
  BY <1>1, <1>2, <1>5 DEF Bound, Inv, Rest, caches, client
<1>9. Settled'
  <2> SUFFICES ASSUME Serving, NEW g \in Files,
                      \A i \in Handlers : ~Unread(handler'[i], g) /\ ~Ahead(handler'[i], g)
               PROVE  \A m \in bpCache[g] :
                           m \in lines'[g] \/ \E i \in Handlers : Left(handler'[i], g, m)
    BY <1>1, <1>3, <1>5 DEF Settled, SettledFile, Serving, caches
  <2>1. \A i \in Handlers : ~Unread(handler[i], g) /\ ~Ahead(handler[i], g)
    <3>1. ~Unread(handler[h], g)
      BY <1>1 DEF Unread
    <3>2. Ahead(handler[h], g) => Ahead(r, g)
      BY <1>1, <1>2, <1>3 DEF Ahead, Before, During
    <3> QED
      BY <1>5, <3>1, <3>2
  <2>2. \A m \in bpCache[g] : m \in lines[g] \/ \E i \in Handlers : Left(handler[i], g, m)
    BY <2>1 DEF Settled, SettledFile, Inv, Rest
  <2>3. \A m : m \in lines[g] => m \in lines'[g]
    BY <1>1, <1>6 DEF Inv, TypeOK
  <2>4. \A m : Left(handler[h], g, m) => m \in lines'[g] \/ Left(r, g, m)
    BY <1>1, <1>2, <1>3, <1>6 DEF Left, Inv, TypeOK
  <2>5. \A i \in Handlers : \A m : Left(handler[i], g, m) =>
          m \in lines'[g] \/ \E j \in Handlers : Left(handler'[j], g, m)
    BY <1>5, <2>4
  <2> QED
    BY <2>2, <2>3, <2>5
<1> QED
  BY <1>5, <1>7, <1>8, <1>9 DEF Rest

\* The file the loop comes to is set at once, or emptied with all its lines left.
LEMMA VisitKeeps ==
  ASSUME Inv, NEW h \in Handlers, Visit(h)
  PROVE  Rest'
<1>1. /\ handler[h].at = "visit" /\ handler[h] \in HandlerRecord /\ InPlace(handler[h])
      /\ UNCHANGED <<bound, filters, unanswered, caches, client>>
  BY DEF Visit, Turn, Inv, Rest, TypeOK, Places
<1>2. CASE handler[h].visited >= Len(bpOrder)
  <2>1. lines' = lines
    BY <1>2 DEF Visit
  <2>2. CASE handler[h].call = "launch"
    <3>1. "begin" \in Stages /\ Go(h, "begin") /\ Moves(h, "begin")
      BY <1>1, <1>2, <2>2 DEF Visit, Stages, Prompt, Moves
    <3> QED
      BY <1>1, <2>1, <3>1, PlainGo DEF client, asked
  <2>3. CASE handler[h].call # "launch"
    BY <1>1, <1>2, <2>1, <2>3, PlainAnswer DEF Visit, client, asked
  <2> QED
    BY <2>2, <2>3
<1>3. CASE ~(handler[h].visited >= Len(bpOrder))
  <2> DEFINE k == handler[h].visited + 1
             f == bpOrder[k]
             todo == IF Proxied THEN {} ELSE bpCache[f]
             at == IF Proxied THEN "sent" ELSE "push"
             r == [handler[h] EXCEPT !.visited = k, !.file = f, !.todo = todo, !.at = at]
  <2>1. k \in 1 .. Len(bpOrder) /\ f \in Files /\ f \in Keys
    BY <1>1, <1>3, KeysAre DEF Inv, TypeOK, HandlerRecord
  <2>2. /\ handler' = [handler EXCEPT ![h] = r]
        /\ lines' = [lines EXCEPT ![f] = IF Proxied THEN bpCache[f] ELSE {}]
    BY <1>1, <1>3 DEF Visit, Inv, TypeOK
  <2> HIDE DEF f
  <2>3. bpCache[f] \subseteq Lines
    BY <2>1 DEF Inv, TypeOK
  <2>4. /\ r \in HandlerRecord /\ r.call = handler[h].call /\ r.file = f /\ r.visited = k
        /\ r.todo = IF Proxied THEN {} ELSE bpCache[f]
        /\ r.at = IF Proxied THEN "sent" ELSE "push"
    <3>1. todo \subseteq Lines /\ at \in Prompt \cup Slow
      BY <2>3 DEF Prompt, Slow
    <3> HIDE DEF todo, at, k
    <3>2. /\ r.call = handler[h].call /\ r.file = f /\ r.visited = k
          /\ r.todo = todo /\ r.at = at
      BY <1>1 DEF HandlerRecord
    <3>3. k \in Nat
      BY <2>1
    <3>4. r \in HandlerRecord
      BY <1>1, <2>1, <3>1, <3>3 DEF HandlerRecord
    <3> QED
      BY <3>2, <3>4 DEF todo, at
  <2> HIDE DEF r
  <2>5. Loops(r) /\ Loops(handler[h]) /\ InPlace(r)
    BY <1>1, <2>1, <2>4 DEF InPlace, Loops, Sets, Before, After
  <2>6. handler'[h] = r /\ \A i \in Handlers : i # h => handler'[i] = handler[i]
    BY <2>2, OnlyHandler
  <2>7. Places' /\ Alone' /\ Keys' = Keys /\ Proxied' = Proxied
    <3>1. Follows(r, handler[h])
      BY <1>1, <2>4, <2>5 DEF Follows, Loops, Sets
    <3> QED
      BY <1>1, <2>2, <2>4, <2>5, <3>1, ReplaceHandler DEF client, asked
  <2>8. Cached'
    BY <1>1, <2>1, <2>2, <2>7 DEF Cached, Inv, Rest, caches, client, TypeOK
  <2>9. Bound'
    BY <1>1, <2>4, <2>6 DEF Bound, Inv, Rest, caches, client
  <2>10. Settled'
    <3> SUFFICES ASSUME Serving, NEW g \in Files,
                        \A i \in Handlers : ~Unread(handler'[i], g) /\ ~Ahead(handler'[i], g)
                 PROVE  /\ \A l \in bpCache[g] :
                             l \in lines'[g] \/ \E i \in Handlers : Left(handler'[i], g, l)
                        /\ Proxied => lines'[g] = bpCache[g]
      <4>1. \A g, q : (Unread(q, g))' = Unread(q, g) /\ (Ahead(q, g))' = Ahead(q, g)
        BY <1>1 DEF Unread, Ahead, caches
      <4> QED
        BY <1>1, <2>7, <4>1 DEF Settled, SettledFile, Serving, caches
    <3>1. CASE g = f
      <4>1. lines'[g] = IF Proxied THEN bpCache[f] ELSE {}
        BY <2>1, <2>2, <3>1 DEF Inv, TypeOK
      <4>2. CASE Proxied
        BY <3>1, <4>1, <4>2
      <4>3. CASE ~Proxied
        BY <2>4, <2>5, <2>6, <3>1, <4>3 DEF Left
      <4> QED
        BY <4>2, <4>3
    <3>2. CASE g # f
      <4>1. lines'[g] = lines[g]
        BY <2>2, <3>2 DEF Inv, TypeOK
      <4>2. ~Unread(handler[h], g)
        BY <1>1 DEF Unread
      <4>3. ~Ahead(handler[h], g)
        <5>1. SUFFICES ASSUME NEW j \in 1 .. Len(bpOrder), j > handler[h].visited, bpOrder[j] = g
                       PROVE  FALSE
          BY <1>1 DEF Ahead, Before
        <5>2. j # k
          BY <3>2, <5>1 DEF f
        <5>3. j > k
          BY <1>1, <5>1, <5>2 DEF HandlerRecord, Inv, TypeOK
        <5>4. ~Ahead(r, g)
          BY <2>6
        <5> QED
          BY <2>4, <2>5, <5>1, <5>3, <5>4 DEF Ahead, During
      <4>4. \A i \in Handlers : ~Unread(handler[i], g) /\ ~Ahead(handler[i], g)
        BY <2>6, <4>2, <4>3
      <4>5. \A i \in Handlers : \A l : Left(handler[i], g, l) => Left(handler'[i], g, l)
        BY <1>1, <2>6 DEF Left
      <4> QED
        BY <4>1, <4>4, <4>5 DEF Settled, SettledFile, Inv, Rest
    <3> QED
      BY <3>1, <3>2
  <2> QED
    BY <2>7, <2>8, <2>9, <2>10 DEF Rest
<1> QED
  BY <1>2, <1>3

\* Under a new runtime every other handler is as it was, but for reads that are
\* outdated.
LEMMA ReboundHandlers ==
  ASSUME TypeOK, Places, NEW h \in Handlers, NEW r \in HandlerRecord, r.at # "loading",
         handler' = Rebound([handler EXCEPT ![h] = r]),
         \A i \in Handlers : Loops(handler[i]) => i = h
  PROVE  /\ handler'[h] = r
         /\ \A i \in Handlers : i # h =>
              /\ ~Loops(handler[i]) /\ ~Loops(handler'[i])
              /\ \/ handler'[i] = handler[i]
                 \/ /\ handler[i].at = "loading" /\ handler'[i].at = "outdated"
                    /\ handler[i].call = "setBreakpoints"
                    /\ handler'[i].call = "setBreakpoints"
                    /\ handler'[i].file = handler[i].file
<1>1. handler'[h] = r
  BY DEF Rebound, TypeOK
<1>2. ASSUME NEW i \in Handlers, i # h
      PROVE  /\ ~Loops(handler[i]) /\ ~Loops(handler'[i])
             /\ \/ handler'[i] = handler[i]
                \/ /\ handler[i].at = "loading" /\ handler'[i].at = "outdated"
                   /\ handler[i].call = "setBreakpoints"
                   /\ handler'[i].call = "setBreakpoints"
                   /\ handler'[i].file = handler[i].file
  <2>1. handler[i] \in HandlerRecord /\ ~Loops(handler[i])
    BY <1>2 DEF TypeOK
  <2>2. CASE handler[i].at = "loading"
    <3>1. handler'[i] = [handler[i] EXCEPT !.at = "outdated"]
      BY <1>2, <2>2 DEF Rebound, TypeOK
    <3>2. /\ handler'[i].at = "outdated" /\ handler'[i].call = handler[i].call
          /\ handler'[i].file = handler[i].file
      BY <2>1, <3>1 DEF HandlerRecord
    <3> QED
      BY <2>1, <2>2, <3>2 DEF Loops
  <2>3. CASE handler[i].at # "loading"
    BY <1>2, <2>1, <2>3 DEF Rebound, TypeOK
  <2> QED
    BY <2>2, <2>3
<1> QED
  BY <1>1, <1>2

\* The runtime that launch or attach binds is empty, and all is still ahead.
LEMMA NewRuntimeKeeps ==
  ASSUME Inv, NEW h \in Handlers, NEW r \in HandlerRecord, r.at # "loading",
         handler' = Rebound([handler EXCEPT ![h] = r]),
         \A i \in Handlers : Loops(handler[i]) => i = h,
         Loops(r), InPlace(r), r.at \in {"visit", "connecting"}, r.visited = 0,
         UNCHANGED <<caches, wantedLines, wantedFilters, unanswered>>,
         lines' = [f \in Files |-> {}],
         launched' # None, "launch" \notin unanswered,
         r.call = "launch" => launched' # "socket",
         r.call = "attach" => launched' = "socket",
         launched' # "socket" => bound'.wire = "up" /\ bound'.kind # "socket",
         launched' = "socket" => bound'.kind = "socket",
         bound'.wire # "absent" => filters' = filterCache,
         r.at = "connecting" => bound'.wire = "connecting"
  PROVE  Rest'
<1>1. /\ handler'[h] = r
      /\ \A i \in Handlers : i # h =>
           /\ ~Loops(handler[i]) /\ ~Loops(handler'[i])
           /\ \/ handler'[i] = handler[i]
              \/ /\ handler[i].at = "loading" /\ handler'[i].at = "outdated"
                 /\ handler[i].call = "setBreakpoints"
                 /\ handler'[i].call = "setBreakpoints"
                 /\ handler'[i].file = handler[i].file
  BY ReboundHandlers DEF Inv, Rest
<1>2. Keys' = Keys
  BY DEF Keys, caches
<1>3. Places'
  <2>1. InPlace(r)'
    BY <1>2 DEF InPlace, caches
  <2>2. ASSUME NEW i \in Handlers, i # h PROVE InPlace(handler[i])'
    <3>1. InPlace(handler[i])
      BY DEF Inv, Rest, Places
    <3>2. CASE handler'[i] = handler[i]
      BY <1>1, <1>2, <2>2, <3>1, <3>2 DEF InPlace, caches, Loops, Sets
    <3>3. CASE handler'[i] # handler[i]
      <4>1. /\ handler'[i].at = "outdated" /\ handler'[i].call = "setBreakpoints"
            /\ handler'[i].file \in Keys'
        BY <1>1, <1>2, <2>2, <3>1, <3>3 DEF InPlace
      <4> QED
        BY <4>1 DEF InPlace, Loops, Sets, Before, After
    <3> QED
      BY <3>2, <3>3
  <2> QED
    <3>1. \A i \in Handlers : InPlace(handler[i])'
      BY <1>1, <2>1, <2>2
    <3> QED
      BY <3>1 DEF Places
<1>4. Alone'
  <2>1. ~Sets(r) /\ r.call # "setBreakpoints"
    BY DEF Loops, Sets
  <2>2. \A i, j \in Handlers : Loops(handler'[i]) /\ Loops(handler'[j]) => i = j
    BY <1>1
  <2>3. \A i, j \in Handlers :
          Sets(handler'[i]) /\ Sets(handler'[j]) /\ handler'[i].file = handler'[j].file => i = j
    <3>1. \A i \in Handlers : Sets(handler'[i]) =>
            Sets(handler[i]) /\ handler'[i].file = handler[i].file
      BY <1>1, <2>1 DEF Sets
    <3> QED
      BY <3>1 DEF Inv, Rest, Alone
  <2>4. \A i \in Handlers :
          /\ Loops(handler'[i]) => launched' # None
          /\ Loops(handler'[i]) /\ handler'[i].call = "launch" =>
               launched' # "socket" /\ "launch" \notin unanswered'
          /\ Loops(handler'[i]) /\ handler'[i].call = "attach" => launched' = "socket"
    BY <1>1
  <2> QED
    BY <2>2, <2>3, <2>4 DEF Alone
<1>5. Cached'
  BY <1>2 DEF Cached, Inv, Rest, caches
<1>6. Settled'
  <2> SUFFICES ASSUME NEW f \in Files, ~(Ahead(r, f))'
               PROVE  /\ \A l \in bpCache[f] : l \in lines'[f]
                      /\ lines'[f] = bpCache[f]
    BY <1>1 DEF Settled, SettledFile, caches
  <2>1. (Ahead(r, f))' = Ahead(r, f)
    BY DEF Ahead, caches
  <2>2. f \notin Keys
    <3>1. SUFFICES ASSUME NEW k \in 1 .. Len(bpOrder), bpOrder[k] = f
                   PROVE  FALSE
      BY KeysAre DEF Inv
    <3>2. k > r.visited
      BY DEF Inv, TypeOK
    <3> QED
      BY <2>1, <3>1, <3>2 DEF Ahead, Before, During
  <2> QED
    BY <2>2 DEF Cached, Inv, Rest
<1>7. Bound'
  <2>1. \A i \in Handlers : i # h => handler'[i].at # "connecting"
    <3>1. \A i \in Handlers : handler[i].at = "connecting" => Loops(handler[i])
      BY DEF Inv, Rest, Places, InPlace, Loops
    <3> QED
      BY <1>1, <3>1
  <2> QED
    BY <1>1, <2>1 DEF Bound, caches
<1> QED
  BY <1>3, <1>4, <1>5, <1>6, <1>7 DEF Rest

LEMMA RebindKeeps ==
  ASSUME Inv, NEW h \in Handlers, Rebind(h)
  PROVE  Rest'
<1> DEFINE r == [handler[h] EXCEPT !.at = "visit"]
<1>1. /\ handler[h].at = "rebind" /\ handler[h] \in HandlerRecord /\ InPlace(handler[h])
      /\ UNCHANGED <<caches, unanswered, client>> /\ filters' = filterCache
      /\ bound' = [kind |-> launched, wire |-> "up"] /\ lines' = [f \in Files |-> {}]
      /\ handler' = Rebound([handler EXCEPT ![h] = r])
  BY DEF Rebind, NewRuntime, Turn, Inv, Rest, TypeOK, Places
<1>2. /\ r \in HandlerRecord /\ r.at = "visit" /\ r.call = handler[h].call
      /\ r.visited = handler[h].visited
  BY <1>1 DEF HandlerRecord, Prompt
<1> HIDE DEF r
<1>3. handler[h].call = "launch" /\ handler[h].visited = 0 /\ Loops(handler[h])
  BY <1>1 DEF InPlace, Before, Loops
<1>4. /\ launched # None /\ launched # "socket" /\ "launch" \notin unanswered
      /\ \A i \in Handlers : Loops(handler[i]) => i = h
  BY <1>3 DEF Inv, Rest, Alone
<1>5. Loops(r) /\ InPlace(r)
  BY <1>2, <1>3 DEF InPlace, Loops, Sets, Before, After
<1>6. /\ bound'.kind = launched /\ bound'.wire = "up" /\ launched' = launched
      /\ UNCHANGED <<wantedLines, wantedFilters>>
  BY <1>1 DEF client
<1> QED
  BY <1>1, <1>2, <1>3, <1>4, <1>5, <1>6, NewRuntimeKeeps

LEMMA AttachKeeps ==
  ASSUME Inv, NEW h \in Handlers, AttachRequest(h)
  PROVE  Rest'
<1>1. /\ handler[h].at = "idle" /\ launched = None /\ launched' = "socket"
      /\ UNCHANGED <<caches, wantedLines, wantedFilters, unanswered>> /\ filters' = None
      /\ lines' = [f \in Files |-> {}] /\ bound'.kind = "socket"
  BY DEF AttachRequest, NewRuntime, Busy
<1>2. \A i \in Handlers : ~Loops(handler[i])
  BY <1>1 DEF Inv, Rest, Alone
<1>3. "launch" \notin unanswered
  BY <1>1 DEF Inv, Rest, Alone
<1>4. CASE filterCache = None
  <2> DEFINE r == [Idle EXCEPT !.call = "attach", !.at = "connecting"]
  <2>1. /\ handler' = Rebound([handler EXCEPT ![h] = r]) /\ bound'.wire = "connecting"
    BY <1>4 DEF AttachRequest, NewRuntime
  <2>2. /\ r \in HandlerRecord /\ r.at = "connecting" /\ r.call = "attach" /\ r.visited = 0
    BY IdleRecord DEF HandlerRecord, Slow, Calls, Idle
  <2> HIDE DEF r
  <2>3. Loops(r) /\ InPlace(r)
    BY <2>2 DEF Loops, Sets, InPlace, Before, After
  <2> QED
    BY <1>1, <1>2, <1>3, <1>4, <2>1, <2>2, <2>3, SessionAssumption, NewRuntimeKeeps
         DEF SessionAssumption, AllKinds
<1>5. CASE filterCache # None
  <2>1. handler' = Rebound(handler) /\ bound'.wire = "absent"
    BY <1>5 DEF AttachRequest, NewRuntime
  <2>2. handler' = Rebound([handler EXCEPT ![h] = handler[h]])
    BY <2>1 DEF Inv, TypeOK
  <2>3. \A i \in Handlers :
             \/ handler'[i] = handler[i]
             \/ /\ handler[i].at = "loading" /\ handler'[i].at = "outdated"
                /\ handler[i].call = "setBreakpoints"
                /\ handler'[i].call = "setBreakpoints"
                /\ handler'[i].file = handler[i].file
    <3>1. handler[h] \in HandlerRecord /\ handler[h].at # "loading"
      BY <1>1 DEF Inv, TypeOK
    <3>2. /\ handler'[h] = handler[h]
          /\ \A i \in Handlers : i # h =>
               \/ handler'[i] = handler[i]
               \/ /\ handler[i].at = "loading" /\ handler'[i].at = "outdated"
                  /\ handler[i].call = "setBreakpoints"
                  /\ handler'[i].call = "setBreakpoints"
                  /\ handler'[i].file = handler[i].file
      BY <1>2, <2>2, <3>1, ReboundHandlers DEF Inv, Rest
    <3> QED
      BY <3>2
  <2>4. Keys' = Keys
    BY <1>1 DEF Keys, caches
  <2>5. \A i \in Handlers : Sets(handler'[i]) => Sets(handler[i]) /\ handler'[i].file = handler[i].file
    BY <2>3 DEF Sets
  <2>6. \A i \in Handlers : ~Loops(handler'[i])
    BY <1>2, <2>3 DEF Loops
  <2>7. Places'
    <3>1. ASSUME NEW i \in Handlers PROVE InPlace(handler[i])'
      <4>1. InPlace(handler[i])
        BY DEF Inv, Rest, Places
      <4>2. CASE handler'[i] = handler[i]
        BY <1>1, <1>2, <2>4, <4>1, <4>2 DEF InPlace, caches, Loops, Sets
      <4>3. CASE handler'[i] # handler[i]
        <5>1. /\ handler'[i].at = "outdated" /\ handler'[i].call = "setBreakpoints"
              /\ handler'[i].file \in Keys'
          BY <2>3, <2>4, <4>1, <4>3 DEF InPlace
        <5> QED
          BY <5>1 DEF InPlace, Loops, Sets, Before, After
      <4> QED
        BY <4>2, <4>3
    <3> QED
      BY <3>1 DEF Places
  <2>8. Alone'
    <3>1. launched' # None
      BY <1>1, SessionAssumption DEF SessionAssumption, AllKinds
    <3>2. \A i, j \in Handlers :
            Sets(handler'[i]) /\ Sets(handler'[j]) /\ handler'[i].file = handler'[j].file => i = j
      BY <2>5 DEF Inv, Rest, Alone
    <3> QED
      BY <2>6, <3>1, <3>2 DEF Alone
  <2>9. Cached'
    BY <1>1, <2>4 DEF Cached, Inv, Rest, caches
  <2>10. Bound'
    <3>1. \A i \in Handlers : handler'[i].at # "connecting"
      BY <2>6, <2>7 DEF Places, InPlace, Loops
    <3> QED
      BY <1>1, <2>1, <3>1 DEF Bound
  <2>11. Settled'
    BY <2>1 DEF Settled, Serving
  <2> QED
    BY <2>7, <2>8, <2>9, <2>10, <2>11 DEF Rest
<1> QED
  BY <1>4, <1>5

\* A new set is not settled until its file has been read; the others are as before.
LEMMA SetKeeps ==
  ASSUME Waits, Inv, NEW h \in Handlers, NEW f \in Files, NEW set \in LineSets,
         SetBreakPointsRequest(h, f, set)
  PROVE  Rest'
<1> DEFINE r == [Idle EXCEPT !.call = "setBreakpoints", !.at = "reading",
                             !.file = f, !.todo = set]
<1>1. /\ handler[h].at = "idle" /\ handler' = [handler EXCEPT ![h] = r]
      /\ \A i \in Handlers : Sets(handler[i]) => handler[i].file # f
      /\ UNCHANGED <<bound, lines, filters, filterCache, launched, wantedFilters, unanswered>>
      /\ bpCache' = [bpCache EXCEPT ![f] = set] /\ wantedLines' = [wantedLines EXCEPT ![f] = set]
      /\ bpOrder' = IF f \in Keys THEN bpOrder ELSE Append(bpOrder, f)
  BY DEF SetBreakPointsRequest, Busy, Setting, runtime, Sets, Keys
<1>2. r \in HandlerRecord /\ r.call = "setBreakpoints" /\ r.at = "reading" /\ r.file = f
      /\ r.todo = set
  BY SessionAssumption DEF SessionAssumption, Idle, HandlerRecord, Slow, Calls
<1> HIDE DEF r
<1>3. handler'[h] = r /\ \A i \in Handlers : i # h => handler'[i] = handler[i]
  BY <1>1, OnlyHandler
<1>4. /\ Keys' = Keys \cup {f} /\ bpOrder' \in Seq(Files) /\ Len(bpOrder) \in Nat
      /\ Len(bpOrder') >= Len(bpOrder) /\ \A k \in 1 .. Len(bpOrder) : bpOrder'[k] = bpOrder[k]
  <2>1. bpOrder \in Seq(Files) /\ Len(bpOrder) \in Nat
    BY DEF Inv, TypeOK
  <2>2. CASE f \in Keys
    BY <1>1, <2>1, <2>2 DEF Keys
  <2>3. CASE f \notin Keys
    <3>1. bpOrder' = Append(bpOrder, f)
      BY <1>1, <2>3
    <3>2. /\ bpOrder' \in Seq(Files) /\ Len(bpOrder') = Len(bpOrder) + 1
          /\ bpOrder'[Len(bpOrder) + 1] = f
          /\ \A k \in 1 .. Len(bpOrder) : bpOrder'[k] = bpOrder[k]
      BY <2>1, <3>1
    <3>3. \A g : g \in Keys' <=> \E k \in 1 .. Len(bpOrder') : bpOrder'[k] = g
      BY <3>2 DEF Keys, ToSet
    <3>4. \A g : g \in Keys <=> \E k \in 1 .. Len(bpOrder) : bpOrder[k] = g
      BY KeysAre DEF Inv
    <3>5. \A g : g \in Keys' <=> g \in Keys \/ g = f
      BY <2>1, <3>2, <3>3, <3>4
    <3> QED
      BY <2>1, <3>2, <3>5
  <2> QED
    BY <2>2, <2>3
<1>5. Proxied' = Proxied /\ Serving' = Serving
  BY <1>1 DEF Proxied, Serving
<1>6. Places'
  <2>1. InPlace(r)'
    BY <1>1, <1>2, <1>4 DEF InPlace, Loops, Sets, Before, After, Inv, TypeOK
  <2>2. ASSUME NEW i \in Handlers, i # h PROVE InPlace(handler[i])'
    <3>1. InPlace(handler[i]) /\ handler[i] \in HandlerRecord
      BY DEF Inv, Rest, TypeOK, Places
    <3>2. handler[i].at = "reading" => bpCache'[handler[i].file] = bpCache[handler[i].file]
      BY <1>1, <3>1 DEF InPlace, Sets, HandlerRecord, Inv, TypeOK
    <3> QED
      BY <1>3, <1>4, <1>5, <2>2, <3>1, <3>2 DEF InPlace
  <2>3. ASSUME NEW i \in Handlers PROVE InPlace(handler[i])'
    BY <1>3, <2>1, <2>2
  <2> QED
    BY <2>3 DEF Places
<1>7. Alone'
  <2>1. ~Loops(r)
    BY <1>2 DEF Loops
  <2>2. \A i \in Handlers : Loops(handler'[i]) => Loops(handler[i]) /\ handler'[i] = handler[i]
    BY <1>3, <2>1
  <2>3. \A i, j \in Handlers :
          Sets(handler'[i]) /\ Sets(handler'[j]) /\ handler'[i].file = handler'[j].file => i = j
    BY <1>1, <1>2, <1>3 DEF Inv, Rest, Alone
  <2> QED
    BY <1>1, <2>2, <2>3 DEF Inv, Rest, Alone
<1>8. Cached'
  BY <1>1, <1>4 DEF Cached, Inv, Rest, TypeOK
<1>9. Bound'
  BY <1>1, <1>2, <1>3 DEF Bound, Inv, Rest
<1>10. Settled'
  <2> SUFFICES ASSUME Serving, NEW g \in Files,
                      \A i \in Handlers : ~Unread(handler[i], g)' /\ ~Ahead(handler[i], g)'
               PROVE  /\ \A l \in bpCache'[g] :
                           l \in lines[g] \/ \E i \in Handlers : Left(handler'[i], g, l)
                      /\ Proxied => lines[g] = bpCache'[g]
    BY <1>1, <1>5 DEF Settled, SettledFile
  <2>1. g # f
    BY <1>2, <1>3 DEF Unread
  <2>2. bpCache'[g] = bpCache[g]
    BY <1>1, <2>1 DEF Inv, TypeOK
  <2>3. ASSUME NEW i \in Handlers PROVE ~Unread(handler[i], g) /\ ~Ahead(handler[i], g)
    <3>1. CASE i = h
      BY <1>1, <3>1 DEF Unread, Ahead, Before, Loops
    <3>2. CASE i # h
      <4>1. handler'[i] = handler[i]
        BY <1>3, <3>2
      <4> QED
        BY <1>4, <4>1 DEF Unread, Ahead
    <3> QED
      BY <3>1, <3>2
  <2>4. \A i \in Handlers : \A l : Left(handler[i], g, l) => Left(handler'[i], g, l)
    BY <1>1, <1>3 DEF Left, Loops
  <2> QED
    BY <2>2, <2>3, <2>4 DEF Settled, SettledFile, Inv, Rest
<1> QED
  BY <1>6, <1>7, <1>8, <1>9, <1>10 DEF Rest

LEMMA FiltersKeep ==
  ASSUME Inv, NEW x \in Filters, SetExceptionBreakPointsRequest(x)
  PROVE  Rest'
<1>1. /\ UNCHANGED <<bound, lines, bpCache, bpOrder, handler, launched, wantedLines>>
      /\ filterCache' = x /\ wantedFilters' = x
      /\ bound.wire # "absent" => filters' = x
      /\ "launch" \in unanswered' <=> "launch" \in unanswered
  BY DEF SetExceptionBreakPointsRequest
<1>2. Keys' = Keys /\ Proxied' = Proxied /\ Serving' = Serving
  BY <1>1 DEF Keys, Proxied, Serving
<1>3. Places'
  BY <1>1, <1>2 DEF Inv, Rest, Places, InPlace, Loops, Sets
<1>4. Alone'
  BY <1>1 DEF Inv, Rest, Alone
<1>5. Cached'
  BY <1>1, <1>2 DEF Inv, Rest, Cached
<1>6. Bound'
  BY <1>1 DEF Inv, Rest, Bound
<1>7. \A f, q : Unread(q, f)' = Unread(q, f) /\ Ahead(q, f)' = Ahead(q, f)
  BY <1>1 DEF Unread, Ahead
<1>8. Settled'
  BY <1>1, <1>2, <1>7 DEF Inv, Rest, Settled, SettledFile
<1> QED
  BY <1>3, <1>4, <1>5, <1>6, <1>8 DEF Rest

LEMMA ConfiguredKeeps ==
  ASSUME Inv, ConfigurationDoneRequest
  PROVE  Rest'
<1>1. /\ UNCHANGED <<bound, filters, lines, caches, asked, unanswered>>
      /\ handler' = [i \in Handlers |-> IF handler[i].at = "configuring"
                       THEN [handler[i] EXCEPT !.at = "rebind"] ELSE handler[i]]
  BY DEF ConfigurationDoneRequest, runtime, asked
<1>2. CASE \A i \in Handlers : handler[i].at # "configuring"
  <2>1. handler' = handler
    BY <1>1, <1>2 DEF Inv, TypeOK
  <2>2. /\ UNCHANGED <<bpCache, bpOrder, filterCache, launched, wantedLines, wantedFilters>>
        /\ UNCHANGED <<bound, filters, lines, unanswered, handler>>
    BY <1>1, <2>1 DEF caches, asked
  <2>3. Keys' = Keys /\ Proxied' = Proxied /\ Serving' = Serving
    BY <2>2 DEF Keys, Proxied, Serving
  <2>4. Places' /\ Alone' /\ Cached' /\ Bound'
    BY <2>2, <2>3 DEF Inv, Rest, Places, InPlace, Loops, Sets, Alone, Cached, Bound
  <2>5. \A f, q : Unread(q, f)' = Unread(q, f) /\ Ahead(q, f)' = Ahead(q, f)
    BY <2>2 DEF Unread, Ahead
  <2>6. Settled'
    BY <2>2, <2>3, <2>5 DEF Inv, Rest, Settled, SettledFile
  <2> QED
    BY <2>4, <2>6 DEF Rest
<1>3. ASSUME NEW h \in Handlers, handler[h].at = "configuring"
      PROVE  Rest'
  <2>1. \A i \in Handlers : handler[i].at = "configuring" => i = h
    BY <1>3 DEF Inv, Rest, Places, InPlace, Alone, Loops
  <2>2. handler' = [handler EXCEPT ![h].at = "rebind"]
    BY <1>1, <1>3, <2>1 DEF Inv, TypeOK
  <2>3. "rebind" \in Stages /\ Go(h, "rebind") /\ Moves(h, "rebind")
    BY <1>3, <2>2 DEF Stages, Prompt, Go, Moves
  <2> QED
    BY <1>1, <2>3, PlainGo
<1> QED
  BY <1>2, <1>3

LEMMA LaunchKeeps ==
  ASSUME Inv, NEW h \in Handlers, NEW kind \in Kinds, LaunchRequest(h, kind)
  PROVE  Rest'
<1> DEFINE r == [Idle EXCEPT !.at = "configuring"]
<1>1. /\ handler[h].at = "idle" /\ handler' = [handler EXCEPT ![h] = r]
      /\ launched = None /\ launched' = kind /\ kind # "socket" /\ kind # None
      /\ UNCHANGED <<bound, filters, lines, unanswered>>
      /\ UNCHANGED <<bpCache, bpOrder, filterCache, wantedLines, wantedFilters>>
  BY SessionAssumption DEF LaunchRequest, Busy, runtime, caches, SessionAssumption
<1>2. /\ r \in HandlerRecord /\ r.at = "configuring" /\ r.call = "launch" /\ r.visited = 0
  BY IdleRecord DEF HandlerRecord, Slow, Idle
<1> HIDE DEF r
<1>3. /\ handler'[h] = r /\ \A i \in Handlers : i # h => handler'[i] = handler[i]
      /\ Keys' = Keys /\ Proxied' = Proxied
  BY <1>1, OnlyHandler DEF Keys, Proxied
<1>4. Places'
  <2>1. InPlace(r)'
    BY <1>2 DEF InPlace, Loops, Sets, Before, After
  <2>2. \A q : InPlace(q) => InPlace(q)'
    BY <1>1, <1>3 DEF InPlace
  <2> QED
    BY <1>3, <2>1, <2>2 DEF Places, Inv, Rest
<1>5. Alone'
  <2>1. \A i \in Handlers : i # h => ~Loops(handler'[i])
    BY <1>1, <1>3 DEF Inv, Rest, Alone
  <2>2. ~Sets(r)
    BY <1>2 DEF Sets
  <2>3. "launch" \notin unanswered'
    BY <1>1 DEF Inv, Rest, Alone
  <2>4. \A i, j \in Handlers :
          Sets(handler'[i]) /\ Sets(handler'[j]) /\ handler'[i].file = handler'[j].file => i = j
    BY <1>3, <2>2 DEF Inv, Rest, Alone
  <2> QED
    BY <1>1, <1>2, <1>3, <2>1, <2>3, <2>4 DEF Alone
<1>6. Cached'
  BY <1>1, <1>3 DEF Inv, Rest, Cached
<1>7. Bound'
  BY <1>1, <1>2, <1>3, SessionAssumption DEF Inv, Rest, Bound, SessionAssumption, AllKinds
<1>8. Settled'
  <2>1. \A f \in Files : Ahead(r, f)'
    BY <1>2 DEF Ahead, Before
  <2> QED
    BY <1>3, <2>1 DEF Settled, SettledFile
<1> QED
  BY <1>4, <1>5, <1>6, <1>7, <1>8 DEF Rest

-----------------------------------------------------------------------------
(* Theorems.                                                                *)

LEMMA InitInv == Init => Inv
<1> SUFFICES ASSUME Init PROVE Inv
  OBVIOUS
<1>1. TypeOK
  <2>1. handler \in [Handlers -> HandlerRecord]
    BY IdleRecord DEF Init
  <2>2. bound \in [kind : AllKinds, wire : Wires]
    BY DEF Init, AllKinds, Wires
  <2>3. bpOrder \in Seq(Files)
    BY DEF Init
  <2>4. [f \in Files |-> {}] \in [Files -> SUBSET Lines]
    OBVIOUS
  <2> QED
    BY <2>1, <2>2, <2>3, <2>4 DEF Init, TypeOK
<1>2. \A h \in Handlers : handler[h] = Idle
  BY DEF Init
<1>3. Places
  BY <1>2, IdleRecord DEF Places
<1>4. Alone
  BY <1>2, IdleRecord DEF Init, Alone, Loops, Sets
<1>5. Cached /\ Bound
  BY <1>2, IdleRecord, SessionAssumption DEF Init, Cached, Bound, SessionAssumption, AllKinds
<1>6. Settled
  BY DEF Init, Settled, SettledFile
<1> QED
  BY <1>1, <1>3, <1>4, <1>5, <1>6 DEF Inv, Rest

LEMMA NextInv ==
  ASSUME Waits PROVE Inv /\ [Next]_vars => Inv'
<1> SUFFICES ASSUME Inv, [Next]_vars PROVE Inv'
  OBVIOUS
<1>1. ASSUME NEW h \in Handlers, Step(h) PROVE Inv'
  <2>1. TypeOK'
    BY <1>1, StepType
  <2>2. Rest'
    BY <1>1, MoveKeeps, ReadDoneKeeps, PushKeeps, VisitKeeps, RebindKeeps DEF Step
  <2> QED
    BY <2>1, <2>2 DEF Inv
<1>2. CASE Request
  <2>1. TypeOK'
    BY <1>2, RequestType DEF Inv
  <2>2. Rest'
    BY <1>2, SetKeeps, FiltersKeep, LaunchKeeps, AttachKeeps, ConfiguredKeeps DEF Request
  <2> QED
    BY <2>1, <2>2 DEF Inv
<1>3. CASE UNCHANGED vars
  <2>1. /\ UNCHANGED <<bound, named, text, lines, filters, bpCache, bpOrder, filterCache, handler>>
        /\ UNCHANGED <<started, unanswered, launched, wantedLines, wantedFilters, requests>>
    BY <1>3 DEF vars, runtime, caches, client
  <2>2. TypeOK'
    BY <2>1 DEF Inv, TypeOK
  <2>3. Keys' = Keys /\ Proxied' = Proxied /\ Serving' = Serving
    BY <2>1 DEF Keys, Proxied, Serving
  <2>4. Places' /\ Alone' /\ Cached' /\ Bound'
    BY <2>1, <2>3 DEF Inv, Rest, Places, InPlace, Loops, Sets, Alone, Cached, Bound
  <2>5. \A f, q : Unread(q, f)' = Unread(q, f) /\ Ahead(q, f)' = Ahead(q, f)
    BY <2>1 DEF Unread, Ahead
  <2>6. Settled'
    BY <2>1, <2>3, <2>5 DEF Inv, Rest, Settled, SettledFile
  <2> QED
    BY <2>2, <2>4, <2>6 DEF Inv, Rest
<1> QED
  BY <1>1, <1>2, <1>3 DEF Next

\* The inductive invariant of the session: mockDebug.ts's handlers, caches and runtime,
\* under a client that waits for one set of a file before it sends the next.
THEOREM Invariant ==
  ASSUME Waits PROVE Spec => []Inv
BY InitInv, NextInv, PTL DEF Spec

\* Every reachable state of the session is well typed.
THEOREM TypeCorrect ==
  ASSUME Waits PROVE Spec => []TypeOK
<1>1. Inv => TypeOK
  BY DEF Inv
<1> QED
  BY <1>1, Invariant, PTL

\* However launch, attach and the client's changes overlap, once no request is under
\* way the runtime has every breakpoint the client set last (mockDebug.ts:83).
THEOREM BreakpointsArrive ==
  ASSUME Waits PROVE Spec => []BreakpointsReach
<1>1. Inv => BreakpointsReach
  <2> SUFFICES ASSUME Inv, bound.wire = "up", "launch" \notin unanswered,
                      \A h \in Handlers : ~Busy(h), NEW f \in Files
               PROVE  Has(f)
    BY DEF BreakpointsReach
  <2>1. \A h \in Handlers : handler[h].at = "idle"
    BY DEF Busy
  <2>2. \A h \in Handlers : ~Unread(handler[h], f) /\ ~Ahead(handler[h], f)
    BY <2>1 DEF Unread, Ahead, Before, Loops
  <2>3. \A h \in Handlers : \A l : ~Left(handler[h], f, l)
    BY <2>1 DEF Left, Loops
  <2>4. bpCache[f] \subseteq lines[f] /\ (Proxied => lines[f] = bpCache[f])
    BY <2>2, <2>3 DEF Inv, Rest, Settled, SettledFile, Serving
  <2> QED
    BY <2>4 DEF Has, Inv, Rest, Cached
<1> QED
  BY <1>1, Invariant, PTL

\* The runtime works with the filters the client set last, across every rebinding
\* (mockDebug.ts:80).
THEOREM FiltersArrive ==
  ASSUME Waits PROVE Spec => []FiltersReach
<1>1. Inv => FiltersReach
  BY DEF Inv, Rest, Bound, Cached, FiltersReach
<1> QED
  BY <1>1, Invariant, PTL

\* A launch that starts the program has nothing left to apply: only a set that is
\* still under way can be missing.
LEMMA StartReady ==
  ASSUME Inv, NEW h \in Handlers, handler[h].at \in {"run", "starting"}
  PROVE  /\ \A f \in Files : Setting(f) \/ Has(f)
         /\ wantedFilters # None => filters = wantedFilters
<1>1. handler[h].call = "launch" /\ Loops(handler[h])
  BY DEF Inv, Rest, Places, InPlace, After, Loops
<1>2. bound.wire = "up" /\ "launch" \notin unanswered
  BY <1>1 DEF Inv, Rest, Alone, Bound
<1>3. ASSUME NEW i \in Handlers, Loops(handler[i]) PROVE handler[i] = handler[h]
  BY <1>1, <1>3 DEF Inv, Rest, Alone
<1>4. ASSUME NEW f \in Files, ~Setting(f) PROVE Has(f)
  <2>1. ASSUME NEW i \in Handlers PROVE ~Unread(handler[i], f)
    BY <1>4 DEF Setting, Busy, Unread, Inv, Rest, Places, InPlace
  <2>2. ASSUME NEW i \in Handlers PROVE ~Ahead(handler[i], f)
    <3>1. Ahead(handler[i], f) => Loops(handler[i])
      BY DEF Ahead, Before, Loops, Inv, Rest, Places, InPlace, After
    <3> QED
      BY <3>1, <1>3 DEF Ahead, Before, During
  <2>3. ASSUME NEW i \in Handlers, NEW l PROVE ~Left(handler[i], f, l)
    BY <1>3 DEF Left
  <2>4. (\A l \in bpCache[f] : l \in lines[f]) /\ (Proxied => lines[f] = bpCache[f])
    BY <1>2, <2>1, <2>2, <2>3 DEF Inv, Rest, Settled, SettledFile, Serving
  <2> QED
    BY <2>4 DEF Has, Inv, Rest, Cached
<1>5. wantedFilters # None => filters = wantedFilters
  BY <1>2 DEF Inv, Rest, Bound, Cached
<1> QED
  BY <1>4, <1>5

\* No launch starts its program before the breakpoints of every answered request and
\* the filters are in place (mockDebug.ts:352 and 357).
THEOREM StartsConfigured ==
  ASSUME Waits PROVE Spec => StartedConfigured
<1>1. ASSUME Inv, [Next]_vars, started' # started
      PROVE  /\ \A f \in Files : Setting(f) \/ Has(f)
             /\ wantedFilters # None => filters = wantedFilters
  <2>1. Next
    BY <1>1 DEF vars
  <2>2. ~Request
    BY <1>1 DEF Request, SetBreakPointsRequest, SetExceptionBreakPointsRequest, LaunchRequest,
                AttachRequest, ConfigurationDoneRequest, caches
  <2>3. PICK h \in Handlers : Step(h)
    BY <2>1, <2>2 DEF Next
  <2>4. Run(h) \/ SendLaunch(h)
    BY <1>1, <2>3 DEF Step, ReadDone, Loaded, Unreadable, Sent, Timeout, Rebind, Visit, Pushed,
                      Push, Begin, Opened, Launched, Connected, Unreachable, Attached
  <2>5. handler[h].at \in {"run", "starting"}
    BY <2>4 DEF Run, SendLaunch, Turn
  <2> QED
    BY <1>1, <2>5, StartReady
<1>2. Inv /\ [Next]_vars =>
        [started' # started =>
           /\ \A f \in Files : Setting(f) \/ Has(f)
           /\ wantedFilters # None => filters = wantedFilters]_vars
  BY <1>1
<1> QED
  BY <1>2, Invariant, PTL DEF Spec, StartedConfigured
=============================================================================
