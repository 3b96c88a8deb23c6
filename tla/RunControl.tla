----------------------------- MODULE RunControl -----------------------------
(***************************************************************************)
(* What a runtime promises a debugger about control (PROTOCOL.md, Core      *)
(* Commands).  A command may be answered at once by a notice that the       *)
(* program stopped, or set the program running; a run raises no notice      *)
(* before its end, and exactly one there.  A launch waits for its source    *)
(* first, and may fail.  Notices leave in the order they were raised,       *)
(* between any number of messages that carry information only.              *)
(***************************************************************************)
EXTENDS Integers, Sequences

VARIABLES launching,  \* launches accepted and not yet begun
          running,    \* the program is running
          queue       \* messages raised and not yet delivered

vars == <<launching, running, queue>>

Notices  == {"stopped", "ended"}
Messages == Notices \cup {"info"}

TypeOK == launching \in Nat /\ running \in BOOLEAN /\ queue \in Seq(Messages)

Init == launching = 0 /\ running = FALSE /\ queue = <<>>

\* queue grew at its end, and nothing that was in it moved.
Grew == /\ Len(queue') >= Len(queue)
        /\ \A i \in 1 .. Len(queue) : queue'[i] = queue[i]
Added == Len(queue) + 1 .. Len(queue')

OnlyInfo  == Grew /\ \A i \in Added : queue'[i] = "info"
OneNotice == /\ Grew
             /\ \E i \in Added : /\ queue'[i] \in Notices
                                /\ \A j \in Added \ {i} : queue'[j] = "info"

LaunchTaken == launching > 0 /\ launching' = launching - 1

Launch     == launching' = launching + 1 /\ UNCHANGED <<running, queue>>
LaunchFail == LaunchTaken /\ UNCHANGED <<running, queue>>

\* A continue or a step begins at once, a launch when its source is loaded.
Begin == /\ ~running /\ running' = TRUE
         /\ LaunchTaken \/ UNCHANGED launching
         /\ UNCHANGED queue
Report == running /\ running' = FALSE /\ OneNotice /\ UNCHANGED launching

\* A pause, a step inside the line, or the stop on entry of a launch.
StopAtOnce == /\ ~running /\ OneNotice
              /\ LaunchTaken \/ UNCHANGED launching
              /\ UNCHANGED running

Inform  == OnlyInfo /\ UNCHANGED <<launching, running>>
Deliver == /\ queue # <<>> /\ queue' = Tail(queue)
           /\ UNCHANGED <<launching, running>>

Next == Launch \/ LaunchFail \/ Begin \/ Report \/ StopAtOnce \/ Inform \/ Deliver

Spec == Init /\ [][Next]_vars
=============================================================================
