----------------------------- MODULE RoundRobin -----------------------------
(***************************************************************************)
(* What the scheduler promises (schedule.c, fork.c): the processes take    *)
(* turns in a fixed circular order, a child joins the circle right after   *)
(* its parent, and no process keeps the processor forever.                 *)
(***************************************************************************)
EXTENDS Integers, Sequences

CONSTANTS
    Proc,        \* the processes that may ever exist
    FirstProc    \* the process the loader starts

VARIABLE
    queue        \* the running process, then the others in order of turn

Queued == {queue[i] : i \in 1 .. Len(queue)}

Init == queue = <<FirstProc>>

\* The running process goes to the end.
Rotate == queue' = Append(Tail(queue), Head(queue))

\* The child takes the processor, and the parent goes to the end.
Fork(c) ==
    /\ c \in Proc \ Queued
    /\ queue' = <<c>> \o Append(Tail(queue), Head(queue))

Next == Rotate \/ \E c \in Proc : Fork(c)

Spec == Init /\ [][Next]_queue /\ WF_queue(Rotate)
=============================================================================
