----------------------------- MODULE FalseSharing -----------------------------
(***************************************************************************)
(* The experiment of test/falsesharing.c: a run without threads, and three *)
(* runs of two threads that add one to a counter Length times, without a   *)
(* lock.  In the first of them the counter is the same for both; in the    *)
(* others each has its own, in one cache line or in two.  "*ptr += 1" is a *)
(* load and a store, and the other thread may run between them.            *)
(*                                                                         *)
(* A definition called "faulty" is a slip the code might have had; nothing *)
(* uses it but the tests of the properties.                                *)
(***************************************************************************)
EXTENDS Integers

CONSTANT Length         \* LENGTH

VARIABLES
    run,                \* what main is at
    counter,            \* the counters
    count,              \* i of each thread
    loaded,             \* what a thread has loaded and not stored, or NotLoaded
    result              \* what main has printed of a run, or NotPrinted

vars == <<run, counter, count, loaded, result>>

Thread == {1, 2}
Run == {"single", "true", "false", "no"}
Cell == {"sum", "sum1", "sum2", "page2", "page3", "sum4"}
NotLoaded == -1
NotPrinted == -1

\* Faulty: the second thread gets the counter of the first.
OneCell(t) == CASE run = "true" -> "sum" [] run = "false" -> "sum1" [] OTHER -> "page2"

\* cache_write_ptr of the parameters of a thread
Ptr(t) ==
    CASE run = "true"  -> "sum"
      [] run = "false" -> IF t = 1 THEN "sum1" ELSE "sum2"
      [] OTHER         -> IF t = 1 THEN "page2" ELSE "page3"

\* main calls single_run, true_sharing_run, false_sharing_run, no_sharing_run
NextRun == [single |-> "true", true |-> "false", false |-> "no", no |-> "end"]

Init ==
    /\ run = "single"
    /\ counter = [c \in Cell |-> 0]
    /\ count = [t \in Thread |-> 0]
    /\ loaded = [t \in Thread |-> NotLoaded]
    /\ result = [r \in Run |-> NotPrinted]

\* main prints and goes on; the threads of the next run begin
Prints(value) ==
    /\ result' = [result EXCEPT ![run] = value]
    /\ run' = NextRun[run]
    /\ count' = [t \in Thread |-> 0]

SingleRun ==
    /\ run = "single"
    /\ counter' = [counter EXCEPT !["sum4"] = @ + 2 * Length]
    /\ Prints(counter'["sum4"])
    /\ UNCHANGED loaded

Threaded == run \in {"true", "false", "no"}

Load(t) ==
    /\ Threaded
    /\ count[t] < Length /\ loaded[t] = NotLoaded
    /\ loaded' = [loaded EXCEPT ![t] = counter[Ptr(t)]]
    /\ UNCHANGED <<run, counter, count, result>>

Store(t) ==
    /\ Threaded
    /\ loaded[t] # NotLoaded
    /\ counter' = [counter EXCEPT ![Ptr(t)] = loaded[t] + 1]
    /\ count' = [count EXCEPT ![t] = @ + 1]
    /\ loaded' = [loaded EXCEPT ![t] = NotLoaded]
    /\ UNCHANGED <<run, result>>

\* pthread_join of both threads
Join ==
    /\ Threaded
    /\ \A t \in Thread : count[t] = Length
    /\ Prints(IF Ptr(1) = Ptr(2) THEN counter[Ptr(1)] ELSE counter[Ptr(1)] + counter[Ptr(2)])
    /\ UNCHANGED <<counter, loaded>>

Work(t) == Load(t) \/ Store(t)

Next == SingleRun \/ Join \/ \E t \in Thread : Work(t)

\* the scheduler of the host runs every thread
Spec == Init /\ [][Next]_vars /\ WF_vars(SingleRun \/ Join) /\ \A t \in Thread : WF_vars(Work(t))

-----------------------------------------------------------------------------
\* What main prints: without sharing a counter every addition counts, whether
\* the counters share a cache line or not; with one counter (falsesharing.c:54,
\* "write - not thread safe") additions get lost, but never all but one: the
\* last store of the run follows a load that saw an earlier store.
CountersExact ==
    /\ \A r \in {"single", "false", "no"} : result[r] \in {NotPrinted, 2 * Length}
    /\ result["true"] = NotPrinted \/ (2 <= result["true"] /\ result["true"] <= 2 * Length)

\* Every run ends: the threads do not wait for each other, and main is joined.
MainEnds == <>(run = "end")
=============================================================================
