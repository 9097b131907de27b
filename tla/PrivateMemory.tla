--------------------------- MODULE PrivateMemory ---------------------------
(***************************************************************************)
(* What the process abstraction promises a program (process.h, fork.c):    *)
(* every process has a memory of its own.  A write is seen by the writer   *)
(* only, and a fork gives the child the contents the parent has at that    *)
(* moment.  Nothing here knows of frames, page tables or copy on write.    *)
(***************************************************************************)
CONSTANTS
    Proc,        \* the processes that may ever exist
    FirstProc,   \* the process the loader starts
    Area,        \* the virtual pages the areas of a process cover
    Writable,    \* the pages of the areas whose mode allows a write
    Value,       \* the contents of a page
    NoValue      \* the contents of a page of a process not yet created

VARIABLES
    procs,       \* the processes created so far
    mem          \* mem[p][v]: what process p reads in its page v

vars == <<procs, mem>>

Init ==
    /\ procs = {FirstProc}
    /\ \E image \in [Area -> Value] :
          mem = [p \in Proc |-> IF p = FirstProc THEN image
                                ELSE [v \in Area |-> NoValue]]

Write(p, v, val) ==
    /\ p \in procs
    /\ v \in Writable
    /\ mem' = [mem EXCEPT ![p][v] = val]
    /\ UNCHANGED procs

Fork(p, c) ==
    /\ p \in procs
    /\ c \in Proc \ procs
    /\ procs' = procs \cup {c}
    /\ mem' = [mem EXCEPT ![c] = mem[p]]

Next ==
    \/ \E p \in Proc, v \in Writable, val \in Value : Write(p, v, val)
    \/ \E p \in Proc, c \in Proc : Fork(p, c)

Spec == Init /\ [][Next]_vars
=============================================================================
