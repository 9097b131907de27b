-------------------------- MODULE PrivateRegisters --------------------------
(***************************************************************************)
(* What interrupts promise a program (interrupt.h, fork.c): every process  *)
(* has registers of its own.  Only its own instructions change them, with  *)
(* one exception: a fork returns twice, the child's number to the parent   *)
(* and zero to the child, which otherwise starts as a copy of its parent.  *)
(* Nothing here knows of kernel stacks, frames or the task state segment.  *)
(***************************************************************************)
CONSTANTS
    Proc,        \* the processes that may ever exist
    FirstProc,   \* the process the loader starts
    Zero         \* what fork returns to the child

VARIABLES
    procs,       \* the processes created so far
    running,     \* the one whose instructions are executed
    regs         \* regs[p]: the registers as process p sees them

vars == <<procs, running, regs>>

\* An instruction of the running process
Execute ==
    /\ \A p \in Proc \ {running} : regs'[p] = regs[p]
    /\ UNCHANGED <<procs, running>>

\* Another process, or the same again, gets the processor.
Switch ==
    /\ running' \in procs
    /\ UNCHANGED <<procs, regs>>

\* A process stands for its number.
Fork(c) ==
    /\ c \in Proc \ procs
    /\ procs' = procs \cup {c}
    /\ regs' = [regs EXCEPT ![running].rax = c,
                            ![c] = [regs[running] EXCEPT !.rax = Zero]]
    /\ UNCHANGED running

Init ==
    /\ procs = {FirstProc}
    /\ running = FirstProc

Next == Execute \/ Switch \/ \E c \in Proc : Fork(c)

Spec == Init /\ [][Next]_vars
=============================================================================
