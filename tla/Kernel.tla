------------------------------- MODULE Kernel -------------------------------
(***************************************************************************)
(* The emulated machine: the scheduler runs one process at a time on the   *)
(* virtual memory of CopyOnWrite (cpu/isa.c, cpu/mmu.c, cpu/interrupt.c).  *)
(*                                                                         *)
(* A store to a readonly page faults before physical memory is touched.    *)
(* The trap frame holds the address of the store itself, so the process    *)
(* restarts it when it is scheduled again; other processes run in between. *)
(***************************************************************************)
EXTENDS Integers

CONSTANTS
    Proc, FirstProc, NPage, NArea, Writable, NFrame, MaxMap, Value, Period, NULL

VARIABLES
    procs, pte, pageMap, pm, halt,          \* see CopyOnWrite
    next, prev, pid, cur, ticks,            \* see Scheduler; procs is shared
    restart      \* the store a process has in its trap frame, or NULL

VM    == INSTANCE CopyOnWrite
Sched == INSTANCE Scheduler

ASSUME KernelAssumption == VM!SizeAssumption /\ Sched!ListAssumption

vars == <<VM!vars, Sched!vars, restart>>

Store == VM!Page \X Value

\* Faulty: the trap frame loses the address of the store.  (Nothing uses
\* this but the tests of the properties.)
MayStoreAny(s) == TRUE

\* The running process may execute the store s: it is the one it has to
\* restart, or any if it is between two instructions.
MayStore(s) == restart[cur] \in {NULL, s}

\* mov to a page the process can write
StoreDone(v, val) ==
    /\ MayStore(<<v, val>>)
    /\ VM!Write(cur, v, val)
    /\ restart' = [restart EXCEPT ![cur] = NULL]
    /\ Sched!Run

\* mov to a shared page: page fault, copy on write, schedule
StoreFaults(v, val) ==
    /\ MayStore(<<v, val>>)
    /\ VM!Cow(cur, v)
    /\ restart' = [restart EXCEPT ![cur] = <<v, val>>]
    /\ Sched!Trap

\* Any instruction that neither stores nor traps
Compute ==
    /\ halt = "none"
    /\ restart[cur] = NULL
    /\ Sched!Run
    /\ UNCHANGED <<pte, pageMap, pm, halt, restart>>

\* int $0x80 with write or one of the calls that are stubs
Syscall ==
    /\ halt = "none"
    /\ restart[cur] = NULL
    /\ Sched!Trap
    /\ UNCHANGED <<pte, pageMap, pm, halt, restart>>

\* int $0x80 with fork.  rip was increased before the trap frame was pushed,
\* so neither parent nor child restarts the call.
Fork(c) ==
    /\ restart[cur] = NULL
    /\ VM!ForkPages(cur, c)
    /\ restart' = [restart EXCEPT ![c] = NULL]
    /\ Sched!Fork(c)

\* An assertion of the page fault handler or of fork fails.
Abort ==
    /\ \/ \E v \in VM!Page, val \in Value :
             MayStore(<<v, val>>) /\ (VM!CowAborts(cur, v) \/ VM!SegmentationFault(cur, v))
       \/ \E c \in Proc : restart[cur] = NULL /\ VM!ForkAborts(cur, c)
    /\ UNCHANGED <<next, prev, pid, cur, ticks, restart>>

Init ==
    /\ VM!Init
    /\ Sched!Init
    /\ restart = [p \in Proc |-> NULL]

Next ==
    \/ \E v \in VM!Page, val \in Value : StoreDone(v, val)
    \/ \E v \in VM!Page, val \in Value : StoreFaults(v, val)
    \/ Compute
    \/ Syscall
    \/ \E c \in Proc : Fork(c)
    \/ Abort

\* The emulator's main loop calls instruction_cycle again and again.
Spec == Init /\ [][Next]_vars /\ WF_vars(Next)

-----------------------------------------------------------------------------
(* Properties.                                                             *)

\* interrupt.h:112, "this instruction would be rescheduled".  The store
\* then finds its page writable, whatever the other processes forked and
\* copied in between: a store faults at most once.
FaultFixed ==
    \A p \in procs : restart[p] # NULL =>
        LET w == pte[<<p, restart[p][1]>>] IN w.present /\ ~w.readonly

\* No fault loses a store or performs it twice: the instruction a process
\* executes after a fault is that store, and the page then has its value.  No
\* fault, system call or fork changes what a process reads that exists; only a
\* store does, and only for the process running.
RestartedStoreDone ==
    [][/\ \A p \in Proc :
             restart[p] # NULL /\ restart'[p] # restart[p] =>
                 LET v == restart[p][1]
                 IN  /\ p = cur /\ restart'[p] = NULL
                     /\ VM!MemView' = [VM!MemView EXCEPT ![p][v] = restart[p][2]]
       /\ \A p \in procs : VM!MemView'[p] # VM!MemView[p] => p = cur]_vars

\* Faults, forks and aborts leave all processes in one ring of next links, and
\* prev, although stale, still tells a lonely block from the others.
LinksSound == Sched!LinksSound

\* With slots and frames for everybody nothing but the program's own faults
\* ends the emulator.
NoResourceFailure == VM!NoResourceFailure

\* A store that faulted is carried out: the fault handler gives the
\* processor away, and the scheduler gives it back.
StoreCompletes ==
    \A p \in Proc : restart[p] # NULL ~> restart[p] = NULL \/ halt # "none"
=============================================================================
