----------------------------- MODULE Scheduler -----------------------------
(***************************************************************************)
(* The circular list of process control blocks, the choice of the process  *)
(* to run, and the timer (process/schedule.c, process/fork.c, cpu/isa.c,   *)
(* cpu/interrupt.c).                                                       *)
(*                                                                         *)
(* Every step is one pass of instruction_cycle, from the setjmp on.  Each  *)
(* interrupt (timer, page fault, system call) ends in os_schedule, so the  *)
(* process changes with it.  A system call or page fault leaves the cycle  *)
(* by longjmp and skips the test of the timer.  Nothing takes a process    *)
(* out of the list: exit and kill are stubs.                               *)
(*                                                                         *)
(* A definition called "faulty" is a slip the code might have had; nothing *)
(* uses it but the tests of the properties.                                *)
(***************************************************************************)
EXTENDS Integers, FiniteSetsExt

CONSTANTS
    Proc,        \* the process control blocks fork may ever allocate
    FirstProc,   \* the process the loader builds
    Period,      \* timer_period
    NULL         \* the link of a block not yet allocated

\* Kernel assumes this.
ListAssumption ==
    /\ FirstProc \in Proc
    /\ IsFiniteSet(Proc)
    /\ NULL \notin Proc
    /\ Period \in Nat \ {0}

VARIABLES
    procs,       \* the blocks in the list
    next,        \* pcb_t.next
    prev,        \* pcb_t.prev
    pid,         \* pcb_t.pid, 0 for a block not yet allocated
    cur,         \* get_current_pcb: the process whose kernel stack the TSS has
    ticks        \* global_time % timer_period

vars == <<procs, next, prev, pid, cur, ticks>>

-----------------------------------------------------------------------------

\* The blocks whose pid get_newpid looks at.  Its loop stops at the block
\* that links back to the current one, before it reads that block's pid.
Counted == {cur} \cup {q \in procs : next[q] # cur}

NewPid == Max({pid[q] : q \in Counted}) + 1

\* Faulty: the period is one too long.
TickLate == ticks' = (ticks + 1) % (Period + 1)

\* One more pass of instruction_cycle
Tick == ticks' = (ticks + 1) % Period

\* Faulty: the timer is never tested.
RunUninterrupted ==
    /\ Tick
    /\ UNCHANGED <<procs, next, prev, pid, cur>>

\* An instruction that runs to its end; the timer may then interrupt.
Run ==
    /\ Tick
    /\ cur' = IF ticks' = 0 THEN next[cur] ELSE cur
    /\ UNCHANGED <<procs, next, prev, pid>>

\* Faulty: the list is followed backwards.
TrapToPrev ==
    /\ Tick
    /\ cur' = prev[cur]
    /\ UNCHANGED <<procs, next, prev, pid>>

\* A page fault, or a system call other than fork
Trap ==
    /\ Tick
    /\ cur' = next[cur]
    /\ UNCHANGED <<procs, next, prev, pid>>

\* Faulty: the child links back to its parent as if there were no others.
ForkDropsOthers(c) ==
    /\ c \in Proc \ procs
    /\ procs' = procs \cup {c}
    /\ pid' = [pid EXCEPT ![c] = NewPid]
    /\ next' = [next EXCEPT ![c] = cur, ![cur] = c]
    /\ prev' = [prev EXCEPT ![c] = cur,
                            ![cur] = IF prev[cur] = cur THEN c ELSE @]
    /\ cur' = c
    /\ Tick

\* Faulty: the case of a list with one block only is forgotten.
ForkKeepsPrev(c) ==
    /\ c \in Proc \ procs
    /\ procs' = procs \cup {c}
    /\ pid' = [pid EXCEPT ![c] = NewPid]
    /\ next' = [next EXCEPT ![c] = next[cur], ![cur] = c]
    /\ prev' = [prev EXCEPT ![c] = cur]
    /\ cur' = c
    /\ Tick

\* The system call fork: copy_pcb puts the child c after its parent, and
\* syscall_handler schedules next[cur], which is the child now.
Fork(c) ==
    /\ c \in Proc \ procs
    /\ procs' = procs \cup {c}
    /\ pid' = [pid EXCEPT ![c] = NewPid]
    /\ next' = [next EXCEPT ![c] = next[cur], ![cur] = c]
    /\ prev' = [prev EXCEPT ![c] = cur,
                            ![cur] = IF prev[cur] = cur THEN c ELSE @]
    /\ cur' = c
    /\ Tick

Init ==
    /\ procs = {FirstProc}
    /\ next = [p \in Proc |-> IF p = FirstProc THEN FirstProc ELSE NULL]
    /\ prev = next
    /\ pid = [p \in Proc |-> IF p = FirstProc THEN 1 ELSE 0]
    /\ cur = FirstProc
    /\ ticks = 0

Next == Run \/ Trap \/ \E c \in Proc : Fork(c)

\* The emulator's main loop calls instruction_cycle again and again.
Spec == Init /\ [][Next]_vars /\ WF_vars(Next)

-----------------------------------------------------------------------------
(* Properties.                                                             *)

\* The types of the variables
TypeOK ==
    /\ procs \subseteq Proc
    /\ cur \in procs
    /\ next \in [Proc -> Proc \cup {NULL}]
    /\ prev \in [Proc -> Proc \cup {NULL}]
    /\ \A p \in Proc : (next[p] = NULL <=> p \notin procs) /\ (prev[p] = NULL <=> p \notin procs)
    /\ pid \in [Proc -> 0 .. Cardinality(Proc)]
    /\ ticks \in 0 .. Period - 1

\* The next links form one ring: whoever follows them visits every process.
\* A fork in the middle of the ring neither drops a process nor splits it.
OneRing ==
    /\ \A p \in procs : next[p] \in procs
    /\ \A S \in SUBSET procs :
          S # {} /\ (\A q \in S : next[q] \in S) => S = procs

\* The assertion of copy_pcb: the branch that treats the parent as the only
\* block of the list is taken only if it is.
LonelyIsAlone == \A p \in procs : prev[p] = p => next[p] = p

\* What scheduling and forking need of the links, although prev is stale after
\* the second fork of a process (fork.c:295): whoever follows next meets every
\* process, and prev still tells a lonely block from the others.
LinksSound == OneRing /\ LonelyIsAlone

\* fork.c:49, "find the max pid of current processes": a new pid exceeds all.
PidIsMax == [][\A c \in Proc : Fork(c) => \A q \in procs : pid'[c] > pid[q]]_vars

\* Every process that exists is scheduled again and again: neither a process
\* that never traps nor one that forks can keep the processor.
EveryoneRuns == \A p \in Proc : p \in procs ~> cur = p

\* The order of turns, read off the links
Turns ==
    LET walk[i \in 1 .. Cardinality(procs)] == IF i = 1 THEN cur ELSE next[walk[i - 1]]
    IN  walk

Queue == INSTANCE RoundRobin WITH queue <- Turns

\* The links and the timer implement a fair round-robin queue.
ImplementsRoundRobin == Queue!Spec
=============================================================================
