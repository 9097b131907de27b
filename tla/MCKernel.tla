------------------------------ MODULE MCKernel ------------------------------
(* Small instances of Kernel, Scheduler and Mesi.  They run beside each     *)
(* other and share nothing: every behaviour is one of a single part, while  *)
(* the others stay as they start.                                           *)
EXTENDS Kernel, Mesi, TLC

CONSTANTS RingProc, RingPeriod    \* Scheduler without the memory of Kernel

VARIABLES
    part,        \* the part that runs
    ringProcs, ringNext, ringPrev, ringPid, ringCur, ringTicks

Ring == INSTANCE Scheduler WITH Proc <- RingProc, Period <- RingPeriod, procs <- ringProcs,
                                next <- ringNext, prev <- ringPrev, pid <- ringPid,
                                cur <- ringCur, ticks <- ringTicks

kernelVars == <<procs, pte, pageMap, pm, halt, next, prev, pid, cur, ticks, restart>>
ringVars   == <<ringProcs, ringNext, ringPrev, ringPid, ringCur, ringTicks>>

ASSUME RingAssumption == Ring!ListAssumption

\* The memory of an idle Kernel need not have all its contents.
PartsInit ==
    /\ part \in {"kernel", "ring", "cores"}
    /\ Init /\ Ring!Init /\ MesiInit
    /\ part # "kernel" => pm = [f \in VM!Frame |-> CHOOSE val \in Value : TRUE]

KernelStep == part = "kernel" /\ Next /\ UNCHANGED <<part, ringVars, mesiVars>>
RingStep   == part = "ring" /\ Ring!Next /\ UNCHANGED <<part, kernelVars, mesiVars>>
CoresStep  == part = "cores" /\ MesiNext /\ UNCHANGED <<part, kernelVars, ringVars>>

\* Kernel and Scheduler are fair.
PartsSpec ==
    /\ PartsInit
    /\ [][KernelStep \/ RingStep \/ CoresStep]_<<part, kernelVars, ringVars, mesiVars>>
    /\ WF_kernelVars(KernelStep) /\ WF_ringVars(RingStep)

\* Scheduler: every process is scheduled again and again.
EveryoneRuns == part = "ring" => Ring!EveryoneRuns

\* Scheduler: the links and the timer implement a round-robin queue.
ImplementsRoundRobin == Ring!ImplementsRoundRobin
=============================================================================
