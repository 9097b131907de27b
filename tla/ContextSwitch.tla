--------------------------- MODULE ContextSwitch ---------------------------
(***************************************************************************)
(* An interrupt, from the instruction of one process to the next process:  *)
(* trap frame and user frame on the kernel stack, the context in the       *)
(* process control block, the task state segment and cr3 (cpu/interrupt.c, *)
(* process/schedule.c, process/fork.c, process/syscall.c).                 *)
(*                                                                         *)
(* Every function that moves the stack pointer is a step, for each of them *)
(* asserts where the stack pointer stands.  A kernel stack pointer is      *)
(* <<process, frames pushed>>; the memory below it is dead, and NoFrame is *)
(* what stands there.  A register has a value from a small set: rax apart, *)
(* since fork returns in it; the other general registers are one value,    *)
(* rest.  The flags are saved and restored together with them.             *)
(*                                                                         *)
(* A definition called "faulty" is a slip the code might have had; nothing *)
(* uses it but the tests of the properties.                                *)
(***************************************************************************)
EXTENDS Integers

CONSTANTS
    Pcb,         \* the process control blocks fork may ever allocate
    FirstPcb,    \* the process the loader builds
    Rest,        \* the values of the general registers
    Zero,        \* 0: fork returns it to the child, memset clears registers to it
    StackSize,   \* the words of a user stack (a bound of the model)
    CodeSize,    \* the instructions of a program (a bound of the model)
    Handler,     \* the value of rip inside the kernel
    NoFrame,     \* what stands below the stack pointer
    Unset        \* a link or context not yet set

UserSP   == 0 .. StackSize
UserPC   == 0 .. CodeSize - 1
KernelSP == Pcb \X (0 .. 2)

\* A process stands for its pid.
Rax == Rest \cup Pcb

\* cpu_reg and cpu_pc while a process runs
Registers == [rax : Rax, rest : Rest, rsp : UserSP, rip : UserPC]

TrapFrame == [rip : UserPC, rsp : UserSP]
UserFrame == [rax : Rax, rest : Rest]

ASSUME ContextAssumption ==
    /\ FirstPcb \in Pcb
    /\ StackSize \in Nat \ {0} /\ CodeSize \in Nat \ {0}
    /\ Zero \in Rest
    /\ NoFrame \notin TrapFrame \cup UserFrame
    /\ Unset \notin Pcb \cup KernelSP

VARIABLES
    pcbs,        \* the blocks in the list
    nextPcb,     \* pcb_t.next
    kstack,      \* pcb_t.kstack: trap frame, user frame and threadinfo.pcb
    context,     \* the stack pointer in pcb_t.context
    cpu,         \* cpu_reg and cpu_pc
    tss,         \* the process to whose kernel stack tr_global_tss.ESP0 points
    cr3,         \* the process whose page table the MMU walks
    phase,       \* how far the interrupt has got
    vector       \* which interrupt it is

switchVars == <<pcbs, nextPcb, kstack, context, cpu, tss, cr3, phase, vector>>

EmptyStack == [trap |-> NoFrame, user |-> NoFrame, pcb |-> Unset]

\* get_kstack_RSP: the kernel stack the stack pointer stands in
Stack == cpu.rsp[1]

\* get_current_pcb
CurrentPcb == kstack[Stack].pcb

\* sp after one more frame, or one less
Pushed(sp) == <<sp[1], sp[2] + 1>>
Popped(sp) == <<sp[1], sp[2] - 1>>

-----------------------------------------------------------------------------
(* The process runs.                                                       *)

\* An instruction leaves anything in the registers.
Run ==
    /\ phase = "user"
    /\ cpu' \in Registers
    /\ UNCHANGED <<pcbs, nextPcb, kstack, context, tss, cr3, phase, vector>>

\* interrupt_stack_switching up to the call of the handler, with the
\* registers r: switch to the stack in the TSS and push the trap frame.
Interrupt(v, r) ==
    /\ phase = "user"
    /\ kstack' = [kstack EXCEPT ![tss].trap = [rip |-> r.rip, rsp |-> r.rsp]]
    /\ cpu' = [r EXCEPT !.rsp = Pushed(<<tss, 0>>), !.rip = Handler]
    /\ phase' = "trapped"
    /\ vector' = v
    /\ UNCHANGED <<pcbs, nextPcb, context, tss, cr3>>

\* The timer interrupts after an instruction.
Timer == \E r \in Registers : Interrupt("timer", r)

\* Before the first fork no page is shared, and no store faults.
SomePageShared == pcbs # {FirstPcb}

\* mov and push have changed no register when the address translation fails.
PageFault ==
    /\ SomePageShared
    /\ Interrupt("pagefault", cpu)

\* call has.
CallFault ==
    /\ phase = "user" /\ SomePageShared
    /\ cpu.rsp > 0
    /\ Interrupt("pagefault", [cpu EXCEPT !.rsp = @ - 1])

\* int goes to the next instruction before it traps.
Int80 ==
    /\ phase = "user"
    /\ cpu.rip + 1 \in UserPC
    /\ Interrupt("syscall", [cpu EXCEPT !.rip = @ + 1])

-----------------------------------------------------------------------------
(* The kernel runs.                                                        *)

\* software_push_userframe
PushUserFrame ==
    /\ phase = "trapped"
    /\ kstack' = [kstack EXCEPT ![Stack].user = [rax |-> cpu.rax, rest |-> cpu.rest]]
    /\ cpu' = [cpu EXCEPT !.rsp = Pushed(@)]
    /\ phase' = "pushed"
    /\ UNCHANGED <<pcbs, nextPcb, context, tss, cr3, vector>>

\* timer_handler goes on at once, fix_pagefault and the system calls that
\* are stubs do nothing here.
NoService ==
    /\ phase = "pushed"
    /\ phase' = "serviced"
    /\ UNCHANGED <<pcbs, nextPcb, kstack, context, cpu, tss, cr3, vector>>

\* write_handler clears all registers, and syscall_handler puts rsp back.
SysWrite ==
    /\ phase = "pushed" /\ vector = "syscall"
    /\ cpu' = [cpu EXCEPT !.rax = Zero, !.rest = Zero]
    /\ phase' = "serviced"
    /\ UNCHANGED <<pcbs, nextPcb, kstack, context, tss, cr3, vector>>

\* Faulty: the thread info still names the parent.
ChildStackOfParent(p, c) == [kstack[p] EXCEPT !.user.rax = Zero]

\* Faulty: the child gets the return value of its parent.
ChildStackSameReturn(p, c) == [kstack[p] EXCEPT !.user.rax = c, !.pcb = c]

\* copy_pcb: the kernel stack of the child c of p is a copy of p's, with the
\* return value and the thread info of the child.
ChildStack(p, c) ==
    [trap |-> kstack[p].trap, user |-> [kstack[p].user EXCEPT !.rax = Zero], pcb |-> c]

\* Faulty: the context is the one copied with the control block.
ChildContextCopied(p, c) == context[p]

\* The child has its frames already, though it has never run.
ChildContext(p, c) == <<c, 2>>

SysFork(c) ==
    LET p == CurrentPcb
    IN  /\ phase = "pushed" /\ vector = "syscall"
        /\ c \in Pcb \ pcbs
        /\ pcbs' = pcbs \cup {c}
        /\ nextPcb' = [nextPcb EXCEPT ![c] = nextPcb[p], ![p] = c]
        /\ kstack' = [kstack EXCEPT ![c] = ChildStack(p, c), ![p].user.rax = c]
        /\ context' = [context EXCEPT ![c] = ChildContext(p, c)]
        /\ cpu' = [cpu EXCEPT !.rax = Zero, !.rest = Zero]
        /\ phase' = "serviced"
        /\ UNCHANGED <<tss, cr3, vector>>

\* Faulty: the task state segment is forgotten.
TssKept(sp) == tss

\* The stack of the process whose context has been restored
TssOf(sp) == sp[1]

\* os_schedule.  The context also holds the general registers, as the kernel
\* left them: software_pop_userframe has yet to load the user's.
Schedule ==
    LET p == CurrentPcb
        q == nextPcb[p]
    IN  /\ phase = "serviced"
        /\ context' = [context EXCEPT ![p] = cpu.rsp]
        /\ \E rax \in Rax, rest \in Rest :
              cpu' = [cpu EXCEPT !.rax = rax, !.rest = rest, !.rsp = context'[q]]
        /\ tss' = TssOf(context'[q])
        /\ cr3' = q
        /\ phase' = "scheduled"
        /\ UNCHANGED <<pcbs, nextPcb, kstack, vector>>

\* software_pop_userframe
PopUserFrame ==
    /\ phase = "scheduled"
    /\ cpu' = [cpu EXCEPT !.rax = kstack[Stack].user.rax,
                          !.rest = kstack[Stack].user.rest,
                          !.rsp = Popped(@)]
    /\ kstack' = [kstack EXCEPT ![Stack].user = NoFrame]
    /\ phase' = "popped"
    /\ UNCHANGED <<pcbs, nextPcb, context, tss, cr3, vector>>

\* Faulty: the process goes on at the address where the other one stopped.
RipKept(t) == cpu.rip

RipOf(t) == t.rip

\* hardware_pop_trapframe, and the jump back to instruction_cycle
PopTrapFrame ==
    /\ phase = "popped"
    /\ cpu' = [cpu EXCEPT !.rip = RipOf(kstack[Stack].trap),
                          !.rsp = kstack[Stack].trap.rsp]
    /\ kstack' = [kstack EXCEPT ![Stack].trap = NoFrame]
    /\ phase' = "user"
    /\ UNCHANGED <<pcbs, nextPcb, context, tss, cr3, vector>>

-----------------------------------------------------------------------------

SwitchInit ==
    /\ pcbs = {FirstPcb}
    /\ nextPcb = [p \in Pcb |-> IF p = FirstPcb THEN FirstPcb ELSE Unset]
    /\ kstack = [p \in Pcb |-> IF p = FirstPcb
                                THEN [EmptyStack EXCEPT !.pcb = FirstPcb]
                                ELSE EmptyStack]
    /\ context = [p \in Pcb |-> Unset]
    /\ cpu = [rax |-> Zero, rest |-> Zero, rsp |-> StackSize, rip |-> 0]
    /\ tss = FirstPcb
    /\ cr3 = FirstPcb
    /\ phase = "user"
    /\ vector = "timer"

SwitchNext ==
    \/ Run \/ Timer \/ PageFault \/ CallFault \/ Int80
    \/ PushUserFrame
    \/ NoService \/ SysWrite \/ \E c \in Pcb : SysFork(c)
    \/ Schedule
    \/ PopUserFrame \/ PopTrapFrame

SwitchSpec == SwitchInit /\ [][SwitchNext]_switchVars

-----------------------------------------------------------------------------
(* Properties.                                                             *)

\* The types of the variables
SwitchTypeOK ==
    /\ pcbs \subseteq Pcb /\ tss \in pcbs /\ cr3 \in pcbs
    /\ nextPcb \in [Pcb -> Pcb \cup {Unset}]
    /\ kstack \in [Pcb -> [trap : TrapFrame \cup {NoFrame},
                            user : UserFrame \cup {NoFrame},
                            pcb  : Pcb \cup {Unset}]]
    /\ context \in [Pcb -> KernelSP \cup {Unset}]
    /\ phase \in {"user", "trapped", "pushed", "serviced", "scheduled", "popped"}
    /\ vector \in {"timer", "pagefault", "syscall"}
    /\ cpu \in IF phase = "user" THEN Registers
               ELSE [rax : Rax, rest : Rest, rsp : KernelSP, rip : {Handler}]

\* The frames on the kernel stack of the running process
Frames == CASE phase = "user"                 -> 0
            [] phase \in {"trapped", "popped"} -> 1
            [] OTHER                          -> 2

\* The assertions of the push and pop functions: the stack pointer stands in
\* the kernel stack the TSS names, below exactly the frames pushed so far.
\* They hold for the stack of the new process when the old one pushed them.
StackPointerAsserted == phase # "user" => cpu.rsp = <<tss, Frames>>

\* The TSS, the page table in cr3 and the thread info at the bottom of the
\* kernel stack name one process, whatever has been forked and scheduled.
OneCurrentProcess == cr3 = tss /\ kstack[tss].pcb = tss

\* A process waiting for the processor has both frames on its own kernel
\* stack, its thread info at the bottom, and a context that points below the
\* frames, also if it has never run.
WaitingReady ==
    \A p \in pcbs \ {tss} :
        /\ context[p] = <<p, 2>>
        /\ kstack[p].trap # NoFrame /\ kstack[p].user # NoFrame
        /\ kstack[p].pcb = p

\* The links stay among the processes, so the scheduler picks one of them.
NextProcess == \A p \in pcbs : nextPcb[p] \in pcbs

\* The running process has exactly the frames its interrupt has pushed.
RunningFrames ==
    /\ kstack[tss].trap = NoFrame <=> Frames = 0
    /\ kstack[tss].user = NoFrame <=> Frames < 2

\* The inductive invariant
SwitchInv ==
    /\ SwitchTypeOK
    /\ StackPointerAsserted
    /\ OneCurrentProcess
    /\ WaitingReady
    /\ NextProcess
    /\ RunningFrames

\* The registers as process p sees them: in the processor, or in the frames
\* they have been saved to
Seen(p) ==
    IF phase = "user" /\ p = tss THEN cpu
    ELSE LET r == IF phase \in {"trapped", "popped"} /\ p = tss THEN cpu
                  ELSE kstack[p].user
         IN  [rax |-> r.rax, rest |-> r.rest,
              rsp |-> kstack[p].trap.rsp, rip |-> kstack[p].trap.rip]

\* interrupt.h:112, "this instruction would be rescheduled": a page fault
\* leaves the process as it was before the instruction.
FaultRestarts ==
    [][phase = "user" /\ phase' = "trapped" /\ vector' = "pagefault"
          => Seen(tss)' = Seen(tss)]_switchVars

\* What the processes see, wherever their registers are kept
View == [p \in Pcb |-> IF p \in pcbs THEN Seen(p) ELSE Unset]

Private == INSTANCE PrivateRegisters WITH Proc <- Pcb, FirstProc <- FirstPcb, procs <- pcbs,
                                          running <- tss, regs <- View

\* Interrupts, faults, system calls and the work of the kernel in between
\* are invisible: every process has registers of its own.
RegistersPrivate == Private!Spec
=============================================================================
