------------------------ MODULE ContextSwitch_proofs ------------------------
(***************************************************************************)
(* Proofs about ContextSwitch, for any processes, register values, stack   *)
(* and code sizes: the assertions of the push and pop functions, the three *)
(* records of the running process, and the registers of the others.        *)
(***************************************************************************)
EXTENDS ContextSwitch, TLAPS

-----------------------------------------------------------------------------
\* The loader's process runs, alone, on an empty kernel stack.
LEMMA InitIInv == SwitchInit => SwitchInv
<1> SUFFICES ASSUME SwitchInit PROVE SwitchInv
  OBVIOUS
<1>1. SwitchTypeOK
  BY ContextAssumption DEF SwitchInit, SwitchTypeOK, EmptyStack, Registers, Rax, UserSP, UserPC
<1>0. kstack[FirstPcb] = [trap |-> NoFrame, user |-> NoFrame, pcb |-> FirstPcb]
  BY ContextAssumption DEF SwitchInit, EmptyStack
<1>2. StackPointerAsserted /\ OneCurrentProcess /\ WaitingReady
  <2>1. StackPointerAsserted
    BY DEF SwitchInit, StackPointerAsserted
  <2>2. OneCurrentProcess
    BY <1>0 DEF SwitchInit, OneCurrentProcess
  <2>3. WaitingReady
    BY DEF SwitchInit, WaitingReady
  <2> QED
    BY <2>1, <2>2, <2>3
<1>3. NextProcess /\ RunningFrames
  BY <1>0, ContextAssumption DEF SwitchInit, NextProcess, RunningFrames, Frames
<1> QED
  BY <1>1, <1>2, <1>3 DEF SwitchInv

\* The instructions of a process touch nothing but the processor.
LEMMA RunIInv == SwitchInv /\ Run => SwitchInv'
<1> SUFFICES ASSUME SwitchInv, Run PROVE SwitchInv'
  OBVIOUS
<1>1. SwitchTypeOK'
  BY DEF SwitchInv, SwitchTypeOK, Run
<1>2. (StackPointerAsserted /\ OneCurrentProcess /\ WaitingReady)'
  BY DEF SwitchInv, Run, StackPointerAsserted, OneCurrentProcess, WaitingReady
<1>3. (NextProcess /\ RunningFrames)'
  BY DEF SwitchInv, Run, NextProcess, RunningFrames, Frames
<1> QED
  BY <1>1, <1>2, <1>3 DEF SwitchInv

\* An interrupt with any registers pushes the trap frame on an empty stack.
LEMMA InterruptIInv ==
    ASSUME SwitchInv, NEW v \in {"timer", "pagefault", "syscall"}, NEW r \in Registers,
           Interrupt(v, r)
    PROVE  SwitchInv'
<1>1. tss \in Pcb /\ tss \in pcbs
  BY DEF SwitchInv, SwitchTypeOK
<1>2. cpu' = [rax |-> r.rax, rest |-> r.rest, rsp |-> <<tss, 1>>, rip |-> Handler]
  <2>1. Pushed(<<tss, 0>>) = <<tss, 1>>
    BY DEF Pushed
  <2> QED
    BY <2>1 DEF Interrupt, Registers
<1>0. [rip |-> r.rip, rsp |-> r.rsp] \in TrapFrame
  BY DEF Registers, TrapFrame
<1>3. SwitchTypeOK'
  <2>2. cpu' \in [rax : Rax, rest : Rest, rsp : KernelSP, rip : {Handler}]
    BY <1>1, <1>2 DEF Registers, KernelSP
  <2> QED
    BY <1>0, <1>1, <2>2 DEF SwitchInv, SwitchTypeOK, Interrupt
<1>4. (StackPointerAsserted /\ OneCurrentProcess)'
  <2>1. kstack'[tss].pcb = kstack[tss].pcb
    BY <1>1 DEF SwitchInv, SwitchTypeOK, Interrupt
  <2>2. Frames' = 1
    BY DEF Interrupt, Frames
  <2>3. cpu'.rsp = <<tss, 1>>
    BY <1>2
  <2>4. tss' = tss /\ cr3' = cr3
    BY DEF Interrupt
  <2>5. StackPointerAsserted'
    BY <2>2, <2>3, <2>4 DEF StackPointerAsserted
  <2> QED
    BY <2>1, <2>4, <2>5 DEF SwitchInv, OneCurrentProcess
<1>5. WaitingReady'
  BY <1>1 DEF SwitchInv, SwitchTypeOK, Interrupt, WaitingReady
<1>6. (NextProcess /\ RunningFrames)'
  <2>1. kstack'[tss].trap # NoFrame
    BY <1>0, <1>1, ContextAssumption DEF SwitchInv, SwitchTypeOK, Interrupt
  <2>2. kstack'[tss].user = kstack[tss].user
    BY <1>1 DEF SwitchInv, SwitchTypeOK, Interrupt
  <2>3. Frames = 0 /\ Frames' = 1
    BY DEF Interrupt, Frames
  <2> QED
    BY <2>1, <2>2, <2>3 DEF SwitchInv, Interrupt, NextProcess, RunningFrames
<1> QED
  BY <1>3, <1>4, <1>5, <1>6 DEF SwitchInv

-----------------------------------------------------------------------------
\* In the kernel, the stack in use is that of the process in the TSS.
LEMMA InKernel ==
    ASSUME SwitchInv, phase # "user"
    PROVE  /\ tss \in Pcb /\ tss \in pcbs
           /\ Stack = tss /\ CurrentPcb = tss
           /\ cpu = [rax |-> cpu.rax, rest |-> cpu.rest, rsp |-> <<tss, Frames>>,
                     rip |-> Handler]
           /\ cpu.rax \in Rax /\ cpu.rest \in Rest
           /\ kstack[tss] \in [trap : TrapFrame \cup {NoFrame},
                               user : UserFrame \cup {NoFrame}, pcb : Pcb \cup {Unset}]
<1>1. tss \in Pcb /\ tss \in pcbs
  BY DEF SwitchInv, SwitchTypeOK
<1>2. cpu \in [rax : Rax, rest : Rest, rsp : KernelSP, rip : {Handler}]
  BY DEF SwitchInv, SwitchTypeOK
<1>3. cpu.rsp = <<tss, Frames>>
  BY DEF SwitchInv, StackPointerAsserted
<1>4. Stack = tss /\ CurrentPcb = tss
  BY <1>3 DEF Stack, CurrentPcb, SwitchInv, OneCurrentProcess
<1> QED
  BY <1>1, <1>2, <1>3, <1>4 DEF SwitchInv, SwitchTypeOK

\* A kernel stack pointer of a process, with no more frames than there are
LEMMA StackPointers == \A p \in Pcb : {<<p, 0>>, <<p, 1>>, <<p, 2>>} \subseteq KernelSP
BY DEF KernelSP

\* One frame more or less
LEMMA StackPointerMoves ==
    ASSUME NEW p
    PROVE  /\ Pushed(<<p, 1>>) = <<p, 2>>
           /\ Popped(<<p, 2>>) = <<p, 1>>
BY DEF Pushed, Popped

\* The user frame goes below the trap frame.
LEMMA PushUserFrameIInv == SwitchInv /\ PushUserFrame => SwitchInv'
<1> SUFFICES ASSUME SwitchInv, PushUserFrame PROVE SwitchInv'
  OBVIOUS
<1>1. phase = "trapped" /\ phase' = "pushed" /\ Frames = 1 /\ Frames' = 2
  BY DEF PushUserFrame, Frames
<1>2. tss' = tss /\ cr3' = cr3 /\ pcbs' = pcbs /\ nextPcb' = nextPcb /\ context' = context
  BY DEF PushUserFrame
<1>3. cpu' = [rax |-> cpu.rax, rest |-> cpu.rest, rsp |-> <<tss, 2>>, rip |-> Handler]
  BY <1>1, InKernel, StackPointerMoves DEF PushUserFrame
<1>4. kstack' = [kstack EXCEPT ![tss].user = [rax |-> cpu.rax, rest |-> cpu.rest]]
  BY <1>1, InKernel DEF PushUserFrame
<1>5. [rax |-> cpu.rax, rest |-> cpu.rest] \in UserFrame
  BY <1>1, InKernel DEF UserFrame
<1>6. SwitchTypeOK'
  <2>1. cpu' \in [rax : Rax, rest : Rest, rsp : KernelSP, rip : {Handler}]
    BY <1>1, <1>3, InKernel, StackPointers
  <2> QED
    BY <1>1, <1>2, <1>4, <1>5, <2>1, InKernel DEF SwitchInv, SwitchTypeOK, PushUserFrame
<1>7. StackPointerAsserted'
  BY <1>1, <1>2, <1>3 DEF StackPointerAsserted
<1>8. OneCurrentProcess' /\ WaitingReady' /\ NextProcess'
  BY <1>1, <1>2, <1>4, InKernel
     DEF SwitchInv, SwitchTypeOK, OneCurrentProcess, WaitingReady, NextProcess
<1>9. RunningFrames'
  <2>1. kstack'[tss].user # NoFrame
    BY <1>1, <1>4, <1>5, InKernel, ContextAssumption DEF SwitchInv, SwitchTypeOK
  <2>2. kstack'[tss].trap = kstack[tss].trap
    BY <1>1, <1>4, InKernel DEF SwitchInv, SwitchTypeOK
  <2> QED
    BY <1>1, <1>2, <2>1, <2>2 DEF SwitchInv, RunningFrames
<1> QED
  BY <1>6, <1>7, <1>8, <1>9 DEF SwitchInv

\* A service that forks nothing leaves the frames alone.
LEMMA ServiceIInv == SwitchInv /\ (NoService \/ SysWrite) => SwitchInv'
<1> SUFFICES ASSUME SwitchInv, NoService \/ SysWrite PROVE SwitchInv'
  OBVIOUS
<1>1. phase = "pushed" /\ phase' = "serviced" /\ Frames = 2 /\ Frames' = 2
  BY DEF NoService, SysWrite, Frames
<1>2. UNCHANGED <<pcbs, nextPcb, kstack, context, tss, cr3, vector>>
  BY DEF NoService, SysWrite
<1>3. cpu' \in [rax : Rax, rest : Rest, rsp : KernelSP, rip : {Handler}]
      /\ cpu'.rsp = cpu.rsp
  BY <1>1, ContextAssumption DEF SwitchInv, SwitchTypeOK, NoService, SysWrite, Rax
<1>4. SwitchTypeOK'
  BY <1>1, <1>2, <1>3 DEF SwitchInv, SwitchTypeOK
<1>5. StackPointerAsserted'
  BY <1>1, <1>2, <1>3 DEF SwitchInv, StackPointerAsserted
<1>6. OneCurrentProcess' /\ WaitingReady' /\ NextProcess' /\ RunningFrames'
  BY <1>1, <1>2 DEF SwitchInv, OneCurrentProcess, WaitingReady, NextProcess, RunningFrames
<1> QED
  BY <1>4, <1>5, <1>6 DEF SwitchInv

\* The child of a fork waits: its kernel stack is a copy of its parent's,
\* which has both frames, and its context points below them.
LEMMA SysForkIInv ==
    ASSUME SwitchInv, NEW c \in Pcb, SysFork(c)
    PROVE  SwitchInv'
<1>1. phase = "pushed" /\ phase' = "serviced" /\ Frames = 2 /\ Frames' = 2
  BY DEF SysFork, Frames
<1>2. tss' = tss /\ cr3' = cr3 /\ vector' = vector
  BY DEF SysFork
<1>3. c \notin pcbs /\ pcbs' = pcbs \cup {c} /\ c # tss
  BY <1>1, InKernel DEF SysFork
<1>4. kstack' = [kstack EXCEPT ![c] = ChildStack(tss, c), ![tss].user.rax = c]
  BY <1>1, InKernel DEF SysFork
<1>5. kstack[tss].trap \in TrapFrame /\ kstack[tss].user \in UserFrame
      /\ kstack[tss].pcb = tss
  BY <1>1, InKernel DEF SwitchInv, RunningFrames, OneCurrentProcess
<1>6. ChildStack(tss, c) = [trap |-> kstack[tss].trap,
                            user |-> [rax |-> Zero, rest |-> kstack[tss].user.rest],
                            pcb  |-> c]
  BY <1>5 DEF ChildStack, UserFrame
<1>7. kstack'[c] = ChildStack(tss, c)
      /\ kstack'[tss] = [trap |-> kstack[tss].trap,
                         user |-> [rax |-> c, rest |-> kstack[tss].user.rest],
                         pcb  |-> tss]
      /\ \A p \in Pcb \ {c, tss} : kstack'[p] = kstack[p]
  <2>1. kstack \in [Pcb -> [trap : TrapFrame \cup {NoFrame}, user : UserFrame \cup {NoFrame},
                             pcb : Pcb \cup {Unset}]]
    BY DEF SwitchInv, SwitchTypeOK
  <2> QED
    BY <1>1, <1>3, <1>4, <1>5, <2>1, InKernel DEF UserFrame
<1>8. [rax |-> Zero, rest |-> kstack[tss].user.rest] \in UserFrame
      /\ [rax |-> c, rest |-> kstack[tss].user.rest] \in UserFrame
  BY <1>5, ContextAssumption DEF UserFrame, Rax
<1>9. SwitchTypeOK'
  <2>1. kstack' \in [Pcb -> [trap : TrapFrame \cup {NoFrame}, user : UserFrame \cup {NoFrame},
                              pcb : Pcb \cup {Unset}]]
    <3>1. \A p \in Pcb : kstack'[p] \in [trap : TrapFrame \cup {NoFrame},
                                        user : UserFrame \cup {NoFrame}, pcb : Pcb \cup {Unset}]
      BY <1>1, <1>5, <1>6, <1>7, <1>8, InKernel DEF SwitchInv, SwitchTypeOK
    <3>2. kstack' = [p \in Pcb |-> kstack'[p]]
      BY <1>4 DEF SwitchInv, SwitchTypeOK
    <3> QED
      BY <3>1, <3>2
  <2>2. cpu' \in [rax : Rax, rest : Rest, rsp : KernelSP, rip : {Handler}]
    BY <1>1, ContextAssumption DEF SwitchInv, SwitchTypeOK, SysFork, Rax
  <2>3. nextPcb' \in [Pcb -> Pcb \cup {Unset}] /\ context' \in [Pcb -> KernelSP \cup {Unset}]
    BY <1>1, InKernel, StackPointers DEF SwitchInv, SwitchTypeOK, SysFork, ChildContext
  <2> QED
    BY <1>1, <1>2, <1>3, <2>1, <2>2, <2>3 DEF SwitchInv, SwitchTypeOK
<1>10. StackPointerAsserted'
  <2>1. cpu'.rsp = cpu.rsp
    BY <1>1 DEF SysFork, SwitchInv, SwitchTypeOK
  <2> QED
    BY <1>1, <1>2, <2>1 DEF SwitchInv, StackPointerAsserted
<1>11. OneCurrentProcess'
  BY <1>2, <1>7 DEF SwitchInv, OneCurrentProcess
<1>12. WaitingReady'
  <2> SUFFICES ASSUME NEW p \in pcbs', p # tss
               PROVE  /\ context'[p] = <<p, 2>>
                      /\ kstack'[p].trap # NoFrame /\ kstack'[p].user # NoFrame
                      /\ kstack'[p].pcb = p
    BY <1>2 DEF WaitingReady
  <2>1. CASE p = c
    <3>1. context'[c] = <<c, 2>>
      BY DEF SysFork, ChildContext, SwitchInv, SwitchTypeOK
    <3> QED
      BY <1>5, <1>6, <1>7, <1>8, <2>1, <3>1, ContextAssumption
  <2>2. CASE p # c
    <3>1. p \in pcbs /\ p \in Pcb /\ context'[p] = context[p]
      BY <1>3, <2>2 DEF SysFork, SwitchInv, SwitchTypeOK
    <3> QED
      BY <1>7, <2>2, <3>1 DEF SwitchInv, WaitingReady
  <2> QED
    BY <2>1, <2>2
<1>13. NextProcess'
  BY <1>1, <1>3, InKernel DEF SwitchInv, SwitchTypeOK, NextProcess, SysFork
<1>14. RunningFrames'
  BY <1>1, <1>2, <1>5, <1>7, <1>8, ContextAssumption DEF RunningFrames
<1> QED
  BY <1>9, <1>10, <1>11, <1>12, <1>13, <1>14 DEF SwitchInv

\* The process scheduled has its frames, and its context points below them,
\* also if it is the one that has just been interrupted.
LEMMA Scheduled ==
    ASSUME SwitchInv, Schedule
    PROVE  /\ phase = "serviced" /\ phase' = "scheduled" /\ Frames = 2 /\ Frames' = 2
           /\ UNCHANGED <<pcbs, nextPcb, kstack, vector>>
           /\ nextPcb[tss] \in pcbs /\ tss' = nextPcb[tss] /\ cr3' = nextPcb[tss]
           /\ context' = [context EXCEPT ![tss] = <<tss, 2>>]
           /\ cpu'.rsp = <<tss', 2>>
           /\ cpu' \in [rax : Rax, rest : Rest, rsp : KernelSP, rip : {Handler}]
           /\ kstack[tss'].trap \in TrapFrame /\ kstack[tss'].user \in UserFrame
           /\ kstack[tss'].pcb = tss'
<1>1. phase = "serviced" /\ phase' = "scheduled" /\ Frames = 2 /\ Frames' = 2
      /\ UNCHANGED <<pcbs, nextPcb, kstack, vector>>
  BY DEF Schedule, Frames
<1> DEFINE q == nextPcb[tss]
<1>2. q \in pcbs /\ q \in Pcb
  BY <1>1, InKernel DEF SwitchInv, SwitchTypeOK, NextProcess
<1>3. cpu.rsp = <<tss, 2>>
  BY <1>1, InKernel
<1>4. context' = [context EXCEPT ![tss] = <<tss, 2>>] /\ cr3' = q
      /\ tss' = TssOf(context'[q])
  BY <1>1, <1>3, InKernel DEF Schedule
<1>5. context'[q] = <<q, 2>>
  <2>1. CASE q = tss
    BY <1>1, <1>4, <2>1, InKernel DEF SwitchInv, SwitchTypeOK
  <2>2. CASE q # tss
    BY <1>1, <1>2, <1>4, <2>2, InKernel DEF SwitchInv, SwitchTypeOK, WaitingReady
  <2> QED
    BY <2>1, <2>2
<1>6. tss' = q
  BY <1>4, <1>5 DEF TssOf
<1>7. cpu'.rsp = <<q, 2>>
      /\ cpu' \in [rax : Rax, rest : Rest, rsp : KernelSP, rip : {Handler}]
  <2>1. PICK rax \in Rax, rest \in Rest :
           cpu' = [cpu EXCEPT !.rax = rax, !.rest = rest, !.rsp = context'[q]]
    BY <1>1, InKernel DEF Schedule
  <2>2. cpu \in [rax : Rax, rest : Rest, rsp : KernelSP, rip : {Handler}]
    BY <1>1 DEF SwitchInv, SwitchTypeOK
  <2>3. <<q, 2>> \in KernelSP
    BY <1>2, StackPointers
  <2> QED
    BY <1>5, <2>1, <2>2, <2>3
<1>8. kstack[q].trap \in TrapFrame /\ kstack[q].user \in UserFrame
      /\ kstack[q].pcb = q
  <2>1. kstack[q] \in [trap : TrapFrame \cup {NoFrame}, user : UserFrame \cup {NoFrame},
                       pcb : Pcb \cup {Unset}]
    BY <1>2 DEF SwitchInv, SwitchTypeOK
  <2>2. kstack[q].trap # NoFrame /\ kstack[q].user # NoFrame /\ kstack[q].pcb = q
    BY <1>1, <1>2 DEF SwitchInv, WaitingReady, RunningFrames, OneCurrentProcess
  <2> QED
    BY <2>1, <2>2
<1> QED
  BY <1>1, <1>2, <1>4, <1>6, <1>7, <1>8

\* The process that loses the processor is ready, the one that gets it runs.
LEMMA ScheduleIInv == SwitchInv /\ Schedule => SwitchInv'
<1> SUFFICES ASSUME SwitchInv, Schedule PROVE SwitchInv'
  OBVIOUS
<1>1. SwitchTypeOK'
  BY Scheduled, InKernel, StackPointers DEF SwitchInv, SwitchTypeOK
<1>2. StackPointerAsserted' /\ OneCurrentProcess'
  BY Scheduled DEF StackPointerAsserted, OneCurrentProcess
<1>3. WaitingReady'
  <2> SUFFICES ASSUME NEW p \in pcbs, p # tss'
               PROVE  /\ context'[p] = <<p, 2>>
                      /\ kstack[p].trap # NoFrame /\ kstack[p].user # NoFrame
                      /\ kstack[p].pcb = p
    BY Scheduled DEF WaitingReady
  <2>1. CASE p = tss
    <3>1. context'[p] = <<p, 2>>
      BY <2>1, Scheduled, InKernel DEF SwitchInv, SwitchTypeOK
    <3> QED
      BY <2>1, <3>1, Scheduled DEF SwitchInv, RunningFrames, OneCurrentProcess
  <2>2. CASE p # tss
    <3>1. context'[p] = context[p]
      BY <2>2, Scheduled DEF SwitchInv, SwitchTypeOK
    <3> QED
      BY <2>2, <3>1 DEF SwitchInv, WaitingReady
  <2> QED
    BY <2>1, <2>2
<1>4. NextProcess'
  BY Scheduled DEF SwitchInv, NextProcess
<1>5. RunningFrames'
  BY Scheduled, ContextAssumption DEF RunningFrames
<1> QED
  BY <1>1, <1>2, <1>3, <1>4, <1>5 DEF SwitchInv

\* The user frame popped is that of the process scheduled.
LEMMA PopUserFrameIInv == SwitchInv /\ PopUserFrame => SwitchInv'
<1> SUFFICES ASSUME SwitchInv, PopUserFrame PROVE SwitchInv'
  OBVIOUS
<1>1. phase = "scheduled" /\ phase' = "popped" /\ Frames = 2 /\ Frames' = 1
  BY DEF PopUserFrame, Frames
<1>2. tss' = tss /\ cr3' = cr3 /\ pcbs' = pcbs /\ nextPcb' = nextPcb /\ context' = context
  BY DEF PopUserFrame
<1>3. kstack[tss].user \in UserFrame /\ kstack[tss].trap # NoFrame
  BY <1>1, InKernel DEF SwitchInv, RunningFrames
<1>4. cpu' = [rax |-> kstack[tss].user.rax, rest |-> kstack[tss].user.rest,
              rsp |-> <<tss, 1>>, rip |-> Handler]
  <2>1. cpu.rsp = <<tss, 2>>
    BY <1>1 DEF SwitchInv, StackPointerAsserted
  <2>2. Popped(cpu.rsp) = <<tss, 1>>
    BY <2>1 DEF Popped
  <2>3. cpu \in [rax : Rax, rest : Rest, rsp : KernelSP, rip : {Handler}] /\ Stack = tss
    BY <1>1, InKernel DEF SwitchInv, SwitchTypeOK
  <2> QED
    BY <2>2, <2>3 DEF PopUserFrame
<1>5. kstack' = [kstack EXCEPT ![tss].user = NoFrame]
  BY <1>1, InKernel DEF PopUserFrame
<1>6. SwitchTypeOK'
  <2>1. cpu' \in [rax : Rax, rest : Rest, rsp : KernelSP, rip : {Handler}]
    BY <1>1, <1>3, <1>4, InKernel, StackPointers DEF UserFrame
  <2> QED
    BY <1>1, <1>2, <1>5, <2>1, InKernel DEF SwitchInv, SwitchTypeOK, PopUserFrame
<1>7. StackPointerAsserted'
  BY <1>1, <1>2, <1>4 DEF StackPointerAsserted
<1>8. OneCurrentProcess' /\ WaitingReady' /\ NextProcess'
  BY <1>1, <1>2, <1>5, InKernel
     DEF SwitchInv, SwitchTypeOK, OneCurrentProcess, WaitingReady, NextProcess
<1>9. RunningFrames'
  BY <1>1, <1>2, <1>3, <1>5, InKernel DEF SwitchInv, SwitchTypeOK, RunningFrames
<1> QED
  BY <1>6, <1>7, <1>8, <1>9 DEF SwitchInv

\* With the trap frame the kernel stack is empty again.
LEMMA PopTrapFrameIInv == SwitchInv /\ PopTrapFrame => SwitchInv'
<1> SUFFICES ASSUME SwitchInv, PopTrapFrame PROVE SwitchInv'
  OBVIOUS
<1>1. phase = "popped" /\ phase' = "user" /\ Frames = 1 /\ Frames' = 0
  BY DEF PopTrapFrame, Frames
<1>2. tss' = tss /\ cr3' = cr3 /\ pcbs' = pcbs /\ nextPcb' = nextPcb /\ context' = context
  BY DEF PopTrapFrame
<1>3. kstack[tss].trap \in TrapFrame /\ kstack[tss].user = NoFrame
  BY <1>1, InKernel DEF SwitchInv, RunningFrames
<1>4. cpu' = [rax |-> cpu.rax, rest |-> cpu.rest,
              rsp |-> kstack[tss].trap.rsp, rip |-> kstack[tss].trap.rip]
  BY <1>1, InKernel DEF PopTrapFrame, RipOf
<1>5. kstack' = [kstack EXCEPT ![tss].trap = NoFrame]
  BY <1>1, InKernel DEF PopTrapFrame
<1>6. SwitchTypeOK'
  <2>1. cpu' \in Registers
    BY <1>1, <1>3, <1>4, InKernel DEF TrapFrame, Registers
  <2> QED
    BY <1>1, <1>2, <1>5, <2>1, InKernel DEF SwitchInv, SwitchTypeOK, PopTrapFrame
<1>7. StackPointerAsserted'
  BY <1>1 DEF StackPointerAsserted
<1>8. OneCurrentProcess' /\ WaitingReady' /\ NextProcess'
  BY <1>1, <1>2, <1>5, InKernel
     DEF SwitchInv, SwitchTypeOK, OneCurrentProcess, WaitingReady, NextProcess
<1>9. RunningFrames'
  BY <1>1, <1>2, <1>3, <1>5, InKernel DEF SwitchInv, SwitchTypeOK, RunningFrames
<1> QED
  BY <1>6, <1>7, <1>8, <1>9 DEF SwitchInv

\* Every interrupt starts with registers a process can have.
LEMMA TrapIInv == SwitchInv /\ (Timer \/ PageFault \/ CallFault \/ Int80) => SwitchInv'
<1> SUFFICES ASSUME SwitchInv, Timer \/ PageFault \/ CallFault \/ Int80 PROVE SwitchInv'
  OBVIOUS
<1>1. ASSUME Timer PROVE SwitchInv'
  BY <1>1, InterruptIInv DEF Timer
<1>2. ASSUME phase = "user" PROVE cpu \in Registers
  BY <1>2 DEF SwitchInv, SwitchTypeOK
<1>3. ASSUME PageFault PROVE SwitchInv'
  BY <1>2, <1>3, InterruptIInv DEF PageFault, Interrupt
<1>4. ASSUME CallFault PROVE SwitchInv'
  <2>1. [cpu EXCEPT !.rsp = @ - 1] \in Registers
    BY <1>2, <1>4, ContextAssumption DEF CallFault, Registers, UserSP
  <2> QED
    BY <1>4, <2>1, InterruptIInv DEF CallFault
<1>5. ASSUME Int80 PROVE SwitchInv'
  <2>1. [cpu EXCEPT !.rip = @ + 1] \in Registers
    BY <1>2, <1>5 DEF Int80, Registers
  <2> QED
    BY <1>5, <2>1, InterruptIInv DEF Int80
<1> QED
  BY <1>1, <1>3, <1>4, <1>5

\* Every step keeps the inductive invariant.
LEMMA NextIInv == SwitchInv /\ [SwitchNext]_switchVars => SwitchInv'
<1> SUFFICES ASSUME SwitchInv, [SwitchNext]_switchVars PROVE SwitchInv'
  OBVIOUS
<1>1. CASE UNCHANGED switchVars
  BY <1>1 DEF switchVars, SwitchInv, SwitchTypeOK, StackPointerAsserted, OneCurrentProcess, WaitingReady,
              NextProcess, RunningFrames, Frames
<1>2. CASE SwitchNext
  BY <1>2, RunIInv, TrapIInv, PushUserFrameIInv, ServiceIInv, SysForkIInv, ScheduleIInv,
     PopUserFrameIInv, PopTrapFrameIInv DEF SwitchNext
<1> QED
  BY <1>1, <1>2

-----------------------------------------------------------------------------
\* The inductive invariant holds for any processes and register values.
THEOREM Invariance == SwitchSpec => []SwitchInv
BY InitIInv, NextIInv, PTL DEF SwitchSpec

\* The assertions of hardware_push_trapframe, software_push_userframe,
\* software_pop_userframe and hardware_pop_trapframe never fail.
THEOREM StackAssertionsHold == SwitchSpec => []StackPointerAsserted
<1>1. SwitchInv => StackPointerAsserted
  BY DEF SwitchInv
<1> QED
  BY <1>1, Invariance, PTL

\* TSS, cr3 and thread info always name the same process.
THEOREM CurrentProcessAgreed == SwitchSpec => []OneCurrentProcess
<1>1. SwitchInv => OneCurrentProcess
  BY DEF SwitchInv
<1> QED
  BY <1>1, Invariance, PTL

\* Every variable keeps its type: no process ever returns to an address or a
\* stack pointer that is not one of its own kind.
THEOREM TypeCorrect == SwitchSpec => []SwitchTypeOK
<1>1. SwitchInv => SwitchTypeOK
  BY DEF SwitchInv
<1> QED
  BY <1>1, Invariance, PTL

\* Every process that waits can be resumed, also a child that never ran.
THEOREM WaitingAreReady == SwitchSpec => []WaitingReady
<1>1. SwitchInv => WaitingReady
  BY DEF SwitchInv
<1> QED
  BY <1>1, Invariance, PTL

-----------------------------------------------------------------------------
(* The refinement.                                                         *)

\* The registers that the two frames of a process hold
Saved(p) == [rax |-> kstack[p].user.rax, rest |-> kstack[p].user.rest,
             rsp |-> kstack[p].trap.rsp, rip |-> kstack[p].trap.rip]

\* The kernel's own steps can be seen by no process.
LEMMA ViewUnchanged ==
    ASSUME pcbs' = pcbs, \A p \in pcbs : Seen(p)' = Seen(p)
    PROVE  View' = View
BY DEF View

\* If another's kernel stack is not touched, neither are its registers.
LEMMA OthersUnchanged ==
    ASSUME pcbs' = pcbs, tss' = tss,
           \A p \in Pcb \ {tss} : kstack'[p] = kstack[p]
    PROVE  \A p \in Pcb \ {tss} : Seen(p)' = Seen(p) /\ View'[p] = View[p]
<1> SUFFICES ASSUME NEW p \in Pcb \ {tss}
             PROVE  Seen(p)' = Seen(p) /\ View'[p] = View[p]
  OBVIOUS
<1>1. Seen(p)' = Seen(p)
  BY DEF Seen
<1> QED
  BY <1>1 DEF View

\* An instruction, interrupted or not, changes only the running process.
LEMMA RunExecutes == SwitchInv /\ (Run \/ Timer \/ PageFault \/ CallFault \/ Int80) => Private!Execute
<1> SUFFICES ASSUME SwitchInv, Run \/ Timer \/ PageFault \/ CallFault \/ Int80
             PROVE  Private!Execute
  OBVIOUS
<1>1. UNCHANGED <<pcbs, tss>>
  BY DEF Run, Timer, PageFault, CallFault, Int80, Interrupt
<1>2. \A p \in Pcb \ {tss} : kstack'[p] = kstack[p]
  BY DEF SwitchInv, SwitchTypeOK, Run, Timer, PageFault, CallFault, Int80, Interrupt
<1> QED
  BY <1>1, <1>2, OthersUnchanged DEF Private!Execute

\* Pushing the user frame moves the registers, and changes none.
LEMMA PushStutters == SwitchInv /\ PushUserFrame => UNCHANGED <<pcbs, tss, View>>
<1> SUFFICES ASSUME SwitchInv, PushUserFrame PROVE UNCHANGED <<pcbs, tss, View>>
  OBVIOUS
<1>1. phase = "trapped" /\ phase' = "pushed" /\ UNCHANGED <<pcbs, tss>>
  BY DEF PushUserFrame
<1>2. kstack' = [kstack EXCEPT ![tss].user = [rax |-> cpu.rax, rest |-> cpu.rest]]
  BY <1>1, InKernel DEF PushUserFrame
<1>3. kstack'[tss].user = [rax |-> cpu.rax, rest |-> cpu.rest]
      /\ kstack'[tss].trap = kstack[tss].trap
      /\ \A p \in Pcb \ {tss} : kstack'[p] = kstack[p]
  BY <1>1, <1>2, InKernel DEF SwitchInv, SwitchTypeOK
<1>4. Seen(tss)' = Seen(tss)
  BY <1>1, <1>3 DEF Seen
<1> QED
  BY <1>1, <1>3, <1>4, OthersUnchanged, ViewUnchanged DEF SwitchInv, SwitchTypeOK

\* The services without a fork work on the kernel's own registers.
LEMMA ServiceStutters == SwitchInv /\ (NoService \/ SysWrite) => UNCHANGED <<pcbs, tss, View>>
<1> SUFFICES ASSUME NoService \/ SysWrite PROVE UNCHANGED <<pcbs, tss, View>>
  OBVIOUS
<1>1. phase = "pushed" /\ phase' = "serviced" /\ UNCHANGED <<pcbs, tss, kstack>>
  BY DEF NoService, SysWrite
<1>2. \A p \in pcbs : Seen(p)' = Seen(p)
  BY <1>1 DEF Seen
<1> QED
  BY <1>1, <1>2, ViewUnchanged

\* A fork gives the child its parent's registers, and both their results.
LEMMA SysForkForks ==
    ASSUME SwitchInv, NEW c \in Pcb, SysFork(c)
    PROVE  Private!Fork(c)
<1>1. phase = "pushed" /\ phase' = "serviced" /\ tss' = tss
  BY DEF SysFork
<1>2. tss \in pcbs /\ tss \in Pcb /\ c \notin pcbs /\ pcbs' = pcbs \cup {c} /\ c # tss
  BY <1>1, InKernel DEF SysFork
<1>3. kstack[tss].user \in UserFrame
  BY <1>1, InKernel DEF SwitchInv, RunningFrames, Frames
<1>4. kstack' = [kstack EXCEPT ![c] = ChildStack(tss, c), ![tss].user.rax = c]
  BY <1>1, InKernel DEF SysFork
<1>5. /\ kstack'[c].user = [rax |-> Zero, rest |-> kstack[tss].user.rest]
      /\ kstack'[c].trap = kstack[tss].trap
      /\ kstack'[tss].user = [rax |-> c, rest |-> kstack[tss].user.rest]
      /\ kstack'[tss].trap = kstack[tss].trap
      /\ \A p \in Pcb \ {c, tss} : kstack'[p] = kstack[p]
  BY <1>1, <1>2, <1>3, <1>4, InKernel DEF SwitchInv, SwitchTypeOK, ChildStack, UserFrame
<1>6. View[tss] = Saved(tss)
  BY <1>1, <1>2 DEF View, Seen, Saved
<1>7. /\ View'[tss] = [View[tss] EXCEPT !.rax = c]
      /\ View'[c] = [View[tss] EXCEPT !.rax = Zero]
  <2>1. View'[tss] = Saved(tss)' /\ View'[c] = Saved(c)'
    BY <1>1, <1>2 DEF View, Seen, Saved
  <2>2. Saved(tss)' = [Saved(tss) EXCEPT !.rax = c]
    BY <1>1, <1>5 DEF Saved
  <2>3. Saved(c)' = [Saved(tss) EXCEPT !.rax = Zero]
    BY <1>1, <1>5 DEF Saved
  <2> QED
    BY <1>6, <2>1, <2>2, <2>3
<1>8. \A p \in Pcb \ {c, tss} : View'[p] = View[p]
  <2> SUFFICES ASSUME NEW p \in Pcb \ {c, tss} PROVE View'[p] = View[p]
    OBVIOUS
  <2>1. Seen(p)' = Seen(p)
    BY <1>1, <1>5 DEF Seen
  <2> QED
    BY <1>2, <2>1 DEF View
<1>9. View' = [View EXCEPT ![tss].rax = c, ![c] = [View[tss] EXCEPT !.rax = Zero]]
  <2>1. View = [p \in Pcb |-> View[p]] /\ View' = [p \in Pcb |-> View'[p]]
    BY DEF View
  <2> QED
    BY <1>2, <1>7, <1>8, <2>1
<1> QED
  BY <1>1, <1>2, <1>9 DEF Private!Fork

\* The scheduler hands the processor over and changes no process's registers.
LEMMA ScheduleSwitches == SwitchInv /\ Schedule => Private!Switch
<1> SUFFICES ASSUME SwitchInv, Schedule PROVE Private!Switch
  OBVIOUS
<1>1. \A p \in pcbs : Seen(p)' = Seen(p)
  BY Scheduled DEF Seen
<1> QED
  BY <1>1, Scheduled, ViewUnchanged DEF Private!Switch

\* The frames go back to the processor as they were saved.
LEMMA PopStutters == SwitchInv /\ (PopUserFrame \/ PopTrapFrame) => UNCHANGED <<pcbs, tss, View>>
<1> SUFFICES ASSUME SwitchInv, PopUserFrame \/ PopTrapFrame
             PROVE  UNCHANGED <<pcbs, tss, View>>
  OBVIOUS
<1>1. UNCHANGED <<pcbs, tss>> /\ phase # "user"
  BY DEF PopUserFrame, PopTrapFrame
<1>2. Stack = tss /\ tss \in Pcb
      /\ cpu \in [rax : Rax, rest : Rest, rsp : KernelSP, rip : {Handler}]
  BY <1>1, InKernel DEF SwitchInv, SwitchTypeOK
<1>3. \A p \in Pcb \ {tss} : kstack'[p] = kstack[p]
  BY <1>2 DEF SwitchInv, SwitchTypeOK, PopUserFrame, PopTrapFrame
<1>4. CASE PopUserFrame
  <2>1. cpu'.rax = kstack[tss].user.rax /\ cpu'.rest = kstack[tss].user.rest
    BY <1>2, <1>4 DEF PopUserFrame
  <2>2. kstack'[tss].trap = kstack[tss].trap
    BY <1>2, <1>4 DEF PopUserFrame, SwitchInv, SwitchTypeOK
  <2>3. Seen(tss)' = Seen(tss)
    BY <1>1, <1>4, <2>1, <2>2 DEF PopUserFrame, Seen
  <2> QED
    BY <1>1, <1>3, <2>3, OthersUnchanged, ViewUnchanged DEF SwitchInv, SwitchTypeOK
<1>5. CASE PopTrapFrame
  <2>1. cpu' = [rax |-> cpu.rax, rest |-> cpu.rest,
                rsp |-> kstack[tss].trap.rsp, rip |-> kstack[tss].trap.rip]
    BY <1>2, <1>5 DEF PopTrapFrame, RipOf
  <2>2. Seen(tss)' = Seen(tss)
    BY <1>1, <1>5, <2>1 DEF PopTrapFrame, Seen
  <2> QED
    BY <1>1, <1>3, <2>2, OthersUnchanged, ViewUnchanged DEF SwitchInv, SwitchTypeOK
<1> QED
  BY <1>4, <1>5

\* Every step is an instruction, a fork or a switch, or cannot be seen.
LEMMA StepImplements == SwitchInv /\ [SwitchNext]_switchVars => [Private!Next]_(Private!vars)
<1> SUFFICES ASSUME SwitchInv, [SwitchNext]_switchVars PROVE [Private!Next]_(Private!vars)
  OBVIOUS
<1>1. CASE UNCHANGED switchVars
  <2>1. View' = View
    BY <1>1 DEF switchVars, View, Seen
  <2> QED
    BY <1>1, <2>1 DEF switchVars, Private!vars
<1>2. CASE Run \/ Timer \/ PageFault \/ CallFault \/ Int80
  BY <1>2, RunExecutes DEF Private!Next
<1>3. CASE PushUserFrame \/ NoService \/ SysWrite \/ PopUserFrame \/ PopTrapFrame
  BY <1>3, PushStutters, ServiceStutters, PopStutters DEF Private!vars
<1>4. CASE \E c \in Pcb : SysFork(c)
  BY <1>4, SysForkForks DEF Private!Next
<1>5. CASE Schedule
  BY <1>5, ScheduleSwitches DEF Private!Next
<1> QED
  BY <1>1, <1>2, <1>3, <1>4, <1>5 DEF SwitchNext

\* Every process has registers of its own, for any number of processes and
\* any register values: interrupts, faults and the kernel's own work on the
\* registers are invisible, and a fork returns twice.
THEOREM Refinement == SwitchSpec => RegistersPrivate
<1>1. SwitchInit => Private!Init
  BY DEF SwitchInit, Private!Init
<1> QED
  BY <1>1, StepImplements, Invariance, PTL DEF SwitchSpec, RegistersPrivate, Private!Spec
=============================================================================
