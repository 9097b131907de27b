---------------------------------- MODULE Isa ----------------------------------
(***************************************************************************)
(* One turn of the instruction cycle (cpu/isa.c): the text of an           *)
(* instruction is split and decoded, and its handler changes registers,    *)
(* memory, flags and rip.  Traps and page faults, which leave a handler in *)
(* the middle, belong to Kernel and ContextSwitch.                         *)
(*                                                                         *)
(* A text is a sequence of tokens: characters that are not told apart by   *)
(* the loops of parse_instruction and parse_operand, such as the letters   *)
(* of a name or the digits of a number, are one token.  Addresses count    *)
(* words of eight bytes and rip counts instructions, all in words of       *)
(* WordBits bits.  A definition called "faulty" is a slip the code might   *)
(* have had; nothing uses it but the tests of the properties.              *)
(***************************************************************************)
EXTENDS Integers, FiniteSets, Sequences

CONSTANTS
    WordBits,       \* 64
    Starts          \* instructions as they are meant, each with a state of
                    \* processor and memory to start from

VARIABLES
    inst,           \* the instruction as its author means it
    spaced,         \* whether it has a blank after the comma
    before,         \* processor and memory before ...
    cpu,            \* ... and after: reg, mem, rip and flags
    outcome         \* "fetch", "done", "exit" or "unsupported"

vars == <<inst, spaced, before, cpu, outcome>>

W(i) == i % 2^WordBits

\* an operand has an immediate number, registers and a scale, or NONE of them
NONE == -1
NoRegister == "none"

Init ==
    /\ \E s \in Starts : inst = s.inst /\ before = s.cpu
    /\ spaced \in BOOLEAN
    /\ spaced => Len(inst.ods) = 2
    /\ cpu = before
    /\ outcome = "fetch"

-----------------------------------------------------------------------------
(* The text of an instruction.                                             *)

Tok(c) == [c |-> c]
Number(n) == [c |-> "number", v |-> n]
Register(r) == [c |-> "%", r |-> r]

Maybe(there, token) == IF there THEN <<token>> ELSE <<>>

Write(od) ==
    IF od.form = "immediate" THEN <<[c |-> "$", v |-> od.imm]>>
    ELSE IF od.form = "register" THEN <<Register(od.reg1)>>
    ELSE Maybe(od.imm # NONE, Number(od.imm))
         \o IF od.reg1 = NoRegister /\ od.reg2 = NoRegister THEN <<>>
            ELSE <<Tok("(")>> \o Maybe(od.reg1 # NoRegister, Register(od.reg1))
                 \o Maybe(od.reg2 # NoRegister, Tok(",")) \o Maybe(od.reg2 # NoRegister, Register(od.reg2))
                 \o Maybe(od.scal # NONE, Tok(",")) \o Maybe(od.scal # NONE, Number(od.scal))
                 \o <<Tok(")")>>

Text ==
    <<[c |-> "name", op |-> inst.op]>>
    \o (IF inst.ods = <<>> THEN <<>> ELSE <<Tok(" "), Tok(" ")>> \o Write(inst.ods[1]))
    \o (IF Len(inst.ods) < 2 THEN <<>>
        ELSE <<Tok(",")>> \o Maybe(spaced, Tok(" ")) \o Write(inst.ods[2]))

-----------------------------------------------------------------------------
(* parse_instruction.                                                      *)

Brackets == {"(", ")"}

\* Faulty: commas inside the brackets part the operands, too.
AnyComma(brackets) == TRUE

CommaParts(brackets) == brackets \in {0, 2}

\* one character: brackets and commas are counted, then the state changes,
\* then the character goes to the operator or to an operand
Split(p, t) ==
    LET brackets == p.brackets + IF t.c \in Brackets THEN 1 ELSE 0
        commas   == p.commas + IF t.c = "," /\ CommaParts(brackets) THEN 1 ELSE 0
        state    == CASE p.state = 0 /\ t.c # " "   -> 1
                      [] p.state = 1 /\ t.c = " "   -> 2
                      [] p.state = 2 /\ t.c # " "   -> 3
                      [] p.state = 3 /\ commas = 1  -> 4
                      [] p.state = 4 /\ t.c # ","   -> 5
                      [] OTHER                      -> p.state
    IN  [brackets |-> brackets, commas |-> commas, state |-> state,
         op  |-> IF state = 1 THEN Append(p.op, t) ELSE p.op,
         od1 |-> IF state = 3 THEN Append(p.od1, t) ELSE p.od1,
         od2 |-> IF state = 5 THEN Append(p.od2, t) ELSE p.od2]

Parts ==
    LET text == Text
        after[n \in 0..Len(text)] ==
            IF n = 0
            THEN [brackets |-> 0, commas |-> 0, state |-> 0, op |-> <<>>, od1 |-> <<>>, od2 |-> <<>>]
            ELSE Split(after[n - 1], text[n])
    IN  after[Len(text)]

(* parse_operand.  A number may have blanks before it, and blanks alone    *)
(* are zero (Convert); anything else in its place ends the program.        *)

IsNumber(s) == \A i \in DOMAIN s : s[i].c = " " \/ (s[i].c = "number" /\ i = Len(s))
NumberOf(s) == IF s # <<>> /\ s[Len(s)].c = "number" THEN s[Len(s)].v ELSE 0

\* what stands at the place with so many brackets and commas before it
Field(s, brackets, commas) ==
    LET Count(i, cs) == Cardinality({j \in 1..i : s[j].c \in cs})
    IN  SelectSeq([i \in DOMAIN s |->
                      IF Count(i, Brackets) = brackets /\ Count(i, {","}) = commas
                      THEN s[i] ELSE Tok(",")],
                  LAMBDA t : t.c \notin Brackets \cup {","})

RegisterOf(s) == IF s = <<>> THEN NoRegister ELSE s[1].r

\* the type of an operand in memory: MEM_IMM_REG1 and so on, by its parts
Parted(s) ==
    LET commas == Cardinality({i \in DOMAIN s : s[i].c = ","})
    IN  IF \A i \in DOMAIN s : s[i].c \notin Brackets THEN {"IMM"}
        ELSE (IF Field(s, 0, 0) # <<>> THEN {"IMM"} ELSE {})
             \cup (IF commas < 2 \/ Field(s, 1, 0) # <<>> THEN {"REG1"} ELSE {})
             \cup (IF commas > 0 THEN {"REG2"} ELSE {})
             \cup (IF commas = 2 THEN {"SCAL"} ELSE {})

Empty == [type |-> "EMPTY", mem |-> {}, imm |-> 0, reg1 |-> NoRegister, reg2 |-> NoRegister, scal |-> 0]

Operand(s) ==
    CASE s = <<>>      -> Empty
      [] s # <<>> /\ Head(s).c = "$" -> [Empty EXCEPT !.type = "IMM", !.imm = Head(s).v]
      [] s # <<>> /\ Head(s).c = "%" -> [Empty EXCEPT !.type = "REG", !.reg1 = Head(s).r]
      [] OTHER -> [type |-> "MEM", mem |-> Parted(s),
                   imm  |-> NumberOf(Field(s, 0, 0)),
                   reg1 |-> RegisterOf(Field(s, 1, 0)),
                   reg2 |-> RegisterOf(Field(s, 1, 1)),
                   scal |-> NumberOf(Field(s, 1, 2))]

\* the program ends: no number where one must be, or no scale of x86
Refused(s) ==
    /\ s # <<>>
    /\ Head(s).c \notin {"$", "%"}
    /\ \/ ~ IsNumber(Field(s, 0, 0))
       \/ Field(s, 1, 2) # <<>> /\ NumberOf(Field(s, 1, 2)) \notin {1, 2, 4, 8}

-----------------------------------------------------------------------------
(* compute_operand: the number, or the address.  Of a register the         *)
(* handlers take the place itself.                                         *)

Address(od) ==
    LET Part(name, v) == IF name \in od.mem THEN v ELSE 0
    IN  W(Part("IMM", od.imm) + Part("REG1", cpu.reg[od.reg1])
          + Part("REG2", cpu.reg[od.reg2]) * IF "SCAL" \in od.mem THEN od.scal ELSE 1)

Compute(od) == IF od.type = "MEM" THEN Address(od) ELSE od.imm

IsReg(od) == od.type = "REG"
IsImm(od) == od.type = "IMM"
IsMem(od) == od.type = "MEM" /\ od.mem = {"IMM", "REG1"}
IsAbs(od) == od.type = "MEM" /\ od.mem = {"IMM"}

-----------------------------------------------------------------------------
(* The handlers.                                                           *)

NoFlags == [CF |-> 0, ZF |-> 0, SF |-> 0, OF |-> 0]

Sign(v) == v \div 2^(WordBits - 1)
Flag(b) == IF b THEN 1 ELSE 0

\* the end of a handler: the flags, and the next instruction or a jump
Ends(c, flags, rip) == cpu' = [c EXCEPT !.flags = flags, !.rip = W(rip)] /\ outcome' = "done"
Falls(c) == Ends(c, NoFlags, cpu.rip + 1)

SetReg(c, r, v) == [c EXCEPT !.reg[r] = v]
SetMem(c, a, v) == [c EXCEPT !.mem[a] = v]

MovHandler(src, dst) ==
    \/ IsReg(src) /\ IsReg(dst) /\ Falls(SetReg(cpu, dst.reg1, cpu.reg[src.reg1]))
    \/ IsReg(src) /\ (IsMem(dst) \/ IsAbs(dst)) /\ Falls(SetMem(cpu, Compute(dst), cpu.reg[src.reg1]))
    \/ IsMem(src) /\ IsReg(dst) /\ Falls(SetReg(cpu, dst.reg1, cpu.mem[Compute(src)]))
    \/ IsImm(src) /\ IsReg(dst) /\ Falls(SetReg(cpu, dst.reg1, Compute(src)))

\* the value is read after the new stack pointer is computed, not set
PushHandler(src) ==
    /\ IsReg(src)
    /\ LET rsp == W(cpu.reg.rsp - 1)
       IN  Falls(SetReg(SetMem(cpu, rsp, cpu.reg[src.reg1]), "rsp", rsp))

\* popping rsp itself adds to the value popped
PopHandler(src) ==
    /\ IsReg(src)
    /\ LET c == SetReg(cpu, src.reg1, cpu.mem[cpu.reg.rsp])
       IN  Falls(SetReg(c, "rsp", W(c.reg.rsp + 1)))

LeaveHandler ==
    LET rsp == cpu.reg.rbp
    IN  Falls(SetReg(SetReg(cpu, "rsp", W(rsp + 1)), "rbp", cpu.mem[rsp]))

\* Compute has been called before rsp moves
CallHandler(src) ==
    LET rsp == W(cpu.reg.rsp - 1)
    IN  Ends(SetMem(SetReg(cpu, "rsp", rsp), rsp, W(cpu.rip + 1)), NoFlags, Compute(src))

RetHandler ==
    Ends(SetReg(cpu, "rsp", W(cpu.reg.rsp + 1)), NoFlags, cpu.mem[cpu.reg.rsp])

\* The flags are taken after dst is overwritten: those of one more addition.
AddHandler(src, dst) ==
    /\ IsReg(src) /\ IsReg(dst)
    /\ LET c   == SetReg(cpu, dst.reg1, W(cpu.reg[src.reg1] + cpu.reg[dst.reg1]))
           s   == c.reg[src.reg1]
           d   == c.reg[dst.reg1]
           val == W(d + s)
       IN  Ends(c, [CF |-> Flag(val < s), ZF |-> Flag(val = 0), SF |-> Sign(val),
                    OF |-> Flag(Sign(s) = Sign(d) /\ Sign(s) # Sign(val))], cpu.rip + 1)

\* Faulty: the borrow is not there when both are equal.
BorrowFlags(d, s) ==
    LET val == W(d - s)
    IN  [CF |-> Flag(val >= d), ZF |-> Flag(val = 0), SF |-> Sign(val),
         OF |-> Flag(Sign(s) # Sign(d) /\ Sign(s) = Sign(val))]

\* the flags of d - s, also of sub, which takes them after dst is overwritten
SubFlags(d, s) ==
    LET val == W(d + W(-s))
    IN  [CF |-> Flag(val > d), ZF |-> Flag(val = 0), SF |-> Sign(val),
         OF |-> Flag(Sign(s) # Sign(d) /\ Sign(s) = Sign(val))]

SubHandler(src, dst) ==
    /\ IsImm(src) /\ IsReg(dst)
    /\ LET d == W(cpu.reg[dst.reg1] + W(- Compute(src)))
       IN  Ends(SetReg(cpu, dst.reg1, d), SubFlags(d, Compute(src)), cpu.rip + 1)

CmpHandler(src, dst) ==
    /\ IsImm(src)
    /\ \/ IsMem(dst) /\ Ends(cpu, SubFlags(cpu.mem[Compute(dst)], Compute(src)), cpu.rip + 1)
       \/ IsReg(dst) /\ Ends(cpu, SubFlags(cpu.reg[dst.reg1], Compute(src)), cpu.rip + 1)

JneHandler(src) == Ends(cpu, NoFlags, IF cpu.flags.ZF = 0 THEN Compute(src) ELSE cpu.rip + 1)

JmpHandler(src) == Ends(cpu, NoFlags, Compute(src))

\* handler_table
Handles(op, src, dst) ==
    \/ op = "mov"   /\ MovHandler(src, dst)
    \/ op = "push"  /\ PushHandler(src)
    \/ op = "pop"   /\ PopHandler(src)
    \/ op = "leave" /\ LeaveHandler
    \/ op = "call"  /\ CallHandler(src)
    \/ op = "ret"   /\ RetHandler
    \/ op = "add"   /\ AddHandler(src, dst)
    \/ op = "sub"   /\ SubHandler(src, dst)
    \/ op = "cmp"   /\ CmpHandler(src, dst)
    \/ op = "jne"   /\ JneHandler(src)
    \/ op = "jmp"   /\ JmpHandler(src)

\* the operands the handlers take; for others they only print a message, and
\* the same instruction is fetched again
Supported(op, src, dst) ==
    CASE op = "mov" -> \/ IsReg(src) /\ (IsReg(dst) \/ IsMem(dst) \/ IsAbs(dst))
                       \/ (IsMem(src) \/ IsImm(src)) /\ IsReg(dst)
      [] op \in {"push", "pop"} -> IsReg(src)
      [] op = "add" -> IsReg(src) /\ IsReg(dst)
      [] op = "sub" -> IsImm(src) /\ IsReg(dst)
      [] op = "cmp" -> IsImm(src) /\ (IsReg(dst) \/ IsMem(dst))
      [] OTHER -> TRUE

Cycle ==
    /\ outcome = "fetch"
    /\ LET p   == Parts
           src == Operand(p.od1)
           dst == Operand(p.od2)
           op  == p.op[1].op
       IN  \/ /\ Refused(p.od1) \/ Refused(p.od2)
              /\ outcome' = "exit" /\ UNCHANGED cpu
           \/ /\ ~ Refused(p.od1) /\ ~ Refused(p.od2)
              /\ Handles(op, src, dst)
           \/ /\ ~ Refused(p.od1) /\ ~ Refused(p.od2)
              /\ ~ Supported(op, src, dst)
              /\ outcome' = "unsupported" /\ UNCHANGED cpu
    /\ UNCHANGED <<inst, spaced, before>>

Next == Cycle

Spec == Init /\ [][Next]_vars

-----------------------------------------------------------------------------
(* What the instruction means to its author, from what is written and from *)
(* arithmetic on integers.                                                 *)

Signed(v) == IF v >= 2^(WordBits - 1) THEN v - 2^WordBits ELSE v
SignedWords == - 2^(WordBits - 1) .. 2^(WordBits - 1) - 1

Else0(v) == IF v = NONE THEN 0 ELSE v
RegOr0(c, r) == IF r = NoRegister THEN 0 ELSE c.reg[r]

Place(c, od) ==
    W(Else0(od.imm) + RegOr0(c, od.reg1)
      + RegOr0(c, od.reg2) * (IF od.scal = NONE THEN 1 ELSE od.scal))

Operand1 == inst.ods[1]
Operand2 == inst.ods[2]

ValueOf(c, od) ==
    CASE od.form = "immediate" -> od.imm
      [] od.form = "register"  -> c.reg[od.reg1]
      [] od.form = "memory"    -> c.mem[Place(c, od)]
JumpTo(c, od) == IF od.form = "memory" THEN Place(c, od) ELSE od.imm

\* c with v where od says
Store(c, od, v) ==
    IF od.form = "register" THEN [c EXCEPT !.reg[od.reg1] = v]
    ELSE [c EXCEPT !.mem[Place(c, od)] = v]

Push(c, v) == [c EXCEPT !.reg.rsp = W(@ - 1), !.mem[W(c.reg.rsp - 1)] = v]
Pop(c) == [c EXCEPT !.reg.rsp = W(@ + 1)]
Top(c) == c.mem[c.reg.rsp]

Difference(d, s) ==
    [CF |-> Flag(d < s), ZF |-> Flag(d = s), SF |-> Flag(Signed(W(d - s)) < 0),
     OF |-> Flag(Signed(d) - Signed(s) \notin SignedWords)]
Sum(d, s) ==
    [CF |-> Flag(d + s >= 2^WordBits), ZF |-> Flag(W(d + s) = 0), SF |-> Flag(Signed(W(d + s)) < 0),
     OF |-> Flag(Signed(d) + Signed(s) \notin SignedWords)]

Result(c) ==
    CASE inst.op = "mov"   -> Store(c, Operand2, ValueOf(c, Operand1))
      [] inst.op = "push"  -> Push(c, ValueOf(c, Operand1))
      [] inst.op = "pop"   -> Store(Pop(c), Operand1,
                                    IF Operand1.reg1 = "rsp" THEN W(Top(c) + 1) ELSE Top(c))
      [] inst.op = "leave" -> LET f == [c EXCEPT !.reg.rsp = c.reg.rbp]
                              IN  [Pop(f) EXCEPT !.reg.rbp = Top(f)]
      [] inst.op = "call"  -> Push(c, W(c.rip + 1))
      [] inst.op = "ret"   -> Pop(c)
      [] inst.op = "add"   -> Store(c, Operand2, W(ValueOf(c, Operand2) + ValueOf(c, Operand1)))
      [] inst.op = "sub"   -> Store(c, Operand2, W(ValueOf(c, Operand2) - ValueOf(c, Operand1)))
      [] OTHER             -> c

FlagsMeant(c) ==
    CASE inst.op \in {"cmp", "sub"} -> Difference(ValueOf(c, Operand2), ValueOf(c, Operand1))
      [] inst.op = "add"            -> Sum(ValueOf(c, Operand2), ValueOf(c, Operand1))
      [] OTHER                      -> NoFlags

\* add and sub take the flags when the result is stored already.
FlagsAfter(c) == FlagsMeant(IF inst.op \in {"add", "sub"} THEN Result(c) ELSE c)

RipAfter(c) ==
    CASE inst.op \in {"call", "jmp"}              -> JumpTo(c, Operand1)
      [] inst.op = "jne" /\ c.flags.ZF = 0        -> JumpTo(c, Operand1)
      [] inst.op = "ret"                          -> Top(c)
      [] OTHER                                    -> W(c.rip + 1)

\* a displacement and a register; a blank where it would stand is a zero
IsBased(od, blank) ==
    /\ od.form = "memory" /\ od.reg1 # NoRegister /\ od.reg2 = NoRegister
    /\ blank \/ od.imm # NONE
IsAbsolute(od) == od.form = "memory" /\ od.reg1 = NoRegister /\ od.reg2 = NoRegister

Taken ==
    LET form(i) == inst.ods[i].form
    IN  CASE inst.op = "mov" ->
                  \/ form(1) = "register" /\ form(2) = "register"
                  \/ form(1) = "register" /\ (IsBased(Operand2, spaced) \/ IsAbsolute(Operand2))
                  \/ form(2) = "register" /\ (IsBased(Operand1, FALSE) \/ form(1) = "immediate")
          [] inst.op \in {"push", "pop"} -> form(1) = "register"
          [] inst.op = "add" -> form(1) = "register" /\ form(2) = "register"
          [] inst.op = "sub" -> form(1) = "immediate" /\ form(2) = "register"
          [] inst.op = "cmp" -> form(1) = "immediate" /\ (form(2) = "register" \/ IsBased(Operand2, spaced))
          [] OTHER -> TRUE

\* a scale that x86 does not have, or a blank before a register or a number
Illegal ==
    \/ \E i \in DOMAIN inst.ods : inst.ods[i].scal \notin {NONE, 1, 2, 4, 8}
    \/ spaced /\ Operand2.form # "memory"

\* What is done to registers, memory, flags and rip is what the instruction
\* means as it is written, whatever form its operands have: splitting,
\* decoding, addressing and the handler together.  cmp compares exactly, as
\* signed and as unsigned numbers, also at the smallest one.  Two slips of the
\* code are excepted, and FlagsAsMeant states the first without exception: the
\* flags of add and sub are those of doing it again (isa.c:718, 789), and pop
\* of rsp counts rsp up after it is written (isa.c:685).  Nothing is changed
\* when the operands are not supported, and the program ends, rather than
\* reading something else, for a blank after the comma before a register and
\* for an illegal scale.
InstructionsExact ==
    /\ outcome = "done" =>
           cpu = [Result(before) EXCEPT !.flags = FlagsAfter(before), !.rip = RipAfter(before)]
    /\ outcome # "done" => cpu = before
    /\ outcome \notin {"fetch", "exit"} => (outcome = "done" <=> Taken)
    /\ outcome # "fetch" => (outcome = "exit" <=> Illegal)

\* The flags are those of the operation: add signals the unsigned and the signed
\* overflow of its sum (isa.c:724, 728), and "cmp behaves like sub", which sets
\* them "by the difference of the two operands" (isa.c:816).
FlagsAsMeant == outcome = "done" => cpu.flags = FlagsMeant(before)
=============================================================================
