---------------------------- MODULE MCStructures ----------------------------
(* Small instances of Structures.                                          *)
EXTENDS Structures, LinkerInputs, ElfInputs

\* a tree node is ten times its key plus the number of the copy
MCKey(x) == x \div 10
MCRbtNodes == {10 * k : k \in 1..8} \cup {41}
MCBstNodes == {10 * k : k \in 1..4} \cup {31}

\* areas of one and two pages
MCAreas == {a \in (1..7) \X (1..8) : a[2] - a[1] \in 1..2}

\* a key of the hash table is ten times its hash plus the number of the key
MCHashOf(k) == k \div 10

\* names with common beginnings, and the empty one
MCNames == {<<>>, <<"a">>, <<"a", "b">>, <<"a", "b", "c">>, <<"a", "c">>, <<"c">>, <<"b", "a">>}

-----------------------------------------------------------------------------
(* Instructions for words of three bits.                                   *)

LOCAL Imm(v) == [form |-> "immediate", imm |-> v, reg1 |-> "none", reg2 |-> "none", scal |-> -1]
LOCAL Reg(r) == [form |-> "register", imm |-> -1, reg1 |-> r, reg2 |-> "none", scal |-> -1]
LOCAL Mem(i, r1, r2, s) == [form |-> "memory", imm |-> i, reg1 |-> r1, reg2 |-> r2, scal |-> s]

LOCAL Words == 0..7
LOCAL Some == {0, 3, 4, 7}

LOCAL Cpu(a, b, sp, z) ==
    [reg   |-> [rax |-> a, rbx |-> b, rsp |-> sp, rbp |-> 5],
     mem   |-> [x \in Words |-> (3 * x + 1) % 8],
     rip   |-> 7,
     flags |-> [CF |-> z, ZF |-> z, SF |-> z, OF |-> z]]

\* every notation of an operand
LOCAL Regs == {Reg(r) : r \in {"rax", "rbx", "rsp"}}
LOCAL Mems ==
    {Mem(5, "none", "none", -1)}
    \cup {Mem(i, "rbx", "none", -1) : i \in {-1, 0, 7}}
    \cup {Mem(i, "rbx", "rax", -1) : i \in {-1, 3}}
    \cup {Mem(i, r, "rax", s) : i \in {-1, 3}, r \in {"none", "rbx"}, s \in {2, 3}}

LOCAL Two(o, as, bs) == {[op |-> o, ods |-> <<a, b>>] : a \in as, b \in bs}
LOCAL One(o, as) == {[op |-> o, ods |-> <<a>>] : a \in as}
LOCAL From(is, cs) == {[inst |-> i, cpu |-> c] : i \in is, c \in cs}

\* all notations everywhere; then addresses; then arithmetic at the edges
MCStarts ==
    LET simple == {Reg("rax"), Reg("rsp"), Mem(7, "rbx", "none", -1)}
        all    == {Imm(6)} \cup Regs \cup Mems
    IN  From(UNION {Two(o, all, simple) \cup Two(o, simple \cup {Imm(6)}, all \ {Imm(6)}) :
                        o \in {"mov", "cmp", "add", "sub"}}
                 \cup UNION {One(o, Regs) : o \in {"push", "pop"}}
                 \cup UNION {One(o, Mems) : o \in {"call", "jmp", "jne"}}
                 \cup {[op |-> o, ods |-> <<>>] : o \in {"leave", "ret"}},
             {Cpu(2, 3, 4, 1), Cpu(6, 5, 0, 0)})
        \cup From(Two("mov", Regs, Mems) \cup Two("mov", Mems, Regs) \cup One("jmp", Mems),
                  {Cpu(a, b, 1, 0) : a \in {3, 7}, b \in Some})
        \cup From(Two("add", Regs, Regs) \cup UNION {Two(o, {Imm(i) : i \in Some}, Regs) : o \in {"sub", "cmp"}}
                  \cup Two("cmp", {Imm(i) : i \in Some}, {Mem(1, "rbx", "none", -1)}),
                  {Cpu(a, b, 2, 0) : a, b \in Some \cup {1}})
=============================================================================
