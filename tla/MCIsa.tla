-------------------------------- MODULE MCIsa --------------------------------
(* A small instance of Isa: cmp and sub on words of three bits.              *)
EXTENDS Isa

LOCAL Reg(r) == [form |-> "register", imm |-> NONE, reg1 |-> r, reg2 |-> NoRegister, scal |-> NONE]
LOCAL Imm(v) == [Reg(NoRegister) EXCEPT !.form = "immediate", !.imm = v]

LOCAL Start(op, a) ==
    [inst |-> [op |-> op, ods |-> <<Imm(2), Reg("rax")>>],
     cpu  |-> [reg |-> [rax |-> a], mem |-> <<>>, rip |-> 0, flags |-> NoFlags]]

\* cmp $2 with any number in %rax, and sub $2 from 3
MCStarts == {Start("cmp", a) : a \in 0..7} \cup {Start("sub", 3)}
=============================================================================
