----------------------------- MODULE MCHardware -----------------------------
(* Small instances of CopyOnWrite, ContextSwitch and SramCache.  They run   *)
(* beside each other and share nothing: every behaviour is one of a single  *)
(* part, while the others stay as they start.                               *)
EXTENDS ContextSwitch, CopyOnWrite, SramCache, TLC

VARIABLE part    \* the part that runs

\* The memory of an idle part need not have all its contents.
PartsInit ==
    /\ part \in {"pages", "switch", "set"}
    /\ Init /\ SwitchInit /\ SetInit
    /\ part # "pages" => pm = [f \in Frame |-> CHOOSE val \in Value : TRUE]
    /\ part # "set" => LET x == CHOOSE x \in ByteValue : TRUE
                       IN  \A o \in Offset : /\ \A i \in Line : block[i][o] = x
                                             /\ \A t \in Tag : dram[t][o] = x

PartsNext ==
    /\ \/ part = "pages"  /\ Next       /\ UNCHANGED <<switchVars, setVars>>
       \/ part = "switch" /\ SwitchNext /\ UNCHANGED <<vars, setVars>>
       \/ part = "set"    /\ SetNext    /\ UNCHANGED <<vars, switchVars>>
    /\ UNCHANGED part

PartsSpec == PartsInit /\ [][PartsNext]_<<part, vars, switchVars, setVars>>

\* Interchangeable are the processes fork allocates, as it only asks whether a
\* process is the first one, and the blocks of memory; the latter and the
\* processes of the page tables have the same names.
Symmetry == Permutations(Pcb \ {FirstPcb}) \cup Permutations(Tag)
=============================================================================
