--------------------------- MODULE CoherentMemory ---------------------------
(***************************************************************************)
(* What the cores of test_mesi.c share: one value.  A read returns the     *)
(* last value written by any core, whoever has it cached; main memory may  *)
(* lag behind while some core has the line modified.  No step loses the    *)
(* value.                                                                  *)
(***************************************************************************)
CONSTANTS Value

VARIABLES
    value,       \* what a read returns
    stored,      \* what main memory holds
    dirty,       \* some core has the line modified
    result       \* what the last read returned

vars == <<value, stored, dirty, result>>

\* A core that gets the line from one that has it modified makes that core
\* write it back.
WriteBack == dirty /\ stored' = value

Write ==
    /\ value' \in Value
    /\ dirty'
    /\ WriteBack \/ UNCHANGED stored
    /\ UNCHANGED result

Read ==
    /\ result' = value
    /\ \/ WriteBack /\ ~dirty'
       \/ UNCHANGED <<stored, dirty>>
    /\ UNCHANGED value

Init == value = stored /\ ~dirty

Next == Write \/ Read

Spec == Init /\ [][Next]_vars
=============================================================================
