------------------------------ MODULE Dictionary ------------------------------
(* What a table of pairs promises: a key keeps the first value it got,     *)
(* until the table is thrown away.                                         *)
CONSTANTS Keys, Values

VARIABLES dict, open

vars == <<dict, open>>

Init == dict = <<>> /\ open = TRUE

Insert(k, v) ==
    /\ open = TRUE
    /\ dict' = [x \in DOMAIN dict \cup {k} |-> IF x \in DOMAIN dict THEN dict[x] ELSE v]
    /\ UNCHANGED open

Free ==
    /\ open = TRUE /\ open' = FALSE
    /\ dict' = <<>>

Next == Free \/ \E k \in Keys : \E v \in Values : Insert(k, v)

Spec == Init /\ [][Next]_vars
=============================================================================
