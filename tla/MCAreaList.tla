----------------------------- MODULE MCAreaList -----------------------------
(* Small instances of AreaList.                                            *)
EXTENDS AreaList

MCAreas == {a \in (1..7) \X (1..8) : a[2] - a[1] \in 1..2}
=============================================================================
