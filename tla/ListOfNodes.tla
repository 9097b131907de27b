---------------------------- MODULE ListOfNodes ----------------------------
(***************************************************************************)
(* What a list promises to whoever keeps nodes in it: a sequence without   *)
(* repetitions.  A node is put first, or next to one that is there; a node *)
(* is taken out; the first node is moved to the end.                       *)
(***************************************************************************)
EXTENDS Integers, Sequences, Functions

CONSTANT Nodes

VARIABLE seq

Absent == Nodes \ Range(seq)

InsertAt(s, i, x) == SubSeq(s, 1, i - 1) \o <<x>> \o SubSeq(s, i, Len(s))

RemoveAt(s, i) == SubSeq(s, 1, i - 1) \o SubSeq(s, i + 1, Len(s))

Init == seq = <<>>

Prepend(x) == seq' = <<x>> \o seq

InsertBehind(i, x) == seq' = InsertAt(seq, i + 1, x)

InsertInFrontOf(i, x) == seq' = InsertAt(seq, i, x)

TakeOut(i) == seq' = RemoveAt(seq, i)

Rotate == seq # <<>> /\ seq' = Tail(seq) \o <<Head(seq)>>

Next ==
    \/ \E x \in Absent :
          \/ Prepend(x)
          \/ \E i \in DOMAIN seq : InsertBehind(i, x) \/ InsertInFrontOf(i, x)
    \/ \E i \in DOMAIN seq : TakeOut(i)
    \/ Rotate

Spec == Init /\ [][Next]_seq
=============================================================================
