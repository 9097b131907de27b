------------------------------ MODULE KeyedSet ------------------------------
(***************************************************************************)
(* What a search tree promises to whoever keeps nodes in it: a set of      *)
(* nodes, to which a node that is not in it is added and from which a node *)
(* that is in it is taken, one at a time.  How the nodes hang together, and*)
(* every rotation and recolouring, is invisible.                           *)
(***************************************************************************)
CONSTANT Nodes

VARIABLE members

Init == members = {}

Add(x) == x \notin members /\ members' = members \cup {x}

Delete(x) == x \in members /\ members' = members \ {x}

Next == \E x \in Nodes : Add(x) \/ Delete(x)

Spec == Init /\ [][Next]_members
=============================================================================
