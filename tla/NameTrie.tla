------------------------------- MODULE NameTrie -------------------------------
(***************************************************************************)
(* The tries of common/mytrie.c, in which the instruction set looks up the *)
(* names of registers and operators: init_register_tree and                *)
(* init_operator_tree, which are the same but for the type of the value,   *)
(* and the two lookups.  A node is named by the letters that lead to it.   *)
(* One step inserts one element of the table.                              *)
(*                                                                         *)
(* A definition called "faulty" is a slip the code might have had; nothing *)
(* uses it but the tests of the properties.                                *)
(***************************************************************************)
EXTENDS Integers, Sequences, FiniteSets

CONSTANTS
    TableNames,     \* the names of the table, sequences of letters
    MaxElements     \* bound: elements of the table

VARIABLES
    nodes,          \* from the letters that lead to a node: leaf and value
    elements        \* the elements inserted, each with a value of its own

vars == <<nodes, elements>>

Prefixes(name) == {SubSeq(name, 1, i) : i \in 0..Len(name)}

\* create_node(0, false, false, 0, 0)
Init ==
    /\ nodes = [x \in {<<>>} |-> [leaf |-> FALSE, value |-> 0]]
    /\ elements = <<>>

\* Faulty: a node takes the value of the last name that passes it.
Overwritten(name, value) ==
    [x \in DOMAIN nodes \cup Prefixes(name) |->
        [leaf  |-> x = name \/ (x \in DOMAIN nodes /\ nodes[x].leaf),
         value |-> IF x \in Prefixes(name) THEN value ELSE nodes[x].value]]

\* a node keeps the value of the first name that made it
Inserted(name, value) ==
    [x \in DOMAIN nodes \cup Prefixes(name) |->
        [leaf  |-> x = name \/ (x \in DOMAIN nodes /\ nodes[x].leaf),
         value |-> IF x \in DOMAIN nodes THEN nodes[x].value ELSE value]]

Insert(name) ==
    /\ Len(elements) < MaxElements
    /\ nodes' = Inserted(name, Len(elements) + 1)
    /\ elements' = Append(elements, name)

Next == \E name \in TableNames : Insert(name)

Spec == Init /\ [][Next]_vars

\* register_address and operator_type: a name that leads nowhere, or to a
\* node that is no leaf, ends the program
Known(name) == name \in DOMAIN nodes /\ nodes[name].leaf
Lookup(name) == nodes[name].value

-----------------------------------------------------------------------------
Index(name) == {i \in DOMAIN elements : elements[i] = name}
First(is) == CHOOSE i \in is : \A j \in is : i <= j

\* The names of the table are known, and no others: no prefix of a name, and
\* the empty name only if it is in the table (as the unused thirteenth element
\* of the operators is, isa.c:458: an empty operator is a mov).  Another name
\* has the value of its first element, unless a longer name came before it:
\* then it has the value of the first name that begins with it.  The tables
\* of isa.c (374, 458) depend on it: they must list %si before %sih.
NamesFound ==
    /\ {x \in DOMAIN nodes : Known(x)} = {elements[i] : i \in DOMAIN elements}
    /\ \A x \in DOMAIN nodes \ {<<>>} :
           LET longer == {i \in DOMAIN elements : x \in Prefixes(elements[i]) \ {elements[i]}}
           IN  /\ Known(x) /\ (\A i \in longer : First(Index(x)) < i) => Lookup(x) = First(Index(x))
               /\ Lookup(x) = First(longer \cup Index(x))
=============================================================================
