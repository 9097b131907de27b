----------------------------- MODULE LinkedList -----------------------------
(***************************************************************************)
(* A linkedlist_t and its nodes, from linkedlist_construct over any        *)
(* sequence of operations to linkedlist_free (algorithm/linkedlist.c).     *)
(* linkedlist_free is one action per node, because it reads the links of   *)
(* nodes it is about to free, or has freed, and counts on a count it does  *)
(* not keep up to date.                                                    *)
(***************************************************************************)
EXTENDS Integers, Sequences, FiniteSets

CONSTANTS Nodes, NULL

L == INSTANCE CircularList WITH NextField <- "next"

VARIABLES list,      \* the list: head, count, links
          alive,     \* nodes that are allocated
          freed,     \* nodes linkedlist_free has destructed, -1 when it does not run
          ok         \* no operation has touched a node that is not allocated

vars == <<list, alive, freed, ok>>

Touch(xs) == ok' = (ok /\ xs \subseteq alive \cup {NULL})

Init == list = L!Empty /\ alive = {} /\ freed = -1 /\ ok = TRUE

Idle == freed = -1 /\ UNCHANGED freed

\* linkedlist_add
Add(x) ==
    /\ Idle
    /\ alive' = alive \cup {x}
    /\ list' = L!Insert(list, x)
    /\ UNCHANGED ok

InsertAfter(y, x) ==
    /\ Idle
    /\ alive' = alive \cup {x}
    /\ list' = L!InsertAfter(list, y, x)
    /\ UNCHANGED ok

InsertBefore(y, x) ==
    /\ Idle
    /\ alive' = alive \cup {x}
    /\ list' = L!InsertBefore(list, y, x)
    /\ UNCHANGED ok

\* linkedlist_delete; what free leaves in the node is of no interest
Delete(x) ==
    /\ Idle
    /\ Touch({L!GetPrev(list, x), L!GetNext(list, x)})
    /\ alive' = alive \ {x}
    /\ list' = L!SetNext(L!SetPrev(L!Delete(list, x), x, NULL), x, NULL)

\* linkedlist_next
NextNode ==
    /\ Idle
    /\ list.head # NULL
    /\ Touch({list.head})
    /\ list' = L!Advance(list)
    /\ UNCHANGED alive

\* linkedlist_free is called
FreeStart ==
    /\ freed = -1
    /\ freed' = 0
    /\ UNCHANGED <<list, alive, ok>>

\* Faulty: nodes are destructed in the order of the ring, but not unlinked.
FreeLinked ==
    /\ freed \in 0 .. list.count - 1
    /\ Touch({list.head, L!GetPrev(list, list.head), L!GetNext(list, list.head)})
    /\ alive' = alive \ {list.head}
    /\ list' = [list EXCEPT !.head = L!GetNext(list, @)]
    /\ freed' = freed + 1

\* one pass of its loop: the head advances, the old head is unlinked unless
\* it was alone, and destructed
FreeNode ==
    /\ freed \in 0 .. list.count - 1
    /\ LET node == list.head
           prv  == L!GetPrev(list, node)
           nxt  == L!GetNext(list, node)
           unlinked == L!SetPrev(L!SetNext(list, prv, nxt), nxt, prv)
       IN  /\ Touch(IF nxt = node THEN {node} ELSE {node, prv, nxt})
           /\ alive' = alive \ {node}
           /\ list' = [L!SetNext(L!SetPrev(IF nxt = node THEN list ELSE unlinked,
                                           node, NULL), node, NULL) EXCEPT !.head = nxt]
    /\ freed' = freed + 1

\* its end, and linkedlist_construct for the next list
FreeEnd ==
    /\ freed = list.count
    /\ list' = L!Empty
    /\ freed' = -1
    /\ UNCHANGED <<alive, ok>>

Next ==
    \/ \E x \in Nodes \ alive :
          Add(x) \/ \E y \in alive : InsertAfter(y, x) \/ InsertBefore(y, x)
    \/ \E x \in alive : Delete(x)
    \/ NextNode \/ FreeStart \/ FreeNode \/ FreeEnd

Spec == Init /\ [][Next]_vars

-----------------------------------------------------------------------------
Left == IF freed = -1 THEN list.count ELSE list.count - freed

Contents == [i \in 1 .. Left |-> L!Steps(list, i - 1)]

\* Whatever was inserted before, after and deleted, the nodes form one ring
\* in both directions, with as many nodes as the count says; every node is
\* reached once by linkedlist_index although its loop steps past the index.
OneRing ==
    /\ Left = Cardinality(alive)
    /\ \A x \in alive : /\ list.next[x] \in alive /\ list.prev[list.next[x]] = x
                        /\ list.prev[x] \in alive /\ list.next[list.prev[x]] = x
    /\ freed = -1 => {L!Index(list, i) : i \in 0 .. list.count - 1} = alive

\* No operation follows a link to a node that was freed, and linkedlist_free
\* frees every node once and leaves none behind, although it trusts a count
\* it took before and unlinks nodes of a ring it is tearing down.
FreesExactly == ok /\ (freed = list.count => alive = {})

Abstract == INSTANCE ListOfNodes WITH seq <- Contents

\* The list implements a sequence of nodes: insertions keep the order of the
\* others, a deletion closes the gap (the head's successor takes over from a
\* deleted head), linkedlist_next rotates.
ImplementsList == Abstract!Spec
=============================================================================
