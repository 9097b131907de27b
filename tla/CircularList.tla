---------------------------- MODULE CircularList ----------------------------
(***************************************************************************)
(* The generic circular list of algorithm/linkedlist.c as operators on a   *)
(* list l, a record of its head, its count and the links of its nodes.     *)
(* The caller's node interface is two parameters: the field its            *)
(* get_node_next reads and the nodes there may be.  Accessors given the    *)
(* null node return the null node and write nothing.                       *)
(***************************************************************************)
EXTENDS Integers

CONSTANTS Nodes,       \* the nodes there may be
          NULL,        \* the null node, none of them
          NextField    \* "next", or "prev" for an interface that mixes them up

Unlinked == [x \in Nodes \cup {NULL} |-> NULL]

Empty == [head |-> NULL, count |-> 0, next |-> Unlinked, prev |-> Unlinked]

GetNext(l, x) == l[NextField][x]

GetPrev(l, x) == l.prev[x]

SetNext(l, x, y) == IF x = NULL THEN l ELSE [l EXCEPT !.next[x] = y]

SetPrev(l, x, y) == IF x = NULL THEN l ELSE [l EXCEPT !.prev[x] = y]

\* linkedlist_internal_insert: the node becomes the head
Insert(l, x) ==
    IF l.count = 0
    THEN SetNext(SetPrev([l EXCEPT !.head = x, !.count = 1], x, x), x, x)
    ELSE LET head_prev == GetPrev(l, l.head)
             ahead == SetPrev(SetNext(l, x, l.head), l.head, x)
         IN  [SetNext(SetPrev(ahead, x, head_prev), head_prev, x)
                EXCEPT !.head = x, !.count = @ + 1]

\* Faulty: the link to the next node is read after it was overwritten.
InsertAfterLate(l, y, x) ==
    LET linked == SetPrev(SetNext(l, y, x), x, y)
        y_next == GetNext(linked, y)
    IN  [SetPrev(SetNext(linked, x, y_next), y_next, x) EXCEPT !.count = @ + 1]

\* linkedlist_internal_insert_after
InsertAfter(l, y, x) ==
    LET y_next == GetNext(l, y)
        behind == SetPrev(SetNext(l, x, y_next), y_next, x)
    IN  [SetNext(SetPrev(behind, x, y), y, x) EXCEPT !.count = @ + 1]

\* linkedlist_internal_insert_before
InsertBefore(l, y, x) ==
    LET y_prev == GetPrev(l, y)
        ahead == SetPrev(SetPrev(SetNext(l, x, y), x, y_prev), y, x)
    IN  [SetNext(ahead, y_prev, x)
           EXCEPT !.count = @ + 1, !.head = IF y = l.head THEN x ELSE @]

\* Faulty: the head stays when it is deleted.
DeleteKeepsHead(l, x) ==
    LET prv == GetPrev(l, x)
        nxt == GetNext(l, x)
    IN  [SetPrev(SetNext(l, prv, nxt), nxt, prv)
           EXCEPT !.count = @ - 1, !.head = IF l.count = 1 THEN NULL ELSE @]

\* linkedlist_internal_delete
Delete(l, x) ==
    LET prv == GetPrev(l, x)
        nxt == GetNext(l, x)
    IN  [SetPrev(SetNext(l, prv, nxt), nxt, prv)
           EXCEPT !.count = @ - 1,
                  !.head = IF l.count = 1 THEN NULL ELSE IF x = l.head THEN nxt ELSE @]

\* the node i steps behind the head
Steps(l, i) ==
    LET walk[k \in 0 .. i] == IF k = 0 THEN l.head ELSE GetNext(l, walk[k - 1]) IN walk[i]

\* linkedlist_internal_index: its loop takes one step more than the index
Index(l, i) == IF i >= l.count THEN NULL ELSE Steps(l, i + 1)

\* linkedlist_internal_next: the old head is returned, the next one is the head
Advance(l) == IF l.head = NULL THEN l ELSE [l EXCEPT !.head = GetNext(l, @)]
=============================================================================
