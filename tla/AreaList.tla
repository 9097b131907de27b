------------------------------ MODULE AreaList ------------------------------
(***************************************************************************)
(* The virtual memory areas of a process (process/wmarea.c): a circular    *)
(* list kept in order of addresses by vma_add_area, copied by fork and     *)
(* searched by the page fault handler.                                     *)
(*                                                                         *)
(* The list is the generic one, given an interface whose get_node_next is  *)
(* get_prev_vma.  Addresses are counted in pages.  An area is identified   *)
(* by its bounds; every area has a file or a mode of its own, so that two  *)
(* areas could not be merged even if they touched.                         *)
(***************************************************************************)
EXTENDS Integers, FiniteSets

CONSTANTS Areas,          \* the areas a loader may add, <<vma_start, vma_end>>, not empty
          MaxAreas        \* bound: areas of the process

NoArea == <<0, 0>>      \* the null pointer

L == INSTANCE CircularList WITH Nodes <- Areas, NULL <- NoArea, NextField <- "prev"

VARIABLES vma,     \* mm.vma of the process: head, count and links
          added,   \* the areas vma_add_area was given
          halt     \* an assertion failed

vars == <<vma, added, halt>>

Start(a) == a[1]
End(a) == a[2]
Disjoint(a, b) == End(a) <= Start(b) \/ End(b) <= Start(a)

\* the areas as every loop of the file walks them: count steps along next
Walk(l) ==
    LET walk[i \in 1 .. l.count] == IF i = 1 THEN l.head ELSE l.next[walk[i - 1]]
    IN  walk

\* check_vm_areas never moves prev and next: it compares the first two areas
CheckPasses(l) == l.count > 1 => End(l.head) <= Start(l.next[l.head])

\* The assertions of can_vmas_merge.  They leave it no case in which to
\* return true: areas that touch, which it is about, fail the second one.
MergeTestPasses(prv, nxt) == Start(prv) < Start(nxt) /\ End(prv) < Start(nxt)

\* the first area of the walk that starts above a, or the end of the loop
Behind(l, a) == {i \in 1 .. l.count : Start(a) < Start(Walk(l)[i])}

\* Faulty: the last such area.
LastAbove(l, a) == CHOOSE i \in Behind(l, a) : \A j \in Behind(l, a) : i >= j

FirstAbove(l, a) == CHOOSE i \in Behind(l, a) : \A j \in Behind(l, a) : i <= j

\* The p left by the loop, count steps along next from the head: the head
\* again, unless an area was cut off the ring and count is too high.
LoopEnd(l) == l.next[Walk(l)[l.count]]

\* No assertion fails when a is added to l.
AddPasses(l, a) ==
    l.count > 0 =>
        /\ CheckPasses(l)
        /\ Start(a) # Start(l.head)
        /\ IF Behind(l, a) # {} THEN MergeTestPasses(a, Walk(l)[FirstAbove(l, a)])
           ELSE MergeTestPasses(LoopEnd(l), a)

\* vma_add_area
Added(l, a) ==
    IF l.count = 0 THEN L!Insert(l, a)
    ELSE IF Behind(l, a) # {} THEN L!InsertBefore(l, Walk(l)[FirstAbove(l, a)], a)
         ELSE L!InsertAfter(l, LoopEnd(l), a)

\* search_vma_vaddr: the first area of the walk with the page, or none
Holding(l, page) == {i \in 1 .. l.count : Start(Walk(l)[i]) <= page /\ page < End(Walk(l)[i])}
SearchVma(l, page) ==
    IF Holding(l, page) = {} THEN NoArea
    ELSE Walk(l)[CHOOSE i \in Holding(l, page) : \A j \in Holding(l, page) : i <= j]

Init == vma = L!Empty /\ added = {} /\ halt = FALSE

\* The loader adds an area of its own pages
AddArea(a) ==
    /\ ~halt
    /\ Cardinality(added) < MaxAreas
    /\ \A b \in added : Disjoint(a, b)
    /\ halt' = ~AddPasses(vma, a)
    /\ IF halt' THEN UNCHANGED <<vma, added>>
       ELSE vma' = Added(vma, a) /\ added' = added \cup {a}

\* copy_vmareas: a copy of every area of the walk is added to an empty list;
\* the model follows the child.  A walk that meets an area again, because
\* another one was cut off, would add two copies of it: as areas are
\* identified by their bounds here, the model does not fork such a list.
Fork ==
    /\ ~halt
    /\ \A i, j \in 1 .. vma.count : i # j => Walk(vma)[i] # Walk(vma)[j]
    /\ LET copy[i \in 0 .. vma.count] ==
              IF i = 0 THEN [l |-> L!Empty, ok |-> TRUE]
              ELSE LET c == copy[i - 1]
                       a == Walk(vma)[i]
                   IN  IF c.ok /\ AddPasses(c.l, a)
                       THEN [c EXCEPT !.l = Added(@, a)] ELSE [c EXCEPT !.ok = FALSE]
           child == copy[vma.count]
       IN  /\ halt' = ~child.ok
           /\ vma' = IF halt' THEN vma ELSE child.l
    /\ UNCHANGED added

Next == (\E a \in Areas : AddArea(a)) \/ Fork

Spec == Init /\ [][Next]_vars

-----------------------------------------------------------------------------
\* wmarea.c:218, "note that vma should be SORTED": the walk meets areas in
\* ascending order.
Sorted ==
    LET w == Walk(vma) IN \A i \in 1 .. vma.count - 1 : Start(w[i]) < Start(w[i + 1])

\* However the areas were added and copied, the head is the lowest of them
\* all, which check_vm_areas and the end of the loop of vma_add_area rely
\* on; and with the text and stack areas of the repository's programs, two,
\* every page of an added area is found and no other, also after forks.
HeadLowest ==
    /\ added # {} => vma.head \in added /\ \A a \in added : Start(vma.head) <= Start(a)
    /\ Cardinality(added) <= 2 =>
          /\ Sorted
          /\ \A a \in Areas : SearchVma(vma, Start(a)) =
                LET own == {b \in added : Start(b) <= Start(a) /\ Start(a) < End(b)}
                IN  IF own = {} THEN NoArea ELSE CHOOSE b \in own : TRUE
=============================================================================
