---------------------------- MODULE RedBlackTree ----------------------------
(***************************************************************************)
(* The search trees of src/algorithm: the plain binary search tree (bst.c) *)
(* and the red-black tree built on it (rbt.c), which share their nodes,    *)
(* their insertion, their deletion and their verification.                 *)
(*                                                                         *)
(* The tree is a record of the program's pointers.  NULL_ID is inside the  *)
(* domain of every pointer function and is never written: the default      *)
(* accessors return NULL_ID and COLOR_BLACK for the null node and ignore a *)
(* write to it.  One action is one call of the plain tree, or, for the     *)
(* red-black tree, the plain call followed by one action per iteration of  *)
(* the loop that floats the red node or the double black node up.          *)
(*                                                                         *)
(* A node stands for its address and for the key the caller put in it.     *)
(* rbt_remove never frees the node it unlinks; a node that is out of the   *)
(* tree is blank here, as construct_node makes the next one.               *)
(*                                                                         *)
(* A definition called "faulty" is a slip the code might have had; nothing *)
(* uses it but the tests of the properties.                                *)
(***************************************************************************)
EXTENDS Integers, Sequences, FiniteSets

CONSTANTS RbtNodes,    \* the nodes a red-black tree is fed with
          BstNodes,    \* the nodes a plain tree is fed with
          Key(_),      \* the key of a node
          MaxNodes,    \* bound: nodes in the tree at one time
          Infinite     \* 0x7FFFFFFFFFFFFFFF of bst_internal_find_succ

NULL_ID == 0      \* no node is 0
Nodes == RbtNodes \cup BstNodes

\* The addresses are not null, the keys are numbers.
KeysAreNumbers ==
    /\ NULL_ID \notin Nodes /\ Infinite \in Int
    /\ \A x \in Nodes : Key(x) \in Int

VARIABLES is_rbt,   \* which of the two trees this is
          tree,     \* root, child[direction], parent, color, and ok: no assert failed
          pc,       \* "idle", "float_up" or "rebalance"
          n,        \* float_up: the red node; rebalance: the double black node db
          p         \* rebalance: the parent of db

vars == <<is_rbt, tree, pc, n, p>>

BLACK == "COLOR_BLACK"
RED == "COLOR_RED"
LEFT == "LEFT_CHILD"
RIGHT == "RIGHT_CHILD"
Other(d) == IF d = LEFT THEN RIGHT ELSE LEFT

-----------------------------------------------------------------------------
(* The accessors and the two helpers both trees share.                     *)

Assert(t, condition) == [t EXCEPT !.ok = @ /\ condition]

SetParent(t, x, y) == IF x = NULL_ID THEN t ELSE [t EXCEPT !.parent[x] = y]

SetColor(t, x, c) == IF x = NULL_ID THEN t ELSE [t EXCEPT !.color[x] = c]

SetChild(t, x, y, d) ==
    SetParent(IF x = NULL_ID THEN t ELSE [t EXCEPT !.child[d][x] = y], y, x)

\* hang node where victim hangs
Replace(t, victim, node) ==
    LET v_parent == t.parent[victim]
    IN  IF t.root = victim
        THEN SetParent([Assert(t, v_parent = NULL_ID) EXCEPT !.root = node], node, NULL_ID)
        ELSE IF t.child[LEFT][v_parent] = victim
             THEN SetChild(t, v_parent, node, LEFT)
             ELSE SetChild(Assert(t, t.child[RIGHT][v_parent] = victim), v_parent, node, RIGHT)

Blank(t, x, c) ==
    [t EXCEPT !.parent[x] = NULL_ID, !.child = [d \in {LEFT, RIGHT} |-> [@[d] EXCEPT ![x] = NULL_ID]],
              !.color[x] = c]

-----------------------------------------------------------------------------
(* The plain tree.                                                         *)

\* the node under which a key is hung: equal keys go to the right
InsertionPoint(t, q, key) ==
    LET at[r \in Nodes] ==
            LET d == IF key < Key(r) THEN LEFT ELSE RIGHT
            IN  IF t.child[d][r] = NULL_ID THEN <<r, d>> ELSE at[t.child[d][r]]
    IN  at[q]

BstInsert(t, x) ==
    IF t.root = NULL_ID
    THEN [Blank(t, x, BLACK) EXCEPT !.root = x]
    ELSE LET at == InsertionPoint(t, t.root, Key(x)) IN SetChild(t, at[1], x, at[2])

\* Faulty: the right child is taken for the successor.
FirstRight(t, q) == q

LeftMost(t, q) ==
    LET left[r \in Nodes] == IF t.child[LEFT][r] = NULL_ID THEN r ELSE left[t.child[LEFT][r]]
    IN  left[q]

\* Faulty: the colours stay with the nodes.
ColorsStay(t, x, s) == t

SwapColors(t, x, s) == SetColor(SetColor(t, x, t.color[s]), s, t.color[x])

\* a node with two children changes places, and in a red-black tree colours, with its successor
SwapWithSuccessor(t, x) ==
    LET x_left  == t.child[LEFT][x]
        x_right == t.child[RIGHT][x]
        s       == LeftMost(t, x_right)
        s_right == t.child[RIGHT][s]
        adjacent ==
            LET t1 == Replace(SetParent([t EXCEPT !.child[RIGHT][x] = NULL_ID], s, NULL_ID), x, s)
                t2 == SetChild(t1, s, x_left, LEFT)
                t3 == SetChild(t2, x, s_right, RIGHT)
            IN  SetChild(SetChild(t3, x, NULL_ID, LEFT), s, x, RIGHT)
        remote ==
            LET t1 == SetChild(SetChild(t, x, s_right, RIGHT), x, NULL_ID, LEFT)
                t2 == SetChild(SetChild(t1, s, x_left, LEFT), s, x_right, RIGHT)
            IN  SetChild(Replace(t2, x, s), t.parent[s], x, LEFT)
        swapped == IF s = x_right THEN adjacent ELSE remote
    IN  IF is_rbt THEN SwapColors(swapped, x, s) ELSE swapped

HasTwoChildren(t, x) == t.child[LEFT][x] # NULL_ID /\ t.child[RIGHT][x] # NULL_ID

\* Faulty: the only child is taken to be the left one.
UnlinkLeft(t, x) == Replace(t, x, t.child[LEFT][x])

\* x has at most one child: it is unlinked
Unlink(t, x) ==
    LET y == IF t.child[LEFT][x] # NULL_ID THEN t.child[LEFT][x] ELSE t.child[RIGHT][x]
        redLeaf == /\ t.color[x] = BLACK
                   /\ t.color[y] = RED
                   /\ t.child[LEFT][y] = NULL_ID /\ t.child[RIGHT][y] = NULL_ID
    IN  IF y # NULL_ID /\ is_rbt
        THEN Replace(SetColor(Assert(t, redLeaf), y, BLACK), x, y)
        ELSE Replace(t, x, y)

\* Faulty: a black leaf is like any other.
NoDoubleBlack(t, x) == NULL_ID

\* the parent of the double black null that a black leaf leaves behind
DoubleBlackParent(t, x) ==
    IF is_rbt /\ t.child[LEFT][x] = NULL_ID /\ t.child[RIGHT][x] = NULL_ID /\ t.color[x] = BLACK
    THEN t.parent[x] ELSE NULL_ID

Find(t, q, key) ==
    LET find[r \in Nodes \cup {NULL_ID}] ==
            IF r = NULL_ID THEN NULL_ID
            ELSE CASE key = Key(r)  -> r
                   [] key < Key(r)  -> find[t.child[LEFT][r]]
                   [] OTHER         -> find[t.child[RIGHT][r]]
    IN  find[q]

\* successor: the closest node so far whose key is not below the wanted one
FindSuccFrom(t, q, key, successor, successor_key) ==
    LET Node == Nodes \cup {NULL_ID}
        \* at: the node looked at, the successor so far, and its key
        find[at \in Node \X Node \X Int] ==
            IF at[1] = NULL_ID THEN at[2]
            ELSE CASE key = Key(at[1])  -> at[1]
                   [] key < Key(at[1])  -> IF Key(at[1]) <= at[3]
                                           THEN find[<<t.child[LEFT][at[1]], at[1], Key(at[1])>>]
                                           ELSE find[<<t.child[LEFT][at[1]], at[2], at[3]>>]
                   [] OTHER             -> find[<<t.child[RIGHT][at[1]], at[2], at[3]>>]
    IN  find[<<q, successor, successor_key>>]

\* Faulty: the search starts with the root as its best node.
FindSuccOrRoot(t, key) == FindSuccFrom(t, t.root, key, t.root, Infinite)

FindSucc(t, key) == FindSuccFrom(t, t.root, key, NULL_ID, Infinite)

-----------------------------------------------------------------------------
(* The red-black tree.                                                     *)

\* the side of g on which p hangs, as the rotation tests it
Side(t, x, g) == IF t.child[LEFT][g] = x THEN LEFT ELSE RIGHT

\* is x the child of q away from g: then one rotation is enough
Outer(t, x, q, g) == Side(t, x, q) = Side(t, q, g)

RotationRoot(t, x, q, g) == IF Outer(t, x, q, g) THEN q ELSE x

\* lift q, or x when it is the inner grandchild, over the grandparent g
Rotate(t, x, q, g) ==
    LET d  == Side(t, q, g)
        e  == Other(d)
        t1 == Assert(t, /\ NULL_ID \notin {x, q, g}
                        /\ q = t.parent[x] /\ g = t.parent[q])
    IN  IF Outer(t, x, q, g)
        THEN LET t2 == Replace(t1, g, q)
             IN  SetChild(SetChild(t2, q, g, e), g, t.child[e][q], d)
        ELSE LET t2 == Replace(t1, g, x)
                 t3 == SetChild(SetChild(t2, x, q, d), x, g, e)
             IN  SetChild(SetChild(t3, q, t.child[d][x], e), g, t.child[e][x], d)

Sibling(t) ==
    IF t.child[LEFT][p] = n THEN t.child[RIGHT][p] ELSE t.child[LEFT][p]

\* p, its other child s and the children of s near to and far from db, with
\* what rbt_get_psnf asserts about them
Family ==
    LET s    == Sibling(tree)
        side == IF tree.child[LEFT][p] = n THEN LEFT ELSE RIGHT
    IN  [s |-> s, near |-> tree.child[side][s], far |-> tree.child[Other(side)][s],
         ok |-> n = tree.child[side][p] /\ s # NULL_ID]

Reds == {q \in Nodes : tree.color[q] = RED}

-----------------------------------------------------------------------------
InTree == {x \in Nodes : tree.root = x \/ tree.parent[x] # NULL_ID}

Init ==
    /\ is_rbt \in BOOLEAN
    /\ tree = [root |-> NULL_ID,
               child |-> [d \in {LEFT, RIGHT} |-> [x \in Nodes \cup {NULL_ID} |-> NULL_ID]],
               parent |-> [x \in Nodes \cup {NULL_ID} |-> NULL_ID],
               color |-> [x \in Nodes \cup {NULL_ID} |-> BLACK],
               ok |-> TRUE]
    /\ pc = "idle" /\ n = NULL_ID /\ p = NULL_ID

Goto(label, x, q) == pc' = label /\ n' = x /\ p' = q

Return == Goto("idle", NULL_ID, NULL_ID)

Running(label) == pc = label /\ tree.ok /\ UNCHANGED is_rbt

\* bst_add, rbt_add: the node is fresh from construct_node
Add(x) ==
    /\ Running("idle")
    /\ x \in (IF is_rbt THEN RbtNodes ELSE BstNodes) \ InTree
    /\ Cardinality(InTree) < MaxNodes
    /\ tree' = BstInsert(Blank(tree, x, IF is_rbt THEN RED ELSE BLACK), x)
    /\ IF is_rbt THEN Goto("float_up", x, NULL_ID) ELSE Return

\* Faulty: the loop does not end at the root.
FloatUpForever ==
    /\ Running("float_up")
    /\ tree.parent[n] \notin Reds \cup {NULL_ID}
    /\ UNCHANGED tree
    /\ Return

FloatUpDone ==
    /\ Running("float_up")
    /\ LET q == tree.parent[n]
       IN  \/ q = NULL_ID /\ tree' = SetColor(tree, n, BLACK)
           \/ q \notin Reds \cup {NULL_ID} /\ tree' = Assert(tree, n \in Reds)
    /\ Return

\* two reds in a row: rotate, and the root of the rotated tree is the next red
FloatUp ==
    /\ Running("float_up")
    /\ tree.parent[n] \in Reds
    /\ LET q == tree.parent[n]
           g == tree.parent[q]
           r_root == RotationRoot(tree, n, q, g)
           t1 == Rotate(Assert(tree, n \in Reds /\ g \notin Reds), n, q, g)
           t2 == SetColor(SetColor(SetColor(t1, g, BLACK), q, BLACK), n, BLACK)
       IN  /\ tree' = SetColor(t2, r_root, RED)
           /\ Goto("float_up", r_root, NULL_ID)

\* bst_delete and the first half of rbt_delete
Delete(x) ==
    /\ Running("idle")
    /\ x \in InTree
    /\ LET t1 == IF HasTwoChildren(tree, x) THEN SwapWithSuccessor(tree, x) ELSE tree
           t2 == Assert(t1, HasTwoChildren(tree, x) => t1.child[LEFT][x] = NULL_ID)
           db_parent == DoubleBlackParent(t2, x)
       IN  /\ tree' = Blank(Unlink(t2, x), x, BLACK)
           /\ IF db_parent = NULL_ID THEN Return ELSE Goto("rebalance", NULL_ID, db_parent)

\* the loop test of rbt_internal_delete: the double black reached the root
RebalanceDone ==
    /\ Running("rebalance") /\ n = tree.root
    /\ UNCHANGED tree
    /\ Return

Rebalancing == Running("rebalance") /\ n # tree.root

\* case 0xF: everybody is black, the double black moves to the parent
AllBlack ==
    /\ Rebalancing
    /\ {p, Family.s, Family.near, Family.far} \cap Reds = {}
    /\ tree' = SetColor(Assert(tree, Family.ok), Family.s, RED)
    /\ Goto("rebalance", p, tree.parent[p])

\* case 0xB: a red sibling is rotated away, the double black stays
RedSibling ==
    /\ Rebalancing
    /\ {p, Family.s, Family.near, Family.far} \cap Reds = {Family.s}
    /\ LET t1 == Rotate(Assert(tree, Family.ok), Family.far, Family.s, p)
       IN  tree' = SetColor(SetColor(t1, Family.s, BLACK), p, RED)
    /\ UNCHANGED <<pc, n, p>>

\* case 0x7: a red parent takes the blackness
RedParent ==
    /\ Rebalancing
    /\ {p, Family.s, Family.near, Family.far} \cap Reds = {p}
    /\ tree' = SetColor(SetColor(Assert(tree, Family.ok), p, BLACK), Family.s, RED)
    /\ Return

\* cases 0x4, 0x5, 0xC, 0xD: a red near nephew is lifted over the parent
RedNear ==
    /\ Rebalancing
    /\ Family.s \notin Reds /\ Family.near \in Reds
    /\ LET t1 == Rotate(Assert(tree, Family.ok), Family.near, Family.s, p)
           t2 == SetColor(SetColor(t1, p, BLACK), Family.s, BLACK)
       IN  tree' = SetColor(t2, Family.near, tree.color[p])
    /\ Return

\* cases 0x6, 0xE: the sibling is lifted, its far red child becomes black
RedFar ==
    /\ Rebalancing
    /\ {Family.s, Family.near} \cap Reds = {} /\ Family.far \in Reds
    /\ LET t1 == Rotate(Assert(tree, Family.ok), Family.far, Family.s, p)
           t2 == SetColor(SetColor(t1, p, BLACK), Family.s, tree.color[p])
       IN  tree' = SetColor(t2, Family.far, BLACK)
    /\ Return

\* the default of the switch is assert(0): the sibling and one more are red
CaseListed ==
    pc = "rebalance" /\ n # tree.root /\ Family.s \in Reds
        => {p, Family.near, Family.far} \cap Reds = {}

Iterate ==
    \/ FloatUpDone \/ FloatUp
    \/ RebalanceDone \/ AllBlack \/ RedSibling \/ RedParent \/ RedNear \/ RedFar

Next ==
    \/ \E x \in Nodes : Add(x) \/ Delete(x)
    \/ Iterate

\* one thread runs the loop of a call until it returns
Spec == Init /\ [][Next]_vars /\ WF_vars(Iterate)

-----------------------------------------------------------------------------
(* What the tree must be.                                                  *)

InOrder(t, q) ==
    LET order[r \in Nodes \cup {NULL_ID}] ==
            IF r = NULL_ID THEN <<>>
            ELSE order[t.child[LEFT][r]] \o <<r>> \o order[t.child[RIGHT][r]]
    IN  order[q]

\* the number of black nodes on every path below q, -1 when paths differ;
\* the double black node, or the null in its place, counts once more
BlackHeight(q, above) ==
    LET Node == Nodes \cup {NULL_ID}
        \* at: a node and its parent
        height[at \in Node \X Node] ==
            LET l == height[<<tree.child[LEFT][at[1]], at[1]>>]
                h == height[<<tree.child[RIGHT][at[1]], at[1]>>]
                extra == IF pc = "rebalance" /\ at = <<n, p>> THEN 1 ELSE 0
            IN  IF at[1] = NULL_ID THEN extra
                ELSE IF l # h \/ l = -1 THEN -1
                ELSE l + extra + (IF tree.color[at[1]] = RED THEN 0 ELSE 1)
    IN  height[<<q, above>>]

\* No assert of the tree code fails, in any call sequence: every rotation is
\* given a node, its parent and its grandparent, a black node with one child
\* has a red leaf there, the sibling of a double black node exists, and the
\* switch of rbt_internal_delete never reaches its default (rbt.c:43-49,
\* 143-155, 227-233, 336; bst.c:118, 143, 276, 298-300, 364).
AssertsHold == tree.ok /\ CaseListed

\* The nodes that hang in the tree are those its children lead to, their
\* keys are sorted in order, and every child names its parent, at EVERY step,
\* also between two rotations; the code checks the keys only when a call is
\* over (rbt_verify_dfs) and the parent links never.
SearchTree ==
    LET s == InOrder(tree, tree.root)
    IN  /\ Len(s) = Cardinality(InTree) /\ {s[i] : i \in DOMAIN s} = InTree
        /\ \A i \in 1 .. Len(s) - 1 : Key(s[i]) <= Key(s[i + 1])
        /\ \A d \in {LEFT, RIGHT} : \A x \in InTree :
                tree.child[d][x] # NULL_ID => tree.parent[tree.child[d][x]] = x
        /\ tree.parent[tree.root] = NULL_ID

\* The balance of a red-black tree, between calls and during one: every path
\* has the same number of black nodes once the double black node counts
\* twice, a red node has a red parent only where the insertion stands, and
\* the root is black as soon as the call returns (rbt_internal_verify).
Balanced ==
    is_rbt =>
        /\ BlackHeight(tree.root, NULL_ID) # -1
        /\ \A x \in Reds :
               tree.parent[x] \in Reds => pc = "float_up" /\ x = n
        /\ pc = "idle" => tree.root \notin Reds

\* Lookups between calls: bst_find finds some node of the key exactly when one
\* is in the tree, wherever rotations have moved equal keys; bst_find_succ
\* returns some closest node at or above the key, unless all of those are above
\* Infinite.  The comments promise more: FoundLeftmost and AboveFound.
LookupsExact ==
    pc = "idle" =>
        \A y \in Nodes : \A i \in {0, 1} :
            LET key == Key(y) - i
                above == {x \in InTree : Key(x) >= key}
                succ == FindSucc(tree, key)
            IN  /\ (Find(tree, tree.root, key) # NULL_ID) <=> \E x \in above : Key(x) = key
                /\ IF succ = NULL_ID
                   THEN \A x \in above : Key(x) > Infinite
                   ELSE succ \in above /\ \A x \in above : Key(succ) <= Key(x)

Under(q) ==
    LET under[r \in Nodes \cup {NULL_ID}] ==
            IF r = NULL_ID THEN {}
            ELSE {r} \cup under[tree.child[LEFT][r]] \cup under[tree.child[RIGHT][r]]
    IN  under[q]

\* bst.c:395-396 and 441-442: of equal nodes, a lookup returns "the most left".
FoundLeftmost ==
    pc = "idle" =>
        \A x \in InTree : \A q \in {Find(tree, tree.root, Key(x)), FindSucc(tree, Key(x))} :
            \A y \in Under(tree.child[LEFT][q]) : Key(y) # Key(q)

\* bst.c:464: bst_find_succ returns NULL_ID "if no node key >= target key", and
\* its infinity "should be large enough" (431) for that.
AboveFound ==
    pc = "idle" =>
        \A x \in InTree : FindSucc(tree, Key(x)) # NULL_ID /\ FindSucc(tree, Key(x) - 1) # NULL_ID

Abstract == INSTANCE KeyedSet WITH members <- Under(tree.root)

\* Rotating, recolouring and swapping a node with its successor neither lose
\* nor duplicate a node: the tree implements a set that an insertion and a
\* deletion change by exactly the node they were given.
ImplementsSet == Abstract!Spec

\* Every call returns: neither loop of the red-black tree runs for ever, the
\* red-sibling case included, which leaves the double black where it was.
CallReturns == pc # "idle" ~> pc = "idle"
=============================================================================
