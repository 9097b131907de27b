---------------------------- MODULE Trees_proofs ----------------------------
(***************************************************************************)
(* For any nodes and keys and any sequence of calls, the two trees of      *)
(* RedBlackTree stay search trees with exact parent links, the red-black   *)
(* tree stays balanced and no assert fails, also between two iterations of *)
(* a call.                                                                 *)
(*                                                                         *)
(* First what holds of trees in general: each node has a place in the      *)
(* order, and an operation on the pointers keeps the places of the nodes.  *)
(* Then what the operations of the code do to the pointers, and the        *)
(* inductive invariant, one lemma per action.                              *)
(***************************************************************************)
EXTENDS Structures, FiniteSetTheorems, Orders_proofs

-----------------------------------------------------------------------------
(* Search trees.  T is the set of their nodes, A and B lead to the child   *)
(* below and above a node, P to its parent, and 0 is nothing.  A node has  *)
(* a place pos among the nodes, and those under it are the ones whose      *)
(* places lie between lo and hi.                                           *)

Bounded(T, pos, lo, hi) ==
    /\ pos \in [T -> Int] /\ lo \in [T -> Int] /\ hi \in [T -> Int]
    /\ \A x \in T : lo[x] < pos[x] /\ pos[x] < hi[x]
    /\ \A x, y \in T : pos[x] = pos[y] => x = y

Hung(T, A, B, P, pos, lo, hi) ==
    \A x \in T :
        /\ A[x] \in T \cup {0} /\ B[x] \in T \cup {0}
        /\ IF A[x] = 0 THEN pos[x] = lo[x] + 1
           ELSE lo[A[x]] = lo[x] /\ hi[A[x]] = pos[x] /\ P[A[x]] = x
        /\ IF B[x] = 0 THEN hi[x] = pos[x] + 1
           ELSE lo[B[x]] = pos[x] /\ hi[B[x]] = hi[x] /\ P[B[x]] = x

Rooted(T, root, A, B, P, pos, lo, hi) ==
    /\ IF T = {} THEN root = 0
       ELSE root \in T /\ P[root] = 0 /\ \A x \in T : lo[root] < pos[x] /\ pos[x] < hi[root]
    /\ \A x \in T : x # root => P[x] \in T /\ (A[P[x]] = x \/ B[P[x]] = x)

Shape(T, root, A, B, P, pos, lo, hi) ==
    /\ 0 \notin T
    /\ Bounded(T, pos, lo, hi)
    /\ Hung(T, A, B, P, pos, lo, hi)
    /\ Rooted(T, root, A, B, P, pos, lo, hi)

Fits(T, root, A, B, P, pos) == \E lo, hi : Shape(T, root, A, B, P, pos, lo, hi)

Neg(T, f) == [x \in T |-> - f[x]]

\* The mirror image of a tree is a tree.
LEMMA Mirror ==
    ASSUME NEW T, NEW root, NEW A, NEW B, NEW P, NEW pos, Fits(T, root, A, B, P, pos)
    PROVE  /\ Fits(T, root, B, A, P, Neg(T, pos))
           /\ pos \in [T -> Int] /\ Neg(T, Neg(T, pos)) = pos
<1>1. PICK lo, hi : Shape(T, root, A, B, P, pos, lo, hi)
  BY DEF Fits
<1>2. /\ pos \in [T -> Int] /\ lo \in [T -> Int] /\ hi \in [T -> Int]
      /\ \A x \in T : lo[x] < pos[x] /\ pos[x] < hi[x]
      /\ \A x, y \in T : pos[x] = pos[y] => x = y
  BY <1>1 DEF Shape, Bounded
<1>3. PICK pos2, lo2, hi2 : pos2 = Neg(T, pos) /\ lo2 = Neg(T, hi) /\ hi2 = Neg(T, lo)
  OBVIOUS
<1>4. /\ pos2 \in [T -> Int] /\ lo2 \in [T -> Int] /\ hi2 \in [T -> Int]
      /\ \A x \in T : pos2[x] = - pos[x] /\ lo2[x] = - hi[x] /\ hi2[x] = - lo[x]
  BY <1>2, <1>3 DEF Neg
<1>5. Bounded(T, pos2, lo2, hi2)
  BY <1>2, <1>4 DEF Bounded
<1>6. Hung(T, B, A, P, pos2, lo2, hi2)
  <2>. SUFFICES ASSUME NEW x \in T
                PROVE  /\ A[x] \in T \cup {0} /\ B[x] \in T \cup {0}
                       /\ IF B[x] = 0 THEN pos2[x] = lo2[x] + 1
                          ELSE lo2[B[x]] = lo2[x] /\ hi2[B[x]] = pos2[x] /\ P[B[x]] = x
                       /\ IF A[x] = 0 THEN hi2[x] = pos2[x] + 1
                          ELSE lo2[A[x]] = pos2[x] /\ hi2[A[x]] = hi2[x] /\ P[A[x]] = x
    BY DEF Hung
  <2>. QED
    BY <1>1, <1>2, <1>4 DEF Shape, Hung
<1>7. Rooted(T, root, B, A, P, pos2, lo2, hi2)
  BY <1>1, <1>2, <1>4 DEF Shape, Rooted
<1>8. Neg(T, pos2) = pos
  BY <1>2, <1>4 DEF Neg
<1>. QED
  BY <1>1, <1>2, <1>3, <1>5, <1>6, <1>7, <1>8 DEF Fits, Shape

\* q, which hung below g, is lifted over it.
Lifted(T, root, A, B, P, root2, A2, B2, P2, q, g) ==
    /\ root2 = IF root = g THEN q ELSE root
    /\ \A z \in T :
          /\ A2[z] = IF z = g THEN B[q] ELSE IF A[z] = g THEN q ELSE A[z]
          /\ B2[z] = IF z = q THEN g ELSE IF B[z] = g THEN q ELSE B[z]
          /\ P2[z] = IF z = q THEN P[g] ELSE IF z = g THEN q ELSE IF z = B[q] THEN g ELSE P[z]

LEMMA LiftedFits ==
    ASSUME NEW T, NEW root, NEW A, NEW B, NEW P, NEW pos, Fits(T, root, A, B, P, pos),
           NEW g \in T, NEW q \in T, A[g] = q,
           NEW root2, NEW A2, NEW B2, NEW P2,
           Lifted(T, root, A, B, P, root2, A2, B2, P2, q, g)
    PROVE  Fits(T, root2, A2, B2, P2, pos)
<1>1. PICK lo, hi : Shape(T, root, A, B, P, pos, lo, hi)
  BY DEF Fits
<1>2. /\ pos \in [T -> Int] /\ lo \in [T -> Int] /\ hi \in [T -> Int] /\ 0 \notin T
      /\ \A x \in T : lo[x] < pos[x] /\ pos[x] < hi[x]
      /\ \A x, y \in T : pos[x] = pos[y] => x = y
  BY <1>1 DEF Shape, Bounded
<1>3. \A x \in T :
        /\ A[x] \in T \cup {0} /\ B[x] \in T \cup {0}
        /\ IF A[x] = 0 THEN pos[x] = lo[x] + 1
           ELSE lo[A[x]] = lo[x] /\ hi[A[x]] = pos[x] /\ P[A[x]] = x
        /\ IF B[x] = 0 THEN hi[x] = pos[x] + 1
           ELSE lo[B[x]] = pos[x] /\ hi[B[x]] = hi[x] /\ P[B[x]] = x
  BY <1>1 DEF Shape, Hung
<1>4. /\ root \in T /\ P[root] = 0 /\ \A x \in T : lo[root] < pos[x] /\ pos[x] < hi[root]
      /\ \A x \in T : x # root => P[x] \in T /\ (A[P[x]] = x \/ B[P[x]] = x)
  BY <1>1 DEF Shape, Rooted
<1>5. PICK lo2, hi2 : lo2 = [lo EXCEPT ![q] = lo[g], ![g] = pos[q]] /\ hi2 = [hi EXCEPT ![q] = hi[g]]
  OBVIOUS
<1>6. q # g /\ lo[q] = lo[g] /\ hi[q] = pos[g]
  BY <1>2, <1>3
<1>7. /\ lo2 \in [T -> Int] /\ hi2 \in [T -> Int]
      /\ \A x \in T : lo2[x] = IF x = g THEN pos[q] ELSE lo[x]
      /\ \A x \in T : hi2[x] = IF x = q THEN hi[g] ELSE hi[x]
  BY <1>2, <1>5, <1>6
<1>8. Bounded(T, pos, lo2, hi2)
  BY <1>2, <1>3, <1>6, <1>7 DEF Bounded
<1>9. /\ root2 = IF root = g THEN q ELSE root
      /\ \A z \in T :
            /\ A2[z] = IF z = g THEN B[q] ELSE IF A[z] = g THEN q ELSE A[z]
            /\ B2[z] = IF z = q THEN g ELSE IF B[z] = g THEN q ELSE B[z]
            /\ P2[z] = IF z = q THEN P[g] ELSE IF z = g THEN q ELSE IF z = B[q] THEN g ELSE P[z]
  BY DEF Lifted
<1>10. Hung(T, A2, B2, P2, pos, lo2, hi2)
  <2>. SUFFICES ASSUME NEW x \in T
                PROVE  /\ A2[x] \in T \cup {0} /\ B2[x] \in T \cup {0}
                       /\ IF A2[x] = 0 THEN pos[x] = lo2[x] + 1
                          ELSE lo2[A2[x]] = lo2[x] /\ hi2[A2[x]] = pos[x] /\ P2[A2[x]] = x
                       /\ IF B2[x] = 0 THEN hi2[x] = pos[x] + 1
                          ELSE lo2[B2[x]] = pos[x] /\ hi2[B2[x]] = hi2[x] /\ P2[B2[x]] = x
    BY DEF Hung
  <2>1. A2[x] \in T \cup {0} /\ B2[x] \in T \cup {0}
    BY <1>3, <1>9
  <2>2. IF A2[x] = 0 THEN pos[x] = lo2[x] + 1
        ELSE lo2[A2[x]] = lo2[x] /\ hi2[A2[x]] = pos[x] /\ P2[A2[x]] = x
    BY <1>2, <1>3, <1>6, <1>7, <1>9
  <2>3. IF B2[x] = 0 THEN hi2[x] = pos[x] + 1
        ELSE lo2[B2[x]] = pos[x] /\ hi2[B2[x]] = hi2[x] /\ P2[B2[x]] = x
    BY <1>2, <1>3, <1>6, <1>7, <1>9
  <2>. QED
    BY <2>1, <2>2, <2>3
<1>11. Rooted(T, root2, A2, B2, P2, pos, lo2, hi2)
  <2>1. root2 \in T /\ P2[root2] = 0 /\ \A x \in T : lo2[root2] < pos[x] /\ pos[x] < hi2[root2]
    BY <1>2, <1>3, <1>4, <1>6, <1>7, <1>9
  <2>2. ASSUME NEW x \in T, x # root2 PROVE P2[x] \in T /\ (A2[P2[x]] = x \/ B2[P2[x]] = x)
    BY <1>2, <1>3, <1>4, <1>6, <1>9, <2>2
  <2>. QED
    BY <2>1, <2>2 DEF Rooted
<1>. QED
  BY <1>2, <1>8, <1>10, <1>11 DEF Fits, Shape

\* x, which hung above q, which hung below g, is lifted over both.
LiftedTwice(T, root, A, B, P, root2, A2, B2, P2, x, q, g) ==
    /\ root2 = IF root = g THEN x ELSE root
    /\ \A z \in T :
          /\ A2[z] = IF z = g THEN B[x] ELSE IF z = x THEN q ELSE IF A[z] = g THEN x ELSE A[z]
          /\ B2[z] = IF z = q THEN A[x] ELSE IF z = x THEN g ELSE IF B[z] = g THEN x ELSE B[z]
          /\ P2[z] = IF z = x THEN P[g] ELSE IF z = q \/ z = g THEN x
                     ELSE IF z = A[x] THEN q ELSE IF z = B[x] THEN g ELSE P[z]

LEMMA LiftedTwiceFits ==
    ASSUME NEW T, NEW root, NEW A, NEW B, NEW P, NEW pos, Fits(T, root, A, B, P, pos),
           NEW g \in T, NEW q \in T, NEW x \in T, A[g] = q, B[q] = x,
           NEW root2, NEW A2, NEW B2, NEW P2,
           LiftedTwice(T, root, A, B, P, root2, A2, B2, P2, x, q, g)
    PROVE  Fits(T, root2, A2, B2, P2, pos)
<1>1. PICK lo, hi : Shape(T, root, A, B, P, pos, lo, hi)
  BY DEF Fits
<1>2. /\ pos \in [T -> Int] /\ lo \in [T -> Int] /\ hi \in [T -> Int] /\ 0 \notin T
      /\ \A z \in T : lo[z] < pos[z] /\ pos[z] < hi[z]
      /\ \A y, z \in T : pos[y] = pos[z] => y = z
  BY <1>1 DEF Shape, Bounded
<1>3. \A z \in T :
        /\ A[z] \in T \cup {0} /\ B[z] \in T \cup {0}
        /\ IF A[z] = 0 THEN pos[z] = lo[z] + 1
           ELSE lo[A[z]] = lo[z] /\ hi[A[z]] = pos[z] /\ P[A[z]] = z
        /\ IF B[z] = 0 THEN hi[z] = pos[z] + 1
           ELSE lo[B[z]] = pos[z] /\ hi[B[z]] = hi[z] /\ P[B[z]] = z
  BY <1>1 DEF Shape, Hung
<1>4. /\ root \in T /\ P[root] = 0 /\ \A z \in T : lo[root] < pos[z] /\ pos[z] < hi[root]
      /\ \A z \in T : z # root => P[z] \in T /\ (A[P[z]] = z \/ B[P[z]] = z)
  BY <1>1 DEF Shape, Rooted
<1>5. PICK lo2, hi2 : /\ lo2 = [lo EXCEPT ![x] = lo[g], ![g] = pos[x]]
                      /\ hi2 = [hi EXCEPT ![x] = hi[g], ![q] = pos[x]]
  OBVIOUS
<1>6. /\ q # g /\ x # q /\ x # g
      /\ lo[q] = lo[g] /\ hi[q] = pos[g] /\ lo[x] = pos[q] /\ hi[x] = pos[g]
      /\ P[q] = g /\ P[x] = q
  BY <1>2, <1>3
<1>7. /\ lo2 \in [T -> Int] /\ hi2 \in [T -> Int]
      /\ \A z \in T : lo2[z] = IF z = x THEN lo[g] ELSE IF z = g THEN pos[x] ELSE lo[z]
      /\ \A z \in T : hi2[z] = IF z = x THEN hi[g] ELSE IF z = q THEN pos[x] ELSE hi[z]
  BY <1>2, <1>5, <1>6
<1>8. Bounded(T, pos, lo2, hi2)
  BY <1>2, <1>3, <1>6, <1>7 DEF Bounded
<1>9. /\ root2 = IF root = g THEN x ELSE root
      /\ \A z \in T :
            /\ A2[z] = IF z = g THEN B[x] ELSE IF z = x THEN q ELSE IF A[z] = g THEN x ELSE A[z]
            /\ B2[z] = IF z = q THEN A[x] ELSE IF z = x THEN g ELSE IF B[z] = g THEN x ELSE B[z]
            /\ P2[z] = IF z = x THEN P[g] ELSE IF z = q \/ z = g THEN x
                       ELSE IF z = A[x] THEN q ELSE IF z = B[x] THEN g ELSE P[z]
  BY DEF LiftedTwice
<1>10. Hung(T, A2, B2, P2, pos, lo2, hi2)
  <2>. SUFFICES ASSUME NEW z \in T
                PROVE  /\ A2[z] \in T \cup {0} /\ B2[z] \in T \cup {0}
                       /\ IF A2[z] = 0 THEN pos[z] = lo2[z] + 1
                          ELSE lo2[A2[z]] = lo2[z] /\ hi2[A2[z]] = pos[z] /\ P2[A2[z]] = z
                       /\ IF B2[z] = 0 THEN hi2[z] = pos[z] + 1
                          ELSE lo2[B2[z]] = pos[z] /\ hi2[B2[z]] = hi2[z] /\ P2[B2[z]] = z
    BY DEF Hung
  <2>1. A2[z] \in T \cup {0} /\ B2[z] \in T \cup {0}
    BY <1>3, <1>9
  <2>2. IF A2[z] = 0 THEN pos[z] = lo2[z] + 1
        ELSE lo2[A2[z]] = lo2[z] /\ hi2[A2[z]] = pos[z] /\ P2[A2[z]] = z
    BY <1>2, <1>3, <1>6, <1>7, <1>9
  <2>3. IF B2[z] = 0 THEN hi2[z] = pos[z] + 1
        ELSE lo2[B2[z]] = pos[z] /\ hi2[B2[z]] = hi2[z] /\ P2[B2[z]] = z
    BY <1>2, <1>3, <1>6, <1>7, <1>9
  <2>. QED
    BY <2>1, <2>2, <2>3
<1>11. Rooted(T, root2, A2, B2, P2, pos, lo2, hi2)
  <2>1. root2 \in T /\ P2[root2] = 0 /\ \A z \in T : lo2[root2] < pos[z] /\ pos[z] < hi2[root2]
    BY <1>2, <1>3, <1>4, <1>6, <1>7, <1>9
  <2>2. ASSUME NEW z \in T, z # root2 PROVE P2[z] \in T /\ (A2[P2[z]] = z \/ B2[P2[z]] = z)
    BY <1>2, <1>3, <1>4, <1>6, <1>9, <2>2
  <2>. QED
    BY <2>1, <2>2 DEF Rooted
<1>. QED
  BY <1>2, <1>8, <1>10, <1>11 DEF Fits, Shape

\* x is hung below r, which had nothing there.
Inserted(T, A, B, P, A2, B2, P2, x, r) ==
    /\ A2[x] = 0 /\ B2[x] = 0 /\ P2[x] = r
    /\ \A z \in T : /\ A2[z] = IF z = r THEN x ELSE A[z]
                    /\ B2[z] = B[z] /\ P2[z] = P[z]

\* the places pos2 are in the order of the places pos, with x just before r
SameOrder(S, pos, pos2) == \A y, z \in S : pos2[y] < pos2[z] <=> pos[y] < pos[z]
Beside(S, pos, r, pos2, x) == \A z \in S : pos2[z] < pos2[x] <=> pos[z] < pos[r]

LEMMA InsertedFits ==
    ASSUME NEW T, NEW root, NEW A, NEW B, NEW P, NEW pos, Fits(T, root, A, B, P, pos),
           NEW r \in T, A[r] = 0, NEW x, x \notin T \cup {0},
           NEW A2, NEW B2, NEW P2, Inserted(T, A, B, P, A2, B2, P2, x, r)
    PROVE  \E pos2 : /\ Fits(T \cup {x}, root, A2, B2, P2, pos2)
                     /\ SameOrder(T, pos, pos2) /\ Beside(T, pos, r, pos2, x)
<1>1. PICK lo, hi : Shape(T, root, A, B, P, pos, lo, hi)
  BY DEF Fits
<1>2. /\ pos \in [T -> Int] /\ lo \in [T -> Int] /\ hi \in [T -> Int] /\ 0 \notin T
      /\ \A z \in T : lo[z] < pos[z] /\ pos[z] < hi[z]
      /\ \A y, z \in T : pos[y] = pos[z] => y = z
  BY <1>1 DEF Shape, Bounded
<1>3. \A z \in T :
        /\ A[z] \in T \cup {0} /\ B[z] \in T \cup {0}
        /\ IF A[z] = 0 THEN pos[z] = lo[z] + 1
           ELSE lo[A[z]] = lo[z] /\ hi[A[z]] = pos[z] /\ P[A[z]] = z
        /\ IF B[z] = 0 THEN hi[z] = pos[z] + 1
           ELSE lo[B[z]] = pos[z] /\ hi[B[z]] = hi[z] /\ P[B[z]] = z
  BY <1>1 DEF Shape, Hung
<1>4. /\ root \in T /\ P[root] = 0 /\ \A z \in T : lo[root] < pos[z] /\ pos[z] < hi[root]
      /\ \A z \in T : z # root => P[z] \in T /\ (A[P[z]] = z \/ B[P[z]] = z)
  BY <1>1 DEF Shape, Rooted
<1>5. PICK k \in Int : k = pos[r] /\ lo[r] = k - 1
  BY <1>2, <1>3
<1>. DEFINE W == T \cup {x}
<1>6. PICK pos2, lo2, hi2 :
         /\ pos2 = [z \in W |-> IF z = x THEN k ELSE IF pos[z] >= k THEN pos[z] + 1 ELSE pos[z]]
         /\ lo2 = [z \in W |-> IF z = x THEN k - 1 ELSE IF lo[z] >= k THEN lo[z] + 1 ELSE lo[z]]
         /\ hi2 = [z \in W |-> IF z = x THEN k + 1 ELSE IF hi[z] > k THEN hi[z] + 1 ELSE hi[z]]
  OBVIOUS
<1>7. /\ pos2 \in [W -> Int] /\ lo2 \in [W -> Int] /\ hi2 \in [W -> Int]
      /\ pos2[x] = k /\ lo2[x] = k - 1 /\ hi2[x] = k + 1
      /\ \A z \in T : /\ pos2[z] = IF pos[z] >= k THEN pos[z] + 1 ELSE pos[z]
                      /\ lo2[z] = IF lo[z] >= k THEN lo[z] + 1 ELSE lo[z]
                      /\ hi2[z] = IF hi[z] > k THEN hi[z] + 1 ELSE hi[z]
  BY <1>2, <1>5, <1>6
<1>. HIDE DEF W
<1>8. \A z : z \in W <=> z \in T \/ z = x
  BY DEF W
<1>9. Bounded(W, pos2, lo2, hi2)
  <2>1. \A z \in T : lo2[z] < pos2[z] /\ pos2[z] < hi2[z]
    BY <1>2, <1>5, <1>7
  <2>2. \A y, z \in T : pos2[y] = pos2[z] => y = z
    BY <1>2, <1>5, <1>7
  <2>3. \A z \in T : pos2[z] # k
    BY <1>2, <1>5, <1>7
  <2>. QED
    BY <1>5, <1>7, <1>8, <2>1, <2>2, <2>3 DEF Bounded
<1>10. /\ A2[x] = 0 /\ B2[x] = 0 /\ P2[x] = r
       /\ \A z \in T : A2[z] = (IF z = r THEN x ELSE A[z]) /\ B2[z] = B[z] /\ P2[z] = P[z]
  BY DEF Inserted
<1>11. Hung(W, A2, B2, P2, pos2, lo2, hi2)
  <2>. SUFFICES ASSUME NEW z \in W
                PROVE  /\ A2[z] \in W \cup {0} /\ B2[z] \in W \cup {0}
                       /\ IF A2[z] = 0 THEN pos2[z] = lo2[z] + 1
                          ELSE lo2[A2[z]] = lo2[z] /\ hi2[A2[z]] = pos2[z] /\ P2[A2[z]] = z
                       /\ IF B2[z] = 0 THEN hi2[z] = pos2[z] + 1
                          ELSE lo2[B2[z]] = pos2[z] /\ hi2[B2[z]] = hi2[z] /\ P2[B2[z]] = z
    BY DEF Hung
  <2>1. CASE z = x
    BY <1>5, <1>7, <1>10, <2>1
  <2>2. CASE z = r
    BY <1>2, <1>3, <1>5, <1>7, <1>8, <1>10, <2>2
  <2>3. CASE z \in T /\ z # r
    <3>1. A2[z] \in W \cup {0} /\ B2[z] \in W \cup {0}
      BY <1>3, <1>8, <1>10, <2>3
    <3>2. pos[z] # k
      BY <1>2, <1>5, <2>3
    <3>3. IF A2[z] = 0 THEN pos2[z] = lo2[z] + 1
          ELSE lo2[A2[z]] = lo2[z] /\ hi2[A2[z]] = pos2[z] /\ P2[A2[z]] = z
      BY <1>2, <1>3, <1>5, <1>7, <1>10, <2>3, <3>2
    <3>4. IF B2[z] = 0 THEN hi2[z] = pos2[z] + 1
          ELSE lo2[B2[z]] = pos2[z] /\ hi2[B2[z]] = hi2[z] /\ P2[B2[z]] = z
      BY <1>2, <1>3, <1>5, <1>7, <1>10, <2>3, <3>2
    <3>. QED
      BY <3>1, <3>3, <3>4
  <2>. QED
    BY <1>8, <2>1, <2>2, <2>3
<1>12. Rooted(W, root, A2, B2, P2, pos2, lo2, hi2)
  <2>1. root \in W /\ P2[root] = 0 /\ \A z \in W : lo2[root] < pos2[z] /\ pos2[z] < hi2[root]
    BY <1>2, <1>4, <1>5, <1>7, <1>8, <1>10
  <2>2. ASSUME NEW z \in W, z # root PROVE P2[z] \in W /\ (A2[P2[z]] = z \/ B2[P2[z]] = z)
    BY <1>2, <1>4, <1>8, <1>10, <2>2
  <2>. QED
    BY <2>1, <2>2 DEF Rooted
<1>13. 0 \notin W
  BY <1>2, <1>8
<1>14. Fits(W, root, A2, B2, P2, pos2)
  BY <1>9, <1>11, <1>12, <1>13 DEF Fits, Shape
<1>15. \A y, z \in T : pos2[y] < pos2[z] <=> pos[y] < pos[z]
  BY <1>2, <1>5, <1>7
<1>16. \A z \in T : pos2[z] < pos2[x] <=> pos[z] < pos[r]
  BY <1>2, <1>5, <1>7
<1>. QED
  BY <1>14, <1>15, <1>16 DEF W, SameOrder, Beside

\* x and s change places.
Swap(z, x, s) == IF z = x THEN s ELSE IF z = s THEN x ELSE z

Exchanged(T, root, A, B, P, root2, A2, B2, P2, x, s) ==
    /\ root2 = Swap(root, x, s)
    /\ \A z \in T :
          /\ A2[z] = Swap(A[Swap(z, x, s)], x, s)
          /\ B2[z] = Swap(B[Swap(z, x, s)], x, s)
          /\ P2[z] = Swap(P[Swap(z, x, s)], x, s)

SwappedPlaces(T, pos, x, s) == [z \in T |-> pos[Swap(z, x, s)]]

LEMMA ExchangedFits ==
    ASSUME NEW T, NEW root, NEW A, NEW B, NEW P, NEW pos, Fits(T, root, A, B, P, pos),
           NEW x \in T, NEW s \in T,
           NEW root2, NEW A2, NEW B2, NEW P2,
           Exchanged(T, root, A, B, P, root2, A2, B2, P2, x, s)
    PROVE  Fits(T, root2, A2, B2, P2, SwappedPlaces(T, pos, x, s))
<1>1. PICK lo, hi : Shape(T, root, A, B, P, pos, lo, hi)
  BY DEF Fits
<1>2. /\ pos \in [T -> Int] /\ lo \in [T -> Int] /\ hi \in [T -> Int] /\ 0 \notin T
      /\ \A z \in T : lo[z] < pos[z] /\ pos[z] < hi[z]
      /\ \A y, z \in T : pos[y] = pos[z] => y = z
  BY <1>1 DEF Shape, Bounded
<1>3. \A z \in T :
        /\ A[z] \in T \cup {0} /\ B[z] \in T \cup {0}
        /\ IF A[z] = 0 THEN pos[z] = lo[z] + 1
           ELSE lo[A[z]] = lo[z] /\ hi[A[z]] = pos[z] /\ P[A[z]] = z
        /\ IF B[z] = 0 THEN hi[z] = pos[z] + 1
           ELSE lo[B[z]] = pos[z] /\ hi[B[z]] = hi[z] /\ P[B[z]] = z
  BY <1>1 DEF Shape, Hung
<1>4. /\ root \in T /\ P[root] = 0 /\ \A z \in T : lo[root] < pos[z] /\ pos[z] < hi[root]
      /\ \A z \in T : z # root => P[z] \in T /\ (A[P[z]] = z \/ B[P[z]] = z)
  BY <1>1 DEF Shape, Rooted
<1>5. PICK f \in [T \cup {0} -> T \cup {0}] : \A z \in T \cup {0} : f[z] = Swap(z, x, s)
  <2>1. PICK f : f = [z \in T \cup {0} |-> Swap(z, x, s)]
    OBVIOUS
  <2>. QED
    BY <2>1 DEF Swap
<1>6. f[0] = 0 /\ \A z \in T : f[z] \in T /\ f[f[z]] = z
  BY <1>2, <1>5 DEF Swap
<1>7. PICK pos2, lo2, hi2 : /\ pos2 = [z \in T |-> pos[Swap(z, x, s)]]
                            /\ lo2 = [z \in T |-> lo[f[z]]] /\ hi2 = [z \in T |-> hi[f[z]]]
  OBVIOUS
<1>8. /\ pos2 \in [T -> Int] /\ lo2 \in [T -> Int] /\ hi2 \in [T -> Int]
      /\ \A z \in T : pos2[z] = pos[f[z]] /\ lo2[z] = lo[f[z]] /\ hi2[z] = hi[f[z]]
  BY <1>2, <1>5, <1>6, <1>7
<1>9. /\ root2 = f[root]
      /\ \A z \in T : A2[z] = f[A[f[z]]] /\ B2[z] = f[B[f[z]]] /\ P2[z] = f[P[f[z]]]
  <2>1. \A z \in T : P[z] \in T \cup {0}
    BY <1>4
  <2>. QED
    BY <1>3, <1>4, <1>5, <1>6, <2>1 DEF Exchanged
<1>10. Bounded(T, pos2, lo2, hi2)
  BY <1>2, <1>6, <1>8 DEF Bounded
<1>11. Hung(T, A2, B2, P2, pos2, lo2, hi2)
  <2>. SUFFICES ASSUME NEW z \in T
                PROVE  /\ A2[z] \in T \cup {0} /\ B2[z] \in T \cup {0}
                       /\ IF A2[z] = 0 THEN pos2[z] = lo2[z] + 1
                          ELSE lo2[A2[z]] = lo2[z] /\ hi2[A2[z]] = pos2[z] /\ P2[A2[z]] = z
                       /\ IF B2[z] = 0 THEN hi2[z] = pos2[z] + 1
                          ELSE lo2[B2[z]] = pos2[z] /\ hi2[B2[z]] = hi2[z] /\ P2[B2[z]] = z
    BY DEF Hung
  <2>1. A2[z] \in T \cup {0} /\ B2[z] \in T \cup {0}
    BY <1>3, <1>6, <1>9
  <2>2. /\ A2[z] = 0 <=> A[f[z]] = 0
        /\ B2[z] = 0 <=> B[f[z]] = 0
    BY <1>2, <1>3, <1>6, <1>9
  <2>3. /\ A2[z] # 0 => A2[z] \in T /\ f[A2[z]] = A[f[z]]
        /\ B2[z] # 0 => B2[z] \in T /\ f[B2[z]] = B[f[z]]
    BY <1>2, <1>3, <1>6, <1>9, <2>2
  <2>4. IF A2[z] = 0 THEN pos2[z] = lo2[z] + 1
        ELSE lo2[A2[z]] = lo2[z] /\ hi2[A2[z]] = pos2[z] /\ P2[A2[z]] = z
    BY <1>3, <1>6, <1>8, <1>9, <2>2, <2>3
  <2>5. IF B2[z] = 0 THEN hi2[z] = pos2[z] + 1
        ELSE lo2[B2[z]] = pos2[z] /\ hi2[B2[z]] = hi2[z] /\ P2[B2[z]] = z
    BY <1>3, <1>6, <1>8, <1>9, <2>2, <2>3
  <2>. QED
    BY <2>1, <2>4, <2>5
<1>12. Rooted(T, root2, A2, B2, P2, pos2, lo2, hi2)
  <2>1. root2 \in T /\ P2[root2] = 0 /\ \A z \in T : lo2[root2] < pos2[z] /\ pos2[z] < hi2[root2]
    BY <1>4, <1>6, <1>8, <1>9
  <2>2. ASSUME NEW z \in T, z # root2 PROVE P2[z] \in T /\ (A2[P2[z]] = z \/ B2[P2[z]] = z)
    <3>1. f[z] # root /\ f[z] \in T
      BY <1>4, <1>6, <1>9, <2>2
    <3>2. P[f[z]] \in T /\ (A[P[f[z]]] = f[z] \/ B[P[f[z]]] = f[z])
      BY <1>4, <3>1
    <3>3. P2[z] \in T /\ f[P2[z]] = P[f[z]]
      BY <1>6, <1>9, <3>2
    <3>. QED
      BY <1>6, <1>9, <3>2, <3>3
  <2>. QED
    BY <2>1, <2>2 DEF Rooted
<1>. QED
  BY <1>2, <1>7, <1>10, <1>11, <1>12 DEF Fits, Shape, SwappedPlaces

\* x, which had nothing below it, is taken out, and what hung above it takes its place.
Removed(T, root, A, B, P, root2, A2, B2, P2, x) ==
    /\ root2 = IF root = x THEN B[x] ELSE root
    /\ \A z \in T \ {x} :
          /\ A2[z] = IF A[z] = x THEN B[x] ELSE A[z]
          /\ B2[z] = IF B[z] = x THEN B[x] ELSE B[z]
          /\ P2[z] = IF z = B[x] THEN P[x] ELSE P[z]

LEMMA RemovedFits ==
    ASSUME NEW T, NEW root, NEW A, NEW B, NEW P, NEW pos, Fits(T, root, A, B, P, pos),
           NEW x \in T, A[x] = 0,
           NEW root2, NEW A2, NEW B2, NEW P2, Removed(T, root, A, B, P, root2, A2, B2, P2, x)
    PROVE  \E pos2 : /\ Fits(T \ {x}, root2, A2, B2, P2, pos2)
                     /\ SameOrder(T \ {x}, pos, pos2)
<1>1. PICK lo, hi : Shape(T, root, A, B, P, pos, lo, hi)
  BY DEF Fits
<1>2. /\ pos \in [T -> Int] /\ lo \in [T -> Int] /\ hi \in [T -> Int] /\ 0 \notin T
      /\ \A z \in T : lo[z] < pos[z] /\ pos[z] < hi[z]
      /\ \A y, z \in T : pos[y] = pos[z] => y = z
  BY <1>1 DEF Shape, Bounded
<1>3. \A z \in T :
        /\ A[z] \in T \cup {0} /\ B[z] \in T \cup {0}
        /\ IF A[z] = 0 THEN pos[z] = lo[z] + 1
           ELSE lo[A[z]] = lo[z] /\ hi[A[z]] = pos[z] /\ P[A[z]] = z
        /\ IF B[z] = 0 THEN hi[z] = pos[z] + 1
           ELSE lo[B[z]] = pos[z] /\ hi[B[z]] = hi[z] /\ P[B[z]] = z
  BY <1>1 DEF Shape, Hung
<1>4. /\ root \in T /\ P[root] = 0 /\ \A z \in T : lo[root] < pos[z] /\ pos[z] < hi[root]
      /\ \A z \in T : z # root => P[z] \in T /\ (A[P[z]] = z \/ B[P[z]] = z)
  BY <1>1 DEF Shape, Rooted
<1>5. PICK k \in Int : k = pos[x] /\ lo[x] = k - 1
  BY <1>2, <1>3
<1>. DEFINE W == T \ {x}
<1>6. PICK pos2, lo2, hi2 :
         /\ pos2 = [z \in W |-> IF pos[z] > k THEN pos[z] - 1 ELSE pos[z]]
         /\ lo2 = [z \in W |-> IF lo[z] >= k THEN lo[z] - 1 ELSE lo[z]]
         /\ hi2 = [z \in W |-> IF hi[z] > k THEN hi[z] - 1 ELSE hi[z]]
  OBVIOUS
<1>7. /\ pos2 \in [W -> Int] /\ lo2 \in [W -> Int] /\ hi2 \in [W -> Int]
      /\ \A z \in W : /\ pos2[z] = IF pos[z] > k THEN pos[z] - 1 ELSE pos[z]
                      /\ lo2[z] = IF lo[z] >= k THEN lo[z] - 1 ELSE lo[z]
                      /\ hi2[z] = IF hi[z] > k THEN hi[z] - 1 ELSE hi[z]
  BY <1>2, <1>5, <1>6
<1>. HIDE DEF W
<1>8. \A z : z \in W <=> z \in T /\ z # x
  BY DEF W
<1>9. \A z \in W : pos[z] # k
  BY <1>2, <1>5, <1>8
<1>10. Bounded(W, pos2, lo2, hi2)
  <2>1. \A z \in W : lo2[z] < pos2[z] /\ pos2[z] < hi2[z]
    BY <1>2, <1>5, <1>7, <1>8, <1>9
  <2>2. \A y, z \in W : pos2[y] = pos2[z] => y = z
    BY <1>2, <1>5, <1>7, <1>8, <1>9
  <2>. QED
    BY <1>7, <2>1, <2>2 DEF Bounded
<1>11. /\ root2 = IF root = x THEN B[x] ELSE root
       /\ \A z \in W :
             /\ A2[z] = IF A[z] = x THEN B[x] ELSE A[z]
             /\ B2[z] = IF B[z] = x THEN B[x] ELSE B[z]
             /\ P2[z] = IF z = B[x] THEN P[x] ELSE P[z]
  BY DEF Removed, W
<1>12. Hung(W, A2, B2, P2, pos2, lo2, hi2)
  <2>. SUFFICES ASSUME NEW z \in W
                PROVE  /\ A2[z] \in W \cup {0} /\ B2[z] \in W \cup {0}
                       /\ IF A2[z] = 0 THEN pos2[z] = lo2[z] + 1
                          ELSE lo2[A2[z]] = lo2[z] /\ hi2[A2[z]] = pos2[z] /\ P2[A2[z]] = z
                       /\ IF B2[z] = 0 THEN hi2[z] = pos2[z] + 1
                          ELSE lo2[B2[z]] = pos2[z] /\ hi2[B2[z]] = hi2[z] /\ P2[B2[z]] = z
    BY DEF Hung
  <2>1. A2[z] \in W \cup {0} /\ B2[z] \in W \cup {0}
    BY <1>2, <1>3, <1>8, <1>11
  <2>2. CASE A[z] = x
    <3>1. lo[x] = lo[z] /\ hi[x] = pos[z] /\ P[x] = z /\ B[z] # x
      BY <1>2, <1>3, <1>8, <2>2
    <3>2. CASE B[x] = 0
      BY <1>2, <1>3, <1>5, <1>7, <1>8, <1>9, <1>11, <2>1, <2>2, <3>1, <3>2
    <3>3. CASE B[x] # 0
      <4>1. B[x] \in W /\ B[x] # B[z]
        BY <1>2, <1>3, <1>8, <2>2, <3>3
      <4>. QED
        BY <1>2, <1>3, <1>5, <1>7, <1>8, <1>9, <1>11, <2>1, <2>2, <3>1, <3>3, <4>1
    <3>. QED
      BY <3>2, <3>3
  <2>3. CASE B[z] = x
    <3>1. lo[x] = pos[z] /\ hi[x] = hi[z] /\ P[x] = z /\ A[z] # x
      BY <1>2, <1>3, <1>8, <2>3
    <3>2. CASE B[x] = 0
      BY <1>2, <1>3, <1>5, <1>7, <1>8, <1>9, <1>11, <2>1, <2>3, <3>1, <3>2
    <3>3. CASE B[x] # 0
      <4>1. B[x] \in W /\ B[x] # A[z]
        BY <1>2, <1>3, <1>8, <2>3, <3>3
      <4>. QED
        BY <1>2, <1>3, <1>5, <1>7, <1>8, <1>9, <1>11, <2>1, <2>3, <3>1, <3>3, <4>1
    <3>. QED
      BY <3>2, <3>3
  <2>4. CASE A[z] # x /\ B[z] # x
    <3>1. A2[z] = A[z] /\ B2[z] = B[z] /\ (A[z] # 0 => A[z] \in W /\ A[z] # B[x]) /\ (B[z] # 0 => B[z] \in W /\ B[z] # B[x])
      BY <1>2, <1>3, <1>8, <1>11, <2>4
    <3>2. IF A[z] = 0 THEN pos2[z] = lo2[z] + 1
          ELSE lo2[A[z]] = lo2[z] /\ hi2[A[z]] = pos2[z] /\ P2[A[z]] = z
      BY <1>2, <1>3, <1>5, <1>7, <1>8, <1>9, <1>11, <3>1
    <3>3. IF B[z] = 0 THEN hi2[z] = pos2[z] + 1
          ELSE lo2[B[z]] = pos2[z] /\ hi2[B[z]] = hi2[z] /\ P2[B[z]] = z
      BY <1>2, <1>3, <1>5, <1>7, <1>8, <1>9, <1>11, <3>1
    <3>. QED
      BY <2>1, <3>1, <3>2, <3>3
  <2>. QED
    BY <2>2, <2>3, <2>4
<1>13. Rooted(W, root2, A2, B2, P2, pos2, lo2, hi2)
  <2>1. CASE W = {}
    <3>1. root = x /\ B[x] \notin T
      BY <1>2, <1>3, <1>4, <1>8, <2>1
    <3>. QED
      BY <1>3, <1>8, <1>11, <2>1, <3>1 DEF Rooted
  <2>2. CASE W # {}
    <3>1. root2 \in W /\ P2[root2] = 0 /\ \A z \in W : lo2[root2] < pos2[z] /\ pos2[z] < hi2[root2]
      <4>1. CASE root = x
        <5>1. B[x] # 0
          BY <1>2, <1>3, <1>4, <1>5, <1>8, <1>9, <2>2, <4>1
        <5>2. B[x] \in W /\ root2 = B[x] /\ lo[B[x]] = k /\ hi[B[x]] = hi[x]
          BY <1>2, <1>3, <1>5, <1>8, <1>11, <4>1, <5>1
        <5>3. \A z \in W : k - 1 < pos[z] /\ pos[z] < hi[x] /\ k < hi[x]
          BY <1>2, <1>4, <1>5, <1>8, <4>1
        <5>. QED
          BY <1>2, <1>4, <1>5, <1>7, <1>8, <1>9, <1>11, <4>1, <5>2, <5>3
      <4>2. CASE root # x
        <5>1. root \in W /\ root2 = root /\ root # B[x]
          BY <1>2, <1>3, <1>4, <1>8, <1>11, <4>2
        <5>2. lo[root] < k /\ k < hi[root]
          BY <1>4, <1>5
        <5>3. lo2[root] = lo[root] /\ hi2[root] = hi[root] - 1 /\ P2[root] = 0
          BY <1>2, <1>4, <1>5, <1>7, <1>11, <5>1, <5>2
        <5>4. ASSUME NEW z \in W PROVE lo[root] < pos2[z] /\ pos2[z] < hi[root] - 1
          <6>1. /\ lo[root] < pos[z] /\ pos[z] < hi[root] /\ pos[z] # k
                /\ pos2[z] = IF pos[z] > k THEN pos[z] - 1 ELSE pos[z]
            BY <1>4, <1>7, <1>8, <1>9
          <6>2. pos[z] \in Int /\ lo[root] \in Int /\ hi[root] \in Int
            BY <1>2, <1>4, <1>8
          <6>. QED
            BY <1>5, <5>2, <6>1, <6>2
        <5>. QED
          BY <5>1, <5>3, <5>4
      <4>. QED
        BY <4>1, <4>2
    <3>2. ASSUME NEW z \in W, z # root2 PROVE P2[z] \in W /\ (A2[P2[z]] = z \/ B2[P2[z]] = z)
      BY <1>2, <1>3, <1>4, <1>8, <1>11, <3>2
    <3>. QED
      BY <2>2, <3>1, <3>2 DEF Rooted
  <2>3. ASSUME NEW z \in W, z # root2 PROVE P2[z] \in W /\ (A2[P2[z]] = z \/ B2[P2[z]] = z)
    BY <1>2, <1>3, <1>4, <1>8, <1>11, <2>3
  <2>. QED
    BY <2>1, <2>2
<1>14. Fits(W, root2, A2, B2, P2, pos2)
  BY <1>2, <1>8, <1>10, <1>12, <1>13 DEF Fits, Shape
<1>15. \A y, z \in W : pos2[y] < pos2[z] <=> pos[y] < pos[z]
  BY <1>2, <1>5, <1>7, <1>8, <1>9
<1>. QED
  BY <1>14, <1>15 DEF W, SameOrder

\* Those under a node lie between those under the root.
LEMMA Enclosed ==
    ASSUME NEW T, NEW root, NEW A, NEW B, NEW P, NEW pos, NEW lo, NEW hi,
           Shape(T, root, A, B, P, pos, lo, hi)
    PROVE  \A z \in T : lo[root] <= lo[z] /\ hi[z] <= hi[root]
<1>2. /\ pos \in [T -> Int] /\ lo \in [T -> Int] /\ hi \in [T -> Int] /\ 0 \notin T
      /\ \A z \in T : lo[z] < pos[z] /\ pos[z] < hi[z]
  BY DEF Shape, Bounded
<1>3. \A z \in T :
        /\ A[z] # 0 => lo[A[z]] = lo[z] /\ hi[A[z]] = pos[z]
        /\ B[z] # 0 => lo[B[z]] = pos[z] /\ hi[B[z]] = hi[z]
  BY DEF Shape, Hung
<1>4. T # {} => root \in T /\ \A z \in T : lo[root] < pos[z] /\ pos[z] < hi[root]
  BY DEF Shape, Rooted
<1>5. \A z \in T : z # root => P[z] \in T /\ (A[P[z]] = z \/ B[P[z]] = z)
  BY DEF Shape, Rooted
<1>6. ASSUME NEW z \in T, lo[z] < lo[root] PROVE FALSE
  <2>. DEFINE Bad == {k \in Nat : \E y \in T : lo[y] < lo[root] /\ k = hi[root] - pos[y]}
  <2>1. hi[root] - pos[z] \in Bad
    BY <1>2, <1>4, <1>6
  <2>2. PICK k \in Bad : \A j \in Bad : k <= j
    BY <2>1, LeastExists
  <2>3. PICK y \in T : lo[y] < lo[root] /\ k = hi[root] - pos[y]
    OBVIOUS
  <2>4. y # root /\ P[y] \in T /\ (A[P[y]] = y \/ B[P[y]] = y)
    BY <1>2, <1>4, <1>5, <2>3
  <2>5. A[P[y]] = y /\ lo[P[y]] = lo[y] /\ pos[P[y]] = hi[y]
    BY <1>2, <1>3, <1>4, <2>3, <2>4
  <2>6. hi[root] - pos[P[y]] \in Bad
    BY <1>2, <1>4, <2>3, <2>4, <2>5
  <2>7. hi[root] - pos[P[y]] < k
    BY <1>2, <1>4, <2>3, <2>4, <2>5
  <2>. HIDE DEF Bad
  <2>8. k <= hi[root] - pos[P[y]]
    BY <2>2, <2>6
  <2>. QED
    BY <1>2, <1>4, <2>3, <2>4, <2>7, <2>8
<1>7. ASSUME NEW z \in T, hi[root] < hi[z] PROVE FALSE
  <2>. DEFINE Bad == {k \in Nat : \E y \in T : hi[root] < hi[y] /\ k = pos[y] - lo[root]}
  <2>1. pos[z] - lo[root] \in Bad
    BY <1>2, <1>4, <1>7
  <2>2. PICK k \in Bad : \A j \in Bad : k <= j
    BY <2>1, LeastExists
  <2>3. PICK y \in T : hi[root] < hi[y] /\ k = pos[y] - lo[root]
    OBVIOUS
  <2>4. y # root /\ P[y] \in T /\ (A[P[y]] = y \/ B[P[y]] = y)
    BY <1>2, <1>4, <1>5, <2>3
  <2>5. B[P[y]] = y /\ hi[P[y]] = hi[y] /\ pos[P[y]] = lo[y]
    BY <1>2, <1>3, <1>4, <2>3, <2>4
  <2>6. pos[P[y]] - lo[root] \in Bad
    BY <1>2, <1>4, <2>3, <2>4, <2>5
  <2>7. pos[P[y]] - lo[root] < k
    BY <1>2, <1>4, <2>3, <2>4, <2>5
  <2>. HIDE DEF Bad
  <2>8. k <= pos[P[y]] - lo[root]
    BY <2>2, <2>6
  <2>. QED
    BY <1>2, <1>4, <2>3, <2>4, <2>7, <2>8
<1>. QED
  BY <1>2, <1>4, <1>6, <1>7

\* A node has more of the tree under it than its children have.
Heavier(T, A, B, w, m) ==
    /\ w \in [T \cup {0} -> 0 .. m]
    /\ \A z \in T : /\ w[0] < w[z]
                    /\ A[z] # 0 => w[A[z]] < w[z]
                    /\ B[z] # 0 => w[B[z]] < w[z]

LEMMA WeightsExist ==
    ASSUME NEW T, NEW root, NEW A, NEW B, NEW P, NEW pos, Fits(T, root, A, B, P, pos)
    PROVE  \E m \in Nat : \E w : Heavier(T, A, B, w, m)
<1>1. PICK lo, hi : Shape(T, root, A, B, P, pos, lo, hi)
  BY DEF Fits
<1>2. /\ pos \in [T -> Int] /\ lo \in [T -> Int] /\ hi \in [T -> Int] /\ 0 \notin T
      /\ \A z \in T : lo[z] < pos[z] /\ pos[z] < hi[z]
  BY <1>1 DEF Shape, Bounded
<1>3. \A z \in T :
        /\ A[z] \in T \cup {0} /\ B[z] \in T \cup {0}
        /\ A[z] # 0 => lo[A[z]] = lo[z] /\ hi[A[z]] = pos[z]
        /\ B[z] # 0 => lo[B[z]] = pos[z] /\ hi[B[z]] = hi[z]
  BY <1>1 DEF Shape, Hung
<1>4. T # {} => root \in T
  BY <1>1 DEF Shape, Rooted
<1>5. \A z \in T : lo[root] <= lo[z] /\ hi[z] <= hi[root]
  BY <1>1, Enclosed
<1>6. PICK m \in Nat : m = IF T = {} THEN 0 ELSE hi[root] - lo[root]
  BY <1>2, <1>4
<1>7. PICK w : w = [z \in T \cup {0} |-> IF z = 0 THEN 0 ELSE hi[z] - lo[z]]
  OBVIOUS
<1>8. /\ w[0] = 0
      /\ \A z \in T : w[z] = hi[z] - lo[z] /\ 0 < w[z] /\ w[z] <= m /\ w[z] \in Nat
  BY <1>2, <1>4, <1>5, <1>6, <1>7
<1>9. w \in [T \cup {0} -> 0 .. m]
  BY <1>6, <1>7, <1>8
<1>10. ASSUME NEW z \in T
       PROVE  /\ w[0] < w[z]
              /\ A[z] # 0 => w[A[z]] < w[z]
              /\ B[z] # 0 => w[B[z]] < w[z]
  BY <1>2, <1>3, <1>8
<1>. QED
  BY <1>9, <1>10 DEF Heavier

\* A function that goes on to the next argument until it may stop is defined.
Descends(S, Stop, next, w, m) ==
    /\ m \in Nat /\ w \in [S -> 0 .. m]
    /\ \A u \in S \ Stop : next[u] \in S /\ w[next[u]] < w[u]

Ends(f, S, Stop, next, base) ==
    f = [u \in S |-> IF u \in Stop THEN base[u] ELSE f[next[u]]]

LEMMA DescentExists ==
    ASSUME NEW S, NEW Stop, NEW next, NEW base, NEW m, NEW w, Descends(S, Stop, next, w, m)
    PROVE  \E f : Ends(f, S, Stop, next, base)
<1>. m \in Nat /\ w \in [S -> 0 .. m] /\ \A u \in S \ Stop : next[u] \in S /\ w[next[u]] < w[u]
  BY DEF Descends
<1>. DEFINE Lighter(k) == {u \in S : w[u] < k}
            Solves(f, k) == f = [u \in Lighter(k) |-> IF u \in Stop THEN base[u] ELSE f[next[u]]]
            Bad == {k \in Nat : ~ \E f : Solves(f, k)}
<1>1. Bad = {}
  <2>. SUFFICES ASSUME Bad # {} PROVE FALSE
    OBVIOUS
  <2>1. PICK k \in Bad : \A j \in Bad : k <= j
    BY LeastExists
  <2>2. k # 0
    <3>1. Lighter(0) = {}
      OBVIOUS
    <3>2. Solves([u \in Lighter(0) |-> 0], 0)
      BY <3>1
    <3>. HIDE DEF Solves, Lighter
    <3>3. \E f : Solves(f, 0)
      BY <3>2
    <3>4. \A j \in Bad : ~ \E f : Solves(f, j)
      OBVIOUS
    <3>. QED
      BY <3>3, <3>4
  <2>3. PICK f : Solves(f, k - 1)
    <3>1. k - 1 \in Nat /\ ~ (k <= k - 1)
      BY <2>2
    <3>. QED
      BY <2>1, <3>1
  <2>4. PICK h : h = [u \in Lighter(k) |-> IF u \in Stop THEN base[u] ELSE f[next[u]]]
    OBVIOUS
  <2>5. \A u \in Lighter(k - 1) : u \in Lighter(k) /\ h[u] = f[u]
    BY <2>3, <2>4
  <2>6. \A u \in Lighter(k) \ Stop : next[u] \in Lighter(k - 1)
    OBVIOUS
  <2>7. \A u \in Lighter(k) : h[u] = IF u \in Stop THEN base[u] ELSE h[next[u]]
    BY <2>4, <2>5, <2>6
  <2>8. Solves(h, k)
    BY <2>4, <2>7
  <2>. QED
    BY <2>8
<1>2. PICK f : Solves(f, m + 1)
  <2>. HIDE DEF Solves
  <2>1. m + 1 \in Nat
    OBVIOUS
  <2>. QED
    BY <1>1, <2>1
<1>3. Lighter(m + 1) = S
  OBVIOUS
<1>. QED
  BY <1>2, <1>3 DEF Ends

\* The leftmost node under the child above x is the next one to x.
LEMMA LeftmostIs ==
    ASSUME NEW T, NEW root, NEW A, NEW B, NEW P, NEW pos, Fits(T, root, A, B, P, pos),
           NEW f, \A r \in T : f[r] = IF A[r] = 0 THEN r ELSE f[A[r]],
           NEW x \in T, B[x] # 0, NEW s, s = f[B[x]]
    PROVE  /\ s \in T /\ A[s] = 0 /\ s # x /\ pos[s] = pos[x] + 1 /\ A[x] # s
           /\ \/ s = B[x] /\ P[s] = x
              \/ s # B[x] /\ P[s] \in T \ {x, s} /\ A[P[s]] = s
<1>1. PICK lo, hi : Shape(T, root, A, B, P, pos, lo, hi)
  BY DEF Fits
<1>2. /\ pos \in [T -> Int] /\ lo \in [T -> Int] /\ hi \in [T -> Int] /\ 0 \notin T
      /\ \A z \in T : lo[z] < pos[z] /\ pos[z] < hi[z]
      /\ \A y, z \in T : pos[y] = pos[z] => y = z
  BY <1>1 DEF Shape, Bounded
<1>3. \A z \in T :
        /\ A[z] \in T \cup {0} /\ B[z] \in T \cup {0}
        /\ IF A[z] = 0 THEN pos[z] = lo[z] + 1
           ELSE lo[A[z]] = lo[z] /\ hi[A[z]] = pos[z] /\ P[A[z]] = z
        /\ IF B[z] = 0 THEN hi[z] = pos[z] + 1
           ELSE lo[B[z]] = pos[z] /\ hi[B[z]] = hi[z] /\ P[B[z]] = z
  BY <1>1 DEF Shape, Hung
<1>4. /\ root \in T /\ P[root] = 0 /\ \A z \in T : lo[root] < pos[z] /\ pos[z] < hi[root]
      /\ \A z \in T : z # root => P[z] \in T /\ (A[P[z]] = z \/ B[P[z]] = z)
  BY <1>1 DEF Shape, Rooted
<1>5. \A r \in T : f[r] \in T /\ A[f[r]] = 0 /\ pos[f[r]] = lo[r] + 1
  <2>. DEFINE Ok(r) == f[r] \in T /\ A[f[r]] = 0 /\ pos[f[r]] = lo[r] + 1
              Bad == {k \in Nat : \E r \in T : k = pos[r] - lo[r] /\ ~ Ok(r)}
  <2>. SUFFICES ASSUME NEW r0 \in T, ~ Ok(r0) PROVE FALSE
    OBVIOUS
  <2>1. pos[r0] - lo[r0] \in Bad
    BY <1>2
  <2>2. PICK k \in Bad : \A j \in Bad : k <= j
    BY <2>1, LeastExists
  <2>3. PICK r \in T : k = pos[r] - lo[r] /\ ~ Ok(r)
    OBVIOUS
  <2>4. CASE A[r] = 0
    BY <1>3, <2>3, <2>4
  <2>5. CASE A[r] # 0
    <3>1. A[r] \in T /\ lo[A[r]] = lo[r] /\ pos[A[r]] < pos[r] /\ f[r] = f[A[r]]
      BY <1>2, <1>3, <2>5
    <3>2. ~ Ok(A[r])
      BY <2>3, <3>1
    <3>3. pos[A[r]] - lo[A[r]] \in Bad
      BY <1>2, <3>1, <3>2
    <3>4. pos[A[r]] - lo[A[r]] < k
      BY <1>2, <2>3, <3>1
    <3>. HIDE DEF Bad
    <3>5. k <= pos[A[r]] - lo[A[r]]
      BY <2>2, <3>3
    <3>. QED
      BY <1>2, <2>3, <3>1, <3>4, <3>5
  <2>. QED
    BY <2>4, <2>5
<1>6. B[x] \in T /\ lo[B[x]] = pos[x] /\ P[B[x]] = x
  BY <1>3
<1>7. s \in T /\ A[s] = 0 /\ pos[s] = pos[x] + 1
  BY <1>5, <1>6
<1>8. s # x /\ A[x] # s
  BY <1>2, <1>3, <1>7
<1>9. CASE s = B[x]
  BY <1>6, <1>7, <1>8, <1>9
<1>10. CASE s # B[x]
  <2>1. \A z \in T : lo[root] <= lo[z] /\ hi[z] <= hi[root]
    BY <1>1, Enclosed
  <2>2. lo[s] = pos[x]
    <3>1. lo[s] \in Int /\ pos[s] \in Int /\ pos[x] \in Int
      BY ONLY <1>2, <1>7, x \in T
    <3>2. pos[s] = lo[s] + 1
      BY ONLY <1>3, <1>7
    <3>. QED
      BY ONLY <1>7, <3>1, <3>2
  <2>3. s # root
    BY <1>2, <1>4, <2>2
  <2>4. P[s] \in T /\ (A[P[s]] = s \/ B[P[s]] = s)
    BY <1>4, <1>7, <2>3
  <2>5. B[P[s]] # s
    <3>1. SUFFICES ASSUME B[P[s]] = s PROVE FALSE
      OBVIOUS
    <3>2. lo[s] = pos[P[s]]
      BY <1>2, <1>3, <1>7, <2>4, <3>1
    <3>. QED
      BY <1>2, <1>10, <2>2, <2>4, <3>1, <3>2
  <2>6. P[s] # x /\ P[s] # s
    BY <1>2, <1>7, <1>8, <2>4, <2>5
  <2>. QED
    BY <1>7, <1>8, <1>10, <2>4, <2>5, <2>6
<1>. QED
  BY <1>9, <1>10

\* The nodes of a tree are the root and those that have a parent.
LEMMA MembersAre ==
    ASSUME NEW T, NEW root, NEW A, NEW B, NEW P, NEW pos, Fits(T, root, A, B, P, pos),
           NEW N, T \subseteq N, 0 \notin N, \A z \in N \ T : P[z] = 0
    PROVE  {z \in N : root = z \/ P[z] # 0} = T
<1>1. PICK lo, hi : Shape(T, root, A, B, P, pos, lo, hi)
  BY DEF Fits
<1>2. /\ 0 \notin T /\ root \in T \cup {0}
      /\ \A z \in T : z # root => P[z] \in T
  BY <1>1 DEF Shape, Rooted
<1>. QED
  BY <1>2

\* The keys k are in order.
Sorted(T, pos, k) ==
    /\ pos \in [T -> Int] /\ k \in [T -> Int]
    /\ \A y, z \in T : pos[y] < pos[z] => k[y] <= k[z]

Agree(S, k, k2) == \A z \in S : k2[z] = k[z]

\* Taking x out after it changed places with its successor s.
LEMMA ExchangedSorted ==
    ASSUME NEW T, NEW pos, NEW k, Sorted(T, pos, k), NEW x \in T, NEW s \in T,
           pos[s] = pos[x] + 1, \A y, z \in T : pos[y] = pos[z] => y = z,
           NEW S, S = T \ {x}, NEW pos3 \in [S -> Int], SameOrder(S, SwappedPlaces(T, pos, x, s), pos3),
           NEW k3 \in [S -> Int], Agree(S, k, k3)
    PROVE  Sorted(S, pos3, k3)
<1>1. /\ pos \in [T -> Int] /\ k \in [T -> Int]
      /\ \A y, z \in T : pos[y] < pos[z] => k[y] <= k[z]
  BY DEF Sorted
<1>2. PICK pos2 : pos2 = SwappedPlaces(T, pos, x, s)
  OBVIOUS
<1>3. \A z \in S : pos2[z] = IF z = s THEN pos[x] ELSE pos[z]
  BY <1>2 DEF Swap, SwappedPlaces
<1>4. ASSUME NEW y \in S, NEW z \in S, pos3[y] < pos3[z]
      PROVE  k3[y] <= k3[z]
  <2>1. pos2[y] < pos2[z]
    BY <1>2, <1>4 DEF SameOrder
  <2>2. y # z
    BY <1>1, <1>3, <2>1
  <2>3. pos[y] < pos[z]
    BY <1>1, <1>3, <2>1, <2>2
  <2>. QED
    BY <1>1, <2>3 DEF Agree
<1>. QED
  BY <1>4 DEF Sorted

LEMMA RemovedSorted ==
    ASSUME NEW T, NEW pos, NEW k, Sorted(T, pos, k), NEW x \in T, NEW S, S = T \ {x},
           NEW pos3 \in [S -> Int], SameOrder(S, pos, pos3), NEW k3 \in [S -> Int], Agree(S, k, k3)
    PROVE  Sorted(S, pos3, k3)
BY DEF Sorted, SameOrder, Agree

\* x, of the given key, is between those with smaller and those with greater keys
KeyBetween(T, pos, k, x, key) ==
    \A z \in T : (pos[z] < pos[x] => k[z] <= key) /\ (pos[x] < pos[z] => key <= k[z])

LEMMA InsertedSorted ==
    ASSUME NEW T, NEW pos, NEW k, Sorted(T, pos, k), NEW x, x \notin T, NEW S, S = T \cup {x},
           NEW key \in Int, NEW pos2 \in [S -> Int], SameOrder(T, pos, pos2), KeyBetween(T, pos2, k, x, key),
           NEW k2 \in [S -> Int], k2[x] = key, Agree(T, k, k2)
    PROVE  Sorted(S, pos2, k2)
BY DEF Sorted, SameOrder, KeyBetween, Agree

-----------------------------------------------------------------------------
(* What the recursions over a tree give.                                   *)

\* the nodes under r
Reach(T, pos, lo, hi, r) == IF r = 0 THEN {} ELSE {z \in T : lo[r] < pos[z] /\ pos[z] < hi[r]}

\* What lies under a node is the node and what lies under its children.
LEMMA ReachIs ==
    ASSUME NEW T, NEW root, NEW A, NEW B, NEW P, NEW pos, NEW lo, NEW hi,
           Shape(T, root, A, B, P, pos, lo, hi), NEW r \in T
    PROVE  /\ A[r] \in T \cup {0} /\ B[r] \in T \cup {0} /\ r # 0
           /\ Reach(T, pos, lo, hi, r) =
                 {r} \cup Reach(T, pos, lo, hi, A[r]) \cup Reach(T, pos, lo, hi, B[r])
           /\ \A z \in Reach(T, pos, lo, hi, A[r]) : z \in T /\ pos[z] < pos[r]
           /\ \A z \in Reach(T, pos, lo, hi, B[r]) : z \in T /\ pos[r] < pos[z]
<1>2. /\ pos \in [T -> Int] /\ lo \in [T -> Int] /\ hi \in [T -> Int] /\ 0 \notin T
      /\ \A z \in T : lo[z] < pos[z] /\ pos[z] < hi[z]
      /\ \A y, z \in T : pos[y] = pos[z] => y = z
  BY DEF Shape, Bounded
<1>3. /\ A[r] \in T \cup {0} /\ B[r] \in T \cup {0}
      /\ IF A[r] = 0 THEN pos[r] = lo[r] + 1
         ELSE lo[A[r]] = lo[r] /\ hi[A[r]] = pos[r]
      /\ IF B[r] = 0 THEN hi[r] = pos[r] + 1
         ELSE lo[B[r]] = pos[r] /\ hi[B[r]] = hi[r]
  BY DEF Shape, Hung
<1>4. r # 0 /\ \A z \in T : z # r => pos[z] # pos[r]
  BY <1>2
<1>5. \A z : z \in Reach(T, pos, lo, hi, A[r]) <=> z \in T /\ lo[r] < pos[z] /\ pos[z] < pos[r]
  BY <1>2, <1>3 DEF Reach
<1>6. \A z : z \in Reach(T, pos, lo, hi, B[r]) <=> z \in T /\ pos[r] < pos[z] /\ pos[z] < hi[r]
  BY <1>2, <1>3 DEF Reach
<1>7. \A z : z \in Reach(T, pos, lo, hi, r) <=> z \in T /\ lo[r] < pos[z] /\ pos[z] < hi[r]
  BY <1>4 DEF Reach
<1>8. ASSUME NEW z
      PROVE  z \in Reach(T, pos, lo, hi, r) <=>
                z \in {r} \cup Reach(T, pos, lo, hi, A[r]) \cup Reach(T, pos, lo, hi, B[r])
  BY <1>2, <1>4, <1>5, <1>6, <1>7
<1>. QED
  BY <1>3, <1>4, <1>5, <1>6, <1>8

LEMMA ReachRoot ==
    ASSUME NEW T, NEW root, NEW A, NEW B, NEW P, NEW pos, NEW lo, NEW hi,
           Shape(T, root, A, B, P, pos, lo, hi)
    PROVE  Reach(T, pos, lo, hi, root) = T /\ root \in T \cup {0}
BY DEF Shape, Rooted, Reach

\* A claim about every node that follows from the claims about its children.
\* Ok is the set of those it holds of.
LEMMA FromBelow ==
    ASSUME NEW T, NEW root, NEW A, NEW B, NEW P, NEW pos, Fits(T, root, A, B, P, pos),
           NEW Ok, \A r \in T : /\ A[r] # 0 => A[r] \in Ok
                                /\ B[r] # 0 => B[r] \in Ok
                                => r \in Ok
    PROVE  T \subseteq Ok
<1>0. PICK m \in Nat : \E w : Heavier(T, A, B, w, m)
  BY WeightsExist
<1>1. PICK w : Heavier(T, A, B, w, m)
  BY <1>0
<1>2. /\ w \in [T \cup {0} -> 0 .. m]
      /\ \A z \in T : /\ A[z] # 0 => w[A[z]] < w[z]
                      /\ B[z] # 0 => w[B[z]] < w[z]
  BY <1>1 DEF Heavier
<1>3. \A z \in T : A[z] \in T \cup {0} /\ B[z] \in T \cup {0}
  BY DEF Fits, Shape, Hung
<1>. SUFFICES ASSUME NEW r0 \in T, r0 \notin Ok PROVE FALSE
  OBVIOUS
<1>. DEFINE Bad == {k \in Nat : \E r \in T : k = w[r] /\ r \notin Ok}
<1>4. w[r0] \in Bad
  BY <1>2
<1>5. PICK k \in Bad : \A j \in Bad : k <= j
  BY <1>4, LeastExists
<1>6. PICK r \in T : k = w[r] /\ r \notin Ok
  OBVIOUS
<1>7. PICK c \in {A[r], B[r]} : c # 0 /\ c \notin Ok
  BY <1>6
<1>8. c \in T /\ w[c] < w[r]
  BY <1>2, <1>3, <1>7
<1>9. w[c] \in Bad
  BY <1>2, <1>7, <1>8
<1>. HIDE DEF Bad
<1>10. k <= w[c]
  BY <1>5, <1>9
<1>. QED
  BY <1>2, <1>6, <1>8, <1>10

\* What collects the nodes below the root.
Collects(T, N, root, A, B) ==
    /\ \E f : f = [r \in N \cup {0} |-> IF r = 0 THEN {} ELSE {r} \cup f[A[r]] \cup f[B[r]]]
    /\ \A f : f = [r \in N \cup {0} |-> IF r = 0 THEN {} ELSE {r} \cup f[A[r]] \cup f[B[r]]]
              => f[root] = T

\* The nodes that the children lead to.
LEMMA UnderIs ==
    ASSUME NEW T, NEW root, NEW A, NEW B, NEW P, NEW pos, Fits(T, root, A, B, P, pos),
           NEW N, T \subseteq N, 0 \notin N, \A z \in N \ T : A[z] = 0 /\ B[z] = 0
    PROVE  Collects(T, N, root, A, B)
<1>1. PICK lo, hi : Shape(T, root, A, B, P, pos, lo, hi)
  BY DEF Fits
<1>. DEFINE R(r) == Reach(T, pos, lo, hi, r)
<1>2. /\ \A r \in T : /\ A[r] \in T \cup {0} /\ B[r] \in T \cup {0} /\ r # 0
                      /\ R(r) = {r} \cup R(A[r]) \cup R(B[r])
      /\ R(root) = T /\ root \in T \cup {0}
  BY <1>1, ReachIs, ReachRoot
<1>3. R(0) = {}
  BY DEF Reach
<1>. HIDE DEF R
<1>4. PICK g : g = [r \in N \cup {0} |-> IF r \in T \cup {0} THEN R(r) ELSE {r}]
  OBVIOUS
<1>5. \A r \in N \cup {0} : g[r] = IF r = 0 THEN {} ELSE {r} \cup g[A[r]] \cup g[B[r]]
  <2>. SUFFICES ASSUME NEW r \in N \cup {0}
                PROVE  g[r] = IF r = 0 THEN {} ELSE {r} \cup g[A[r]] \cup g[B[r]]
    OBVIOUS
  <2>1. CASE r = 0
    BY <1>3, <1>4, <2>1
  <2>2. CASE r \in T
    BY <1>2, <1>3, <1>4, <2>2
  <2>3. CASE r \in N \ T
    <3>1. A[r] = 0 /\ B[r] = 0 /\ r # 0 /\ r \notin T \cup {0}
      BY <2>3
    <3>2. g[0] = {} /\ g[r] = {r}
      BY <1>3, <1>4, <2>3, <3>1
    <3>. QED
      BY <3>1, <3>2
  <2>. QED
    BY <2>1, <2>2, <2>3
<1>6. ASSUME NEW f, f = [r \in N \cup {0} |-> IF r = 0 THEN {} ELSE {r} \cup f[A[r]] \cup f[B[r]]]
      PROVE  f[root] = T
  <2>1. \A r \in T : f[r] = {r} \cup f[A[r]] \cup f[B[r]]
    BY <1>6
  <2>2. f[0] = {}
    BY <1>6
  <2>. DEFINE Ok == {r \in T : f[r] = R(r)}
  <2>3. ASSUME NEW r \in T, A[r] # 0 => A[r] \in Ok, B[r] # 0 => B[r] \in Ok
        PROVE  r \in Ok
    <3>1. f[A[r]] = R(A[r]) /\ f[B[r]] = R(B[r])
      BY <1>2, <1>3, <2>2, <2>3
    <3>2. f[r] = {r} \cup R(A[r]) \cup R(B[r])
      <4>1. f[r] = {r} \cup f[A[r]] \cup f[B[r]]
        BY <2>1
      <4>. QED
        BY <3>1, <4>1
    <3>3. f[r] = R(r)
      BY <1>2, <3>2
    <3>. QED
      BY <3>3
  <2>. HIDE DEF Ok
  <2>4. T \subseteq Ok
    BY <2>3, FromBelow
  <2>. QED
    BY <1>2, <1>3, <2>2, <2>4 DEF Ok
<1>7. g = [r \in N \cup {0} |-> IF r = 0 THEN {} ELSE {r} \cup g[A[r]] \cup g[B[r]]]
  BY <1>4, <1>5
<1>. QED
  BY <1>6, <1>7 DEF Collects

\* What searches for a key.
Finds(T, N, root, A, B, k, key) ==
    LET Eq(f) == f = [r \in N \cup {0} |->
                         IF r = 0 THEN 0
                           ELSE CASE key = k[r] -> r [] key < k[r] -> f[A[r]] [] OTHER -> f[B[r]]]
    IN  /\ \E f : Eq(f)
        /\ \A f : Eq(f) => (f[root] # 0 <=> \E z \in T : k[z] = key)

\* A search by key ends at a node of the key when there is one.
LEMMA FindIs ==
    ASSUME NEW T, NEW root, NEW A, NEW B, NEW P, NEW pos, Fits(T, root, A, B, P, pos),
           NEW N, T \subseteq N, 0 \notin N, \A z \in N \ T : A[z] = 0 /\ B[z] = 0,
           NEW k \in [N -> Int], NEW kt, Sorted(T, pos, kt), \A z \in T : kt[z] = k[z], NEW key \in Int
    PROVE  Finds(T, N, root, A, B, k, key)
<1>. DEFINE Eq(f) == f = [r \in N \cup {0} |->
                             IF r = 0 THEN 0
                               ELSE CASE key = k[r] -> r [] key < k[r] -> f[A[r]] [] OTHER -> f[B[r]]]
<1>1. PICK lo, hi : Shape(T, root, A, B, P, pos, lo, hi)
  BY DEF Fits
<1>2. /\ pos \in [T -> Int]
      /\ \A y, z \in T : pos[y] < pos[z] => k[y] <= k[z]
  BY DEF Sorted
<1>. DEFINE R(r) == Reach(T, pos, lo, hi, r)
<1>3. /\ \A r \in T : /\ A[r] \in T \cup {0} /\ B[r] \in T \cup {0} /\ r # 0
                      /\ R(r) = {r} \cup R(A[r]) \cup R(B[r])
                      /\ \A z \in R(A[r]) : z \in T /\ pos[z] < pos[r]
                      /\ \A z \in R(B[r]) : z \in T /\ pos[r] < pos[z]
      /\ R(root) = T /\ root \in T \cup {0}
  BY <1>1, ReachIs, ReachRoot
<1>4. R(0) = {}
  BY DEF Reach
<1>. HIDE DEF R
<1>5. \E f : Eq(f)
  <2>. DEFINE Stop == {r \in N \cup {0} : r = 0 \/ key = k[r]}
              next == [r \in N |-> IF key < k[r] THEN A[r] ELSE B[r]]
              base == [r \in N \cup {0} |-> r]
  <2>0. PICK m \in Nat : \E w : Heavier(T, A, B, w, m)
    BY WeightsExist
  <2>1. PICK w : Heavier(T, A, B, w, m)
    BY <2>0
  <2>2. /\ w \in [T \cup {0} -> 0 .. m]
        /\ \A z \in T : /\ w[0] < w[z]
                        /\ A[z] # 0 => w[A[z]] < w[z]
                        /\ B[z] # 0 => w[B[z]] < w[z]
    BY <2>1 DEF Heavier
  <2>3. PICK v : v = [r \in N \cup {0} |-> IF r = 0 THEN 0 ELSE IF r \in T THEN w[r] + 1 ELSE 1]
    OBVIOUS
  <2>4. v \in [N \cup {0} -> 0 .. m + 1] /\ m + 1 \in Nat
    BY <2>2, <2>3
  <2>5. ASSUME NEW r \in (N \cup {0}) \ Stop PROVE next[r] \in N \cup {0} /\ v[next[r]] < v[r]
    <3>1. r \in N /\ r # 0 /\ next[r] \in {A[r], B[r]} /\ v[0] = 0
      BY <2>3
    <3>2. CASE r \in T
      <4>1. next[r] \in T \cup {0} /\ v[r] = w[r] + 1
        BY <1>3, <2>3, <3>1, <3>2
      <4>2. CASE next[r] = 0
        BY <2>2, <3>1, <3>2, <4>1, <4>2
      <4>3. CASE next[r] # 0
        <5>1. next[r] \in T /\ v[next[r]] = w[next[r]] + 1 /\ w[next[r]] < w[r] /\ next[r] \in N
          BY <2>2, <2>3, <3>1, <3>2, <4>1, <4>3
        <5>. QED
          BY <2>2, <3>2, <4>1, <5>1
      <4>. QED
        BY <4>2, <4>3
    <3>3. CASE r \notin T
      <4>1. next[r] = 0 /\ v[r] = 1
        BY <2>3, <3>1, <3>3
      <4>. QED
        BY <3>1, <4>1
    <3>. QED
      BY <3>2, <3>3
  <2>6. Descends(N \cup {0}, Stop, next, v, m + 1)
    BY <2>4, <2>5 DEF Descends
  <2>. HIDE DEF next, base, Stop
  <2>7. PICK f : Ends(f, N \cup {0}, Stop, next, base)
    BY <2>6, DescentExists
  <2>8. f = [r \in N \cup {0} |-> f[r]] /\ \A r \in N \cup {0} : f[r] = IF r \in Stop THEN base[r] ELSE f[next[r]]
    BY <2>7 DEF Ends
  <2>9. ASSUME NEW r \in N \cup {0}
        PROVE  f[r] = IF r = 0 THEN 0
                      ELSE CASE key = k[r] -> r [] key < k[r] -> f[A[r]] [] OTHER -> f[B[r]]
    <3>1. /\ f[r] = IF r \in Stop THEN base[r] ELSE f[next[r]]
          /\ r \in Stop <=> r = 0 \/ key = k[r]
          /\ base[r] = r
          /\ r \in N => next[r] = IF key < k[r] THEN A[r] ELSE B[r]
      BY <2>8 DEF Stop, base, next
    <3>2. CASE r = 0
      BY <3>1, <3>2
    <3>3. CASE r \in N
      <4>1. r # 0 /\ k[r] \in Int
        BY <3>3
      <4>2. CASE key = k[r]
        BY <3>1, <4>1, <4>2
      <4>3. CASE key < k[r]
        BY <3>1, <3>3, <4>1, <4>3
      <4>4. CASE k[r] < key
        <5>1. f[r] = f[B[r]] /\ ~ (key = k[r]) /\ ~ (key < k[r])
          BY <3>1, <3>3, <4>1, <4>4
        <5>. QED
          BY <4>1, <5>1
      <4>. QED
        BY <4>1, <4>2, <4>3, <4>4
    <3>. QED
      BY <3>2, <3>3
  <2>. DEFINE Body(r) == IF r = 0 THEN 0
                         ELSE CASE key = k[r] -> r [] key < k[r] -> f[A[r]] [] OTHER -> f[B[r]]
  <2>10. \A r \in N \cup {0} : f[r] = Body(r)
    BY <2>9
  <2>. HIDE DEF Body
  <2>11. f = [r \in N \cup {0} |-> Body(r)]
    BY <2>8, <2>10
  <2>12. Eq(f)
    BY <2>11, Zenon DEF Body
  <2>. QED
    BY <2>12
<1>6. ASSUME NEW f, Eq(f) PROVE f[root] # 0 <=> \E z \in T : k[z] = key
  <2>1. f[0] = 0 /\ \A r \in T : f[r] = IF key = k[r] THEN r ELSE IF key < k[r] THEN f[A[r]] ELSE f[B[r]]
    BY <1>3, <1>6
  <2>. HIDE DEF Eq
  <2>. DEFINE Ok == {r \in T : f[r] # 0 <=> \E z \in R(r) : k[z] = key}
  <2>2. ASSUME NEW r \in T, A[r] # 0 => A[r] \in Ok, B[r] # 0 => B[r] \in Ok
        PROVE  r \in Ok
    <3>1. /\ f[A[r]] # 0 <=> \E z \in R(A[r]) : k[z] = key
          /\ f[B[r]] # 0 <=> \E z \in R(B[r]) : k[z] = key
      BY <1>3, <1>4, <2>1, <2>2
    <3>2. \A z : z \in R(r) <=> z = r \/ z \in R(A[r]) \/ z \in R(B[r])
      BY <1>3
    <3>3. CASE key = k[r]
      BY <1>3, <2>1, <3>2, <3>3
    <3>4. CASE key < k[r]
      <4>1. \A z \in R(B[r]) : k[z] # key
        BY <1>2, <1>3, <3>4
      <4>. QED
        BY <2>1, <3>1, <3>2, <3>4, <4>1
    <3>5. CASE k[r] < key
      <4>1. \A z \in R(A[r]) : k[z] # key
        BY <1>2, <1>3, <3>5
      <4>. QED
        BY <2>1, <3>1, <3>2, <3>5, <4>1
    <3>. QED
      BY <3>3, <3>4, <3>5
  <2>. HIDE DEF Ok
  <2>3. T \subseteq Ok
    BY <2>2, FromBelow
  <2>. QED
    BY <1>3, <1>4, <2>1, <2>3 DEF Ok
<1>. QED
  BY <1>5, <1>6 DEF Finds

\* r has nothing on the side d, and a key hung there is in order
Gap(T, A, B, pos, k, key, r, d, l) ==
    /\ r \in T
    /\ IF d = l THEN /\ A[r] = 0
                     /\ \A z \in T : IF pos[z] < pos[r] THEN k[z] <= key ELSE key < k[z]
                ELSE /\ B[r] = 0
                     /\ \A z \in T : IF pos[z] <= pos[r] THEN k[z] <= key ELSE key < k[z]

\* What searches for the gap of a key.
FindsGap(T, N, root, A, B, pos, k, key, l, h) ==
    LET Eq(f) == f = [r \in N |-> IF key < k[r]
                                  THEN IF A[r] = 0 THEN <<r, l>> ELSE f[A[r]]
                                  ELSE IF B[r] = 0 THEN <<r, h>> ELSE f[B[r]]]
    IN  /\ \E f : Eq(f)
        /\ \A f : Eq(f) => \E r, d : /\ f[root] = <<r, d>> /\ d \in {l, h}
                                     /\ Gap(T, A, B, pos, k, key, r, d, l)

\* The descent of an insertion ends where the key is in order.
LEMMA PlaceIs ==
    ASSUME NEW T, NEW root, NEW A, NEW B, NEW P, NEW pos, Fits(T, root, A, B, P, pos), T # {},
           NEW N, T \subseteq N, 0 \notin N, \A z \in N \ T : A[z] = 0 /\ B[z] = 0,
           NEW k \in [N -> Int], NEW kt, Sorted(T, pos, kt), \A z \in T : kt[z] = k[z], NEW key \in Int,
           NEW l, NEW h, l # h
    PROVE  FindsGap(T, N, root, A, B, pos, k, key, l, h)
<1>. DEFINE Eq(f) == f = [r \in N |-> IF key < k[r]
                                      THEN IF A[r] = 0 THEN <<r, l>> ELSE f[A[r]]
                                      ELSE IF B[r] = 0 THEN <<r, h>> ELSE f[B[r]]]
<1>1. PICK lo, hi : Shape(T, root, A, B, P, pos, lo, hi)
  BY DEF Fits
<1>2. /\ pos \in [T -> Int] /\ lo \in [T -> Int] /\ hi \in [T -> Int] /\ 0 \notin T
      /\ \A z \in T : lo[z] < pos[z] /\ pos[z] < hi[z]
      /\ \A y, z \in T : pos[y] = pos[z] => y = z
  BY <1>1 DEF Shape, Bounded
<1>3. \A z \in T :
        /\ A[z] \in T \cup {0} /\ B[z] \in T \cup {0}
        /\ IF A[z] = 0 THEN pos[z] = lo[z] + 1
           ELSE lo[A[z]] = lo[z] /\ hi[A[z]] = pos[z] /\ P[A[z]] = z
        /\ IF B[z] = 0 THEN hi[z] = pos[z] + 1
           ELSE lo[B[z]] = pos[z] /\ hi[B[z]] = hi[z] /\ P[B[z]] = z
  BY <1>1 DEF Shape, Hung
<1>4. root \in T /\ \A z \in T : lo[root] < pos[z] /\ pos[z] < hi[root]
  BY <1>1 DEF Shape, Rooted
<1>5. \A y, z \in T : pos[y] < pos[z] => k[y] <= k[z]
  BY DEF Sorted
<1>6. \E f : Eq(f)
  <2>. DEFINE next == [r \in N |-> IF key < k[r] THEN A[r] ELSE B[r]]
              Stop == {r \in N : next[r] = 0}
              base == [r \in N |-> IF key < k[r] THEN <<r, l>> ELSE <<r, h>>]
  <2>0. PICK m \in Nat : \E w : Heavier(T, A, B, w, m)
    BY WeightsExist
  <2>1. PICK w : Heavier(T, A, B, w, m)
    BY <2>0
  <2>2. /\ w \in [T \cup {0} -> 0 .. m]
        /\ \A z \in T : /\ w[0] < w[z]
                        /\ A[z] # 0 => w[A[z]] < w[z]
                        /\ B[z] # 0 => w[B[z]] < w[z]
    BY <2>1 DEF Heavier
  <2>3. PICK v : v = [r \in N |-> IF r \in T THEN w[r] ELSE 0]
    OBVIOUS
  <2>4. v \in [N -> 0 .. m]
    BY <2>2, <2>3
  <2>5. ASSUME NEW r \in N \ Stop PROVE next[r] \in N /\ v[next[r]] < v[r]
    <3>1. next[r] # 0 /\ next[r] \in {A[r], B[r]} /\ r \in T
      OBVIOUS
    <3>2. next[r] \in T /\ w[next[r]] < w[r]
      BY <1>3, <2>2, <3>1
    <3>. QED
      BY <2>3, <3>1, <3>2
  <2>6. Descends(N, Stop, next, v, m)
    BY <2>4, <2>5 DEF Descends
  <2>7. \A r \in N : /\ next[r] = IF key < k[r] THEN A[r] ELSE B[r]
                     /\ r \in Stop <=> next[r] = 0
                     /\ base[r] = IF key < k[r] THEN <<r, l>> ELSE <<r, h>>
    OBVIOUS
  <2>. HIDE DEF next, base, Stop
  <2>8. PICK f : Ends(f, N, Stop, next, base)
    BY <2>6, DescentExists
  <2>9. f = [r \in N |-> f[r]] /\ \A r \in N : f[r] = IF r \in Stop THEN base[r] ELSE f[next[r]]
    BY <2>8 DEF Ends
  <2>10. ASSUME NEW r \in N
         PROVE  f[r] = IF key < k[r]
                       THEN IF A[r] = 0 THEN <<r, l>> ELSE f[A[r]]
                       ELSE IF B[r] = 0 THEN <<r, h>> ELSE f[B[r]]
    BY <2>7, <2>9
  <2>. QED
    BY <2>9, <2>10
<1>7. ASSUME NEW f, Eq(f)
      PROVE  \E r, d : /\ f[root] = <<r, d>> /\ d \in {l, h}
                       /\ Gap(T, A, B, pos, k, key, r, d, l)
  <2>1. \A r \in T : f[r] = IF key < k[r]
                            THEN IF A[r] = 0 THEN <<r, l>> ELSE f[A[r]]
                            ELSE IF B[r] = 0 THEN <<r, h>> ELSE f[B[r]]
    BY <1>7
  <2>. HIDE DEF Eq
  <2>. DEFINE Good(v) == \E r, d : /\ v = <<r, d>> /\ d \in {l, h}
                                   /\ Gap(T, A, B, pos, k, key, r, d, l)
              Between(r) == \A z \in T : /\ pos[z] <= lo[r] => k[z] <= key
                                         /\ hi[r] <= pos[z] => key < k[z]
              Ok == {r \in T : Between(r) => Good(f[r])}
  <2>2. ASSUME NEW r \in T, A[r] # 0 => A[r] \in Ok, B[r] # 0 => B[r] \in Ok
        PROVE  r \in Ok
    <3>. SUFFICES ASSUME Between(r) PROVE Good(f[r])
      OBVIOUS
    <3>1. CASE key < k[r]
      <4>1. \A z \in T : pos[r] <= pos[z] => key < k[z]
        BY <1>2, <1>5, <3>1
      <4>2. CASE A[r] = 0
        <5>1. \A z \in T : IF pos[z] < pos[r] THEN k[z] <= key ELSE key < k[z]
          BY <1>2, <1>3, <4>1, <4>2
        <5>2. Gap(T, A, B, pos, k, key, r, l, l)
          BY <4>2, <5>1 DEF Gap
        <5>. QED
          BY <2>1, <3>1, <4>2, <5>2
      <4>3. CASE A[r] # 0
        <5>1. A[r] \in T /\ lo[A[r]] = lo[r] /\ hi[A[r]] = pos[r] /\ f[r] = f[A[r]]
          BY <1>3, <2>1, <3>1, <4>3
        <5>2. Between(A[r])
          BY <4>1, <5>1
        <5>3. A[r] \in Ok
          BY <2>2, <4>3
        <5>. QED
          BY <5>1, <5>2, <5>3
      <4>. QED
        BY <4>2, <4>3
    <3>2. CASE ~ (key < k[r])
      <4>1. \A z \in T : pos[z] <= pos[r] => k[z] <= key
        BY <1>2, <1>5, <3>2
      <4>2. CASE B[r] = 0
        <5>1. \A z \in T : IF pos[z] <= pos[r] THEN k[z] <= key ELSE key < k[z]
          BY <1>2, <1>3, <4>1, <4>2
        <5>2. Gap(T, A, B, pos, k, key, r, h, l)
          BY <4>2, <5>1 DEF Gap
        <5>. QED
          BY <2>1, <3>2, <4>2, <5>2
      <4>3. CASE B[r] # 0
        <5>1. B[r] \in T /\ lo[B[r]] = pos[r] /\ hi[B[r]] = hi[r] /\ f[r] = f[B[r]]
          BY <1>3, <2>1, <3>2, <4>3
        <5>2. Between(B[r])
          BY <4>1, <5>1
        <5>3. B[r] \in Ok
          BY <2>2, <4>3
        <5>. QED
          BY <5>1, <5>2, <5>3
      <4>. QED
        BY <4>2, <4>3
    <3>. QED
      BY <3>1, <3>2
  <2>3. Between(root)
    BY <1>2, <1>4
  <2>. HIDE DEF Ok
  <2>4. T \subseteq Ok
    BY <2>2, FromBelow
  <2>. QED
    BY <1>4, <2>3, <2>4 DEF Ok
<1>. QED
  BY <1>6, <1>7 DEF FindsGap

\* What a search for the closest key at or above the wanted one may answer
\* when the best before the nodes Z was s, of key sk.
Closest(Z, k, key, s, sk, v) ==
    LET Above == {z \in Z : key <= k[z]}
    IN  \/ v = s /\ \A z \in Above : sk < k[z]
        \/ v \in Above /\ \A z \in Above : k[v] <= k[z]
\* What searches for the closest key.
FindsClosest(T, N, root, A, B, k, key, inf) ==
    LET X == N \cup {0}
        Eq(f) == f = [v \in X \X X \X Int |->
                        IF v[1] = 0 THEN v[2]
                        ELSE CASE key = k[v[1]] -> v[1]
                               [] key < k[v[1]] -> IF k[v[1]] <= v[3]
                                                   THEN f[<<A[v[1]], v[1], k[v[1]]>>]
                                                   ELSE f[<<A[v[1]], v[2], v[3]>>]
                               [] OTHER -> f[<<B[v[1]], v[2], v[3]>>]]
    IN  /\ \E f : Eq(f)
        /\ \A f : Eq(f) => Closest(T, k, key, 0, inf, f[<<root, 0, inf>>])

LEMMA SuccIs ==
    ASSUME NEW T, NEW root, NEW A, NEW B, NEW P, NEW pos, Fits(T, root, A, B, P, pos),
           NEW N, T \subseteq N, 0 \notin N, \A z \in N \ T : A[z] = 0 /\ B[z] = 0,
           NEW k \in [N -> Int], NEW kt, Sorted(T, pos, kt), \A z \in T : kt[z] = k[z], NEW key \in Int,
           NEW inf \in Int
    PROVE  FindsClosest(T, N, root, A, B, k, key, inf)
<1>. DEFINE X == N \cup {0}
            S == X \X X \X Int
            Eq(f) == f = [v \in S |->
                            IF v[1] = 0 THEN v[2]
                            ELSE CASE key = k[v[1]] -> v[1]
                                   [] key < k[v[1]] -> IF k[v[1]] <= v[3]
                                                       THEN f[<<A[v[1]], v[1], k[v[1]]>>]
                                                       ELSE f[<<A[v[1]], v[2], v[3]>>]
                                   [] OTHER -> f[<<B[v[1]], v[2], v[3]>>]]
<1>1. PICK lo, hi : Shape(T, root, A, B, P, pos, lo, hi)
  BY DEF Fits
<1>2. /\ pos \in [T -> Int]
      /\ \A y, z \in T : pos[y] < pos[z] => k[y] <= k[z]
  BY DEF Sorted
<1>. DEFINE R(r) == Reach(T, pos, lo, hi, r)
<1>3. /\ \A r \in T : /\ A[r] \in T \cup {0} /\ B[r] \in T \cup {0} /\ r # 0
                      /\ R(r) = {r} \cup R(A[r]) \cup R(B[r])
                      /\ \A z \in R(A[r]) : z \in T /\ pos[z] < pos[r]
                      /\ \A z \in R(B[r]) : z \in T /\ pos[r] < pos[z]
      /\ R(root) = T /\ root \in T \cup {0}
  BY <1>1, ReachIs, ReachRoot
<1>4. R(0) = {}
  BY DEF Reach
<1>. HIDE DEF R
<1>5. \E f : Eq(f)
  <2>. DEFINE Stop == {v \in S : v[1] = 0 \/ key = k[v[1]]}
              next == [v \in S |-> IF key < k[v[1]]
                                   THEN IF k[v[1]] <= v[3] THEN <<A[v[1]], v[1], k[v[1]]>>
                                                           ELSE <<A[v[1]], v[2], v[3]>>
                                   ELSE <<B[v[1]], v[2], v[3]>>]
              base == [v \in S |-> IF v[1] = 0 THEN v[2] ELSE v[1]]
  <2>0. PICK m \in Nat : \E w : Heavier(T, A, B, w, m)
    BY WeightsExist
  <2>1. PICK w : Heavier(T, A, B, w, m)
    BY <2>0
  <2>2. /\ w \in [T \cup {0} -> 0 .. m]
        /\ \A z \in T : /\ w[0] < w[z]
                        /\ A[z] # 0 => w[A[z]] < w[z]
                        /\ B[z] # 0 => w[B[z]] < w[z]
    BY <2>1 DEF Heavier
  <2>3. PICK g : g = [r \in X |-> IF r = 0 THEN 0 ELSE IF r \in T THEN w[r] + 1 ELSE 1]
    OBVIOUS
  <2>4. g \in [X -> 0 .. m + 1] /\ m + 1 \in Nat /\ g[0] = 0
    BY <2>2, <2>3
  <2>5. ASSUME NEW r \in N, NEW c \in {A[r], B[r]} PROVE c \in X /\ g[c] < g[r]
    <3>2. CASE r \in T
      <4>1. c \in T \cup {0} /\ g[r] = w[r] + 1 /\ r # 0
        BY <1>3, <2>3, <2>5, <3>2
      <4>2. CASE c = 0
        BY <2>2, <2>4, <3>2, <4>1, <4>2
      <4>3. CASE c # 0
        <5>1. c \in T /\ g[c] = w[c] + 1 /\ w[c] < w[r] /\ c \in N
          BY <2>2, <2>3, <2>5, <3>2, <4>1, <4>3
        <5>. QED
          BY <2>2, <3>2, <4>1, <5>1
      <4>. QED
        BY <4>2, <4>3
    <3>3. CASE r \notin T
      <4>1. c = 0 /\ g[r] = 1
        BY <2>3, <2>5, <3>3
      <4>. QED
        BY <2>4, <4>1
    <3>. QED
      BY <3>2, <3>3
  <2>6. PICK u : u = [v \in S |-> g[v[1]]]
    OBVIOUS
  <2>7. u \in [S -> 0 .. m + 1]
    BY <2>4, <2>6
  <2>8. ASSUME NEW v \in S \ Stop PROVE next[v] \in S /\ u[next[v]] < u[v]
    <3>1. PICK r \in N, s \in X, sk \in Int : v = <<r, s, sk>>
      OBVIOUS
    <3>2. next[v] = IF key < k[r]
                    THEN IF k[r] <= sk THEN <<A[r], r, k[r]>> ELSE <<A[r], s, sk>>
                    ELSE <<B[r], s, sk>>
      BY <3>1
    <3>3. PICK c \in {A[r], B[r]}, s2 \in X, sk2 \in Int : next[v] = <<c, s2, sk2>>
      BY <3>1, <3>2
    <3>4. c \in X /\ g[c] < g[r]
      BY <2>5
    <3>5. next[v] \in S
      BY <3>3, <3>4
    <3>6. u[next[v]] = g[c] /\ u[v] = g[r]
      BY <2>6, <3>1, <3>3, <3>5
    <3>. QED
      BY <3>4, <3>5, <3>6
  <2>9. Descends(S, Stop, next, u, m + 1)
    BY <2>4, <2>7, <2>8 DEF Descends
  <2>10. \A v \in S : /\ next[v] = IF key < k[v[1]]
                                   THEN IF k[v[1]] <= v[3] THEN <<A[v[1]], v[1], k[v[1]]>>
                                                           ELSE <<A[v[1]], v[2], v[3]>>
                                   ELSE <<B[v[1]], v[2], v[3]>>
                      /\ v \in Stop <=> v[1] = 0 \/ key = k[v[1]]
                      /\ base[v] = IF v[1] = 0 THEN v[2] ELSE v[1]
                      /\ v[1] # 0 => v[1] \in N /\ k[v[1]] \in Int
                      /\ v[3] \in Int
    OBVIOUS
  <2>. HIDE DEF next, base, Stop, S
  <2>11. PICK f : Ends(f, S, Stop, next, base)
    BY <2>9, DescentExists
  <2>12. f = [v \in S |-> f[v]] /\ \A v \in S : f[v] = IF v \in Stop THEN base[v] ELSE f[next[v]]
    BY <2>11 DEF Ends
  <2>13. ASSUME NEW v \in S
         PROVE  f[v] = IF v[1] = 0 THEN v[2]
                       ELSE CASE key = k[v[1]] -> v[1]
                              [] key < k[v[1]] -> IF k[v[1]] <= v[3]
                                                  THEN f[<<A[v[1]], v[1], k[v[1]]>>]
                                                  ELSE f[<<A[v[1]], v[2], v[3]>>]
                              [] OTHER -> f[<<B[v[1]], v[2], v[3]>>]
    <3>1. CASE v[1] = 0
      BY <2>10, <2>12, <3>1
    <3>2. CASE v[1] # 0 /\ key = k[v[1]]
      BY <2>10, <2>12, <3>2
    <3>3. CASE v[1] # 0 /\ key < k[v[1]]
      <4>1. /\ f[v] = f[next[v]] /\ k[v[1]] \in Int /\ v[3] \in Int /\ key # k[v[1]]
            /\ next[v] = IF k[v[1]] <= v[3] THEN <<A[v[1]], v[1], k[v[1]]>>
                                           ELSE <<A[v[1]], v[2], v[3]>>
        <5>1. k[v[1]] \in Int /\ v[3] \in Int
          BY <2>10, <3>3
        <5>2. key # k[v[1]]
          BY <3>3, <5>1
        <5>3. v \notin Stop
          BY <2>10, <3>3, <5>2
        <5>4. f[v] = f[next[v]]
          BY <2>12, <5>3
        <5>5. next[v] = IF k[v[1]] <= v[3] THEN <<A[v[1]], v[1], k[v[1]]>>
                                           ELSE <<A[v[1]], v[2], v[3]>>
          <6>1. next[v] = IF key < k[v[1]]
                          THEN IF k[v[1]] <= v[3] THEN <<A[v[1]], v[1], k[v[1]]>>
                                                  ELSE <<A[v[1]], v[2], v[3]>>
                          ELSE <<B[v[1]], v[2], v[3]>>
            BY <2>10
          <6>. QED
            BY <3>3, <6>1
        <5>. QED
          BY <5>1, <5>2, <5>4, <5>5
      <4>2. CASE k[v[1]] <= v[3]
        BY <3>3, <4>1, <4>2
      <4>3. CASE ~ (k[v[1]] <= v[3])
        BY <3>3, <4>1, <4>3
      <4>. QED
        BY <4>2, <4>3
    <3>4. CASE v[1] # 0 /\ k[v[1]] < key
      BY <2>10, <2>12, <3>4
    <3>. QED
      BY <2>10, <3>1, <3>2, <3>3, <3>4
  <2>. QED
    BY <2>12, <2>13
<1>6. ASSUME NEW f, Eq(f) PROVE Closest(T, k, key, 0, inf, f[<<root, 0, inf>>])
  <2>1. \A s \in X, sk \in Int : f[<<0, s, sk>>] = s
    BY <1>6
  <2>2. ASSUME NEW r \in T, NEW s \in X, NEW sk \in Int, NEW y, y = f[<<r, s, sk>>]
        PROVE  /\ key = k[r] => y = r
               /\ key < k[r] /\ k[r] <= sk => y = f[<<A[r], r, k[r]>>]
               /\ key < k[r] /\ sk < k[r] => y = f[<<A[r], s, sk>>]
               /\ k[r] < key => y = f[<<B[r], s, sk>>]
    <3>0. r # 0 /\ r \in N /\ k[r] \in Int /\ <<r, s, sk>> \in S
      BY <1>3
    <3>1. PICK v \in S : v = <<r, s, sk>> /\ v[1] = r /\ v[2] = s /\ v[3] = sk
      BY <3>0
    <3>2. y = IF v[1] = 0 THEN v[2]
              ELSE CASE key = k[v[1]] -> v[1]
                     [] key < k[v[1]] -> IF k[v[1]] <= v[3]
                                         THEN f[<<A[v[1]], v[1], k[v[1]]>>]
                                         ELSE f[<<A[v[1]], v[2], v[3]>>]
                     [] OTHER -> f[<<B[v[1]], v[2], v[3]>>]
      <4>. DEFINE e(u) == IF u[1] = 0 THEN u[2]
                          ELSE CASE key = k[u[1]] -> u[1]
                                 [] key < k[u[1]] -> IF k[u[1]] <= u[3]
                                                     THEN f[<<A[u[1]], u[1], k[u[1]]>>]
                                                     ELSE f[<<A[u[1]], u[2], u[3]>>]
                                 [] OTHER -> f[<<B[u[1]], u[2], u[3]>>]
      <4>1. f = [u \in S |-> e(u)]
        BY <1>6
      <4>. HIDE DEF S, e
      <4>2. y = e(v)
        BY <2>2, <3>1, <4>1
      <4>. QED
        BY <4>2 DEF e
    <3>3. y = CASE key = k[r] -> r
                [] key < k[r] -> IF k[r] <= sk THEN f[<<A[r], r, k[r]>>] ELSE f[<<A[r], s, sk>>]
                [] OTHER -> f[<<B[r], s, sk>>]
      BY <3>0, <3>1, <3>2
    <3>. QED
      BY <3>0, <3>3
  <2>. HIDE DEF Eq
  <2>. DEFINE Good(r) == \A s \in X, sk \in Int : Closest(R(r), k, key, s, sk, f[<<r, s, sk>>])
              Ok == {r \in T : Good(r)}
  <2>3. Good(0)
    BY <1>4, <2>1, Zenon DEF Closest
  <2>4. ASSUME NEW r \in T, A[r] # 0 => A[r] \in Ok, B[r] # 0 => B[r] \in Ok
        PROVE  r \in Ok
    <3>1. Good(A[r]) /\ Good(B[r])
      BY <1>3, <2>3, <2>4
    <3>2. \A z : z \in R(r) <=> z = r \/ z \in R(A[r]) \/ z \in R(B[r])
      BY <1>3
    <3>3. /\ \A z \in R(A[r]) : k[z] \in Int /\ k[z] <= k[r]
          /\ \A z \in R(B[r]) : k[z] \in Int /\ k[r] <= k[z]
          /\ k[r] \in Int /\ r \in X
      BY <1>2, <1>3
    <3>. SUFFICES ASSUME NEW s \in X, NEW sk \in Int
                  PROVE  Closest(R(r), k, key, s, sk, f[<<r, s, sk>>])
      OBVIOUS
    <3>. DEFINE v == f[<<r, s, sk>>]
    <3>4. /\ key = k[r] => v = r
          /\ key < k[r] /\ k[r] <= sk => v = f[<<A[r], r, k[r]>>]
          /\ key < k[r] /\ sk < k[r] => v = f[<<A[r], s, sk>>]
          /\ k[r] < key => v = f[<<B[r], s, sk>>]
      BY <2>2
    <3>5. /\ Closest(R(A[r]), k, key, r, k[r], f[<<A[r], r, k[r]>>])
          /\ Closest(R(A[r]), k, key, s, sk, f[<<A[r], s, sk>>])
          /\ Closest(R(B[r]), k, key, s, sk, f[<<B[r], s, sk>>])
      BY <3>1, <3>3
    <3>. SUFFICES Closest(R(r), k, key, s, sk, v)
      OBVIOUS
    <3>. HIDE DEF v
    <3>6. CASE key = k[r]
      BY <3>2, <3>3, <3>4, <3>6 DEF Closest
    <3>7. CASE key < k[r] /\ k[r] <= sk
      <4>1. Closest(R(A[r]), k, key, r, k[r], v)
        BY <3>4, <3>5, <3>7
      <4>. QED
        BY <3>2, <3>3, <3>7, <4>1 DEF Closest
    <3>8. CASE key < k[r] /\ sk < k[r]
      <4>1. Closest(R(A[r]), k, key, s, sk, v)
        BY <3>4, <3>5, <3>8
      <4>. QED
        BY <3>2, <3>3, <3>8, <4>1 DEF Closest
    <3>9. CASE k[r] < key
      <4>1. Closest(R(B[r]), k, key, s, sk, v)
        BY <3>4, <3>5, <3>9
      <4>. QED
        BY <3>2, <3>3, <3>9, <4>1 DEF Closest
    <3>. QED
      BY <3>3, <3>6, <3>7, <3>8, <3>9
  <2>. HIDE DEF Ok
  <2>5. T \subseteq Ok
    BY <2>4, FromBelow
  <2>6. Good(root)
    BY <1>3, <2>3, <2>5 DEF Ok
  <2>. QED
    BY <1>3, <2>6
<1>. QED
  BY <1>5, <1>6 DEF FindsClosest

\* the nodes at the places between a and b
Cut(at, a, b) == [i \in 1 .. b - a - 1 |-> at[a + i]]

CutAt(T, at, a, m, b) ==
    /\ Cut(at, a, m) \o <<at[m]>> \o Cut(at, m, b) = Cut(at, a, b)
    /\ Cut(at, a, b) \in Seq(T) /\ Len(Cut(at, a, b)) = b - a - 1

LEMMA CutJoins ==
    ASSUME NEW T, NEW at \in [Int -> T], NEW a \in Int, NEW m \in Int, NEW b \in Int, a < m, m < b
    PROVE  CutAt(T, at, a, m, b)
<1>. DEFINE s == Cut(at, a, m)
            t == Cut(at, m, b)
            u == Cut(at, a, b)
            c == <<at[m]>>
<1>1. /\ s \in Seq(T) /\ Len(s) = m - a - 1 /\ \A i \in 1 .. m - a - 1 : s[i] = at[a + i]
      /\ t \in Seq(T) /\ Len(t) = b - m - 1 /\ \A i \in 1 .. b - m - 1 : t[i] = at[m + i]
      /\ u \in Seq(T) /\ Len(u) = b - a - 1 /\ \A i \in 1 .. b - a - 1 : u[i] = at[a + i]
      /\ c \in Seq(T) /\ Len(c) = 1 /\ c[1] = at[m]
  BY DEF Cut
<1>. HIDE DEF s, t, u, c
<1>2. /\ s \o c \in Seq(T) /\ Len(s \o c) = m - a
      /\ \A i \in 1 .. m - a - 1 : (s \o c)[i] = at[a + i]
      /\ (s \o c)[m - a] = at[m]
  <2>1. /\ s \o c \in Seq(T) /\ Len(s \o c) = Len(s) + Len(c)
        /\ \A j \in 1 .. Len(s) : (s \o c)[j] = s[j]
        /\ \A j \in 1 .. Len(c) : (s \o c)[Len(s) + j] = c[j]
    <3>1. s \in Seq(T) /\ c \in Seq(T)
      BY <1>1
    <3>. QED
      BY <3>1, Concat
  <2>2. (s \o c)[Len(s) + 1] = c[1] /\ Len(s) + 1 = m - a
    BY <1>1, <2>1
  <2>. QED
    BY <1>1, <2>1, <2>2
<1>3. PICK v : v = s \o c
  OBVIOUS
<1>4. /\ v \o t \in Seq(T) /\ Len(v \o t) = b - a - 1
      /\ \A i \in 1 .. m - a : (v \o t)[i] = v[i]
      /\ \A i \in 1 .. b - m - 1 : (v \o t)[m - a + i] = t[i]
  <2>1. v \in Seq(T) /\ t \in Seq(T) /\ Len(v) = m - a /\ Len(t) = b - m - 1
    BY <1>1, <1>2, <1>3
  <2>2. /\ v \o t \in Seq(T) /\ Len(v \o t) = Len(v) + Len(t)
        /\ \A i \in 1 .. Len(v) : (v \o t)[i] = v[i]
        /\ \A i \in 1 .. Len(t) : (v \o t)[Len(v) + i] = t[i]
    <3>1. v \in Seq(T) /\ t \in Seq(T)
      BY <2>1
    <3>. QED
      BY <3>1, Concat
  <2>3. Len(v \o t) = b - a - 1
    BY <2>1, <2>2
  <2>4. \A i \in 1 .. m - a : (v \o t)[i] = v[i]
    BY <2>1, <2>2
  <2>5. \A i \in 1 .. b - m - 1 : (v \o t)[m - a + i] = t[i]
    BY <2>1, <2>2
  <2>. QED
    BY <2>2, <2>3, <2>4, <2>5
<1>5. ASSUME NEW i \in 1 .. b - a - 1 PROVE (v \o t)[i] = u[i]
  <2>0. i \in Int /\ 1 <= i /\ i <= b - a - 1
    OBVIOUS
  <2>1. CASE i <= m - a - 1
    BY <1>1, <1>2, <1>3, <1>4, <2>1
  <2>2. CASE i = m - a
    BY <1>1, <1>2, <1>3, <1>4, <2>2
  <2>3. CASE m - a < i
    <3>1. PICK j \in 1 .. b - m - 1 : i = m - a + j
      <4>1. i - (m - a) \in 1 .. b - m - 1 /\ i = m - a + (i - (m - a))
        BY <2>0, <2>3
      <4>. QED
        BY <4>1
    <3>2. (v \o t)[i] = t[j]
      BY <1>4, <3>1
    <3>3. t[j] = at[m + j] /\ u[i] = at[a + i]
      BY <1>1, <3>1
    <3>4. a + i = m + j
      BY <2>0, <3>1
    <3>. QED
      BY <3>2, <3>3, <3>4
  <2>4. i <= m - a - 1 \/ i = m - a \/ m - a < i
    BY <2>0
  <2>. QED
    BY <2>1, <2>2, <2>3, <2>4
<1>6. v \o t = u
  <2>1. PICK w : w = v \o t
    OBVIOUS
  <2>2. w \in Seq(T) /\ u \in Seq(T) /\ Len(w) = Len(u) /\ Len(u) = b - a - 1
    BY <1>1, <1>4, <2>1
  <2>3. \A i \in 1 .. Len(u) : w[i] = u[i]
    BY <1>5, <2>1, <2>2
  <2>4. w = u
    BY <2>2, <2>3
  <2>. QED
    BY <2>1, <2>4
<1>. QED
  BY <1>1, <1>3, <1>6 DEF s, t, u, c, CutAt

\* Every place between the bounds of a node is taken.
LEMMA PlacesFilled ==
    ASSUME NEW T, NEW root, NEW A, NEW B, NEW P, NEW pos, NEW lo, NEW hi,
           Shape(T, root, A, B, P, pos, lo, hi), NEW r \in T, NEW i \in Int, lo[r] < i, i < hi[r]
    PROVE  \E z \in T : pos[z] = i
<1>1. /\ pos \in [T -> Int] /\ lo \in [T -> Int] /\ hi \in [T -> Int]
  BY DEF Shape, Bounded
<1>2. \A z \in T :
        /\ IF A[z] = 0 THEN pos[z] = lo[z] + 1 ELSE lo[A[z]] = lo[z] /\ hi[A[z]] = pos[z]
        /\ IF B[z] = 0 THEN hi[z] = pos[z] + 1 ELSE lo[B[z]] = pos[z] /\ hi[B[z]] = hi[z]
  BY DEF Shape, Hung
<1>. DEFINE Ok == {x \in T : lo[x] < i /\ i < hi[x] => \E z \in T : pos[z] = i}
<1>3. ASSUME NEW x \in T, A[x] # 0 => A[x] \in Ok, B[x] # 0 => B[x] \in Ok
      PROVE  x \in Ok
  <2>. SUFFICES ASSUME lo[x] < i, i < hi[x], pos[x] # i PROVE \E z \in T : pos[z] = i
    OBVIOUS
  <2>1. CASE i < pos[x]
    BY <1>1, <1>2, <1>3, <2>1
  <2>2. CASE pos[x] < i
    BY <1>1, <1>2, <1>3, <2>2
  <2>. QED
    BY <1>1, <2>1, <2>2
<1>4. Fits(T, root, A, B, P, pos)
  BY DEF Fits
<1>. HIDE DEF Ok
<1>5. T \subseteq Ok
  BY <1>3, <1>4, FromBelow
<1>. QED
  BY <1>5 DEF Ok

\* The nodes in order.
Ordered(s, T, pos) ==
    /\ s \in Seq(T) /\ Len(s) = Cardinality(T) /\ {s[i] : i \in DOMAIN s} = T /\ IsFiniteSet(T)
    /\ \A i \in 1 .. Len(s) - 1 : pos[s[i]] < pos[s[i + 1]]
\* What lists the nodes in order.
Lists(T, N, root, A, B, pos) ==
    LET Eq(f) == f = [r \in N \cup {0} |-> IF r = 0 THEN <<>> ELSE f[A[r]] \o <<r>> \o f[B[r]]]
    IN  /\ \E f : Eq(f)
        /\ \A f : Eq(f) => Ordered(f[root], T, pos)

LEMMA RowIs ==
    ASSUME NEW T, NEW root, NEW A, NEW B, NEW P, NEW pos, Fits(T, root, A, B, P, pos),
           NEW N, T \subseteq N, 0 \notin N, \A z \in N \ T : A[z] = 0 /\ B[z] = 0
    PROVE  Lists(T, N, root, A, B, pos)
<1>. DEFINE Eq(f) == f = [r \in N \cup {0} |-> IF r = 0 THEN <<>> ELSE f[A[r]] \o <<r>> \o f[B[r]]]
<1>1. PICK lo, hi : Shape(T, root, A, B, P, pos, lo, hi)
  BY DEF Fits
<1>2. /\ pos \in [T -> Int] /\ lo \in [T -> Int] /\ hi \in [T -> Int] /\ 0 \notin T
      /\ \A z \in T : lo[z] < pos[z] /\ pos[z] < hi[z]
      /\ \A y, z \in T : pos[y] = pos[z] => y = z
  BY <1>1 DEF Shape, Bounded
<1>3. \A z \in T :
        /\ A[z] \in T \cup {0} /\ B[z] \in T \cup {0}
        /\ IF A[z] = 0 THEN pos[z] = lo[z] + 1 ELSE lo[A[z]] = lo[z] /\ hi[A[z]] = pos[z]
        /\ IF B[z] = 0 THEN hi[z] = pos[z] + 1 ELSE lo[B[z]] = pos[z] /\ hi[B[z]] = hi[z]
  BY <1>1 DEF Shape, Hung
<1>4. IF T = {} THEN root = 0
      ELSE root \in T /\ \A z \in T : lo[root] < pos[z] /\ pos[z] < hi[root]
  BY <1>1 DEF Shape, Rooted
<1>5. \A r \in N \ T : <<>> \o <<r>> \o <<>> = <<r>> /\ r # 0
  BY ConcatShort
<1>6. CASE T = {}
  <2>1. PICK g : g = [r \in N \cup {0} |-> IF r = 0 THEN <<>> ELSE <<r>>]
    OBVIOUS
  <2>2. ASSUME NEW r \in N \cup {0}
        PROVE  g[r] = IF r = 0 THEN <<>> ELSE g[A[r]] \o <<r>> \o g[B[r]]
    <3>1. CASE r = 0
      BY <2>1, <3>1
    <3>2. CASE r \in N
      <4>1. A[r] = 0 /\ B[r] = 0 /\ r # 0 /\ g[0] = <<>> /\ g[r] = <<r>>
        BY <1>6, <2>1, <3>2
      <4>. QED
        BY <1>5, <1>6, <3>2, <4>1
    <3>. QED
      BY <3>1, <3>2
  <2>3. Eq(g)
    BY <2>1, <2>2
  <2>4. ASSUME NEW f, Eq(f) PROVE Ordered(f[root], T, pos)
    <3>1. f[root] = <<>>
      BY <1>4, <1>6, <2>4
    <3>. QED
      BY <1>6, <3>1, FS_EmptySet DEF Ordered
  <2>. QED
    BY <2>3, <2>4
<1>7. CASE T # {}
  <2>1. PICK at : at = [i \in Int |-> IF \E z \in T : pos[z] = i THEN CHOOSE z \in T : pos[z] = i ELSE root]
    OBVIOUS
  <2>2. at \in [Int -> T] /\ \A r \in T : at[pos[r]] = r
    <3>1. ASSUME NEW i \in Int PROVE at[i] \in T
      BY <1>4, <1>7, <2>1
    <3>2. ASSUME NEW r \in T PROVE at[pos[r]] = r
      BY <1>2, <2>1
    <3>. QED
      BY <2>1, <3>1, <3>2
  <2>. DEFINE Row(r) == IF r = 0 THEN <<>> ELSE Cut(at, lo[r], hi[r])
  <2>3. \A r \in T : Row(A[r]) \o <<r>> \o Row(B[r]) = Row(r)
    <3>. SUFFICES ASSUME NEW r \in T PROVE Row(A[r]) \o <<r>> \o Row(B[r]) = Row(r)
      OBVIOUS
    <3>1. /\ Row(A[r]) = Cut(at, lo[r], pos[r])
      <4>1. CASE A[r] = 0
        <5>1. 1 .. pos[r] - lo[r] - 1 = {}
          BY <1>2, <1>3, <4>1
        <5>. QED
          BY <4>1, <5>1 DEF Cut
      <4>2. CASE A[r] # 0
        BY <1>3, <4>2
      <4>. QED
        BY <4>1, <4>2
    <3>2. /\ Row(B[r]) = Cut(at, pos[r], hi[r])
      <4>1. CASE B[r] = 0
        <5>1. 1 .. hi[r] - pos[r] - 1 = {}
          BY <1>2, <1>3, <4>1
        <5>. QED
          BY <4>1, <5>1 DEF Cut
      <4>2. CASE B[r] # 0
        BY <1>3, <4>2
      <4>. QED
        BY <4>1, <4>2
    <3>3. Cut(at, lo[r], pos[r]) \o <<at[pos[r]]>> \o Cut(at, pos[r], hi[r]) = Cut(at, lo[r], hi[r])
      <4>1. /\ lo[r] \in Int /\ pos[r] \in Int /\ hi[r] \in Int
            /\ lo[r] < pos[r] /\ pos[r] < hi[r] /\ at \in [Int -> T]
        BY <1>2, <2>2
      <4>2. CutAt(T, at, lo[r], pos[r], hi[r])
        BY <4>1, CutJoins
      <4>. QED
        BY <4>2 DEF CutAt
    <3>4. at[pos[r]] = r /\ r # 0
      BY <1>2, <2>2
    <3>5. Row(r) = Cut(at, lo[r], hi[r])
      BY <3>4
    <3>. HIDE DEF Row
    <3>. QED
      BY <3>1, <3>2, <3>3, <3>4, <3>5
  <2>4. Row(0) = <<>>
    OBVIOUS
  <2>5. Row(root) = Cut(at, lo[root], hi[root]) /\ root \in T
    BY <1>2, <1>4, <1>7
  <2>. HIDE DEF Row
  <2>6. \E f : Eq(f)
    <3>1. PICK g : g = [r \in N \cup {0} |-> IF r \in T \cup {0} THEN Row(r) ELSE <<r>>]
      OBVIOUS
    <3>2. ASSUME NEW r \in N \cup {0}
          PROVE  g[r] = IF r = 0 THEN <<>> ELSE g[A[r]] \o <<r>> \o g[B[r]]
      <4>1. CASE r = 0
        BY <2>4, <3>1, <4>1
      <4>2. CASE r \in T
        <5>1. g[r] = Row(r) /\ g[A[r]] = Row(A[r]) /\ g[B[r]] = Row(B[r]) /\ r # 0
          BY <1>2, <1>3, <3>1, <4>2
        <5>. QED
          BY <2>3, <4>2, <5>1
      <4>3. CASE r \in N \ T
        <5>1. A[r] = 0 /\ B[r] = 0 /\ r # 0
          BY <4>3
        <5>2. g[0] = <<>> /\ g[r] = <<r>>
          BY <2>4, <3>1, <4>3, <5>1
        <5>. QED
          BY <1>5, <4>3, <5>1, <5>2
      <4>. QED
        BY <4>1, <4>2, <4>3
    <3>3. Eq(g)
      BY <3>1, <3>2, Zenon
    <3>. QED
      BY <3>3
  <2>7. ASSUME NEW f, Eq(f) PROVE f[root] = Row(root)
    <3>1. f[0] = <<>> /\ \A r \in T : f[r] = f[A[r]] \o <<r>> \o f[B[r]]
      BY <1>2, <2>7, Zenon
    <3>. HIDE DEF Eq
    <3>. DEFINE Ok == {r \in T : f[r] = Row(r)}
    <3>2. ASSUME NEW r \in T, A[r] # 0 => A[r] \in Ok, B[r] # 0 => B[r] \in Ok
          PROVE  r \in Ok
      <4>1. f[A[r]] = Row(A[r]) /\ f[B[r]] = Row(B[r])
        BY <1>3, <2>4, <3>1, <3>2
      <4>2. f[r] = f[A[r]] \o <<r>> \o f[B[r]]
        BY <3>1
      <4>3. f[r] = Row(r)
        BY <2>3, <4>1, <4>2
      <4>. QED
        BY <4>3
    <3>. HIDE DEF Ok
    <3>3. T \subseteq Ok
      BY <3>2, FromBelow
    <3>. QED
      BY <2>5, <3>3 DEF Ok
  <2>8. Ordered(Row(root), T, pos)
    <3>1. PICK a \in Int, b \in Int : a = lo[root] /\ b = hi[root] /\ a < pos[root] /\ pos[root] < b /\ pos[root] \in Int
      BY <1>2, <2>5
    <3>2. PICK s : s = Cut(at, a, b)
      OBVIOUS
    <3>3. PICK m \in Nat : m = b - a - 1
      BY <3>1
    <3>4. s \in Seq(T) /\ Len(s) = m
      <4>1. PICK q \in Int : a < q /\ q < b /\ at \in [Int -> T]
        BY <2>2, <3>1
      <4>2. CutAt(T, at, a, q, b)
        BY <4>1, CutJoins
      <4>. QED
        BY <3>2, <3>3, <4>2 DEF CutAt
    <3>5. \A i \in 1 .. m : s[i] = at[a + i]
      BY <3>2, <3>3 DEF Cut
    <3>6. \A i \in 1 .. m : s[i] \in T /\ pos[s[i]] = a + i
      <4>. SUFFICES ASSUME NEW i \in 1 .. m PROVE s[i] \in T /\ pos[s[i]] = a + i
        OBVIOUS
      <4>1. a + i \in Int /\ lo[root] < a + i /\ a + i < hi[root]
        BY <3>1, <3>3
      <4>2. PICK z \in T : pos[z] = a + i
        BY <1>1, <2>5, <4>1, PlacesFilled
      <4>. QED
        BY <2>2, <3>5, <4>2
    <3>7. \A z \in T : pos[z] - a \in 1 .. m /\ s[pos[z] - a] = z
      <4>. SUFFICES ASSUME NEW z \in T PROVE pos[z] - a \in 1 .. m /\ s[pos[z] - a] = z
        OBVIOUS
      <4>1. pos[z] \in Int /\ a < pos[z] /\ pos[z] < b
        BY <1>2, <1>4, <1>7, <3>1
      <4>2. pos[z] - a \in 1 .. m /\ a + (pos[z] - a) = pos[z]
        BY <3>1, <3>3, <4>1
      <4>. QED
        BY <2>2, <3>5, <4>2
    <3>8. s \in Bijection(1 .. m, T)
      <4>1. s \in [1 .. m -> T]
        BY <3>4
      <4>2. IsInjective(s)
        BY <3>6, <4>1 DEF IsInjective
      <4>3. s \in Surjection(1 .. m, T)
        BY <3>7, <4>1 DEF Surjection
      <4>. QED
        BY <4>1, <4>2, <4>3 DEF Bijection, Injection
    <3>9. IsFiniteSet(T) /\ Cardinality(T) = m
      <4>1. IsFiniteSet(1 .. m) /\ Cardinality(1 .. m) = m
        BY FS_Interval
      <4>. QED
        BY <3>8, <4>1, FS_Bijection DEF ExistsBijection
    <3>10. {s[i] : i \in DOMAIN s} = T
      <4>1. DOMAIN s = 1 .. m
        BY <3>4
      <4>. QED
        BY <3>6, <3>7, <4>1
    <3>11. \A i \in 1 .. m - 1 : pos[s[i]] < pos[s[i + 1]]
      <4>1. \A i \in 1 .. m - 1 : i \in 1 .. m /\ i + 1 \in 1 .. m
        OBVIOUS
      <4>. QED
        BY <3>1, <3>6, <4>1
    <3>12. Ordered(s, T, pos)
      BY <3>4, <3>9, <3>10, <3>11 DEF Ordered
    <3>. QED
      BY <2>5, <3>1, <3>2, <3>12
  <2>. QED
    BY <2>6, <2>7, <2>8
<1>. QED
  BY <1>6, <1>7 DEF Lists

-----------------------------------------------------------------------------
(* Red-black trees.  R is the set of the red nodes; h gives the black      *)
(* nodes on every path down from a node, where one more is counted below a *)
(* on its first side and below b on the other (0: nowhere).                *)

\* What the pointers of a tree have in common.
Links(T, root, A, B, P) ==
    /\ 0 \notin T /\ root \in T \cup {0} /\ (T # {} => root # 0)
    /\ \A z \in T :
          /\ A[z] \in T \cup {0} /\ B[z] \in T \cup {0} /\ P[z] \in T \cup {0}
          /\ A[z] # z /\ B[z] # z /\ P[z] # z
          /\ A[z] # 0 => P[A[z]] = z
          /\ B[z] # 0 => P[B[z]] = z
          /\ A[z] = B[z] => A[z] = 0
          /\ P[z] # 0 => (A[P[z]] = z \/ B[P[z]] = z) /\ P[P[z]] # z
          /\ P[z] # 0 /\ P[P[z]] # 0 => P[P[P[z]]] # z
          /\ P[z] = 0 <=> z = root

LEMMA LinksHold ==
    ASSUME NEW T, NEW root, NEW A, NEW B, NEW P, NEW pos, Fits(T, root, A, B, P, pos)
    PROVE  Links(T, root, A, B, P) /\ Links(T, root, B, A, P)
<1>1. PICK lo, hi : Shape(T, root, A, B, P, pos, lo, hi)
  BY DEF Fits
<1>2. /\ pos \in [T -> Int] /\ lo \in [T -> Int] /\ hi \in [T -> Int] /\ 0 \notin T
      /\ \A z \in T : lo[z] < pos[z] /\ pos[z] < hi[z]
      /\ \A y, z \in T : pos[y] = pos[z] => y = z
  BY <1>1 DEF Shape, Bounded
<1>3. \A z \in T :
        /\ A[z] \in T \cup {0} /\ B[z] \in T \cup {0}
        /\ IF A[z] = 0 THEN pos[z] = lo[z] + 1
           ELSE lo[A[z]] = lo[z] /\ hi[A[z]] = pos[z] /\ P[A[z]] = z
        /\ IF B[z] = 0 THEN hi[z] = pos[z] + 1
           ELSE lo[B[z]] = pos[z] /\ hi[B[z]] = hi[z] /\ P[B[z]] = z
  BY <1>1 DEF Shape, Hung
<1>4. /\ root \in T \cup {0} /\ (T # {} => root # 0) /\ (root \in T => P[root] = 0)
      /\ \A z \in T : z # root => P[z] \in T /\ (A[P[z]] = z \/ B[P[z]] = z)
  BY <1>1, <1>2 DEF Shape, Rooted
<1>5. ASSUME NEW z \in T
      PROVE  /\ P[z] \in T \cup {0}
             /\ A[z] # z /\ B[z] # z /\ (A[z] = B[z] => A[z] = 0)
             /\ P[z] = 0 <=> z = root
             /\ P[z] # 0 => (A[P[z]] = z \/ B[P[z]] = z) /\ hi[z] - lo[z] < hi[P[z]] - lo[P[z]]
  <2>1. A[z] # z /\ B[z] # z /\ (A[z] = B[z] => A[z] = 0)
    BY <1>2, <1>3
  <2>2. P[z] \in T \cup {0} /\ (P[z] = 0 <=> z = root)
    BY <1>2, <1>4
  <2>3. P[z] # 0 => A[P[z]] = z \/ B[P[z]] = z
    BY <1>4, <2>2
  <2>4. ASSUME P[z] # 0 PROVE hi[z] - lo[z] < hi[P[z]] - lo[P[z]]
    BY <1>2, <1>3, <2>2, <2>3, <2>4
  <2>. QED
    BY <2>1, <2>2, <2>3, <2>4
<1>6. \A z \in T : P[z] # 0 => P[z] # z /\ P[P[z]] # z
  <2>. SUFFICES ASSUME NEW z \in T, P[z] # 0 PROVE P[z] # z /\ P[P[z]] # z
    OBVIOUS
  <2>1. P[z] \in T /\ hi[z] - lo[z] < hi[P[z]] - lo[P[z]]
    BY <1>5
  <2>2. P[P[z]] # 0 => P[P[z]] \in T /\ hi[P[z]] - lo[P[z]] < hi[P[P[z]]] - lo[P[P[z]]]
    BY <1>5, <2>1
  <2>. QED
    BY <1>2, <2>1, <2>2
<1>7. \A z \in T : P[z] # 0 /\ P[P[z]] # 0 => P[P[P[z]]] # z
  <2>. SUFFICES ASSUME NEW z \in T, P[z] # 0, P[P[z]] # 0 PROVE P[P[P[z]]] # z
    OBVIOUS
  <2>1. P[z] \in T /\ hi[z] - lo[z] < hi[P[z]] - lo[P[z]]
    BY <1>5
  <2>2. P[P[z]] \in T /\ hi[P[z]] - lo[P[z]] < hi[P[P[z]]] - lo[P[P[z]]]
    BY <1>5, <2>1
  <2>3. P[P[P[z]]] # 0 => hi[P[P[z]]] - lo[P[P[z]]] < hi[P[P[P[z]]]] - lo[P[P[P[z]]]]
    BY <1>5, <2>2
  <2>4. CASE P[P[P[z]]] = z
    BY <1>2, <2>1, <2>2, <2>3, <2>4
  <2>. QED
    BY <2>4
<1>. QED
  BY <1>2, <1>3, <1>4, <1>5, <1>6, <1>7 DEF Links

Low(A, h, x) == IF A[x] = 0 THEN 0 ELSE h[A[x]]

Even(T, A, B, R, h, a, b) ==
    /\ h \in [T -> Nat]
    /\ \A x \in T :
          /\ Low(A, h, x) + (IF x = a THEN 1 ELSE 0) = Low(B, h, x) + (IF x = b THEN 1 ELSE 0)
          /\ h[x] = Low(A, h, x) + (IF x = a THEN 1 ELSE 0) + (IF x \in R THEN 0 ELSE 1)

\* the tree between two calls
Idle(T, root, A, B, P, R) ==
    /\ R \subseteq T /\ root \notin R /\ \A z \in R : P[z] \notin R
    /\ \E h : Even(T, A, B, R, h, 0, 0)

\* the red node x may have a red parent
Floating(T, root, A, B, P, R, x) ==
    /\ R \subseteq T /\ x \in T /\ x \in R \cup {root} /\ (root \in R => root = x)
    /\ \A z \in R : P[z] \in R => z = x
    /\ \E h : Even(T, A, B, R, h, 0, 0)

\* one black node is missing on the paths through x, which is on the first side of q
Short(T, root, A, B, P, R, x, q) ==
    /\ R \subseteq T /\ root \notin R /\ x \notin R /\ \A z \in R : P[z] \notin R
    /\ q \in T /\ x # root /\ A[q] = x /\ B[q] # 0
    /\ \E h : Even(T, A, B, R, h, q, 0)

\* one black node is missing on the paths through x, below q
Lacking(T, root, A, B, P, R, x, q) ==
    \/ x = root /\ q = 0 /\ Idle(T, root, A, B, P, R)
    \/ Short(T, root, A, B, P, R, x, q)
    \/ Short(T, root, B, A, P, R, x, q)

\* The two sides of a tree are alike.
LEMMA EvenMirror ==
    ASSUME NEW T, NEW A, NEW B, NEW R, NEW h, NEW a, NEW b, Even(T, A, B, R, h, a, b)
    PROVE  Even(T, B, A, R, h, b, a)
BY DEF Even

LEMMA IdleMirror ==
    ASSUME NEW T, NEW root, NEW A, NEW B, NEW P, NEW R, Idle(T, root, A, B, P, R)
    PROVE  Idle(T, root, B, A, P, R)
BY EvenMirror DEF Idle

LEMMA FloatingMirror ==
    ASSUME NEW T, NEW root, NEW A, NEW B, NEW P, NEW R, NEW x, Floating(T, root, A, B, P, R, x)
    PROVE  Floating(T, root, B, A, P, R, x)
BY EvenMirror DEF Floating

LEMMA LackingMirror ==
    ASSUME NEW T, NEW root, NEW A, NEW B, NEW P, NEW R, NEW x, NEW q,
           Lacking(T, root, A, B, P, R, x, q)
    PROVE  Lacking(T, root, B, A, P, R, x, q)
BY IdleMirror DEF Lacking

\* A red node is hung below r.
LEMMA AddedRed ==
    ASSUME NEW T, NEW root, NEW A, NEW B, NEW P, Links(T, root, A, B, P),
           NEW R, Idle(T, root, A, B, P, R), NEW r \in T, A[r] = 0, NEW x, x \notin T \cup {0},
           NEW A2, NEW B2, NEW P2, Inserted(T, A, B, P, A2, B2, P2, x, r)
    PROVE  Floating(T \cup {x}, root, A2, B2, P2, R \cup {x}, x)
<1>1. PICK h : Even(T, A, B, R, h, 0, 0)
  BY DEF Idle
<1>2. PICK h2 : h2 = [z \in T \cup {x} |-> IF z = x THEN 0 ELSE h[z]]
  OBVIOUS
<1>3. /\ h2 \in [T \cup {x} -> Nat] /\ h2[x] = 0 /\ \A z \in T : h2[z] = h[z]
  BY <1>1, <1>2 DEF Even
<1>4. Even(T \cup {x}, A2, B2, R \cup {x}, h2, 0, 0)
  <2>1. Low(A2, h2, x) = 0 /\ Low(B2, h2, x) = 0
    BY DEF Low, Inserted
  <2>2. \A z \in T : Low(A2, h2, z) = Low(A, h, z) /\ Low(B2, h2, z) = Low(B, h, z)
    BY <1>3 DEF Low, Inserted, Links
  <2>3. 0 \notin T \cup {x}
    BY DEF Links
  <2>. QED
    BY <1>1, <1>3, <2>1, <2>2, <2>3 DEF Even
<1>. QED
  BY <1>4 DEF Floating, Idle, Links, Inserted

\* The red node reaches the root and becomes black.
LEMMA RootBlackened ==
    ASSUME NEW T, NEW root, NEW A, NEW B, NEW P, Links(T, root, A, B, P),
           NEW R, NEW x, Floating(T, root, A, B, P, R, x), P[x] = 0
    PROVE  Idle(T, root, A, B, P, R \ {x})
<1>0. x = root /\ x \in T /\ 0 \notin T
  BY DEF Floating, Links
<1>1. PICK h : Even(T, A, B, R, h, 0, 0)
  BY DEF Floating
<1>2. PICK h2 : h2 = [z \in T |-> IF z = x THEN Low(A, h, x) + 1 ELSE h[z]]
  OBVIOUS
<1>3. \A z \in T : Low(A, h, z) \in Nat
  BY <1>1 DEF Even, Low, Links
<1>4. h2 \in [T -> Nat] /\ h2[x] = Low(A, h, x) + 1 /\ \A z \in T : z # x => h2[z] = h[z]
  BY <1>0, <1>1, <1>2, <1>3 DEF Even
<1>5. \A z \in T : Low(A, h2, z) = Low(A, h, z) /\ Low(B, h2, z) = Low(B, h, z)
  BY <1>0, <1>4 DEF Low, Links
<1>6. Even(T, A, B, R \ {x}, h2, 0, 0)
  BY <1>0, <1>1, <1>3, <1>4, <1>5 DEF Even
<1>. QED
  BY <1>0, <1>6 DEF Floating, Idle

\* The red node has a black parent.
LEMMA Settled ==
    ASSUME NEW T, NEW root, NEW A, NEW B, NEW P, Links(T, root, A, B, P),
           NEW R, NEW x, Floating(T, root, A, B, P, R, x), P[x] # 0, P[x] \notin R
    PROVE  x \in R /\ Idle(T, root, A, B, P, R)
BY DEF Floating, Idle, Links

\* The red node has a red parent: that has a black one.
LEMMA TwoReds ==
    ASSUME NEW T, NEW root, NEW A, NEW B, NEW P, Links(T, root, A, B, P),
           NEW R, NEW x, Floating(T, root, A, B, P, R, x), P[x] \in R
    PROVE  /\ x \in T /\ x \in R /\ P[x] \in T /\ P[P[x]] \in T /\ P[P[x]] \notin R
           /\ P[x] # x /\ P[P[x]] # P[x] /\ P[P[x]] # x
           /\ x # 0 /\ P[x] # 0 /\ P[P[x]] # 0
BY DEF Floating, Links

\* Two reds in a row on the first sides: the upper one is lifted.
LEMMA RedsLifted ==
    ASSUME NEW T, NEW root, NEW A, NEW B, NEW P, Links(T, root, A, B, P),
           NEW R, NEW x, Floating(T, root, A, B, P, R, x),
           NEW q \in R, NEW g \in T, q = P[x], g = P[q], A[q] = x, A[g] = q,
           NEW root2, NEW A2, NEW B2, NEW P2,
           Lifted(T, root, A, B, P, root2, A2, B2, P2, q, g)
    PROVE  Floating(T, root2, A2, B2, P2, (R \ {x, q, g}) \cup {q}, q)
<1>0. /\ x \in T /\ q \in T /\ x \in R /\ g \notin R /\ 0 \notin T /\ R \subseteq T
      /\ x # q /\ q # g /\ x # g /\ B[q] \in T \cup {0} /\ B[q] # x /\ B[q] # q /\ B[q] # g
  <2>1. x \in T /\ q \in T /\ x \in R /\ g \notin R /\ x # q /\ q # g /\ x # g
    BY TwoReds
  <2>. QED
    BY <2>1 DEF Floating, Links
<1>1. PICK h : Even(T, A, B, R, h, 0, 0)
  BY DEF Floating
<1>2. \A z \in T : /\ h[z] \in Nat /\ Low(A, h, z) \in Nat /\ Low(A, h, z) = Low(B, h, z)
                   /\ h[z] = Low(A, h, z) + (IF z \in R THEN 0 ELSE 1)
  BY <1>1 DEF Even, Low, Links
<1>3. Low(A, h, q) = h[x] /\ Low(A, h, g) = h[q]
  BY <1>0 DEF Low
<1>4. PICK h2 : h2 = [z \in T |-> IF z = q THEN h[g] ELSE IF z = x THEN h[x] + 1 ELSE h[z]]
  OBVIOUS
<1>5. /\ h2 \in [T -> Nat] /\ h2[q] = h[g] /\ h2[x] = h[x] + 1
      /\ \A z \in T : z # q /\ z # x => h2[z] = h[z]
  BY <1>0, <1>2, <1>4
<1>6. ASSUME NEW z \in T, z # q, z # g
      PROVE  Low(A2, h2, z) = Low(A, h, z) /\ Low(B2, h2, z) = Low(B, h, z)
  <2>1. A[z] # q /\ A[z] # x /\ B[z] # q /\ B[z] # x
    BY <1>0, <1>6 DEF Links
  <2>2. A2[z] = (IF A[z] = g THEN q ELSE A[z]) /\ B2[z] = (IF B[z] = g THEN q ELSE B[z])
    BY <1>6 DEF Lifted
  <2>. QED
    BY <1>0, <1>5, <1>6, <2>1, <2>2 DEF Low, Links
<1>7. Low(A2, h2, q) = h[x] + 1 /\ Low(B2, h2, q) = h[g]
  BY <1>0, <1>5 DEF Low, Lifted
<1>8. Low(A2, h2, g) = Low(B, h, q) /\ Low(B2, h2, g) = Low(B, h, g)
  <2>1. A2[g] = B[q] /\ B2[g] = B[g] /\ B[g] # q /\ B[g] # x /\ B[g] # g
    BY <1>0 DEF Lifted, Links
  <2>. QED
    BY <1>0, <1>5, <2>1 DEF Low, Links
<1>9. PICK R2 : R2 = (R \ {x, q, g}) \cup {q}
  OBVIOUS
<1>10. Even(T, A2, B2, R2, h2, 0, 0)
  <2>1. ASSUME NEW z \in T
        PROVE  /\ Low(A2, h2, z) \in Nat /\ Low(A2, h2, z) = Low(B2, h2, z)
               /\ h2[z] = Low(A2, h2, z) + (IF z \in R2 THEN 0 ELSE 1)
    <3>1. CASE z = q
      BY <1>0, <1>2, <1>3, <1>5, <1>7, <1>9, <3>1
    <3>2. CASE z = g
      BY <1>0, <1>2, <1>3, <1>5, <1>8, <1>9, <3>2
    <3>3. CASE z = x
      BY <1>0, <1>2, <1>5, <1>6, <1>9, <3>3
    <3>4. CASE z # q /\ z # g /\ z # x
      BY <1>0, <1>2, <1>5, <1>6, <1>9, <3>4
    <3>. QED
      BY <3>1, <3>2, <3>3, <3>4
  <2>2. 0 \notin T
    BY <1>0
  <2>. QED
    BY <1>5, <2>1, <2>2 DEF Even
<1>11. \A z \in R2 : P2[z] \in R2 => z = q
  BY <1>0, <1>9 DEF Lifted, Links, Floating
<1>12. q \in R2 \cup {root2} /\ (root2 \in R2 => root2 = q)
  BY <1>0, <1>9 DEF Lifted, Links, Floating
<1>. QED
  BY <1>0, <1>9, <1>10, <1>11, <1>12 DEF Floating

\* Two reds in a row, the lower one between: that is lifted over both.
LEMMA RedsLiftedTwice ==
    ASSUME NEW T, NEW root, NEW A, NEW B, NEW P, Links(T, root, A, B, P),
           NEW R, NEW x, Floating(T, root, A, B, P, R, x),
           NEW q \in R, NEW g \in T, q = P[x], g = P[q], B[q] = x, A[g] = q,
           NEW root2, NEW A2, NEW B2, NEW P2,
           LiftedTwice(T, root, A, B, P, root2, A2, B2, P2, x, q, g)
    PROVE  Floating(T, root2, A2, B2, P2, (R \ {x, q, g}) \cup {x}, x)
<1>0. /\ x \in T /\ q \in T /\ x \in R /\ g \notin R /\ 0 \notin T /\ R \subseteq T
      /\ x # q /\ q # g /\ x # g /\ A[x] \in T \cup {0} /\ B[x] \in T \cup {0}
      /\ A[x] \notin {x, q, g} /\ B[x] \notin {x, q, g}
  <2>1. x \in T /\ q \in T /\ x \in R /\ g \notin R /\ x # q /\ q # g /\ x # g
    BY TwoReds
  <2>. QED
    BY <2>1 DEF Floating, Links
<1>1. PICK h : Even(T, A, B, R, h, 0, 0)
  BY DEF Floating
<1>2. \A z \in T : /\ h[z] \in Nat /\ Low(A, h, z) \in Nat /\ Low(A, h, z) = Low(B, h, z)
                   /\ h[z] = Low(A, h, z) + (IF z \in R THEN 0 ELSE 1)
  BY <1>1 DEF Even, Low, Links
<1>3. Low(B, h, q) = h[x] /\ Low(A, h, g) = h[q]
  BY <1>0 DEF Low
<1>4. PICK h2 : h2 = [z \in T |-> IF z = x THEN h[g] ELSE IF z = q THEN h[q] + 1 ELSE h[z]]
  OBVIOUS
<1>5. /\ h2 \in [T -> Nat] /\ h2[x] = h[g] /\ h2[q] = h[q] + 1
      /\ \A z \in T : z # q /\ z # x => h2[z] = h[z]
  BY <1>0, <1>2, <1>4
<1>6. ASSUME NEW z \in T, z \notin {x, q, g}
      PROVE  Low(A2, h2, z) = Low(A, h, z) /\ Low(B2, h2, z) = Low(B, h, z)
  <2>1. A[z] # q /\ A[z] # x /\ B[z] # q /\ B[z] # x
    BY <1>0, <1>6 DEF Links
  <2>2. A2[z] = (IF A[z] = g THEN x ELSE A[z]) /\ B2[z] = (IF B[z] = g THEN x ELSE B[z])
    BY <1>6 DEF LiftedTwice
  <2>. QED
    BY <1>0, <1>5, <1>6, <2>1, <2>2 DEF Low, Links
<1>7. Low(A2, h2, x) = h[q] + 1 /\ Low(B2, h2, x) = h[g]
  BY <1>0, <1>5 DEF Low, LiftedTwice
<1>8. Low(A2, h2, g) = Low(B, h, x) /\ Low(B2, h2, g) = Low(B, h, g)
  <2>1. A2[g] = B[x] /\ B2[g] = B[g] /\ B[g] # q /\ B[g] # x /\ B[g] # g
    BY <1>0 DEF LiftedTwice, Links
  <2>. QED
    BY <1>0, <1>5, <2>1 DEF Low, Links
<1>13. Low(A2, h2, q) = Low(A, h, q) /\ Low(B2, h2, q) = Low(A, h, x)
  <2>1. A2[q] = A[q] /\ B2[q] = A[x] /\ A[q] # q /\ A[q] # x /\ A[q] # g
    BY <1>0 DEF LiftedTwice, Links
  <2>. QED
    BY <1>0, <1>5, <2>1 DEF Low, Links
<1>9. PICK R2 : R2 = (R \ {x, q, g}) \cup {x}
  OBVIOUS
<1>10. Even(T, A2, B2, R2, h2, 0, 0)
  <2>1. ASSUME NEW z \in T
        PROVE  /\ Low(A2, h2, z) \in Nat /\ Low(A2, h2, z) = Low(B2, h2, z)
               /\ h2[z] = Low(A2, h2, z) + (IF z \in R2 THEN 0 ELSE 1)
    <3>1. CASE z = q
      BY <1>0, <1>2, <1>3, <1>5, <1>13, <1>9, <3>1
    <3>2. CASE z = g
      BY <1>0, <1>2, <1>3, <1>5, <1>8, <1>9, <3>2
    <3>3. CASE z = x
      BY <1>0, <1>2, <1>3, <1>5, <1>7, <1>9, <3>3
    <3>4. CASE z # q /\ z # g /\ z # x
      BY <1>0, <1>2, <1>5, <1>6, <1>9, <3>4
    <3>. QED
      BY <3>1, <3>2, <3>3, <3>4
  <2>2. 0 \notin T
    BY <1>0
  <2>. QED
    BY <1>5, <2>1, <2>2 DEF Even
<1>11. \A z \in R2 : P2[z] \in R2 => z = x
  BY <1>0, <1>9 DEF LiftedTwice, Links, Floating
<1>12. x \in R2 \cup {root2} /\ (root2 \in R2 => root2 = x)
  BY <1>0, <1>9 DEF LiftedTwice, Links, Floating
<1>. QED
  BY <1>0, <1>9, <1>10, <1>11, <1>12 DEF Floating

\* Two nodes change places, the colours stay where they are.
LEMMA ExchangedIdle ==
    ASSUME NEW T, NEW root, NEW A, NEW B, NEW P, Links(T, root, A, B, P),
           NEW R, Idle(T, root, A, B, P, R), NEW x \in T, NEW s \in T,
           NEW root2, NEW A2, NEW B2, NEW P2,
           Exchanged(T, root, A, B, P, root2, A2, B2, P2, x, s)
    PROVE  Idle(T, root2, A2, B2, P2, {z \in T : Swap(z, x, s) \in R})
<1>0. /\ 0 \notin T /\ R \subseteq T
      /\ \A z \in T : Swap(z, x, s) \in T /\ Swap(Swap(z, x, s), x, s) = z
      /\ Swap(0, x, s) = 0 /\ Swap(Swap(root, x, s), x, s) = root
  BY DEF Links, Idle, Swap
<1>1. PICK h : Even(T, A, B, R, h, 0, 0)
  BY DEF Idle
<1>2. PICK h2 : h2 = [z \in T |-> h[Swap(z, x, s)]]
  OBVIOUS
<1>3. h2 \in [T -> Nat] /\ \A z \in T : h2[z] = h[Swap(z, x, s)]
  BY <1>0, <1>1, <1>2 DEF Even
<1>4. PICK R2 : R2 = {z \in T : Swap(z, x, s) \in R}
  OBVIOUS
<1>5. ASSUME NEW z \in T
      PROVE  /\ Low(A2, h2, z) = Low(A, h, Swap(z, x, s))
             /\ Low(B2, h2, z) = Low(B, h, Swap(z, x, s))
  <2>1. PICK y \in T : y = Swap(z, x, s)
    BY <1>0
  <2>2. /\ A2[z] = Swap(A[y], x, s) /\ B2[z] = Swap(B[y], x, s)
        /\ A[y] \in T \cup {0} /\ B[y] \in T \cup {0}
    BY <2>1 DEF Exchanged, Links
  <2>3. A[y] # 0 => A2[z] # 0 /\ h2[A2[z]] = h[A[y]]
    BY <1>0, <1>3, <2>2
  <2>4. B[y] # 0 => B2[z] # 0 /\ h2[B2[z]] = h[B[y]]
    BY <1>0, <1>3, <2>2
  <2>. QED
    BY <1>0, <2>1, <2>2, <2>3, <2>4 DEF Low
<1>6. Even(T, A2, B2, R2, h2, 0, 0)
  <2>1. ASSUME NEW z \in T
        PROVE  /\ Low(A2, h2, z) + (IF z = 0 THEN 1 ELSE 0) = Low(B2, h2, z) + (IF z = 0 THEN 1 ELSE 0)
               /\ h2[z] = Low(A2, h2, z) + (IF z = 0 THEN 1 ELSE 0) + (IF z \in R2 THEN 0 ELSE 1)
    <3>1. PICK y \in T : y = Swap(z, x, s)
      BY <1>0
    <3>2. z # 0 /\ y # 0 /\ (z \in R2 <=> y \in R) /\ h2[z] = h[y]
      BY <1>0, <1>3, <1>4, <3>1
    <3>. QED
      BY <1>1, <1>5, <3>1, <3>2 DEF Even
  <2>. QED
    BY <1>3, <2>1 DEF Even
<1>7. \A z \in R2 : P2[z] \notin R2
  <2>. SUFFICES ASSUME NEW z \in T, Swap(z, x, s) \in R PROVE P2[z] \notin R2
    BY <1>4
  <2>1. P2[z] = Swap(P[Swap(z, x, s)], x, s) /\ P[Swap(z, x, s)] \in T \cup {0}
    BY <1>0 DEF Exchanged, Links
  <2>2. P[Swap(z, x, s)] \notin R
    BY DEF Idle
  <2>. QED
    BY <1>0, <1>4, <2>1, <2>2
<1>8. root2 \notin R2
  BY <1>0, <1>4 DEF Exchanged, Idle
<1>. QED
  BY <1>4, <1>6, <1>7, <1>8 DEF Idle

\* The only child of a node is a red leaf, and the node is black.
LEMMA OnlyChildRed ==
    ASSUME NEW T, NEW root, NEW A, NEW B, NEW P, Links(T, root, A, B, P),
           NEW R, Idle(T, root, A, B, P, R), NEW x \in T, A[x] = 0, B[x] # 0
    PROVE  x \notin R /\ B[x] \in R /\ A[B[x]] = 0 /\ B[B[x]] = 0
<1>1. PICK h : Even(T, A, B, R, h, 0, 0)
  BY DEF Idle
<1>2. PICK y \in T : y = B[x] /\ y # 0
  BY DEF Links
<1>3. 0 \notin T /\ \A z \in T : h[z] \in Nat /\ Low(A, h, z) \in Nat /\ Low(A, h, z) = Low(B, h, z)
                       /\ h[z] = Low(A, h, z) + (IF z \in R THEN 0 ELSE 1)
  BY <1>1 DEF Even, Low, Links
<1>4. Low(A, h, x) = 0 /\ Low(B, h, x) = h[y]
  BY <1>2 DEF Low
<1>5. y \in R /\ Low(A, h, y) = 0 /\ Low(B, h, y) = 0
  BY <1>2, <1>3, <1>4
<1>6. P[y] = x /\ x \notin R
  BY <1>2, <1>5 DEF Links, Idle
<1>7. A[y] = 0
  <2>. SUFFICES ASSUME A[y] # 0 PROVE FALSE
    OBVIOUS
  <2>1. A[y] \in T /\ P[A[y]] = y
    BY DEF Links
  <2>2. h[A[y]] = 0
    BY <1>5 DEF Low
  <2>3. A[y] \in R
    BY <1>3, <2>1, <2>2
  <2>. QED
    BY <1>5, <2>1, <2>3 DEF Idle
<1>8. B[y] = 0
  <2>. SUFFICES ASSUME B[y] # 0 PROVE FALSE
    OBVIOUS
  <2>1. B[y] \in T /\ P[B[y]] = y
    BY DEF Links
  <2>2. h[B[y]] = 0
    BY <1>5 DEF Low
  <2>3. B[y] \in R
    BY <1>3, <2>1, <2>2
  <2>. QED
    BY <1>5, <2>1, <2>3 DEF Idle
<1>. QED
  BY <1>2, <1>5, <1>6, <1>7, <1>8

\* A node with an only child is taken out: the child becomes black.
LEMMA OnlyChildLifted ==
    ASSUME NEW T, NEW root, NEW A, NEW B, NEW P, Links(T, root, A, B, P),
           NEW R, Idle(T, root, A, B, P, R), NEW x \in T, A[x] = 0, B[x] # 0,
           NEW root2, NEW A2, NEW B2, NEW P2, Removed(T, root, A, B, P, root2, A2, B2, P2, x)
    PROVE  Idle(T \ {x}, root2, A2, B2, P2, R \ {B[x]})
<1>1. PICK h : Even(T, A, B, R, h, 0, 0)
  BY DEF Idle
<1>2. PICK y \in T : y = B[x] /\ y # 0 /\ y # x /\ y \in R /\ A[y] = 0 /\ B[y] = 0 /\ x \notin R /\ P[y] = x
  <2>1. x \notin R /\ B[x] \in R /\ A[B[x]] = 0 /\ B[B[x]] = 0
    BY OnlyChildRed
  <2>. QED
    BY <2>1 DEF Links
<1>3. 0 \notin T /\ \A z \in T : h[z] \in Nat /\ Low(A, h, z) \in Nat /\ Low(A, h, z) = Low(B, h, z)
                       /\ h[z] = Low(A, h, z) + (IF z \in R THEN 0 ELSE 1)
  BY <1>1 DEF Even, Low, Links
<1>4. h[x] = 1
  BY <1>2, <1>3 DEF Low
<1>5. PICK h2 : h2 = [z \in T \ {x} |-> IF z = y THEN 1 ELSE h[z]]
  OBVIOUS
<1>6. h2 \in [T \ {x} -> Nat] /\ h2[y] = 1 /\ \A z \in T \ {x, y} : h2[z] = h[z]
  BY <1>2, <1>3, <1>5
<1>7. ASSUME NEW z \in T \ {x}
      PROVE  Low(A2, h2, z) = Low(A, h, z) /\ Low(B2, h2, z) = Low(B, h, z)
  <2>1. A2[z] = (IF A[z] = x THEN y ELSE A[z]) /\ B2[z] = (IF B[z] = x THEN y ELSE B[z])
    BY <1>2 DEF Removed
  <2>2. A[z] \in T \cup {0} /\ B[z] \in T \cup {0} /\ A[z] # y /\ B[z] # y
    BY <1>2 DEF Links
  <2>3. x # 0
    BY <1>3
  <2>. QED
    BY <1>2, <1>4, <1>6, <2>1, <2>2, <2>3 DEF Low
<1>8. Even(T \ {x}, A2, B2, R \ {y}, h2, 0, 0)
  <2>1. ASSUME NEW z \in T \ {x}
        PROVE  /\ z # 0 /\ Low(A2, h2, z) = Low(B2, h2, z) /\ Low(A2, h2, z) \in Nat
               /\ h2[z] = Low(A2, h2, z) + (IF z \in R \ {y} THEN 0 ELSE 1)
    <3>1. CASE z = y
      <4>1. Low(A, h, y) = 0
        BY <1>2 DEF Low
      <4>. QED
        BY <1>3, <1>6, <1>7, <3>1, <4>1
    <3>2. CASE z # y
      BY <1>3, <1>6, <1>7, <3>2
    <3>. QED
      BY <3>1, <3>2
  <2>. QED
    BY <1>6, <2>1 DEF Even
<1>9. \A z \in R \ {y} : P2[z] \notin R \ {y}
  BY <1>2 DEF Removed, Idle
<1>10. root2 \notin R \ {y} /\ R \ {y} \subseteq T \ {x}
  BY <1>2 DEF Removed, Idle
<1>. QED
  BY <1>2, <1>8, <1>9, <1>10 DEF Idle

\* A leaf is taken out: when it was black, its parent lacks it.
LEMMA LeafTaken ==
    ASSUME NEW T, NEW root, NEW A, NEW B, NEW P, Links(T, root, A, B, P),
           NEW R, Idle(T, root, A, B, P, R), NEW x \in T, A[x] = 0, B[x] = 0,
           NEW root2, NEW A2, NEW B2, NEW P2, Removed(T, root, A, B, P, root2, A2, B2, P2, x)
    PROVE  /\ x \in R \/ P[x] = 0 => Idle(T \ {x}, root2, A2, B2, P2, R \ {x})
           /\ x \notin R /\ P[x] # 0 => Lacking(T \ {x}, root2, A2, B2, P2, R \ {x}, 0, P[x])
<1>1. PICK h : Even(T, A, B, R, h, 0, 0)
  BY DEF Idle
<1>3. 0 \notin T /\ \A z \in T : h[z] \in Nat /\ Low(A, h, z) \in Nat /\ Low(A, h, z) = Low(B, h, z)
                       /\ h[z] = Low(A, h, z) + (IF z \in R THEN 0 ELSE 1)
  BY <1>1 DEF Even, Low, Links
<1>4. Low(A, h, x) = 0
  BY DEF Low
<1>5. PICK h2 : h2 = [z \in T \ {x} |-> h[z]]
  OBVIOUS
<1>6. h2 \in [T \ {x} -> Nat] /\ \A z \in T \ {x} : h2[z] = h[z]
  BY <1>3, <1>5
<1>7. ASSUME NEW z \in T \ {x}
      PROVE  /\ A2[z] = (IF A[z] = x THEN 0 ELSE A[z]) /\ A[z] \in T \cup {0}
             /\ B2[z] = (IF B[z] = x THEN 0 ELSE B[z]) /\ B[z] \in T \cup {0}
             /\ P2[z] = P[z]
  BY <1>3 DEF Removed, Links
<1>8. ASSUME NEW z \in T \ {x}
      PROVE  /\ A[z] # x => Low(A2, h2, z) = Low(A, h, z)
             /\ A[z] = x => Low(A2, h2, z) = 0 /\ Low(A, h, z) = h[x]
             /\ B[z] # x => Low(B2, h2, z) = Low(B, h, z)
             /\ B[z] = x => Low(B2, h2, z) = 0 /\ Low(B, h, z) = h[x]
  BY <1>3, <1>6, <1>7 DEF Low
<1>9. \A z \in T \ {x} : A[z] = x \/ B[z] = x => P[x] = z /\ ~ (A[z] = x /\ B[z] = x)
  BY <1>3 DEF Links
<1>10. R \ {x} \subseteq T \ {x} /\ (\A z \in R \ {x} : P2[z] \notin R \ {x})
  BY <1>7 DEF Idle
<1>11. CASE x \in R \/ P[x] = 0
  <2>1. root2 \notin R \ {x}
    BY <1>3 DEF Removed, Idle
  <2>2. h[x] = IF x \in R THEN 0 ELSE 1
    BY <1>3, <1>4
  <2>3. ASSUME NEW z \in T \ {x}
        PROVE  /\ Low(A2, h2, z) = Low(A, h, z) /\ Low(B2, h2, z) = Low(B, h, z)
    <3>1. CASE x \in R
      BY <1>8, <2>2, <3>1
    <3>2. CASE P[x] = 0
      BY <1>3, <1>8, <1>9, <3>2
    <3>. QED
      BY <1>11, <3>1, <3>2
  <2>4. Even(T \ {x}, A2, B2, R \ {x}, h2, 0, 0)
    BY <1>3, <1>6, <2>3 DEF Even
  <2>. QED
    BY <1>10, <1>11, <2>1, <2>4 DEF Idle
<1>12. CASE x \notin R /\ P[x] # 0
  <2>1. PICK q \in T \ {x} : q = P[x] /\ (A[q] = x \/ B[q] = x)
    BY <1>12 DEF Links
  <2>2. root2 = root /\ root2 \notin R \ {x} /\ 0 # root2 /\ 0 \notin R \ {x}
    BY <1>3, <1>12 DEF Removed, Idle, Links
  <2>3. h[x] = 1
    BY <1>3, <1>4, <1>12
  <2>4. CASE A[q] = x
    <3>1. B[q] # x /\ A2[q] = 0 /\ B2[q] = B[q] /\ Low(B, h, q) = 1
      BY <1>3, <1>7, <1>8, <1>9, <2>1, <2>3, <2>4
    <3>2. B2[q] # 0
      BY <3>1 DEF Low
    <3>3. Even(T \ {x}, A2, B2, R \ {x}, h2, q, 0)
      <4>1. ASSUME NEW z \in T \ {x}, z # q
            PROVE  Low(A2, h2, z) = Low(A, h, z) /\ Low(B2, h2, z) = Low(B, h, z)
        BY <1>8, <1>9, <2>1, <4>1
      <4>2. Low(A2, h2, q) = 0 /\ Low(B2, h2, q) = 1 /\ Low(A, h, q) = 1
        BY <1>8, <2>1, <2>3, <2>4, <3>1
      <4>3. ASSUME NEW z \in T \ {x}
            PROVE  /\ Low(A2, h2, z) + (IF z = q THEN 1 ELSE 0) = Low(B2, h2, z) + (IF z = 0 THEN 1 ELSE 0)
                   /\ h2[z] = Low(A2, h2, z) + (IF z = q THEN 1 ELSE 0) + (IF z \in R \ {x} THEN 0 ELSE 1)
        <5>1. CASE z = q
          BY <1>3, <1>6, <4>2, <5>1
        <5>2. CASE z # q
          BY <1>3, <1>6, <4>1, <5>2
        <5>. QED
          BY <5>1, <5>2
      <4>. QED
        BY <1>6, <4>3 DEF Even
    <3>4. Short(T \ {x}, root2, A2, B2, P2, R \ {x}, 0, q)
      BY <1>10, <2>1, <2>2, <3>1, <3>2, <3>3 DEF Short
    <3>. QED
      BY <1>12, <2>1, <3>4 DEF Lacking
  <2>5. CASE B[q] = x
    <3>1. A[q] # x /\ B2[q] = 0 /\ A2[q] = A[q] /\ Low(A, h, q) = 1
      BY <1>3, <1>7, <1>8, <1>9, <2>1, <2>3, <2>5
    <3>2. A2[q] # 0
      BY <3>1 DEF Low
    <3>3. Even(T \ {x}, B2, A2, R \ {x}, h2, q, 0)
      <4>1. ASSUME NEW z \in T \ {x}, z # q
            PROVE  Low(A2, h2, z) = Low(A, h, z) /\ Low(B2, h2, z) = Low(B, h, z)
        BY <1>8, <1>9, <2>1, <4>1
      <4>2. Low(B2, h2, q) = 0 /\ Low(A2, h2, q) = 1 /\ Low(B, h, q) = 1
        BY <1>8, <2>1, <2>3, <2>5, <3>1
      <4>3. ASSUME NEW z \in T \ {x}
            PROVE  /\ Low(B2, h2, z) + (IF z = q THEN 1 ELSE 0) = Low(A2, h2, z) + (IF z = 0 THEN 1 ELSE 0)
                   /\ h2[z] = Low(B2, h2, z) + (IF z = q THEN 1 ELSE 0) + (IF z \in R \ {x} THEN 0 ELSE 1)
        <5>1. CASE z = q
          BY <1>3, <1>6, <4>2, <5>1
        <5>2. CASE z # q
          BY <1>3, <1>6, <4>1, <5>2
        <5>. QED
          BY <5>1, <5>2
      <4>. QED
        BY <1>6, <4>3 DEF Even
    <3>4. Short(T \ {x}, root2, B2, A2, P2, R \ {x}, 0, q)
      BY <1>10, <2>1, <2>2, <3>1, <3>2, <3>3 DEF Short
    <3>. QED
      BY <1>12, <2>1, <3>4 DEF Lacking
  <2>. QED
    BY <2>1, <2>4, <2>5
<1>. QED
  BY <1>11, <1>12

\* the nodes that take part in restoring the balance
LEMMA Relatives ==
    ASSUME NEW T, NEW root, NEW A, NEW B, NEW P, Links(T, root, A, B, P),
           NEW R, NEW x, NEW q, Short(T, root, A, B, P, R, x, q)
    PROVE  /\ 0 \notin T /\ q \in T /\ A[q] = x /\ B[q] \in T /\ x \in T \cup {0}
           /\ B[q] # 0 /\ B[q] # q /\ B[q] # x /\ x # q /\ P[B[q]] = q /\ x # root /\ q # 0
           /\ A[B[q]] \in T \cup {0} /\ B[B[q]] \in T \cup {0}
           /\ A[B[q]] \notin {q, B[q]} /\ B[B[q]] \notin {q, B[q]}
           /\ A[B[q]] # 0 => A[B[q]] # x /\ A[B[q]] # B[B[q]]
           /\ B[B[q]] # 0 => B[B[q]] # x /\ A[B[q]] # B[B[q]]
           /\ B[q] \in R => q \notin R /\ A[B[q]] \notin R /\ B[B[q]] \notin R
BY DEF Short, Links

\* The heights where one black node is missing.
LEMMA Heights ==
    ASSUME NEW T, NEW root, NEW A, NEW B, NEW P, Links(T, root, A, B, P),
           NEW R, NEW x, NEW q, NEW h, Even(T, A, B, R, h, q, 0), q \in T, B[q] # 0
    PROVE  /\ h \in [T -> Nat] /\ \A z \in T : Low(A, h, z) \in Nat /\ Low(B, h, z) \in Nat
           /\ \A z \in T : z # q => /\ Low(A, h, z) = Low(B, h, z)
                                    /\ h[z] = Low(A, h, z) + (IF z \in R THEN 0 ELSE 1)
           /\ Low(A, h, q) + 1 = h[B[q]] /\ Low(B, h, q) = h[B[q]]
           /\ h[q] = h[B[q]] + (IF q \in R THEN 0 ELSE 1)
<1>1. h \in [T -> Nat] /\ \A z \in T : Low(A, h, z) \in Nat /\ Low(B, h, z) \in Nat
  BY DEF Even, Low, Links
<1>2. 0 \notin T
  BY DEF Links
<1>3. Low(B, h, q) = h[B[q]]
  BY DEF Low
<1>. QED
  BY <1>1, <1>2, <1>3 DEF Even

\* What is to be shown of new heights.
LEMMA EvenWhen ==
    ASSUME NEW T, 0 \notin T, NEW A, NEW B, NEW R, NEW h \in [T -> Nat],
           \A z \in T : /\ Low(A, h, z) \in Nat /\ Low(A, h, z) = Low(B, h, z)
                        /\ h[z] = Low(A, h, z) + (IF z \in R THEN 0 ELSE 1)
    PROVE  Even(T, A, B, R, h, 0, 0)
BY DEF Even

\* Everybody is black: the sibling becomes red, the parent lacks the black node.
LEMMA LackMoves ==
    ASSUME NEW T, NEW root, NEW A, NEW B, NEW P, Links(T, root, A, B, P),
           NEW R, NEW x, NEW q, Short(T, root, A, B, P, R, x, q), NEW s, s = B[q],
           q \notin R, s \notin R, A[s] \notin R, B[s] \notin R
    PROVE  Lacking(T, root, A, B, P, R \cup {s}, q, P[q])
<1>0. /\ 0 \notin T /\ q \in T /\ s \in T /\ s # q /\ s # x /\ A[q] = x /\ P[s] = q /\ R \subseteq T /\ root # s
  BY Relatives DEF Short, Links
<1>1. PICK h : Even(T, A, B, R, h, q, 0)
  BY DEF Short
<1>2. /\ h \in [T -> Nat] /\ \A z \in T : Low(A, h, z) \in Nat /\ Low(B, h, z) \in Nat
      /\ \A z \in T : z # q => /\ Low(A, h, z) = Low(B, h, z)
                               /\ h[z] = Low(A, h, z) + (IF z \in R THEN 0 ELSE 1)
      /\ Low(A, h, q) + 1 = h[s] /\ Low(B, h, q) = h[s]
      /\ h[q] = h[s] + (IF q \in R THEN 0 ELSE 1)
  BY <1>1, Heights DEF Short
<1>3. PICK h2 : h2 = [z \in T |-> IF z = s THEN h[s] - 1 ELSE IF z = q THEN h[q] - 1 ELSE h[z]]
  OBVIOUS
<1>4. h[s] - 1 \in Nat /\ h[q] - 1 \in Nat
  BY <1>0, <1>2
<1>5. /\ h2 \in [T -> Nat] /\ h2[s] = h[s] - 1 /\ h2[q] = h[q] - 1
      /\ \A z \in T : z # s /\ z # q => h2[z] = h[z]
  BY <1>0, <1>2, <1>3, <1>4
<1>6. Low(A, h2, q) = h2[s] /\ Low(B, h2, q) = h2[s]
  <2>1. Low(A, h2, q) = Low(A, h, q)
    BY <1>0, <1>5 DEF Low, Links
  <2>2. Low(B, h2, q) = h2[s]
    BY <1>0 DEF Low
  <2>. QED
    BY <1>0, <1>2, <1>5, <2>1, <2>2
<1>7. ASSUME NEW z \in T, z # q
      PROVE  /\ A[z] # q => Low(A, h2, z) = Low(A, h, z)
             /\ A[z] = q => Low(A, h2, z) = h[q] - 1 /\ Low(A, h, z) = h[q]
             /\ B[z] # q => Low(B, h2, z) = Low(B, h, z)
             /\ B[z] = q => Low(B, h2, z) = h[q] - 1 /\ Low(B, h, z) = h[q]
  <2>1. A[z] # s /\ B[z] # s /\ q # 0 /\ A[z] \in T \cup {0} /\ B[z] \in T \cup {0}
    BY <1>0, <1>7 DEF Links
  <2>. QED
    BY <1>5, <2>1 DEF Low
<1>8. \A z \in T : (A[z] = q \/ B[z] = q => P[q] = z) /\ ~ (A[z] = q /\ B[z] = q)
  BY <1>0 DEF Links
<1>9. /\ root \notin R \cup {s} /\ q \notin R \cup {s} /\ R \cup {s} \subseteq T
      /\ \A z \in R \cup {s} : P[z] \notin R \cup {s}
  BY <1>0 DEF Short, Links
<1>10. CASE P[q] = 0
  <2>1. \A z \in T : z # q => Low(A, h2, z) = Low(A, h, z) /\ Low(B, h2, z) = Low(B, h, z)
    BY <1>0, <1>7, <1>8, <1>10
  <2>2. Even(T, A, B, R \cup {s}, h2, 0, 0)
    <3>1. ASSUME NEW z \in T
          PROVE  /\ Low(A, h2, z) \in Nat /\ Low(A, h2, z) = Low(B, h2, z)
                 /\ h2[z] = Low(A, h2, z) + (IF z \in R \cup {s} THEN 0 ELSE 1)
      <4>1. CASE z = q
        BY <1>0, <1>2, <1>5, <1>6, <4>1
      <4>2. CASE z = s
        BY <1>0, <1>2, <1>5, <2>1, <4>2
      <4>3. CASE z # q /\ z # s
        BY <1>0, <1>2, <1>5, <2>1, <4>3
      <4>. QED
        BY <4>1, <4>2, <4>3
    <3>. QED
      BY <1>0, <1>5, <3>1, EvenWhen
  <2>3. q = root
    BY <1>0, <1>10 DEF Links
  <2>. QED
    BY <1>9, <1>10, <2>2, <2>3 DEF Lacking, Idle
<1>11. CASE P[q] # 0
  <2>1. PICK g \in T : g = P[q] /\ g # q /\ g # s /\ q # root
    BY <1>0, <1>11 DEF Links
  <2>2. \A z \in T : z # q /\ z # g => Low(A, h2, z) = Low(A, h, z) /\ Low(B, h2, z) = Low(B, h, z)
    BY <1>0, <1>7, <1>8, <2>1
  <2>3. ASSUME NEW z \in T, z # g
        PROVE  /\ Low(A, h2, z) \in Nat /\ Low(A, h2, z) = Low(B, h2, z)
               /\ h2[z] = Low(A, h2, z) + (IF z \in R \cup {s} THEN 0 ELSE 1)
    <3>1. CASE z = q
      BY <1>0, <1>2, <1>5, <1>6, <3>1
    <3>2. CASE z = s
      BY <1>0, <1>2, <1>5, <2>1, <2>2, <3>2
    <3>3. CASE z # q /\ z # s
      BY <1>0, <1>2, <1>5, <2>2, <2>3, <3>3
    <3>. QED
      BY <3>1, <3>2, <3>3
  <2>4. CASE A[g] = q
    <3>1. /\ Low(A, h2, g) = h[q] - 1 /\ Low(A, h, g) = h[q] /\ Low(B, h2, g) = Low(B, h, g)
          /\ h2[g] = h[g]
      BY <1>5, <1>7, <1>8, <2>1, <2>4
    <3>2. Low(B, h, g) # 0
      BY <1>0, <1>2, <1>4, <2>1, <3>1
    <3>3. B[g] # 0
      BY <3>2 DEF Low
    <3>4. Even(T, A, B, R \cup {s}, h2, g, 0)
      <4>1. ASSUME NEW z \in T
            PROVE  /\ Low(A, h2, z) + (IF z = g THEN 1 ELSE 0) = Low(B, h2, z) + (IF z = 0 THEN 1 ELSE 0)
                   /\ h2[z] = Low(A, h2, z) + (IF z = g THEN 1 ELSE 0) + (IF z \in R \cup {s} THEN 0 ELSE 1)
        <5>1. CASE z = g
          BY <1>0, <1>2, <1>4, <2>1, <3>1, <5>1
        <5>2. CASE z # g
          BY <1>0, <1>5, <2>3, <5>2
        <5>. QED
          BY <5>1, <5>2
      <4>. QED
        BY <1>5, <4>1 DEF Even
    <3>5. Short(T, root, A, B, P, R \cup {s}, q, g)
      BY <1>9, <2>1, <2>4, <3>3, <3>4 DEF Short
    <3>. QED
      BY <2>1, <3>5 DEF Lacking
  <2>5. CASE B[g] = q
    <3>1. /\ Low(B, h2, g) = h[q] - 1 /\ Low(B, h, g) = h[q] /\ Low(A, h2, g) = Low(A, h, g)
          /\ h2[g] = h[g]
      BY <1>5, <1>7, <1>8, <2>1, <2>5
    <3>2. Low(A, h, g) # 0
      BY <1>0, <1>2, <1>4, <2>1, <3>1
    <3>3. A[g] # 0
      BY <3>2 DEF Low
    <3>4. Even(T, B, A, R \cup {s}, h2, g, 0)
      <4>1. ASSUME NEW z \in T
            PROVE  /\ Low(B, h2, z) + (IF z = g THEN 1 ELSE 0) = Low(A, h2, z) + (IF z = 0 THEN 1 ELSE 0)
                   /\ h2[z] = Low(B, h2, z) + (IF z = g THEN 1 ELSE 0) + (IF z \in R \cup {s} THEN 0 ELSE 1)
        <5>1. CASE z = g
          BY <1>0, <1>2, <1>4, <2>1, <3>1, <5>1
        <5>2. CASE z # g
          BY <1>0, <1>5, <2>3, <5>2
        <5>. QED
          BY <5>1, <5>2
      <4>. QED
        BY <1>5, <4>1 DEF Even
    <3>5. Short(T, root, B, A, P, R \cup {s}, q, g)
      BY <1>9, <2>1, <2>5, <3>3, <3>4 DEF Short
    <3>. QED
      BY <2>1, <3>5 DEF Lacking
  <2>. QED
    BY <1>0, <1>11, <2>1, <2>4, <2>5 DEF Links
<1>. QED
  BY <1>10, <1>11

\* A red parent becomes black in place of the sibling.
LEMMA ParentBlackened ==
    ASSUME NEW T, NEW root, NEW A, NEW B, NEW P, Links(T, root, A, B, P),
           NEW R, NEW x, NEW q, Short(T, root, A, B, P, R, x, q), NEW s, s = B[q],
           q \in R, s \notin R, A[s] \notin R, B[s] \notin R
    PROVE  Idle(T, root, A, B, P, (R \ {q}) \cup {s})
<1>0. /\ 0 \notin T /\ q \in T /\ s \in T /\ s # q /\ s # x /\ A[q] = x /\ P[s] = q /\ R \subseteq T /\ root # s
  BY Relatives DEF Short, Links
<1>1. PICK h : Even(T, A, B, R, h, q, 0)
  BY DEF Short
<1>2. /\ h \in [T -> Nat] /\ \A z \in T : Low(A, h, z) \in Nat /\ Low(B, h, z) \in Nat
      /\ \A z \in T : z # q => /\ Low(A, h, z) = Low(B, h, z)
                               /\ h[z] = Low(A, h, z) + (IF z \in R THEN 0 ELSE 1)
      /\ Low(A, h, q) + 1 = h[s] /\ Low(B, h, q) = h[s]
      /\ h[q] = h[s] + (IF q \in R THEN 0 ELSE 1)
  BY <1>1, Heights DEF Short
<1>3. PICK h2 : h2 = [z \in T |-> IF z = s THEN h[s] - 1 ELSE h[z]]
  OBVIOUS
<1>4. h[s] - 1 \in Nat
  BY <1>0, <1>2
<1>5. /\ h2 \in [T -> Nat] /\ h2[s] = h[s] - 1 /\ \A z \in T : z # s => h2[z] = h[z]
  BY <1>0, <1>2, <1>3, <1>4
<1>6. Low(A, h2, q) = Low(A, h, q) /\ Low(B, h2, q) = h[s] - 1
  BY <1>0, <1>5 DEF Low, Links
<1>7. ASSUME NEW z \in T, z # q
      PROVE  Low(A, h2, z) = Low(A, h, z) /\ Low(B, h2, z) = Low(B, h, z)
  <2>1. A[z] # s /\ B[z] # s /\ A[z] \in T \cup {0} /\ B[z] \in T \cup {0}
    BY <1>0, <1>7 DEF Links
  <2>. QED
    BY <1>5, <2>1 DEF Low
<1>8. PICK R2 : R2 = (R \ {q}) \cup {s}
  OBVIOUS
<1>9. root \notin R2 /\ R2 \subseteq T /\ \A z \in R2 : P[z] \notin R2
  BY <1>0, <1>8 DEF Short, Links
<1>10. ASSUME NEW z \in T
       PROVE  /\ Low(A, h2, z) \in Nat /\ Low(A, h2, z) = Low(B, h2, z)
              /\ h2[z] = Low(A, h2, z) + (IF z \in R2 THEN 0 ELSE 1)
  <2>1. CASE z = q
    BY <1>0, <1>2, <1>5, <1>6, <1>8, <2>1
  <2>2. CASE z = s
    BY <1>0, <1>2, <1>5, <1>7, <1>8, <2>2
  <2>3. CASE z # q /\ z # s
    BY <1>0, <1>2, <1>5, <1>7, <1>8, <2>3
  <2>. QED
    BY <2>1, <2>2, <2>3
<1>11. Even(T, A, B, R2, h2, 0, 0)
  BY <1>0, <1>5, <1>10, EvenWhen
<1>. QED
  BY <1>8, <1>9, <1>11 DEF Idle

\* A red sibling is lifted over the parent, which becomes red and gets a black sibling.
LEMMA SiblingLifted ==
    ASSUME NEW T, NEW root, NEW A, NEW B, NEW P, Links(T, root, A, B, P),
           NEW R, NEW x, NEW q, Short(T, root, A, B, P, R, x, q), NEW s, s = B[q],
           s \in R, NEW root2, NEW A2, NEW B2, NEW P2,
           Lifted(T, root, B, A, P, root2, B2, A2, P2, s, q)
    PROVE  /\ A[s] # 0 /\ B[s] # 0
           /\ Short(T, root2, A2, B2, P2, (R \ {s}) \cup {q}, x, q)
<1>0. /\ 0 \notin T /\ q \in T /\ s \in T /\ s # q /\ s # x /\ A[q] = x /\ B[q] = s /\ P[s] = q
      /\ R \subseteq T /\ root # s /\ q \notin R /\ A[s] \notin R /\ B[s] \notin R /\ x # q
      /\ A[s] \notin {q, s} /\ B[s] \notin {q, s}
  <2>1. /\ 0 \notin T /\ q \in T /\ s \in T /\ s # q /\ s # x /\ A[q] = x /\ P[s] = q /\ q \notin R
        /\ A[s] \notin R /\ B[s] \notin R /\ x # q
    BY Relatives
  <2>2. A[s] \notin {q, s} /\ B[s] \notin {q, s}
    BY Relatives
  <2>. QED
    BY <2>1, <2>2 DEF Short, Links
<1>1. PICK h : Even(T, A, B, R, h, q, 0)
  BY DEF Short
<1>2. /\ h \in [T -> Nat] /\ \A z \in T : Low(A, h, z) \in Nat /\ Low(B, h, z) \in Nat
      /\ \A z \in T : z # q => /\ Low(A, h, z) = Low(B, h, z)
                               /\ h[z] = Low(A, h, z) + (IF z \in R THEN 0 ELSE 1)
      /\ Low(A, h, q) + 1 = h[s] /\ Low(B, h, q) = h[s]
      /\ h[q] = h[s] + (IF q \in R THEN 0 ELSE 1)
  BY <1>1, Heights DEF Short
<1>12. Low(A, h, s) = h[s] /\ Low(B, h, s) = h[s] /\ h[s] # 0
  BY <1>0, <1>2
<1>13. A[s] \in T /\ B[s] \in T /\ A[s] # 0 /\ B[s] # 0 /\ A[s] # x
  BY <1>0, <1>12 DEF Low, Links
<1>3. PICK h2 : h2 = [z \in T |-> IF z = q THEN h[s] ELSE IF z = s THEN h[q] ELSE h[z]]
  OBVIOUS
<1>5. /\ h2 \in [T -> Nat] /\ h2[q] = h[s] /\ h2[s] = h[q]
      /\ \A z \in T : z # s /\ z # q => h2[z] = h[z]
  BY <1>0, <1>2, <1>3
<1>6. A2[q] = x /\ B2[q] = A[s] /\ A2[s] = q /\ B2[s] = B[s]
  BY <1>0 DEF Lifted, Links
<1>7. /\ Low(A2, h2, q) = Low(A, h, q) /\ Low(B2, h2, q) = Low(A, h, s)
      /\ Low(A2, h2, s) = h[s] /\ Low(B2, h2, s) = Low(B, h, s)
  <2>1. h2[A[s]] = h[A[s]] /\ h2[B[s]] = h[B[s]] /\ q # 0
    BY <1>0, <1>5, <1>13
  <2>2. x # 0 => h2[x] = h[x]
    BY <1>0, <1>5 DEF Links
  <2>. QED
    BY <1>0, <1>5, <1>6, <1>13, <2>1, <2>2 DEF Low
<1>8. ASSUME NEW z \in T, z # q, z # s
      PROVE  Low(A2, h2, z) = Low(A, h, z) /\ Low(B2, h2, z) = Low(B, h, z)
  <2>1. A[z] # s /\ B[z] # s /\ A[z] \in T \cup {0} /\ B[z] \in T \cup {0}
    BY <1>0, <1>8 DEF Links
  <2>2. A2[z] = (IF A[z] = q THEN s ELSE A[z]) /\ B2[z] = (IF B[z] = q THEN s ELSE B[z])
    BY <1>8 DEF Lifted
  <2>. QED
    BY <1>0, <1>5, <2>1, <2>2 DEF Low
<1>9. PICK R2 : R2 = (R \ {s}) \cup {q}
  OBVIOUS
<1>10. Even(T, A2, B2, R2, h2, q, 0)
  <2>1. ASSUME NEW z \in T
        PROVE  /\ Low(A2, h2, z) + (IF z = q THEN 1 ELSE 0) = Low(B2, h2, z) + (IF z = 0 THEN 1 ELSE 0)
               /\ h2[z] = Low(A2, h2, z) + (IF z = q THEN 1 ELSE 0) + (IF z \in R2 THEN 0 ELSE 1)
    <3>1. CASE z = q
      BY <1>0, <1>2, <1>5, <1>7, <1>9, <1>12, <3>1
    <3>2. CASE z = s
      BY <1>0, <1>2, <1>5, <1>7, <1>9, <1>12, <3>2
    <3>3. CASE z # q /\ z # s
      <4>1. z # 0 /\ (z \in R2 <=> z \in R)
        BY <1>0, <1>9, <3>3
      <4>. QED
        BY <1>2, <1>5, <1>8, <3>3, <4>1
    <3>. QED
      BY <3>1, <3>2, <3>3
  <2>. QED
    BY <1>5, <2>1 DEF Even
<1>11. /\ R2 \subseteq T /\ root2 \notin R2 /\ x \notin R2 /\ x # root2
       /\ \A z \in R2 : P2[z] \notin R2
  <2>1. R2 \subseteq T /\ root2 \notin R2 /\ x \notin R2
    BY <1>0, <1>9 DEF Lifted, Short
  <2>2. x # root2
    BY <1>0 DEF Lifted, Short
  <2>3. ASSUME NEW z \in R2 PROVE P2[z] \notin R2
    <3>1. CASE z = q
      BY <1>0, <1>9, <3>1 DEF Lifted
    <3>2. CASE z # q
      <4>1. z \in R /\ z # s /\ z \in T /\ z # A[s] /\ P[z] \notin R
        BY <1>0, <1>9, <3>2 DEF Short
      <4>2. P2[z] = P[z]
        BY <1>0, <3>2, <4>1 DEF Lifted
      <4>3. P[z] # q
        BY <1>0, <4>1 DEF Links, Short
      <4>. QED
        BY <1>9, <4>1, <4>2, <4>3
    <3>. QED
      BY <3>1, <3>2
  <2>. QED
    BY <2>1, <2>2, <2>3
<1>. QED
  BY <1>0, <1>6, <1>9, <1>10, <1>11, <1>13 DEF Short

\* A red child of the sibling, on the side of the lack, is lifted over both.
LEMMA NearLifted ==
    ASSUME NEW T, NEW root, NEW A, NEW B, NEW P, Links(T, root, A, B, P),
           NEW R, NEW x, NEW q, Short(T, root, A, B, P, R, x, q), NEW s, s = B[q],
           s \notin R, NEW y, y = A[s], y \in R, NEW root2, NEW A2, NEW B2, NEW P2,
           LiftedTwice(T, root, B, A, P, root2, B2, A2, P2, y, s, q)
    PROVE  Idle(T, root2, A2, B2, P2, (R \ {q, s, y}) \cup (IF q \in R THEN {y} ELSE {}))
<1>0. /\ 0 \notin T /\ q \in T /\ s \in T /\ y \in T /\ s # q /\ s # x /\ A[q] = x /\ B[q] = s /\ P[s] = q
      /\ R \subseteq T /\ root # s /\ root # y /\ x # q /\ y # q /\ y # s /\ y # x /\ P[y] = s
      /\ A[y] \in T \cup {0} /\ B[y] \in T \cup {0} /\ A[y] \notin {q, s, y} /\ B[y] \notin {q, s, y}
      /\ A[s] = y
  <2>1. /\ 0 \notin T /\ q \in T /\ s \in T /\ s # q /\ s # x /\ A[q] = x /\ P[s] = q /\ x # q
        /\ A[s] \notin {q, s}
    BY Relatives
  <2>2. y \in T /\ R \subseteq T /\ y # 0 /\ P[y] = s /\ y # x /\ root # s /\ root # y
    BY <2>1 DEF Short, Links
  <2>3. A[y] \in T \cup {0} /\ B[y] \in T \cup {0} /\ A[y] # y /\ B[y] # y /\ A[y] # s /\ B[y] # s
    BY <2>1, <2>2 DEF Links
  <2>4. A[y] # q /\ B[y] # q
    BY <2>1, <2>2, <2>3 DEF Links
  <2>. QED
    BY <2>1, <2>2, <2>3, <2>4
<1>1. PICK h : Even(T, A, B, R, h, q, 0)
  BY DEF Short
<1>2. /\ h \in [T -> Nat] /\ \A z \in T : Low(A, h, z) \in Nat /\ Low(B, h, z) \in Nat
      /\ \A z \in T : z # q => /\ Low(A, h, z) = Low(B, h, z)
                               /\ h[z] = Low(A, h, z) + (IF z \in R THEN 0 ELSE 1)
      /\ Low(A, h, q) + 1 = h[s] /\ Low(B, h, q) = h[s]
      /\ h[q] = h[s] + (IF q \in R THEN 0 ELSE 1)
  BY <1>1, Heights DEF Short
<1>3. Low(A, h, s) = h[y] /\ h[y] = Low(A, h, y)
  <2>1. Low(A, h, s) = h[y]
    BY <1>0 DEF Low
  <2>. QED
    BY <1>0, <1>2, <2>1
<1>4. PICK h2 : h2 = [z \in T |-> IF z = q THEN h[s] ELSE IF z = y THEN h[q] ELSE h[z]]
  OBVIOUS
<1>5. /\ h2 \in [T -> Nat] /\ h2[q] = h[s] /\ h2[y] = h[q]
      /\ \A z \in T : z # y /\ z # q => h2[z] = h[z]
  BY <1>0, <1>2, <1>4
<1>6. /\ A2[q] = x /\ B2[q] = A[y] /\ A2[y] = q /\ B2[y] = s /\ A2[s] = B[y] /\ B2[s] = B[s]
      /\ B[s] \notin {q, s, y} /\ B[s] \in T \cup {0} /\ x \in T \cup {0}
  <2>1. B[s] \notin {q, s, y} /\ B[s] \in T \cup {0} /\ x \in T \cup {0}
    <3>1. B[s] \notin {q, s}
      BY Relatives
    <3>. QED
      BY <1>0, <3>1 DEF Links
  <2>. QED
    BY <1>0, <2>1 DEF LiftedTwice
<1>7. /\ Low(A2, h2, q) = Low(A, h, q) /\ Low(B2, h2, q) = Low(A, h, y)
      /\ Low(A2, h2, s) = Low(B, h, y) /\ Low(B2, h2, s) = Low(B, h, s)
      /\ Low(A2, h2, y) = h[s] /\ Low(B2, h2, y) = h[s]
  <2>1. /\ x # 0 => h2[x] = h[x]
        /\ A[y] # 0 => h2[A[y]] = h[A[y]]
        /\ B[y] # 0 => h2[B[y]] = h[B[y]]
        /\ B[s] # 0 => h2[B[s]] = h[B[s]]
        /\ h2[s] = h[s] /\ q # 0 /\ s # 0
    BY <1>0, <1>5, <1>6
  <2>. QED
    BY <1>0, <1>5, <1>6, <2>1 DEF Low
<1>8. ASSUME NEW z \in T, z \notin {q, s, y}
      PROVE  Low(A2, h2, z) = Low(A, h, z) /\ Low(B2, h2, z) = Low(B, h, z)
  <2>1. A[z] \notin {s, y} /\ B[z] \notin {s, y} /\ A[z] \in T \cup {0} /\ B[z] \in T \cup {0}
    BY <1>0, <1>8 DEF Links
  <2>2. A2[z] = (IF A[z] = q THEN y ELSE A[z]) /\ B2[z] = (IF B[z] = q THEN y ELSE B[z])
    BY <1>8 DEF LiftedTwice
  <2>3. q # 0 /\ y # 0
    BY <1>0
  <2>. QED
    BY <1>0, <1>5, <2>1, <2>2, <2>3 DEF Low
<1>9. PICK R2 : R2 = (R \ {q, s, y}) \cup (IF q \in R THEN {y} ELSE {})
  OBVIOUS
<1>10. Even(T, A2, B2, R2, h2, 0, 0)
  <2>1. ASSUME NEW z \in T
        PROVE  /\ Low(A2, h2, z) \in Nat /\ Low(A2, h2, z) = Low(B2, h2, z)
               /\ h2[z] = Low(A2, h2, z) + (IF z \in R2 THEN 0 ELSE 1)
    <3>0. /\ q \notin R2 /\ s \notin R2 /\ (y \in R2 <=> q \in R)
          /\ \A u \in T : u \notin {q, s, y} => (u \in R2 <=> u \in R)
      BY <1>0, <1>9
    <3>1. CASE z = q
      BY <1>0, <1>2, <1>3, <1>5, <1>7, <3>0, <3>1
    <3>2. CASE z = s
      BY <1>0, <1>2, <1>3, <1>5, <1>7, <3>0, <3>2
    <3>3. CASE z = y
      BY <1>0, <1>2, <1>5, <1>7, <3>0, <3>3
    <3>4. CASE z \notin {q, s, y}
      BY <1>2, <1>5, <1>8, <3>0, <3>4
    <3>. QED
      BY <3>1, <3>2, <3>3, <3>4
  <2>. QED
    BY <1>0, <1>5, <2>1, EvenWhen
<1>11. R2 \subseteq T /\ root2 \notin R2 /\ \A z \in R2 : P2[z] \notin R2
  <2>1. R2 \subseteq T /\ root2 \notin R2
    BY <1>0, <1>9 DEF LiftedTwice, Short
  <2>2. ASSUME NEW z \in R2 PROVE P2[z] \notin R2
    <3>1. CASE z = y
      <4>1. q \in R /\ P2[y] = P[q] /\ P[q] \notin R
        BY <1>0, <1>9, <2>2, <3>1 DEF LiftedTwice, Short
      <4>. QED
        BY <1>0, <1>9, <3>1, <4>1
    <3>2. CASE z # y
      <4>1. z \in R /\ z \in T /\ z \notin {q, s, y} /\ P[z] \notin R
        BY <1>0, <1>9, <2>2, <3>2 DEF Short
      <4>2. z # A[y] /\ z # B[y]
        BY <1>0, <4>1 DEF Links
      <4>3. P2[z] = P[z]
        BY <4>1, <4>2 DEF LiftedTwice
      <4>. QED
        BY <1>0, <1>9, <4>1, <4>3
    <3>. QED
      BY <3>1, <3>2
  <2>. QED
    BY <2>1, <2>2
<1>. QED
  BY <1>9, <1>10, <1>11 DEF Idle

\* The sibling is lifted over the parent, its far child becomes black.
LEMMA FarLifted ==
    ASSUME NEW T, NEW root, NEW A, NEW B, NEW P, Links(T, root, A, B, P),
           NEW R, NEW x, NEW q, Short(T, root, A, B, P, R, x, q), NEW s, s = B[q],
           s \notin R, A[s] \notin R, NEW y, y = B[s], y \in R, NEW root2, NEW A2, NEW B2, NEW P2,
           Lifted(T, root, B, A, P, root2, B2, A2, P2, s, q)
    PROVE  Idle(T, root2, A2, B2, P2, (R \ {q, s, y}) \cup (IF q \in R THEN {s} ELSE {}))
<1>0. /\ 0 \notin T /\ q \in T /\ s \in T /\ y \in T /\ s # q /\ s # x /\ A[q] = x /\ B[q] = s /\ P[s] = q
      /\ R \subseteq T /\ root # s /\ root # y /\ x # q /\ y # q /\ y # s /\ y # x /\ P[y] = s
      /\ A[s] \in T \cup {0} /\ A[s] \notin {q, s, y} /\ x \in T \cup {0}
  <2>1. /\ 0 \notin T /\ q \in T /\ s \in T /\ s # q /\ s # x /\ A[q] = x /\ P[s] = q /\ x # q
        /\ A[s] \notin {q, s} /\ B[s] \notin {q, s}
    BY Relatives
  <2>2. y \in T /\ R \subseteq T /\ y # 0 /\ P[y] = s /\ y # x /\ root # s /\ root # y
    BY <2>1 DEF Short, Links
  <2>3. A[s] \in T \cup {0} /\ A[s] # y /\ x \in T \cup {0}
    BY <2>1, <2>2 DEF Links
  <2>. QED
    BY <2>1, <2>2, <2>3
<1>1. PICK h : Even(T, A, B, R, h, q, 0)
  BY DEF Short
<1>2. /\ h \in [T -> Nat] /\ \A z \in T : Low(A, h, z) \in Nat /\ Low(B, h, z) \in Nat
      /\ \A z \in T : z # q => /\ Low(A, h, z) = Low(B, h, z)
                               /\ h[z] = Low(A, h, z) + (IF z \in R THEN 0 ELSE 1)
      /\ Low(A, h, q) + 1 = h[s] /\ Low(B, h, q) = h[s]
      /\ h[q] = h[s] + (IF q \in R THEN 0 ELSE 1)
  BY <1>1, Heights DEF Short
<1>3. Low(B, h, s) = h[y] /\ h[y] = Low(A, h, y)
  <2>1. Low(B, h, s) = h[y]
    BY <1>0 DEF Low
  <2>. QED
    BY <1>0, <1>2, <2>1
<1>4. PICK h2 : h2 = [z \in T |-> IF z = q \/ z = y THEN h[s] ELSE IF z = s THEN h[q] ELSE h[z]]
  OBVIOUS
<1>5. /\ h2 \in [T -> Nat] /\ h2[q] = h[s] /\ h2[y] = h[s] /\ h2[s] = h[q]
      /\ \A z \in T : z \notin {q, s, y} => h2[z] = h[z]
  BY <1>0, <1>2, <1>4
<1>6. A2[q] = x /\ B2[q] = A[s] /\ A2[s] = q /\ B2[s] = y
  BY <1>0 DEF Lifted
<1>7. /\ Low(A2, h2, q) = Low(A, h, q) /\ Low(B2, h2, q) = Low(A, h, s)
      /\ Low(A2, h2, s) = h[s] /\ Low(B2, h2, s) = h[s]
      /\ Low(A2, h2, y) = Low(A, h, y) /\ Low(B2, h2, y) = Low(B, h, y)
  <2>1. /\ x # 0 => h2[x] = h[x]
        /\ A[s] # 0 => h2[A[s]] = h[A[s]]
        /\ q # 0 /\ y # 0
    BY <1>0, <1>5
  <2>2. /\ A[y] \notin {q, s, y} /\ B[y] \notin {q, s, y} /\ A[y] \in T \cup {0} /\ B[y] \in T \cup {0}
    BY <1>0 DEF Links
  <2>3. A2[y] = A[y] /\ B2[y] = B[y]
    BY <1>0, <2>2 DEF Lifted
  <2>. QED
    BY <1>0, <1>5, <1>6, <2>1, <2>2, <2>3 DEF Low
<1>8. ASSUME NEW z \in T, z \notin {q, s, y}
      PROVE  Low(A2, h2, z) = Low(A, h, z) /\ Low(B2, h2, z) = Low(B, h, z)
  <2>1. A[z] \notin {s, y} /\ B[z] \notin {s, y} /\ A[z] \in T \cup {0} /\ B[z] \in T \cup {0}
    BY <1>0, <1>8 DEF Links
  <2>2. A2[z] = (IF A[z] = q THEN s ELSE A[z]) /\ B2[z] = (IF B[z] = q THEN s ELSE B[z])
    BY <1>8 DEF Lifted
  <2>3. q # 0 /\ s # 0
    BY <1>0
  <2>. QED
    BY <1>0, <1>5, <2>1, <2>2, <2>3 DEF Low
<1>9. PICK R2 : R2 = (R \ {q, s, y}) \cup (IF q \in R THEN {s} ELSE {})
  OBVIOUS
<1>10. Even(T, A2, B2, R2, h2, 0, 0)
  <2>1. ASSUME NEW z \in T
        PROVE  /\ Low(A2, h2, z) \in Nat /\ Low(A2, h2, z) = Low(B2, h2, z)
               /\ h2[z] = Low(A2, h2, z) + (IF z \in R2 THEN 0 ELSE 1)
    <3>0. /\ q \notin R2 /\ y \notin R2 /\ (s \in R2 <=> q \in R)
          /\ \A u \in T : u \notin {q, s, y} => (u \in R2 <=> u \in R)
      BY <1>0, <1>9
    <3>1. CASE z = q
      BY <1>0, <1>2, <1>3, <1>5, <1>7, <3>0, <3>1
    <3>2. CASE z = s
      BY <1>0, <1>2, <1>5, <1>7, <3>0, <3>2
    <3>3. CASE z = y
      BY <1>0, <1>2, <1>3, <1>5, <1>7, <3>0, <3>3
    <3>4. CASE z \notin {q, s, y}
      BY <1>2, <1>5, <1>8, <3>0, <3>4
    <3>. QED
      BY <3>1, <3>2, <3>3, <3>4
  <2>. QED
    BY <1>0, <1>5, <2>1, EvenWhen
<1>11. R2 \subseteq T /\ root2 \notin R2 /\ \A z \in R2 : P2[z] \notin R2
  <2>1. R2 \subseteq T /\ root2 \notin R2
    BY <1>0, <1>9 DEF Lifted, Short
  <2>2. ASSUME NEW z \in R2 PROVE P2[z] \notin R2
    <3>1. CASE z = s
      <4>1. q \in R /\ P2[s] = P[q] /\ P[q] \notin R /\ P[q] # s
        BY <1>0, <1>9, <2>2, <3>1 DEF Lifted, Short, Links
      <4>. QED
        BY <1>0, <1>9, <3>1, <4>1
    <3>2. CASE z # s
      <4>1. z \in R /\ z \in T /\ z \notin {q, s, y} /\ P[z] \notin R
        BY <1>0, <1>9, <2>2, <3>2 DEF Short
      <4>2. z # A[s] /\ P[z] # s
        BY <1>0, <4>1 DEF Links
      <4>3. P2[z] = P[z]
        BY <4>1, <4>2 DEF Lifted
      <4>. QED
        BY <1>0, <1>9, <4>1, <4>2, <4>3
    <3>. QED
      BY <3>1, <3>2
  <2>. QED
    BY <2>1, <2>2
<1>. QED
  BY <1>9, <1>10, <1>11 DEF Idle

\* One more counts on the way from q to x while m says so: below a on its
\* first side, below b on the other.
Counts(T, N, A, B, a, b, m, x, q) ==
    /\ \A r \in T : /\ (m = "rebalance" /\ <<A[r], r>> = <<x, q>>) <=> r = a
                    /\ (m = "rebalance" /\ <<B[r], r>> = <<x, q>>) <=> r = b
    /\ \A r \in N \ T : m = "rebalance" => <<0, r>> # <<x, q>>

\* What counts the black nodes.
CountsEvenly(N, root, A, B, c, red, m, x, q) ==
    LET X == N \cup {0}
        Eq(f) == f = [v \in X \X X |->
                        LET l == f[<<A[v[1]], v[1]>>]
                            g == f[<<B[v[1]], v[1]>>]
                            extra == IF m = "rebalance" /\ v = <<x, q>> THEN 1 ELSE 0
                        IN  IF v[1] = 0 THEN extra
                            ELSE IF l # g \/ l = -1 THEN -1
                            ELSE l + extra + (IF c[v[1]] = red THEN 0 ELSE 1)]
    IN  /\ \E f : Eq(f)
        /\ \A f : Eq(f) => f[<<root, 0>>] # -1

\* The count of the black nodes below a node never finds paths that differ.
LEMMA HeightIs ==
    ASSUME NEW T, NEW root, NEW A, NEW B, NEW P, NEW pos, Fits(T, root, A, B, P, pos), T # {},
           NEW N, T \subseteq N, 0 \notin N, \A z \in N \ T : A[z] = 0 /\ B[z] = 0,
           NEW R, R \subseteq T, NEW c, NEW red, \A z \in N : z \in R <=> c[z] = red,
           NEW h, NEW a, NEW b, Even(T, A, B, R, h, a, b),
           NEW m, NEW x, NEW q, Counts(T, N, A, B, a, b, m, x, q)
    PROVE  CountsEvenly(N, root, A, B, c, red, m, x, q)
<1>. DEFINE X == N \cup {0}
            E(v) == IF m = "rebalance" /\ v = <<x, q>> THEN 1 ELSE 0
            Body(f, v) == LET l == f[<<A[v[1]], v[1]>>]
                              g == f[<<B[v[1]], v[1]>>]
                              extra == IF m = "rebalance" /\ v = <<x, q>> THEN 1 ELSE 0
                          IN  IF v[1] = 0 THEN extra
                              ELSE IF l # g \/ l = -1 THEN -1
                              ELSE l + extra + (IF c[v[1]] = red THEN 0 ELSE 1)
            HeightAt(r) == IF r = 0 THEN 0 ELSE IF r \in T THEN h[r] ELSE 1
<1>1. /\ 0 \notin T /\ root \in T
      /\ \A z \in T : A[z] \in T \cup {0} /\ B[z] \in T \cup {0} /\ A[z] \in X /\ B[z] \in X /\ z \in X
  BY LinksHold DEF Links
<1>2. \A z \in T : /\ h[z] \in Nat /\ Low(A, h, z) \in Nat /\ Low(B, h, z) \in Nat
                   /\ Low(A, h, z) = HeightAt(A[z]) /\ Low(B, h, z) = HeightAt(B[z])
  BY <1>1 DEF Even, Low
<1>3. \A v : E(v) \in {0, 1}
  OBVIOUS
<1>4. ASSUME NEW r \in T
      PROVE  /\ HeightAt(A[r]) + E(<<A[r], r>>) = HeightAt(B[r]) + E(<<B[r], r>>)
             /\ HeightAt(A[r]) + E(<<A[r], r>>) \in Nat
             /\ h[r] = HeightAt(A[r]) + E(<<A[r], r>>) + (IF c[r] = red THEN 0 ELSE 1)
  <2>1. /\ E(<<A[r], r>>) = (IF r = a THEN 1 ELSE 0)
        /\ E(<<B[r], r>>) = (IF r = b THEN 1 ELSE 0)
    BY DEF Counts
  <2>2. c[r] = red <=> r \in R
    OBVIOUS
  <2>3. /\ Low(A, h, r) + (IF r = a THEN 1 ELSE 0) = Low(B, h, r) + (IF r = b THEN 1 ELSE 0)
        /\ h[r] = Low(A, h, r) + (IF r = a THEN 1 ELSE 0) + (IF r \in R THEN 0 ELSE 1)
    BY DEF Even
  <2>4. HeightAt(A[r]) = Low(A, h, r) /\ HeightAt(B[r]) = Low(B, h, r) /\ Low(A, h, r) \in Nat
    BY <1>2
  <2>. HIDE DEF E, HeightAt
  <2>. QED
    BY <2>1, <2>2, <2>3, <2>4
<1>5. ASSUME NEW r \in N \ T
      PROVE  E(<<0, r>>) = 0 /\ A[r] = 0 /\ B[r] = 0 /\ c[r] # red /\ HeightAt(r) = 1
  BY <1>1 DEF Counts
<1>6. HeightAt(0) = 0 /\ \A r \in T : HeightAt(r) = h[r]
  BY <1>1
<1>7. \A v \in X \X X : v[1] \in N \/ v[1] = 0
  OBVIOUS
<1>8. \A f : \A v \in X \X X :
         LET l == f[<<A[v[1]], v[1]>>]
             g == f[<<B[v[1]], v[1]>>]
         IN  Body(f, v) = IF v[1] = 0 THEN E(v)
                          ELSE IF l # g \/ l = -1 THEN -1
                          ELSE l + E(v) + (IF c[v[1]] = red THEN 0 ELSE 1)
  OBVIOUS
<1>9. \E f : f = [v \in X \X X |-> Body(f, v)]
  <2>1. PICK f : f = [v \in X \X X |-> HeightAt(v[1]) + E(v)]
    OBVIOUS
  <2>2. ASSUME NEW v \in X \X X PROVE f[v] = Body(f, v)
    <3>. DEFINE r == v[1]
    <3>1. f[v] = HeightAt(r) + E(v) /\ E(v) \in {0, 1} /\ r \in X
      BY <1>3, <2>1
    <3>2. CASE r = 0
      BY <1>6, <1>8, <3>1, <3>2
    <3>3. CASE r \in T
      <4>1. /\ f[<<A[r], r>>] = HeightAt(A[r]) + E(<<A[r], r>>)
            /\ f[<<B[r], r>>] = HeightAt(B[r]) + E(<<B[r], r>>)
        BY <1>1, <2>1, <3>3
      <4>2. /\ f[<<A[r], r>>] = f[<<B[r], r>>] /\ f[<<A[r], r>>] \in Nat
            /\ h[r] = f[<<A[r], r>>] + (IF c[r] = red THEN 0 ELSE 1)
        BY <1>4, <3>3, <4>1
      <4>3. r # 0 /\ HeightAt(r) = h[r]
        BY <1>1, <1>6, <3>3
      <4>4. Body(f, v) = f[<<A[r], r>>] + E(v) + (IF c[r] = red THEN 0 ELSE 1)
        BY <1>8, <4>2, <4>3
      <4>. HIDE DEF E, HeightAt, Body, r
      <4>. QED
        BY <3>1, <4>2, <4>3, <4>4
    <3>4. CASE r \in N \ T
      <4>1. /\ f[<<A[r], r>>] = 0 /\ f[<<B[r], r>>] = 0 /\ c[r] # red /\ HeightAt(r) = 1 /\ r # 0
        BY <1>5, <1>6, <2>1, <3>1, <3>4
      <4>4. Body(f, v) = 0 + E(v) + 1
        BY <1>8, <4>1
      <4>. HIDE DEF E, HeightAt, Body, r
      <4>. QED
        BY <3>1, <4>1, <4>4
    <3>. QED
      BY <1>7, <3>2, <3>3, <3>4
  <2>3. f = [v \in X \X X |-> f[v]]
    BY <2>1
  <2>. HIDE DEF Body, E, HeightAt
  <2>4. f = [v \in X \X X |-> Body(f, v)]
    BY <2>2, <2>3
  <2>. QED
    BY <2>4
<1>10. ASSUME NEW f, f = [v \in X \X X |-> Body(f, v)]
       PROVE  f[<<root, 0>>] # -1
  <2>1. \A v \in X \X X : f[v] = Body(f, v)
    <3>. HIDE DEF Body, X
    <3>. QED
      BY <1>10
  <2>0. ASSUME NEW up \in X PROVE f[<<0, up>>] = E(<<0, up>>)
    <3>1. PICK v \in X \X X : v = <<0, up>>
      OBVIOUS
    <3>2. v[1] = 0
      BY <3>1
    <3>3. f[v] = Body(f, v)
      BY <2>1
    <3>4. Body(f, v) = E(v)
      BY <1>8, <3>2
    <3>. HIDE DEF Body, E
    <3>. QED
      BY <3>1, <3>3, <3>4
  <2>. DEFINE Ok == {r \in T : \A up \in X : f[<<r, up>>] = h[r] + E(<<r, up>>)}
  <2>2. ASSUME NEW r \in T, A[r] # 0 => A[r] \in Ok, B[r] # 0 => B[r] \in Ok
        PROVE  r \in Ok
    <3>. SUFFICES ASSUME NEW up \in X PROVE f[<<r, up>>] = h[r] + E(<<r, up>>)
      OBVIOUS
    <3>1. f[<<A[r], r>>] = HeightAt(A[r]) + E(<<A[r], r>>)
      BY <1>1, <1>3, <1>6, <2>0, <2>2
    <3>2. f[<<B[r], r>>] = HeightAt(B[r]) + E(<<B[r], r>>)
      BY <1>1, <1>3, <1>6, <2>0, <2>2
    <3>3. /\ f[<<A[r], r>>] = f[<<B[r], r>>] /\ f[<<A[r], r>>] \in Nat
          /\ h[r] = f[<<A[r], r>>] + (IF c[r] = red THEN 0 ELSE 1)
      BY <1>4, <3>1, <3>2
    <3>0. r \in X /\ up \in X
      BY <1>1
    <3>7. PICK v \in X \X X : v = <<r, up>>
      BY <3>0
    <3>4. v = <<r, up>> /\ v[1] = r
      BY <3>7
    <3>5. r # 0 /\ E(v) \in {0, 1} /\ h[r] \in Nat
      BY <1>1, <1>2, <1>3
    <3>6. f[v] = f[<<A[r], r>>] + E(v) + (IF c[r] = red THEN 0 ELSE 1)
      BY <1>8, <2>1, <3>3, <3>4, <3>5
    <3>. HIDE DEF E
    <3>. QED
      BY <3>3, <3>4, <3>5, <3>6
  <2>3. T \subseteq Ok
    <3>. HIDE DEF Ok
    <3>. QED
      BY <2>2, FromBelow
  <2>4. f[<<root, 0>>] = h[root] + E(<<root, 0>>)
    BY <1>1, <2>3
  <2>. QED
    BY <1>1, <1>2, <1>3, <2>4
<1>. QED
  BY <1>9, <1>10 DEF CountsEvenly

\* The leftmost node is defined.
LEMMA LeftmostExists ==
    ASSUME NEW T, NEW root, NEW A, NEW B, NEW P, NEW pos, Fits(T, root, A, B, P, pos),
           NEW N, T \subseteq N, 0 \notin N, \A z \in N \ T : A[z] = 0
    PROVE  \E f : f = [r \in N |-> IF A[r] = 0 THEN r ELSE f[A[r]]]
<1>1. PICK m \in Nat : \E w : Heavier(T, A, B, w, m)
  BY WeightsExist
<1>2. PICK w : Heavier(T, A, B, w, m)
  BY <1>1
<1>3. /\ w \in [T \cup {0} -> 0 .. m] /\ \A z \in T : A[z] # 0 => w[A[z]] < w[z]
  BY <1>2 DEF Heavier
<1>4. \A z \in T : A[z] \in T \cup {0}
  BY LinksHold DEF Links
<1>5. PICK u : u = [z \in N |-> IF z \in T THEN w[z] ELSE 0]
  OBVIOUS
<1>6. PICK Stop, next, base : Stop = {z \in N : A[z] = 0} /\ next = A /\ base = [z \in N |-> z]
  OBVIOUS
<1>7. Descends(N, Stop, next, u, m)
  <2>1. u \in [N -> 0 .. m]
    BY <1>3, <1>5
  <2>2. ASSUME NEW z \in N \ Stop PROVE next[z] \in N /\ u[next[z]] < u[z]
    <3>1. z \in T /\ A[z] \in T
      BY <1>4, <1>6
    <3>. QED
      BY <1>3, <1>5, <1>6, <3>1
  <2>. QED
    BY <2>1, <2>2 DEF Descends
<1>8. PICK f : Ends(f, N, Stop, next, base)
  BY <1>7, DescentExists
<1>9. f = [z \in N |-> f[z]] /\ \A z \in N : f[z] = IF z \in Stop THEN base[z] ELSE f[next[z]]
  BY <1>8 DEF Ends
<1>10. \A z \in N : f[z] = IF A[z] = 0 THEN z ELSE f[A[z]]
  BY <1>6, <1>9
<1>11. f = [r \in N |-> IF A[r] = 0 THEN r ELSE f[A[r]]]
  BY <1>9, <1>10
<1>. QED
  BY <1>11

\* The places of the children.
LEMMA ChildPlaces ==
    ASSUME NEW T, NEW root, NEW A, NEW B, NEW P, NEW pos, Fits(T, root, A, B, P, pos), NEW z \in T
    PROVE  /\ pos \in [T -> Int] /\ \A y \in T : pos[y] = pos[z] => y = z
           /\ A[z] # 0 => A[z] \in T /\ pos[A[z]] < pos[z]
           /\ B[z] # 0 => B[z] \in T /\ pos[z] < pos[B[z]]
<1>1. PICK lo, hi : Shape(T, root, A, B, P, pos, lo, hi)
  BY DEF Fits
<1>2. /\ pos \in [T -> Int] /\ lo \in [T -> Int] /\ hi \in [T -> Int] /\ 0 \notin T
      /\ \A y \in T : lo[y] < pos[y] /\ pos[y] < hi[y]
      /\ \A y \in T : pos[y] = pos[z] => y = z
  BY <1>1 DEF Shape, Bounded
<1>3. /\ A[z] \in T \cup {0} /\ B[z] \in T \cup {0}
      /\ A[z] # 0 => hi[A[z]] = pos[z]
      /\ B[z] # 0 => lo[B[z]] = pos[z]
  BY <1>1 DEF Shape, Hung
<1>. QED
  BY <1>2, <1>3

\* A red sibling has two children.
LEMMA RedSiblingChildren ==
    ASSUME NEW T, NEW root, NEW A, NEW B, NEW P, Links(T, root, A, B, P),
           NEW R, NEW x, NEW q, Short(T, root, A, B, P, R, x, q), B[q] \in R
    PROVE  A[B[q]] \in T /\ B[B[q]] \in T
<1>1. PICK h : Even(T, A, B, R, h, q, 0)
  BY DEF Short
<1>2. q \in T /\ B[q] \in T /\ B[q] # 0 /\ B[q] # q
  BY Relatives
<1>3. PICK s \in T : s = B[q] /\ s # q /\ s \in R
  BY <1>2
<1>4. /\ h \in [T -> Nat] /\ Low(A, h, s) \in Nat /\ Low(B, h, s) = Low(A, h, s)
      /\ h[s] = Low(A, h, s) + (IF s \in R THEN 0 ELSE 1)
      /\ Low(A, h, q) + 1 = h[s] /\ Low(A, h, q) \in Nat
  BY <1>1, <1>2, <1>3, Heights
<1>5. Low(A, h, s) # 0 /\ Low(B, h, s) # 0
  BY <1>3, <1>4
<1>6. A[s] # 0 /\ B[s] # 0
  BY <1>5 DEF Low
<1>. QED
  BY <1>3, <1>6 DEF Links

-----------------------------------------------------------------------------
(* What the operations of the trees do to the pointers.                    *)

Node == Tree!Nodes \cup {Tree!NULL_ID}
Sides == {Tree!LEFT, Tree!RIGHT}

TreeRec == [root : Node, child : [Sides -> [Node -> Node]], parent : [Node -> Node],
            color : [Node -> {Tree!RED, Tree!BLACK}], ok : BOOLEAN]

\* u is t after y, when it is a node, was hung on the side d of x, when that is one.
HungOn(t, u, x, y, d) ==
    /\ u \in TreeRec /\ u.root = t.root /\ u.ok = t.ok /\ u.color = t.color
    /\ \A z \in Node : /\ \A e \in Sides :
                             u.child[e][z] = IF e = d /\ z = x /\ x # 0 THEN y ELSE t.child[e][z]
                       /\ u.parent[z] = IF z = y /\ y # 0 THEN x ELSE t.parent[z]

\* u is t but for the parent of x
GivenParent(t, u, x, y) ==
    /\ u \in TreeRec /\ u.root = t.root /\ u.ok = t.ok /\ u.color = t.color
    /\ u.child = t.child
    /\ \A z \in Node : u.parent[z] = IF z = x /\ x # 0 THEN y ELSE t.parent[z]

LEMMA SetParentIs ==
    ASSUME NEW t \in TreeRec, NEW x \in Node, NEW y \in Node, NEW u, u = Tree!SetParent(t, x, y)
    PROVE  GivenParent(t, u, x, y)
BY DEF Tree!SetParent, TreeRec, Tree!NULL_ID, GivenParent

LEMMA SetChildIs ==
    ASSUME NEW t \in TreeRec, NEW x \in Node, NEW y \in Node, NEW d \in Sides,
           NEW u, u = Tree!SetChild(t, x, y, d)
    PROVE  u \in TreeRec /\ HungOn(t, u, x, y, d)
<1>1. PICK v : v = IF x = Tree!NULL_ID THEN t ELSE [t EXCEPT !.child[d][x] = y]
  OBVIOUS
<1>2. /\ v \in TreeRec /\ v.root = t.root /\ v.ok = t.ok /\ v.color = t.color /\ v.parent = t.parent
      /\ \A z \in Node : \A e \in Sides :
             v.child[e][z] = IF e = d /\ z = x /\ x # 0 THEN y ELSE t.child[e][z]
  <2>1. CASE x = Tree!NULL_ID
    BY <1>1, <2>1 DEF Tree!NULL_ID
  <2>2. CASE x # Tree!NULL_ID
    <3>1. v = [t EXCEPT !.child[d][x] = y] /\ x # 0
      BY <1>1, <2>2 DEF Tree!NULL_ID
    <3>. QED
      BY <3>1 DEF TreeRec
  <2>. QED
    BY <2>1, <2>2
<1>3. u = Tree!SetParent(v, y, x)
  BY <1>1 DEF Tree!SetChild
<1>4. GivenParent(v, u, y, x)
  BY <1>2, <1>3, SetParentIs
<1>. QED
  BY <1>2, <1>4 DEF HungOn, GivenParent

\* x hangs where its parent has it, or is the root.
HangsWell(t, x) ==
    /\ t.root = x => t.parent[x] = 0
    /\ t.root # x => /\ t.parent[x] # 0
                     /\ t.child[Tree!LEFT][t.parent[x]] = x \/ t.child[Tree!RIGHT][t.parent[x]] = x
                     /\ t.child[Tree!LEFT][t.parent[x]] # t.child[Tree!RIGHT][t.parent[x]]

\* u is t with y, when it is a node, in the place of x.
InPlace(t, u, x, y) ==
    /\ u \in TreeRec /\ u.root = (IF t.root = x THEN y ELSE t.root) /\ u.ok = t.ok /\ u.color = t.color
    /\ \A z \in Node : /\ \A e \in Sides :
                             u.child[e][z] = IF t.root # x /\ z = t.parent[x] /\ t.child[e][z] = x
                                             THEN y ELSE t.child[e][z]
                       /\ u.parent[z] = IF z = y /\ y # 0 THEN t.parent[x] ELSE t.parent[z]

LEMMA ReplaceIs ==
    ASSUME NEW t \in TreeRec, NEW x \in Tree!Nodes, NEW y \in Node, 0 \notin Tree!Nodes, HangsWell(t, x),
           NEW u, u = Tree!Replace(t, x, y)
    PROVE  u \in TreeRec /\ InPlace(t, u, x, y)
<1>0. x \in Node /\ x # 0 /\ t.parent[x] \in Node /\ Tree!LEFT \in Sides /\ Tree!RIGHT \in Sides
      /\ Tree!LEFT # Tree!RIGHT
  BY DEF Node, TreeRec, Sides, Tree!LEFT, Tree!RIGHT
<1>1. CASE t.root = x
  <2>1. Tree!Assert(t, t.parent[x] = Tree!NULL_ID) = t
    BY <1>1 DEF HangsWell, Tree!NULL_ID, Tree!Assert, TreeRec
  <2>2. PICK v : v = [t EXCEPT !.root = y]
    OBVIOUS
  <2>3. v \in TreeRec /\ v.root = y /\ v.ok = t.ok /\ v.color = t.color /\ v.child = t.child /\ v.parent = t.parent
    BY <2>2 DEF TreeRec
  <2>4. u = Tree!SetParent(v, y, 0)
    BY <1>1, <2>1, <2>2 DEF Tree!Replace, Tree!NULL_ID
  <2>5. GivenParent(v, u, y, 0)
    <3>1. 0 \in Node
      BY DEF Node, Tree!NULL_ID
    <3>. QED
      BY <2>3, <2>4, <3>1, SetParentIs
  <2>. QED
    BY <1>1, <2>3, <2>5 DEF InPlace, HangsWell, GivenParent
<1>2. CASE t.root # x
  <2>1. PICK q \in Node : q = t.parent[x] /\ q # 0
    BY <1>0, <1>2 DEF HangsWell
  <2>2. CASE t.child[Tree!LEFT][q] = x
    <3>1. u = Tree!SetChild(t, q, y, Tree!LEFT)
      BY <1>2, <2>1, <2>2 DEF Tree!Replace
    <3>2. HungOn(t, u, q, y, Tree!LEFT)
      BY <1>0, <3>1, SetChildIs
    <3>3. t.child[Tree!RIGHT][q] # x
      BY <1>2, <2>1, <2>2 DEF HangsWell
    <3>. QED
      BY <1>0, <1>2, <2>1, <2>2, <3>2, <3>3 DEF HungOn, InPlace, Sides
  <2>3. CASE t.child[Tree!LEFT][q] # x
    <3>0. t.child[Tree!RIGHT][q] = x
      BY <1>2, <2>1, <2>3 DEF HangsWell
    <3>4. Tree!Assert(t, t.child[Tree!RIGHT][q] = x) = t
      BY <3>0 DEF Tree!Assert, TreeRec
    <3>1. u = Tree!SetChild(t, q, y, Tree!RIGHT)
      BY <1>2, <2>1, <2>3, <3>4 DEF Tree!Replace
    <3>2. HungOn(t, u, q, y, Tree!RIGHT)
      BY <1>0, <3>1, SetChildIs
    <3>. QED
      BY <1>0, <1>2, <2>1, <2>3, <3>0, <3>2 DEF HungOn, InPlace, Sides
  <2>. QED
    BY <2>2, <2>3
<1>. QED
  BY <1>1, <1>2

\* u is t but for the colour of x
Colored(t, u, x, c) ==
    /\ u \in TreeRec /\ u.root = t.root /\ u.ok = t.ok /\ u.child = t.child
    /\ u.parent = t.parent
    /\ \A z \in Node : u.color[z] = IF z = x /\ x # 0 THEN c ELSE t.color[z]

LEMMA SetColorIs ==
    ASSUME NEW t \in TreeRec, NEW x \in Node, NEW c \in {Tree!RED, Tree!BLACK}, NEW u, u = Tree!SetColor(t, x, c)
    PROVE  Colored(t, u, x, c)
BY DEF Tree!SetColor, TreeRec, Tree!NULL_ID, Colored

LEMMA AssertIs ==
    ASSUME NEW t \in TreeRec, NEW c, c
    PROVE  Tree!Assert(t, c) = t
BY DEF Tree!Assert, TreeRec

-----------------------------------------------------------------------------
(* The two sides of a tree.                                                *)

OnSide(d, T, pos) == IF d = Tree!LEFT THEN pos ELSE Neg(T, pos)

LEMMA SidesAre ==
    /\ Tree!LEFT \in Sides /\ Tree!RIGHT \in Sides /\ Tree!LEFT # Tree!RIGHT
    /\ \A d \in Sides : Tree!Other(d) \in Sides /\ Tree!Other(d) # d /\ Tree!Other(Tree!Other(d)) = d
    /\ \A d \in Sides : (d = Tree!LEFT /\ Tree!Other(d) = Tree!RIGHT) \/ (d = Tree!RIGHT /\ Tree!Other(d) = Tree!LEFT)
BY DEF Sides, Tree!LEFT, Tree!RIGHT, Tree!Other

LEMMA SideFits ==
    ASSUME NEW T, NEW root, NEW C, NEW P, NEW pos, Fits(T, root, C[Tree!LEFT], C[Tree!RIGHT], P, pos),
           NEW d \in Sides
    PROVE  Fits(T, root, C[d], C[Tree!Other(d)], P, OnSide(d, T, pos)) /\ pos \in [T -> Int]
<1>1. Fits(T, root, C[Tree!RIGHT], C[Tree!LEFT], P, Neg(T, pos)) /\ pos \in [T -> Int]
  BY Mirror
<1>2. CASE d = Tree!LEFT /\ Tree!Other(d) = Tree!RIGHT
  BY <1>1, <1>2 DEF OnSide
<1>3. CASE d = Tree!RIGHT /\ Tree!Other(d) = Tree!LEFT
  BY <1>1, <1>3, SidesAre DEF OnSide
<1>. QED
  BY <1>2, <1>3, SidesAre

LEMMA SideBack ==
    ASSUME NEW T, NEW root, NEW C, NEW P, NEW pos \in [T -> Int], NEW d \in Sides,
           Fits(T, root, C[d], C[Tree!Other(d)], P, OnSide(d, T, pos))
    PROVE  Fits(T, root, C[Tree!LEFT], C[Tree!RIGHT], P, pos)
<1>2. CASE d = Tree!LEFT /\ Tree!Other(d) = Tree!RIGHT
  BY <1>2 DEF OnSide
<1>3. CASE d = Tree!RIGHT /\ Tree!Other(d) = Tree!LEFT
  <2>1. Fits(T, root, C[Tree!RIGHT], C[Tree!LEFT], P, Neg(T, pos))
    BY <1>3, SidesAre DEF OnSide
  <2>2. Fits(T, root, C[Tree!LEFT], C[Tree!RIGHT], P, Neg(T, Neg(T, pos)))
    BY <2>1, Mirror
  <2>3. Neg(T, Neg(T, pos)) = pos
    <3>1. pos = [z \in T |-> pos[z]] /\ \A z \in T : pos[z] \in Int
      OBVIOUS
    <3>2. \A z \in T : - (- pos[z]) = pos[z]
      BY <3>1
    <3>. QED
      BY <3>1, <3>2 DEF Neg
  <2>. QED
    BY <2>2, <2>3
<1>. QED
  BY <1>2, <1>3, SidesAre

LEMMA SideIdle ==
    ASSUME NEW T, NEW root, NEW C, NEW P, NEW R, NEW d \in Sides
    PROVE  Idle(T, root, C[d], C[Tree!Other(d)], P, R) <=> Idle(T, root, C[Tree!LEFT], C[Tree!RIGHT], P, R)
<1>2. CASE d = Tree!LEFT /\ Tree!Other(d) = Tree!RIGHT
  BY <1>2
<1>3. CASE d = Tree!RIGHT /\ Tree!Other(d) = Tree!LEFT
  BY <1>3, IdleMirror
<1>. QED
  BY <1>2, <1>3, SidesAre

LEMMA SideFloating ==
    ASSUME NEW T, NEW root, NEW C, NEW P, NEW R, NEW x, NEW d \in Sides
    PROVE  Floating(T, root, C[d], C[Tree!Other(d)], P, R, x) <=> Floating(T, root, C[Tree!LEFT], C[Tree!RIGHT], P, R, x)
<1>2. CASE d = Tree!LEFT /\ Tree!Other(d) = Tree!RIGHT
  BY <1>2
<1>3. CASE d = Tree!RIGHT /\ Tree!Other(d) = Tree!LEFT
  BY <1>3, FloatingMirror
<1>. QED
  BY <1>2, <1>3, SidesAre

LEMMA SideLacking ==
    ASSUME NEW T, NEW root, NEW C, NEW P, NEW R, NEW x, NEW q, NEW d \in Sides
    PROVE  Lacking(T, root, C[d], C[Tree!Other(d)], P, R, x, q) <=> Lacking(T, root, C[Tree!LEFT], C[Tree!RIGHT], P, R, x, q)
<1>2. CASE d = Tree!LEFT /\ Tree!Other(d) = Tree!RIGHT
  BY <1>2
<1>3. CASE d = Tree!RIGHT /\ Tree!Other(d) = Tree!LEFT
  BY <1>3, LackingMirror
<1>. QED
  BY <1>2, <1>3, SidesAre

-----------------------------------------------------------------------------
(* Rotations.                                                              *)

\* The record is a tree of the nodes T at the places pos.
TreeOf(t, T, pos) ==
    /\ t \in TreeRec /\ t.ok /\ T \subseteq Tree!Nodes /\ 0 \notin Tree!Nodes
    /\ Fits(T, t.root, t.child[Tree!LEFT], t.child[Tree!RIGHT], t.parent, pos)

\* the nodes that are not in the tree are left alone
Outside(t, u, T) ==
    \A z \in Node \ T : /\ u.parent[z] = t.parent[z]
                        /\ \A d \in Sides : u.child[d][z] = t.child[d][z]

LEMMA TreeLinks ==
    ASSUME NEW t, NEW T, NEW pos, TreeOf(t, T, pos), NEW d \in Sides
    PROVE  Links(T, t.root, t.child[d], t.child[Tree!Other(d)], t.parent)
BY SideFits, LinksHold DEF TreeOf

LEMMA AllHang ==
    ASSUME NEW t, NEW T, NEW pos, TreeOf(t, T, pos), NEW x \in T
    PROVE  HangsWell(t, x)
<1>1. Links(T, t.root, t.child[Tree!LEFT], t.child[Tree!RIGHT], t.parent)
  BY LinksHold DEF TreeOf
<1>. QED
  BY <1>1 DEF Links, HangsWell

\* What a rotation does.
Rotated(t, u, T, d, e, x, q, g) ==
    /\ u \in TreeRec /\ u.ok /\ u.color = t.color /\ Outside(t, u, T)
    /\ IF e = d
       THEN Lifted(T, t.root, t.child[d], t.child[Tree!Other(d)], t.parent,
                   u.root, u.child[d], u.child[Tree!Other(d)], u.parent, q, g)
       ELSE LiftedTwice(T, t.root, t.child[d], t.child[Tree!Other(d)], t.parent,
                        u.root, u.child[d], u.child[Tree!Other(d)], u.parent, x, q, g)

LEMMA RotateIs ==
    ASSUME NEW t, NEW T, NEW pos, TreeOf(t, T, pos),
           NEW x \in T, NEW q \in T, NEW g \in T, NEW d \in Sides, NEW e \in Sides,
           t.child[d][g] = q, t.child[e][q] = x, NEW u, u = Tree!Rotate(t, x, q, g)
    PROVE  Rotated(t, u, T, d, e, x, q, g)
<1>0. /\ t \in TreeRec /\ t.ok /\ T \subseteq Tree!Nodes /\ 0 \notin Tree!Nodes /\ T \subseteq Node
      /\ x \in Node /\ q \in Node /\ g \in Node
  BY DEF TreeOf, Node
<1>1. \A c \in Sides : Links(T, t.root, t.child[c], t.child[Tree!Other(c)], t.parent)
  BY TreeLinks
<1>2. /\ t.parent[x] = q /\ t.parent[q] = g /\ x # q /\ q # g /\ x # g
      /\ t.child[Tree!Other(d)][g] # q /\ t.child[Tree!Other(e)][q] # x
  <2>1. /\ t.parent[x] = q /\ x # q /\ t.child[Tree!Other(e)][q] # x
    BY <1>0, <1>1 DEF Links
  <2>2. /\ t.parent[q] = g /\ q # g /\ t.child[Tree!Other(d)][g] # q
    BY <1>0, <1>1 DEF Links
  <2>3. x # g
    BY <1>0, <1>1, <2>1, <2>2 DEF Links
  <2>. QED
    BY <2>1, <2>2, <2>3
<1>3. Tree!Side(t, q, g) = d /\ Tree!Side(t, x, q) = e
  BY <1>2, SidesAre DEF Tree!Side
<1>4. Tree!Assert(t, /\ Tree!NULL_ID \notin {x, q, g} /\ q = t.parent[x] /\ g = t.parent[q]) = t
  BY <1>0, <1>2, AssertIs DEF Tree!NULL_ID
<1>5. PICK o \in Sides : o = Tree!Other(d) /\ o # d /\ Tree!Other(o) = d
  BY SidesAre
<1>6. HangsWell(t, g)
  BY AllHang
<1>7. \A c \in Sides : \A z \in T : t.child[c][z] \in T \cup {0} /\ t.child[c][z] \in Node
                                   /\ (t.child[c][z] # 0 => t.parent[t.child[c][z]] = z)
  BY <1>0, <1>1 DEF Links, Node, Tree!NULL_ID
<1>9. /\ \A z \in T : (z = t.root <=> t.parent[z] = 0) /\ t.parent[z] \in T \cup {0}
      /\ Links(T, t.root, t.child[d], t.child[o], t.parent)
  BY <1>1, <1>5 DEF Links
<1>8. \A z \in Node \ T : z # x /\ z # q /\ z # g
  OBVIOUS
<1>10. CASE e = d
  <2>1. PICK t2 : t2 = Tree!Replace(t, g, q)
    OBVIOUS
  <2>2. t2 \in TreeRec /\ InPlace(t, t2, g, q)
    BY <1>0, <1>6, <2>1, ReplaceIs
  <2>3. PICK t3 : t3 = Tree!SetChild(t2, q, g, o)
    OBVIOUS
  <2>4. t3 \in TreeRec /\ HungOn(t2, t3, q, g, o)
    BY <1>0, <2>2, <2>3, SetChildIs
  <2>5. u = Tree!SetChild(t3, g, t.child[o][q], d)
    BY <1>3, <1>4, <1>5, <1>10, <2>1, <2>3 DEF Tree!Rotate, Tree!Outer
  <2>6. PICK y \in T \cup {0} : y = t.child[o][q] /\ y \in Node
    BY <1>7
  <2>7. u \in TreeRec /\ HungOn(t3, u, g, y, d)
    BY <1>0, <2>4, <2>5, <2>6, SetChildIs
  <2>8. y # g /\ y # q /\ y # x /\ (y # 0 => t.parent[y] = q)
    BY <1>0, <1>2, <1>5, <1>9, <1>10, <2>6 DEF Links
  <2>9. u \in TreeRec /\ u.ok /\ u.color = t.color /\ u.root = IF t.root = g THEN q ELSE t.root
    BY <1>0, <2>2, <2>4, <2>7 DEF InPlace, HungOn
  <2>10. ASSUME NEW z \in Node
         PROVE  /\ u.child[d][z] = IF z = g THEN y ELSE t2.child[d][z]
                /\ u.child[o][z] = IF z = q THEN g ELSE t2.child[o][z]
                /\ u.parent[z] = IF z = y /\ y # 0 THEN g ELSE IF z = g THEN q ELSE t2.parent[z]
    BY <1>0, <1>5, <2>4, <2>7 DEF HungOn
  <2>11. ASSUME NEW z \in Node
         PROVE  /\ \A c \in Sides : t2.child[c][z] = IF t.root # g /\ z = t.parent[g] /\ t.child[c][z] = g
                                                     THEN q ELSE t.child[c][z]
                /\ t2.parent[z] = IF z = q THEN t.parent[g] ELSE t.parent[z]
    BY <1>0, <2>2 DEF InPlace
  <2>12. Outside(t, u, T)
    <3>1. ASSUME NEW z \in Node \ T, NEW c \in Sides
          PROVE  u.parent[z] = t.parent[z] /\ u.child[c][z] = t.child[c][z]
      <4>1. z # g /\ z # q /\ z # x /\ ~ (z = y /\ y # 0)
        BY <2>6
      <4>2. z = t.parent[g] => t.root = g
        BY <1>9
      <4>3. c = d \/ c = o
        BY <1>5, SidesAre
      <4>. QED
        BY <2>10, <2>11, <4>1, <4>2, <4>3
    <3>. QED
      BY <3>1 DEF Outside
  <2>13. Lifted(T, t.root, t.child[d], t.child[o], t.parent, u.root, u.child[d], u.child[o], u.parent, q, g)
    <3>1. ASSUME NEW z \in T, NEW c \in Sides
          PROVE  t2.child[c][z] = IF t.child[c][z] = g THEN q ELSE t.child[c][z]
      BY <1>0, <1>7, <1>9, <2>11
    <3>2. ASSUME NEW z \in T
          PROVE  /\ u.child[d][z] = IF z = g THEN y ELSE IF t.child[d][z] = g THEN q ELSE t.child[d][z]
                 /\ u.child[o][z] = IF z = q THEN g ELSE IF t.child[o][z] = g THEN q ELSE t.child[o][z]
                 /\ u.parent[z] = IF z = q THEN t.parent[g] ELSE IF z = g THEN q
                                  ELSE IF z = y THEN g ELSE t.parent[z]
      <4>1. z # 0 /\ z \in Node
        BY <1>0
      <4>. QED
        BY <2>8, <2>10, <2>11, <3>1, <4>1, <1>5, <1>2
    <3>. QED
      BY <2>6, <2>9, <3>2 DEF Lifted
  <2>. QED
    BY <1>5, <1>10, <2>9, <2>12, <2>13 DEF Rotated
<1>11. CASE e # d
  <2>0. e = o /\ Tree!Other(e) = d
    BY <1>5, <1>11, SidesAre
  <2>1. PICK t2 : t2 = Tree!Replace(t, g, x)
    OBVIOUS
  <2>2. t2 \in TreeRec /\ InPlace(t, t2, g, x)
    BY <1>0, <1>6, <2>1, ReplaceIs
  <2>3. PICK t3 : t3 = Tree!SetChild(t2, x, q, d)
    OBVIOUS
  <2>4. t3 \in TreeRec /\ HungOn(t2, t3, x, q, d)
    BY <1>0, <2>2, <2>3, SetChildIs
  <2>5. PICK t4 : t4 = Tree!SetChild(t3, x, g, o)
    OBVIOUS
  <2>6. t4 \in TreeRec /\ HungOn(t3, t4, x, g, o)
    BY <1>0, <2>4, <2>5, SetChildIs
  <2>7. PICK y \in T \cup {0}, v \in T \cup {0} :
           y = t.child[d][x] /\ v = t.child[o][x] /\ y \in Node /\ v \in Node
    BY <1>7
  <2>8. PICK t5 : t5 = Tree!SetChild(t4, q, y, o)
    OBVIOUS
  <2>9. t5 \in TreeRec /\ HungOn(t4, t5, q, y, o)
    BY <1>0, <2>6, <2>7, <2>8, SetChildIs
  <2>10. u = Tree!SetChild(t5, g, v, d)
    BY <1>3, <1>4, <1>5, <1>11, <2>1, <2>3, <2>5, <2>7, <2>8 DEF Tree!Rotate, Tree!Outer
  <2>11. u \in TreeRec /\ HungOn(t5, u, g, v, d)
    BY <1>0, <2>7, <2>9, <2>10, SetChildIs
  <2>12. /\ y \notin {x, q, g} /\ v \notin {x, q, g} /\ (y # 0 => t.parent[y] = x) /\ (v # 0 => t.parent[v] = x)
         /\ (y = v => y = 0)
    <3>1. y # x /\ v # x /\ (y # 0 => t.parent[y] = x) /\ (v # 0 => t.parent[v] = x) /\ (y = v => y = 0)
      BY <1>9, <2>7 DEF Links
    <3>2. y # q /\ v # q
      BY <1>0, <1>2, <3>1
    <3>3. y # g /\ v # g
      BY <1>0, <1>2, <1>9, <3>1 DEF Links
    <3>. QED
      BY <3>1, <3>2, <3>3
  <2>13. u \in TreeRec /\ u.ok /\ u.color = t.color /\ u.root = IF t.root = g THEN x ELSE t.root
    BY <1>0, <2>2, <2>4, <2>6, <2>9, <2>11 DEF InPlace, HungOn
  <2>14. ASSUME NEW z \in Node
         PROVE  /\ u.child[d][z] = IF z = g THEN v ELSE IF z = x THEN q ELSE t2.child[d][z]
                /\ u.child[o][z] = IF z = q THEN y ELSE IF z = x THEN g ELSE t2.child[o][z]
                /\ u.parent[z] = IF z = v /\ v # 0 THEN g ELSE IF z = y /\ y # 0 THEN q
                                 ELSE IF z = g \/ z = q THEN x ELSE t2.parent[z]
    <3>1. x # 0 /\ q # 0 /\ g # 0
      BY <1>0
    <3>2. /\ u.child[d][z] = IF z = g THEN v ELSE t5.child[d][z]
          /\ u.child[o][z] = t5.child[o][z]
          /\ u.parent[z] = IF z = v /\ v # 0 THEN g ELSE t5.parent[z]
      BY <1>5, <2>11, <3>1 DEF HungOn
    <3>3. /\ t5.child[d][z] = t4.child[d][z]
          /\ t5.child[o][z] = IF z = q THEN y ELSE t4.child[o][z]
          /\ t5.parent[z] = IF z = y /\ y # 0 THEN q ELSE t4.parent[z]
      BY <1>5, <2>9, <3>1 DEF HungOn
    <3>4. /\ t4.child[d][z] = t3.child[d][z]
          /\ t4.child[o][z] = IF z = x THEN g ELSE t3.child[o][z]
          /\ t4.parent[z] = IF z = g THEN x ELSE t3.parent[z]
      BY <1>5, <2>6, <3>1 DEF HungOn
    <3>5. /\ t3.child[d][z] = IF z = x THEN q ELSE t2.child[d][z]
          /\ t3.child[o][z] = t2.child[o][z]
          /\ t3.parent[z] = IF z = q THEN x ELSE t2.parent[z]
      BY <1>5, <2>4, <3>1 DEF HungOn
    <3>. QED
      BY <3>2, <3>3, <3>4, <3>5
  <2>15. ASSUME NEW z \in Node
         PROVE  /\ \A c \in Sides : t2.child[c][z] = IF t.root # g /\ z = t.parent[g] /\ t.child[c][z] = g
                                                     THEN x ELSE t.child[c][z]
                /\ t2.parent[z] = IF z = x THEN t.parent[g] ELSE t.parent[z]
    BY <1>0, <2>2 DEF InPlace
  <2>16. Outside(t, u, T)
    <3>1. ASSUME NEW z \in Node \ T, NEW c \in Sides
          PROVE  u.parent[z] = t.parent[z] /\ u.child[c][z] = t.child[c][z]
      <4>1. z # g /\ z # q /\ z # x /\ ~ (z = y /\ y # 0) /\ ~ (z = v /\ v # 0)
        BY <2>7
      <4>2. z = t.parent[g] => t.root = g
        BY <1>9
      <4>3. c = d \/ c = o
        BY <1>5, SidesAre
      <4>. QED
        BY <2>14, <2>15, <4>1, <4>2, <4>3
    <3>. QED
      BY <3>1 DEF Outside
  <2>17. LiftedTwice(T, t.root, t.child[d], t.child[o], t.parent, u.root, u.child[d], u.child[o], u.parent, x, q, g)
    <3>1. ASSUME NEW z \in T, NEW c \in Sides
          PROVE  t2.child[c][z] = IF t.child[c][z] = g THEN x ELSE t.child[c][z]
      BY <1>0, <1>7, <1>9, <2>15
    <3>2. ASSUME NEW z \in T
          PROVE  /\ u.child[d][z] = IF z = g THEN v ELSE IF z = x THEN q
                                    ELSE IF t.child[d][z] = g THEN x ELSE t.child[d][z]
                 /\ u.child[o][z] = IF z = q THEN y ELSE IF z = x THEN g
                                    ELSE IF t.child[o][z] = g THEN x ELSE t.child[o][z]
                 /\ u.parent[z] = IF z = x THEN t.parent[g] ELSE IF z = q \/ z = g THEN x
                                  ELSE IF z = y THEN q ELSE IF z = v THEN g ELSE t.parent[z]
      <4>1. z # 0 /\ z \in Node
        BY <1>0
      <4>. QED
        BY <2>12, <2>14, <2>15, <3>1, <4>1, <1>5, <1>2
    <3>. QED
      BY <2>7, <2>13, <3>2 DEF LiftedTwice
  <2>. QED
    BY <1>5, <1>11, <2>13, <2>16, <2>17 DEF Rotated
<1>. QED
  BY <1>10, <1>11

-----------------------------------------------------------------------------
(* A node changes places with its successor.                               *)

\* nothing hangs at the nodes that are not in the tree
Clear(t, T) ==
    \A z \in Node \ T : /\ t.child[Tree!LEFT][z] = 0 /\ t.child[Tree!RIGHT][z] = 0
                        /\ t.parent[z] = 0 /\ t.color[z] = Tree!BLACK

\* s is the next node after x
IsNext(t, T, pos, x, s) ==
    /\ s \in T /\ s # x /\ pos[s] = pos[x] + 1 /\ t.child[Tree!LEFT][s] = 0 /\ t.child[Tree!LEFT][x] # s
    /\ t.parent[x] # s
    /\ \/ s = t.child[Tree!RIGHT][x] /\ t.parent[s] = x
       \/ /\ s # t.child[Tree!RIGHT][x]
          /\ t.parent[s] \in T \ {x, s} /\ t.child[Tree!LEFT][t.parent[s]] = s

LEMMA LeftMostIs ==
    ASSUME NEW t, NEW T, NEW pos, TreeOf(t, T, pos), Clear(t, T), NEW x \in T, t.child[Tree!RIGHT][x] # 0
    PROVE  IsNext(t, T, pos, x, Tree!LeftMost(t, t.child[Tree!RIGHT][x]))
<1>. DEFINE A == t.child[Tree!LEFT]
            B == t.child[Tree!RIGHT]
            P == t.parent
            Eq(f) == f = [r \in Tree!Nodes |-> IF A[r] = Tree!NULL_ID THEN r ELSE f[A[r]]]
            left == CHOOSE f : Eq(f)
<1>1. Fits(T, t.root, A, B, P, pos) /\ T \subseteq Tree!Nodes /\ 0 \notin Tree!Nodes
  BY DEF TreeOf
<1>2. \A z \in Tree!Nodes \ T : A[z] = 0
  BY DEF Clear, Node
<1>3. \E f : f = [r \in Tree!Nodes |-> IF A[r] = 0 THEN r ELSE f[A[r]]]
  <2>. HIDE DEF A, B, P
  <2>. QED
    BY <1>1, <1>2, LeftmostExists
<1>4. \E f : Eq(f)
  BY <1>3 DEF Tree!NULL_ID
<1>5. Eq(left)
  <2>. HIDE DEF Eq
  <2>. QED
    BY <1>4, Zenon
<1>6. Tree!LeftMost(t, B[x]) = left[B[x]]
  BY Zenon DEF Tree!LeftMost
<1>. HIDE DEF left
<1>7. \A r \in T : left[r] = IF A[r] = 0 THEN r ELSE left[A[r]]
  BY <1>1, <1>5 DEF Tree!NULL_ID
<1>8. PICK s : s = left[B[x]]
  OBVIOUS
<1>. HIDE DEF A, B, P
<1>9. /\ s \in T /\ A[s] = 0 /\ s # x /\ pos[s] = pos[x] + 1 /\ A[x] # s
      /\ \/ s = B[x] /\ P[s] = x
         \/ s # B[x] /\ P[s] \in T \ {x, s} /\ A[P[s]] = s
  <2>1. B[x] # 0
    BY DEF B
  <2>. QED
    BY <1>1, <1>7, <1>8, <2>1, LeftmostIs
<1>10. P[x] # s
  <2>. SUFFICES ASSUME P[x] = s PROVE FALSE
    OBVIOUS
  <2>1. s # 0 /\ (A[s] = x \/ B[s] = x)
    BY <1>1, <1>9, LinksHold DEF Links
  <2>2. B[s] = x /\ x # 0
    BY <1>1, <1>9, <2>1
  <2>3. pos \in [T -> Int] /\ pos[s] < pos[x]
    BY <1>1, <1>9, <2>2, ChildPlaces
  <2>. QED
    BY <1>9, <2>3
<1>. QED
  BY <1>6, <1>8, <1>9, <1>10 DEF IsNext, A, B, P

\* What changing the places of x and s does.
Swapped(t, u, T, x, s) ==
    /\ u \in TreeRec /\ u.ok /\ Outside(t, u, T)
    /\ Exchanged(T, t.root, t.child[Tree!LEFT], t.child[Tree!RIGHT], t.parent,
                 u.root, u.child[Tree!LEFT], u.child[Tree!RIGHT], u.parent, x, s)

\* What there is at the two nodes and around.
LEMMA SwapNeighbours ==
    ASSUME NEW t, NEW T, NEW pos, TreeOf(t, T, pos), NEW x \in T, Tree!HasTwoChildren(t, x),
           NEW s, IsNext(t, T, pos, x, s)
    PROVE  /\ t \in TreeRec /\ t.ok /\ T \subseteq Node /\ x \in Node /\ s \in Node /\ 0 \notin T /\ s \in T
           /\ x # s /\ x # 0 /\ s # 0 /\ t.child[Tree!LEFT][s] = 0
           /\ t.child[Tree!LEFT][x] \in T /\ t.child[Tree!RIGHT][x] \in T /\ t.child[Tree!RIGHT][s] \in T \cup {0}
           /\ t.child[Tree!LEFT][x] \notin {x, s, t.child[Tree!RIGHT][x], t.child[Tree!RIGHT][s]}
           /\ t.child[Tree!RIGHT][s] \notin {x, s, t.child[Tree!RIGHT][x]} /\ t.child[Tree!RIGHT][x] # x
           /\ t.parent[x] \in T \cup {0} /\ t.parent[x] \notin {x, s}
           /\ t.parent[t.child[Tree!LEFT][x]] = x /\ t.parent[t.child[Tree!RIGHT][x]] = x
           /\ t.child[Tree!RIGHT][s] # 0 => t.parent[t.child[Tree!RIGHT][s]] = s
           /\ \A z \in T : /\ t.child[Tree!LEFT][z] = x \/ t.child[Tree!RIGHT][z] = x => t.root # x /\ z = t.parent[x]
                           /\ t.parent[z] = x => z = t.child[Tree!LEFT][x] \/ z = t.child[Tree!RIGHT][x]
                           /\ t.parent[z] = s => z = t.child[Tree!RIGHT][s]
                           /\ t.parent[z] \in T \cup {0} /\ (t.root = z <=> t.parent[z] = 0)
                           /\ t.child[Tree!LEFT][z] \in T \cup {0} /\ t.child[Tree!RIGHT][z] \in T \cup {0}
                           /\ t.child[Tree!RIGHT][z] = s => z = x /\ s = t.child[Tree!RIGHT][x]
                           /\ t.child[Tree!LEFT][z] = s => z = t.parent[s] /\ s # t.child[Tree!RIGHT][x]
<1>0. /\ t \in TreeRec /\ t.ok /\ T \subseteq Tree!Nodes /\ 0 \notin Tree!Nodes /\ T \subseteq Node
  BY DEF TreeOf, Node
<1>1. Links(T, t.root, t.child[Tree!LEFT], t.child[Tree!RIGHT], t.parent)
  BY LinksHold DEF TreeOf
<1>2. PICK A, B, P, root : A = t.child[Tree!LEFT] /\ B = t.child[Tree!RIGHT] /\ P = t.parent /\ root = t.root
  OBVIOUS
<1>3. Links(T, root, A, B, P) /\ A[x] # 0 /\ B[x] # 0
  BY <1>1, <1>2 DEF Tree!HasTwoChildren, Tree!NULL_ID
<1>4. /\ s \in T /\ s # x /\ A[s] = 0 /\ A[x] # s /\ P[x] # s
      /\ \/ s = B[x] /\ P[s] = x
         \/ s # B[x] /\ P[s] \in T \ {x, s} /\ A[P[s]] = s
  BY <1>2 DEF IsNext
<1>5. /\ x \in Node /\ s \in Node /\ 0 \notin T /\ x # 0 /\ s # 0
  BY <1>0, <1>4
<1>6. /\ A[x] \in T /\ B[x] \in T /\ B[s] \in T \cup {0} /\ A[x] # x /\ B[x] # x /\ A[x] # B[x]
      /\ P[A[x]] = x /\ P[B[x]] = x /\ (B[s] # 0 => P[B[s]] = s) /\ B[s] # s
      /\ P[x] \in T \cup {0} /\ P[x] # x
  BY <1>3, <1>4, <1>5 DEF Links
<1>7. A[x] # B[s] /\ B[s] # x /\ B[s] # B[x]
  BY <1>4, <1>5, <1>6
<1>8. ASSUME NEW z \in T
      PROVE  /\ A[z] = x \/ B[z] = x => root # x /\ z = P[x]
             /\ P[z] = x => z = A[x] \/ z = B[x]
             /\ P[z] = s => z = B[s]
             /\ P[z] \in T \cup {0} /\ (root = z <=> P[z] = 0)
             /\ A[z] \in T \cup {0} /\ B[z] \in T \cup {0}
  BY <1>3, <1>4, <1>5 DEF Links
<1>9. ASSUME NEW z \in T
      PROVE  /\ B[z] = s => z = x /\ s = B[x]
             /\ A[z] = s => z = P[s] /\ s # B[x]
  <2>1. A[z] = s \/ B[z] = s => z = P[s]
    BY <1>3, <1>5 DEF Links
  <2>2. A[z] = B[z] => A[z] = 0
    BY <1>3 DEF Links
  <2>. QED
    BY <1>4, <1>5, <2>1, <2>2
<1>. QED
  BY <1>0, <1>2, <1>4, <1>5, <1>6, <1>7, <1>8, <1>9

\* x hangs as well after a change away from it and its parent.
LEMMA StillHangs ==
    ASSUME NEW t, NEW v, NEW x, HangsWell(t, x), v.root = t.root, v.parent[x] = t.parent[x],
           t.root # x => \A d \in Sides : v.child[d][t.parent[x]] = t.child[d][t.parent[x]]
    PROVE  HangsWell(v, x)
BY SidesAre DEF HangsWell

\* the pointers when the successor s of x is its right child, and when it is not
Adjacent(t, x, s) ==
    Tree!SetChild(Tree!SetChild(Tree!SetChild(Tree!SetChild(
        Tree!Replace(Tree!SetParent([t EXCEPT !.child[Tree!RIGHT][x] = Tree!NULL_ID], s, Tree!NULL_ID), x, s),
        s, t.child[Tree!LEFT][x], Tree!LEFT), x, t.child[Tree!RIGHT][s], Tree!RIGHT), x, Tree!NULL_ID, Tree!LEFT), s, x, Tree!RIGHT)

Remote(t, x, s) ==
    Tree!SetChild(Tree!Replace(Tree!SetChild(Tree!SetChild(Tree!SetChild(Tree!SetChild(t, x, t.child[Tree!RIGHT][s], Tree!RIGHT), x, Tree!NULL_ID, Tree!LEFT),
                                       s, t.child[Tree!LEFT][x], Tree!LEFT), s, t.child[Tree!RIGHT][x], Tree!RIGHT), x, s),
             t.parent[s], x, Tree!LEFT)

LEMMA SwapIsEither ==
    ASSUME NEW t, NEW x, NEW s, s = Tree!LeftMost(t, t.child[Tree!RIGHT][x]),
           NEW v, v = IF s = t.child[Tree!RIGHT][x] THEN Adjacent(t, x, s) ELSE Remote(t, x, s)
    PROVE  Tree!SwapWithSuccessor(t, x) = IF is_rbt THEN Tree!SwapColors(v, x, s) ELSE v
BY SMTT(30) DEF Tree!SwapWithSuccessor, Adjacent, Remote

LEMMA AdjacentSwapped ==
    ASSUME NEW t, NEW T, NEW pos, TreeOf(t, T, pos), NEW x \in T, Tree!HasTwoChildren(t, x),
           NEW s, IsNext(t, T, pos, x, s), s = t.child[Tree!RIGHT][x],
           NEW v, v = Adjacent(t, x, s)
    PROVE  Swapped(t, v, T, x, s) /\ v.color = t.color
<1>. DEFINE A == t.child[Tree!LEFT]
            B == t.child[Tree!RIGHT]
            P == t.parent
<1>0. /\ t \in TreeRec /\ t.ok /\ T \subseteq Node /\ x \in Node /\ s \in Node /\ 0 \notin T /\ s \in T
      /\ x # s /\ x # 0 /\ s # 0 /\ A[s] = 0
      /\ A[x] \in T /\ B[s] \in T \cup {0} /\ P[s] = x
      /\ A[x] \notin {x, s, B[s]} /\ B[s] \notin {x, s}
      /\ P[x] \in T \cup {0} /\ P[x] \notin {x, s} /\ P[A[x]] = x /\ (B[s] # 0 => P[B[s]] = s)
      /\ 0 \in Node /\ 0 \notin Tree!Nodes /\ x \in Tree!Nodes
  <2>1. T \subseteq Tree!Nodes /\ 0 \notin Tree!Nodes /\ 0 \in Node
    BY DEF Node, Tree!NULL_ID, TreeOf
  <2>. QED
    BY <2>1, SwapNeighbours
<1>. HIDE DEF A, B, P
<1>1. ASSUME NEW z \in T
      PROVE  /\ A[z] = x \/ B[z] = x => t.root # x /\ z = P[x]
             /\ P[z] = x => z = A[x] \/ z = s
             /\ P[z] = s => z = B[s]
             /\ P[z] \in T \cup {0} /\ (t.root = z <=> P[z] = 0)
             /\ B[z] = s => z = x
             /\ A[z] # s
  BY SwapNeighbours DEF A, B, P
<1>2. HangsWell(t, x)
  BY AllHang
<1>3. PICK v0 : v0 = [t EXCEPT !.child[Tree!RIGHT][x] = Tree!NULL_ID]
  OBVIOUS
<1>4. /\ v0 \in TreeRec /\ v0.root = t.root /\ v0.ok /\ v0.color = t.color /\ v0.parent = P
      /\ \A z \in Node : /\ v0.child[Tree!LEFT][z] = A[z]
                         /\ v0.child[Tree!RIGHT][z] = IF z = x THEN 0 ELSE B[z]
  BY <1>0, <1>3, SidesAre DEF TreeRec, Tree!NULL_ID, A, B, P
<1>5. PICK v1 : v1 = Tree!SetParent(v0, s, 0)
  OBVIOUS
<1>6. GivenParent(v0, v1, s, 0)
  BY <1>0, <1>4, <1>5, SetParentIs
<1>7. /\ v1 \in TreeRec /\ v1.root = t.root /\ v1.ok /\ v1.color = t.color
      /\ \A z \in Node : /\ v1.child[Tree!LEFT][z] = A[z]
                         /\ v1.child[Tree!RIGHT][z] = IF z = x THEN 0 ELSE B[z]
                         /\ v1.parent[z] = IF z = s THEN 0 ELSE P[z]
  BY <1>0, <1>4, <1>6 DEF GivenParent
<1>8. HangsWell(v1, x)
  <2>1. P[x] \in Node
    BY <1>0
  <2>2. \A d \in Sides : v1.child[d][P[x]] = t.child[d][P[x]]
    BY <1>0, <1>7, <2>1, SidesAre DEF Sides, A, B
  <2>. QED
    BY <1>0, <1>2, <1>7, <2>2, StillHangs DEF P
<1>9. PICK t1 : t1 = Tree!Replace(v1, x, s)
  OBVIOUS
<1>10. t1 \in TreeRec /\ InPlace(v1, t1, x, s)
  BY <1>0, <1>7, <1>8, <1>9, ReplaceIs
<1>11. /\ t1.root = (IF t.root = x THEN s ELSE t.root) /\ t1.ok /\ t1.color = t.color
       /\ \A z \in Node :
             /\ t1.child[Tree!LEFT][z] = IF t.root # x /\ z = P[x] /\ A[z] = x THEN s ELSE A[z]
             /\ t1.child[Tree!RIGHT][z] = IF z = x THEN 0 ELSE IF t.root # x /\ z = P[x] /\ B[z] = x THEN s ELSE B[z]
             /\ t1.parent[z] = IF z = s THEN P[x] ELSE P[z]
  BY <1>0, <1>7, <1>10, SidesAre DEF InPlace
<1>12. PICK l \in T, r \in T \cup {0} : l = A[x] /\ r = B[s] /\ l \in Node /\ r \in Node
  BY <1>0
<1>13. PICK t2, t3, t4 : /\ t2 = Tree!SetChild(t1, s, l, Tree!LEFT) /\ t3 = Tree!SetChild(t2, x, r, Tree!RIGHT)
                         /\ t4 = Tree!SetChild(t3, x, 0, Tree!LEFT)
  OBVIOUS
<1>14. v = Tree!SetChild(t4, s, x, Tree!RIGHT)
  BY <1>3, <1>5, <1>9, <1>12, <1>13 DEF Tree!NULL_ID, A, B, Adjacent
<1>a. x \in Node /\ s \in Node /\ 0 \in Node /\ Tree!LEFT \in Sides /\ Tree!RIGHT \in Sides
  BY <1>0, SidesAre
<1>15. t2 \in TreeRec /\ HungOn(t1, t2, s, l, Tree!LEFT)
  BY ONLY <1>a, <1>10, <1>12, <1>13, SetChildIs, Zenon
<1>16. t3 \in TreeRec /\ HungOn(t2, t3, x, r, Tree!RIGHT)
  BY ONLY <1>a, <1>12, <1>13, <1>15, SetChildIs, Zenon
<1>17. t4 \in TreeRec /\ HungOn(t3, t4, x, 0, Tree!LEFT)
  BY ONLY <1>a, <1>13, <1>16, SetChildIs, Zenon
<1>18. v \in TreeRec /\ HungOn(t4, v, s, x, Tree!RIGHT)
  BY ONLY <1>a, <1>14, <1>17, SetChildIs, Zenon
<1>19. v.root = t1.root /\ v.ok /\ v.color = t.color
  BY <1>11, <1>15, <1>16, <1>17, <1>18 DEF HungOn
<1>20. ASSUME NEW z \in Node
       PROVE  /\ v.child[Tree!LEFT][z] = IF z = x THEN 0 ELSE IF z = s THEN l ELSE t1.child[Tree!LEFT][z]
              /\ v.child[Tree!RIGHT][z] = IF z = s THEN x ELSE IF z = x THEN r ELSE t1.child[Tree!RIGHT][z]
              /\ v.parent[z] = IF z = x THEN s ELSE IF z = r /\ r # 0 THEN x
                               ELSE IF z = l THEN s ELSE t1.parent[z]
  <2>1. /\ t2.child[Tree!LEFT][z] = IF z = s THEN l ELSE t1.child[Tree!LEFT][z]
        /\ t2.child[Tree!RIGHT][z] = t1.child[Tree!RIGHT][z]
        /\ t2.parent[z] = IF z = l THEN s ELSE t1.parent[z]
    BY <1>0, <1>15, <1>12, SidesAre DEF HungOn
  <2>2. /\ t3.child[Tree!LEFT][z] = t2.child[Tree!LEFT][z]
        /\ t3.child[Tree!RIGHT][z] = IF z = x THEN r ELSE t2.child[Tree!RIGHT][z]
        /\ t3.parent[z] = IF z = r /\ r # 0 THEN x ELSE t2.parent[z]
    BY <1>0, <1>16, SidesAre DEF HungOn
  <2>3. /\ t4.child[Tree!LEFT][z] = IF z = x THEN 0 ELSE t3.child[Tree!LEFT][z]
        /\ t4.child[Tree!RIGHT][z] = t3.child[Tree!RIGHT][z]
        /\ t4.parent[z] = t3.parent[z]
    BY <1>0, <1>17, SidesAre DEF HungOn
  <2>4. /\ v.child[Tree!LEFT][z] = t4.child[Tree!LEFT][z]
        /\ v.child[Tree!RIGHT][z] = IF z = s THEN x ELSE t4.child[Tree!RIGHT][z]
        /\ v.parent[z] = IF z = x THEN s ELSE t4.parent[z]
    BY <1>0, <1>18, SidesAre DEF HungOn
  <2>. QED
    BY <2>1, <2>2, <2>3, <2>4
<1>21. ASSUME NEW z \in T
       PROVE  /\ v.child[Tree!LEFT][z] = Swap(A[Swap(z, x, s)], x, s)
              /\ v.child[Tree!RIGHT][z] = Swap(B[Swap(z, x, s)], x, s)
              /\ v.parent[z] = Swap(P[Swap(z, x, s)], x, s)
  <2>0. z \in Node /\ z # 0
    BY <1>0
  <2>4. s = B[x]
    BY DEF B
  <2>1. /\ v.child[Tree!LEFT][z] = IF z = x THEN 0 ELSE IF z = s THEN l ELSE
              IF t.root # x /\ z = P[x] /\ A[z] = x THEN s ELSE A[z]
        /\ v.child[Tree!RIGHT][z] = IF z = s THEN x ELSE IF z = x THEN r ELSE
              IF t.root # x /\ z = P[x] /\ B[z] = x THEN s ELSE B[z]
        /\ v.parent[z] = IF z = x THEN s ELSE IF z = r /\ r # 0 THEN x ELSE
              IF z = l THEN s ELSE IF z = s THEN P[x] ELSE P[z]
    BY ONLY <1>11, <1>20, <2>0
  <2>2. CASE z = x
    <3>1. Swap(z, x, s) = s /\ A[s] = 0 /\ P[s] = x /\ B[s] = r /\ r \notin {x, s} /\ x # 0 /\ s # 0 /\ x # s
      BY ONLY <1>0, <1>12, <2>2 DEF Swap
    <3>. QED
      BY ONLY <2>1, <2>2, <3>1 DEF Swap
  <2>3. CASE z = s
    <3>1. Swap(z, x, s) = x /\ A[x] = l /\ B[x] = s /\ l \notin {x, s} /\ r # s /\ P[x] \notin {x, s} /\ x # s
      BY ONLY <1>0, <1>12, <2>3, <2>4 DEF Swap
    <3>. QED
      BY ONLY <2>1, <2>3, <3>1 DEF Swap
  <2>5. CASE z # x /\ z # s
    <3>1. Swap(z, x, s) = z
      BY ONLY <2>5 DEF Swap
    <3>2. /\ A[z] # s /\ (A[z] = x => t.root # x /\ z = P[x])
          /\ B[z] # s /\ (B[z] = x => t.root # x /\ z = P[x])
      BY ONLY <1>1, <2>5, z \in T
    <3>3. v.child[Tree!LEFT][z] = Swap(A[z], x, s)
      BY ONLY <2>1, <2>5, <3>2 DEF Swap
    <3>4. v.child[Tree!RIGHT][z] = Swap(B[z], x, s)
      BY ONLY <2>1, <2>5, <3>2 DEF Swap
    <3>5. /\ P[l] = x /\ (r # 0 => P[r] = s) /\ l # r
          /\ (P[z] = x => z = l) /\ (P[z] = s => z = r) /\ z # 0 /\ x # s
      BY ONLY <1>0, <1>1, <1>12, <2>0, <2>5, z \in T
    <3>6. v.parent[z] = Swap(P[z], x, s)
      BY ONLY <2>1, <2>5, <3>5 DEF Swap
    <3>. QED
      BY ONLY <3>1, <3>3, <3>4, <3>6
  <2>. QED
    BY ONLY <2>2, <2>3, <2>5
<1>22. v.root = Swap(t.root, x, s)
  BY <1>0, <1>1, <1>11, <1>19 DEF Swap
<1>23. Outside(t, v, T)
  <2>1. ASSUME NEW z \in Node \ T
        PROVE  v.parent[z] = P[z] /\ v.child[Tree!LEFT][z] = A[z] /\ v.child[Tree!RIGHT][z] = B[z]
    <3>1. z # x /\ z # s /\ z # l /\ ~(z = r /\ r # 0)
      BY <1>0
    <3>2. t.root # x => z # P[x]
      BY <1>0, <1>1
    <3>. QED
      BY <1>11, <1>20, <3>1, <3>2
  <2>. QED
    BY <2>1 DEF Outside, A, B, P, Sides
<1>. QED
  BY <1>18, <1>19, <1>21, <1>22, <1>23 DEF Swapped, Exchanged, A, B, P

\* The successor is further below.
LEMMA RemoteSwapped ==
    ASSUME NEW t, NEW T, NEW pos, TreeOf(t, T, pos), NEW x \in T, Tree!HasTwoChildren(t, x),
           NEW s, IsNext(t, T, pos, x, s), s # t.child[Tree!RIGHT][x],
           NEW v, v = Remote(t, x, s)
    PROVE  Swapped(t, v, T, x, s) /\ v.color = t.color
<1>. DEFINE A == t.child[Tree!LEFT]
            B == t.child[Tree!RIGHT]
            P == t.parent
<1>0. /\ t \in TreeRec /\ t.ok /\ T \subseteq Node /\ x \in Node /\ s \in Node /\ 0 \notin T /\ s \in T
      /\ x # s /\ x # 0 /\ s # 0 /\ A[s] = 0 /\ s # B[x]
      /\ A[x] \in T /\ B[x] \in T /\ B[s] \in T \cup {0} /\ P[s] \in T \ {x, s} /\ A[P[s]] = s
      /\ A[x] \notin {x, s, B[x], B[s]} /\ B[s] \notin {x, s, B[x]} /\ B[x] # x
      /\ P[x] \in T \cup {0} /\ P[x] \notin {x, s}
      /\ P[A[x]] = x /\ P[B[x]] = x /\ (B[s] # 0 => P[B[s]] = s)
      /\ 0 \in Node /\ 0 \notin Tree!Nodes /\ x \in Tree!Nodes
  <2>1. T \subseteq Tree!Nodes /\ 0 \notin Tree!Nodes /\ 0 \in Node
    BY DEF Node, Tree!NULL_ID, TreeOf
  <2>2. P[s] \in T \ {x, s} /\ A[P[s]] = s
    BY DEF IsNext
  <2>. QED
    BY <2>1, <2>2, SwapNeighbours
<1>. HIDE DEF A, B, P
<1>1. ASSUME NEW z \in T
      PROVE  /\ A[z] = x \/ B[z] = x => t.root # x /\ z = P[x]
             /\ P[z] = x => z = A[x] \/ z = B[x]
             /\ P[z] = s => z = B[s]
             /\ P[z] \in T \cup {0} /\ (t.root = z <=> P[z] = 0)
             /\ B[z] # s
             /\ A[z] = s => z = P[s]
  <2>1. s # B[x]
    BY <1>0
  <2>. QED
    BY <2>1, SwapNeighbours DEF A, B, P
<1>2. HangsWell(t, x)
  BY AllHang
<1>3. PICK l \in T, m \in T, r \in T \cup {0}, q \in T \ {x, s} :
         l = A[x] /\ m = B[x] /\ r = B[s] /\ q = P[s] /\ l \in Node /\ m \in Node /\ r \in Node /\ q \in Node
  BY <1>0
<1>4. PICK t1, t2, t3, t4, t5 :
         /\ t1 = Tree!SetChild(t, x, r, Tree!RIGHT) /\ t2 = Tree!SetChild(t1, x, 0, Tree!LEFT)
         /\ t3 = Tree!SetChild(t2, s, l, Tree!LEFT) /\ t4 = Tree!SetChild(t3, s, m, Tree!RIGHT)
         /\ t5 = Tree!Replace(t4, x, s)
  OBVIOUS
<1>5. v = Tree!SetChild(t5, q, x, Tree!LEFT)
  BY <1>3, <1>4 DEF Tree!NULL_ID, A, B, P, Remote
<1>6. t1 \in TreeRec /\ HungOn(t, t1, x, r, Tree!RIGHT)
  BY <1>0, <1>3, <1>4, SetChildIs, SidesAre
<1>7. t2 \in TreeRec /\ HungOn(t1, t2, x, 0, Tree!LEFT)
  BY <1>0, <1>4, <1>6, SetChildIs, SidesAre
<1>8. t3 \in TreeRec /\ HungOn(t2, t3, s, l, Tree!LEFT)
  BY <1>0, <1>3, <1>4, <1>7, SetChildIs, SidesAre
<1>9. t4 \in TreeRec /\ HungOn(t3, t4, s, m, Tree!RIGHT)
  <2>1. s \in Node /\ m \in Node /\ Tree!RIGHT \in Sides /\ t3 \in TreeRec /\ t4 = Tree!SetChild(t3, s, m, Tree!RIGHT)
    BY <1>0, <1>3, <1>4, <1>8, SidesAre
  <2>. QED
    BY ONLY <2>1, SetChildIs
<1>10. t4.root = t.root /\ t4.ok = t.ok /\ t4.color = t.color
  <2>1. t1.root = t.root /\ t1.ok = t.ok /\ t1.color = t.color
    BY <1>6 DEF HungOn
  <2>2. t2.root = t1.root /\ t2.ok = t1.ok /\ t2.color = t1.color
    BY <1>7 DEF HungOn
  <2>3. t3.root = t2.root /\ t3.ok = t2.ok /\ t3.color = t2.color
    BY <1>8 DEF HungOn
  <2>4. t4.root = t3.root /\ t4.ok = t3.ok /\ t4.color = t3.color
    BY <1>9 DEF HungOn
  <2>. QED
    BY <2>1, <2>2, <2>3, <2>4
<1>11. ASSUME NEW z \in Node
       PROVE  /\ t4.child[Tree!LEFT][z] = IF z = x THEN 0 ELSE IF z = s THEN l ELSE A[z]
              /\ t4.child[Tree!RIGHT][z] = IF z = s THEN m ELSE IF z = x THEN r ELSE B[z]
              /\ t4.parent[z] = IF z = m \/ z = l THEN s ELSE IF z = r /\ r # 0 THEN x ELSE P[z]
  <2>1. /\ t1.child[Tree!LEFT][z] = A[z]
        /\ t1.child[Tree!RIGHT][z] = IF z = x THEN r ELSE B[z]
        /\ t1.parent[z] = IF z = r /\ r # 0 THEN x ELSE P[z]
    BY <1>0, <1>6, SidesAre DEF HungOn, A, B, P
  <2>2. /\ t2.child[Tree!LEFT][z] = IF z = x THEN 0 ELSE t1.child[Tree!LEFT][z]
        /\ t2.child[Tree!RIGHT][z] = t1.child[Tree!RIGHT][z]
        /\ t2.parent[z] = t1.parent[z]
    BY <1>0, <1>7, SidesAre DEF HungOn
  <2>3. /\ t3.child[Tree!LEFT][z] = IF z = s THEN l ELSE t2.child[Tree!LEFT][z]
        /\ t3.child[Tree!RIGHT][z] = t2.child[Tree!RIGHT][z]
        /\ t3.parent[z] = IF z = l THEN s ELSE t2.parent[z]
    BY <1>0, <1>3, <1>8, SidesAre DEF HungOn
  <2>4. /\ t4.child[Tree!LEFT][z] = t3.child[Tree!LEFT][z]
        /\ t4.child[Tree!RIGHT][z] = IF z = s THEN m ELSE t3.child[Tree!RIGHT][z]
        /\ t4.parent[z] = IF z = m THEN s ELSE t3.parent[z]
    BY <1>0, <1>3, <1>9, SidesAre DEF HungOn
  <2>. QED
    BY <1>0, <2>1, <2>2, <2>3, <2>4
<1>12. HangsWell(t4, x)
  <2>1. t4.parent[x] = P[x] /\ P[x] \in Node
    BY <1>0, <1>3, <1>11
  <2>2. \A d \in Sides : t4.child[d][P[x]] = t.child[d][P[x]]
    BY <1>0, <1>11, <2>1, SidesAre DEF Sides, A, B
  <2>. QED
    BY <1>0, <1>2, <1>10, <2>1, <2>2, StillHangs DEF P
<1>13. t5 \in TreeRec /\ InPlace(t4, t5, x, s)
  BY <1>0, <1>4, <1>9, <1>12, ReplaceIs
<1>14. v \in TreeRec /\ HungOn(t5, v, q, x, Tree!LEFT)
  <2>1. q \in Node /\ x \in Node /\ Tree!LEFT \in Sides /\ t5 \in TreeRec
    BY <1>0, <1>3, <1>13, SidesAre
  <2>. QED
    BY ONLY <1>5, <2>1, SetChildIs
<1>15. t4.parent[x] = P[x]
  BY <1>0, <1>3, <1>11
<1>16. /\ t5.root = (IF t.root = x THEN s ELSE t.root) /\ t5.ok = t.ok /\ t5.color = t.color
       /\ \A z \in Node :
             /\ t5.child[Tree!LEFT][z] = IF t.root # x /\ z = P[x] /\ t4.child[Tree!LEFT][z] = x THEN s ELSE t4.child[Tree!LEFT][z]
             /\ t5.child[Tree!RIGHT][z] = IF t.root # x /\ z = P[x] /\ t4.child[Tree!RIGHT][z] = x THEN s ELSE t4.child[Tree!RIGHT][z]
             /\ t5.parent[z] = IF z = s THEN P[x] ELSE t4.parent[z]
  BY <1>0, <1>10, <1>13, <1>15, SidesAre DEF InPlace
<1>17. v.root = t5.root /\ v.ok /\ v.color = t.color
  BY <1>0, <1>14, <1>16 DEF HungOn
<1>18. ASSUME NEW z \in Node
       PROVE  /\ v.child[Tree!LEFT][z] = IF z = q THEN x ELSE t5.child[Tree!LEFT][z]
              /\ v.child[Tree!RIGHT][z] = t5.child[Tree!RIGHT][z]
              /\ v.parent[z] = IF z = x THEN q ELSE t5.parent[z]
  BY <1>0, <1>3, <1>14, SidesAre DEF HungOn
<1>19. ASSUME NEW z \in T
       PROVE  /\ v.child[Tree!LEFT][z] = Swap(A[Swap(z, x, s)], x, s)
              /\ v.child[Tree!RIGHT][z] = Swap(B[Swap(z, x, s)], x, s)
              /\ v.parent[z] = Swap(P[Swap(z, x, s)], x, s)
  <2>0. z \in Node /\ z # 0
    BY <1>0
  <2>1. v.child[Tree!LEFT][z] = Swap(A[Swap(z, x, s)], x, s)
    BY <1>0, <1>1, <1>3, <1>11, <1>16, <1>18, <2>0 DEF Swap
  <2>2. v.child[Tree!RIGHT][z] = Swap(B[Swap(z, x, s)], x, s)
    BY <1>0, <1>1, <1>3, <1>11, <1>16, <1>18, <2>0 DEF Swap
  <2>3. v.parent[z] = Swap(P[Swap(z, x, s)], x, s)
    <3>1. CASE z = x \/ z = s
      BY <1>0, <1>3, <1>11, <1>16, <1>18, <2>0, <3>1 DEF Swap
    <3>2. CASE z # x /\ z # s
      BY <1>0, <1>1, <1>3, <1>11, <1>16, <1>18, <2>0, <3>2 DEF Swap
    <3>. QED
      BY <3>1, <3>2
  <2>. QED
    BY <2>1, <2>2, <2>3
<1>20. v.root = Swap(t.root, x, s)
  BY <1>0, <1>1, <1>16, <1>17 DEF Swap
<1>21. Outside(t, v, T)
  <2>1. ASSUME NEW z \in Node \ T
        PROVE  v.parent[z] = P[z] /\ v.child[Tree!LEFT][z] = A[z] /\ v.child[Tree!RIGHT][z] = B[z]
    <3>1. z # x /\ z # s /\ z # l /\ z # m /\ z # q /\ ~(z = r /\ r # 0)
      BY <1>0, <1>3
    <3>2. t.root # x => z # P[x]
      BY <1>0, <1>1
    <3>. QED
      BY <1>11, <1>16, <1>18, <3>1, <3>2
  <2>. QED
    BY <2>1 DEF Outside, A, B, P, Sides
<1>. QED
  BY <1>14, <1>17, <1>19, <1>20, <1>21 DEF Swapped, Exchanged, A, B, P

\* A node changes places with its successor; in a red-black tree the colours stay where they were.
LEMMA SwapIs ==
    ASSUME NEW t, NEW T, NEW pos, TreeOf(t, T, pos), Clear(t, T), NEW x \in T, Tree!HasTwoChildren(t, x),
           NEW s, s = Tree!LeftMost(t, t.child[Tree!RIGHT][x]), NEW u, u = Tree!SwapWithSuccessor(t, x)
    PROVE  /\ IsNext(t, T, pos, x, s) /\ Swapped(t, u, T, x, s)
           /\ \A z \in Node : u.color[z] = IF is_rbt THEN t.color[Swap(z, x, s)] ELSE t.color[z]
<1>1. t.child[Tree!RIGHT][x] # 0
  BY DEF Tree!HasTwoChildren, Tree!NULL_ID
<1>2. IsNext(t, T, pos, x, s)
  BY <1>1, LeftMostIs
<1>3. PICK v : v = IF s = t.child[Tree!RIGHT][x] THEN Adjacent(t, x, s) ELSE Remote(t, x, s)
  OBVIOUS
<1>4. Swapped(t, v, T, x, s) /\ v.color = t.color
  <2>1. CASE s = t.child[Tree!RIGHT][x]
    BY <1>2, <1>3, <2>1, AdjacentSwapped
  <2>2. CASE s # t.child[Tree!RIGHT][x]
    BY <1>2, <1>3, <2>2, RemoteSwapped
  <2>. QED
    BY <2>1, <2>2
<1>5. u = IF is_rbt THEN Tree!SwapColors(v, x, s) ELSE v
  BY <1>3, SwapIsEither
<1>6. x \in Node /\ s \in Node /\ s # x /\ x # 0 /\ s # 0 /\ t \in TreeRec /\ v \in TreeRec
  BY <1>2, <1>4 DEF TreeOf, Node, IsNext, Swapped
<1>7. CASE ~is_rbt
  <2>1. u = v
    BY <1>5, <1>7
  <2>2. Swapped(t, u, T, x, s) /\ u.color = t.color
    BY <1>4, <2>1
  <2>. QED
    BY <1>2, <1>7, <2>2
<1>8. CASE is_rbt
  <2>1. PICK w : w = Tree!SetColor(v, x, v.color[s])
    OBVIOUS
  <2>2. u = Tree!SetColor(w, s, v.color[x])
    BY <1>5, <1>8, <2>1 DEF Tree!SwapColors
  <2>3. v.color[s] \in {Tree!RED, Tree!BLACK} /\ v.color[x] \in {Tree!RED, Tree!BLACK}
    BY <1>6 DEF TreeRec
  <2>4. Colored(v, w, x, v.color[s])
    BY <1>6, <2>1, <2>3, SetColorIs
  <2>5. w \in TreeRec
    BY <2>4 DEF Colored
  <2>6. Colored(w, u, s, v.color[x])
    BY <1>6, <2>2, <2>3, <2>5, SetColorIs
  <2>7. /\ u \in TreeRec /\ u.root = v.root /\ u.ok = v.ok /\ u.child = v.child /\ u.parent = v.parent
        /\ \A z \in Node : u.color[z] = IF z = s THEN v.color[x] ELSE IF z = x THEN v.color[s] ELSE v.color[z]
    BY <1>6, <2>4, <2>6 DEF Colored
  <2>8. Swapped(t, u, T, x, s)
    <3>1. v.ok /\ Outside(t, v, T) /\ Exchanged(T, t.root, t.child[Tree!LEFT], t.child[Tree!RIGHT], t.parent,
                                       v.root, v.child[Tree!LEFT], v.child[Tree!RIGHT], v.parent, x, s)
      BY <1>4 DEF Swapped
    <3>2. Outside(t, u, T)
      BY <2>7, <3>1 DEF Outside
    <3>. QED
      BY <2>7, <3>1, <3>2 DEF Swapped
  <2>9. \A z \in Node : u.color[z] = t.color[Swap(z, x, s)]
    BY <1>4, <2>7 DEF Swap
  <2>. QED
    BY <1>2, <1>8, <2>8, <2>9
<1>. QED
  BY <1>7, <1>8

-----------------------------------------------------------------------------
(* A node is taken out or hung in.                                         *)

\* u is t with x made blank
Blanked(t, u, x, c) ==
    /\ u \in TreeRec /\ u.root = t.root /\ u.ok = t.ok
    /\ \A z \in Node : /\ \A d \in Sides : u.child[d][z] = IF z = x THEN 0 ELSE t.child[d][z]
                       /\ u.parent[z] = IF z = x THEN 0 ELSE t.parent[z]
                       /\ u.color[z] = IF z = x THEN c ELSE t.color[z]

LEMMA BlankIs ==
    ASSUME NEW t \in TreeRec, NEW x \in Node, NEW c \in {Tree!RED, Tree!BLACK}, NEW u, u = Tree!Blank(t, x, c)
    PROVE  u \in TreeRec /\ Blanked(t, u, x, c)
<1>1. PICK ch : ch = [d \in {Tree!LEFT, Tree!RIGHT} |-> [t.child[d] EXCEPT ![x] = Tree!NULL_ID]]
  OBVIOUS
<1>2. u = [t EXCEPT !.parent[x] = Tree!NULL_ID, !.child = ch, !.color[x] = c]
  BY <1>1 DEF Tree!Blank
<1>3. /\ ch \in [Sides -> [Node -> Node]]
      /\ \A d \in Sides : \A z \in Node : ch[d][z] = IF z = x THEN 0 ELSE t.child[d][z]
  <2>1. \A d \in Sides : t.child[d] \in [Node -> Node] /\ 0 \in Node
    BY DEF TreeRec, Node, Tree!NULL_ID
  <2>2. \A d \in Sides : ch[d] = [t.child[d] EXCEPT ![x] = 0]
    BY <1>1 DEF Sides, Tree!NULL_ID
  <2>3. ASSUME NEW d \in Sides
        PROVE  /\ ch[d] \in [Node -> Node]
               /\ \A z \in Node : ch[d][z] = IF z = x THEN 0 ELSE t.child[d][z]
    <3>1. ch[d] = [t.child[d] EXCEPT ![x] = 0] /\ t.child[d] \in [Node -> Node] /\ 0 \in Node
      BY <2>1, <2>2
    <3>. QED
      BY ONLY <3>1, x \in Node
  <2>4. ch \in [Sides -> [Node -> Node]]
    BY <1>1, <2>3 DEF Sides
  <2>. QED
    BY <2>3, <2>4
<1>4. PICK pa, co : pa = [t.parent EXCEPT ![x] = 0] /\ co = [t.color EXCEPT ![x] = c]
  OBVIOUS
<1>5. /\ pa \in [Node -> Node] /\ co \in [Node -> {Tree!RED, Tree!BLACK}]
      /\ \A z \in Node : pa[z] = (IF z = x THEN 0 ELSE t.parent[z]) /\ co[z] = IF z = x THEN c ELSE t.color[z]
  BY <1>4 DEF TreeRec, Node, Tree!NULL_ID
<1>6. u \in TreeRec /\ u.root = t.root /\ u.ok = t.ok /\ u.parent = pa /\ u.child = ch /\ u.color = co
  <2>1. u = [t EXCEPT !.parent = pa, !.child = ch, !.color = co]
    BY <1>2, <1>4 DEF Tree!NULL_ID
  <2>2. t.root \in Node /\ t.ok \in BOOLEAN
    BY DEF TreeRec
  <2>3. u = [root |-> t.root, child |-> ch, parent |-> pa, color |-> co, ok |-> t.ok]
    BY <2>1 DEF TreeRec
  <2>. QED
    BY <1>3, <1>5, <2>2, <2>3 DEF TreeRec
<1>. QED
  BY <1>3, <1>5, <1>6 DEF Blanked

\* u is t without x, which had nothing on the side d; in a red-black tree its child is black
Taken(t, u, T, d, x) ==
    /\ u \in TreeRec /\ u.ok /\ Clear(u, T \ {x})
    /\ Removed(T, t.root, t.child[d], t.child[Tree!Other(d)], t.parent,
               u.root, u.child[d], u.child[Tree!Other(d)], u.parent, x)
    /\ \A z \in Node : u.color[z] = IF z = x \/ (is_rbt /\ z # 0 /\ z = t.child[Tree!Other(d)][x])
                                    THEN Tree!BLACK ELSE t.color[z]

\* What the deletion of a red-black tree asserts of the only child of a node.
RedLeaf(t, d, x) ==
    LET y == t.child[Tree!Other(d)][x]
    IN  y # 0 => t.color[x] = Tree!BLACK /\ t.color[y] = Tree!RED /\ t.child[d][y] = 0 /\ t.child[Tree!Other(d)][y] = 0

LEMMA UnlinkIs ==
    ASSUME NEW t, NEW T, NEW pos, TreeOf(t, T, pos), Clear(t, T), NEW x \in T, NEW d \in Sides,
           t.child[d][x] = 0, is_rbt => RedLeaf(t, d, x), NEW u, u = Tree!Blank(Tree!Unlink(t, x), x, Tree!BLACK)
    PROVE  Taken(t, u, T, d, x)
<1>. DEFINE A == t.child[d]
            B == t.child[Tree!Other(d)]
            P == t.parent
<1>0. /\ t \in TreeRec /\ t.ok /\ T \subseteq Tree!Nodes /\ 0 \notin Tree!Nodes /\ T \subseteq Node /\ x \in Node /\ x # 0
      /\ 0 \in Node /\ 0 \notin T /\ x \in Tree!Nodes
  BY DEF TreeOf, Node, Tree!NULL_ID
<1>1. Links(T, t.root, A, B, P) /\ A[x] = 0
  BY TreeLinks
<1>2. HangsWell(t, x)
  BY AllHang
<1>3. PICK o \in Sides : o = Tree!Other(d) /\ o # d /\ \A e \in Sides : e = d \/ e = o
  BY SidesAre
<1>4. \A z \in Node \ T : A[z] = 0 /\ B[z] = 0 /\ P[z] = 0 /\ t.color[z] = Tree!BLACK
  <2>1. (d = Tree!LEFT /\ o = Tree!RIGHT) \/ (d = Tree!RIGHT /\ o = Tree!LEFT)
    BY <1>3, SidesAre
  <2>. QED
    BY <1>3, <2>1 DEF Clear
<1>5. PICK y \in T \cup {0} : y = B[x] /\ y # x /\ y \in Node
  BY <1>0, <1>1 DEF Links
<1>6. PICK t1 : t1 = IF y # 0 /\ is_rbt THEN Tree!SetColor(t, y, Tree!BLACK) ELSE t
  OBVIOUS
<1>7. /\ t1 \in TreeRec /\ t1.root = t.root /\ t1.ok /\ t1.child = t.child /\ t1.parent = t.parent
      /\ \A z \in Node : t1.color[z] = IF is_rbt /\ z # 0 /\ z = y THEN Tree!BLACK ELSE t.color[z]
  <2>1. CASE y # 0 /\ is_rbt
    <3>1. Colored(t, t1, y, Tree!BLACK)
      BY <1>0, <1>5, <1>6, <2>1, SetColorIs
    <3>. QED
      BY <1>0, <2>1, <3>1 DEF Colored
  <2>2. CASE ~(y # 0 /\ is_rbt)
    BY <1>0, <1>6, <2>2
  <2>. QED
    BY <2>1, <2>2
<1>8. HangsWell(t1, x)
  BY <1>2, <1>7, StillHangs
<1>9. PICK v : v = Tree!Replace(t1, x, y)
  OBVIOUS
<1>10. v \in TreeRec /\ InPlace(t1, v, x, y)
  BY <1>0, <1>5, <1>7, <1>8, <1>9, ReplaceIs
<1>11. Tree!Unlink(t, x) = v
  <2>0. (d = Tree!LEFT /\ o = Tree!RIGHT) \/ (d = Tree!RIGHT /\ o = Tree!LEFT)
    BY <1>3, SidesAre
  <2>1. y = IF t.child[Tree!LEFT][x] # Tree!NULL_ID THEN t.child[Tree!LEFT][x] ELSE t.child[Tree!RIGHT][x]
    BY <1>3, <1>5, <2>0 DEF Tree!NULL_ID
  <2>2. CASE y # 0 /\ is_rbt
    <3>1. /\ t.color[x] = Tree!BLACK
          /\ t.color[y] = Tree!RED
          /\ t.child[Tree!LEFT][y] = Tree!NULL_ID /\ t.child[Tree!RIGHT][y] = Tree!NULL_ID
      BY <1>3, <1>5, <2>0, <2>2 DEF RedLeaf, Tree!NULL_ID
    <3>2. Tree!Assert(t, /\ t.color[x] = Tree!BLACK
                    /\ t.color[y] = Tree!RED
                    /\ t.child[Tree!LEFT][y] = Tree!NULL_ID /\ t.child[Tree!RIGHT][y] = Tree!NULL_ID) = t
      BY <1>0, <3>1, AssertIs, Zenon
    <3>. QED
      BY <1>6, <1>9, <2>1, <2>2, <3>2, Zenon DEF Tree!Unlink, Tree!NULL_ID
  <2>3. CASE ~(y # 0 /\ is_rbt)
    BY <1>6, <1>9, <2>1, <2>3, Zenon DEF Tree!Unlink, Tree!NULL_ID
  <2>. QED
    BY <2>2, <2>3
<1>12. u \in TreeRec /\ Blanked(v, u, x, Tree!BLACK)
  BY <1>0, <1>10, <1>11, BlankIs
<1>13. /\ v.root = (IF t.root = x THEN y ELSE t.root) /\ v.ok /\ v.color = t1.color
       /\ \A z \in Node :
             /\ v.child[d][z] = IF t.root # x /\ z = P[x] /\ A[z] = x THEN y ELSE A[z]
             /\ v.child[o][z] = IF t.root # x /\ z = P[x] /\ B[z] = x THEN y ELSE B[z]
             /\ v.parent[z] = IF z = y /\ y # 0 THEN P[x] ELSE P[z]
  <2>1. InPlace(t1, v, x, y)
    BY <1>10
  <2>. QED
    BY <1>3, <1>7, <2>1 DEF InPlace
<1>14. /\ u.root = v.root /\ u.ok
       /\ \A z \in Node : /\ u.child[d][z] = IF z = x THEN 0 ELSE v.child[d][z]
                          /\ u.child[o][z] = IF z = x THEN 0 ELSE v.child[o][z]
                          /\ u.parent[z] = IF z = x THEN 0 ELSE v.parent[z]
                          /\ u.color[z] = IF z = x THEN Tree!BLACK ELSE t1.color[z]
  <2>1. Blanked(v, u, x, Tree!BLACK)
    BY <1>12
  <2>. QED
    BY <1>3, <1>13, <2>1 DEF Blanked
<1>15. \A z \in Node : u.color[z] = IF z = x \/ (is_rbt /\ z # 0 /\ z = y) THEN Tree!BLACK ELSE t.color[z]
  BY <1>7, <1>14
<1>. HIDE DEF A, B, P
<1>16. ASSUME NEW z \in T
       PROVE  /\ A[z] = x \/ B[z] = x => t.root # x /\ z = P[x]
              /\ P[x] \in T \cup {0} /\ z # 0 /\ z \in Node /\ (t.root # x => P[x] # 0)
  BY <1>0, <1>1 DEF Links
<1>17. ASSUME NEW z \in T \ {x}
       PROVE  /\ u.child[d][z] = IF A[z] = x THEN B[x] ELSE A[z]
              /\ u.child[o][z] = IF B[z] = x THEN B[x] ELSE B[z]
              /\ u.parent[z] = IF z = B[x] THEN P[x] ELSE P[z]
  <2>1. z \in Node /\ z # x /\ z # 0 /\ (A[z] = x \/ B[z] = x => t.root # x /\ z = P[x])
    BY <1>16
  <2>. QED
    BY <1>5, <1>13, <1>14, <2>1
<1>18. Clear(u, T \ {x})
  <2>1. ASSUME NEW z \in Node \ (T \ {x})
        PROVE  u.child[d][z] = 0 /\ u.child[o][z] = 0 /\ u.parent[z] = 0 /\ u.color[z] = Tree!BLACK
    <3>1. CASE z = x
      BY <1>0, <1>14, <3>1
    <3>2. CASE z # x
      <4>1. z \in Node \ T /\ ~(z = y /\ y # 0) /\ (t.root # x => z # P[x])
        BY <1>16, <3>2
      <4>. QED
        BY <1>4, <1>13, <1>14, <1>15, <3>2, <4>1
    <3>. QED
      BY <3>1, <3>2
  <2>2. (d = Tree!LEFT /\ o = Tree!RIGHT) \/ (d = Tree!RIGHT /\ o = Tree!LEFT)
    BY <1>3, SidesAre
  <2>. QED
    BY <2>1, <2>2 DEF Clear
<1>19. u.root = IF t.root = x THEN B[x] ELSE t.root
  BY <1>5, <1>13, <1>14
<1>. QED
  BY <1>3, <1>5, <1>12, <1>14, <1>15, <1>17, <1>18, <1>19 DEF Taken, Removed, A, B, P

\* A node that is not in the tree is blank already.
LEMMA FreshIs ==
    ASSUME NEW t, NEW T, NEW pos, TreeOf(t, T, pos), Clear(t, T), NEW x \in Tree!Nodes \ T,
           NEW c \in {Tree!RED, Tree!BLACK}, NEW v, v = Tree!Blank(t, x, c)
    PROVE  /\ v \in TreeRec /\ v.root = t.root /\ v.ok /\ v.child = t.child /\ v.parent = t.parent
           /\ \A z \in Node : v.color[z] = IF z = x THEN c ELSE t.color[z]
<1>1. t \in TreeRec /\ t.ok /\ x \in Node /\ x \in Node \ T
  BY DEF TreeOf, Node
<1>2. v \in TreeRec /\ Blanked(t, v, x, c)
  BY <1>1, BlankIs
<1>3. /\ v \in TreeRec /\ v.root = t.root /\ v.ok
      /\ \A z \in Node : v.color[z] = IF z = x THEN c ELSE t.color[z]
      /\ \A z \in Node : v.parent[z] = t.parent[z]
      /\ \A d \in Sides : \A z \in Node : v.child[d][z] = t.child[d][z]
  <2>1. t.parent[x] = 0 /\ \A d \in Sides : t.child[d][x] = 0
    BY <1>1 DEF Clear, Sides
  <2>. QED
    BY <1>1, <1>2, <2>1 DEF Blanked
<1>4. v.parent = t.parent
  BY <1>1, <1>3 DEF TreeRec
<1>5. v.child = t.child
  <2>1. ASSUME NEW d \in Sides
        PROVE  v.child[d] = t.child[d]
    <3>1. v.child[d] \in [Node -> Node] /\ t.child[d] \in [Node -> Node]
      BY <1>1, <1>3 DEF TreeRec
    <3>. QED
      BY <1>3, <3>1
  <2>2. v.child \in [Sides -> [Node -> Node]] /\ t.child \in [Sides -> [Node -> Node]]
    BY <1>1, <1>3 DEF TreeRec
  <2>. QED
    BY <2>1, <2>2
<1>. QED
  BY <1>3, <1>4, <1>5

\* u is t with x, coloured c, hung on the side d of r
Added(t, u, T, d, x, r, c) ==
    /\ u \in TreeRec /\ u.ok /\ u.root = t.root /\ Clear(u, T \cup {x})
    /\ Inserted(T, t.child[d], t.child[Tree!Other(d)], t.parent, u.child[d], u.child[Tree!Other(d)], u.parent, x, r)
    /\ \A z \in Node : u.color[z] = IF z = x THEN c ELSE t.color[z]

LEMMA AddedIs ==
    ASSUME NEW t, NEW T, NEW pos, TreeOf(t, T, pos), Clear(t, T), NEW x \in Tree!Nodes \ T, NEW d \in Sides,
           NEW r \in T, t.child[d][r] = 0, NEW c \in {Tree!RED, Tree!BLACK},
           NEW u, u = Tree!SetChild(Tree!Blank(t, x, c), r, x, d)
    PROVE  Added(t, u, T, d, x, r, c)
<1>1. PICK v : v = Tree!Blank(t, x, c)
  OBVIOUS
<1>2. /\ v \in TreeRec /\ v.root = t.root /\ v.ok /\ v.child = t.child /\ v.parent = t.parent
      /\ \A z \in Node : v.color[z] = IF z = x THEN c ELSE t.color[z]
  BY <1>1, FreshIs
<1>3. x \in Node /\ r \in Node /\ x # r /\ x # 0 /\ r # 0 /\ T \subseteq Node
  BY DEF TreeOf, Node
<1>4. u \in TreeRec /\ HungOn(v, u, r, x, d)
  BY <1>1, <1>2, <1>3, SetChildIs
<1>5. PICK o \in Sides : o = Tree!Other(d) /\ o # d /\ ((d = Tree!LEFT /\ o = Tree!RIGHT) \/ (d = Tree!RIGHT /\ o = Tree!LEFT))
  BY SidesAre
<1>6. /\ u.root = t.root /\ u.ok
      /\ \A z \in Node : /\ u.child[d][z] = IF z = r THEN x ELSE t.child[d][z]
                         /\ u.child[o][z] = t.child[o][z]
                         /\ u.parent[z] = IF z = x THEN r ELSE t.parent[z]
                         /\ u.color[z] = IF z = x THEN c ELSE t.color[z]
  <2>1. HungOn(v, u, r, x, d)
    BY <1>4
  <2>. QED
    BY <1>2, <1>3, <1>5, <2>1 DEF HungOn
<1>7. \A z \in Node \ T : t.child[d][z] = 0 /\ t.child[o][z] = 0 /\ t.parent[z] = 0 /\ t.color[z] = Tree!BLACK
  BY <1>5 DEF Clear
<1>8. Clear(u, T \cup {x})
  BY <1>3, <1>5, <1>6, <1>7 DEF Clear
<1>9. Inserted(T, t.child[d], t.child[o], t.parent, u.child[d], u.child[o], u.parent, x, r)
  <2>1. x \in Node \ T /\ x # r
    BY <1>3
  <2>. QED
    BY <1>3, <1>6, <1>7, <2>1 DEF Inserted
<1>. QED
  BY <1>4, <1>5, <1>6, <1>8, <1>9 DEF Added

\* the keys of the nodes
Keys(S) == [z \in S |-> Key(z)]

LEMMA KeysAre ==
    ASSUME Tree!KeysAreNumbers, NEW S, S \subseteq Tree!Nodes
    PROVE  Keys(S) \in [S -> Int] /\ \A z \in S : Keys(S)[z] = Key(z) /\ Key(z) \in Int
BY DEF Keys, Tree!KeysAreNumbers

\* The record is a search tree of the nodes T.
SearchTreeOf(t, T) ==
    /\ Clear(t, T)
    /\ \E pos : TreeOf(t, T, pos) /\ Sorted(T, pos, Keys(T))

\* The descent of an insertion ends in the gap of the key.
LEMMA InsertionPointIs ==
    ASSUME Tree!KeysAreNumbers, NEW t, NEW T, NEW pos, TreeOf(t, T, pos), Clear(t, T), Sorted(T, pos, Keys(T)),
           T # {}, NEW key \in Int
    PROVE  \E r, d : /\ Tree!InsertionPoint(t, t.root, key) = <<r, d>> /\ d \in Sides
                     /\ Gap(T, t.child[Tree!LEFT], t.child[Tree!RIGHT], pos, Keys(Tree!Nodes), key, r, d, Tree!LEFT)
<1>. DEFINE A == t.child[Tree!LEFT]
            B == t.child[Tree!RIGHT]
            k == Keys(Tree!Nodes)
            Eq(f) == f = [r \in Tree!Nodes |-> IF key < k[r]
                                          THEN IF A[r] = 0 THEN <<r, Tree!LEFT>> ELSE f[A[r]]
                                          ELSE IF B[r] = 0 THEN <<r, Tree!RIGHT>> ELSE f[B[r]]]
            Code(f) == f = [r \in Tree!Nodes |->
                              LET d == IF key < Key(r) THEN Tree!LEFT ELSE Tree!RIGHT
                              IN  IF t.child[d][r] = Tree!NULL_ID THEN <<r, d>> ELSE f[t.child[d][r]]]
            at == CHOOSE f : Code(f)
<1>1. Fits(T, t.root, A, B, t.parent, pos) /\ T \subseteq Tree!Nodes /\ 0 \notin Tree!Nodes
  BY DEF TreeOf
<1>2. /\ k \in [Tree!Nodes -> Int] /\ \A z \in Tree!Nodes : k[z] = Key(z)
      /\ \A z \in T : Keys(T)[z] = k[z]
  BY <1>1, KeysAre
<1>3. \A z \in Tree!Nodes \ T : A[z] = 0 /\ B[z] = 0
  BY DEF Clear, Node
<1>4. Tree!LEFT # Tree!RIGHT
  BY SidesAre
<1>5. (\E f : Eq(f)) /\ \A f : Eq(f) => \E r, d : /\ f[t.root] = <<r, d>> /\ d \in {Tree!LEFT, Tree!RIGHT}
                                                  /\ Gap(T, A, B, pos, k, key, r, d, Tree!LEFT)
  <2>. HIDE DEF A, B, k
  <2>1. \A z \in T : Keys(T)[z] = k[z]
    BY <1>2
  <2>2. k \in [Tree!Nodes -> Int]
    BY <1>2
  <2>3. FindsGap(T, Tree!Nodes, t.root, A, B, pos, k, key, Tree!LEFT, Tree!RIGHT)
    BY <1>1, <1>3, <1>4, <2>1, <2>2, PlaceIs
  <2>. QED
    BY <2>3, Zenon DEF FindsGap
<1>6. ASSUME NEW f
      PROVE  Code(f) <=> Eq(f)
  <2>1. ASSUME NEW r \in Tree!Nodes
        PROVE  (LET d == IF key < Key(r) THEN Tree!LEFT ELSE Tree!RIGHT
                IN  IF t.child[d][r] = Tree!NULL_ID THEN <<r, d>> ELSE f[t.child[d][r]])
               = IF key < k[r] THEN IF A[r] = 0 THEN <<r, Tree!LEFT>> ELSE f[A[r]]
                               ELSE IF B[r] = 0 THEN <<r, Tree!RIGHT>> ELSE f[B[r]]
    BY <1>2 DEF Tree!NULL_ID
  <2>. DEFINE body1(r) == LET d == IF key < Key(r) THEN Tree!LEFT ELSE Tree!RIGHT
                          IN  IF t.child[d][r] = Tree!NULL_ID THEN <<r, d>> ELSE f[t.child[d][r]]
              body2(r) == IF key < k[r] THEN IF A[r] = 0 THEN <<r, Tree!LEFT>> ELSE f[A[r]]
                          ELSE IF B[r] = 0 THEN <<r, Tree!RIGHT>> ELSE f[B[r]]
  <2>2. \A r \in Tree!Nodes : body1(r) = body2(r)
    BY <2>1, Zenon
  <2>3. Code(f) <=> f = [r \in Tree!Nodes |-> body1(r)]
    OBVIOUS
  <2>4. Eq(f) <=> f = [r \in Tree!Nodes |-> body2(r)]
    OBVIOUS
  <2>. HIDE DEF body1, body2, Code, Eq
  <2>. QED
    BY <2>2, <2>3, <2>4
<1>7. Code(at)
  <2>1. \E f : Code(f)
    BY <1>5, <1>6
  <2>. HIDE DEF Code
  <2>. QED
    BY <2>1, Zenon
<1>8. Tree!InsertionPoint(t, t.root, key) = at[t.root]
  BY Zenon DEF Tree!InsertionPoint
<1>9. Eq(at)
  BY <1>6, <1>7, Zenon
<1>. HIDE DEF at, Eq, A, B, k
<1>10. PICK r, d : at[t.root] = <<r, d>> /\ d \in {Tree!LEFT, Tree!RIGHT} /\ Gap(T, A, B, pos, k, key, r, d, Tree!LEFT)
  BY <1>5, <1>9
<1>. QED
  BY <1>8, <1>10 DEF Sides, A, B, k

\* the red nodes, and what is known of them between and within the calls
RedsOf(t) == {z \in Tree!Nodes : t.color[z] = Tree!RED}

IdleTree(t, T) == Idle(T, t.root, t.child[Tree!LEFT], t.child[Tree!RIGHT], t.parent, RedsOf(t))
FloatingTree(t, T, x) == Floating(T, t.root, t.child[Tree!LEFT], t.child[Tree!RIGHT], t.parent, RedsOf(t), x)
LackingTree(t, T, x, q) == Lacking(T, t.root, t.child[Tree!LEFT], t.child[Tree!RIGHT], t.parent, RedsOf(t), x, q)

LEMMA FromSide ==
    ASSUME NEW T, NEW root, NEW C, NEW P, NEW pos, NEW d \in Sides, Fits(T, root, C[d], C[Tree!Other(d)], P, pos)
    PROVE  Fits(T, root, C[Tree!LEFT], C[Tree!RIGHT], P, OnSide(d, T, pos)) /\ pos \in [T -> Int]
<1>1. Fits(T, root, C[Tree!Other(d)], C[d], P, Neg(T, pos)) /\ pos \in [T -> Int]
  BY Mirror
<1>2. CASE d = Tree!LEFT /\ Tree!Other(d) = Tree!RIGHT
  BY <1>1, <1>2 DEF OnSide
<1>3. CASE d = Tree!RIGHT /\ Tree!Other(d) = Tree!LEFT
  BY <1>1, <1>3, SidesAre DEF OnSide
<1>. QED
  BY <1>2, <1>3, SidesAre

\* A tree of one black node.
Single(u, x) ==
    /\ u \in TreeRec /\ u.ok /\ u.root = x /\ u.parent[x] = 0
    /\ u.child[Tree!LEFT][x] = 0 /\ u.child[Tree!RIGHT][x] = 0 /\ Clear(u, {x}) /\ u.color[x] = Tree!BLACK

LEMMA SingleIs ==
    ASSUME NEW t, NEW T, NEW pos, TreeOf(t, T, pos), Clear(t, T), T = {}, NEW x \in Tree!Nodes, NEW c \in {Tree!RED, Tree!BLACK},
           NEW u, u = [Tree!Blank(Tree!Blank(t, x, c), x, Tree!BLACK) EXCEPT !.root = x]
    PROVE  Single(u, x)
<1>1. t \in TreeRec /\ t.ok /\ x \in Node
  BY DEF TreeOf, Node
<1>2. PICK v : v = Tree!Blank(t, x, c)
  OBVIOUS
<1>3. v \in TreeRec /\ Blanked(t, v, x, c)
  BY <1>1, <1>2, BlankIs
<1>4. PICK w : w = Tree!Blank(v, x, Tree!BLACK)
  OBVIOUS
<1>5. w \in TreeRec /\ Blanked(v, w, x, Tree!BLACK)
  BY <1>1, <1>3, <1>4, BlankIs
<1>6. /\ w.ok /\ \A d \in Sides : w.child[d][x] = 0
      /\ w.parent[x] = 0 /\ w.color[x] = Tree!BLACK
      /\ \A z \in Node \ {x} : /\ \A d \in Sides : w.child[d][z] = t.child[d][z]
                               /\ w.parent[z] = t.parent[z] /\ w.color[z] = t.color[z]
  <2>1. Blanked(t, v, x, c) /\ Blanked(v, w, x, Tree!BLACK)
    BY <1>3, <1>5
  <2>. QED
    BY <1>1, <2>1 DEF Blanked
<1>7. u = [w EXCEPT !.root = x]
  BY <1>2, <1>4
<1>8. u \in TreeRec /\ u.root = x /\ u.ok = w.ok /\ u.child = w.child /\ u.parent = w.parent /\ u.color = w.color
  BY <1>1, <1>5, <1>7 DEF TreeRec
<1>9. Clear(u, {x})
  BY <1>6, <1>8 DEF Clear, Sides
<1>. QED
  BY <1>6, <1>8, <1>9 DEF Single, Sides

LEMMA SingleTree ==
    ASSUME Tree!KeysAreNumbers, NEW x \in Tree!Nodes, NEW u, Single(u, x)
    PROVE  SearchTreeOf(u, {x}) /\ IdleTree(u, {x}) /\ FloatingTree(u, {x}, x)
<1>. DEFINE A == u.child[Tree!LEFT]
            B == u.child[Tree!RIGHT]
            P == u.parent
            pos == [z \in {x} |-> 0]
            lo == [z \in {x} |-> -1]
            hi == [z \in {x} |-> 1]
            h == [z \in {x} |-> 1]
<1>1. x # 0 /\ 0 \notin Tree!Nodes
  BY DEF Tree!KeysAreNumbers, Tree!NULL_ID
<1>2. Shape({x}, x, A, B, P, pos, lo, hi)
  BY <1>1 DEF Single, Shape, Bounded, Hung, Rooted
<1>3. TreeOf(u, {x}, pos)
  <2>1. Fits({x}, x, A, B, P, pos)
    <3>. HIDE DEF A, B, P, pos, lo, hi
    <3>. QED
      BY <1>2 DEF Fits
  <2>. QED
    BY <1>1, <2>1 DEF TreeOf, Single
<1>4. Sorted({x}, pos, Keys({x}))
  BY KeysAre DEF Sorted
<1>5. RedsOf(u) = {}
  <2>1. \A z \in Tree!Nodes : u.color[z] = Tree!BLACK
    BY DEF Single, Clear, Node
  <2>. QED
    BY <2>1 DEF RedsOf, Tree!RED, Tree!BLACK
<1>6. Even({x}, A, B, {}, h, 0, 0)
  BY <1>1 DEF Single, Even, Low
<1>7. \E g : Even({x}, A, B, {}, g, 0, 0)
  <2>. HIDE DEF A, B, h
  <2>. QED
    BY <1>6
<1>8. u.root = x
  BY DEF Single
<1>9. IdleTree(u, {x}) /\ FloatingTree(u, {x}, x)
  BY <1>5, <1>7, <1>8 DEF IdleTree, FloatingTree, Idle, Floating
<1>10. SearchTreeOf(u, {x})
  <2>. HIDE DEF pos
  <2>. QED
    BY <1>3, <1>4 DEF SearchTreeOf, Single
<1>. QED
  BY <1>9, <1>10

\* What an insertion leaves.
LEMMA InsertKeeps ==
    ASSUME Tree!KeysAreNumbers, NEW t, NEW T, SearchTreeOf(t, T), NEW x \in Tree!Nodes \ T, NEW c \in {Tree!RED, Tree!BLACK},
           NEW u, u = Tree!BstInsert(Tree!Blank(t, x, c), x)
    PROVE  /\ SearchTreeOf(u, T \cup {x})
           /\ c = Tree!RED /\ IdleTree(t, T) => FloatingTree(u, T \cup {x}, x)
<1>1. PICK pos : TreeOf(t, T, pos) /\ Sorted(T, pos, Keys(T)) /\ Clear(t, T)
  BY DEF SearchTreeOf
<1>2. PICK v : v = Tree!Blank(t, x, c)
  OBVIOUS
<1>3. v \in TreeRec /\ v.root = t.root /\ v.ok /\ v.child = t.child /\ v.parent = t.parent
  BY <1>1, <1>2, FreshIs
<1>4. t.root = 0 <=> T = {}
  <2>1. Links(T, t.root, t.child[Tree!LEFT], t.child[Tree!RIGHT], t.parent)
    BY <1>1, LinksHold DEF TreeOf
  <2>2. T = {} => t.root = 0
    BY <1>1 DEF TreeOf, Fits, Shape, Rooted
  <2>. QED
    BY <2>1, <2>2 DEF Links
<1>5. CASE T = {}
  <2>1. u = [Tree!Blank(Tree!Blank(t, x, c), x, Tree!BLACK) EXCEPT !.root = x]
    BY <1>2, <1>3, <1>4, <1>5 DEF Tree!BstInsert, Tree!NULL_ID
  <2>2. Single(u, x)
    BY <1>1, <1>5, <2>1, SingleIs
  <2>3. SearchTreeOf(u, {x}) /\ FloatingTree(u, {x}, x)
    BY <2>2, SingleTree
  <2>. QED
    BY <1>5, <2>3
<1>6. CASE T # {}
  <2>1. PICK key \in Int : key = Key(x)
    BY DEF Tree!KeysAreNumbers
  <2>2. Tree!InsertionPoint(v, v.root, key) = Tree!InsertionPoint(t, t.root, key)
    BY <1>3 DEF Tree!InsertionPoint
  <2>3. PICK r, d : /\ Tree!InsertionPoint(t, t.root, key) = <<r, d>> /\ d \in Sides
                    /\ Gap(T, t.child[Tree!LEFT], t.child[Tree!RIGHT], pos, Keys(Tree!Nodes), key, r, d, Tree!LEFT)
    BY <1>1, <1>6, <2>1, InsertionPointIs
  <2>4. r \in T /\ t.child[d][r] = 0
    BY <2>3, SidesAre DEF Gap, Sides
  <2>5. u = Tree!SetChild(Tree!Blank(t, x, c), r, x, d)
    BY <1>2, <1>3, <1>4, <1>6, <2>1, <2>2, <2>3 DEF Tree!BstInsert, Tree!NULL_ID
  <2>6. Added(t, u, T, d, x, r, c)
    BY <1>1, <2>3, <2>4, <2>5, AddedIs
  <2>7. /\ T \subseteq Tree!Nodes /\ 0 \notin Tree!Nodes /\ x \notin T \cup {0} /\ t \in TreeRec
        /\ Fits(T, t.root, t.child[Tree!LEFT], t.child[Tree!RIGHT], t.parent, pos)
    BY <1>1 DEF TreeOf
  <2>8. Fits(T, t.root, t.child[d], t.child[Tree!Other(d)], t.parent, OnSide(d, T, pos)) /\ pos \in [T -> Int]
    BY <2>3, <2>7, SideFits
  <2>9. Inserted(T, t.child[d], t.child[Tree!Other(d)], t.parent, u.child[d], u.child[Tree!Other(d)], u.parent, x, r)
    BY <2>6 DEF Added
  <2>10. PICK S : S = T \cup {x}
    OBVIOUS
  <2>11. PICK side : side = OnSide(d, T, pos)
    OBVIOUS
  <2>12. PICK pos2 : /\ Fits(S, t.root, u.child[d], u.child[Tree!Other(d)], u.parent, pos2)
                     /\ SameOrder(T, side, pos2) /\ Beside(T, side, r, pos2, x)
    <3>1. Fits(T, t.root, t.child[d], t.child[Tree!Other(d)], t.parent, side)
      BY <2>8, <2>11
    <3>2. r \in T /\ t.child[d][r] = 0 /\ x \notin T \cup {0}
      BY <2>4, <2>7
    <3>. QED
      BY ONLY <2>9, <2>10, <3>1, <3>2, InsertedFits
  <2>13. PICK pos3 : pos3 = OnSide(d, S, pos2)
    OBVIOUS
  <2>14. Fits(S, t.root, u.child[Tree!LEFT], u.child[Tree!RIGHT], u.parent, pos3) /\ pos2 \in [S -> Int]
    <3>1. d \in Sides /\ Fits(S, t.root, u.child[d], u.child[Tree!Other(d)], u.parent, pos2)
      BY <2>3, <2>12
    <3>. QED
      BY ONLY <2>13, <3>1, FromSide
  <2>15. TreeOf(u, S, pos3)
    BY <2>6, <2>7, <2>10, <2>14 DEF TreeOf, Added
  <2>16. /\ pos3 \in [S -> Int] /\ SameOrder(T, pos, pos3)
         /\ IF d = Tree!LEFT THEN \A z \in T : pos3[z] < pos3[x] <=> pos[z] < pos[r]
            ELSE \A z \in T : pos3[x] < pos3[z] <=> pos[r] < pos[z]
    <3>1. \A z \in S : pos2[z] \in Int
      BY <2>14
    <3>2. \A z \in T : pos[z] \in Int
      BY <2>8
    <3>3. CASE d = Tree!LEFT
      BY <2>4, <2>10, <2>11, <2>12, <2>13, <2>14, <3>3 DEF OnSide, SameOrder, Beside
    <3>4. CASE d # Tree!LEFT
      <4>1. pos3 = Neg(S, pos2) /\ side = Neg(T, pos)
        BY <2>11, <2>13, <3>4 DEF OnSide
      <4>2. (\A z \in S : pos3[z] = -pos2[z]) /\ (\A z \in T : side[z] = -pos[z]) /\ pos3 \in [S -> Int]
        BY <3>1, <4>1 DEF Neg
      <4>. QED
        BY <2>4, <2>10, <2>12, <3>1, <3>2, <3>4, <4>2 DEF SameOrder, Beside
    <3>. QED
      BY <3>3, <3>4
  <2>17. KeyBetween(T, pos3, Keys(T), x, key)
    <3>1. \A z \in T : Keys(T)[z] = Keys(Tree!Nodes)[z] /\ Keys(T)[z] \in Int /\ pos[z] \in Int
      BY <2>7, <2>8, KeysAre
    <3>2. \A z \in S : pos3[z] \in Int
      BY <2>16
    <3>3. CASE d = Tree!LEFT
      <4>1. \A z \in T : IF pos[z] < pos[r] THEN Keys(Tree!Nodes)[z] <= key ELSE key < Keys(Tree!Nodes)[z]
        BY <2>3, <3>3 DEF Gap
      <4>2. \A z \in T : pos3[z] < pos3[x] <=> pos[z] < pos[r]
        BY <2>16, <3>3
      <4>. QED
        BY <2>1, <2>4, <2>10, <3>1, <3>2, <4>1, <4>2 DEF KeyBetween
    <3>4. CASE d # Tree!LEFT
      <4>1. \A z \in T : IF pos[z] <= pos[r] THEN Keys(Tree!Nodes)[z] <= key ELSE key < Keys(Tree!Nodes)[z]
        BY <2>3, <3>4 DEF Gap
      <4>2. \A z \in T : pos3[x] < pos3[z] <=> pos[r] < pos[z]
        BY <2>16, <3>4
      <4>. QED
        BY <2>1, <2>4, <2>10, <3>1, <3>2, <4>1, <4>2 DEF KeyBetween
    <3>. QED
      BY <3>3, <3>4
  <2>18. Sorted(S, pos3, Keys(S))
    <3>1. Keys(S) \in [S -> Int] /\ Keys(S)[x] = key /\ \A z \in T : Keys(S)[z] = Keys(T)[z]
      BY <2>1, <2>7, <2>10, KeysAre
    <3>2. Agree(T, Keys(T), Keys(S)) /\ x \notin T
      BY <2>7, <3>1 DEF Agree
    <3>. QED
      BY <1>1, <2>10, <2>16, <2>17, <3>1, <3>2, InsertedSorted
  <2>19. SearchTreeOf(u, S)
    BY <2>6, <2>10, <2>15, <2>18 DEF SearchTreeOf, Added
  <2>20. ASSUME c = Tree!RED, IdleTree(t, T)
         PROVE  FloatingTree(u, S, x)
    <3>1. RedsOf(u) = RedsOf(t) \cup {x}
      BY <2>6, <2>7, <2>20 DEF Added, RedsOf, Node, Tree!RED, Tree!BLACK
    <3>2. Idle(T, t.root, t.child[d], t.child[Tree!Other(d)], t.parent, RedsOf(t))
      BY <2>3, <2>20, SideIdle DEF IdleTree
    <3>3. Links(T, t.root, t.child[d], t.child[Tree!Other(d)], t.parent)
      BY <1>1, <2>3, TreeLinks
    <3>4. Floating(S, t.root, u.child[d], u.child[Tree!Other(d)], u.parent, RedsOf(t) \cup {x}, x)
      BY <2>4, <2>7, <2>9, <2>10, <3>2, <3>3, AddedRed
    <3>5. u.root = t.root
      BY <2>6 DEF Added
    <3>. QED
      BY <2>3, <3>1, <3>4, <3>5, SideFloating DEF FloatingTree
  <2>. QED
    BY <2>10, <2>19, <2>20
<1>. QED
  BY <1>5, <1>6

\* What taking out a node that has nothing on the side d leaves.
LEMMA TakenKeeps ==
    ASSUME NEW t, NEW T, NEW pos, TreeOf(t, T, pos), NEW x \in T, NEW d \in Sides, t.child[d][x] = 0,
           NEW u, Taken(t, u, T, d, x), NEW S, S = T \ {x}
    PROVE  \E pos3 \in [S -> Int] : TreeOf(u, S, pos3) /\ SameOrder(S, pos, pos3)
<1>1. Fits(T, t.root, t.child[d], t.child[Tree!Other(d)], t.parent, OnSide(d, T, pos)) /\ pos \in [T -> Int]
      /\ T \subseteq Tree!Nodes /\ 0 \notin Tree!Nodes
  BY SideFits DEF TreeOf
<1>2. Removed(T, t.root, t.child[d], t.child[Tree!Other(d)], t.parent, u.root, u.child[d], u.child[Tree!Other(d)], u.parent, x)
      /\ u \in TreeRec /\ u.ok
  BY DEF Taken
<1>3. PICK side : side = OnSide(d, T, pos)
  OBVIOUS
<1>4. PICK pos2 : Fits(S, u.root, u.child[d], u.child[Tree!Other(d)], u.parent, pos2) /\ SameOrder(S, side, pos2)
  BY <1>1, <1>2, <1>3, RemovedFits
<1>5. PICK pos3 : pos3 = OnSide(d, S, pos2)
  OBVIOUS
<1>6. Fits(S, u.root, u.child[Tree!LEFT], u.child[Tree!RIGHT], u.parent, pos3) /\ pos2 \in [S -> Int]
  BY <1>4, <1>5, FromSide
<1>7. pos3 \in [S -> Int] /\ SameOrder(S, pos, pos3)
  <2>1. (\A z \in S : pos2[z] \in Int /\ pos[z] \in Int) /\ S \subseteq T
    BY <1>1, <1>6
  <2>2. CASE d = Tree!LEFT
    BY <1>3, <1>4, <1>5, <1>6, <2>2 DEF OnSide
  <2>3. CASE d # Tree!LEFT
    <3>1. pos3 = Neg(S, pos2) /\ side = Neg(T, pos)
      BY <1>3, <1>5, <2>3 DEF OnSide
    <3>2. (\A z \in S : pos3[z] = -pos2[z] /\ side[z] = -pos[z]) /\ pos3 \in [S -> Int]
      BY <2>1, <3>1 DEF Neg
    <3>. QED
      BY <1>4, <2>1, <3>2 DEF SameOrder
  <2>. QED
    BY <2>2, <2>3
<1>8. TreeOf(u, S, pos3)
  BY <1>1, <1>2, <1>6 DEF TreeOf
<1>. QED
  BY <1>7, <1>8

\* What it leaves of the balance of a red-black tree.
LEMMA TakenBalance ==
    ASSUME NEW t, NEW T, NEW pos, TreeOf(t, T, pos), Clear(t, T), NEW x \in T, NEW d \in Sides,
           t.child[d][x] = 0, is_rbt, IdleTree(t, T), NEW u, Taken(t, u, T, d, x), NEW S, S = T \ {x}
    PROVE  IF t.child[Tree!Other(d)][x] = 0 /\ t.color[x] = Tree!BLACK /\ t.parent[x] # 0
           THEN LackingTree(u, S, 0, t.parent[x]) ELSE IdleTree(u, S)
<1>1. Removed(T, t.root, t.child[d], t.child[Tree!Other(d)], t.parent, u.root, u.child[d], u.child[Tree!Other(d)], u.parent, x)
  BY DEF Taken
<1>2. Links(T, t.root, t.child[d], t.child[Tree!Other(d)], t.parent) /\ t \in TreeRec /\ T \subseteq Tree!Nodes /\ 0 \notin Tree!Nodes
  BY TreeLinks DEF TreeOf
<1>3. PICK R : R = RedsOf(t)
  OBVIOUS
<1>4. Idle(T, t.root, t.child[d], t.child[Tree!Other(d)], t.parent, R)
  BY <1>3, SideIdle DEF IdleTree
<1>5. x \in R <=> t.color[x] # Tree!BLACK
  <2>1. x \in Tree!Nodes /\ t.color[x] \in {Tree!RED, Tree!BLACK} /\ Tree!RED # Tree!BLACK
    BY <1>2 DEF TreeRec, Node, Tree!RED, Tree!BLACK
  <2>. QED
    BY <1>3, <2>1 DEF RedsOf
<1>6. \A z \in Tree!Nodes : u.color[z] = IF z = x \/ z = t.child[Tree!Other(d)][x] THEN Tree!BLACK ELSE t.color[z]
  BY <1>2 DEF Taken, Node
<1>7. CASE t.child[Tree!Other(d)][x] # 0
  <2>1. RedsOf(u) = R \ {t.child[Tree!Other(d)][x]}
    <3>1. x \notin R
      BY <1>2, <1>4, <1>7, OnlyChildRed
    <3>. QED
      BY <1>3, <1>5, <1>6, <3>1 DEF RedsOf, Tree!RED, Tree!BLACK
  <2>2. Idle(S, u.root, u.child[d], u.child[Tree!Other(d)], u.parent, R \ {t.child[Tree!Other(d)][x]})
    BY <1>1, <1>2, <1>4, <1>7, OnlyChildLifted
  <2>3. IdleTree(u, S)
    BY <2>1, <2>2, SideIdle DEF IdleTree
  <2>. QED
    BY <1>7, <2>3
<1>8. CASE t.child[Tree!Other(d)][x] = 0
  <2>1. RedsOf(u) = R \ {x}
    BY <1>2, <1>3, <1>6, <1>8 DEF RedsOf, Tree!RED, Tree!BLACK
  <2>2. /\ x \in R \/ t.parent[x] = 0
              => Idle(S, u.root, u.child[d], u.child[Tree!Other(d)], u.parent, R \ {x})
        /\ x \notin R /\ t.parent[x] # 0
              => Lacking(S, u.root, u.child[d], u.child[Tree!Other(d)], u.parent, R \ {x}, 0, t.parent[x])
    BY <1>1, <1>2, <1>4, <1>8, LeafTaken
  <2>3. CASE t.color[x] = Tree!BLACK /\ t.parent[x] # 0
    <3>1. Lacking(S, u.root, u.child[d], u.child[Tree!Other(d)], u.parent, R \ {x}, 0, t.parent[x])
      BY <1>5, <2>2, <2>3
    <3>2. LackingTree(u, S, 0, t.parent[x])
      BY <2>1, <3>1, SideLacking DEF LackingTree
    <3>. QED
      BY <1>8, <2>3, <3>2
  <2>4. CASE ~(t.color[x] = Tree!BLACK /\ t.parent[x] # 0)
    <3>1. Idle(S, u.root, u.child[d], u.child[Tree!Other(d)], u.parent, R \ {x})
      BY <1>5, <2>2, <2>4
    <3>2. IdleTree(u, S)
      BY <2>1, <3>1, SideIdle DEF IdleTree
    <3>. QED
      BY <1>8, <2>4, <3>2
  <2>. QED
    BY <2>3, <2>4
<1>. QED
  BY <1>7, <1>8

\* The tree in which a node has changed places with its successor, if it had to.
LEMMA ReadyToTake ==
    ASSUME NEW t, NEW T, NEW pos, TreeOf(t, T, pos), Clear(t, T), Sorted(T, pos, Keys(T)), Tree!KeysAreNumbers,
           NEW x \in T, NEW S, S = T \ {x}, is_rbt => IdleTree(t, T), is_rbt \in BOOLEAN,
           NEW v, v = IF Tree!HasTwoChildren(t, x) THEN Tree!SwapWithSuccessor(t, x) ELSE t
    PROVE  /\ \E pos1 : /\ TreeOf(v, T, pos1) /\ Clear(v, T)
                        /\ \A pos3 \in [S -> Int] : SameOrder(S, pos1, pos3) => Sorted(S, pos3, Keys(S))
           /\ is_rbt => IdleTree(v, T)
           /\ Tree!HasTwoChildren(t, x) => v.child[Tree!LEFT][x] = Tree!NULL_ID
           /\ \E d \in Sides : v.child[d][x] = 0
<1>0. /\ T \subseteq Tree!Nodes /\ 0 \notin Tree!Nodes /\ t \in TreeRec /\ t.ok
      /\ Fits(T, t.root, t.child[Tree!LEFT], t.child[Tree!RIGHT], t.parent, pos)
  BY DEF TreeOf
<1>1. Keys(S) \in [S -> Int] /\ Agree(S, Keys(T), Keys(S))
  <2>1. Keys(S) \in [S -> Int] /\ (\A z \in S : Keys(S)[z] = Key(z)) /\ \A z \in T : Keys(T)[z] = Key(z)
    BY <1>0, KeysAre
  <2>. QED
    BY <2>1 DEF Agree
<1>2. CASE ~Tree!HasTwoChildren(t, x)
  <2>1. v = t
    BY <1>2
  <2>2. \A pos3 \in [S -> Int] : SameOrder(S, pos, pos3) => Sorted(S, pos3, Keys(S))
    BY <1>1, RemovedSorted
  <2>3. \E d \in Sides : t.child[d][x] = 0
    BY <1>2, SidesAre DEF Tree!HasTwoChildren, Tree!NULL_ID
  <2>. QED
    BY <1>2, <2>1, <2>2, <2>3
<1>3. CASE Tree!HasTwoChildren(t, x)
  <2>1. PICK s : s = Tree!LeftMost(t, t.child[Tree!RIGHT][x])
    OBVIOUS
  <2>2. v = Tree!SwapWithSuccessor(t, x)
    BY <1>3
  <2>3. /\ IsNext(t, T, pos, x, s) /\ Swapped(t, v, T, x, s)
        /\ \A z \in Node : v.color[z] = IF is_rbt THEN t.color[Swap(z, x, s)] ELSE t.color[z]
    BY <1>3, <2>1, <2>2, SwapIs
  <2>4. s \in T /\ s # x /\ pos[s] = pos[x] + 1 /\ t.child[Tree!LEFT][s] = 0 /\ x # 0 /\ s # 0
    BY <1>0, <2>3 DEF IsNext
  <2>5. /\ v \in TreeRec /\ v.ok /\ Outside(t, v, T)
        /\ Exchanged(T, t.root, t.child[Tree!LEFT], t.child[Tree!RIGHT], t.parent,
                     v.root, v.child[Tree!LEFT], v.child[Tree!RIGHT], v.parent, x, s)
    BY <2>3 DEF Swapped
  <2>6. TreeOf(v, T, SwappedPlaces(T, pos, x, s))
    <3>1. Fits(T, v.root, v.child[Tree!LEFT], v.child[Tree!RIGHT], v.parent, SwappedPlaces(T, pos, x, s))
      BY <1>0, <2>4, <2>5, ExchangedFits
    <3>. QED
      BY <1>0, <2>5, <3>1 DEF TreeOf
  <2>7. Clear(v, T)
    <3>1. \A z \in Node \ T : Swap(z, x, s) = z
      BY <2>4 DEF Swap
    <3>. QED
      BY <2>3, <2>5, <3>1, SidesAre DEF Clear, Outside
  <2>8. \A y, z \in T : pos[y] = pos[z] => y = z
    BY <1>0 DEF Fits, Shape, Bounded
  <2>9. \A pos3 \in [S -> Int] : SameOrder(S, SwappedPlaces(T, pos, x, s), pos3) => Sorted(S, pos3, Keys(S))
    BY <1>1, <2>4, <2>8, ExchangedSorted
  <2>10. ASSUME is_rbt PROVE IdleTree(v, T)
    <3>1. RedsOf(v) = {z \in T : Swap(z, x, s) \in RedsOf(t)}
      <4>1. \A z \in Tree!Nodes \ T : v.color[z] # Tree!RED
        BY <2>7 DEF Clear, Node, Tree!RED, Tree!BLACK
      <4>2. \A z \in T : v.color[z] = t.color[Swap(z, x, s)] /\ Swap(z, x, s) \in T
        BY <1>0, <2>3, <2>4, <2>10 DEF Swap, Node
      <4>. QED
        BY <1>0, <4>1, <4>2 DEF RedsOf
    <3>2. Links(T, t.root, t.child[Tree!LEFT], t.child[Tree!RIGHT], t.parent)
      BY <1>0, LinksHold
    <3>3. Idle(T, t.root, t.child[Tree!LEFT], t.child[Tree!RIGHT], t.parent, RedsOf(t))
      BY <2>10 DEF IdleTree
    <3>4. Idle(T, v.root, v.child[Tree!LEFT], v.child[Tree!RIGHT], v.parent, {z \in T : Swap(z, x, s) \in RedsOf(t)})
      BY <2>4, <2>5, <3>2, <3>3, ExchangedIdle
    <3>. QED
      BY <3>1, <3>4 DEF IdleTree
  <2>11. v.child[Tree!LEFT][x] = 0
    BY <2>4, <2>5 DEF Exchanged, Swap
  <2>. QED
    BY <1>3, <2>6, <2>7, <2>9, <2>10, <2>11, SidesAre DEF Tree!NULL_ID
<1>. QED
  BY <1>2, <1>3

\* What a deletion leaves.
LEMMA DeleteKeeps ==
    ASSUME Tree!KeysAreNumbers, is_rbt \in BOOLEAN, NEW t, NEW T, SearchTreeOf(t, T), NEW x \in T,
           is_rbt => IdleTree(t, T), NEW S, S = T \ {x},
           NEW t1, t1 = IF Tree!HasTwoChildren(t, x) THEN Tree!SwapWithSuccessor(t, x) ELSE t,
           NEW t2, t2 = Tree!Assert(t1, Tree!HasTwoChildren(t, x) => t1.child[Tree!LEFT][x] = Tree!NULL_ID),
           NEW q, q = Tree!DoubleBlackParent(t2, x),
           NEW u, u = Tree!Blank(Tree!Unlink(t2, x), x, Tree!BLACK)
    PROVE  /\ SearchTreeOf(u, S) /\ u.ok
           /\ IF is_rbt THEN IF q = 0 THEN IdleTree(u, S) ELSE LackingTree(u, S, 0, q) ELSE q = 0
<1>1. PICK pos : TreeOf(t, T, pos) /\ Sorted(T, pos, Keys(T)) /\ Clear(t, T)
  BY DEF SearchTreeOf
<1>2. /\ \E pos1 : /\ TreeOf(t1, T, pos1) /\ Clear(t1, T)
                   /\ \A pos3 \in [S -> Int] : SameOrder(S, pos1, pos3) => Sorted(S, pos3, Keys(S))
      /\ is_rbt => IdleTree(t1, T)
      /\ Tree!HasTwoChildren(t, x) => t1.child[Tree!LEFT][x] = Tree!NULL_ID
      /\ \E d \in Sides : t1.child[d][x] = 0
  BY <1>1, ReadyToTake
<1>13. PICK d \in Sides : t1.child[d][x] = 0
  BY <1>2
<1>3. PICK pos1 :
         /\ TreeOf(t1, T, pos1) /\ Clear(t1, T) /\ t1.child[d][x] = 0
         /\ \A pos3 \in [S -> Int] : SameOrder(S, pos1, pos3) => Sorted(S, pos3, Keys(S))
  BY <1>2, <1>13
<1>4. t1 \in TreeRec /\ T \subseteq Tree!Nodes /\ 0 \notin Tree!Nodes /\ x \in Tree!Nodes
  BY <1>3 DEF TreeOf
<1>5. t2 = t1
  BY <1>2, <1>4, AssertIs
<1>6. is_rbt => RedLeaf(t1, d, x)
  <2>. SUFFICES ASSUME is_rbt, t1.child[Tree!Other(d)][x] # 0 PROVE RedLeaf(t1, d, x)
    BY DEF RedLeaf
  <2>1. Idle(T, t1.root, t1.child[d], t1.child[Tree!Other(d)], t1.parent, RedsOf(t1))
    BY <1>2, <1>3, SideIdle DEF IdleTree
  <2>2. Links(T, t1.root, t1.child[d], t1.child[Tree!Other(d)], t1.parent)
    BY <1>3, TreeLinks
  <2>3. /\ x \notin RedsOf(t1) /\ t1.child[Tree!Other(d)][x] \in RedsOf(t1)
        /\ t1.child[d][t1.child[Tree!Other(d)][x]] = 0 /\ t1.child[Tree!Other(d)][t1.child[Tree!Other(d)][x]] = 0
    BY <1>3, <2>1, <2>2, OnlyChildRed
  <2>4. t1.color[x] \in {Tree!RED, Tree!BLACK}
    BY <1>4 DEF TreeRec, Node
  <2>. QED
    BY <1>4, <2>3, <2>4 DEF RedLeaf, RedsOf
<1>7. Taken(t1, u, T, d, x)
  BY <1>3, <1>5, <1>6, UnlinkIs
<1>8. PICK pos3 \in [S -> Int] : TreeOf(u, S, pos3) /\ SameOrder(S, pos1, pos3)
  BY <1>3, <1>7, TakenKeeps, Zenon
<1>9. SearchTreeOf(u, S) /\ u.ok
  <2>1. Sorted(S, pos3, Keys(S))
    BY <1>3, <1>8
  <2>. QED
    BY <1>7, <1>8, <2>1, Zenon DEF SearchTreeOf, Taken
<1>10. t1.child[Tree!LEFT][x] = Tree!NULL_ID /\ t1.child[Tree!RIGHT][x] = Tree!NULL_ID <=> t1.child[Tree!Other(d)][x] = 0
  BY <1>3, SidesAre DEF Tree!NULL_ID
<1>11. CASE ~is_rbt
  BY <1>9, <1>11 DEF Tree!DoubleBlackParent, Tree!NULL_ID
<1>12. CASE is_rbt
  <2>1. IdleTree(t1, T)
    BY <1>2, <1>12
  <2>2. IF t1.child[Tree!Other(d)][x] = 0 /\ t1.color[x] = Tree!BLACK /\ t1.parent[x] # 0
        THEN LackingTree(u, S, 0, t1.parent[x]) ELSE IdleTree(u, S)
    BY <1>3, <1>7, <1>12, <2>1, TakenBalance, SMTT(30)
  <2>3. q = IF t1.child[Tree!Other(d)][x] = 0 /\ t1.color[x] = Tree!BLACK THEN t1.parent[x] ELSE 0
    BY <1>5, <1>10, <1>12 DEF Tree!DoubleBlackParent, Tree!NULL_ID
  <2>. QED
    BY <1>9, <1>12, <2>2, <2>3
<1>. QED
  BY <1>11, <1>12

-----------------------------------------------------------------------------
(* The iterations of the red-black tree.                                   *)

\* v is u in other colours: R are the red nodes
Painted(u, v, R) ==
    /\ v \in TreeRec /\ v.root = u.root /\ v.ok = u.ok /\ v.child = u.child /\ v.parent = u.parent
    /\ v.color[0] = u.color[0] /\ RedsOf(v) = R

Paint(R, x, c) == IF c = Tree!RED THEN R \cup {x} ELSE R \ {x}

LEMMA PaintIs ==
    ASSUME NEW u \in TreeRec, 0 \notin Tree!Nodes, NEW x \in Tree!Nodes, NEW c \in {Tree!RED, Tree!BLACK},
           NEW v, v = Tree!SetColor(u, x, c)
    PROVE  v \in TreeRec /\ Painted(u, v, Paint(RedsOf(u), x, c))
<1>1. x \in Node /\ x # 0 /\ 0 \in Node /\ Tree!Nodes \subseteq Node
  BY DEF Node, Tree!NULL_ID
<1>2. Colored(u, v, x, c)
  BY <1>1, SetColorIs
<1>3. \A z \in Tree!Nodes : z \in RedsOf(v) <=> z \in Paint(RedsOf(u), x, c)
  BY <1>1, <1>2 DEF Colored, RedsOf, Paint, Tree!RED, Tree!BLACK
<1>4. RedsOf(v) \subseteq Tree!Nodes /\ Paint(RedsOf(u), x, c) \subseteq Tree!Nodes
  BY DEF RedsOf, Paint
<1>. QED
  BY <1>1, <1>2, <1>3, <1>4 DEF Painted, Colored

LEMMA PaintedTwice ==
    ASSUME NEW t, NEW u, NEW v, NEW R, NEW R2, Painted(t, u, R), Painted(u, v, R2)
    PROVE  Painted(t, v, R2)
BY DEF Painted

\* New colours keep the tree.
LEMMA PaintedKeeps ==
    ASSUME NEW t, NEW T, SearchTreeOf(t, T), NEW v, NEW R, Painted(t, v, R), R \subseteq T
    PROVE  SearchTreeOf(v, T) /\ v.ok
<1>1. PICK pos : TreeOf(t, T, pos) /\ Sorted(T, pos, Keys(T)) /\ Clear(t, T)
  BY DEF SearchTreeOf
<1>2. TreeOf(v, T, pos) /\ v.ok
  BY <1>1 DEF TreeOf, Painted
<1>3. ASSUME NEW z \in Node \ T PROVE v.color[z] = Tree!BLACK
  <2>1. v.color[z] \in {Tree!RED, Tree!BLACK} /\ v.color[0] = t.color[0]
    BY DEF Painted, TreeRec
  <2>2. CASE z = 0
    BY <1>1, <1>3, <2>1, <2>2 DEF Clear
  <2>3. CASE z # 0
    BY <2>1, <2>3 DEF Painted, RedsOf, Node, Tree!NULL_ID
  <2>. QED
    BY <2>2, <2>3
<1>4. Clear(v, T)
  BY <1>1, <1>3 DEF Clear, Painted
<1>. QED
  BY <1>1, <1>2, <1>4 DEF SearchTreeOf

\* So does a rotation, before new colours.
LEMMA RotatedKeeps ==
    ASSUME NEW t, NEW T, SearchTreeOf(t, T), NEW x \in T, NEW q \in T, NEW g \in T,
           NEW d \in Sides, NEW e \in Sides, t.child[d][g] = q, t.child[e][q] = x,
           NEW u, u = Tree!Rotate(t, x, q, g)
    PROVE  SearchTreeOf(u, T) /\ RedsOf(u) = RedsOf(t) /\ Rotated(t, u, T, d, e, x, q, g)
<1>1. PICK pos : TreeOf(t, T, pos) /\ Sorted(T, pos, Keys(T)) /\ Clear(t, T)
  BY DEF SearchTreeOf
<1>2. Rotated(t, u, T, d, e, x, q, g)
  BY <1>1, RotateIs
<1>3. u \in TreeRec /\ u.ok /\ u.color = t.color /\ Outside(t, u, T)
  BY <1>2 DEF Rotated
<1>4. /\ Fits(T, t.root, t.child[d], t.child[Tree!Other(d)], t.parent, OnSide(d, T, pos)) /\ pos \in [T -> Int]
      /\ T \subseteq Tree!Nodes /\ 0 \notin Tree!Nodes
  BY <1>1, SideFits DEF TreeOf
<1>5. PICK side : side = OnSide(d, T, pos)
  OBVIOUS
<1>6. Fits(T, u.root, u.child[d], u.child[Tree!Other(d)], u.parent, side)
  <2>1. Fits(T, t.root, t.child[d], t.child[Tree!Other(d)], t.parent, side)
    BY <1>4, <1>5
  <2>2. CASE e = d
    <3>1. Lifted(T, t.root, t.child[d], t.child[Tree!Other(d)], t.parent,
                 u.root, u.child[d], u.child[Tree!Other(d)], u.parent, q, g)
      BY <1>2, <2>2 DEF Rotated
    <3>. QED
      BY <2>1, <3>1, LiftedFits
  <2>3. CASE e # d
    <3>1. LiftedTwice(T, t.root, t.child[d], t.child[Tree!Other(d)], t.parent,
                      u.root, u.child[d], u.child[Tree!Other(d)], u.parent, x, q, g)
      BY <1>2, <2>3 DEF Rotated
    <3>2. t.child[Tree!Other(d)][q] = x
      BY <2>3, SidesAre
    <3>. QED
      BY <2>1, <3>1, <3>2, LiftedTwiceFits
  <2>. QED
    BY <2>2, <2>3
<1>7. Fits(T, u.root, u.child[Tree!LEFT], u.child[Tree!RIGHT], u.parent, pos)
  BY <1>4, <1>5, <1>6, SideBack
<1>8. TreeOf(u, T, pos)
  BY <1>3, <1>4, <1>7 DEF TreeOf
<1>9. Clear(u, T)
  BY <1>1, <1>3, SidesAre DEF Clear, Outside
<1>10. SearchTreeOf(u, T)
  BY <1>1, <1>8, <1>9 DEF SearchTreeOf
<1>. QED
  BY <1>2, <1>3, <1>10 DEF RedsOf

LEMMA TreeFacts ==
    ASSUME NEW t, NEW T, SearchTreeOf(t, T)
    PROVE  /\ t \in TreeRec /\ t.ok /\ T \subseteq Tree!Nodes /\ 0 \notin Tree!Nodes /\ Clear(t, T)
           /\ \A d \in Sides : Links(T, t.root, t.child[d], t.child[Tree!Other(d)], t.parent)
           /\ RedsOf(t) \subseteq T
           /\ \A z \in T : t.color[z] \in {Tree!RED, Tree!BLACK} /\ (t.color[z] = Tree!RED <=> z \in RedsOf(t))
<1>1. PICK pos : TreeOf(t, T, pos) /\ Sorted(T, pos, Keys(T)) /\ Clear(t, T)
  BY DEF SearchTreeOf
<1>2. t \in TreeRec /\ t.ok /\ T \subseteq Tree!Nodes /\ 0 \notin Tree!Nodes
  BY <1>1 DEF TreeOf
<1>3. \A d \in Sides : Links(T, t.root, t.child[d], t.child[Tree!Other(d)], t.parent)
  BY <1>1, TreeLinks
<1>4. RedsOf(t) \subseteq T
  BY <1>1, <1>2 DEF RedsOf, Clear, Node, Tree!RED, Tree!BLACK
<1>5. \A z \in T : t.color[z] \in {Tree!RED, Tree!BLACK} /\ (t.color[z] = Tree!RED <=> z \in RedsOf(t))
  BY <1>2 DEF RedsOf, TreeRec, Node
<1>. QED
  BY <1>1, <1>2, <1>3, <1>4, <1>5

LEMMA SideIs ==
    ASSUME NEW t, NEW T, SearchTreeOf(t, T), NEW q \in T, NEW d \in Sides, NEW x \in T, t.child[d][q] = x
    PROVE  Tree!Side(t, x, q) = d
<1>1. Links(T, t.root, t.child[d], t.child[Tree!Other(d)], t.parent) /\ 0 \notin T
  BY TreeFacts
<1>2. t.child[Tree!Other(d)][q] # x
  BY <1>1 DEF Links
<1>. QED
  BY <1>2, SidesAre DEF Tree!Side

\* Two reds in a row.
LEMMA FloatKeeps ==
    ASSUME NEW t, NEW T, SearchTreeOf(t, T), NEW x, FloatingTree(t, T, x), t.parent[x] \in RedsOf(t),
           NEW q, q = t.parent[x], NEW g, g = t.parent[q], NEW r, r = Tree!RotationRoot(t, x, q, g),
           NEW t1, t1 = Tree!Rotate(Tree!Assert(t, x \in RedsOf(t) /\ g \notin RedsOf(t)), x, q, g),
           NEW u, u = Tree!SetColor(Tree!SetColor(Tree!SetColor(Tree!SetColor(t1, g, Tree!BLACK), q, Tree!BLACK), x, Tree!BLACK), r, Tree!RED)
    PROVE  SearchTreeOf(u, T) /\ u.ok /\ FloatingTree(u, T, r) /\ r \in T
<1>0. /\ t \in TreeRec /\ t.ok /\ T \subseteq Tree!Nodes /\ 0 \notin Tree!Nodes /\ RedsOf(t) \subseteq T
      /\ \A d \in Sides : Links(T, t.root, t.child[d], t.child[Tree!Other(d)], t.parent)
  BY TreeFacts
<1>1. PICK R : R = RedsOf(t)
  OBVIOUS
<1>2. Tree!LEFT \in Sides /\ Tree!RIGHT \in Sides /\ Tree!Other(Tree!LEFT) = Tree!RIGHT
  BY SidesAre
<1>3. /\ x \in T /\ x \in R /\ q \in T /\ q \in R /\ g \in T /\ g \notin R /\ q # x /\ g # q /\ g # x
      /\ x # 0 /\ q # 0 /\ g # 0
  <2>1. Links(T, t.root, t.child[Tree!LEFT], t.child[Tree!RIGHT], t.parent)
    BY <1>0, <1>2
  <2>2. Floating(T, t.root, t.child[Tree!LEFT], t.child[Tree!RIGHT], t.parent, R, x)
    BY <1>1 DEF FloatingTree
  <2>. QED
    BY <1>1, <2>1, <2>2, TwoReds
<1>4. PICK d \in Sides : t.child[d][g] = q
  <2>1. Links(T, t.root, t.child[Tree!LEFT], t.child[Tree!RIGHT], t.parent)
    BY <1>0, <1>2
  <2>. QED
    BY <1>2, <1>3, <2>1 DEF Links
<1>5. PICK e \in Sides : t.child[e][q] = x
  <2>1. Links(T, t.root, t.child[Tree!LEFT], t.child[Tree!RIGHT], t.parent)
    BY <1>0, <1>2
  <2>. QED
    BY <1>2, <1>3, <2>1 DEF Links
<1>6. t1 = Tree!Rotate(t, x, q, g)
  <2>1. Tree!Assert(t, x \in RedsOf(t) /\ g \notin RedsOf(t)) = t
    BY <1>0, <1>1, <1>3, AssertIs
  <2>. QED
    BY <2>1
<1>7. SearchTreeOf(t1, T) /\ RedsOf(t1) = R /\ Rotated(t, t1, T, d, e, x, q, g)
  BY <1>1, <1>3, <1>4, <1>5, <1>6, RotatedKeeps
<1>8. r = IF e = d THEN q ELSE x
  <2>1. Tree!Side(t, q, g) = d /\ Tree!Side(t, x, q) = e
    BY <1>3, <1>4, <1>5, SideIs
  <2>. QED
    BY <2>1 DEF Tree!RotationRoot, Tree!Outer
<1>9. PICK t2, t3, t4 : t2 = Tree!SetColor(t1, g, Tree!BLACK) /\ t3 = Tree!SetColor(t2, q, Tree!BLACK) /\ t4 = Tree!SetColor(t3, x, Tree!BLACK)
  OBVIOUS
<1>10. u = Tree!SetColor(t4, r, Tree!RED)
  BY <1>9
<1>11. t1 \in TreeRec /\ x \in Tree!Nodes /\ q \in Tree!Nodes /\ g \in Tree!Nodes /\ r \in Tree!Nodes /\ r \in T
       /\ Tree!RED \in {Tree!RED, Tree!BLACK} /\ Tree!BLACK \in {Tree!RED, Tree!BLACK} /\ Tree!RED # Tree!BLACK /\ 0 \notin Tree!Nodes
  BY <1>0, <1>3, <1>7, <1>8, TreeFacts DEF Tree!RED, Tree!BLACK
<1>12. t2 \in TreeRec /\ Painted(t1, t2, Paint(RedsOf(t1), g, Tree!BLACK))
  BY ONLY <1>9, <1>11, PaintIs, Zenon
<1>13. t3 \in TreeRec /\ Painted(t2, t3, Paint(RedsOf(t2), q, Tree!BLACK))
  BY ONLY <1>9, <1>11, <1>12, PaintIs, Zenon
<1>14. t4 \in TreeRec /\ Painted(t3, t4, Paint(RedsOf(t3), x, Tree!BLACK))
  BY ONLY <1>9, <1>11, <1>13, PaintIs, Zenon
<1>15. u \in TreeRec /\ Painted(t4, u, Paint(RedsOf(t4), r, Tree!RED))
  BY ONLY <1>10, <1>11, <1>14, PaintIs, Zenon
<1>16. Painted(t1, u, Paint(RedsOf(t4), r, Tree!RED))
  BY <1>12, <1>13, <1>14, <1>15, PaintedTwice
<1>17. Paint(RedsOf(t4), r, Tree!RED) = (R \ {x, q, g}) \cup {r}
  <2>1. RedsOf(t2) = Paint(R, g, Tree!BLACK) /\ RedsOf(t3) = Paint(RedsOf(t2), q, Tree!BLACK)
        /\ RedsOf(t4) = Paint(RedsOf(t3), x, Tree!BLACK)
    BY <1>7, <1>12, <1>13, <1>14, Zenon DEF Painted
  <2>. QED
    BY <1>11, <2>1 DEF Paint
<1>18. Painted(t1, u, (R \ {x, q, g}) \cup {r})
  BY ONLY <1>16, <1>17, Zenon
<1>19. SearchTreeOf(u, T) /\ u.ok
  <2>1. (R \ {x, q, g}) \cup {r} \subseteq T
    BY <1>0, <1>1, <1>11
  <2>. QED
    BY <1>7, <1>18, <2>1, PaintedKeeps
<1>20. Links(T, t.root, t.child[d], t.child[Tree!Other(d)], t.parent)
       /\ Floating(T, t.root, t.child[d], t.child[Tree!Other(d)], t.parent, R, x)
  BY <1>0, <1>1, SideFloating, SMTT(30) DEF FloatingTree
<1>21. Floating(T, t1.root, t1.child[d], t1.child[Tree!Other(d)], t1.parent, (R \ {x, q, g}) \cup {r}, r)
  <2>0. PICK A, B, P, root, A1, B1, P1, root1 :
           /\ A = t.child[d] /\ B = t.child[Tree!Other(d)] /\ P = t.parent /\ root = t.root
           /\ A1 = t1.child[d] /\ B1 = t1.child[Tree!Other(d)] /\ P1 = t1.parent /\ root1 = t1.root
    OBVIOUS
  <2>3. Links(T, root, A, B, P) /\ Floating(T, root, A, B, P, R, x) /\ A[g] = q /\ q = P[x] /\ g = P[q]
    BY <1>4, <1>20, <2>0
  <2>1. CASE e = d
    <3>1. Lifted(T, root, A, B, P, root1, A1, B1, P1, q, g)
      BY <1>7, <2>0, <2>1, Zenon DEF Rotated
    <3>2. r = q /\ A[q] = x
      BY <1>5, <1>8, <2>0, <2>1
    <3>3. Floating(T, root1, A1, B1, P1, (R \ {x, q, g}) \cup {q}, q)
      BY <1>3, <2>3, <3>1, <3>2, RedsLifted
    <3>. QED
      BY ONLY <2>0, <3>2, <3>3, Zenon
  <2>2. CASE e # d
    <3>1. LiftedTwice(T, root, A, B, P, root1, A1, B1, P1, x, q, g)
      BY <1>7, <2>0, <2>2, Zenon DEF Rotated
    <3>2. r = x /\ B[q] = x
      BY <1>5, <1>8, <2>0, <2>2, SidesAre
    <3>3. Floating(T, root1, A1, B1, P1, (R \ {x, q, g}) \cup {x}, x)
      BY <1>3, <2>3, <3>1, <3>2, RedsLiftedTwice
    <3>. QED
      BY ONLY <2>0, <3>2, <3>3, Zenon
  <2>. QED
    BY ONLY <2>1, <2>2, Zenon
<1>22. FloatingTree(u, T, r)
  <2>0. d \in Sides
    OBVIOUS
  <2>1. Floating(T, t1.root, t1.child[Tree!LEFT], t1.child[Tree!RIGHT], t1.parent, (R \ {x, q, g}) \cup {r}, r)
    BY ONLY <1>21, <2>0, SideFloating, SMTT(30)
  <2>2. /\ u.root = t1.root /\ u.child = t1.child /\ u.parent = t1.parent
        /\ RedsOf(u) = (R \ {x, q, g}) \cup {r}
    BY ONLY <1>18 DEF Painted
  <2>. QED
    BY ONLY <2>1, <2>2, Zenon DEF FloatingTree
<1>. QED
  BY <1>11, <1>19, <1>22

\* A black node is missing at x, on the side d of q, whose other child is s.
Lacks(t, T, d, x, q, s, near, far) ==
    /\ SearchTreeOf(t, T) /\ d \in Sides
    /\ Short(T, t.root, t.child[d], t.child[Tree!Other(d)], t.parent, RedsOf(t), x, q)
    /\ s = t.child[Tree!Other(d)][q] /\ near = t.child[d][s] /\ far = t.child[Tree!Other(d)][s]

LEMMA LacksFacts ==
    ASSUME NEW t, NEW T, NEW d, NEW x, NEW q, NEW s, NEW near, NEW far, Lacks(t, T, d, x, q, s, near, far)
    PROVE  /\ SearchTreeOf(t, T) /\ t \in TreeRec /\ t.ok /\ T \subseteq Tree!Nodes /\ 0 \notin Tree!Nodes /\ d \in Sides
           /\ RedsOf(t) \subseteq T
           /\ Links(T, t.root, t.child[d], t.child[Tree!Other(d)], t.parent)
           /\ q \in T /\ s \in T /\ near \in T \cup {0} /\ far \in T \cup {0}
           /\ s # q /\ near \notin {q, s} /\ far \notin {q, s} /\ (near # 0 => near # far)
           /\ t.child[d][q] = x /\ s # x
           /\ s \in RedsOf(t) => /\ q \notin RedsOf(t) /\ near \notin RedsOf(t) /\ far \notin RedsOf(t)
                                 /\ near \in T /\ far \in T
<1>1. /\ SearchTreeOf(t, T) /\ d \in Sides
      /\ Short(T, t.root, t.child[d], t.child[Tree!Other(d)], t.parent, RedsOf(t), x, q)
      /\ s = t.child[Tree!Other(d)][q] /\ near = t.child[d][s] /\ far = t.child[Tree!Other(d)][s]
  BY DEF Lacks
<1>2. /\ t \in TreeRec /\ t.ok /\ T \subseteq Tree!Nodes /\ 0 \notin Tree!Nodes /\ RedsOf(t) \subseteq T
      /\ Links(T, t.root, t.child[d], t.child[Tree!Other(d)], t.parent)
  BY <1>1, TreeFacts
<1>3. PICK A, B, P, root, R : /\ A = t.child[d] /\ B = t.child[Tree!Other(d)] /\ P = t.parent /\ root = t.root
                              /\ R = RedsOf(t)
  OBVIOUS
<1>4. /\ Links(T, root, A, B, P) /\ Short(T, root, A, B, P, R, x, q)
      /\ s = B[q] /\ near = A[s] /\ far = B[s]
  BY <1>1, <1>2, <1>3
<1>5. /\ q \in T /\ s \in T /\ near \in T \cup {0} /\ far \in T \cup {0}
      /\ s # q /\ near \notin {q, s} /\ far \notin {q, s} /\ (near # 0 => near # far)
      /\ A[q] = x /\ s # x
      /\ s \in R => q \notin R /\ near \notin R /\ far \notin R
  BY <1>4, Relatives
<1>6. s \in R => near \in T /\ far \in T
  BY <1>4, RedSiblingChildren
<1>. QED
  BY <1>1, <1>2, <1>3, <1>5, <1>6

\* There is such a side and such a sibling unless the root is reached.
LEMMA LackingHas ==
    ASSUME NEW t, NEW T, SearchTreeOf(t, T), NEW x, NEW q, LackingTree(t, T, x, q), x # t.root
    PROVE  \E d \in Sides : Lacks(t, T, d, x, q, t.child[Tree!Other(d)][q], t.child[d][t.child[Tree!Other(d)][q]],
                                  t.child[Tree!Other(d)][t.child[Tree!Other(d)][q]])
<1>1. \/ Short(T, t.root, t.child[Tree!LEFT], t.child[Tree!RIGHT], t.parent, RedsOf(t), x, q)
      \/ Short(T, t.root, t.child[Tree!RIGHT], t.child[Tree!LEFT], t.parent, RedsOf(t), x, q)
  BY DEF LackingTree, Lacking
<1>2. \E d \in Sides : Short(T, t.root, t.child[d], t.child[Tree!Other(d)], t.parent, RedsOf(t), x, q)
  <2>1. Tree!Other(Tree!LEFT) = Tree!RIGHT /\ Tree!Other(Tree!RIGHT) = Tree!LEFT /\ Tree!LEFT \in Sides /\ Tree!RIGHT \in Sides
    BY SidesAre DEF Tree!Other
  <2>. QED
    BY <1>1, <2>1
<1>. QED
  BY <1>2 DEF Lacks

\* The double black moves to the parent.
LEMMA AllBlackKeeps ==
    ASSUME NEW t, NEW T, NEW d, NEW x, NEW q, NEW s, NEW near, NEW far, Lacks(t, T, d, x, q, s, near, far),
           q \notin RedsOf(t), s \notin RedsOf(t), near \notin RedsOf(t), far \notin RedsOf(t),
           NEW u, u = Tree!SetColor(t, s, Tree!RED)
    PROVE  SearchTreeOf(u, T) /\ u.ok /\ LackingTree(u, T, q, t.parent[q])
<1>1. PICK R : R = RedsOf(t)
  OBVIOUS
<1>2. /\ SearchTreeOf(t, T) /\ t \in TreeRec /\ T \subseteq Tree!Nodes /\ 0 \notin Tree!Nodes /\ d \in Sides
      /\ R \subseteq T /\ s \in T /\ s \in Tree!Nodes
      /\ Links(T, t.root, t.child[d], t.child[Tree!Other(d)], t.parent)
  BY <1>1, LacksFacts
<1>3. Painted(t, u, R \cup {s})
  BY <1>1, <1>2, PaintIs DEF Paint
<1>4. SearchTreeOf(u, T) /\ u.ok
  BY <1>2, <1>3, PaintedKeeps
<1>5. Lacking(T, t.root, t.child[d], t.child[Tree!Other(d)], t.parent, R \cup {s}, q, t.parent[q])
  <2>1. /\ Short(T, t.root, t.child[d], t.child[Tree!Other(d)], t.parent, R, x, q)
        /\ s = t.child[Tree!Other(d)][q] /\ near = t.child[d][s] /\ far = t.child[Tree!Other(d)][s]
    BY <1>1 DEF Lacks
  <2>. QED
    BY <1>1, <1>2, <2>1, LackMoves
<1>6. LackingTree(u, T, q, t.parent[q])
  BY <1>2, <1>3, <1>5, SideLacking DEF LackingTree, Painted
<1>. QED
  BY <1>4, <1>6

\* A red parent takes the blackness.
LEMMA RedParentKeeps ==
    ASSUME NEW t, NEW T, NEW d, NEW x, NEW q, NEW s, NEW near, NEW far, Lacks(t, T, d, x, q, s, near, far),
           q \in RedsOf(t), s \notin RedsOf(t), near \notin RedsOf(t), far \notin RedsOf(t),
           NEW u, u = Tree!SetColor(Tree!SetColor(t, q, Tree!BLACK), s, Tree!RED)
    PROVE  SearchTreeOf(u, T) /\ u.ok /\ IdleTree(u, T)
<1>1. PICK R : R = RedsOf(t)
  OBVIOUS
<1>2. /\ SearchTreeOf(t, T) /\ t \in TreeRec /\ T \subseteq Tree!Nodes /\ 0 \notin Tree!Nodes /\ d \in Sides
      /\ R \subseteq T /\ s \in T /\ s \in Tree!Nodes /\ q \in Tree!Nodes
      /\ Links(T, t.root, t.child[d], t.child[Tree!Other(d)], t.parent)
  BY <1>1, LacksFacts
<1>3. PICK t1 : t1 = Tree!SetColor(t, q, Tree!BLACK)
  OBVIOUS
<1>4. t1 \in TreeRec /\ Painted(t, t1, R \ {q})
  BY <1>1, <1>2, <1>3, PaintIs DEF Paint, Tree!RED, Tree!BLACK
<1>5. Painted(t1, u, (R \ {q}) \cup {s})
  <2>1. RedsOf(t1) = R \ {q}
    BY <1>4 DEF Painted
  <2>. QED
    BY <1>2, <1>3, <1>4, <2>1, PaintIs DEF Paint
<1>6. Painted(t, u, (R \ {q}) \cup {s})
  BY <1>4, <1>5, PaintedTwice
<1>7. SearchTreeOf(u, T) /\ u.ok
  BY <1>2, <1>6, PaintedKeeps
<1>8. Idle(T, t.root, t.child[d], t.child[Tree!Other(d)], t.parent, (R \ {q}) \cup {s})
  <2>1. /\ Short(T, t.root, t.child[d], t.child[Tree!Other(d)], t.parent, R, x, q)
        /\ s = t.child[Tree!Other(d)][q] /\ near = t.child[d][s] /\ far = t.child[Tree!Other(d)][s]
    BY <1>1 DEF Lacks
  <2>. QED
    BY <1>1, <1>2, <2>1, ParentBlackened
<1>9. IdleTree(u, T)
  BY <1>2, <1>6, <1>8, SideIdle DEF IdleTree, Painted
<1>. QED
  BY <1>7, <1>9

\* What lifting the sibling, or the near nephew, over the parent keeps.
LEMMA FamilyRotated ==
    ASSUME NEW t, NEW T, NEW d, NEW x, NEW q, NEW s, NEW near, NEW far, Lacks(t, T, d, x, q, s, near, far),
           NEW y \in T, NEW e \in Sides, y = t.child[e][s], NEW t1, t1 = Tree!Rotate(t, y, s, q)
    PROVE  /\ SearchTreeOf(t1, T) /\ t1 \in TreeRec /\ RedsOf(t1) = RedsOf(t)
           /\ IF e = d
              THEN LiftedTwice(T, t.root, t.child[Tree!Other(d)], t.child[d], t.parent,
                               t1.root, t1.child[Tree!Other(d)], t1.child[d], t1.parent, y, s, q)
              ELSE Lifted(T, t.root, t.child[Tree!Other(d)], t.child[d], t.parent,
                          t1.root, t1.child[Tree!Other(d)], t1.child[d], t1.parent, s, q)
<1>1. SearchTreeOf(t, T) /\ d \in Sides /\ q \in T /\ s \in T
  BY LacksFacts
<1>2. t.child[Tree!Other(d)][q] = s
  BY DEF Lacks
<1>3. PICK o \in Sides : o = Tree!Other(d) /\ o # d /\ Tree!Other(o) = d
  BY <1>1, SidesAre
<1>4. SearchTreeOf(t1, T) /\ RedsOf(t1) = RedsOf(t) /\ Rotated(t, t1, T, o, e, y, s, q)
  BY <1>1, <1>2, <1>3, RotatedKeeps
<1>5. t1 \in TreeRec
  BY <1>4 DEF Rotated
<1>6. e = o <=> e # d
  BY <1>1, <1>3, SidesAre
<1>. QED
  BY <1>3, <1>4, <1>5, <1>6 DEF Rotated

\* Three colours after it.
LEMMA FamilyPainted ==
    ASSUME NEW t1, NEW T, SearchTreeOf(t1, T), NEW x \in T, NEW q \in T, NEW s \in T,
           NEW a \in {Tree!RED, Tree!BLACK}, NEW b \in {Tree!RED, Tree!BLACK}, NEW c \in {Tree!RED, Tree!BLACK},
           NEW u, u = Tree!SetColor(Tree!SetColor(Tree!SetColor(t1, q, a), s, b), x, c)
    PROVE  /\ Painted(t1, u, Paint(Paint(Paint(RedsOf(t1), q, a), s, b), x, c))
           /\ SearchTreeOf(u, T) /\ u.ok
<1>1. /\ t1 \in TreeRec /\ T \subseteq Tree!Nodes /\ 0 \notin Tree!Nodes /\ RedsOf(t1) \subseteq T
      /\ x \in Tree!Nodes /\ q \in Tree!Nodes /\ s \in Tree!Nodes
  BY TreeFacts
<1>2. PICK t2, t3 : t2 = Tree!SetColor(t1, q, a) /\ t3 = Tree!SetColor(t2, s, b)
  OBVIOUS
<1>3. t2 \in TreeRec /\ Painted(t1, t2, Paint(RedsOf(t1), q, a))
  BY ONLY <1>1, <1>2, PaintIs, Zenon
<1>4. t3 \in TreeRec /\ Painted(t2, t3, Paint(RedsOf(t2), s, b))
  BY <1>1, <1>2, <1>3, PaintIs
<1>5. u = Tree!SetColor(t3, x, c)
  BY <1>2
<1>6. u \in TreeRec /\ Painted(t3, u, Paint(RedsOf(t3), x, c))
  BY <1>1, <1>4, <1>5, PaintIs
<1>7. RedsOf(t2) = Paint(RedsOf(t1), q, a) /\ RedsOf(t3) = Paint(RedsOf(t2), s, b)
  BY <1>3, <1>4 DEF Painted
<1>8. Painted(t1, u, Paint(RedsOf(t3), x, c))
  BY <1>3, <1>4, <1>6, PaintedTwice
<1>9. Paint(RedsOf(t3), x, c) \subseteq T
  BY <1>1, <1>7 DEF Paint
<1>10. SearchTreeOf(u, T) /\ u.ok
  BY <1>8, <1>9, PaintedKeeps
<1>. QED
  BY <1>7, <1>8, <1>10

\* A red sibling is lifted, the black node is missing where it was.
LEMMA RedSiblingKeeps ==
    ASSUME NEW t, NEW T, NEW d, NEW x, NEW q, NEW s, NEW near, NEW far, Lacks(t, T, d, x, q, s, near, far),
           s \in RedsOf(t), NEW t1, t1 = Tree!Rotate(t, far, s, q),
           NEW u, u = Tree!SetColor(Tree!SetColor(t1, s, Tree!BLACK), q, Tree!RED)
    PROVE  SearchTreeOf(u, T) /\ u.ok /\ LackingTree(u, T, x, q)
<1>1. PICK R : R = RedsOf(t)
  OBVIOUS
<1>2. /\ T \subseteq Tree!Nodes /\ 0 \notin Tree!Nodes /\ d \in Sides /\ R \subseteq T
      /\ s \in T /\ s \in Tree!Nodes /\ q \in T /\ q \in Tree!Nodes /\ far \in T /\ s # q
      /\ Links(T, t.root, t.child[d], t.child[Tree!Other(d)], t.parent)
  BY <1>1, LacksFacts
<1>3. PICK o \in Sides : o = Tree!Other(d) /\ o # d
  BY <1>2, SidesAre
<1>4. far = t.child[o][s]
  BY <1>3 DEF Lacks
<1>5. /\ SearchTreeOf(t1, T) /\ t1 \in TreeRec /\ RedsOf(t1) = R
      /\ Lifted(T, t.root, t.child[Tree!Other(d)], t.child[d], t.parent,
                t1.root, t1.child[Tree!Other(d)], t1.child[d], t1.parent, s, q)
  BY <1>1, <1>2, <1>3, <1>4, FamilyRotated
<1>6. PICK t2 : t2 = Tree!SetColor(t1, s, Tree!BLACK)
  OBVIOUS
<1>7. t2 \in TreeRec /\ Painted(t1, t2, R \ {s})
  BY <1>2, <1>5, <1>6, PaintIs DEF Paint, Tree!RED, Tree!BLACK
<1>8. Painted(t2, u, (R \ {s}) \cup {q})
  <2>1. RedsOf(t2) = R \ {s}
    BY <1>7 DEF Painted
  <2>. QED
    BY <1>2, <1>6, <1>7, <2>1, PaintIs DEF Paint
<1>9. Painted(t1, u, (R \ {s}) \cup {q})
  BY <1>7, <1>8, PaintedTwice
<1>10. SearchTreeOf(u, T) /\ u.ok
  BY <1>2, <1>5, <1>9, PaintedKeeps
<1>11. Lacking(T, t1.root, t1.child[d], t1.child[Tree!Other(d)], t1.parent, (R \ {s}) \cup {q}, x, q)
  <2>1. PICK A, B, P, root, A1, B1, P1, root1 :
           /\ A = t.child[d] /\ B = t.child[Tree!Other(d)] /\ P = t.parent /\ root = t.root
           /\ A1 = t1.child[d] /\ B1 = t1.child[Tree!Other(d)] /\ P1 = t1.parent /\ root1 = t1.root
    OBVIOUS
  <2>2. /\ Links(T, root, A, B, P) /\ Short(T, root, A, B, P, R, x, q) /\ s = B[q] /\ s \in R
        /\ Lifted(T, root, B, A, P, root1, B1, A1, P1, s, q)
    <3>1. Short(T, t.root, t.child[d], t.child[Tree!Other(d)], t.parent, R, x, q) /\ s = t.child[Tree!Other(d)][q]
      BY <1>1 DEF Lacks
    <3>. QED
      BY <1>1, <1>2, <1>5, <2>1, <3>1
  <2>3. Short(T, root1, A1, B1, P1, (R \ {s}) \cup {q}, x, q)
    BY ONLY <2>2, SiblingLifted
  <2>. QED
    BY <2>1, <2>3 DEF Lacking
<1>12. LackingTree(u, T, x, q)
  BY <1>2, <1>9, <1>11, SideLacking DEF LackingTree, Painted
<1>. QED
  BY <1>10, <1>12

\* A red near nephew is lifted over the sibling and the parent.
LEMMA RedNearKeeps ==
    ASSUME NEW t, NEW T, NEW d, NEW x, NEW q, NEW s, NEW near, NEW far, Lacks(t, T, d, x, q, s, near, far),
           s \notin RedsOf(t), near \in RedsOf(t), NEW t1, t1 = Tree!Rotate(t, near, s, q),
           NEW u, u = Tree!SetColor(Tree!SetColor(Tree!SetColor(t1, q, Tree!BLACK), s, Tree!BLACK), near, t.color[q])
    PROVE  SearchTreeOf(u, T) /\ u.ok /\ IdleTree(u, T)
<1>1. PICK R : R = RedsOf(t)
  OBVIOUS
<1>2. /\ T \subseteq Tree!Nodes /\ 0 \notin Tree!Nodes /\ d \in Sides /\ R \subseteq T /\ SearchTreeOf(t, T)
      /\ s \in T /\ q \in T /\ near \in T /\ s # q /\ near \notin {q, s}
      /\ Links(T, t.root, t.child[d], t.child[Tree!Other(d)], t.parent)
  BY <1>1, LacksFacts
<1>3. near = t.child[d][s]
  BY DEF Lacks
<1>4. /\ SearchTreeOf(t1, T) /\ t1 \in TreeRec /\ RedsOf(t1) = R
      /\ LiftedTwice(T, t.root, t.child[Tree!Other(d)], t.child[d], t.parent,
                     t1.root, t1.child[Tree!Other(d)], t1.child[d], t1.parent, near, s, q)
  BY <1>1, <1>2, <1>3, FamilyRotated
<1>5. PICK c \in {Tree!RED, Tree!BLACK} : c = t.color[q] /\ (c = Tree!RED <=> q \in R)
  BY <1>1, <1>2, TreeFacts
<1>6. /\ Painted(t1, u, Paint(Paint(Paint(R, q, Tree!BLACK), s, Tree!BLACK), near, c))
      /\ SearchTreeOf(u, T) /\ u.ok
  <2>1. Tree!BLACK \in {Tree!RED, Tree!BLACK}
    OBVIOUS
  <2>2. u = Tree!SetColor(Tree!SetColor(Tree!SetColor(t1, q, Tree!BLACK), s, Tree!BLACK), near, c)
    BY <1>5
  <2>3. SearchTreeOf(t1, T) /\ q \in T /\ s \in T /\ near \in T /\ RedsOf(t1) = R
    BY <1>2, <1>4
  <2>4. /\ Painted(t1, u, Paint(Paint(Paint(RedsOf(t1), q, Tree!BLACK), s, Tree!BLACK), near, c))
        /\ SearchTreeOf(u, T) /\ u.ok
    BY ONLY <1>5, <2>1, <2>2, <2>3, FamilyPainted, ZenonT(30)
  <2>. QED
    BY <2>3, <2>4
<1>7. Painted(t1, u, (R \ {q, s, near}) \cup (IF q \in R THEN {near} ELSE {}))
  <2>1. Paint(Paint(Paint(R, q, Tree!BLACK), s, Tree!BLACK), near, c)
        = (R \ {q, s, near}) \cup (IF q \in R THEN {near} ELSE {})
    BY <1>2, <1>5 DEF Paint, Tree!RED, Tree!BLACK
  <2>. QED
    BY <1>6, <2>1
<1>8. Idle(T, t1.root, t1.child[d], t1.child[Tree!Other(d)], t1.parent,
           (R \ {q, s, near}) \cup (IF q \in R THEN {near} ELSE {}))
  <2>1. PICK A, B, P, root, A1, B1, P1, root1 :
           /\ A = t.child[d] /\ B = t.child[Tree!Other(d)] /\ P = t.parent /\ root = t.root
           /\ A1 = t1.child[d] /\ B1 = t1.child[Tree!Other(d)] /\ P1 = t1.parent /\ root1 = t1.root
    OBVIOUS
  <2>2. /\ Links(T, root, A, B, P) /\ Short(T, root, A, B, P, R, x, q) /\ s = B[q] /\ s \notin R
        /\ near = A[s] /\ near \in R
        /\ LiftedTwice(T, root, B, A, P, root1, B1, A1, P1, near, s, q)
    <3>1. Short(T, t.root, t.child[d], t.child[Tree!Other(d)], t.parent, R, x, q) /\ s = t.child[Tree!Other(d)][q]
      BY <1>1 DEF Lacks
    <3>. QED
      BY <1>1, <1>2, <1>3, <1>4, <2>1, <3>1, Zenon
  <2>3. Idle(T, root1, A1, B1, P1, (R \ {q, s, near}) \cup (IF q \in R THEN {near} ELSE {}))
    BY ONLY <2>2, NearLifted
  <2>. QED
    BY <2>1, <2>3
<1>9. IdleTree(u, T)
  BY <1>2, <1>7, <1>8, SideIdle DEF IdleTree, Painted
<1>. QED
  BY <1>6, <1>9

\* The sibling is lifted, its far red child becomes black.
LEMMA RedFarKeeps ==
    ASSUME NEW t, NEW T, NEW d, NEW x, NEW q, NEW s, NEW near, NEW far, Lacks(t, T, d, x, q, s, near, far),
           s \notin RedsOf(t), near \notin RedsOf(t), far \in RedsOf(t), NEW t1, t1 = Tree!Rotate(t, far, s, q),
           NEW u, u = Tree!SetColor(Tree!SetColor(Tree!SetColor(t1, q, Tree!BLACK), s, t.color[q]), far, Tree!BLACK)
    PROVE  SearchTreeOf(u, T) /\ u.ok /\ IdleTree(u, T)
<1>1. PICK R : R = RedsOf(t)
  OBVIOUS
<1>2. /\ T \subseteq Tree!Nodes /\ 0 \notin Tree!Nodes /\ d \in Sides /\ R \subseteq T /\ SearchTreeOf(t, T)
      /\ s \in T /\ q \in T /\ far \in T /\ s # q /\ far \notin {q, s}
      /\ Links(T, t.root, t.child[d], t.child[Tree!Other(d)], t.parent)
  BY <1>1, LacksFacts
<1>3. PICK o \in Sides : o = Tree!Other(d) /\ o # d
  BY <1>2, SidesAre
<1>31. far = t.child[o][s]
  BY <1>3 DEF Lacks
<1>4. /\ SearchTreeOf(t1, T) /\ t1 \in TreeRec /\ RedsOf(t1) = R
      /\ Lifted(T, t.root, t.child[Tree!Other(d)], t.child[d], t.parent,
                t1.root, t1.child[Tree!Other(d)], t1.child[d], t1.parent, s, q)
  BY <1>1, <1>2, <1>3, <1>31, FamilyRotated
<1>5. PICK c \in {Tree!RED, Tree!BLACK} : c = t.color[q] /\ (c = Tree!RED <=> q \in R)
  BY <1>1, <1>2, TreeFacts
<1>6. /\ Painted(t1, u, Paint(Paint(Paint(R, q, Tree!BLACK), s, c), far, Tree!BLACK))
      /\ SearchTreeOf(u, T) /\ u.ok
  <2>1. Tree!BLACK \in {Tree!RED, Tree!BLACK}
    OBVIOUS
  <2>2. u = Tree!SetColor(Tree!SetColor(Tree!SetColor(t1, q, Tree!BLACK), s, c), far, Tree!BLACK)
    BY <1>5
  <2>3. SearchTreeOf(t1, T) /\ q \in T /\ s \in T /\ far \in T /\ RedsOf(t1) = R
    BY <1>2, <1>4
  <2>4. /\ Painted(t1, u, Paint(Paint(Paint(RedsOf(t1), q, Tree!BLACK), s, c), far, Tree!BLACK))
        /\ SearchTreeOf(u, T) /\ u.ok
    BY ONLY <1>5, <2>1, <2>2, <2>3, FamilyPainted, ZenonT(30)
  <2>. QED
    BY <2>3, <2>4
<1>7. Painted(t1, u, (R \ {q, s, far}) \cup (IF q \in R THEN {s} ELSE {}))
  <2>1. Paint(Paint(Paint(R, q, Tree!BLACK), s, c), far, Tree!BLACK)
        = (R \ {q, s, far}) \cup (IF q \in R THEN {s} ELSE {})
    BY <1>1, <1>2, <1>5 DEF Paint, Tree!RED, Tree!BLACK
  <2>. QED
    BY <1>6, <2>1
<1>8. Idle(T, t1.root, t1.child[d], t1.child[Tree!Other(d)], t1.parent,
           (R \ {q, s, far}) \cup (IF q \in R THEN {s} ELSE {}))
  <2>1. PICK A, B, P, root, A1, B1, P1, root1 :
           /\ A = t.child[d] /\ B = t.child[Tree!Other(d)] /\ P = t.parent /\ root = t.root
           /\ A1 = t1.child[d] /\ B1 = t1.child[Tree!Other(d)] /\ P1 = t1.parent /\ root1 = t1.root
    OBVIOUS
  <2>2. /\ Links(T, root, A, B, P) /\ Short(T, root, A, B, P, R, x, q) /\ s = B[q] /\ s \notin R
        /\ A[s] \notin R /\ far = B[s] /\ far \in R
        /\ Lifted(T, root, B, A, P, root1, B1, A1, P1, s, q)
    <3>1. /\ Short(T, t.root, t.child[d], t.child[Tree!Other(d)], t.parent, R, x, q) /\ s = t.child[Tree!Other(d)][q]
          /\ near = t.child[d][s] /\ far = t.child[Tree!Other(d)][s]
      BY <1>1 DEF Lacks
    <3>. QED
      BY <1>1, <1>2, <1>4, <2>1, <3>1, Zenon
  <2>3. Idle(T, root1, A1, B1, P1, (R \ {q, s, far}) \cup (IF q \in R THEN {s} ELSE {}))
    BY ONLY <2>2, FarLifted
  <2>. QED
    BY <2>1, <2>3
<1>9. IdleTree(u, T)
  BY <1>2, <1>7, <1>8, SideIdle DEF IdleTree, Painted
<1>. QED
  BY <1>6, <1>9

\* A red node at the root becomes black, one with a black parent may stay.
LEMMA FloatDoneKeeps ==
    ASSUME NEW t, NEW T, SearchTreeOf(t, T), NEW x, FloatingTree(t, T, x), NEW u,
           \/ t.parent[x] = 0 /\ u = Tree!SetColor(t, x, Tree!BLACK)
           \/ t.parent[x] # 0 /\ t.parent[x] \notin RedsOf(t) /\ u = Tree!Assert(t, x \in RedsOf(t))
    PROVE  SearchTreeOf(u, T) /\ IdleTree(u, T)
<1>1. PICK R : R = RedsOf(t)
  OBVIOUS
<1>2. /\ t \in TreeRec /\ t.ok /\ T \subseteq Tree!Nodes /\ 0 \notin Tree!Nodes /\ R \subseteq T
      /\ Links(T, t.root, t.child[Tree!LEFT], t.child[Tree!RIGHT], t.parent)
  BY <1>1, TreeFacts, SidesAre
<1>3. Floating(T, t.root, t.child[Tree!LEFT], t.child[Tree!RIGHT], t.parent, R, x)
  BY <1>1 DEF FloatingTree
<1>4. x \in T /\ x \in Tree!Nodes
  BY <1>2, <1>3 DEF Floating
<1>5. CASE t.parent[x] = 0 /\ u = Tree!SetColor(t, x, Tree!BLACK)
  <2>1. Painted(t, u, R \ {x})
    BY <1>1, <1>2, <1>4, <1>5, PaintIs DEF Paint, Tree!RED, Tree!BLACK
  <2>2. SearchTreeOf(u, T)
    BY <1>2, <2>1, PaintedKeeps
  <2>3. Idle(T, t.root, t.child[Tree!LEFT], t.child[Tree!RIGHT], t.parent, R \ {x})
    BY <1>2, <1>3, <1>5, RootBlackened
  <2>. QED
    BY <2>1, <2>2, <2>3 DEF IdleTree, Painted
<1>6. CASE t.parent[x] # 0 /\ t.parent[x] \notin R /\ u = Tree!Assert(t, x \in R)
  <2>1. x \in R /\ Idle(T, t.root, t.child[Tree!LEFT], t.child[Tree!RIGHT], t.parent, R)
    BY <1>2, <1>3, <1>6, Settled
  <2>2. u = t
    BY <1>2, <1>6, <2>1, AssertIs
  <2>. QED
    BY <1>1, <2>1, <2>2 DEF IdleTree
<1>. QED
  BY <1>1, <1>5, <1>6

\* What rbt_get_psnf gets.
LEMMA FamilyIs ==
    ASSUME NEW T, NEW d, NEW s, NEW near, NEW far, Lacks(tree, T, d, n, p, s, near, far)
    PROVE  Tree!Family = [s |-> s, near |-> near, far |-> far, ok |-> TRUE]
<1>1. /\ d \in Sides /\ s = tree.child[Tree!Other(d)][p]
      /\ near = tree.child[d][s] /\ far = tree.child[Tree!Other(d)][s]
  BY DEF Lacks
<1>2. tree.child[d][p] = n /\ s # n /\ s # 0
  BY LacksFacts
<1>3. CASE d = Tree!LEFT /\ Tree!Other(d) = Tree!RIGHT
  <2>1. Tree!Sibling(tree) = s /\ tree.child[Tree!LEFT][p] = n
    BY <1>1, <1>2, <1>3 DEF Tree!Sibling
  <2>. QED
    BY <1>1, <1>2, <1>3, <2>1 DEF Tree!Family, Tree!NULL_ID
<1>4. CASE d = Tree!RIGHT /\ Tree!Other(d) = Tree!LEFT
  <2>1. Tree!Sibling(tree) = s /\ tree.child[Tree!LEFT][p] # n /\ Tree!Other(Tree!RIGHT) = Tree!LEFT
    BY <1>1, <1>2, <1>4, SidesAre DEF Tree!Sibling
  <2>. QED
    BY <1>1, <1>2, <1>4, <2>1 DEF Tree!Family, Tree!NULL_ID
<1>. QED
  BY <1>1, <1>3, <1>4, SidesAre

-----------------------------------------------------------------------------
(* The inductive invariant.                                                *)

\* T are the nodes of the tree t; in a red-black tree m says what is left of
\* the balance, x and q where it is wrong.
Consistent(b, t, m, x, q, T) ==
    /\ b \in BOOLEAN /\ SearchTreeOf(t, T)
    /\ \/ m = "idle" /\ x = 0 /\ q = 0 /\ (b => IdleTree(t, T))
       \/ m = "float_up" /\ b /\ x # 0 /\ q = 0 /\ FloatingTree(t, T, x)
       \/ m = "rebalance" /\ b /\ LackingTree(t, T, x, q)

\* Nothing else is in the tree.
LEMMA InTreeIs ==
    ASSUME NEW T, SearchTreeOf(tree, T)
    PROVE  Tree!InTree = T
<1>1. PICK pos : TreeOf(tree, T, pos) /\ Clear(tree, T)
  BY DEF SearchTreeOf
<1>2. /\ Fits(T, tree.root, tree.child[Tree!LEFT], tree.child[Tree!RIGHT], tree.parent, pos)
      /\ T \subseteq Tree!Nodes /\ 0 \notin Tree!Nodes
  BY <1>1 DEF TreeOf
<1>3. \A z \in Tree!Nodes \ T : tree.parent[z] = 0
  BY <1>1 DEF Clear, Node
<1>4. {z \in Tree!Nodes : tree.root = z \/ tree.parent[z] # 0} = T
  BY <1>2, <1>3, MembersAre
<1>. QED
  BY <1>4 DEF Tree!InTree, Tree!NULL_ID

LEMMA InitConsistent ==
    ASSUME Tree!KeysAreNumbers, Tree!Init
    PROVE  Consistent(is_rbt, tree, pc, n, p, {})
<1>1. /\ is_rbt \in BOOLEAN /\ pc = "idle" /\ n = 0 /\ p = 0 /\ 0 \notin Tree!Nodes
      /\ tree = [root |-> 0, child |-> [d \in Sides |-> [x \in Node |-> 0]],
                 parent |-> [x \in Node |-> 0], color |-> [x \in Node |-> Tree!BLACK], ok |-> TRUE]
  BY DEF Tree!Init, Tree!KeysAreNumbers, Tree!NULL_ID, Node, Sides
<1>2. /\ tree \in TreeRec /\ tree.ok /\ tree.root = 0 /\ Clear(tree, {}) /\ RedsOf(tree) = {}
  BY <1>1 DEF TreeRec, Clear, RedsOf, Sides, Node, Tree!RED, Tree!BLACK, Tree!NULL_ID
<1>. DEFINE none == [x \in {} |-> 0]
<1>3. Shape({}, 0, tree.child[Tree!LEFT], tree.child[Tree!RIGHT], tree.parent, none, none, none)
  BY DEF Shape, Bounded, Hung, Rooted
<1>4. Sorted({}, none, Keys({}))
  BY DEF Sorted, Keys
<1>5. Even({}, tree.child[Tree!LEFT], tree.child[Tree!RIGHT], {}, none, 0, 0)
  BY DEF Even
<1>. HIDE DEF none
<1>6. TreeOf(tree, {}, none)
  BY <1>1, <1>2, <1>3 DEF TreeOf, Fits
<1>7. SearchTreeOf(tree, {})
  BY <1>2, <1>4, <1>6 DEF SearchTreeOf
<1>8. IdleTree(tree, {})
  BY <1>2, <1>5 DEF IdleTree, Idle
<1>. QED
  BY <1>1, <1>7, <1>8 DEF Consistent

LEMMA AddConsistent ==
    ASSUME Tree!KeysAreNumbers, NEW T, Consistent(is_rbt, tree, pc, n, p, T), NEW x \in Tree!Nodes, Tree!Add(x)
    PROVE  x \notin T /\ Consistent(is_rbt', tree', pc', n', p', T \cup {x})
<1>1. PICK c \in {Tree!RED, Tree!BLACK} : c = IF is_rbt THEN Tree!RED ELSE Tree!BLACK
  OBVIOUS
<1>2. /\ is_rbt \in BOOLEAN /\ SearchTreeOf(tree, T) /\ pc = "idle" /\ (is_rbt => IdleTree(tree, T))
  BY DEF Consistent, Tree!Add, Tree!Running
<1>3. /\ x \in Tree!Nodes \ T /\ tree' = Tree!BstInsert(Tree!Blank(tree, x, c), x) /\ is_rbt' = is_rbt
      /\ IF is_rbt THEN pc' = "float_up" /\ n' = x /\ p' = 0 ELSE pc' = "idle" /\ n' = 0 /\ p' = 0
  BY <1>1, <1>2, InTreeIs DEF Tree!Add, Tree!Running, Tree!Goto, Tree!Return, Tree!NULL_ID
<1>4. PICK t, u : t = tree /\ u = tree'
  OBVIOUS
<1>5. /\ SearchTreeOf(u, T \cup {x})
      /\ c = Tree!RED /\ IdleTree(t, T) => FloatingTree(u, T \cup {x}, x)
  BY <1>2, <1>3, <1>4, InsertKeeps
<1>6. x # 0
  BY DEF Tree!KeysAreNumbers, Tree!NULL_ID
<1>. QED
  BY <1>1, <1>2, <1>3, <1>4, <1>5, <1>6 DEF Consistent

LEMMA DeleteConsistent ==
    ASSUME Tree!KeysAreNumbers, NEW T, Consistent(is_rbt, tree, pc, n, p, T), NEW x \in Tree!Nodes, Tree!Delete(x)
    PROVE  x \in T /\ Consistent(is_rbt', tree', pc', n', p', T \ {x})
<1>1. /\ is_rbt \in BOOLEAN /\ SearchTreeOf(tree, T) /\ pc = "idle" /\ (is_rbt => IdleTree(tree, T))
  BY DEF Consistent, Tree!Delete, Tree!Running
<1>2. PICK t, S : t = tree /\ S = T \ {x}
  OBVIOUS
<1>3. PICK t1 : t1 = IF Tree!HasTwoChildren(t, x) THEN Tree!SwapWithSuccessor(t, x) ELSE t
  OBVIOUS
<1>4. PICK t2 : t2 = Tree!Assert(t1, Tree!HasTwoChildren(t, x) => t1.child[Tree!LEFT][x] = Tree!NULL_ID)
  OBVIOUS
<1>5. PICK q, u : q = Tree!DoubleBlackParent(t2, x) /\ u = Tree!Blank(Tree!Unlink(t2, x), x, Tree!BLACK)
  OBVIOUS
<1>6. /\ x \in T /\ tree' = u /\ is_rbt' = is_rbt
      /\ IF q = 0 THEN pc' = "idle" /\ n' = 0 /\ p' = 0 ELSE pc' = "rebalance" /\ n' = 0 /\ p' = q
  <2>1. x \in Tree!InTree /\ is_rbt' = is_rbt
    BY DEF Tree!Delete, Tree!Running
  <2>2. /\ tree' = u
        /\ IF q = Tree!NULL_ID THEN Tree!Return ELSE Tree!Goto("rebalance", Tree!NULL_ID, q)
    BY <1>2, <1>3, <1>4, <1>5 DEF Tree!Delete
  <2>. QED
    BY <1>1, <2>1, <2>2, InTreeIs DEF Tree!Return, Tree!Goto, Tree!NULL_ID
<1>7. /\ SearchTreeOf(u, S) /\ u.ok
      /\ IF is_rbt THEN IF q = 0 THEN IdleTree(u, S) ELSE LackingTree(u, S, 0, q) ELSE q = 0
  BY <1>1, <1>2, <1>3, <1>4, <1>5, <1>6, DeleteKeeps
<1>. QED
  BY <1>1, <1>2, <1>6, <1>7 DEF Consistent

LEMMA FloatUpDoneConsistent ==
    ASSUME NEW T, Consistent(is_rbt, tree, pc, n, p, T), Tree!FloatUpDone
    PROVE  Consistent(is_rbt', tree', pc', n', p', T)
<1>1. is_rbt \in BOOLEAN /\ is_rbt /\ SearchTreeOf(tree, T) /\ FloatingTree(tree, T, n)
  BY DEF Consistent, Tree!FloatUpDone, Tree!Running
<1>2. /\ is_rbt' = is_rbt /\ pc' = "idle" /\ n' = 0 /\ p' = 0
      /\ \/ tree.parent[n] = 0 /\ tree' = Tree!SetColor(tree, n, Tree!BLACK)
         \/ tree.parent[n] \notin Tree!Reds \cup {0} /\ tree' = Tree!Assert(tree, n \in Tree!Reds)
  BY DEF Tree!FloatUpDone, Tree!Running, Tree!Return, Tree!Goto, Tree!NULL_ID
<1>3. PICK t, u, x : t = tree /\ u = tree' /\ x = n
  OBVIOUS
<1>4. \/ t.parent[x] = 0 /\ u = Tree!SetColor(t, x, Tree!BLACK)
      \/ t.parent[x] # 0 /\ t.parent[x] \notin RedsOf(t) /\ u = Tree!Assert(t, x \in RedsOf(t))
  BY <1>2, <1>3 DEF Tree!Reds, RedsOf
<1>5. SearchTreeOf(u, T) /\ IdleTree(u, T)
  BY <1>1, <1>3, <1>4, FloatDoneKeeps
<1>. QED
  BY <1>1, <1>2, <1>3, <1>5 DEF Consistent

LEMMA FloatUpConsistent ==
    ASSUME NEW T, Consistent(is_rbt, tree, pc, n, p, T), Tree!FloatUp
    PROVE  Consistent(is_rbt', tree', pc', n', p', T)
<1>1. is_rbt \in BOOLEAN /\ is_rbt /\ SearchTreeOf(tree, T) /\ FloatingTree(tree, T, n)
  BY DEF Consistent, Tree!FloatUp, Tree!Running
<1>2. PICK t, x : t = tree /\ x = n
  OBVIOUS
<1>3. PICK q : q = t.parent[x]
  OBVIOUS
<1>4. PICK g : g = t.parent[q]
  OBVIOUS
<1>5. PICK r : r = Tree!RotationRoot(t, x, q, g)
  OBVIOUS
<1>6. PICK t1 : t1 = Tree!Rotate(Tree!Assert(t, x \in RedsOf(t) /\ g \notin RedsOf(t)), x, q, g)
  OBVIOUS
<1>7. PICK u : u = Tree!SetColor(Tree!SetColor(Tree!SetColor(Tree!SetColor(t1, g, Tree!BLACK), q, Tree!BLACK), x, Tree!BLACK), r, Tree!RED)
  OBVIOUS
<1>8. /\ t.parent[x] \in RedsOf(t) /\ tree' = u /\ is_rbt' = is_rbt
      /\ pc' = "float_up" /\ n' = r /\ p' = 0
  <2>1. Tree!Reds = RedsOf(t)
    BY <1>2 DEF Tree!Reds, RedsOf
  <2>. QED
    BY <1>2, <1>3, <1>4, <1>5, <1>6, <1>7, <2>1 DEF Tree!FloatUp, Tree!Running, Tree!Goto, Tree!NULL_ID
<1>9. SearchTreeOf(u, T) /\ FloatingTree(u, T, r) /\ r \in T
  BY <1>1, <1>2, <1>3, <1>4, <1>5, <1>6, <1>7, <1>8, FloatKeeps
<1>10. r # 0
  BY <1>1, <1>9, TreeFacts
<1>. QED
  BY <1>1, <1>8, <1>9, <1>10 DEF Consistent

LEMMA RebalanceDoneConsistent ==
    ASSUME NEW T, Consistent(is_rbt, tree, pc, n, p, T), Tree!RebalanceDone
    PROVE  Consistent(is_rbt', tree', pc', n', p', T)
<1>1. is_rbt \in BOOLEAN /\ is_rbt /\ SearchTreeOf(tree, T) /\ LackingTree(tree, T, n, p) /\ n = tree.root
  BY DEF Consistent, Tree!RebalanceDone, Tree!Running
<1>2. IdleTree(tree, T)
  BY <1>1 DEF LackingTree, Lacking, Short, IdleTree
<1>3. tree' = tree /\ is_rbt' = is_rbt /\ pc' = "idle" /\ n' = 0 /\ p' = 0
  BY DEF Tree!RebalanceDone, Tree!Running, Tree!Return, Tree!Goto, Tree!NULL_ID
<1>4. PICK t : t = tree
  OBVIOUS
<1>5. SearchTreeOf(t, T) /\ IdleTree(t, T) /\ tree' = t
  BY <1>1, <1>2, <1>3, <1>4
<1>. QED
  BY <1>1, <1>3, <1>5 DEF Consistent

\* In an iteration that does not end the loop the asserts hold.
LEMMA LacksWhere ==
    ASSUME NEW T, Consistent(is_rbt, tree, pc, n, p, T), pc = "rebalance", n # tree.root
    PROVE  /\ is_rbt
           /\ \E d, s, near, far : /\ Lacks(tree, T, d, n, p, s, near, far)
                                   /\ Tree!Family.s = s /\ Tree!Family.near = near /\ Tree!Family.far = far
                                   /\ Tree!Assert(tree, Tree!Family.ok) = tree
<1>1. is_rbt /\ SearchTreeOf(tree, T) /\ LackingTree(tree, T, n, p)
  BY DEF Consistent
<1>2. PICK d : Lacks(tree, T, d, n, p, tree.child[Tree!Other(d)][p], tree.child[d][tree.child[Tree!Other(d)][p]],
                     tree.child[Tree!Other(d)][tree.child[Tree!Other(d)][p]])
  BY <1>1, LackingHas
<1>3. PICK s, near, far : Lacks(tree, T, d, n, p, s, near, far)
  BY <1>2
<1>4. Tree!Family = [s |-> s, near |-> near, far |-> far, ok |-> TRUE]
  BY <1>3, FamilyIs
<1>5. Tree!Family.s = s /\ Tree!Family.near = near /\ Tree!Family.far = far /\ Tree!Family.ok
  BY <1>4
<1>6. tree \in TreeRec /\ tree.ok
  BY <1>1, TreeFacts
<1>7. Tree!Assert(tree, Tree!Family.ok) = tree
  BY <1>5, <1>6, AssertIs
<1>. QED
  BY <1>1, <1>3, <1>5, <1>7

LEMMA RebalanceConsistent ==
    ASSUME NEW T, Consistent(is_rbt, tree, pc, n, p, T),
           Tree!AllBlack \/ Tree!RedSibling \/ Tree!RedParent \/ Tree!RedNear \/ Tree!RedFar
    PROVE  Consistent(is_rbt', tree', pc', n', p', T)
<1>1. pc = "rebalance" /\ n # tree.root /\ is_rbt' = is_rbt
  BY DEF Tree!AllBlack, Tree!RedSibling, Tree!RedParent, Tree!RedNear, Tree!RedFar, Tree!Rebalancing, Tree!Running
<1>2. PICK d, s, near, far : /\ Lacks(tree, T, d, n, p, s, near, far)
                             /\ Tree!Family.s = s /\ Tree!Family.near = near /\ Tree!Family.far = far
                             /\ Tree!Assert(tree, Tree!Family.ok) = tree
  BY <1>1, LacksWhere
<1>3. is_rbt
  BY <1>1, LacksWhere
<1>4. PICK t, u, x, q, R : t = tree /\ u = tree' /\ x = n /\ q = p /\ R = RedsOf(t)
  OBVIOUS
<1>5. Lacks(t, T, d, x, q, s, near, far) /\ Tree!Reds = R
  BY <1>2, <1>4 DEF Tree!Reds, RedsOf
<1>6. s # q /\ near \notin {q, s} /\ far \notin {q, s}
  BY <1>5, LacksFacts
<1>7. CASE Tree!AllBlack
  <2>1. {q, s, near, far} \cap R = {} /\ u = Tree!SetColor(t, s, Tree!RED)
        /\ pc' = "rebalance" /\ n' = q /\ p' = t.parent[q]
    BY <1>2, <1>4, <1>5, <1>7 DEF Tree!AllBlack, Tree!Goto
  <2>2. SearchTreeOf(u, T) /\ LackingTree(u, T, q, t.parent[q])
    BY <1>4, <1>5, <2>1, AllBlackKeeps
  <2>. QED
    BY <1>1, <1>3, <1>4, <2>1, <2>2 DEF Consistent
<1>8. CASE Tree!RedSibling
  <2>1. PICK t1 : t1 = Tree!Rotate(t, far, s, q)
    OBVIOUS
  <2>2. s \in R /\ u = Tree!SetColor(Tree!SetColor(t1, s, Tree!BLACK), q, Tree!RED) /\ pc' = "rebalance" /\ n' = x /\ p' = q
    BY <1>1, <1>2, <1>4, <1>5, <1>8, <2>1 DEF Tree!RedSibling
  <2>3. SearchTreeOf(u, T) /\ LackingTree(u, T, x, q)
    BY <1>4, <1>5, <2>1, <2>2, RedSiblingKeeps
  <2>. QED
    BY <1>1, <1>3, <1>4, <2>2, <2>3 DEF Consistent
<1>9. CASE Tree!RedParent
  <2>1. {q, s, near, far} \cap R = {q} /\ u = Tree!SetColor(Tree!SetColor(t, q, Tree!BLACK), s, Tree!RED)
        /\ pc' = "idle" /\ n' = 0 /\ p' = 0
    BY <1>2, <1>4, <1>5, <1>9 DEF Tree!RedParent, Tree!Return, Tree!Goto, Tree!NULL_ID
  <2>2. q \in R /\ s \notin R /\ near \notin R /\ far \notin R
    BY <1>6, <2>1
  <2>3. SearchTreeOf(u, T) /\ IdleTree(u, T)
    BY <1>4, <1>5, <2>1, <2>2, RedParentKeeps
  <2>. QED
    BY <1>1, <1>3, <1>4, <2>1, <2>3 DEF Consistent
<1>10. CASE Tree!RedNear
  <2>1. PICK t1 : t1 = Tree!Rotate(t, near, s, q)
    OBVIOUS
  <2>2. /\ s \notin R /\ near \in R
        /\ u = Tree!SetColor(Tree!SetColor(Tree!SetColor(t1, q, Tree!BLACK), s, Tree!BLACK), near, t.color[q])
        /\ pc' = "idle" /\ n' = 0 /\ p' = 0
    BY <1>1, <1>2, <1>4, <1>5, <1>10, <2>1 DEF Tree!RedNear, Tree!Return, Tree!Goto, Tree!NULL_ID
  <2>3. SearchTreeOf(u, T) /\ IdleTree(u, T)
    BY <1>4, <1>5, <2>1, <2>2, RedNearKeeps
  <2>. QED
    BY <1>1, <1>3, <1>4, <2>2, <2>3 DEF Consistent
<1>11. CASE Tree!RedFar
  <2>1. PICK t1 : t1 = Tree!Rotate(t, far, s, q)
    OBVIOUS
  <2>2. /\ {s, near} \cap R = {} /\ far \in R
        /\ u = Tree!SetColor(Tree!SetColor(Tree!SetColor(t1, q, Tree!BLACK), s, t.color[q]), far, Tree!BLACK)
        /\ pc' = "idle" /\ n' = 0 /\ p' = 0
    BY <1>1, <1>2, <1>4, <1>5, <1>11, <2>1 DEF Tree!RedFar, Tree!Return, Tree!Goto, Tree!NULL_ID
  <2>3. SearchTreeOf(u, T) /\ IdleTree(u, T)
    BY <1>4, <1>5, <2>1, <2>2, RedFarKeeps
  <2>. QED
    BY <1>1, <1>3, <1>4, <2>2, <2>3 DEF Consistent
<1>. QED
  BY <1>7, <1>8, <1>9, <1>10, <1>11

LEMMA IterateConsistent ==
    ASSUME NEW T, Consistent(is_rbt, tree, pc, n, p, T), Tree!Iterate
    PROVE  Consistent(is_rbt', tree', pc', n', p', T)
<1>1. \/ Tree!FloatUpDone \/ Tree!FloatUp \/ Tree!RebalanceDone
      \/ (Tree!AllBlack \/ Tree!RedSibling \/ Tree!RedParent \/ Tree!RedNear \/ Tree!RedFar)
  BY DEF Tree!Iterate
<1>. QED
  BY <1>1, FloatUpDoneConsistent, FloatUpConsistent, RebalanceDoneConsistent, RebalanceConsistent

\* What holds at every step.
TreeInv == \E T : Consistent(is_rbt, tree, pc, n, p, T)

LEMMA NextConsistent ==
    ASSUME Tree!KeysAreNumbers, TreeInv, [Tree!Next]_(Tree!vars)
    PROVE  TreeInv'
<1>1. PICK T : Consistent(is_rbt, tree, pc, n, p, T)
  BY DEF TreeInv
<1>2. ASSUME NEW x \in Tree!Nodes, Tree!Add(x)
      PROVE  TreeInv'
  BY <1>1, <1>2, AddConsistent DEF TreeInv
<1>3. ASSUME NEW x \in Tree!Nodes, Tree!Delete(x)
      PROVE  TreeInv'
  BY <1>1, <1>3, DeleteConsistent DEF TreeInv
<1>4. CASE Tree!Iterate
  BY <1>1, <1>4, IterateConsistent DEF TreeInv
<1>5. CASE UNCHANGED Tree!vars
  BY <1>1, <1>5 DEF Tree!vars, TreeInv
<1>. QED
  BY <1>2, <1>3, <1>4, <1>5 DEF Tree!Next

\* No assert fails: the switch of rbt_internal_delete knows the case.
LEMMA ConsistentAsserts ==
    ASSUME TreeInv
    PROVE  Tree!AssertsHold
<1>1. PICK T : Consistent(is_rbt, tree, pc, n, p, T)
  BY DEF TreeInv
<1>2. tree.ok
  BY <1>1, TreeFacts DEF Consistent
<1>3. Tree!CaseListed
  <2>1. SUFFICES ASSUME pc = "rebalance", n # tree.root, Tree!Family.s \in Tree!Reds
                 PROVE  {p, Tree!Family.near, Tree!Family.far} \cap Tree!Reds = {}
    BY DEF Tree!CaseListed
  <2>2. PICK d, s, near, far : /\ Lacks(tree, T, d, n, p, s, near, far)
                               /\ Tree!Family.s = s /\ Tree!Family.near = near /\ Tree!Family.far = far
    BY <1>1, <2>1, LacksWhere
  <2>3. RedsOf(tree) = Tree!Reds
    BY DEF Tree!Reds, RedsOf
  <2>4. s \in Tree!Reds => p \notin Tree!Reds /\ near \notin Tree!Reds /\ far \notin Tree!Reds
    BY <2>2, <2>3, LacksFacts
  <2>. QED
    BY <2>1, <2>2, <2>4
<1>. QED
  BY <1>2, <1>3 DEF Tree!AssertsHold

-----------------------------------------------------------------------------
(* What the recursions of the code find.                                   *)

\* The pointers a recursion over the tree follows.
LEMMA Pointers ==
    ASSUME NEW t, NEW T, SearchTreeOf(t, T)
    PROVE  \E pos : /\ Fits(T, t.root, t.child[Tree!LEFT], t.child[Tree!RIGHT], t.parent, pos)
                    /\ Sorted(T, pos, Keys(T)) /\ T \subseteq Tree!Nodes /\ 0 \notin Tree!Nodes
                    /\ \A z \in Tree!Nodes \ T : t.child[Tree!LEFT][z] = 0 /\ t.child[Tree!RIGHT][z] = 0
BY DEF SearchTreeOf, TreeOf, Clear, Node

LEMMA InOrderIs ==
    ASSUME NEW t, NEW T, SearchTreeOf(t, T)
    PROVE  \E pos : Sorted(T, pos, Keys(T)) /\ Ordered(Tree!InOrder(t, t.root), T, pos)
<1>1. PICK pos : /\ Fits(T, t.root, t.child[Tree!LEFT], t.child[Tree!RIGHT], t.parent, pos)
                 /\ Sorted(T, pos, Keys(T)) /\ T \subseteq Tree!Nodes /\ 0 \notin Tree!Nodes
                 /\ \A z \in Tree!Nodes \ T : t.child[Tree!LEFT][z] = 0 /\ t.child[Tree!RIGHT][z] = 0
  BY Pointers
<1>. DEFINE A == t.child[Tree!LEFT]
            B == t.child[Tree!RIGHT]
            Eq(f) == f = [r \in Tree!Nodes \cup {0} |-> IF r = 0 THEN <<>> ELSE f[A[r]] \o <<r>> \o f[B[r]]]
            order == CHOOSE f : Eq(f)
<1>2. Lists(T, Tree!Nodes, t.root, A, B, pos)
  BY <1>1, RowIs
<1>3. (\E f : Eq(f)) /\ \A f : Eq(f) => Ordered(f[t.root], T, pos)
  <2>. HIDE DEF A, B
  <2>. QED
    BY <1>2, Zenon DEF Lists
<1>4. Eq(order)
  <2>. HIDE DEF Eq
  <2>. QED
    BY <1>3, Zenon
<1>5. Tree!InOrder(t, t.root) = order[t.root]
  BY Zenon DEF Tree!InOrder, Tree!NULL_ID
<1>6. Ordered(order[t.root], T, pos)
  <2>. HIDE DEF order, Eq
  <2>. QED
    BY <1>3, <1>4
<1>. QED
  BY <1>1, <1>5, <1>6, Zenon

LEMMA UnderRootIs ==
    ASSUME NEW T, SearchTreeOf(tree, T)
    PROVE  Tree!Under(tree.root) = T
<1>1. PICK pos : /\ Fits(T, tree.root, tree.child[Tree!LEFT], tree.child[Tree!RIGHT], tree.parent, pos)
                 /\ Sorted(T, pos, Keys(T)) /\ T \subseteq Tree!Nodes /\ 0 \notin Tree!Nodes
                 /\ \A z \in Tree!Nodes \ T : tree.child[Tree!LEFT][z] = 0 /\ tree.child[Tree!RIGHT][z] = 0
  BY Pointers
<1>. DEFINE A == tree.child[Tree!LEFT]
            B == tree.child[Tree!RIGHT]
            Eq(f) == f = [r \in Tree!Nodes \cup {0} |-> IF r = 0 THEN {} ELSE {r} \cup f[A[r]] \cup f[B[r]]]
            under == CHOOSE f : Eq(f)
<1>2. Collects(T, Tree!Nodes, tree.root, A, B)
  BY <1>1, UnderIs
<1>3. (\E f : Eq(f)) /\ \A f : Eq(f) => f[tree.root] = T
  <2>. HIDE DEF A, B
  <2>. QED
    BY <1>2, Zenon DEF Collects
<1>4. Eq(under)
  <2>. HIDE DEF Eq
  <2>. QED
    BY <1>3, Zenon
<1>5. Tree!Under(tree.root) = under[tree.root]
  BY Zenon DEF Tree!Under, Tree!NULL_ID
<1>. HIDE DEF under, Eq
<1>. QED
  BY <1>3, <1>4, <1>5

\* A node of the key is found when there is one.
LEMMA FindFinds ==
    ASSUME Tree!KeysAreNumbers, NEW t, NEW T, SearchTreeOf(t, T), NEW key \in Int
    PROVE  Tree!Find(t, t.root, key) # 0 <=> \E z \in T : Key(z) = key
<1>1. PICK pos : /\ Fits(T, t.root, t.child[Tree!LEFT], t.child[Tree!RIGHT], t.parent, pos)
                 /\ Sorted(T, pos, Keys(T)) /\ T \subseteq Tree!Nodes /\ 0 \notin Tree!Nodes
                 /\ \A z \in Tree!Nodes \ T : t.child[Tree!LEFT][z] = 0 /\ t.child[Tree!RIGHT][z] = 0
  BY Pointers
<1>. DEFINE A == t.child[Tree!LEFT]
            B == t.child[Tree!RIGHT]
            k == Keys(Tree!Nodes)
            Eq(f) == f = [r \in Tree!Nodes \cup {0} |->
                             IF r = 0 THEN 0
                               ELSE CASE key = k[r] -> r [] key < k[r] -> f[A[r]] [] OTHER -> f[B[r]]]
            Code(f) == f = [r \in Tree!Nodes \cup {0} |->
                             IF r = 0 THEN 0
                               ELSE CASE key = Key(r) -> r [] key < Key(r) -> f[A[r]] [] OTHER -> f[B[r]]]
            find == CHOOSE f : Code(f)
<1>2. /\ k \in [Tree!Nodes -> Int] /\ \A z \in Tree!Nodes : k[z] = Key(z)
      /\ \A z \in T : Keys(T)[z] = k[z]
  BY <1>1, KeysAre
<1>3. (\E f : Eq(f)) /\ \A f : Eq(f) => (f[t.root] # 0 <=> \E z \in T : k[z] = key)
  <2>. HIDE DEF A, B, k
  <2>1. Finds(T, Tree!Nodes, t.root, A, B, k, key)
    <3>1. /\ Fits(T, t.root, A, B, t.parent, pos)
          /\ Sorted(T, pos, Keys(T)) /\ T \subseteq Tree!Nodes /\ 0 \notin Tree!Nodes
          /\ \A z \in Tree!Nodes \ T : A[z] = 0 /\ B[z] = 0
      BY <1>1 DEF A, B
    <3>2. k \in [Tree!Nodes -> Int] /\ \A z \in T : Keys(T)[z] = k[z]
      BY <1>2
    <3>. QED
      BY <3>1, <3>2, FindIs
  <2>. QED
    BY <2>1, Zenon DEF Finds
<1>4. ASSUME NEW f
      PROVE  Code(f) <=> Eq(f)
  <2>. DEFINE body1(r) == IF r = 0 THEN 0
                          ELSE CASE key = Key(r) -> r [] key < Key(r) -> f[A[r]] [] OTHER -> f[B[r]]
              body2(r) == IF r = 0 THEN 0
                          ELSE CASE key = k[r] -> r [] key < k[r] -> f[A[r]] [] OTHER -> f[B[r]]
  <2>1. ASSUME NEW r \in Tree!Nodes \cup {0}
        PROVE  body1(r) = body2(r)
    <3>1. CASE r = 0
      BY <3>1
    <3>2. CASE r # 0
      <4>1. k[r] = Key(r)
        BY <1>2, <3>2
      <4>. HIDE DEF k, A, B
      <4>. QED
        BY <3>2, <4>1
    <3>. QED
      BY <3>1, <3>2
  <2>2. Code(f) <=> f = [r \in Tree!Nodes \cup {0} |-> body1(r)]
    OBVIOUS
  <2>3. Eq(f) <=> f = [r \in Tree!Nodes \cup {0} |-> body2(r)]
    OBVIOUS
  <2>. HIDE DEF body1, body2, Code, Eq
  <2>. QED
    BY <2>1, <2>2, <2>3
<1>5. Code(find)
  <2>1. \E f : Code(f)
    BY <1>3, <1>4
  <2>. HIDE DEF Code
  <2>. QED
    BY <2>1, Zenon
<1>6. Tree!Find(t, t.root, key) = find[t.root]
  BY Zenon DEF Tree!Find, Tree!NULL_ID
<1>7. Eq(find)
  BY <1>4, <1>5, Zenon
<1>8. find[t.root] # 0 <=> \E z \in T : k[z] = key
  <2>. HIDE DEF find, Eq, k
  <2>. QED
    BY <1>3, <1>7
<1>9. \A z \in T : k[z] = Key(z)
  BY <1>1, <1>2
<1>. HIDE DEF find, k
<1>. QED
  BY <1>6, <1>8, <1>9

\* bst_find_succ finds a closest node.
LEMMA SuccFinds ==
    ASSUME Tree!KeysAreNumbers, NEW t, NEW T, SearchTreeOf(t, T), NEW key \in Int
    PROVE  Closest(T, Keys(Tree!Nodes), key, 0, Infinite, Tree!FindSucc(t, key))
<1>1. PICK pos : /\ Fits(T, t.root, t.child[Tree!LEFT], t.child[Tree!RIGHT], t.parent, pos)
                 /\ Sorted(T, pos, Keys(T)) /\ T \subseteq Tree!Nodes /\ 0 \notin Tree!Nodes
                 /\ \A z \in Tree!Nodes \ T : t.child[Tree!LEFT][z] = 0 /\ t.child[Tree!RIGHT][z] = 0
  BY Pointers
<1>. DEFINE A == t.child[Tree!LEFT]
            B == t.child[Tree!RIGHT]
            k == Keys(Tree!Nodes)
            X == Tree!Nodes \cup {0}
            body1(f, v) == IF v[1] = 0 THEN v[2]
                           ELSE CASE key = Key(v[1]) -> v[1]
                                  [] key < Key(v[1]) -> IF Key(v[1]) <= v[3]
                                                        THEN f[<<A[v[1]], v[1], Key(v[1])>>]
                                                        ELSE f[<<A[v[1]], v[2], v[3]>>]
                                  [] OTHER -> f[<<B[v[1]], v[2], v[3]>>]
            body2(f, v) == IF v[1] = 0 THEN v[2]
                           ELSE CASE key = k[v[1]] -> v[1]
                                  [] key < k[v[1]] -> IF k[v[1]] <= v[3]
                                                      THEN f[<<A[v[1]], v[1], k[v[1]]>>]
                                                      ELSE f[<<A[v[1]], v[2], v[3]>>]
                                  [] OTHER -> f[<<B[v[1]], v[2], v[3]>>]
            Eq(f) == f = [v \in X \X X \X Int |-> body2(f, v)]
            Code(f) == f = [v \in X \X X \X Int |-> body1(f, v)]
            find == CHOOSE f : Code(f)
<1>2. /\ k \in [Tree!Nodes -> Int] /\ \A z \in Tree!Nodes : k[z] = Key(z)
      /\ \A z \in T : Keys(T)[z] = k[z]
  BY <1>1, KeysAre
<1>3. (\E f : Eq(f)) /\ \A f : Eq(f) => Closest(T, k, key, 0, Infinite, f[<<t.root, 0, Infinite>>])
  <2>. HIDE DEF A, B, k
  <2>1. FindsClosest(T, Tree!Nodes, t.root, A, B, k, key, Infinite)
    <3>1. /\ Fits(T, t.root, A, B, t.parent, pos)
          /\ Sorted(T, pos, Keys(T)) /\ T \subseteq Tree!Nodes /\ 0 \notin Tree!Nodes
          /\ \A z \in Tree!Nodes \ T : A[z] = 0 /\ B[z] = 0
      BY <1>1 DEF A, B
    <3>2. k \in [Tree!Nodes -> Int] /\ \A z \in T : Keys(T)[z] = k[z]
      BY <1>2
    <3>3. Infinite \in Int
      BY DEF Tree!KeysAreNumbers
    <3>. QED
      BY <3>1, <3>2, <3>3, SuccIs
  <2>. QED
    BY <2>1, Zenon DEF FindsClosest
<1>4. ASSUME NEW f
      PROVE  Code(f) <=> Eq(f)
  <2>1. ASSUME NEW v \in X \X X \X Int
        PROVE  body1(f, v) = body2(f, v)
    <3>1. CASE v[1] = 0
      BY <3>1
    <3>2. CASE v[1] # 0
      <4>1. v[1] \in Tree!Nodes
        BY <3>2
      <4>2. k[v[1]] = Key(v[1])
        BY <1>2, <4>1
      <4>. HIDE DEF k, A, B
      <4>. QED
        BY <3>2, <4>2
    <3>. QED
      BY <3>1, <3>2
  <2>2. Code(f) <=> f = [v \in X \X X \X Int |-> body1(f, v)]
    OBVIOUS
  <2>3. Eq(f) <=> f = [v \in X \X X \X Int |-> body2(f, v)]
    OBVIOUS
  <2>. HIDE DEF body1, body2, Code, Eq, X
  <2>. QED
    BY <2>1, <2>2, <2>3
<1>5. Code(find)
  <2>1. \E f : Code(f)
    BY <1>3, <1>4
  <2>. HIDE DEF Code
  <2>. QED
    BY <2>1, Zenon
<1>6. Tree!FindSuccFrom(t, t.root, key, 0, Infinite) = find[<<t.root, 0, Infinite>>]
  BY Zenon DEF Tree!FindSuccFrom, Tree!NULL_ID
<1>7. Tree!FindSucc(t, key) = Tree!FindSuccFrom(t, t.root, key, 0, Infinite)
  BY DEF Tree!FindSucc, Tree!NULL_ID
<1>8. Eq(find)
  BY <1>4, <1>5, Zenon
<1>. HIDE DEF find, Eq, k
<1>9. Closest(T, k, key, 0, Infinite, find[<<t.root, 0, Infinite>>])
  BY <1>3, <1>8
<1>. QED
  BY <1>6, <1>7, <1>9 DEF k

\* No tree has no paths.
LEMMA NothingToCount ==
    ASSUME NEW N, 0 \notin N, NEW A, NEW B, \A z \in N : A[z] = 0 /\ B[z] = 0,
           NEW c, NEW red, NEW m, NEW x, NEW q
    PROVE  CountsEvenly(N, 0, A, B, c, red, m, x, q)
<1>. DEFINE X == N \cup {0}
            extra(v) == IF m = "rebalance" /\ v = <<x, q>> THEN 1 ELSE 0
            body(f, v) == LET l == f[<<A[v[1]], v[1]>>]
                              g == f[<<B[v[1]], v[1]>>]
                              more == IF m = "rebalance" /\ v = <<x, q>> THEN 1 ELSE 0
                          IN  IF v[1] = 0 THEN more
                              ELSE IF l # g \/ l = -1 THEN -1
                              ELSE l + more + (IF c[v[1]] = red THEN 0 ELSE 1)
            sum(v) == extra(<<0, v[1]>>) + extra(v) + (IF c[v[1]] = red THEN 0 ELSE 1)
            height == [v \in X \X X |-> IF v[1] = 0 THEN extra(v) ELSE sum(v)]
            Eq(f) == f = [v \in X \X X |-> body(f, v)]
<1>1. ASSUME NEW v \in X \X X
      PROVE  height[v] = body(height, v)
  <2>1. CASE v[1] = 0
    BY <2>1
  <2>2. CASE v[1] # 0
    <3>1. v[1] \in N /\ A[v[1]] = 0 /\ B[v[1]] = 0 /\ <<0, v[1]>> \in X \X X /\ <<0, v[1]>>[1] = 0
      BY <2>2
    <3>2. PICK e : e = extra(<<0, v[1]>>)
      OBVIOUS
    <3>3. height[<<0, v[1]>>] = e /\ e \in {0, 1}
      <4>1. e \in {0, 1}
        BY <3>2
      <4>. HIDE DEF extra
      <4>. QED
        BY <3>1, <3>2, <4>1
    <3>4. height[v] = e + extra(v) + (IF c[v[1]] = red THEN 0 ELSE 1)
      <4>. HIDE DEF extra
      <4>. QED
        BY <2>2, <3>2
    <3>5. PICK k : k = height
      OBVIOUS
    <3>6. k[<<A[v[1]], v[1]>>] = e /\ k[<<B[v[1]], v[1]>>] = e
      <4>. HIDE DEF height
      <4>. QED
        BY <3>1, <3>3, <3>5
    <3>7. body(k, v) = e + extra(v) + (IF c[v[1]] = red THEN 0 ELSE 1)
      <4>. HIDE DEF height
      <4>. QED
        BY <2>2, <3>3, <3>6
    <3>. HIDE DEF body, sum, height
    <3>. QED
      BY <3>4, <3>5, <3>7
  <2>. QED
    BY <2>1, <2>2
<1>2. \E f : Eq(f)
  <2>1. height = [v \in X \X X |-> height[v]]
    OBVIOUS
  <2>. HIDE DEF body, height
  <2>2. Eq(height)
    BY <1>1, <2>1
  <2>. HIDE DEF Eq
  <2>. QED
    BY <2>2
<1>3. ASSUME NEW f, Eq(f)
      PROVE  f[<<0, 0>>] # -1
  <2>1. <<0, 0>> \in X \X X
    OBVIOUS
  <2>2. f[<<0, 0>>] = body(f, <<0, 0>>)
    <3>. HIDE DEF body, X
    <3>. QED
      BY <1>3, <2>1
  <2>3. body(f, <<0, 0>>) \in {0, 1}
    OBVIOUS
  <2>. HIDE DEF body, X
  <2>. QED
    BY <2>2, <2>3
<1>. QED
  BY <1>2, <1>3, Zenon DEF CountsEvenly

\* The heights of the inductive invariant are counted.
LEMMA ConsistentCounts ==
    ASSUME NEW t, NEW m, NEW x, NEW q, NEW T, Consistent(TRUE, t, m, x, q, T)
    PROVE  \E h, a, b : /\ Even(T, t.child[Tree!LEFT], t.child[Tree!RIGHT], RedsOf(t), h, a, b)
                        /\ Counts(T, Tree!Nodes, t.child[Tree!LEFT], t.child[Tree!RIGHT], a, b, m, x, q)
<1>. DEFINE Goal == \E h, a, b : /\ Even(T, t.child[Tree!LEFT], t.child[Tree!RIGHT], RedsOf(t), h, a, b)
                                 /\ Counts(T, Tree!Nodes, t.child[Tree!LEFT], t.child[Tree!RIGHT], a, b, m, x, q)
<1>1. /\ SearchTreeOf(t, T) /\ T \subseteq Tree!Nodes /\ 0 \notin Tree!Nodes
      /\ Links(T, t.root, t.child[Tree!LEFT], t.child[Tree!RIGHT], t.parent)
      /\ Links(T, t.root, t.child[Tree!RIGHT], t.child[Tree!LEFT], t.parent)
  <2>1. SearchTreeOf(t, T)
    BY DEF Consistent
  <2>2. Tree!Other(Tree!LEFT) = Tree!RIGHT /\ Tree!Other(Tree!RIGHT) = Tree!LEFT /\ Tree!LEFT \in Sides /\ Tree!RIGHT \in Sides
    BY SidesAre DEF Tree!Other
  <2>. QED
    BY <2>1, <2>2, TreeFacts
<1>2. PICK A, B, R : A = t.child[Tree!LEFT] /\ B = t.child[Tree!RIGHT] /\ R = RedsOf(t)
  OBVIOUS
<1>3. CASE m # "rebalance" \/ q = 0
  <2>1. \E h : Even(T, A, B, R, h, 0, 0)
    <3>1. ASSUME m = "rebalance"
          PROVE  LackingTree(t, T, x, q) /\ q = 0
      BY <1>3, <3>1 DEF Consistent
    <3>2. m # "rebalance" => IdleTree(t, T) \/ FloatingTree(t, T, x)
      BY DEF Consistent
    <3>3. m = "rebalance" => IdleTree(t, T)
      <4>1. SUFFICES ASSUME m = "rebalance" PROVE IdleTree(t, T)
        OBVIOUS
      <4>. QED
        BY <1>1, <3>1, <4>1 DEF LackingTree, Lacking, Short, IdleTree
    <3>4. IdleTree(t, T) \/ FloatingTree(t, T, x)
      BY <3>2, <3>3
    <3>. QED
      BY <1>2, <3>4 DEF IdleTree, FloatingTree, Idle, Floating
  <2>2. Counts(T, Tree!Nodes, A, B, 0, 0, m, x, q)
    BY <1>1, <1>3 DEF Counts
  <2>. QED
    BY <1>2, <2>1, <2>2
<1>4. CASE m = "rebalance" /\ q # 0
  <2>1. LackingTree(t, T, x, q)
    BY <1>4 DEF Consistent
  <2>2. CASE Short(T, t.root, A, B, t.parent, R, x, q)
    <3>1. PICK h : Even(T, A, B, R, h, q, 0)
      BY <2>2 DEF Short
    <3>2. q \in T /\ A[q] = x /\ B[q] # x
      BY <1>1, <1>2, <2>2, Relatives
    <3>3. Counts(T, Tree!Nodes, A, B, q, 0, m, x, q)
      BY <1>1, <1>4, <3>2 DEF Counts
    <3>. QED
      BY <1>2, <3>1, <3>3
  <2>3. CASE Short(T, t.root, B, A, t.parent, R, x, q)
    <3>1. PICK h : Even(T, B, A, R, h, q, 0)
      BY <2>3 DEF Short
    <3>2. q \in T /\ B[q] = x /\ A[q] # x
      BY <1>1, <1>2, <2>3, Relatives
    <3>3. Counts(T, Tree!Nodes, A, B, 0, q, m, x, q)
      BY <1>1, <1>4, <3>2 DEF Counts
    <3>4. Even(T, A, B, R, h, 0, q)
      BY <3>1, EvenMirror
    <3>. QED
      BY <1>2, <3>3, <3>4
  <2>. QED
    BY <1>2, <1>4, <2>1, <2>2, <2>3 DEF LackingTree, Lacking
<1>. QED
  BY <1>3, <1>4

LEMMA BlackHeightIs ==
    ASSUME NEW T, Consistent(TRUE, tree, pc, n, p, T)
    PROVE  Tree!BlackHeight(tree.root, Tree!NULL_ID) # -1
<1>. DEFINE A == tree.child[Tree!LEFT]
            B == tree.child[Tree!RIGHT]
            Node2 == Tree!Nodes \cup {0}
            Eq(f) == f = [v \in Node2 \X Node2 |->
                            LET l == f[<<A[v[1]], v[1]>>]
                                g == f[<<B[v[1]], v[1]>>]
                                extra == IF pc = "rebalance" /\ v = <<n, p>> THEN 1 ELSE 0
                            IN  IF v[1] = 0 THEN extra
                                ELSE IF l # g \/ l = -1 THEN -1
                                ELSE l + extra + (IF tree.color[v[1]] = Tree!RED THEN 0 ELSE 1)]
            height == CHOOSE f : Eq(f)
<1>1. SearchTreeOf(tree, T)
  BY DEF Consistent
<1>2. CountsEvenly(Tree!Nodes, tree.root, A, B, tree.color, Tree!RED, pc, n, p)
  <2>1. PICK pos : /\ Fits(T, tree.root, A, B, tree.parent, pos)
                   /\ T \subseteq Tree!Nodes /\ 0 \notin Tree!Nodes
                   /\ \A z \in Tree!Nodes \ T : A[z] = 0 /\ B[z] = 0
    BY <1>1, Pointers
  <2>2. CASE T = {}
    <3>1. tree.root = 0
      BY <2>1, <2>2 DEF Fits, Shape, Rooted
    <3>2. \A z \in Tree!Nodes : A[z] = 0 /\ B[z] = 0
      BY <2>1, <2>2
    <3>. HIDE DEF A, B
    <3>. QED
      BY <2>1, <3>1, <3>2, NothingToCount
  <2>3. CASE T # {}
    <3>1. PICK h, a, b : /\ Even(T, A, B, RedsOf(tree), h, a, b)
                         /\ Counts(T, Tree!Nodes, A, B, a, b, pc, n, p)
      BY ConsistentCounts
    <3>2. RedsOf(tree) \subseteq T /\ \A z \in Tree!Nodes : z \in RedsOf(tree) <=> tree.color[z] = Tree!RED
      BY <1>1, TreeFacts DEF RedsOf
    <3>3. PICK R, c : R = RedsOf(tree) /\ c = tree.color
      OBVIOUS
    <3>4. R \subseteq T /\ \A z \in Tree!Nodes : z \in R <=> c[z] = Tree!RED
      BY <3>2, <3>3
    <3>. HIDE DEF A, B
    <3>. QED
      BY <2>1, <2>3, <3>1, <3>3, <3>4, HeightIs
  <2>. QED
    BY <2>2, <2>3
<1>3. (\E f : Eq(f)) /\ \A f : Eq(f) => f[<<tree.root, 0>>] # -1
  <2>. HIDE DEF A, B
  <2>. QED
    BY <1>2, Zenon DEF CountsEvenly
<1>4. Eq(height)
  <2>. HIDE DEF Eq
  <2>. QED
    BY <1>3, Zenon
<1>5. Tree!BlackHeight(tree.root, Tree!NULL_ID) = height[<<tree.root, 0>>]
  BY Zenon DEF Tree!BlackHeight, Tree!NULL_ID
<1>. HIDE DEF height, Eq
<1>. QED
  BY <1>3, <1>4, <1>5

-----------------------------------------------------------------------------
(* The properties.                                                         *)

LEMMA SameCardinality ==
    ASSUME NEW S
    PROVE  Tree!Cardinality(S) = Cardinality(S)
BY Zenon DEF Tree!Cardinality, Cardinality, Tree!IsFiniteSet, IsFiniteSet

LEMMA ConsistentSearch ==
    ASSUME Tree!KeysAreNumbers, TreeInv
    PROVE  Tree!SearchTree
<1>1. PICK T : Consistent(is_rbt, tree, pc, n, p, T)
  BY DEF TreeInv
<1>2. SearchTreeOf(tree, T)
  BY <1>1 DEF Consistent
<1>3. Tree!InTree = T
  BY <1>2, InTreeIs
<1>4. PICK s : s = Tree!InOrder(tree, tree.root)
  OBVIOUS
<1>5. PICK pos : Sorted(T, pos, Keys(T)) /\ Ordered(s, T, pos)
  BY <1>2, <1>4, InOrderIs
<1>6. /\ T \subseteq Tree!Nodes /\ 0 \notin Tree!Nodes /\ Clear(tree, T)
      /\ \A d \in Sides : Links(T, tree.root, tree.child[d], tree.child[Tree!Other(d)], tree.parent)
  BY <1>2, TreeFacts
<1>7. Len(s) = Cardinality(T) /\ {s[i] : i \in DOMAIN s} = T /\ s \in Seq(T)
  BY <1>5 DEF Ordered
<1>8. ASSUME NEW i \in 1 .. Len(s) - 1
      PROVE  Key(s[i]) <= Key(s[i + 1])
  <2>1. i \in DOMAIN s /\ i + 1 \in DOMAIN s
    BY <1>7
  <2>2. s[i] \in T /\ s[i + 1] \in T
    BY <1>7, <2>1
  <2>3. pos[s[i]] < pos[s[i + 1]]
    BY <1>5 DEF Ordered
  <2>4. Keys(T)[s[i]] <= Keys(T)[s[i + 1]]
    BY <1>5, <2>2, <2>3 DEF Sorted
  <2>. QED
    BY <1>6, <2>2, <2>4, KeysAre
<1>9. ASSUME NEW d \in Sides, NEW x \in T, tree.child[d][x] # 0
      PROVE  tree.parent[tree.child[d][x]] = x
  <2>1. Links(T, tree.root, tree.child[d], tree.child[Tree!Other(d)], tree.parent)
    BY <1>6
  <2>. QED
    BY <1>9, <2>1 DEF Links
<1>10. tree.parent[tree.root] = 0
  <2>1. Links(T, tree.root, tree.child[Tree!LEFT], tree.child[Tree!RIGHT], tree.parent)
    BY <1>6, SidesAre
  <2>2. CASE tree.root \in T
    BY <2>1, <2>2 DEF Links
  <2>3. CASE tree.root \notin T
    BY <1>6, <2>1, <2>3 DEF Links, Clear, Node, Tree!NULL_ID
  <2>. QED
    BY <2>2, <2>3
<1>. QED
  BY <1>3, <1>4, <1>7, <1>8, <1>9, <1>10, SameCardinality DEF Tree!SearchTree, Sides, Tree!NULL_ID

LEMMA ConsistentLookups ==
    ASSUME Tree!KeysAreNumbers, TreeInv
    PROVE  Tree!LookupsExact
<1>1. PICK T : Consistent(is_rbt, tree, pc, n, p, T)
  BY DEF TreeInv
<1>2. SearchTreeOf(tree, T) /\ T \subseteq Tree!Nodes /\ 0 \notin T
  BY <1>1, TreeFacts DEF Consistent
<1>3. Tree!InTree = T
  BY <1>2, InTreeIs
<1>. DEFINE Exact(key, above, succ) ==
               /\ (Tree!Find(tree, tree.root, key) # Tree!NULL_ID) <=> \E x \in above : Key(x) = key
               /\ IF succ = Tree!NULL_ID
                  THEN \A x \in above : Key(x) > Infinite
                  ELSE succ \in above /\ \A x \in above : Key(succ) <= Key(x)
<1>4. ASSUME NEW key \in Int
      PROVE  Exact(key, {x \in Tree!InTree : Key(x) >= key}, Tree!FindSucc(tree, key))
  <2>1. PICK succ : succ = Tree!FindSucc(tree, key)
    OBVIOUS
  <2>2. PICK above : above = {x \in T : Key(x) >= key}
    OBVIOUS
  <2>3. key \in Int /\ Infinite \in Int /\ \A z \in T : Key(z) \in Int
    BY <1>2 DEF Tree!KeysAreNumbers
  <2>4. Tree!Find(tree, tree.root, key) # 0 <=> \E z \in T : Key(z) = key
    BY <1>2, <2>3, FindFinds
  <2>5. (\E z \in T : Key(z) = key) <=> \E z \in above : Key(z) = key
    BY <2>2, <2>3
  <2>6. Closest(T, Keys(Tree!Nodes), key, 0, Infinite, succ)
    BY <1>2, <2>1, <2>3, SuccFinds
  <2>7. \A z \in T : Keys(Tree!Nodes)[z] = Key(z)
    BY <1>2, KeysAre
  <2>8. \/ succ = 0 /\ \A z \in above : Infinite < Key(z)
        \/ succ \in above /\ \A z \in above : Key(succ) <= Key(z)
    BY <2>2, <2>3, <2>6, <2>7 DEF Closest
  <2>9. 0 \notin above /\ \A z \in above : Key(z) \in Int
    BY <1>2, <2>2, <2>3
  <2>10. Exact(key, above, succ)
    BY <2>3, <2>4, <2>5, <2>8, <2>9 DEF Tree!NULL_ID
  <2>. HIDE DEF Exact
  <2>. QED
    BY <1>3, <2>1, <2>2, <2>10
<1>5. Tree!LookupsExact <=> (pc = "idle" => \A y \in Tree!Nodes : \A i \in {0, 1} :
                           Exact(Key(y) - i, {x \in Tree!InTree : Key(x) >= Key(y) - i}, Tree!FindSucc(tree, Key(y) - i)))
  BY Zenon DEF Tree!LookupsExact
<1>6. \A y \in Tree!Nodes : \A i \in {0, 1} : Key(y) - i \in Int
  BY DEF Tree!KeysAreNumbers
<1>. HIDE DEF Exact
<1>. QED
  BY <1>4, <1>5, <1>6

LEMMA ConsistentBalance ==
    ASSUME TreeInv
    PROVE  Tree!Balanced
<1>1. PICK T : Consistent(is_rbt, tree, pc, n, p, T)
  BY DEF TreeInv
<1>2. SUFFICES ASSUME is_rbt
      PROVE  /\ Tree!BlackHeight(tree.root, Tree!NULL_ID) # -1
             /\ \A x \in Tree!Reds : tree.parent[x] \in Tree!Reds => pc = "float_up" /\ x = n
             /\ pc = "idle" => tree.root \notin Tree!Reds
  BY DEF Tree!Balanced
<1>3. Consistent(TRUE, tree, pc, n, p, T)
  BY <1>1, <1>2 DEF Consistent
<1>4. Tree!BlackHeight(tree.root, Tree!NULL_ID) # -1
  BY <1>3, BlackHeightIs
<1>5. RedsOf(tree) = Tree!Reds
  BY DEF Tree!Reds, RedsOf
<1>6. CASE pc = "idle"
  BY <1>3, <1>4, <1>5, <1>6 DEF Consistent, IdleTree, Idle
<1>7. CASE pc = "float_up"
  BY <1>3, <1>4, <1>5, <1>7 DEF Consistent, FloatingTree, Floating
<1>8. CASE pc = "rebalance"
  <2>1. LackingTree(tree, T, n, p)
    BY <1>3, <1>8 DEF Consistent
  <2>2. \A x \in Tree!Reds : tree.parent[x] \notin Tree!Reds
    BY <1>5, <2>1 DEF LackingTree, Lacking, Idle, Short
  <2>. QED
    BY <1>4, <1>8, <2>2
<1>9. pc \in {"idle", "float_up", "rebalance"}
  BY <1>1 DEF Consistent
<1>. QED
  BY <1>4, <1>6, <1>7, <1>8, <1>9

\* The abstract set is the set of the nodes in the tree.
MembersAgree == \A T : SearchTreeOf(tree, T) => Tree!Under(tree.root) = T

LEMMA MembersHold == MembersAgree
BY UnderRootIs DEF MembersAgree

LEMMA InitAbstract ==
    ASSUME Tree!KeysAreNumbers, Tree!Init
    PROVE  Tree!Abstract!Init
<1>1. SearchTreeOf(tree, {})
  BY InitConsistent DEF Consistent
<1>. QED
  BY <1>1, MembersHold DEF MembersAgree, Tree!Abstract!Init

\* Every step adds a node, takes one out, or leaves the set alone.
LEMMA NextAbstract ==
    ASSUME Tree!KeysAreNumbers, TreeInv, [Tree!Next]_(Tree!vars)
    PROVE  [Tree!Abstract!Next]_(Tree!Under(tree.root))
<1>1. PICK T : Consistent(is_rbt, tree, pc, n, p, T)
  BY DEF TreeInv
<1>2. MembersAgree'
  BY MembersHold, PTL
<1>3. Tree!Under(tree.root) = T
  BY <1>1, MembersHold DEF MembersAgree, Consistent
<1>4. \A S : SearchTreeOf(tree', S) => Tree!Under(tree.root)' = S
  BY <1>2 DEF MembersAgree
<1>5. ASSUME NEW x \in Tree!Nodes, Tree!Add(x)
      PROVE  Tree!Abstract!Next
  <2>1. x \notin T /\ Tree!Under(tree.root)' = T \cup {x}
    BY <1>1, <1>4, <1>5, AddConsistent DEF Consistent
  <2>2. Tree!Abstract!Add(x)
    BY <1>3, <2>1 DEF Tree!Abstract!Add
  <2>. QED
    BY <2>2 DEF Tree!Abstract!Next
<1>6. ASSUME NEW x \in Tree!Nodes, Tree!Delete(x)
      PROVE  Tree!Abstract!Next
  <2>1. x \in T /\ Tree!Under(tree.root)' = T \ {x}
    BY <1>1, <1>4, <1>6, DeleteConsistent DEF Consistent
  <2>2. Tree!Abstract!Delete(x)
    BY <1>3, <2>1 DEF Tree!Abstract!Delete
  <2>. QED
    BY <2>2 DEF Tree!Abstract!Next
<1>7. CASE Tree!Iterate
  <2>1. Tree!Under(tree.root)' = T
    BY <1>1, <1>4, <1>7, IterateConsistent DEF Consistent
  <2>. QED
    BY <1>3, <2>1
<1>8. CASE UNCHANGED Tree!vars
  <2>1. Tree!Under(tree.root)' = T
    BY <1>1, <1>4, <1>8 DEF Consistent, Tree!vars
  <2>. QED
    BY <1>3, <2>1
<1>. QED
  BY <1>5, <1>6, <1>7, <1>8 DEF Tree!Next

-----------------------------------------------------------------------------
(* The theorems, of the tree beside the other parts.                       *)

\* A step of the whole is one of the tree, or leaves it alone.
LEMMA TreeSteps == [Next]_vars => [Tree!Next]_(Tree!vars)
<1>. SUFFICES ASSUME [Next]_vars PROVE [Tree!Next]_(Tree!vars)
  OBVIOUS
<1>1. TreeCall \/ TreeIterates => Tree!Next
  BY DEF TreeCall, TreeIterates, Tree!Next
<1>2. ListStep \/ AreasStep \/ HashStep => UNCHANGED treeVars
  BY DEF ListStep, AreasStep, HashStep
<1>3. \/ LinkerStep \/ FileStep \/ TextStep \/ InstructionStep \/ NamesStep
      \/ SharingMain \/ \E t \in Share!Thread : SharingWork(t)
      => UNCHANGED treeVars
  BY DEF LinkerStep, FileStep, TextStep, InstructionStep, NamesStep, SharingMain, SharingWork, algorithms
<1>4. UNCHANGED vars => UNCHANGED treeVars
  BY DEF vars, algorithms
<1>5. UNCHANGED treeVars => UNCHANGED Tree!vars
  BY DEF treeVars, Tree!vars
<1>. QED
  BY <1>1, <1>2, <1>3, <1>4, <1>5 DEF Next

LEMMA InitTreeInv == Init => TreeInv
BY TreeAssumption, InitConsistent DEF Init, TreeInv

LEMMA NextTreeInv == TreeInv /\ [Next]_vars => TreeInv'
BY TreeAssumption, TreeSteps, NextConsistent

\* The pointers always form a tree that the code's own assertions accept: no
\* rotation lacks a grandparent, no black node with one child lacks the red
\* leaf, no double black node lacks a sibling, whatever is added and deleted.
THEOREM TreeAsserts == Spec => []AssertsHold
<1>1. TreeInv => AssertsHold
  BY ConsistentAsserts DEF AssertsHold
<1>. QED
  BY <1>1, InitTreeInv, NextTreeInv, PTL DEF Spec

\* The nodes that hang in the tree are in the order of their keys, and each
\* child names its parent, also between two rotations of a call.
THEOREM TreeSorted == Spec => []SearchTree
<1>1. TreeInv => SearchTree
  BY TreeAssumption, ConsistentSearch DEF SearchTree
<1>. QED
  BY <1>1, InitTreeInv, NextTreeInv, PTL DEF Spec

\* The paths have equally many black nodes, the double black counted twice,
\* and two reds in a row are found only where an insertion stands.
THEOREM TreeBalanced == Spec => []Balanced
<1>1. TreeInv => Balanced
  BY ConsistentBalance DEF Balanced
<1>. QED
  BY <1>1, InitTreeInv, NextTreeInv, PTL DEF Spec

\* bst_find and bst_find_succ find the node of a key and the closest one at
\* or above it, wherever rotations have moved equal keys.
THEOREM LookupsFind == Spec => []LookupsExact
<1>1. TreeInv => LookupsExact
  BY TreeAssumption, ConsistentLookups DEF LookupsExact
<1>. QED
  BY <1>1, InitTreeInv, NextTreeInv, PTL DEF Spec

\* An insertion and a deletion change the set of the nodes by the one they are
\* given, and no rotation, recolouring or swap with a successor changes it:
\* the pointers implement KeyedSet.
THEOREM TreeIsSet == Spec => ImplementsSet
<1>1. Init => Tree!Abstract!Init
  BY TreeAssumption, InitAbstract DEF Init
<1>2. TreeInv /\ [Next]_vars => [Tree!Abstract!Next]_(Tree!Under(tree.root))
  BY TreeAssumption, TreeSteps, NextAbstract
<1>. QED
  BY <1>1, <1>2, InitTreeInv, NextTreeInv, PTL
  DEF Spec, ImplementsSet, Tree!ImplementsSet, Tree!Abstract!Spec
=============================================================================
