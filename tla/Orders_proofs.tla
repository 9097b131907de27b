--------------------------- MODULE Orders_proofs ---------------------------
(***************************************************************************)
(* What the other proofs need about numbers, sequences and links: least    *)
(* and greatest elements, where the code takes the first or the largest of *)
(* something, and for induction, by way of a least counterexample; walks   *)
(* along links, rings, and the sequences that read them; ranks; division   *)
(* and powers of two; sequences put together, and sums.                    *)
(***************************************************************************)
EXTENDS Integers, Sequences, FiniteSetTheorems, WellFoundedInduction, TLAPS

\* A set of natural numbers that is not empty has a least element.
LEMMA LeastExists ==
    ASSUME NEW T \in SUBSET Nat, T # {}
    PROVE  \E x \in T : \A y \in T : x <= y
<1>. DEFINE R == OpToRel(<, Nat)
<1>1. \A x, y \in Nat : x < y => <<x, y>> \in R
  BY DEF OpToRel
<1>2. IsWellFoundedOn(R, Nat)
  BY NatLessThanWellFounded
<1>. HIDE DEF R
<1>3. PICK x \in T : \A y \in T : ~(<<y, x>> \in R)
  BY <1>2, WFMin
<1>4. ASSUME NEW y \in T PROVE x <= y
  <2>1. x \in Nat /\ y \in Nat
    OBVIOUS
  <2>2. ~(y < x)
    BY <1>1, <1>3, <2>1
  <2>. QED
    BY <2>1, <2>2
<1>. QED
  BY <1>4

\* A bounded set of natural numbers that is not empty has a greatest element.
LEMMA GreatestExists ==
    ASSUME NEW T \in SUBSET Nat, T # {}, NEW b \in Nat, \A x \in T : x <= b
    PROVE  \E x \in T : \A y \in T : y <= x
<1>. DEFINE U == {u \in Nat : \A x \in T : x <= u}
<1>1. PICK u \in U : \A w \in U : u <= w
  <2>1. b \in U /\ U \in SUBSET Nat
    OBVIOUS
  <2>. QED
    BY <2>1, LeastExists
<1>2. u \in T
  <2>1. SUFFICES ASSUME u \notin T PROVE FALSE
    OBVIOUS
  <2>2. \A x \in T : x \in Nat /\ x <= u /\ x # u
    BY <1>1, <2>1
  <2>3. PICK x \in T : TRUE
    OBVIOUS
  <2>4. u \in Nat /\ x \in Nat /\ x < u
    BY <1>1, <2>2, <2>3
  <2>5. u - 1 \in U
    BY <2>2, <2>4
  <2>. QED
    BY <1>1, <2>4, <2>5
<1>. QED
  BY <1>1, <1>2

-----------------------------------------------------------------------------
(* Walks: the values of a function applied again and again.                *)

\* w is the walk of g from a, for m steps
IsWalk(w, a, g, m) == w = [k \in 0 .. m |-> IF k = 0 THEN a ELSE g[w[k - 1]]]

\* v starts at a and follows g, for b steps
Follows(v, a, g, b) == v[0] = a /\ \A i \in 1 .. b : v[i] = g[v[i - 1]]

\* A walk is as long as one wants.
LEMMA WalkExists ==
    ASSUME NEW S, NEW a \in S, NEW g \in [S -> S], NEW m \in Nat
    PROVE  \E w \in [0 .. m -> S] : IsWalk(w, a, g, m)
<1>. DEFINE Bad == {k \in Nat : ~ \E w \in [0 .. k -> S] : IsWalk(w, a, g, k)}
<1>. SUFFICES ASSUME Bad # {} PROVE FALSE
  OBVIOUS
<1>1. PICK k \in Bad : \A j \in Bad : k <= j
  BY LeastExists
<1>2. k # 0
  <2>1. [j \in 0 .. 0 |-> a] \in [0 .. 0 -> S] /\ IsWalk([j \in 0 .. 0 |-> a], a, g, 0)
    BY DEF IsWalk
  <2>. QED
    BY <2>1
<1>3. k - 1 \in Nat /\ k - 1 \notin Bad
  BY <1>1, <1>2
<1>4. PICK v \in [0 .. k - 1 -> S] : IsWalk(v, a, g, k - 1)
  BY <1>3
<1>. DEFINE w == [j \in 0 .. k |-> IF j = k THEN g[v[k - 1]] ELSE v[j]]
<1>5. w \in [0 .. k -> S]
  BY <1>3
<1>6. \A j \in 0 .. k - 1 : v[j] = IF j = 0 THEN a ELSE g[v[j - 1]]
  BY <1>4 DEF IsWalk
<1>7. ASSUME NEW j \in 0 .. k PROVE w[j] = IF j = 0 THEN a ELSE g[w[j - 1]]
  BY <1>2, <1>3, <1>6
<1>8. IsWalk(w, a, g, k)
  <2>1. w = [j \in 0 .. k |-> w[j]]
    OBVIOUS
  <2>. HIDE DEF w
  <2>2. [j \in 0 .. k |-> w[j]] = [j \in 0 .. k |-> IF j = 0 THEN a ELSE g[w[j - 1]]]
    BY <1>7
  <2>. QED
    BY <2>1, <2>2 DEF IsWalk
<1>. QED
  BY <1>1, <1>5, <1>8

\* Whatever starts at a and follows g is the walk.
LEMMA WalkUnique ==
    ASSUME NEW a, NEW g, NEW m \in Nat, NEW w, IsWalk(w, a, g, m),
           NEW v, Follows(v, a, g, m)
    PROVE  \A i \in 0 .. m : v[i] = w[i]
<1>. DEFINE Bad == {i \in 0 .. m : v[i] # w[i]}
<1>. SUFFICES ASSUME Bad # {} PROVE FALSE
  OBVIOUS
<1>1. PICK i \in Bad : \A j \in Bad : i <= j
  <2>1. Bad \in SUBSET Nat
    OBVIOUS
  <2>. HIDE DEF Bad
  <2>. QED
    BY <2>1, LeastExists
<1>2. \A j \in 0 .. m : w[j] = IF j = 0 THEN a ELSE g[w[j - 1]]
  BY DEF IsWalk
<1>3. i # 0
  BY <1>1, <1>2 DEF Follows
<1>4. i - 1 \in 0 .. m /\ i \in 1 .. m
  BY <1>1, <1>3
<1>5. v[i - 1] = w[i - 1]
  BY <1>1, <1>4
<1>. QED
  BY <1>1, <1>2, <1>3, <1>4, <1>5 DEF Follows

\* A walk goes through the values of g.
LEMMA WalkIn ==
    ASSUME NEW S, NEW a \in S, NEW g \in [S -> S], NEW m \in Nat, NEW w, IsWalk(w, a, g, m)
    PROVE  w \in [0 .. m -> S]
<1>1. PICK u : u \in [0 .. m -> S] /\ IsWalk(u, a, g, m)
  BY WalkExists
<1>2. DOMAIN w = 0 .. m /\ w = [k \in DOMAIN w |-> w[k]]
  BY DEF IsWalk
<1>3. Follows(w, a, g, m)
  BY DEF IsWalk, Follows
<1>4. IsWalk(u, a, g, m)
  BY <1>1
<1>5. \A i \in 0 .. m : w[i] = u[i]
  BY <1>3, <1>4, WalkUnique
<1>. QED
  BY <1>1, <1>2, <1>5

-----------------------------------------------------------------------------
(* Sequences an element is put into or taken out of.                       *)

\* Append adds one place.
LEMMA Appended ==
    ASSUME NEW S, NEW s \in Seq(S), NEW e \in S
    PROVE  /\ Append(s, e) \in Seq(S) /\ Len(Append(s, e)) = Len(s) + 1 /\ Len(s) \in Nat
           /\ Append(s, e)[Len(s) + 1] = e
           /\ \A i \in 1 .. Len(s) : Append(s, e)[i] = s[i]
OBVIOUS

\* Sequences that agree at every place are equal.
LEMMA SameSeq ==
    ASSUME NEW S, NEW s \in Seq(S), NEW t \in Seq(S), Len(s) = Len(t),
           \A i \in 1 .. Len(s) : s[i] = t[i]
    PROVE  s = t
<1>1. /\ s = [i \in 1 .. Len(s) |-> s[i]]
      /\ t = [i \in 1 .. Len(t) |-> t[i]]
  OBVIOUS
<1>. QED
  BY <1>1

\* t is c with x put in at j.
HasAt(t, c, j, x) ==
    t = [i \in 1 .. Len(c) + 1 |-> IF i < j THEN c[i] ELSE IF i = j THEN x ELSE c[i - 1]]

\* t is c without its j-th element.
LacksAt(t, c, j) ==
    t = [i \in 1 .. Len(c) - 1 |-> IF i < j THEN c[i] ELSE c[i + 1]]

LEMMA PutIn ==
    ASSUME NEW A, NEW c \in Seq(A), NEW j \in 1 .. Len(c) + 1, NEW x
    PROVE  HasAt(SubSeq(c, 1, j - 1) \o <<x>> \o SubSeq(c, j, Len(c)), c, j, x)
<1>. DEFINE B == A \cup {x}
            p == SubSeq(c, 1, j - 1)
            q == SubSeq(c, j, Len(c))
            r == p \o <<x>>
<1>1. c \in Seq(B) /\ Len(c) \in Nat
  OBVIOUS
<1>2. p \in Seq(B) /\ Len(p) = j - 1 /\ \A i \in 1 .. j - 1 : p[i] = c[i]
  BY <1>1
<1>3. q \in Seq(B) /\ Len(q) = Len(c) - j + 1 /\ \A i \in 1 .. Len(c) - j + 1 : q[i] = c[j + i - 1]
  BY <1>1
<1>. HIDE DEF p, q
<1>4. r \in Seq(B) /\ Len(r) = j /\ r[j] = x /\ \A i \in 1 .. j - 1 : r[i] = c[i]
  BY <1>2
<1>. HIDE DEF r
<1>5. /\ DOMAIN (r \o q) = 1 .. Len(c) + 1
      /\ \A i \in 1 .. j : (r \o q)[i] = r[i]
      /\ \A i \in j + 1 .. Len(c) + 1 : (r \o q)[i] = q[i - j]
  BY <1>1, <1>3, <1>4
<1>6. ASSUME NEW i \in j + 1 .. Len(c) + 1 PROVE (r \o q)[i] = c[i - 1]
  <2>1. i - j \in 1 .. Len(c) - j + 1 /\ j + (i - j) - 1 = i - 1
    BY <1>1
  <2>. QED
    BY <1>3, <1>5, <2>1
<1>7. r \o q = SubSeq(c, 1, j - 1) \o <<x>> \o SubSeq(c, j, Len(c))
  BY DEF p, q, r
<1>. DEFINE t == r \o q
<1>8. t \in Seq(B) /\ DOMAIN t = 1 .. Len(c) + 1
  BY <1>3, <1>4, <1>5
<1>9. ASSUME NEW i \in 1 .. Len(c) + 1
      PROVE  t[i] = IF i < j THEN c[i] ELSE IF i = j THEN x ELSE c[i - 1]
  BY <1>1, <1>4, <1>5, <1>6
<1>. HIDE DEF t
<1>10. HasAt(t, c, j, x)
  BY <1>8, <1>9 DEF HasAt
<1>. QED
  BY <1>7, <1>10 DEF t

LEMMA PutFirst ==
    ASSUME NEW A, NEW c \in Seq(A), NEW x
    PROVE  HasAt(<<x>> \o c, c, 1, x)
BY DEF HasAt

LEMMA TakeAway ==
    ASSUME NEW A, NEW c \in Seq(A), NEW j \in 1 .. Len(c)
    PROVE  LacksAt(SubSeq(c, 1, j - 1) \o SubSeq(c, j + 1, Len(c)), c, j)
<1>. DEFINE p == SubSeq(c, 1, j - 1)
            q == SubSeq(c, j + 1, Len(c))
<1>1. Len(c) \in Nat
  OBVIOUS
<1>2. p \in Seq(A) /\ Len(p) = j - 1 /\ \A i \in 1 .. j - 1 : p[i] = c[i]
  BY <1>1
<1>3. q \in Seq(A) /\ Len(q) = Len(c) - j /\ \A i \in 1 .. Len(c) - j : q[i] = c[j + i]
  BY <1>1
<1>. HIDE DEF p, q
<1>4. /\ DOMAIN (p \o q) = 1 .. Len(c) - 1
      /\ \A i \in 1 .. j - 1 : (p \o q)[i] = p[i]
      /\ \A i \in j .. Len(c) - 1 : (p \o q)[i] = q[i - j + 1]
  BY <1>1, <1>2, <1>3
<1>5. ASSUME NEW i \in j .. Len(c) - 1 PROVE (p \o q)[i] = c[i + 1]
  <2>1. i - j + 1 \in 1 .. Len(c) - j /\ j + (i - j + 1) = i + 1
    BY <1>1
  <2>. QED
    BY <1>3, <1>4, <2>1
<1>6. p \o q = SubSeq(c, 1, j - 1) \o SubSeq(c, j + 1, Len(c))
  BY DEF p, q
<1>. DEFINE t == p \o q
<1>7. t \in Seq(A) /\ DOMAIN t = 1 .. Len(c) - 1
  BY <1>2, <1>3, <1>4
<1>8. ASSUME NEW i \in 1 .. Len(c) - 1 PROVE t[i] = IF i < j THEN c[i] ELSE c[i + 1]
  BY <1>1, <1>2, <1>4, <1>5
<1>. HIDE DEF t
<1>9. LacksAt(t, c, j)
  BY <1>7, <1>8 DEF LacksAt
<1>. QED
  BY <1>6, <1>9 DEF t

-----------------------------------------------------------------------------
(* Rings: what the links of a circular list must be.                       *)

\* nx links the elements of A in one ring: whoever follows it meets all.
Cycle(A, nx) ==
    /\ \A x \in A : nx[x] \in A
    /\ \A S \in SUBSET A : S # {} /\ (\A x \in S : nx[x] \in S) => S = A

\* nx and pv link the elements of A in both directions, and whoever follows
\* nx from any of them meets all.
Ring(A, nx, pv) ==
    /\ \A x \in A : nx[x] \in A /\ pv[nx[x]] = x /\ pv[x] \in A /\ nx[pv[x]] = x
    /\ \A S \in SUBSET A : S # {} /\ (\A x \in S : nx[x] \in S) => S = A

LEMMA RingIsCycle ==
    ASSUME NEW A, NEW nx, NEW pv, Ring(A, nx, pv)
    PROVE  Cycle(A, nx)
BY DEF Ring, Cycle

\* nx2 puts x behind y.
NextBehind(A, nx, y, x, nx2) ==
    nx2[x] = nx[y] /\ \A z \in A : nx2[z] = IF z = y THEN x ELSE nx[z]

\* nx2 and pv2 put x between y and the element behind y.
PutBehind(A, nx, pv, y, x, nx2, pv2) ==
    /\ nx2[x] = nx[y] /\ pv2[x] = y
    /\ \A z \in A : nx2[z] = IF z = y THEN x ELSE nx[z]
    /\ \A z \in A : pv2[z] = IF z = nx[y] THEN x ELSE pv[z]

LEMMA RingGrows ==
    ASSUME NEW A, NEW nx, NEW pv, Ring(A, nx, pv), NEW y \in A, NEW x, x \notin A,
           NEW nx2, NEW pv2, PutBehind(A, nx, pv, y, x, nx2, pv2)
    PROVE  Ring(A \cup {x}, nx2, pv2)
<1>1. \A z \in A : nx[z] \in A /\ pv[nx[z]] = z /\ pv[z] \in A /\ nx[pv[z]] = z
  BY DEF Ring
<1>2. ASSUME NEW z \in A \cup {x}
      PROVE  /\ nx2[z] \in A \cup {x} /\ pv2[nx2[z]] = z
             /\ pv2[z] \in A \cup {x} /\ nx2[pv2[z]] = z
  BY <1>1 DEF PutBehind
<1>3. ASSUME NEW S \in SUBSET (A \cup {x}), S # {}, \A z \in S : nx2[z] \in S
      PROVE  S = A \cup {x}
  <2>1. S \ {x} \in SUBSET A
    OBVIOUS
  <2>2. \A z \in S \ {x} : nx[z] \in S \ {x}
    BY <1>1, <1>3 DEF PutBehind
  <2>3. S \ {x} # {}
    BY <1>1, <1>3 DEF PutBehind
  <2>4. S \ {x} = A
    BY <2>1, <2>2, <2>3 DEF Ring
  <2>. QED
    BY <1>3, <2>4 DEF PutBehind
<1>. QED
  BY <1>2, <1>3 DEF Ring

\* nx2 and pv2 link the neighbours of x to each other.
TakenOut(A, nx, pv, x, nx2, pv2) ==
    /\ \A z \in A \ {x} : nx2[z] = IF z = pv[x] THEN nx[x] ELSE nx[z]
    /\ \A z \in A \ {x} : pv2[z] = IF z = nx[x] THEN pv[x] ELSE pv[z]

LEMMA RingShrinks ==
    ASSUME NEW A, NEW nx, NEW pv, Ring(A, nx, pv), NEW x \in A,
           NEW nx2, NEW pv2, TakenOut(A, nx, pv, x, nx2, pv2)
    PROVE  Ring(A \ {x}, nx2, pv2)
<1>1. \A z \in A : nx[z] \in A /\ pv[nx[z]] = z /\ pv[z] \in A /\ nx[pv[z]] = z
  BY DEF Ring
<1>2. ASSUME NEW z \in A \ {x}
      PROVE  /\ nx2[z] \in A \ {x} /\ pv2[nx2[z]] = z
             /\ pv2[z] \in A \ {x} /\ nx2[pv2[z]] = z
  BY <1>1 DEF TakenOut
<1>3. ASSUME NEW S \in SUBSET (A \ {x}), S # {}, \A z \in S : nx2[z] \in S
      PROVE  S = A \ {x}
  <2>. DEFINE U == IF pv[x] \in S THEN S \cup {x} ELSE S
  <2>1. U \in SUBSET A /\ U # {}
    BY <1>3
  <2>2. \A z \in U : nx[z] \in U
    BY <1>1, <1>3 DEF TakenOut
  <2>3. U = A
    <3>. HIDE DEF U
    <3>. QED
      BY <2>1, <2>2 DEF Ring
  <2>. QED
    BY <1>3, <2>3
<1>. QED
  BY <1>2, <1>3 DEF Ring

\* v is as long as A is large.
Tuple(v, A) == v \in [1 .. Cardinality(A) -> A]

\* Each of the m elements of t leads to the next one.
Chain(t, m, nx) == \A i \in 1 .. m - 1 : t[i + 1] = nx[t[i]]

\* A walk over a ring meets as many elements as it has steps, while there are.
LEMMA RingWalk ==
    ASSUME NEW A, IsFiniteSet(A), NEW nx, Cycle(A, nx),
           NEW v, Tuple(v, A), Chain(v, Cardinality(A), nx)
    PROVE  /\ \A i, j \in 1 .. Cardinality(A) : v[i] = v[j] => i = j
           /\ \A x \in A : \E i \in 1 .. Cardinality(A) : v[i] = x
<1>. DEFINE m == Cardinality(A)
<1>1. m \in Nat /\ IsFiniteSet(1 .. m) /\ Cardinality(1 .. m) = m
  BY FS_CardinalityType, FS_Interval
<1>0. v \in [1 .. m -> A] /\ \A i \in 1 .. m - 1 : v[i + 1] = nx[v[i]]
  BY DEF Tuple, Chain
<1>. HIDE DEF m
<1>2. ASSUME NEW i \in 1 .. m, NEW j \in 1 .. m, i < j, v[i] = v[j]
      PROVE  FALSE
  <2>. DEFINE S == {v[h] : h \in i .. j - 1}
  <2>1. S \in SUBSET A /\ S # {}
    BY <1>0, <1>1, <1>2 DEF m
  <2>2. \A x \in S : nx[x] \in S
    <3>1. ASSUME NEW h \in i .. j - 1 PROVE nx[v[h]] \in S
      <4>1. nx[v[h]] = v[h + 1]
        BY <1>0, <1>1, <1>2, <3>1
      <4>2. CASE h + 1 \in i .. j - 1
        BY <4>1, <4>2
      <4>3. CASE h + 1 = j
        BY <1>2, <4>1, <4>3
      <4>. QED
        BY <1>2, <4>2, <4>3
    <3>. QED
      BY <3>1
  <2>. HIDE DEF S
  <2>3. S = A
    BY <2>1, <2>2 DEF Cycle
  <2>. DEFINE f == [h \in i .. j - 1 |-> v[h]]
  <2>4. f \in Surjection(i .. j - 1, S)
    BY DEF f, Surjection, S
  <2>5. IsFiniteSet(i .. j - 1) /\ Cardinality(i .. j - 1) = j - i
    <3>1. i \in Int /\ j - 1 \in Int /\ ~(i > j - 1) /\ (j - 1) - i + 1 = j - i
      BY <1>1, <1>2
    <3>. QED
      BY <3>1, FS_Interval
  <2>6. Cardinality(S) <= j - i
    <3>. HIDE DEF f
    <3>. QED
      BY <2>4, <2>5, FS_Surjection
  <2>. QED
    BY <1>1, <1>2, <2>3, <2>6 DEF m
<1>3. \A i, j \in 1 .. m : v[i] = v[j] => i = j
  BY <1>1, <1>2
<1>4. v \in Injection(1 .. m, A)
  BY <1>0, <1>3 DEF Injection, IsInjective, m
<1>5. v \in Surjection(1 .. m, A)
  BY <1>1, <1>4, FS_Injection DEF m
<1>. QED
  BY <1>3, <1>5 DEF Surjection, m

-----------------------------------------------------------------------------
(* Sequences that read a ring from one of its elements.                    *)

\* t starts at h and follows nx.
Along(t, m, h, nx) == (m > 0 => t[1] = h) /\ Chain(t, m, nx)

\* s lists the elements of A once each, along nx from h and back to h.
Reads(s, h, nx, A) ==
    /\ Tuple(s, A)
    /\ Along(s, Cardinality(A), h, nx)
    /\ A # {} => nx[s[Cardinality(A)]] = h
    /\ \A i, j \in 1 .. Cardinality(A) : s[i] = s[j] => i = j
    /\ \A x \in A : \E i \in 1 .. Cardinality(A) : s[i] = x

\* What follows nx from an element of a ring, as often as there are elements.
LEMMA RingReads ==
    ASSUME NEW A, IsFiniteSet(A), NEW nx, Cycle(A, nx), NEW h, NEW s,
           Tuple(s, A), Along(s, Cardinality(A), h, nx)
    PROVE  Reads(s, h, nx, A)
<1>. DEFINE m == Cardinality(A)
<1>1. m \in Nat /\ (A # {} => m > 0)
  BY FS_CardinalityType, FS_EmptySet
<1>2. \A i \in 1 .. m - 1 : s[i + 1] = nx[s[i]]
  BY DEF Along, Chain
<1>3. (\A i, j \in 1 .. m : s[i] = s[j] => i = j) /\ \A x \in A : \E i \in 1 .. m : s[i] = x
  <2>1. Tuple(s, A) /\ Chain(s, Cardinality(A), nx)
    BY DEF Along, Tuple
  <2>2. \A i, j \in 1 .. Cardinality(A) : s[i] = s[j] => i = j
    BY <2>1, RingWalk
  <2>3. \A x \in A : \E i \in 1 .. Cardinality(A) : s[i] = x
    BY <2>1, RingWalk
  <2>. QED
    BY <2>2, <2>3
<1>. HIDE DEF m
<1>4. ASSUME A # {} PROVE nx[s[m]] = h
  <2>1. m \in 1 .. m /\ 1 \in 1 .. m /\ s[m] \in A /\ s[1] = h
    BY <1>1, <1>4 DEF m, Along, Tuple
  <2>2. nx[s[m]] \in A
    BY <2>1 DEF Cycle
  <2>3. PICK j \in 1 .. m : s[j] = nx[s[m]]
    BY <1>3, <2>2
  <2>. DEFINE S == {s[k] : k \in j .. m}
  <2>4. S \in SUBSET A /\ S # {}
    BY <1>1, <2>3 DEF m, Tuple
  <2>5. ASSUME NEW k \in j .. m PROVE nx[s[k]] \in S
    <3>1. CASE k = m
      BY <1>1, <2>3, <3>1
    <3>2. CASE k # m
      <4>1. k \in 1 .. m - 1 /\ k + 1 \in j .. m
        BY <1>1, <2>3, <2>5, <3>2
      <4>. QED
        BY <1>2, <4>1 DEF m
    <3>. QED
      BY <3>1, <3>2
  <2>6. S = A
    <3>1. \A x \in S : nx[x] \in S
      BY <2>5
    <3>. HIDE DEF S
    <3>. QED
      BY <2>4, <3>1 DEF Cycle
  <2>7. PICK k \in j .. m : s[k] = s[1]
    BY <2>1, <2>6 DEF m, Tuple
  <2>8. k = 1
    BY <1>1, <1>3, <2>1, <2>3, <2>7
  <2>9. j = 1
    BY <1>1, <2>3, <2>7, <2>8
  <2>. QED
    BY <2>1, <2>3, <2>9
<1>. QED
  BY <1>3, <1>4 DEF Reads, m

\* What starts where t starts and follows the same links is t.
LEMMA AlongUnique ==
    ASSUME NEW m \in Nat, NEW h, NEW nx, NEW s, Along(s, m, h, nx), NEW t, Along(t, m, h, nx)
    PROVE  \A i \in 1 .. m : s[i] = t[i]
<1>. DEFINE Bad == {i \in 1 .. m : s[i] # t[i]}
<1>. SUFFICES ASSUME Bad # {} PROVE FALSE
  OBVIOUS
<1>1. PICK i \in Bad : \A j \in Bad : i <= j
  <2>1. Bad \in SUBSET Nat
    OBVIOUS
  <2>. HIDE DEF Bad
  <2>. QED
    BY <2>1, LeastExists
<1>2. i \in 1 .. m /\ s[i] # t[i] /\ i # 1
  BY <1>1 DEF Along
<1>3. i - 1 \in 1 .. m - 1 /\ i - 1 \in 1 .. m /\ (i - 1) + 1 = i /\ i - 1 \notin Bad
  BY <1>1, <1>2
<1>4. s[i] = nx[s[i - 1]] /\ t[i] = nx[t[i - 1]]
  BY <1>3 DEF Along, Chain
<1>5. s[i - 1] = t[i - 1]
  BY <1>3
<1>. QED
  BY <1>2, <1>4, <1>5

\* A recursive walk along a ring reads it.
IsTurn(w, m, h, nx) == w = [i \in 1 .. m |-> IF i = 1 THEN h ELSE nx[w[i - 1]]]

LEMMA TurnExists ==
    ASSUME NEW A, NEW nx, Cycle(A, nx), NEW h \in A, NEW m \in Nat
    PROVE  \E w : IsTurn(w, m, h, nx)
<1>. DEFINE g == [x \in A |-> nx[x]]
<1>1. g \in [A -> A]
  BY DEF Cycle
<1>2. PICK v \in [0 .. m -> A] : IsWalk(v, h, g, m)
  <2>. HIDE DEF g
  <2>. QED
    BY <1>1, WalkExists
<1>3. v[0] = h /\ \A k \in 1 .. m : v[k] = nx[v[k - 1]]
  <2>1. \A k \in 0 .. m : v[k] = IF k = 0 THEN h ELSE g[v[k - 1]]
    BY <1>2 DEF IsWalk
  <2>2. ASSUME NEW k \in 1 .. m PROVE v[k] = nx[v[k - 1]]
    <3>1. k \in 0 .. m /\ k - 1 \in 0 .. m /\ k # 0
      OBVIOUS
    <3>. QED
      BY <2>1, <3>1
  <2>3. v[0] = h
    <3>1. 0 \in 0 .. m
      OBVIOUS
    <3>. QED
      BY <2>1, <3>1
  <2>. QED
    BY <2>2, <2>3
<1>. DEFINE w == [i \in 1 .. m |-> v[i - 1]]
<1>4. ASSUME NEW i \in 1 .. m PROVE w[i] = IF i = 1 THEN h ELSE nx[w[i - 1]]
  BY <1>3
<1>5. w = [i \in 1 .. m |-> w[i]]
  OBVIOUS
<1>. HIDE DEF w
<1>6. IsTurn(w, m, h, nx)
  <2>1. [i \in 1 .. m |-> w[i]] = [i \in 1 .. m |-> IF i = 1 THEN h ELSE nx[w[i - 1]]]
    BY <1>4
  <2>. QED
    BY <1>5, <2>1 DEF IsTurn
<1>. QED
  BY <1>6

LEMMA TurnReads ==
    ASSUME NEW A, IsFiniteSet(A), NEW nx, Cycle(A, nx), NEW h \in A,
           NEW w, IsTurn(w, Cardinality(A), h, nx)
    PROVE  Reads(w, h, nx, A)
<1>. DEFINE m == Cardinality(A)
<1>1. m \in Nat
  BY FS_CardinalityType
<1>2. /\ DOMAIN w = 1 .. m /\ w = [i \in 1 .. m |-> w[i]]
      /\ \A i \in 1 .. m : w[i] = IF i = 1 THEN h ELSE nx[w[i - 1]]
  BY DEF IsTurn
<1>. HIDE DEF m
<1>3. Along(w, m, h, nx)
  <2>1. ASSUME NEW i \in 1 .. m - 1 PROVE w[i + 1] = nx[w[i]]
    <3>1. i + 1 \in 1 .. m /\ i + 1 # 1 /\ (i + 1) - 1 = i
      BY <1>1
    <3>. QED
      BY <1>2, <3>1
  <2>2. m > 0 => w[1] = h
    <3>1. m > 0 => 1 \in 1 .. m
      BY <1>1
    <3>. QED
      BY <1>2, <3>1, Zenon
  <2>. QED
    BY <2>1, <2>2 DEF Along, Chain
<1>4. \A i \in 1 .. m : w[i] \in A
  <2>. DEFINE Bad == {i \in 1 .. m : w[i] \notin A}
  <2>. SUFFICES ASSUME Bad # {} PROVE FALSE
    OBVIOUS
  <2>1. PICK i \in Bad : \A j \in Bad : i <= j
    <3>1. Bad \in SUBSET Nat
      OBVIOUS
    <3>. HIDE DEF Bad
    <3>. QED
      BY <3>1, LeastExists
  <2>2. i \in 1 .. m /\ w[i] \notin A /\ i # 1
    BY <1>2, <2>1
  <2>3. i - 1 \in 1 .. m /\ i - 1 \notin Bad
    BY <1>1, <2>1, <2>2
  <2>. QED
    BY <1>2, <2>2, <2>3 DEF Cycle
<1>5. Tuple(w, A)
  BY <1>2, <1>4 DEF Tuple, m
<1>. QED
  BY <1>3, <1>5, RingReads DEF m

\* The ring with x behind the j-th element, or before the first.
LEMMA GrownAlong ==
    ASSUME NEW A, IsFiniteSet(A), NEW nx, NEW h, NEW c, Reads(c, h, nx, A),
           NEW x, x \notin A, NEW j \in 1 .. Cardinality(A) + 1, A # {},
           NEW y, y = c[IF j = 1 THEN Cardinality(A) ELSE j - 1],
           NEW nx2, NextBehind(A, nx, y, x, nx2),
           NEW h2, h2 = (IF j = 1 THEN x ELSE h), NEW t, HasAt(t, c, j, x)
    PROVE  Along(t, Cardinality(A) + 1, h2, nx2)
<1>. DEFINE m == Cardinality(A)
            b == IF j = 1 THEN m ELSE j - 1
<1>1. m \in Nat /\ m > 0 /\ b \in 1 .. m /\ j \in 1 .. m + 1
  BY FS_CardinalityType, FS_EmptySet
<1>2. /\ c \in [1 .. m -> A] /\ c[1] = h /\ nx[c[m]] = h
      /\ \A i \in 1 .. m - 1 : c[i + 1] = nx[c[i]]
      /\ \A i, k \in 1 .. m : c[i] = c[k] => i = k
  BY <1>1 DEF Reads, Along, Chain, Tuple
<1>3. Len(c) = m
  BY <1>1, <1>2
<1>4. \A i \in 1 .. m + 1 : t[i] = IF i < j THEN c[i] ELSE IF i = j THEN x ELSE c[i - 1]
  BY <1>3 DEF HasAt
<1>5. nx2[x] = nx[c[b]] /\ \A z \in A : nx2[z] = IF z = c[b] THEN x ELSE nx[z]
  BY DEF NextBehind
<1>. HIDE DEF m
<1>6. \A i \in 1 .. m : nx2[c[i]] = IF i = b THEN x ELSE nx[c[i]]
  <2>. HIDE DEF b
  <2>. QED
    BY <1>1, <1>2, <1>5
<1>7. ASSUME NEW i \in 1 .. m PROVE t[i + 1] = nx2[t[i]]
  <2>0. i \in 1 .. m + 1 /\ i + 1 \in 1 .. m + 1 /\ i + 1 - 1 = i
    BY <1>1
  <2>1. CASE i < j - 1
    <3>1. t[i] = c[i] /\ t[i + 1] = c[i + 1] /\ i \in 1 .. m - 1 /\ i # b
      BY <1>1, <1>4, <2>0, <2>1
    <3>. QED
      BY <1>2, <1>6, <3>1
  <2>2. CASE i = j - 1
    <3>1. t[i] = c[i] /\ t[i + 1] = x /\ i = b
      BY <1>1, <1>4, <2>0, <2>2
    <3>. QED
      BY <1>6, <3>1
  <2>3. CASE i = j
    <3>1. t[i] = x /\ t[i + 1] = c[i]
      BY <1>1, <1>4, <2>0, <2>3
    <3>2. nx[c[b]] = c[i]
      BY <1>1, <1>2, <2>3
    <3>. QED
      BY <1>5, <3>1, <3>2
  <2>4. CASE i > j
    <3>1. t[i] = c[i - 1] /\ t[i + 1] = c[i] /\ i - 1 \in 1 .. m - 1 /\ (i - 1) + 1 = i
          /\ i - 1 # b /\ i - 1 \in 1 .. m
      BY <1>1, <1>4, <2>0, <2>4
    <3>. QED
      BY <1>2, <1>6, <3>1
  <2>. QED
    BY <1>1, <2>1, <2>2, <2>3, <2>4
<1>8. t[1] = IF j = 1 THEN x ELSE h
  BY <1>1, <1>2, <1>4
<1>. QED
  BY <1>1, <1>7, <1>8 DEF Along, Chain, m

\* The ring without its j-th element.
LEMMA ShrunkAlong ==
    ASSUME NEW A, IsFiniteSet(A), NEW nx, NEW pv, Ring(A, nx, pv), NEW h, NEW c, Reads(c, h, nx, A),
           NEW j \in 1 .. Cardinality(A),
           NEW nx2, NEW pv2, TakenOut(A, nx, pv, c[j], nx2, pv2),
           NEW t, LacksAt(t, c, j)
    PROVE  Along(t, Cardinality(A) - 1, IF j = 1 THEN nx[c[1]] ELSE h, nx2)
<1>. DEFINE m == Cardinality(A)
<1>1. m \in Nat /\ j \in 1 .. m /\ A # {}
  BY FS_CardinalityType, FS_EmptySet
<1>2. /\ c \in [1 .. m -> A] /\ c[1] = h
      /\ \A i \in 1 .. m - 1 : c[i + 1] = nx[c[i]]
      /\ \A i, k \in 1 .. m : c[i] = c[k] => i = k
  BY <1>1 DEF Reads, Along, Chain, Tuple
<1>3. Len(c) = m
  BY <1>1, <1>2
<1>4. \A i \in 1 .. m - 1 : t[i] = IF i < j THEN c[i] ELSE c[i + 1]
  BY <1>3 DEF LacksAt
<1>. HIDE DEF m
<1>5. \A i \in 1 .. m - 1 : i # j => nx2[c[i]] = IF i + 1 = j THEN nx[c[j]] ELSE nx[c[i]]
  <2>. SUFFICES ASSUME NEW i \in 1 .. m - 1, i # j
                PROVE  nx2[c[i]] = IF i + 1 = j THEN nx[c[j]] ELSE nx[c[i]]
    OBVIOUS
  <2>1. i \in 1 .. m /\ i + 1 \in 1 .. m
    BY <1>1
  <2>2. c[i] \in A /\ c[j] \in A /\ c[i] # c[j] /\ nx[c[i]] = c[i + 1]
    BY <1>1, <1>2, <2>1
  <2>3. c[i] = pv[c[j]] <=> nx[c[i]] = c[j]
    BY <2>2 DEF Ring
  <2>4. nx2[c[i]] = IF c[i] = pv[c[j]] THEN nx[c[j]] ELSE nx[c[i]]
    BY <2>2 DEF TakenOut
  <2>. QED
    BY <1>1, <1>2, <2>1, <2>2, <2>3, <2>4
<1>6. ASSUME NEW i \in 1 .. m - 2 PROVE t[i + 1] = nx2[t[i]]
  <2>0. i \in 1 .. m - 1 /\ i + 1 \in 1 .. m - 1 /\ i + 1 + 1 \in 1 .. m
    BY <1>1
  <2>1. CASE i + 1 < j
    <3>1. t[i] = c[i] /\ t[i + 1] = c[i + 1] /\ i # j /\ i + 1 # j
      BY <1>1, <1>4, <2>0, <2>1
    <3>. QED
      BY <1>2, <1>5, <2>0, <3>1
  <2>2. CASE i + 1 = j
    <3>1. t[i] = c[i] /\ t[i + 1] = c[j + 1] /\ j \in 1 .. m - 1 /\ i # j
      BY <1>1, <1>4, <2>0, <2>2
    <3>. QED
      BY <1>2, <1>5, <2>0, <2>2, <3>1
  <2>3. CASE i + 1 > j
    <3>1. t[i] = c[i + 1] /\ t[i + 1] = c[i + 1 + 1] /\ i + 1 # j /\ i + 1 + 1 # j
      BY <1>1, <1>4, <2>0, <2>3
    <3>. QED
      BY <1>2, <1>5, <2>0, <3>1
  <2>. QED
    BY <1>1, <2>1, <2>2, <2>3
<1>7. m - 1 > 0 => t[1] = IF j = 1 THEN nx[c[1]] ELSE h
  BY <1>1, <1>2, <1>4
<1>. QED
  BY <1>1, <1>6, <1>7 DEF Along, Chain, m

\* The ring from its second element on.
LEMMA TurnedAlong ==
    ASSUME NEW A, IsFiniteSet(A), A # {}, NEW h, NEW nx, NEW c, Reads(c, h, nx, A)
    PROVE  LET t == Tail(c) \o <<Head(c)>>
           IN  Tuple(t, A) /\ Along(t, Cardinality(A), nx[h], nx)
<1>. DEFINE m == Cardinality(A)
            t == Tail(c) \o <<Head(c)>>
<1>1. m \in Nat /\ m > 0
  BY FS_CardinalityType, FS_EmptySet
<1>2. /\ c \in [1 .. m -> A] /\ c[1] = h /\ nx[c[m]] = h
      /\ \A i \in 1 .. m - 1 : c[i + 1] = nx[c[i]]
  BY <1>1 DEF Reads, Along, Chain, Tuple
<1>. HIDE DEF m
<1>3. c \in Seq(A) /\ Len(c) = m /\ c # <<>>
  BY <1>1, <1>2
<1>4. Tail(c) \in Seq(A) /\ Len(Tail(c)) = m - 1 /\ Head(c) = c[1]
      /\ \A i \in 1 .. m - 1 : Tail(c)[i] = c[i + 1]
  BY <1>1, <1>3
<1>5. t \in [1 .. m -> A] /\ t[m] = c[1] /\ \A i \in 1 .. m - 1 : t[i] = c[i + 1]
  <2>. DEFINE p == Tail(c)
              x == Head(c)
  <2>1. p \in Seq(A) /\ Len(p) = m - 1 /\ x = c[1] /\ x \in A /\ \A i \in 1 .. m - 1 : p[i] = c[i + 1]
    BY <1>1, <1>2, <1>4
  <2>. HIDE DEF p, x
  <2>2. p \o <<x>> \in Seq(A) /\ Len(p \o <<x>>) = m /\ (p \o <<x>>)[m] = x
        /\ \A i \in 1 .. m - 1 : (p \o <<x>>)[i] = p[i]
    BY <1>1, <2>1
  <2>3. t = p \o <<x>>
    BY DEF p, x
  <2>. DEFINE r == p \o <<x>>
  <2>4. r \in Seq(A) /\ Len(r) = m /\ r[m] = x /\ \A i \in 1 .. m - 1 : r[i] = p[i]
    BY <2>2
  <2>. HIDE DEF t, r
  <2>5. r \in [1 .. m -> A] /\ r[m] = c[1] /\ \A i \in 1 .. m - 1 : r[i] = c[i + 1]
    BY <1>1, <2>1, <2>4
  <2>. QED
    BY <2>3, <2>5 DEF r
<1>. HIDE DEF t
<1>6. \A i \in 1 .. m - 1 : t[i + 1] = nx[t[i]]
  BY <1>1, <1>2, <1>5
<1>7. t[1] = nx[h]
  BY <1>1, <1>2, <1>5
<1>. QED
  BY <1>5, <1>6, <1>7 DEF Along, Chain, Tuple, t, m

-----------------------------------------------------------------------------
(* Ranks in a finite set whose elements have different values.             *)

Below(V, f, i) == {j \in V : f[j] < f[i]}

Rank(V, f, i) == Cardinality(Below(V, f, i))

\* No two elements have one value.
Ranked(V, f) ==
    /\ IsFiniteSet(V)
    /\ \A i \in V : f[i] \in Int
    /\ \A i, j \in V : f[i] = f[j] => i = j

LEMMA RankRange ==
    ASSUME NEW V, NEW f, Ranked(V, f), NEW i \in V
    PROVE  /\ IsFiniteSet(Below(V, f, i)) /\ Rank(V, f, i) \in Nat
           /\ Rank(V, f, i) < Cardinality(V)
<1>1. Below(V, f, i) \in SUBSET V /\ i \notin Below(V, f, i) /\ IsFiniteSet(V)
  BY DEF Below, Ranked
<1>2. Below(V, f, i) # V
  BY <1>1
<1>. QED
  BY <1>1, <1>2, FS_Subset, FS_CardinalityType DEF Rank

LEMMA RankOrder ==
    ASSUME NEW V, NEW f, Ranked(V, f), NEW i \in V, NEW j \in V, f[i] < f[j]
    PROVE  Rank(V, f, i) < Rank(V, f, j)
<1>1. Below(V, f, i) \in SUBSET Below(V, f, j) /\ i \in Below(V, f, j) /\ i \notin Below(V, f, i)
  BY DEF Below, Ranked
<1>2. IsFiniteSet(Below(V, f, j))
  BY RankRange
<1>3. Below(V, f, i) # Below(V, f, j)
  BY <1>1
<1>. QED
  BY <1>1, <1>2, <1>3, FS_Subset, FS_CardinalityType DEF Rank

\* Ranks differ, and there are no gaps between them.
LEMMA RanksFill ==
    ASSUME NEW V, NEW f, Ranked(V, f)
    PROVE  /\ \A i, j \in V : Rank(V, f, i) = Rank(V, f, j) => i = j
           /\ \A n \in 1 .. Cardinality(V) : \E i \in V : Rank(V, f, i) = n - 1
<1>. DEFINE m == Cardinality(V)
            r == [i \in V |-> Rank(V, f, i) + 1]
<1>1. m \in Nat /\ IsFiniteSet(V) /\ IsFiniteSet(1 .. m) /\ Cardinality(1 .. m) = m
  BY FS_CardinalityType, FS_Interval DEF Ranked
<1>2. \A i, j \in V : Rank(V, f, i) = Rank(V, f, j) => i = j
  <2>. SUFFICES ASSUME NEW i \in V, NEW j \in V, Rank(V, f, i) = Rank(V, f, j), i # j PROVE FALSE
    OBVIOUS
  <2>1. f[i] < f[j] \/ f[j] < f[i]
    BY DEF Ranked
  <2>2. Rank(V, f, i) \in Nat /\ Rank(V, f, j) \in Nat
    BY RankRange
  <2>. QED
    BY <2>1, <2>2, RankOrder
<1>. HIDE DEF m
<1>3. r \in [V -> 1 .. m]
  <2>1. ASSUME NEW i \in V PROVE Rank(V, f, i) + 1 \in 1 .. m
    <3>1. Rank(V, f, i) \in Nat /\ Rank(V, f, i) < m
      BY RankRange DEF m
    <3>. QED
      BY <1>1, <3>1
  <2>. QED
    BY <2>1
<1>4. \A i, j \in V : r[i] = r[j] => i = j
  <2>. SUFFICES ASSUME NEW i \in V, NEW j \in V, r[i] = r[j] PROVE i = j
    OBVIOUS
  <2>1. Rank(V, f, i) \in Nat /\ Rank(V, f, j) \in Nat
    BY RankRange
  <2>. QED
    BY <1>2, <2>1
<1>5. r \in Injection(V, 1 .. m)
  <2>. HIDE DEF r
  <2>. QED
    BY <1>3, <1>4 DEF Injection, IsInjective
<1>6. r \in Surjection(V, 1 .. m)
  <2>. HIDE DEF r
  <2>. QED
    BY <1>1, <1>5, FS_Injection DEF m
<1>7. ASSUME NEW n \in 1 .. m PROVE \E i \in V : Rank(V, f, i) = n - 1
  <2>1. PICK i \in V : r[i] = n
    <3>. HIDE DEF r
    <3>. QED
      BY <1>6, <1>7 DEF Surjection
  <2>2. Rank(V, f, i) \in Nat
    BY RankRange
  <2>. QED
    BY <1>1, <2>1, <2>2
<1>. QED
  BY <1>2, <1>7 DEF m

-----------------------------------------------------------------------------
(* Division.                                                               *)

LEMMA DivWith ==
    ASSUME NEW n \in Nat \ {0}, NEW h \in Nat
    PROVE  h \div n \in Nat /\ h % n \in 0 .. n - 1 /\ h = n * (h \div n) + (h % n)
<1>1. h \div n \in Nat
  OBVIOUS
<1>2. h % n \in 0 .. n - 1
  OBVIOUS
<1>3. h = n * (h \div n) + (h % n)
  OBVIOUS
<1>. QED
  BY <1>1, <1>2, <1>3

\* What divides with a remainder below n is the quotient.
LEMMA DivIs ==
    ASSUME NEW n \in Nat \ {0}, NEW q \in Nat, NEW r \in Nat, r < n
    PROVE  (n * q + r) % n = r /\ (n * q + r) \div n = q
<1>. DEFINE a == n * q + r
            u == a \div n
            s == a % n
<1>1. a \in Nat
  OBVIOUS
<1>2. u \in Nat /\ s \in 0 .. n - 1 /\ a = n * u + s
  BY <1>1, DivWith
<1>. HIDE DEF u, s
<1>3. ASSUME NEW x \in Nat, NEW y \in Nat, x < y PROVE n * x + n <= n * y
  <2>1. y = x + 1 + (y - x - 1) /\ y - x - 1 \in Nat
    BY <1>3
  <2>2. \A z \in Nat : n * (x + 1 + z) = n * x + n + n * z /\ n * z \in Nat
    OBVIOUS
  <2>. QED
    BY <2>1, <2>2
<1>4. ~ (u < q) /\ ~ (q < u)
  BY <1>2, <1>3
<1>5. u = q
  BY <1>2, <1>4
<1>. QED
  BY <1>2, <1>5 DEF u, s

-----------------------------------------------------------------------------
(* Powers of two.                                                          *)

IsPowers(w, d) == w = [i \in 0 .. d |-> IF i = 0 THEN 1 ELSE 2 * w[i - 1]]

Double == [x \in Nat |-> 2 * x]

LEMMA PowersExist ==
    ASSUME NEW d \in Nat
    PROVE  \E w : IsPowers(w, d)
<1>1. 1 \in Nat /\ Double \in [Nat -> Nat]
  BY DEF Double
<1>2. PICK w \in [0 .. d -> Nat] : IsWalk(w, 1, Double, d)
  BY <1>1, WalkExists
<1>3. ASSUME NEW i \in 0 .. d PROVE w[i] = IF i = 0 THEN 1 ELSE 2 * w[i - 1]
  <2>1. w[i] = IF i = 0 THEN 1 ELSE Double[w[i - 1]]
    BY <1>2 DEF IsWalk
  <2>2. i # 0 => w[i - 1] \in Nat
    BY <1>2
  <2>. QED
    BY <2>1, <2>2 DEF Double
<1>4. w = [i \in 0 .. d |-> w[i]]
  OBVIOUS
<1>. HIDE <1>2
<1>5. [i \in 0 .. d |-> w[i]] = [i \in 0 .. d |-> IF i = 0 THEN 1 ELSE 2 * w[i - 1]]
  BY <1>3
<1>6. IsPowers(w, d)
  BY <1>4, <1>5 DEF IsPowers
<1>. QED
  BY <1>6

LEMMA PowersWalk ==
    ASSUME NEW d \in Nat, NEW w, IsPowers(w, d)
    PROVE  (\A i \in 0 .. d : w[i] \in Nat) /\ Follows(w, 1, Double, d)
<1>1. \A i \in 0 .. d : w[i] = IF i = 0 THEN 1 ELSE 2 * w[i - 1]
  BY DEF IsPowers
<1>2. \A i \in 0 .. d : w[i] \in Nat
  <2>. DEFINE Bad == {i \in 0 .. d : w[i] \notin Nat}
  <2>. SUFFICES ASSUME Bad # {} PROVE FALSE
    OBVIOUS
  <2>1. Bad \in SUBSET Nat
    OBVIOUS
  <2>. HIDE DEF Bad
  <2>2. PICK i \in Bad : \A j \in Bad : i <= j
    BY <2>1, LeastExists
  <2>. USE DEF Bad
  <2>3. i \in 0 .. d /\ i # 0
    BY <1>1, <2>2
  <2>4. i - 1 \in 0 .. d /\ i - 1 \notin Bad
    BY <2>2, <2>3
  <2>. QED
    BY <1>1, <2>2, <2>3, <2>4
<1>3. ASSUME NEW i \in 1 .. d PROVE w[i] = Double[w[i - 1]]
  <2>1. i \in 0 .. d /\ i # 0 /\ i - 1 \in 0 .. d
    OBVIOUS
  <2>. QED
    BY <1>1, <1>2, <2>1 DEF Double
<1>4. w[0] = 1
  BY <1>1
<1>. QED
  BY <1>2, <1>3, <1>4 DEF Follows

\* A longer list of powers goes on where a shorter one ends.
LEMMA PowersGrow ==
    ASSUME NEW d \in Nat, NEW w, IsPowers(w, d), NEW v, IsPowers(v, d + 1)
    PROVE  v[d + 1] = 2 * w[d]
<1>1. 1 \in Nat /\ Double \in [Nat -> Nat]
  BY DEF Double
<1>2. PICK u : IsWalk(u, 1, Double, d)
  BY <1>1, WalkExists
<1>3. Follows(w, 1, Double, d) /\ Follows(v, 1, Double, d + 1)
  BY PowersWalk
<1>4. Follows(v, 1, Double, d)
  BY <1>3 DEF Follows
<1>5. v[d] = u[d]
  BY <1>2, <1>4, WalkUnique
<1>6. w[d] = u[d]
  BY <1>2, <1>3, WalkUnique
<1>7. v[d + 1] = 2 * v[d]
  <2>1. d + 1 \in 0 .. d + 1 /\ d + 1 # 0 /\ (d + 1) - 1 = d
    OBVIOUS
  <2>. QED
    BY <2>1 DEF IsPowers
<1>. QED
  BY <1>5, <1>6, <1>7

LEMMA PowersPositive ==
    ASSUME NEW d \in Nat, NEW w, IsPowers(w, d)
    PROVE  w[d] \in Nat \ {0} /\ w[0] = 1
<1>1. \A i \in 0 .. d : w[i] = IF i = 0 THEN 1 ELSE 2 * w[i - 1]
  BY DEF IsPowers
<1>2. \A i \in 0 .. d : w[i] \in Nat
  BY PowersWalk
<1>. DEFINE Bad == {i \in 0 .. d : w[i] = 0}
<1>3. Bad = {}
  <2>. SUFFICES ASSUME Bad # {} PROVE FALSE
    OBVIOUS
  <2>1. Bad \in SUBSET Nat
    OBVIOUS
  <2>. HIDE DEF Bad
  <2>2. PICK i \in Bad : \A j \in Bad : i <= j
    BY <2>1, LeastExists
  <2>. USE DEF Bad
  <2>3. i \in 0 .. d /\ i # 0
    BY <1>1, <2>2
  <2>4. i - 1 \in 0 .. d /\ i - 1 \notin Bad
    BY <2>2, <2>3
  <2>. QED
    BY <1>1, <1>2, <2>2, <2>3, <2>4
<1>. QED
  BY <1>1, <1>2, <1>3

-----------------------------------------------------------------------------
(* Sequences put together.                                                 *)

\* w[i] is the first i sequences of ss put together
Joins(w, ss) == w = [i \in 1 .. Len(ss) |-> IF i = 1 THEN ss[i] ELSE w[i - 1] \o ss[i]]

LEMMA Concat ==
    ASSUME NEW S, NEW s \in Seq(S), NEW t \in Seq(S)
    PROVE  /\ s \o t \in Seq(S) /\ Len(s \o t) = Len(s) + Len(t)
           /\ Len(s) \in Nat /\ Len(t) \in Nat
           /\ \A k \in 1 .. Len(s) : (s \o t)[k] = s[k]
           /\ \A k \in 1 .. Len(t) : (s \o t)[Len(s) + k] = t[k]
OBVIOUS

\* Short sequences put together.
LEMMA ConcatShort ==
    ASSUME NEW S, NEW a \in S, NEW b \in S, NEW d \in S
    PROVE  /\ <<a>> \in Seq(S) /\ <<>> \in Seq(S)
           /\ <<>> \o <<>> = <<>> /\ <<>> \o <<a>> = <<a>> /\ <<a>> \o <<>> = <<a>>
           /\ <<a>> \o <<b>> = <<a, b>> /\ <<a, b>> \o <<>> = <<a, b>>
           /\ <<a, b>> \o <<d>> = <<a, b, d>>
<1>1. <<a>> \in Seq(S) /\ <<b>> \in Seq(S) /\ <<d>> \in Seq(S) /\ <<a, b>> \in Seq(S) /\ <<>> \in Seq(S)
  OBVIOUS
<1>2. \A s \in Seq(S) : s \o <<>> = s /\ <<>> \o s = s
  OBVIOUS
<1>3. <<a>> \o <<b>> = <<a, b>>
  <2>1. PICK s, t, u : s = <<a>> /\ t = <<b>> /\ u = <<a, b>>
    OBVIOUS
  <2>2. /\ s \in Seq(S) /\ Len(s) = 1 /\ s[1] = a /\ t \in Seq(S) /\ Len(t) = 1 /\ t[1] = b
        /\ u \in Seq(S) /\ Len(u) = 2 /\ u[1] = a /\ u[2] = b
    BY <1>1, <2>1
  <2>3. PICK q : q = s \o t
    OBVIOUS
  <2>4. /\ q \in Seq(S) /\ Len(q) = Len(s) + Len(t)
        /\ \A k \in 1 .. Len(s) : q[k] = s[k]
        /\ \A k \in 1 .. Len(t) : q[Len(s) + k] = t[k]
    <3>1. s \in Seq(S) /\ t \in Seq(S)
      BY <2>2
    <3>. QED
      BY <2>3, <3>1
  <2>5. q = u
    BY <2>2, <2>4
  <2>. QED
    BY <2>1, <2>3, <2>5
<1>4. <<a, b>> \o <<d>> = <<a, b, d>>
  <2>1. PICK s, t, u : s = <<a, b>> /\ t = <<d>> /\ u = <<a, b, d>>
    OBVIOUS
  <2>2. /\ s \in Seq(S) /\ Len(s) = 2 /\ s[1] = a /\ s[2] = b /\ t \in Seq(S) /\ Len(t) = 1 /\ t[1] = d
        /\ u \in Seq(S) /\ Len(u) = 3 /\ u[1] = a /\ u[2] = b /\ u[3] = d
    BY <1>1, <2>1
  <2>3. PICK q : q = s \o t
    OBVIOUS
  <2>4. /\ q \in Seq(S) /\ Len(q) = Len(s) + Len(t)
        /\ \A k \in 1 .. Len(s) : q[k] = s[k]
        /\ \A k \in 1 .. Len(t) : q[Len(s) + k] = t[k]
    <3>1. s \in Seq(S) /\ t \in Seq(S)
      BY <2>2
    <3>. QED
      BY <2>3, <3>1
  <2>5. q = u
    BY <2>2, <2>4
  <2>. QED
    BY <2>1, <2>3, <2>5
<1>. QED
  BY <1>1, <1>2, <1>3, <1>4

In(x, s) == \E k \in 1 .. Len(s) : s[k] = x

\* no two places hold the same
Distinct(s) == \A k, l \in 1 .. Len(s) : s[k] = s[l] => k = l

LEMMA ConcatIn ==
    ASSUME NEW S, NEW s \in Seq(S), NEW t \in Seq(S), NEW x
    PROVE  In(x, s \o t) <=> In(x, s) \/ In(x, t)
<1>1. ASSUME In(x, s \o t) PROVE In(x, s) \/ In(x, t)
  <2>1. PICK k \in 1 .. Len(s \o t) : (s \o t)[k] = x
    BY <1>1 DEF In
  <2>2. k \in 1 .. Len(s) \/ (k - Len(s) \in 1 .. Len(t) /\ k = Len(s) + (k - Len(s)))
    BY Concat
  <2>. QED
    BY <2>1, <2>2, Concat DEF In
<1>2. ASSUME In(x, s) PROVE In(x, s \o t)
  <2>1. PICK k \in 1 .. Len(s) : s[k] = x
    BY <1>2 DEF In
  <2>2. k \in 1 .. Len(s \o t) /\ (s \o t)[k] = x
    BY <2>1, Concat
  <2>. QED
    BY <2>2 DEF In
<1>3. ASSUME In(x, t) PROVE In(x, s \o t)
  <2>1. PICK k \in 1 .. Len(t) : t[k] = x
    BY <1>3 DEF In
  <2>2. Len(s) + k \in 1 .. Len(s \o t) /\ (s \o t)[Len(s) + k] = x
    BY <2>1, Concat
  <2>. QED
    BY <2>2 DEF In
<1>. QED
  BY <1>1, <1>2, <1>3

LEMMA ConcatDistinct ==
    ASSUME NEW S, NEW s \in Seq(S), NEW t \in Seq(S), Distinct(s), Distinct(t),
           \A x : ~ (In(x, s) /\ In(x, t))
    PROVE  Distinct(s \o t)
<1>. DEFINE m == Len(s)
            u == s \o t
<1>1. /\ m \in Nat /\ Len(t) \in Nat /\ Len(u) = m + Len(t)
      /\ \A k \in 1 .. m : u[k] = s[k]
      /\ \A k \in 1 .. Len(t) : u[m + k] = t[k]
  BY Concat
<1>2. SUFFICES ASSUME NEW k \in 1 .. Len(u), NEW l \in 1 .. Len(u), u[k] = u[l] PROVE k = l
  BY DEF Distinct
<1>. HIDE DEF m, u
<1>3. \A x \in 1 .. Len(u) : x \in 1 .. m \/ (x - m \in 1 .. Len(t) /\ x = m + (x - m))
  BY <1>1
<1>4. CASE k \in 1 .. m /\ l \in 1 .. m
  BY <1>1, <1>2, <1>4 DEF Distinct, m
<1>5. \A i \in 1 .. m, j \in 1 .. Len(t) : s[i] # t[j]
  BY DEF In, m
<1>6. CASE k \in 1 .. m /\ l \notin 1 .. m
  <2>1. u[k] = s[k] /\ l - m \in 1 .. Len(t) /\ u[l] = t[l - m]
    BY <1>1, <1>3, <1>6
  <2>. QED
    BY <1>2, <1>5, <1>6, <2>1
<1>7. CASE k \notin 1 .. m /\ l \in 1 .. m
  <2>1. u[l] = s[l] /\ k - m \in 1 .. Len(t) /\ u[k] = t[k - m]
    BY <1>1, <1>3, <1>7
  <2>. QED
    BY <1>2, <1>5, <1>7, <2>1
<1>8. CASE k \notin 1 .. m /\ l \notin 1 .. m
  <2>1. k - m \in 1 .. Len(t) /\ l - m \in 1 .. Len(t) /\ t[k - m] = t[l - m]
    BY <1>1, <1>2, <1>3, <1>8
  <2>2. k - m = l - m
    BY <2>1 DEF Distinct
  <2>. QED
    BY <1>1, <2>2
<1>. QED
  BY <1>4, <1>6, <1>7, <1>8

\* the first k of them
Begun(w, ss, k) == w = [i \in 1 .. k |-> IF i = 1 THEN ss[i] ELSE w[i - 1] \o ss[i]]

\* Sequences can be put together one by one.
LEMMA JoinsExist ==
    ASSUME NEW S, NEW ss \in Seq(S)
    PROVE  \E w : Joins(w, ss)
<1>. DEFINE Bad == {k \in 0 .. Len(ss) : ~ \E w : Begun(w, ss, k)}
<1>0. Len(ss) \in Nat
  OBVIOUS
<1>1. Bad \in SUBSET Nat
  BY <1>0
<1>2. Bad = {}
  <2>. SUFFICES ASSUME Bad # {} PROVE FALSE
    OBVIOUS
  <2>. HIDE DEF Bad
  <2>1. PICK k \in Bad : \A j \in Bad : k <= j
    BY <1>1, LeastExists
  <2>. USE DEF Bad
  <2>2. k # 0
    <3>1. Begun(<<>>, ss, 0)
      BY DEF Begun
    <3>. QED
      BY <2>1, <3>1
  <2>3. k \in 1 .. Len(ss) /\ k - 1 \in 0 .. Len(ss) /\ k - 1 \notin Bad
    BY <1>0, <2>1, <2>2
  <2>4. PICK v : Begun(v, ss, k - 1)
    BY <2>3
  <2>. DEFINE w == [i \in 1 .. k |-> IF i = k THEN IF k = 1 THEN ss[k] ELSE v[k - 1] \o ss[k] ELSE v[i]]
  <2>5. ASSUME NEW i \in 1 .. k PROVE w[i] = IF i = 1 THEN ss[i] ELSE w[i - 1] \o ss[i]
    <3>1. CASE i = k
      <4>1. i # 1 => i - 1 \in 1 .. k /\ i - 1 # k /\ w[i - 1] = v[i - 1]
        BY <1>0, <2>3, <3>1
      <4>. QED
        BY <3>1, <4>1
    <3>2. CASE i # k
      <4>1. i \in 1 .. k - 1 /\ w[i] = v[i] /\ (i # 1 => w[i - 1] = v[i - 1])
        BY <1>0, <2>3, <3>2
      <4>2. v[i] = IF i = 1 THEN ss[i] ELSE v[i - 1] \o ss[i]
        BY <2>4, <4>1 DEF Begun
      <4>. QED
        BY <4>1, <4>2
    <3>. QED
      BY <3>1, <3>2
  <2>6. w = [i \in 1 .. k |-> w[i]]
    OBVIOUS
  <2>. HIDE DEF w
  <2>7. [i \in 1 .. k |-> w[i]] = [i \in 1 .. k |-> IF i = 1 THEN ss[i] ELSE w[i - 1] \o ss[i]]
    BY <2>5
  <2>8. Begun(w, ss, k)
    BY <2>6, <2>7 DEF Begun
  <2>. QED
    BY <2>1, <2>8
<1>3. \E w : Begun(w, ss, Len(ss))
  BY <1>0, <1>2
<1>. QED
  BY <1>3 DEF Joins, Begun

\* x is a member of one of the first h sequences of ss
InFirst(x, ss, h) == \E j \in 1 .. h : In(x, ss[j])

\* What they are put together to: the members, in sequence, and none twice.
LEMMA JoinsAre ==
    ASSUME NEW S, NEW ss \in Seq(Seq(S)), NEW w, Joins(w, ss), NEW i \in 1 .. Len(ss)
    PROVE  /\ w[i] \in Seq(S)
           /\ \A x : In(x, w[i]) <=> InFirst(x, ss, i)
<1>. DEFINE Ok(h) == w[h] \in Seq(S) /\ \A x : In(x, w[h]) <=> InFirst(x, ss, h)
            Bad == {h \in 1 .. Len(ss) : ~ Ok(h)}
<1>1. Bad \in SUBSET Nat
  OBVIOUS
<1>2. SUFFICES ASSUME Bad # {} PROVE FALSE
  OBVIOUS
<1>. HIDE DEF Bad
<1>0. Len(ss) \in Nat /\ \A j \in 1 .. Len(ss) : ss[j] \in Seq(S)
  OBVIOUS
<1>3. PICK h \in Bad : \A j \in Bad : h <= j
  BY <1>1, <1>2, LeastExists
<1>4. h \in 1 .. Len(ss) /\ ~ Ok(h)
  BY <1>3 DEF Bad
<1>5. w[h] = IF h = 1 THEN ss[h] ELSE w[h - 1] \o ss[h]
  BY <1>4 DEF Joins
<1>6. h # 1
  <2>. SUFFICES ASSUME h = 1 PROVE FALSE
    OBVIOUS
  <2>1. w[h] = ss[1] /\ w[h] \in Seq(S)
    BY <1>0, <1>4, <1>5
  <2>2. \A j : j \in 1 .. 1 <=> j = 1
    OBVIOUS
  <2>3. \A x : In(x, ss[1]) <=> InFirst(x, ss, 1)
    BY <2>2 DEF InFirst
  <2>. QED
    BY <1>4, <2>1, <2>3
<1>7. h - 1 \in 1 .. Len(ss) /\ h - 1 \notin Bad
  BY <1>0, <1>3, <1>4, <1>6
<1>8. Ok(h - 1)
  BY <1>7 DEF Bad
<1>. DEFINE u == w[h - 1]
            t == ss[h]
<1>9. w[h] = u \o t /\ u \in Seq(S) /\ t \in Seq(S)
  BY <1>0, <1>4, <1>5, <1>6, <1>8
<1>10. \A x : In(x, u) <=> InFirst(x, ss, h - 1)
  BY <1>8
<1>. HIDE DEF u
<1>11. \A x : In(x, u \o t) <=> In(x, u) \/ In(x, t)
  <2>. HIDE DEF t
  <2>. QED
    BY <1>9, ConcatIn
<1>12. \A x : InFirst(x, ss, h) <=> InFirst(x, ss, h - 1) \/ In(x, t)
  <2>1. \A j : j \in 1 .. h <=> j \in 1 .. h - 1 \/ j = h
    BY <1>0, <1>4
  <2>. QED
    BY <2>1 DEF InFirst
<1>13. w[h] \in Seq(S) /\ \A x : In(x, w[h]) <=> InFirst(x, ss, h)
  <2>. HIDE DEF t
  <2>1. w[h] \in Seq(S)
    BY <1>9, Concat
  <2>. QED
    BY <1>9, <1>10, <1>11, <1>12, <2>1
<1>. QED
  BY <1>4, <1>13

LEMMA JoinsDistinct ==
    ASSUME NEW S, NEW ss \in Seq(Seq(S)), NEW w, Joins(w, ss), NEW i \in 1 .. Len(ss),
           \A j \in 1 .. Len(ss) : Distinct(ss[j]),
           \A x : \A g, j \in 1 .. Len(ss) : In(x, ss[g]) /\ In(x, ss[j]) => g = j
    PROVE  Distinct(w[i])
<1>. DEFINE Bad == {h \in 1 .. Len(ss) : ~ Distinct(w[h])}
<1>1. Bad \in SUBSET Nat
  OBVIOUS
<1>2. SUFFICES ASSUME Bad # {} PROVE FALSE
  OBVIOUS
<1>. HIDE DEF Bad
<1>3. PICK h \in Bad : \A j \in Bad : h <= j
  BY <1>1, <1>2, LeastExists
<1>4. h \in 1 .. Len(ss) /\ ~ Distinct(w[h]) /\ Len(ss) \in Nat /\ ss[h] \in Seq(S)
  BY <1>3 DEF Bad
<1>5. w[h] = IF h = 1 THEN ss[h] ELSE w[h - 1] \o ss[h]
  BY <1>4 DEF Joins
<1>6. h # 1
  BY <1>4, <1>5
<1>7. h - 1 \in 1 .. Len(ss) /\ h - 1 \notin Bad
  BY <1>3, <1>4, <1>6
<1>8. Distinct(w[h - 1])
  BY <1>7 DEF Bad
<1>9. w[h - 1] \in Seq(S) /\ \A x : In(x, w[h - 1]) <=> InFirst(x, ss, h - 1)
  BY <1>7, JoinsAre
<1>10. ASSUME NEW x, In(x, w[h - 1]), In(x, ss[h]) PROVE FALSE
  <2>1. PICK j \in 1 .. h - 1 : In(x, ss[j])
    BY <1>9, <1>10 DEF InFirst
  <2>2. j \in 1 .. Len(ss) /\ j # h
    BY <1>4
  <2>. QED
    BY <1>4, <1>10, <2>1, <2>2
<1>11. Distinct(w[h - 1] \o ss[h])
  BY <1>4, <1>8, <1>9, <1>10, ConcatDistinct
<1>. QED
  BY <1>4, <1>5, <1>6, <1>11

-----------------------------------------------------------------------------
(* Sums.                                                                   *)

\* f[m] is the sum of the first m numbers of a
SumsTo(f, a, k) == f = [m \in 0 .. k |-> IF m = 0 THEN 0 ELSE f[m - 1] + a[m]]
Sums(f, a) == SumsTo(f, a, Len(a))

LEMMA SumsExist ==
    ASSUME NEW a \in Seq(Nat)
    PROVE  \E f : Sums(f, a)
<1>. DEFINE Bad == {k \in 0 .. Len(a) : ~ \E f : SumsTo(f, a, k)}
<1>0. Len(a) \in Nat
  OBVIOUS
<1>1. Bad \in SUBSET Nat
  BY <1>0
<1>2. Bad = {}
  <2>. SUFFICES ASSUME Bad # {} PROVE FALSE
    OBVIOUS
  <2>. HIDE DEF Bad
  <2>1. PICK k \in Bad : \A j \in Bad : k <= j
    BY <1>1, LeastExists
  <2>. USE DEF Bad
  <2>2. k # 0
    <3>1. SumsTo([m \in 0 .. 0 |-> 0], a, 0)
      BY DEF SumsTo
    <3>. QED
      BY <2>1, <3>1
  <2>3. k \in 1 .. Len(a) /\ k - 1 \in 0 .. Len(a) /\ k - 1 \notin Bad
    BY <1>0, <2>1, <2>2
  <2>4. PICK v : SumsTo(v, a, k - 1)
    BY <2>3
  <2>. DEFINE w == [i \in 0 .. k |-> IF i = k THEN v[k - 1] + a[k] ELSE v[i]]
  <2>5. ASSUME NEW i \in 0 .. k PROVE w[i] = IF i = 0 THEN 0 ELSE w[i - 1] + a[i]
    <3>1. CASE i = k
      <4>1. i # 0 /\ i - 1 \in 0 .. k /\ i - 1 # k /\ w[i - 1] = v[i - 1]
        BY <1>0, <2>3, <3>1
      <4>. QED
        BY <3>1, <4>1
    <3>2. CASE i # k
      <4>1. i \in 0 .. k - 1 /\ w[i] = v[i] /\ (i # 0 => w[i - 1] = v[i - 1])
        BY <1>0, <2>3, <3>2
      <4>2. v[i] = IF i = 0 THEN 0 ELSE v[i - 1] + a[i]
        BY <2>4, <4>1 DEF SumsTo
      <4>. QED
        BY <4>1, <4>2
    <3>. QED
      BY <3>1, <3>2
  <2>6. w = [i \in 0 .. k |-> w[i]]
    OBVIOUS
  <2>. HIDE DEF w
  <2>7. [i \in 0 .. k |-> w[i]] = [i \in 0 .. k |-> IF i = 0 THEN 0 ELSE w[i - 1] + a[i]]
    BY <2>5
  <2>8. SumsTo(w, a, k)
    BY <2>6, <2>7 DEF SumsTo
  <2>. QED
    BY <2>1, <2>8
<1>3. \E f : SumsTo(f, a, Len(a))
  BY <1>0, <1>2
<1>. QED
  BY <1>3 DEF Sums

\* the sum of no numbers, and of one more
LEMMA SumsStep ==
    ASSUME NEW a, NEW k \in Nat, NEW f, SumsTo(f, a, k)
    PROVE  f[0] = 0 /\ \A m \in 1 .. k : m - 1 \in 0 .. k /\ f[m] = f[m - 1] + a[m]
<1>1. ASSUME NEW m \in 0 .. k PROVE f[m] = IF m = 0 THEN 0 ELSE f[m - 1] + a[m]
  BY DEF SumsTo
<1>2. 0 \in 0 .. k /\ \A m \in 1 .. k : m \in 0 .. k /\ m # 0 /\ m - 1 \in 0 .. k
  OBVIOUS
<1>. HIDE DEF SumsTo
<1>. QED
  BY <1>1, <1>2

\* the units the numbers of a count, in the first m places
Units(a, m) == {c \in (1 .. m) \X Nat : c[2] < a[c[1]]}

LEMMA UnitsRow ==
    ASSUME NEW m \in Nat, NEW r \in Nat
    PROVE  IsFiniteSet({m} \X (0 .. r - 1)) /\ Cardinality({m} \X (0 .. r - 1)) = r
<1>. DEFINE T == {m} \X (0 .. r - 1)
            g == [t \in 0 .. r - 1 |-> <<m, t>>]
<1>1. IsFiniteSet(0 .. r - 1) /\ Cardinality(0 .. r - 1) = r
  BY FS_Interval
<1>2. g \in [0 .. r - 1 -> T]
  OBVIOUS
<1>3. \A s, t \in 0 .. r - 1 : g[s] = g[t] => s = t
  OBVIOUS
<1>4. \A c \in T : \E t \in 0 .. r - 1 : g[t] = c
  OBVIOUS
<1>5. g \in Bijection(0 .. r - 1, T)
  BY <1>2, <1>3, <1>4 DEF Bijection, Injection, Surjection, IsInjective
<1>. HIDE DEF g, T
<1>6. ExistsBijection(0 .. r - 1, T)
  BY <1>5 DEF ExistsBijection
<1>7. IsFiniteSet(T) /\ Cardinality(T) = Cardinality(0 .. r - 1)
  BY <1>1, <1>6, FS_Bijection
<1>. QED
  BY <1>1, <1>7 DEF T

\* A sum is a number of units.
LEMMA SumsCount ==
    ASSUME NEW a \in Seq(Nat), NEW f, Sums(f, a), NEW m \in 0 .. Len(a)
    PROVE  f[m] \in Nat /\ IsFiniteSet(Units(a, m)) /\ Cardinality(Units(a, m)) = f[m]
<1>. DEFINE Ok(k) == f[k] \in Nat /\ IsFiniteSet(Units(a, k)) /\ Cardinality(Units(a, k)) = f[k]
            Bad == {k \in 0 .. Len(a) : ~ Ok(k)}
<1>0. Len(a) \in Nat /\ \A i \in 1 .. Len(a) : a[i] \in Nat
  OBVIOUS
<1>1. Bad \in SUBSET Nat
  BY <1>0
<1>2. SUFFICES ASSUME Bad # {} PROVE FALSE
  OBVIOUS
<1>. HIDE DEF Bad
<1>3. PICK k \in Bad : \A j \in Bad : k <= j
  BY <1>1, <1>2, LeastExists
<1>4. k \in 0 .. Len(a) /\ ~ Ok(k)
  BY <1>3 DEF Bad
<1>5. f[0] = 0 /\ \A i \in 1 .. Len(a) : f[i] = f[i - 1] + a[i]
  BY <1>0, SumsStep DEF Sums
<1>6. k # 0
  <2>1. Units(a, 0) = {}
    BY DEF Units
  <2>2. IsFiniteSet(Units(a, 0)) /\ Cardinality(Units(a, 0)) = 0
    BY <2>1, FS_EmptySet, Zenon
  <2>3. Ok(0)
    BY <1>5, <2>2
  <2>. QED
    BY <1>4, <2>3
<1>7. k \in 1 .. Len(a) /\ k - 1 \in 0 .. Len(a) /\ k - 1 \notin Bad
  BY <1>0, <1>3, <1>4, <1>6
<1>8. Ok(k - 1)
  BY <1>7 DEF Bad
<1>. DEFINE row == {k} \X (0 .. a[k] - 1)
            top == Units(a, k - 1)
<1>9. a[k] \in Nat /\ k \in Nat
  BY <1>0, <1>7
<1>10. IsFiniteSet(row) /\ Cardinality(row) = a[k]
  BY <1>9, UnitsRow
<1>11. Units(a, k) = top \cup row /\ top \cap row = {}
  BY <1>0, <1>7, <1>9 DEF Units
<1>12. IsFiniteSet(top) /\ Cardinality(top) = f[k - 1] /\ f[k - 1] \in Nat
  BY <1>8
<1>. HIDE DEF row, top
<1>13. IsFiniteSet(top \cup row) /\ Cardinality(top \cup row) = f[k - 1] + a[k] - 0
  <2>1. Cardinality(top \cap row) = 0
    BY ONLY <1>11, FS_EmptySet, Zenon
  <2>2. /\ IsFiniteSet(top \cup row)
        /\ Cardinality(top \cup row) = Cardinality(top) + Cardinality(row) - Cardinality(top \cap row)
    BY ONLY <1>10, <1>12, FS_Union, Zenon
  <2>. QED
    BY ONLY <1>10, <1>12, <2>1, <2>2
<1>14. f[k] = f[k - 1] + a[k] /\ f[k] \in Nat
  <2>1. f[k] = f[k - 1] + a[k]
    BY ONLY <1>5, <1>7
  <2>. QED
    BY ONLY <1>9, <1>12, <2>1
<1>15. Ok(k)
  BY <1>11, <1>12, <1>9, <1>13, <1>14
<1>. QED
  BY <1>4, <1>15

LEMMA SumsGrow ==
    ASSUME NEW a \in Seq(Nat), NEW f, Sums(f, a), NEW m \in 0 .. Len(a), NEW k \in 0 .. m
    PROVE  f[k] <= f[m]
<1>1. k \in 0 .. Len(a) /\ m \in 0 .. Len(a)
  OBVIOUS
<1>2. /\ f[k] \in Nat /\ Cardinality(Units(a, k)) = f[k]
      /\ f[m] \in Nat /\ IsFiniteSet(Units(a, m)) /\ Cardinality(Units(a, m)) = f[m]
  BY <1>1, SumsCount
<1>3. Units(a, k) \subseteq Units(a, m)
  BY DEF Units
<1>4. Cardinality(Units(a, k)) <= Cardinality(Units(a, m))
  BY <1>2, <1>3, FS_Subset
<1>. QED
  BY <1>2, <1>4

\* One number that is not zero makes a sum that is not zero.
LEMMA SumsPositive ==
    ASSUME NEW a \in Seq(Nat), NEW f, Sums(f, a), NEW k \in 1 .. Len(a), a[k] # 0
    PROVE  f[Len(a)] > 0
<1>1. Len(a) \in Nat /\ a[k] \in Nat /\ k - 1 \in 0 .. Len(a) /\ k \in 0 .. Len(a) /\ Len(a) \in 0 .. Len(a)
  OBVIOUS
<1>2. f[k] = f[k - 1] + a[k]
  BY <1>1, SumsStep DEF Sums
<1>3. f[k - 1] \in Nat /\ f[k] \in Nat /\ f[Len(a)] \in Nat
  BY <1>1, SumsCount
<1>4. k \in 0 .. Len(a) /\ f[k] <= f[Len(a)]
  BY <1>1, SumsGrow
<1>. QED
  BY <1>1, <1>2, <1>3, <1>4

\* pi leads from the numbers of b to the same numbers of a, and reaches all
\* of a but zeros.
Renumbers(pi, b, a) ==
    /\ \A i \in 1 .. Len(b) : pi[i] \in 1 .. Len(a) /\ a[pi[i]] = b[i]
    /\ \A i, j \in 1 .. Len(b) : pi[i] = pi[j] => i = j
    /\ \A k \in 1 .. Len(a) : a[k] = 0 \/ \E i \in 1 .. Len(b) : pi[i] = k

\* The order of the numbers does not matter to their sum, nor do zeros.
LEMMA SameSum ==
    ASSUME NEW a \in Seq(Nat), NEW b \in Seq(Nat), NEW pi, Renumbers(pi, b, a),
           NEW f, Sums(f, a), NEW g, Sums(g, b)
    PROVE  f[Len(a)] = g[Len(b)]
<1>. DEFINE A == Units(a, Len(a))
            B == Units(b, Len(b))
            h == [c \in B |-> <<pi[c[1]], c[2]>>]
<1>0. /\ Len(a) \in Nat /\ \A i \in 1 .. Len(a) : a[i] \in Nat
      /\ Len(b) \in Nat /\ \A i \in 1 .. Len(b) : b[i] \in Nat
  OBVIOUS
<1>1. IsFiniteSet(A) /\ Cardinality(A) = f[Len(a)]
  BY <1>0, SumsCount
<1>2. IsFiniteSet(B) /\ Cardinality(B) = g[Len(b)]
  BY <1>0, SumsCount
<1>3. \A c \in B : /\ c[1] \in 1 .. Len(b) /\ c[2] \in Nat /\ c[2] < b[c[1]] /\ c = <<c[1], c[2]>>
                   /\ pi[c[1]] \in 1 .. Len(a) /\ c[2] < a[pi[c[1]]]
  BY DEF Units, Renumbers
<1>4. h \in [B -> A]
  <2>1. \A c \in B : <<pi[c[1]], c[2]>> \in A
    BY <1>3 DEF Units
  <2>. HIDE DEF A, B
  <2>. QED
    BY <2>1
<1>5. \A c, d \in B : h[c] = h[d] => c = d
  <2>. SUFFICES ASSUME NEW c \in B, NEW d \in B, h[c] = h[d] PROVE c = d
    OBVIOUS
  <2>. HIDE DEF B
  <2>1. pi[c[1]] = pi[d[1]] /\ c[2] = d[2]
    OBVIOUS
  <2>2. c[1] = d[1]
    BY <1>3, <2>1 DEF Renumbers
  <2>. QED
    BY <1>3, <2>1, <2>2
<1>6. \A e \in A : \E c \in B : h[c] = e
  <2>. SUFFICES ASSUME NEW e \in A PROVE \E c \in B : h[c] = e
    OBVIOUS
  <2>1. e[1] \in 1 .. Len(a) /\ e[2] \in Nat /\ e[2] < a[e[1]] /\ e = <<e[1], e[2]>>
    BY DEF Units
  <2>2. PICK i \in 1 .. Len(b) : pi[i] = e[1]
    BY <2>1 DEF Renumbers
  <2>3. <<i, e[2]>> \in B
    BY <2>1, <2>2 DEF Units, Renumbers
  <2>. HIDE DEF A, B
  <2>4. h[<<i, e[2]>>] = e
    BY <2>1, <2>2, <2>3
  <2>. QED
    BY <2>3, <2>4
<1>7. h \in Bijection(B, A)
  <2>. HIDE DEF A, B, h
  <2>. QED
    BY <1>4, <1>5, <1>6 DEF Bijection, Injection, Surjection, IsInjective
<1>. HIDE DEF A, B, h
<1>8. Cardinality(A) = Cardinality(B)
  BY <1>2, <1>7, FS_Bijection DEF ExistsBijection
<1>. QED
  BY <1>1, <1>2, <1>8

\* The sums of the first numbers alone.
LEMMA SumsBegin ==
    ASSUME NEW a \in Seq(Nat), NEW f, Sums(f, a), NEW k \in 0 .. Len(a),
           NEW g, SumsTo(g, a, k)
    PROVE  g[k] = f[k]
<1>. DEFINE Bad == {m \in 0 .. k : g[m] # f[m]}
<1>0. Len(a) \in Nat /\ k \in Nat
  OBVIOUS
<1>1. Bad \in SUBSET Nat
  OBVIOUS
<1>2. Bad = {}
  <2>. SUFFICES ASSUME Bad # {} PROVE FALSE
    OBVIOUS
  <2>. HIDE DEF Bad
  <2>1. PICK m \in Bad : \A j \in Bad : m <= j
    BY <1>1, LeastExists
  <2>2. m \in 0 .. k /\ g[m] # f[m]
    BY <2>1 DEF Bad
  <2>3. f[0] = 0 /\ \A i \in 1 .. Len(a) : f[i] = f[i - 1] + a[i]
    BY <1>0, SumsStep DEF Sums
  <2>4. g[0] = 0 /\ \A i \in 1 .. k : g[i] = g[i - 1] + a[i]
    BY <1>0, SumsStep
  <2>5. m \in 1 .. k /\ m \in 1 .. Len(a)
    BY <1>0, <2>2, <2>3, <2>4
  <2>6. m - 1 \in 0 .. k /\ m - 1 \notin Bad
    BY <1>0, <2>1, <2>5
  <2>7. g[m - 1] = f[m - 1]
    BY <2>6 DEF Bad
  <2>. QED
    BY <2>2, <2>3, <2>4, <2>5, <2>7
<1>. QED
  BY <1>0, <1>2

\* lens are the lengths of the sequences in ss
Lengths(lens, ss) ==
    lens \in Seq(Nat) /\ Len(lens) = Len(ss) /\ \A i \in 1 .. Len(ss) : lens[i] = Len(ss[i])

\* Where a sequence stands when they are put together.
LEMMA JoinsAt ==
    ASSUME NEW S, NEW ss \in Seq(Seq(S)), NEW w, Joins(w, ss),
           NEW lens, Lengths(lens, ss), NEW f, Sums(f, lens), NEW h \in 1 .. Len(ss)
    PROVE  /\ w[h] \in Seq(S) /\ Len(w[h]) = f[h]
           /\ \A i \in 1 .. h : \A t \in 1 .. Len(ss[i]) : w[h][f[i - 1] + t] = ss[i][t]
<1>. DEFINE Ok(k) == /\ Len(w[k]) = f[k]
                     /\ \A i \in 1 .. k : \A t \in 1 .. Len(ss[i]) : w[k][f[i - 1] + t] = ss[i][t]
            Bad == {k \in 1 .. Len(ss) : ~ Ok(k)}
<1>0. Len(ss) \in Nat /\ \A i \in 1 .. Len(ss) : ss[i] \in Seq(S) /\ Len(ss[i]) \in Nat
  OBVIOUS
<1>1. \A i \in 1 .. Len(ss) : w[i] \in Seq(S)
  BY JoinsAre
<1>2. SUFFICES Bad = {}
  BY <1>1
<1>3. Bad \in SUBSET Nat
  OBVIOUS
<1>4. SUFFICES ASSUME Bad # {} PROVE FALSE
  OBVIOUS
<1>. HIDE DEF Bad
<1>5. PICK k \in Bad : \A j \in Bad : k <= j
  BY <1>3, <1>4, LeastExists
<1>6. k \in 1 .. Len(ss) /\ ~ Ok(k)
  BY <1>5 DEF Bad
<1>7. /\ f[0] = 0
      /\ \A i \in 1 .. Len(ss) : i - 1 \in 0 .. Len(ss) /\ f[i] = f[i - 1] + Len(ss[i])
  <2>1. Len(lens) = Len(ss) /\ \A i \in 1 .. Len(ss) : lens[i] = Len(ss[i])
    BY DEF Lengths
  <2>2. SumsTo(f, lens, Len(ss))
    BY <2>1 DEF Sums
  <2>. QED
    BY <1>0, <2>1, <2>2, SumsStep
<1>8. w[k] = IF k = 1 THEN ss[k] ELSE w[k - 1] \o ss[k]
  BY <1>6 DEF Joins
<1>9. \A i \in 0 .. Len(ss) : f[i] \in Nat
  BY SumsCount DEF Lengths
<1>10. k # 1
  <2>. SUFFICES ASSUME k = 1 PROVE Ok(k)
    BY <1>6
  <2>1. f[0] = 0 /\ f[1] = Len(ss[1]) /\ w[1] = ss[1] /\ Len(ss[1]) \in Nat
    BY <1>0, <1>6, <1>7, <1>8
  <2>2. \A t \in 1 .. Len(ss[1]) : f[0] + t = t
    BY <2>1
  <2>3. \A i \in 1 .. k : i = 1
    OBVIOUS
  <2>4. \A i \in 1 .. k : \A t \in 1 .. Len(ss[i]) : w[k][f[i - 1] + t] = ss[i][t]
    BY <2>1, <2>2, <2>3
  <2>. QED
    BY <2>1, <2>4
<1>11. k - 1 \in 1 .. Len(ss) /\ k - 1 \notin Bad
  BY <1>0, <1>5, <1>6, <1>10
<1>12. Ok(k - 1)
  BY <1>11 DEF Bad
<1>. DEFINE u == w[k - 1]
            s == ss[k]
<1>13. w[k] = u \o s /\ u \in Seq(S) /\ s \in Seq(S) /\ Len(u) = f[k - 1] /\ f[k] = f[k - 1] + Len(s)
  BY <1>0, <1>1, <1>6, <1>7, <1>8, <1>10, <1>11, <1>12
<1>14. \A i \in 1 .. k - 1 : \A t \in 1 .. Len(ss[i]) : u[f[i - 1] + t] = ss[i][t]
  BY <1>12
<1>15. \A i \in 1 .. k - 1 : f[i] <= f[k - 1]
  <2>. SUFFICES ASSUME NEW i \in 1 .. k - 1 PROVE f[i] <= f[k - 1]
    OBVIOUS
  <2>1. lens \in Seq(Nat) /\ Len(lens) = Len(ss)
    BY DEF Lengths
  <2>2. k - 1 \in 0 .. Len(lens) /\ i \in 0 .. k - 1
    BY <1>0, <1>11, <2>1
  <2>. QED
    BY <2>1, <2>2, SumsGrow
<1>. HIDE DEF u, s
<1>16. /\ Len(u \o s) = Len(u) + Len(s) /\ Len(u) \in Nat /\ Len(s) \in Nat
       /\ \A x \in 1 .. Len(u) : (u \o s)[x] = u[x]
       /\ \A x \in 1 .. Len(s) : (u \o s)[Len(u) + x] = s[x]
  <2>1. u \in Seq(S) /\ s \in Seq(S)
    BY <1>13
  <2>. QED
    BY <2>1, Concat
<1>17. ASSUME NEW i \in 1 .. k, NEW t \in 1 .. Len(ss[i]) PROVE w[k][f[i - 1] + t] = ss[i][t]
  <2>1. CASE i = k
    BY <1>13, <1>16, <2>1 DEF s
  <2>2. CASE i # k
    <3>1. i \in 1 .. k - 1 /\ i \in 1 .. Len(ss) /\ i - 1 \in 0 .. Len(ss) /\ i \in 0 .. Len(ss)
      <4>1. Len(ss) \in Nat
        BY <1>0
      <4>. QED
        BY ONLY <1>6, <2>2, <4>1, i \in 1 .. k
    <3>2. u[f[i - 1] + t] = ss[i][t]
      BY <1>14, <3>1
    <3>3. f[i] = f[i - 1] + Len(ss[i]) /\ f[i] <= Len(u) /\ f[i - 1] \in Nat /\ f[i] \in Nat /\ Len(ss[i]) \in Nat
      <4>1. f[i] = f[i - 1] + Len(ss[i])
        BY ONLY <1>7, <3>1
      <4>2. f[i] <= Len(u)
        BY ONLY <1>13, <1>15, <3>1
      <4>3. f[i - 1] \in Nat /\ f[i] \in Nat
        BY ONLY <1>9, <3>1
      <4>4. Len(ss[i]) \in Nat
        BY <1>0, <3>1
      <4>. QED
        BY ONLY <4>1, <4>2, <4>3, <4>4, Zenon
    <3>4. f[i - 1] + t \in 1 .. Len(u)
      <4>1. PICK x, y, l, n : x = f[i - 1] /\ y = f[i] /\ l = Len(ss[i]) /\ n = Len(u)
        OBVIOUS
      <4>2. y = x + l /\ y <= n /\ x \in Nat /\ y \in Nat /\ l \in Nat /\ n \in Nat /\ t \in 1 .. l
        BY <1>16, <3>3, <4>1
      <4>3. x + t \in 1 .. n
        BY <4>2
      <4>. QED
        BY <4>1, <4>3
    <3>. QED
      BY <1>13, <1>16, <3>2, <3>4
  <2>. QED
    BY <2>1, <2>2
<1>18. Ok(k)
  BY <1>13, <1>16, <1>17
<1>. QED
  BY <1>6, <1>18

\* The places of a sequence, with what is there, are as many as it is long.
LEMMA PairsCount ==
    ASSUME NEW m \in Nat, NEW c
    PROVE  Cardinality({<<j, c[j]>> : j \in 1 .. m}) = m
<1>. DEFINE S == {<<j, c[j]>> : j \in 1 .. m}
            f == [j \in 1 .. m |-> <<j, c[j]>>]
<1>1. /\ f \in [1 .. m -> S]
      /\ \A i, j \in 1 .. m : f[i] = f[j] => i = j
      /\ \A x \in S : \E j \in 1 .. m : f[j] = x
  <2>1. f \in [1 .. m -> S]
    OBVIOUS
  <2>2. ASSUME NEW i \in 1 .. m, NEW j \in 1 .. m, f[i] = f[j] PROVE i = j
    <3>1. f[i][1] = i /\ f[j][1] = j
      OBVIOUS
    <3>. QED
      BY <2>2, <3>1
  <2>3. \A x \in S : \E j \in 1 .. m : f[j] = x
    OBVIOUS
  <2>. QED
    BY <2>1, <2>2, <2>3
<1>. HIDE DEF S, f
<1>2. ExistsBijection(1 .. m, S)
  BY <1>1 DEF ExistsBijection, Bijection, Injection, Surjection, IsInjective
<1>3. IsFiniteSet(1 .. m) /\ Cardinality(1 .. m) = m
  BY FS_Interval
<1>4. Cardinality(S) = m
  BY <1>2, <1>3, FS_Bijection
<1>. QED
  BY <1>4 DEF S
=============================================================================
