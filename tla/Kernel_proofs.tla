---------------------------- MODULE Kernel_proofs ----------------------------
(***************************************************************************)
(* The machine put together: under the scheduler the virtual memory        *)
(* behaves as it does alone, and so does the process list, so that what is *)
(* proved of each holds of both.  From that: a store that faulted finds    *)
(* its page writable when it is restarted, and it is carried out once.     *)
(***************************************************************************)
EXTENDS Kernel, FiniteSetTheorems, Orders_proofs

Mem == INSTANCE CopyOnWrite_proofs

-----------------------------------------------------------------------------
(* The names of the components' proofs are those of the components.        *)

LEMMA Sizes == Mem!SizeAssumption /\ Mem!IsFiniteSet(Proc)
BY KernelAssumption
DEF VM!SizeAssumption, Mem!SizeAssumption, VM!PteId, Mem!PteId, VM!Area, Mem!Area,
    VM!Page, Mem!Page, Sched!ListAssumption, Sched!IsFiniteSet, Mem!IsFiniteSet

LEMMA SamePages ==
    /\ VM!Page = Mem!Page /\ VM!Area = Mem!Area /\ VM!Frame = Mem!Frame
    /\ VM!vars = Mem!vars
BY DEF VM!Page, Mem!Page, VM!Area, Mem!Area, VM!Frame, Mem!Frame, VM!vars, Mem!vars

LEMMA SameWrite ==
    ASSUME NEW q, NEW v, NEW val
    PROVE  VM!Write(q, v, val) <=> Mem!Write(q, v, val)
BY DEF VM!Write, Mem!Write, VM!Entry, Mem!Entry

LEMMA SameFailure ==
    ASSUME NEW id
    PROVE  VM!CowFailure(id) = Mem!CowFailure(id)
BY Zenon DEF VM!CowFailure, Mem!CowFailure, VM!FreeOnceUnmapped,
    Mem!FreeOnceUnmapped, VM!Remaining, Mem!Remaining, VM!Sharers, Mem!Sharers,
    VM!Frame, Mem!Frame, VM!Slot, Mem!Slot, VM!Cardinality, Mem!Cardinality,
    VM!IsFiniteSet, Mem!IsFiniteSet

LEMMA SameCow ==
    ASSUME NEW q, NEW v
    PROVE  /\ VM!Cow(q, v) <=> Mem!Cow(q, v)
           /\ VM!CowAborts(q, v) <=> Mem!CowAborts(q, v)
           /\ VM!SegmentationFault(q, v) <=> Mem!SegmentationFault(q, v)
BY SameFailure DEF VM!Cow, Mem!Cow, VM!CowAborts, Mem!CowAborts,
    VM!SegmentationFault, Mem!SegmentationFault, VM!WriteFaults,
    Mem!WriteFaults, VM!FirstFree, Mem!FirstFree, VM!PrivateWord,
    Mem!PrivateWord, VM!Remaining, Mem!Remaining, VM!RemainingWord,
    Mem!RemainingWord, VM!RemapFrame, Mem!RemapFrame, VM!Without,
    Mem!Without, VM!MapFrame, Mem!MapFrame, VM!FirstNull, Mem!FirstNull,
    VM!Sharers, Mem!Sharers, VM!MapWord, Mem!MapWord, VM!UnmapWord,
    Mem!UnmapWord, VM!Frame, Mem!Frame, VM!Slot, Mem!Slot, VM!Page,
    Mem!Page, VM!PteId, Mem!PteId, VM!Entry, Mem!Entry

LEMMA SameFork ==
    ASSUME NEW q, NEW c
    PROVE  /\ VM!ForkPages(q, c) <=> Mem!ForkPages(q, c)
           /\ VM!ForkAborts(q, c) <=> Mem!ForkAborts(q, c)
BY DEF VM!ForkPages, Mem!ForkPages, VM!ForkAborts, Mem!ForkAborts,
    VM!SlotsFull, Mem!SlotsFull, VM!CopiedWord, Mem!CopiedWord,
    VM!CopiedFrame, Mem!CopiedFrame, VM!PagesOn, Mem!PagesOn, VM!MapFrame,
    Mem!MapFrame, VM!FirstNull, Mem!FirstNull, VM!Slot, Mem!Slot, VM!Frame,
    Mem!Frame, VM!Page, Mem!Page, VM!PteId, Mem!PteId, VM!Entry, Mem!Entry

LEMMA SameInit == VM!Init <=> Mem!Init
BY DEF VM!Init, Mem!Init, VM!Area, Mem!Area, VM!MapFrame, Mem!MapFrame,
    VM!FirstNull, Mem!FirstNull, VM!FreeFrame, Mem!FreeFrame, VM!ZeroWord,
    Mem!ZeroWord, VM!Slot, Mem!Slot, VM!Frame, Mem!Frame, VM!Page, Mem!Page,
    VM!PteId, Mem!PteId

LEMMA SameView == VM!MemView = Mem!MemView /\ VM!MemView' = Mem!MemView'
BY DEF VM!MemView, Mem!MemView, VM!Area, Mem!Area, VM!Entry, Mem!Entry

LEMMA Listed == IsFiniteSet(Proc) /\ FirstProc \in Proc
BY KernelAssumption DEF Sched!ListAssumption, Sched!IsFiniteSet, IsFiniteSet

LEMMA SameCardinality ==
    ASSUME NEW S
    PROVE  Sched!Cardinality(S) = Cardinality(S)
BY Zenon DEF Sched!Cardinality, Cardinality, Sched!IsFiniteSet, IsFiniteSet

-----------------------------------------------------------------------------
(* The process list: however many processes fork, and in whatever order,   *)
(* the next links form one ring through all of them.                       *)

\* The inductive invariant: the types that matter for the links, the ring,
\* and that a block which is its own predecessor is the only one.
ListOK ==
    /\ procs \subseteq Proc
    /\ cur \in procs
    /\ next \in [Proc -> Proc \cup {NULL}]
    /\ prev \in [Proc -> Proc \cup {NULL}]
    /\ Sched!OneRing
    /\ \A p \in procs : prev[p] = p => procs = {p}

\* The loader's list of one block is a ring.
LEMMA InitListOK == Sched!Init => ListOK
<1>. SUFFICES ASSUME Sched!Init PROVE ListOK
  OBVIOUS
<1>1. FirstProc \in Proc
  BY Listed
<1>2. Sched!OneRing
  <2>1. procs = {FirstProc} /\ next[FirstProc] = FirstProc
    BY <1>1 DEF Sched!Init
  <2>. QED
    BY <2>1 DEF Sched!OneRing
<1>. QED
  BY <1>1, <1>2 DEF Sched!Init, ListOK

\* A set of blocks closed under the links after a fork contains the old ring.
LEMMA ForkKeepsRing ==
    ASSUME ListOK, NEW c \in Proc, Sched!Fork(c)
    PROVE  Sched!OneRing'
<1>1. /\ c \notin procs /\ procs' = procs \cup {c} /\ cur \in procs /\ procs \subseteq Proc
      /\ \A p \in procs : next[p] \in procs
      /\ next'[c] = next[cur] /\ next'[cur] = c
      /\ \A p \in procs \ {cur} : next'[p] = next[p]
  BY DEF ListOK, Sched!Fork, Sched!OneRing
<1>2. ASSUME NEW S \in SUBSET procs', S # {}, \A q \in S : next'[q] \in S
      PROVE  S = procs'
  <2>1. CASE c \in S
    <3>1. next[cur] \in S \ {c}
      BY <1>1, <1>2, <2>1
    <3>2. \A q \in S \ {c} : next[q] \in S \ {c}
      BY <1>1, <1>2, <3>1
    <3>3. S \ {c} \in SUBSET procs
      BY <1>1
    <3>4. S \ {c} = procs
      BY <3>1, <3>2, <3>3 DEF ListOK, Sched!OneRing
    <3>. QED
      BY <1>1, <2>1, <3>4
  <2>2. CASE c \notin S
    <3>1. cur \notin S /\ S \in SUBSET procs
      BY <1>1, <1>2, <2>2
    <3>2. \A q \in S : next[q] \in S
      BY <1>1, <1>2, <3>1
    <3>3. S = procs
      BY <1>2, <3>1, <3>2 DEF ListOK, Sched!OneRing
    <3>. QED
      BY <1>1, <3>1, <3>3
  <2>. QED
    BY <2>1, <2>2
<1>3. \A p \in procs' : next'[p] \in procs'
  BY <1>1
<1>. QED
  BY <1>2, <1>3 DEF Sched!OneRing

\* Every step keeps the list in order.
LEMMA NextListOK == ListOK /\ [Sched!Next]_(Sched!vars) => ListOK'
<1>. SUFFICES ASSUME ListOK, [Sched!Next]_(Sched!vars) PROVE ListOK'
  OBVIOUS
<1>1. ASSUME UNCHANGED <<procs, next, prev>>, cur' \in procs
      PROVE  ListOK'
  BY <1>1 DEF ListOK, Sched!OneRing
<1>2. CASE Sched!Run
  BY <1>1, <1>2 DEF ListOK, Sched!OneRing, Sched!Run
<1>3. CASE Sched!Trap
  BY <1>1, <1>3 DEF ListOK, Sched!OneRing, Sched!Trap
<1>4. ASSUME NEW c \in Proc, Sched!Fork(c)
      PROVE  ListOK'
  <2>1. /\ c \notin procs /\ procs' = procs \cup {c} /\ cur' = c /\ cur \in procs
        /\ procs \subseteq Proc /\ next[cur] \in procs
        /\ next' = [next EXCEPT ![c] = next[cur], ![cur] = c]
        /\ prev' = [prev EXCEPT ![c] = cur, ![cur] = IF prev[cur] = cur THEN c ELSE @]
    BY <1>4 DEF ListOK, Sched!OneRing, Sched!Fork
  <2>2. next' \in [Proc -> Proc \cup {NULL}] /\ prev' \in [Proc -> Proc \cup {NULL}]
    BY <2>1 DEF ListOK
  <2>3. \A p \in procs' : prev'[p] # p
    <3>1. prev'[c] = cur
      BY <2>1 DEF ListOK
    <3>2. prev'[cur] # cur
      BY <2>1 DEF ListOK
    <3>3. \A p \in procs \ {cur} : prev'[p] = prev[p]
      BY <2>1 DEF ListOK
    <3>. QED
      BY <2>1, <3>1, <3>2, <3>3 DEF ListOK
  <2>. QED
    BY <1>4, <2>1, <2>2, <2>3, ForkKeepsRing DEF ListOK
<1>5. CASE UNCHANGED Sched!vars
  BY <1>1, <1>5 DEF ListOK, Sched!vars
<1>. QED
  BY <1>2, <1>3, <1>4, <1>5 DEF Sched!Next

\* The next links form one ring through all processes, which no fork cuts or
\* splits, and the assertion of copy_pcb about a list with one block holds.
THEOREM LinksHold == Sched!Spec => []Sched!LinksSound
<1>1. ListOK => Sched!LinksSound
  BY DEF ListOK, Sched!LinksSound, Sched!OneRing, Sched!LonelyIsAlone
<1>. QED
  BY <1>1, InitListOK, NextListOK, PTL DEF Sched!Spec

-----------------------------------------------------------------------------
(* The links read from the running process are the queue of turns.         *)

TurnsRead ==
    /\ procs \in SUBSET Proc /\ cur \in procs /\ Cycle(procs, next)
    /\ IsFiniteSet(procs) /\ Cardinality(procs) \in Nat /\ Cardinality(procs) > 0
    /\ Reads(Sched!Turns, cur, next, procs)
    /\ Sched!Turns = [i \in 1 .. Cardinality(procs) |-> Sched!Turns[i]]

LEMMA TurnsAreRead == ListOK => TurnsRead
<1>. SUFFICES ASSUME ListOK PROVE TurnsRead
  OBVIOUS
<1>. DEFINE m == Cardinality(procs)
<1>1. procs \in SUBSET Proc /\ cur \in procs /\ IsFiniteSet(procs) /\ m \in Nat /\ m > 0
  BY Listed, FS_Subset, FS_CardinalityType, FS_EmptySet DEF ListOK
<1>2. Cycle(procs, next)
  BY DEF ListOK, Sched!OneRing, Cycle
<1>3. Sched!Turns = CHOOSE w : IsTurn(w, m, cur, next)
  <2>1. Sched!Turns = CHOOSE w : IsTurn(w, Sched!Cardinality(procs), cur, next)
    BY Zenon DEF Sched!Turns, IsTurn
  <2>2. Sched!Cardinality(procs) = m
    BY SameCardinality
  <2>. QED
    BY <2>1, <2>2, Zenon
<1>4. IsTurn(Sched!Turns, m, cur, next)
  <2>1. \E w : IsTurn(w, m, cur, next)
    BY <1>1, <1>2, TurnExists
  <2>. QED
    BY <1>3, <2>1, Zenon
<1>5. Reads(Sched!Turns, cur, next, procs)
  BY <1>1, <1>2, <1>4, TurnReads
<1>6. Sched!Turns = [i \in 1 .. m |-> Sched!Turns[i]]
  BY <1>4 DEF IsTurn
<1>. QED
  BY <1>1, <1>2, <1>5, <1>6 DEF TurnsRead

LEMMA TurnsAreReadNext == ListOK' => TurnsRead'
BY TurnsAreRead, PTL

OfLength(t, m) == t = [i \in 1 .. m |-> t[i]]

\* What reads the links of the next state is its queue.
LEMMA TurnsNext ==
    ASSUME ListOK', NEW t, OfLength(t, Cardinality(procs)'),
           Along(t, Cardinality(procs)', cur', next')
    PROVE  Sched!Turns' = t
<1>. DEFINE m == Cardinality(procs)'
            u == Sched!Turns'
<1>1. m \in Nat /\ Along(u, m, cur', next') /\ u = [i \in 1 .. m |-> u[i]]
  BY TurnsAreReadNext DEF TurnsRead, Reads
<1>. HIDE DEF m, u
<1>2. Along(t, m, cur', next') /\ t = [i \in 1 .. m |-> t[i]]
  BY DEF m, OfLength
<1>3. \A i \in 1 .. m : u[i] = t[i]
  <2>1. m \in Nat /\ Along(u, m, cur', next') /\ Along(t, m, cur', next')
    BY <1>1, <1>2
  <2>. QED
    BY <2>1, AlongUnique
<1>. QED
  BY <1>1, <1>2, <1>3 DEF u

\* The queue after a turn: the running process goes to the end.
LEMMA TurnedRead ==
    ASSUME ListOK
    PROVE  LET t == Append(Tail(Sched!Turns), Head(Sched!Turns))
           IN  /\ Reads(t, next[cur], next, procs) /\ t \in Seq(procs)
               /\ t = [i \in 1 .. Cardinality(procs) |-> t[i]]
               /\ t[Cardinality(procs)] = cur
<1>. DEFINE c == Sched!Turns
            m == Cardinality(procs)
            t == Tail(c) \o <<Head(c)>>
<1>1. /\ Reads(c, cur, next, procs) /\ m \in Nat /\ m > 0 /\ IsFiniteSet(procs) /\ procs # {}
      /\ Cycle(procs, next)
  BY TurnsAreRead DEF TurnsRead
<1>. HIDE DEF c
<1>2. c \in [1 .. m -> procs] /\ c[1] = cur
  BY <1>1 DEF Reads, Tuple, Along
<1>. HIDE DEF m
<1>3. c \in Seq(procs) /\ Len(c) = m /\ c # <<>>
  BY <1>1, <1>2
<1>4. Append(Tail(c), Head(c)) = t /\ t \in Seq(procs) /\ Len(t) = m /\ t[m] = cur
  <2>. DEFINE p == Tail(c)
              x == Head(c)
  <2>1. p \in Seq(procs) /\ Len(p) = m - 1 /\ x = cur /\ x \in procs
    BY <1>1, <1>2, <1>3
  <2>. HIDE DEF p, x
  <2>2. Append(p, x) = p \o <<x>> /\ p \o <<x>> \in Seq(procs) /\ Len(p \o <<x>>) = m /\ (p \o <<x>>)[m] = x
    BY <1>1, <2>1
  <2>. QED
    BY <2>1, <2>2 DEF p, x
<1>5. Tuple(t, procs) /\ Along(t, m, next[cur], next)
  BY <1>1, TurnedAlong DEF m
<1>. HIDE DEF t
<1>6. Reads(t, next[cur], next, procs)
  BY <1>1, <1>5, RingReads DEF m
<1>7. t = [i \in 1 .. m |-> t[i]]
  BY <1>5 DEF Tuple, m
<1>. QED
  BY <1>4, <1>6, <1>7 DEF c, m

LEMMA TurnIsRotate ==
    ASSUME ListOK, ListOK', cur' = next[cur], UNCHANGED <<procs, next>>
    PROVE  Sched!Queue!Rotate
<1>. DEFINE t == Append(Tail(Sched!Turns), Head(Sched!Turns))
<1>1. Reads(t, next[cur], next, procs) /\ t = [i \in 1 .. Cardinality(procs) |-> t[i]]
  BY TurnedRead
<1>. HIDE DEF t
<1>2. Along(t, Cardinality(procs)', cur', next') /\ OfLength(t, Cardinality(procs)')
  BY <1>1 DEF Reads, OfLength
<1>3. Sched!Turns' = t
  BY <1>2, TurnsNext
<1>. QED
  BY <1>3 DEF Sched!Queue!Rotate, t

LEMMA ForkIsFork ==
    ASSUME ListOK, ListOK', NEW c \in Proc, Sched!Fork(c)
    PROVE  Sched!Queue!Fork(c)
<1>. DEFINE t == Append(Tail(Sched!Turns), Head(Sched!Turns))
            u == <<c>> \o t
            m == Cardinality(procs)
<1>1. /\ Reads(t, next[cur], next, procs) /\ t \in Seq(procs)
      /\ t = [i \in 1 .. m |-> t[i]] /\ t[m] = cur
  BY TurnedRead
<1>2. /\ procs \in SUBSET Proc /\ cur \in procs /\ IsFiniteSet(procs) /\ m \in Nat /\ m > 0
      /\ Reads(Sched!Turns, cur, next, procs) /\ Sched!Turns = [i \in 1 .. m |-> Sched!Turns[i]]
  BY TurnsAreRead DEF TurnsRead
<1>3. /\ c \notin procs /\ procs' = procs \cup {c} /\ cur' = c
      /\ next' = [next EXCEPT ![c] = next[cur], ![cur] = c] /\ next \in [Proc -> Proc \cup {NULL}]
  BY DEF Sched!Fork, ListOK
<1>. HIDE DEF t, m
<1>4. NextBehind(procs, next, cur, c, next')
  BY <1>2, <1>3 DEF NextBehind
<1>5. Cardinality(procs)' = m + 1
  BY <1>2, <1>3, FS_AddElement DEF m
<1>6. HasAt(u, t, 1, c) /\ Len(t) = m
  <2>1. Len(t) = m
    BY <1>1, <1>2
  <2>. QED
    BY <1>1, <2>1, PutFirst
<1>7. OfLength(u, m + 1)
  <2>. HIDE DEF u
  <2>. QED
    BY <1>2, <1>6 DEF HasAt, OfLength
<1>. HIDE DEF u
<1>8. Along(u, m + 1, c, next')
  <2>1. 1 \in 1 .. Cardinality(procs) + 1 /\ procs # {}
    BY <1>2 DEF m
  <2>2. cur = t[IF 1 = 1 THEN Cardinality(procs) ELSE 1 - 1] /\ c = (IF 1 = 1 THEN c ELSE next[cur])
    BY <1>1 DEF m
  <2>. QED
    BY <1>1, <1>2, <1>3, <1>4, <1>6, <2>1, <2>2, GrownAlong DEF m
<1>9. Sched!Turns' = u
  BY <1>3, <1>5, <1>7, <1>8, TurnsNext
<1>10. c \in Proc \ Sched!Queue!Queued
  <2>. DEFINE q == Sched!Turns
  <2>1. q \in [1 .. m -> procs]
    BY <1>2 DEF Reads, Tuple, m
  <2>. HIDE DEF q
  <2>2. Len(q) = m /\ \A i \in 1 .. Len(q) : q[i] # c
    BY <1>2, <1>3, <2>1
  <2>. QED
    BY <2>2 DEF Sched!Queue!Queued, q
<1>. QED
  BY <1>9, <1>10 DEF Sched!Queue!Fork, t, u

\* The processes take turns in a fixed circular order, which a child joins
\* right after its parent, however many fork and whichever interrupt ends a
\* turn: the links implement the queue, but for its fairness.
THEOREM TurnsInOrder == Sched!Spec => Sched!Queue!Init /\ [][Sched!Queue!Next]_(Sched!Turns)
<1>1. Sched!Init => Sched!Queue!Init
  <2>. SUFFICES ASSUME Sched!Init PROVE Sched!Turns = <<FirstProc>>
    BY DEF Sched!Queue!Init
  <2>. DEFINE q == Sched!Turns
  <2>1. Cardinality(procs) = 1 /\ cur = FirstProc
    BY FS_Singleton DEF Sched!Init
  <2>2. Reads(q, cur, next, procs) /\ q = [i \in 1 .. Cardinality(procs) |-> q[i]]
    BY InitListOK, TurnsAreRead DEF TurnsRead
  <2>. HIDE DEF q
  <2>3. q[1] = FirstProc
    BY <2>1, <2>2 DEF Reads, Along
  <2>4. q = <<FirstProc>>
    BY <2>1, <2>2, <2>3
  <2>. QED
    BY <2>4 DEF q
<1>2. ListOK /\ ListOK' /\ [Sched!Next]_(Sched!vars) => [Sched!Queue!Next]_(Sched!Turns)
  <2>. SUFFICES ASSUME ListOK, ListOK', [Sched!Next]_(Sched!vars) PROVE Sched!Queue!Next \/ Sched!Turns' = Sched!Turns
    OBVIOUS
  <2>1. ASSUME UNCHANGED <<procs, next, cur>> PROVE Sched!Turns' = Sched!Turns
    BY <2>1 DEF Sched!Turns
  <2>2. CASE Sched!Run
    <3>1. cur' = cur \/ cur' = next[cur]
      BY <2>2 DEF Sched!Run
    <3>2. UNCHANGED <<procs, next>>
      BY <2>2 DEF Sched!Run
    <3>. QED
      BY <2>1, <3>1, <3>2, TurnIsRotate DEF Sched!Queue!Next
  <2>3. CASE Sched!Trap
    BY <2>3, TurnIsRotate DEF Sched!Trap, Sched!Queue!Next
  <2>4. ASSUME NEW c \in Proc, Sched!Fork(c) PROVE Sched!Queue!Next
    BY <2>4, ForkIsFork DEF Sched!Queue!Next
  <2>5. CASE UNCHANGED Sched!vars
    BY <2>1, <2>5 DEF Sched!vars
  <2>. QED
    BY <2>2, <2>3, <2>4, <2>5 DEF Sched!Next
<1>. QED
  BY <1>1, <1>2, InitListOK, NextListOK, PTL DEF Sched!Spec

-----------------------------------------------------------------------------
(* The machine runs both components.                                       *)

\* Every step of the machine is a step of the process list, or none.
LEMMA StepSchedules == [Next]_vars => [Sched!Next]_(Sched!vars)
<1>. SUFFICES ASSUME [Next]_vars PROVE [Sched!Next]_(Sched!vars)
  OBVIOUS
<1>1. ASSUME NEW v \in VM!Page, NEW val \in Value, StoreDone(v, val)
      PROVE  Sched!Next
  BY <1>1 DEF StoreDone, Sched!Next
<1>2. ASSUME NEW v \in VM!Page, NEW val \in Value, StoreFaults(v, val)
      PROVE  Sched!Next
  BY <1>2 DEF StoreFaults, Sched!Next
<1>3. ASSUME Compute \/ Syscall
      PROVE  Sched!Next
  BY <1>3 DEF Compute, Syscall, Sched!Next
<1>4. ASSUME NEW c \in Proc, Fork(c)
      PROVE  Sched!Next
  BY <1>4 DEF Fork, Sched!Next
<1>5. ASSUME Abort
      PROVE  UNCHANGED Sched!vars
  BY <1>5 DEF Abort, VM!CowAborts, VM!SegmentationFault, VM!ForkAborts, Sched!vars
<1>6. ASSUME UNCHANGED vars
      PROVE  UNCHANGED Sched!vars
  BY <1>6 DEF vars, Sched!vars
<1>. QED
  BY <1>1, <1>2, <1>3, <1>4, <1>5, <1>6 DEF Next

\* Every step of the machine is a step of the virtual memory, of the process
\* that runs, or none.
LEMMA StepsMemory ==
    ASSUME cur \in Proc
    PROVE  [Next]_vars => [VM!Next]_(VM!vars)
<1>. SUFFICES ASSUME [Next]_vars PROVE [VM!Next]_(VM!vars)
  OBVIOUS
<1>1. ASSUME NEW v \in VM!Page, NEW val \in Value, StoreDone(v, val)
      PROVE  VM!Next
  BY <1>1 DEF StoreDone, VM!Next
<1>2. ASSUME NEW v \in VM!Page, NEW val \in Value, StoreFaults(v, val)
      PROVE  VM!Next
  BY <1>2 DEF StoreFaults, VM!Next
<1>3. ASSUME Compute \/ Syscall
      PROVE  UNCHANGED VM!vars
  BY <1>3 DEF Compute, Syscall, Sched!Run, Sched!Trap, VM!vars
<1>4. ASSUME NEW c \in Proc, Fork(c)
      PROVE  VM!Next
  BY <1>4 DEF Fork, VM!Next
<1>5. ASSUME Abort
      PROVE  VM!Next
  BY <1>5 DEF Abort, VM!Next
<1>6. ASSUME UNCHANGED vars
      PROVE  UNCHANGED VM!vars
  BY <1>6 DEF vars, VM!vars
<1>. QED
  BY <1>1, <1>2, <1>3, <1>4, <1>5, <1>6 DEF Next

\* The same in the names of the components' proofs.
LEMMA Steps ==
    ASSUME ListOK
    PROVE  /\ [Next]_vars => [Sched!Next]_(Sched!vars)
           /\ [Next]_vars => [Mem!Next]_(Mem!vars)
<1>1. cur \in Proc
  BY DEF ListOK
<1>2. VM!Next <=> Mem!Next
  BY SamePages, SameWrite, SameCow, SameFork DEF VM!Next, Mem!Next
<1>3. UNCHANGED VM!vars <=> UNCHANGED Mem!vars
  BY DEF VM!vars, Mem!vars
<1>. QED
  BY <1>1, <1>2, <1>3, StepSchedules, StepsMemory

\* The virtual memory and the process list stay in order side by side.
InOrder == ListOK /\ Mem!FramesOK /\ Mem!CodeOK

LEMMA InitInOrder == Init => InOrder
BY Sizes, SameInit, InitListOK, Mem!InitFramesOK, Mem!InitCodeOK DEF Init, InOrder

LEMMA NextInOrder == InOrder /\ [Next]_vars => InOrder'
BY Sizes, Steps, NextListOK, Mem!NextPreserves, Mem!NextCodeOK DEF InOrder

\* Under the scheduler the page tables do what they do alone, so every
\* property of CopyOnWrite is one of the machine.
THEOREM MemoryRuns == Spec => VM!Spec
<1>1. Init => VM!Init
  BY DEF Init
<1>2. InOrder /\ [Next]_vars => [VM!Next]_(VM!vars)
  BY StepsMemory DEF InOrder, ListOK
<1>. QED
  BY <1>1, <1>2, InitInOrder, NextInOrder, PTL DEF Spec, VM!Spec

\* The machine schedules and forks as Scheduler says, so all processes stay
\* in one ring, whatever faults and aborts.
THEOREM ProcessesInRing == Spec => Sched!Init /\ [][Sched!Next]_(Sched!vars) /\ []LinksSound
<1>1. Init => Sched!Init
  BY DEF Init
<1>2. [Next]_vars => [Sched!Next]_(Sched!vars)
  BY StepSchedules
<1>3. InOrder => LinksSound
  BY DEF InOrder, ListOK, LinksSound, Sched!LinksSound, Sched!OneRing, Sched!LonelyIsAlone
<1>. QED
  BY <1>1, <1>2, <1>3, InitInOrder, NextInOrder, PTL DEF Spec

-----------------------------------------------------------------------------
(* The restart of a store.                                                 *)

\* The inductive invariant: what a trap frame holds is a store, only processes
\* that exist have one, and its page is writable.
IInv ==
    /\ InOrder
    /\ restart \in [Proc -> Store \cup {NULL}]
    /\ \A q \in Proc \ procs : restart[q] = NULL
    /\ FaultFixed

LEMMA InitIInv == Init => IInv
BY InitInOrder DEF Init, IInv, InOrder, ListOK, FaultFixed

\* An entry that its process can write is no one's business: the copies of
\* others neither move it nor make it readonly.
LEMMA WritableStays ==
    ASSUME Mem!FramesOK, NEW q \in procs, NEW v \in Mem!Page, Mem!Cow(q, v),
           NEW id \in Mem!PteId, id # <<q, v>>, pte[id].present, ~pte[id].readonly
    PROVE  pte'[id] = pte[id]
<1>1. q \in Proc
  BY DEF Mem!FramesOK
<1>2. PICK old \in Mem!Frame, new \in Mem!Frame : Mem!Copied(<<q, v>>, old, new)
  BY <1>1, Sizes, Mem!CowCopies
<1>3. pte[id].ppn # old
  <2>1. Mem!WriterOwnsFrame
    BY Sizes, Mem!OwnsFrame
  <2>2. <<q, v>> \in Mem!PteId /\ pte[<<q, v>>].present /\ pte[<<q, v>>].ppn = old
    BY <1>2 DEF Mem!Copied
  <2>. QED
    BY <2>1, <2>2 DEF Mem!WriterOwnsFrame
<1>. QED
  BY <1>2, <1>3 DEF Mem!Copied

\* The process that faulted owns its page after the fault.
LEMMA StoreFaultsFixed ==
    ASSUME IInv, NEW v \in VM!Page, NEW val \in Value, StoreFaults(v, val)
    PROVE  FaultFixed'
<1>1. /\ cur \in procs /\ cur \in Proc /\ procs \subseteq Proc /\ procs' = procs
      /\ v \in Mem!Page /\ Mem!Cow(cur, v)
      /\ restart' = [restart EXCEPT ![cur] = <<v, val>>]
  BY SamePages, SameCow DEF IInv, InOrder, ListOK, StoreFaults, Sched!Trap
<1>2. pte'[<<cur, v>>].present /\ ~pte'[<<cur, v>>].readonly
  <2>1. PICK old \in Mem!Frame, new \in Mem!Frame : Mem!Copied(<<cur, v>>, old, new)
    BY <1>1, Sizes, Mem!CowCopies DEF IInv, InOrder
  <2>. QED
    BY <2>1 DEF Mem!Copied
<1>3. ASSUME NEW q \in procs, restart'[q] # NULL
      PROVE  LET w == pte'[<<q, restart'[q][1]>>] IN w.present /\ ~w.readonly
  <2>1. CASE q = cur
    <3>1. restart'[q] = <<v, val>>
      BY <1>1, <2>1 DEF IInv
    <3>. QED
      BY <1>2, <2>1, <3>1
  <2>2. CASE q # cur
    <3>1. restart'[q] = restart[q] /\ restart[q] \in Store /\ q \in Proc
      BY <1>1, <1>3, <2>2 DEF IInv
    <3>. PICK u \in VM!Page : u = restart[q][1]
      BY <3>1 DEF Store
    <3>2. pte[<<q, u>>].present /\ ~pte[<<q, u>>].readonly
      BY <1>3, <3>1 DEF IInv, FaultFixed
    <3>3. <<q, u>> \in Mem!PteId /\ <<q, u>> # <<cur, v>>
      BY <2>2, <3>1, SamePages DEF Mem!PteId
    <3>4. pte'[<<q, u>>] = pte[<<q, u>>]
      BY <1>1, <3>2, <3>3, WritableStays DEF IInv, InOrder
    <3>. QED
      BY <3>1, <3>2, <3>4
  <2>. QED
    BY <2>1, <2>2
<1>. QED
  BY <1>1, <1>3 DEF FaultFixed

\* A process forks between two instructions: neither it nor its child has a
\* store to restart, and no one else's entries change.
LEMMA ForkFixed ==
    ASSUME IInv, NEW c \in Proc, Fork(c)
    PROVE  FaultFixed'
<1>1. /\ cur \in procs /\ procs \subseteq Proc /\ procs' = procs \cup {c}
      /\ Mem!ForkPages(cur, c) /\ restart[cur] = NULL
      /\ restart' = [restart EXCEPT ![c] = NULL]
  BY SameFork DEF IInv, InOrder, ListOK, Fork, Sched!Fork
<1>2. Mem!Shared(cur, c) /\ c \notin procs
  BY <1>1, Sizes, Mem!ForkShares DEF IInv, InOrder
<1>3. ASSUME NEW q \in procs', restart'[q] # NULL
      PROVE  LET w == pte'[<<q, restart'[q][1]>>] IN w.present /\ ~w.readonly
  <2>1. q # c /\ q # cur /\ restart'[q] = restart[q] /\ restart[q] \in Store /\ q \in procs /\ q \in Proc
    BY <1>1, <1>2, <1>3 DEF IInv
  <2>. PICK u \in VM!Page : u = restart[q][1]
    BY <2>1 DEF Store
  <2>2. pte[<<q, u>>].present /\ ~pte[<<q, u>>].readonly
    BY <1>3, <2>1 DEF IInv, FaultFixed
  <2>3. pte'[<<q, u>>] = pte[<<q, u>>]
    BY <1>2, <2>1, SamePages DEF Mem!Shared
  <2>. QED
    BY <2>1, <2>2, <2>3
<1>. QED
  BY <1>3 DEF FaultFixed

LEMMA NextIInv == IInv /\ [Next]_vars => IInv'
<1>. SUFFICES ASSUME IInv, [Next]_vars PROVE IInv'
  OBVIOUS
<1>1. InOrder' /\ cur \in procs /\ procs \subseteq Proc
  BY NextInOrder DEF IInv, InOrder, ListOK
<1>2. ASSUME NEW v \in VM!Page, NEW val \in Value, StoreDone(v, val)
      PROVE  IInv'
  <2>1. restart' = [restart EXCEPT ![cur] = NULL] /\ procs' = procs /\ pte' = pte
    BY <1>2 DEF StoreDone, VM!Write
  <2>2. restart' \in [Proc -> Store \cup {NULL}] /\ \A q \in procs : restart'[q] \in {restart[q], NULL}
    BY <1>1, <2>1 DEF IInv
  <2>3. FaultFixed'
    BY <1>1, <2>1, <2>2 DEF IInv, FaultFixed
  <2>4. \A q \in Proc \ procs' : restart'[q] = NULL
    BY <1>1, <2>1 DEF IInv
  <2>. QED
    BY <1>1, <2>2, <2>3, <2>4 DEF IInv
<1>3. ASSUME NEW v \in VM!Page, NEW val \in Value, StoreFaults(v, val)
      PROVE  IInv'
  <2>1. restart' = [restart EXCEPT ![cur] = <<v, val>>] /\ procs' = procs /\ <<v, val>> \in Store
    BY <1>3 DEF StoreFaults, VM!Cow, Store
  <2>2. restart' \in [Proc -> Store \cup {NULL}] /\ \A q \in Proc \ procs' : restart'[q] = NULL
    BY <1>1, <2>1 DEF IInv
  <2>. QED
    BY <1>1, <1>3, <2>2, StoreFaultsFixed DEF IInv
<1>4. ASSUME NEW c \in Proc, Fork(c)
      PROVE  IInv'
  <2>1. restart' = [restart EXCEPT ![c] = NULL] /\ procs' = procs \cup {c}
    BY <1>4 DEF Fork, VM!ForkPages
  <2>2. restart' \in [Proc -> Store \cup {NULL}] /\ \A q \in Proc \ procs' : restart'[q] = NULL
    BY <1>1, <2>1 DEF IInv
  <2>. QED
    BY <1>1, <1>4, <2>2, ForkFixed DEF IInv
<1>5. ASSUME UNCHANGED <<procs, pte, restart>>
      PROVE  IInv'
  BY <1>1, <1>5 DEF IInv, FaultFixed
<1>. QED
  BY <1>2, <1>3, <1>4, <1>5
  DEF Next, vars, VM!vars, Sched!vars, Compute, Syscall, Sched!Run, Sched!Trap,
      Abort, VM!CowAborts, VM!SegmentationFault, VM!ForkAborts

\* When a process comes to restart its store, the page is writable, whatever
\* the others forked and copied since the fault: a store faults at most once.
THEOREM StoresFaultOnce == Spec => []FaultFixed
<1>1. IInv => FaultFixed
  BY DEF IInv
<1>. QED
  BY <1>1, InitIInv, NextIInv, PTL DEF Spec

-----------------------------------------------------------------------------
(* What a step may do to the memory a process reads.                       *)

\* A store is seen by the process running, at its page.
LEMMA StoreSeen ==
    ASSUME InOrder, NEW v \in VM!Page, NEW val \in Value, VM!Write(cur, v, val)
    PROVE  VM!MemView' = [VM!MemView EXCEPT ![cur][v] = val]
<1>1. cur \in Proc /\ v \in Mem!Page /\ Mem!Write(cur, v, val)
  BY SamePages, SameWrite DEF InOrder, ListOK
<1>2. Mem!Memory!Write(cur, v, val)
  BY <1>1, Sizes, Mem!WriteImplements DEF InOrder
<1>. QED
  BY <1>2, SameView DEF Mem!Memory!Write

\* A copy on write is not seen at all.
LEMMA CopyUnseen ==
    ASSUME InOrder, NEW v \in VM!Page, VM!Cow(cur, v)
    PROVE  VM!MemView' = VM!MemView
<1>1. cur \in Proc /\ v \in Mem!Page /\ Mem!Cow(cur, v)
  BY SamePages, SameCow DEF InOrder, ListOK
<1>2. UNCHANGED Mem!Memory!vars
  BY <1>1, Sizes, Mem!CowImplements DEF InOrder
<1>. QED
  BY <1>2, SameView DEF Mem!Memory!vars

\* A fork is seen by the child only.
LEMMA ForkUnseen ==
    ASSUME InOrder, NEW c \in Proc, VM!ForkPages(cur, c)
    PROVE  \A q \in procs : VM!MemView'[q] = VM!MemView[q]
<1>1. cur \in Proc /\ procs \subseteq Proc /\ Mem!ForkPages(cur, c)
  BY SameFork DEF InOrder, ListOK
<1>2. Mem!Memory!Fork(cur, c) /\ c \notin procs
  BY <1>1, Sizes, Mem!ForkImplements, Mem!ForkShares DEF InOrder
<1>3. VM!MemView' = [VM!MemView EXCEPT ![c] = VM!MemView[cur]]
  BY <1>2, SameView DEF Mem!Memory!Fork
<1>4. VM!MemView = [q \in Proc |-> VM!MemView[q]]
  BY DEF VM!MemView
<1>. QED
  BY <1>1, <1>2, <1>3, <1>4

\* The store in a trap frame leaves it only by being done, by its process,
\* once; and what a process reads changes only by what it stores itself.
THEOREM StoresDoneOnce == Spec => RestartedStoreDone
<1>. DEFINE Done(q) ==
              restart[q] # NULL /\ restart'[q] # restart[q] =>
                  LET v == restart[q][1]
                  IN  /\ q = cur /\ restart'[q] = NULL
                      /\ VM!MemView' = [VM!MemView EXCEPT ![q][v] = restart[q][2]]
            Own(q) == VM!MemView'[q] # VM!MemView[q] => q = cur
<1>1. ASSUME IInv, [Next]_vars
      PROVE  (\A q \in Proc : Done(q)) /\ \A q \in procs : Own(q)
  <2>1. /\ InOrder /\ cur \in Proc /\ procs \subseteq Proc
        /\ restart \in [Proc -> Store \cup {NULL}]
        /\ VM!MemView = [q \in Proc |-> VM!MemView[q]]
    BY <1>1 DEF IInv, InOrder, ListOK, VM!MemView
  <2>2. ASSUME NEW v \in VM!Page, NEW val \in Value, StoreDone(v, val)
        PROVE  (\A q \in Proc : Done(q)) /\ \A q \in procs : Own(q)
    <3>1. /\ restart' = [restart EXCEPT ![cur] = NULL]
          /\ restart[cur] \in {NULL, <<v, val>>}
          /\ VM!MemView' = [VM!MemView EXCEPT ![cur][v] = val]
      BY <2>1, <2>2, StoreSeen DEF StoreDone, MayStore
    <3>. QED
      BY <2>1, <3>1
  <2>3. ASSUME NEW v \in VM!Page, NEW val \in Value, StoreFaults(v, val)
        PROVE  (\A q \in Proc : Done(q)) /\ \A q \in procs : Own(q)
    <3>1. /\ restart' = [restart EXCEPT ![cur] = <<v, val>>]
          /\ restart[cur] \in {NULL, <<v, val>>}
          /\ VM!MemView' = VM!MemView
      BY <2>1, <2>3, CopyUnseen DEF StoreFaults, MayStore
    <3>. QED
      BY <2>1, <3>1
  <2>4. ASSUME NEW c \in Proc, Fork(c)
        PROVE  (\A q \in Proc : Done(q)) /\ \A q \in procs : Own(q)
    <3>1. /\ restart' = [restart EXCEPT ![c] = NULL]
          /\ c \notin procs /\ restart[c] = NULL
      BY <1>1, <2>4 DEF Fork, VM!ForkPages, IInv
    <3>2. \A q \in procs : VM!MemView'[q] = VM!MemView[q]
      BY <2>1, <2>4, ForkUnseen DEF Fork
    <3>. QED
      BY <2>1, <3>1, <3>2
  <2>5. ASSUME UNCHANGED <<procs, pte, pm, restart>>
        PROVE  (\A q \in Proc : Done(q)) /\ \A q \in procs : Own(q)
    BY <2>5 DEF VM!MemView, VM!Entry
  <2>. QED
    BY <1>1, <2>2, <2>3, <2>4, <2>5
    DEF Next, vars, VM!vars, Sched!vars, Compute, Syscall, Sched!Run, Sched!Trap,
        Abort, VM!CowAborts, VM!SegmentationFault, VM!ForkAborts
<1>2. IInv /\ [Next]_vars
      => [/\ \A p \in Proc :
                restart[p] # NULL /\ restart'[p] # restart[p] =>
                    LET v == restart[p][1]
                    IN  /\ p = cur /\ restart'[p] = NULL
                        /\ VM!MemView' = [VM!MemView EXCEPT ![p][v] = restart[p][2]]
          /\ \A p \in procs : VM!MemView'[p] # VM!MemView[p] => p = cur]_vars
  BY <1>1
<1>. QED
  BY <1>2, InitIInv, NextIInv, PTL DEF Spec, RestartedStoreDone

\* With slots and frames for everybody, nothing but the program's own faults
\* ends the emulator.
THEOREM ResourcesSuffice == Spec => []NoResourceFailure
<1>1. Spec => Mem!Spec
  <2>1. InOrder /\ [Next]_vars => [Mem!Next]_(Mem!vars)
    BY Steps DEF InOrder
  <2>2. Init => Mem!Init
    BY SameInit DEF Init
  <2>. QED
    BY <2>1, <2>2, InitInOrder, NextInOrder, PTL DEF Spec, Mem!Spec
<1>2. Mem!Spec => []Mem!NoResourceFailure
  BY Sizes, Mem!ResourcesSuffice
<1>3. Mem!NoResourceFailure <=> NoResourceFailure
  BY DEF Mem!NoResourceFailure, NoResourceFailure, VM!NoResourceFailure, Mem!EnoughFrames,
      VM!EnoughFrames,
         Mem!Area, VM!Area, VM!Cardinality, Mem!Cardinality
<1>. QED
  BY <1>1, <1>2, <1>3, PTL
=============================================================================
