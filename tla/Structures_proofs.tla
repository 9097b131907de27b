--------------------------- MODULE Structures_proofs ---------------------------
(***************************************************************************)
(* Proofs about the parts that stand alone, for every value of the         *)
(* constants.  A part's invariants and steps carry its name: Share! is     *)
(* FalseSharing, Trie! NameTrie, List! LinkedList, Hash! HashTable, Area!  *)
(* AreaList, Link! Linker, File! ElfFile.                                  *)
(***************************************************************************)
EXTENDS Structures, FiniteSetTheorems, Orders_proofs

-----------------------------------------------------------------------------
(* The parts beside each other.                                            *)

\* A step of the whole is a step of one part, and leaves the others alone.
LEMMA Parts ==
    [Next]_vars => /\ [List!Next]_listVars
                   /\ [Area!Next]_areaVars
                   /\ [Hash!Next]_hashVars
                   /\ [Link!Next]_linkVars
                   /\ [Trie!Next]_trieVars
                   /\ [Share!Next]_shareVars
<1>. SUFFICES ASSUME [Next]_vars
              PROVE  /\ [List!Next]_listVars /\ [Area!Next]_areaVars /\ [Hash!Next]_hashVars
                     /\ [Link!Next]_linkVars /\ [Trie!Next]_trieVars /\ [Share!Next]_shareVars
  OBVIOUS
<1>1. TreeCall \/ TreeIterates \/ FileStep \/ TextStep \/ InstructionStep \/ UNCHANGED vars
      => UNCHANGED <<listVars, areaVars, hashVars, linkVars, trieVars, shareVars>>
  BY DEF TreeCall, TreeIterates, FileStep, TextStep, InstructionStep, vars, algorithms, machine
<1>2. ListStep => List!Next /\ UNCHANGED <<areaVars, hashVars, linkVars, trieVars, shareVars>>
  BY DEF ListStep, machine
<1>3. AreasStep => Area!Next /\ UNCHANGED <<listVars, hashVars, linkVars, trieVars, shareVars>>
  BY DEF AreasStep, machine
<1>4. HashStep => Hash!Next /\ UNCHANGED <<listVars, areaVars, linkVars, trieVars, shareVars>>
  BY DEF HashStep, machine
<1>5. LinkerStep => Link!Next /\ UNCHANGED <<listVars, areaVars, hashVars, trieVars, shareVars>>
  BY DEF LinkerStep, algorithms
<1>6. NamesStep => Trie!Next /\ UNCHANGED <<listVars, areaVars, hashVars, linkVars, shareVars>>
  BY DEF NamesStep, algorithms
<1>7. SharingMain \/ (\E t \in Share!Thread : SharingWork(t))
      => Share!Next /\ UNCHANGED <<listVars, areaVars, hashVars, linkVars, trieVars>>
  BY DEF SharingMain, SharingWork, Share!Next, algorithms
<1>. QED
  BY <1>1, <1>2, <1>3, <1>4, <1>5, <1>6, <1>7 DEF Next

-----------------------------------------------------------------------------
(* FalseSharing: what the runs of falsesharing.c print.                    *)

LEMMA LengthOK == Length \in Nat /\ Length >= 2
BY StructuresAssumption

ShareTypeOK ==
    /\ run \in Share!Run \cup {"end"}
    /\ counter \in [Share!Cell -> Nat]
    /\ count \in [Share!Thread -> 0..Length]
    /\ loaded \in [Share!Thread -> Nat \cup {Share!NotLoaded}]
    /\ result \in [Share!Run -> Int]

SharingRuns == {"true", "false", "no"}

\* counters that no run has used yet are zero
Untouched ==
    /\ run = "single" => counter["sum4"] = 0 /\ counter["sum"] = 0
    /\ run \in {"single", "true"} => counter["sum1"] = 0 /\ counter["sum2"] = 0
    /\ run \in {"single", "true", "false"} => counter["page2"] = 0 /\ counter["page3"] = 0

\* threads only work in the runs that have threads
ShareIdle ==
    /\ run \notin SharingRuns => count = [t \in Share!Thread |-> 0]
    /\ \A t \in Share!Thread : loaded[t] # Share!NotLoaded => run \in SharingRuns /\ count[t] < Length

\* a counter of its own counts what its thread has done
OwnCounters ==
    run \in {"false", "no"} =>
        \A t \in Share!Thread : counter[Share!Ptr(t)] = count[t] /\ loaded[t] \in {Share!NotLoaded, count[t]}

\* The shared counter: no more than was added, and what is loaded was there;
\* once a thread has stored, the counter and what that thread loads are not 0.
OneCounter ==
    run = "true" =>
        /\ counter["sum"] <= count[1] + count[2]
        /\ count[1] + count[2] >= 1 => counter["sum"] >= 1
        /\ count[1] = Length /\ count[2] = Length => counter["sum"] >= 2
        /\ \A t \in Share!Thread : loaded[t] # Share!NotLoaded =>
               /\ loaded[t] <= count[1] + count[2]
               /\ count[t] >= 1 => loaded[t] >= 1

ShareIInv == ShareTypeOK /\ Untouched /\ ShareIdle /\ OwnCounters /\ OneCounter /\ Share!CountersExact

-----------------------------------------------------------------------------
LEMMA InitShareIInv ==
    ASSUME Share!Init
    PROVE  ShareIInv
BY LengthOK DEF Share!Init, ShareIInv, ShareTypeOK, Untouched, ShareIdle, OwnCounters,
    OneCounter, Share!CountersExact, SharingRuns,
       Share!Run, Share!Cell, Share!Thread, Share!NotLoaded, Share!NotPrinted

\* the run without threads
LEMMA SingleRunIInv ==
    ASSUME ShareIInv, Share!SingleRun
    PROVE  ShareIInv'
<1>1. /\ run = "single" /\ run' = "true"
      /\ counter' = [counter EXCEPT !["sum4"] = 2 * Length]
      /\ count' = [t \in Share!Thread |-> 0] /\ loaded' = loaded
      /\ result' = [result EXCEPT !["single"] = 2 * Length]
  <2>1. run = "single" /\ counter["sum4"] = 0 /\ counter \in [Share!Cell -> Nat]
    BY LengthOK DEF Share!SingleRun, ShareIInv, ShareTypeOK, Untouched
  <2>2. counter' = [counter EXCEPT !["sum4"] = 2 * Length] /\ counter'["sum4"] = 2 * Length
    BY LengthOK, <2>1 DEF Share!SingleRun, Share!Cell
  <2>3. Share!NextRun["single"] = "true"
    BY LengthOK DEF Share!NextRun
  <2>. QED
    BY <2>1, <2>2, <2>3 DEF Share!SingleRun, Share!Prints
<1>2. ShareTypeOK' /\ Untouched' /\ ShareIdle'
  BY LengthOK, <1>1 DEF ShareIInv, ShareTypeOK, Untouched, ShareIdle, SharingRuns,
      Share!Run, Share!Cell, Share!Thread, Share!NotLoaded
<1>3. OwnCounters' /\ OneCounter'
  BY LengthOK, <1>1 DEF ShareIInv, ShareTypeOK, Untouched, ShareIdle, OwnCounters, OneCounter,
      SharingRuns, Share!Run, Share!Cell, Share!Thread, Share!NotLoaded
<1>4. Share!CountersExact'
  BY <1>1 DEF ShareIInv, ShareTypeOK, Share!CountersExact, Share!Run, Share!NotPrinted
<1>. QED
  BY <1>2, <1>3, <1>4 DEF ShareIInv

\* a load: the other thread may store before this one does
LEMMA LoadIInv ==
    ASSUME ShareIInv, NEW t \in Share!Thread, Share!Load(t)
    PROVE  ShareIInv'
<1>1. /\ run \in SharingRuns /\ count[t] < Length
      /\ Share!Ptr(t) \in Share!Cell
      /\ loaded' = [loaded EXCEPT ![t] = counter[Share!Ptr(t)]]
      /\ UNCHANGED <<run, counter, count, result>>
  BY LengthOK DEF Share!Load, Share!Threaded, SharingRuns, Share!Ptr, Share!Cell
<1>2. ShareTypeOK' /\ Untouched' /\ ShareIdle' /\ Share!CountersExact'
  BY <1>1 DEF ShareIInv, ShareTypeOK, Untouched, ShareIdle, Share!CountersExact, SharingRuns,
      Share!Thread, Share!NotLoaded
<1>3. OwnCounters'
  BY <1>1 DEF ShareIInv, ShareTypeOK, OwnCounters, Share!Ptr, Share!Thread, Share!NotLoaded
<1>4. OneCounter'
  BY <1>1 DEF ShareIInv, ShareTypeOK, OneCounter, Share!Ptr, Share!Thread, Share!Cell, Share!NotLoaded
<1>. QED
  BY <1>2, <1>3, <1>4 DEF ShareIInv

\* A store of a thread with a counter of its own; the cells of the two differ.
LEMMA StorePrivate ==
    ASSUME ShareIInv, NEW t \in Share!Thread, Share!Store(t), run \in {"false", "no"}
    PROVE  OwnCounters'
<1>1. PICK u \in Share!Thread : Share!Thread = {t, u} /\ u # t /\ Share!Ptr(u) # Share!Ptr(t) /\ Share!Ptr(u) \in Share!Cell /\ Share!Ptr(t) \in Share!Cell
  BY LengthOK DEF Share!Thread, Share!Ptr, Share!Cell
<1>2. Share!Ptr(t)' = Share!Ptr(t) /\ Share!Ptr(u)' = Share!Ptr(u) /\ run' = run
  BY LengthOK DEF Share!Store, Share!Ptr
<1>3. counter'[Share!Ptr(t)] = loaded[t] + 1 /\ counter'[Share!Ptr(u)] = counter[Share!Ptr(u)]
  BY <1>1 DEF Share!Store, ShareIInv, ShareTypeOK
<1>4. /\ count'[t] = count[t] + 1 /\ count'[u] = count[u]
      /\ loaded'[t] = Share!NotLoaded /\ loaded'[u] = loaded[u] /\ loaded[t] # Share!NotLoaded
  BY <1>1 DEF Share!Store, ShareIInv, ShareTypeOK
<1>5. /\ loaded[t] = count[t] /\ counter[Share!Ptr(u)] = count[u] /\ loaded[u] \in {Share!NotLoaded, count[u]}
  BY <1>1, <1>4 DEF ShareIInv, OwnCounters
<1>6. /\ counter'[Share!Ptr(t)'] = count'[t] /\ loaded'[t] \in {Share!NotLoaded, count'[t]}
      /\ counter'[Share!Ptr(u)'] = count'[u] /\ loaded'[u] \in {Share!NotLoaded, count'[u]}
  BY <1>2, <1>3, <1>4, <1>5
<1>. QED
  BY <1>1, <1>6 DEF OwnCounters

\* A store to the shared counter may lose what the other thread added, but
\* what it stores counts this thread's own earlier store.
LEMMA StoreShared ==
    ASSUME ShareIInv, NEW t \in Share!Thread, Share!Store(t), run = "true"
    PROVE  OneCounter'
<1>1. /\ loaded[t] # Share!NotLoaded /\ loaded[t] \in Nat /\ count[t] \in Nat /\ count[t] < Length
      /\ loaded[t] <= count[1] + count[2] /\ (count[t] >= 1 => loaded[t] >= 1)
      /\ run' = "true" /\ counter'["sum"] = loaded[t] + 1
      /\ count' = [count EXCEPT ![t] = @ + 1] /\ loaded' = [loaded EXCEPT ![t] = Share!NotLoaded]
  BY LengthOK DEF Share!Store, Share!Ptr, ShareIInv, ShareTypeOK, ShareIdle, OneCounter,
      Share!Thread, Share!Cell, Share!NotLoaded
<1>2. count'[1] + count'[2] = count[1] + count[2] + 1
  BY <1>1 DEF ShareIInv, ShareTypeOK, Share!Thread
<1>3. counter'["sum"] <= count'[1] + count'[2] /\ counter'["sum"] >= 1
  BY <1>1, <1>2 DEF ShareIInv, ShareTypeOK, Share!Thread
<1>4. count'[1] = Length /\ count'[2] = Length => counter'["sum"] >= 2
  BY LengthOK, <1>1 DEF ShareIInv, ShareTypeOK, Share!Thread
<1>5. ASSUME NEW u \in Share!Thread, loaded'[u] # Share!NotLoaded
      PROVE  loaded'[u] <= count'[1] + count'[2] /\ (count'[u] >= 1 => loaded'[u] >= 1)
  <2>1. u # t /\ loaded'[u] = loaded[u] /\ count'[u] = count[u]
    BY <1>1, <1>5 DEF ShareIInv, ShareTypeOK, Share!Thread
  <2>2. loaded[u] \in Nat /\ loaded[u] <= count[1] + count[2] /\ (count[u] >= 1 => loaded[u] >= 1)
    BY <1>1, <1>5, <2>1 DEF ShareIInv, ShareTypeOK, OneCounter, Share!Store
  <2>. QED
    BY <1>2, <2>1, <2>2 DEF ShareIInv, ShareTypeOK, Share!Thread
<1>. QED
  BY <1>3, <1>4, <1>5 DEF OneCounter

LEMMA StoreIInv ==
    ASSUME ShareIInv, NEW t \in Share!Thread, Share!Store(t)
    PROVE  ShareIInv'
<1>1. /\ run \in SharingRuns /\ Share!Ptr(t) \in Share!Cell /\ loaded[t] \in Nat /\ count[t] < Length
      /\ counter' = [counter EXCEPT ![Share!Ptr(t)] = loaded[t] + 1]
      /\ count' = [count EXCEPT ![t] = @ + 1]
      /\ loaded' = [loaded EXCEPT ![t] = Share!NotLoaded]
      /\ UNCHANGED <<run, result>>
  BY LengthOK DEF Share!Store, Share!Threaded, SharingRuns, Share!Ptr, Share!Cell, ShareIInv,
      ShareTypeOK, ShareIdle
<1>2. ShareTypeOK'
  BY LengthOK, <1>1 DEF ShareIInv, ShareTypeOK, Share!Thread, Share!NotLoaded
<1>3. Untouched'
  BY <1>1 DEF ShareIInv, ShareTypeOK, Untouched, SharingRuns, Share!Ptr, Share!Cell
<1>4. ShareIdle' /\ Share!CountersExact'
  BY <1>1 DEF ShareIInv, ShareTypeOK, ShareIdle, Share!CountersExact
<1>5. OwnCounters'
  BY <1>1, StorePrivate DEF OwnCounters
<1>6. OneCounter'
  BY <1>1, StoreShared DEF OneCounter
<1>. QED
  BY <1>2, <1>3, <1>4, <1>5, <1>6 DEF ShareIInv

\* what main prints when both threads are done
LEMMA JoinPrints ==
    ASSUME ShareIInv, Share!Join
    PROVE  /\ \A t \in Share!Thread : count[t] = Length /\ loaded[t] = Share!NotLoaded
           /\ run = "true" => /\ run' = "false"
                              /\ result' = [result EXCEPT !["true"] = counter["sum"]]
                              /\ counter["sum"] \in 2 .. 2 * Length
           /\ run = "false" => run' = "no" /\ result' = [result EXCEPT !["false"] = 2 * Length]
           /\ run = "no" => run' = "end" /\ result' = [result EXCEPT !["no"] = 2 * Length]
<1>1. \A t \in Share!Thread : count[t] = Length /\ loaded[t] = Share!NotLoaded
  BY LengthOK DEF Share!Join, ShareIInv, ShareIdle
<1>2. CASE run = "true"
  <2>1. run' = "false" /\ result' = [result EXCEPT !["true"] = counter["sum"]]
    BY <1>2 DEF Share!Join, Share!Prints, Share!NextRun, Share!Ptr
  <2>2. counter["sum"] \in 2 .. 2 * Length
    BY <1>1, <1>2 DEF ShareIInv, ShareTypeOK, OneCounter, Share!Cell, Share!Thread
  <2>. QED
    BY <1>1, <1>2, <2>1, <2>2
<1>3. CASE run = "false"
  <2>1. counter["sum1"] = Length /\ counter["sum2"] = Length
    BY <1>1, <1>3 DEF ShareIInv, OwnCounters, Share!Ptr, Share!Thread
  <2>2. Share!Ptr(1) = "sum1" /\ Share!Ptr(2) = "sum2"
    BY <1>3 DEF Share!Ptr
  <2>3. Share!Ptr(1) # Share!Ptr(2) /\ counter[Share!Ptr(1)] + counter[Share!Ptr(2)] = 2 * Length
    BY LengthOK, <2>1, <2>2
  <2>4. Share!Prints(2 * Length)
    BY <2>3 DEF Share!Join
  <2>5. Share!NextRun["false"] = "no"
    BY LengthOK DEF Share!NextRun
  <2>. QED
    BY <1>1, <1>3, <2>4, <2>5 DEF Share!Prints
<1>4. CASE run = "no"
  <2>1. counter["page2"] = Length /\ counter["page3"] = Length
    BY <1>1, <1>4 DEF ShareIInv, OwnCounters, Share!Ptr, Share!Thread
  <2>2. Share!Ptr(1) = "page2" /\ Share!Ptr(2) = "page3"
    BY <1>4 DEF Share!Ptr
  <2>3. Share!Ptr(1) # Share!Ptr(2) /\ counter[Share!Ptr(1)] + counter[Share!Ptr(2)] = 2 * Length
    BY LengthOK, <2>1, <2>2
  <2>4. Share!Prints(2 * Length)
    BY <2>3 DEF Share!Join
  <2>5. Share!NextRun["no"] = "end"
    BY LengthOK DEF Share!NextRun
  <2>. QED
    BY <1>1, <1>4, <2>4, <2>5 DEF Share!Prints
<1>. QED
  BY <1>1, <1>2, <1>3, <1>4 DEF Share!Join, Share!Threaded

LEMMA JoinIInv ==
    ASSUME ShareIInv, Share!Join
    PROVE  ShareIInv'
<1>1. /\ run \in SharingRuns /\ UNCHANGED <<counter, loaded>>
      /\ count' = [t \in Share!Thread |-> 0]
      /\ \A t \in Share!Thread : loaded[t] = Share!NotLoaded
      /\ counter["sum"] \in Int
  BY JoinPrints DEF Share!Join, Share!Threaded, SharingRuns, Share!Prints, ShareIInv,
      ShareTypeOK, Share!Cell
<1>2. ShareTypeOK' /\ Share!CountersExact'
  BY <1>1, JoinPrints DEF ShareIInv, ShareTypeOK, Share!CountersExact, SharingRuns, Share!Run,
      Share!Thread, Share!NotPrinted
<1>3. Untouched' /\ ShareIdle'
  BY <1>1, JoinPrints DEF ShareIInv, ShareTypeOK, Untouched, ShareIdle, SharingRuns, Share!Thread
<1>4. OwnCounters' /\ OneCounter'
  BY <1>1, JoinPrints DEF ShareIInv, ShareTypeOK, Untouched, OwnCounters, OneCounter,
      SharingRuns, Share!Thread, Share!Ptr, Share!NotLoaded
<1>. QED
  BY <1>2, <1>3, <1>4 DEF ShareIInv

-----------------------------------------------------------------------------
\* Whatever the scheduler does, the runs without a shared counter print twice
\* Length, and the run with one prints from 2 to that (falsesharing.c:54).
THEOREM CountersAddUp == Spec => []CountersExact
<1>1. Init => ShareIInv
  BY InitShareIInv DEF Init
<1>2. ShareIInv /\ [Next]_vars => ShareIInv'
  <2>. SUFFICES ASSUME ShareIInv, [Share!Next]_shareVars PROVE ShareIInv'
    BY Parts
  <2>1. CASE Share!SingleRun
    BY <2>1, SingleRunIInv
  <2>2. CASE Share!Join
    BY <2>2, JoinIInv
  <2>3. CASE \E t \in Share!Thread : Share!Work(t)
    BY <2>3, LoadIInv, StoreIInv DEF Share!Work
  <2>4. CASE UNCHANGED shareVars
    BY <2>4 DEF shareVars, ShareIInv, ShareTypeOK, Untouched, ShareIdle, OwnCounters, OneCounter,
        Share!CountersExact, Share!Ptr
  <2>. QED
    BY <2>1, <2>2, <2>3, <2>4 DEF Share!Next
<1>3. ShareIInv => CountersExact
  BY DEF ShareIInv, CountersExact
<1>. QED
  BY <1>1, <1>2, <1>3, PTL DEF Spec

-----------------------------------------------------------------------------
(* NameTrie: the names that the table has made nodes of.                   *)

\* the elements whose insertion passes x
With(x) == {i \in DOMAIN elements : x \in Trie!Prefixes(elements[i])}

\* The nodes are the prefixes of the names, the leaves are the names, and a
\* node has the value of the first name that passed it.
TrieOK ==
    /\ elements \in Seq(TableNames)
    /\ DOMAIN nodes = {<<>>} \cup {x \in DOMAIN nodes : With(x) # {}}
    /\ \A i \in DOMAIN elements : Trie!Prefixes(elements[i]) \subseteq DOMAIN nodes
    /\ \A x \in DOMAIN nodes : Trie!Known(x) <=> \E i \in DOMAIN elements : elements[i] = x
    /\ \A x \in DOMAIN nodes \ {<<>>} :
           Trie!Lookup(x) \in With(x) /\ \A j \in With(x) : Trie!Lookup(x) <= j

LEMMA PrefixesOf ==
    ASSUME NEW name \in TableNames
    PROVE  name \in Trie!Prefixes(name) /\ <<>> \in Trie!Prefixes(name)
<1>. DEFINE S == {name[i] : i \in DOMAIN name}
<1>1. name \in Seq(S)
  BY StructuresAssumption
<1>. HIDE DEF S
<1>2. SubSeq(name, 1, Len(name)) = name /\ Len(name) \in Nat
  BY <1>1
<1>3. SubSeq(name, 1, 0) = <<>>
  BY <1>1
<1>4. Len(name) \in 0 .. Len(name) /\ 0 \in 0 .. Len(name)
  BY <1>2
<1>5. \A i \in 0 .. Len(name) : SubSeq(name, 1, i) \in Trie!Prefixes(name)
  BY DEF Trie!Prefixes
<1>. QED
  BY <1>2, <1>3, <1>4, <1>5

LEMMA InitTrieOK == Trie!Init => TrieOK
BY DEF Trie!Init, TrieOK, With, Trie!Known

LEMMA InsertTrieOK ==
    ASSUME TrieOK, NEW name \in TableNames, Trie!Insert(name)
    PROVE  TrieOK'
<1>. DEFINE k == Len(elements) + 1
<1>1. /\ elements \in Seq(TableNames) /\ elements' = Append(elements, name)
      /\ nodes' = Trie!Inserted(name, k) /\ k \in Nat
  BY DEF TrieOK, Trie!Insert
<1>2. /\ elements' \in Seq(TableNames) /\ DOMAIN elements' = DOMAIN elements \cup {k}
      /\ k \notin DOMAIN elements /\ DOMAIN elements \subseteq Nat
      /\ elements'[k] = name /\ \A i \in DOMAIN elements : elements'[i] = elements[i] /\ i < k
  BY <1>1
<1>3. /\ DOMAIN nodes' = DOMAIN nodes \cup Trie!Prefixes(name)
      /\ \A x \in DOMAIN nodes' :
            /\ nodes'[x].leaf <=> x = name \/ (x \in DOMAIN nodes /\ nodes[x].leaf)
            /\ nodes'[x].value = IF x \in DOMAIN nodes THEN nodes[x].value ELSE k
  BY <1>1 DEF Trie!Inserted
<1>. HIDE DEF k
<1>4. \A x : With(x)' = With(x) \cup (IF x \in Trie!Prefixes(name) THEN {k} ELSE {})
  BY <1>2 DEF With, Trie!Prefixes
<1>5. \A x : x \notin DOMAIN nodes => With(x) = {}
  BY DEF TrieOK, With
<1>6. DOMAIN nodes' = {<<>>} \cup {x \in DOMAIN nodes' : With(x)' # {}}
  BY <1>3, <1>4 DEF TrieOK
<1>7. \A i \in DOMAIN elements' : Trie!Prefixes(elements[i])' \subseteq DOMAIN nodes'
  BY <1>2, <1>3 DEF TrieOK, Trie!Prefixes
<1>8. ASSUME NEW x \in DOMAIN nodes'
      PROVE  Trie!Known(x)' <=> \E i \in DOMAIN elements' : elements'[i] = x
  <2>1. Trie!Known(x)' <=> x = name \/ (x \in DOMAIN nodes /\ nodes[x].leaf)
    BY <1>3 DEF Trie!Known
  <2>2. x \in DOMAIN nodes /\ nodes[x].leaf <=> \E i \in DOMAIN elements : elements[i] = x
    <3>1. ASSUME NEW i \in DOMAIN elements, elements[i] = x PROVE x \in DOMAIN nodes
      <4>1. elements[i] \in TableNames
        BY <1>1
      <4>. QED
        BY <3>1, <4>1, PrefixesOf DEF TrieOK
    <3>. QED
      BY <3>1 DEF TrieOK, Trie!Known
  <2>. QED
    BY <1>2, <2>1, <2>2
<1>9. ASSUME NEW x \in DOMAIN nodes' \ {<<>>}
      PROVE  Trie!Lookup(x)' \in With(x)' /\ \A j \in With(x)' : Trie!Lookup(x)' <= j
  <2>1. CASE x \in DOMAIN nodes
    <3>1. Trie!Lookup(x)' = Trie!Lookup(x) /\ Trie!Lookup(x) \in With(x) /\ \A j \in With(x) : Trie!Lookup(x) <= j
      BY <1>3, <1>9, <2>1 DEF TrieOK, Trie!Lookup
    <3>2. Trie!Lookup(x) <= k
      BY <1>1, <1>2, <3>1 DEF With, k
    <3>. QED
      BY <1>4, <3>1, <3>2
  <2>2. CASE x \notin DOMAIN nodes
    <3>1. Trie!Lookup(x)' = k /\ x \in Trie!Prefixes(name)
      BY <1>3, <1>9, <2>2 DEF Trie!Lookup
    <3>2. With(x)' = {k}
      BY <1>4, <1>5, <2>2, <3>1
    <3>. QED
      BY <1>1, <3>1, <3>2
  <2>. QED
    BY <2>1, <2>2
<1>. QED
  BY <1>2, <1>6, <1>7, <1>8, <1>9 DEF TrieOK

\* the first of a set of elements
LEMMA FirstOf ==
    ASSUME NEW is \in SUBSET Nat, NEW i \in is, \A j \in is : i <= j
    PROVE  Trie!First(is) = i
<1>. DEFINE c == CHOOSE x \in is : \A j \in is : x <= j
<1>1. c \in is /\ \A j \in is : c <= j
  OBVIOUS
<1>2. c = i
  <2>. HIDE DEF c
  <2>. QED
    BY <1>1
<1>. QED
  BY <1>2 DEF Trie!First

\* The tries know the names of the table and no others, and a name leads to
\* the value the order of the table gives it, for tables of any length.
THEOREM NamesLead == Spec => []NamesFound
<1>1. Init => TrieOK
  BY InitTrieOK DEF Init
<1>2. TrieOK /\ [Next]_vars => TrieOK'
  <2>. SUFFICES ASSUME TrieOK, [Trie!Next]_trieVars PROVE TrieOK'
    BY Parts
  <2>1. CASE Trie!Next
    BY <2>1, InsertTrieOK DEF Trie!Next
  <2>2. CASE UNCHANGED trieVars
    BY <2>2 DEF trieVars, TrieOK, With, Trie!Known, Trie!Lookup
  <2>. QED
    BY <2>1, <2>2
<1>3. TrieOK => NamesFound
  <2>. SUFFICES ASSUME TrieOK PROVE Trie!NamesFound
    BY DEF NamesFound
  <2>1. elements \in Seq(TableNames) /\ DOMAIN elements \subseteq Nat
    BY DEF TrieOK
  <2>2. \A i \in DOMAIN elements : elements[i] \in DOMAIN nodes /\ elements[i] \in Trie!Prefixes(elements[i])
    BY <2>1, PrefixesOf DEF TrieOK
  <2>3. {x \in DOMAIN nodes : Trie!Known(x)} = {elements[i] : i \in DOMAIN elements}
    BY <2>2 DEF TrieOK
  <2>4. ASSUME NEW x \in DOMAIN nodes \ {<<>>},
               NEW longer, longer = {i \in DOMAIN elements : x \in Trie!Prefixes(elements[i]) \ {elements[i]}}
        PROVE  /\ Trie!Known(x) /\ (\A i \in longer : Trie!First(Trie!Index(x)) < i)
                     => Trie!Lookup(x) = Trie!First(Trie!Index(x))
               /\ Trie!Lookup(x) = Trie!First(longer \cup Trie!Index(x))
    <3>1. Trie!Lookup(x) \in With(x) /\ \A j \in With(x) : Trie!Lookup(x) <= j
      BY DEF TrieOK
    <3>2. longer \cup Trie!Index(x) = With(x)
      BY <2>2, <2>4 DEF With, Trie!Index
    <3>3. Trie!Lookup(x) = Trie!First(With(x)) /\ With(x) \in SUBSET Nat
      BY <2>1, <3>1, FirstOf DEF With
    <3>4. ASSUME Trie!Known(x), \A i \in longer : Trie!First(Trie!Index(x)) < i
          PROVE  Trie!Lookup(x) = Trie!First(Trie!Index(x))
      <4>1. Trie!Index(x) # {} /\ Trie!Index(x) \in SUBSET Nat
        BY <2>1, <3>4 DEF TrieOK, Trie!Index
      <4>2. PICK i \in Trie!Index(x) : \A j \in Trie!Index(x) : i <= j
        BY <4>1, LeastExists
      <4>3. Trie!First(Trie!Index(x)) = i
        BY <4>1, <4>2, FirstOf
      <4>4. \A j \in With(x) : i <= j
        BY <3>2, <3>3, <3>4, <4>1, <4>2, <4>3
      <4>. QED
        BY <3>2, <3>3, <4>2, <4>3, <4>4, FirstOf
    <3>. QED
      BY <3>2, <3>3, <3>4
  <2>. QED
    BY <2>3, <2>4 DEF Trie!NamesFound
<1>. QED
  BY <1>1, <1>2, <1>3, PTL DEF Spec

-----------------------------------------------------------------------------
(* LinkedList: one ring in both directions.                                *)

Linked == ListNodes \cup {NULL}

ListType == [head : Linked, count : Int, next : [Linked -> Linked], prev : [Linked -> Linked]]

\* The nodes that are allocated are in one ring, as many as are left, and the
\* head is one of them; no operation has touched another node.
ListOK ==
    /\ list \in ListType
    /\ alive \subseteq ListNodes /\ IsFiniteSet(alive)
    /\ freed \in Nat \cup {-1} /\ freed <= list.count
    /\ List!Left = Cardinality(alive)
    /\ Ring(alive, list.next, list.prev)
    /\ alive # {} => list.head \in alive
    /\ alive = {} /\ freed = -1 => list.head = NULL
    /\ ok = TRUE

\* The links of m are those of l, but that x leads to y.
NextSet(l, m, x, y) ==
    /\ m \in ListType /\ m.head = l.head /\ m.count = l.count /\ m.prev = l.prev
    /\ \A z \in Linked : m.next[z] = IF z = x THEN y ELSE l.next[z]

PrevSet(l, m, x, y) ==
    /\ m \in ListType /\ m.head = l.head /\ m.count = l.count /\ m.next = l.next
    /\ \A z \in Linked : m.prev[z] = IF z = x THEN y ELSE l.prev[z]

LEMMA SetLinks ==
    ASSUME NEW l \in ListType, NEW x \in ListNodes, NEW y \in Linked
    PROVE  /\ NextSet(l, List!L!SetNext(l, x, y), x, y)
           /\ PrevSet(l, List!L!SetPrev(l, x, y), x, y)
<1>1. x # NULL /\ x \in Linked
  BY StructuresAssumption DEF Linked
<1>2. NextSet(l, [l EXCEPT !.next[x] = y], x, y)
  BY <1>1 DEF NextSet, ListType
<1>3. PrevSet(l, [l EXCEPT !.prev[x] = y], x, y)
  BY <1>1 DEF PrevSet, ListType
<1>. QED
  BY <1>1, <1>2, <1>3 DEF List!L!SetNext, List!L!SetPrev

\* The other fields of a list, written one after the other.
LEMMA SetHead ==
    ASSUME NEW l \in ListType, NEW x \in Linked
    PROVE  LET m == [l EXCEPT !.head = x]
           IN  m \in ListType /\ m.head = x /\ m.count = l.count /\ m.next = l.next /\ m.prev = l.prev
BY DEF ListType

LEMMA SetCount ==
    ASSUME NEW l \in ListType, NEW i \in Int
    PROVE  LET m == [l EXCEPT !.count = i]
           IN  m \in ListType /\ m.head = l.head /\ m.count = i /\ m.next = l.next /\ m.prev = l.prev
BY DEF ListType

\* linkedlist_internal_insert of the first node
LEMMA InsertFirst ==
    ASSUME NEW l \in ListType, NEW x \in ListNodes, l.count = 0
    PROVE  LET m == List!L!Insert(l, x)
           IN  m \in ListType /\ m.head = x /\ m.count = 1 /\ m.next[x] = x /\ m.prev[x] = x
<1>. DEFINE h == [l EXCEPT !.head = x]
            a == [h EXCEPT !.count = 1]
            b == List!L!SetPrev(a, x, x)
            c == List!L!SetNext(b, x, x)
<1>0. x \in Linked
  BY DEF Linked
<1>1. h \in ListType /\ h.head = x
  BY <1>0, SetHead
<1>2. List!L!Insert(l, x) = c
  BY DEF List!L!Insert
<1>. HIDE DEF h
<1>5. a \in ListType /\ a.head = x /\ a.count = 1
  BY <1>1, SetCount
<1>. HIDE DEF a
<1>3. PrevSet(a, b, x, x)
  BY <1>0, <1>5, SetLinks
<1>. HIDE DEF b
<1>4. NextSet(b, c, x, x)
  BY <1>0, <1>3, SetLinks DEF PrevSet
<1>. HIDE DEF c
<1>. QED
  BY <1>0, <1>2, <1>3, <1>4, <1>5 DEF NextSet, PrevSet

\* linkedlist_internal_insert before the head and so behind its predecessor
LEMMA InsertLinks ==
    ASSUME NEW l \in ListType, NEW x \in ListNodes, l.count # 0,
           l.head \in ListNodes \ {x}, l.prev[l.head] \in ListNodes \ {x}
    PROVE  LET m == List!L!Insert(l, x)
               y == l.prev[l.head]
           IN  /\ m \in ListType /\ m.head = x /\ m.count = l.count + 1
               /\ m.next[x] = l.head /\ m.prev[x] = y
               /\ \A z \in ListNodes \ {x} :
                      /\ m.next[z] = IF z = y THEN x ELSE l.next[z]
                      /\ m.prev[z] = IF z = l.head THEN x ELSE l.prev[z]
<1>. DEFINE y == l.prev[l.head]
            a == List!L!SetNext(l, x, l.head)
            b == List!L!SetPrev(a, l.head, x)
            c == List!L!SetPrev(b, x, y)
            d == List!L!SetNext(c, y, x)
            e == [d EXCEPT !.head = x]
            m == [e EXCEPT !.count = d.count + 1]
<1>0. x \in Linked /\ l.head \in Linked /\ y \in Linked /\ y \in ListNodes \ {x} /\ ListNodes \subseteq Linked
  BY DEF Linked
<1>1. List!L!Insert(l, x) = m
  BY DEF List!L!Insert, List!L!GetPrev
<1>. HIDE DEF y
<1>2. NextSet(l, a, x, l.head)
  BY <1>0, SetLinks
<1>. HIDE DEF a
<1>3. PrevSet(a, b, l.head, x)
  BY <1>0, <1>2, SetLinks DEF NextSet
<1>. HIDE DEF b
<1>4. PrevSet(b, c, x, y)
  BY <1>0, <1>3, SetLinks DEF PrevSet
<1>. HIDE DEF c
<1>5. NextSet(c, d, y, x)
  BY <1>0, <1>4, SetLinks DEF PrevSet
<1>. HIDE DEF d
<1>6. m \in ListType /\ m.head = x /\ m.count = d.count + 1 /\ m.next = d.next /\ m.prev = d.prev
  <2>1. d \in ListType /\ d.count + 1 \in Int
    BY <1>5 DEF NextSet, ListType
  <2>2. e \in ListType /\ e.head = x /\ e.next = d.next /\ e.prev = d.prev
    BY <1>0, <2>1, SetHead
  <2>. HIDE DEF e
  <2>. QED
    BY <2>1, <2>2 DEF ListType
<1>. HIDE DEF m
<1>. QED
  BY <1>0, <1>1, <1>2, <1>3, <1>4, <1>5, <1>6 DEF NextSet, PrevSet, y

\* linkedlist_internal_insert_after
LEMMA InsertAfterLinks ==
    ASSUME NEW l \in ListType, NEW x \in ListNodes, NEW y \in ListNodes \ {x},
           l.next[y] \in ListNodes \ {x}
    PROVE  LET m == List!L!InsertAfter(l, y, x)
           IN  /\ m \in ListType /\ m.head = l.head /\ m.count = l.count + 1
               /\ m.next[x] = l.next[y] /\ m.prev[x] = y
               /\ \A z \in ListNodes \ {x} :
                      /\ m.next[z] = IF z = y THEN x ELSE l.next[z]
                      /\ m.prev[z] = IF z = l.next[y] THEN x ELSE l.prev[z]
<1>. DEFINE u == l.next[y]
            a == List!L!SetNext(l, x, u)
            b == List!L!SetPrev(a, u, x)
            c == List!L!SetPrev(b, x, y)
            d == List!L!SetNext(c, y, x)
            m == [d EXCEPT !.count = d.count + 1]
<1>0. x \in Linked /\ y \in Linked /\ u \in Linked /\ u \in ListNodes \ {x} /\ ListNodes \subseteq Linked
  BY DEF Linked
<1>1. List!L!InsertAfter(l, y, x) = m
  BY DEF List!L!InsertAfter, List!L!GetNext
<1>. HIDE DEF u
<1>2. NextSet(l, a, x, u)
  BY <1>0, SetLinks
<1>. HIDE DEF a
<1>3. PrevSet(a, b, u, x)
  BY <1>0, <1>2, SetLinks DEF NextSet
<1>. HIDE DEF b
<1>4. PrevSet(b, c, x, y)
  BY <1>0, <1>3, SetLinks DEF PrevSet
<1>. HIDE DEF c
<1>5. NextSet(c, d, y, x)
  BY <1>0, <1>4, SetLinks DEF PrevSet
<1>. HIDE DEF d
<1>6. m \in ListType /\ m.head = d.head /\ m.count = d.count + 1 /\ m.next = d.next /\ m.prev = d.prev
  BY <1>5 DEF NextSet, ListType
<1>. HIDE DEF m
<1>. QED
  BY <1>0, <1>1, <1>2, <1>3, <1>4, <1>5, <1>6 DEF NextSet, PrevSet, u

\* linkedlist_internal_insert_before
LEMMA InsertBeforeLinks ==
    ASSUME NEW l \in ListType, NEW x \in ListNodes, NEW y \in ListNodes \ {x},
           l.prev[y] \in ListNodes \ {x}
    PROVE  LET m == List!L!InsertBefore(l, y, x)
           IN  /\ m \in ListType /\ m.head = (IF y = l.head THEN x ELSE l.head) /\ m.count = l.count + 1
               /\ m.next[x] = y /\ m.prev[x] = l.prev[y]
               /\ \A z \in ListNodes \ {x} :
                      /\ m.next[z] = IF z = l.prev[y] THEN x ELSE l.next[z]
                      /\ m.prev[z] = IF z = y THEN x ELSE l.prev[z]
<1>. DEFINE u == l.prev[y]
            a == List!L!SetNext(l, x, y)
            b == List!L!SetPrev(a, x, u)
            c == List!L!SetPrev(b, y, x)
            d == List!L!SetNext(c, u, x)
            h == IF y = l.head THEN x ELSE d.head
            e == [d EXCEPT !.count = d.count + 1]
            m == [e EXCEPT !.head = h]
<1>0. x \in Linked /\ y \in Linked /\ u \in Linked /\ u \in ListNodes \ {x} /\ ListNodes \subseteq Linked
  BY DEF Linked
<1>1. List!L!InsertBefore(l, y, x) = m
  BY DEF List!L!InsertBefore, List!L!GetPrev
<1>. HIDE DEF u
<1>2. NextSet(l, a, x, y)
  BY <1>0, SetLinks
<1>. HIDE DEF a
<1>3. PrevSet(a, b, x, u)
  BY <1>0, <1>2, SetLinks DEF NextSet
<1>. HIDE DEF b
<1>4. PrevSet(b, c, y, x)
  BY <1>0, <1>3, SetLinks DEF PrevSet
<1>. HIDE DEF c
<1>5. NextSet(c, d, u, x)
  BY <1>0, <1>4, SetLinks DEF PrevSet
<1>. HIDE DEF d
<1>6. m \in ListType /\ m.head = h /\ m.count = d.count + 1 /\ m.next = d.next /\ m.prev = d.prev
  <2>1. d \in ListType /\ h \in Linked
    BY <1>0, <1>5 DEF NextSet, ListType
  <2>2. e \in ListType /\ e.count = d.count + 1 /\ e.next = d.next /\ e.prev = d.prev
    BY <2>1 DEF ListType
  <2>. HIDE DEF h, e
  <2>. QED
    BY <2>1, <2>2, SetHead
<1>. HIDE DEF m
<1>. QED
  BY <1>0, <1>1, <1>2, <1>3, <1>4, <1>5, <1>6 DEF NextSet, PrevSet, u, h

\* linkedlist_internal_delete, with the links of the node cleared
LEMMA DeleteLinks ==
    ASSUME NEW l \in ListType, NEW x \in ListNodes, l.prev[x] \in ListNodes, l.next[x] \in ListNodes
    PROVE  LET m == List!L!SetNext(List!L!SetPrev(List!L!Delete(l, x), x, NULL), x, NULL)
           IN  /\ m \in ListType /\ m.count = l.count - 1
               /\ m.head = IF l.count = 1 THEN NULL ELSE IF x = l.head THEN l.next[x] ELSE l.head
               /\ \A z \in ListNodes \ {x} :
                      /\ m.next[z] = IF z = l.prev[x] THEN l.next[x] ELSE l.next[z]
                      /\ m.prev[z] = IF z = l.next[x] THEN l.prev[x] ELSE l.prev[z]
<1>. DEFINE u == l.prev[x]
            v == l.next[x]
            a == List!L!SetNext(l, u, v)
            b == List!L!SetPrev(a, v, u)
            h == IF l.count = 1 THEN NULL ELSE IF x = l.head THEN v ELSE b.head
            e == [b EXCEPT !.count = b.count - 1]
            c == [e EXCEPT !.head = h]
            d == List!L!SetPrev(c, x, NULL)
            m == List!L!SetNext(d, x, NULL)
<1>0. x \in Linked /\ u \in Linked /\ v \in Linked /\ NULL \in Linked /\ ListNodes \subseteq Linked
      /\ u \in ListNodes /\ v \in ListNodes
  BY DEF Linked
<1>1. List!L!SetNext(List!L!SetPrev(List!L!Delete(l, x), x, NULL), x, NULL) = m
  BY DEF List!L!Delete, List!L!GetPrev, List!L!GetNext
<1>. HIDE DEF u, v
<1>2. NextSet(l, a, u, v)
  BY <1>0, SetLinks
<1>. HIDE DEF a
<1>3. PrevSet(a, b, v, u)
  BY <1>0, <1>2, SetLinks DEF NextSet
<1>. HIDE DEF b
<1>4. c \in ListType /\ c.head = h /\ c.count = b.count - 1 /\ c.next = b.next /\ c.prev = b.prev
  <2>1. b \in ListType /\ h \in Linked
    BY <1>0, <1>3 DEF PrevSet, ListType
  <2>2. e \in ListType /\ e.count = b.count - 1 /\ e.next = b.next /\ e.prev = b.prev
    BY <2>1 DEF ListType
  <2>. HIDE DEF h, e
  <2>. QED
    BY <2>1, <2>2, SetHead
<1>. HIDE DEF c
<1>5. PrevSet(c, d, x, NULL)
  BY <1>0, <1>4, SetLinks
<1>. HIDE DEF d
<1>6. NextSet(d, m, x, NULL)
  BY <1>0, <1>5, SetLinks DEF PrevSet
<1>. HIDE DEF m
<1>. QED
  BY <1>0, <1>1, <1>2, <1>3, <1>4, <1>5, <1>6 DEF NextSet, PrevSet, u, v, h

LEMMA InitListOK == List!Init => ListOK
<1>. SUFFICES ASSUME List!Init PROVE ListOK
  OBVIOUS
<1>1. list \in ListType /\ list.head = NULL /\ list.count = 0
  BY DEF List!Init, List!L!Empty, List!L!Unlinked, ListType, Linked
<1>2. Ring({}, list.next, list.prev)
  BY DEF Ring
<1>. QED
  BY <1>1, <1>2, FS_EmptySet DEF List!Init, ListOK, List!Left

\* The step links x behind y.
LinksBehind(y, x) == PutBehind(alive, list.next, list.prev, y, x, list'.next, list'.prev)

\* The step links the neighbours of x.
LinksOut(x) == TakenOut(alive, list.next, list.prev, x, list'.next, list'.prev)

\* What the three insertions have in common.
LEMMA InsertionListOK ==
    ASSUME ListOK, NEW x \in ListNodes \ alive, freed = -1, freed' = -1, ok' = ok,
           alive' = alive \cup {x}, list' \in ListType, list'.count = list.count + 1,
           list'.head \in alive', Ring(alive', list'.next, list'.prev)
    PROVE  ListOK'
<1>1. IsFiniteSet(alive') /\ Cardinality(alive') = Cardinality(alive) + 1
  BY FS_AddElement DEF ListOK
<1>2. list.count = Cardinality(alive) /\ Cardinality(alive) \in Nat
  BY FS_CardinalityType DEF ListOK, List!Left
<1>. QED
  BY <1>1, <1>2 DEF ListOK, List!Left

LEMMA AddListOK ==
    ASSUME ListOK, NEW x \in ListNodes \ alive, List!Add(x)
    PROVE  /\ ListOK' /\ list'.head = x
           /\ alive # {} => LinksBehind(list.prev[list.head], x)
<1>1. /\ freed = -1 /\ freed' = -1 /\ ok' = ok /\ alive' = alive \cup {x}
      /\ list' = List!L!Insert(list, x) /\ list \in ListType /\ alive \subseteq ListNodes
      /\ list.count = Cardinality(alive) /\ IsFiniteSet(alive)
  BY DEF List!Add, List!Idle, ListOK, List!Left
<1>2. CASE alive = {}
  <2>1. list.count = 0
    BY <1>1, <1>2, FS_EmptySet
  <2>2. list' \in ListType /\ list'.head = x /\ list'.count = 1 /\ list'.next[x] = x /\ list'.prev[x] = x
    BY <1>1, <2>1, InsertFirst
  <2>3. Ring(alive', list'.next, list'.prev)
    BY <1>1, <1>2, <2>2 DEF Ring
  <2>4. list'.head \in alive' /\ list'.count = list.count + 1 /\ list' \in ListType
    BY <1>1, <2>1, <2>2
  <2>5. ListOK'
    BY <1>1, <2>3, <2>4, InsertionListOK
  <2>. QED
    BY <1>2, <2>2, <2>5
<1>3. CASE alive # {}
  <2>. DEFINE y == list.prev[list.head]
  <2>1. list.count # 0
    BY <1>1, <1>3, FS_EmptySet
  <2>2. list.head \in alive /\ y \in alive /\ list.next[y] = list.head
    BY <1>3 DEF ListOK, Ring
  <2>3. /\ list' \in ListType /\ list'.head = x /\ list'.count = list.count + 1
        /\ list'.next[x] = list.head /\ list'.prev[x] = y
        /\ \A z \in ListNodes \ {x} :
               /\ list'.next[z] = IF z = y THEN x ELSE list.next[z]
               /\ list'.prev[z] = IF z = list.head THEN x ELSE list.prev[z]
    BY <1>1, <2>1, <2>2, InsertLinks
  <2>. HIDE DEF y
  <2>4. LinksBehind(y, x)
    BY <1>1, <2>2, <2>3 DEF LinksBehind, PutBehind
  <2>5. Ring(alive \cup {x}, list'.next, list'.prev)
    <3>1. Ring(alive, list.next, list.prev) /\ x \notin alive
      BY DEF ListOK
    <3>. QED
      BY <2>2, <2>4, <3>1, RingGrows DEF LinksBehind
  <2>6. ListOK'
    BY <1>1, <2>3, <2>5, InsertionListOK
  <2>. QED
    BY <2>3, <2>4, <2>6 DEF y
<1>. QED
  BY <1>2, <1>3

LEMMA InsertAfterListOK ==
    ASSUME ListOK, NEW x \in ListNodes \ alive, NEW y \in alive, List!InsertAfter(y, x)
    PROVE  ListOK' /\ list'.head = list.head /\ LinksBehind(y, x)
<1>1. /\ freed = -1 /\ freed' = -1 /\ ok' = ok /\ alive' = alive \cup {x}
      /\ list' = List!L!InsertAfter(list, y, x) /\ list \in ListType /\ alive \subseteq ListNodes
      /\ list.head \in alive /\ list.next[y] \in alive /\ Ring(alive, list.next, list.prev)
  BY DEF List!InsertAfter, List!Idle, ListOK, Ring
<1>2. /\ list' \in ListType /\ list'.head = list.head /\ list'.count = list.count + 1
      /\ list'.next[x] = list.next[y] /\ list'.prev[x] = y
      /\ \A z \in ListNodes \ {x} :
             /\ list'.next[z] = IF z = y THEN x ELSE list.next[z]
             /\ list'.prev[z] = IF z = list.next[y] THEN x ELSE list.prev[z]
  BY <1>1, InsertAfterLinks
<1>3. LinksBehind(y, x)
  BY <1>1, <1>2 DEF LinksBehind, PutBehind
<1>4. Ring(alive \cup {x}, list'.next, list'.prev)
  BY <1>1, <1>3, RingGrows DEF LinksBehind
<1>5. ListOK'
  BY <1>1, <1>2, <1>4, InsertionListOK
<1>. QED
  BY <1>2, <1>3, <1>5

LEMMA InsertBeforeListOK ==
    ASSUME ListOK, NEW x \in ListNodes \ alive, NEW y \in alive, List!InsertBefore(y, x)
    PROVE  /\ ListOK' /\ list'.head = (IF y = list.head THEN x ELSE list.head)
           /\ LinksBehind(list.prev[y], x)
<1>. DEFINE u == list.prev[y]
<1>1. /\ freed = -1 /\ freed' = -1 /\ ok' = ok /\ alive' = alive \cup {x}
      /\ list' = List!L!InsertBefore(list, y, x) /\ list \in ListType /\ alive \subseteq ListNodes
      /\ list.head \in alive /\ u \in alive /\ list.next[u] = y /\ Ring(alive, list.next, list.prev)
  BY DEF List!InsertBefore, List!Idle, ListOK, Ring
<1>2. /\ list' \in ListType /\ list'.head = (IF y = list.head THEN x ELSE list.head)
      /\ list'.count = list.count + 1 /\ list'.next[x] = y /\ list'.prev[x] = u
      /\ \A z \in ListNodes \ {x} :
             /\ list'.next[z] = IF z = u THEN x ELSE list.next[z]
             /\ list'.prev[z] = IF z = y THEN x ELSE list.prev[z]
  BY <1>1, InsertBeforeLinks
<1>. HIDE DEF u
<1>3. LinksBehind(u, x)
  BY <1>1, <1>2 DEF LinksBehind, PutBehind
<1>4. Ring(alive \cup {x}, list'.next, list'.prev)
  BY <1>1, <1>3, RingGrows DEF LinksBehind
<1>5. ListOK'
  BY <1>1, <1>2, <1>4, InsertionListOK
<1>. QED
  BY <1>2, <1>3, <1>5 DEF u

LEMMA DeleteListOK ==
    ASSUME ListOK, NEW x \in alive, List!Delete(x)
    PROVE  /\ ListOK' /\ LinksOut(x)
           /\ alive' # {} => list'.head = IF x = list.head THEN list.next[x] ELSE list.head
<1>. DEFINE u == list.prev[x]
            v == list.next[x]
<1>1. /\ freed = -1 /\ freed' = -1 /\ alive' = alive \ {x}
      /\ list' = List!L!SetNext(List!L!SetPrev(List!L!Delete(list, x), x, NULL), x, NULL)
      /\ list \in ListType /\ alive \subseteq ListNodes /\ IsFiniteSet(alive)
      /\ list.count = Cardinality(alive) /\ Cardinality(alive) \in Nat
      /\ list.head \in alive /\ Ring(alive, list.next, list.prev) /\ ok
  BY FS_CardinalityType DEF List!Delete, List!Idle, ListOK, List!Left
<1>2. u \in alive /\ v \in alive /\ list.next[u] = x /\ list.prev[v] = x
  BY <1>1 DEF Ring
<1>3. ok' = TRUE
  BY <1>1, <1>2 DEF List!Delete, List!Touch, List!L!GetPrev, List!L!GetNext
<1>4. /\ list' \in ListType /\ list'.count = list.count - 1
      /\ list'.head = IF list.count = 1 THEN NULL ELSE IF x = list.head THEN v ELSE list.head
      /\ \A z \in ListNodes \ {x} :
             /\ list'.next[z] = IF z = u THEN v ELSE list.next[z]
             /\ list'.prev[z] = IF z = v THEN u ELSE list.prev[z]
  BY <1>1, <1>2, DeleteLinks
<1>5. LinksOut(x)
  BY <1>1, <1>4 DEF LinksOut, TakenOut
<1>10. Ring(alive \ {x}, list'.next, list'.prev)
  BY <1>1, <1>5, RingShrinks DEF LinksOut
<1>6. IsFiniteSet(alive') /\ Cardinality(alive') = list.count - 1
  BY <1>1, FS_RemoveElement
<1>7. list.count = 1 <=> alive' = {}
  BY <1>1, <1>6, FS_EmptySet
<1>8. list.count # 1 => v # x
  <2>1. ASSUME v = x PROVE alive = {x}
    <3>1. {x} \in SUBSET alive /\ {x} # {} /\ \A z \in {x} : list.next[z] \in {x}
      BY <2>1
    <3>. QED
      BY <1>1, <3>1 DEF Ring
  <2>. QED
    BY <1>1, <1>7, <2>1
<1>9. list.count # 1 => list'.head \in alive'
  BY <1>1, <1>2, <1>4, <1>8
<1>11. alive' # {} => list'.head = IF x = list.head THEN list.next[x] ELSE list.head
  BY <1>4, <1>7
<1>. HIDE DEF u, v
<1>12. ListOK'
  BY <1>1, <1>3, <1>4, <1>6, <1>7, <1>9, <1>10 DEF ListOK, List!Left
<1>. QED
  BY <1>5, <1>11, <1>12

LEMMA NextNodeListOK ==
    ASSUME ListOK, List!NextNode
    PROVE  ListOK' /\ list'.head = list.next[list.head] /\ list'.next = list.next
<1>1. alive # {} /\ list.head \in alive /\ list.next[list.head] \in alive /\ list.head # NULL
  BY StructuresAssumption DEF ListOK, List!NextNode, List!Idle, Ring
<1>2. list' = [list EXCEPT !.head = list.next[list.head]]
  BY <1>1 DEF List!NextNode, List!L!Advance, List!L!GetNext
<1>3. /\ list' \in ListType /\ list'.head = list.next[list.head]
      /\ list'.count = list.count /\ list'.next = list.next /\ list'.prev = list.prev
  <2>1. list \in ListType /\ list.next[list.head] \in Linked
    BY <1>1 DEF ListOK, Linked
  <2>. QED
    BY <1>2, <2>1, SetHead
<1>4. ok' = TRUE /\ alive' = alive /\ freed' = freed
  BY <1>1 DEF List!NextNode, List!Idle, List!Touch, ListOK
<1>. QED
  BY <1>1, <1>3, <1>4 DEF ListOK, List!Left

\* One pass of the loop of linkedlist_free: what it leaves behind is a ring,
\* unless it was the last pass.
LEMMA FreeNodeListOK ==
    ASSUME ListOK, List!FreeNode
    PROVE  /\ ListOK' /\ list'.head = list.next[list.head]
           /\ alive' # {} => LinksOut(list.head)
<1>. DEFINE x == list.head
            u == list.prev[x]
            v == list.next[x]
            a == List!L!SetNext(list, u, v)
            b == List!L!SetPrev(a, v, u)
            c == IF v = x THEN list ELSE b
            d == List!L!SetPrev(c, x, NULL)
            e == List!L!SetNext(d, x, NULL)
            m == [e EXCEPT !.head = v]
<1>1. /\ freed \in Nat /\ freed < list.count /\ freed' = freed + 1 /\ alive' = alive \ {x}
      /\ list \in ListType /\ alive \subseteq ListNodes /\ IsFiniteSet(alive)
      /\ list.count - freed = Cardinality(alive) /\ Cardinality(alive) \in Nat /\ list.count \in Int
      /\ Ring(alive, list.next, list.prev) /\ ok
      /\ list' = m
  BY FS_CardinalityType
  DEF List!FreeNode, ListOK, List!Left, ListType, List!L!GetPrev, List!L!GetNext
<1>2. alive # {} /\ x \in alive
  BY <1>1, FS_EmptySet DEF ListOK
<1>3. u \in alive /\ v \in alive /\ list.next[u] = x /\ list.prev[v] = x
  BY <1>1, <1>2 DEF Ring
<1>4. ok' = TRUE
  BY <1>1, <1>2, <1>3 DEF List!FreeNode, List!Touch, List!L!GetPrev, List!L!GetNext
<1>5. u \in Linked /\ v \in Linked /\ x \in Linked /\ NULL \in Linked /\ ListNodes \subseteq Linked
      /\ u \in ListNodes /\ v \in ListNodes /\ x \in ListNodes
  BY <1>1, <1>2, <1>3 DEF Linked
<1>. HIDE DEF x, u, v
<1>6. NextSet(list, a, u, v)
  BY <1>1, <1>5, SetLinks
<1>. HIDE DEF a
<1>7. PrevSet(a, b, v, u)
  BY <1>5, <1>6, SetLinks DEF NextSet
<1>. HIDE DEF b
<1>8. /\ c \in ListType /\ c.count = list.count
      /\ v # x => /\ \A z \in Linked : c.next[z] = IF z = u THEN v ELSE list.next[z]
                  /\ \A z \in Linked : c.prev[z] = IF z = v THEN u ELSE list.prev[z]
  BY <1>1, <1>5, <1>6, <1>7 DEF NextSet, PrevSet
<1>. HIDE DEF c
<1>9. PrevSet(c, d, x, NULL)
  BY <1>5, <1>8, SetLinks
<1>. HIDE DEF d
<1>10. NextSet(d, e, x, NULL)
  BY <1>5, <1>9, SetLinks DEF PrevSet
<1>. HIDE DEF e
<1>11. /\ list' \in ListType /\ list'.head = v /\ list'.count = list.count
       /\ list'.next = e.next /\ list'.prev = e.prev
  BY <1>1, <1>5, <1>8, <1>9, <1>10, SetHead DEF NextSet, PrevSet
<1>. HIDE DEF m
<1>12. IsFiniteSet(alive') /\ Cardinality(alive') = list.count - freed'
  BY <1>1, <1>2, FS_RemoveElement
<1>13. CASE v = x
  <2>1. alive' = {}
    <3>1. {x} \in SUBSET alive /\ {x} # {} /\ \A z \in {x} : list.next[z] \in {x}
      BY <1>2, <1>13 DEF v
    <3>2. alive = {x}
      BY <1>1, <3>1 DEF Ring
    <3>. QED
      BY <1>1, <3>2
  <2>2. Ring(alive', list'.next, list'.prev)
    BY <2>1 DEF Ring
  <2>3. ListOK'
    BY <1>1, <1>4, <1>11, <1>12, <2>1, <2>2 DEF ListOK, List!Left
  <2>. QED
    BY <1>11, <2>1, <2>3 DEF v, x
<1>14. CASE v # x
  <2>1. LinksOut(x)
    BY <1>1, <1>5, <1>8, <1>9, <1>10, <1>11, <1>14 DEF NextSet, PrevSet, LinksOut, TakenOut, u, v
  <2>2. Ring(alive', list'.next, list'.prev)
    BY <1>1, <1>2, <2>1, RingShrinks DEF LinksOut
  <2>3. list'.head \in alive' /\ freed' # -1 /\ freed' \in Nat /\ freed' <= list'.count
    BY <1>1, <1>3, <1>11, <1>14
  <2>4. ListOK'
    BY <1>1, <1>4, <1>11, <1>12, <2>2, <2>3 DEF ListOK, List!Left
  <2>. QED
    BY <1>11, <2>1, <2>4 DEF v, x
<1>. QED
  BY <1>13, <1>14

LEMMA FreeEndListOK ==
    ASSUME ListOK, List!FreeEnd
    PROVE  ListOK'
<1>1. /\ freed = list.count /\ freed \in Nat /\ list.count - freed = Cardinality(alive)
      /\ freed' = -1 /\ alive' = alive /\ ok' = TRUE /\ IsFiniteSet(alive)
  BY FS_CardinalityType DEF ListOK, List!FreeEnd, List!Left
<1>2. alive = {}
  BY <1>1, FS_EmptySet
<1>3. list' \in ListType /\ list'.head = NULL /\ list'.count = 0
  BY DEF List!FreeEnd, List!L!Empty, List!L!Unlinked, ListType, Linked
<1>4. Ring({}, list'.next, list'.prev)
  BY DEF Ring
<1>. QED
  BY <1>1, <1>2, <1>3, <1>4, FS_EmptySet DEF ListOK, List!Left

LEMMA NextListOK ==
    ASSUME ListOK, [List!Next]_listVars
    PROVE  ListOK'
<1>1. CASE List!FreeStart
  <2>1. freed = -1 /\ freed' = 0 /\ list.count = Cardinality(alive) /\ Cardinality(alive) \in Nat
        /\ UNCHANGED <<list, alive, ok>>
    BY <1>1, FS_CardinalityType DEF List!FreeStart, ListOK, List!Left
  <2>. QED
    BY <2>1 DEF ListOK, List!Left
<1>2. CASE UNCHANGED listVars
  BY <1>2 DEF listVars, ListOK, List!Left
<1>. QED
  BY <1>1, <1>2, AddListOK, InsertAfterListOK, InsertBeforeListOK, DeleteListOK,
     NextNodeListOK, FreeNodeListOK, FreeEndListOK DEF List!Next

\* The recursive walk of linkedlist_index is the walk along next.
LEMMA StepsDefined ==
    ASSUME NEW l \in ListType, NEW i \in Nat
    PROVE  \E w : w \in [0 .. i -> Linked] /\ IsWalk(w, l.head, l.next, i) /\ List!L!Steps(l, i) = w[i]
<1>1. l.head \in Linked /\ l.next \in [Linked -> Linked]
  BY DEF ListType
<1>. DEFINE w == CHOOSE f : f = [k \in 0 .. i |-> IF k = 0 THEN l.head ELSE l.next[f[k - 1]]]
<1>2. List!L!Steps(l, i) = w[i]
  BY Zenon DEF List!L!Steps, List!L!GetNext
<1>3. PICK u : IsWalk(u, l.head, l.next, i)
  BY <1>1, WalkExists
<1>4. w = [k \in 0 .. i |-> IF k = 0 THEN l.head ELSE l.next[w[k - 1]]]
  BY <1>3, Zenon DEF IsWalk
<1>. HIDE DEF w
<1>5. IsWalk(w, l.head, l.next, i)
  BY <1>4 DEF IsWalk
<1>6. w \in [0 .. i -> Linked]
  BY <1>1, <1>5, WalkIn
<1>. QED
  BY <1>2, <1>5, <1>6

LEMMA StepsFollow ==
    ASSUME NEW l \in ListType, NEW i \in Nat
    PROVE  /\ List!L!Steps(l, 0) = l.head
           /\ List!L!Steps(l, i) \in Linked
           /\ List!L!Steps(l, i + 1) = l.next[List!L!Steps(l, i)]
<1>1. PICK w : w \in [0 .. 0 -> Linked] /\ IsWalk(w, l.head, l.next, 0) /\ List!L!Steps(l, 0) = w[0]
  BY StepsDefined
<1>2. w[0] = l.head
  BY <1>1 DEF IsWalk
<1>3. PICK u : u \in [0 .. i -> Linked] /\ IsWalk(u, l.head, l.next, i) /\ List!L!Steps(l, i) = u[i]
  BY StepsDefined
<1>4. i + 1 \in Nat
  OBVIOUS
<1>5. PICK v : v \in [0 .. i + 1 -> Linked] /\ IsWalk(v, l.head, l.next, i + 1) /\ List!L!Steps(l, i + 1) = v[i + 1]
  BY <1>4, StepsDefined
<1>6. Follows(v, l.head, l.next, i) /\ v[i + 1] = l.next[v[i]]
  BY <1>5 DEF IsWalk, Follows
<1>7. v[i] = u[i]
  <2>1. IsWalk(u, l.head, l.next, i)
    BY <1>3
  <2>2. \A k \in 0 .. i : v[k] = u[k]
    BY <1>6, <2>1, WalkUnique
  <2>. QED
    BY <2>2
<1>. QED
  BY <1>1, <1>2, <1>3, <1>5, <1>6, <1>7

LEMMA StepsAlive ==
    ASSUME ListOK, alive # {}
    PROVE  \A i \in Nat : List!L!Steps(list, i) \in alive
<1>1. list \in ListType /\ list.head \in alive /\ Ring(alive, list.next, list.prev)
  BY DEF ListOK
<1>. DEFINE Bad == {i \in Nat : List!L!Steps(list, i) \notin alive}
<1>. SUFFICES ASSUME Bad # {} PROVE FALSE
  OBVIOUS
<1>2. PICK i \in Bad : \A j \in Bad : i <= j
  BY LeastExists
<1>3. i # 0
  BY <1>1, <1>2, StepsFollow
<1>4. i - 1 \in Nat /\ i - 1 \notin Bad /\ i = (i - 1) + 1
  BY <1>2, <1>3
<1>5. List!L!Steps(list, i - 1) \in alive
  BY <1>4
<1>. HIDE DEF Bad
<1>6. List!L!Steps(list, i) = list.next[List!L!Steps(list, i - 1)]
  BY <1>1, <1>4, StepsFollow
<1>. QED
  BY <1>1, <1>2, <1>5, <1>6 DEF Ring, Bad

\* linkedlist_index reaches the nodes one after the other, each once.
LEMMA IndexReaches ==
    ASSUME ListOK, freed = -1
    PROVE  {List!L!Index(list, i) : i \in 0 .. list.count - 1} = alive
<1>1. /\ list \in ListType /\ IsFiniteSet(alive) /\ Ring(alive, list.next, list.prev)
      /\ list.count = Cardinality(alive) /\ Cardinality(alive) \in Nat
  BY FS_CardinalityType DEF ListOK, List!Left
<1>. DEFINE v == [i \in 1 .. Cardinality(alive) |-> List!L!Steps(list, i)]
<1>3. alive = {} <=> list.count = 0
  BY <1>1, FS_EmptySet
<1>4. v \in [1 .. Cardinality(alive) -> alive]
  BY <1>1, <1>3, StepsAlive
<1>5. \A i \in 1 .. Cardinality(alive) - 1 : v[i + 1] = list.next[v[i]]
  <2>1. \A i \in Nat : List!L!Steps(list, i + 1) = list.next[List!L!Steps(list, i)]
    BY <1>1, StepsFollow
  <2>2. \A i \in 1 .. Cardinality(alive) - 1 :
            i \in Nat /\ i \in 1 .. Cardinality(alive) /\ i + 1 \in 1 .. Cardinality(alive)
    BY <1>1
  <2>. QED
    BY <2>1, <2>2
<1>6. \A x \in alive : \E i \in 1 .. Cardinality(alive) : v[i] = x
  <2>. HIDE DEF v
  <2>1. Tuple(v, alive) /\ Chain(v, Cardinality(alive), list.next)
    BY <1>4, <1>5 DEF Tuple, Chain
  <2>. QED
    BY <1>1, <2>1, RingIsCycle, RingWalk
<1>7. \A i \in 0 .. list.count - 1 : List!L!Index(list, i) = v[i + 1]
  BY <1>1 DEF List!L!Index
<1>. HIDE DEF v
<1>8. ASSUME NEW x \in alive PROVE \E i \in 0 .. list.count - 1 : List!L!Index(list, i) = x
  <2>1. PICK j \in 1 .. Cardinality(alive) : v[j] = x
    BY <1>6
  <2>2. j - 1 \in 0 .. list.count - 1 /\ (j - 1) + 1 = j
    BY <1>1
  <2>3. List!L!Index(list, j - 1) = x
    BY <1>7, <2>1, <2>2
  <2>. QED
    BY <2>2, <2>3
<1>9. ASSUME NEW i \in 0 .. list.count - 1 PROVE List!L!Index(list, i) \in alive
  <2>1. i + 1 \in 1 .. Cardinality(alive)
    BY <1>1
  <2>. QED
    BY <1>4, <1>7, <2>1
<1>. QED
  BY <1>8, <1>9

\* Whatever was inserted, deleted and freed, the allocated nodes are in one
\* ring in both directions, with as many as the count says.
THEOREM NodesInRing == Spec => []OneRing
<1>1. Init => ListOK
  BY InitListOK DEF Init
<1>2. ListOK /\ [Next]_vars => ListOK'
  BY Parts, NextListOK
<1>3. ListOK => OneRing
  <2>. SUFFICES ASSUME ListOK PROVE List!OneRing
    BY DEF OneRing
  <2>1. List!Cardinality(alive) = Cardinality(alive)
    BY DEF List!Cardinality, Cardinality
  <2>2. \A x \in alive : /\ list.next[x] \in alive /\ list.prev[list.next[x]] = x
                         /\ list.prev[x] \in alive /\ list.next[list.prev[x]] = x
    BY DEF ListOK, Ring
  <2>. QED
    BY <2>1, <2>2, IndexReaches DEF List!OneRing, ListOK
<1>. QED
  BY <1>1, <1>2, <1>3, PTL DEF Spec

-----------------------------------------------------------------------------
(* LinkedList: the ring read from its head is the sequence it stands for.  *)

\* Whatever starts at the head and follows the links is what the steps from
\* the head give.
LEMMA StepsAre ==
    ASSUME NEW l \in ListType, NEW m \in Nat, NEW t, t = [i \in 1 .. m |-> t[i]],
           Along(t, m, l.head, l.next)
    PROVE  [i \in 1 .. m |-> List!L!Steps(l, i - 1)] = t
<1>1. (m > 0 => t[1] = l.head) /\ \A i \in 1 .. m - 1 : t[i + 1] = l.next[t[i]]
  BY DEF Along, Chain
<1>. DEFINE Bad == {i \in 1 .. m : List!L!Steps(l, i - 1) # t[i]}
<1>2. Bad = {}
  <2>. SUFFICES ASSUME Bad # {} PROVE FALSE
    OBVIOUS
  <2>1. PICK i \in Bad : \A j \in Bad : i <= j
    <3>1. Bad \in SUBSET Nat
      OBVIOUS
    <3>. HIDE DEF Bad
    <3>. QED
      BY <3>1, LeastExists
  <2>2. i \in 1 .. m /\ List!L!Steps(l, i - 1) # t[i]
    BY <2>1
  <2>3. i # 1
    <3>1. List!L!Steps(l, 0) = l.head
      BY StepsFollow
    <3>. QED
      BY <1>1, <2>2, <3>1
  <2>4. i - 1 \in 1 .. m - 1 /\ i - 1 \in 1 .. m /\ i - 2 \in Nat /\ (i - 1) + 1 = i /\ (i - 1) - 1 = i - 2
        /\ (i - 2) + 1 = i - 1
    BY <2>2, <2>3
  <2>5. i - 1 \notin Bad
    BY <2>1, <2>2
  <2>6. List!L!Steps(l, i - 2) = t[i - 1]
    BY <2>4, <2>5
  <2>7. List!L!Steps(l, i - 1) = l.next[List!L!Steps(l, i - 2)]
    <3>. HIDE DEF Bad
    <3>. QED
      BY <2>4, StepsFollow
  <2>8. t[i] = l.next[t[i - 1]]
    BY <1>1, <2>4
  <2>. QED
    BY <2>2, <2>6, <2>7, <2>8
<1>3. \A i \in 1 .. m : List!L!Steps(l, i - 1) = t[i]
  BY <1>2
<1>. QED
  BY <1>3

LEMMA ContentsRead ==
    ASSUME ListOK
    PROVE  Reads(List!Contents, list.head, list.next, alive)
<1>. DEFINE m == Cardinality(alive)
            c == [i \in 1 .. m |-> List!L!Steps(list, i - 1)]
<1>1. /\ List!Left = m /\ m \in Nat /\ list \in ListType /\ IsFiniteSet(alive)
      /\ Ring(alive, list.next, list.prev) /\ (alive = {} <=> m = 0)
  BY FS_CardinalityType, FS_EmptySet DEF ListOK
<1>2. List!Contents = c
  BY <1>1 DEF List!Contents
<1>3. \A i \in 1 .. m : List!L!Steps(list, i - 1) \in alive
  BY <1>1, StepsAlive
<1>4. c \in [1 .. m -> alive]
  BY <1>3
<1>5. m > 0 => c[1] = list.head
  <2>1. List!L!Steps(list, 0) = list.head
    BY <1>1, StepsFollow
  <2>. QED
    BY <1>1, <2>1
<1>6. ASSUME NEW i \in 1 .. m - 1 PROVE c[i + 1] = list.next[c[i]]
  <2>1. i - 1 \in Nat /\ (i - 1) + 1 = i /\ i + 1 - 1 = i /\ i \in 1 .. m /\ i + 1 \in 1 .. m
    BY <1>1
  <2>2. List!L!Steps(list, i) = list.next[List!L!Steps(list, i - 1)]
    BY <1>1, <2>1, StepsFollow
  <2>. QED
    BY <2>1, <2>2
<1>. HIDE DEF c
<1>7. Tuple(c, alive) /\ Along(c, m, list.head, list.next)
  BY <1>4, <1>5, <1>6 DEF Tuple, Along, Chain
<1>. QED
  BY <1>1, <1>2, <1>7, RingIsCycle, RingReads

\* The sequence that follows the links of the next state is its contents.
LEMMA ContentsNext ==
    ASSUME ListOK', NEW t, NEW m \in Nat, t = [i \in 1 .. m |-> t[i]], m = Cardinality(alive)',
           Along(t, m, list'.head, list'.next)
    PROVE  List!Contents' = t
<1>1. List!Left' = m /\ list' \in ListType
  BY DEF ListOK
<1>2. [i \in 1 .. m |-> List!L!Steps(list', i - 1)] = t
  BY <1>1, StepsAre
<1>. QED
  BY <1>1, <1>2 DEF List!Contents

LEMMA ContentsSeq ==
    ASSUME ListOK
    PROVE  LET c == List!Contents
           IN  /\ c \in Seq(alive) /\ Len(c) = Cardinality(alive) /\ DOMAIN c = 1 .. Cardinality(alive)
               /\ c \in [1 .. Cardinality(alive) -> alive]
               /\ List!Abstract!Range(c) = alive
               /\ alive # {} => c[1] = list.head /\ 1 \in DOMAIN c
               /\ \A x \in alive : \E i \in DOMAIN c : c[i] = x
<1>. DEFINE c == List!Contents
<1>1. Reads(c, list.head, list.next, alive)
  BY ContentsRead
<1>. HIDE DEF c
<1>2. Cardinality(alive) \in Nat /\ (alive # {} => Cardinality(alive) > 0)
  BY FS_CardinalityType, FS_EmptySet DEF ListOK
<1>3. /\ c \in [1 .. Cardinality(alive) -> alive] /\ (alive # {} => c[1] = list.head)
      /\ \A x \in alive : \E i \in 1 .. Cardinality(alive) : c[i] = x
  BY <1>1, <1>2 DEF Reads, Tuple, Along
<1>4. List!Abstract!Range(c) = alive
  BY <1>3 DEF List!Abstract!Range
<1>. QED
  BY <1>2, <1>3, <1>4 DEF c

\* Insertion at a place of the ring is insertion at a place of the sequence.
LEMMA ContentsGrow ==
    ASSUME ListOK, ListOK', alive # {}, NEW x, x \notin alive, alive' = alive \cup {x},
           NEW j \in 1 .. Cardinality(alive) + 1,
           LinksBehind(List!Contents[IF j = 1 THEN Cardinality(alive) ELSE j - 1], x),
           list'.head = (IF j = 1 THEN x ELSE list.head)
    PROVE  /\ List!Contents' = List!Abstract!InsertAt(List!Contents, j, x)
           /\ j = 1 => List!Contents' = <<x>> \o List!Contents
<1>. DEFINE c == List!Contents
            t == List!Abstract!InsertAt(c, j, x)
            m == Cardinality(alive)
<1>1. /\ m \in Nat /\ m + 1 \in Nat /\ Cardinality(alive)' = m + 1 /\ IsFiniteSet(alive)
      /\ Reads(c, list.head, list.next, alive) /\ c \in Seq(alive) /\ Len(c) = m
  <2>1. m \in Nat /\ m + 1 \in Nat /\ Cardinality(alive)' = m + 1 /\ IsFiniteSet(alive)
    BY FS_CardinalityType, FS_AddElement DEF ListOK
  <2>. QED
    BY <2>1, ContentsRead, ContentsSeq
<1>2. PutBehind(alive, list.next, list.prev, c[IF j = 1 THEN m ELSE j - 1], x, list'.next, list'.prev)
  BY Zenon DEF LinksBehind
<1>3. ASSUME NEW u, HasAt(u, c, j, x), u = [i \in 1 .. m + 1 |-> u[i]]
      PROVE  List!Contents' = u
  <2>. HIDE DEF c, m
  <2>1. Along(u, Cardinality(alive) + 1, list'.head, list'.next)
    <3>. DEFINE y == c[IF j = 1 THEN Cardinality(alive) ELSE j - 1]
    <3>1. NextBehind(alive, list.next, y, x, list'.next)
      BY <1>2 DEF m, PutBehind, NextBehind
    <3>. HIDE DEF y
    <3>. QED
      BY <1>1, <1>3, <3>1, GrownAlong DEF m, y
  <2>. QED
    BY <1>1, <1>3, <2>1, ContentsNext DEF m
<1>4. List!Contents' = t
  <2>1. HasAt(t, c, j, x)
    <3>1. HasAt(SubSeq(c, 1, j - 1) \o <<x>> \o SubSeq(c, j, Len(c)), c, j, x)
      <4>. HIDE DEF c
      <4>. QED
        BY <1>1, PutIn
    <3>. QED
      BY <3>1 DEF List!Abstract!InsertAt
  <2>2. t = [i \in 1 .. m + 1 |-> t[i]]
    <3>. HIDE DEF t, m
    <3>. QED
      BY <1>1, <2>1 DEF HasAt
  <2>. HIDE DEF t
  <2>. QED
    BY <1>3, <2>1, <2>2
<1>5. ASSUME j = 1 PROVE List!Contents' = <<x>> \o c
  <2>. DEFINE u == <<x>> \o c
  <2>1. HasAt(u, c, j, x)
    BY <1>1, <1>5, PutFirst
  <2>2. u = [i \in 1 .. m + 1 |-> u[i]]
    <3>. HIDE DEF u, m
    <3>. QED
      BY <1>1, <2>1 DEF HasAt
  <2>. HIDE DEF u
  <2>3. List!Contents' = u
    BY <1>3, <2>1, <2>2
  <2>. QED
    BY <2>3 DEF u
<1>. QED
  BY <1>4, <1>5

\* Deletion from the ring is deletion from the sequence.
LEMMA ContentsShrink ==
    ASSUME ListOK, ListOK', NEW j \in 1 .. Cardinality(alive),
           alive' = alive \ {List!Contents[j]},
           alive' # {} => LinksOut(List!Contents[j]),
           alive' # {} => list'.head = IF j = 1 THEN list.next[List!Contents[1]] ELSE list.head
    PROVE  List!Contents' = List!Abstract!RemoveAt(List!Contents, j)
<1>. DEFINE c == List!Contents
            t == List!Abstract!RemoveAt(c, j)
            m == Cardinality(alive)
<1>1. /\ m \in Nat /\ m - 1 \in Nat /\ IsFiniteSet(alive) /\ Ring(alive, list.next, list.prev)
      /\ Reads(c, list.head, list.next, alive) /\ c \in Seq(alive) /\ Len(c) = m
      /\ c \in [1 .. m -> alive]
  BY FS_CardinalityType, ContentsRead, ContentsSeq DEF ListOK
<1>2. Cardinality(alive)' = m - 1 /\ (alive' = {} <=> m - 1 = 0)
  <2>1. c[j] \in alive
    BY <1>1
  <2>2. Cardinality(alive)' = m - 1 /\ IsFiniteSet(alive')
    BY <1>1, <2>1, FS_RemoveElement
  <2>. QED
    BY <2>2, FS_EmptySet
<1>3. LacksAt(t, c, j)
  <2>1. LacksAt(SubSeq(c, 1, j - 1) \o SubSeq(c, j + 1, Len(c)), c, j)
    <3>. HIDE DEF c
    <3>. QED
      BY <1>1, TakeAway
  <2>. QED
    BY <2>1 DEF List!Abstract!RemoveAt
<1>4. t = [i \in 1 .. m - 1 |-> t[i]]
  <2>. HIDE DEF t, m
  <2>. QED
    BY <1>1, <1>3 DEF LacksAt
<1>. HIDE DEF t
<1>5. Along(t, m - 1, list'.head, list'.next)
  <2>1. CASE alive' = {}
    BY <1>2, <2>1 DEF Along, Chain
  <2>2. CASE alive' # {}
    <3>1. TakenOut(alive, list.next, list.prev, c[j], list'.next, list'.prev)
      BY <2>2 DEF LinksOut
    <3>. HIDE DEF c
    <3>2. Along(t, Cardinality(alive) - 1, IF j = 1 THEN list.next[c[1]] ELSE list.head, list'.next)
      BY <1>1, <1>3, <3>1, ShrunkAlong
    <3>. QED
      BY <2>2, <3>2 DEF c
  <2>. QED
    BY <2>1, <2>2
<1>. HIDE DEF m
<1>6. List!Contents' = t
  BY <1>1, <1>2, <1>4, <1>5, ContentsNext
<1>. QED
  BY <1>6 DEF t

\* A head further on is the sequence turned.
LEMMA ContentsTurn ==
    ASSUME ListOK, ListOK', alive # {}, alive' = alive, list'.next = list.next,
           list'.head = list.next[list.head]
    PROVE  List!Contents # <<>> /\ List!Contents' = Tail(List!Contents) \o <<Head(List!Contents)>>
<1>. DEFINE c == List!Contents
            t == Tail(c) \o <<Head(c)>>
            m == Cardinality(alive)
<1>1. /\ m \in Nat /\ m > 0 /\ IsFiniteSet(alive) /\ Cardinality(alive)' = m
      /\ Reads(c, list.head, list.next, alive) /\ c \in Seq(alive) /\ Len(c) = m
  BY FS_CardinalityType, FS_EmptySet, ContentsRead, ContentsSeq DEF ListOK
<1>2. c # <<>>
  BY <1>1
<1>3. Tuple(t, alive) /\ Along(t, Cardinality(alive), list.next[list.head], list.next)
  <2>. HIDE DEF c
  <2>. QED
    BY <1>1, TurnedAlong
<1>4. t = [i \in 1 .. m |-> t[i]]
  BY <1>3 DEF Tuple
<1>. HIDE DEF t
<1>5. List!Contents' = t
  <2>1. Along(t, m, list'.head, list'.next)
    BY <1>3
  <2>. HIDE DEF m
  <2>. QED
    BY <1>1, <1>4, <2>1, ContentsNext
<1>. QED
  BY <1>2, <1>5 DEF t

\* Every operation is the step of the sequence it promises, or none.
LEMMA AddIsPrepend ==
    ASSUME ListOK, NEW x \in ListNodes \ alive, List!Add(x)
    PROVE  x \in List!Abstract!Absent /\ List!Abstract!Prepend(x)
<1>. DEFINE c == List!Contents
<1>1. ListOK' /\ list'.head = x /\ (alive # {} => LinksBehind(list.prev[list.head], x))
  BY AddListOK
<1>2. /\ alive' = alive \cup {x} /\ IsFiniteSet(alive) /\ Ring(alive, list.next, list.prev)
      /\ Cardinality(alive) \in Nat
  BY FS_CardinalityType DEF List!Add, ListOK
<1>3. x \in List!Abstract!Absent
  BY ContentsSeq DEF List!Abstract!Absent
<1>4. CASE alive = {}
  <2>1. c = <<>> /\ Cardinality(alive)' = 1
    <3>1. Cardinality({x}) = 1 /\ Cardinality({}) = 0
      BY FS_EmptySet, FS_Singleton
    <3>2. alive' = {x}
      BY <1>2, <1>4
    <3>. QED
      BY <1>4, <3>1, <3>2, ContentsSeq
  <2>2. <<x>> = [i \in 1 .. 1 |-> <<x>>[i]] /\ Along(<<x>>, 1, list'.head, list'.next)
    BY <1>1 DEF Along, Chain
  <2>3. List!Contents' = <<x>>
    BY <1>1, <2>1, <2>2, ContentsNext
  <2>. QED
    BY <1>3, <2>1, <2>3 DEF List!Abstract!Prepend
<1>5. CASE alive # {}
  <2>1. c[Cardinality(alive)] \in alive /\ list.next[c[Cardinality(alive)]] = list.head
    <3>1. Cardinality(alive) > 0
      BY <1>2, <1>5, FS_EmptySet
    <3>2. Reads(c, list.head, list.next, alive)
      BY ContentsRead
    <3>. HIDE DEF c
    <3>. QED
      BY <1>2, <1>5, <3>1, <3>2 DEF Reads, Tuple
  <2>2. c[Cardinality(alive)] = list.prev[list.head]
    <3>. HIDE DEF c
    <3>. QED
      BY <1>2, <2>1 DEF Ring
  <2>3. List!Contents' = <<x>> \o c
    <3>1. LinksBehind(c[IF 1 = 1 THEN Cardinality(alive) ELSE 1 - 1], x)
      BY <1>1, <1>5, <2>2
    <3>2. 1 \in 1 .. Cardinality(alive) + 1
      BY <1>2
    <3>. QED
      BY <1>1, <1>2, <1>5, <3>1, <3>2, ContentsGrow
  <2>. QED
    BY <1>3, <2>3 DEF List!Abstract!Prepend
<1>. QED
  BY <1>4, <1>5

LEMMA InsertAfterIsInsertBehind ==
    ASSUME ListOK, NEW x \in ListNodes \ alive, NEW y \in alive, List!InsertAfter(y, x)
    PROVE  x \in List!Abstract!Absent /\ \E i \in DOMAIN List!Contents : List!Abstract!InsertBehind(i, x)
<1>. DEFINE c == List!Contents
            m == Cardinality(alive)
<1>1. ListOK' /\ list'.head = list.head /\ LinksBehind(y, x)
  BY InsertAfterListOK
<1>2. alive' = alive \cup {x} /\ m \in Nat
  BY FS_CardinalityType DEF List!InsertAfter, ListOK
<1>3. x \in List!Abstract!Absent
  BY ContentsSeq DEF List!Abstract!Absent
<1>4. PICK i \in 1 .. m : c[i] = y
  BY ContentsSeq
<1>5. i \in DOMAIN c
  BY <1>4, ContentsSeq
<1>6. i + 1 \in 1 .. m + 1 /\ i + 1 # 1 /\ (i + 1) - 1 = i
  BY <1>2, <1>4
<1>. HIDE DEF m
<1>7. LinksBehind(c[IF i + 1 = 1 THEN m ELSE (i + 1) - 1], x)
  BY <1>1, <1>4, <1>6
<1>8. list'.head = (IF i + 1 = 1 THEN x ELSE list.head)
  BY <1>1, <1>6
<1>9. List!Contents' = List!Abstract!InsertAt(c, i + 1, x)
  BY <1>1, <1>2, <1>6, <1>7, <1>8, ContentsGrow DEF m
<1>. QED
  BY <1>3, <1>5, <1>9 DEF List!Abstract!InsertBehind

LEMMA InsertBeforeIsInsertInFront ==
    ASSUME ListOK, NEW x \in ListNodes \ alive, NEW y \in alive, List!InsertBefore(y, x)
    PROVE  x \in List!Abstract!Absent /\ \E i \in DOMAIN List!Contents : List!Abstract!InsertInFrontOf(i, x)
<1>. DEFINE c == List!Contents
            m == Cardinality(alive)
<1>1. ListOK' /\ list'.head = (IF y = list.head THEN x ELSE list.head) /\ LinksBehind(list.prev[y], x)
  BY InsertBeforeListOK
<1>2. alive' = alive \cup {x} /\ m \in Nat /\ Ring(alive, list.next, list.prev)
  BY FS_CardinalityType DEF List!InsertBefore, ListOK
<1>3. x \in List!Abstract!Absent
  BY ContentsSeq DEF List!Abstract!Absent
<1>4. PICK i \in 1 .. m : c[i] = y
  BY ContentsSeq
<1>5. i \in DOMAIN c /\ i \in 1 .. m + 1
  BY <1>2, <1>4, ContentsSeq
<1>6. Reads(c, list.head, list.next, alive)
  BY ContentsRead
<1>. HIDE DEF c
<1>7. (i = 1 <=> y = list.head) /\ c[IF i = 1 THEN m ELSE i - 1] = list.prev[y]
  <2>1. /\ c \in [1 .. m -> alive] /\ m \in 1 .. m /\ 1 \in 1 .. m /\ c[1] = list.head
        /\ list.next[c[m]] = list.head /\ c[m] \in alive
        /\ \A k \in 1 .. m - 1 : c[k + 1] = list.next[c[k]]
        /\ \A k, h \in 1 .. m : c[k] = c[h] => k = h
    BY <1>2, <1>4, <1>6 DEF Reads, Tuple, Along, Chain
  <2>2. i = 1 <=> y = list.head
    BY <1>4, <2>1
  <2>3. CASE i = 1
    BY <1>2, <2>1, <2>2, <2>3 DEF Ring
  <2>4. CASE i # 1
    <3>1. i - 1 \in 1 .. m - 1 /\ i - 1 \in 1 .. m /\ (i - 1) + 1 = i
      BY <1>2, <1>4, <2>4
    <3>. HIDE DEF m
    <3>2. c[i] = list.next[c[i - 1]] /\ c[i - 1] \in alive
      BY <2>1, <3>1
    <3>. QED
      BY <1>2, <1>4, <2>2, <2>4, <3>2 DEF Ring
  <2>. QED
    BY <2>3, <2>4
<1>. HIDE DEF m
<1>8. LinksBehind(c[IF i = 1 THEN m ELSE i - 1], x) /\ list'.head = (IF i = 1 THEN x ELSE list.head)
  BY <1>1, <1>7
<1>9. List!Contents' = List!Abstract!InsertAt(c, i, x)
  BY <1>1, <1>2, <1>5, <1>8, ContentsGrow DEF c, m
<1>. QED
  BY <1>3, <1>5, <1>9 DEF List!Abstract!InsertInFrontOf, c

LEMMA DeleteIsTakeOut ==
    ASSUME ListOK, NEW x \in alive, List!Delete(x)
    PROVE  \E i \in DOMAIN List!Contents : List!Abstract!TakeOut(i)
<1>. DEFINE c == List!Contents
            m == Cardinality(alive)
<1>1. /\ ListOK' /\ LinksOut(x)
      /\ alive' # {} => list'.head = IF x = list.head THEN list.next[x] ELSE list.head
  BY DeleteListOK
<1>2. alive' = alive \ {x} /\ m \in Nat
  BY FS_CardinalityType DEF List!Delete, ListOK
<1>4. PICK i \in 1 .. m : c[i] = x
  BY ContentsSeq
<1>5. i \in DOMAIN c
  BY <1>4, ContentsSeq
<1>6. Reads(c, list.head, list.next, alive)
  BY ContentsRead
<1>7. (i = 1 <=> x = list.head) /\ c[1] = list.head
  <2>. HIDE DEF c
  <2>. QED
    BY <1>2, <1>4, <1>6 DEF Reads, Along
<1>8. alive' # {} => list'.head = IF i = 1 THEN list.next[c[1]] ELSE list.head
  BY <1>1, <1>7
<1>. HIDE DEF m
<1>9. List!Contents' = List!Abstract!RemoveAt(c, i)
  BY <1>1, <1>2, <1>4, <1>8, ContentsShrink DEF m
<1>. QED
  BY <1>5, <1>9 DEF List!Abstract!TakeOut

LEMMA FreeNodeIsTakeOut ==
    ASSUME ListOK, List!FreeNode
    PROVE  \E i \in DOMAIN List!Contents : List!Abstract!TakeOut(i)
<1>. DEFINE c == List!Contents
            m == Cardinality(alive)
<1>1. /\ ListOK' /\ list'.head = list.next[list.head]
      /\ alive' # {} => LinksOut(list.head)
  BY FreeNodeListOK
<1>2. alive' = alive \ {list.head} /\ m \in Nat /\ m > 0
  BY FS_CardinalityType DEF List!FreeNode, ListOK, List!Left, ListType
<1>3. c[1] = list.head /\ 1 \in 1 .. m /\ 1 \in DOMAIN c
  BY <1>2, ContentsSeq, FS_EmptySet
<1>. HIDE DEF m
<1>4. alive' # {} => list'.head = IF 1 = 1 THEN list.next[c[1]] ELSE list.head
  BY <1>1, <1>3
<1>5. List!Contents' = List!Abstract!RemoveAt(c, 1)
  BY <1>1, <1>2, <1>3, <1>4, ContentsShrink DEF m
<1>. QED
  BY <1>3, <1>5 DEF List!Abstract!TakeOut

LEMMA NextNodeIsRotate ==
    ASSUME ListOK, List!NextNode
    PROVE  List!Abstract!Rotate
<1>1. ListOK' /\ list'.head = list.next[list.head] /\ list'.next = list.next
  BY NextNodeListOK
<1>2. alive # {} /\ alive' = alive
  BY DEF ListOK, List!NextNode, List!Idle
<1>. QED
  BY <1>1, <1>2, ContentsTurn DEF List!Abstract!Rotate

LEMMA ListStutters ==
    ASSUME ListOK, List!FreeStart \/ List!FreeEnd \/ UNCHANGED listVars
    PROVE  List!Contents' = List!Contents
<1>1. CASE List!FreeStart
  <2>1. List!Left' = List!Left /\ list' = list
    BY <1>1 DEF List!FreeStart, List!Left, ListOK, ListType
  <2>. QED
    BY <2>1 DEF List!Contents
<1>2. CASE List!FreeEnd
  <2>1. ListOK' /\ Cardinality(alive) = 0 /\ alive' = alive
    <3>1. list.count \in Int /\ Cardinality(alive) \in Nat /\ List!Left = Cardinality(alive)
      BY FS_CardinalityType DEF ListOK, ListType
    <3>2. List!Left = 0 /\ alive' = alive
      BY <1>2, <3>1 DEF List!FreeEnd, ListOK, List!Left
    <3>. QED
      BY <1>2, <3>1, <3>2, FreeEndListOK
  <2>2. List!Left = 0 /\ List!Left' = 0
    BY <2>1 DEF ListOK
  <2>. QED
    BY <2>2 DEF List!Contents
<1>3. CASE UNCHANGED listVars
  BY <1>3 DEF listVars, List!Contents, List!Left
<1>. QED
  BY <1>1, <1>2, <1>3

\* The list of linkedlist.c implements a sequence of nodes: what its
\* operations do to the links is what they promise to do to the sequence.
THEOREM ListIsSequence == Spec => ImplementsList
<1>1. Init => ListOK
  BY InitListOK DEF Init
<1>2. ListOK /\ [Next]_vars => ListOK'
  BY Parts, NextListOK
<1>3. Init => List!Abstract!Init
  <2>. SUFFICES ASSUME Init PROVE List!Contents = <<>>
    BY DEF List!Abstract!Init
  <2>1. List!Left = 0
    BY DEF Init, List!Init, List!Left, List!L!Empty
  <2>. QED
    BY <2>1 DEF List!Contents
<1>4. ListOK /\ [Next]_vars => [List!Abstract!Next]_(List!Contents)
  <2>. SUFFICES ASSUME ListOK, [List!Next]_listVars PROVE [List!Abstract!Next]_(List!Contents)
    BY Parts
  <2>1. CASE List!FreeStart \/ List!FreeEnd \/ UNCHANGED listVars
    BY <2>1, ListStutters
  <2>2. ASSUME NEW x \in ListNodes \ alive, List!Add(x) PROVE List!Abstract!Next
    BY <2>2, AddIsPrepend DEF List!Abstract!Next
  <2>3. ASSUME NEW x \in ListNodes \ alive, NEW y \in alive, List!InsertAfter(y, x)
        PROVE  List!Abstract!Next
    BY <2>3, InsertAfterIsInsertBehind DEF List!Abstract!Next
  <2>4. ASSUME NEW x \in ListNodes \ alive, NEW y \in alive, List!InsertBefore(y, x)
        PROVE  List!Abstract!Next
    BY <2>4, InsertBeforeIsInsertInFront DEF List!Abstract!Next
  <2>5. ASSUME NEW x \in alive, List!Delete(x) PROVE List!Abstract!Next
    BY <2>5, DeleteIsTakeOut DEF List!Abstract!Next
  <2>6. List!FreeNode => List!Abstract!Next
    BY FreeNodeIsTakeOut DEF List!Abstract!Next
  <2>7. List!NextNode => List!Abstract!Next
    BY NextNodeIsRotate DEF List!Abstract!Next
  <2>. QED
    BY <2>1, <2>2, <2>3, <2>4, <2>5, <2>6, <2>7 DEF List!Next
<1>. QED
  BY <1>1, <1>2, <1>3, <1>4, PTL DEF Spec, ImplementsList, List!ImplementsList, List!Abstract!Spec

-----------------------------------------------------------------------------
(* HashTable: the low bits of a hash.                                      *)

LEMMA Pow2Is ==
    ASSUME NEW d \in Nat
    PROVE  \E w : IsPowers(w, d) /\ Hash!Pow2(d) = w[d]
<1>. DEFINE Is(w) == w = [i \in 0 .. d |-> IF i = 0 THEN 1 ELSE 2 * w[i - 1]]
            pow == CHOOSE w : Is(w)
<1>1. \E w : Is(w)
  BY PowersExist DEF IsPowers
<1>2. Hash!Pow2(d) = pow[d]
  BY DEF Hash!Pow2
<1>. HIDE DEF Is
<1>3. Is(pow)
  BY <1>1, Zenon
<1>4. IsPowers(pow, d)
  BY <1>3 DEF Is, IsPowers
<1>. QED
  BY <1>2, <1>4

LEMMA PowersOfTwo ==
    /\ Hash!Pow2(0) = 1
    /\ \A d \in Nat : Hash!Pow2(d) \in Nat \ {0} /\ Hash!Pow2(d + 1) = 2 * Hash!Pow2(d)
<1>1. Hash!Pow2(0) = 1
  BY Pow2Is, PowersPositive
<1>2. ASSUME NEW d \in Nat PROVE Hash!Pow2(d) \in Nat \ {0}
  BY Pow2Is, PowersPositive
<1>3. ASSUME NEW d \in Nat PROVE Hash!Pow2(d + 1) = 2 * Hash!Pow2(d)
  <2>1. PICK w : IsPowers(w, d) /\ Hash!Pow2(d) = w[d]
    BY Pow2Is
  <2>2. PICK v : IsPowers(v, d + 1) /\ Hash!Pow2(d + 1) = v[d + 1]
    BY Pow2Is
  <2>. QED
    BY <2>1, <2>2, PowersGrow
<1>. QED
  BY <1>1, <1>2, <1>3

\* One more low bit.
LEMMA LowNext ==
    ASSUME NEW h \in Nat, NEW d \in Nat
    PROVE  /\ Hash!Low(h, d) \in 0 .. Hash!Pow2(d) - 1
           /\ Hash!Bit(h, d) \in {0, 1}
           /\ Hash!Low(h, d + 1) = Hash!Pow2(d) * Hash!Bit(h, d) + Hash!Low(h, d)
<1>. DEFINE m == Hash!Pow2(d)
            q == h \div m
            r == h % m
            u == q \div 2
            b == q % 2
<1>1. m \in Nat \ {0} /\ Hash!Pow2(d + 1) = 2 * m
  BY PowersOfTwo
<1>. HIDE DEF m
<1>2. q \in Nat /\ r \in 0 .. m - 1 /\ h = m * q + r
  BY <1>1, DivWith
<1>. HIDE DEF q, r
<1>3. u \in Nat /\ b \in 0 .. 1 /\ q = 2 * u + b
  BY <1>2
<1>. HIDE DEF u, b
<1>4. m * b + r \in Nat /\ m * b + r < 2 * m
  <2>1. b = 0 \/ b = 1
    BY <1>3
  <2>. QED
    BY <1>1, <1>2, <2>1
<1>5. h = (2 * m) * u + (m * b + r)
  <2>1. m * (2 * u + b) = (2 * m) * u + m * b
    BY <1>1, <1>3
  <2>2. m * b \in Nat /\ (2 * m) * u \in Nat
    BY <1>1, <1>3
  <2>. HIDE DEF b, u
  <2>. QED
    BY <1>2, <1>3, <2>1, <2>2
<1>6. 2 * m \in Nat \ {0}
  BY <1>1
<1>7. h % (2 * m) = m * b + r
  BY <1>3, <1>4, <1>5, <1>6, DivIs
<1>8. Hash!Low(h, d + 1) = m * b + r
  BY <1>1, <1>7 DEF Hash!Low
<1>. QED
  BY <1>2, <1>3, <1>8 DEF Hash!Low, Hash!Bit, q, r, b, m

\* The low bits of an entry are its own.
LEMMA LowOfEntry ==
    ASSUME NEW d \in Nat, NEW h \in Hash!Entries(d)
    PROVE  Hash!Low(h, d) = h
<1>. DEFINE m == Hash!Pow2(d)
<1>1. m \in Nat \ {0} /\ h \in Nat /\ h < m
  BY PowersOfTwo DEF Hash!Entries
<1>. HIDE DEF m
<1>2. m * 0 + h = h
  BY <1>1
<1>3. h % m = h
  BY <1>1, <1>2, DivIs
<1>. QED
  BY <1>3 DEF Hash!Low, m

LEMMA LowIsEntry ==
    ASSUME NEW h \in Nat, NEW d \in Nat
    PROVE  Hash!Low(h, d) \in Hash!Entries(d) /\ Hash!Low(h, d) \in Nat
<1>1. Hash!Low(h, d) \in 0 .. Hash!Pow2(d) - 1
  BY LowNext
<1>2. Hash!Pow2(d) \in Nat
  BY PowersOfTwo
<1>. QED
  BY <1>1, <1>2 DEF Hash!Entries

\* Numbers that agree in one more bit agree in the bits before and in that.
LEMMA LowAgree ==
    ASSUME NEW h \in Nat, NEW i \in Nat, NEW d \in Nat
    PROVE  Hash!Low(h, d + 1) = Hash!Low(i, d + 1)
           <=> Hash!Low(h, d) = Hash!Low(i, d) /\ Hash!Bit(h, d) = Hash!Bit(i, d)
<1>. DEFINE m == Hash!Pow2(d)
            r == Hash!Low(h, d)
            s == Hash!Low(i, d)
            b == Hash!Bit(h, d)
            c == Hash!Bit(i, d)
<1>1. m \in Nat /\ r \in 0 .. m - 1 /\ s \in 0 .. m - 1 /\ b \in {0, 1} /\ c \in {0, 1}
  BY LowNext, PowersOfTwo
<1>2. Hash!Low(h, d + 1) = m * b + r /\ Hash!Low(i, d + 1) = m * c + s
  BY LowNext
<1>. HIDE DEF m, r, s, b, c
<1>3. m * b + r = m * c + s <=> r = s /\ b = c
  BY <1>1
<1>. QED
  BY <1>2, <1>3 DEF r, s, b, c

\* The number with these low bits and this bit above them.
LEMMA WithBit ==
    ASSUME NEW h \in Nat, NEW d \in Nat, NEW b \in {0, 1}
    PROVE  \E x \in Hash!Entries(d + 1) :
               Hash!Low(x, d) = Hash!Low(h, d) /\ Hash!Bit(x, d) = b
<1>. DEFINE m == Hash!Pow2(d)
            r == Hash!Low(h, d)
            x == m * b + r
<1>1. m \in Nat \ {0} /\ Hash!Pow2(d + 1) = 2 * m /\ r \in 0 .. m - 1
  BY LowNext, PowersOfTwo
<1>. HIDE DEF m, r
<1>2. x \in 0 .. 2 * m - 1
  BY <1>1
<1>3. x % m = r /\ x \div m = b
  BY <1>1, DivIs
<1>4. b % 2 = b
  OBVIOUS
<1>. HIDE DEF x
<1>5. Hash!Low(x, d) = r /\ Hash!Bit(x, d) = b
  BY <1>3, <1>4 DEF Hash!Low, Hash!Bit, m
<1>6. x \in Hash!Entries(d + 1)
  BY <1>1, <1>2 DEF Hash!Entries
<1>. QED
  BY <1>5, <1>6 DEF r

\* What d low bits do not tell, fewer do not tell either.
LEMMA LowFewer ==
    ASSUME NEW h \in Nat, NEW i \in Nat, NEW g \in Nat, NEW d \in 0 .. g,
           Hash!Low(h, g) = Hash!Low(i, g)
    PROVE  Hash!Low(h, d) = Hash!Low(i, d)
<1>. DEFINE Good == {e \in 0 .. g : Hash!Low(h, e) = Hash!Low(i, e)}
            Bad == {e \in 0 .. g : e \notin Good}
<1>. SUFFICES ASSUME Bad # {} PROVE FALSE
  OBVIOUS
<1>1. PICK e \in Bad : \A f \in Bad : f <= e
  <2>1. Bad \in SUBSET Nat /\ \A f \in Bad : f <= g
    OBVIOUS
  <2>. HIDE DEF Bad
  <2>. QED
    BY <2>1, GreatestExists
<1>2. e \in 0 .. g /\ e # g
  OBVIOUS
<1>3. e + 1 \in 0 .. g /\ e + 1 \notin Bad
  BY <1>1, <1>2
<1>4. Hash!Low(h, e + 1) = Hash!Low(i, e + 1)
  BY <1>3
<1>. QED
  BY <1>2, <1>4, LowAgree

LEMMA LowOfLow ==
    ASSUME NEW h \in Nat, NEW g \in Nat, NEW d \in 0 .. g
    PROVE  Hash!Low(Hash!Low(h, g), d) = Hash!Low(h, d)
<1>1. Hash!Low(h, g) \in Nat /\ Hash!Low(Hash!Low(h, g), g) = Hash!Low(h, g)
  BY LowIsEntry, LowOfEntry
<1>. QED
  BY <1>1, LowFewer

LEMMA EntriesGrow ==
    ASSUME NEW g \in Nat, NEW d \in 0 .. g
    PROVE  Hash!Entries(d) \subseteq Hash!Entries(g)
<1>. DEFINE Bad == {e \in Nat : e >= d /\ ~ (Hash!Pow2(d) <= Hash!Pow2(e))}
<1>1. Bad = {}
  <2>. SUFFICES ASSUME Bad # {} PROVE FALSE
    OBVIOUS
  <2>1. PICK e \in Bad : \A f \in Bad : e <= f
    BY LeastExists
  <2>2. d \in Nat /\ e \in Nat /\ e >= d /\ e # d
    BY PowersOfTwo
  <2>3. e - 1 \in Nat /\ e - 1 >= d /\ e - 1 \notin Bad /\ (e - 1) + 1 = e
    BY <2>1, <2>2
  <2>4. Hash!Pow2(e) = 2 * Hash!Pow2(e - 1) /\ Hash!Pow2(e - 1) \in Nat
    BY <2>3, PowersOfTwo
  <2>5. Hash!Pow2(d) <= Hash!Pow2(e - 1) /\ Hash!Pow2(d) \in Nat
    BY <2>2, <2>3, PowersOfTwo
  <2>. QED
    BY <2>4, <2>5
<1>2. Hash!Pow2(d) <= Hash!Pow2(g) /\ Hash!Pow2(d) \in Nat /\ Hash!Pow2(g) \in Nat
  BY <1>1, PowersOfTwo
<1>. QED
  BY <1>2 DEF Hash!Entries

-----------------------------------------------------------------------------
(* HashTable: the two halves of a bucket.                                  *)

Pair == [key : HashKeys, value : Nat]

\* among the first m pairs of s, one has the key k
HasKey(s, m, k) == \E j \in 1 .. m : s[j].key = k

\* among the first m pairs of s, the first with the key k has the value v
FirstValue(s, m, k, v) ==
    \E j \in 1 .. m : s[j].key = k /\ s[j].value = v /\ \A l \in 1 .. j - 1 : s[l].key # k

\* w takes the pairs of s one by one that have this bit
IsHalf(w, s, d, bit) ==
    w = [i \in 0 .. Len(s) |->
            IF i = 0 THEN <<>>
            ELSE IF Hash!Bit(HashOf(s[i].key), d) = bit THEN Append(w[i - 1], s[i])
            ELSE w[i - 1]]

LEMMA HalfExists ==
    ASSUME NEW s \in Seq(Pair), NEW d, NEW bit
    PROVE  \E w : IsHalf(w, s, d, bit)
<1>. DEFINE S == [at : Nat, taken : Seq(Pair)]
            Takes(x) == Hash!Bit(HashOf(s[x.at + 1].key), d) = bit
            g == [x \in S |->
                    IF x.at + 1 \in 1 .. Len(s)
                    THEN [at |-> x.at + 1, taken |-> IF Takes(x) THEN Append(x.taken, s[x.at + 1]) ELSE x.taken]
                    ELSE x]
            m == Len(s)
<1>1. m \in Nat
  OBVIOUS
<1>2. [at |-> 0, taken |-> <<>>] \in S
  <2>1. <<>> \in Seq(Pair)
    OBVIOUS
  <2>. QED
    BY <2>1
<1>3. ASSUME NEW x \in S PROVE g[x] \in S
  <2>1. x.at \in Nat /\ x.taken \in Seq(Pair)
    OBVIOUS
  <2>2. CASE x.at + 1 \in 1 .. Len(s)
    <3>1. s[x.at + 1] \in Pair
      BY <2>2
    <3>2. Append(x.taken, s[x.at + 1]) \in Seq(Pair)
      BY <2>1, <3>1
    <3>. QED
      BY <2>1, <2>2, <3>2
  <2>3. CASE x.at + 1 \notin 1 .. Len(s)
    BY <2>3
  <2>. QED
    BY <2>2, <2>3
<1>4. g \in [S -> S]
  BY <1>3
<1>5. PICK v \in [0 .. m -> S] : IsWalk(v, [at |-> 0, taken |-> <<>>], g, m)
  <2>. HIDE DEF S, g, m
  <2>. QED
    BY <1>1, <1>2, <1>4, WalkExists
<1>6. \A i \in 0 .. m : v[i] \in S /\ v[i] = IF i = 0 THEN [at |-> 0, taken |-> <<>>] ELSE g[v[i - 1]]
  BY <1>5, Zenon DEF IsWalk
<1>. HIDE <1>5
<1>0. v[0].at = 0 /\ v[0].taken = <<>>
  <2>. DEFINE x == [at |-> 0, taken |-> <<>>]
  <2>1. x.at = 0 /\ x.taken = <<>>
    OBVIOUS
  <2>2. 0 \in 0 .. m
    BY <1>1
  <2>. HIDE DEF x, S, m, g
  <2>3. v[0] = x
    BY <1>6, <2>2 DEF x
  <2>. QED
    BY <2>1, <2>3
<1>7. \A i \in 0 .. m : v[i].at = i
  <2>. DEFINE Bad == {i \in 0 .. m : v[i].at # i}
  <2>. SUFFICES ASSUME Bad # {} PROVE FALSE
    OBVIOUS
  <2>1. Bad \in SUBSET Nat
    OBVIOUS
  <2>. HIDE DEF Bad
  <2>2. PICK i \in Bad : \A j \in Bad : i <= j
    BY <2>1, LeastExists
  <2>. USE DEF Bad
  <2>3. i \in 0 .. m /\ i # 0
    BY <1>0, <2>2
  <2>4. i - 1 \in 0 .. m /\ v[i - 1].at = i - 1 /\ i \in 1 .. m
    BY <2>2, <2>3
  <2>5. v[i - 1] \in S /\ v[i] = g[v[i - 1]]
    BY <1>6, <2>3, <2>4
  <2>. QED
    BY <2>2, <2>4, <2>5
<1>. DEFINE w == [i \in 0 .. m |-> v[i].taken]
<1>8. ASSUME NEW i \in 0 .. m
      PROVE  w[i] = IF i = 0 THEN <<>>
                    ELSE IF Hash!Bit(HashOf(s[i].key), d) = bit THEN Append(w[i - 1], s[i])
                    ELSE w[i - 1]
  <2>1. CASE i = 0
    BY <1>0, <2>1
  <2>2. CASE i # 0
    <3>1. i - 1 \in 0 .. m /\ (i - 1) + 1 = i /\ i \in 1 .. Len(s)
      BY <2>2
    <3>2. v[i - 1] \in S /\ v[i - 1].at = i - 1 /\ v[i] = g[v[i - 1]]
      BY <1>6, <1>7, <2>2, <3>1
    <3>3. v[i].taken = IF Hash!Bit(HashOf(s[i].key), d) = bit THEN Append(v[i - 1].taken, s[i]) ELSE v[i - 1].taken
      BY <3>1, <3>2
    <3>. QED
      BY <2>2, <3>1, <3>3
  <2>. QED
    BY <2>1, <2>2
<1>9. IsHalf(w, s, d, bit)
  <2>1. w = [i \in 0 .. m |-> w[i]]
    OBVIOUS
  <2>. HIDE DEF w
  <2>2. [i \in 0 .. m |-> w[i]]
        = [i \in 0 .. m |-> IF i = 0 THEN <<>>
                    ELSE IF Hash!Bit(HashOf(s[i].key), d) = bit THEN Append(w[i - 1], s[i])
                    ELSE w[i - 1]]
    BY <1>8
  <2>. QED
    BY <2>1, <2>2 DEF IsHalf
<1>. QED
  BY <1>9

\* With one more pair a key keeps its first value.
LEMMA FirstOfMore ==
    ASSUME NEW s \in Seq(Pair), NEW x \in Pair, NEW k, NEW u
    PROVE  LET t == Append(s, x)
           IN  /\ HasKey(t, Len(t), k) <=> HasKey(s, Len(s), k) \/ x.key = k
               /\ FirstValue(t, Len(t), k, u)
                  <=> \/ FirstValue(s, Len(s), k, u)
                      \/ ~HasKey(s, Len(s), k) /\ x.key = k /\ x.value = u
<1>. DEFINE t == Append(s, x)
            m == Len(s)
<1>1. m \in Nat /\ Len(t) = m + 1 /\ t[m + 1] = x /\ \A j \in 1 .. m : t[j] = s[j]
  OBVIOUS
<1>. HIDE DEF t, m
<1>2. \A j \in 1 .. m + 1 : j \in 1 .. m \/ j = m + 1
  BY <1>1
<1>3. m + 1 \in 1 .. m + 1 /\ (m + 1) - 1 = m /\ \A j \in 1 .. m : j \in 1 .. m + 1
  BY <1>1
<1>4. \A j \in 1 .. m : \A l \in 1 .. j - 1 : l \in 1 .. m
  BY <1>1
<1>5. HasKey(t, m + 1, k) <=> HasKey(s, m, k) \/ x.key = k
  BY <1>1, <1>2, <1>3 DEF HasKey
<1>6. FirstValue(s, m, k, u) => FirstValue(t, m + 1, k, u)
  BY <1>1, <1>3, <1>4 DEF FirstValue
<1>7. ~HasKey(s, m, k) /\ x.key = k /\ x.value = u => FirstValue(t, m + 1, k, u)
  BY <1>1, <1>3 DEF FirstValue, HasKey
<1>8. FirstValue(t, m + 1, k, u)
      => FirstValue(s, m, k, u) \/ (~HasKey(s, m, k) /\ x.key = k /\ x.value = u)
  <2>. SUFFICES ASSUME FirstValue(t, m + 1, k, u)
                PROVE  FirstValue(s, m, k, u) \/ (~HasKey(s, m, k) /\ x.key = k /\ x.value = u)
    OBVIOUS
  <2>1. PICK j \in 1 .. m + 1 :
            t[j].key = k /\ t[j].value = u /\ \A l \in 1 .. j - 1 : t[l].key # k
    BY DEF FirstValue
  <2>2. CASE j \in 1 .. m
    <3>1. s[j].key = k /\ s[j].value = u /\ \A l \in 1 .. j - 1 : s[l].key # k
      BY <1>1, <1>4, <2>1, <2>2
    <3>. QED
      BY <2>2, <3>1 DEF FirstValue
  <2>3. CASE j = m + 1
    <3>1. ASSUME NEW l \in 1 .. m PROVE s[l].key # k
      <4>1. l \in 1 .. j - 1
        BY <1>3, <2>3
      <4>2. t[l].key # k
        BY <2>1, <4>1
      <4>. QED
        BY <1>1, <4>2
    <3>. QED
      BY <1>1, <2>1, <2>3, <3>1 DEF HasKey
  <2>. QED
    BY <1>2, <2>1, <2>2, <2>3
<1>. QED
  BY <1>1, <1>5, <1>6, <1>7, <1>8 DEF t, m

\* The same for a part of a sequence that is one longer.
LEMMA FirstOfLonger ==
    ASSUME NEW s, NEW i \in Nat \ {0}, NEW k, NEW u
    PROVE  /\ HasKey(s, i, k) <=> HasKey(s, i - 1, k) \/ s[i].key = k
           /\ FirstValue(s, i, k, u)
              <=> \/ FirstValue(s, i - 1, k, u)
                  \/ ~HasKey(s, i - 1, k) /\ s[i].key = k /\ s[i].value = u
<1>1. \A j \in 1 .. i : j \in 1 .. i - 1 \/ j = i
  OBVIOUS
<1>2. i \in 1 .. i /\ \A j \in 1 .. i - 1 : j \in 1 .. i
  OBVIOUS
<1>. QED
  BY <1>1, <1>2 DEF HasKey, FirstValue

\* What a half is after i pairs: pairs of the bucket that have the bit, and
\* for every key that has it the first value the bucket has.
HalfOK(t, s, i, d, bit) ==
    /\ t \in Seq(Pair) /\ Len(t) <= i
    /\ \A j \in DOMAIN t : /\ \E l \in DOMAIN s : t[j] = s[l]
                           /\ Hash!Bit(HashOf(t[j].key), d) = bit
    /\ \A k : Hash!Bit(HashOf(k), d) = bit =>
           /\ HasKey(t, Len(t), k) <=> HasKey(s, i, k)
           /\ \A u : FirstValue(t, Len(t), k, u) <=> FirstValue(s, i, k, u)

LEMMA HalfNext ==
    ASSUME NEW s \in Seq(Pair), NEW d, NEW bit, NEW i \in 1 .. Len(s),
           NEW t, HalfOK(t, s, i - 1, d, bit)
    PROVE  HalfOK(IF Hash!Bit(HashOf(s[i].key), d) = bit THEN Append(t, s[i]) ELSE t, s, i, d, bit)
<1>1. i \in Nat \ {0} /\ i \in DOMAIN s /\ s[i] \in Pair
  OBVIOUS
<1>2. t \in Seq(Pair) /\ Len(t) \in Nat /\ Len(t) <= i - 1
  BY DEF HalfOK
<1>3. CASE Hash!Bit(HashOf(s[i].key), d) = bit
  <2>. DEFINE v == Append(t, s[i])
  <2>1. v \in Seq(Pair) /\ Len(v) = Len(t) + 1 /\ v[Len(v)] = s[i] /\ DOMAIN v = 1 .. Len(t) + 1
        /\ DOMAIN t = 1 .. Len(t) /\ \A j \in DOMAIN t : v[j] = t[j]
    BY <1>1, <1>2
  <2>2. ASSUME NEW j \in DOMAIN v
        PROVE  (\E l \in DOMAIN s : v[j] = s[l]) /\ Hash!Bit(HashOf(v[j].key), d) = bit
    <3>1. CASE j \in DOMAIN t
      BY <2>1, <3>1 DEF HalfOK
    <3>2. CASE j = Len(v)
      BY <1>1, <1>3, <2>1, <3>2
    <3>3. j \in DOMAIN t \/ j = Len(v)
      BY <1>2, <2>1
    <3>. QED
      BY <3>1, <3>2, <3>3
  <2>3. ASSUME NEW k, Hash!Bit(HashOf(k), d) = bit
        PROVE  /\ HasKey(v, Len(v), k) <=> HasKey(s, i, k)
               /\ \A u : FirstValue(v, Len(v), k, u) <=> FirstValue(s, i, k, u)
    <3>1. HasKey(t, Len(t), k) <=> HasKey(s, i - 1, k)
      BY <2>3 DEF HalfOK
    <3>2. \A u : FirstValue(t, Len(t), k, u) <=> FirstValue(s, i - 1, k, u)
      BY <2>3 DEF HalfOK
    <3>3. HasKey(v, Len(v), k) <=> HasKey(s, i, k)
      BY <1>1, <1>2, <3>1, FirstOfMore, FirstOfLonger
    <3>4. ASSUME NEW u PROVE FirstValue(v, Len(v), k, u) <=> FirstValue(s, i, k, u)
      BY <1>1, <1>2, <3>1, <3>2, FirstOfMore, FirstOfLonger
    <3>. QED
      BY <3>3, <3>4
  <2>. HIDE DEF v
  <2>4. HalfOK(v, s, i, d, bit)
    BY <1>1, <1>2, <2>1, <2>2, <2>3 DEF HalfOK
  <2>. QED
    BY <1>3, <2>4 DEF v
<1>4. CASE Hash!Bit(HashOf(s[i].key), d) # bit
  <2>1. Len(t) <= i
    BY <1>1, <1>2
  <2>2. ASSUME NEW k, Hash!Bit(HashOf(k), d) = bit
        PROVE  /\ HasKey(t, Len(t), k) <=> HasKey(s, i, k)
               /\ \A u : FirstValue(t, Len(t), k, u) <=> FirstValue(s, i, k, u)
    <3>1. s[i].key # k
      BY <1>4, <2>2
    <3>2. HasKey(t, Len(t), k) <=> HasKey(s, i - 1, k)
      BY <2>2 DEF HalfOK
    <3>3. \A u : FirstValue(t, Len(t), k, u) <=> FirstValue(s, i - 1, k, u)
      BY <2>2 DEF HalfOK
    <3>4. HasKey(s, i, k) <=> HasKey(s, i - 1, k)
      BY <1>1, <3>1, FirstOfLonger
    <3>5. \A u : FirstValue(s, i, k, u) <=> FirstValue(s, i - 1, k, u)
      BY <1>1, <3>1, FirstOfLonger
    <3>. QED
      BY <3>2, <3>3, <3>4, <3>5
  <2>3. HalfOK(t, s, i, d, bit)
    BY <1>2, <2>1, <2>2 DEF HalfOK
  <2>. QED
    BY <1>4, <2>3
<1>. QED
  BY <1>3, <1>4

LEMMA HalvesOK ==
    ASSUME NEW b, buckets[b].pairs \in Seq(Pair), NEW bit
    PROVE  LET s == buckets[b].pairs
           IN  HalfOK(Hash!Half(b, bit), s, Len(s), buckets[b].localdepth, bit)
<1>. DEFINE s == buckets[b].pairs
            d == buckets[b].localdepth
            Is(w) == w = [i \in 0 .. Len(s) |->
                            IF i = 0 THEN <<>>
                            ELSE IF Hash!Bit(HashOf(s[i].key), d) = bit THEN Append(w[i - 1], s[i])
                            ELSE w[i - 1]]
            half == CHOOSE w : Is(w)
            m == Len(s)
<1>1. \E w : Is(w)
  <2>1. s \in Seq(Pair)
    OBVIOUS
  <2>. HIDE DEF s, d
  <2>2. \E w : IsHalf(w, s, d, bit)
    BY <2>1, HalfExists
  <2>. QED
    BY <2>2 DEF IsHalf
<1>2. Hash!Half(b, bit) = half[m]
  BY DEF Hash!Half
<1>3. s \in Seq(Pair) /\ m \in Nat
  OBVIOUS
<1>. HIDE DEF Is, s, d, m
<1>4. Is(half)
  BY <1>1, Zenon
<1>. HIDE DEF half
<1>5. ASSUME NEW i \in 0 .. m
      PROVE  half[i] = IF i = 0 THEN <<>>
                       ELSE IF Hash!Bit(HashOf(s[i].key), d) = bit THEN Append(half[i - 1], s[i])
                       ELSE half[i - 1]
  BY <1>4 DEF Is, m
<1>. DEFINE Bad == {i \in 0 .. m : ~ HalfOK(half[i], s, i, d, bit)}
<1>6. Bad = {}
  <2>. SUFFICES ASSUME Bad # {} PROVE FALSE
    OBVIOUS
  <2>1. Bad \in SUBSET Nat
    OBVIOUS
  <2>. HIDE DEF Bad
  <2>2. PICK i \in Bad : \A j \in Bad : i <= j
    BY <2>1, LeastExists
  <2>. USE DEF Bad
  <2>3. HalfOK(<<>>, s, 0, d, bit)
    <3>1. <<>> \in Seq(Pair) /\ Len(<<>>) = 0 /\ DOMAIN <<>> = {} /\ 1 .. 0 = {}
      OBVIOUS
    <3>. QED
      BY <3>1 DEF HalfOK, HasKey, FirstValue
  <2>4. half[0] = <<>>
    BY <1>3, <1>5
  <2>5. i \in 0 .. m /\ i # 0
    BY <2>2, <2>3, <2>4
  <2>6. i - 1 \in 0 .. m /\ i - 1 \notin Bad /\ i \in 1 .. Len(s)
    BY <1>3, <2>2, <2>5 DEF m
  <2>7. HalfOK(half[i - 1], s, i - 1, d, bit)
    BY <2>6
  <2>8. half[i] = IF Hash!Bit(HashOf(s[i].key), d) = bit THEN Append(half[i - 1], s[i])
                  ELSE half[i - 1]
    BY <1>5, <2>5
  <2>. HIDE DEF Bad
  <2>9. HalfOK(half[i], s, i, d, bit)
    BY <1>3, <2>6, <2>7, <2>8, HalfNext
  <2>. QED
    BY <2>2, <2>9 DEF Bad
<1>7. HalfOK(half[m], s, m, d, bit)
  BY <1>3, <1>6
<1>. QED
  BY <1>2, <1>7 DEF s, d, m

-----------------------------------------------------------------------------
(* HashTable: the entries lead where the low bits say.                     *)

LEMMA HashOK == (\A k \in HashKeys : HashOf(k) \in Nat) /\ BucketSize \in Nat \ {0}
BY StructuresAssumption

Bucket == [localdepth : Nat, pairs : Seq(Pair)]

\* The entries that agree with h in the depth of its bucket, and no others,
\* lead to that bucket; its pairs agree with h as well.
SharedOut(g, dir, bs) ==
    \A h \in Hash!Entries(g) :
        LET d == bs[dir[h]].localdepth
        IN  /\ \A i \in Hash!Entries(g) : dir[i] = dir[h] <=> Hash!Low(i, d) = Hash!Low(h, d)
            /\ \A j \in DOMAIN bs[dir[h]].pairs :
                   Hash!Low(HashOf(bs[dir[h]].pairs[j].key), d) = Hash!Low(h, d)

\* Beside what DirectoryExact says, every bucket has an entry.
TableOK(g, dir, bs) ==
    /\ g \in Nat /\ bs \in Seq(Bucket)
    /\ dir \in [Hash!Entries(g) -> DOMAIN bs]
    /\ \A b \in DOMAIN bs : /\ bs[b].localdepth \in 1 .. g
                            /\ Len(bs[b].pairs) <= BucketSize
                            /\ \E h \in Hash!Entries(g) : dir[h] = b
    /\ SharedOut(g, dir, bs)

LEMMA TableParts ==
    ASSUME NEW g, NEW dir, NEW bs, TableOK(g, dir, bs)
    PROVE  /\ g \in Nat /\ \A h \in Hash!Entries(g) : h \in Nat /\ dir[h] \in DOMAIN bs
           /\ \A b \in DOMAIN bs :
                /\ bs[b] \in Bucket /\ bs[b].localdepth \in 1 .. g /\ bs[b].localdepth \in Nat
                /\ bs[b].pairs \in Seq(Pair) /\ Len(bs[b].pairs) <= BucketSize
                /\ \E h \in Hash!Entries(g) : dir[h] = b
<1>1. \A b \in DOMAIN bs : bs[b] \in Bucket
  BY DEF TableOK
<1>2. \A h \in Hash!Entries(g) : h \in Nat
  BY PowersOfTwo DEF Hash!Entries, TableOK
<1>. QED
  BY <1>1, <1>2 DEF TableOK, Bucket

\* the pairs hashtable_get looks at
Look(g, dir, bs, k) == bs[dir[Hash!Low(HashOf(k), g)]].pairs

\* Every key is found with the same value here and there.
SameFirst(s, t) ==
    \A k \in HashKeys :
        /\ HasKey(s[k], Len(s[k]), k) <=> HasKey(t[k], Len(t[k]), k)
        /\ \A u : FirstValue(s[k], Len(s[k]), k, u) <=> FirstValue(t[k], Len(t[k]), k, u)

LooksOf(g, dir, bs) == [k \in HashKeys |-> Look(g, dir, bs, k)]

\* the directory doubled, with the bucket to be split in both places
Wide(g, dir) == [h \in Hash!Entries(g + 1) |-> dir[Hash!Low(h, g)]]

LEMMA WideOK ==
    ASSUME NEW g, NEW dir, NEW bs, TableOK(g, dir, bs)
    PROVE  /\ TableOK(g + 1, Wide(g, dir), bs)
           /\ LooksOf(g + 1, Wide(g, dir), bs) = LooksOf(g, dir, bs)
<1>. DEFINE E == Hash!Entries(g)
            F == Hash!Entries(g + 1)
            wide == Wide(g, dir)
<1>1. /\ g \in Nat /\ \A h \in E : h \in Nat /\ dir[h] \in DOMAIN bs
      /\ \A b \in DOMAIN bs : bs[b].localdepth \in 1 .. g /\ \E h \in E : dir[h] = b
  BY TableParts
<1>2. \A h \in F : h \in Nat /\ Hash!Low(h, g) \in E
  <2>1. \A h \in F : h \in Nat
    BY <1>1, PowersOfTwo DEF Hash!Entries
  <2>. QED
    BY <1>1, <2>1, LowIsEntry
<1>3. \A h \in F : wide[h] = dir[Hash!Low(h, g)]
  BY DEF Wide
<1>4. wide \in [F -> DOMAIN bs]
  BY <1>1, <1>2 DEF Wide
<1>5. \A h \in E : h \in F /\ Hash!Low(h, g) = h
  BY <1>1, EntriesGrow, LowOfEntry
<1>. HIDE DEF E, F, wide
<1>6. ASSUME NEW h \in F
      PROVE  LET d == bs[wide[h]].localdepth
             IN  /\ \A i \in F : wide[i] = wide[h] <=> Hash!Low(i, d) = Hash!Low(h, d)
                 /\ \A j \in DOMAIN bs[wide[h]].pairs :
                        Hash!Low(HashOf(bs[wide[h]].pairs[j].key), d) = Hash!Low(h, d)
  <2>. DEFINE d == bs[wide[h]].localdepth
              x == Hash!Low(h, g)
  <2>1. x \in E /\ wide[h] = dir[x] /\ wide[h] \in DOMAIN bs
    BY <1>1, <1>2, <1>3
  <2>2. d \in 1 .. g /\ d \in 0 .. g
    BY <1>1, <2>1
  <2>3. Hash!Low(x, d) = Hash!Low(h, d)
    BY <1>1, <1>2, <2>2, LowOfLow
  <2>4. /\ \A i \in E : dir[i] = dir[x] <=> Hash!Low(i, d) = Hash!Low(x, d)
        /\ \A j \in DOMAIN bs[dir[x]].pairs :
               Hash!Low(HashOf(bs[dir[x]].pairs[j].key), d) = Hash!Low(x, d)
    BY <2>1 DEF TableOK, SharedOut, E
  <2>. HIDE DEF d, x
  <2>5. ASSUME NEW i \in F PROVE wide[i] = wide[h] <=> Hash!Low(i, d) = Hash!Low(h, d)
    <3>1. Hash!Low(i, g) \in E /\ wide[i] = dir[Hash!Low(i, g)]
      BY <1>2, <1>3
    <3>2. Hash!Low(Hash!Low(i, g), d) = Hash!Low(i, d)
      BY <1>1, <1>2, <2>2, LowOfLow
    <3>. QED
      BY <2>1, <2>3, <2>4, <3>1, <3>2
  <2>6. ASSUME NEW j \in DOMAIN bs[wide[h]].pairs
        PROVE  Hash!Low(HashOf(bs[wide[h]].pairs[j].key), d) = Hash!Low(h, d)
    BY <2>1, <2>3, <2>4
  <2>. QED
    BY <2>5, <2>6 DEF d
<1>7. SharedOut(g + 1, wide, bs)
  BY <1>6 DEF SharedOut, F
<1>8. TableOK(g + 1, wide, bs)
  <2>1. ASSUME NEW b \in DOMAIN bs PROVE bs[b].localdepth \in 1 .. g + 1 /\ \E h \in F : wide[h] = b
    BY <1>1, <1>3, <1>5
  <2>. QED
    BY <1>1, <1>4, <1>7, <2>1 DEF TableOK, F
<1>9. ASSUME NEW k \in HashKeys PROVE Look(g + 1, wide, bs, k) = Look(g, dir, bs, k)
  <2>1. HashOf(k) \in Nat /\ g + 1 \in Nat /\ g \in 0 .. g + 1
    BY <1>1, HashOK
  <2>2. Hash!Low(HashOf(k), g + 1) \in F
    BY <2>1, LowIsEntry DEF F
  <2>3. Hash!Low(Hash!Low(HashOf(k), g + 1), g) = Hash!Low(HashOf(k), g)
    BY <2>1, LowOfLow
  <2>. QED
    BY <1>3, <2>2, <2>3 DEF Look
<1>. QED
  BY <1>8, <1>9 DEF wide, LooksOf

\* The last pair of a full bucket tells which entries lead to it.
LEMMA LastTells ==
    ASSUME NEW g, NEW dir, TableOK(g, dir, buckets), NEW b \in DOMAIN buckets, Hash!Full(b)
    PROVE  LET s    == buckets[b].pairs
               d    == buckets[b].localdepth
               last == HashOf(s[Len(s)].key)
           IN  /\ last \in Nat
               /\ \A h \in Hash!Entries(g) : dir[h] = b <=> Hash!Low(h, d) = Hash!Low(last, d)
               /\ \A j \in DOMAIN s : Hash!Low(HashOf(s[j].key), d) = Hash!Low(last, d)
<1>. DEFINE s == buckets[b].pairs
            d == buckets[b].localdepth
            last == HashOf(s[Len(s)].key)
<1>1. PICK h \in Hash!Entries(g) : dir[h] = b
  BY TableParts
<1>2. s \in Seq(Pair)
  BY TableParts
<1>3. Len(s) = BucketSize /\ Len(s) \in DOMAIN s
  BY <1>2, HashOK DEF Hash!Full
<1>4. last \in Nat
  <2>1. s[Len(s)] \in Pair
    BY <1>2, <1>3
  <2>. QED
    BY <2>1, HashOK DEF Pair
<1>5. /\ \A i \in Hash!Entries(g) : dir[i] = b <=> Hash!Low(i, d) = Hash!Low(h, d)
      /\ \A j \in DOMAIN s : Hash!Low(HashOf(s[j].key), d) = Hash!Low(h, d)
  BY <1>1 DEF TableOK, SharedOut
<1>. QED
  BY <1>3, <1>4, <1>5

\* A full bucket that is not as deep as the directory is split in two.
LEMMA SplitOK ==
    ASSUME NEW g, NEW dir, TableOK(g, dir, buckets),
           NEW b \in DOMAIN buckets, Hash!Full(b), buckets[b].localdepth < g
    PROVE  /\ TableOK(g, Hash!SplitDirectory(dir, g, b), Hash!SplitBuckets(b))
           /\ SameFirst(LooksOf(g, dir, buckets),
                        LooksOf(g, Hash!SplitDirectory(dir, g, b), Hash!SplitBuckets(b)))
<1>. DEFINE E == Hash!Entries(g)
            s == buckets[b].pairs
            d == buckets[b].localdepth
            m == Len(buckets)
            low == Hash!Low(HashOf(s[Len(s)].key), d)
            dir2 == Hash!SplitDirectory(dir, g, b)
            bs2 == Hash!SplitBuckets(b)
            Half(bit) == Hash!Half(b, bit)
<1>1. /\ g \in Nat /\ \A h \in E : h \in Nat /\ dir[h] \in DOMAIN buckets
      /\ \A c \in DOMAIN buckets :
            /\ buckets[c] \in Bucket /\ buckets[c].localdepth \in 1 .. g
            /\ buckets[c].localdepth \in Nat
            /\ Len(buckets[c].pairs) <= BucketSize /\ \E h \in E : dir[h] = c
      /\ s \in Seq(Pair)
  BY TableParts
<1>2. m \in Nat /\ DOMAIN buckets = 1 .. m /\ b \in 1 .. m
  BY DEF TableOK
<1>3. d \in Nat /\ d + 1 \in 1 .. g /\ d + 1 \in 0 .. g
  BY <1>1
<1>4. /\ bs2 \in Seq(Bucket) /\ DOMAIN bs2 = 1 .. m + 1
      /\ bs2[b] = [localdepth |-> d + 1, pairs |-> Half(0)]
      /\ bs2[m + 1] = [localdepth |-> d + 1, pairs |-> Half(1)]
      /\ \A c \in 1 .. m : c # b => bs2[c] = buckets[c]
  <2>. DEFINE x == [localdepth |-> d + 1, pairs |-> Half(0)]
              y == [localdepth |-> d + 1, pairs |-> Half(1)]
              t == [buckets EXCEPT ![b] = x]
  <2>1. Half(0) \in Seq(Pair) /\ Half(1) \in Seq(Pair)
    BY <1>1, HalvesOK DEF HalfOK
  <2>2. x \in Bucket /\ y \in Bucket
    BY <1>3, <2>1 DEF Bucket
  <2>3. buckets \in Seq(Bucket)
    BY DEF TableOK
  <2>. HIDE DEF x, y
  <2>4. t \in Seq(Bucket) /\ Len(t) = m /\ t[b] = x /\ \A c \in 1 .. m : c # b => t[c] = buckets[c]
    BY <1>2, <2>2, <2>3
  <2>. HIDE DEF t
  <2>5. bs2 = Append(t, y)
    BY DEF Hash!SplitBuckets, x, y, t
  <2>6. /\ Append(t, y) \in Seq(Bucket) /\ DOMAIN Append(t, y) = 1 .. m + 1
        /\ Append(t, y)[m + 1] = y /\ \A c \in 1 .. m : Append(t, y)[c] = t[c]
    BY <1>2, <2>2, <2>4
  <2>. QED
    BY <1>2, <2>4, <2>5, <2>6 DEF x, y
<1>5. \A bit \in {0, 1} :
          /\ Half(bit) \in Seq(Pair) /\ Len(Half(bit)) <= BucketSize
          /\ \A j \in DOMAIN Half(bit) : /\ \E l \in DOMAIN s : Half(bit)[j] = s[l]
                                         /\ Hash!Bit(HashOf(Half(bit)[j].key), d) = bit
          /\ \A k : Hash!Bit(HashOf(k), d) = bit =>
                 /\ HasKey(Half(bit), Len(Half(bit)), k) <=> HasKey(s, Len(s), k)
                 /\ \A u : FirstValue(Half(bit), Len(Half(bit)), k, u) <=> FirstValue(s, Len(s), k, u)
  <2>. SUFFICES ASSUME NEW bit \in {0, 1}
                PROVE  /\ Half(bit) \in Seq(Pair) /\ Len(Half(bit)) <= BucketSize
                       /\ HalfOK(Half(bit), s, Len(s), d, bit)
    BY DEF HalfOK
  <2>1. HalfOK(Half(bit), s, Len(s), d, bit)
    BY <1>1, HalvesOK
  <2>2. Len(s) = BucketSize
    BY DEF Hash!Full
  <2>. QED
    BY <2>1, <2>2 DEF HalfOK
<1>6. \A h \in E : dir2[h] = IF Hash!Low(h, d) # low THEN dir[h]
                             ELSE IF Hash!Bit(h, d) = 0 THEN b ELSE m + 1
  BY DEF Hash!SplitDirectory
<1>7. DOMAIN dir2 = E /\ dir2 = [h \in DOMAIN dir2 |-> dir2[h]]
  BY DEF Hash!SplitDirectory
<1>8. /\ \A h \in E : dir[h] = b <=> Hash!Low(h, d) = low
      /\ \A j \in DOMAIN s : Hash!Low(HashOf(s[j].key), d) = low
      /\ HashOf(s[Len(s)].key) \in Nat
  BY LastTells
<1>9. \A i \in E : Hash!Bit(i, d) \in {0, 1}
  BY <1>1, <1>3, LowNext
<1>. HIDE DEF E, s, d, m, low, dir2, bs2, Half
<1>10. ASSUME NEW h \in E
       PROVE  \/ /\ Hash!Low(h, d) # low /\ dir2[h] = dir[h]
                 /\ dir2[h] \in 1 .. m /\ dir2[h] # b /\ bs2[dir2[h]] = buckets[dir[h]]
              \/ /\ Hash!Low(h, d) = low /\ Hash!Bit(h, d) = 0 /\ dir2[h] = b
              \/ /\ Hash!Low(h, d) = low /\ Hash!Bit(h, d) = 1 /\ dir2[h] = m + 1
  BY <1>1, <1>2, <1>4, <1>6, <1>8, <1>9
<1>11. ASSUME NEW bit \in {0, 1}
       PROVE  \E h \in E : Hash!Low(h, d) = low /\ Hash!Bit(h, d) = bit
  <2>1. PICK x \in Hash!Entries(d + 1) : Hash!Low(x, d) = low /\ Hash!Bit(x, d) = bit
    BY <1>3, <1>8, WithBit DEF low
  <2>2. x \in E
    BY <1>1, <1>3, EntriesGrow DEF E
  <2>. QED
    BY <2>1, <2>2
<1>12. ASSUME NEW c \in 1 .. m + 1
       PROVE  /\ bs2[c].localdepth \in 1 .. g /\ Len(bs2[c].pairs) <= BucketSize
              /\ \E h \in E : dir2[h] = c
  <2>1. CASE c = b
    <3>1. PICK h \in E : Hash!Low(h, d) = low /\ Hash!Bit(h, d) = 0
      BY <1>11
    <3>. QED
      BY <1>3, <1>4, <1>5, <1>6, <2>1, <3>1
  <2>2. CASE c = m + 1
    <3>1. PICK h \in E : Hash!Low(h, d) = low /\ Hash!Bit(h, d) = 1
      BY <1>11
    <3>. QED
      BY <1>3, <1>4, <1>5, <1>6, <2>2, <3>1
  <2>3. CASE c \in 1 .. m /\ c # b
    <3>1. PICK h \in E : dir[h] = c
      BY <1>1, <1>2, <2>3
    <3>2. dir2[h] = c
      BY <1>6, <1>8, <2>3, <3>1
    <3>. QED
      BY <1>1, <1>2, <1>4, <2>3, <3>2
  <2>4. c \in 1 .. m \/ c = m + 1
    BY <1>2
  <2>. QED
    BY <2>1, <2>2, <2>3, <2>4
<1>13. ASSUME NEW h \in E
       PROVE  LET e == bs2[dir2[h]].localdepth
              IN  /\ \A i \in E : dir2[i] = dir2[h] <=> Hash!Low(i, e) = Hash!Low(h, e)
                  /\ \A j \in DOMAIN bs2[dir2[h]].pairs :
                         Hash!Low(HashOf(bs2[dir2[h]].pairs[j].key), e) = Hash!Low(h, e)
  <2>1. CASE Hash!Low(h, d) # low
    <3>. DEFINE c == dir[h]
                e == buckets[c].localdepth
    <3>1. dir2[h] = c /\ c \in 1 .. m /\ c # b /\ bs2[c] = buckets[c]
      BY <1>10, <2>1
    <3>2. /\ \A i \in E : dir[i] = c <=> Hash!Low(i, e) = Hash!Low(h, e)
          /\ \A j \in DOMAIN buckets[c].pairs :
                 Hash!Low(HashOf(buckets[c].pairs[j].key), e) = Hash!Low(h, e)
      BY DEF TableOK, SharedOut, E
    <3>. HIDE DEF c, e
    <3>3. ASSUME NEW i \in E PROVE dir2[i] = c <=> dir[i] = c
      <4>1. CASE Hash!Low(i, d) = low
        BY <1>2, <1>8, <1>10, <3>1, <4>1
      <4>2. CASE Hash!Low(i, d) # low
        BY <1>10, <4>2
      <4>. QED
        BY <4>1, <4>2
    <3>. QED
      BY <3>1, <3>2, <3>3 DEF e
  <2>2. CASE Hash!Low(h, d) = low
    <3>. DEFINE bit == Hash!Bit(h, d)
    <3>1. /\ bit \in {0, 1} /\ dir2[h] = (IF bit = 0 THEN b ELSE m + 1)
          /\ bs2[dir2[h]] = [localdepth |-> d + 1, pairs |-> Half(bit)]
      BY <1>4, <1>9, <1>10, <2>2
    <3>2. ASSUME NEW i \in Nat
          PROVE  Hash!Low(i, d + 1) = Hash!Low(h, d + 1)
                 <=> Hash!Low(i, d) = low /\ Hash!Bit(i, d) = bit
      <4>1. h \in Nat /\ d \in Nat
        BY <1>1, <1>3
      <4>. QED
        BY ONLY <2>2, <4>1, i \in Nat, LowAgree, Zenon
    <3>. HIDE DEF bit
    <3>3. ASSUME NEW i \in E
          PROVE  dir2[i] = dir2[h] <=> Hash!Low(i, d) = low /\ Hash!Bit(i, d) = bit
      <4>1. b # m + 1
        BY <1>2
      <4>2. CASE Hash!Low(i, d) = low
        BY <1>9, <1>10, <3>1, <4>1, <4>2
      <4>3. CASE Hash!Low(i, d) # low
        BY <1>2, <1>10, <3>1, <4>3
      <4>. QED
        BY <4>2, <4>3
    <3>4. \A i \in E : dir2[i] = dir2[h] <=> Hash!Low(i, d + 1) = Hash!Low(h, d + 1)
      BY <1>1, <3>2, <3>3
    <3>5. ASSUME NEW j \in DOMAIN Half(bit)
          PROVE  Hash!Low(HashOf(Half(bit)[j].key), d + 1) = Hash!Low(h, d + 1)
      <4>1. PICK l \in DOMAIN s : Half(bit)[j] = s[l]
        BY <1>5, <3>1
      <4>2. s[l] \in Pair
        BY <1>1
      <4>3. HashOf(s[l].key) \in Nat
        BY <4>2, HashOK DEF Pair
      <4>4. Hash!Low(HashOf(s[l].key), d) = low /\ Hash!Bit(HashOf(s[l].key), d) = bit
        BY <1>5, <1>8, <3>1, <4>1
      <4>. QED
        BY <3>2, <4>1, <4>3, <4>4
    <3>6. bs2[dir2[h]].localdepth = d + 1 /\ bs2[dir2[h]].pairs = Half(bit)
      BY <3>1
    <3>. QED
      BY <3>4, <3>5, <3>6
  <2>. QED
    BY <2>1, <2>2
<1>14. SharedOut(g, dir2, bs2)
  BY <1>13 DEF SharedOut, E
<1>15. TableOK(g, dir2, bs2)
  <2>1. \A h \in E : dir2[h] \in 1 .. m + 1
    BY <1>2, <1>10
  <2>2. dir2 \in [E -> DOMAIN bs2]
    BY <1>4, <1>7, <2>1
  <2>. QED
    BY <1>1, <1>4, <1>12, <1>14, <2>2 DEF TableOK, E
<1>16. ASSUME NEW k \in HashKeys
       PROVE  LET t == Look(g, dir, buckets, k)
                  v == Look(g, dir2, bs2, k)
              IN  /\ HasKey(t, Len(t), k) <=> HasKey(v, Len(v), k)
                  /\ \A u : FirstValue(t, Len(t), k, u) <=> FirstValue(v, Len(v), k, u)
  <2>. DEFINE x == Hash!Low(HashOf(k), g)
              bit == Hash!Bit(HashOf(k), d)
  <2>1. HashOf(k) \in Nat
    BY HashOK
  <2>2. x \in E /\ x \in Nat
    BY <1>1, <2>1, LowIsEntry DEF E
  <2>3. Hash!Low(x, d + 1) = Hash!Low(HashOf(k), d + 1)
    BY <1>1, <1>3, <2>1, LowOfLow
  <2>4. Hash!Low(x, d) = Hash!Low(HashOf(k), d) /\ Hash!Bit(x, d) = bit /\ bit \in {0, 1}
    BY <1>3, <2>1, <2>2, <2>3, LowAgree, LowNext
  <2>5. Look(g, dir, buckets, k) = buckets[dir[x]].pairs /\ Look(g, dir2, bs2, k) = bs2[dir2[x]].pairs
    BY DEF Look
  <2>. HIDE DEF x, bit
  <2>6. CASE Hash!Low(x, d) # low
    BY <1>10, <2>2, <2>5, <2>6
  <2>7. CASE Hash!Low(x, d) = low
    <3>1. buckets[dir[x]].pairs = s
      BY <1>8, <2>2, <2>7 DEF s
    <3>2. bs2[dir2[x]].pairs = Half(bit)
      BY <1>4, <1>10, <2>2, <2>4, <2>7
    <3>. QED
      BY <1>5, <2>4, <2>5, <3>1, <3>2 DEF bit
  <2>. QED
    BY <2>6, <2>7
<1>17. SameFirst(LooksOf(g, dir, buckets), LooksOf(g, dir2, bs2))
  BY <1>16 DEF SameFirst, LooksOf
<1>. QED
  BY <1>15, <1>17 DEF dir2, bs2

\* Doubling leaves the entries of the bucket open; the split fills them in.
LEMMA DoublingSplits ==
    ASSUME TableOK(globaldepth, directory, buckets), NEW b \in DOMAIN buckets, Hash!Full(b)
    PROVE  Hash!SplitDirectory(Hash!Doubled(b), globaldepth + 1, b)
           = Hash!SplitDirectory(Wide(globaldepth, directory), globaldepth + 1, b)
<1>. DEFINE g == globaldepth
            wide == Wide(g, directory)
            d == buckets[b].localdepth
            s == buckets[b].pairs
            low == Hash!Low(HashOf(s[Len(s)].key), d)
<1>1. TableOK(g + 1, wide, buckets)
  BY WideOK
<1>. HIDE DEF wide
<1>2. \A h \in Hash!Entries(g + 1) : wide[h] = b <=> Hash!Low(h, d) = low
  BY <1>1, LastTells
<1>3. \A h \in Hash!Entries(g + 1) :
          Hash!Doubled(b)[h] = IF wide[h] = b THEN Hash!NoBucket ELSE wide[h]
  BY DEF Hash!Doubled, wide, Wide
<1>. HIDE DEF low, d, s
<1>4. \A h \in Hash!Entries(g + 1) : Hash!Low(h, d) # low => Hash!Doubled(b)[h] = wide[h]
  BY <1>2, <1>3
<1>. QED
  BY <1>4 DEF Hash!SplitDirectory, low, d, s, wide

\* After s every key is found as before, but k is found, with v if it is new.
NowHas(s, t, k, v) ==
    \A x \in HashKeys :
        /\ HasKey(t[x], Len(t[x]), x) <=> HasKey(s[x], Len(s[x]), x) \/ x = k
        /\ \A u : FirstValue(t[x], Len(t[x]), x, u)
                  <=> \/ FirstValue(s[x], Len(s[x]), x, u)
                      \/ x = k /\ ~HasKey(s[x], Len(s[x]), x) /\ u = v

LEMMA AddOK ==
    ASSUME NEW g, NEW dir, NEW bs, TableOK(g, dir, bs), NEW k \in HashKeys, NEW v \in Nat,
           NEW b, b = dir[Hash!Low(HashOf(k), g)], Len(bs[b].pairs) < BucketSize,
           NEW bs2, bs2 = [bs EXCEPT ![b].pairs = Append(@, [key |-> k, value |-> v])]
    PROVE  /\ TableOK(g, dir, bs2)
           /\ NowHas(LooksOf(g, dir, bs), LooksOf(g, dir, bs2), k, v)
<1>. DEFINE E == Hash!Entries(g)
            s == bs[b].pairs
            d == bs[b].localdepth
            x == [key |-> k, value |-> v]
            t == Append(s, x)
<1>1. /\ g \in Nat /\ \A h \in E : h \in Nat /\ dir[h] \in DOMAIN bs
      /\ \A c \in DOMAIN bs : /\ bs[c] \in Bucket /\ bs[c].localdepth \in 1 .. g
                              /\ bs[c].pairs \in Seq(Pair) /\ Len(bs[c].pairs) <= BucketSize
                              /\ \E h \in E : dir[h] = c
  BY TableParts
<1>2. \A y \in HashKeys : HashOf(y) \in Nat /\ Hash!Low(HashOf(y), g) \in E
  BY <1>1, HashOK, LowIsEntry
<1>3. b \in DOMAIN bs /\ s \in Seq(Pair) /\ d \in 1 .. g
  BY <1>1, <1>2
<1>4. x \in Pair /\ x.key = k /\ x.value = v
  BY DEF Pair
<1>5. /\ t \in Seq(Pair) /\ Len(t) = Len(s) + 1 /\ Len(t) <= BucketSize
      /\ DOMAIN t = 1 .. Len(s) + 1 /\ DOMAIN s = 1 .. Len(s) /\ Len(s) \in Nat
      /\ t[Len(s) + 1] = x /\ \A j \in DOMAIN s : t[j] = s[j]
  <2>. HIDE DEF x
  <2>1. t \in Seq(Pair) /\ Len(t) = Len(s) + 1 /\ Len(s) \in Nat
        /\ DOMAIN t = 1 .. Len(s) + 1 /\ DOMAIN s = 1 .. Len(s)
        /\ t[Len(s) + 1] = x /\ \A j \in DOMAIN s : t[j] = s[j]
    BY <1>3, <1>4
  <2>. QED
    BY <2>1, HashOK
<1>6. /\ bs2 \in Seq(Bucket) /\ DOMAIN bs2 = DOMAIN bs
      /\ bs2[b].localdepth = d /\ bs2[b].pairs = t
      /\ \A c \in DOMAIN bs : c # b => bs2[c] = bs[c]
  <2>. DEFINE r == [bs[b] EXCEPT !.pairs = t]
  <2>. HIDE DEF t
  <2>1. bs \in Seq(Bucket) /\ bs[b] \in Bucket
    BY <1>1, <1>3 DEF TableOK
  <2>2. r \in Bucket /\ r.localdepth = d /\ r.pairs = t
    BY <1>5, <2>1 DEF Bucket
  <2>3. bs2 = [bs EXCEPT ![b] = r]
    BY <1>3 DEF t
  <2>. HIDE DEF r
  <2>. QED
    BY <1>3, <2>1, <2>2, <2>3
<1>. HIDE DEF E, s, d, t, x
<1>7. /\ \A i \in E : dir[i] = b <=> Hash!Low(i, d) = Hash!Low(Hash!Low(HashOf(k), g), d)
      /\ Hash!Low(Hash!Low(HashOf(k), g), d) = Hash!Low(HashOf(k), d)
  <2>1. d \in 0 .. g
    BY <1>1, <1>3
  <2>2. Hash!Low(Hash!Low(HashOf(k), g), d) = Hash!Low(HashOf(k), d)
    BY <1>1, <1>2, <2>1, LowOfLow
  <2>. QED
    BY <1>2, <2>2 DEF TableOK, SharedOut, E, d
<1>8. ASSUME NEW h \in E
      PROVE  LET e == bs2[dir[h]].localdepth
             IN  /\ \A i \in E : dir[i] = dir[h] <=> Hash!Low(i, e) = Hash!Low(h, e)
                 /\ \A j \in DOMAIN bs2[dir[h]].pairs :
                        Hash!Low(HashOf(bs2[dir[h]].pairs[j].key), e) = Hash!Low(h, e)
  <2>1. LET e == bs[dir[h]].localdepth
        IN  /\ \A i \in E : dir[i] = dir[h] <=> Hash!Low(i, e) = Hash!Low(h, e)
            /\ \A j \in DOMAIN bs[dir[h]].pairs :
                   Hash!Low(HashOf(bs[dir[h]].pairs[j].key), e) = Hash!Low(h, e)
    BY DEF TableOK, SharedOut, E
  <2>2. CASE dir[h] # b
    BY <1>1, <1>6, <2>1, <2>2
  <2>3. CASE dir[h] = b
    <3>1. /\ \A i \in E : dir[i] = b <=> Hash!Low(i, d) = Hash!Low(h, d)
          /\ \A j \in DOMAIN s : Hash!Low(HashOf(s[j].key), d) = Hash!Low(h, d)
      BY <2>1, <2>3 DEF d, s
    <3>2. Hash!Low(HashOf(k), d) = Hash!Low(h, d)
      BY <1>7, <2>3
    <3>3. ASSUME NEW j \in DOMAIN t PROVE Hash!Low(HashOf(t[j].key), d) = Hash!Low(h, d)
      <4>1. j \in DOMAIN s \/ j = Len(s) + 1
        BY <1>5
      <4>. QED
        BY <1>4, <1>5, <3>1, <3>2, <4>1
    <3>. QED
      BY <1>6, <2>3, <3>1, <3>3
  <2>. QED
    BY <2>2, <2>3
<1>9. SharedOut(g, dir, bs2)
  BY <1>8 DEF SharedOut, E
<1>10. TableOK(g, dir, bs2)
  <2>1. ASSUME NEW c \in DOMAIN bs2
        PROVE  /\ bs2[c].localdepth \in 1 .. g /\ Len(bs2[c].pairs) <= BucketSize
               /\ \E h \in E : dir[h] = c
    BY <1>1, <1>3, <1>5, <1>6
  <2>2. dir \in [E -> DOMAIN bs2]
    BY <1>6 DEF TableOK, E
  <2>. QED
    BY <1>1, <1>6, <1>9, <2>1, <2>2 DEF TableOK, E
<1>11. ASSUME NEW y \in HashKeys
       PROVE  LET p1 == Look(g, dir, bs, y)
                  p2 == Look(g, dir, bs2, y)
              IN  /\ HasKey(p2, Len(p2), y) <=> HasKey(p1, Len(p1), y) \/ y = k
                  /\ \A u : FirstValue(p2, Len(p2), y, u)
                            <=> \/ FirstValue(p1, Len(p1), y, u)
                                \/ y = k /\ ~HasKey(p1, Len(p1), y) /\ u = v
  <2>. DEFINE c == dir[Hash!Low(HashOf(y), g)]
  <2>1. c \in DOMAIN bs /\ Look(g, dir, bs, y) = bs[c].pairs /\ Look(g, dir, bs2, y) = bs2[c].pairs
    BY <1>1, <1>2 DEF Look
  <2>2. y = k => c = b
    OBVIOUS
  <2>. HIDE DEF c
  <2>3. CASE c = b
    <3>1. bs[c].pairs = s /\ bs2[c].pairs = t
      BY <1>6, <2>3 DEF s
    <3>2. HasKey(t, Len(t), y) <=> HasKey(s, Len(s), y) \/ y = k
      BY <1>3, <1>4, FirstOfMore DEF t
    <3>3. ASSUME NEW u
          PROVE  FirstValue(t, Len(t), y, u)
                 <=> \/ FirstValue(s, Len(s), y, u)
                     \/ y = k /\ ~HasKey(s, Len(s), y) /\ u = v
      BY <1>3, <1>4, FirstOfMore DEF t
    <3>. QED
      BY <2>1, <3>1, <3>2, <3>3
  <2>4. CASE c # b
    BY <1>6, <2>1, <2>2, <2>4
  <2>. QED
    BY <2>3, <2>4
<1>. QED
  BY <1>10, <1>11 DEF NowHas, LooksOf

\* hashtable_insert, as it returns and as its assertion stops it
LEMMA InsertOK ==
    ASSUME TableOK(globaldepth, directory, buckets), table = "open",
           NEW k \in HashKeys, NEW v \in Nat, Hash!Insert(k, v)
    PROVE  LET s == LooksOf(globaldepth, directory, buckets)
               t == LooksOf(globaldepth', directory', buckets')
           IN  /\ TableOK(globaldepth', directory', buckets')
               /\ \/ table' = "open" /\ NowHas(s, t, k, v)
                  \/ table' = "aborted" /\ SameFirst(s, t)
<1>. DEFINE b == Hash!Target(k)
            s == LooksOf(globaldepth, directory, buckets)
            g == IF buckets[b].localdepth = globaldepth THEN globaldepth + 1 ELSE globaldepth
            wide == IF g = globaldepth THEN directory ELSE Wide(globaldepth, directory)
            dir == Hash!SplitDirectory(IF g = globaldepth THEN directory ELSE Hash!Doubled(b), g, b)
            bs == Hash!SplitBuckets(b)
<1>1. HashOf(k) \in Nat /\ globaldepth \in Nat /\ b \in DOMAIN buckets
  <2>1. HashOf(k) \in Nat /\ globaldepth \in Nat
    BY HashOK, TableParts
  <2>. QED
    BY <2>1, LowIsEntry, TableParts DEF Hash!Target
<1>2. b = directory[Hash!Low(HashOf(k), globaldepth)]
  BY DEF Hash!Target
<1>3. CASE /\ ~ Hash!Full(b) /\ Hash!InsertTail(buckets, b, k, v)
           /\ UNCHANGED <<globaldepth, directory>>
  <2>1. Len(buckets[b].pairs) < BucketSize
    <3>1. Len(buckets[b].pairs) <= BucketSize /\ Len(buckets[b].pairs) \in Nat
      BY <1>1, TableParts
    <3>. QED
      BY <1>3, <3>1, HashOK DEF Hash!Full
  <2>2. /\ buckets' = [buckets EXCEPT ![b].pairs = Append(@, [key |-> k, value |-> v])]
        /\ table' = table
    BY <1>3, <2>1 DEF Hash!InsertTail
  <2>. HIDE DEF b, s
  <2>3. TableOK(globaldepth, directory, buckets') /\ NowHas(s, LooksOf(globaldepth, directory, buckets'), k, v)
    BY <1>2, <2>1, <2>2, AddOK DEF s
  <2>4. globaldepth' = globaldepth /\ directory' = directory
    BY <1>3
  <2>. QED
    BY <2>2, <2>3, <2>4 DEF s
<1>4. CASE /\ Hash!Full(b) /\ globaldepth' = g /\ directory' = dir
           /\ Hash!InsertTail(bs, dir[Hash!Low(HashOf(k), g)], k, v)
  <2>1. buckets[b].localdepth \in 1 .. globaldepth
    BY <1>1, TableParts
  <2>2. buckets[b].localdepth < g /\ g \in {globaldepth, globaldepth + 1}
    <3>. DEFINE d == buckets[b].localdepth
    <3>1. CASE d = globaldepth
      BY <1>1, <3>1
    <3>2. CASE d # globaldepth
      <4>1. g = globaldepth
        BY <3>2
      <4>. HIDE DEF d, g
      <4>2. d < globaldepth
        BY <1>1, <2>1, <3>2 DEF d
      <4>. QED
        BY <4>1, <4>2 DEF d
    <3>. QED
      BY <3>1, <3>2
  <2>3. TableOK(g, wide, buckets) /\ LooksOf(g, wide, buckets) = s
    BY <1>1, <2>2, WideOK
  <2>4. dir = Hash!SplitDirectory(wide, g, b)
    BY <1>1, <1>4, <2>2, DoublingSplits
  <2>0. Hash!Full(b) /\ bs = Hash!SplitBuckets(b)
    BY <1>4
  <2>. HIDE DEF b, g, wide, dir, bs, s
  <2>5. TableOK(g, dir, bs) /\ SameFirst(s, LooksOf(g, dir, bs))
    <3>1. /\ TableOK(g, Hash!SplitDirectory(wide, g, b), Hash!SplitBuckets(b))
          /\ SameFirst(LooksOf(g, wide, buckets),
                       LooksOf(g, Hash!SplitDirectory(wide, g, b), Hash!SplitBuckets(b)))
      BY <1>1, <2>0, <2>2, <2>3, SplitOK
    <3>. QED
      BY <2>0, <2>3, <2>4, <3>1
  <2>. DEFINE c == dir[Hash!Low(HashOf(k), g)]
              bs2 == [bs EXCEPT ![c].pairs = Append(@, [key |-> k, value |-> v])]
  <2>6. CASE Len(bs[c].pairs) < BucketSize
    <3>1. buckets' = bs2 /\ table' = table
      BY <1>4, <2>6 DEF Hash!InsertTail
    <3>2. TableOK(g, dir, bs2) /\ NowHas(LooksOf(g, dir, bs), LooksOf(g, dir, bs2), k, v)
      BY <2>5, <2>6, AddOK
    <3>. HIDE DEF bs2
    <3>3. NowHas(s, LooksOf(g, dir, bs2), k, v)
      BY <2>5, <3>2 DEF NowHas, SameFirst
    <3>. QED
      BY <1>4, <3>1, <3>2, <3>3 DEF s
  <2>7. CASE ~ (Len(bs[c].pairs) < BucketSize)
    <3>1. buckets' = bs /\ table' = "aborted"
      BY <1>4, <2>7 DEF Hash!InsertTail
    <3>. QED
      BY <1>4, <2>5, <3>1 DEF s
  <2>. QED
    BY <2>6, <2>7
<1>. QED
  BY <1>3, <1>4 DEF Hash!Insert

-----------------------------------------------------------------------------
(* HashTable: the table over its whole life.                               *)

Gone == {b \in DOMAIN buckets : Hash!Freed(b)}

\* hashtable_free has freed one bucket for each of the m entries it took off,
\* and what is not freed still has an entry.
FreeingOK ==
    /\ globaldepth \in Nat /\ buckets \in Seq(Bucket)
    /\ \E m \in 0 .. Hash!Pow2(globaldepth) :
           /\ directory \in [m .. Hash!Pow2(globaldepth) - 1 -> DOMAIN buckets]
           /\ Cardinality(Gone) = m
    /\ \A b \in DOMAIN buckets \ Gone : \E h \in DOMAIN directory : directory[h] = b

HashInv ==
    /\ table \in {"open", "aborted", "freeing", "freed", "overfreed"}
    /\ Hash!Usable => TableOK(globaldepth, directory, buckets)
    /\ table = "freeing" => FreeingOK
    /\ Hash!FreesExactly

LEMMA InitHashInv == Hash!Init => HashInv
<1>. SUFFICES ASSUME Hash!Init PROVE HashInv
  OBVIOUS
<1>. DEFINE new == [localdepth |-> 1, pairs |-> <<>>]
<1>1. Hash!Pow2(0) = 1 /\ Hash!Pow2(1) = 2
  <2>1. Hash!Pow2(0) = 1 /\ Hash!Pow2(0 + 1) = 2 * Hash!Pow2(0)
    BY PowersOfTwo
  <2>. QED
    BY <2>1
<1>2. Hash!Entries(1) = {0, 1} /\ \A h \in {0, 1} : Hash!Low(h, 1) = h
  <2>1. Hash!Entries(1) = 0 .. 1
    BY <1>1 DEF Hash!Entries
  <2>. QED
    BY <2>1, LowOfEntry
<1>3. /\ globaldepth = 1 /\ directory = [h \in {0, 1} |-> h + 1]
      /\ buckets = <<new, new>> /\ table = "open"
  BY <1>2 DEF Hash!Init, Hash!NewBucket
<1>4. new \in Bucket /\ new.localdepth = 1 /\ new.pairs = <<>>
  <2>1. <<>> \in Seq(Pair)
    OBVIOUS
  <2>. QED
    BY <2>1 DEF Bucket
<1>. HIDE DEF new
<1>5. buckets \in Seq(Bucket) /\ DOMAIN buckets = {1, 2} /\ \A c \in {1, 2} : buckets[c] = new
  <2>. DEFINE two == <<new, new>>
  <2>1. two \in Seq(Bucket) /\ Len(two) = 2 /\ two[1] = new /\ two[2] = new
    BY <1>4
  <2>2. DOMAIN two = {1, 2}
    OBVIOUS
  <2>3. buckets = two
    BY <1>3
  <2>. HIDE DEF two
  <2>. QED
    BY <2>1, <2>2, <2>3
<1>6. directory \in [{0, 1} -> {1, 2}] /\ directory[0] = 1 /\ directory[1] = 2
  <2>. DEFINE f == [h \in {0, 1} |-> h + 1]
  <2>1. f[0] = 1 /\ f[1] = 2 /\ f \in [{0, 1} -> {1, 2}]
    OBVIOUS
  <2>2. directory = f
    BY <1>3
  <2>. QED
    BY <2>1, <2>2
<1>7. DOMAIN <<>> = {} /\ Len(<<>>) = 0 /\ 0 <= BucketSize
  BY HashOK
<1>8. SharedOut(1, directory, buckets)
  <2>1. ASSUME NEW h \in {0, 1}
        PROVE  /\ buckets[directory[h]].localdepth = 1 /\ buckets[directory[h]].pairs = <<>>
               /\ \A i \in {0, 1} : directory[i] = directory[h] <=> Hash!Low(i, 1) = Hash!Low(h, 1)
    BY <1>2, <1>4, <1>5, <1>6
  <2>. QED
    BY <1>2, <1>7, <2>1 DEF SharedOut
<1>9. TableOK(1, directory, buckets)
  BY <1>2, <1>4, <1>5, <1>6, <1>7, <1>8 DEF TableOK
<1>. QED
  BY <1>3, <1>9 DEF HashInv, Hash!FreesExactly

\* The numbers of copies are numbers.
LEMMA CopiesCount ==
    ASSUME TableOK(globaldepth, directory, buckets), NEW k
    PROVE  Cardinality(Hash!Copies(k)) \in Nat
<1>. DEFINE S == (1 .. Len(buckets)) \X (1 .. BucketSize)
<1>1. Len(buckets) \in Nat /\ DOMAIN buckets = 1 .. Len(buckets) /\ BucketSize \in Nat
  BY HashOK DEF TableOK
<1>2. IsFiniteSet(S)
  <2>1. IsFiniteSet(1 .. Len(buckets)) /\ IsFiniteSet(1 .. BucketSize)
    BY <1>1, FS_Interval
  <2>. QED
    BY <2>1, FS_Product
<1>3. Hash!Copies(k) \subseteq S
  <2>. SUFFICES ASSUME NEW x \in Hash!Pairs PROVE x \in S
    BY DEF Hash!Copies
  <2>1. PICK b \in DOMAIN buckets : \E j \in DOMAIN buckets[b].pairs : x = <<b, j>>
    BY DEF Hash!Pairs
  <2>2. PICK j \in DOMAIN buckets[b].pairs : x = <<b, j>>
    BY <2>1
  <2>3. buckets[b].pairs \in Seq(Pair) /\ Len(buckets[b].pairs) <= BucketSize
    BY TableParts
  <2>4. j \in 1 .. BucketSize
    BY <1>1, <2>3
  <2>. QED
    BY <1>1, <2>2, <2>4
<1>. HIDE DEF S
<1>. QED
  BY <1>2, <1>3, FS_Subset, FS_CardinalityType

\* hashtable_free, one iteration
LEMMA FreeEntryOK ==
    ASSUME HashInv, Hash!FreeEntry
    PROVE  HashInv'
<1>. DEFINE top == Hash!Pow2(globaldepth)
            i == CHOOSE i \in DOMAIN directory : \A j \in DOMAIN directory : i <= j
            b == directory[i]
            U == DOMAIN buckets \ Gone
<1>1. FreeingOK /\ table = "freeing"
  BY DEF HashInv, Hash!FreeEntry
<1>2. top \in Nat /\ globaldepth \in Nat
  BY <1>1, PowersOfTwo DEF FreeingOK
<1>. HIDE DEF top
<1>3. PICK m \in 0 .. top :
          directory \in [m .. top - 1 -> DOMAIN buckets] /\ Cardinality(Gone) = m
  BY <1>1 DEF FreeingOK, top
<1>4. DOMAIN directory = m .. top - 1 /\ m \in m .. top - 1 /\ m < top
  BY <1>2, <1>3 DEF Hash!FreeEntry
<1>5. i = m
  <2>1. m \in DOMAIN directory /\ \A j \in DOMAIN directory : m <= j
    BY <1>2, <1>4
  <2>2. i \in DOMAIN directory /\ \A j \in DOMAIN directory : i <= j
    BY <2>1, Zenon
  <2>. HIDE DEF i
  <2>. QED
    BY <1>2, <1>4, <2>1, <2>2
<1>6. /\ directory' = [h \in DOMAIN directory \ {i} |-> directory[h]]
      /\ table' = (IF Hash!Freed(b) THEN "overfreed" ELSE table)
      /\ buckets' = [buckets EXCEPT ![b] = Hash!NewBucket(0)]
      /\ globaldepth' = globaldepth
  BY DEF Hash!FreeEntry
<1>. HIDE DEF i
<1>7. directory' = [h \in m + 1 .. top - 1 |-> directory[h]]
  <2>1. (m .. top - 1) \ {m} = m + 1 .. top - 1
    BY <1>2, <1>4
  <2>. QED
    BY <1>4, <1>5, <1>6, <2>1
<1>8. b \in DOMAIN buckets /\ b = directory[m]
  BY <1>3, <1>4, <1>5
<1>9. /\ buckets' \in Seq(Bucket) /\ DOMAIN buckets' = DOMAIN buckets
      /\ Len(buckets') = Len(buckets)
      /\ buckets'[b].localdepth = 0 /\ \A c \in DOMAIN buckets : c # b => buckets'[c] = buckets[c]
  <2>. DEFINE new == [localdepth |-> 0, pairs |-> <<>>]
  <2>1. new \in Bucket /\ new.localdepth = 0
    <3>1. <<>> \in Seq(Pair)
      OBVIOUS
    <3>. QED
      BY <3>1 DEF Bucket
  <2>2. buckets \in Seq(Bucket)
    BY <1>1 DEF FreeingOK
  <2>3. buckets' = [buckets EXCEPT ![b] = new]
    BY <1>6 DEF Hash!NewBucket
  <2>. HIDE DEF new, b
  <2>. QED
    BY <1>8, <2>1, <2>2, <2>3
<1>10. \A c : c \in Gone <=> c \in DOMAIN buckets /\ buckets[c].localdepth = 0
  BY DEF Gone, Hash!Freed
<1>11. \A c : c \in Gone' <=> c \in DOMAIN buckets' /\ buckets'[c].localdepth = 0
  BY DEF Gone, Hash!Freed
<1>. HIDE DEF b
<1>12. IsFiniteSet(DOMAIN buckets) /\ Cardinality(DOMAIN buckets) = Len(buckets)
       /\ Len(buckets) \in Nat
  <2>1. Len(buckets) \in Nat /\ DOMAIN buckets = 1 .. Len(buckets)
    BY <1>1 DEF FreeingOK
  <2>2. \A k \in Nat : IsFiniteSet(1 .. k) /\ Cardinality(1 .. k) = k
    <3>. SUFFICES ASSUME NEW k \in Nat PROVE IsFiniteSet(1 .. k) /\ Cardinality(1 .. k) = k
      OBVIOUS
    <3>1. IsFiniteSet(1 .. k) /\ Cardinality(1 .. k) = IF 1 > k THEN 0 ELSE k - 1 + 1
      BY FS_Interval
    <3>. QED
      BY <3>1
  <2>. QED
    BY <2>1, <2>2
<1>13. Gone \subseteq DOMAIN buckets /\ IsFiniteSet(Gone)
  BY <1>10, <1>12, FS_Subset
<1>14. CASE b \in Gone
  <2>1. Gone' = Gone
    BY <1>8, <1>9, <1>10, <1>11, <1>14
  <2>. DEFINE V == m + 1 .. top - 1
              f == [h \in {h \in V : directory[h] \in U} |-> directory[h]]
  <2>2. \A c \in U : \E h \in V : directory[h] = c
    <3>1. ASSUME NEW c \in U PROVE \E h \in V : directory[h] = c
      <4>1. PICK h \in DOMAIN directory : directory[h] = c
        BY <1>1 DEF FreeingOK
      <4>2. h # m
        BY <1>8, <1>14, <4>1
      <4>3. h \in V
        BY <1>2, <1>4, <4>2
      <4>. QED
        BY <4>1, <4>3
    <3>. QED
      BY <3>1
  <2>3. IsFiniteSet(V) /\ Cardinality(V) = top - 1 - m
    <3>1. m + 1 \in Int /\ top - 1 \in Int
      BY <1>2, <1>3
    <3>2. IsFiniteSet(V) /\ Cardinality(V) = IF m + 1 > top - 1 THEN 0 ELSE top - 1 - (m + 1) + 1
      BY <3>1, FS_Interval
    <3>. QED
      BY <1>2, <1>4, <3>2
  <2>. HIDE DEF V, U
  <2>4. f \in Surjection(DOMAIN f, U)
    <3>1. f \in [DOMAIN f -> U]
      OBVIOUS
    <3>2. \A c \in U : \E h \in DOMAIN f : f[h] = c
      BY <2>2
    <3>. QED
      BY <3>1, <3>2 DEF Surjection
  <2>5. DOMAIN f \subseteq V
    OBVIOUS
  <2>6. IsFiniteSet(DOMAIN f) /\ Cardinality(DOMAIN f) <= top - 1 - m
    BY <2>3, <2>5, FS_Subset
  <2>. HIDE DEF f
  <2>7. Cardinality(U) <= Cardinality(DOMAIN f)
    BY <2>4, <2>6, FS_Surjection
  <2>8. IsFiniteSet(U) /\ Cardinality(DOMAIN buckets) = Cardinality(Gone) + Cardinality(U)
    <3>1. IsFiniteSet(U) /\ Cardinality(U) = Cardinality(DOMAIN buckets) - Cardinality(DOMAIN buckets \cap Gone)
      BY <1>12, FS_Difference DEF U
    <3>2. DOMAIN buckets \cap Gone = Gone
      BY <1>13
    <3>3. Cardinality(Gone) \in Nat /\ Cardinality(DOMAIN buckets) \in Nat
      BY <1>12, <1>13, FS_CardinalityType
    <3>4. Cardinality(U) = Cardinality(DOMAIN buckets) - Cardinality(Gone)
      BY <3>1, <3>2, Zenon
    <3>. QED
      BY <3>1, <3>3, <3>4
  <2>9. Cardinality(U) \in Nat /\ Cardinality(DOMAIN f) \in Nat
    BY <2>6, <2>8, FS_CardinalityType
  <2>10. Len(buckets) < top
    BY <1>2, <1>3, <1>4, <1>12, <2>6, <2>7, <2>8, <2>9
  <2>11. table' = "overfreed" /\ Len(buckets') < Hash!Pow2(globaldepth')
    BY <1>6, <1>8, <1>9, <1>10, <1>14, <2>10 DEF Hash!Freed, top
  <2>. QED
    BY <2>11 DEF HashInv, Hash!FreesExactly, Hash!Usable
<1>15. CASE b \notin Gone
  <2>1. Gone' = Gone \cup {b}
    BY <1>8, <1>9, <1>10, <1>11
  <2>2. Cardinality(Gone') = m + 1
    BY <1>3, <1>13, <1>15, <2>1, FS_AddElement
  <2>3. directory' \in [m + 1 .. top - 1 -> DOMAIN buckets']
    <3>1. \A h \in m + 1 .. top - 1 : directory[h] \in DOMAIN buckets
      BY <1>2, <1>3
    <3>. QED
      BY <1>7, <1>9, <3>1
  <2>4. ASSUME NEW c \in DOMAIN buckets' \ Gone'
        PROVE  \E h \in DOMAIN directory' : directory'[h] = c
    <3>1. c \in DOMAIN buckets \ Gone /\ c # b
      BY <1>9, <2>1
    <3>2. PICK h \in DOMAIN directory : directory[h] = c
      BY <1>1, <3>1 DEF FreeingOK
    <3>3. h # m /\ h \in m + 1 .. top - 1
      BY <1>2, <1>4, <1>8, <3>1, <3>2
    <3>. QED
      BY <1>7, <3>2, <3>3
  <2>5. m + 1 \in 0 .. top
    BY <1>2, <1>4
  <2>6. FreeingOK'
    BY <1>2, <1>6, <1>9, <2>2, <2>3, <2>4, <2>5 DEF FreeingOK, top
  <2>7. table' = "freeing"
    BY <1>1, <1>6, <1>8, <1>10, <1>15 DEF Hash!Freed
  <2>. QED
    BY <2>6, <2>7 DEF HashInv, Hash!FreesExactly, Hash!Usable
<1>. QED
  BY <1>14, <1>15

LEMMA FreeOK ==
    ASSUME HashInv, Hash!Free
    PROVE  HashInv'
<1>1. TableOK(globaldepth, directory, buckets)
  BY DEF HashInv, Hash!Free, Hash!Usable
<1>2. table' = "freeing" /\ UNCHANGED <<globaldepth, directory, buckets>>
  BY DEF Hash!Free
<1>3. Gone = {}
  BY <1>1, TableParts DEF Gone, Hash!Freed
<1>4. globaldepth \in Nat /\ Hash!Pow2(globaldepth) \in Nat
  BY <1>1, TableParts, PowersOfTwo
<1>5. FreeingOK
  <2>1. Cardinality(Gone) = 0
    BY <1>3, FS_EmptySet
  <2>2. directory \in [0 .. Hash!Pow2(globaldepth) - 1 -> DOMAIN buckets]
        /\ buckets \in Seq(Bucket)
    BY <1>1 DEF TableOK, Hash!Entries
  <2>3. \A b \in DOMAIN buckets : \E h \in DOMAIN directory : directory[h] = b
    BY <1>1 DEF TableOK
  <2>4. 0 \in 0 .. Hash!Pow2(globaldepth)
    BY <1>4
  <2>. QED
    BY <1>4, <2>1, <2>2, <2>3, <2>4 DEF FreeingOK
<1>6. FreeingOK'
  BY <1>2, <1>5 DEF FreeingOK, Gone, Hash!Freed
<1>. QED
  BY <1>2, <1>6 DEF HashInv, Hash!FreesExactly, Hash!Usable

LEMMA FreeTableOK ==
    ASSUME HashInv, Hash!FreeTable
    PROVE  HashInv'
<1>1. FreeingOK /\ DOMAIN directory = {}
  BY DEF HashInv, Hash!FreeTable
<1>2. table' = "freed" /\ UNCHANGED <<globaldepth, directory, buckets>>
  BY DEF Hash!FreeTable
<1>. DEFINE top == Hash!Pow2(globaldepth)
<1>3. top \in Nat
  BY <1>1, PowersOfTwo DEF FreeingOK
<1>4. Cardinality(Gone) = top
  <2>1. PICK m \in 0 .. top :
            directory \in [m .. top - 1 -> DOMAIN buckets] /\ Cardinality(Gone) = m
    BY <1>1 DEF FreeingOK
  <2>. HIDE DEF top
  <2>2. m .. top - 1 = {}
    BY <1>1, <2>1
  <2>. QED
    BY <1>3, <2>1, <2>2
<1>5. Gone = DOMAIN buckets
  BY <1>1 DEF FreeingOK, Gone
<1>6. Len(buckets) = top
  <2>1. Len(buckets) \in Nat /\ DOMAIN buckets = 1 .. Len(buckets)
    BY <1>1 DEF FreeingOK
  <2>2. Cardinality(1 .. Len(buckets)) = IF 1 > Len(buckets) THEN 0 ELSE Len(buckets) - 1 + 1
    BY <2>1, FS_Interval
  <2>. HIDE DEF top
  <2>. QED
    BY <1>4, <1>5, <2>1, <2>2
<1>7. \A b \in DOMAIN buckets : Hash!Freed(b)
  BY <1>5 DEF Gone
<1>8. Hash!FreesExactly'
  BY <1>2, <1>6, <1>7 DEF Hash!FreesExactly, Hash!Freed
<1>. QED
  BY <1>2, <1>8 DEF HashInv, Hash!Usable

\* What an insertion does, whatever it inserts: it returns, or its assertion
\* stops the program with nothing inserted.
LEMMA InsertNextIs ==
    ASSUME HashInv, NEW k \in HashKeys, Hash!InsertNext(k)
    PROVE  LET s == LooksOf(globaldepth, directory, buckets)
               t == LooksOf(globaldepth', directory', buckets')
           IN  /\ table = "open" /\ HashInv'
               /\ \/ table' = "open" /\ \E v \in 1 .. MaxCopies : NowHas(s, t, k, v)
                  \/ table' = "aborted" /\ SameFirst(s, t)
<1>. DEFINE v == Cardinality(Hash!Copies(k)) + 1
<1>1. table = "open" /\ TableOK(globaldepth, directory, buckets)
  BY DEF HashInv, Hash!InsertNext, Hash!Insert, Hash!Usable
<1>2. Cardinality(Hash!Copies(k)) \in Nat /\ MaxCopies \in Nat
  BY <1>1, CopiesCount, StructuresAssumption
<1>3. Cardinality(Hash!Copies(k)) < MaxCopies /\ Hash!Insert(k, v)
  <2>1. Hash!Cardinality(Hash!Copies(k)) = Cardinality(Hash!Copies(k))
    BY DEF Hash!Cardinality, Cardinality
  <2>. QED
    BY <2>1 DEF Hash!InsertNext
<1>4. v \in Nat /\ v \in 1 .. MaxCopies
  BY <1>2, <1>3
<1>. HIDE DEF v
<1>5. LET s == LooksOf(globaldepth, directory, buckets)
          t == LooksOf(globaldepth', directory', buckets')
      IN  /\ TableOK(globaldepth', directory', buckets')
          /\ \/ table' = "open" /\ NowHas(s, t, k, v)
             \/ table' = "aborted" /\ SameFirst(s, t)
  BY <1>1, <1>3, <1>4, InsertOK
<1>6. HashInv'
  BY <1>5 DEF HashInv, Hash!Usable, Hash!FreesExactly
<1>. QED
  BY <1>1, <1>4, <1>5, <1>6

LEMMA NextHashInv ==
    ASSUME HashInv, [Hash!Next]_hashVars
    PROVE  HashInv'
<1>1. CASE UNCHANGED hashVars
  BY <1>1 DEF hashVars, HashInv, FreeingOK, Gone, Hash!Usable, Hash!FreesExactly, Hash!Freed
<1>. QED
  BY <1>1, InsertNextIs, FreeOK, FreeEntryOK, FreeTableOK DEF Hash!Next

\* The entries lead to the buckets their low bits say, in any order of splits
\* and doublings (hashtable.c:157, 201), for every bucket size and hash.
THEOREM DirectoryLeads == Spec => []DirectoryExact
<1>1. Init => HashInv
  BY InitHashInv DEF Init
<1>2. HashInv /\ [Next]_vars => HashInv'
  BY Parts, NextHashInv
<1>3. HashInv => DirectoryExact
  <2>. SUFFICES ASSUME HashInv, Hash!Usable PROVE Hash!DirectoryExact
    BY DEF DirectoryExact, Hash!DirectoryExact
  <2>1. TableOK(globaldepth, directory, buckets)
    BY DEF HashInv
  <2>2. DOMAIN directory = Hash!Entries(globaldepth)
    BY <2>1 DEF TableOK
  <2>3. ASSUME NEW h \in Hash!Entries(globaldepth)
        PROVE  LET b == directory[h]
                   d == buckets[b].localdepth
               IN  /\ b \in DOMAIN buckets
                   /\ d \in 1 .. globaldepth
                   /\ Len(buckets[b].pairs) <= BucketSize
                   /\ \A i \in Hash!Entries(globaldepth) :
                          directory[i] = b <=> Hash!Low(i, d) = Hash!Low(h, d)
                   /\ \A j \in DOMAIN buckets[b].pairs :
                          Hash!Low(HashOf(buckets[b].pairs[j].key), d) = Hash!Low(h, d)
    <3>1. directory[h] \in DOMAIN buckets
      BY <2>1, TableParts
    <3>2. /\ buckets[directory[h]].localdepth \in 1 .. globaldepth
          /\ Len(buckets[directory[h]].pairs) <= BucketSize
      BY <2>1, <3>1, TableParts
    <3>3. SharedOut(globaldepth, directory, buckets)
      BY <2>1 DEF TableOK
    <3>. QED
      BY <3>1, <3>2, <3>3 DEF SharedOut
  <2>. QED
    BY <2>2, <2>3 DEF Hash!DirectoryExact
<1>. QED
  BY <1>1, <1>2, <1>3, PTL DEF Spec

\* linkedlist_free frees every node once and touches no freed one;
\* hashtable_free (hashtable.c:72) frees every bucket once, unless there are
\* fewer buckets than entries: then it frees one twice.
THEOREM FreedOnce == Spec => []FreesExactly
<1>1. Init => HashInv /\ ListOK
  BY InitHashInv, InitListOK DEF Init
<1>2. HashInv /\ ListOK /\ [Next]_vars => HashInv' /\ ListOK'
  BY Parts, NextHashInv, NextListOK
<1>3. HashInv /\ ListOK => FreesExactly
  <2>. SUFFICES ASSUME HashInv, ListOK PROVE List!FreesExactly
    BY DEF FreesExactly, HashInv
  <2>1. ASSUME freed = list.count PROVE alive = {}
    <3>1. list.count \in Int /\ freed \in Nat \cup {-1} /\ List!Left = Cardinality(alive)
          /\ IsFiniteSet(alive)
      BY DEF ListOK, ListType
    <3>2. Cardinality(alive) \in Nat
      BY <3>1, FS_CardinalityType
    <3>3. Cardinality(alive) = 0
      BY <2>1, <3>1, <3>2 DEF List!Left
    <3>. QED
      BY <3>1, <3>3, FS_EmptySet
  <2>. QED
    BY <2>1 DEF List!FreesExactly, ListOK
<1>. QED
  BY <1>1, <1>2, <1>3, PTL DEF Spec

-----------------------------------------------------------------------------
(* HashTable: the dictionary it stands for.                                *)

LEMMA FirstUnique ==
    ASSUME NEW s, NEW m, NEW k, NEW u, NEW w, FirstValue(s, m, k, u), FirstValue(s, m, k, w)
    PROVE  u = w
<1>1. PICK i \in 1 .. m : s[i].key = k /\ s[i].value = u /\ \A l \in 1 .. i - 1 : s[l].key # k
  BY DEF FirstValue
<1>2. PICK j \in 1 .. m : s[j].key = k /\ s[j].value = w /\ \A l \in 1 .. j - 1 : s[l].key # k
  BY DEF FirstValue
<1>3. ~ (i < j) /\ ~ (j < i)
  <2>1. i < j => i \in 1 .. j - 1
    OBVIOUS
  <2>2. j < i => j \in 1 .. i - 1
    OBVIOUS
  <2>. QED
    BY <1>1, <1>2, <2>1, <2>2
<1>4. i = j
  BY <1>3
<1>. QED
  BY <1>1, <1>2, <1>4

\* hashtable_get finds the keys that are there, with their first values.
GetExact ==
    \A k \in HashKeys :
        LET s == LooksOf(globaldepth, directory, buckets)[k]
        IN  /\ Hash!Found(k) <=> HasKey(s, Len(s), k)
            /\ Hash!Found(k) => FirstValue(s, Len(s), k, Hash!Get(k))

LEMMA GetsFirst == HashInv => (Hash!Usable => GetExact)
<1>. SUFFICES ASSUME HashInv, Hash!Usable, NEW k \in HashKeys
              PROVE  LET s == LooksOf(globaldepth, directory, buckets)[k]
                     IN  /\ Hash!Found(k) <=> HasKey(s, Len(s), k)
                         /\ Hash!Found(k) => FirstValue(s, Len(s), k, Hash!Get(k))
  BY DEF GetExact
<1>. DEFINE s == LooksOf(globaldepth, directory, buckets)[k]
            places == Hash!Places(k)
            i == CHOOSE j \in places : \A l \in places : j <= l
<1>1. s = buckets[Hash!Target(k)].pairs
  BY DEF LooksOf, Look, Hash!Target
<1>2. TableOK(globaldepth, directory, buckets)
  BY DEF HashInv
<1>3. Hash!Target(k) \in DOMAIN buckets
  BY <1>2, HashOK, LowIsEntry, TableParts DEF Hash!Target
<1>4. s \in Seq(Pair)
  BY <1>1, <1>2, <1>3, TableParts
<1>5. Len(s) \in Nat /\ DOMAIN s = 1 .. Len(s)
  BY <1>4
<1>6. \A j : j \in places <=> j \in 1 .. Len(s) /\ s[j].key = k
  BY <1>1, <1>5 DEF Hash!Places
<1>7. Hash!Get(k) = s[i].value
  BY <1>1 DEF Hash!Get
<1>8. Hash!Found(k) <=> places # {}
  BY DEF Hash!Found
<1>. HIDE DEF s, places
<1>9. ASSUME places # {} PROVE FirstValue(s, Len(s), k, Hash!Get(k))
  <2>1. places \in SUBSET Nat
    BY <1>5, <1>6
  <2>2. \E j \in places : \A l \in places : j <= l
    BY <1>9, <2>1, LeastExists
  <2>3. i \in places /\ \A l \in places : i <= l
    BY <2>2, Zenon
  <2>. HIDE DEF i
  <2>4. i \in 1 .. Len(s) /\ s[i].key = k /\ s[i].value = Hash!Get(k)
    BY <1>6, <1>7, <2>3
  <2>5. \A l \in 1 .. i - 1 : s[l].key # k
    BY <1>5, <1>6, <2>3, <2>4
  <2>. QED
    BY <2>4, <2>5 DEF FirstValue
<1>10. places # {} <=> HasKey(s, Len(s), k)
  BY <1>6 DEF HasKey
<1>. QED
  BY <1>8, <1>9, <1>10 DEF s

LEMMA GetsFirstNext == HashInv' => (Hash!Usable' => GetExact')
BY GetsFirst, PTL

\* what the dictionary is in a state
Held == {k \in HashKeys : Hash!Usable /\ Hash!Found(k)}
HashDict == [k \in Held |-> Hash!Get(k)]

LEMMA InsertNextInserts ==
    ASSUME HashInv, NEW k \in HashKeys, Hash!InsertNext(k)
    PROVE  Hash!Usable /\ Hash!Usable'
           /\ \/ \E v \in 1 .. MaxCopies :
                    HashDict' = [x \in Held \cup {k} |-> IF x \in Held THEN HashDict[x] ELSE v]
              \/ HashDict' = HashDict
<1>. DEFINE s == LooksOf(globaldepth, directory, buckets)
            t == LooksOf(globaldepth', directory', buckets')
            new(v) == [x \in Held \cup {k} |-> IF x \in Held THEN HashDict[x] ELSE v]
<1>1. /\ table = "open" /\ HashInv'
      /\ \/ table' = "open" /\ \E v \in 1 .. MaxCopies : NowHas(s, t, k, v)
         \/ table' = "aborted" /\ SameFirst(s, t)
  BY InsertNextIs
<1>2. Hash!Usable /\ Hash!Usable'
  BY <1>1 DEF Hash!Usable
<1>3. GetExact /\ GetExact'
  BY <1>1, <1>2, GetsFirst, GetsFirstNext
<1>4. \A x : x \in Held <=> x \in HashKeys /\ HasKey(s[x], Len(s[x]), x)
  BY <1>2, <1>3 DEF Held, GetExact
<1>5. \A x : x \in Held' <=> x \in HashKeys /\ HasKey(t[x], Len(t[x]), x)
  BY <1>2, <1>3 DEF Held, GetExact
<1>6. \A x \in Held : FirstValue(s[x], Len(s[x]), x, HashDict[x])
  BY <1>2, <1>3 DEF Held, GetExact, HashDict
<1>7. \A x \in Held' : FirstValue(t[x], Len(t[x]), x, HashDict'[x])
  BY <1>2, <1>3 DEF Held, GetExact, HashDict
<1>8. HashDict' = [x \in Held' |-> HashDict'[x]]
  BY DEF HashDict
<1>9. HashDict = [x \in Held |-> HashDict[x]]
  BY DEF HashDict
<1>. HIDE DEF s, t
<1>10. CASE \E v \in 1 .. MaxCopies : NowHas(s, t, k, v)
  <2>1. PICK v \in 1 .. MaxCopies : NowHas(s, t, k, v)
    BY <1>10
  <2>2. Held' = Held \cup {k}
    BY <1>4, <1>5, <2>1 DEF NowHas
  <2>3. ASSUME NEW x \in Held' PROVE HashDict'[x] = IF x \in Held THEN HashDict[x] ELSE v
    <3>1. x \in HashKeys /\ FirstValue(t[x], Len(t[x]), x, HashDict'[x])
      BY <1>5, <1>7
    <3>2. CASE x \in Held
      <4>1. FirstValue(t[x], Len(t[x]), x, HashDict[x])
        BY <1>6, <2>1, <3>1, <3>2 DEF NowHas
      <4>. QED
        BY <3>1, <3>2, <4>1, FirstUnique
    <3>3. CASE x \notin Held
      <4>1. x = k /\ ~HasKey(s[x], Len(s[x]), x)
        BY <1>4, <2>2, <3>1, <3>3
      <4>2. FirstValue(t[x], Len(t[x]), x, v)
        BY <2>1, <3>1, <4>1 DEF NowHas
      <4>. QED
        BY <3>1, <3>3, <4>2, FirstUnique
    <3>. QED
      BY <3>2, <3>3
  <2>4. HashDict' = [x \in Held \cup {k} |-> IF x \in Held THEN HashDict[x] ELSE v]
    BY <1>8, <2>2, <2>3
  <2>. QED
    BY <1>2, <2>4
<1>11. CASE SameFirst(s, t)
  <2>1. Held' = Held
    BY <1>4, <1>5, <1>11 DEF SameFirst
  <2>2. ASSUME NEW x \in Held PROVE HashDict'[x] = HashDict[x]
    <3>1. FirstValue(t[x], Len(t[x]), x, HashDict'[x])
      BY <1>7, <2>1
    <3>2. FirstValue(t[x], Len(t[x]), x, HashDict[x])
      BY <1>4, <1>6, <1>11 DEF SameFirst
    <3>. QED
      BY <3>1, <3>2, FirstUnique
  <2>. QED
    BY <1>2, <1>8, <1>9, <2>1, <2>2
<1>. QED
  BY <1>1, <1>10, <1>11

LEMMA EmptyDict == Held = {} => HashDict = <<>>
BY DEF HashDict

\* hashtable_get finds what was inserted, with the value of the first
\* insertion, and nothing else (hashtable.c:120, 140): the table implements
\* a dictionary, through all its splits and doublings.
THEOREM TableIsDictionary == Spec => ImplementsDictionary
<1>1. Init => HashInv
  BY InitHashInv DEF Init
<1>2. HashInv /\ [Next]_vars => HashInv'
  BY Parts, NextHashInv
<1>3. Init => Hash!D!Init
  <2>. SUFFICES ASSUME HashInv, Hash!Init PROVE HashDict = <<>> /\ Hash!Usable = TRUE
    BY <1>1 DEF Init, Hash!D!Init, HashDict, Held
  <2>1. Hash!Usable
    BY DEF Hash!Init, Hash!Usable
  <2>2. GetExact
    BY <2>1, GetsFirst
  <2>3. ASSUME NEW k \in HashKeys
        PROVE  LET s == LooksOf(globaldepth, directory, buckets)[k] IN ~HasKey(s, Len(s), k)
    <3>. DEFINE s == LooksOf(globaldepth, directory, buckets)[k]
                b == directory[Hash!Low(HashOf(k), globaldepth)]
    <3>1. TableOK(globaldepth, directory, buckets)
      BY <2>1 DEF HashInv
    <3>2. b \in DOMAIN buckets
      BY <3>1, HashOK, LowIsEntry, TableParts
    <3>3. \A c \in DOMAIN buckets : buckets[c].pairs = <<>>
      BY DEF Hash!Init, Hash!NewBucket
    <3>4. s = <<>>
      BY <3>2, <3>3 DEF LooksOf, Look
    <3>5. 1 .. Len(<<>>) = {}
      OBVIOUS
    <3>. HIDE DEF s
    <3>6. ~HasKey(s, Len(s), k)
      BY <3>4, <3>5 DEF HasKey
    <3>. QED
      BY <3>6 DEF s
  <2>4. Held = {}
    BY <2>2, <2>3 DEF Held, GetExact
  <2>. QED
    BY <2>1, <2>4, EmptyDict
<1>4. HashInv /\ [Next]_vars => [Hash!D!Next]_(Hash!D!vars)
  <2>. SUFFICES ASSUME HashInv, [Hash!Next]_hashVars PROVE [Hash!D!Next]_(Hash!D!vars)
    BY Parts
  <2>. DEFINE insert(k, v) ==
                  /\ Hash!Usable = TRUE
                  /\ HashDict' = [x \in Held \cup {k} |-> IF x \in Held THEN HashDict[x] ELSE v]
                  /\ Hash!Usable' = Hash!Usable
  <2>1. ASSUME NEW k \in HashKeys, NEW v \in 1 .. MaxCopies, insert(k, v) PROVE Hash!D!Next
    BY <2>1 DEF Hash!D!Next, Hash!D!Insert, HashDict, Held
  <2>2. UNCHANGED <<HashDict, Hash!Usable>> => UNCHANGED Hash!D!vars
    BY DEF Hash!D!vars, HashDict, Held
  <2>3. Hash!Usable = TRUE /\ Hash!Usable' = FALSE /\ HashDict' = <<>> => Hash!D!Next
    BY DEF Hash!D!Next, Hash!D!Free, HashDict, Held
  <2>4. ASSUME NEW k \in HashKeys, Hash!InsertNext(k) PROVE [Hash!D!Next]_(Hash!D!vars)
    <3>1. Hash!Usable = TRUE /\ Hash!Usable' = Hash!Usable
      <4>1. Hash!Usable /\ Hash!Usable'
        BY <2>4, InsertNextInserts
      <4>. QED
        BY <4>1 DEF Hash!Usable
    <3>. QED
      BY <2>1, <2>2, <2>4, <3>1, InsertNextInserts
  <2>5. ASSUME ~Hash!Usable' PROVE HashDict' = <<>>
    BY <2>5, EmptyDict DEF Held, HashDict
  <2>6. Hash!Free => Hash!D!Next
    <3>1. Hash!Free => Hash!Usable = TRUE /\ Hash!Usable' = FALSE
      BY DEF Hash!Free, Hash!Usable
    <3>. QED
      BY <2>3, <2>5, <3>1
  <2>7. Hash!FreeEntry \/ Hash!FreeTable => UNCHANGED <<HashDict, Hash!Usable>>
    <3>1. Hash!FreeEntry \/ Hash!FreeTable => Hash!Usable = FALSE /\ Hash!Usable' = FALSE
      BY DEF Hash!FreeEntry, Hash!FreeTable, Hash!Usable
    <3>2. Hash!Usable = FALSE => HashDict = <<>>
      BY EmptyDict DEF Held
    <3>. QED
      BY <2>5, <3>1, <3>2
  <2>8. UNCHANGED hashVars => UNCHANGED <<HashDict, Hash!Usable>>
    BY DEF hashVars, HashDict, Held, Hash!Usable, Hash!Found, Hash!Get, Hash!Places, Hash!Target
  <2>. QED
    BY <2>2, <2>4, <2>6, <2>7, <2>8 DEF Hash!Next
<1>. QED
  BY <1>1, <1>2, <1>3, <1>4, PTL DEF Spec, ImplementsDictionary, Hash!ImplementsDictionary, Hash!D!Spec

-----------------------------------------------------------------------------
(* AreaList: the links vma_add_area makes.                                 *)

Places == Areas \cup {Area!NoArea}

VmaType == [head : Places, count : Nat, next : [Places -> Places], prev : [Places -> Places]]

LEMMA AreasOK ==
    /\ Area!NoArea \notin Areas /\ Area!Start(Area!NoArea) = 0
    /\ \A a \in Areas : Area!Start(a) \in Nat /\ Area!End(a) \in Nat
                        /\ 0 < Area!Start(a) /\ Area!Start(a) < Area!End(a)
BY StructuresAssumption DEF Area!NoArea, Area!Start, Area!End

\* The links of m are those of l, but that x leads to y.
VmaNext(l, m, x, y) ==
    /\ m \in VmaType /\ m.head = l.head /\ m.count = l.count /\ m.prev = l.prev
    /\ \A z \in Places : m.next[z] = IF z = x THEN y ELSE l.next[z]

VmaPrev(l, m, x, y) ==
    /\ m \in VmaType /\ m.head = l.head /\ m.count = l.count /\ m.next = l.next
    /\ \A z \in Places : m.prev[z] = IF z = x THEN y ELSE l.prev[z]

LEMMA VmaNextSet ==
    ASSUME NEW l \in VmaType, NEW x \in Areas, NEW y \in Places
    PROVE  VmaNext(l, Area!L!SetNext(l, x, y), x, y)
<1>1. x # Area!NoArea /\ x \in Places
  BY AreasOK DEF Places
<1>. HIDE DEF Places
<1>. QED
  BY <1>1 DEF Area!L!SetNext, VmaType, VmaNext

LEMMA VmaPrevSet ==
    ASSUME NEW l \in VmaType, NEW x \in Areas, NEW y \in Places
    PROVE  VmaPrev(l, Area!L!SetPrev(l, x, y), x, y)
<1>1. x # Area!NoArea /\ x \in Places
  BY AreasOK DEF Places
<1>. QED
  BY <1>1 DEF Area!L!SetPrev, VmaType, VmaPrev

\* linkedlist_internal_insert of the first area
LEMMA FirstArea ==
    ASSUME NEW l \in VmaType, NEW x \in Areas, l.count = 0
    PROVE  LET m == Area!L!Insert(l, x)
           IN  m \in VmaType /\ m.head = x /\ m.count = 1 /\ m.next[x] = x /\ m.prev[x] = x
<1>. DEFINE a == [l EXCEPT !.head = x, !.count = 1]
            b == Area!L!SetPrev(a, x, x)
            c == Area!L!SetNext(b, x, x)
<1>0. x \in Places
  BY DEF Places
<1>1. a \in VmaType /\ a.head = x /\ a.count = 1
  BY <1>0 DEF VmaType
<1>2. Area!L!Insert(l, x) = c
  BY DEF Area!L!Insert
<1>. HIDE DEF a
<1>3. VmaPrev(a, b, x, x)
  BY <1>0, <1>1, VmaPrevSet
<1>. HIDE DEF b
<1>4. VmaNext(b, c, x, x)
  BY <1>0, <1>3, VmaNextSet DEF VmaPrev
<1>. HIDE DEF c
<1>. QED
  BY <1>0, <1>1, <1>2, <1>3, <1>4 DEF VmaNext, VmaPrev

\* The links of m are those of l, but that x is between y and z.
Between(l, m, x, y, z) ==
    /\ m \in VmaType /\ m.count = l.count + 1
    /\ m.next[x] = z /\ m.prev[x] = y
    /\ \A b \in Areas \ {x} : /\ m.next[b] = IF b = y THEN x ELSE l.next[b]
                              /\ m.prev[b] = IF b = z THEN x ELSE l.prev[b]

LEMMA AreaBefore ==
    ASSUME NEW l \in VmaType, NEW x \in Areas, NEW y \in Areas \ {x},
           l.prev[y] \in Areas \ {x}
    PROVE  LET m == Area!L!InsertBefore(l, y, x)
           IN  Between(l, m, x, l.prev[y], y) /\ m.head = IF y = l.head THEN x ELSE l.head
<1>. DEFINE u == l.prev[y]
            a == Area!L!SetNext(l, x, y)
            b == Area!L!SetPrev(a, x, u)
            c == Area!L!SetPrev(b, y, x)
            d == Area!L!SetNext(c, u, x)
            h == IF y = l.head THEN x ELSE d.head
            e == [d EXCEPT !.count = d.count + 1]
            m == [e EXCEPT !.head = h]
<1>0. x \in Places /\ y \in Places /\ u \in Places /\ u \in Areas \ {x} /\ Areas \subseteq Places
  BY DEF Places
<1>1. Area!L!InsertBefore(l, y, x) = m
  BY DEF Area!L!InsertBefore, Area!L!GetPrev
<1>. HIDE DEF u
<1>2. VmaNext(l, a, x, y)
  BY <1>0, VmaNextSet
<1>. HIDE DEF a
<1>3. VmaPrev(a, b, x, u)
  BY <1>0, <1>2, VmaPrevSet DEF VmaNext
<1>. HIDE DEF b
<1>4. VmaPrev(b, c, y, x)
  BY <1>0, <1>3, VmaPrevSet DEF VmaPrev
<1>. HIDE DEF c
<1>5. VmaNext(c, d, u, x)
  BY <1>0, <1>4, VmaNextSet DEF VmaPrev
<1>. HIDE DEF d
<1>6. m \in VmaType /\ m.head = h /\ m.count = d.count + 1 /\ m.next = d.next /\ m.prev = d.prev
  <2>1. d \in VmaType /\ h \in Places
    BY <1>0, <1>5 DEF VmaNext, VmaType
  <2>2. e \in VmaType /\ e.count = d.count + 1 /\ e.next = d.next /\ e.prev = d.prev
    BY <2>1 DEF VmaType
  <2>. HIDE DEF h, e
  <2>. QED
    BY <2>1, <2>2 DEF VmaType
<1>. HIDE DEF m
<1>. QED
  BY <1>0, <1>1, <1>2, <1>3, <1>4, <1>5, <1>6 DEF VmaNext, VmaPrev, Between, u, h

\* The area behind y is looked up by get_node_next, which is its prev link.
LEMMA AreaAfter ==
    ASSUME NEW l \in VmaType, NEW x \in Areas, NEW y \in Areas \ {x},
           l.prev[y] \in Areas \ {x}
    PROVE  LET m == Area!L!InsertAfter(l, y, x)
           IN  Between(l, m, x, y, l.prev[y]) /\ m.head = l.head
<1>. DEFINE u == l.prev[y]
            a == Area!L!SetNext(l, x, u)
            b == Area!L!SetPrev(a, u, x)
            c == Area!L!SetPrev(b, x, y)
            d == Area!L!SetNext(c, y, x)
            m == [d EXCEPT !.count = d.count + 1]
<1>0. x \in Places /\ y \in Places /\ u \in Places /\ u \in Areas \ {x} /\ Areas \subseteq Places
  BY DEF Places
<1>1. Area!L!InsertAfter(l, y, x) = m
  BY DEF Area!L!InsertAfter, Area!L!GetNext
<1>. HIDE DEF u
<1>2. VmaNext(l, a, x, u)
  BY <1>0, VmaNextSet
<1>. HIDE DEF a
<1>3. VmaPrev(a, b, u, x)
  BY <1>0, <1>2, VmaPrevSet DEF VmaNext
<1>. HIDE DEF b
<1>4. VmaPrev(b, c, x, y)
  BY <1>0, <1>3, VmaPrevSet DEF VmaPrev
<1>. HIDE DEF c
<1>5. VmaNext(c, d, y, x)
  BY <1>0, <1>4, VmaNextSet DEF VmaPrev
<1>. HIDE DEF d
<1>6. m \in VmaType /\ m.head = d.head /\ m.count = d.count + 1 /\ m.next = d.next /\ m.prev = d.prev
  BY <1>5 DEF VmaNext, VmaType
<1>. HIDE DEF m
<1>. QED
  BY <1>0, <1>1, <1>2, <1>3, <1>4, <1>5, <1>6 DEF VmaNext, VmaPrev, Between, u

-----------------------------------------------------------------------------
(* AreaList: the list while areas are added.                               *)

\* The areas in S are in the list, the head the lowest of them.  With more
\* than two the links may be wrong, but they lead to areas in S; with one or
\* two they are one ring.
VmaOK(l, S) ==
    /\ l \in VmaType /\ S \subseteq Areas
    /\ l.count = 0 <=> S = {}
    /\ \A x \in S : l.next[x] \in S /\ l.prev[x] \in S
    /\ S # {} => l.head \in S /\ \A a \in S : Area!Start(l.head) <= Area!Start(a)
    /\ \A x, y \in S : S = {x, y} =>
           l.next[x] = y /\ l.prev[x] = y /\ l.count = IF x = y THEN 1 ELSE 2

LEMMA EmptyVmaOK == VmaOK(Area!L!Empty, {})
BY DEF VmaOK, Area!L!Empty, Area!L!Unlinked, VmaType, Places

LEMMA AreaWalk ==
    ASSUME NEW l, NEW S, VmaOK(l, S), l.count # 0
    PROVE  LET w == Area!Walk(l)
           IN  /\ w \in [1 .. l.count -> S] /\ w[1] = l.head
               /\ \A i \in 2 .. l.count : w[i] = l.next[w[i - 1]]
<1>1. l.count \in Nat \ {0} /\ l.head \in S /\ \A x \in S : l.next[x] \in S
  BY DEF VmaOK, VmaType
<1>. DEFINE c == l.count
            w == Area!Walk(l)
            F(f) == [i \in 1 .. c |-> IF i = 1 THEN l.head ELSE l.next[f[i - 1]]]
            g == [x \in S |-> l.next[x]]
<1>2. PICK v \in [0 .. c - 1 -> S] : IsWalk(v, l.head, g, c - 1)
  <2>1. g \in [S -> S] /\ c - 1 \in Nat
    BY <1>1
  <2>. HIDE DEF g, c
  <2>. QED
    BY <1>1, <2>1, WalkExists
<1>3. \A k \in 0 .. c - 1 : v[k] = IF k = 0 THEN l.head ELSE l.next[v[k - 1]]
  <2>1. \A k \in 0 .. c - 1 : v[k] = IF k = 0 THEN l.head ELSE g[v[k - 1]]
    BY <1>2 DEF IsWalk
  <2>2. \A k \in 0 .. c - 1 : k # 0 => v[k - 1] \in S
    BY <1>1, <1>2
  <2>. QED
    BY <2>1, <2>2
<1>. DEFINE u == [i \in 1 .. c |-> v[i - 1]]
<1>4. u = F(u)
  <2>1. \A i \in 1 .. c : i - 1 \in 0 .. c - 1 /\ (i # 1 => i - 1 \in 1 .. c /\ i - 1 - 1 = (i - 1) - 1)
    BY <1>1
  <2>2. ASSUME NEW i \in 1 .. c PROVE u[i] = IF i = 1 THEN l.head ELSE l.next[u[i - 1]]
    BY <1>3, <2>1
  <2>3. u = [i \in 1 .. c |-> u[i]]
    OBVIOUS
  <2>. HIDE DEF u
  <2>. QED
    BY <2>2, <2>3
<1>5. w = CHOOSE f : f = F(f)
  BY Zenon DEF Area!Walk
<1>6. w = F(w)
  <2>. HIDE DEF F, u
  <2>. QED
    BY <1>4, <1>5, Zenon
<1>. HIDE DEF w
<1>7. w[1] = l.head /\ \A i \in 2 .. c : w[i] = l.next[w[i - 1]]
  BY <1>1, <1>6
<1>8. ASSUME NEW i \in 1 .. c PROVE w[i] \in S
  <2>. DEFINE Bad == {j \in 1 .. c : w[j] \notin S}
  <2>. SUFFICES ASSUME Bad # {} PROVE FALSE
    OBVIOUS
  <2>1. PICK j \in Bad : \A k \in Bad : j <= k
    <3>1. Bad \in SUBSET Nat
      OBVIOUS
    <3>. HIDE DEF Bad
    <3>. QED
      BY <3>1, LeastExists
  <2>2. j # 1
    BY <1>1, <1>7, <2>1
  <2>3. j \in 2 .. c /\ j - 1 \in 1 .. c /\ j - 1 \notin Bad
    BY <1>1, <2>1, <2>2
  <2>. QED
    BY <1>1, <1>7, <2>1, <2>3
<1>9. w = [i \in 1 .. c |-> w[i]]
  BY <1>6
<1>. QED
  BY <1>7, <1>8, <1>9 DEF w

\* The loop of vma_add_area stops at the first area that starts above a.
LEMMA FirstAboveIs ==
    ASSUME NEW l, NEW a, l.count \in Nat, Area!Behind(l, a) # {}
    PROVE  /\ Area!FirstAbove(l, a) \in Area!Behind(l, a)
           /\ \A j \in Area!Behind(l, a) : Area!FirstAbove(l, a) <= j
<1>1. PICK i \in Area!Behind(l, a) : \A j \in Area!Behind(l, a) : i <= j
  <2>1. Area!Behind(l, a) \in SUBSET Nat
    BY DEF Area!Behind
  <2>. QED
    BY <2>1, LeastExists
<1>. QED
  BY <1>1, Zenon DEF Area!FirstAbove

LEMMA AddedOK ==
    ASSUME NEW l, NEW S, VmaOK(l, S), NEW a \in Areas \ S, Area!AddPasses(l, a)
    PROVE  VmaOK(Area!Added(l, a), S \cup {a})
<1>. DEFINE m == Area!Added(l, a)
            w == Area!Walk(l)
<1>1. l \in VmaType /\ l.count \in Nat
  BY DEF VmaOK, VmaType
<1>2. CASE l.count = 0
  <2>1. m = Area!L!Insert(l, a) /\ S = {}
    BY <1>2 DEF Area!Added, VmaOK
  <2>2. m \in VmaType /\ m.head = a /\ m.count = 1 /\ m.next[a] = a /\ m.prev[a] = a
    BY <1>1, <1>2, <2>1, FirstArea
  <2>3. Area!Start(a) <= Area!Start(a)
    BY AreasOK
  <2>. HIDE DEF m
  <2>. QED
    BY <2>1, <2>2, <2>3 DEF VmaOK, m
<1>3. CASE l.count # 0
  <2>1. w \in [1 .. l.count -> S] /\ w[1] = l.head /\ 1 \in 1 .. l.count /\ l.count \in 1 .. l.count
    BY <1>1, <1>3, AreaWalk
  <2>2. l.head \in S /\ S # {} /\ S \subseteq Areas /\ a \notin S
        /\ (\A x \in S : l.next[x] \in S /\ l.prev[x] \in S /\ Area!Start(l.head) <= Area!Start(x))
    BY <1>1, <1>3 DEF VmaOK
  <2>3. \A x \in S : Area!Start(x) \in Nat
    BY <2>2, AreasOK
  <2>4. PICK y \in S, z \in S :
             /\ Between(l, m, a, y, z)
             /\ \/ m.head = a /\ Area!Start(a) < Area!Start(l.head)
                \/ m.head = l.head /\ Area!Start(l.head) <= Area!Start(a)
    <3>1. CASE Area!Behind(l, a) # {}
      <4>. DEFINE i == Area!FirstAbove(l, a)
      <4>1. i \in 1 .. l.count /\ Area!Start(a) < Area!Start(w[i])
            /\ (Area!Start(a) < Area!Start(w[1]) => i <= 1)
        BY <1>1, <2>1, <3>1, FirstAboveIs DEF Area!Behind
      <4>2. m = Area!L!InsertBefore(l, w[i], a)
        BY <1>3, <3>1 DEF Area!Added
      <4>. HIDE DEF i, m, w
      <4>3. w[i] \in S /\ l.prev[w[i]] \in S
        BY <2>1, <2>2, <4>1
      <4>4. Between(l, m, a, l.prev[w[i]], w[i]) /\ m.head = IF w[i] = l.head THEN a ELSE l.head
        BY <1>1, <2>2, <4>2, <4>3, AreaBefore
      <4>5. Area!Start(a) < Area!Start(l.head) => w[i] = l.head
        BY <2>1, <4>1
      <4>6. Area!Start(a) \in Nat /\ Area!Start(l.head) \in Nat
        BY <2>2, <2>3, AreasOK
      <4>. QED
        BY <2>1, <4>1, <4>3, <4>4, <4>5, <4>6
    <3>2. CASE Area!Behind(l, a) = {}
      <4>. DEFINE y == Area!LoopEnd(l)
      <4>1. m = Area!L!InsertAfter(l, y, a) /\ y = l.next[w[l.count]]
        BY <1>3, <3>2 DEF Area!Added, Area!LoopEnd
      <4>2. ~(Area!Start(a) < Area!Start(l.head))
        BY <2>1, <3>2 DEF Area!Behind
      <4>. HIDE DEF m, w, y
      <4>3. y \in S /\ l.prev[y] \in S
        BY <2>1, <2>2, <4>1
      <4>4. Between(l, m, a, y, l.prev[y]) /\ m.head = l.head
        BY <1>1, <2>2, <4>1, <4>3, AreaAfter
      <4>5. Area!Start(a) \in Nat /\ Area!Start(l.head) \in Nat
        BY <2>2, <2>3, AreasOK
      <4>. QED
        BY <4>2, <4>3, <4>4, <4>5
    <3>. QED
      BY <3>1, <3>2
  <2>. HIDE DEF m, w
  <2>5. m \in VmaType /\ m.count = l.count + 1 /\ m.count # 0 /\ S \cup {a} \subseteq Areas
    BY <1>1, <2>2, <2>4 DEF Between
  <2>6. ASSUME NEW x \in S \cup {a} PROVE m.next[x] \in S \cup {a} /\ m.prev[x] \in S \cup {a}
    BY <2>2, <2>4 DEF Between
  <2>7. m.head \in S \cup {a} /\ \A x \in S \cup {a} : Area!Start(m.head) <= Area!Start(x)
    <3>1. Area!Start(a) \in Nat /\ Area!Start(l.head) \in Nat
      BY <2>2, <2>3, AreasOK
    <3>. QED
      BY <2>2, <2>3, <2>4, <3>1
  <2>8. ASSUME NEW b \in S \cup {a}, NEW c \in S \cup {a}, S \cup {a} = {b, c}
        PROVE  m.next[b] = c /\ m.prev[b] = c /\ m.count = IF b = c THEN 1 ELSE 2
    <3>1. S = {y} /\ z = y /\ b # c /\ {b, c} = {a, y} /\ y # a
      BY <2>2, <2>4, <2>8
    <3>2. l.next[y] = y /\ l.prev[y] = y /\ l.count = 1
      BY <3>1 DEF VmaOK
    <3>3. m.next[y] = a /\ m.prev[y] = a /\ m.next[a] = y /\ m.prev[a] = y
      BY <2>2, <2>4, <3>1, <3>2 DEF Between
    <3>. QED
      BY <2>5, <3>1, <3>2, <3>3
  <2>. QED
    BY <2>5, <2>6, <2>7, <2>8 DEF VmaOK, m
<1>. QED
  BY <1>2, <1>3

-----------------------------------------------------------------------------
(* AreaList: what fork copies, and what the fault handler finds.           *)

\* Adding the areas of w one after the other to an empty list, as
\* copy_vmareas does, makes lists that are in order until an assertion fails.
Copying(w, m, f) ==
    f = [i \in 0 .. m |->
            IF i = 0 THEN [l |-> Area!L!Empty, ok |-> TRUE]
            ELSE LET c == f[i - 1]
                     a == w[i]
                 IN  IF c.ok /\ Area!AddPasses(c.l, a)
                     THEN [c EXCEPT !.l = Area!Added(@, a)] ELSE [c EXCEPT !.ok = FALSE]]

LEMMA CopyingExists ==
    ASSUME NEW w, NEW m \in Nat
    PROVE  \E f : Copying(w, m, f)
<1>. DEFINE Bad == {k \in Nat : ~ \E f : Copying(w, k, f)}
<1>. SUFFICES ASSUME Bad # {} PROVE FALSE
  OBVIOUS
<1>1. PICK k \in Bad : \A j \in Bad : k <= j
  BY LeastExists
<1>. DEFINE Start == [l |-> Area!L!Empty, ok |-> TRUE]
            Step(c, a) == IF c.ok /\ Area!AddPasses(c.l, a)
                          THEN [c EXCEPT !.l = Area!Added(@, a)] ELSE [c EXCEPT !.ok = FALSE]
<1>0. \A j, f : Copying(w, j, f)
                <=> f = [i \in 0 .. j |-> IF i = 0 THEN Start ELSE Step(f[i - 1], w[i])]
  BY Zenon DEF Copying
<1>. HIDE DEF Start, Step
<1>2. k # 0
  <2>. DEFINE h == [i \in 0 .. 0 |-> Start]
  <2>1. h = [i \in 0 .. 0 |-> IF i = 0 THEN Start ELSE Step(h[i - 1], w[i])]
    OBVIOUS
  <2>. HIDE DEF h
  <2>. QED
    BY <1>0, <1>1, <2>1
<1>3. k - 1 \in Nat /\ k - 1 \notin Bad
  BY <1>1, <1>2
<1>4. PICK f : Copying(w, k - 1, f)
  BY <1>3
<1>. DEFINE g == [i \in 0 .. k |-> IF i = k THEN Step(f[k - 1], w[k]) ELSE f[i]]
<1>5. \A i \in 0 .. k - 1 : f[i] = IF i = 0 THEN Start ELSE Step(f[i - 1], w[i])
  BY <1>0, <1>4
<1>6. ASSUME NEW i \in 0 .. k PROVE g[i] = IF i = 0 THEN Start ELSE Step(g[i - 1], w[i])
  BY <1>2, <1>3, <1>5
<1>7. g = [i \in 0 .. k |-> g[i]]
  OBVIOUS
<1>. HIDE DEF g
<1>8. Copying(w, k, g)
  <2>1. [i \in 0 .. k |-> g[i]] = [i \in 0 .. k |-> IF i = 0 THEN Start ELSE Step(g[i - 1], w[i])]
    BY <1>6
  <2>. QED
    BY <1>0, <1>7, <2>1
<1>. QED
  BY <1>1, <1>8

CopyOK(w, c, i) ==
    /\ DOMAIN c = {"l", "ok"} /\ c.ok \in BOOLEAN
    /\ c.ok => VmaOK(c.l, {w[j] : j \in 1 .. i})

LEMMA CopiesOK ==
    ASSUME NEW m \in Nat, NEW w \in [1 .. m -> Areas],
           \A i, j \in 1 .. m : i # j => w[i] # w[j],
           NEW f, Copying(w, m, f)
    PROVE  f[m].ok \in BOOLEAN /\ (f[m].ok => VmaOK(f[m].l, {w[j] : j \in 1 .. m}))
<1>. DEFINE Bad == {i \in 0 .. m : ~CopyOK(w, f[i], i)}
<1>1. ASSUME Bad # {} PROVE FALSE
  <2>1. PICK k \in Bad : \A j \in Bad : k <= j
    <3>1. Bad \in SUBSET Nat
      OBVIOUS
    <3>. HIDE DEF Bad
    <3>. QED
      BY <1>1, <3>1, LeastExists
  <2>2. k # 0
    <3>1. f[0].ok = TRUE /\ f[0].l = Area!L!Empty /\ DOMAIN f[0] = {"l", "ok"}
      <4>1. f[0] = [l |-> Area!L!Empty, ok |-> TRUE]
        BY DEF Copying
      <4>. QED
        BY <4>1
    <3>2. {w[j] : j \in 1 .. 0} = {}
      OBVIOUS
    <3>3. CopyOK(w, f[0], 0)
      BY <3>1, <3>2, EmptyVmaOK DEF CopyOK
    <3>. QED
      BY <2>1, <3>3
  <2>3. k - 1 \in 0 .. m /\ k \in 1 .. m /\ CopyOK(w, f[k - 1], k - 1)
    BY <2>1, <2>2
  <2>. DEFINE c == f[k - 1]
              S == {w[j] : j \in 1 .. k - 1}
  <2>4. f[k] = IF c.ok /\ Area!AddPasses(c.l, w[k])
               THEN [c EXCEPT !.l = Area!Added(c.l, w[k])] ELSE [c EXCEPT !.ok = FALSE]
    BY <2>2, <2>3 DEF Copying
  <2>5. {w[j] : j \in 1 .. k} = S \cup {w[k]} /\ w[k] \in Areas \ S
    BY <2>2, <2>3
  <2>6. DOMAIN c = {"l", "ok"} /\ c.ok \in BOOLEAN /\ (c.ok => VmaOK(c.l, S))
    BY <2>3 DEF CopyOK
  <2>. HIDE DEF c, S
  <2>7. CASE c.ok /\ Area!AddPasses(c.l, w[k])
    <3>1. VmaOK(Area!Added(c.l, w[k]), S \cup {w[k]})
      BY <2>5, <2>6, <2>7, AddedOK
    <3>2. DOMAIN f[k] = {"l", "ok"} /\ f[k].ok = c.ok /\ f[k].l = Area!Added(c.l, w[k])
      BY <2>4, <2>6, <2>7
    <3>. QED
      BY <2>1, <2>5, <2>6, <3>1, <3>2 DEF CopyOK
  <2>8. CASE ~(c.ok /\ Area!AddPasses(c.l, w[k]))
    <3>1. DOMAIN f[k] = {"l", "ok"} /\ f[k].ok = FALSE
      BY <2>4, <2>6, <2>8
    <3>. QED
      BY <2>1, <3>1 DEF CopyOK
  <2>. QED
    BY <2>7, <2>8
<1>2. CopyOK(w, f[m], m)
  BY <1>1
<1>. QED
  BY <1>2 DEF CopyOK

\* The areas in S are what the links lead to: some of the areas added, all of
\* them as long as these are two, and always the lowest.
LeadTo(S) ==
    /\ VmaOK(vma, S) /\ S \subseteq added
    /\ added # {} => S # {} /\ \A a \in added : Area!Start(vma.head) <= Area!Start(a)
    /\ \A x, y \in added : added = {x, y} => S = added

AreaInv ==
    /\ added \subseteq Areas /\ IsFiniteSet(added)
    /\ \A a, b \in added : a # b => Area!Disjoint(a, b)
    /\ \E S : LeadTo(S)

LEMMA InitAreaInv == Area!Init => AreaInv
<1>. SUFFICES ASSUME Area!Init PROVE AreaInv
  OBVIOUS
<1>1. LeadTo({})
  BY EmptyVmaOK DEF Area!Init, LeadTo
<1>. QED
  BY <1>1, FS_EmptySet DEF Area!Init, AreaInv

LEMMA AddAreaInv ==
    ASSUME AreaInv, NEW a \in Areas, Area!AddArea(a)
    PROVE  AreaInv'
<1>1. CASE halt'
  BY <1>1 DEF Area!AddArea, AreaInv, LeadTo
<1>2. CASE ~halt'
  <2>1. /\ Area!AddPasses(vma, a) /\ vma' = Area!Added(vma, a) /\ added' = added \cup {a}
        /\ \A b \in added : Area!Disjoint(a, b)
    BY <1>2 DEF Area!AddArea
  <2>2. a \notin added
    BY <2>1, AreasOK DEF Area!Disjoint
  <2>3. PICK S : LeadTo(S)
    BY DEF AreaInv
  <2>4. VmaOK(vma', S \cup {a})
    BY <2>1, <2>2, <2>3, AddedOK DEF LeadTo
  <2>5. IsFiniteSet(added') /\ added' \subseteq Areas
    BY <2>1, FS_AddElement DEF AreaInv
  <2>6. \A b, c \in added' : b # c => Area!Disjoint(b, c)
    BY <2>1 DEF AreaInv, Area!Disjoint
  <2>7. ASSUME NEW b \in added' PROVE Area!Start(vma'.head) <= Area!Start(b)
    <3>1. \A c \in S \cup {a} : Area!Start(vma'.head) <= Area!Start(c)
      BY <2>4 DEF VmaOK
    <3>2. CASE b = a
      BY <3>1, <3>2
    <3>3. CASE b \in added
      <4>1. vma.head \in S /\ Area!Start(vma.head) <= Area!Start(b)
        BY <2>3, <3>3 DEF LeadTo, VmaOK
      <4>2. Area!Start(vma'.head) <= Area!Start(vma.head)
        BY <3>1, <4>1
      <4>3. vma.head \in Areas /\ b \in Areas /\ vma'.head \in Areas
        BY <2>3, <2>4, <3>3, <4>1 DEF LeadTo, VmaOK, AreaInv
      <4>. QED
        BY <4>1, <4>2, <4>3, AreasOK
    <3>. QED
      BY <2>1, <3>2, <3>3
  <2>8. ASSUME NEW x \in added', NEW y \in added', added' = {x, y}
        PROVE  S \cup {a} = added'
    <3>1. CASE added = {}
      BY <2>1, <2>3, <3>1 DEF LeadTo
    <3>2. CASE added # {}
      <4>1. PICK b \in added : added = {b, b}
        BY <2>1, <2>2, <2>8, <3>2
      <4>. QED
        BY <2>1, <2>3, <4>1 DEF LeadTo
    <3>. QED
      BY <3>1, <3>2
  <2>9. LeadTo(S \cup {a})'
    BY <2>1, <2>3, <2>4, <2>7, <2>8 DEF LeadTo
  <2>. QED
    BY <2>5, <2>6, <2>9 DEF AreaInv
<1>. QED
  BY <1>1, <1>2

LEMMA ForkInv == AreaInv /\ Area!Fork => AreaInv'
<1>. SUFFICES ASSUME AreaInv, Area!Fork PROVE AreaInv'
  OBVIOUS
<1>1. PICK S : LeadTo(S)
  BY DEF AreaInv
<1>2. vma \in VmaType /\ vma.count \in Nat /\ added' = added
  BY <1>1, Zenon DEF LeadTo, VmaOK, VmaType, Area!Fork
<1>. DEFINE w == Area!Walk(vma)
            m == vma.count
<1>3. PICK f : /\ Copying(w, m, f)
               /\ halt' = ~f[m].ok /\ vma' = IF halt' THEN vma ELSE f[m].l
  <2>. DEFINE F(c) == [i \in 0 .. m |->
                          IF i = 0 THEN [l |-> Area!L!Empty, ok |-> TRUE]
                          ELSE LET d == c[i - 1]
                                   a == w[i]
                               IN  IF d.ok /\ Area!AddPasses(d.l, a)
                                   THEN [d EXCEPT !.l = Area!Added(@, a)] ELSE [d EXCEPT !.ok = FALSE]]
              copy == CHOOSE c : c = F(c)
  <2>1. halt' = ~copy[m].ok /\ vma' = IF halt' THEN vma ELSE copy[m].l
    BY Zenon DEF Area!Fork
  <2>2. \E c : c = F(c)
    <3>1. PICK c : Copying(w, m, c)
      BY <1>2, CopyingExists
    <3>. QED
      BY <3>1, Zenon DEF Copying
  <2>3. copy = F(copy)
    <3>. HIDE DEF F
    <3>. QED
      BY <2>2, Zenon
  <2>. HIDE DEF copy
  <2>4. Copying(w, m, copy)
    BY <2>3, Zenon DEF Copying
  <2>. QED
    BY <2>1, <2>4
<1>4. CASE halt'
  BY <1>2, <1>3, <1>4 DEF AreaInv, LeadTo
<1>5. CASE ~halt' /\ m = 0
  <2>1. f[0].l = Area!L!Empty
    BY <1>3, <1>5 DEF Copying
  <2>2. vma' = Area!L!Empty /\ S = {} /\ added = {}
    BY <1>1, <1>3, <1>5, <2>1 DEF LeadTo, VmaOK
  <2>3. LeadTo({})'
    BY <1>2, <2>2, EmptyVmaOK DEF LeadTo
  <2>. QED
    BY <1>2, <2>3 DEF AreaInv
<1>6. CASE ~halt' /\ m # 0
  <2>. DEFINE T == {w[j] : j \in 1 .. m}
  <2>1. /\ w \in [1 .. m -> S] /\ w[1] = vma.head /\ 1 \in 1 .. m
        /\ \A i \in 2 .. m : w[i] = vma.next[w[i - 1]]
    BY <1>1, <1>2, <1>6, AreaWalk DEF LeadTo
  <2>2. \A i, j \in 1 .. m : i # j => w[i] # w[j]
    BY Zenon DEF Area!Fork
  <2>3. w \in [1 .. m -> Areas] /\ S \subseteq added
    BY <1>1, <2>1 DEF LeadTo, VmaOK
  <2>4. f[m].ok \in BOOLEAN /\ (f[m].ok => VmaOK(f[m].l, T))
    <3>. HIDE DEF w, m
    <3>. QED
      BY <1>2, <1>3, <2>2, <2>3, CopiesOK DEF m
  <2>5. VmaOK(vma', T)
    BY <1>3, <1>6, <2>4
  <2>6. T \subseteq added /\ vma.head \in T
    BY <2>1, <2>3
  <2>7. ASSUME NEW a \in added PROVE Area!Start(vma'.head) <= Area!Start(a)
    <3>1. Area!Start(vma'.head) <= Area!Start(vma.head) /\ Area!Start(vma.head) <= Area!Start(a)
      BY <1>1, <2>5, <2>6 DEF LeadTo, VmaOK
    <3>2. vma'.head \in Areas /\ vma.head \in Areas /\ a \in Areas
      BY <2>3, <2>5, <2>6 DEF VmaOK, AreaInv
    <3>. QED
      BY <3>1, <3>2, AreasOK
  <2>8. ASSUME NEW x \in added, NEW y \in added, added = {x, y}
        PROVE  T = added
    <3>1. S = added /\ VmaOK(vma, S)
      BY <1>1, <2>8 DEF LeadTo
    <3>2. CASE x = y
      BY <2>6, <2>8, <3>2
    <3>3. CASE x # y
      <4>1. m = 2 /\ vma.next[x] = y /\ vma.next[y] = x
        BY <2>8, <3>1, <3>3 DEF VmaOK
      <4>2. w[2] = vma.next[w[1]] /\ w[2] \in T
        BY <2>1, <4>1
      <4>. HIDE DEF T, w
      <4>. QED
        BY <2>1, <2>6, <2>8, <4>1, <4>2
    <3>. QED
      BY <3>2, <3>3
  <2>9. PICK R : R = T
    OBVIOUS
  <2>. HIDE DEF T
  <2>10. LeadTo(R)'
    BY <1>2, <2>5, <2>6, <2>7, <2>8, <2>9 DEF LeadTo
  <2>. QED
    BY <1>2, <2>10 DEF AreaInv
<1>. QED
  BY <1>4, <1>5, <1>6

LEMMA NextAreaInv == AreaInv /\ [Area!Next]_areaVars => AreaInv'
<1>1. AreaInv /\ UNCHANGED areaVars => AreaInv'
  BY DEF AreaInv, LeadTo, areaVars
<1>. QED
  BY <1>1, AddAreaInv, ForkInv DEF Area!Next

LEMMA AtMostTwo ==
    ASSUME NEW A, IsFiniteSet(A), Cardinality(A) <= 2, A # {}
    PROVE  \E x, y \in A : A = {x, y}
<1>1. PICK x \in A : TRUE
  OBVIOUS
<1>2. IsFiniteSet(A \ {x}) /\ Cardinality(A \ {x}) = Cardinality(A) - 1
  BY FS_RemoveElement
<1>3. Cardinality(A) \in Nat
  BY FS_CardinalityType
<1>4. CASE A \ {x} = {}
  BY <1>4
<1>5. CASE A \ {x} # {}
  <2>1. PICK y \in A \ {x} : TRUE
    BY <1>5
  <2>2. IsFiniteSet((A \ {x}) \ {y}) /\ Cardinality((A \ {x}) \ {y}) = Cardinality(A \ {x}) - 1
    BY <1>2, <2>1, FS_RemoveElement
  <2>3. Cardinality((A \ {x}) \ {y}) \in Nat
    BY <2>2, FS_CardinalityType
  <2>4. Cardinality((A \ {x}) \ {y}) = 0
    BY <1>2, <1>3, <2>2, <2>3
  <2>5. (A \ {x}) \ {y} = {}
    BY <2>2, <2>4, FS_EmptySet
  <2>. QED
    BY <2>1, <2>5
<1>. QED
  BY <1>4, <1>5

\* With one or two areas the walk is in order and meets all of them.
LEMMA WalkMeets ==
    ASSUME AreaInv, added # {}, Cardinality(added) <= 2
    PROVE  LET w == Area!Walk(vma)
           IN  /\ Area!Sorted
               /\ vma.count \in Nat /\ w \in [1 .. vma.count -> added]
               /\ \A x \in added : \E i \in 1 .. vma.count : w[i] = x
<1>. DEFINE w == Area!Walk(vma)
<1>1. PICK S : LeadTo(S)
  BY DEF AreaInv
<1>2. PICK x \in added, y \in added : added = {x, y}
  BY AtMostTwo DEF AreaInv
<1>3. S = added /\ VmaOK(vma, added)
  BY <1>1, <1>2 DEF LeadTo
<1>4. /\ vma.count = (IF x = y THEN 1 ELSE 2) /\ vma.head \in added
      /\ vma.next[x] = y /\ vma.next[y] = x
      /\ \A a \in added : Area!Start(vma.head) <= Area!Start(a)
  BY <1>2, <1>3 DEF VmaOK
<1>5. /\ w \in [1 .. vma.count -> added] /\ w[1] = vma.head
      /\ \A i \in 2 .. vma.count : w[i] = vma.next[w[i - 1]]
  BY <1>3, <1>4, AreaWalk
<1>6. x # y => w[2] = vma.next[w[1]] /\ w[2] \in added /\ w[2] # w[1]
  BY <1>2, <1>4, <1>5
<1>7. ASSUME x # y PROVE Area!Start(w[1]) < Area!Start(w[2])
  <2>1. w[1] \in added /\ w[2] \in added /\ w[1] # w[2] /\ Area!Start(w[1]) <= Area!Start(w[2])
    BY <1>4, <1>5, <1>6, <1>7
  <2>2. Area!Disjoint(w[1], w[2]) /\ w[1] \in Areas /\ w[2] \in Areas
    BY <2>1 DEF AreaInv
  <2>. HIDE DEF w
  <2>. QED
    BY <2>1, <2>2, AreasOK DEF Area!Disjoint
<1>. HIDE DEF w
<1>8. \A i \in 1 .. vma.count - 1 : Area!Start(w[i]) < Area!Start(w[i + 1])
  BY <1>4, <1>7
<1>9. \A z \in added : \E i \in 1 .. vma.count : w[i] = z
  BY <1>2, <1>4, <1>5, <1>6
<1>. QED
  BY <1>4, <1>5, <1>8, <1>9 DEF Area!Sorted, w

\* However areas are added and copied, the head is the lowest, and one or two
\* areas are in order and found by their addresses, no page of another.
THEOREM LowestFirst == Spec => []HeadLowest
<1>1. Init => AreaInv
  BY InitAreaInv DEF Init
<1>2. AreaInv /\ [Next]_vars => AreaInv'
  BY Parts, NextAreaInv
<1>3. AreaInv => HeadLowest
  <2>. SUFFICES ASSUME AreaInv PROVE Area!HeadLowest
    BY DEF HeadLowest
  <2>1. Area!Cardinality(added) = Cardinality(added)
    BY DEF Area!Cardinality, Cardinality
  <2>2. PICK S : LeadTo(S)
    BY DEF AreaInv
  <2>3. added # {} => vma.head \in added /\ \A a \in added : Area!Start(vma.head) <= Area!Start(a)
    BY <2>2 DEF LeadTo, VmaOK
  <2>. DEFINE w == Area!Walk(vma)
  <2>4. ASSUME Cardinality(added) <= 2
        PROVE  /\ Area!Sorted
               /\ vma.count \in Nat /\ (\A i \in 1 .. vma.count : w[i] \in added)
               /\ \A x \in added : \E i \in 1 .. vma.count : w[i] = x
    <3>1. CASE added = {}
      <4>1. vma.count = 0
        BY <2>2, <3>1 DEF LeadTo, VmaOK
      <4>. QED
        BY <3>1, <4>1 DEF Area!Sorted
    <3>2. CASE added # {}
      BY <2>4, <3>2, WalkMeets
    <3>. QED
      BY <3>1, <3>2
  <2>5. ASSUME Cardinality(added) <= 2, NEW a \in Areas
        PROVE  Area!SearchVma(vma, Area!Start(a)) =
                   LET own == {b \in added : Area!Start(b) <= Area!Start(a) /\ Area!Start(a) < Area!End(b)}
                   IN  IF own = {} THEN Area!NoArea ELSE CHOOSE b \in own : TRUE
    <3>. DEFINE own == {b \in added : Area!Start(b) <= Area!Start(a) /\ Area!Start(a) < Area!End(b)}
                H == Area!Holding(vma, Area!Start(a))
                first == CHOOSE i \in H : \A j \in H : i <= j
    <3>1. H = {i \in 1 .. vma.count : w[i] \in own}
      BY <2>4, <2>5 DEF Area!Holding
    <3>2. Area!SearchVma(vma, Area!Start(a)) = IF H = {} THEN Area!NoArea ELSE w[first]
      BY Zenon DEF Area!SearchVma
    <3>3. \A b, c \in own : b = c
      BY AreasOK DEF AreaInv, Area!Disjoint
    <3>. HIDE DEF w
    <3>4. H = {} <=> own = {}
      BY <2>4, <2>5, <3>1
    <3>. HIDE DEF own, H
    <3>5. H # {} => first \in H
      <4>1. H \in SUBSET Nat
        BY <2>4, <2>5, <3>1
      <4>2. H # {} => \E i \in H : \A j \in H : i <= j
        BY <4>1, LeastExists
      <4>. QED
        BY <4>2, Zenon
    <3>. HIDE DEF first
    <3>6. H # {} => w[first] \in own
      BY <3>1, <3>5
    <3>7. own # {} => (CHOOSE b \in own : TRUE) \in own
      BY Zenon
    <3>8. own # {} => w[first] = CHOOSE b \in own : TRUE
      BY <3>3, <3>4, <3>6, <3>7
    <3>. QED
      BY <3>2, <3>4, <3>8 DEF own
  <2>. QED
    BY <2>1, <2>3, <2>4, <2>5 DEF Area!HeadLowest
<1>. QED
  BY <1>1, <1>2, <1>3, PTL DEF Spec

-----------------------------------------------------------------------------
(* Linker: sequences put together, and their sums.                         *)

LEMMA FlattenJoins ==
    ASSUME NEW S, NEW ss \in Seq(S), Len(ss) # 0
    PROVE  \E w : Joins(w, ss) /\ Link!Flattened(ss) = w[Len(ss)]
<1>. DEFINE w == CHOOSE w : w = [i \in 1 .. Len(ss) |-> IF i = 1 THEN ss[i] ELSE w[i - 1] \o ss[i]]
<1>1. \E v : v = [i \in 1 .. Len(ss) |-> IF i = 1 THEN ss[i] ELSE v[i - 1] \o ss[i]]
  BY JoinsExist, Zenon DEF Joins
<1>2. w = [i \in 1 .. Len(ss) |-> IF i = 1 THEN ss[i] ELSE w[i - 1] \o ss[i]]
  BY <1>1, Zenon
<1>3. Link!Flattened(ss) = w[Len(ss)]
  BY Zenon DEF Link!Flattened
<1>. QED
  BY <1>2, <1>3, Zenon DEF Joins

LEMMA TotalIs ==
    ASSUME NEW a \in Seq(Nat)
    PROVE  \E f : Sums(f, a) /\ Link!Total(a) = f[Len(a)]
<1>. DEFINE f == CHOOSE f : f = [m \in 0 .. Len(a) |-> IF m = 0 THEN 0 ELSE f[m - 1] + a[m]]
<1>1. \E g : g = [m \in 0 .. Len(a) |-> IF m = 0 THEN 0 ELSE g[m - 1] + a[m]]
  BY SumsExist, Zenon DEF Sums, SumsTo
<1>2. f = [m \in 0 .. Len(a) |-> IF m = 0 THEN 0 ELSE f[m - 1] + a[m]]
  BY <1>1, Zenon
<1>3. Link!Total(a) = f[Len(a)]
  BY Zenon DEF Link!Total
<1>. QED
  BY <1>2, <1>3, Zenon DEF Sums, SumsTo

LEMMA TotalNat ==
    ASSUME NEW a \in Seq(Nat)
    PROVE  Link!Total(a) \in Nat /\ \A k \in 1 .. Len(a) : a[k] # 0 => Link!Total(a) > 0
<1>1. PICK f : Sums(f, a) /\ Link!Total(a) = f[Len(a)]
  BY TotalIs
<1>2. f[Len(a)] \in Nat
  <2>1. Len(a) \in 0 .. Len(a)
    OBVIOUS
  <2>. QED
    BY <1>1, <2>1, SumsCount
<1>. QED
  BY <1>1, <1>2, SumsPositive

LEMMA SameTotal ==
    ASSUME NEW a \in Seq(Nat), NEW b \in Seq(Nat), NEW pi, Renumbers(pi, b, a)
    PROVE  Link!Total(a) = Link!Total(b)
<1>1. PICK f : Sums(f, a) /\ Link!Total(a) = f[Len(a)]
  BY TotalIs
<1>2. PICK g : Sums(g, b) /\ Link!Total(b) = g[Len(b)]
  BY TotalIs
<1>. QED
  BY <1>1, <1>2, SameSum

\* The sum of the first k numbers.
LEMMA TotalBegin ==
    ASSUME NEW a \in Seq(Nat), NEW f, Sums(f, a), NEW k \in 0 .. Len(a)
    PROVE  Link!Total([i \in 1 .. k |-> a[i]]) = f[k]
<1>. DEFINE b == [i \in 1 .. k |-> a[i]]
<1>1. k \in Nat /\ \A i \in 1 .. k : a[i] \in Nat
  OBVIOUS
<1>2. b \in Seq(Nat) /\ Len(b) = k /\ \A i \in 1 .. k : b[i] = a[i]
  BY <1>1
<1>. HIDE DEF b
<1>3. PICK g : Sums(g, b) /\ Link!Total(b) = g[Len(b)]
  BY <1>2, TotalIs
<1>4. SumsTo(g, a, k)
  <2>1. g = [m \in 0 .. k |-> IF m = 0 THEN 0 ELSE g[m - 1] + b[m]]
    BY <1>2, <1>3 DEF Sums, SumsTo
  <2>2. \A m \in 0 .. k : m = 0 \/ m \in 1 .. k
    BY <1>1
  <2>3. \A m \in 0 .. k : (IF m = 0 THEN 0 ELSE g[m - 1] + b[m]) = (IF m = 0 THEN 0 ELSE g[m - 1] + a[m])
    BY <1>2, <2>2
  <2>4. [m \in 0 .. k |-> IF m = 0 THEN 0 ELSE g[m - 1] + b[m]]
        = [m \in 0 .. k |-> IF m = 0 THEN 0 ELSE g[m - 1] + a[m]]
    BY <2>3
  <2>. QED
    BY <2>1, <2>4 DEF SumsTo
<1>5. g[k] = f[k]
  BY <1>4, SumsBegin
<1>. QED
  BY <1>2, <1>3, <1>5 DEF b

LEMMA TotalIsOf ==
    ASSUME NEW a \in Seq(Nat), NEW f, Sums(f, a)
    PROVE  Link!Total(a) = f[Len(a)]
<1>1. PICK g : Sums(g, a) /\ Link!Total(a) = g[Len(a)]
  BY TotalIs
<1>2. Len(a) \in 0 .. Len(a) /\ SumsTo(g, a, Len(a))
  BY <1>1 DEF Sums
<1>. QED
  BY <1>1, <1>2, SumsBegin

\* Sums of at most three numbers.
LEMMA TotalShort ==
    ASSUME NEW a \in Seq(Nat)
    PROVE  /\ Len(a) = 0 => Link!Total(a) = 0
           /\ Len(a) = 1 => Link!Total(a) = a[1]
           /\ Len(a) = 2 => Link!Total(a) = a[1] + a[2]
           /\ Len(a) = 3 => Link!Total(a) = a[1] + a[2] + a[3]
<1>1. PICK f : Sums(f, a) /\ Link!Total(a) = f[Len(a)]
  BY TotalIs
<1>2. Len(a) \in Nat /\ f[0] = 0 /\ \A m \in 1 .. Len(a) : a[m] \in Nat /\ f[m] = f[m - 1] + a[m]
  BY <1>1, SumsStep DEF Sums
<1>3. 1 - 1 = 0 /\ 2 - 1 = 1 /\ 3 - 1 = 2
  OBVIOUS
<1>4. CASE Len(a) = 0
  BY <1>1, <1>2, <1>4
<1>5. ASSUME Len(a) >= 1 PROVE a[1] \in Nat /\ f[1] = a[1]
  <2>1. a[1] \in Nat /\ f[1] = f[1 - 1] + a[1]
    BY <1>2, <1>5
  <2>. QED
    BY <1>2, <1>3, <2>1
<1>6. ASSUME Len(a) >= 2 PROVE a[2] \in Nat /\ f[2] = a[1] + a[2]
  <2>1. a[2] \in Nat /\ f[2] = f[2 - 1] + a[2]
    BY <1>2, <1>6
  <2>2. f[1] = a[1]
    BY <1>2, <1>5, <1>6
  <2>. QED
    BY <1>3, <2>1, <2>2
<1>7. ASSUME Len(a) = 3 PROVE f[3] = a[1] + a[2] + a[3]
  <2>1. a[3] \in Nat /\ f[3] = f[3 - 1] + a[3]
    BY <1>2, <1>7
  <2>2. f[2] = a[1] + a[2]
    BY <1>6, <1>7
  <2>. QED
    BY <1>3, <2>1, <2>2
<1>8. Len(a) \in {1, 2, 3} => Len(a) >= 1 /\ (Len(a) \in {2, 3} => Len(a) >= 2)
  OBVIOUS
<1>. QED
  BY <1>1, <1>4, <1>5, <1>6, <1>7, <1>8

\* A flattened sequence, and where a member of it stands.
LEMMA FlattenAt ==
    ASSUME NEW S, NEW ss \in Seq(Seq(S)), NEW lens, Lengths(lens, ss), NEW f, Sums(f, lens)
    PROVE  /\ Link!Flattened(ss) \in Seq(S) /\ Len(Link!Flattened(ss)) = f[Len(ss)]
           /\ \A i \in 1 .. Len(ss) : \A t \in 1 .. Len(ss[i]) :
                 Link!Flattened(ss)[f[i - 1] + t] = ss[i][t]
<1>0. Len(ss) \in Nat
  OBVIOUS
<1>1. CASE Len(ss) = 0
  <2>1. Link!Flattened(ss) = ss /\ ss = <<>>
    BY <1>1 DEF Link!Flattened
  <2>2. Len(lens) = 0
    BY <1>1 DEF Lengths
  <2>3. f[0] = 0
    <3>1. SumsTo(f, lens, 0)
      BY <2>2 DEF Sums
    <3>. QED
      BY <3>1, SumsStep
  <2>. QED
    BY <1>1, <2>1, <2>3
<1>2. CASE Len(ss) # 0
  <2>1. PICK w : Joins(w, ss) /\ Link!Flattened(ss) = w[Len(ss)]
    BY <1>2, FlattenJoins
  <2>2. Len(ss) \in 1 .. Len(ss)
    BY <1>0, <1>2
  <2>. QED
    BY <2>1, <2>2, JoinsAt
<1>. QED
  BY <1>1, <1>2

LEMMA FlattenIn ==
    ASSUME NEW S, NEW ss \in Seq(Seq(S))
    PROVE  /\ Link!Flattened(ss) \in Seq(S)
           /\ \A x : In(x, Link!Flattened(ss)) <=> InFirst(x, ss, Len(ss))
           /\ (\A j \in 1 .. Len(ss) : Distinct(ss[j]))
                 /\ (\A x : \A g, j \in 1 .. Len(ss) : In(x, ss[g]) /\ In(x, ss[j]) => g = j)
              => Distinct(Link!Flattened(ss))
<1>0. Len(ss) \in Nat
  OBVIOUS
<1>1. CASE Len(ss) = 0
  <2>1. Link!Flattened(ss) = <<>>
    BY <1>1 DEF Link!Flattened
  <2>. QED
    BY <1>1, <2>1 DEF In, InFirst, Distinct
<1>2. CASE Len(ss) # 0
  <2>1. PICK w : Joins(w, ss) /\ Link!Flattened(ss) = w[Len(ss)]
    BY <1>2, FlattenJoins
  <2>2. Len(ss) \in 1 .. Len(ss)
    BY <1>0, <1>2
  <2>3. w[Len(ss)] \in Seq(S) /\ \A x : In(x, w[Len(ss)]) <=> InFirst(x, ss, Len(ss))
    BY <2>1, <2>2, JoinsAre
  <2>4. (\A j \in 1 .. Len(ss) : Distinct(ss[j]))
          /\ (\A x : \A g, j \in 1 .. Len(ss) : In(x, ss[g]) /\ In(x, ss[j]) => g = j)
        => Distinct(w[Len(ss)])
    BY <2>1, <2>2, JoinsDistinct
  <2>. QED
    BY <2>1, <2>3, <2>4
<1>. QED
  BY <1>1, <1>2

LEMMA ShortOnes ==
    /\ \A x, y : (In(x, <<y>>) <=> x = y) /\ ~ In(x, <<>>)
    /\ \A y : Distinct(<<y>>) /\ Distinct(<<>>)
BY DEF In, Distinct

LEMMA ThoseAre ==
    ASSUME NEW S, NEW s \in Seq(S), NEW T
    PROVE  /\ Link!Those(s, T) \in Seq(S)
           /\ \A x : In(x, Link!Those(s, T)) <=> In(x, s) /\ x \in T
           /\ Distinct(s) => Distinct(Link!Those(s, T))
<1>. DEFINE ss == [i \in DOMAIN s |-> IF s[i] \in T THEN <<s[i]>> ELSE <<>>]
<1>1. DOMAIN s = 1 .. Len(s) /\ Len(s) \in Nat
  OBVIOUS
<1>2. \A i \in 1 .. Len(s) : ss[i] = (IF s[i] \in T THEN <<s[i]>> ELSE <<>>) /\ ss[i] \in Seq(S)
  BY <1>1
<1>3. ss \in Seq(Seq(S)) /\ Len(ss) = Len(s)
  <2>1. ss = [i \in 1 .. Len(s) |-> ss[i]]
    BY <1>1
  <2>. HIDE DEF ss
  <2>. DEFINE all == Seq(S)
  <2>3. \A i \in 1 .. Len(s) : ss[i] \in all
    BY <1>2
  <2>. HIDE DEF all
  <2>4. [i \in 1 .. Len(s) |-> ss[i]] \in Seq(all) /\ Len([i \in 1 .. Len(s) |-> ss[i]]) = Len(s)
    BY <1>1, <2>3
  <2>2. [i \in 1 .. Len(s) |-> ss[i]] \in Seq(Seq(S)) /\ Len([i \in 1 .. Len(s) |-> ss[i]]) = Len(s)
    BY <2>4 DEF all
  <2>. QED
    BY <2>1, <2>2
<1>4. Link!Those(s, T) = Link!Flattened(ss)
  BY DEF Link!Those
<1>. HIDE DEF ss
<1>5. \A x : \A i \in 1 .. Len(s) : In(x, ss[i]) <=> s[i] \in T /\ x = s[i]
  <2>. SUFFICES ASSUME NEW x, NEW i \in 1 .. Len(s) PROVE In(x, ss[i]) <=> s[i] \in T /\ x = s[i]
    OBVIOUS
  <2>1. CASE s[i] \in T
    <3>1. ss[i] = <<s[i]>>
      BY <1>2, <2>1
    <3>2. In(x, <<s[i]>>) <=> x = s[i]
      BY ShortOnes, Zenon
    <3>. QED
      BY <2>1, <3>1, <3>2, Zenon
  <2>2. CASE s[i] \notin T
    BY <1>2, <2>2, ShortOnes
  <2>. QED
    BY <2>1, <2>2
<1>6. \A x : In(x, Link!Flattened(ss)) <=> In(x, s) /\ x \in T
  <2>1. \A x : In(x, Link!Flattened(ss)) <=> InFirst(x, ss, Len(ss))
    BY <1>3, FlattenIn
  <2>2. \A x : InFirst(x, ss, Len(ss)) <=> \E i \in 1 .. Len(s) : In(x, ss[i])
    BY <1>3 DEF InFirst
  <2>3. \A x : (\E i \in 1 .. Len(s) : In(x, ss[i])) <=> In(x, s) /\ x \in T
    BY <1>5, Zenon DEF In
  <2>. QED
    BY <2>1, <2>2, <2>3
<1>7. ASSUME Distinct(s) PROVE Distinct(Link!Flattened(ss))
  <2>1. \A j \in 1 .. Len(ss) : Distinct(ss[j])
    <3>. SUFFICES ASSUME NEW j \in 1 .. Len(s) PROVE Distinct(ss[j])
      BY <1>3
    <3>1. CASE s[j] \in T
      <4>1. ss[j] = <<s[j]>>
        BY <1>2, <3>1
      <4>. QED
        BY <4>1, ShortOnes, Zenon
    <3>2. CASE s[j] \notin T
      BY <1>2, <3>2, ShortOnes
    <3>. QED
      BY <3>1, <3>2
  <2>2. \A x : \A g, j \in 1 .. Len(ss) : In(x, ss[g]) /\ In(x, ss[j]) => g = j
    BY <1>3, <1>5, <1>7 DEF Distinct
  <2>. QED
    BY <1>3, <2>1, <2>2, FlattenIn
<1>. QED
  BY <1>3, <1>4, <1>6, <1>7, FlattenIn

-----------------------------------------------------------------------------
(* Linker: symbol resolution.                                              *)

Pointer == Nat \X Nat

\* Symbols and Sym of the files in F
SymbolsOf(F) == Link!Flattened([i \in DOMAIN F |-> [j \in DOMAIN F[i].symt |-> <<i, j>>]])
SymOf(F, x) == F[x[1]].symt[x[2]]

LEMMA SymbolsOfAre ==
    ASSUME NEW F, Link!Regular(F)
    PROVE  /\ SymbolsOf(F) \in Seq(Pointer) /\ Distinct(SymbolsOf(F))
           /\ \A x : In(x, SymbolsOf(F)) =>
                 /\ x \in Pointer /\ x[1] \in DOMAIN F /\ x[2] \in DOMAIN F[x[1]].symt
                 /\ SymOf(F, x).bind = "GLOBAL" => Link!Precedence(SymOf(F, x)) \in 0 .. 2
                 /\ SymOf(F, x).bind = "LOCAL" => Link!Precedence(SymOf(F, x)) = 2
           /\ \A i \in DOMAIN F : \A j \in DOMAIN F[i].symt : In(<<i, j>>, SymbolsOf(F))
<1>. DEFINE ss == [i \in DOMAIN F |-> [j \in DOMAIN F[i].symt |-> <<i, j>>]]
            All == Link!Members(F)
<1>1. F \in Seq(All) /\ DOMAIN F = 1 .. Len(F) /\ Len(F) \in Nat
  BY DEF Link!Regular
<1>2. ASSUME NEW i \in 1 .. Len(F)
      PROVE  /\ DOMAIN F[i].symt = 1 .. Len(F[i].symt) /\ Len(F[i].symt) \in Nat
             /\ ss[i] \in Seq(Pointer) /\ Len(ss[i]) = Len(F[i].symt)
             /\ \A j \in 1 .. Len(F[i].symt) : ss[i][j] = <<i, j>>
  <2>1. F[i].symt \in Seq(Link!Symbol)
    BY <1>1 DEF Link!Regular
  <2>. DEFINE t == F[i].symt
  <2>2. DOMAIN t = 1 .. Len(t) /\ Len(t) \in Nat
    BY <2>1
  <2>3. ss[i] = [j \in 1 .. Len(t) |-> <<i, j>>]
    BY <1>1, <2>2
  <2>. HIDE DEF t, ss
  <2>4. [j \in 1 .. Len(t) |-> <<i, j>>] \in Seq(Pointer)
    BY <1>1, <2>2 DEF Pointer
  <2>. QED
    BY <2>2, <2>3, <2>4 DEF t
<1>3. ss \in Seq(Seq(Pointer)) /\ Len(ss) = Len(F)
  <2>1. ss = [i \in 1 .. Len(F) |-> ss[i]]
    BY <1>1
  <2>. HIDE DEF ss
  <2>2. [i \in 1 .. Len(F) |-> ss[i]] \in Seq(Seq(Pointer))
    BY <1>1, <1>2
  <2>. QED
    BY <1>1, <2>1, <2>2
<1>. HIDE DEF ss
<1>4. \A x : \A i \in 1 .. Len(ss) :
         In(x, ss[i]) => x[1] = i /\ x \in Pointer /\ x[2] \in 1 .. Len(F[i].symt)
  <2>. SUFFICES ASSUME NEW x, NEW i \in 1 .. Len(ss), In(x, ss[i])
                PROVE  x[1] = i /\ x \in Pointer /\ x[2] \in 1 .. Len(F[i].symt)
    OBVIOUS
  <2>1. PICK j \in 1 .. Len(ss[i]) : ss[i][j] = x
    BY DEF In
  <2>3. i \in 1 .. Len(F)
    BY <1>3
  <2>4. j \in 1 .. Len(F[i].symt) /\ ss[i][j] = <<i, j>> /\ Len(F[i].symt) \in Nat
    BY <1>2, <2>3
  <2>2. j \in 1 .. Len(F[i].symt) /\ x = <<i, j>> /\ i \in Nat /\ j \in Nat
    BY <1>1, <2>1, <2>3, <2>4
  <2>. QED
    BY <2>2 DEF Pointer
<1>5. \A i \in 1 .. Len(ss) : Distinct(ss[i])
  <2>. SUFFICES ASSUME NEW i \in 1 .. Len(ss), NEW k \in 1 .. Len(ss[i]), NEW l \in 1 .. Len(ss[i]),
                       ss[i][k] = ss[i][l]
                PROVE  k = l
    BY DEF Distinct
  <2>1. ss[i][k] = <<i, k>> /\ ss[i][l] = <<i, l>>
    BY <1>2, <1>3
  <2>2. <<i, k>> = <<i, l>>
    BY <2>1
  <2>. QED
    BY <2>2
<1>8. \A i \in DOMAIN F : \A j \in DOMAIN F[i].symt : In(<<i, j>>, ss[i]) /\ i \in 1 .. Len(ss)
  <2>. SUFFICES ASSUME NEW i \in DOMAIN F, NEW j \in DOMAIN F[i].symt
                PROVE  In(<<i, j>>, ss[i]) /\ i \in 1 .. Len(ss)
    OBVIOUS
  <2>1. i \in 1 .. Len(F) /\ j \in 1 .. Len(ss[i]) /\ ss[i][j] = <<i, j>>
    BY <1>1, <1>2
  <2>. QED
    BY <1>3, <2>1 DEF In
<1>6. CASE Len(ss) = 0
  <2>1. SymbolsOf(F) = ss
    BY <1>6 DEF SymbolsOf, Link!Flattened, ss
  <2>2. ss = <<>> /\ 1 .. Len(ss) = {}
    BY <1>3, <1>6
  <2>3. \A i \in DOMAIN F : FALSE
    BY <1>1, <1>3, <2>2
  <2>. QED
    BY <2>1, <2>2, <2>3 DEF Distinct, In
<1>7. CASE Len(ss) # 0
  <2>1. PICK w : Joins(w, ss) /\ Link!Flattened(ss) = w[Len(ss)]
    BY <1>3, <1>7, FlattenJoins
  <2>2. SymbolsOf(F) = w[Len(ss)]
    BY <2>1 DEF SymbolsOf, ss
  <2>3. Len(ss) \in 1 .. Len(ss)
    BY <1>1, <1>3, <1>7
  <2>4. w[Len(ss)] \in Seq(Pointer) /\ \A x : In(x, w[Len(ss)]) <=> InFirst(x, ss, Len(ss))
    BY <1>3, <2>1, <2>3, JoinsAre
  <2>5. Distinct(w[Len(ss)])
    <3>1. \A x : \A g, j \in 1 .. Len(ss) : In(x, ss[g]) /\ In(x, ss[j]) => g = j
      BY <1>4
    <3>. QED
      BY <1>3, <1>5, <2>1, <2>3, <3>1, JoinsDistinct
  <2>6. ASSUME NEW x, In(x, w[Len(ss)])
        PROVE  /\ x \in Pointer /\ x[1] \in DOMAIN F /\ x[2] \in DOMAIN F[x[1]].symt
               /\ SymOf(F, x).bind = "GLOBAL" => Link!Precedence(SymOf(F, x)) \in 0 .. 2
               /\ SymOf(F, x).bind = "LOCAL" => Link!Precedence(SymOf(F, x)) = 2
    <3>1. PICK i \in 1 .. Len(ss) : In(x, ss[i])
      BY <2>4, <2>6 DEF InFirst
    <3>2. x[1] = i /\ x \in Pointer /\ x[2] \in 1 .. Len(F[i].symt) /\ i \in DOMAIN F
      BY <1>1, <1>3, <1>4, <3>1
    <3>4. x[2] \in DOMAIN F[i].symt
      BY <1>2, <1>3, <3>2
    <3>3. SymOf(F, x) \in Link!Members(F[i].symt)
      BY <1>2, <1>3, <3>2 DEF SymOf, Link!Members
    <3>. QED
      BY <3>2, <3>3, <3>4 DEF Link!Regular
  <2>7. \A i \in DOMAIN F : \A j \in DOMAIN F[i].symt : In(<<i, j>>, w[Len(ss)])
    BY <1>8, <2>4, Zenon DEF InFirst
  <2>. QED
    BY <2>2, <2>4, <2>5, <2>6, <2>7
<1>. QED
  BY <1>6, <1>7

\* t is what is left of s behind the first m
Rest(t, s, m) ==
    /\ m \in 0 .. Len(s) /\ t \in Seq(Pointer) /\ Len(t) = Len(s) - m
    /\ \A i \in 1 .. Len(t) : t[i] = s[m + i]

FirstOnes(s, m) == {s[i] : i \in 1 .. m}

\* a and b declare one global name
SameName(F, a, b) ==
    /\ SymOf(F, a).bind = "GLOBAL" /\ SymOf(F, b).bind = "GLOBAL"
    /\ SymOf(F, a).name = SymOf(F, b).name

\* of these two the code keeps a
Keeps(F, a, b) ==
    /\ Link!Precedence(SymOf(F, a)) >= Link!Precedence(SymOf(F, b))
    /\ a # b => Link!Precedence(SymOf(F, a)) + Link!Precedence(SymOf(F, b)) < 4

\* map resolves the symbols in D
MapOK(F, map, D) ==
    /\ map \in Seq([src : Pointer, dst : {0}])
    /\ \A h \in 1 .. Len(map) :
          map[h].src \in D /\ SymOf(F, map[h].src).bind \in {"LOCAL", "GLOBAL"}
    /\ \A h, k \in 1 .. Len(map) :
          map[h].src = map[k].src \/ SameName(F, map[h].src, map[k].src) => h = k
    /\ \A x \in D : SymOf(F, x).bind = "LOCAL" => \E h \in 1 .. Len(map) : map[h].src = x
    /\ \A x \in D : SymOf(F, x).bind = "GLOBAL" =>
          \E h \in 1 .. Len(map) : SameName(F, map[h].src, x) /\ Keeps(F, map[h].src, x)

LEMMA EmptyMapOK == ASSUME NEW F PROVE MapOK(F, <<>>, {})
BY DEF MapOK

\* the head of t is read
ReadsOne(t, s, m) ==
    /\ m + 1 \in 1 .. Len(s) /\ Head(t) = s[m + 1] /\ Rest(Tail(t), s, m + 1)
    /\ FirstOnes(s, m + 1) = FirstOnes(s, m) \cup {Head(t)}

LEMMA RestHead ==
    ASSUME NEW s \in Seq(Pointer), NEW t, NEW m, Rest(t, s, m), t # <<>>
    PROVE  ReadsOne(t, s, m)
<1>1. Len(s) \in Nat /\ m \in 0 .. Len(s) /\ t \in Seq(Pointer) /\ Len(t) = Len(s) - m
  BY DEF Rest
<1>2. Len(t) >= 1 /\ Head(t) = t[1]
  BY <1>1
<1>3. m + 1 \in 1 .. Len(s) /\ Head(t) = s[m + 1]
  BY <1>1, <1>2 DEF Rest
<1>4. Rest(Tail(t), s, m + 1)
  <2>1. Tail(t) \in Seq(Pointer) /\ Len(Tail(t)) = Len(t) - 1
    BY <1>1, <1>2
  <2>2. \A i \in 1 .. Len(t) - 1 : Tail(t)[i] = t[i + 1]
    BY <1>1, <1>2
  <2>3. \A i \in 1 .. Len(t) - 1 : i + 1 \in 1 .. Len(t) /\ m + (i + 1) = (m + 1) + i
    BY <1>1
  <2>4. \A i \in 1 .. Len(t) - 1 : t[i + 1] = s[(m + 1) + i]
    BY <2>3 DEF Rest
  <2>. QED
    BY <1>1, <1>3, <2>1, <2>2, <2>4 DEF Rest
<1>5. FirstOnes(s, m + 1) = FirstOnes(s, m) \cup {s[m + 1]}
  <2>1. \A i : i \in 1 .. m + 1 <=> i \in 1 .. m \/ i = m + 1
    BY <1>1
  <2>. QED
    BY <2>1 DEF FirstOnes
<1>. QED
  BY <1>3, <1>4, <1>5 DEF ReadsOne

LEMMA NotRead ==
    ASSUME NEW s \in Seq(Pointer), Distinct(s), NEW m \in 0 .. Len(s), m + 1 \in 1 .. Len(s)
    PROVE  s[m + 1] \notin FirstOnes(s, m)
<1>1. \A i \in 1 .. m : i \in 1 .. Len(s) /\ i # m + 1
  OBVIOUS
<1>. QED
  BY <1>1 DEF FirstOnes, Distinct

LEMMA EnteredOK ==
    ASSUME NEW F, NEW map, NEW D, MapOK(F, map, D), NEW x \in Pointer, x \notin D,
           SymOf(F, x).bind \in {"LOCAL", "GLOBAL"},
           \/ SymOf(F, x).bind = "LOCAL"
           \/ \A k \in 1 .. Len(map) : ~ SameName(F, map[k].src, x),
           Link!Precedence(SymOf(F, x)) \in 0 .. 2
    PROVE  MapOK(F, Append(map, [src |-> x, dst |-> 0]), D \cup {x})
<1>. DEFINE e == [src |-> x, dst |-> 0]
            new == Append(map, e)
            Entry == [src : Pointer, dst : {0}]
<1>1. map \in Seq(Entry) /\ e \in Entry /\ e.src = x
  BY DEF MapOK
<1>2. /\ new \in Seq(Entry) /\ Len(new) = Len(map) + 1 /\ Len(map) \in Nat
      /\ \A k \in 1 .. Len(map) : new[k] = map[k]
      /\ new[Len(map) + 1] = e
  <2>. HIDE DEF e, Entry
  <2>. QED
    BY <1>1
<1>. HIDE DEF e, new
<1>3. \A k : k \in 1 .. Len(new) <=> k \in 1 .. Len(map) \/ k = Len(map) + 1
  BY <1>2
<1>4. \A k \in 1 .. Len(map) : new[k].src = map[k].src /\ new[k].src \in D /\ new[k].src # x
  BY <1>2 DEF MapOK
<1>5. new[Len(map) + 1].src = x
  BY <1>1, <1>2
<1>6. \A k \in 1 .. Len(map) : ~ SameName(F, map[k].src, x)
  BY DEF SameName
<1>7. \A a, b : SameName(F, a, b) => SameName(F, b, a)
  BY DEF SameName
<1>8. Keeps(F, x, x) /\ (SymOf(F, x).bind = "GLOBAL" => SameName(F, x, x))
  BY DEF Keeps, SameName
<1>9. \A h \in 1 .. Len(new) :
         new[h].src \in D \cup {x} /\ SymOf(F, new[h].src).bind \in {"LOCAL", "GLOBAL"}
  BY <1>3, <1>4, <1>5 DEF MapOK
<1>10. \A h, k \in 1 .. Len(new) :
          new[h].src = new[k].src \/ SameName(F, new[h].src, new[k].src) => h = k
  <2>. SUFFICES ASSUME NEW h \in 1 .. Len(new), NEW k \in 1 .. Len(new),
                       new[h].src = new[k].src \/ SameName(F, new[h].src, new[k].src)
                PROVE  h = k
    OBVIOUS
  <2>1. CASE h \in 1 .. Len(map) /\ k \in 1 .. Len(map)
    BY <1>4, <2>1 DEF MapOK
  <2>2. CASE h \in 1 .. Len(map) /\ k = Len(map) + 1
    BY <1>4, <1>5, <1>6, <2>2
  <2>3. CASE h = Len(map) + 1 /\ k \in 1 .. Len(map)
    BY <1>4, <1>5, <1>6, <1>7, <2>3
  <2>. QED
    BY <1>3, <2>1, <2>2, <2>3
<1>11. \A y \in D \cup {x} : SymOf(F, y).bind = "LOCAL" => \E h \in 1 .. Len(new) : new[h].src = y
  BY <1>3, <1>4, <1>5 DEF MapOK
<1>12. ASSUME NEW y \in D \cup {x}, SymOf(F, y).bind = "GLOBAL"
       PROVE  \E h \in 1 .. Len(new) : SameName(F, new[h].src, y) /\ Keeps(F, new[h].src, y)
  <2>1. CASE y = x
    BY <1>3, <1>5, <1>8, <1>12, <2>1
  <2>2. CASE y \in D
    <3>1. PICK h \in 1 .. Len(map) : SameName(F, map[h].src, y) /\ Keeps(F, map[h].src, y)
      BY <1>12, <2>2 DEF MapOK
    <3>. QED
      BY <1>3, <1>4, <3>1
  <2>. QED
    BY <2>1, <2>2
<1>. QED
  BY <1>2, <1>9, <1>10, <1>11, <1>12 DEF MapOK, new, e

Prec(F, x) == Link!Precedence(SymOf(F, x))

\* the map when x has met the entry k
ResolvedMap(F, map, k, x) ==
    IF Link!Wins(Prec(F, x), Prec(F, map[k].src)) THEN [map EXCEPT ![k].src = x] ELSE map

LEMMA ResolvedOK ==
    ASSUME NEW F, NEW map, NEW D, MapOK(F, map, D), NEW x \in Pointer, x \notin D,
           NEW k \in 1 .. Len(map), SameName(F, map[k].src, x),
           \A y \in D \cup {x} : SymOf(F, y).bind = "GLOBAL" => Link!Precedence(SymOf(F, y)) \in 0 .. 2,
           ~ (Prec(F, x) = 2 /\ Prec(F, map[k].src) = 2)
    PROVE  MapOK(F, ResolvedMap(F, map, k, x), D \cup {x})
<1>. PICK pre1, pre2 : pre1 = Link!Precedence(SymOf(F, x)) /\ pre2 = Link!Precedence(SymOf(F, map[k].src))
  OBVIOUS
<1>0. /\ ~ (pre1 = 2 /\ pre2 = 2)
      /\ ResolvedMap(F, map, k, x) = IF Link!Wins(pre1, pre2) THEN [map EXCEPT ![k].src = x] ELSE map
  BY DEF Prec, ResolvedMap
<1>. DEFINE old == map[k].src
            Entry == [src : Pointer, dst : {0}]
<1>1. old \in D /\ SymOf(F, old).bind = "GLOBAL" /\ SymOf(F, x).bind = "GLOBAL"
  BY DEF MapOK, SameName
<1>2. pre1 \in 0 .. 2 /\ pre2 \in 0 .. 2
  BY <1>1
<1>3. /\ \A a, b : SameName(F, a, b) => SameName(F, b, a)
      /\ \A a, b, c : SameName(F, a, b) /\ SameName(F, b, c) => SameName(F, a, c)
  BY DEF SameName
<1>4. CASE ~ Link!Wins(pre1, pre2)
  <2>1. Keeps(F, old, x)
    BY <1>0, <1>2, <1>4 DEF Keeps, Link!Wins
  <2>2. SameName(F, map[k].src, x) /\ Keeps(F, map[k].src, x)
    BY <2>1
  <2>. QED
    BY <1>0, <1>1, <1>4, <2>2 DEF MapOK
<1>5. CASE Link!Wins(pre1, pre2)
  <2>. DEFINE new == [map EXCEPT ![k].src = x]
  <2>0. map \in Seq(Entry)
    BY DEF MapOK
  <2>1. map[k] \in Entry
    <3>. HIDE DEF Entry
    <3>. QED
      BY <2>0
  <2>2. /\ new \in Seq(Entry) /\ Len(new) = Len(map) /\ new[k].src = x
        /\ \A h \in 1 .. Len(map) : h # k => new[h] = map[h]
    <3>. DEFINE e == [map[k] EXCEPT !.src = x]
    <3>1. e \in Entry /\ e.src = x
      BY <2>1
    <3>2. new = [map EXCEPT ![k] = e]
      OBVIOUS
    <3>. HIDE DEF e, new, Entry
    <3>. QED
      BY <2>0, <3>1, <3>2
  <2>. HIDE DEF new
  <2>3. \A h \in 1 .. Len(map) : h # k => new[h].src = map[h].src /\ map[h].src # x
    BY <2>2 DEF MapOK
  <2>4. \A h \in 1 .. Len(new) :
           new[h].src \in D \cup {x} /\ SymOf(F, new[h].src).bind \in {"LOCAL", "GLOBAL"}
    BY <1>1, <2>2, <2>3 DEF MapOK
  <2>5. \A h, j \in 1 .. Len(new) :
           new[h].src = new[j].src \/ SameName(F, new[h].src, new[j].src) => h = j
    <3>. SUFFICES ASSUME NEW h \in 1 .. Len(new), NEW j \in 1 .. Len(new), h # j,
                         new[h].src = new[j].src \/ SameName(F, new[h].src, new[j].src)
                  PROVE  FALSE
      OBVIOUS
    <3>1. CASE h # k /\ j # k
      BY <2>2, <2>3, <3>1 DEF MapOK
    <3>2. CASE h = k
      <4>1. SameName(F, x, map[j].src)
        BY <2>2, <2>3, <3>2
      <4>2. SameName(F, map[k].src, map[j].src)
        BY <1>3, <4>1
      <4>. QED
        BY <2>2, <3>2, <4>2 DEF MapOK
    <3>3. CASE j = k
      <4>1. SameName(F, map[h].src, x)
        BY <2>2, <2>3, <3>3
      <4>2. SameName(F, map[h].src, map[k].src)
        BY <1>3, <4>1
      <4>. QED
        BY <2>2, <3>3, <4>2 DEF MapOK
    <3>. QED
      BY <3>1, <3>2, <3>3
  <2>6. ASSUME NEW y \in D \cup {x}, SymOf(F, y).bind = "LOCAL"
        PROVE  \E h \in 1 .. Len(new) : new[h].src = y
    <3>1. y \in D
      BY <1>1, <2>6
    <3>2. PICK h \in 1 .. Len(map) : map[h].src = y
      BY <2>6, <3>1 DEF MapOK
    <3>3. h # k
      BY <1>1, <2>6, <3>2
    <3>. QED
      BY <2>2, <3>2, <3>3
  <2>7. ASSUME NEW y \in D \cup {x}, SymOf(F, y).bind = "GLOBAL"
        PROVE  \E h \in 1 .. Len(new) : SameName(F, new[h].src, y) /\ Keeps(F, new[h].src, y)
    <3>1. CASE y = x
      <4>1. SameName(F, x, x) /\ Keeps(F, x, x)
        BY <1>1, <1>2 DEF SameName, Keeps
      <4>. QED
        BY <2>2, <3>1, <4>1
    <3>2. CASE y \in D
      <4>1. PICK h \in 1 .. Len(map) : SameName(F, map[h].src, y) /\ Keeps(F, map[h].src, y)
        BY <2>7, <3>2 DEF MapOK
      <4>2. CASE h # k
        BY <2>2, <4>1, <4>2
      <4>3. CASE h = k
        <5>1. SameName(F, x, y)
          BY <1>3, <4>1, <4>3
        <5>2. Link!Precedence(SymOf(F, y)) \in 0 .. 2 /\ Link!Precedence(SymOf(F, y)) <= pre2
          BY <2>7, <4>1, <4>3 DEF Keeps
        <5>3. Keeps(F, x, y)
          BY <1>0, <1>2, <1>5, <5>2 DEF Keeps, Link!Wins
        <5>. QED
          BY <2>2, <5>1, <5>3
      <4>. QED
        BY <4>2, <4>3
    <3>. QED
      BY <3>1, <3>2
  <2>8. MapOK(F, new, D \cup {x})
    BY <2>2, <2>4, <2>5, <2>6, <2>7 DEF MapOK
  <2>. QED
    BY <1>0, <1>5, <2>8 DEF new
<1>. QED
  BY <1>4, <1>5

\* two definitions of one name
Clash(F) ==
    \E a, b : /\ In(a, SymbolsOf(F)) /\ In(b, SymbolsOf(F)) /\ a # b /\ SameName(F, a, b)
              /\ Link!Precedence(SymOf(F, a)) = 2 /\ Link!Precedence(SymOf(F, b)) = 2

\* a name that is declared and nowhere defined
Missing(F) ==
    \E a : /\ In(a, SymbolsOf(F)) /\ SymOf(F, a).bind = "GLOBAL"
           /\ \A b : In(b, SymbolsOf(F)) /\ SameName(F, a, b) => Link!Precedence(SymOf(F, b)) = 0

\* all that is known while the symbols are read, and how that can end
Reading(F, map, t) ==
    /\ Link!Regular(F)
    /\ \E m : Rest(t, SymbolsOf(F), m) /\ MapOK(F, map, FirstOnes(SymbolsOf(F), m))

LinkInv ==
    /\ phase = "symbols" => Reading(srcs, smap, todo)
    /\ phase = "redeclared" => Link!Regular(srcs) /\ Clash(srcs)
    /\ phase = "undefined" => Link!Regular(srcs) /\ Missing(srcs)

LEMMA LinkNames ==
    /\ Link!Symbols = SymbolsOf(srcs)
    /\ \A x : Link!Sym(x) = SymOf(srcs, x)
BY DEF Link!Symbols, Link!Sym, SymbolsOf, SymOf

LEMMA ReadHead ==
    ASSUME NEW F, Link!Regular(F), NEW t, NEW m, Rest(t, SymbolsOf(F), m), t # <<>>
    PROVE  /\ Head(t) \in Pointer /\ Head(t) \notin FirstOnes(SymbolsOf(F), m)
           /\ Rest(Tail(t), SymbolsOf(F), m + 1)
           /\ FirstOnes(SymbolsOf(F), m + 1) = FirstOnes(SymbolsOf(F), m) \cup {Head(t)}
           /\ \A y \in FirstOnes(SymbolsOf(F), m + 1) :
                 /\ In(y, SymbolsOf(F))
                 /\ SymOf(F, y).bind = "GLOBAL" => Link!Precedence(SymOf(F, y)) \in 0 .. 2
                 /\ SymOf(F, y).bind = "LOCAL" => Link!Precedence(SymOf(F, y)) = 2
<1>. DEFINE s == SymbolsOf(F)
<1>1. /\ s \in Seq(Pointer) /\ Distinct(s)
      /\ \A x : In(x, s) =>
                 /\ x \in Pointer
                 /\ SymOf(F, x).bind = "GLOBAL" => Link!Precedence(SymOf(F, x)) \in 0 .. 2
                 /\ SymOf(F, x).bind = "LOCAL" => Link!Precedence(SymOf(F, x)) = 2
  BY SymbolsOfAre
<1>. HIDE DEF s
<1>2. Rest(t, s, m)
  BY DEF s
<1>3. /\ m + 1 \in 1 .. Len(s) /\ Head(t) = s[m + 1] /\ Rest(Tail(t), s, m + 1)
      /\ FirstOnes(s, m + 1) = FirstOnes(s, m) \cup {Head(t)}
  <2>1. ReadsOne(t, s, m)
    BY <1>1, <1>2, RestHead
  <2>. QED
    BY <2>1 DEF ReadsOne
<1>4. m \in 0 .. Len(s) /\ Len(s) \in Nat
  BY <1>1, <1>2 DEF Rest
<1>5. Head(t) \notin FirstOnes(s, m)
  BY <1>1, <1>3, <1>4, NotRead
<1>6. \A y \in FirstOnes(s, m + 1) : In(y, s)
  <2>1. \A i \in 1 .. m + 1 : i \in 1 .. Len(s)
    BY <1>3, <1>4
  <2>. QED
    BY <2>1 DEF FirstOnes, In
<1>7. Head(t) \in Pointer
  BY <1>1, <1>3
<1>. QED
  BY <1>1, <1>3, <1>5, <1>6, <1>7 DEF s

LEMMA AllRead ==
    ASSUME NEW s \in Seq(Pointer), NEW m, Rest(<<>>, s, m), NEW x
    PROVE  x \in FirstOnes(s, m) <=> In(x, s)
<1>1. m = Len(s)
  BY DEF Rest
<1>. QED
  BY <1>1 DEF FirstOnes, In

LEMMA SkipWeakInv == LinkInv /\ Link!SkipWeak => LinkInv'
<1>. SUFFICES ASSUME LinkInv, Link!SkipWeak PROVE LinkInv'
  OBVIOUS
<1>1. /\ phase = "symbols" /\ todo # <<>> /\ SymOf(srcs, Head(todo)).bind = "WEAK"
      /\ todo' = Tail(todo) /\ srcs' = srcs /\ phase' = phase /\ smap' = smap
  BY LinkNames DEF Link!SkipWeak
<1>. DEFINE s == SymbolsOf(srcs)
<1>2. PICK m : Rest(todo, s, m) /\ MapOK(srcs, smap, FirstOnes(s, m))
  BY <1>1 DEF LinkInv, Reading
<1>3. Link!Regular(srcs)
  BY <1>1 DEF LinkInv, Reading
<1>4. Rest(Tail(todo), s, m + 1) /\ FirstOnes(s, m + 1) = FirstOnes(s, m) \cup {Head(todo)}
  BY <1>1, <1>2, <1>3, ReadHead
<1>. HIDE DEF s
<1>5. MapOK(srcs, smap, FirstOnes(s, m) \cup {Head(todo)})
  BY <1>1, <1>2 DEF MapOK
<1>6. Reading(srcs, smap, Tail(todo))
  BY <1>3, <1>4, <1>5 DEF Reading, s
<1>. QED
  BY <1>1, <1>6 DEF LinkInv

LEMMA EnterSymbolInv == LinkInv /\ Link!EnterSymbol => LinkInv'
<1>. SUFFICES ASSUME LinkInv, Link!EnterSymbol PROVE LinkInv'
  OBVIOUS
<1>. DEFINE s == SymbolsOf(srcs)
            x == Head(todo)
<1>1. /\ phase = "symbols" /\ todo # <<>> /\ srcs' = srcs
      /\ \/ SymOf(srcs, x).bind = "LOCAL"
         \/ SymOf(srcs, x).bind = "GLOBAL" /\ Link!Candidate(SymOf(srcs, x)) = {}
  BY LinkNames DEF Link!EnterSymbol
<1>2. \/ phase' = "aborted" \/ phase' = "overflow"
      \/ /\ phase' = "symbols" /\ todo' = Tail(todo)
         /\ smap' = Append(smap, [src |-> x, dst |-> 0])
  BY DEF Link!EnterSymbol, Link!Goto
<1>3. CASE phase' = "aborted" \/ phase' = "overflow"
  BY <1>3 DEF LinkInv
<1>4. CASE phase' = "symbols" /\ todo' = Tail(todo) /\ smap' = Append(smap, [src |-> x, dst |-> 0])
  <2>1. PICK m : Rest(todo, s, m) /\ MapOK(srcs, smap, FirstOnes(s, m))
    BY <1>1 DEF LinkInv, Reading
  <2>2. Link!Regular(srcs)
    BY <1>1 DEF LinkInv, Reading
  <2>3. /\ x \in Pointer /\ x \notin FirstOnes(s, m)
        /\ Rest(Tail(todo), s, m + 1) /\ FirstOnes(s, m + 1) = FirstOnes(s, m) \cup {x}
        /\ Link!Precedence(SymOf(srcs, x)) \in 0 .. 2
    BY <1>1, <2>1, <2>2, ReadHead
  <2>4. \/ SymOf(srcs, x).bind = "LOCAL"
        \/ \A k \in 1 .. Len(smap) : ~ SameName(srcs, smap[k].src, x)
    <3>1. smap \in Seq([src : Pointer, dst : {0}])
      BY <2>1 DEF MapOK
    <3>2. DOMAIN smap = 1 .. Len(smap)
      BY <3>1
    <3>. QED
      BY <1>1, <3>2, LinkNames DEF Link!Candidate, SameName
  <2>. HIDE DEF s, x
  <2>5. MapOK(srcs, Append(smap, [src |-> x, dst |-> 0]), FirstOnes(s, m) \cup {x})
    BY <1>1, <2>1, <2>3, <2>4, EnteredOK DEF x
  <2>6. Reading(srcs, Append(smap, [src |-> x, dst |-> 0]), Tail(todo))
    BY <2>2, <2>3, <2>5 DEF Reading, s
  <2>. QED
    BY <1>1, <1>4, <2>6 DEF LinkInv
<1>. QED
  BY <1>2, <1>3, <1>4

LEMMA ResolveInv == LinkInv /\ Link!Resolve => LinkInv'
<1>. SUFFICES ASSUME LinkInv, Link!Resolve PROVE LinkInv'
  OBVIOUS
<1>. DEFINE s == SymbolsOf(srcs)
            x == Head(todo)
            pre1 == Link!Precedence(SymOf(srcs, x))
<1>1. phase = "symbols" /\ todo # <<>> /\ srcs' = srcs /\ SymOf(srcs, x).bind = "GLOBAL"
  BY LinkNames DEF Link!Resolve
<1>2. PICK k \in Link!Candidate(SymOf(srcs, x)) :
         LET pre2 == Link!Precedence(SymOf(srcs, smap[k].src))
         IN  IF -1 \in {pre1, pre2} \/ (pre1 = 2 /\ pre2 = 2)
             THEN Link!Goto("redeclared", <<>>) /\ UNCHANGED smap
             ELSE /\ smap' = IF Link!Wins(pre1, pre2) THEN [smap EXCEPT ![k].src = x] ELSE smap
                  /\ Link!Goto("symbols", Tail(todo))
  BY LinkNames DEF Link!Resolve
<1>. DEFINE pre2 == Link!Precedence(SymOf(srcs, smap[k].src))
<1>3. PICK m : Rest(todo, s, m) /\ MapOK(srcs, smap, FirstOnes(s, m))
  BY <1>1 DEF LinkInv, Reading
<1>4. Link!Regular(srcs)
  BY <1>1 DEF LinkInv, Reading
<1>5. /\ x \in Pointer /\ x \notin FirstOnes(s, m)
      /\ Rest(Tail(todo), s, m + 1) /\ FirstOnes(s, m + 1) = FirstOnes(s, m) \cup {x}
      /\ \A y \in FirstOnes(s, m + 1) :
            /\ In(y, s)
            /\ SymOf(srcs, y).bind = "GLOBAL" => Link!Precedence(SymOf(srcs, y)) \in 0 .. 2
  BY <1>1, <1>3, <1>4, ReadHead
<1>. HIDE DEF s
<1>6. k \in 1 .. Len(smap) /\ SameName(srcs, smap[k].src, x) /\ smap[k].src \in FirstOnes(s, m)
  <2>1. smap \in Seq([src : Pointer, dst : {0}]) /\ \A h \in 1 .. Len(smap) : smap[h].src \in FirstOnes(s, m)
    BY <1>3 DEF MapOK
  <2>2. DOMAIN smap = 1 .. Len(smap)
    BY <2>1
  <2>. QED
    BY <1>1, <2>1, <2>2, LinkNames DEF Link!Candidate, SameName
<1>7. pre1 \in 0 .. 2 /\ pre2 \in 0 .. 2
  BY <1>1, <1>5, <1>6 DEF SameName
<1>. HIDE DEF x, pre1, pre2
<1>8. CASE pre1 = 2 /\ pre2 = 2
  <2>1. phase' = "redeclared"
    BY <1>2, <1>8 DEF Link!Goto, pre2
  <2>2. In(smap[k].src, s) /\ In(x, s) /\ smap[k].src # x
    BY <1>5, <1>6
  <2>3. Clash(srcs)
    BY <1>6, <1>8, <2>2 DEF Clash, s, pre1, pre2
  <2>. QED
    BY <1>1, <1>4, <2>1, <2>3 DEF LinkInv
<1>9. CASE ~ (pre1 = 2 /\ pre2 = 2)
  <2>1. smap' = ResolvedMap(srcs, smap, k, x) /\ phase' = "symbols" /\ todo' = Tail(todo)
    BY <1>2, <1>7, <1>9 DEF Link!Goto, pre1, pre2, ResolvedMap, Prec, x
  <2>2. \A y \in FirstOnes(s, m) \cup {x} :
           SymOf(srcs, y).bind = "GLOBAL" => Link!Precedence(SymOf(srcs, y)) \in 0 .. 2
    BY <1>5
  <2>3. ~ (Prec(srcs, x) = 2 /\ Prec(srcs, smap[k].src) = 2)
    BY <1>9 DEF Prec, pre1, pre2
  <2>4. MapOK(srcs, ResolvedMap(srcs, smap, k, x), FirstOnes(s, m) \cup {x})
    BY <1>3, <1>5, <1>6, <2>2, <2>3, ResolvedOK
  <2>5. Reading(srcs, ResolvedMap(srcs, smap, k, x), Tail(todo))
    BY <1>4, <1>5, <2>4 DEF Reading, s
  <2>. QED
    BY <1>1, <2>1, <2>5 DEF LinkInv
<1>. QED
  BY <1>8, <1>9

LEMMA NoUndefinedInv == LinkInv /\ Link!NoUndefined => LinkInv'
<1>. SUFFICES ASSUME LinkInv, Link!NoUndefined PROVE LinkInv'
  OBVIOUS
<1>. DEFINE s == SymbolsOf(srcs)
            kept == {smap[k].src : k \in DOMAIN smap}
<1>1. phase = "symbols" /\ todo = <<>>
  BY DEF Link!NoUndefined
<1>2. \/ phase' = "headers"
      \/ /\ phase' = "undefined" /\ srcs' = srcs
         /\ \E x \in kept : SymOf(srcs, x).shndx = "SHN_UNDEF" \/ SymOf(srcs, x).type = "NOTYPE"
  BY LinkNames DEF Link!NoUndefined, Link!Goto
<1>3. CASE phase' = "headers"
  BY <1>3 DEF LinkInv
<1>4. CASE phase' = "undefined" /\ srcs' = srcs
           /\ \E x \in kept : SymOf(srcs, x).shndx = "SHN_UNDEF" \/ SymOf(srcs, x).type = "NOTYPE"
  <2>1. Link!Regular(srcs)
    BY <1>1 DEF LinkInv, Reading
  <2>2. PICK m : Rest(todo, s, m) /\ MapOK(srcs, smap, FirstOnes(s, m))
    BY <1>1 DEF LinkInv, Reading
  <2>3. /\ s \in Seq(Pointer)
        /\ \A x : In(x, s) =>
              /\ SymOf(srcs, x).bind = "GLOBAL" => Link!Precedence(SymOf(srcs, x)) \in 0 .. 2
              /\ SymOf(srcs, x).bind = "LOCAL" => Link!Precedence(SymOf(srcs, x)) = 2
    BY <2>1, SymbolsOfAre
  <2>. HIDE DEF s
  <2>4. \A x : x \in FirstOnes(s, m) <=> In(x, s)
    BY <1>1, <2>2, <2>3, AllRead
  <2>5. PICK k \in 1 .. Len(smap) :
           SymOf(srcs, smap[k].src).shndx = "SHN_UNDEF" \/ SymOf(srcs, smap[k].src).type = "NOTYPE"
    <3>1. smap \in Seq([src : Pointer, dst : {0}])
      BY <2>2 DEF MapOK
    <3>2. DOMAIN smap = 1 .. Len(smap)
      BY <3>1
    <3>. QED
      BY <1>4, <3>2
  <2>6. PICK a : a = smap[k].src
    OBVIOUS
  <2>7. In(a, s)
    BY <2>2, <2>4, <2>6 DEF MapOK
  <2>8. SymOf(srcs, a).bind \in {"LOCAL", "GLOBAL"}
    BY <2>2, <2>6 DEF MapOK
  <2>9. Link!Precedence(SymOf(srcs, a)) \in {-1, 0}
    BY <2>5, <2>6 DEF Link!Precedence
  <2>10. SymOf(srcs, a).bind = "GLOBAL" /\ Link!Precedence(SymOf(srcs, a)) = 0
    BY <2>3, <2>7, <2>8, <2>9
  <2>11. ASSUME NEW b, In(b, s), SameName(srcs, a, b) PROVE Link!Precedence(SymOf(srcs, b)) = 0
    <3>1. SymOf(srcs, b).bind = "GLOBAL"
      BY <2>11 DEF SameName
    <3>2. PICK h \in 1 .. Len(smap) : SameName(srcs, smap[h].src, b) /\ Keeps(srcs, smap[h].src, b)
      BY <2>2, <2>4, <2>11, <3>1 DEF MapOK
    <3>3. SameName(srcs, smap[k].src, smap[h].src)
      BY <2>6, <2>11, <3>2 DEF SameName
    <3>4. h = k
      BY <2>2, <3>3 DEF MapOK
    <3>5. Link!Precedence(SymOf(srcs, b)) \in 0 .. 2
      BY <2>3, <2>11, <3>1
    <3>. QED
      BY <2>6, <2>10, <3>2, <3>4, <3>5 DEF Keeps
  <2>12. Missing(srcs)
    BY <2>7, <2>10, <2>11 DEF Missing, s
  <2>. QED
    BY <1>4, <2>1, <2>12 DEF LinkInv
<1>. QED
  BY <1>2, <1>3, <1>4

LEMMA NextLinkInv == LinkInv /\ [Link!Next]_linkVars => LinkInv'
<1>1. phase \in {"headers", "merge", "relocate"} /\ phase' \notin {"symbols", "redeclared", "undefined"}
      => LinkInv'
  BY DEF LinkInv
<1>2. Link!ComputeSectionHeader \/ Link!MergeSection \/ Link!MergeSymtab \/ Link!Finish
      => /\ phase \in {"headers", "merge", "relocate"}
         /\ phase' \notin {"symbols", "redeclared", "undefined"}
  BY Zenon DEF Link!ComputeSectionHeader, Link!MergeSection, Link!MergeSymtab, Link!Finish, Link!Goto
<1>3. Link!Relocate => /\ phase \in {"headers", "merge", "relocate"}
                       /\ phase' \notin {"symbols", "redeclared", "undefined"}
  BY DEF Link!Relocate, Link!NextEntry, Link!Goto
<1>4. LinkInv /\ UNCHANGED linkVars => LinkInv'
  BY DEF linkVars, LinkInv
<1>. QED
  BY <1>1, <1>2, <1>3, <1>4, SkipWeakInv, EnterSymbolInv, ResolveInv, NoUndefinedInv DEF Link!Next

LEMMA InitLinkInv == Init => LinkInv
<1>. SUFFICES ASSUME Init PROVE LinkInv
  OBVIOUS
<1>1. CASE which # "linker"
  BY <1>1, Zenon DEF Init, NotLinking, LinkInv
<1>2. CASE which = "linker"
  <2>1. srcs \in Inputs /\ phase = "symbols" /\ todo = SymbolsOf(srcs) /\ smap = <<>>
    BY <1>2, LinkNames DEF Init, Link!Init
  <2>2. Link!Regular(srcs)
    BY <2>1, FilesAssumption
  <2>. DEFINE s == SymbolsOf(srcs)
  <2>3. s \in Seq(Pointer)
    BY <2>2, SymbolsOfAre
  <2>. HIDE DEF s
  <2>4. Rest(s, s, 0) /\ FirstOnes(s, 0) = {}
    BY <2>3 DEF Rest, FirstOnes
  <2>5. MapOK(srcs, <<>>, FirstOnes(s, 0))
    BY <2>4, EmptyMapOK
  <2>6. Reading(srcs, smap, todo)
    BY <2>1, <2>2, <2>4, <2>5 DEF Reading, s
  <2>. QED
    BY <2>1, <2>6 DEF LinkInv
<1>. QED
  BY <1>1, <1>2

LEMMA SymbolSet ==
    ASSUME Link!Regular(srcs)
    PROVE  /\ \A x : x \in Link!Members(Link!Symbols) <=> In(x, SymbolsOf(srcs))
           /\ IsFiniteSet(Link!Members(Link!Symbols))
           /\ \A x, name : x \in Link!Declarations(name)
                  <=> In(x, SymbolsOf(srcs)) /\ SymOf(srcs, x).bind = "GLOBAL" /\ SymOf(srcs, x).name = name
<1>. DEFINE s == SymbolsOf(srcs)
<1>1. s \in Seq(Pointer)
  BY SymbolsOfAre
<1>2. Link!Members(Link!Symbols) = {s[i] : i \in DOMAIN s}
  BY LinkNames DEF Link!Members
<1>. HIDE DEF s
<1>3. DOMAIN s = 1 .. Len(s) /\ Len(s) \in Nat
  BY <1>1
<1>4. \A x : x \in Link!Members(Link!Symbols) <=> In(x, s)
  BY <1>2, <1>3 DEF In
<1>5. IsFiniteSet(Link!Members(Link!Symbols))
  <2>1. IsFiniteSet(1 .. Len(s))
    BY <1>3, FS_Interval
  <2>. DEFINE T == {s[i] : i \in 1 .. Len(s)}
  <2>2. s \in [1 .. Len(s) -> T] /\ \A x \in T : \E i \in 1 .. Len(s) : s[i] = x
    BY <1>1
  <2>3. s \in Surjection(1 .. Len(s), T)
    BY <2>2 DEF Surjection
  <2>. HIDE DEF T
  <2>4. IsFiniteSet(T)
    BY <2>1, <2>3, FS_Surjection
  <2>. QED
    BY <1>2, <1>3, <2>4 DEF T
<1>6. \A x, name : x \in Link!Declarations(name)
                  <=> In(x, s) /\ SymOf(srcs, x).bind = "GLOBAL" /\ SymOf(srcs, x).name = name
  BY <1>4, LinkNames DEF Link!Declarations
<1>. QED
  BY <1>4, <1>5, <1>6 DEF s

\* Symbol resolution keeps the three rules for any files and any order of
\* their symbols, and ends early only for two definitions of a name or for a
\* name that nobody defines.
THEOREM StrongestWins == Spec => []ResolvedStrongest
<1>1. Init => LinkInv
  BY InitLinkInv
<1>2. LinkInv /\ [Next]_vars => LinkInv'
  BY Parts, NextLinkInv
<1>3. LinkInv => ResolvedStrongest
  <2>. SUFFICES ASSUME LinkInv PROVE Link!ResolvedStrongest
    BY DEF ResolvedStrongest
  <2>. DEFINE s == SymbolsOf(srcs)
  <2>0. \A T : Link!Cardinality(T) = Cardinality(T)
    BY DEF Link!Cardinality, Cardinality
  <2>1. ASSUME phase = "symbols", todo = <<>>
        PROVE  /\ \A name \in Link!Names : Link!Declarations(name) # {} =>
                     \E k \in DOMAIN smap :
                        /\ {h \in DOMAIN smap : smap[h].src \in Link!Declarations(name)} = {k}
                        /\ \A x \in Link!Declarations(name) :
                             LET mine == Link!Precedence(Link!Sym(smap[k].src))
                             IN  /\ mine >= Link!Precedence(Link!Sym(x))
                                 /\ x # smap[k].src => mine + Link!Precedence(Link!Sym(x)) < 4
               /\ \A x \in Link!Members(Link!Symbols) : Link!Sym(x).bind = "LOCAL" =>
                     Cardinality({k \in DOMAIN smap : smap[k].src = x}) = 1
    <3>1. Link!Regular(srcs)
      BY <2>1 DEF LinkInv, Reading
    <3>2. PICK m : Rest(<<>>, s, m) /\ MapOK(srcs, smap, FirstOnes(s, m))
      BY <2>1 DEF LinkInv, Reading
    <3>3. s \in Seq(Pointer)
      BY <3>1, SymbolsOfAre
    <3>. HIDE DEF s
    <3>4. \A x : x \in FirstOnes(s, m) <=> In(x, s)
      BY <3>2, <3>3, AllRead
    <3>5. DOMAIN smap = 1 .. Len(smap)
      <4>1. smap \in Seq([src : Pointer, dst : {0}])
        BY <3>2 DEF MapOK
      <4>. QED
        BY <4>1
    <3>6. /\ \A x : x \in Link!Members(Link!Symbols) <=> In(x, s)
          /\ \A x, name : x \in Link!Declarations(name)
                  <=> In(x, s) /\ SymOf(srcs, x).bind = "GLOBAL" /\ SymOf(srcs, x).name = name
      BY <3>1, SymbolSet DEF s
    <3>7. ASSUME NEW name, Link!Declarations(name) # {}
          PROVE  \E k \in DOMAIN smap :
                    /\ {h \in DOMAIN smap : smap[h].src \in Link!Declarations(name)} = {k}
                    /\ \A x \in Link!Declarations(name) : Keeps(srcs, smap[k].src, x)
      <4>1. PICK y : In(y, s) /\ SymOf(srcs, y).bind = "GLOBAL" /\ SymOf(srcs, y).name = name
        BY <3>6, <3>7
      <4>2. PICK k \in 1 .. Len(smap) : SameName(srcs, smap[k].src, y) /\ Keeps(srcs, smap[k].src, y)
        BY <3>2, <3>4, <4>1 DEF MapOK
      <4>3. ASSUME NEW h \in 1 .. Len(smap)
            PROVE  smap[h].src \in Link!Declarations(name) <=> h = k
        <5>1. In(smap[h].src, s)
          BY <3>2, <3>4 DEF MapOK
        <5>2. smap[h].src \in Link!Declarations(name) <=> SameName(srcs, smap[h].src, smap[k].src)
          BY <3>6, <4>1, <4>2, <5>1 DEF SameName
        <5>3. SameName(srcs, smap[k].src, smap[k].src)
          BY <4>2 DEF SameName
        <5>. QED
          BY <3>2, <5>2, <5>3 DEF MapOK
      <4>4. ASSUME NEW x \in Link!Declarations(name) PROVE Keeps(srcs, smap[k].src, x)
        <5>1. In(x, s) /\ SymOf(srcs, x).bind = "GLOBAL" /\ SymOf(srcs, x).name = name
          BY <3>6
        <5>2. PICK h \in 1 .. Len(smap) : SameName(srcs, smap[h].src, x) /\ Keeps(srcs, smap[h].src, x)
          BY <3>2, <3>4, <5>1 DEF MapOK
        <5>3. SameName(srcs, smap[h].src, smap[k].src)
          BY <4>1, <4>2, <5>1, <5>2 DEF SameName
        <5>4. h = k
          BY <3>2, <5>3 DEF MapOK
        <5>. QED
          BY <5>2, <5>4
      <4>. QED
        BY <3>5, <4>3, <4>4
    <3>8. ASSUME NEW x, In(x, s), SymOf(srcs, x).bind = "LOCAL"
          PROVE  Cardinality({k \in DOMAIN smap : smap[k].src = x}) = 1
      <4>1. PICK k \in 1 .. Len(smap) : smap[k].src = x
        BY <3>2, <3>4, <3>8 DEF MapOK
      <4>2. {h \in DOMAIN smap : smap[h].src = x} = {k}
        BY <3>2, <3>5, <4>1 DEF MapOK
      <4>. QED
        BY <4>2, FS_Singleton
    <3>9. \A x, y : Keeps(srcs, x, y) =>
             /\ Link!Precedence(Link!Sym(x)) >= Link!Precedence(Link!Sym(y))
             /\ y # x => Link!Precedence(Link!Sym(x)) + Link!Precedence(Link!Sym(y)) < 4
      BY LinkNames DEF Keeps
    <3>. QED
      BY <3>6, <3>7, <3>8, <3>9, LinkNames
  <2>2. ASSUME phase = "redeclared"
        PROVE  \E name \in Link!Names :
                  Cardinality({x \in Link!Declarations(name) : Link!Precedence(Link!Sym(x)) = 2}) > 1
    <3>1. Link!Regular(srcs)
      BY <2>2 DEF LinkInv
    <3>2. PICK a, b : /\ In(a, s) /\ In(b, s) /\ a # b /\ SameName(srcs, a, b)
                      /\ Link!Precedence(SymOf(srcs, a)) = 2 /\ Link!Precedence(SymOf(srcs, b)) = 2
      BY <2>2 DEF LinkInv, Clash
    <3>. DEFINE name == SymOf(srcs, a).name
                T == {x \in Link!Declarations(name) : Link!Precedence(Link!Sym(x)) = 2}
    <3>3. /\ \A x : x \in Link!Members(Link!Symbols) <=> In(x, s)
          /\ IsFiniteSet(Link!Members(Link!Symbols))
          /\ \A x, q : x \in Link!Declarations(q)
                  <=> In(x, s) /\ SymOf(srcs, x).bind = "GLOBAL" /\ SymOf(srcs, x).name = q
      BY <3>1, SymbolSet
    <3>. HIDE DEF s
    <3>4. a \in T /\ b \in T
      BY <3>2, <3>3, LinkNames DEF SameName
    <3>5. T \subseteq Link!Members(Link!Symbols)
      BY DEF Link!Declarations
    <3>6. name \in Link!Names
      BY <3>2, <3>3, LinkNames DEF Link!Names
    <3>. HIDE DEF T, name
    <3>7. IsFiniteSet(T)
      BY <3>3, <3>5, FS_Subset
    <3>8. Cardinality(T) \in Nat /\ Cardinality(T) # 0
      BY <3>4, <3>7, FS_CardinalityType, FS_EmptySet
    <3>9. Cardinality(T) # 1
      BY <3>2, <3>4, <3>7, FS_Singleton
    <3>12. Cardinality(T) > 1
      BY <3>8, <3>9
    <3>. QED
      BY <3>6, <3>12 DEF T
  <2>3. ASSUME phase = "undefined"
        PROVE  \E name \in Link!Names :
                  /\ Link!Declarations(name) # {}
                  /\ \A x \in Link!Declarations(name) : Link!Precedence(Link!Sym(x)) = 0
    <3>1. Link!Regular(srcs)
      BY <2>3 DEF LinkInv
    <3>2. PICK a : /\ In(a, s) /\ SymOf(srcs, a).bind = "GLOBAL"
                   /\ \A b : In(b, s) /\ SameName(srcs, a, b) => Link!Precedence(SymOf(srcs, b)) = 0
      BY <2>3 DEF LinkInv, Missing
    <3>3. /\ \A x : x \in Link!Members(Link!Symbols) <=> In(x, s)
          /\ \A x, q : x \in Link!Declarations(q)
                  <=> In(x, s) /\ SymOf(srcs, x).bind = "GLOBAL" /\ SymOf(srcs, x).name = q
      BY <3>1, SymbolSet
    <3>. HIDE DEF s
    <3>. DEFINE name == SymOf(srcs, a).name
    <3>4. name \in Link!Names /\ a \in Link!Declarations(name)
      BY <3>2, <3>3, LinkNames DEF Link!Names
    <3>5. \A x \in Link!Declarations(name) : Link!Precedence(Link!Sym(x)) = 0
      BY <3>2, <3>3, LinkNames DEF SameName
    <3>. QED
      BY <3>4, <3>5
  <2>. QED
    BY <2>0, <2>1, <2>2, <2>3 DEF Link!ResolvedStrongest
<1>. QED
  BY <1>1, <1>2, <1>3, PTL DEF Spec

-----------------------------------------------------------------------------
(* Linker: layout and merging.                                             *)

Sections == {".text", ".rodata", ".data"}

\* a line of the program, named by where it comes from
Line == Nat \X (Sections \cup {"header", "symtab"}) \X Int

\* every global name has an entry
NoneMissing(F, map) ==
    \A x : In(x, SymbolsOf(F)) /\ SymOf(F, x).bind = "GLOBAL" =>
              \E h \in 1 .. Len(map) : SameName(F, map[h].src, x)

\* the map leads to different symbols, each of them in a section
Kept(F, map) ==
    /\ map \in Seq([src : Pointer, dst : Nat])
    /\ \A k \in 1 .. Len(map) :
          /\ In(map[k].src, SymbolsOf(F))
          /\ SymOf(F, map[k].src).shndx \in Sections \cup {".bss"}
    /\ \A h, k \in 1 .. Len(map) : map[h].src = map[k].src => h = k
    /\ NoneMissing(F, map)

LEMMA SymbolIs ==
    ASSUME NEW F, Link!Regular(F), NEW x, In(x, SymbolsOf(F))
    PROVE  /\ x \in Pointer /\ SymOf(F, x) \in Link!Symbol
           /\ SymOf(F, x).shndx \in Sections => SymOf(F, x).shndx \in F[x[1]].sht
<1>1. x \in Pointer /\ x[1] \in DOMAIN F /\ x[2] \in DOMAIN F[x[1]].symt
  BY SymbolsOfAre
<1>2. F[x[1]].symt \in Seq(Link!Symbol)
  BY <1>1 DEF Link!Regular
<1>3. SymOf(F, x) \in Link!Members(F[x[1]].symt)
  BY <1>1 DEF SymOf, Link!Members
<1>4. SymOf(F, x) \in Link!Symbol
  <2>. DEFINE tab == F[x[1]].symt
  <2>1. tab \in Seq(Link!Symbol) /\ x[2] \in DOMAIN tab
    BY <1>1, <1>2
  <2>. HIDE DEF tab
  <2>2. tab[x[2]] \in Link!Symbol
    BY <2>1
  <2>. QED
    BY <2>2 DEF tab, SymOf
<1>5. Link!Members(Link!Section) = Sections
  BY DEF Link!Members, Link!Section, Sections
<1>6. SymOf(F, x).shndx \in Link!Members(Link!Section) => SymOf(F, x).shndx \in F[x[1]].sht
  BY <1>1, <1>3 DEF Link!Regular
<1>. QED
  BY <1>1, <1>4, <1>5, <1>6

\* G is F with the symbols in K put into .bss if they are tentative
InBssOf(F, K, G) ==
    G = [i \in DOMAIN F |-> [F[i] EXCEPT !.symt =
           [j \in DOMAIN @ |-> IF <<i, j>> \in K THEN Link!InBss(@[j]) ELSE @[j]]]]

LEMMA BssSymbol ==
    ASSUME NEW s \in Link!Symbol
    PROVE  /\ Link!InBss(s) \in Link!Symbol /\ Link!InBss(s).bind = s.bind /\ Link!InBss(s).name = s.name
           /\ Link!InBss(s).shndx = (IF s.shndx = "COMMON" THEN ".bss" ELSE s.shndx)
           /\ s.bind = "GLOBAL" /\ Link!Precedence(s) \in 0 .. 2
                => Link!Precedence(Link!InBss(s)) \in 0 .. 2
           /\ s.bind = "LOCAL" /\ Link!Precedence(s) = 2
                => Link!Precedence(Link!InBss(s)) = 2
<1>1. CASE s.shndx # "COMMON"
  <2>1. Link!InBss(s) = s
    BY <1>1 DEF Link!InBss
  <2>. QED
    BY <1>1, <2>1
<1>2. CASE s.shndx = "COMMON"
  <2>. DEFINE e == [s EXCEPT !.shndx = ".bss", !.value = 0]
  <2>1. Link!InBss(s) = e
    BY <1>2 DEF Link!InBss
  <2>2. e \in Link!Symbol
    BY DEF Link!Symbol
  <2>3. e.bind = s.bind /\ e.name = s.name /\ e.type = s.type /\ e.shndx = ".bss"
    BY DEF Link!Symbol
  <2>. HIDE DEF e
  <2>4. Link!Precedence(s) # 2 /\ (Link!Precedence(s) \in 0 .. 2 => s.type = "OBJECT")
    BY <1>2 DEF Link!Precedence
  <2>5. e.type = "OBJECT" => Link!Precedence(e) = 2
    BY <2>3 DEF Link!Precedence
  <2>. QED
    BY <1>2, <2>1, <2>2, <2>3, <2>4, <2>5
<1>. QED
  BY <1>1, <1>2

LEMMA BssRegular ==
    ASSUME NEW F, Link!Regular(F), NEW K, NEW G, InBssOf(F, K, G)
    PROVE  /\ Link!Regular(G) /\ SymbolsOf(G) = SymbolsOf(F)
           /\ \A x : In(x, SymbolsOf(F)) =>
                 SymOf(G, x) = IF x \in K THEN Link!InBss(SymOf(F, x)) ELSE SymOf(F, x)
<1>. DEFINE new(i) == [j \in DOMAIN F[i].symt |->
                         IF <<i, j>> \in K THEN Link!InBss(F[i].symt[j]) ELSE F[i].symt[j]]
<1>1. /\ F \in Seq(Link!Members(F)) /\ DOMAIN F = 1 .. Len(F) /\ Len(F) \in Nat
      /\ \A i \in DOMAIN F : /\ DOMAIN F[i] = {"symt", "sht", "reltext", "reldata"}
                             /\ F[i].symt \in Seq(Link!Symbol)
                             /\ F[i].reltext \in Seq(Link!Relocation(F[i].symt))
                             /\ F[i].reldata \in Seq(Link!Relocation(F[i].symt))
  BY DEF Link!Regular
<1>2. DOMAIN G = DOMAIN F /\ \A i \in DOMAIN F : G[i] = [F[i] EXCEPT !.symt = new(i)]
  BY DEF InBssOf
<1>3. G = [i \in DOMAIN F |-> G[i]]
  BY DEF InBssOf
<1>4. \A i \in DOMAIN F : /\ G[i].symt = new(i) /\ G[i].sht = F[i].sht
                          /\ DOMAIN G[i] = {"symt", "sht", "reltext", "reldata"}
  BY <1>1, <1>2
<1>5. ASSUME NEW i \in DOMAIN F
      PROVE  /\ new(i) \in Seq(Link!Symbol) /\ DOMAIN new(i) = DOMAIN F[i].symt
             /\ \A s \in Link!Members(new(i)) :
                   /\ s.bind = "GLOBAL" => Link!Precedence(s) \in 0 .. 2
                   /\ s.bind = "LOCAL" => Link!Precedence(s) = 2
                   /\ s.shndx \in Sections => s.shndx \in F[i].sht
  <2>. DEFINE t == F[i].symt
  <2>1. t \in Seq(Link!Symbol) /\ DOMAIN t = 1 .. Len(t) /\ Len(t) \in Nat
    BY <1>1
  <2>2. \A j \in DOMAIN t : /\ t[j] \in Link!Symbol /\ t[j] \in Link!Members(t)
                            /\ Link!InBss(t[j]) \in Link!Symbol
    <3>. HIDE DEF t
    <3>. SUFFICES ASSUME NEW j \in DOMAIN t
                  PROVE  t[j] \in Link!Symbol /\ t[j] \in Link!Members(t) /\ Link!InBss(t[j]) \in Link!Symbol
      OBVIOUS
    <3>1. t[j] \in Link!Symbol /\ t[j] \in Link!Members(t)
      BY <2>1 DEF Link!Members
    <3>. QED
      BY <3>1, BssSymbol
  <2>3. Link!Members(Link!Section) = Sections
    BY DEF Link!Members, Link!Section, Sections
  <2>4. \A j \in DOMAIN t :
           /\ t[j].bind = "GLOBAL" => Link!Precedence(t[j]) \in 0 .. 2
           /\ t[j].bind = "LOCAL" => Link!Precedence(t[j]) = 2
           /\ t[j].shndx \in Sections => t[j].shndx \in F[i].sht
    BY <2>2, <2>3 DEF Link!Regular
  <2>5. new(i) = [j \in DOMAIN t |-> IF <<i, j>> \in K THEN Link!InBss(t[j]) ELSE t[j]]
    OBVIOUS
  <2>6. new(i) \in Seq(Link!Symbol) /\ DOMAIN new(i) = DOMAIN t
    <3>. DEFINE all == Link!Symbol
                moved(j) == IF <<i, j>> \in K THEN Link!InBss(t[j]) ELSE t[j]
    <3>1. new(i) = [j \in 1 .. Len(t) |-> moved(j)]
      BY <2>1, <2>5
    <3>2. \A j \in 1 .. Len(t) : moved(j) \in all
      BY <2>1, <2>2
    <3>3. Len(t) \in Nat /\ DOMAIN t = 1 .. Len(t)
      BY <2>1
    <3>. HIDE DEF new, t, all, moved
    <3>4. [j \in 1 .. Len(t) |-> moved(j)] \in Seq(all)
      BY <3>2, <3>3
    <3>. QED
      BY <3>1, <3>3, <3>4 DEF all
  <2>7. ASSUME NEW s \in Link!Members(new(i))
        PROVE  /\ s.bind = "GLOBAL" => Link!Precedence(s) \in 0 .. 2
               /\ s.bind = "LOCAL" => Link!Precedence(s) = 2
               /\ s.shndx \in Sections => s.shndx \in F[i].sht
    <3>. HIDE DEF t
    <3>1. PICK j \in DOMAIN t : s = new(i)[j]
      BY <2>6 DEF Link!Members
    <3>2. s = t[j] \/ s = Link!InBss(t[j])
      BY <2>5, <3>1
    <3>3. CASE s = t[j]
      BY <2>4, <3>3
    <3>4. CASE s = Link!InBss(t[j])
      <4>1. /\ s.bind = t[j].bind /\ s.shndx = (IF t[j].shndx = "COMMON" THEN ".bss" ELSE t[j].shndx)
            /\ t[j].bind = "GLOBAL" /\ Link!Precedence(t[j]) \in 0 .. 2 => Link!Precedence(s) \in 0 .. 2
            /\ t[j].bind = "LOCAL" /\ Link!Precedence(t[j]) = 2 => Link!Precedence(s) = 2
        BY <2>2, <3>4, BssSymbol
      <4>. QED
        BY <2>4, <4>1 DEF Sections
    <3>. QED
      BY <3>2, <3>3, <3>4
  <2>. QED
    BY <2>6, <2>7
<1>. HIDE DEF new
<1>6. Link!Regular(G)
  <2>1. G \in Seq(Link!Members(G))
    <3>1. \A i \in 1 .. Len(F) : G[i] \in Link!Members(G)
      BY <1>1, <1>2 DEF Link!Members
    <3>. QED
      BY <1>1, <1>3, <3>1
  <2>2. Link!Members(Link!Section) = Sections
    BY DEF Link!Members, Link!Section, Sections
  <2>3. ASSUME NEW i \in DOMAIN F
        PROVE  /\ G[i].reltext \in Seq(Link!Relocation(G[i].symt))
               /\ G[i].reldata \in Seq(Link!Relocation(G[i].symt))
    <3>1. Link!Relocation(G[i].symt) = Link!Relocation(F[i].symt)
      BY <1>4, <1>5 DEF Link!Relocation
    <3>2. G[i].reltext = F[i].reltext /\ G[i].reldata = F[i].reldata
      BY <1>1, <1>2
    <3>. QED
      BY <1>1, <3>1, <3>2
  <2>. QED
    BY <1>2, <1>4, <1>5, <2>1, <2>2, <2>3 DEF Link!Regular
<1>7. SymbolsOf(G) = SymbolsOf(F)
  <2>1. \A i \in DOMAIN F : DOMAIN G[i].symt = DOMAIN F[i].symt
    BY <1>4, <1>5
  <2>2. [i \in DOMAIN G |-> [j \in DOMAIN G[i].symt |-> <<i, j>>]]
        = [i \in DOMAIN F |-> [j \in DOMAIN F[i].symt |-> <<i, j>>]]
    BY <1>2, <2>1
  <2>. QED
    BY <2>2 DEF SymbolsOf
<1>8. ASSUME NEW x, In(x, SymbolsOf(F))
      PROVE  SymOf(G, x) = IF x \in K THEN Link!InBss(SymOf(F, x)) ELSE SymOf(F, x)
  <2>1. x \in Pointer /\ x[1] \in DOMAIN F /\ x[2] \in DOMAIN F[x[1]].symt
    BY <1>8, SymbolsOfAre
  <2>2. x = <<x[1], x[2]>>
    BY <2>1 DEF Pointer
  <2>3. SymOf(G, x) = new(x[1])[x[2]]
    BY <1>4, <2>1 DEF SymOf
  <2>4. new(x[1])[x[2]] = IF <<x[1], x[2]>> \in K THEN Link!InBss(SymOf(F, x)) ELSE SymOf(F, x)
    BY <2>1 DEF new, SymOf
  <2>5. <<x[1], x[2]>> \in K <=> x \in K
    BY <2>2
  <2>. QED
    BY <2>3, <2>4, <2>5
<1>. QED
  BY <1>6, <1>7, <1>8

\* When all symbols are read and no name is undefined, the map is as the
\* passes behind need it.
LEMMA NoUndefinedKept ==
    ASSUME LinkInv, Link!NoUndefined, phase' = "headers"
    PROVE  /\ Link!Regular(srcs') /\ Kept(srcs', smap') /\ smap' = smap
           /\ \A k \in 1 .. Len(smap) : smap[k].dst = 0
<1>. DEFINE s == SymbolsOf(srcs)
            kept == {smap[k].src : k \in DOMAIN smap}
<1>1. phase = "symbols" /\ todo = <<>> /\ smap' = smap
  BY DEF Link!NoUndefined
<1>2. /\ ~ \E x \in kept : SymOf(srcs, x).shndx = "SHN_UNDEF" \/ SymOf(srcs, x).type = "NOTYPE"
      /\ InBssOf(srcs, kept, srcs')
  BY LinkNames DEF Link!NoUndefined, Link!Goto, InBssOf
<1>3. Link!Regular(srcs)
  BY <1>1 DEF LinkInv, Reading
<1>4. PICK m : Rest(todo, s, m) /\ MapOK(srcs, smap, FirstOnes(s, m))
  BY <1>1 DEF LinkInv, Reading
<1>5. /\ s \in Seq(Pointer)
      /\ \A x : In(x, s) =>
            /\ SymOf(srcs, x).bind = "GLOBAL" => Link!Precedence(SymOf(srcs, x)) \in 0 .. 2
            /\ SymOf(srcs, x).bind = "LOCAL" => Link!Precedence(SymOf(srcs, x)) = 2
  BY <1>3, SymbolsOfAre
<1>. HIDE DEF s
<1>6. \A x : x \in FirstOnes(s, m) <=> In(x, s)
  BY <1>1, <1>4, <1>5, AllRead
<1>7. /\ smap \in Seq([src : Pointer, dst : {0}]) /\ DOMAIN smap = 1 .. Len(smap)
      /\ \A h \in 1 .. Len(smap) : In(smap[h].src, s) /\ SymOf(srcs, smap[h].src).bind \in {"LOCAL", "GLOBAL"}
      /\ \A h, k \in 1 .. Len(smap) : smap[h].src = smap[k].src => h = k
  BY <1>4, <1>6 DEF MapOK
<1>. HIDE DEF kept
<1>8. /\ Link!Regular(srcs') /\ SymbolsOf(srcs') = s
      /\ \A x : In(x, s) =>
            SymOf(srcs', x) = IF x \in kept THEN Link!InBss(SymOf(srcs, x)) ELSE SymOf(srcs, x)
  <2>1. PICK G : G = srcs'
    OBVIOUS
  <2>2. /\ Link!Regular(G) /\ SymbolsOf(G) = SymbolsOf(srcs)
        /\ \A x : In(x, SymbolsOf(srcs)) =>
              SymOf(G, x) = IF x \in kept THEN Link!InBss(SymOf(srcs, x)) ELSE SymOf(srcs, x)
    BY <1>2, <1>3, <2>1, BssRegular
  <2>. QED
    BY <2>1, <2>2 DEF s
<1>9. ASSUME NEW k \in 1 .. Len(smap)
      PROVE  SymOf(srcs', smap[k].src).shndx \in Sections \cup {".bss"}
  <2>1. PICK x : x = smap[k].src
    OBVIOUS
  <2>2. x \in kept /\ In(x, s) /\ SymOf(srcs, x).bind \in {"LOCAL", "GLOBAL"}
    BY <1>7, <2>1 DEF kept
  <2>3. SymOf(srcs', x) = Link!InBss(SymOf(srcs, x))
    BY <1>8, <2>2
  <2>4. PICK e \in Link!Symbol : e = SymOf(srcs, x)
    BY <1>3, <2>2, SymbolIs DEF s
  <2>5. Link!Precedence(e) \in 0 .. 2 /\ e.shndx # "SHN_UNDEF"
    BY <1>2, <1>5, <2>2, <2>4
  <2>6. Link!InBss(e).shndx = IF e.shndx = "COMMON" THEN ".bss" ELSE e.shndx
    BY BssSymbol
  <2>7. e.shndx \in {"COMMON", ".text", ".data", ".rodata", ".bss"}
    BY <2>5 DEF Link!Precedence
  <2>. QED
    BY <2>1, <2>3, <2>4, <2>6, <2>7 DEF Sections
<1>10. smap \in Seq([src : Pointer, dst : Nat]) /\ \A k \in 1 .. Len(smap) : smap[k].dst = 0
  <2>. DEFINE P == [src : Pointer, dst : {0}]
              Q == [src : Pointer, dst : Nat]
  <2>1. P \subseteq Q /\ \A e \in P : e.dst = 0
    OBVIOUS
  <2>2. smap \in Seq(P)
    BY <1>7
  <2>. HIDE DEF P, Q
  <2>3. smap \in Seq(Q) /\ \A k \in 1 .. Len(smap) : smap[k] \in P
    BY <2>1, <2>2
  <2>. QED
    BY <2>1, <2>3 DEF Q
<1>12. NoneMissing(srcs', smap)
  <2>1. PICK G : G = srcs'
    OBVIOUS
  <2>2. ASSUME NEW x, In(x, s)
        PROVE  SymOf(G, x).bind = SymOf(srcs, x).bind /\ SymOf(G, x).name = SymOf(srcs, x).name
    <3>1. SymOf(G, x) = SymOf(srcs, x) \/ SymOf(G, x) = Link!InBss(SymOf(srcs, x))
      BY <1>8, <2>1, <2>2
    <3>2. SymOf(srcs, x) \in Link!Symbol
      BY <1>3, <2>2, SymbolIs DEF s
    <3>. QED
      BY <3>1, <3>2, BssSymbol
  <2>3. ASSUME NEW x, In(x, s), SymOf(G, x).bind = "GLOBAL"
        PROVE  \E h \in 1 .. Len(smap) : SameName(G, smap[h].src, x)
    <3>1. x \in FirstOnes(s, m) /\ SymOf(srcs, x).bind = "GLOBAL"
      BY <1>6, <2>2, <2>3
    <3>2. PICK h \in 1 .. Len(smap) : SameName(srcs, smap[h].src, x)
      BY <1>4, <3>1 DEF MapOK
    <3>3. In(smap[h].src, s)
      BY <1>7
    <3>. QED
      BY <2>2, <2>3, <3>2, <3>3 DEF SameName
  <2>4. NoneMissing(G, smap)
    BY <1>8, <2>1, <2>3 DEF NoneMissing
  <2>. QED
    BY <2>1, <2>4
<1>13. Kept(srcs', smap')
  <2>1. PICK G : G = srcs'
    OBVIOUS
  <2>2. Kept(G, smap)
    BY <1>7, <1>8, <1>9, <1>10, <1>12, <2>1 DEF Kept
  <2>. QED
    BY <1>1, <2>1, <2>2
<1>. QED
  BY <1>1, <1>8, <1>10, <1>13

\* The lines of section sec that the entries of the map lead to, and their
\* number (Count).
Weights(F, map, sec) ==
    [k \in DOMAIN map |-> IF SymOf(F, map[k].src).shndx = sec THEN SymOf(F, map[k].src).size ELSE 0]
Counts(F, map) == [sec \in Sections |-> Link!Total(Weights(F, map, sec))]

LEMMA WeightsAre ==
    ASSUME NEW F, Link!Regular(F), NEW map, Kept(F, map), NEW sec
    PROVE  /\ Weights(F, map, sec) \in Seq(Nat) /\ Len(Weights(F, map, sec)) = Len(map)
           /\ \A k \in 1 .. Len(map) :
                 /\ SymOf(F, map[k].src).shndx = sec
                       => Weights(F, map, sec)[k] = SymOf(F, map[k].src).size
                 /\ SymOf(F, map[k].src).shndx # sec => Weights(F, map, sec)[k] = 0
<1>. DEFINE a == Weights(F, map, sec)
<1>1. DOMAIN map = 1 .. Len(map) /\ Len(map) \in Nat
  BY DEF Kept
<1>2. \A k \in 1 .. Len(map) : SymOf(F, map[k].src).size \in Nat
  <2>. SUFFICES ASSUME NEW k \in 1 .. Len(map) PROVE SymOf(F, map[k].src).size \in Nat
    OBVIOUS
  <2>1. In(map[k].src, SymbolsOf(F))
    BY DEF Kept
  <2>2. PICK s \in Link!Symbol : s = SymOf(F, map[k].src)
    BY <2>1, SymbolIs
  <2>. QED
    BY <2>2 DEF Link!Symbol
<1>3. a = [k \in 1 .. Len(map) |-> a[k]]
  BY <1>1 DEF Weights
<1>4. \A k \in 1 .. Len(map) :
         a[k] = IF SymOf(F, map[k].src).shndx = sec THEN SymOf(F, map[k].src).size ELSE 0
  BY <1>1 DEF Weights
<1>. HIDE DEF a
<1>5. \A k \in 1 .. Len(map) : a[k] \in Nat
  BY <1>2, <1>4
<1>6. a \in Seq(Nat) /\ Len(a) = Len(map)
  <2>1. [k \in 1 .. Len(map) |-> a[k]] \in Seq(Nat) /\ Len([k \in 1 .. Len(map) |-> a[k]]) = Len(map)
    BY <1>1, <1>5
  <2>. QED
    BY <1>3, <2>1
<1>. QED
  BY <1>4, <1>6 DEF a

LEMMA CountsAre ==
    ASSUME NEW F, Link!Regular(F), NEW map, Kept(F, map)
    PROVE  /\ Counts(F, map) \in [Sections -> Nat]
           /\ \A k \in 1 .. Len(map) :
                 /\ SymOf(F, map[k].src).shndx \in Sections
                 /\ Counts(F, map)[SymOf(F, map[k].src).shndx] = 0
                 => SymOf(F, map[k].src).size = 0
<1>1. \A sec \in Sections : Counts(F, map)[sec] = Link!Total(Weights(F, map, sec))
  BY DEF Counts
<1>2. \A sec : Link!Total(Weights(F, map, sec)) \in Nat
  BY WeightsAre, TotalNat
<1>3. Counts(F, map) \in [Sections -> Nat]
  BY <1>2 DEF Counts
<1>4. ASSUME NEW k \in 1 .. Len(map), NEW sec \in Sections, SymOf(F, map[k].src).shndx = sec,
             Counts(F, map)[sec] = 0
      PROVE  SymOf(F, map[k].src).size = 0
  <2>. DEFINE a == Weights(F, map, sec)
  <2>1. a \in Seq(Nat) /\ k \in 1 .. Len(a) /\ a[k] = SymOf(F, map[k].src).size
    BY <1>4, WeightsAre
  <2>2. Link!Total(a) = 0
    BY <1>1, <1>4
  <2>. HIDE DEF a
  <2>. QED
    BY <2>1, <2>2, TotalNat
<1>. QED
  BY <1>3, <1>4

\* the headers give every section that has lines its place
Front(c, sec) ==
    CASE sec = ".text" -> 0 [] sec = ".rodata" -> c[".text"] [] sec = ".data" -> c[".text"] + c[".rodata"]
LaidOut(h, c) ==
    /\ DOMAIN h = {sec \in Sections : c[sec] > 0}
    /\ \A sec \in DOMAIN h :
          h[sec].size = c[sec] /\ h[sec].offset = 3 + Cardinality(DOMAIN h) + Front(c, sec)

\* t is what is left of the sections of h, in their order
InTurn(t, h) ==
    /\ t \in {<<>>, <<".text">>, <<".rodata">>, <<".data">>, <<".text", ".rodata">>,
              <<".text", ".data">>, <<".rodata", ".data">>, <<".text", ".rodata", ".data">>}
    /\ \A sec : In(sec, t) => sec \in DOMAIN h
    /\ In(".text", t) /\ ".rodata" \in DOMAIN h => In(".rodata", t)
    /\ t # <<>> /\ ".data" \in DOMAIN h => In(".data", t)

\* the lines of the sections that are not in t
Written(c, t) == (IF In(".text", t) THEN 0 ELSE c[".text"]) + (IF In(".rodata", t) THEN 0 ELSE c[".rodata"])
                   + (IF In(".data", t) THEN 0 ELSE c[".data"])

LEMMA HeaderNumber ==
    ASSUME NEW P \in SUBSET Sections
    PROVE  Cardinality(P) \in Nat
<1>1. IsFiniteSet(Sections)
  <2>1. IsFiniteSet({".text"}) /\ IsFiniteSet({".rodata"}) /\ IsFiniteSet({".data"})
    BY FS_Singleton
  <2>2. IsFiniteSet({".text"} \cup {".rodata"})
    BY <2>1, FS_Union
  <2>3. IsFiniteSet(({".text"} \cup {".rodata"}) \cup {".data"})
    BY <2>1, <2>2, FS_Union
  <2>4. Sections = ({".text"} \cup {".rodata"}) \cup {".data"}
    BY DEF Sections
  <2>. QED
    BY <2>3, <2>4
<1>. QED
  BY <1>1, FS_Subset, FS_CardinalityType

\* what is in the sequences InTurn allows
LEMMA TurnsIn ==
    /\ \A x : ~ In(x, <<>>)
    /\ \A x, a : In(x, <<a>>) <=> x = a
    /\ \A x, a, b : In(x, <<a, b>>) <=> x \in {a, b}
    /\ \A x, a, b, d : In(x, <<a, b, d>>) <=> x \in {a, b, d}
<1>1. \A x : ~ In(x, <<>>)
  BY DEF In
<1>2. \A x, a : In(x, <<a>>) <=> x = a
  BY ShortOnes, Zenon
<1>3. ASSUME NEW x, NEW a, NEW b PROVE In(x, <<a, b>>) <=> x \in {a, b}
  <2>1. PICK q : q = <<a, b>>
    OBVIOUS
  <2>2. Len(q) = 2 /\ q[1] = a /\ q[2] = b
    BY <2>1
  <2>3. In(x, q) <=> x \in {a, b}
    BY <2>2 DEF In
  <2>. QED
    BY <2>1, <2>3
<1>4. ASSUME NEW x, NEW a, NEW b, NEW d PROVE In(x, <<a, b, d>>) <=> x \in {a, b, d}
  <2>1. PICK q : q = <<a, b, d>>
    OBVIOUS
  <2>2. Len(q) = 3 /\ q[1] = a /\ q[2] = b /\ q[3] = d
    BY <2>1
  <2>3. In(x, q) <=> x \in {a, b, d}
    BY <2>2 DEF In
  <2>. QED
    BY <2>1, <2>3
<1>. QED
  BY <1>1, <1>2, <1>3, <1>4

\* One section is taken: it begins where the header says, and ends where the
\* next one begins.
LEMMA TurnStep ==
    ASSUME NEW c \in [Sections -> Nat], NEW h, LaidOut(h, c), NEW t, InTurn(t, h), t # <<>>
    PROVE  /\ Head(t) \in DOMAIN h /\ In(Head(t), t) /\ InTurn(Tail(t), h)
           /\ \A sec : In(sec, Tail(t)) <=> In(sec, t) /\ sec # Head(t)
           /\ 3 + Cardinality(DOMAIN h) + Written(c, t) = h[Head(t)].offset
           /\ Written(c, Tail(t)) = Written(c, t) + c[Head(t)]
<1>. DEFINE Goal(a, b) == /\ a \in DOMAIN h /\ In(a, t) /\ InTurn(b, h)
                          /\ \A sec : In(sec, b) <=> In(sec, t) /\ sec # a
                          /\ 3 + Cardinality(DOMAIN h) + Written(c, t) = h[a].offset
                          /\ Written(c, b) = Written(c, t) + c[a]
<1>1. \A sec \in Sections : c[sec] \in Nat /\ (sec \notin DOMAIN h => c[sec] = 0)
  BY DEF LaidOut
<1>2. \A sec \in DOMAIN h : sec \in Sections /\ h[sec].offset = 3 + Cardinality(DOMAIN h) + Front(c, sec)
  BY DEF LaidOut
<1>3. Cardinality(DOMAIN h) \in Nat
  BY <1>2, HeaderNumber
<1>4. ".text" \in Sections /\ ".rodata" \in Sections /\ ".data" \in Sections
  BY DEF Sections
<1>5. /\ Front(c, ".text") = 0 /\ Front(c, ".rodata") = c[".text"]
      /\ Front(c, ".data") = c[".text"] + c[".rodata"]
  BY DEF Front
<1>6. CASE t = <<".text">>
  <2>1. Head(t) = ".text" /\ Tail(t) = <<>>
    BY <1>6
  <2>2. Goal(".text", <<>>)
    BY <1>1, <1>2, <1>3, <1>4, <1>5, <1>6, TurnsIn DEF InTurn, Written
  <2>. QED
    BY <2>1, <2>2
<1>7. CASE t = <<".rodata">>
  <2>1. Head(t) = ".rodata" /\ Tail(t) = <<>>
    BY <1>7
  <2>2. Goal(".rodata", <<>>)
    BY <1>1, <1>2, <1>3, <1>4, <1>5, <1>7, TurnsIn DEF InTurn, Written
  <2>. QED
    BY <2>1, <2>2
<1>8. CASE t = <<".data">>
  <2>1. Head(t) = ".data" /\ Tail(t) = <<>>
    BY <1>8
  <2>2. Goal(".data", <<>>)
    BY <1>1, <1>2, <1>3, <1>4, <1>5, <1>8, TurnsIn DEF InTurn, Written
  <2>. QED
    BY <2>1, <2>2
<1>9. CASE t = <<".text", ".rodata">>
  <2>1. Head(t) = ".text" /\ Tail(t) = <<".rodata">>
    BY <1>9
  <2>2. Goal(".text", <<".rodata">>)
    BY <1>1, <1>2, <1>3, <1>4, <1>5, <1>9, TurnsIn DEF InTurn, Written
  <2>. QED
    BY <2>1, <2>2
<1>10. CASE t = <<".text", ".data">>
  <2>1. Head(t) = ".text" /\ Tail(t) = <<".data">>
    BY <1>10
  <2>2. Goal(".text", <<".data">>)
    BY <1>1, <1>2, <1>3, <1>4, <1>5, <1>10, TurnsIn DEF InTurn, Written
  <2>. QED
    BY <2>1, <2>2
<1>11. CASE t = <<".rodata", ".data">>
  <2>1. Head(t) = ".rodata" /\ Tail(t) = <<".data">>
    BY <1>11
  <2>2. Goal(".rodata", <<".data">>)
    BY <1>1, <1>2, <1>3, <1>4, <1>5, <1>11, TurnsIn DEF InTurn, Written
  <2>. QED
    BY <2>1, <2>2
<1>12. CASE t = <<".text", ".rodata", ".data">>
  <2>1. Head(t) = ".text" /\ Tail(t) = <<".rodata", ".data">>
    BY <1>12
  <2>2. Goal(".text", <<".rodata", ".data">>)
    BY <1>1, <1>2, <1>3, <1>4, <1>5, <1>12, TurnsIn DEF InTurn, Written
  <2>. QED
    BY <2>1, <2>2
<1>. QED
  BY <1>6, <1>7, <1>8, <1>9, <1>10, <1>11, <1>12 DEF InTurn

LEMMA TurnBegin ==
    ASSUME NEW h, DOMAIN h \in SUBSET Sections
    PROVE  InTurn(Link!Those(Link!Section, DOMAIN h), h)
<1>. DEFINE P == DOMAIN h
            ss == [i \in 1 .. 3 |-> IF Link!Section[i] \in P THEN <<Link!Section[i]>> ELSE <<>>]
            s1 == IF ".text" \in P THEN <<".text">> ELSE <<>>
            s2 == IF ".rodata" \in P THEN <<".rodata">> ELSE <<>>
            s3 == IF ".data" \in P THEN <<".data">> ELSE <<>>
<1>1. DOMAIN Link!Section = 1 .. 3
  BY DEF Link!Section
<1>2. ss[1] = s1 /\ ss[2] = s2 /\ ss[3] = s3
  BY DEF Link!Section
<1>3. Link!Those(Link!Section, P) = Link!Flattened(ss)
  BY <1>1 DEF Link!Those
<1>4. ss \in Seq(Seq(Sections)) /\ Len(ss) = 3
  <2>1. s1 \in Seq(Sections) /\ s2 \in Seq(Sections) /\ s3 \in Seq(Sections)
    <3>1. ".text" \in Sections /\ ".rodata" \in Sections /\ ".data" \in Sections
      BY DEF Sections
    <3>2. \A e \in Sections : <<e>> \in Seq(Sections) /\ <<>> \in Seq(Sections)
      BY ConcatShort
    <3>. QED
      BY <3>1, <3>2
  <2>. DEFINE all == Seq(Sections)
  <2>2. \A i \in 1 .. 3 : ss[i] \in all
    BY <1>2, <2>1
  <2>3. ss = [i \in 1 .. 3 |-> ss[i]]
    OBVIOUS
  <2>. HIDE DEF ss, all
  <2>4. [i \in 1 .. 3 |-> ss[i]] \in Seq(all) /\ Len([i \in 1 .. 3 |-> ss[i]]) = 3
    BY <2>2
  <2>. QED
    BY <2>3, <2>4 DEF all
<1>. HIDE DEF ss
<1>5. PICK w : Joins(w, ss) /\ Link!Flattened(ss) = w[3]
  <2>1. Len(ss) # 0
    BY <1>4
  <2>2. PICK w : Joins(w, ss) /\ Link!Flattened(ss) = w[Len(ss)]
    BY <1>4, <2>1, FlattenJoins
  <2>. QED
    BY <1>4, <2>2
<1>6. w[3] = (s1 \o s2) \o s3
  <2>1. \A i \in 1 .. 3 : w[i] = IF i = 1 THEN ss[i] ELSE w[i - 1] \o ss[i]
    <3>1. w = [i \in 1 .. 3 |-> IF i = 1 THEN ss[i] ELSE w[i - 1] \o ss[i]]
      BY <1>4, <1>5 DEF Joins
    <3>. QED
      BY <3>1, Zenon
  <2>2. \A i \in 1 .. 3 : \A j : i # 1 /\ j = i - 1 => w[i] = w[j] \o ss[i]
    BY <2>1, Zenon
  <2>3. 2 \in 1 .. 3 /\ 3 \in 1 .. 3 /\ 1 \in 1 .. 3 /\ 2 # 1 /\ 3 # 1 /\ 1 = 2 - 1 /\ 2 = 3 - 1
    OBVIOUS
  <2>4. w[1] = ss[1] /\ w[2] = w[1] \o ss[2] /\ w[3] = w[2] \o ss[3]
    BY <2>1, <2>2, <2>3, Zenon
  <2>. QED
    BY <1>2, <2>4
<1>7. ASSUME NEW a \in Sections, NEW b \in Sections, NEW d \in Sections
      PROVE  /\ <<>> \o <<>> = <<>> /\ <<>> \o <<a>> = <<a>> /\ <<a>> \o <<>> = <<a>>
             /\ <<a>> \o <<b>> = <<a, b>> /\ <<a, b>> \o <<>> = <<a, b>>
             /\ <<a, b>> \o <<d>> = <<a, b, d>>
  BY ConcatShort
<1>9. ".text" \in Sections /\ ".rodata" \in Sections /\ ".data" \in Sections
  BY DEF Sections
<1>8. s1 \o s2 = IF ".text" \in P
                 THEN IF ".rodata" \in P THEN <<".text", ".rodata">> ELSE <<".text">>
                 ELSE IF ".rodata" \in P THEN <<".rodata">> ELSE <<>>
  BY <1>7, <1>9
<1>. DEFINE v == s1 \o s2
            t == Link!Those(Link!Section, P)
<1>10. t = v \o s3
  BY <1>3, <1>5, <1>6
<1>. HIDE DEF v, P, t
<1>11. CASE ".data" \in P
  <2>1. t = IF ".text" \in P
            THEN IF ".rodata" \in P THEN <<".text", ".rodata", ".data">> ELSE <<".text", ".data">>
            ELSE IF ".rodata" \in P THEN <<".rodata", ".data">> ELSE <<".data">>
    <3>1. t = (s1 \o s2) \o <<".data">>
      BY ONLY <1>10, <1>11 DEF v
    <3>2. CASE ".text" \in P /\ ".rodata" \in P
      <4>1. s1 \o s2 = <<".text", ".rodata">>
        BY ONLY <1>8, <3>2
      <4>2. <<".text", ".rodata">> \o <<".data">> = <<".text", ".rodata", ".data">>
        BY ONLY <1>7, <1>9
      <4>. QED
        BY ONLY <3>1, <3>2, <4>1, <4>2
    <3>3. CASE ".text" \in P /\ ".rodata" \notin P
      BY ONLY <1>7, <1>8, <1>9, <3>1, <3>3
    <3>4. CASE ".text" \notin P /\ ".rodata" \in P
      BY ONLY <1>7, <1>8, <1>9, <3>1, <3>4
    <3>5. CASE ".text" \notin P /\ ".rodata" \notin P
      BY ONLY <1>7, <1>8, <1>9, <3>1, <3>5
    <3>. QED
      BY <3>2, <3>3, <3>4, <3>5
  <2>. QED
    BY <1>11, <2>1, TurnsIn DEF InTurn, P, t
<1>12. CASE ".data" \notin P
  <2>1. t = IF ".text" \in P
            THEN IF ".rodata" \in P THEN <<".text", ".rodata">> ELSE <<".text">>
            ELSE IF ".rodata" \in P THEN <<".rodata">> ELSE <<>>
    BY <1>7, <1>8, <1>9, <1>10, <1>12 DEF v
  <2>. QED
    BY <1>12, <2>1, TurnsIn DEF InTurn, P, t
<1>. QED
  BY <1>11, <1>12

\* found are the symbols of the section that the map leads to
Found(F, map, sec, found) ==
    /\ found \in Seq(Pointer) /\ Distinct(found)
    /\ \A x : In(x, found) <=>
          \E k \in 1 .. Len(map) : map[k].src = x /\ SymOf(F, x).shndx = sec

LEMMA FoundAre ==
    ASSUME NEW F, Link!Regular(F), NEW map, Kept(F, map), NEW sec \in Sections, NEW T,
           \A x : x \in T <=> /\ In(x, SymbolsOf(F)) /\ SymOf(F, x).shndx = sec /\ sec \in F[x[1]].sht
                              /\ \E k \in DOMAIN map : map[k].src = x
    PROVE  Found(F, map, sec, Link!Those(SymbolsOf(F), T))
<1>. DEFINE s == SymbolsOf(F)
<1>1. s \in Seq(Pointer) /\ Distinct(s)
  BY SymbolsOfAre
<1>2. DOMAIN map = 1 .. Len(map) /\ \A k \in 1 .. Len(map) : In(map[k].src, s)
  BY DEF Kept
<1>3. \A x : In(x, s) /\ SymOf(F, x).shndx = sec => sec \in F[x[1]].sht
  BY SymbolIs
<1>. HIDE DEF s
<1>4. \A x : x \in T <=> \E k \in 1 .. Len(map) : map[k].src = x /\ SymOf(F, x).shndx = sec
  BY <1>2, <1>3 DEF s
<1>5. /\ Link!Those(s, T) \in Seq(Pointer) /\ Distinct(Link!Those(s, T))
      /\ \A x : In(x, Link!Those(s, T)) <=> In(x, s) /\ x \in T
  BY <1>1, ThoseAre
<1>6. \A x : In(x, Link!Those(s, T)) <=> x \in T
  BY <1>2, <1>4, <1>5
<1>. QED
  BY <1>4, <1>5, <1>6 DEF Found, s

\* The sizes of the symbols of a section, as the files have them, add up to
\* what the map has of it.
SizesOf(F, found) == [i \in 1 .. Len(found) |-> SymOf(F, found[i]).size]

LEMMA SizesAre ==
    ASSUME NEW F, Link!Regular(F), NEW map, Kept(F, map), NEW sec \in Sections,
           NEW found, Found(F, map, sec, found)
    PROVE  /\ Len(found) \in Nat
           /\ \A i \in 1 .. Len(found) : /\ found[i] \in Pointer /\ SymOf(F, found[i]) \in Link!Symbol
                                         /\ SymOf(F, found[i]).shndx = sec
           /\ SizesOf(F, found) \in Seq(Nat) /\ Len(SizesOf(F, found)) = Len(found)
           /\ Link!Total(SizesOf(F, found)) = Counts(F, map)[sec]
<1>. DEFINE b == SizesOf(F, found)
            a == Weights(F, map, sec)
<1>1. Len(found) \in Nat
  BY DEF Found
<1>2. \A i \in 1 .. Len(found) :
         \E k \in 1 .. Len(map) : map[k].src = found[i] /\ SymOf(F, found[i]).shndx = sec
  BY DEF Found, In
<1>3. ASSUME NEW i \in 1 .. Len(found)
      PROVE  /\ found[i] \in Pointer /\ SymOf(F, found[i]) \in Link!Symbol
             /\ SymOf(F, found[i]).shndx = sec
  <2>1. In(found[i], SymbolsOf(F)) /\ SymOf(F, found[i]).shndx = sec
    BY <1>2 DEF Kept
  <2>. QED
    BY <2>1, SymbolIs
<1>4. \A i \in 1 .. Len(found) : SymOf(F, found[i]).size \in Nat
  <2>1. \A s \in Link!Symbol : s.size \in Nat
    BY DEF Link!Symbol
  <2>. QED
    BY <1>3, <2>1
<1>5. b \in Seq(Nat) /\ Len(b) = Len(found) /\ \A i \in 1 .. Len(b) : b[i] = SymOf(F, found[i]).size
  BY <1>1, <1>4 DEF SizesOf
<1>6. /\ a \in Seq(Nat) /\ Len(a) = Len(map)
      /\ \A k \in 1 .. Len(map) :
            /\ SymOf(F, map[k].src).shndx = sec => a[k] = SymOf(F, map[k].src).size
            /\ SymOf(F, map[k].src).shndx # sec => a[k] = 0
  BY WeightsAre
<1>7. Counts(F, map)[sec] = Link!Total(a)
  BY DEF Counts
<1>. HIDE DEF a, b
<1>. DEFINE pi == [i \in 1 .. Len(found) |-> CHOOSE k \in 1 .. Len(map) : map[k].src = found[i]]
<1>8. \A i \in 1 .. Len(found) : pi[i] \in 1 .. Len(map) /\ map[pi[i]].src = found[i]
  BY <1>2
<1>. HIDE DEF pi
<1>9. Renumbers(pi, b, a)
  <2>1. ASSUME NEW i \in 1 .. Len(b) PROVE pi[i] \in 1 .. Len(a) /\ a[pi[i]] = b[i]
    <3>1. PICK k \in 1 .. Len(map) : k = pi[i] /\ map[k].src = found[i]
      BY <1>5, <1>8
    <3>2. SymOf(F, found[i]).shndx = sec /\ b[i] = SymOf(F, found[i]).size
      BY <1>3, <1>5
    <3>3. a[k] = b[i]
      BY <1>6, <3>1, <3>2
    <3>. QED
      BY <1>6, <3>1, <3>3
  <2>2. \A i, j \in 1 .. Len(b) : pi[i] = pi[j] => i = j
    BY <1>5, <1>8 DEF Found, Distinct
  <2>3. ASSUME NEW k \in 1 .. Len(a), a[k] # 0 PROVE \E i \in 1 .. Len(b) : pi[i] = k
    <3>1. SymOf(F, map[k].src).shndx = sec /\ k \in 1 .. Len(map)
      BY <1>6, <2>3
    <3>2. In(map[k].src, found)
      BY <3>1 DEF Found
    <3>3. PICK i \in 1 .. Len(found) : found[i] = map[k].src
      BY <3>2 DEF In
    <3>4. pi[i] \in 1 .. Len(map) /\ map[pi[i]].src = map[k].src
      BY <1>8, <3>3
    <3>5. pi[i] = k
      BY <3>1, <3>4 DEF Kept
    <3>. QED
      BY <1>5, <3>3, <3>5
  <2>. QED
    BY <2>1, <2>2, <2>3 DEF Renumbers
<1>10. Link!Total(a) = Link!Total(b)
  BY <1>5, <1>6, <1>9, SameTotal
<1>. QED
  BY <1>1, <1>3, <1>5, <1>7, <1>10 DEF b

\* The lines of the symbols found, one symbol after the other.
LinesOf(F, sec, found) ==
    Link!Flattened([i \in DOMAIN found |->
        [t \in 1 .. SymOf(F, found[i]).size |-> <<found[i][1], sec, SymOf(F, found[i]).value + t - 1>>]])

\* where the lines of the i-th symbol found are when those of the ones before
\* it are f[i - 1] lines
LinesAt(F, sec, found, f, lines) ==
    /\ lines \in Seq(Line) /\ Len(lines) = f[Len(found)]
    /\ \A i \in 1 .. Len(found) : \A t \in 0 .. SymOf(F, found[i]).size - 1 :
          lines[f[i - 1] + t + 1] = <<found[i][1], sec, SymOf(F, found[i]).value + t>>

LEMMA LinesAre ==
    ASSUME NEW F, NEW sec \in Sections, NEW found \in Seq(Pointer),
           \A i \in 1 .. Len(found) : SymOf(F, found[i]) \in Link!Symbol,
           NEW f, Sums(f, SizesOf(F, found))
    PROVE  LinesAt(F, sec, found, f, LinesOf(F, sec, found))
<1>. DEFINE row(i) == [t \in 1 .. SymOf(F, found[i]).size |->
                         <<found[i][1], sec, SymOf(F, found[i]).value + t - 1>>]
            ss == [i \in 1 .. Len(found) |-> row(i)]
<1>1. Len(found) \in Nat /\ DOMAIN found = 1 .. Len(found)
  OBVIOUS
<1>2. ASSUME NEW i \in 1 .. Len(found)
      PROVE  /\ SymOf(F, found[i]).size \in Nat
             /\ row(i) \in Seq(Line) /\ Len(row(i)) = SymOf(F, found[i]).size
             /\ \A t \in 0 .. SymOf(F, found[i]).size - 1 :
                   t + 1 \in 1 .. Len(row(i)) /\ row(i)[t + 1] = <<found[i][1], sec, SymOf(F, found[i]).value + t>>
  <2>1. PICK s \in Link!Symbol : s = SymOf(F, found[i])
    OBVIOUS
  <2>2. s.size \in Nat /\ s.value \in Nat
    BY DEF Link!Symbol
  <2>3. found[i][1] \in Nat
    BY DEF Pointer
  <2>4. row(i) = [t \in 1 .. s.size |-> <<found[i][1], sec, s.value + t - 1>>]
    BY <2>1
  <2>5. \A t \in 1 .. s.size : <<found[i][1], sec, s.value + t - 1>> \in Line
    BY <2>2, <2>3 DEF Line
  <2>. DEFINE all == Line
              line(t) == <<found[i][1], sec, s.value + t - 1>>
  <2>6. \A t \in 1 .. s.size : line(t) \in all
    BY <2>5
  <2>. HIDE DEF all, row, line
  <2>7. [t \in 1 .. s.size |-> line(t)] \in Seq(all) /\ Len([t \in 1 .. s.size |-> line(t)]) = s.size
    BY <2>2, <2>6
  <2>8. row(i) = [t \in 1 .. s.size |-> line(t)]
    BY <2>4 DEF line
  <2>9. ASSUME NEW t \in 0 .. s.size - 1
        PROVE  t + 1 \in 1 .. s.size /\ row(i)[t + 1] = <<found[i][1], sec, s.value + t>>
    <3>1. t + 1 \in 1 .. s.size /\ s.value + (t + 1) - 1 = s.value + t
      BY <2>2
    <3>2. row(i)[t + 1] = <<found[i][1], sec, s.value + (t + 1) - 1>>
      BY <2>4, <3>1
    <3>. QED
      BY <3>1, <3>2
  <2>. QED
    BY <2>1, <2>2, <2>7, <2>8, <2>9 DEF all
<1>. HIDE DEF row
<1>3. ss \in Seq(Seq(Line)) /\ Len(ss) = Len(found) /\ \A i \in 1 .. Len(found) : ss[i] = row(i)
  <2>. DEFINE all == Seq(Line)
  <2>1. \A i \in 1 .. Len(found) : row(i) \in all
    BY <1>2
  <2>. HIDE DEF all
  <2>2. ss \in Seq(all) /\ Len(ss) = Len(found)
    BY <1>1, <2>1
  <2>. QED
    BY <2>2 DEF all
<1>4. LinesOf(F, sec, found) = Link!Flattened(ss)
  BY <1>1 DEF LinesOf, row
<1>. HIDE DEF ss
<1>5. Lengths(SizesOf(F, found), ss)
  <2>1. \A i \in 1 .. Len(found) : SymOf(F, found[i]).size \in Nat
    BY <1>2
  <2>2. SizesOf(F, found) \in Seq(Nat) /\ Len(SizesOf(F, found)) = Len(found)
        /\ \A i \in 1 .. Len(found) : SizesOf(F, found)[i] = SymOf(F, found[i]).size
    BY <1>1, <2>1 DEF SizesOf
  <2>. QED
    BY <1>2, <1>3, <2>2 DEF Lengths
<1>6. /\ Link!Flattened(ss) \in Seq(Line) /\ Len(Link!Flattened(ss)) = f[Len(found)]
      /\ \A i \in 1 .. Len(found) : \A t \in 1 .. Len(ss[i]) :
            Link!Flattened(ss)[f[i - 1] + t] = ss[i][t]
  BY <1>3, <1>5, FlattenAt
<1>7. ASSUME NEW i \in 1 .. Len(found), NEW t \in 0 .. SymOf(F, found[i]).size - 1
      PROVE  Link!Flattened(ss)[f[i - 1] + t + 1] = <<found[i][1], sec, SymOf(F, found[i]).value + t>>
  <2>1. t + 1 \in 1 .. Len(ss[i]) /\ ss[i][t + 1] = <<found[i][1], sec, SymOf(F, found[i]).value + t>>
    BY <1>2, <1>3
  <2>2. Link!Flattened(ss)[f[i - 1] + (t + 1)] = ss[i][t + 1]
    BY <1>6, <2>1
  <2>3. f[i - 1] + t + 1 = f[i - 1] + (t + 1)
    <3>1. f[i - 1] \in Int
      <4>1. i - 1 \in 0 .. Len(SizesOf(F, found)) /\ SizesOf(F, found) \in Seq(Nat)
        BY <1>1, <1>3, <1>5 DEF Lengths
      <4>. QED
        BY <4>1, SumsCount
    <3>2. t \in Int
      OBVIOUS
    <3>3. \A a, b \in Int : a + b + 1 = a + (b + 1)
      OBVIOUS
    <3>. QED
      BY <3>1, <3>2, <3>3, Zenon
  <2>. QED
    BY <2>1, <2>2, <2>3
<1>. QED
  BY <1>4, <1>6, <1>7 DEF LinesAt

\* sym_section_offset is the number of lines before the symbol.
LEMMA OffsetIs ==
    ASSUME NEW found, Len(found) \in Nat,
           SizesOf(srcs, found) \in Seq(Nat), Len(SizesOf(srcs, found)) = Len(found),
           NEW f, Sums(f, SizesOf(srcs, found)), NEW i \in 1 .. Len(found)
    PROVE  Link!Offset(found, i) = f[i - 1] /\ f[i - 1] \in Nat
<1>. DEFINE a == SizesOf(srcs, found)
            q == [h \in 1 .. i - 1 |-> Link!Sym(found[h])]
<1>1. i - 1 \in 0 .. Len(a) /\ \A h \in 1 .. i - 1 : h \in 1 .. Len(found)
  OBVIOUS
<1>2. \A h \in 1 .. i - 1 : q[h].size = a[h]
  BY <1>1, LinkNames DEF SizesOf
<1>3. Link!Offset(found, i) = Link!Total([h \in 1 .. i - 1 |-> q[h].size])
  BY DEF Link!Offset, Link!SizeOf
<1>. HIDE DEF a, q
<1>4. [h \in 1 .. i - 1 |-> q[h].size] = [h \in 1 .. i - 1 |-> a[h]]
  BY <1>2
<1>5. a \in Seq(Nat) /\ Sums(f, a)
  BY DEF a
<1>6. PICK k \in 0 .. Len(a) : k = i - 1
  BY <1>1
<1>7. Link!Total([h \in 1 .. k |-> a[h]]) = f[k]
  BY <1>5, TotalBegin
<1>8. f[k] \in Nat
  BY <1>5, SumsCount
<1>. QED
  BY <1>3, <1>4, <1>6, <1>7, <1>8

\* the symbol of the entry e is in the table, and its lines in the buffer,
\* where the header says that its section begins
There(F, e, h, tab, buf) ==
    LET s == SymOf(F, e.src)
        d == tab[e.dst]
    IN  /\ e.dst \in 1 .. Len(tab) /\ d.shndx = s.shndx /\ d.size = s.size
        /\ d.name = s.name /\ d.bind = s.bind
        /\ \A t \in 0 .. s.size - 1 :
              /\ h[s.shndx].offset + d.value + t + 1 \in 1 .. Len(buf)
              /\ buf[h[s.shndx].offset + d.value + t + 1] = <<e.src[1], s.shndx, s.value + t>>

\* the section is written, all but those in t are
IsWritten(h, t, sec) == sec \in DOMAIN h /\ ~ In(sec, t)

Placed(F, map, h, t, tab, buf) ==
    /\ Kept(F, map) /\ tab \in Seq(Link!Symbol) /\ buf \in Seq(Line)
    /\ \A k \in 1 .. Len(map) :
          IF IsWritten(h, t, SymOf(F, map[k].src).shndx) THEN There(F, map[k], h, tab, buf) ELSE map[k].dst = 0
    /\ \A j, k \in 1 .. Len(map) : map[j].dst # 0 /\ map[j].dst = map[k].dst => j = k
    /\ \A i \in 1 .. Len(tab) : \E k \in 1 .. Len(map) : map[k].dst = i

\* s2 is s with t behind it
Joined(s2, s, t) ==
    /\ Len(s2) = Len(s) + Len(t) /\ Len(s) \in Nat /\ Len(t) \in Nat
    /\ \A k \in 1 .. Len(s) : s2[k] = s[k]
    /\ \A k \in 1 .. Len(t) : s2[Len(s) + k] = t[k]

LEMMA JoinedBy ==
    ASSUME NEW S, NEW s \in Seq(S), NEW t \in Seq(S)
    PROVE  s \o t \in Seq(S) /\ Joined(s \o t, s, t)
<1>1. Joined(s \o t, s, t)
  BY DEF Joined
<1>. QED
  BY <1>1

\* What is there stays when the table and the buffer grow.
LEMMA ThereStays ==
    ASSUME NEW F, NEW e, NEW h, NEW tab, NEW buf, There(F, e, h, tab, buf),
           NEW new, NEW tab2, Joined(tab2, tab, new), NEW lines, NEW buf2, Joined(buf2, buf, lines)
    PROVE  There(F, e, h, tab2, buf2)
<1>1. e.dst \in 1 .. Len(tab2) /\ tab2[e.dst] = tab[e.dst]
  BY DEF There, Joined
<1>2. \A i \in 1 .. Len(buf) : i \in 1 .. Len(buf2) /\ buf2[i] = buf[i]
  BY DEF Joined
<1>. QED
  BY <1>1, <1>2 DEF There

\* the rows of the symbols found in the new table
RowsOf(F, sec, found, f, new) ==
    /\ new \in Seq(Link!Symbol) /\ Len(new) = Len(found)
    /\ \A i \in 1 .. Len(found) :
          /\ new[i].shndx = sec /\ new[i].size = SymOf(F, found[i]).size /\ new[i].value = f[i - 1]
          /\ new[i].name = SymOf(F, found[i]).name /\ new[i].bind = SymOf(F, found[i]).bind

\* the entries that lead to what was found lead to the rows behind the first m
Moved(map, found, m, map2) ==
    /\ map2 \in Seq([src : Pointer, dst : Nat]) /\ Len(map2) = Len(map)
    /\ \A k \in 1 .. Len(map) :
          /\ map2[k].src = map[k].src
          /\ \A i \in 1 .. Len(found) : found[i] = map[k].src => map2[k].dst = m + i
          /\ ~ In(map[k].src, found) => map2[k].dst = map[k].dst

\* the buffer ends where the first section of t begins
EndsAt(F, map, h, t, buf) == Len(buf) = 3 + Cardinality(DOMAIN h) + Written(Counts(F, map), t)

\* A section that is merged is in its place, and the others stay.
LEMMA MergedOK ==
    ASSUME NEW F, Link!Regular(F), NEW map, NEW h, LaidOut(h, Counts(F, map)),
           NEW t, InTurn(t, h), t # <<>>, NEW tab, NEW buf, Placed(F, map, h, t, tab, buf),
           EndsAt(F, map, h, t, buf),
           NEW found, Found(F, map, Head(t), found), NEW f, Sums(f, SizesOf(F, found)),
           NEW new, RowsOf(F, Head(t), found, f, new),
           NEW tab2 \in Seq(Link!Symbol), Joined(tab2, tab, new),
           NEW lines, LinesAt(F, Head(t), found, f, lines),
           NEW buf2 \in Seq(Line), Joined(buf2, buf, lines),
           NEW map2, Moved(map, found, Len(tab), map2)
    PROVE  /\ InTurn(Tail(t), h) /\ LaidOut(h, Counts(F, map2))
           /\ Placed(F, map2, h, Tail(t), tab2, buf2) /\ EndsAt(F, map2, h, Tail(t), buf2)
<1>. DEFINE sec == Head(t)
            c == Counts(F, map)
            sizes == SizesOf(F, found)
<1>1. /\ Kept(F, map) /\ tab \in Seq(Link!Symbol) /\ buf \in Seq(Line)
      /\ new \in Seq(Link!Symbol) /\ lines \in Seq(Line)
      /\ map2 \in Seq([src : Pointer, dst : Nat]) /\ Len(map2) = Len(map)
  BY DEF Placed, RowsOf, LinesAt, Moved
<1>2. c \in [Sections -> Nat]
  BY <1>1, CountsAre
<1>3. /\ sec \in DOMAIN h /\ In(sec, t) /\ InTurn(Tail(t), h)
      /\ \A q : In(q, Tail(t)) <=> In(q, t) /\ q # sec
      /\ 3 + Cardinality(DOMAIN h) + Written(c, t) = h[sec].offset
      /\ Written(c, Tail(t)) = Written(c, t) + c[sec]
  BY <1>2, TurnStep
<1>4. sec \in Sections /\ DOMAIN h \in SUBSET Sections
  BY <1>3 DEF LaidOut
<1>5. /\ Len(found) \in Nat /\ sizes \in Seq(Nat) /\ Len(sizes) = Len(found)
      /\ \A i \in 1 .. Len(found) : found[i] \in Pointer /\ SymOf(F, found[i]) \in Link!Symbol
                                    /\ SymOf(F, found[i]).shndx = sec
      /\ Link!Total(sizes) = c[sec]
  BY <1>1, <1>4, SizesAre
<1>6. f[Len(found)] = c[sec]
  <2>1. Sums(f, sizes)
    OBVIOUS
  <2>. HIDE DEF sizes
  <2>2. Link!Total(sizes) = f[Len(sizes)]
    BY <1>5, <2>1, TotalIsOf
  <2>. QED
    BY <1>5, <2>2
<1>7. PICK n1, n2 \in Nat : /\ n1 = Len(buf) /\ n2 = Len(lines) /\ Len(buf2) = n1 + n2
                           /\ \A i \in 1 .. n2 : buf2[n1 + i] = lines[i]
  BY DEF Joined
<1>8. PICK m1, m2 \in Nat : /\ m1 = Len(tab) /\ m2 = Len(new) /\ Len(tab2) = m1 + m2
                           /\ \A i \in 1 .. m2 : tab2[m1 + i] = new[i]
  BY DEF Joined
<1>9. Counts(F, map2) = c
  <2>1. DOMAIN map2 = 1 .. Len(map) /\ DOMAIN map = 1 .. Len(map)
    BY <1>1 DEF Kept
  <2>2. \A k \in 1 .. Len(map) : map2[k].src = map[k].src
    BY DEF Moved
  <2>3. \A q : Weights(F, map2, q) = Weights(F, map, q)
    BY <2>1, <2>2 DEF Weights
  <2>. QED
    BY <2>3 DEF Counts
<1>10. Len(buf2) = 3 + Cardinality(DOMAIN h) + Written(c, Tail(t))
  <2>1. Cardinality(DOMAIN h) \in Nat
    BY <1>4, HeaderNumber
  <2>2. Len(lines) = c[sec] /\ c[sec] \in Nat
    BY <1>2, <1>4, <1>6 DEF LinesAt
  <2>3. Written(c, t) \in Nat
    <3>1. c[".text"] \in Nat /\ c[".rodata"] \in Nat /\ c[".data"] \in Nat
      BY <1>2 DEF Sections
    <3>. QED
      <4>1. \A x, y, z \in Nat : (IF In(".text", t) THEN 0 ELSE x) + (IF In(".rodata", t) THEN 0 ELSE y)
                                    + (IF In(".data", t) THEN 0 ELSE z) \in Nat
        OBVIOUS
      <4>. QED
        BY <3>1, <4>1 DEF Written
  <2>4. PICK a, b, d \in Nat : a = Cardinality(DOMAIN h) /\ b = c[sec] /\ d = Written(c, t)
    BY <2>1, <2>2, <2>3
  <2>5. Written(c, Tail(t)) = d + b /\ n1 = 3 + a + d /\ n2 = b
    BY <1>3, <1>7, <2>2, <2>4 DEF EndsAt, c
  <2>6. Len(buf2) = 3 + a + (d + b)
    BY <1>7, <2>5
  <2>. QED
    BY <2>4, <2>5, <2>6
<1>11. Kept(F, map2)
  <2>1. NoneMissing(F, map2)
    BY <1>1 DEF Kept, Moved, NoneMissing
  <2>. QED
    BY <1>1, <2>1 DEF Kept, Moved
<1>. HIDE DEF c, sizes
<1>12. ASSUME NEW k \in 1 .. Len(map), SymOf(F, map[k].src).shndx = sec
       PROVE  There(F, map2[k], h, tab2, buf2)
  <2>1. In(map[k].src, found)
    BY <1>12 DEF Found
  <2>2. PICK i \in 1 .. Len(found) : found[i] = map[k].src
    BY <2>1 DEF In
  <2>3. map2[k].dst = m1 + i /\ map2[k].src = found[i]
    BY <1>8, <2>2 DEF Moved
  <2>4. PICK e : e = map2[k]
    OBVIOUS
  <2>5. PICK s \in Link!Symbol : s = SymOf(F, found[i])
    BY <1>5
  <2>6. s.size \in Nat /\ s.value \in Nat
    BY DEF Link!Symbol
  <2>7. PICK d : d = tab2[m1 + i]
    OBVIOUS
  <2>8. d = new[i] /\ m1 + i \in 1 .. Len(tab2)
    BY <1>5, <1>8, <2>7 DEF RowsOf
  <2>9. d.shndx = sec /\ d.size = s.size /\ d.value = f[i - 1] /\ d.name = s.name /\ d.bind = s.bind
    BY <2>5, <2>8 DEF RowsOf
  <2>10. PICK m \in Nat : m = f[i - 1] /\ m + s.size <= f[Len(found)]
    <3>1. i - 1 \in 0 .. Len(sizes) /\ i \in 0 .. Len(sizes) /\ i \in 1 .. Len(sizes) /\ Len(sizes) \in 0 .. Len(sizes)
          /\ i \in 0 .. Len(sizes)
      BY <1>5
    <3>2. f[i - 1] \in Nat /\ f[i] \in Nat
      BY <1>5, <3>1, SumsCount DEF sizes
    <3>3. f[i] = f[i - 1] + sizes[i]
      <4>1. Len(sizes) \in Nat /\ SumsTo(f, sizes, Len(sizes))
        BY <1>5 DEF Sums, sizes
      <4>. QED
        BY <3>1, <4>1, SumsStep
    <3>4. sizes[i] = s.size
      BY <2>5 DEF SizesOf, sizes
    <3>5. f[i] <= f[Len(sizes)]
      BY <1>5, <3>1, SumsGrow DEF sizes
    <3>. QED
      BY <1>5, <2>6, <3>2, <3>3, <3>4, <3>5
  <2>11. PICK off \in Nat : off = Len(buf) /\ off = h[sec].offset
    BY <1>3, <1>7 DEF c, EndsAt
  <2>12. ASSUME NEW j \in 0 .. s.size - 1
         PROVE  /\ off + m + j + 1 \in 1 .. Len(buf2)
                /\ buf2[off + m + j + 1] = <<found[i][1], sec, s.value + j>>
    <3>1. Len(lines) = f[Len(found)] /\ lines[m + j + 1] = <<found[i][1], sec, s.value + j>>
      BY <2>5, <2>10 DEF LinesAt
    <3>2. PICK l \in Int : l = m + j + 1
      BY <2>6
    <3>6. PICK z \in Nat : z = s.size /\ j \in 0 .. z - 1 /\ m + z <= n2
      BY <1>7, <2>6, <2>10, <3>1
    <3>3. l \in 1 .. n2 /\ off + m + j + 1 = off + l
      <4>2. m \in Nat /\ j \in Nat /\ z \in Nat /\ n2 \in Nat /\ off \in Nat
        BY <3>6
      <4>3. j \in 0 .. z - 1 /\ m + z <= n2
        BY <3>6
      <4>4. m + j + 1 \in 1 .. n2 /\ off + m + j + 1 = off + (m + j + 1)
        BY ONLY <4>2, <4>3
      <4>. QED
        BY ONLY <3>2, <4>4, Zenon
    <3>4. buf2[off + l] = lines[l]
      BY <1>7, <2>11, <3>3
    <3>5. off + l \in 1 .. Len(buf2)
      <4>1. off + l \in 1 .. off + n2
        BY <3>3
      <4>. QED
        BY <1>7, <2>11, <4>1
    <3>. QED
      BY <3>1, <3>2, <3>3, <3>4, <3>5
  <2>13. There(F, e, h, tab2, buf2)
    <3>1. e.dst \in 1 .. Len(tab2) /\ tab2[e.dst] = d /\ SymOf(F, e.src) = s /\ e.src[1] = found[i][1]
      BY <2>3, <2>4, <2>5, <2>7, <2>8
    <3>2. s.shndx = sec
      BY <1>5, <2>5
    <3>3. ASSUME NEW j \in 0 .. s.size - 1
          PROVE  /\ h[sec].offset + d.value + j + 1 \in 1 .. Len(buf2)
                 /\ buf2[h[sec].offset + d.value + j + 1] = <<found[i][1], sec, s.value + j>>
      BY <2>9, <2>10, <2>11, <2>12
    <3>. QED
      BY <2>9, <3>1, <3>2, <3>3 DEF There
  <2>. QED
    BY <2>4, <2>13
<1>13. ASSUME NEW k \in 1 .. Len(map), SymOf(F, map[k].src).shndx # sec
       PROVE  map2[k] = map[k]
  <2>1. ~ In(map[k].src, found)
    BY <1>13 DEF Found
  <2>2. map2[k].src = map[k].src /\ map2[k].dst = map[k].dst
    BY <2>1 DEF Moved
  <2>3. map2[k] \in [src : Pointer, dst : Nat] /\ map[k] \in [src : Pointer, dst : Nat]
    <3>. DEFINE all == [src : Pointer, dst : Nat]
    <3>1. map \in Seq(all) /\ map2 \in Seq(all) /\ k \in 1 .. Len(map2)
      BY <1>1 DEF Kept
    <3>. HIDE DEF all
    <3>2. map[k] \in all /\ map2[k] \in all
      BY <3>1
    <3>. QED
      BY <3>2 DEF all
  <2>4. \A d, e \in [src : Pointer, dst : Nat] : d.src = e.src /\ d.dst = e.dst => d = e
    OBVIOUS
  <2>. QED
    BY <2>2, <2>3, <2>4
<1>14. ASSUME NEW k \in 1 .. Len(map)
       PROVE  IF IsWritten(h, Tail(t), SymOf(F, map2[k].src).shndx)
              THEN There(F, map2[k], h, tab2, buf2) ELSE map2[k].dst = 0
  <2>1. map2[k].src = map[k].src
    BY DEF Moved
  <2>2. CASE SymOf(F, map[k].src).shndx = sec
    <3>1. IsWritten(h, Tail(t), sec)
      BY <1>3 DEF IsWritten
    <3>. QED
      BY <1>12, <2>1, <2>2, <3>1
  <2>3. CASE SymOf(F, map[k].src).shndx # sec
    <3>1. IsWritten(h, Tail(t), SymOf(F, map[k].src).shndx) <=> IsWritten(h, t, SymOf(F, map[k].src).shndx)
      BY <1>3, <2>3 DEF IsWritten
    <3>2. map2[k] = map[k]
      BY <1>13, <2>3
    <3>3. IF IsWritten(h, t, SymOf(F, map[k].src).shndx) THEN There(F, map[k], h, tab, buf) ELSE map[k].dst = 0
      BY DEF Placed
    <3>4. There(F, map[k], h, tab, buf) => There(F, map[k], h, tab2, buf2)
      BY <1>1, ThereStays
    <3>. QED
      BY <3>1, <3>2, <3>3, <3>4
  <2>. QED
    BY <2>2, <2>3
<1>15. ASSUME NEW k \in 1 .. Len(map)
       PROVE  \/ /\ SymOf(F, map[k].src).shndx = sec
                 /\ \E i \in 1 .. Len(found) : found[i] = map[k].src /\ map2[k].dst = m1 + i
              \/ /\ SymOf(F, map[k].src).shndx # sec /\ map2[k].dst = map[k].dst
                 /\ map[k].dst \in 0 .. m1
  <2>1. CASE SymOf(F, map[k].src).shndx = sec
    <3>1. In(map[k].src, found)
      BY <2>1 DEF Found
    <3>2. PICK i \in 1 .. Len(found) : found[i] = map[k].src
      BY <3>1 DEF In
    <3>. QED
      BY <1>8, <2>1, <3>2 DEF Moved
  <2>2. CASE SymOf(F, map[k].src).shndx # sec
    <3>1. map2[k] = map[k]
      BY <1>13, <2>2
    <3>2. map[k].dst = 0 \/ map[k].dst \in 1 .. Len(tab)
      BY DEF Placed, There
    <3>. QED
      BY <1>8, <2>2, <3>1, <3>2
  <2>. QED
    BY <2>1, <2>2
<1>16. ASSUME NEW j \in 1 .. Len(map), NEW k \in 1 .. Len(map), map2[j].dst # 0, map2[j].dst = map2[k].dst
       PROVE  j = k
  <2>1. CASE SymOf(F, map[j].src).shndx = sec
    <3>1. PICK i \in 1 .. Len(found) : found[i] = map[j].src /\ map2[j].dst = m1 + i
      BY <1>15, <2>1
    <3>2. SymOf(F, map[k].src).shndx = sec
      <4>. SUFFICES ASSUME SymOf(F, map[k].src).shndx # sec PROVE FALSE
        OBVIOUS
      <4>1. map2[k].dst \in 0 .. m1
        BY <1>15
      <4>2. m1 + i \notin 0 .. m1
        BY <1>5
      <4>. QED
        BY <1>16, <3>1, <4>1, <4>2, Zenon
    <3>3. PICK l \in 1 .. Len(found) : found[l] = map[k].src /\ map2[k].dst = m1 + l
      BY <1>15, <3>2
    <3>4. i = l
      <4>1. m1 + i = m1 + l
        BY <1>16, <3>1, <3>3, Zenon
      <4>. QED
        BY <1>5, <4>1
    <3>. QED
      BY <1>1, <3>1, <3>3, <3>4 DEF Kept
  <2>2. CASE SymOf(F, map[j].src).shndx # sec
    <3>1. map2[j].dst = map[j].dst /\ map[j].dst \in 0 .. m1
      BY <1>15, <2>2
    <3>2. SymOf(F, map[k].src).shndx # sec
      <4>. SUFFICES ASSUME SymOf(F, map[k].src).shndx = sec PROVE FALSE
        OBVIOUS
      <4>1. PICK i \in 1 .. Len(found) : map2[k].dst = m1 + i
        BY <1>15
      <4>2. m1 + i \notin 0 .. m1
        BY <1>5
      <4>. QED
        BY <1>16, <3>1, <4>1, <4>2, Zenon
    <3>3. map2[k].dst = map[k].dst
      BY <1>15, <3>2
    <3>. QED
      BY <1>16, <3>1, <3>3 DEF Placed
  <2>. QED
    BY <2>1, <2>2
<1>17. ASSUME NEW i \in 1 .. Len(tab2) PROVE \E k \in 1 .. Len(map) : map2[k].dst = i
  <2>1. CASE i \in 1 .. Len(tab)
    <3>1. PICK k \in 1 .. Len(map) : map[k].dst = i
      BY <2>1 DEF Placed
    <3>2. map[k].dst # 0
      BY <2>1, <3>1
    <3>3. IsWritten(h, t, SymOf(F, map[k].src).shndx)
      BY <3>2 DEF Placed
    <3>4. SymOf(F, map[k].src).shndx # sec
      BY <1>3, <3>3 DEF IsWritten
    <3>. QED
      BY <1>13, <3>1, <3>4
  <2>2. CASE i \notin 1 .. Len(tab)
    <3>1. PICK l \in 1 .. Len(found) : i = m1 + l
      <4>1. i \in 1 .. m1 + m2 /\ i \notin 1 .. m1 /\ m2 = Len(found)
        BY <1>8, <2>2 DEF RowsOf
      <4>2. i - m1 \in 1 .. m2 /\ i = m1 + (i - m1)
        BY <4>1
      <4>. QED
        BY <4>1, <4>2
    <3>2. In(found[l], found)
      BY DEF In
    <3>3. PICK k \in 1 .. Len(map) : map[k].src = found[l]
      BY <3>2 DEF Found
    <3>. QED
      BY <1>8, <3>1, <3>3 DEF Moved
  <2>. QED
    BY <2>1, <2>2
<1>18. Placed(F, map2, h, Tail(t), tab2, buf2)
  BY <1>1, <1>11, <1>14, <1>16, <1>17 DEF Placed
<1>. QED
  BY <1>3, <1>9, <1>10, <1>18 DEF c, EndsAt

\* When all sections are written the lines of every entry are in the buffer,
\* and the rows of a section have the sizes its header says.
Complete(F, map, h, tab, buf) ==
    /\ \A k \in 1 .. Len(map) :
          LET s == SymOf(F, map[k].src)
          IN  IF s.shndx = ".bss" THEN map[k].dst = 0
              ELSE \A t \in 0 .. s.size - 1 :
                     buf[h[s.shndx].offset + tab[map[k].dst].value + t + 1]
                       = <<map[k].src[1], s.shndx, s.value + t>>
    /\ \A sec \in DOMAIN h :
          Link!Total([i \in DOMAIN tab |-> IF tab[i].shndx = sec THEN tab[i].size ELSE 0]) = h[sec].size

LEMMA AllThere ==
    ASSUME NEW F, Link!Regular(F), NEW map, NEW h, LaidOut(h, Counts(F, map)),
           NEW tab, NEW buf, Placed(F, map, h, <<>>, tab, buf)
    PROVE  Complete(F, map, h, tab, buf)
<1>1. /\ Kept(F, map) /\ tab \in Seq(Link!Symbol) /\ buf \in Seq(Line)
      /\ \A k \in 1 .. Len(map) : SymOf(F, map[k].src).shndx \in Sections \cup {".bss"}
  BY DEF Placed, Kept
<1>2. \A sec : IsWritten(h, <<>>, sec) <=> sec \in DOMAIN h
  BY TurnsIn DEF IsWritten
<1>3. \A k \in 1 .. Len(map) :
         IF SymOf(F, map[k].src).shndx \in DOMAIN h THEN There(F, map[k], h, tab, buf) ELSE map[k].dst = 0
  BY <1>2 DEF Placed
<1>4. DOMAIN h \subseteq Sections /\ \A sec \in Sections \ DOMAIN h : Counts(F, map)[sec] = 0
  <2>1. \A sec \in Sections : Counts(F, map)[sec] \in Nat
    BY <1>1, CountsAre
  <2>. QED
    BY <2>1 DEF LaidOut
<1>5. ASSUME NEW k \in 1 .. Len(map), NEW s, s = SymOf(F, map[k].src), s.shndx # ".bss",
             NEW t \in 0 .. s.size - 1
      PROVE  buf[h[s.shndx].offset + tab[map[k].dst].value + t + 1] = <<map[k].src[1], s.shndx, s.value + t>>
  <2>1. CASE s.shndx \in DOMAIN h
    <3>1. There(F, map[k], h, tab, buf)
      BY <1>3, <1>5, <2>1
    <3>. QED
      BY <1>5, <3>1, Zenon DEF There
  <2>2. CASE s.shndx \notin DOMAIN h
    <3>1. s.shndx \in Sections /\ Counts(F, map)[s.shndx] = 0
      BY <1>1, <1>4, <1>5, <2>2
    <3>2. s.size = 0
      BY <1>1, <1>5, <3>1, CountsAre
    <3>. QED
      BY <3>2
  <2>. QED
    BY <2>1, <2>2
<1>6. ASSUME NEW k \in 1 .. Len(map), SymOf(F, map[k].src).shndx = ".bss" PROVE map[k].dst = 0
  <2>1. ".bss" \notin DOMAIN h
    BY <1>4 DEF Sections
  <2>. QED
    BY <1>3, <1>6, <2>1
<1>7. ASSUME NEW sec \in DOMAIN h
      PROVE  Link!Total([i \in DOMAIN tab |-> IF tab[i].shndx = sec THEN tab[i].size ELSE 0]) = h[sec].size
  <2>. DEFINE b == [i \in DOMAIN tab |-> IF tab[i].shndx = sec THEN tab[i].size ELSE 0]
              a == Weights(F, map, sec)
              pi == [i \in 1 .. Len(tab) |-> CHOOSE k \in 1 .. Len(map) : map[k].dst = i]
  <2>1. Len(tab) \in Nat /\ DOMAIN tab = 1 .. Len(tab)
        /\ \A i \in 1 .. Len(tab) : tab[i].size \in Nat
    <3>1. \A i \in 1 .. Len(tab) : tab[i] \in Link!Symbol
      BY <1>1
    <3>2. \A s \in Link!Symbol : s.size \in Nat
      BY DEF Link!Symbol
    <3>. QED
      BY <1>1, <3>1, <3>2
  <2>2. /\ b \in Seq(Nat) /\ Len(b) = Len(tab)
        /\ \A i \in 1 .. Len(tab) : b[i] = IF tab[i].shndx = sec THEN tab[i].size ELSE 0
    BY <2>1
  <2>3. /\ a \in Seq(Nat) /\ Len(a) = Len(map)
        /\ \A k \in 1 .. Len(map) :
              /\ SymOf(F, map[k].src).shndx = sec => a[k] = SymOf(F, map[k].src).size
              /\ SymOf(F, map[k].src).shndx # sec => a[k] = 0
    BY <1>1, WeightsAre
  <2>4. Link!Total(a) = h[sec].size
    <3>1. sec \in Sections /\ Counts(F, map)[sec] = h[sec].size
      BY DEF LaidOut
    <3>. QED
      BY <3>1 DEF Counts
  <2>5. \A i \in 1 .. Len(tab) : pi[i] \in 1 .. Len(map) /\ map[pi[i]].dst = i
    BY DEF Placed
  <2>. HIDE DEF a, b, pi
  <2>6. Renumbers(pi, b, a)
    <3>1. ASSUME NEW i \in 1 .. Len(b) PROVE pi[i] \in 1 .. Len(a) /\ a[pi[i]] = b[i]
      <4>1. PICK k \in 1 .. Len(map) : k = pi[i] /\ map[k].dst = i
        BY <2>2, <2>5
      <4>2. i # 0
        BY <2>1, <2>2
      <4>3. There(F, map[k], h, tab, buf)
        BY <1>3, <4>1, <4>2
      <4>4. tab[i].shndx = SymOf(F, map[k].src).shndx /\ tab[i].size = SymOf(F, map[k].src).size
        BY <4>1, <4>3, Zenon DEF There
      <4>5. a[k] = b[i]
        BY <2>2, <2>3, <4>4
      <4>. QED
        BY <2>3, <4>1, <4>5
    <3>2. \A i, j \in 1 .. Len(b) : pi[i] = pi[j] => i = j
      <4>1. \A i \in 1 .. Len(b) : map[pi[i]].dst = i
        BY ONLY <2>2, <2>5
      <4>. QED
        BY ONLY <4>1, Zenon
    <3>3. ASSUME NEW k \in 1 .. Len(a), a[k] # 0 PROVE \E i \in 1 .. Len(b) : pi[i] = k
      <4>1. k \in 1 .. Len(map) /\ SymOf(F, map[k].src).shndx = sec
        BY <2>3, <3>3
      <4>2. There(F, map[k], h, tab, buf)
        BY <1>3, <4>1
      <4>3. PICK i \in 1 .. Len(tab) : i = map[k].dst
        BY <4>2 DEF There
      <4>4. pi[i] \in 1 .. Len(map) /\ map[pi[i]].dst = map[k].dst /\ map[k].dst # 0
        BY <2>1, <2>5, <4>3
      <4>5. pi[i] = k
        BY <4>1, <4>4 DEF Placed
      <4>. QED
        BY <2>2, <4>5
    <3>. QED
      BY <3>1, <3>2, <3>3 DEF Renumbers
  <2>7. Link!Total(a) = Link!Total(b)
    BY <2>2, <2>3, <2>6, SameTotal
  <2>. QED
    BY <2>4, <2>7 DEF b
<1>. QED
  BY <1>5, <1>6, <1>7 DEF Complete

\* The line count of the header is what .symtab fills the file up to.
LEMMA LineCountIs ==
    ASSUME Link!Regular(srcs), Kept(srcs, smap), LaidOut(sht, Counts(srcs, smap)),
           EndsAt(srcs, smap, sht, <<>>, buffer)
    PROVE  Link!LineCount = Len(buffer) + Len(smap)
<1>. DEFINE c == Counts(srcs, smap)
            a == [i \in 1 .. 3 |-> IF Link!Section[i] \in DOMAIN sht THEN sht[Link!Section[i]].size ELSE 0]
<1>1. c \in [Sections -> Nat]
  BY CountsAre
<1>2. Link!Section[1] = ".text" /\ Link!Section[2] = ".rodata" /\ Link!Section[3] = ".data"
  BY DEF Link!Section
<1>3. ASSUME NEW sec \in Sections
      PROVE  c[sec] \in Nat /\ (IF sec \in DOMAIN sht THEN sht[sec].size ELSE 0) = c[sec]
  <2>1. c[sec] \in Nat
    BY <1>1
  <2>2. sec \in DOMAIN sht <=> c[sec] > 0
    BY DEF LaidOut
  <2>3. sec \in DOMAIN sht => sht[sec].size = c[sec]
    BY DEF LaidOut
  <2>4. sec \notin DOMAIN sht => c[sec] = 0
    BY <2>1, <2>2
  <2>. QED
    BY <2>1, <2>3, <2>4
<1>4. ".text" \in Sections /\ ".rodata" \in Sections /\ ".data" \in Sections
  BY DEF Sections
<1>5. a[1] = c[".text"] /\ a[2] = c[".rodata"] /\ a[3] = c[".data"]
  BY <1>2, <1>3, <1>4
<1>6. a \in Seq(Nat) /\ Len(a) = 3
  <2>1. \A i \in 1 .. 3 : i = 1 \/ i = 2 \/ i = 3
    OBVIOUS
  <2>2. \A i \in 1 .. 3 : a[i] \in Nat
    BY <1>3, <1>4, <1>5, <2>1
  <2>3. a = [i \in 1 .. 3 |-> a[i]]
    OBVIOUS
  <2>. HIDE DEF a
  <2>4. [i \in 1 .. 3 |-> a[i]] \in Seq(Nat) /\ Len([i \in 1 .. 3 |-> a[i]]) = 3
    BY <2>2
  <2>. QED
    BY <2>3, <2>4
<1>7. Link!LineCount = 2 + Cardinality(DOMAIN sht) + 1 + Len(smap) + Link!Total(a)
  <2>1. \A T : Link!Cardinality(T) = Cardinality(T)
    BY DEF Link!Cardinality, Cardinality
  <2>. QED
    BY <2>1 DEF Link!LineCount
<1>. HIDE DEF a, c
<1>8. Link!Total(a) = c[".text"] + c[".rodata"] + c[".data"]
  BY <1>5, <1>6, TotalShort
<1>9. Written(c, <<>>) = c[".text"] + c[".rodata"] + c[".data"]
  BY TurnsIn DEF Written
<1>10. Len(buffer) = 3 + Cardinality(DOMAIN sht) + Written(c, <<>>)
  BY DEF EndsAt, c
<1>11. Cardinality(DOMAIN sht) \in Nat /\ Len(smap) \in Nat
  <2>1. DOMAIN sht \in SUBSET Sections
    BY DEF LaidOut
  <2>. QED
    BY <2>1, HeaderNumber DEF Kept
<1>12. PICK d, m, w \in Nat : /\ d = Cardinality(DOMAIN sht) /\ m = Len(smap)
                              /\ w = c[".text"] + c[".rodata"] + c[".data"]
  BY <1>3, <1>4, <1>11
<1>13. Link!LineCount = 2 + d + 1 + m + w /\ Len(buffer) = 3 + d + w
  BY <1>7, <1>8, <1>9, <1>10, <1>12
<1>14. 2 + d + 1 + m + w = 3 + d + w + m
  OBVIOUS
<1>. QED
  BY <1>12, <1>13, <1>14

MergeInv ==
    /\ phase # "miscounted"
    /\ phase \in {"symbols", "headers"} => symt = <<>>
    /\ phase \in {"headers", "merge", "relocate", "done"} => Link!Regular(srcs) /\ Kept(srcs, smap)
    /\ phase = "headers" => \A k \in 1 .. Len(smap) : smap[k].dst = 0
    /\ phase \in {"merge", "relocate", "done"} => LaidOut(sht, Counts(srcs, smap))
    /\ phase = "merge" => /\ InTurn(todo, sht) /\ Placed(srcs, smap, sht, todo, symt, buffer)
                          /\ EndsAt(srcs, smap, sht, todo, buffer)
    /\ phase \in {"relocate", "done"} => /\ Placed(srcs, smap, sht, <<>>, symt, buffer)
                                         /\ Len(buffer) = Link!LineCount

LEMMA InitMergeInv == Init => MergeInv
BY Zenon DEF Init, NotLinking, Link!Init, MergeInv

LEMMA ResolutionMergeInv ==
    /\ MergeInv /\ (Link!SkipWeak \/ Link!EnterSymbol \/ Link!Resolve) => MergeInv'
    /\ LinkInv /\ MergeInv /\ Link!NoUndefined => MergeInv'
<1>1. ASSUME MergeInv, Link!SkipWeak \/ Link!EnterSymbol \/ Link!Resolve PROVE MergeInv'
  <2>1. phase = "symbols" /\ symt' = symt
    BY <1>1 DEF Link!SkipWeak, Link!EnterSymbol, Link!Resolve
  <2>2. Link!SkipWeak => phase' = "symbols"
    BY <2>1 DEF Link!SkipWeak
  <2>3. Link!EnterSymbol => phase' \in {"symbols", "aborted", "overflow"}
    BY DEF Link!EnterSymbol, Link!Goto
  <2>4. Link!Resolve => phase' \in {"symbols", "redeclared"}
    BY DEF Link!Resolve, Link!Goto
  <2>. QED
    BY <1>1, <2>1, <2>2, <2>3, <2>4 DEF MergeInv
<1>2. ASSUME LinkInv, MergeInv, Link!NoUndefined PROVE MergeInv'
  <2>1. phase = "symbols" /\ symt' = symt /\ phase' \in {"undefined", "headers"}
    BY <1>2 DEF Link!NoUndefined, Link!Goto
  <2>2. phase' = "headers" => Link!Regular(srcs') /\ Kept(srcs', smap') /\ smap' = smap
                              /\ \A k \in 1 .. Len(smap) : smap[k].dst = 0
    BY <1>2, NoUndefinedKept
  <2>3. Link!Regular(srcs') => Link!Regular(srcs)'
    BY DEF Link!Regular
  <2>. QED
    BY <1>2, <2>1, <2>2, <2>3 DEF MergeInv
<1>. QED
  BY <1>1, <1>2

\* the lines of the sections ahead of one
LEMMA AheadIs ==
    ASSUME NEW c \in [Sections -> Nat], NEW sec \in Sections,
           NEW a, a = [i \in DOMAIN Link!Ahead(sec) |-> c[Link!Ahead(sec)[i]]]
    PROVE  Link!Total(a) = Front(c, sec)
<1>1. c[".text"] \in Nat /\ c[".rodata"] \in Nat
  BY DEF Sections
<1>2. CASE sec = ".text"
  <2>1. Link!Ahead(sec) = <<>>
    BY <1>2 DEF Link!Ahead
  <2>2. a \in Seq(Nat) /\ Len(a) = 0
    BY <2>1
  <2>. QED
    BY <1>2, <2>2, TotalShort DEF Front
<1>3. CASE sec = ".rodata"
  <2>1. Link!Ahead(sec) = <<".text">>
    BY <1>3 DEF Link!Ahead
  <2>2. a \in Seq(Nat) /\ Len(a) = 1 /\ a[1] = c[".text"]
    BY <1>1, <2>1
  <2>. QED
    BY <1>3, <2>2, TotalShort DEF Front
<1>4. CASE sec = ".data"
  <2>1. Link!Ahead(sec) = <<".text", ".rodata">>
    BY <1>4 DEF Link!Ahead
  <2>2. a \in Seq(Nat) /\ Len(a) = 2 /\ a[1] = c[".text"] /\ a[2] = c[".rodata"]
    BY <1>1, <2>1
  <2>. QED
    BY <1>4, <2>2, TotalShort DEF Front
<1>. QED
  BY <1>2, <1>3, <1>4 DEF Sections

LEMMA HeaderMergeInv == MergeInv /\ Link!ComputeSectionHeader => MergeInv'
<1>. SUFFICES ASSUME MergeInv, Link!ComputeSectionHeader PROVE MergeInv'
  OBVIOUS
<1>. DEFINE c == Counts(srcs, smap)
            P == Link!Present
            first == 3 + Cardinality(P)
<1>1. /\ Link!Regular(srcs) /\ Kept(srcs, smap) /\ symt = <<>>
      /\ \A k \in 1 .. Len(smap) : smap[k].dst = 0
  BY DEF Link!ComputeSectionHeader, MergeInv
<1>2. c \in [Sections -> Nat]
  BY <1>1, CountsAre
<1>3. \A sec \in Sections : Link!Count(sec) = c[sec]
  BY LinkNames DEF Link!Count, Counts, Weights
<1>4. Link!Members(Link!Section) = Sections
  BY DEF Link!Members, Link!Section, Sections
<1>5. P = {sec \in Sections : c[sec] > 0} /\ P \in SUBSET Sections
  BY <1>3, <1>4 DEF Link!Present
<1>6. Cardinality(P) \in Nat
  BY <1>5, HeaderNumber
<1>7. Link!Cardinality(P) = Cardinality(P)
  BY DEF Link!Cardinality, Cardinality
<1>8. /\ srcs' = srcs /\ smap' = smap /\ symt' = symt /\ phase' = "merge"
      /\ todo' = Link!Those(Link!Section, P)
      /\ DOMAIN sht' = P
      /\ \A sec \in P :
            /\ sht'[sec].size = Link!Count(sec)
            /\ sht'[sec].offset = 2 + Cardinality(P) + 1
                  + Link!Total([i \in DOMAIN Link!Ahead(sec) |-> Link!Count(Link!Ahead(sec)[i])])
      /\ buffer' = [l \in 1 .. 2 + Cardinality(P) + 1 |-> <<0, "header", l>>]
  BY <1>7, Zenon DEF Link!ComputeSectionHeader, Link!Goto
<1>9. ASSUME NEW sec \in P
      PROVE  sht'[sec].size = c[sec] /\ sht'[sec].offset = 3 + Cardinality(P) + Front(c, sec)
  <2>1. sec \in Sections
    BY <1>5
  <2>2. \A i \in DOMAIN Link!Ahead(sec) : Link!Ahead(sec)[i] \in Sections
    BY <2>1 DEF Link!Ahead, Sections
  <2>3. [i \in DOMAIN Link!Ahead(sec) |-> Link!Count(Link!Ahead(sec)[i])]
        = [i \in DOMAIN Link!Ahead(sec) |-> c[Link!Ahead(sec)[i]]]
    BY <1>3, <2>2
  <2>4. Link!Total([i \in DOMAIN Link!Ahead(sec) |-> Link!Count(Link!Ahead(sec)[i])]) = Front(c, sec)
    BY <1>2, <2>1, <2>3, AheadIs
  <2>5. sht'[sec].offset = 2 + Cardinality(P) + 1 + Front(c, sec)
    BY <1>8, <2>4
  <2>6. Front(c, sec) \in Nat
    <3>1. c[".text"] \in Nat /\ c[".rodata"] \in Nat
      BY <1>2 DEF Sections
    <3>. QED
      BY <2>1, <3>1 DEF Front, Sections
  <2>7. sht'[sec].size = c[sec]
    BY <1>3, <1>8, <2>1
  <2>8. \A a, b \in Nat : 2 + a + 1 + b = 3 + a + b
    OBVIOUS
  <2>. QED
    BY <1>6, <2>5, <2>6, <2>7, <2>8
<1>. HIDE DEF P, c
<1>10. PICK h : h = sht' /\ LaidOut(h, c) /\ DOMAIN h = P
  BY <1>5, <1>8, <1>9 DEF LaidOut
<1>11. InTurn(todo', h)
  BY <1>5, <1>8, <1>10, TurnBegin
<1>12. PICK m \in Nat : m = 3 + Cardinality(P) /\ m = 2 + Cardinality(P) + 1
  BY <1>6
<1>13. buffer' \in Seq(Line) /\ Len(buffer') = m
  <2>1. \A l \in 1 .. m : <<0, "header", l>> \in Line
    BY DEF Line
  <2>. DEFINE all == Line
  <2>2. \A l \in 1 .. m : <<0, "header", l>> \in all
    BY <2>1, Zenon
  <2>. HIDE DEF all
  <2>3. [l \in 1 .. m |-> <<0, "header", l>>] \in Seq(all) /\ Len([l \in 1 .. m |-> <<0, "header", l>>]) = m
    BY <2>2
  <2>4. buffer' = [l \in 1 .. m |-> <<0, "header", l>>]
    BY <1>8, <1>12
  <2>. QED
    BY <2>3, <2>4 DEF all
<1>14. PICK t : t = todo' /\ InTurn(t, h) /\ \A x : In(x, t) <=> x \in P
  <2>1. \A x : In(x, todo') <=> x \in P
    <3>1. Link!Section \in Seq(Sections)
      <4>. DEFINE q == Link!Section
      <4>1. q = [i \in 1 .. 3 |-> q[i]] /\ \A i \in 1 .. 3 : q[i] \in Sections
        BY DEF Link!Section, Sections
      <4>. HIDE DEF q
      <4>. QED
        BY <4>1 DEF q
    <3>2. \A x : In(x, Link!Section) <=> x \in Sections
      BY TurnsIn DEF Link!Section, Sections
    <3>3. \A x : In(x, Link!Those(Link!Section, P)) <=> In(x, Link!Section) /\ x \in P
      BY <3>1, ThoseAre
    <3>. QED
      BY <1>5, <1>8, <3>2, <3>3
  <2>. QED
    BY <1>11, <2>1
<1>15. Written(c, t) = 0
  <2>1. \A sec \in Sections : sec \notin P => c[sec] = 0
    BY <1>2, <1>10 DEF LaidOut
  <2>. QED
    BY <1>14, <2>1 DEF Written, Sections
<1>16. PICK b : b = buffer' /\ b \in Seq(Line) /\ Len(b) = m
  BY <1>13
<1>17. EndsAt(srcs, smap, h, t, b)
  BY <1>10, <1>12, <1>15, <1>16 DEF EndsAt, c
<1>18. Placed(srcs, smap, h, t, <<>>, b)
  <2>1. <<>> \in Seq(Link!Symbol) /\ Len(<<>>) = 0
    OBVIOUS
  <2>2. \A sec : ~ IsWritten(h, t, sec)
    BY <1>10, <1>14 DEF IsWritten
  <2>. QED
    BY <1>1, <1>16, <2>1, <2>2 DEF Placed
<1>19. Link!Regular(srcs)'
  BY <1>1, <1>8 DEF Link!Regular
<1>. QED
  BY <1>1, <1>8, <1>10, <1>14, <1>16, <1>17, <1>18, <1>19 DEF MergeInv, c

LEMMA SectionMergeInv == MergeInv /\ Link!MergeSection => MergeInv'
<1>. SUFFICES ASSUME MergeInv, Link!MergeSection PROVE MergeInv'
  OBVIOUS
<1>. DEFINE F == srcs
            sec == Head(todo)
            T == {x \in Link!Members(Link!Symbols) :
                     Link!Sym(x).shndx = sec /\ sec \in srcs[x[1]].sht /\ Link!Mapped(x)}
            found == Link!Those(Link!Symbols, T)
            lines == LinesOf(F, sec, found)
            new == [i \in DOMAIN found |-> [Link!Sym(found[i]) EXCEPT !.value = Link!Offset(found, i)]]
            map2 == [k \in DOMAIN smap |->
                       IF smap[k].src \in Link!Members(found)
                       THEN [smap[k] EXCEPT !.dst = Len(symt)
                                + CHOOSE i \in DOMAIN found : found[i] = smap[k].src]
                       ELSE smap[k]]
<1>1. /\ phase = "merge" /\ todo # <<>>
      /\ Link!Regular(F) /\ Kept(F, smap) /\ LaidOut(sht, Counts(F, smap))
      /\ InTurn(todo, sht) /\ Placed(F, smap, sht, todo, symt, buffer)
      /\ EndsAt(F, smap, sht, todo, buffer)
  BY Zenon DEF Link!MergeSection, MergeInv
<1>2. /\ symt \in Seq(Link!Symbol) /\ buffer \in Seq(Line)
      /\ DOMAIN smap = 1 .. Len(smap) /\ Len(smap) \in Nat
      /\ \A k \in 1 .. Len(smap) : smap[k] \in [src : Pointer, dst : Nat]
  <2>1. smap \in Seq([src : Pointer, dst : Nat])
    BY <1>1 DEF Kept
  <2>. DEFINE all == [src : Pointer, dst : Nat]
  <2>. HIDE DEF all
  <2>2. smap \in Seq(all)
    BY <2>1 DEF all
  <2>3. DOMAIN smap = 1 .. Len(smap) /\ Len(smap) \in Nat /\ \A k \in 1 .. Len(smap) : smap[k] \in all
    BY <2>2
  <2>. QED
    BY <1>1, <2>3 DEF Placed, all
<1>3. sec \in Sections
  <2>1. sec \in DOMAIN sht
    BY <1>1, CountsAre, TurnStep
  <2>. QED
    BY <1>1, <2>1 DEF LaidOut
<1>4. \A x : x \in T <=> /\ In(x, SymbolsOf(F)) /\ SymOf(F, x).shndx = sec /\ sec \in F[x[1]].sht
                         /\ \E k \in DOMAIN smap : smap[k].src = x
  BY <1>1, LinkNames, SymbolSet DEF Link!Mapped
<1>5. found = Link!Those(SymbolsOf(F), T)
  BY LinkNames
<1>6. \/ /\ phase' = "aborted" /\ UNCHANGED <<srcs, smap, sht, symt>>
      \/ /\ buffer' = buffer \o lines /\ symt' = symt \o new /\ smap' = map2
         /\ phase' = "merge" /\ todo' = Tail(todo) /\ srcs' = srcs /\ sht' = sht
  BY Zenon DEF Link!MergeSection, Link!Goto, Link!Sym, LinesOf, SymOf
<1>. HIDE DEF T, lines, map2
<1>7. Found(F, smap, sec, found)
  BY <1>1, <1>3, <1>4, <1>5, FoundAre
<1>8. /\ Len(found) \in Nat /\ found \in Seq(Pointer) /\ DOMAIN found = 1 .. Len(found)
      /\ \A i \in 1 .. Len(found) : /\ found[i] \in Pointer /\ SymOf(F, found[i]) \in Link!Symbol
                                    /\ SymOf(F, found[i]).shndx = sec
      /\ SizesOf(F, found) \in Seq(Nat) /\ Len(SizesOf(F, found)) = Len(found)
  BY <1>1, <1>3, <1>7, SizesAre DEF Found
<1>9. PICK f : Sums(f, SizesOf(F, found))
  BY <1>8, SumsExist
<1>10. LinesAt(F, sec, found, f, lines)
  BY <1>3, <1>8, <1>9, LinesAre DEF lines
<1>11. RowsOf(F, sec, found, f, new)
  <2>1. ASSUME NEW i \in 1 .. Len(found)
        PROVE  /\ new[i] = [SymOf(F, found[i]) EXCEPT !.value = f[i - 1]]
               /\ new[i] \in Link!Symbol /\ new[i].shndx = sec
               /\ new[i].size = SymOf(F, found[i]).size /\ new[i].value = f[i - 1]
               /\ new[i].name = SymOf(F, found[i]).name /\ new[i].bind = SymOf(F, found[i]).bind
    <3>1. Link!Offset(found, i) = f[i - 1] /\ f[i - 1] \in Nat
      BY <1>8, <1>9, OffsetIs
    <3>2. new[i] = [SymOf(F, found[i]) EXCEPT !.value = f[i - 1]]
      BY <1>8, <3>1, LinkNames
    <3>3. PICK s \in Link!Symbol : s = SymOf(F, found[i])
      BY <1>8
    <3>4. PICK v \in Nat : v = f[i - 1]
      BY <3>1
    <3>5. PICK e : e = [s EXCEPT !.value = v]
      OBVIOUS
    <3>6. /\ e \in Link!Symbol /\ e.shndx = s.shndx /\ e.size = s.size /\ e.value = v
          /\ e.name = s.name /\ e.bind = s.bind
      BY <3>5 DEF Link!Symbol
    <3>7. new[i] = e /\ s.shndx = sec
      BY <1>8, <3>2, <3>3, <3>4, <3>5
    <3>. QED
      BY <3>2, <3>3, <3>4, <3>6, <3>7
  <2>2. new = [i \in 1 .. Len(found) |-> new[i]]
    BY <1>8
  <2>. DEFINE all == Link!Symbol
  <2>3. \A i \in 1 .. Len(found) : new[i] \in all
    BY <2>1
  <2>. HIDE DEF all, new
  <2>4. [i \in 1 .. Len(found) |-> new[i]] \in Seq(all) /\ Len([i \in 1 .. Len(found) |-> new[i]]) = Len(found)
    BY <1>8, <2>3
  <2>5. new \in Seq(Link!Symbol) /\ Len(new) = Len(found)
    BY <2>2, <2>4 DEF all
  <2>. QED
    BY <2>1, <2>5 DEF RowsOf
<1>12. Moved(smap, found, Len(symt), map2)
  <2>1. Len(symt) \in Nat
    BY <1>2
  <2>. HIDE DEF found
  <2>2. ASSUME NEW k \in 1 .. Len(smap)
        PROVE  /\ map2[k] \in [src : Pointer, dst : Nat] /\ map2[k].src = smap[k].src
               /\ \A i \in 1 .. Len(found) : found[i] = smap[k].src => map2[k].dst = Len(symt) + i
               /\ ~ In(smap[k].src, found) => map2[k].dst = smap[k].dst
    <3>. DEFINE at == CHOOSE i \in DOMAIN found : found[i] = smap[k].src
    <3>1. smap[k].src \in Link!Members(found) <=> In(smap[k].src, found)
      BY DEF Link!Members, In
    <3>2. smap[k] \in [src : Pointer, dst : Nat]
      BY <1>2
    <3>3. CASE In(smap[k].src, found)
      <4>1. at \in 1 .. Len(found) /\ found[at] = smap[k].src
        BY <1>8, <3>3 DEF In
      <4>2. map2[k] = [smap[k] EXCEPT !.dst = Len(symt) + at]
        BY <1>2, <3>1, <3>3 DEF map2
      <4>. HIDE DEF at
      <4>3. PICK m \in Nat : m = Len(symt) + at
        BY <1>8, <2>1, <4>1
      <4>4. PICK e \in [src : Pointer, dst : Nat] : e = smap[k]
        BY <3>2
      <4>5. map2[k] = [e EXCEPT !.dst = m]
        BY <4>2, <4>3, <4>4
      <4>6. /\ [e EXCEPT !.dst = m] \in [src : Pointer, dst : Nat]
            /\ [e EXCEPT !.dst = m].src = e.src /\ [e EXCEPT !.dst = m].dst = m
        OBVIOUS
      <4>7. \A i \in 1 .. Len(found) : found[i] = smap[k].src => i = at
        BY <1>7, <4>1 DEF Found, Distinct
      <4>. QED
        BY <3>3, <4>3, <4>4, <4>5, <4>6, <4>7
    <3>4. CASE ~ In(smap[k].src, found)
      <4>1. map2[k] = smap[k]
        BY <1>2, <3>1, <3>4 DEF map2
      <4>. QED
        BY <3>2, <3>4, <4>1 DEF In
    <3>. QED
      BY <3>3, <3>4
  <2>3. map2 = [k \in 1 .. Len(smap) |-> map2[k]]
    BY <1>2 DEF map2
  <2>. DEFINE all == [src : Pointer, dst : Nat]
  <2>4. \A k \in 1 .. Len(smap) : map2[k] \in all
    BY <2>2
  <2>. HIDE DEF all
  <2>5. [k \in 1 .. Len(smap) |-> map2[k]] \in Seq(all) /\ Len([k \in 1 .. Len(smap) |-> map2[k]]) = Len(smap)
    BY <1>2, <2>4
  <2>6. map2 \in Seq([src : Pointer, dst : Nat]) /\ Len(map2) = Len(smap)
    BY <2>3, <2>5 DEF all
  <2>. QED
    BY <2>2, <2>6 DEF Moved
<1>. HIDE DEF new, found
<1>13. CASE phase' = "aborted"
  BY <1>13 DEF MergeInv
<1>14. CASE phase' # "aborted"
  <2>1. /\ buffer' = buffer \o lines /\ symt' = symt \o new /\ smap' = map2
        /\ phase' = "merge" /\ todo' = Tail(todo) /\ srcs' = srcs /\ sht' = sht
    BY <1>6, <1>14
  <2>2. PICK tab2 \in Seq(Link!Symbol) : tab2 = symt \o new /\ Joined(tab2, symt, new)
    BY <1>2, <1>11, JoinedBy DEF RowsOf
  <2>3. PICK buf2 \in Seq(Line) : buf2 = buffer \o lines /\ Joined(buf2, buffer, lines)
    BY <1>2, <1>10, JoinedBy DEF LinesAt
  <2>4. /\ InTurn(Tail(todo), sht) /\ LaidOut(sht, Counts(F, map2))
        /\ Placed(F, map2, sht, Tail(todo), tab2, buf2) /\ EndsAt(F, map2, sht, Tail(todo), buf2)
    BY <1>1, <1>7, <1>9, <1>10, <1>11, <1>12, <2>2, <2>3, MergedOK
  <2>5. Kept(F, map2)
    BY <2>4 DEF Placed
  <2>6. Link!Regular(srcs)'
    BY <1>1, <2>1 DEF Link!Regular
  <2>7. phase' = "merge" /\ Kept(srcs', smap') /\ InTurn(todo', sht') /\ LaidOut(sht', Counts(srcs', smap'))
        /\ Placed(srcs', smap', sht', todo', symt', buffer') /\ EndsAt(srcs', smap', sht', todo', buffer')
    BY <2>1, <2>2, <2>3, <2>4, <2>5
  <2>. QED
    BY <2>6, <2>7 DEF MergeInv
<1>. QED
  BY <1>13, <1>14

\* .symtab is the last that is written; no line of the sections moves.
LEMMA SymtabMergeInv == MergeInv /\ Link!MergeSymtab => MergeInv'
<1>. SUFFICES ASSUME MergeInv, Link!MergeSymtab PROVE MergeInv'
  OBVIOUS
<1>. DEFINE last == [i \in 1 .. Len(smap) |-> <<0, "symtab", i>>]
<1>1. /\ phase = "merge" /\ todo = <<>>
      /\ Link!Regular(srcs) /\ Kept(srcs, smap) /\ LaidOut(sht, Counts(srcs, smap))
      /\ Placed(srcs, smap, sht, <<>>, symt, buffer) /\ EndsAt(srcs, smap, sht, <<>>, buffer)
  BY DEF Link!MergeSymtab, MergeInv
<1>2. Link!LineCount = Len(buffer) + Len(smap)
  BY <1>1, LineCountIs
<1>3. /\ UNCHANGED <<srcs, smap, sht, symt>> /\ buffer' = buffer \o last
      /\ phase' \in {"overflow", "relocate", "bad_entry"}
  BY <1>2 DEF Link!MergeSymtab, Link!Goto
<1>4. Len(smap) \in Nat /\ symt \in Seq(Link!Symbol) /\ buffer \in Seq(Line)
  BY <1>1 DEF Placed, Kept
<1>5. last \in Seq(Line) /\ Len(last) = Len(smap)
  <2>. DEFINE all == Line
  <2>1. \A i \in 1 .. Len(smap) : <<0, "symtab", i>> \in all
    BY <1>4 DEF Line
  <2>. HIDE DEF all
  <2>2. last \in Seq(all) /\ Len(last) = Len(smap)
    BY <1>4, <2>1
  <2>. QED
    BY <2>2 DEF all
<1>. HIDE DEF last
<1>6. PICK buf2 \in Seq(Line) : buf2 = buffer \o last /\ Joined(buf2, buffer, last)
  BY <1>4, <1>5, JoinedBy
<1>7. Len(buf2) = Link!LineCount
  BY <1>2, <1>5, <1>6 DEF Joined
<1>8. Joined(symt, symt, <<>>)
  BY <1>4 DEF Joined
<1>9. Placed(srcs, smap, sht, <<>>, symt, buf2)
  <2>1. ASSUME NEW k \in 1 .. Len(smap)
        PROVE  IF IsWritten(sht, <<>>, SymOf(srcs, smap[k].src).shndx)
               THEN There(srcs, smap[k], sht, symt, buf2) ELSE smap[k].dst = 0
    <3>1. IF IsWritten(sht, <<>>, SymOf(srcs, smap[k].src).shndx)
          THEN There(srcs, smap[k], sht, symt, buffer) ELSE smap[k].dst = 0
      BY <1>1 DEF Placed
    <3>2. There(srcs, smap[k], sht, symt, buffer) => There(srcs, smap[k], sht, symt, buf2)
      BY <1>6, <1>8, ThereStays
    <3>. QED
      BY <3>1, <3>2
  <2>. QED
    BY <1>1, <1>6, <2>1 DEF Placed
<1>10. buffer' = buf2 /\ Link!LineCount' = Link!LineCount
  BY <1>3, <1>6 DEF Link!LineCount
<1>11. Link!Regular(srcs)'
  BY <1>1, <1>3 DEF Link!Regular
<1>. QED
  BY <1>1, <1>3, <1>7, <1>9, <1>10, <1>11 DEF MergeInv

LEMMA NextMergeInv == LinkInv /\ MergeInv /\ [Link!Next]_linkVars => MergeInv'
<1>. SUFFICES ASSUME LinkInv, MergeInv, [Link!Next]_linkVars PROVE MergeInv'
  OBVIOUS
<1>1. CASE Link!SkipWeak \/ Link!EnterSymbol \/ Link!Resolve \/ Link!NoUndefined
  BY <1>1, ResolutionMergeInv
<1>2. CASE Link!ComputeSectionHeader
  BY <1>2, HeaderMergeInv
<1>3. CASE Link!MergeSection
  BY <1>3, SectionMergeInv
<1>4. CASE Link!MergeSymtab
  BY <1>4, SymtabMergeInv
<1>5. ASSUME UNCHANGED <<srcs, smap, sht, symt, buffer>>,
             \/ phase = "relocate" /\ phase' \in {"relocate", "aborted", "crashed", "done"}
             \/ phase' = phase /\ todo' = todo
      PROVE  MergeInv'
  <2>1. Link!LineCount' = Link!LineCount
    BY <1>5 DEF Link!LineCount
  <2>2. Link!Regular(srcs)' <=> Link!Regular(srcs)
    BY <1>5 DEF Link!Regular
  <2>. QED
    BY <1>5, <2>1, <2>2 DEF MergeInv
<1>6. CASE Link!Relocate \/ Link!Finish
  <2>1. UNCHANGED <<srcs, smap, sht, symt, buffer>> /\ phase = "relocate"
    BY <1>6 DEF Link!Relocate, Link!Finish
  <2>2. phase' \in {"relocate", "aborted", "crashed", "done"}
    BY <1>6 DEF Link!Relocate, Link!Finish, Link!Goto, Link!NextEntry
  <2>. QED
    BY <1>5, <2>1, <2>2
<1>7. CASE UNCHANGED linkVars
  BY <1>5, <1>7 DEF linkVars
<1>. QED
  BY <1>1, <1>2, <1>3, <1>4, <1>6, <1>7 DEF Link!Next

\* Merging puts every line of every symbol of the program where
\* compute_section_header and sym_section_offset say, fills the sections to
\* the last line, and counts the lines right, for any files.
THEOREM LinesInPlace == Spec => []MergedExactly
<1>1. Init => LinkInv /\ MergeInv
  BY InitLinkInv, InitMergeInv
<1>2. LinkInv /\ MergeInv /\ [Next]_vars => LinkInv' /\ MergeInv'
  BY Parts, NextLinkInv, NextMergeInv
<1>3. MergeInv => MergedExactly
  <2>. SUFFICES ASSUME MergeInv PROVE Link!MergedExactly
    BY DEF MergedExactly
  <2>1. phase # "miscounted"
    BY DEF MergeInv
  <2>2. ASSUME phase \in {"relocate", "done"}
        PROVE  /\ \A k \in DOMAIN smap :
                     LET s == Link!Sym(smap[k].src)
                         d == symt[smap[k].dst]
                     IN  IF s.shndx = ".bss" THEN smap[k].dst = 0
                         ELSE \A t \in 0 .. s.size - 1 :
                                buffer[sht[s.shndx].offset + d.value + t + 1]
                                  = <<smap[k].src[1], s.shndx, s.value + t>>
               /\ \A sec \in DOMAIN sht :
                     Link!Total([i \in DOMAIN symt |-> IF symt[i].shndx = sec THEN symt[i].size ELSE 0])
                       = sht[sec].size
               /\ Len(buffer) = Link!LineCount
    <3>1. /\ Link!Regular(srcs) /\ LaidOut(sht, Counts(srcs, smap)) /\ Kept(srcs, smap)
          /\ Placed(srcs, smap, sht, <<>>, symt, buffer) /\ Len(buffer) = Link!LineCount
      BY <2>2 DEF MergeInv
    <3>2. DOMAIN smap = 1 .. Len(smap)
      BY <3>1 DEF Kept
    <3>3. Complete(srcs, smap, sht, symt, buffer)
      BY <3>1, AllThere
    <3>. QED
      BY <3>1, <3>2, <3>3, LinkNames DEF Complete
  <2>. QED
    BY <2>1, <2>2, Zenon DEF Link!MergedExactly
<1>. QED
  BY <1>1, <1>2, <1>3, PTL DEF Spec

-----------------------------------------------------------------------------
(* Linker: relocation.                                                     *)

Entry == Nat \X Sections \X Nat

\* Entries, Rel and Referencing of the files in F, and the symbol referenced
EntriesOf(F) == Link!Flattened([i \in DOMAIN F |->
                    [j \in DOMAIN F[i].reltext |-> <<i, ".text", j>>]
                 \o [j \in DOMAIN F[i].reldata |-> <<i, ".data", j>>]])
RelOf(F, e) == IF e[2] = ".text" THEN F[e[1]].reltext[e[3]] ELSE F[e[1]].reldata[e[3]]
Owners(F, e) ==
    {j \in DOMAIN F[e[1]].symt :
        LET s == F[e[1]].symt[j]
        IN  s.shndx = e[2] /\ s.value <= RelOf(F, e).row /\ RelOf(F, e).row <= s.value + s.size - 1}
TargetOf(F, e) == F[e[1]].symt[RelOf(F, e).sym]

\* the entries of the map that the reference means, one at most
Meant(F, map, e) ==
    {u \in 1 .. Len(map) :
        SymOf(F, map[u].src).bind = "GLOBAL" /\ SymOf(F, map[u].src).name = TargetOf(F, e).name}

InProgram(F, h, x) == SymOf(F, x).shndx \in DOMAIN h

\* a reference that can be patched is patched, in its line
Bound(F, map, h, buf, q, e) ==
    /\ Owners(F, e) # {} /\ TargetOf(F, e).bind = "GLOBAL"
    /\ \A u \in Meant(F, map, e) : InProgram(F, h, map[u].src)
    => /\ e \in DOMAIN q /\ q[e].to \in Meant(F, map, e)
       /\ buf[q[e].line + 1] = <<e[1], e[2], RelOf(F, e).row>>

LEMMA EntriesAre ==
    ASSUME NEW F, Link!Regular(F)
    PROVE  /\ EntriesOf(F) \in Seq(Entry)
           /\ \A e : In(e, EntriesOf(F)) =>
                 /\ e[1] \in DOMAIN F /\ e[2] \in {".text", ".data"}
                 /\ RelOf(F, e).row \in Nat /\ RelOf(F, e).sym \in DOMAIN F[e[1]].symt
<1>. DEFINE a(i) == [j \in DOMAIN F[i].reltext |-> <<i, ".text", j>>]
            b(i) == [j \in DOMAIN F[i].reldata |-> <<i, ".data", j>>]
            ss == [i \in DOMAIN F |-> a(i) \o b(i)]
<1>1. DOMAIN F = 1 .. Len(F) /\ Len(F) \in Nat
  BY DEF Link!Regular
<1>2. ASSUME NEW i \in 1 .. Len(F)
      PROVE  /\ a(i) \in Seq(Entry) /\ b(i) \in Seq(Entry)
             /\ \A e : In(e, a(i)) => \E j \in DOMAIN F[i].reltext : e = <<i, ".text", j>>
             /\ \A e : In(e, b(i)) => \E j \in DOMAIN F[i].reldata : e = <<i, ".data", j>>
             /\ \A j \in DOMAIN F[i].reltext : F[i].reltext[j] \in Link!Relocation(F[i].symt)
             /\ \A j \in DOMAIN F[i].reldata : F[i].reldata[j] \in Link!Relocation(F[i].symt)
  <2>. DEFINE R == Link!Relocation(F[i].symt)
              s == F[i].reltext
              t == F[i].reldata
              all == Entry
  <2>1. s \in Seq(R) /\ t \in Seq(R)
    BY <1>1 DEF Link!Regular
  <2>2. \A j \in Nat : <<i, ".text", j>> \in all /\ <<i, ".data", j>> \in all
    BY <1>1 DEF Entry, Sections
  <2>3. a(i) = [j \in DOMAIN s |-> <<i, ".text", j>>] /\ b(i) = [j \in DOMAIN t |-> <<i, ".data", j>>]
    OBVIOUS
  <2>. HIDE DEF R, s, t, all, a, b
  <2>4. DOMAIN s = 1 .. Len(s) /\ Len(s) \in Nat /\ DOMAIN t = 1 .. Len(t) /\ Len(t) \in Nat
    BY <2>1
  <2>5. a(i) \in Seq(all) /\ b(i) \in Seq(all) /\ Len(a(i)) = Len(s) /\ Len(b(i)) = Len(t)
    <3>. DEFINE x(j) == <<i, ".text", j>>
                y(j) == <<i, ".data", j>>
    <3>1. \A j \in Nat : x(j) \in all /\ y(j) \in all
      BY <2>2
    <3>2. a(i) = [j \in 1 .. Len(s) |-> x(j)] /\ b(i) = [j \in 1 .. Len(t) |-> y(j)]
      BY <2>3, <2>4
    <3>. HIDE DEF x, y
    <3>3. [j \in 1 .. Len(s) |-> x(j)] \in Seq(all) /\ Len([j \in 1 .. Len(s) |-> x(j)]) = Len(s)
      BY <2>4, <3>1
    <3>4. [j \in 1 .. Len(t) |-> y(j)] \in Seq(all) /\ Len([j \in 1 .. Len(t) |-> y(j)]) = Len(t)
      BY <2>4, <3>1
    <3>. QED
      BY <3>2, <3>3, <3>4
  <2>6. \A e : In(e, a(i)) => \E j \in DOMAIN s : e = <<i, ".text", j>>
    BY <2>3, <2>4, <2>5 DEF In
  <2>7. \A e : In(e, b(i)) => \E j \in DOMAIN t : e = <<i, ".data", j>>
    BY <2>3, <2>4, <2>5 DEF In
  <2>8. (\A j \in DOMAIN s : s[j] \in R) /\ (\A j \in DOMAIN t : t[j] \in R)
    BY <2>1
  <2>. QED
    BY <2>5, <2>6, <2>7, <2>8 DEF R, s, t, all
<1>. HIDE DEF a, b
<1>3. ASSUME NEW i \in 1 .. Len(F)
      PROVE  ss[i] \in Seq(Entry) /\ \A e : In(e, ss[i]) <=> In(e, a(i)) \/ In(e, b(i))
  <2>1. ss[i] = a(i) \o b(i)
    BY <1>1
  <2>2. a(i) \in Seq(Entry) /\ b(i) \in Seq(Entry)
    BY <1>2
  <2>3. a(i) \o b(i) \in Seq(Entry)
    BY <2>2, Concat
  <2>4. \A e : In(e, a(i) \o b(i)) <=> In(e, a(i)) \/ In(e, b(i))
    BY <2>2, ConcatIn
  <2>. QED
    BY <2>1, <2>3, <2>4
<1>4. ss \in Seq(Seq(Entry)) /\ Len(ss) = Len(F)
  <2>. DEFINE all == Seq(Entry)
  <2>1. ss = [i \in 1 .. Len(F) |-> ss[i]]
    BY <1>1
  <2>2. \A i \in 1 .. Len(F) : ss[i] \in all
    BY <1>3
  <2>. HIDE DEF all, ss
  <2>3. [i \in 1 .. Len(F) |-> ss[i]] \in Seq(all) /\ Len([i \in 1 .. Len(F) |-> ss[i]]) = Len(F)
    BY <1>1, <2>2
  <2>. QED
    BY <2>1, <2>3 DEF all
<1>5. EntriesOf(F) = Link!Flattened(ss)
  BY DEF EntriesOf, a, b
<1>. HIDE DEF ss
<1>6. Link!Flattened(ss) \in Seq(Entry) /\ \A e : In(e, Link!Flattened(ss)) <=> InFirst(e, ss, Len(ss))
  BY <1>4, FlattenIn
<1>7. ASSUME NEW e, In(e, EntriesOf(F))
      PROVE  /\ e[1] \in DOMAIN F /\ e[2] \in {".text", ".data"}
             /\ RelOf(F, e).row \in Nat /\ RelOf(F, e).sym \in DOMAIN F[e[1]].symt
  <2>1. PICK i \in 1 .. Len(F) : In(e, a(i)) \/ In(e, b(i))
    BY <1>3, <1>4, <1>5, <1>6, <1>7 DEF InFirst
  <2>2. \A r \in Link!Relocation(F[i].symt) : r.row \in Nat /\ r.sym \in DOMAIN F[i].symt
    BY DEF Link!Relocation
  <2>3. CASE In(e, a(i))
    <3>1. PICK j \in DOMAIN F[i].reltext : e = <<i, ".text", j>>
      BY <1>2, <2>3
    <3>2. e[1] = i /\ e[2] = ".text" /\ RelOf(F, e) \in Link!Relocation(F[i].symt)
      BY <1>2, <3>1 DEF RelOf
    <3>. QED
      BY <1>1, <2>2, <3>2
  <2>4. CASE In(e, b(i))
    <3>1. PICK j \in DOMAIN F[i].reldata : e = <<i, ".data", j>>
      BY <1>2, <2>4
    <3>2. e[1] = i /\ e[2] = ".data" /\ RelOf(F, e) \in Link!Relocation(F[i].symt)
      BY <1>2, <3>1 DEF RelOf
    <3>. QED
      BY <1>1, <2>2, <3>2
  <2>. QED
    BY <2>1, <2>3, <2>4
<1>. QED
  BY <1>5, <1>6, <1>7

\* Referenced of the files in F
Refs(F, map, tab, e) ==
    {u \in 1 .. Len(map) :
        /\ map[u].dst # 0
        /\ tab[map[u].dst].name = TargetOf(F, e).name /\ tab[map[u].dst].bind = "GLOBAL"}

LEMMA WhereIs ==
    ASSUME NEW F, Link!Regular(F), NEW map, NEW h, LaidOut(h, Counts(F, map)),
           NEW tab, NEW buf, Placed(F, map, h, <<>>, tab, buf),
           NEW k \in 1 .. Len(map)
    PROVE  /\ SymOf(F, map[k].src).shndx # ".bss" /\ SymOf(F, map[k].src).size > 0
                 => InProgram(F, h, map[k].src)
           /\ InProgram(F, h, map[k].src) => There(F, map[k], h, tab, buf) /\ map[k].dst # 0
           /\ map[k].dst # 0 => There(F, map[k], h, tab, buf)
<1>1. Kept(F, map) /\ tab \in Seq(Link!Symbol)
  BY DEF Placed
<1>2. \A sec : IsWritten(h, <<>>, sec) <=> sec \in DOMAIN h
  BY TurnsIn DEF IsWritten
<1>3. IF SymOf(F, map[k].src).shndx \in DOMAIN h THEN There(F, map[k], h, tab, buf) ELSE map[k].dst = 0
  BY <1>2 DEF Placed
<1>4. There(F, map[k], h, tab, buf) => map[k].dst # 0
  <2>1. 0 \notin 1 .. Len(tab)
    BY <1>1
  <2>. QED
    BY <2>1, Zenon DEF There
<1>5. ASSUME SymOf(F, map[k].src).shndx # ".bss", SymOf(F, map[k].src).size > 0
      PROVE  SymOf(F, map[k].src).shndx \in DOMAIN h
  <2>1. SymOf(F, map[k].src).shndx \in Sections
    BY <1>1, <1>5 DEF Kept
  <2>2. SymOf(F, map[k].src).size # 0
    BY <1>5
  <2>3. Counts(F, map)[SymOf(F, map[k].src).shndx] # 0
    BY <1>1, <2>1, <2>2, CountsAre
  <2>4. Counts(F, map)[SymOf(F, map[k].src).shndx] \in Nat
    BY <1>1, <2>1, CountsAre
  <2>. QED
    BY <2>1, <2>3, <2>4 DEF LaidOut
<1>. QED
  BY <1>3, <1>4, <1>5 DEF InProgram

\* The search for the name finds what the reference means, and nothing else.
LEMMA RefsAre ==
    ASSUME NEW F, Link!Regular(F), NEW map, NEW h, LaidOut(h, Counts(F, map)),
           NEW tab, NEW buf, Placed(F, map, h, <<>>, tab, buf),
           NEW e, In(e, EntriesOf(F))
    PROVE  /\ Refs(F, map, tab, e) \subseteq Meant(F, map, e)
           /\ \A u \in Meant(F, map, e) : InProgram(F, h, map[u].src) => u \in Refs(F, map, tab, e)
           /\ TargetOf(F, e).bind = "GLOBAL" => Meant(F, map, e) # {}
<1>1. ASSUME NEW u \in 1 .. Len(map), There(F, map[u], h, tab, buf)
      PROVE  /\ tab[map[u].dst].name = SymOf(F, map[u].src).name
             /\ tab[map[u].dst].bind = SymOf(F, map[u].src).bind
  BY <1>1 DEF There
<1>2. \A u \in Refs(F, map, tab, e) : u \in Meant(F, map, e)
  <2>. SUFFICES ASSUME NEW u \in Refs(F, map, tab, e) PROVE u \in Meant(F, map, e)
    OBVIOUS
  <2>1. /\ u \in 1 .. Len(map) /\ map[u].dst # 0
        /\ tab[map[u].dst].name = TargetOf(F, e).name /\ tab[map[u].dst].bind = "GLOBAL"
    BY DEF Refs
  <2>2. There(F, map[u], h, tab, buf)
    BY <2>1, WhereIs
  <2>. QED
    BY <1>1, <2>1, <2>2 DEF Meant
<1>3. ASSUME NEW u \in Meant(F, map, e), InProgram(F, h, map[u].src) PROVE u \in Refs(F, map, tab, e)
  <2>1. /\ u \in 1 .. Len(map) /\ SymOf(F, map[u].src).bind = "GLOBAL"
        /\ SymOf(F, map[u].src).name = TargetOf(F, e).name
    BY DEF Meant
  <2>2. There(F, map[u], h, tab, buf) /\ map[u].dst # 0
    BY <1>3, <2>1, WhereIs
  <2>. QED
    BY <1>1, <2>1, <2>2 DEF Refs
<1>4. ASSUME TargetOf(F, e).bind = "GLOBAL" PROVE Meant(F, map, e) # {}
  <2>1. e[1] \in DOMAIN F /\ RelOf(F, e).sym \in DOMAIN F[e[1]].symt
    BY EntriesAre
  <2>2. PICK x : x = <<e[1], RelOf(F, e).sym>>
    OBVIOUS
  <2>3. In(x, SymbolsOf(F)) /\ SymOf(F, x) = TargetOf(F, e)
    BY <2>1, <2>2, SymbolsOfAre DEF SymOf, TargetOf
  <2>4. NoneMissing(F, map)
    BY DEF Placed, Kept
  <2>5. PICK u \in 1 .. Len(map) : SameName(F, map[u].src, x)
    BY <1>4, <2>3, <2>4 DEF NoneMissing
  <2>6. u \in Meant(F, map, e)
    BY <2>3, <2>5 DEF Meant, SameName
  <2>. QED
    BY <2>6
<1>. QED
  BY <1>2, <1>3, <1>4

\* the line that holds e, which is in the j-th symbol, the k-th of the map
LineOf(F, map, h, tab, e, j, k) ==
    h[e[2]].offset + (RelOf(F, e).row - F[e[1]].symt[j].value + tab[map[k].dst].value)

\* What is patched is the line that holds the reference in the file.
LEMMA LinePatched ==
    ASSUME NEW F, Link!Regular(F), NEW map, NEW h, LaidOut(h, Counts(F, map)),
           NEW tab, NEW buf, Placed(F, map, h, <<>>, tab, buf),
           NEW e, In(e, EntriesOf(F)), NEW j \in Owners(F, e),
           NEW k \in 1 .. Len(map), map[k].src = <<e[1], j>>
    PROVE  buf[LineOf(F, map, h, tab, e, j, k) + 1] = <<e[1], e[2], RelOf(F, e).row>>
<1>1. PICK x : x = map[k].src
  OBVIOUS
<1>2. Kept(F, map) /\ tab \in Seq(Link!Symbol)
  BY DEF Placed
<1>3. In(x, SymbolsOf(F))
  BY <1>1, <1>2 DEF Kept
<1>4. PICK s \in Link!Symbol : s = SymOf(F, x)
  BY <1>3, SymbolIs
<1>5. s = F[e[1]].symt[j] /\ x[1] = e[1]
  BY <1>1, <1>4 DEF SymOf
<1>6. PICK r \in Nat : r = RelOf(F, e).row
  BY EntriesAre
<1>7. s.size \in Nat /\ s.value \in Nat
  BY DEF Link!Symbol
<1>8. s.shndx = e[2] /\ s.value <= r /\ r <= s.value + s.size - 1
  BY <1>5, <1>6 DEF Owners
<1>9. InProgram(F, h, x)
  <2>1. s.size > 0
    BY <1>7, <1>8
  <2>2. e[2] # ".bss"
    BY EntriesAre
  <2>. QED
    BY <1>1, <1>4, <1>8, <2>1, <2>2, WhereIs
<1>10. There(F, map[k], h, tab, buf)
  BY <1>1, <1>9, WhereIs
<1>11. PICK v \in Nat : v = tab[map[k].dst].value
  <2>1. map[k].dst \in 1 .. Len(tab)
    BY <1>10 DEF There
  <2>2. PICK d \in Link!Symbol : d = tab[map[k].dst]
    BY <1>2, <2>1
  <2>3. d.value \in Nat
    BY DEF Link!Symbol
  <2>. QED
    BY <2>2, <2>3
<1>12. PICK t \in 0 .. s.size - 1 : t = r - s.value /\ s.value + t = r
  <2>1. PICK a \in Nat, b \in Nat : a = s.value /\ b = s.size
    BY <1>7
  <2>2. a <= r /\ r <= a + b - 1
    BY <1>8, <2>1
  <2>3. r - a \in 0 .. b - 1 /\ a + (r - a) = r
    BY <2>2
  <2>. QED
    BY <2>1, <2>3
<1>13. buf[h[e[2]].offset + v + t + 1] = <<e[1], e[2], r>>
  <2>1. buf[h[s.shndx].offset + v + t + 1] = <<x[1], s.shndx, s.value + t>>
    BY <1>1, <1>4, <1>10, <1>11 DEF There
  <2>. QED
    BY <1>5, <1>8, <1>12, <2>1, Zenon
<1>14. PICK o \in Nat : o = h[e[2]].offset
  <2>1. e[2] \in DOMAIN h
    <3>1. map[k].dst # 0
      BY <1>1, <1>9, WhereIs
    <3>2. IsWritten(h, <<>>, SymOf(F, map[k].src).shndx)
      BY <3>1 DEF Placed
    <3>. QED
      BY <1>1, <1>4, <1>8, <3>2 DEF IsWritten
  <2>2. PICK c : c = Counts(F, map)
    OBVIOUS
  <2>3. c \in [Sections -> Nat] /\ e[2] \in Sections /\ LaidOut(h, c)
    BY <1>2, <2>1, <2>2, CountsAre DEF LaidOut
  <2>4. DOMAIN h \in SUBSET Sections
    BY <2>3 DEF LaidOut
  <2>5. Cardinality(DOMAIN h) \in Nat
    BY <2>4, HeaderNumber
  <2>6. Front(c, e[2]) \in Nat
    <3>1. c[".text"] \in Nat /\ c[".rodata"] \in Nat
      BY <2>3 DEF Sections
    <3>. QED
      BY <2>3, <3>1 DEF Front, Sections
  <2>7. h[e[2]].offset = 3 + Cardinality(DOMAIN h) + Front(c, e[2])
    BY <2>1, <2>3 DEF LaidOut
  <2>. QED
    BY <2>5, <2>6, <2>7
<1>15. o + (r - s.value + v) + 1 = o + v + t + 1
  BY <1>7, <1>12
<1>. QED
  BY <1>5, <1>6, <1>11, <1>13, <1>14, <1>15, Zenon DEF LineOf

LEMMA RelocationNames ==
    /\ Link!Entries = EntriesOf(srcs)
    /\ \A e : /\ Link!Rel(e) = RelOf(srcs, e)
              /\ Link!Referencing(e) = Owners(srcs, e)
    /\ DOMAIN smap = 1 .. Len(smap) => \A e : Link!Referenced(e) = Refs(srcs, smap, symt, e)
<1>1. \A e : Link!Rel(e) = RelOf(srcs, e)
  BY DEF Link!Rel, RelOf
<1>2. \A e : Link!Referencing(e) = Owners(srcs, e)
  BY <1>1 DEF Link!Referencing, Owners
<1>3. Link!Entries = EntriesOf(srcs)
  BY DEF Link!Entries, EntriesOf
<1>4. DOMAIN smap = 1 .. Len(smap) => \A e : Link!Referenced(e) = Refs(srcs, smap, symt, e)
  BY <1>1 DEF Link!Referenced, Refs, TargetOf
<1>. QED
  BY <1>1, <1>2, <1>3, <1>4

BindInv ==
    /\ phase = "relocate" =>
          /\ todo \in Seq(Entry) /\ \A e : In(e, todo) => In(e, EntriesOf(srcs))
          /\ \A e : In(e, EntriesOf(srcs)) => In(e, todo) \/ Bound(srcs, smap, sht, buffer, patched, e)
    /\ phase = "done" =>
          \A e : In(e, EntriesOf(srcs)) => Bound(srcs, smap, sht, buffer, patched, e)

\* what relocation writes for e into q
Writes(e, j, k, u, q) ==
    \E v : q = [x \in DOMAIN patched \cup {e} |->
                  IF x = e
                  THEN [line |-> LineOf(srcs, smap, sht, symt, e, j, k), to |-> u, value |-> v]
                  ELSE patched[x]]

LEMMA RelocateDoes ==
    ASSUME Link!Relocate, phase' = "relocate", DOMAIN smap = 1 .. Len(smap), NEW e, e = Head(todo)
    PROVE  /\ phase = "relocate" /\ todo # <<>> /\ todo' = Tail(todo)
           /\ UNCHANGED <<srcs, smap, sht, symt, buffer>>
           /\ \/ patched' = patched /\ (Owners(srcs, e) = {} \/ Refs(srcs, smap, symt, e) = {})
              \/ \E j \in Owners(srcs, e), k \in 1 .. Len(smap), u \in Refs(srcs, smap, symt, e) :
                    smap[k].src = <<e[1], j>> /\ Writes(e, j, k, u, patched')
<1>1. /\ phase = "relocate" /\ todo # <<>> /\ UNCHANGED <<srcs, smap, sht, symt, buffer>>
  BY DEF Link!Relocate
<1>2. /\ Link!Referencing(e) = Owners(srcs, e)
      /\ Link!Referenced(e) = Refs(srcs, smap, symt, e)
      /\ Link!Rel(e) = RelOf(srcs, e)
  BY RelocationNames
<1>. DEFINE row(d, j, k) == Link!RowInProgram(d, srcs[d[1]].symt[j], symt[smap[k].dst])
            address(u) == Link!RuntimeAddress(symt[smap[u].dst])
            Patch(d, j, k, u) ==
                /\ patched' = [x \in DOMAIN patched \cup {d} |->
                      IF x = d
                      THEN [line |-> sht[d[2]].offset + row(d, j, k), to |-> u,
                            value |-> IF Link!Rel(d).type = "32" THEN address(u)
                                      ELSE address(u) - (Base + (row(d, j, k) + 1) * InstructionSize)]
                      ELSE patched[x]]
                /\ Link!Goto("relocate", Tail(todo))
            Try(d, j, k) ==
                \/ Link!Goto("crashed", <<>>)
                \/ \E u \in Link!Referenced(d) : Patch(d, j, k, u) \/ Link!Goto("aborted", <<>>)
            Skip(d) == (\A j \in Link!Referencing(d) : Link!Referenced(d) = {}) /\ Link!NextEntry
            Choice(d) ==
                \/ Link!Goto("aborted", <<>>)
                \/ Skip(d)
                \/ \E j \in Link!Referencing(d), k \in DOMAIN smap : smap[k].src = <<d[1], j>> /\ Try(d, j, k)
<1>3. Choice(e)
  <2>1. Choice(Head(todo))
    BY Zenon DEF Link!Relocate
  <2>. HIDE DEF Choice
  <2>. QED
    BY <2>1
<1>. HIDE DEF row, address
<1>4. ~Link!Goto("aborted", <<>>) /\ ~Link!Goto("crashed", <<>>)
  BY DEF Link!Goto
<1>5. CASE Skip(e)
  BY <1>1, <1>2, <1>5, Zenon DEF Link!NextEntry, Link!Goto
<1>6. ASSUME NEW j \in Link!Referencing(e), NEW k \in DOMAIN smap, smap[k].src = <<e[1], j>>, Try(e, j, k)
      PROVE  /\ todo' = Tail(todo)
             /\ \E u \in Refs(srcs, smap, symt, e) : Writes(e, j, k, u, patched')
  <2>1. PICK u \in Refs(srcs, smap, symt, e) : Patch(e, j, k, u)
    BY <1>2, <1>4, <1>6, Zenon
  <2>2. row(e, j, k) = RelOf(srcs, e).row - srcs[e[1]].symt[j].value + symt[smap[k].dst].value
    BY <1>2 DEF Link!RowInProgram, row
  <2>3. todo' = Tail(todo) /\ Writes(e, j, k, u, patched')
    BY <2>1, <2>2, Zenon DEF Writes, LineOf, Link!Goto
  <2>. QED
    BY <2>3
<1>. HIDE DEF Try, Skip
<1>. QED
  BY <1>1, <1>2, <1>3, <1>4, <1>5, <1>6, Zenon

\* Such a write binds e, and undoes no other.
LEMMA WriteBinds ==
    ASSUME Link!Regular(srcs), LaidOut(sht, Counts(srcs, smap)),
           Placed(srcs, smap, sht, <<>>, symt, buffer),
           NEW e, In(e, EntriesOf(srcs)), NEW j \in Owners(srcs, e),
           NEW k \in 1 .. Len(smap), smap[k].src = <<e[1], j>>,
           NEW u \in Refs(srcs, smap, symt, e), NEW q, Writes(e, j, k, u, q)
    PROVE  /\ Bound(srcs, smap, sht, buffer, q, e)
           /\ \A x : Bound(srcs, smap, sht, buffer, patched, x) => Bound(srcs, smap, sht, buffer, q, x)
<1>. DEFINE to == LineOf(srcs, smap, sht, symt, e, j, k)
<1>1. PICK v : q = [x \in DOMAIN patched \cup {e} |->
                      IF x = e THEN [line |-> to, to |-> u, value |-> v] ELSE patched[x]]
  BY Zenon DEF Writes
<1>2. buffer[to + 1] = <<e[1], e[2], RelOf(srcs, e).row>>
  BY LinePatched, Zenon
<1>3. u \in Meant(srcs, smap, e)
  BY RefsAre
<1>. HIDE DEF to
<1>4. e \in DOMAIN q /\ q[e].line = to /\ q[e].to = u
  BY <1>1
<1>5. Bound(srcs, smap, sht, buffer, q, e)
  BY <1>2, <1>3, <1>4 DEF Bound
<1>6. ASSUME NEW x, x # e, Bound(srcs, smap, sht, buffer, patched, x) PROVE Bound(srcs, smap, sht, buffer, q, x)
  <2>1. x \in DOMAIN patched => x \in DOMAIN q /\ q[x] = patched[x]
    BY <1>1, <1>6
  <2>. QED
    BY <1>6, <2>1 DEF Bound
<1>. QED
  BY <1>5, <1>6

LEMMA InitBindInv == Init => BindInv
BY Zenon DEF Init, NotLinking, Link!Init, BindInv

LEMMA SymtabBindInv == MergeInv /\ Link!MergeSymtab => BindInv'
<1>. SUFFICES ASSUME MergeInv, Link!MergeSymtab, phase' \in {"relocate", "done"} PROVE BindInv'
  BY DEF BindInv
<1>1. srcs' = srcs /\ phase' = "relocate" /\ todo' = Link!Entries
  BY DEF Link!MergeSymtab, Link!Goto
<1>2. Link!Regular(srcs)
  BY DEF MergeInv, Link!MergeSymtab
<1>3. todo' = EntriesOf(srcs) /\ EntriesOf(srcs) \in Seq(Entry)
  BY <1>1, <1>2, RelocationNames, EntriesAre
<1>. QED
  BY <1>1, <1>3 DEF BindInv

LEMMA RelocateBindInv == MergeInv /\ BindInv /\ Link!Relocate => BindInv'
<1>. SUFFICES ASSUME MergeInv, BindInv, Link!Relocate PROVE BindInv'
  OBVIOUS
<1>1. phase = "relocate" /\ phase' \in {"relocate", "aborted", "crashed"}
  BY DEF Link!Relocate, Link!Goto, Link!NextEntry
<1>2. CASE phase' # "relocate"
  BY <1>1, <1>2 DEF BindInv
<1>3. CASE phase' = "relocate"
  <2>1. /\ Link!Regular(srcs) /\ LaidOut(sht, Counts(srcs, smap))
        /\ Placed(srcs, smap, sht, <<>>, symt, buffer) /\ DOMAIN smap = 1 .. Len(smap)
    BY <1>1 DEF MergeInv, Kept
  <2>2. PICK e : e = Head(todo)
    OBVIOUS
  <2>3. /\ todo # <<>> /\ todo' = Tail(todo) /\ UNCHANGED <<srcs, smap, sht, symt, buffer>>
        /\ \/ patched' = patched /\ (Owners(srcs, e) = {} \/ Refs(srcs, smap, symt, e) = {})
           \/ \E j \in Owners(srcs, e), k \in 1 .. Len(smap), u \in Refs(srcs, smap, symt, e) :
                 smap[k].src = <<e[1], j>> /\ Writes(e, j, k, u, patched')
    BY <1>3, <2>1, <2>2, RelocateDoes
  <2>4. todo \in Seq(Entry)
    BY <1>1 DEF BindInv
  <2>5. /\ Tail(todo) \in Seq(Entry) /\ In(e, todo)
        /\ \A x : In(x, Tail(todo)) => In(x, todo)
        /\ \A x : In(x, todo) => x = e \/ In(x, Tail(todo))
    <3>. DEFINE all == Entry
    <3>. HIDE DEF all
    <3>1. todo \in Seq(all)
      BY <2>4 DEF all
    <3>2. PICK rest : rest = Tail(todo)
      OBVIOUS
    <3>3. /\ rest \in Seq(all) /\ Len(todo) \in Nat \ {0} /\ Len(rest) = Len(todo) - 1
          /\ \A i \in 1 .. Len(todo) - 1 : rest[i] = todo[i + 1]
          /\ e = todo[1]
      BY <2>2, <2>3, <3>1, <3>2
    <3>4. In(e, todo)
      BY <3>3 DEF In
    <3>5. ASSUME NEW x, In(x, rest) PROVE In(x, todo)
      <4>1. PICK i \in 1 .. Len(todo) - 1 : rest[i] = x
        BY <3>3, <3>5 DEF In
      <4>2. i + 1 \in 1 .. Len(todo) /\ todo[i + 1] = x
        BY <3>3, <4>1
      <4>. QED
        BY <4>2 DEF In
    <3>6. ASSUME NEW x, In(x, todo), x # e PROVE In(x, rest)
      <4>1. PICK i \in 1 .. Len(todo) : todo[i] = x
        BY <3>6 DEF In
      <4>2. i - 1 \in 1 .. Len(rest) /\ rest[i - 1] = x
        BY <3>3, <3>6, <4>1
      <4>. QED
        BY <4>2 DEF In
    <3>7. Tail(todo) \in Seq(Entry)
      BY <3>2, <3>3 DEF all
    <3>. QED
      BY <3>2, <3>4, <3>5, <3>6, <3>7
  <2>6. /\ \A x : In(x, todo) => In(x, EntriesOf(srcs))
        /\ \A x : In(x, EntriesOf(srcs)) => In(x, todo) \/ Bound(srcs, smap, sht, buffer, patched, x)
    BY <1>1 DEF BindInv
  <2>7. PICK q : q = patched'
    OBVIOUS
  <2>8. /\ Bound(srcs, smap, sht, buffer, q, e)
        /\ \A x : Bound(srcs, smap, sht, buffer, patched, x) => Bound(srcs, smap, sht, buffer, q, x)
    <3>1. CASE \E j \in Owners(srcs, e), k \in 1 .. Len(smap), u \in Refs(srcs, smap, symt, e) :
                 smap[k].src = <<e[1], j>> /\ Writes(e, j, k, u, patched')
      <4>1. PICK j \in Owners(srcs, e), k \in 1 .. Len(smap), u \in Refs(srcs, smap, symt, e) :
                 smap[k].src = <<e[1], j>> /\ Writes(e, j, k, u, q)
        BY <2>7, <3>1
      <4>2. In(e, EntriesOf(srcs))
        BY <2>5, <2>6
      <4>. QED
        BY <2>1, <4>1, <4>2, WriteBinds
    <3>2. CASE patched' = patched /\ (Owners(srcs, e) = {} \/ Refs(srcs, smap, symt, e) = {})
      <4>1. In(e, EntriesOf(srcs))
        BY <2>5, <2>6
      <4>2. /\ \A u \in Meant(srcs, smap, e) :
                  InProgram(srcs, sht, smap[u].src) => u \in Refs(srcs, smap, symt, e)
            /\ TargetOf(srcs, e).bind = "GLOBAL" => Meant(srcs, smap, e) # {}
        BY <2>1, <4>1, RefsAre
      <4>3. Bound(srcs, smap, sht, buffer, q, e)
        BY <3>2, <4>2 DEF Bound
      <4>. QED
        BY <2>7, <3>2, <4>3
    <3>. QED
      BY <2>3, <3>1, <3>2
  <2>9. /\ phase' = "relocate" /\ todo' \in Seq(Entry)
        /\ \A x : In(x, todo') => In(x, EntriesOf(srcs))
        /\ \A x : In(x, EntriesOf(srcs)) => In(x, todo') \/ Bound(srcs, smap, sht, buffer, q, x)
    BY <1>3, <2>3, <2>5, <2>6, <2>8
  <2>. QED
    BY <2>3, <2>7, <2>9 DEF BindInv
<1>. QED
  BY <1>2, <1>3

LEMMA NextBindInv == MergeInv /\ BindInv /\ [Link!Next]_linkVars => BindInv'
<1>. SUFFICES ASSUME MergeInv, BindInv, [Link!Next]_linkVars PROVE BindInv'
  OBVIOUS
<1>1. CASE Link!SkipWeak \/ Link!EnterSymbol \/ Link!Resolve \/ Link!NoUndefined
           \/ Link!ComputeSectionHeader \/ Link!MergeSection
  <2>1. phase' \notin {"relocate", "done"}
    <3>1. Link!SkipWeak \/ Link!EnterSymbol \/ Link!Resolve => phase' \notin {"relocate", "done"}
      BY DEF Link!SkipWeak, Link!EnterSymbol, Link!Resolve, Link!Goto
    <3>2. Link!NoUndefined \/ Link!ComputeSectionHeader \/ Link!MergeSection
             => phase' \notin {"relocate", "done"}
      BY Zenon DEF Link!NoUndefined, Link!ComputeSectionHeader, Link!MergeSection, Link!Goto
    <3>. QED
      BY <1>1, <3>1, <3>2
  <2>. QED
    BY <2>1 DEF BindInv
<1>2. CASE Link!MergeSymtab
  BY <1>2, SymtabBindInv
<1>3. CASE Link!Relocate
  BY <1>3, RelocateBindInv
<1>4. CASE Link!Finish
  <2>1. /\ phase = "relocate" /\ todo = <<>> /\ phase' = "done"
        /\ UNCHANGED <<srcs, smap, sht, buffer, patched>>
    BY <1>4 DEF Link!Finish, Link!Goto
  <2>2. \A x : ~In(x, todo)
    BY <2>1 DEF In
  <2>. QED
    BY <2>1, <2>2 DEF BindInv
<1>5. CASE UNCHANGED linkVars
  BY <1>5 DEF linkVars, BindInv
<1>. QED
  BY <1>1, <1>2, <1>3, <1>4, <1>5 DEF Link!Next

\* Every reference from a symbol of the program to a global symbol of one of
\* its sections is patched when linking is done, in the line that holds it in
\* the file, and leads to the symbol its name was resolved to, for any files.
THEOREM ReferencesBound == Spec => []RelocatedRight
<1>1. Init => LinkInv /\ MergeInv /\ BindInv
  BY InitLinkInv, InitMergeInv, InitBindInv
<1>2. LinkInv /\ MergeInv /\ BindInv /\ [Next]_vars => LinkInv' /\ MergeInv' /\ BindInv'
  BY Parts, NextLinkInv, NextMergeInv, NextBindInv
<1>3. MergeInv /\ BindInv => RelocatedRight
  <2>. SUFFICES ASSUME MergeInv, BindInv, phase = "done" PROVE Link!RelocatedRight
    BY DEF RelocatedRight, Link!RelocatedRight
  <2>1. Link!Regular(srcs) /\ Kept(srcs, smap)
    BY DEF MergeInv
  <2>2. DOMAIN smap = 1 .. Len(smap)
    BY <2>1 DEF Kept
  <2>3. ASSUME NEW e \in Link!Members(Link!Entries)
        PROVE  LET name == srcs[e[1]].symt[Link!Rel(e).sym].name
                   chosen == {u \in DOMAIN smap : smap[u].src \in Link!Declarations(name)}
               IN  /\ Link!Referencing(e) # {}
                   /\ srcs[e[1]].symt[Link!Rel(e).sym].bind = "GLOBAL"
                   /\ \A u \in chosen : Link!Sym(smap[u].src).shndx \in DOMAIN sht
                   => /\ e \in DOMAIN patched
                      /\ patched[e].to \in chosen
                      /\ buffer[patched[e].line + 1] = <<e[1], e[2], Link!Rel(e).row>>
    <3>. DEFINE name == TargetOf(srcs, e).name
                chosen == {u \in DOMAIN smap : smap[u].src \in Link!Declarations(name)}
    <3>1. In(e, EntriesOf(srcs))
      <4>1. Link!Entries = EntriesOf(srcs) /\ EntriesOf(srcs) \in Seq(Entry)
        BY <2>1, RelocationNames, EntriesAre
      <4>. DEFINE all == Entry
      <4>. HIDE DEF all
      <4>2. EntriesOf(srcs) \in Seq(all) /\ e \in Link!Members(EntriesOf(srcs))
        BY <2>3, <4>1 DEF all
      <4>. QED
        BY <4>2 DEF Link!Members, In
    <3>2. Bound(srcs, smap, sht, buffer, patched, e)
      BY <3>1 DEF BindInv
    <3>3. chosen = Meant(srcs, smap, e)
      <4>1. \A u \in 1 .. Len(smap) : smap[u].src \in Link!Declarations(name)
               <=> SymOf(srcs, smap[u].src).bind = "GLOBAL" /\ SymOf(srcs, smap[u].src).name = name
        BY <2>1, SymbolSet DEF Kept
      <4>. QED
        BY <2>2, <4>1 DEF Meant
    <3>4. Link!Rel(e) = RelOf(srcs, e) /\ Link!Referencing(e) = Owners(srcs, e)
      BY RelocationNames
    <3>5. \A u : Link!Sym(smap[u].src) = SymOf(srcs, smap[u].src)
      BY LinkNames
    <3>6. srcs[e[1]].symt[Link!Rel(e).sym] = TargetOf(srcs, e)
      BY <3>4 DEF TargetOf
    <3>. HIDE DEF name, chosen
    <3>7. /\ Link!Referencing(e) # {} /\ TargetOf(srcs, e).bind = "GLOBAL"
          /\ \A u \in chosen : Link!Sym(smap[u].src).shndx \in DOMAIN sht
          => /\ e \in DOMAIN patched /\ patched[e].to \in chosen
             /\ buffer[patched[e].line + 1] = <<e[1], e[2], Link!Rel(e).row>>
      BY <3>2, <3>3, <3>4, <3>5 DEF Bound, InProgram
    <3>. QED
      BY <3>6, <3>7, Zenon DEF name, chosen
  <2>. QED
    BY <2>3, Zenon DEF Link!RelocatedRight
<1>. QED
  BY <1>1, <1>2, <1>3, PTL DEF Spec

-----------------------------------------------------------------------------
(* ElfFile: the lines of a file and the rows that are made of them.        *)

Tokens == {"\n"} \cup UNION {UNION {{f[i][j] : j \in DOMAIN f[i]} : i \in DOMAIN f} : f \in Files}
TextLine == Seq(Tokens) \ {<<>>}
Ends == {"\n", "\r", "//"}

\* what is kept of a line: it has a token, and no end
Row == {r \in TextLine : \A i \in DOMAIN r : r[i] \notin Ends}

LEMMA FilesLines ==
    /\ \A f \in Files : f \in Seq(TextLine)
    /\ \A w \in DOMAIN Numeral : Numeral[w] \in Int
    /\ MaxRows \in Nat /\ MaxWidth \in Nat /\ MaxWidth > 1
<1>1. PICK Lines : Lines = UNION {{f[i] : i \in DOMAIN f} : f \in Files}
  OBVIOUS
<1>2. /\ \A f \in Files : f \in Seq(Lines)
      /\ \A l \in Lines : l # <<>> /\ l \in Seq({l[i] : i \in DOMAIN l})
      /\ \A w \in DOMAIN Numeral : Numeral[w] \in Int
      /\ MaxRows \in Nat /\ MaxWidth \in Nat /\ MaxWidth > 1
  BY <1>1, ReaderAssumption DEF File!FilesAreText
<1>3. ASSUME NEW l \in Lines PROVE l \in TextLine
  <2>1. PICK f \in Files : \E i \in DOMAIN f : l = f[i]
    BY <1>1
  <2>2. {l[i] : i \in DOMAIN l} \subseteq Tokens
    <3>1. PICK i \in DOMAIN f : l = f[i]
      BY <2>1
    <3>2. ASSUME NEW j \in DOMAIN l PROVE l[j] \in Tokens
      <4>1. l[j] \in {f[i][x] : x \in DOMAIN f[i]}
        BY <3>1
      <4>2. l[j] \in UNION {{f[y][x] : x \in DOMAIN f[y]} : y \in DOMAIN f}
        BY <3>1, <4>1
      <4>. QED
        BY <4>2 DEF Tokens
    <3>. QED
      BY <3>2
  <2>3. l # <<>> /\ l \in Seq({l[i] : i \in DOMAIN l})
    BY <1>2
  <2>4. Len(l) \in Nat /\ DOMAIN l = 1 .. Len(l) /\ l = [i \in 1 .. Len(l) |-> l[i]]
    BY <2>3
  <2>5. \A i \in 1 .. Len(l) : l[i] \in Tokens
    BY <2>2, <2>4
  <2>. QED
    BY <2>3, <2>4, <2>5 DEF TextLine
<1>4. ASSUME NEW f \in Files PROVE f \in Seq(TextLine)
  BY <1>2, <1>3
<1>. QED
  BY <1>2, <1>4

\* Cut keeps what comes before the first end of a line.
LEMMA CutIs ==
    ASSUME NEW line \in Seq(Tokens)
    PROVE  \E k \in 0 .. Len(line) :
               /\ File!Cut(line) \in Seq(Tokens) /\ Len(File!Cut(line)) = k
               /\ \A i \in 1 .. k : File!Cut(line)[i] = line[i] /\ line[i] \notin Ends
               /\ k < Len(line) => line[k + 1] \in Ends
<1>. DEFINE is == {i \in DOMAIN line : line[i] \in Ends}
            first == CHOOSE i \in is : \A j \in is : i <= j
            m == IF is = {} THEN Len(line) + 1 ELSE first
<1>0. Len(line) \in Nat /\ DOMAIN line = 1 .. Len(line) /\ is \in SUBSET Nat
  OBVIOUS
<1>1. File!Cut(line) = SubSeq(line, 1, m - 1)
  BY DEF File!Cut, File!FirstOf, Ends
<1>2. /\ m \in 1 .. Len(line) + 1
      /\ \A i \in 1 .. m - 1 : line[i] \notin Ends
      /\ m <= Len(line) => line[m] \in Ends
  <2>1. CASE is = {}
    BY <1>0, <2>1
  <2>2. CASE is # {}
    <3>1. \E i \in is : \A j \in is : i <= j
      <4>. HIDE DEF is
      <4>. QED
        BY <1>0, <2>2, LeastExists
    <3>2. first \in is /\ \A j \in is : first <= j
      <4>. HIDE DEF is
      <4>. QED
        BY <3>1
    <3>3. m = first
      BY <2>2
    <3>. HIDE DEF m, first
    <3>. QED
      BY <1>0, <3>2, <3>3
  <2>. QED
    BY <2>1, <2>2
<1>. HIDE DEF m
<1>3. m - 1 \in 0 .. Len(line)
  BY <1>0, <1>2
<1>4. /\ SubSeq(line, 1, m - 1) \in Seq(Tokens) /\ Len(SubSeq(line, 1, m - 1)) = m - 1
      /\ \A i \in 1 .. m - 1 : SubSeq(line, 1, m - 1)[i] = line[i]
  BY <1>0, <1>3
<1>5. m - 1 < Len(line) => line[(m - 1) + 1] \in Ends
  BY <1>0, <1>2
<1>. QED
  BY <1>1, <1>2, <1>3, <1>4, <1>5

\* A line is skipped when it says nothing, unless it is irregular.
LEMMA SaidKept ==
    ASSUME NEW line \in TextLine,
           ~ (/\ ~ File!Said(line) /\ File!Cut(line) # <<>>
              /\ \E j \in DOMAIN line : line[j] \notin File!Blank)
    PROVE  File!Skipped(line) <=> ~ File!Said(line)
<1>0. line \in Seq(Tokens) /\ line # <<>> /\ Len(line) \in Nat /\ Len(line) > 0 /\ DOMAIN line = 1 .. Len(line)
  BY DEF TextLine
<1>1. PICK k \in 0 .. Len(line) :
          /\ File!Cut(line) \in Seq(Tokens) /\ Len(File!Cut(line)) = k
          /\ \A i \in 1 .. k : File!Cut(line)[i] = line[i] /\ line[i] \notin Ends
          /\ k < Len(line) => line[k + 1] \in Ends
  BY <1>0, CutIs
<1>2. DOMAIN File!Cut(line) = 1 .. k
  BY <1>1
<1>3. File!Skipped(line) <=> line[1] \in Ends \/ \A i \in DOMAIN line : line[i] \in File!Blank
  BY DEF File!Skipped, Ends
<1>4. File!Said(line) <=> \E i \in 1 .. k : line[i] \notin File!Blank
  BY <1>1, <1>2 DEF File!Said
<1>5. CASE k = 0
  BY <1>0, <1>1, <1>3, <1>4, <1>5
<1>6. CASE k # 0
  <2>1. 1 \in 1 .. k /\ line[1] \notin Ends /\ 1 .. k \subseteq DOMAIN line
    BY <1>0, <1>1, <1>6
  <2>2. File!Cut(line) # <<>>
    BY <1>1, <1>6
  <2>. QED
    BY <1>3, <1>4, <2>1, <2>2
<1>. QED
  BY <1>5, <1>6

\* What is kept of a line that is not skipped is a row.
LEMMA RowOf ==
    ASSUME NEW line \in TextLine, ~ File!Skipped(line)
    PROVE  File!Cut(line) \in Row
<1>0. line \in Seq(Tokens) /\ line # <<>> /\ Len(line) \in Nat /\ Len(line) > 0
  BY DEF TextLine
<1>1. PICK k \in 0 .. Len(line) :
          /\ File!Cut(line) \in Seq(Tokens) /\ Len(File!Cut(line)) = k
          /\ \A i \in 1 .. k : File!Cut(line)[i] = line[i] /\ line[i] \notin Ends
          /\ k < Len(line) => line[k + 1] \in Ends
  BY <1>0, CutIs
<1>2. line[1] \notin Ends
  BY DEF File!Skipped, Ends
<1>3. k # 0
  BY <1>0, <1>1, <1>2
<1>4. File!Cut(line) # <<>> /\ DOMAIN File!Cut(line) = 1 .. k
  BY <1>1, <1>3
<1>. QED
  BY <1>1, <1>4 DEF Row, TextLine

\* A row that is written out is a line of which all is kept.
LEMMA CutWritten ==
    ASSUME NEW r \in Row
    PROVE  Append(r, "\n") \in TextLine /\ File!Cut(Append(r, "\n")) = r
<1>0. r \in Seq(Tokens) /\ r # <<>> /\ Len(r) \in Nat /\ DOMAIN r = 1 .. Len(r) /\ \A i \in 1 .. Len(r) : r[i] \notin Ends
  BY DEF Row, TextLine
<1>1. PICK nl : nl = "\n"
  OBVIOUS
<1>2. nl \in Tokens /\ nl \in Ends
  BY <1>1, Zenon DEF Tokens, Ends
<1>3. PICK line : line = Append(r, nl)
  OBVIOUS
<1>4. /\ line \in Seq(Tokens) /\ Len(line) = Len(r) + 1 /\ line[Len(r) + 1] = nl
      /\ \A i \in 1 .. Len(r) : line[i] = r[i]
  BY ONLY <1>0, <1>2, <1>3, Appended
<1>5. line # <<>>
  BY ONLY <1>0, <1>4
<1>6. PICK k \in 0 .. Len(line) :
          /\ File!Cut(line) \in Seq(Tokens) /\ Len(File!Cut(line)) = k
          /\ \A i \in 1 .. k : File!Cut(line)[i] = line[i] /\ line[i] \notin Ends
          /\ k < Len(line) => line[k + 1] \in Ends
  BY <1>4, CutIs
<1>7. k = Len(r)
  <2>1. PICK m : m = Len(r)
    OBVIOUS
  <2>2. m \in Nat /\ k \in 0 .. m + 1 /\ Len(line) = m + 1 /\ m + 1 \in 1 .. m + 1
    BY ONLY <1>0, <1>4, <1>6, <2>1
  <2>3. k < m => line[k + 1] \in Ends /\ k + 1 \in 1 .. m
    BY ONLY <1>6, <2>2
  <2>4. \A i \in 1 .. m : line[i] \notin Ends
    BY ONLY <1>0, <1>4, <2>1
  <2>5. ~ (k < m)
    BY ONLY <2>3, <2>4
  <2>6. k # m + 1
    BY ONLY <1>2, <1>4, <1>6, <2>1, <2>2
  <2>7. k = m
    BY ONLY <2>2, <2>5, <2>6
  <2>. QED
    BY ONLY <2>1, <2>7
<1>8. File!Cut(line) = r
  BY ONLY <1>0, <1>4, <1>6, <1>7, SameSeq
<1>9. line \in TextLine
  BY <1>4, <1>5 DEF TextLine
<1>. QED
  BY <1>1, <1>3, <1>8, <1>9, Zenon

\* What the lines say, line by line.
HeardBy(h, f) ==
    h = [k \in 0 .. Len(f) |->
            IF k = 0 THEN <<>>
            ELSE IF File!Said(f[k]) THEN Append(h[k - 1], File!Cut(f[k])) ELSE h[k - 1]]

\* what the first i lines of f say
Heard(f, i) == (CHOOSE h : HeardBy(h, f))[i]

LEMMA SaidRow ==
    ASSUME NEW line \in TextLine, File!Said(line)
    PROVE  File!Cut(line) \in Row
<1>0. line \in Seq(Tokens) /\ Len(line) \in Nat
  BY DEF TextLine
<1>1. PICK k \in 0 .. Len(line) :
          /\ File!Cut(line) \in Seq(Tokens) /\ Len(File!Cut(line)) = k
          /\ \A i \in 1 .. k : File!Cut(line)[i] = line[i] /\ line[i] \notin Ends
          /\ k < Len(line) => line[k + 1] \in Ends
  BY <1>0, CutIs
<1>2. DOMAIN File!Cut(line) = 1 .. k /\ DOMAIN File!Cut(line) # {}
  BY <1>1 DEF File!Said
<1>3. k # 0
  BY <1>0, <1>2
<1>4. File!Cut(line) # <<>>
  BY <1>1, <1>3
<1>. QED
  BY <1>1, <1>2, <1>4 DEF Row, TextLine

LEMMA HearingExists ==
    ASSUME NEW f \in Seq(TextLine)
    PROVE  \E h : HeardBy(h, f)
<1>0. Len(f) \in Nat /\ DOMAIN f = 1 .. Len(f) /\ \A i \in 1 .. Len(f) : f[i] \in TextLine
  OBVIOUS
<1>1. PICK ss : ss = [i \in 1 .. Len(f) |-> IF File!Said(f[i]) THEN <<File!Cut(f[i])>> ELSE <<>>]
  OBVIOUS
<1>2. ss \in Seq(Seq(Row)) /\ Len(ss) = Len(f)
  <2>1. ASSUME NEW i \in 1 .. Len(f) PROVE ss[i] \in Seq(Row)
    <3>1. File!Said(f[i]) => File!Cut(f[i]) \in Row
      BY <1>0, SaidRow
    <3>. QED
      BY <1>1, <3>1
  <2>. QED
    BY <1>0, <1>1, <2>1
<1>3. PICK w : Joins(w, ss)
  BY <1>2, JoinsExist
<1>4. \A i \in 1 .. Len(f) : w[i] \in Seq(Row) /\ w[i] = IF i = 1 THEN ss[i] ELSE w[i - 1] \o ss[i]
  <2>1. \A i \in 1 .. Len(f) : w[i] \in Seq(Row)
    BY <1>2, <1>3, JoinsAre
  <2>2. \A i \in 1 .. Len(f) : w[i] = IF i = 1 THEN ss[i] ELSE w[i - 1] \o ss[i]
    BY ONLY <1>2, <1>3 DEF Joins
  <2>. QED
    BY <2>1, <2>2
<1>. DEFINE h == [k \in 0 .. Len(f) |-> IF k = 0 THEN <<>> ELSE w[k]]
<1>5. ASSUME NEW k \in 1 .. Len(f)
      PROVE  h[k] = IF File!Said(f[k]) THEN Append(h[k - 1], File!Cut(f[k])) ELSE h[k - 1]
  <2>1. h[k] = w[k] /\ k - 1 \in 0 .. Len(f)
    BY <1>0
  <2>2. h[k - 1] \in Seq(Row) /\ h[k] = h[k - 1] \o ss[k] /\ ss[k] \in Seq(Row)
    <3>1. ss[k] \in Seq(Row)
      BY <1>2
    <3>2. CASE k = 1
      BY <1>4, <2>1, <3>1, <3>2
    <3>3. CASE k # 1
      <4>1. k - 1 \in 1 .. Len(f) /\ k - 1 # 0
        BY <3>3
      <4>2. h[k - 1] = w[k - 1]
        BY <2>1, <4>1
      <4>. QED
        BY <1>4, <2>1, <3>1, <3>3, <4>1, <4>2
    <3>. QED
      BY <3>2, <3>3
  <2>3. PICK s, c, x : s = h[k - 1] /\ c = File!Cut(f[k]) /\ x = ss[k]
    OBVIOUS
  <2>. HIDE DEF h
  <2>4. CASE File!Said(f[k])
    <3>1. x = <<c>> /\ c \in Row
      BY <1>0, <1>1, <2>3, <2>4, SaidRow
    <3>2. s \o x = Append(s, c)
      BY ONLY <2>2, <2>3, <3>1
    <3>. QED
      BY <2>2, <2>3, <2>4, <3>2
  <2>5. CASE ~ File!Said(f[k])
    <3>1. x = <<>>
      BY <1>1, <2>3, <2>5
    <3>2. s \o x = s
      BY ONLY <2>2, <2>3, <3>1
    <3>. QED
      BY <2>2, <2>3, <2>5, <3>2
  <2>. QED
    BY <2>4, <2>5
<1>6. HeardBy(h, f)
  <2>1. h[0] = <<>> /\ h = [k \in 0 .. Len(f) |-> h[k]]
    BY <1>0
  <2>. HIDE DEF h
  <2>2. \A k \in 0 .. Len(f) :
            h[k] = IF k = 0 THEN <<>>
                   ELSE IF File!Said(f[k]) THEN Append(h[k - 1], File!Cut(f[k])) ELSE h[k - 1]
    <3>1. \A k \in 0 .. Len(f) : k = 0 \/ k \in 1 .. Len(f)
      BY <1>0
    <3>. QED
      BY <1>5, <2>1, <3>1, Zenon
  <2>3. h = [k \in 0 .. Len(f) |->
                IF k = 0 THEN <<>>
                ELSE IF File!Said(f[k]) THEN Append(h[k - 1], File!Cut(f[k])) ELSE h[k - 1]]
    BY <2>1, <2>2, Zenon
  <2>. QED
    BY <2>3, Zenon DEF HeardBy
<1>. QED
  BY <1>6, Zenon

LEMMA HeardNone ==
    ASSUME NEW f \in Seq(TextLine)
    PROVE  Heard(f, 0) = <<>>
<1>1. PICK h : h = (CHOOSE g : HeardBy(g, f)) /\ HeardBy(h, f)
  BY HearingExists, Zenon
<1>2. 0 \in 0 .. Len(f)
  OBVIOUS
<1>3. h[0] = <<>>
  BY ONLY <1>1, <1>2 DEF HeardBy
<1>. QED
  BY <1>1, <1>3, Zenon DEF Heard

LEMMA HeardNext ==
    ASSUME NEW f \in Seq(TextLine), NEW i \in 1 .. Len(f)
    PROVE  Heard(f, i) = IF File!Said(f[i]) THEN Append(Heard(f, i - 1), File!Cut(f[i])) ELSE Heard(f, i - 1)
<1>1. PICK h : h = (CHOOSE g : HeardBy(g, f)) /\ HeardBy(h, f)
  BY HearingExists, Zenon
<1>2. i \in 0 .. Len(f) /\ i # 0
  OBVIOUS
<1>3. h[i] = IF File!Said(f[i]) THEN Append(h[i - 1], File!Cut(f[i])) ELSE h[i - 1]
  <2>1. h[i] = IF i = 0 THEN <<>>
               ELSE IF File!Said(f[i]) THEN Append(h[i - 1], File!Cut(f[i])) ELSE h[i - 1]
    BY <1>1, <1>2, Zenon DEF HeardBy
  <2>. QED
    BY <1>2, <2>1, Zenon
<1>. QED
  BY <1>1, <1>3, Zenon DEF Heard

LEMMA HeardIn ==
    ASSUME NEW f \in Seq(TextLine), NEW i \in 0 .. Len(f)
    PROVE  Heard(f, i) \in Seq(Row)
<1>0. Len(f) \in Nat
  OBVIOUS
<1>. DEFINE Bad == {k \in 0 .. Len(f) : Heard(f, k) \notin Seq(Row)}
<1>1. Bad \in SUBSET Nat
  BY <1>0
<1>2. SUFFICES ASSUME Bad # {} PROVE FALSE
  OBVIOUS
<1>. HIDE DEF Bad
<1>3. PICK k \in Bad : \A j \in Bad : k <= j
  BY <1>1, <1>2, LeastExists
<1>4. k \in 0 .. Len(f) /\ Heard(f, k) \notin Seq(Row)
  BY <1>3 DEF Bad
<1>5. k # 0
  <2>1. Heard(f, 0) = <<>> /\ <<>> \in Seq(Row)
    BY HeardNone
  <2>. QED
    BY <1>4, <2>1, Zenon
<1>6. k \in 1 .. Len(f) /\ k - 1 \in 0 .. Len(f) /\ k - 1 \notin Bad
  <2>1. k \in 0 .. Len(f) /\ \A j \in Bad : k <= j
    BY <1>3, <1>4, Zenon
  <2>. QED
    BY ONLY <1>0, <1>5, <2>1
<1>7. Heard(f, k - 1) \in Seq(Row) /\ f[k] \in TextLine
  BY <1>6 DEF Bad
<1>8. Heard(f, k) = IF File!Said(f[k]) THEN Append(Heard(f, k - 1), File!Cut(f[k])) ELSE Heard(f, k - 1)
  BY <1>6, HeardNext
<1>9. File!Said(f[k]) => Append(Heard(f, k - 1), File!Cut(f[k])) \in Seq(Row)
  BY <1>7, SaidRow, Appended
<1>. QED
  BY <1>4, <1>7, <1>8, <1>9

LEMMA ToldHeard ==
    ASSUME file \in Seq(TextLine)
    PROVE  File!Told = Heard(file, Len(file))
BY Zenon DEF File!Told, Heard, HeardBy

\* More lines say no less.
LEMMA HeardGrows ==
    ASSUME NEW f \in Seq(TextLine), NEW i \in 0 .. Len(f)
    PROVE  Len(Heard(f, i)) <= Len(Heard(f, Len(f)))
<1>0. Len(f) \in Nat
  OBVIOUS
<1>. DEFINE Bad == {k \in i .. Len(f) : ~ (Len(Heard(f, i)) <= Len(Heard(f, k)))}
<1>1. Bad \in SUBSET Nat
  BY <1>0
<1>2. SUFFICES Bad = {}
  BY <1>0
<1>3. SUFFICES ASSUME Bad # {} PROVE FALSE
  OBVIOUS
<1>. HIDE DEF Bad
<1>4. PICK k \in Bad : \A j \in Bad : k <= j
  BY <1>1, <1>3, LeastExists
<1>5. k \in i .. Len(f) /\ ~ (Len(Heard(f, i)) <= Len(Heard(f, k)))
  BY <1>4 DEF Bad
<1>6. Len(Heard(f, i)) \in Nat /\ Len(Heard(f, k)) \in Nat
  <2>1. Heard(f, i) \in Seq(Row) /\ Heard(f, k) \in Seq(Row)
    BY <1>0, <1>5, HeardIn
  <2>. QED
    BY <2>1
<1>7. k # i
  BY <1>5, <1>6
<1>8. k - 1 \in i .. Len(f) /\ k - 1 \notin Bad /\ k \in 1 .. Len(f) /\ k - 1 \in 0 .. Len(f)
  BY <1>0, <1>4, <1>5, <1>7
<1>9. Len(Heard(f, i)) <= Len(Heard(f, k - 1))
  BY <1>8 DEF Bad
<1>10. Heard(f, k - 1) \in Seq(Row) /\ f[k] \in TextLine
  BY <1>8, HeardIn
<1>11. Len(Heard(f, k)) \in {Len(Heard(f, k - 1)), Len(Heard(f, k - 1)) + 1} /\ Len(Heard(f, k - 1)) \in Nat
  <2>1. Heard(f, k) = IF File!Said(f[k]) THEN Append(Heard(f, k - 1), File!Cut(f[k])) ELSE Heard(f, k - 1)
    BY <1>8, HeardNext
  <2>2. File!Said(f[k]) => Len(Append(Heard(f, k - 1), File!Cut(f[k]))) = Len(Heard(f, k - 1)) + 1
    BY <1>10, SaidRow, Appended
  <2>3. Len(Heard(f, k - 1)) \in Nat
    BY <1>10
  <2>. QED
    BY <2>1, <2>2, <2>3
<1>. QED
  BY <1>5, <1>6, <1>9, <1>11

\* A file that is written out has a line for each row, and keeps it.
LEMMA WrittenLines ==
    ASSUME NEW R \in Seq(Row), NEW f, f = [i \in DOMAIN R |-> Append(R[i], "\n")]
    PROVE  /\ f \in Seq(TextLine) /\ Len(f) = Len(R) /\ DOMAIN f = 1 .. Len(R)
           /\ \A i \in 1 .. Len(R) : f[i] = Append(R[i], "\n") /\ f[i] \in TextLine /\ File!Cut(f[i]) = R[i]
<1>0. Len(R) \in Nat /\ DOMAIN R = 1 .. Len(R) /\ \A i \in 1 .. Len(R) : R[i] \in Row
  OBVIOUS
<1>1. \A i \in 1 .. Len(R) : f[i] = Append(R[i], "\n") /\ f[i] \in TextLine /\ File!Cut(f[i]) = R[i]
  BY <1>0, CutWritten, Zenon
<1>. QED
  BY <1>0, <1>1

\* A file that is written out says the rows it is written from.
LEMMA HeardWritten ==
    ASSUME NEW R \in Seq(Row), NEW f, f = [i \in DOMAIN R |-> Append(R[i], "\n")],
           \A i \in DOMAIN f : File!Said(f[i])
    PROVE  f \in Seq(TextLine) /\ Len(f) = Len(R) /\ Heard(f, Len(f)) = R
<1>0. Len(R) \in Nat /\ DOMAIN R = 1 .. Len(R) /\ \A i \in 1 .. Len(R) : R[i] \in Row
  OBVIOUS
<1>1. \A i \in 1 .. Len(R) : f[i] = Append(R[i], "\n") /\ f[i] \in TextLine /\ File!Cut(f[i]) = R[i]
  BY WrittenLines, Zenon
<1>2. f \in Seq(TextLine) /\ Len(f) = Len(R) /\ DOMAIN f = 1 .. Len(R)
  BY WrittenLines, Zenon
<1>. DEFINE Ok(k) == Len(Heard(f, k)) = k /\ \A j \in 1 .. k : Heard(f, k)[j] = R[j]
            Bad == {k \in 0 .. Len(R) : ~ Ok(k)}
<1>3. ASSUME Bad # {} PROVE FALSE
  <2>1. Bad \in SUBSET Nat
    OBVIOUS
  <2>. HIDE DEF Bad
  <2>2. PICK k \in Bad : \A j \in Bad : k <= j
    BY <1>3, <2>1, LeastExists
  <2>3. k \in 0 .. Len(R) /\ ~ Ok(k)
    BY <2>2 DEF Bad
  <2>4. k # 0
    <3>1. Heard(f, 0) = <<>>
      BY <1>2, HeardNone
    <3>. QED
      BY <2>3, <3>1
  <2>5. k - 1 \in 0 .. Len(R) /\ k \in 1 .. Len(R) /\ k - 1 \notin Bad
    BY <1>0, <2>2, <2>3, <2>4
  <2>6. Ok(k - 1)
    BY <2>5 DEF Bad
  <2>7. PICK s, r : s = Heard(f, k - 1) /\ r = R[k]
    OBVIOUS
  <2>8. s \in Seq(Row) /\ r \in Row /\ Heard(f, k) = Append(s, r)
    <3>1. f \in Seq(TextLine) /\ k \in 1 .. Len(f) /\ k - 1 \in 0 .. Len(f)
      BY <1>2, <2>5
    <3>2. Heard(f, k) = IF File!Said(f[k]) THEN Append(Heard(f, k - 1), File!Cut(f[k])) ELSE Heard(f, k - 1)
      BY ONLY <3>1, HeardNext, Zenon
    <3>3. File!Said(f[k]) /\ File!Cut(f[k]) = R[k] /\ R[k] \in Row
      BY <1>0, <1>1, <2>5, Zenon
    <3>4. Heard(f, k - 1) \in Seq(Row)
      BY ONLY <3>1, HeardIn, Zenon
    <3>. QED
      BY ONLY <2>7, <3>2, <3>3, <3>4, Zenon
  <2>9. Len(s) = k - 1 /\ \A j \in 1 .. k - 1 : s[j] = R[j]
    BY <2>6, <2>7
  <2>10. Len(Append(s, r)) = k /\ Append(s, r)[k] = R[k] /\ \A j \in 1 .. k - 1 : Append(s, r)[j] = R[j]
    BY ONLY <2>5, <2>7, <2>8, <2>9, Appended
  <2>11. PICK u : u = Heard(f, k)
    OBVIOUS
  <2>12. Len(u) = k /\ \A j \in 1 .. k : u[j] = R[j]
    BY ONLY <2>5, <2>8, <2>10, <2>11
  <2>. QED
    BY <2>3, <2>11, <2>12
<1>4. Ok(Len(R))
  <2>1. Len(R) \in 0 .. Len(R)
    BY <1>0
  <2>2. Len(R) \notin Bad
    BY <1>3
  <2>. QED
    BY <2>1, <2>2, Zenon
<1>5. Heard(f, Len(R)) \in Seq(Row)
  <2>1. Len(R) \in 0 .. Len(f)
    BY <1>0, <1>2
  <2>. QED
    BY <1>2, <2>1, HeardIn
<1>6. Heard(f, Len(R)) = R
  BY <1>4, <1>5, SameSeq
<1>. QED
  BY <1>2, <1>6

-----------------------------------------------------------------------------
(* The tables that the rows of a file declare, whatever file they are of.  *)

Tables == {"sht", "symt", "reltext", "reldata"}

HeadsOf(r) == [i \in 1 .. File!Number(r[2]) |-> File!Entry("sht", File!Columns(r[2 + i]))]

DeclaringIn(r, t) ==
    {i \in DOMAIN HeadsOf(r) :
        /\ HeadsOf(r)[i].name = <<File!SectionOf[t]>>
        /\ \A j \in DOMAIN HeadsOf(r) : j > i => HeadsOf(r)[j].name # HeadsOf(r)[i].name}

HeadOf(r, t) == HeadsOf(r)[CHOOSE i \in DeclaringIn(r, t) : TRUE]

SizeIn(r, t) ==
    IF t = "sht" THEN File!Number(r[2])
    ELSE IF DeclaringIn(r, t) = {} THEN 0 ELSE HeadOf(r, t).size
OffsetIn(r, t) == IF t = "sht" THEN 2 ELSE HeadOf(r, t).offset
ColumnsIn(r, t, j) == File!Columns(r[OffsetIn(r, t) + j])

\* the first m rows of a table are there and accepted, and what they become
RowsFine(r, t, m) ==
    \A j \in 1 .. m :
        /\ OffsetIn(r, t) + j \in DOMAIN r
        /\ File!Accepted(t, ColumnsIn(r, t, j), SizeIn(r, "symt"))
Filled(r, t, m) == [j \in 1 .. m |-> File!Entry(t, ColumnsIn(r, t, j))]

Counted(r) ==
    /\ Len(r) \in 2 .. MaxRows
    /\ File!IsNumber(r[1]) /\ File!IsNumber(r[2])
    /\ File!Number(r[1]) = Len(r)

SoundRows(r) ==
    /\ Counted(r)
    /\ \A t \in Tables : SizeIn(r, t) >= 0 /\ RowsFine(r, t, SizeIn(r, t))
    /\ DeclaringIn(r, "symt") # {}

LEMMA NumberInt ==
    ASSUME NEW c, File!IsNumber(c)
    PROVE  File!Number(c) \in Int
BY FilesLines DEF File!IsNumber, File!Number

LEMMA TablesAre ==
    /\ DOMAIN File!NoTables = Tables
    /\ DOMAIN File!SectionOf = Tables \ {"sht"}
BY DEF File!NoTables, File!SectionOf, Tables

\* Only relocations are tested against the number of symbols.
LEMMA AcceptedAny ==
    ASSUME NEW t \in {"sht", "symt"}, NEW c, NEW a, NEW b
    PROVE  File!Accepted(t, c, a) <=> File!Accepted(t, c, b)
BY DEF File!Accepted

LEMMA HeaderOf ==
    ASSUME NEW c, NEW a, File!Accepted("sht", c, a)
    PROVE  File!Entry("sht", c).offset \in Int /\ File!Entry("sht", c).size \in Int
<1>1. File!IsNumber(c[3]) /\ File!IsNumber(c[4])
  BY DEF File!Accepted
<1>2. File!Entry("sht", c).offset = File!Number(c[3]) /\ File!Entry("sht", c).size = File!Number(c[4])
  BY DEF File!Entry
<1>. QED
  BY <1>1, <1>2, NumberInt

LEMMA DeclaringOne ==
    ASSUME NEW r, File!IsNumber(r[2]), NEW t
    PROVE  \A i, k \in DeclaringIn(r, t) : i = k
<1>1. DOMAIN HeadsOf(r) = 1 .. File!Number(r[2]) /\ File!Number(r[2]) \in Int
  BY NumberInt DEF HeadsOf
<1>2. SUFFICES ASSUME NEW i \in DeclaringIn(r, t), NEW k \in DeclaringIn(r, t), i # k PROVE FALSE
  OBVIOUS
<1>3. /\ i \in DOMAIN HeadsOf(r) /\ k \in DOMAIN HeadsOf(r)
      /\ HeadsOf(r)[i].name = HeadsOf(r)[k].name
      /\ ~ (k > i) /\ ~ (i > k)
  BY DEF DeclaringIn
<1>. QED
  BY <1>1, <1>2, <1>3

LEMMA SizesInt ==
    ASSUME NEW r, Counted(r), RowsFine(r, "sht", SizeIn(r, "sht")), NEW t \in Tables
    PROVE  /\ SizeIn(r, t) \in Int
           /\ t = "sht" \/ DeclaringIn(r, t) # {} => OffsetIn(r, t) \in Int
<1>1. CASE t = "sht"
  BY <1>1, NumberInt DEF SizeIn, OffsetIn, Counted
<1>2. CASE t # "sht" /\ DeclaringIn(r, t) = {}
  BY <1>2 DEF SizeIn
<1>3. CASE t # "sht" /\ DeclaringIn(r, t) # {}
  <2>1. PICK i : i \in DeclaringIn(r, t) /\ HeadOf(r, t) = HeadsOf(r)[i]
    BY <1>3 DEF HeadOf
  <2>2. i \in 1 .. File!Number(r[2]) /\ HeadsOf(r)[i] = File!Entry("sht", File!Columns(r[2 + i]))
    BY <2>1 DEF DeclaringIn, HeadsOf
  <2>3. File!Accepted("sht", File!Columns(r[2 + i]), SizeIn(r, "symt"))
    BY <2>2 DEF RowsFine, SizeIn, OffsetIn, ColumnsIn
  <2>4. HeadOf(r, t).size \in Int /\ HeadOf(r, t).offset \in Int
    BY <2>1, <2>2, <2>3, HeaderOf
  <2>. QED
    BY <1>3, <2>4 DEF SizeIn, OffsetIn
<1>. QED
  BY <1>1, <1>2, <1>3

LEMMA FileCardinality ==
    ASSUME NEW S
    PROVE  File!Cardinality(S) = Cardinality(S)
BY Zenon DEF File!Cardinality, Cardinality, File!IsFiniteSet, IsFiniteSet

\* The rows of a table, told as a set, are as many as its header says.
LEMMA ToldTableIs ==
    ASSUME NEW r, r = File!Told, Counted(r), RowsFine(r, "sht", SizeIn(r, "sht")),
           NEW t \in Tables \ {"sht"}
    PROVE  /\ File!ToldTable(t) = {<<j, ColumnsIn(r, t, j)>> : j \in 1 .. SizeIn(r, t)}
           /\ SizeIn(r, t) >= 0 => File!Cardinality(File!ToldTable(t)) = SizeIn(r, t)
<1>0. File!ToldHeaders = HeadsOf(r) /\ File!Declaring(t) = DeclaringIn(r, t)
  BY DEF File!ToldHeaders, HeadsOf, File!Declaring, DeclaringIn
<1>1. File!ToldTable(t) = {<<j, ColumnsIn(r, t, j)>> : j \in 1 .. SizeIn(r, t)}
  <2>0. File!ToldTable(t) =
            UNION {{<<j, File!Columns(r[HeadsOf(r)[i].offset + j])>> : j \in 1 .. HeadsOf(r)[i].size} :
                      i \in DeclaringIn(r, t)}
    BY <1>0 DEF File!ToldTable
  <2>1. CASE DeclaringIn(r, t) = {}
    <3>1. SizeIn(r, t) = 0
      BY <2>1 DEF SizeIn
    <3>2. 1 .. SizeIn(r, t) = {}
      BY <3>1
    <3>. QED
      BY <2>0, <2>1, <3>2
  <2>2. CASE DeclaringIn(r, t) # {}
    <3>1. PICK i : i \in DeclaringIn(r, t) /\ HeadOf(r, t) = HeadsOf(r)[i]
      BY <2>2 DEF HeadOf
    <3>2. \A k \in DeclaringIn(r, t) : k = i
      BY <3>1, DeclaringOne DEF Counted
    <3>3. DeclaringIn(r, t) = {i}
      BY <3>1, <3>2
    <3>4. SizeIn(r, t) = HeadsOf(r)[i].size /\ OffsetIn(r, t) = HeadsOf(r)[i].offset
      BY <2>2, <3>1 DEF SizeIn, OffsetIn
    <3>5. UNION {{<<j, File!Columns(r[HeadsOf(r)[k].offset + j])>> : j \in 1 .. HeadsOf(r)[k].size} :
                    k \in {i}}
          = {<<j, File!Columns(r[HeadsOf(r)[i].offset + j])>> : j \in 1 .. HeadsOf(r)[i].size}
      OBVIOUS
    <3>. QED
      BY <2>0, <3>3, <3>4, <3>5 DEF ColumnsIn
  <2>. QED
    BY <2>1, <2>2
<1>2. ASSUME SizeIn(r, t) >= 0 PROVE File!Cardinality(File!ToldTable(t)) = SizeIn(r, t)
  <2>1. SizeIn(r, t) \in Nat
    BY <1>2, SizesInt
  <2>. DEFINE c == [j \in 1 .. SizeIn(r, t) |-> ColumnsIn(r, t, j)]
  <2>2. {<<j, ColumnsIn(r, t, j)>> : j \in 1 .. SizeIn(r, t)} = {<<j, c[j]>> : j \in 1 .. SizeIn(r, t)}
    OBVIOUS
  <2>. HIDE DEF c
  <2>3. Cardinality({<<j, c[j]>> : j \in 1 .. SizeIn(r, t)}) = SizeIn(r, t)
    BY <2>1, PairsCount
  <2>. QED
    BY <1>1, <2>2, <2>3, FileCardinality
<1>. QED
  BY <1>1, <1>2

\* A file is sound when its rows are.
LEMMA SoundIs ==
    ASSUME NEW r \in Seq(Row), r = File!Told
    PROVE  File!Sound <=> SoundRows(r)
<1>0. Len(r) \in Nat /\ DOMAIN r = 1 .. Len(r) /\ MaxRows \in Nat
  BY FilesLines
<1>1. /\ File!ToldHeaders = HeadsOf(r)
      /\ \A t : File!Declaring(t) = DeclaringIn(r, t)
  BY DEF File!ToldHeaders, HeadsOf, File!Declaring, DeclaringIn
<1>2. Counted(r) <=> /\ Len(File!Told) \in 2 .. MaxRows
                     /\ \A i \in 1 .. 2 : File!IsNumber(File!Told[i])
                     /\ File!Number(File!Told[1]) = Len(File!Told)
  BY DEF Counted
<1>. DEFINE Heads == /\ File!Number(r[2]) >= 0 /\ File!Number(r[2]) + 2 <= Len(r)
                     /\ \A i \in 1 .. File!Number(r[2]) : File!Accepted("sht", File!Columns(r[2 + i]), 0)
            Reach(t) == \A i \in DeclaringIn(r, t) :
                            \/ HeadsOf(r)[i].size = 0
                            \/ /\ HeadsOf(r)[i].offset >= 0 /\ HeadsOf(r)[i].size > 0
                               /\ HeadsOf(r)[i].offset + HeadsOf(r)[i].size <= Len(r)
            Takes(t) == \A x \in File!ToldTable(t) :
                            File!Accepted(t, x[2], File!Cardinality(File!ToldTable("symt")))
<1>3. File!Sound <=> /\ Counted(r) /\ Heads /\ DeclaringIn(r, "symt") # {}
                     /\ \A t \in Tables \ {"sht"} : Reach(t)
                     /\ \A t \in Tables \ {"sht"} : Takes(t)
  BY <1>1, <1>2, TablesAre DEF File!Sound
<1>4. ASSUME Counted(r)
      PROVE  Heads <=> SizeIn(r, "sht") >= 0 /\ RowsFine(r, "sht", SizeIn(r, "sht"))
  <2>1. PICK N : N = File!Number(r[2]) /\ N \in Int
    BY <1>4, NumberInt DEF Counted
  <2>2. SizeIn(r, "sht") = N /\ OffsetIn(r, "sht") = 2
    BY <2>1 DEF SizeIn, OffsetIn
  <2>3. RowsFine(r, "sht", N) <=>
            \A j \in 1 .. N : 2 + j \in 1 .. Len(r) /\ File!Accepted("sht", File!Columns(r[2 + j]), SizeIn(r, "symt"))
    BY <1>0, <2>2 DEF RowsFine, ColumnsIn
  <2>4. RowsFine(r, "sht", N) <=>
            \A j \in 1 .. N : 2 + j \in 1 .. Len(r) /\ File!Accepted("sht", File!Columns(r[2 + j]), 0)
    BY <2>3, AcceptedAny
  <2>5. Len(r) >= 2
    BY <1>0, <1>4 DEF Counted
  <2>6. N >= 0 => ((N + 2 <= Len(r)) <=> \A j \in 1 .. N : 2 + j \in 1 .. Len(r))
    <3>1. ASSUME N >= 0, \A j \in 1 .. N : 2 + j \in 1 .. Len(r) PROVE N + 2 <= Len(r)
      <4>1. CASE N = 0
        BY <1>0, <2>5, <4>1
      <4>2. CASE N # 0
        <5>1. N \in 1 .. N
          BY <2>1, <3>1, <4>2
        <5>. QED
          BY <1>0, <2>1, <3>1, <5>1
      <4>. QED
        BY <4>1, <4>2
    <3>. QED
      BY <1>0, <2>1, <3>1
  <2>. QED
    BY <2>1, <2>2, <2>4, <2>6
<1>5. ASSUME Counted(r), RowsFine(r, "sht", SizeIn(r, "sht")), NEW t \in Tables \ {"sht"}
      PROVE  Reach(t) <=> /\ SizeIn(r, t) >= 0
                          /\ \A j \in 1 .. SizeIn(r, t) : OffsetIn(r, t) + j \in DOMAIN r
  <2>1. CASE DeclaringIn(r, t) = {}
    <3>1. SizeIn(r, t) = 0
      BY <2>1 DEF SizeIn
    <3>. QED
      BY <2>1, <3>1
  <2>2. CASE DeclaringIn(r, t) # {}
    <3>1. PICK i : i \in DeclaringIn(r, t) /\ HeadOf(r, t) = HeadsOf(r)[i]
      BY <2>2 DEF HeadOf
    <3>2. \A k \in DeclaringIn(r, t) : k = i
      BY <1>5, <3>1, DeclaringOne DEF Counted
    <3>3. SizeIn(r, t) = HeadsOf(r)[i].size /\ OffsetIn(r, t) = HeadsOf(r)[i].offset
      BY <2>2, <3>1 DEF SizeIn, OffsetIn
    <3>4. SizeIn(r, t) \in Int /\ OffsetIn(r, t) \in Int
      BY <1>5, <2>2, SizesInt
    <3>5. PICK z, o, l : z = SizeIn(r, t) /\ o = OffsetIn(r, t) /\ l = Len(r)
      OBVIOUS
    <3>6. Reach(t) <=> z = 0 \/ (o >= 0 /\ z > 0 /\ o + z <= l)
      BY <3>1, <3>2, <3>3, <3>5
    <3>7. z \in Int /\ o \in Int /\ l \in Nat
      BY <1>0, <3>4, <3>5
    <3>8. (z = 0 \/ (o >= 0 /\ z > 0 /\ o + z <= l)) <=> z >= 0 /\ \A j \in 1 .. z : o + j \in 1 .. l
      <4>1. ASSUME z > 0, \A j \in 1 .. z : o + j \in 1 .. l PROVE o >= 0 /\ o + z <= l
        <5>1. 1 \in 1 .. z /\ z \in 1 .. z
          BY <3>7, <4>1
        <5>. QED
          BY <3>7, <4>1, <5>1
      <4>2. ASSUME z >= 0, o >= 0, o + z <= l, NEW j \in 1 .. z PROVE o + j \in 1 .. l
        BY ONLY <3>7, <4>2
      <4>. QED
        BY ONLY <3>7, <4>1, <4>2
    <3>. QED
      BY <1>0, <3>5, <3>6, <3>8
  <2>. QED
    BY <2>1, <2>2
<1>6. ASSUME Counted(r), RowsFine(r, "sht", SizeIn(r, "sht")),
             \A t \in Tables \ {"sht"} : SizeIn(r, t) >= 0,
             NEW t \in Tables \ {"sht"}
      PROVE  Takes(t) <=> \A j \in 1 .. SizeIn(r, t) : File!Accepted(t, ColumnsIn(r, t, j), SizeIn(r, "symt"))
  <2>1. "symt" \in Tables \ {"sht"}
    BY DEF Tables
  <2>2. File!Cardinality(File!ToldTable("symt")) = SizeIn(r, "symt")
    BY <1>6, <2>1, ToldTableIs
  <2>3. File!ToldTable(t) = {<<j, ColumnsIn(r, t, j)>> : j \in 1 .. SizeIn(r, t)}
    BY <1>6, ToldTableIs
  <2>4. ASSUME Takes(t), NEW j \in 1 .. SizeIn(r, t)
        PROVE  File!Accepted(t, ColumnsIn(r, t, j), SizeIn(r, "symt"))
    <3>1. <<j, ColumnsIn(r, t, j)>> \in File!ToldTable(t)
      BY <2>3, Zenon
    <3>2. File!Accepted(t, <<j, ColumnsIn(r, t, j)>>[2], SizeIn(r, "symt"))
      BY <2>2, <2>4, <3>1, Zenon
    <3>3. <<j, ColumnsIn(r, t, j)>>[2] = ColumnsIn(r, t, j)
      OBVIOUS
    <3>. QED
      BY <3>2, <3>3, Zenon
  <2>5. ASSUME \A j \in 1 .. SizeIn(r, t) : File!Accepted(t, ColumnsIn(r, t, j), SizeIn(r, "symt")),
               NEW x \in File!ToldTable(t)
        PROVE  File!Accepted(t, x[2], File!Cardinality(File!ToldTable("symt")))
    <3>1. PICK j \in 1 .. SizeIn(r, t) : x = <<j, ColumnsIn(r, t, j)>>
      BY <2>3, Zenon
    <3>2. x[2] = ColumnsIn(r, t, j)
      BY <3>1
    <3>. QED
      BY <2>2, <2>5, <3>2, Zenon
  <2>. QED
    BY <2>4, <2>5, Zenon
<1>7. \A t : RowsFine(r, t, SizeIn(r, t)) <=>
          \A j \in 1 .. SizeIn(r, t) :
              OffsetIn(r, t) + j \in DOMAIN r /\ File!Accepted(t, ColumnsIn(r, t, j), SizeIn(r, "symt"))
  BY DEF RowsFine
<1>8. "sht" \in Tables
  BY DEF Tables
<1>. HIDE DEF Heads, Reach, Takes
<1>9. ASSUME File!Sound PROVE SoundRows(r)
  <2>1. /\ Counted(r) /\ SizeIn(r, "sht") >= 0 /\ RowsFine(r, "sht", SizeIn(r, "sht"))
        /\ DeclaringIn(r, "symt") # {}
    BY <1>3, <1>4, <1>9
  <2>2. \A t \in Tables \ {"sht"} :
            SizeIn(r, t) >= 0 /\ \A j \in 1 .. SizeIn(r, t) : OffsetIn(r, t) + j \in DOMAIN r
    BY <1>3, <1>5, <1>9, <2>1
  <2>3. \A t \in Tables \ {"sht"} :
            \A j \in 1 .. SizeIn(r, t) : File!Accepted(t, ColumnsIn(r, t, j), SizeIn(r, "symt"))
    BY <1>3, <1>6, <1>9, <2>1, <2>2
  <2>4. \A t \in Tables \ {"sht"} : RowsFine(r, t, SizeIn(r, t))
    BY <1>7, <2>2, <2>3
  <2>. QED
    BY <2>1, <2>2, <2>4 DEF SoundRows
<1>10. ASSUME SoundRows(r) PROVE File!Sound
  <2>1. /\ Counted(r) /\ SizeIn(r, "sht") >= 0 /\ RowsFine(r, "sht", SizeIn(r, "sht"))
        /\ DeclaringIn(r, "symt") # {}
        /\ \A t \in Tables \ {"sht"} : SizeIn(r, t) >= 0 /\ RowsFine(r, t, SizeIn(r, t))
    BY <1>8, <1>10 DEF SoundRows
  <2>2. \A t \in Tables \ {"sht"} : Reach(t)
    BY <1>5, <1>7, <2>1
  <2>3. \A t \in Tables \ {"sht"} : Takes(t)
    BY <1>6, <1>7, <2>1
  <2>4. Heads
    BY <1>4, <2>1
  <2>. QED
    BY <1>3, <2>1, <2>2, <2>3, <2>4
<1>. QED
  BY <1>9, <1>10

-----------------------------------------------------------------------------
(* ElfFile: the invariant of the reader.                                   *)

UnevenLine(line) ==
    \/ Len(line) >= MaxWidth
    \/ /\ ~ File!Said(line) /\ File!Cut(line) # <<>>
       /\ \E j \in DOMAIN line : line[j] \notin File!Blank
Uneven(f) == \E i \in DOMAIN f : UnevenLine(f[i])

Told(f) == Heard(f, Len(f))

Turn == [sht |-> 1, symt |-> 2, reltext |-> 3, reldata |-> 4, parsed |-> 5]

\* the tables while the rows are parsed; done says how far
PartsOf(r, done) == [t \in Tables |-> Filled(r, t, done[t])]
WholeOf(r) == PartsOf(r, [t \in Tables |-> SizeIn(r, t)])

ReadSoFar(f, u, r, e) ==
    /\ e = File!NoTables /\ u \in Seq(TextLine) /\ Len(r) <= MaxRows
    /\ \/ Uneven(f)
       \/ \E i \in 0 .. Len(f) :
              /\ Len(u) = Len(f) - i /\ \A j \in 1 .. Len(u) : u[j] = f[i + j]
              /\ r = Heard(f, i)

DoneOK(r, j, done) ==
    \A t \in Tables :
        /\ RowsFine(r, t, done[t])
        /\ Turn[t] < Turn[j] => done[t] = SizeIn(r, t)
        /\ Turn[t] = Turn[j] => done[t] = 0 \/ SizeIn(r, t) < 0 \/ done[t] <= SizeIn(r, t)
        /\ Turn[t] > Turn[j] => done[t] = 0

ParsedSoFar(f, r, e, j) ==
    /\ Counted(r)
    /\ Uneven(f) \/ r = Told(f)
    /\ j # "sht" => DeclaringIn(r, "symt") # {}
    /\ \E done \in [Tables -> Nat] : e = PartsOf(r, done) /\ DoneOK(r, j, done)

WrittenOK(f, w) ==
    \/ w = <<>>
    \/ \E R \in Seq(Row) :
           w = <<WholeOf(R)>> /\ f = [i \in DOMAIN R |-> Append(R[i], "\n")]

FileOK(f, u, r, e, j, w) ==
    /\ f \in Seq(TextLine) /\ r \in Seq(Row)
    /\ j \in Tables \cup {"reading", "parsed", "refused", "undefined"}
    /\ j = "reading" => ReadSoFar(f, u, r, e)
    /\ j \in Tables \cup {"parsed"} => ParsedSoFar(f, r, e, j)
    /\ j \in {"refused", "undefined"} => Uneven(f) \/ ~ SoundRows(Told(f))
    /\ WrittenOK(f, w)

FileInv == which = "file" => FileOK(file, unread, rows, elf, job, written)

LEMMA UnevenIs == File!Irregular <=> Uneven(file)
BY DEF File!Irregular, Uneven, UnevenLine

\* Of the headers with the name of a table, the last is its header.
LEMMA LastDeclares ==
    ASSUME NEW r, File!IsNumber(r[2]), NEW t,
           NEW S, S = {i \in DOMAIN HeadsOf(r) : HeadsOf(r)[i].name = <<File!SectionOf[t]>>}
    PROVE  /\ S = {} <=> DeclaringIn(r, t) = {}
           /\ S # {} => HeadOf(r, t) = HeadsOf(r)[CHOOSE i \in S : \A j \in S : j <= i]
<1>1. PICK N : N = File!Number(r[2]) /\ N \in Int /\ DOMAIN HeadsOf(r) = 1 .. N
  BY NumberInt DEF HeadsOf
<1>2. DeclaringIn(r, t) \subseteq S
  BY DEF DeclaringIn
<1>3. ASSUME S # {}
      PROVE  \E i \in S : \A j \in S : j <= i
  <2>1. N \in Nat /\ S \in SUBSET Nat /\ \A i \in S : i <= N
    BY <1>1, <1>3
  <2>. QED
    BY <1>3, <2>1, GreatestExists
<1>4. ASSUME S # {}
      PROVE  /\ (CHOOSE i \in S : \A j \in S : j <= i) \in DeclaringIn(r, t)
             /\ DeclaringIn(r, t) # {}
             /\ HeadOf(r, t) = HeadsOf(r)[CHOOSE i \in S : \A j \in S : j <= i]
  <2>1. PICK l : l = CHOOSE i \in S : \A j \in S : j <= i
    OBVIOUS
  <2>2. l \in S /\ \A j \in S : j <= l
    BY <1>3, <1>4, <2>1, Zenon
  <2>3. l \in DOMAIN HeadsOf(r) /\ HeadsOf(r)[l].name = <<File!SectionOf[t]>>
    BY <2>2
  <2>4. ASSUME NEW j \in DOMAIN HeadsOf(r), j > l PROVE HeadsOf(r)[j].name # HeadsOf(r)[l].name
    <3>1. j \notin S
      BY <1>1, <2>2, <2>3, <2>4
    <3>. QED
      BY <2>3, <3>1
  <2>5. l \in DeclaringIn(r, t)
    BY <2>3, <2>4 DEF DeclaringIn
  <2>6. PICK m : m = (CHOOSE i \in DeclaringIn(r, t) : TRUE) /\ m \in DeclaringIn(r, t)
    BY <2>5
  <2>7. m = l
    BY <2>5, <2>6, DeclaringOne
  <2>8. HeadOf(r, t) = HeadsOf(r)[m]
    BY <2>6 DEF HeadOf
  <2>. QED
    BY <2>1, <2>5, <2>7, <2>8
<1>. QED
  BY <1>2, <1>4

LEMMA PartsAre ==
    ASSUME NEW r, NEW done \in [Tables -> Nat], NEW e, e = PartsOf(r, done)
    PROVE  /\ \A t \in Tables : e[t] = Filled(r, t, done[t]) /\ Len(e[t]) = done[t]
           /\ e.sht = e["sht"] /\ e.symt = e["symt"]
<1>1. ASSUME NEW t \in Tables PROVE e[t] = Filled(r, t, done[t])
  BY DEF PartsOf
<1>2. ASSUME NEW t \in Tables PROVE Len(Filled(r, t, done[t])) = done[t]
  BY DEF Filled
<1>3. e.sht = e["sht"] /\ e.symt = e["symt"]
  OBVIOUS
<1>. QED
  BY <1>1, <1>2, <1>3

LEMMA HeadsFilled ==
    ASSUME NEW r
    PROVE  Filled(r, "sht", SizeIn(r, "sht")) = HeadsOf(r)
BY DEF Filled, HeadsOf, SizeIn, OffsetIn, ColumnsIn

\* Sizes and offsets are those that the rows declare.
LEMMA SizesDeclared ==
    ASSUME Counted(rows), NEW done \in [Tables -> Nat], elf = PartsOf(rows, done),
           NEW t \in Tables, t # "sht" => done["sht"] = SizeIn(rows, "sht")
    PROVE  /\ File!Size(t) = SizeIn(rows, t)
           /\ t = "sht" \/ DeclaringIn(rows, t) # {} => File!Offset(t) = OffsetIn(rows, t)
           /\ t # "sht" => (File!Headers(t) = {} <=> DeclaringIn(rows, t) = {})
<1>1. CASE t = "sht"
  BY <1>1 DEF File!Size, File!Offset, SizeIn, OffsetIn
<1>2. CASE t # "sht"
  <2>1. elf.sht = HeadsOf(rows)
    <3>1. "sht" \in Tables
      BY DEF Tables
    <3>. QED
      BY <1>2, <3>1, PartsAre, HeadsFilled
  <2>2. File!Headers(t) = {i \in DOMAIN HeadsOf(rows) : HeadsOf(rows)[i].name = <<File!SectionOf[t]>>}
    BY <2>1 DEF File!Headers
  <2>3. /\ File!Headers(t) = {} <=> DeclaringIn(rows, t) = {}
        /\ File!Headers(t) # {} =>
               HeadOf(rows, t) = HeadsOf(rows)[CHOOSE i \in File!Headers(t) : \A j \in File!Headers(t) : j <= i]
    BY <2>2, LastDeclares DEF Counted
  <2>4. File!Headers(t) # {} => HeadOf(rows, t) = File!Header(t)
    BY <2>1, <2>3 DEF File!Header
  <2>. QED
    BY <1>2, <2>3, <2>4 DEF File!Size, File!Offset, SizeIn, OffsetIn
<1>. QED
  BY <1>1, <1>2

LEMMA InitFile ==
    File!Init => FileOK(file, unread, rows, elf, job, written)
<1>. SUFFICES ASSUME File!Init PROVE FileOK(file, unread, rows, elf, job, written)
  OBVIOUS
<1>1. file \in Seq(TextLine) /\ unread = file /\ rows = <<>> /\ elf = File!NoTables
      /\ job = "reading" /\ written = <<>>
  BY FilesLines DEF File!Init, File!None
<1>2. Len(file) \in Nat /\ 0 \in 0 .. Len(file) /\ \A j \in 1 .. Len(file) : 0 + j = j
  BY <1>1
<1>3. rows = Heard(file, 0)
  BY <1>1, HeardNone
<1>4. rows \in Seq(Row) /\ Len(rows) = 0 /\ MaxRows >= 0
  BY <1>1, FilesLines
<1>5. Len(unread) = Len(file) - 0 /\ \A j \in 1 .. Len(unread) : unread[j] = file[0 + j]
  BY <1>1, <1>2
<1>6. ReadSoFar(file, unread, rows, elf)
  BY <1>1, <1>2, <1>3, <1>4, <1>5, Zenon DEF ReadSoFar
<1>7. job \notin Tables \cup {"parsed", "refused", "undefined"}
  BY <1>1 DEF Tables
<1>. QED
  BY <1>1, <1>4, <1>6, <1>7 DEF FileOK, WrittenOK

\* What a step of the reader leaves alone.
LEMMA FgetsIn ==
    ASSUME unread \in Seq(TextLine), unread # <<>>
    PROVE  /\ File!Fgets \in TextLine /\ File!Left \in Seq(TextLine)
           /\ Len(unread[1]) < MaxWidth => File!Fgets = unread[1] /\ File!Left = Tail(unread)
<1>1. unread[1] \in TextLine /\ Tail(unread) \in Seq(TextLine) /\ MaxWidth \in Nat /\ MaxWidth > 1
  BY FilesLines
<1>2. CASE Len(unread[1]) < MaxWidth
  BY <1>1, <1>2 DEF File!Fgets, File!Left
<1>3. CASE ~ (Len(unread[1]) < MaxWidth)
  <2>1. PICK l : l = unread[1] /\ l \in Seq(Tokens) /\ l # <<>> /\ Len(l) \in Nat /\ ~ (Len(l) < MaxWidth)
    BY <1>1, <1>3 DEF TextLine
  <2>2. /\ SubSeq(l, 1, MaxWidth - 1) \in Seq(Tokens) /\ Len(SubSeq(l, 1, MaxWidth - 1)) = MaxWidth - 1
        /\ SubSeq(l, MaxWidth, Len(l)) \in Seq(Tokens) /\ Len(SubSeq(l, MaxWidth, Len(l))) = Len(l) - MaxWidth + 1
    BY <1>1, <2>1
  <2>3. /\ SubSeq(l, 1, MaxWidth - 1) \in TextLine
        /\ SubSeq(l, MaxWidth, Len(l)) \in TextLine
    <3>1. MaxWidth - 1 # 0 /\ Len(l) - MaxWidth + 1 # 0
      BY <1>1, <2>1
    <3>. QED
      BY <2>2, <3>1 DEF TextLine
  <2>4. PICK q : q = SubSeq(l, MaxWidth, Len(l))
    OBVIOUS
  <2>5. <<q>> \o Tail(unread) \in Seq(TextLine)
    BY <1>1, <2>3, <2>4
  <2>6. File!Fgets = SubSeq(l, 1, MaxWidth - 1) /\ File!Left = <<q>> \o Tail(unread)
    BY <1>3, <2>1, <2>4, Zenon DEF File!Fgets, File!Left
  <2>. QED
    BY <1>3, <2>3, <2>5, <2>6
<1>. QED
  BY <1>2, <1>3

LEMMA ReadLineOK ==
    ASSUME FileOK(file, unread, rows, elf, job, written), File!ReadLine
    PROVE  FileOK(file, unread, rows, elf, job, written)'
<1>0. /\ job = "reading" /\ unread # <<>> /\ unread' = File!Left
      /\ file' = file /\ elf' = elf /\ written' = written
  BY DEF File!ReadLine
<1>1. /\ file \in Seq(TextLine) /\ rows \in Seq(Row) /\ ReadSoFar(file, unread, rows, elf)
      /\ WrittenOK(file, written)
  BY <1>0 DEF FileOK
<1>2. PICK line, left : line = File!Fgets /\ left = File!Left
  OBVIOUS
<1>3. /\ line \in TextLine /\ left \in Seq(TextLine) /\ unread' = left
      /\ Len(unread[1]) < MaxWidth => line = unread[1] /\ left = Tail(unread)
  BY <1>0, <1>1, <1>2, FgetsIn DEF ReadSoFar
<1>4. \/ File!Skipped(line) /\ rows' = rows /\ job' = "reading"
      \/ ~ File!Skipped(line) /\ Len(rows) < MaxRows /\ rows' = Append(rows, File!Cut(line)) /\ job' = "reading"
      \/ ~ File!Skipped(line) /\ Len(rows) = MaxRows /\ rows' = rows /\ job' = "refused"
  BY <1>0, <1>2 DEF File!ReadLine
<1>5. /\ rows' \in Seq(Row) /\ job' \in {"reading", "refused"}
      /\ job' = "reading" => Len(rows') <= MaxRows
  <2>1. ~ File!Skipped(line) => File!Cut(line) \in Row
    BY <1>3, RowOf
  <2>2. ~ File!Skipped(line) => /\ Append(rows, File!Cut(line)) \in Seq(Row)
                                /\ Len(Append(rows, File!Cut(line))) = Len(rows) + 1
    BY <1>1, <2>1, Appended
  <2>3. Len(rows) \in Nat /\ MaxRows \in Nat /\ Len(rows) <= MaxRows
    BY <1>1, FilesLines DEF ReadSoFar
  <2>. QED
    BY <1>1, <1>4, <2>2, <2>3
<1>6. ASSUME ~ Uneven(file)
      PROVE  /\ job' = "reading" => ReadSoFar(file, left, rows', elf)
             /\ job' = "refused" => ~ SoundRows(Told(file))
  <2>1. PICK i \in 0 .. Len(file) :
            /\ Len(unread) = Len(file) - i /\ \A j \in 1 .. Len(unread) : unread[j] = file[i + j]
            /\ rows = Heard(file, i)
    BY <1>1, <1>6 DEF ReadSoFar
  <2>2. unread \in Seq(TextLine) /\ Len(unread) \in Nat /\ Len(unread) # 0 /\ Len(file) \in Nat
    BY <1>0, <1>1 DEF ReadSoFar
  <2>3. /\ i + 1 \in 1 .. Len(file) /\ i + 1 \in DOMAIN file
        /\ unread[1] = file[i + 1] /\ (i + 1) - 1 = i
    <3>1. i + 1 \in 1 .. Len(file) /\ 1 \in 1 .. Len(unread) /\ (i + 1) - 1 = i
      BY <2>1, <2>2
    <3>2. DOMAIN file = 1 .. Len(file)
      BY <1>1
    <3>. QED
      BY <2>1, <3>1, <3>2
  <2>4. ~ UnevenLine(file[i + 1]) /\ Len(file[i + 1]) \in Nat /\ MaxWidth \in Nat
    <3>1. file[i + 1] \in TextLine
      BY <1>1, <2>3
    <3>2. Len(file[i + 1]) \in Nat
      BY <3>1 DEF TextLine
    <3>. QED
      BY <1>6, <2>3, <3>2, FilesLines DEF Uneven
  <2>5. line = file[i + 1] /\ left = Tail(unread)
    BY <1>3, <2>3, <2>4 DEF UnevenLine
  <2>6. File!Skipped(line) <=> ~ File!Said(line)
    BY <1>3, <2>4, <2>5, SaidKept DEF UnevenLine
  <2>7. Heard(file, i + 1) = IF File!Skipped(line) THEN rows ELSE Append(rows, File!Cut(line))
    <3>1. Heard(file, i + 1) = IF File!Said(file[i + 1]) THEN Append(Heard(file, (i + 1) - 1), File!Cut(file[i + 1]))
                               ELSE Heard(file, (i + 1) - 1)
      BY <1>1, <2>3, HeardNext
    <3>. QED
      BY <2>1, <2>3, <2>5, <2>6, <3>1, Zenon
  <2>8. ASSUME job' = "reading" PROVE ReadSoFar(file, left, rows', elf)
    <3>1. rows' = Heard(file, i + 1)
      <4>1. job' # "refused"
        BY <2>8
      <4>2. CASE File!Skipped(line)
        BY <1>4, <2>7, <4>2, Zenon
      <4>3. CASE ~ File!Skipped(line)
        BY <1>4, <2>7, <4>1, <4>3, Zenon
      <4>. QED
        BY <4>2, <4>3
    <3>2. Len(left) = Len(file) - (i + 1) /\ \A j \in 1 .. Len(left) : left[j] = file[(i + 1) + j]
      <4>1. Len(left) = Len(unread) - 1 /\ \A j \in 1 .. Len(left) : left[j] = unread[j + 1]
        BY <2>2, <2>5
      <4>2. ASSUME NEW j \in 1 .. Len(left) PROVE left[j] = file[(i + 1) + j]
        <5>1. j + 1 \in 1 .. Len(unread) /\ i + (j + 1) = (i + 1) + j
          BY <2>1, <2>2, <4>1
        <5>. QED
          BY <2>1, <4>1, <5>1
      <4>. QED
        BY <2>1, <2>2, <4>1, <4>2
    <3>3. i + 1 \in 0 .. Len(file)
      BY <2>3
    <3>. QED
      BY <1>1, <1>3, <1>5, <2>8, <3>1, <3>2, <3>3 DEF ReadSoFar
  <2>9. ASSUME job' = "refused" PROVE ~ SoundRows(Told(file))
    <3>1. ~ File!Skipped(line) /\ Len(rows) = MaxRows
      BY <1>4, <2>9
    <3>2. File!Cut(line) \in Row
      BY <1>3, <3>1, RowOf
    <3>3. Len(Heard(file, i + 1)) = MaxRows + 1
      BY <1>1, <2>7, <3>1, <3>2, Appended
    <3>4. Len(Heard(file, i + 1)) <= Len(Told(file)) /\ Len(Told(file)) \in Nat /\ MaxRows \in Nat
      <4>1. i + 1 \in 0 .. Len(file) /\ Len(file) \in 0 .. Len(file)
        BY <2>2, <2>3
      <4>2. Told(file) \in Seq(Row)
        BY <1>1, <4>1, HeardIn DEF Told
      <4>. QED
        BY <1>1, <4>1, <4>2, HeardGrows, FilesLines DEF Told
    <3>5. ~ (Len(Told(file)) \in 2 .. MaxRows)
      <4>. HIDE DEF Told
      <4>. QED
        BY ONLY <3>3, <3>4
    <3>. QED
      BY <3>5 DEF SoundRows, Counted
  <2>. QED
    BY <2>8, <2>9
<1>7. job' = "reading" => ReadSoFar(file, left, rows', elf)
  BY <1>1, <1>3, <1>5, <1>6 DEF ReadSoFar
<1>8. job' \notin Tables \cup {"parsed", "undefined"}
  BY <1>5 DEF Tables
<1>. QED
  BY <1>0, <1>1, <1>3, <1>5, <1>6, <1>7, <1>8 DEF FileOK

LEMMA CheckCountOK ==
    ASSUME FileOK(file, unread, rows, elf, job, written), File!CheckCount
    PROVE  FileOK(file, unread, rows, elf, job, written)'
<1>0. /\ job = "reading" /\ unread = <<>>
      /\ job' = IF rows = <<>> THEN "undefined"
                ELSE IF ~ File!IsNumber(rows[1]) \/ File!Number(rows[1]) # Len(rows) THEN "refused"
                ELSE IF Len(rows) = 1 THEN "undefined"
                ELSE IF ~ File!IsNumber(rows[2]) THEN "refused" ELSE "sht"
      /\ file' = file /\ elf' = elf /\ written' = written /\ rows' = rows
  BY DEF File!CheckCount
<1>1. /\ file \in Seq(TextLine) /\ rows \in Seq(Row) /\ ReadSoFar(file, unread, rows, elf)
      /\ WrittenOK(file, written) /\ Len(rows) \in Nat /\ Len(rows) <= MaxRows /\ MaxRows \in Nat
  BY <1>0, FilesLines DEF FileOK, ReadSoFar
<1>2. Uneven(file) \/ rows = Told(file)
  <2>. SUFFICES ASSUME ~ Uneven(file) PROVE rows = Told(file)
    OBVIOUS
  <2>1. PICK i \in 0 .. Len(file) : Len(unread) = Len(file) - i /\ rows = Heard(file, i)
    BY <1>1 DEF ReadSoFar
  <2>2. Len(unread) = 0 /\ Len(file) \in Nat
    BY <1>0, <1>1
  <2>3. i = Len(file)
    BY <2>1, <2>2
  <2>. QED
    BY <2>1, <2>3 DEF Told
<1>3. CASE job' # "sht"
  <2>1. job' \in {"refused", "undefined"} /\ ~ Counted(rows)
    BY <1>0, <1>1, <1>3 DEF Counted
  <2>2. Uneven(file) \/ ~ SoundRows(Told(file))
    BY <1>2, <2>1 DEF SoundRows
  <2>3. job' \notin Tables \cup {"reading", "parsed"}
    BY <2>1 DEF Tables
  <2>. QED
    BY <1>0, <1>1, <2>1, <2>2, <2>3 DEF FileOK
<1>4. CASE job' = "sht"
  <2>1. Counted(rows)
    <3>1. /\ rows # <<>> /\ Len(rows) # 1
          /\ File!IsNumber(rows[1]) /\ File!Number(rows[1]) = Len(rows) /\ File!IsNumber(rows[2])
      <4>1. job' \notin {"undefined", "refused"}
        BY <1>4
      <4>2. rows # <<>>
        BY <1>0, <4>1, Zenon
      <4>3. File!IsNumber(rows[1]) /\ File!Number(rows[1]) = Len(rows)
        BY <1>0, <4>1, <4>2, Zenon
      <4>4. Len(rows) # 1
        BY <1>0, <4>1, <4>2, <4>3, Zenon
      <4>5. File!IsNumber(rows[2])
        BY <1>0, <4>1, <4>2, <4>3, <4>4, Zenon
      <4>. QED
        BY <4>2, <4>3, <4>4, <4>5
    <3>2. Len(rows) \in 2 .. MaxRows
      <4>1. PICK k : k = Len(rows)
        OBVIOUS
      <4>2. k \in Nat /\ k <= MaxRows /\ MaxRows \in Nat /\ k # 1 /\ rows \in Seq(Row)
        BY <1>1, <3>1, <4>1, Zenon
      <4>3. k # 0
        BY ONLY <3>1, <4>1, <4>2
      <4>4. k \in 2 .. MaxRows
        BY ONLY <4>2, <4>3
      <4>. QED
        BY <4>1, <4>4, Zenon
    <3>. QED
      BY <3>1, <3>2, Zenon DEF Counted
  <2>2. PICK done : done = [t \in Tables |-> 0]
    OBVIOUS
  <2>3. done \in [Tables -> Nat] /\ \A t \in Tables : done[t] = 0
    BY <2>2
  <2>4. elf = PartsOf(rows, done)
    <3>1. \A t \in Tables : Filled(rows, t, done[t]) = <<>>
      BY <2>3 DEF Filled
    <3>2. File!NoTables = [t \in Tables |-> <<>>]
      BY DEF File!NoTables, Tables
    <3>. QED
      BY <1>1, <3>1, <3>2 DEF ReadSoFar, PartsOf
  <2>5. DoneOK(rows, "sht", done)
    <3>1. \A t \in Tables : ~ (Turn[t] < Turn["sht"])
      BY DEF Turn, Tables
    <3>2. \A t \in Tables : RowsFine(rows, t, done[t])
      BY <2>3 DEF RowsFine
    <3>. QED
      BY <2>3, <3>1, <3>2 DEF DoneOK
  <2>6. ParsedSoFar(file, rows, elf, "sht")
    BY <1>2, <2>1, <2>3, <2>4, <2>5, Zenon DEF ParsedSoFar
  <2>7. "sht" \in Tables /\ job' \notin {"reading", "refused", "undefined"}
    BY <1>4 DEF Tables
  <2>8. ParsedSoFar(file', rows', elf', job')
    BY <1>0, <1>4, <2>6, Zenon
  <2>. QED
    BY <1>0, <1>1, <1>4, <2>7, <2>8 DEF FileOK
<1>. QED
  BY <1>3, <1>4

LEMMA FilledNext ==
    ASSUME NEW r, NEW t, NEW m \in Nat
    PROVE  Filled(r, t, m + 1) = Append(Filled(r, t, m), File!Entry(t, ColumnsIn(r, t, m + 1)))
<1>1. PICK c : c = [j \in 1 .. m + 1 |-> File!Entry(t, ColumnsIn(r, t, j))]
  OBVIOUS
<1>2. [j \in 1 .. m + 1 |-> c[j]] = Append([j \in 1 .. m |-> c[j]], c[m + 1])
  OBVIOUS
<1>3. /\ Filled(r, t, m + 1) = [j \in 1 .. m + 1 |-> c[j]]
      /\ Filled(r, t, m) = [j \in 1 .. m |-> c[j]]
      /\ File!Entry(t, ColumnsIn(r, t, m + 1)) = c[m + 1]
  BY <1>1 DEF Filled
<1>. QED
  BY <1>2, <1>3

\* What is known while a table is parsed.
LEMMA AtTable ==
    ASSUME NEW t \in Tables, Counted(rows), t # "sht" => DeclaringIn(rows, "symt") # {},
           NEW done \in [Tables -> Nat], elf = PartsOf(rows, done), DoneOK(rows, t, done)
    PROVE  /\ File!Size(t) = SizeIn(rows, t) /\ SizeIn(rows, t) \in Int
           /\ elf[t] = Filled(rows, t, done[t]) /\ Len(elf[t]) = done[t]
           /\ \A u \in Tables : elf[u] = Filled(rows, u, done[u])
           /\ t = "sht" \/ DeclaringIn(rows, t) # {} =>
                  File!Offset(t) = OffsetIn(rows, t) /\ OffsetIn(rows, t) \in Int
           /\ \A c : File!Accepted(t, c, Len(elf.symt)) <=> File!Accepted(t, c, SizeIn(rows, "symt"))
           /\ done[t] = 0 \/ SizeIn(rows, t) < 0 \/ done[t] <= SizeIn(rows, t)
<1>1. /\ t # "sht" => Turn["sht"] < Turn[t]
      /\ t \notin {"sht", "symt"} => Turn["symt"] < Turn[t]
      /\ "sht" \in Tables /\ "symt" \in Tables
  BY DEF Turn, Tables
<1>2. /\ t # "sht" => done["sht"] = SizeIn(rows, "sht") /\ RowsFine(rows, "sht", SizeIn(rows, "sht"))
      /\ t \notin {"sht", "symt"} => done["symt"] = SizeIn(rows, "symt")
      /\ done[t] = 0 \/ SizeIn(rows, t) < 0 \/ done[t] <= SizeIn(rows, t)
  BY <1>1 DEF DoneOK
<1>3. /\ File!Size(t) = SizeIn(rows, t)
      /\ t = "sht" \/ DeclaringIn(rows, t) # {} => File!Offset(t) = OffsetIn(rows, t)
  BY <1>2, SizesDeclared
<1>4. SizeIn(rows, t) \in Int /\ (t = "sht" \/ DeclaringIn(rows, t) # {} => OffsetIn(rows, t) \in Int)
  <2>1. CASE t = "sht"
    BY <2>1, NumberInt DEF SizeIn, OffsetIn, Counted
  <2>2. CASE t # "sht"
    BY <1>2, <2>2, SizesInt
  <2>. QED
    BY <2>1, <2>2
<1>5. /\ \A u \in Tables : elf[u] = Filled(rows, u, done[u]) /\ Len(elf[u]) = done[u]
      /\ elf.symt = elf["symt"]
  BY PartsAre
<1>6. \A c : File!Accepted(t, c, Len(elf.symt)) <=> File!Accepted(t, c, SizeIn(rows, "symt"))
  <2>1. CASE t \in {"sht", "symt"}
    BY <2>1, AcceptedAny
  <2>2. CASE t \notin {"sht", "symt"}
    BY <1>1, <1>2, <1>5, <2>2, Zenon
  <2>. QED
    BY <2>1, <2>2
<1>. QED
  BY <1>2, <1>3, <1>4, <1>5, <1>6

LEMMA ParseEntryOK ==
    ASSUME FileOK(file, unread, rows, elf, job, written),
           NEW t \in Tables, File!ParseEntry(t)
    PROVE  FileOK(file, unread, rows, elf, job, written)'
<1>0. /\ job = t /\ File!More(t, Len(elf[t]))
      /\ file' = file /\ rows' = rows /\ written' = written
  BY DEF File!ParseEntry
<1>1. /\ file \in Seq(TextLine) /\ rows \in Seq(Row) /\ WrittenOK(file, written)
      /\ ParsedSoFar(file, rows, elf, t)
  BY <1>0 DEF FileOK
<1>2. /\ Counted(rows)
      /\ Uneven(file) \/ rows = Told(file)
      /\ t # "sht" => DeclaringIn(rows, "symt") # {}
  BY <1>1, Zenon DEF ParsedSoFar
<1>3. PICK done \in [Tables -> Nat] : elf = PartsOf(rows, done) /\ DoneOK(rows, t, done)
  BY <1>1 DEF ParsedSoFar
<1>4. /\ File!Size(t) = SizeIn(rows, t) /\ SizeIn(rows, t) \in Int
      /\ elf[t] = Filled(rows, t, done[t]) /\ Len(elf[t]) = done[t]
      /\ \A u \in Tables : elf[u] = Filled(rows, u, done[u])
      /\ t = "sht" \/ DeclaringIn(rows, t) # {} =>
             File!Offset(t) = OffsetIn(rows, t) /\ OffsetIn(rows, t) \in Int
      /\ \A c : File!Accepted(t, c, Len(elf.symt)) <=> File!Accepted(t, c, SizeIn(rows, "symt"))
      /\ done[t] = 0 \/ SizeIn(rows, t) < 0 \/ done[t] <= SizeIn(rows, t)
  BY <1>2, <1>3, AtTable
<1>5. PICK m, z : m = done[t] /\ z = SizeIn(rows, t)
  OBVIOUS
<1>6. m \in Nat /\ z \in Int /\ (m < z \/ z < 0)
  BY <1>0, <1>3, <1>4, <1>5 DEF File!More
<1>7. t = "sht" \/ DeclaringIn(rows, t) # {}
  <2>1. t # "sht" /\ DeclaringIn(rows, t) = {} => z = 0
    BY <1>5 DEF SizeIn
  <2>. QED
    BY <1>6, <2>1
<1>8. PICK line : line = OffsetIn(rows, t) + (m + 1) /\ File!Offset(t) + Len(elf[t]) + 1 = line
  BY <1>4, <1>5, <1>6, <1>7
<1>9. ColumnsIn(rows, t, m + 1) = File!Columns(rows[line])
  BY <1>8 DEF ColumnsIn
<1>. DEFINE Good == /\ line \in DOMAIN rows
                    /\ File!Accepted(t, File!Columns(rows[line]), SizeIn(rows, "symt"))
<1>10. \/ /\ Good /\ job' = t
          /\ elf' = [elf EXCEPT ![t] = Append(@, File!Entry(t, File!Columns(rows[line])))]
       \/ ~ Good /\ job' \in {"refused", "undefined"}
  BY <1>0, <1>4, <1>8, Zenon DEF File!ParseEntry
<1>11. CASE Good /\ job' = t /\ elf' = [elf EXCEPT ![t] = Append(@, File!Entry(t, File!Columns(rows[line])))]
  <2>1. PICK more : more = [done EXCEPT ![t] = m + 1]
    OBVIOUS
  <2>2. more \in [Tables -> Nat] /\ more[t] = m + 1 /\ \A u \in Tables \ {t} : more[u] = done[u]
    BY <1>3, <1>6, <2>1
  <2>3. elf' = PartsOf(rows, more)
    <3>1. elf = [u \in Tables |-> Filled(rows, u, done[u])]
      BY <1>3 DEF PartsOf
    <3>2. PICK x : x = Append(Filled(rows, t, m), File!Entry(t, File!Columns(rows[line])))
      OBVIOUS
    <3>3. elf' = [elf EXCEPT ![t] = x]
      BY <1>4, <1>5, <1>11, <3>2
    <3>4. elf' = [u \in Tables |-> IF u = t THEN x ELSE Filled(rows, u, done[u])]
      BY ONLY <3>1, <3>3
    <3>5. x = Filled(rows, t, m + 1)
      BY <1>6, <1>9, <3>2, FilledNext
    <3>6. \A u \in Tables : (IF u = t THEN x ELSE Filled(rows, u, done[u])) = Filled(rows, u, more[u])
      BY <2>2, <3>5
    <3>. QED
      BY <3>4, <3>6 DEF PartsOf
  <2>4. DoneOK(rows, t, more)
    <3>1. RowsFine(rows, t, m + 1)
      <4>1. RowsFine(rows, t, m)
        BY <1>3, <1>5 DEF DoneOK
      <4>2. ASSUME NEW j \in 1 .. m + 1
            PROVE  /\ OffsetIn(rows, t) + j \in DOMAIN rows
                   /\ File!Accepted(t, ColumnsIn(rows, t, j), SizeIn(rows, "symt"))
        <5>1. CASE j = m + 1
          BY <1>8, <1>9, <1>11, <5>1
        <5>2. CASE j # m + 1
          <6>1. j \in 1 .. m
            BY <1>6, <5>2
          <6>. QED
            BY <4>1, <6>1 DEF RowsFine
        <5>. QED
          BY <5>1, <5>2
      <4>. QED
        BY <4>2 DEF RowsFine
    <3>2. m + 1 = 0 \/ z < 0 \/ m + 1 <= z
      BY <1>6
    <3>3. \A u \in Tables : Turn[u] = Turn[t] => u = t
      BY DEF Turn, Tables
    <3>4. ~ (Turn[t] < Turn[t]) /\ ~ (Turn[t] > Turn[t])
      BY DEF Turn, Tables
    <3>5. ASSUME NEW u \in Tables
          PROVE  /\ RowsFine(rows, u, more[u])
                 /\ Turn[u] < Turn[t] => more[u] = SizeIn(rows, u)
                 /\ Turn[u] = Turn[t] => more[u] = 0 \/ SizeIn(rows, u) < 0 \/ more[u] <= SizeIn(rows, u)
                 /\ Turn[u] > Turn[t] => more[u] = 0
      <4>1. CASE u = t
        BY <1>5, <2>2, <3>1, <3>2, <3>4, <4>1
      <4>2. CASE u # t
        <5>1. more[u] = done[u] /\ Turn[u] # Turn[t]
          BY <2>2, <3>3, <4>2
        <5>. QED
          BY <1>3, <5>1, Zenon DEF DoneOK
      <4>. QED
        BY <4>1, <4>2
    <3>. QED
      BY <3>5, Zenon DEF DoneOK
  <2>5. ParsedSoFar(file, rows, elf', t)
    BY <1>2, <2>2, <2>3, <2>4, Zenon DEF ParsedSoFar
  <2>6. ParsedSoFar(file', rows', elf', job') /\ job' \in Tables
    BY <1>0, <1>11, <2>5, Zenon
  <2>7. job' \notin {"reading", "refused", "undefined"}
    BY <2>6 DEF Tables
  <2>. QED
    BY <1>0, <1>1, <2>6, <2>7 DEF FileOK
<1>12. CASE ~ Good /\ job' \in {"refused", "undefined"}
  <2>1. ~ SoundRows(rows)
    <3>1. SUFFICES ASSUME SoundRows(rows) PROVE FALSE
      OBVIOUS
    <3>2. z >= 0 /\ RowsFine(rows, t, z)
      BY <1>5, <3>1 DEF SoundRows
    <3>3. m + 1 \in 1 .. z
      BY <1>6, <3>2
    <3>. QED
      BY <1>8, <1>9, <1>12, <3>2, <3>3 DEF RowsFine
  <2>2. Uneven(file) \/ ~ SoundRows(Told(file))
    BY <1>2, <2>1
  <2>3. job' \notin Tables \cup {"reading", "parsed"}
    BY <1>12 DEF Tables
  <2>. QED
    BY <1>0, <1>1, <1>12, <2>2, <2>3 DEF FileOK
<1>. QED
  BY <1>10, <1>11, <1>12

LEMMA EndTableOK ==
    ASSUME FileOK(file, unread, rows, elf, job, written),
           NEW t \in Tables, File!EndTable(t)
    PROVE  FileOK(file, unread, rows, elf, job, written)'
<1>0. /\ job = t /\ ~ File!More(t, Len(elf[t]))
      /\ file' = file /\ rows' = rows /\ written' = written /\ elf' = elf
  BY DEF File!EndTable
<1>1. /\ file \in Seq(TextLine) /\ rows \in Seq(Row) /\ WrittenOK(file, written)
      /\ ParsedSoFar(file, rows, elf, t)
  BY <1>0 DEF FileOK
<1>2. /\ Counted(rows)
      /\ Uneven(file) \/ rows = Told(file)
      /\ t # "sht" => DeclaringIn(rows, "symt") # {}
  BY <1>1, Zenon DEF ParsedSoFar
<1>3. PICK done \in [Tables -> Nat] : elf = PartsOf(rows, done) /\ DoneOK(rows, t, done)
  BY <1>1 DEF ParsedSoFar
<1>4. done[t] = SizeIn(rows, t)
  <2>1. /\ File!Size(t) = SizeIn(rows, t) /\ SizeIn(rows, t) \in Int
        /\ Len(elf[t]) = done[t] /\ done[t] \in Nat
        /\ done[t] = 0 \/ SizeIn(rows, t) < 0 \/ done[t] <= SizeIn(rows, t)
    BY <1>2, <1>3, AtTable
  <2>. QED
    BY <1>0, <2>1 DEF File!More
<1>5. t = "sht" => (File!Headers("symt") = {} <=> DeclaringIn(rows, "symt") = {})
  <2>1. "symt" \in Tables /\ "symt" # "sht"
    BY DEF Tables
  <2>. QED
    BY <1>2, <1>3, <1>4, <2>1, SizesDeclared
<1>6. CASE t = "sht" /\ File!Headers("symt") = {}
  <2>1. job' = "refused"
    BY <1>6, Zenon DEF File!EndTable
  <2>2. Uneven(file) \/ ~ SoundRows(Told(file))
    BY <1>2, <1>5, <1>6 DEF SoundRows
  <2>3. job' \notin Tables \cup {"reading", "parsed"}
    BY <2>1 DEF Tables
  <2>. QED
    BY <1>0, <1>1, <2>1, <2>2, <2>3 DEF FileOK
<1>7. CASE ~ (t = "sht" /\ File!Headers("symt") = {})
  <2>1. /\ t = "sht" => job' = "symt"
        /\ t = "symt" => job' = "reltext"
        /\ t = "reltext" => job' = "reldata"
        /\ t = "reldata" => job' = "parsed"
    BY <1>7 DEF File!EndTable
  <2>2. job' \in Tables \cup {"parsed"} /\ job' # "sht"
    BY <2>1 DEF Tables
  <2>3. Turn[t] \in Nat /\ Turn[job'] = Turn[t] + 1 /\ \A u \in Tables : Turn[u] \in Nat /\ (Turn[u] = Turn[t] => u = t)
    BY <2>1 DEF Tables, Turn
  <2>4. DeclaringIn(rows, "symt") # {}
    BY <1>2, <1>5, <1>7
  <2>5. DoneOK(rows, job', done)
    <3>1. ASSUME NEW u \in Tables
          PROVE  /\ RowsFine(rows, u, done[u])
                 /\ Turn[u] < Turn[job'] => done[u] = SizeIn(rows, u)
                 /\ Turn[u] = Turn[job'] => done[u] = 0
                 /\ Turn[u] > Turn[job'] => done[u] = 0
      <4>1. /\ RowsFine(rows, u, done[u])
            /\ Turn[u] < Turn[t] => done[u] = SizeIn(rows, u)
            /\ Turn[u] > Turn[t] => done[u] = 0
        BY <1>3, Zenon DEF DoneOK
      <4>2. Turn[u] < Turn[job'] => Turn[u] < Turn[t] \/ u = t
        BY <2>3
      <4>3. Turn[u] >= Turn[job'] => Turn[u] > Turn[t]
        BY <2>3
      <4>. QED
        BY <1>4, <2>3, <4>1, <4>2, <4>3
    <3>. QED
      BY <3>1, Zenon DEF DoneOK
  <2>6. ParsedSoFar(file, rows, elf, job')
    BY <1>2, <1>3, <2>4, <2>5, Zenon DEF ParsedSoFar
  <2>7. ParsedSoFar(file', rows', elf', job')
    BY <1>0, <2>6, Zenon
  <2>8. job' \notin {"reading", "refused", "undefined"}
    BY <2>2 DEF Tables
  <2>. QED
    BY <1>0, <1>1, <2>2, <2>7, <2>8 DEF FileOK
<1>. QED
  BY <1>6, <1>7

\* What is known of a file that is parsed.
LEMMA AtEnd ==
    ASSUME ParsedSoFar(file, rows, elf, "parsed")
    PROVE  /\ elf = WholeOf(rows) /\ SoundRows(rows)
           /\ \A t \in Tables : SizeIn(rows, t) \in Nat /\ elf[t] = Filled(rows, t, SizeIn(rows, t))
<1>1. /\ Counted(rows) /\ DeclaringIn(rows, "symt") # {}
  BY DEF ParsedSoFar
<1>2. PICK done \in [Tables -> Nat] : elf = PartsOf(rows, done) /\ DoneOK(rows, "parsed", done)
  BY DEF ParsedSoFar
<1>3. \A t \in Tables : Turn[t] < Turn["parsed"]
  BY DEF Turn, Tables
<1>4. \A t \in Tables : done[t] = SizeIn(rows, t) /\ SizeIn(rows, t) \in Nat /\ RowsFine(rows, t, SizeIn(rows, t))
  BY <1>2, <1>3 DEF DoneOK
<1>5. done = [t \in Tables |-> SizeIn(rows, t)]
  BY <1>4
<1>6. SoundRows(rows)
  BY <1>1, <1>4 DEF SoundRows
<1>7. \A t \in Tables : elf[t] = Filled(rows, t, SizeIn(rows, t))
  BY <1>2, <1>4, PartsAre
<1>. QED
  BY <1>2, <1>4, <1>5, <1>6, <1>7 DEF WholeOf

LEMMA WriteAndReadAgainOK ==
    ASSUME FileOK(file, unread, rows, elf, job, written), File!WriteAndReadAgain
    PROVE  FileOK(file, unread, rows, elf, job, written)'
<1>0. /\ job = "parsed" /\ file' = [i \in DOMAIN rows |-> Append(rows[i], "\n")]
      /\ unread' = file' /\ written' = <<elf>> /\ rows' = <<>> /\ elf' = File!NoTables /\ job' = "reading"
  BY DEF File!WriteAndReadAgain
<1>1. rows \in Seq(Row) /\ ParsedSoFar(file, rows, elf, "parsed")
  BY <1>0 DEF FileOK
<1>2. elf = WholeOf(rows)
  BY <1>1, AtEnd
<1>3. PICK f : f = [i \in DOMAIN rows |-> Append(rows[i], "\n")] /\ file' = f /\ unread' = f
  BY <1>0
<1>4. f \in Seq(TextLine)
  BY <1>1, <1>3, WrittenLines
<1>5. ReadSoFar(f, f, rows', elf')
  <2>1. Len(f) \in Nat /\ 0 \in 0 .. Len(f) /\ Len(f) = Len(f) - 0 /\ \A j \in 1 .. Len(f) : f[j] = f[0 + j]
    BY <1>4
  <2>2. rows' = Heard(f, 0) /\ Len(rows') <= MaxRows
    <3>1. Len(rows') = 0
      BY <1>0
    <3>. QED
      BY <1>0, <1>4, <3>1, FilesLines, HeardNone
  <2>. QED
    BY <1>0, <1>4, <2>1, <2>2, Zenon DEF ReadSoFar
<1>6. WrittenOK(f, written')
  BY <1>0, <1>1, <1>2, <1>3 DEF WrittenOK
<1>7. rows' \in Seq(Row) /\ job' \notin Tables \cup {"parsed", "refused", "undefined"}
  BY <1>0 DEF Tables
<1>. QED
  BY <1>0, <1>3, <1>4, <1>5, <1>6, <1>7 DEF FileOK

LEMMA FileConsistent ==
    ASSUME FileOK(file, unread, rows, elf, job, written)
    PROVE  File!FileExact
<1>. SUFFICES ASSUME job \in {"parsed", "refused", "undefined"}, ~ Uneven(file)
              PROVE  /\ job = "parsed" =>
                            /\ File!Sound
                            /\ elf.sht = File!ToldHeaders
                            /\ \A t \in DOMAIN File!SectionOf :
                                   /\ Len(elf[t]) = File!Cardinality(File!ToldTable(t))
                                   /\ \A x \in File!ToldTable(t) : elf[t][x[1]] = File!Entry(t, x[2])
                            /\ written # File!None => written = <<elf>>
                     /\ job # "parsed" => ~ File!Sound
  BY UnevenIs DEF File!FileExact
<1>1. file \in Seq(TextLine) /\ Len(file) \in Nat /\ rows \in Seq(Row) /\ WrittenOK(file, written)
  BY DEF FileOK
<1>2. File!Told = Told(file) /\ Told(file) \in Seq(Row)
  <2>1. Len(file) \in 0 .. Len(file)
    BY <1>1
  <2>. QED
    BY <1>1, <2>1, ToldHeard, HeardIn DEF Told
<1>3. ASSUME job # "parsed" PROVE ~ File!Sound
  BY <1>2, <1>3, SoundIs DEF FileOK
<1>4. ASSUME job = "parsed"
      PROVE  /\ File!Sound
             /\ elf.sht = File!ToldHeaders
             /\ \A t \in DOMAIN File!SectionOf :
                    /\ Len(elf[t]) = File!Cardinality(File!ToldTable(t))
                    /\ \A x \in File!ToldTable(t) : elf[t][x[1]] = File!Entry(t, x[2])
             /\ written # File!None => written = <<elf>>
  <2>1. ParsedSoFar(file, rows, elf, "parsed")
    BY <1>4 DEF FileOK
  <2>2. rows = File!Told
    BY <1>2, <2>1 DEF ParsedSoFar
  <2>3. /\ elf = WholeOf(rows) /\ SoundRows(rows)
        /\ \A t \in Tables : SizeIn(rows, t) \in Nat /\ elf[t] = Filled(rows, t, SizeIn(rows, t))
    BY <2>1, AtEnd
  <2>4. File!Sound
    BY <1>1, <2>2, <2>3, SoundIs
  <2>5. elf.sht = File!ToldHeaders
    <3>1. elf.sht = elf["sht"] /\ "sht" \in Tables
      BY DEF Tables
    <3>2. File!ToldHeaders = HeadsOf(rows)
      BY <2>2 DEF File!ToldHeaders, HeadsOf
    <3>. QED
      BY <2>3, <3>1, <3>2, HeadsFilled
  <2>6. ASSUME NEW t \in DOMAIN File!SectionOf
        PROVE  /\ Len(elf[t]) = File!Cardinality(File!ToldTable(t))
               /\ \A x \in File!ToldTable(t) : elf[t][x[1]] = File!Entry(t, x[2])
    <3>1. t \in Tables \ {"sht"} /\ "sht" \in Tables
      BY TablesAre DEF Tables
    <3>2. Counted(rows) /\ RowsFine(rows, "sht", SizeIn(rows, "sht"))
      BY <2>3, <3>1 DEF SoundRows
    <3>3. PICK z : z = SizeIn(rows, t) /\ z \in Nat
      BY <2>3, <3>1
    <3>4. /\ File!ToldTable(t) = {<<j, ColumnsIn(rows, t, j)>> : j \in 1 .. z}
          /\ File!Cardinality(File!ToldTable(t)) = z
      <4>1. z >= 0
        BY <3>3
      <4>. QED
        BY <2>2, <3>1, <3>2, <3>3, <4>1, ToldTableIs
    <3>5. elf[t] = Filled(rows, t, z)
      BY <2>3, <3>1, <3>3
    <3>6. Len(elf[t]) = z
      BY <3>3, <3>5 DEF Filled
    <3>7. ASSUME NEW x \in File!ToldTable(t) PROVE elf[t][x[1]] = File!Entry(t, x[2])
      <4>1. PICK j \in 1 .. z : x = <<j, ColumnsIn(rows, t, j)>>
        BY <3>4, Zenon
      <4>2. x[1] = j /\ x[2] = ColumnsIn(rows, t, j)
        BY <4>1
      <4>3. Filled(rows, t, z)[j] = File!Entry(t, ColumnsIn(rows, t, j))
        BY Zenon DEF Filled
      <4>. QED
        BY <3>5, <4>2, <4>3, Zenon
    <3>. QED
      BY <3>4, <3>6, <3>7
  <2>7. ASSUME written # File!None PROVE written = <<elf>>
    <3>1. PICK R \in Seq(Row) : written = <<WholeOf(R)>> /\ file = [i \in DOMAIN R |-> Append(R[i], "\n")]
      BY <1>1, <2>7 DEF WrittenOK, File!None
    <3>2. /\ DOMAIN file = 1 .. Len(R) /\ Len(R) \in Nat
          /\ \A i \in 1 .. Len(R) : file[i] = Append(R[i], "\n") /\ File!Cut(file[i]) = R[i] /\ R[i] \in Row
      <4>1. Len(R) \in Nat /\ \A i \in 1 .. Len(R) : R[i] \in Row
        BY <3>1
      <4>. QED
        BY <3>1, <4>1, WrittenLines, Zenon
    <3>3. ASSUME NEW i \in DOMAIN file PROVE File!Said(file[i])
      <4>1. PICK nl, r : nl = "\n" /\ r = R[i]
        OBVIOUS
      <4>2. r \in Row /\ file[i] = Append(r, nl) /\ File!Cut(file[i]) = r
        BY <3>2, <3>3, <4>1, Zenon
      <4>3. r \in Seq(Tokens) /\ r # <<>>
        BY <4>2 DEF Row, TextLine
      <4>4. Append(r, nl)[Len(r) + 1] = nl /\ Len(r) + 1 \in DOMAIN Append(r, nl)
        BY ONLY <4>3
      <4>5. nl \notin File!Blank
        BY <4>1 DEF File!Blank
      <4>6. ~ UnevenLine(file[i])
        BY <3>3, Zenon DEF Uneven
      <4>. QED
        BY <4>2, <4>3, <4>4, <4>5, <4>6, Zenon DEF UnevenLine
    <3>4. Told(file) = R
      BY <3>1, <3>3, HeardWritten DEF Told
    <3>. QED
      BY <1>2, <2>2, <2>3, <3>1, <3>4
  <2>. QED
    BY <2>4, <2>5, <2>6, <2>7
<1>. QED
  BY <1>3, <1>4

LEMMA NextFileInv ==
    FileInv /\ [Next]_vars => FileInv'
<1>. SUFFICES ASSUME FileInv, [Next]_vars PROVE FileInv'
  OBVIOUS
<1>1. FileStep \/ UNCHANGED <<which, fileVars>>
  BY DEF Next, TreeCall, TreeIterates, ListStep, AreasStep, HashStep, LinkerStep, FileStep, TextStep,
         InstructionStep, NamesStep, SharingMain, SharingWork, vars, algorithms, machine
<1>2. CASE UNCHANGED <<which, fileVars>>
  BY <1>2 DEF fileVars, FileInv
<1>3. CASE FileStep
  <2>1. which = "file" /\ which' = which /\ File!Next /\ FileOK(file, unread, rows, elf, job, written)
    BY <1>3 DEF FileStep, FileInv
  <2>2. \/ File!ReadLine \/ File!CheckCount \/ File!WriteAndReadAgain
        \/ \E t \in Tables : File!ParseEntry(t) \/ File!EndTable(t)
    BY <2>1, TablesAre DEF File!Next
  <2>3. FileOK(file, unread, rows, elf, job, written)'
    BY <2>1, <2>2, ReadLineOK, CheckCountOK, WriteAndReadAgainOK, ParseEntryOK, EndTableOK
  <2>. QED
    BY <2>3 DEF FileInv
<1>. QED
  BY <1>1, <1>2, <1>3

\* A file is parsed into the tables that it declares, or refused, or read
\* behind its end, because its count, a header, a row or an index is wrong
\* (elf.c:216, 309); written out, it is parsed into the same tables again.
THEOREM FileParsed == Spec => []FileExact
<1>1. Init => FileInv
  BY InitFile DEF Init, FileInv
<1>2. FileInv => FileExact
  BY FileConsistent DEF FileInv, FileExact
<1>. QED
  BY <1>1, <1>2, NextFileInv, PTL DEF Spec
=============================================================================
