------------------------ MODULE CopyOnWrite_proofs ------------------------
(***************************************************************************)
(* The page tables and page_map agree in every reachable state, for every  *)
(* number of processes, pages, frames and slots, and CopyOnWrite           *)
(* implements PrivateMemory.                                               *)
(***************************************************************************)
EXTENDS CopyOnWrite, FiniteSetTheorems, TLAPS

-----------------------------------------------------------------------------
(* A frame's descriptor, and how map_pte4 and copy_on_write change it.     *)

\* What IInv says of a single descriptor.
WellFormed(d) ==
    /\ d \in Descriptor
    /\ \A i \in Slot : d.mapping[i] # NULL <=> i <= d.counter
    /\ \A i, j \in Slot :
          d.mapping[i] = d.mapping[j] /\ d.mapping[i] # NULL => i = j
    /\ d.allocated <=> d.counter > 0
    /\ d.counter > 1 => d.saddr

\* The entries that the slots of a descriptor name.
Names(d) == {d.mapping[i] : i \in Slot} \ {NULL}

\* map_pte4 finds the slot after the ones in use.
LEMMA FirstNullIsNext ==
    ASSUME NEW d, WellFormed(d), d.counter < MaxMap
    PROVE  /\ d.counter + 1 \in Slot
           /\ FirstNull(d.mapping) = d.counter + 1
<1>1. d.counter + 1 \in Slot
  BY SizeAssumption DEF WellFormed, Descriptor, Slot
<1>2. /\ d.mapping[d.counter + 1] = NULL
      /\ \A j \in Slot : j < d.counter + 1 => d.mapping[j] # NULL
  BY <1>1, SizeAssumption DEF WellFormed, Descriptor, Slot
<1>3. ASSUME NEW i \in Slot, d.mapping[i] = NULL,
             \A j \in Slot : j < i => d.mapping[j] # NULL
      PROVE  i = d.counter + 1
  BY <1>1, <1>2, <1>3, SizeAssumption DEF WellFormed, Descriptor, Slot
<1>. QED
  BY <1>1, <1>2, <1>3 DEF FirstNull

\* map_pte4 keeps a descriptor well formed and adds one name to it, if it
\* has a slot left and the entry is not mapped to this frame already.
LEMMA MapFrameAdds ==
    ASSUME NEW d, WellFormed(d), d.counter < MaxMap,
           NEW id \in PteId, id \notin Names(d),
           NEW w \in Word, d.counter > 0 => w.readonly
    PROVE  /\ WellFormed(MapFrame(d, id, w))
           /\ MapFrame(d, id, w).counter = d.counter + 1
           /\ Names(MapFrame(d, id, w)) = Names(d) \cup {id}
<1>. DEFINE e == MapFrame(d, id, w)
            n == d.counter + 1
<1>1. n \in Slot /\ FirstNull(d.mapping) = n
  BY FirstNullIsNext
<1>2. /\ e.allocated = TRUE /\ e.saddr = w.readonly /\ e.counter = n
      /\ e.mapping = [d.mapping EXCEPT ![n] = id]
      /\ e \in Descriptor
  <2>1. e = [d EXCEPT !.allocated = TRUE, !.saddr = w.readonly,
                      !.mapping = [d.mapping EXCEPT ![n] = id], !.counter = n]
    BY <1>1 DEF MapFrame
  <2>2. n \in 0 .. MaxMap
    BY SizeAssumption DEF WellFormed, Descriptor
  <2>3. [d.mapping EXCEPT ![n] = id] \in [Slot -> PteId \cup {NULL}]
    BY <1>1 DEF WellFormed, Descriptor
  <2>. QED
    BY <2>1, <2>2, <2>3 DEF WellFormed, Descriptor, Word
<1>3. \A i \in Slot : e.mapping[i] = IF i = n THEN id ELSE d.mapping[i]
  BY <1>1, <1>2 DEF WellFormed, Descriptor
<1>4. id # NULL /\ \A i \in Slot : d.mapping[i] # id
  BY SizeAssumption DEF Names
<1>5. d.counter \in 0 .. MaxMap
  BY DEF WellFormed, Descriptor
<1>6. \A i \in Slot : e.mapping[i] # NULL <=> i <= e.counter
  BY <1>1, <1>2, <1>3, <1>4, <1>5, SizeAssumption DEF WellFormed, Slot
<1>7. \A i, j \in Slot :
         e.mapping[i] = e.mapping[j] /\ e.mapping[i] # NULL => i = j
  BY <1>3, <1>4 DEF WellFormed
<1>8. WellFormed(e)
  BY <1>2, <1>5, <1>6, <1>7, SizeAssumption DEF WellFormed
<1>9. Names(e) = Names(d) \cup {id}
  <2>1. d.mapping[n] = NULL
    BY <1>1, <1>5 DEF WellFormed, Slot
  <2>. QED
    BY <1>1, <1>3, <1>4, <2>1 DEF Names
<1>. QED
  BY <1>2, <1>8, <1>9

\* Without closes the gap that the slot of id leaves.
LEMMA WithoutShifts ==
    ASSUME NEW m \in [Slot -> PteId \cup {NULL}], NEW k \in Slot, m[k] # NULL,
           \A i, j \in Slot : m[i] = m[j] /\ m[i] # NULL => i = j
    PROVE  /\ Without(m, m[k]) \in [Slot -> PteId \cup {NULL}]
           /\ \A i \in Slot :
                 /\ i < k => Without(m, m[k])[i] = m[i]
                 /\ i >= k /\ i < MaxMap => i + 1 \in Slot /\ Without(m, m[k])[i] = m[i + 1]
                 /\ i >= k /\ i = MaxMap => Without(m, m[k])[i] = NULL
<1>1. MaxMap \in Nat /\ \A i \in Slot : i < MaxMap => i + 1 \in Slot
  BY SizeAssumption DEF Slot
<1>2. (CHOOSE i \in Slot : m[i] = m[k]) = k
  OBVIOUS
<1>3. Without(m, m[k]) = [i \in Slot |-> IF i < k THEN m[i]
                                         ELSE IF i < MaxMap THEN m[i + 1] ELSE NULL]
  BY <1>2 DEF Without
<1>4. Without(m, m[k]) \in [Slot -> PteId \cup {NULL}]
  BY <1>1, <1>3
<1>5. ASSUME NEW i \in Slot
      PROVE  /\ i < k => Without(m, m[k])[i] = m[i]
             /\ i >= k /\ i < MaxMap => i + 1 \in Slot /\ Without(m, m[k])[i] = m[i + 1]
             /\ i >= k /\ i = MaxMap => Without(m, m[k])[i] = NULL
  BY <1>1, <1>3 DEF Slot
<1>. QED
  BY <1>4, <1>5

\* copy_on_write keeps the descriptor of a shared frame well formed and
\* takes the faulting entry, and nothing else, out of its slots.
LEMMA RemapFrameRemoves ==
    ASSUME NEW d, WellFormed(d), d.counter > 1, NEW id \in Names(d)
    PROVE  /\ WellFormed(RemapFrame(d, id))
           /\ RemapFrame(d, id).counter = d.counter - 1
           /\ Names(RemapFrame(d, id)) = Names(d) \ {id}
<1>1. PICK k \in Slot : d.mapping[k] = id /\ id # NULL
  BY DEF Names
<1>2. PICK m \in [Slot -> PteId \cup {NULL}] : m = d.mapping
  BY DEF WellFormed, Descriptor
<1>3. PICK r : r = Without(m, id)
  OBVIOUS
<1>4. PICK n \in 0 .. MaxMap : n = d.counter
  BY DEF WellFormed, Descriptor
<1>5. PICK e : e = RemapFrame(d, id)
  OBVIOUS
<1>6. e.mapping = r /\ e.counter = n - 1 /\ e.saddr = d.saddr /\ e.allocated = d.allocated
  BY <1>2, <1>3, <1>4, <1>5 DEF RemapFrame, WellFormed, Descriptor
<1>7. /\ m[k] = id /\ n > 1 /\ MaxMap \in Nat
      /\ \A i \in Slot : m[i] # NULL <=> i <= n
      /\ \A i, j \in Slot : m[i] = m[j] /\ m[i] # NULL => i = j
  BY <1>1, <1>2, <1>4, SizeAssumption DEF WellFormed
<1>8. /\ r \in [Slot -> PteId \cup {NULL}]
      /\ \A i \in Slot :
            /\ i < k => r[i] = m[i]
            /\ i >= k /\ i < MaxMap => i + 1 \in Slot /\ r[i] = m[i + 1]
            /\ i >= k /\ i = MaxMap => r[i] = NULL
  BY <1>1, <1>3, <1>7, WithoutShifts
<1>9. \A i \in Slot : r[i] # NULL <=> i <= n - 1
  BY <1>1, <1>7, <1>8 DEF Slot
<1>10. \A i, j \in Slot : r[i] = r[j] /\ r[i] # NULL => i = j
  BY <1>1, <1>7, <1>8 DEF Slot
<1>11. WellFormed(e)
  <2>1. e = [d EXCEPT !.mapping = r, !.counter = n - 1]
    BY <1>2, <1>3, <1>4, <1>5 DEF RemapFrame
  <2>2. n - 1 \in 0 .. MaxMap
    BY <1>7
  <2>3. e \in Descriptor
    BY <1>8, <2>1, <2>2 DEF WellFormed, Descriptor
  <2>. QED
    BY <1>4, <1>6, <1>7, <1>9, <1>10, <2>3 DEF WellFormed
<1>12. \A x : (\E i \in Slot : r[i] = x /\ x # NULL)
              <=> (\E i \in Slot : m[i] = x /\ x # NULL) /\ x # id
  <2>1. ASSUME NEW x, NEW i \in Slot, r[i] = x, x # NULL
        PROVE  (\E j \in Slot : m[j] = x) /\ x # id
    <3>1. CASE i < k
      BY <1>1, <1>7, <1>8, <2>1, <3>1 DEF Slot
    <3>2. CASE i >= k
      BY <1>1, <1>7, <1>8, <2>1, <3>2 DEF Slot
    <3>. QED
      BY <3>1, <3>2 DEF Slot
  <2>2. ASSUME NEW x, NEW i \in Slot, m[i] = x, x # NULL, x # id
        PROVE  \E j \in Slot : r[j] = x
    <3>1. CASE i < k
      BY <1>8, <2>2, <3>1
    <3>2. CASE i > k
      <4>1. i - 1 \in Slot /\ i - 1 >= k /\ i - 1 < MaxMap /\ (i - 1) + 1 = i
        BY <1>7, <3>2 DEF Slot
      <4>2. r[i - 1] = m[i]
        BY <1>8, <4>1
      <4>. QED
        BY <2>2, <4>1, <4>2
    <3>. QED
      BY <1>1, <1>7, <2>2, <3>1, <3>2 DEF Slot
  <2>. QED
    BY <2>1, <2>2
<1>. QED
  BY <1>2, <1>4, <1>5, <1>6, <1>11, <1>12 DEF Names

\* A frame has one sharer exactly if its counter is one.
LEMMA NamesOfOne ==
    ASSUME NEW d, WellFormed(d), NEW x \in Names(d)
    PROVE  /\ d.counter > 0
           /\ d.counter = 1 <=> Names(d) = {x}
<1>1. MaxMap \in Nat \ {0} /\ d.counter \in 0 .. MaxMap
  BY SizeAssumption DEF WellFormed, Descriptor
<1>2. PICK k \in Slot : d.mapping[k] = x /\ x # NULL
  BY DEF Names
<1>3. d.counter > 0 /\ k <= d.counter
  BY <1>1, <1>2 DEF WellFormed, Slot
<1>4. CASE d.counter = 1
  <2>1. \A i \in Slot : d.mapping[i] # NULL => i = k
    BY <1>2, <1>3, <1>4 DEF WellFormed, Slot
  <2>. QED
    BY <1>2, <1>3, <1>4, <2>1 DEF Names
<1>5. CASE d.counter > 1
  <2>1. PICK j \in Slot : j # k /\ d.mapping[j] # NULL
    <3>1. 1 \in Slot /\ 2 \in Slot /\ d.mapping[1] # NULL /\ d.mapping[2] # NULL
      BY <1>1, <1>5 DEF WellFormed, Slot
    <3>. QED
      BY <3>1
  <2>2. d.mapping[j] \in Names(d) /\ d.mapping[j] # x
    BY <1>2, <2>1 DEF Names, WellFormed
  <2>3. Names(d) # {x} /\ d.counter # 1
    BY <1>1, <1>5, <2>2
  <2>. QED
    BY <1>3, <2>3
<1>. QED
  BY <1>1, <1>3, <1>4, <1>5

\* A free frame is well formed and nobody's.
LEMMA FreeFrameNames == WellFormed(FreeFrame) /\ Names(FreeFrame) = {}
<1>1. MaxMap \in Nat
  BY SizeAssumption
<1>2. /\ FreeFrame.allocated = FALSE /\ FreeFrame.saddr = FALSE /\ FreeFrame.counter = 0
      /\ \A i \in Slot : FreeFrame.mapping[i] = NULL
      /\ FreeFrame \in Descriptor
  BY <1>1 DEF FreeFrame, Descriptor
<1>. QED
  BY <1>1, <1>2 DEF WellFormed, Names, Slot

-----------------------------------------------------------------------------
(* The inductive invariant, frame by frame.                                *)

\* IInv in terms of WellFormed and Names.
FramesOK ==
    /\ procs \subseteq Proc
    /\ pte \in [PteId -> Word]
    /\ pageMap \in [Frame -> Descriptor]
    /\ pm \in [Frame -> Value]
    /\ halt \in Assertion
    /\ \A f \in Frame : WellFormed(pageMap[f])
    /\ \A f \in Frame, x \in PteId :
          x \in Names(pageMap[f]) <=> pte[x].present /\ pte[x].ppn = f
    /\ AreasMapped
    /\ OnePagePerProcess
    /\ ReadonlyIffShared
    /\ OnlyResourcesRunOut

\* The invariant of the runs, frame by frame, is the one the proofs use.
LEMMA FramesOKIsIInv == IInv <=> FramesOK
<1>1. ASSUME IInv PROVE FramesOK
  <2>1. \A f \in Frame : WellFormed(pageMap[f])
    BY <1>1 DEF IInv, WellFormed, TypeOK, SlotsInUse, SlotsDistinct,
                AllocatedIffMapped, SavedReadonly
  <2>. QED
    BY <1>1, <2>1 DEF IInv, FramesOK, TypeOK, ReverseMapExact, Sharers, Names
<1>2. ASSUME FramesOK PROVE IInv
  <2>1. SlotsInUse /\ SlotsDistinct /\ AllocatedIffMapped /\ SavedReadonly
    BY <1>2 DEF FramesOK, WellFormed, SlotsInUse, SlotsDistinct,
                AllocatedIffMapped, SavedReadonly
  <2>. QED
    BY <1>2, <2>1 DEF IInv, FramesOK, TypeOK, ReverseMapExact, Sharers, Names
<1>. QED
  BY <1>1, <1>2

\* The loader maps page v of the areas to frame v.
LEMMA InitFramesOK == Init => FramesOK
<1>. SUFFICES ASSUME Init PROVE FramesOK
  OBVIOUS
<1>1. /\ FirstProc \in Proc /\ NULL \notin PteId /\ MaxMap \in Nat \ {0}
      /\ Writable \subseteq Area /\ Area \subseteq Frame /\ Area \subseteq Page
      /\ 0 \in Frame
  BY SizeAssumption DEF Area, Frame, Page
<1>2. \A f \in Area : <<FirstProc, f>> \in PteId
  BY <1>1 DEF PteId
<1>3. pte \in [PteId -> Word]
  <2>1. ASSUME NEW x \in PteId
        PROVE  (IF x[1] = FirstProc /\ x[2] \in Area
                THEN [present |-> TRUE, readonly |-> x[2] \notin Writable, ppn |-> x[2]]
                ELSE ZeroWord) \in Word
    <3>1. CASE x[1] = FirstProc /\ x[2] \in Area
      BY <1>1, <3>1 DEF Word
    <3>2. CASE ~(x[1] = FirstProc /\ x[2] \in Area)
      BY <1>1, <3>2 DEF Word, ZeroWord
    <3>. QED
      BY <3>1, <3>2
  <2>. QED
    BY <2>1 DEF Init
<1>4. ASSUME NEW q \in Proc, NEW v \in Page
      PROVE  /\ pte[<<q, v>>].present <=> q = FirstProc /\ v \in Area
             /\ q = FirstProc /\ v \in Area =>
                   /\ pte[<<q, v>>].ppn = v
                   /\ pte[<<q, v>>].readonly <=> v \notin Writable
  <2>1. <<q, v>> \in PteId
    BY DEF PteId
  <2>2. CASE q = FirstProc /\ v \in Area
    <3>1. pte[<<q, v>>] = [present |-> TRUE, readonly |-> v \notin Writable, ppn |-> v]
      BY <2>1, <2>2 DEF Init
    <3>2. pte[<<q, v>>].present /\ pte[<<q, v>>].ppn = v
      BY <3>1
    <3>3. pte[<<q, v>>].readonly <=> v \notin Writable
      <4>1. PICK b \in BOOLEAN : b <=> v \notin Writable
        OBVIOUS
      <4>2. b = (v \notin Writable)
        BY <4>1, Zenon
      <4>3. pte[<<q, v>>] = [present |-> TRUE, readonly |-> b, ppn |-> v]
        BY <3>1, <4>2, Zenon
      <4>4. pte[<<q, v>>].readonly = b
        BY <4>3
      <4>. QED
        BY <4>1, <4>4
    <3>. QED
      BY <2>2, <3>2, <3>3, Zenon
  <2>3. CASE ~(q = FirstProc /\ v \in Area)
    <3>1. pte[<<q, v>>] = ZeroWord
      BY <2>1, <2>3 DEF Init
    <3>. QED
      BY <2>3, <3>1 DEF ZeroWord
  <2>. QED
    BY <2>2, <2>3
<1>5. \A f \in Frame :
         /\ WellFormed(pageMap[f])
         /\ Names(pageMap[f]) = IF f \in Area THEN {<<FirstProc, f>>} ELSE {}
         /\ f \in Area => pageMap[f].counter = 1
  <2>1. ASSUME NEW f \in Area
        PROVE  /\ WellFormed(pageMap[f])
               /\ Names(pageMap[f]) = {<<FirstProc, f>>}
               /\ pageMap[f].counter = 1
    <3>1. pageMap[f] = MapFrame(FreeFrame, <<FirstProc, f>>, pte[<<FirstProc, f>>])
      BY <1>1 DEF Init
    <3>2. FreeFrame.counter = 0
      BY DEF FreeFrame
    <3>. QED
      BY <1>1, <1>2, <1>3, <3>1, <3>2, FreeFrameNames, MapFrameAdds
  <2>2. ASSUME NEW f \in Frame, f \notin Area
        PROVE  WellFormed(pageMap[f]) /\ Names(pageMap[f]) = {}
    BY <2>2, FreeFrameNames DEF Init
  <2>. QED
    BY <2>1, <2>2
<1>6. pageMap \in [Frame -> Descriptor]
  BY <1>5 DEF Init, WellFormed
<1>7. ASSUME NEW f \in Frame, NEW q \in Proc, NEW v \in Page
      PROVE  <<q, v>> \in Names(pageMap[f])
             <=> pte[<<q, v>>].present /\ pte[<<q, v>>].ppn = f
  <2>1. <<q, v>> \in Names(pageMap[f]) <=> f \in Area /\ q = FirstProc /\ v = f
    <3>1. CASE f \in Area
      <4>1. Names(pageMap[f]) = {<<FirstProc, f>>}
        BY <1>5, <3>1
      <4>. QED
        BY <3>1, <4>1
    <3>2. CASE f \notin Area
      <4>1. Names(pageMap[f]) = {}
        BY <1>5, <3>2
      <4>. QED
        BY <3>2, <4>1
    <3>. QED
      BY <3>1, <3>2
  <2>. QED
    BY <1>4, <2>1
<1>8. AreasMapped
  BY <1>1, <1>4 DEF AreasMapped, Entry, Init
<1>9. OnePagePerProcess
  <2>1. ASSUME NEW q \in Proc, NEW v \in Page, NEW r \in Proc, NEW w \in Page,
               pte[<<q, v>>].present, pte[<<r, w>>].present,
               pte[<<q, v>>].ppn = pte[<<r, w>>].ppn
        PROVE  v = w
    BY <1>4, <2>1
  <2>. QED
    BY <2>1 DEF OnePagePerProcess, PteId
<1>10. ReadonlyIffShared
  <2>1. ASSUME NEW q \in Proc, NEW v \in Page, pte[<<q, v>>].present
        PROVE  pte[<<q, v>>].readonly
               <=> v \notin Writable \/ pageMap[pte[<<q, v>>].ppn].counter > 1
    <3>1. v \in Frame /\ v \in Area /\ pte[<<q, v>>].ppn = v
          /\ (pte[<<q, v>>].readonly <=> v \notin Writable)
      BY <1>1, <1>4, <2>1
    <3>2. pageMap[v].counter = 1
      BY <1>5, <3>1
    <3>3. ~(pageMap[v].counter > 1)
      BY <3>2
    <3>. QED
      BY <3>1, <3>3
  <2>. QED
    BY <2>1 DEF ReadonlyIffShared, PteId
<1>11. \A f \in Frame, x \in PteId :
          x \in Names(pageMap[f]) <=> pte[x].present /\ pte[x].ppn = f
  BY <1>7 DEF PteId
<1>. QED
  BY <1>1, <1>3, <1>5, <1>6, <1>11, <1>8, <1>9, <1>10
  DEF Init, FramesOK, OnlyResourcesRunOut, Assertion

-----------------------------------------------------------------------------
(* Copy on write.                                                          *)

\* What a copy on write of the entry id, from frame old to frame new, does
\* to the entries and the descriptors.
Copied(id, old, new) ==
    /\ id \in PteId /\ old \in Frame /\ new \in Frame /\ old # new
    /\ pte[id].present /\ pte[id].ppn = old
    /\ pte' \in [PteId -> Word]
    /\ pte'[id].present /\ ~pte'[id].readonly /\ pte'[id].ppn = new
    /\ \A x \in PteId \ {id} :
          IF pte[x].present /\ pte[x].ppn = old
          THEN /\ pte'[x].present /\ pte'[x].ppn = old
               /\ pte'[x].readonly <=> pageMap'[old].counter > 1
          ELSE pte'[x] = pte[x]
    /\ pageMap' \in [Frame -> Descriptor]
    /\ WellFormed(pageMap'[old])
    /\ Names(pageMap'[old]) = Names(pageMap[old]) \ {id}
    /\ WellFormed(pageMap'[new])
    /\ Names(pageMap'[new]) = {id} /\ Names(pageMap[new]) = {}
    /\ pageMap'[new].counter = 1
    /\ \A f \in Frame \ {old, new} : pageMap'[f] = pageMap[f]
    /\ pm' = [pm EXCEPT ![new] = pm[old]]
    /\ UNCHANGED <<procs, halt>>

\* copy_on_write of a shared page moves one entry to a frame of its own.
LEMMA CowCopies ==
    ASSUME FramesOK, NEW p \in Proc, NEW v \in Page, Cow(p, v)
    PROVE  v \in Writable /\ \E old, new \in Frame : Copied(<<p, v>>, old, new)
<1>. PICK id \in PteId : id = <<p, v>>
  BY DEF PteId
<1>1. /\ procs \subseteq Proc
      /\ pte \in [PteId -> Word]
      /\ pageMap \in [Frame -> Descriptor]
      /\ \A f \in Frame : WellFormed(pageMap[f])
      /\ \A f \in Frame, x \in PteId :
            x \in Names(pageMap[f]) <=> pte[x].present /\ pte[x].ppn = f
  BY DEF FramesOK
<1>2. PICK old \in Frame : old = pte[id].ppn
  BY <1>1 DEF Word
<1>3. /\ v \in Writable
      /\ pte[id].present
      /\ CowFailure(id) = "none"
  BY DEF Cow, WriteFaults, Entry
<1>4. PICK new \in Frame :
         /\ FirstFree(new)
         /\ pte' = [x \in PteId |->
                       IF x = id THEN PrivateWord(id, new)
                       ELSE IF x \in Remaining(id) THEN RemainingWord(id, x)
                       ELSE pte[x]]
         /\ pageMap' = [pageMap EXCEPT
               ![old] = RemapFrame(@, id),
               ![new] = MapFrame(@, id, UnmapWord(pte[id], pageMap[old]))]
         /\ pm' = [pm EXCEPT ![new] = pm[old]]
         /\ UNCHANGED <<procs, halt>>
  BY <1>2 DEF Cow
<1>5. pageMap[old].counter > 1 /\ pageMap[old].saddr
  <2>1. pageMap[old].counter \in Int
    BY <1>1 DEF Descriptor
  <2>2. CASE pageMap[old].counter <= 1
    <3>1. CowFailure(id) = "not_shared"
      BY <1>2, <2>2 DEF CowFailure
    <3>. QED
      BY <1>3, <3>1
  <2>. QED
    BY <1>1, <2>1, <2>2 DEF WellFormed
<1>6. id \in Names(pageMap[old])
  BY <1>1, <1>2, <1>3
<1>7. /\ pageMap[new].allocated = FALSE /\ pageMap[new].counter = 0
      /\ old # new /\ Names(pageMap[new]) = {}
  <2>1. ~pageMap[new].allocated /\ pageMap[new].counter \in 0 .. MaxMap
        /\ pageMap[new].allocated \in BOOLEAN /\ MaxMap \in Nat
    BY <1>1, <1>4, SizeAssumption DEF FirstFree, Descriptor
  <2>2. pageMap[new].counter = 0
    BY <1>1, <2>1 DEF WellFormed
  <2>3. old # new
    BY <1>5, <2>2
  <2>4. \A i \in Slot : pageMap[new].mapping[i] = NULL
    BY <1>1, <2>1, <2>2 DEF WellFormed, Slot
  <2>. QED
    BY <2>1, <2>2, <2>3, <2>4 DEF Names
<1>8. /\ WellFormed(pageMap'[old])
      /\ pageMap'[old].counter = pageMap[old].counter - 1
      /\ Names(pageMap'[old]) = Names(pageMap[old]) \ {id}
  <2>1. pageMap'[old] = RemapFrame(pageMap[old], id)
    BY <1>1, <1>4, <1>7
  <2>. QED
    BY <1>1, <1>5, <1>6, <2>1, RemapFrameRemoves
<1>9. /\ WellFormed(pageMap'[new])
      /\ pageMap'[new].counter = 1
      /\ Names(pageMap'[new]) = {id}
  <2>1. PICK w : w = UnmapWord(pte[id], pageMap[old])
    OBVIOUS
  <2>2. w \in Word
    <3>1. pte[id] \in Word /\ pageMap[old].saddr \in BOOLEAN
      BY <1>1 DEF Descriptor
    <3>. QED
      BY <2>1, <3>1 DEF UnmapWord, Word
  <2>3. pageMap'[new] = MapFrame(pageMap[new], id, w)
    BY <1>1, <1>4, <1>7, <2>1
  <2>4. 0 < MaxMap /\ ~(0 > 0)
    BY SizeAssumption
  <2>. QED
    BY <1>1, <1>7, <2>2, <2>3, <2>4, MapFrameAdds
<1>10. \A f \in Frame \ {old, new} : pageMap'[f] = pageMap[f]
  BY <1>1, <1>4
<1>11. pageMap' \in [Frame -> Descriptor]
  <2>1. \A f \in Frame : pageMap'[f] \in Descriptor
    BY <1>1, <1>8, <1>9, <1>10 DEF WellFormed
  <2>. QED
    BY <1>1, <1>4, <2>1
<1>12. /\ pte'[id] \in Word
       /\ pte'[id].present /\ ~pte'[id].readonly /\ pte'[id].ppn = new
  <2>1. pte'[id] = PrivateWord(id, new)
    BY <1>4
  <2>2. pte[id] \in Word /\ pageMap[old].saddr \in BOOLEAN
    BY <1>1 DEF Descriptor
  <2>. QED
    BY <1>2, <2>1, <2>2 DEF PrivateWord, MapWord, UnmapWord, Word
<1>13. Remaining(id) = Names(pageMap'[old])
  BY <1>2, <1>8 DEF Remaining, Sharers, Names
<1>14. ASSUME NEW x \in PteId, x # id, pte[x].present, pte[x].ppn = old
       PROVE  /\ pte'[x] \in Word
              /\ pte'[x].present /\ pte'[x].ppn = old
              /\ pte'[x].readonly <=> pageMap'[old].counter > 1
  <2>1. x \in Names(pageMap'[old])
    BY <1>1, <1>8, <1>14
  <2>2. pte'[x] = RemainingWord(id, x)
    BY <1>4, <1>13, <1>14, <2>1
  <2>3. PICK b \in BOOLEAN : b <=> Names(pageMap'[old]) # {x}
    OBVIOUS
  <2>4. pte[x] \in Word /\ pageMap[old].saddr = TRUE
    BY <1>1, <1>5 DEF Descriptor
  <2>5. pte'[x] = [present |-> TRUE, readonly |-> b, ppn |-> old]
    <3>1. PICK w \in Word : w = MapWord(UnmapWord(pte[x], pageMap[old]), old)
      BY <2>4 DEF MapWord, UnmapWord, Word
    <3>2. w.present = TRUE /\ w.readonly = TRUE /\ w.ppn = old
      BY <2>4, <3>1 DEF MapWord, UnmapWord, Word
    <3>3. RemainingWord(id, x) = [w EXCEPT !.readonly = @ /\ Names(pageMap'[old]) # {x}]
      BY <1>2, <1>13, <3>1 DEF RemainingWord
    <3>4. (w.readonly /\ Names(pageMap'[old]) # {x}) = b
      BY <2>3, <3>2, Zenon
    <3>5. RemainingWord(id, x) = [w EXCEPT !.readonly = b]
      BY <3>3, <3>4, Zenon
    <3>. QED
      BY <2>2, <3>1, <3>2, <3>5 DEF Word
  <2>6. b <=> pageMap'[old].counter > 1
    <3>1. /\ pageMap'[old].counter > 0
          /\ pageMap'[old].counter = 1 <=> Names(pageMap'[old]) = {x}
      BY <1>8, <2>1, NamesOfOne
    <3>2. pageMap'[old].counter \in 0 .. MaxMap /\ MaxMap \in Nat
      BY <1>11, SizeAssumption DEF Descriptor
    <3>. QED
      BY <2>3, <3>1, <3>2
  <2>. QED
    BY <2>5, <2>6 DEF Word
<1>15. ASSUME NEW x \in PteId, x # id, ~(pte[x].present /\ pte[x].ppn = old)
       PROVE  pte'[x] = pte[x]
  <2>1. x \notin Names(pageMap'[old])
    BY <1>1, <1>8, <1>15
  <2>. QED
    BY <1>4, <1>13, <1>15, <2>1
<1>16. pte' \in [PteId -> Word]
  <2>1. \A x \in PteId : pte'[x] \in Word
    BY <1>1, <1>12, <1>14, <1>15
  <2>. QED
    BY <1>4, <2>1
<1>17. Copied(id, old, new)
  BY <1>2, <1>3, <1>4, <1>7, <1>8, <1>9, <1>10, <1>11, <1>12, <1>14, <1>15, <1>16
  DEF Copied
<1>. QED
  BY <1>3, <1>17

\* Copy on write preserves the inductive invariant.
LEMMA CowPreserves ==
    ASSUME FramesOK, NEW p \in Proc, NEW v \in Page, Cow(p, v)
    PROVE  FramesOK'
<1>. PICK id \in PteId : id = <<p, v>>
  BY DEF PteId
<1>1. PICK old \in Frame, new \in Frame : Copied(id, old, new)
  BY CowCopies
<1>2. /\ pte \in [PteId -> Word]
      /\ pm \in [Frame -> Value]
      /\ \A f \in Frame : WellFormed(pageMap[f])
      /\ \A f \in Frame, x \in PteId :
            x \in Names(pageMap[f]) <=> pte[x].present /\ pte[x].ppn = f
  BY DEF FramesOK
<1>3. v \in Writable /\ id[2] = v
  BY CowCopies
\* Everything stays present; only id moves to another frame.
<1>4. ASSUME NEW x \in PteId
      PROVE  /\ pte'[x].present <=> pte[x].present
             /\ x = id => pte'[x].ppn = new
             /\ x # id /\ pte[x].present => pte'[x].ppn = pte[x].ppn
  BY <1>1 DEF Copied
<1>5. \A x \in PteId : pte[x].present => pte[x].ppn # new
  BY <1>1, <1>2 DEF Copied
<1>6. \A f \in Frame : WellFormed(pageMap'[f])
  BY <1>1, <1>2 DEF Copied
<1>7. ASSUME NEW f \in Frame, NEW x \in PteId
      PROVE  x \in Names(pageMap'[f]) <=> pte'[x].present /\ pte'[x].ppn = f
  <2>1. CASE f = old
    BY <1>1, <1>2, <1>4, <2>1 DEF Copied
  <2>2. CASE f = new
    BY <1>1, <1>4, <1>5, <2>2 DEF Copied
  <2>3. CASE f # old /\ f # new
    BY <1>1, <1>2, <1>4, <2>3 DEF Copied
  <2>. QED
    BY <2>1, <2>2, <2>3
<1>8. AreasMapped'
  <2>1. AreasMapped /\ procs' = procs
    BY <1>1 DEF FramesOK, Copied
  <2>. QED
    BY <1>4, <2>1 DEF AreasMapped, Entry, PteId
<1>9. OnePagePerProcess'
  <2>1. ASSUME NEW x \in PteId, NEW y \in PteId, pte'[x].present, pte'[y].present,
               pte'[x].ppn = pte'[y].ppn
        PROVE  x[2] = y[2]
    <3>1. CASE x = id \/ y = id
      BY <1>4, <1>5, <2>1, <3>1
    <3>2. CASE x # id /\ y # id
      BY <1>4, <2>1, <3>2 DEF FramesOK, OnePagePerProcess
    <3>. QED
      BY <3>1, <3>2
  <2>. QED
    BY <2>1 DEF OnePagePerProcess
<1>10. ReadonlyIffShared'
  <2>1. ASSUME NEW x \in PteId, pte'[x].present
        PROVE  pte'[x].readonly
               <=> x[2] \notin Writable \/ pageMap'[pte'[x].ppn].counter > 1
    <3>1. CASE x = id
      BY <1>1, <1>3, <3>1 DEF Copied
    <3>2. CASE x # id /\ pte[x].ppn = old
      <4>1. pte[id].present /\ pte[id].ppn = old /\ pte[x].present
        BY <1>1, <1>4, <2>1 DEF Copied
      <4>2. x[2] \in Writable
        BY <1>3, <3>2, <4>1 DEF FramesOK, OnePagePerProcess
      <4>. QED
        BY <1>1, <3>2, <4>1, <4>2 DEF Copied
    <3>3. CASE x # id /\ pte[x].ppn # old
      <4>1. pte'[x] = pte[x] /\ pte[x].present
        BY <1>1, <1>4, <2>1, <3>3 DEF Copied
      <4>2. pte[x].ppn \in Frame \ {old, new}
        BY <1>2, <1>5, <3>3, <4>1 DEF Word
      <4>3. pageMap'[pte'[x].ppn] = pageMap[pte[x].ppn]
        BY <1>1, <4>1, <4>2 DEF Copied
      <4>. QED
        BY <4>1, <4>3 DEF FramesOK, ReadonlyIffShared
    <3>. QED
      BY <3>1, <3>2, <3>3
  <2>. QED
    BY <2>1 DEF ReadonlyIffShared
<1>11. pm' \in [Frame -> Value]
  BY <1>1, <1>2 DEF Copied
<1>. QED
  BY <1>1, <1>6, <1>7, <1>8, <1>9, <1>10, <1>11
  DEF FramesOK, Copied, OnlyResourcesRunOut

-----------------------------------------------------------------------------
(* Fork.                                                                   *)

\* What copy_pagetable does to the entries and descriptors when process p
\* gives birth to c.
Shared(p, c) ==
    /\ procs' = procs \cup {c}
    /\ pte' \in [PteId -> Word]
    /\ \A q \in {p, c}, v \in Page :
          /\ pte'[<<q, v>>].present <=> pte[<<p, v>>].present
          /\ pte'[<<q, v>>].ppn = pte[<<p, v>>].ppn
          /\ pte'[<<q, v>>].present => pte'[<<q, v>>].readonly
    /\ \A q \in Proc \ {p, c}, v \in Page : pte'[<<q, v>>] = pte[<<q, v>>]
    /\ pageMap' \in [Frame -> Descriptor]
    /\ \A f \in Frame : WellFormed(pageMap'[f])
    /\ \A f \in Frame, v \in Page :
          pte[<<p, v>>].present /\ pte[<<p, v>>].ppn = f =>
             /\ pageMap'[f].counter = pageMap[f].counter + 1
             /\ Names(pageMap'[f]) = Names(pageMap[f]) \cup {<<c, v>>}
    /\ \A f \in Frame :
          (\A v \in Page : ~(pte[<<p, v>>].present /\ pte[<<p, v>>].ppn = f))
          => pageMap'[f] = pageMap[f]
    /\ UNCHANGED <<pm, halt>>

\* copy_pagetable gives every frame of the parent the child as a sharer.
LEMMA ForkShares ==
    ASSUME FramesOK, NEW p \in Proc, NEW c \in Proc, ForkPages(p, c)
    PROVE  p \in procs /\ c \notin procs /\ Shared(p, c)
<1>1. /\ procs \subseteq Proc
      /\ pte \in [PteId -> Word]
      /\ pageMap \in [Frame -> Descriptor]
      /\ \A f \in Frame : WellFormed(pageMap[f])
      /\ \A f \in Frame, x \in PteId :
            x \in Names(pageMap[f]) <=> pte[x].present /\ pte[x].ppn = f
      /\ \A q \in Proc, v \in Page : pte[<<q, v>>].present <=> q \in procs /\ v \in Area
      /\ OnePagePerProcess
  BY DEF FramesOK, AreasMapped, Entry
<1>2. /\ p \in procs /\ c \notin procs /\ p # c /\ procs' = procs \cup {c}
      /\ pte' = [x \in PteId |-> IF x[1] \in {p, c} THEN CopiedWord(Entry(p, x[2]))
                                 ELSE pte[x]]
      /\ pageMap' = [f \in Frame |-> CopiedFrame(p, c, f)]
      /\ UNCHANGED <<pm, halt>>
      /\ ~SlotsFull(p)
  BY DEF ForkPages
<1>3. ASSUME NEW v \in Page
      PROVE  /\ <<p, v>> \in PteId
             /\ pte[<<p, v>>] \in Word
             /\ CopiedWord(pte[<<p, v>>]) \in Word
             /\ CopiedWord(pte[<<p, v>>]).present = pte[<<p, v>>].present
             /\ CopiedWord(pte[<<p, v>>]).ppn = pte[<<p, v>>].ppn
             /\ pte[<<p, v>>].present => CopiedWord(pte[<<p, v>>]).readonly = TRUE
  <2>1. <<p, v>> \in PteId /\ pte[<<p, v>>] \in Word
    BY <1>1 DEF PteId
  <2>. PICK w \in Word : w = pte[<<p, v>>]
    BY <2>1
  <2>2. PICK b \in BOOLEAN : b <=> w.readonly \/ w.present
    OBVIOUS
  <2>3. (w.readonly \/ w.present) = b
    BY <2>2, Zenon
  <2>4. CopiedWord(w) = [w EXCEPT !.readonly = b]
    BY <2>3, Zenon DEF CopiedWord
  <2>5. /\ CopiedWord(w) \in Word /\ CopiedWord(w).present = w.present
        /\ CopiedWord(w).ppn = w.ppn /\ CopiedWord(w).readonly = b
    BY <2>4 DEF Word
  <2>. QED
    BY <2>1, <2>2, <2>5
<1>4. ASSUME NEW q \in {p, c}, NEW v \in Page
      PROVE  pte'[<<q, v>>] = CopiedWord(pte[<<p, v>>])
  BY <1>2, <1>4 DEF PteId, Entry
<1>5. ASSUME NEW q \in Proc \ {p, c}, NEW v \in Page
      PROVE  pte'[<<q, v>>] = pte[<<q, v>>]
  BY <1>2, <1>5 DEF PteId
<1>6. pte' \in [PteId -> Word]
  <2>1. ASSUME NEW q \in Proc, NEW v \in Page
        PROVE  pte'[<<q, v>>] \in Word /\ <<q, v>> \in PteId
    <3>1. <<q, v>> \in PteId
      BY DEF PteId
    <3>2. CASE q \in {p, c}
      <4>1. pte'[<<q, v>>] \in Word
        BY <1>3, <1>4, <3>2
      <4>. QED
        BY <3>1, <4>1
    <3>3. CASE q \notin {p, c}
      BY <1>1, <1>5, <3>1, <3>3
    <3>. QED
      BY <3>2, <3>3
  <2>2. \A x \in PteId : pte'[x] \in Word
    BY <2>1 DEF PteId
  <2>3. PICK g : pte' = [x \in PteId |-> g[x]]
    BY <1>2
  <2>. QED
    BY <2>2, <2>3
<1>7. ASSUME NEW f \in Frame, NEW v \in Page, pte[<<p, v>>].present, pte[<<p, v>>].ppn = f
      PROVE  /\ pageMap'[f].counter = pageMap[f].counter + 1
             /\ Names(pageMap'[f]) = Names(pageMap[f]) \cup {<<c, v>>}
             /\ WellFormed(pageMap'[f])
  <2>1. PagesOn(p, f) = {v}
    <3>1. ASSUME NEW u \in Page, pte[<<p, u>>].present, pte[<<p, u>>].ppn = f
          PROVE  u = v
      <4>1. /\ <<p, u>> \in PteId /\ <<p, v>> \in PteId
            /\ <<p, u>>[2] = u /\ <<p, v>>[2] = v
        BY <1>3
      <4>. QED
        BY <1>1, <1>7, <3>1, <4>1 DEF OnePagePerProcess
    <3>. QED
      BY <1>7, <3>1 DEF PagesOn, Entry
  <2>2. PICK w \in Word : w = CopiedWord(pte[<<p, v>>])
    BY <1>3
  <2>3. pageMap'[f] = MapFrame(pageMap[f], <<c, v>>, w)
    BY <1>2, <2>1, <2>2 DEF CopiedFrame, Entry
  <2>4. pageMap[f].counter < MaxMap
    <3>1. pageMap[f].counter \in 0 .. MaxMap /\ MaxMap \in Nat
      BY <1>1, SizeAssumption DEF Descriptor
    <3>2. pageMap[f].counter # MaxMap
      BY <1>2, <1>7 DEF SlotsFull, Entry
    <3>. QED
      BY <3>1, <3>2
  <2>5. <<c, v>> \in PteId /\ <<c, v>> \notin Names(pageMap[f])
    BY <1>1, <1>2 DEF PteId
  <2>6. w.readonly
    BY <1>3, <1>7, <2>2
  <2>7. WellFormed(pageMap[f])
    BY <1>1
  <2>. QED
    BY <2>2, <2>3, <2>4, <2>5, <2>6, <2>7, MapFrameAdds
<1>8. ASSUME NEW f \in Frame,
             \A v \in Page : ~(pte[<<p, v>>].present /\ pte[<<p, v>>].ppn = f)
      PROVE  pageMap'[f] = pageMap[f]
  <2>1. PagesOn(p, f) = {}
    BY <1>8 DEF PagesOn, Entry
  <2>. QED
    BY <1>2, <2>1 DEF CopiedFrame
<1>9. \A f \in Frame : WellFormed(pageMap'[f])
  BY <1>1, <1>7, <1>8
<1>10. pageMap' \in [Frame -> Descriptor]
  <2>1. \A f \in Frame : pageMap'[f] \in Descriptor
    BY <1>9 DEF WellFormed
  <2>. QED
    BY <1>2, <2>1
<1>11. ASSUME NEW q \in {p, c}, NEW v \in Page
       PROVE  /\ pte'[<<q, v>>].present <=> pte[<<p, v>>].present
              /\ pte'[<<q, v>>].ppn = pte[<<p, v>>].ppn
              /\ pte'[<<q, v>>].present => pte'[<<q, v>>].readonly
  <2>1. pte'[<<q, v>>] = CopiedWord(pte[<<p, v>>])
    BY <1>4
  <2>. QED
    BY <1>3, <2>1
<1>12. /\ \A q \in {p, c}, v \in Page :
             /\ pte'[<<q, v>>].present <=> pte[<<p, v>>].present
             /\ pte'[<<q, v>>].ppn = pte[<<p, v>>].ppn
             /\ pte'[<<q, v>>].present => pte'[<<q, v>>].readonly
       /\ \A q \in Proc \ {p, c}, v \in Page : pte'[<<q, v>>] = pte[<<q, v>>]
  BY <1>5, <1>11
<1>13. /\ \A f \in Frame, v \in Page :
             pte[<<p, v>>].present /\ pte[<<p, v>>].ppn = f =>
                /\ pageMap'[f].counter = pageMap[f].counter + 1
                /\ Names(pageMap'[f]) = Names(pageMap[f]) \cup {<<c, v>>}
       /\ \A f \in Frame :
             (\A v \in Page : ~(pte[<<p, v>>].present /\ pte[<<p, v>>].ppn = f))
             => pageMap'[f] = pageMap[f]
  BY <1>7, <1>8
<1>. QED
  BY <1>2, <1>6, <1>9, <1>10, <1>12, <1>13, Zenon DEF Shared

\* Fork preserves the inductive invariant.
LEMMA ForkPreserves ==
    ASSUME FramesOK, NEW p \in Proc, NEW c \in Proc, ForkPages(p, c)
    PROVE  FramesOK'
<1>1. p \in procs /\ c \notin procs /\ p # c /\ Shared(p, c)
  BY ForkShares
<1>2. /\ procs \subseteq Proc
      /\ pte \in [PteId -> Word]
      /\ pageMap \in [Frame -> Descriptor]
      /\ \A f \in Frame : WellFormed(pageMap[f])
      /\ \A f \in Frame, x \in PteId :
            x \in Names(pageMap[f]) <=> pte[x].present /\ pte[x].ppn = f
  BY DEF FramesOK
<1>3. ASSUME NEW q \in Proc, NEW v \in Page
      PROVE  /\ <<q, v>> \in PteId /\ <<q, v>>[1] = q /\ <<q, v>>[2] = v
             /\ pte[<<q, v>>].present <=> q \in procs /\ v \in Area
             /\ pte[<<q, v>>].ppn \in Frame /\ pte'[<<q, v>>].ppn \in Frame
  BY <1>1, <1>2 DEF FramesOK, AreasMapped, Entry, PteId, Shared, Word
<1>4. ASSUME NEW q \in {p, c}, NEW v \in Page
      PROVE  /\ pte'[<<q, v>>].present <=> pte[<<p, v>>].present
             /\ pte'[<<q, v>>].ppn = pte[<<p, v>>].ppn
             /\ pte'[<<q, v>>].present => pte'[<<q, v>>].readonly
  BY <1>1 DEF Shared
<1>5. ASSUME NEW q \in Proc \ {p, c}, NEW v \in Page
      PROVE  pte'[<<q, v>>] = pte[<<q, v>>]
  BY <1>1 DEF Shared
\* A present entry names the frame of an entry that was present before, of
\* the same page.
<1>6. ASSUME NEW q \in Proc, NEW v \in Page, pte'[<<q, v>>].present
      PROVE  \E r \in Proc : pte[<<r, v>>].present
                             /\ pte[<<r, v>>].ppn = pte'[<<q, v>>].ppn
  <2>1. CASE q \in {p, c}
    BY <1>4, <1>6, <2>1
  <2>2. CASE q \notin {p, c}
    BY <1>5, <1>6, <2>2
  <2>. QED
    BY <2>1, <2>2
<1>7. AreasMapped'
  <2>1. ASSUME NEW q \in Proc, NEW v \in Page
        PROVE  pte'[<<q, v>>].present <=> q \in procs' /\ v \in Area
    <3>1. procs' = procs \cup {c}
      BY <1>1 DEF Shared
    <3>2. CASE q \in {p, c}
      BY <1>1, <1>3, <1>4, <3>1, <3>2
    <3>3. CASE q \notin {p, c}
      BY <1>3, <1>5, <3>1, <3>3
    <3>. QED
      BY <3>2, <3>3
  <2>. QED
    BY <2>1 DEF AreasMapped, Entry
<1>8. OnePagePerProcess'
  <2>1. ASSUME NEW q \in Proc, NEW v \in Page, NEW r \in Proc, NEW u \in Page,
               pte'[<<q, v>>].present, pte'[<<r, u>>].present,
               pte'[<<q, v>>].ppn = pte'[<<r, u>>].ppn
        PROVE  v = u
    <3>1. PICK q1 \in Proc : pte[<<q1, v>>].present
                             /\ pte[<<q1, v>>].ppn = pte'[<<q, v>>].ppn
      BY <1>6, <2>1
    <3>2. PICK r1 \in Proc : pte[<<r1, u>>].present
                             /\ pte[<<r1, u>>].ppn = pte'[<<r, u>>].ppn
      BY <1>6, <2>1
    <3>3. <<q1, v>>[2] = <<r1, u>>[2]
      BY <1>3, <2>1, <3>1, <3>2 DEF FramesOK, OnePagePerProcess
    <3>. QED
      BY <3>3
  <2>. QED
    BY <2>1 DEF OnePagePerProcess, PteId
<1>9. ASSUME NEW f \in Frame, NEW q \in Proc, NEW v \in Page
      PROVE  <<q, v>> \in Names(pageMap'[f])
             <=> pte'[<<q, v>>].present /\ pte'[<<q, v>>].ppn = f
  <2>1. CASE \E u \in Page : pte[<<p, u>>].present /\ pte[<<p, u>>].ppn = f
    <3>1. PICK u \in Page : pte[<<p, u>>].present /\ pte[<<p, u>>].ppn = f
      BY <2>1
    <3>2. Names(pageMap'[f]) = Names(pageMap[f]) \cup {<<c, u>>}
      BY <1>1, <3>1 DEF Shared
    <3>3. CASE q = c
      <4>1. <<q, v>> \notin Names(pageMap[f])
        BY <1>1, <1>2, <1>3, <3>3
      <4>2. pte[<<p, v>>].present /\ pte[<<p, v>>].ppn = f => <<p, v>>[2] = <<p, u>>[2]
        BY <1>3, <3>1 DEF FramesOK, OnePagePerProcess
      <4>3. pte[<<p, v>>].present /\ pte[<<p, v>>].ppn = f <=> v = u
        BY <3>1, <4>2
      <4>. QED
        BY <1>4, <3>2, <3>3, <4>1, <4>3
    <3>4. CASE q = p
      BY <1>1, <1>2, <1>3, <1>4, <3>2, <3>4
    <3>5. CASE q \notin {p, c}
      BY <1>2, <1>3, <1>5, <3>2, <3>5
    <3>. QED
      BY <3>3, <3>4, <3>5
  <2>2. CASE \A u \in Page : ~(pte[<<p, u>>].present /\ pte[<<p, u>>].ppn = f)
    <3>1. pageMap'[f] = pageMap[f]
      BY <1>1, <2>2 DEF Shared
    <3>2. CASE q \in {p, c}
      <4>1. ~(pte'[<<q, v>>].present /\ pte'[<<q, v>>].ppn = f)
        BY <1>4, <2>2, <3>2
      <4>2. <<q, v>> \notin Names(pageMap[f])
        BY <1>1, <1>2, <1>3, <2>2, <3>2
      <4>. QED
        BY <3>1, <4>1, <4>2
    <3>3. CASE q \notin {p, c}
      BY <1>2, <1>3, <1>5, <3>1, <3>3
    <3>. QED
      BY <3>2, <3>3
  <2>. QED
    BY <2>1, <2>2
<1>10. ReadonlyIffShared'
  <2>1. ASSUME NEW q \in Proc, NEW v \in Page, pte'[<<q, v>>].present
        PROVE  pte'[<<q, v>>].readonly
               <=> v \notin Writable \/ pageMap'[pte'[<<q, v>>].ppn].counter > 1
    <3>1. PICK f \in Frame : f = pte'[<<q, v>>].ppn
      BY <1>3
    <3>2. pageMap[f].counter \in Int
      BY <1>2 DEF Descriptor
    <3>3. CASE q \in {p, c}
      <4>1. pte[<<p, v>>].present /\ pte[<<p, v>>].ppn = f
        BY <1>4, <2>1, <3>1, <3>3
      <4>2. <<p, v>> \in Names(pageMap[f])
        BY <1>2, <1>3, <4>1
      <4>3. pageMap[f].counter > 0
        BY <1>2, <4>2, NamesOfOne
      <4>4. pageMap'[f].counter = pageMap[f].counter + 1
        BY <1>1, <4>1 DEF Shared
      <4>5. pageMap'[f].counter > 1
        BY <3>2, <4>3, <4>4
      <4>6. pte'[<<q, v>>].readonly
        BY <1>4, <2>1, <3>3
      <4>. QED
        BY <3>1, <4>5, <4>6
    <3>4. CASE q \notin {p, c}
      <4>1. /\ pte'[<<q, v>>] = pte[<<q, v>>] /\ pte[<<q, v>>].present
            /\ pte[<<q, v>>].ppn = f
        BY <1>5, <2>1, <3>1, <3>4
      <4>2. pte[<<q, v>>].readonly <=> v \notin Writable \/ pageMap[f].counter > 1
        BY <1>3, <4>1 DEF FramesOK, ReadonlyIffShared
      <4>3. pageMap[f].counter > 1 <=> pageMap'[f].counter > 1
        <5>1. CASE \E u \in Page : pte[<<p, u>>].present /\ pte[<<p, u>>].ppn = f
          <6>1. PICK u \in Page : pte[<<p, u>>].present /\ pte[<<p, u>>].ppn = f
            BY <5>1
          <6>2. <<q, v>> \in Names(pageMap[f]) /\ <<p, u>> \in Names(pageMap[f])
                /\ <<p, u>> # <<q, v>>
            BY <1>2, <1>3, <3>4, <4>1, <6>1
          <6>3. Names(pageMap[f]) # {<<q, v>>}
            BY <6>2
          <6>4. pageMap[f].counter > 0 /\ pageMap[f].counter # 1
            BY <1>2, <6>2, <6>3, NamesOfOne
          <6>5. pageMap'[f].counter = pageMap[f].counter + 1
            BY <1>1, <6>1 DEF Shared
          <6>. QED
            BY <3>2, <6>4, <6>5
        <5>2. CASE \A u \in Page : ~(pte[<<p, u>>].present /\ pte[<<p, u>>].ppn = f)
          <6>1. pageMap'[f] = pageMap[f]
            BY <1>1, <5>2 DEF Shared
          <6>. QED
            BY <6>1
        <5>. QED
          BY <5>1, <5>2
      <4>. QED
        BY <3>1, <4>1, <4>2, <4>3
    <3>. QED
      BY <3>3, <3>4
  <2>. QED
    BY <2>1 DEF ReadonlyIffShared, PteId
<1>11. \A f \in Frame, x \in PteId :
          x \in Names(pageMap'[f]) <=> pte'[x].present /\ pte'[x].ppn = f
  BY <1>9 DEF PteId
<1>12. procs' \subseteq Proc /\ UNCHANGED <<pm, halt>>
  BY <1>1, <1>2 DEF Shared
<1>13. /\ pte' \in [PteId -> Word]
       /\ pageMap' \in [Frame -> Descriptor]
       /\ \A f \in Frame : WellFormed(pageMap'[f])
  BY <1>1 DEF Shared
<1>. QED
  BY <1>7, <1>8, <1>10, <1>11, <1>12, <1>13 DEF FramesOK, OnlyResourcesRunOut

-----------------------------------------------------------------------------
(* The remaining actions, and the invariance theorems.                     *)

\* In a state of the inductive invariant, and with the assertions of
\* copy_on_write looked at, a writable entry is the only one of its frame.
LEMMA OwnsFrame == FramesOK => WriterOwnsFrame
<1>. SUFFICES ASSUME FramesOK, NEW x \in PteId, NEW y \in PteId,
                     pte[x].present, pte[y].present, pte[x].ppn = pte[y].ppn,
                     ~pte[x].readonly
              PROVE  x = y
  BY DEF WriterOwnsFrame
<1>1. PICK f \in Frame : f = pte[x].ppn
  BY DEF FramesOK, Word
<1>2. WellFormed(pageMap[f]) /\ x \in Names(pageMap[f]) /\ y \in Names(pageMap[f])
  BY <1>1 DEF FramesOK
<1>3. ~(pageMap[f].counter > 1)
  BY <1>1 DEF FramesOK, ReadonlyIffShared
<1>4. pageMap[f].counter \in Int
  BY <1>2 DEF WellFormed, Descriptor
<1>5. pageMap[f].counter = 1
  BY <1>2, <1>3, <1>4, NamesOfOne
<1>6. Names(pageMap[f]) = {x}
  BY <1>2, <1>5, NamesOfOne
<1>. QED
  BY <1>2, <1>6

\* On an entry whose frame is shared, no assertion of copy_on_write and
\* unmapall_pte4 fails but for want of a frame.
LEMMA OnlyFramesMissing ==
    ASSUME FramesOK, NEW id \in PteId, pte[id].present, pageMap[pte[id].ppn].counter > 1
    PROVE  /\ CowFailure(id) \in {"none", "no_frame"}
           /\ (\E f \in Frame : ~pageMap[f].allocated) => CowFailure(id) = "none"
<1>. DEFINE d     == pageMap[pte[id].ppn]
            m     == d.mapping
            inUse == {i \in Slot : m[i] # NULL}
            Free(f) == FreeOnceUnmapped(id, f)
<1>1. pte[id].ppn \in Frame /\ WellFormed(d) /\ id \in Names(d)
  BY DEF FramesOK, Word
<1>2. d.counter \in 0 .. MaxMap /\ MaxMap \in Nat /\ d.allocated /\ d.saddr
  BY <1>1, SizeAssumption DEF WellFormed, Descriptor
<1>3. ASSUME NEW i \in inUse
      PROVE  pte[m[i]].present /\ \A j \in inUse : j < i => m[j] # m[i]
  <2>1. i \in Slot /\ m[i] # NULL /\ m[i] \in Names(d) /\ m[i] \in PteId
    BY <1>1 DEF Names, WellFormed, Descriptor
  <2>2. pte[m[i]].present
    BY <1>1, <2>1 DEF FramesOK
  <2>3. \A j \in inUse : m[j] = m[i] => j = i
    BY <1>1, <2>1 DEF WellFormed
  <2>. QED
    BY <2>1, <2>2, <2>3 DEF Slot
<1>4. Cardinality(inUse) = d.counter
  <2>1. inUse = 1 .. d.counter
    BY <1>1, <1>2 DEF WellFormed, Slot
  <2>2. Cardinality(1 .. d.counter) = d.counter
    BY <1>2, FS_Interval
  <2>. QED
    BY <2>1, <2>2
<1>5. Remaining(id) # {}
  <2>1. d.counter # 1
    BY <1>2
  <2>2. Names(d) # {id}
    BY <1>1, <2>1, NamesOfOne
  <2>. QED
    BY <1>1, <2>2 DEF Remaining, Sharers, Names
<1>6. \A f \in Frame : Free(f) <=> ~pageMap[f].allocated
  BY <1>1, <1>2, <1>5 DEF FreeOnceUnmapped
<1>7. CowFailure(id) = IF \A f \in Frame : ~Free(f) THEN "no_frame" ELSE "none"
  <2>1. ~(d.counter <= 1) /\ ~(Cardinality(inUse) # d.counter)
    BY <1>2, <1>4
  <2>2. ~(\E i \in inUse : ~pte[m[i]].present \/ \E j \in inUse : j < i /\ m[j] = m[i])
    BY <1>3
  <2>3. ~(Free(pte[id].ppn) /\ \A f \in Frame : f < pte[id].ppn => ~Free(f))
    BY <1>1, <1>2, <1>6
  <2>. HIDE DEF inUse, Free
  <2>4. CowFailure(id) =
          IF d.counter <= 1 THEN "not_shared"
          ELSE IF ~d.allocated THEN "not_allocated"
          ELSE IF \E i \in inUse : ~pte[m[i]].present \/ \E j \in inUse : j < i /\ m[j] = m[i]
               THEN "slot_not_present"
          ELSE IF Cardinality(inUse) # d.counter THEN "counter_left"
          ELSE IF Remaining(id) # {} /\ ~d.saddr THEN "remaining_not_readonly"
          ELSE IF \A f \in Frame : ~Free(f) THEN "no_frame"
          ELSE IF Free(pte[id].ppn) /\ \A f \in Frame : f < pte[id].ppn => ~Free(f)
               THEN "same_frame"
          ELSE "none"
    BY Zenon DEF CowFailure, inUse, Free
  <2>. QED
    BY <1>2, <2>1, <2>2, <2>3, <2>4
<1>. QED
  BY <1>6, <1>7

\* The assertions about sharing in copy_on_write hold whenever it is called.
LEMMA OnlyFramesRunOut ==
    ASSUME FramesOK, NEW p \in Proc, NEW v \in Page, CowAborts(p, v)
    PROVE  halt' = "no_frame"
<1>. PICK id \in PteId : id = <<p, v>>
  BY DEF PteId
<1>1. /\ pte[id].present /\ pte[id].readonly /\ v \in Writable /\ id[2] = v
      /\ halt' = CowFailure(id) /\ CowFailure(id) # "none"
  BY DEF CowAborts, WriteFaults, Entry
<1>2. pageMap[pte[id].ppn].counter > 1
  BY <1>1 DEF FramesOK, ReadonlyIffShared
<1>. QED
  BY <1>1, <1>2, OnlyFramesMissing

\* A step that leaves page tables and descriptors alone.
LEMMA FrameSteps ==
    ASSUME FramesOK, UNCHANGED <<procs, pte, pageMap>>,
           pm' \in [Frame -> Value], halt' \in Assertion,
           OnlyResourcesRunOut'
    PROVE  FramesOK'
<1>1. AreasMapped' /\ OnePagePerProcess' /\ ReadonlyIffShared'
  BY DEF FramesOK, AreasMapped, Entry, OnePagePerProcess, ReadonlyIffShared
<1>. QED
  BY <1>1 DEF FramesOK

\* Every step keeps every frame in order.
LEMMA NextPreserves == FramesOK /\ [Next]_vars => FramesOK'
<1>. SUFFICES ASSUME FramesOK, [Next]_vars PROVE FramesOK'
  OBVIOUS
<1>1. pm \in [Frame -> Value] /\ halt \in Assertion /\ OnlyResourcesRunOut
  BY DEF FramesOK
<1>2. ASSUME NEW p \in Proc, NEW v \in Page, NEW val \in Value, Write(p, v, val)
      PROVE  FramesOK'
  BY <1>1, <1>2, FrameSteps DEF Write, OnlyResourcesRunOut
<1>3. ASSUME NEW p \in Proc, NEW v \in Page, CowAborts(p, v)
      PROVE  FramesOK'
  <2>1. halt' = "no_frame"
    BY <1>3, OnlyFramesRunOut
  <2>. QED
    BY <1>1, <1>3, <2>1, FrameSteps DEF CowAborts, OnlyResourcesRunOut, Assertion
<1>4. ASSUME NEW p \in Proc, NEW v \in Page, SegmentationFault(p, v)
      PROVE  FramesOK'
  BY <1>1, <1>4, FrameSteps DEF SegmentationFault, OnlyResourcesRunOut, Assertion
<1>5. ASSUME NEW p \in Proc, NEW c \in Proc, ForkAborts(p, c)
      PROVE  FramesOK'
  BY <1>1, <1>5, FrameSteps DEF ForkAborts, OnlyResourcesRunOut, Assertion
<1>6. CASE UNCHANGED vars
  BY <1>1, <1>6, FrameSteps DEF vars, OnlyResourcesRunOut
<1>. QED
  BY <1>2, <1>3, <1>4, <1>5, <1>6, CowPreserves, ForkPreserves DEF Next

\* The page tables and page_map agree in every reachable state.
THEOREM Invariance == Spec => []IInv
<1>1. Init => FramesOK
  BY InitFramesOK
<1>2. FramesOK /\ [Next]_vars => FramesOK'
  BY NextPreserves
<1>3. FramesOK => IInv
  BY FramesOKIsIInv
<1>. QED
  BY <1>1, <1>2, <1>3, PTL DEF Spec

\* Every variable has its type; in particular no reversed_counter leaves its
\* range and no entry names a frame that does not exist.
THEOREM TypeCorrect == Spec => []TypeOK
<1>1. IInv => TypeOK
  BY DEF IInv
<1>. QED
  BY <1>1, Invariance, PTL

\* A frame's slots name exactly the present entries that map the frame.
THEOREM ReverseMapCorrect == Spec => []ReverseMapExact
<1>1. IInv => ReverseMapExact
  BY DEF IInv
<1>. QED
  BY <1>1, Invariance, PTL

\* No process can write a frame that another entry maps as well.
THEOREM WriterOwns == Spec => []WriterOwnsFrame
<1>1. IInv => WriterOwnsFrame
  BY FramesOKIsIInv, OwnsFrame
<1>. QED
  BY <1>1, Invariance, PTL

\* The assertions of copy_on_write about sharing never fail: the emulator
\* ends only for want of a slot or a frame, or because the program faults.
THEOREM CowAssertionsHold == Spec => []OnlyResourcesRunOut
<1>1. IInv => OnlyResourcesRunOut
  BY DEF IInv
<1>. QED
  BY <1>1, Invariance, PTL

-----------------------------------------------------------------------------
(* The pages nobody may write.                                             *)

\* The process the loader built never ends, so that its entries can stand for
\* those of everybody.
CodeOK == FirstProc \in procs /\ CodeShared

LEMMA InitCodeOK == Init => CodeOK
BY DEF Init, CodeOK, CodeShared

\* Copy on write moves one entry of a writable page, and remaps entries of
\* the same page only.
LEMMA CowCodeOK ==
    ASSUME FramesOK, CodeOK, NEW p \in Proc, NEW v \in Page, Cow(p, v)
    PROVE  CodeOK'
<1>. PICK id \in PteId : id = <<p, v>>
  BY DEF PteId
<1>1. PICK old \in Frame, new \in Frame : Copied(id, old, new)
  BY CowCopies
<1>2. procs' = procs /\ v \in Writable /\ id[2] = v
  BY <1>1, CowCopies DEF Copied
<1>3. ASSUME NEW q \in procs, NEW u \in Area \ Writable
      PROVE  pte'[<<q, u>>] = pte[<<q, u>>]
  <2>1. <<q, u>> \in PteId /\ <<q, u>>[2] = u /\ u # v
    BY <1>2, SizeAssumption DEF FramesOK, PteId, Area, Page
  <2>2. <<q, u>> # id
    BY <1>2, <2>1
  <2>3. ~(pte[<<q, u>>].present /\ pte[<<q, u>>].ppn = old)
    BY <1>1, <1>2, <2>1 DEF FramesOK, OnePagePerProcess, Copied
  <2>. QED
    BY <1>1, <2>1, <2>2, <2>3 DEF Copied
<1>. QED
  BY <1>2, <1>3 DEF CodeOK, CodeShared, Entry

\* Fork copies the entries of the code as they are: they are readonly.
LEMMA ForkCodeOK ==
    ASSUME FramesOK, CodeOK, NEW p \in Proc, NEW c \in Proc, ForkPages(p, c)
    PROVE  CodeOK'
<1>1. /\ p \in procs /\ procs' = procs \cup {c}
      /\ pte' = [x \in PteId |-> IF x[1] \in {p, c} THEN CopiedWord(Entry(p, x[2]))
                                 ELSE pte[x]]
  BY DEF ForkPages
<1>2. ASSUME NEW q \in procs', NEW u \in Area \ Writable
      PROVE  pte'[<<q, u>>] = pte[<<FirstProc, u>>]
  <2>1. u \in Page /\ q \in Proc /\ <<p, u>> \in PteId /\ <<q, u>> \in PteId
    BY <1>1, SizeAssumption DEF FramesOK, PteId, Area, Page
  <2>2. pte[<<p, u>>] = pte[<<FirstProc, u>>] /\ pte[<<p, u>>] \in Word
    BY <1>1, <2>1 DEF CodeOK, CodeShared, Entry, FramesOK
  <2>3. pte[<<p, u>>].present /\ pte[<<p, u>>].readonly
    BY <1>1, <2>1 DEF FramesOK, AreasMapped, ReadonlyIffShared, Entry
  <2>4. CopiedWord(pte[<<p, u>>]) = pte[<<p, u>>]
    BY <2>2, <2>3 DEF CopiedWord, Word
  <2>5. CASE q \in {p, c}
    BY <1>1, <2>1, <2>2, <2>4, <2>5 DEF Entry
  <2>6. CASE q \notin {p, c}
    BY <1>1, <2>1, <2>6 DEF CodeOK, CodeShared, Entry
  <2>. QED
    BY <2>5, <2>6
<1>. QED
  BY <1>1, <1>2 DEF CodeOK, CodeShared, Entry

LEMMA NextCodeOK == FramesOK /\ CodeOK /\ [Next]_vars => CodeOK'
<1>. SUFFICES ASSUME FramesOK, CodeOK, [Next]_vars PROVE CodeOK'
  OBVIOUS
<1>1. ASSUME UNCHANGED <<procs, pte>> PROVE CodeOK'
  BY <1>1 DEF CodeOK, CodeShared, Entry
<1>. QED
  BY <1>1, CowCodeOK, ForkCodeOK
  DEF Next, vars, Write, CowAborts, SegmentationFault, ForkAborts

\* All processes run the one code frame the loader filled, however often they
\* fork and copy the other pages.
THEOREM CodeNeverCopied == Spec => []CodeShared
<1>1. Init => FramesOK /\ CodeOK
  BY InitFramesOK, InitCodeOK
<1>2. (FramesOK /\ CodeOK) /\ [Next]_vars => (FramesOK /\ CodeOK)'
  BY NextPreserves, NextCodeOK
<1>3. FramesOK /\ CodeOK => CodeShared
  BY DEF CodeOK
<1>. QED
  BY <1>1, <1>2, <1>3, PTL DEF Spec

-----------------------------------------------------------------------------
(* Slots and frames suffice.                                               *)

\* The counter of a descriptor counts its names.
LEMMA CountNames ==
    ASSUME NEW d, WellFormed(d)
    PROVE  IsFiniteSet(Names(d)) /\ Cardinality(Names(d)) = d.counter
<1>. DEFINE k == d.counter
            g == [i \in 1 .. k |-> d.mapping[i]]
<1>1. k \in Nat /\ k <= MaxMap /\ 1 .. k \subseteq Slot
  BY SizeAssumption DEF WellFormed, Descriptor, Slot
<1>2. ASSUME NEW i \in 1 .. k PROVE g[i] \in Names(d)
  BY <1>1 DEF WellFormed, Names
<1>3. ASSUME NEW i \in 1 .. k, NEW j \in 1 .. k, g[i] = g[j] PROVE i = j
  BY <1>1, <1>3 DEF WellFormed
<1>4. ASSUME NEW x \in Names(d) PROVE \E i \in 1 .. k : g[i] = x
  <2>1. PICK i \in Slot : d.mapping[i] = x /\ x # NULL
    BY DEF Names
  <2>2. i \in 1 .. k
    BY <1>1, <2>1 DEF WellFormed, Slot
  <2>. QED
    BY <2>1, <2>2
<1>5. g \in Bijection(1 .. k, Names(d))
  BY <1>2, <1>3, <1>4 DEF Bijection, Injection, IsInjective, Surjection
<1>6. IsFiniteSet(1 .. k) /\ Cardinality(1 .. k) = k
  <2>. HIDE DEF k
  <2>1. IsFiniteSet(1 .. k) /\ Cardinality(1 .. k) = IF 1 > k THEN 0 ELSE k - 1 + 1
    BY <1>1, FS_Interval
  <2>. QED
    BY <1>1, <2>1
<1>. HIDE DEF g
<1>. QED
  BY <1>5, <1>6, FS_Bijection DEF ExistsBijection

\* A frame has one sharer of a process at most, so while there is a process
\* to fork a slot is left, with as many slots as processes.
LEMMA SlotLeft ==
    ASSUME FramesOK, IsFiniteSet(Proc), MaxMap >= Cardinality(Proc),
           NEW p \in procs, NEW c \in Proc \ procs
    PROVE  ~SlotsFull(p)
<1>. SUFFICES ASSUME NEW v \in Page, Entry(p, v).present,
                     pageMap[Entry(p, v).ppn].counter = MaxMap
              PROVE  FALSE
  BY DEF SlotsFull
<1>1. PICK f \in Frame : f = Entry(p, v).ppn
  BY DEF FramesOK, Entry, PteId, Word
<1>. DEFINE N == Names(pageMap[f])
            g == [x \in N |-> x[1]]
<1>2. WellFormed(pageMap[f]) /\ procs \subseteq Proc
  BY DEF FramesOK
<1>3. IsFiniteSet(N) /\ Cardinality(N) = MaxMap
  BY <1>1, <1>2, CountNames
<1>4. ASSUME NEW x \in N
      PROVE  x \in PteId /\ x = <<x[1], x[2]>> /\ x[1] \in procs /\ pte[x].present /\ pte[x].ppn = f
  <2>1. x \in PteId
    <3>1. pageMap[f].mapping \in [Slot -> PteId \cup {NULL}]
      BY <1>2 DEF WellFormed, Descriptor
    <3>. QED
      BY <3>1 DEF Names
  <2>2. pte[x].present /\ pte[x].ppn = f
    BY <2>1 DEF FramesOK
  <2>3. x = <<x[1], x[2]>> /\ x[1] \in Proc /\ x[2] \in Page
    BY <2>1 DEF PteId
  <2>4. pte[<<x[1], x[2]>>].present
    BY <2>2, <2>3
  <2>. QED
    BY <2>1, <2>2, <2>3, <2>4 DEF FramesOK, AreasMapped, Entry
<1>5. ASSUME NEW x \in N, NEW y \in N, x[1] = y[1] PROVE x = y
  <2>1. x[2] = y[2]
    BY <1>4 DEF FramesOK, OnePagePerProcess
  <2>. QED
    BY <1>4, <1>5, <2>1
<1>6. g \in Injection(N, procs)
  BY <1>4, <1>5 DEF Injection, IsInjective
<1>7. IsFiniteSet(procs) /\ Cardinality(procs) < Cardinality(Proc)
  <2>1. IsFiniteSet(procs) /\ Cardinality(procs) <= Cardinality(Proc)
        /\ (Cardinality(Proc) = Cardinality(procs) => Proc = procs)
    BY <1>2, FS_Subset
  <2>2. Cardinality(procs) \in Nat /\ Cardinality(Proc) \in Nat
    BY <2>1, FS_CardinalityType
  <2>. QED
    BY <2>1, <2>2
<1>8. Cardinality(N) <= Cardinality(procs)
  BY <1>6, <1>7, FS_Injection
<1>9. Cardinality(procs) \in Nat /\ Cardinality(Proc) \in Nat /\ MaxMap \in Nat
  BY <1>7, FS_CardinalityType, SizeAssumption
<1>. QED
  BY <1>3, <1>7, <1>8, <1>9

\* No more frames are in use than there are pages to tell apart: a page that
\* can be written counts once for every process, and not for one whose page is
\* shared, and any other page counts once for all.
LEMMA FrameLeft ==
    ASSUME FramesOK, CodeOK, IsFiniteSet(Proc), EnoughFrames,
           NEW p \in procs, NEW v \in Writable, Entry(p, v).present,
           pageMap[Entry(p, v).ppn].counter > 1
    PROVE  \E f \in Frame : ~pageMap[f].allocated
<1>. SUFFICES ASSUME \A f \in Frame : pageMap[f].allocated
              PROVE  FALSE
  OBVIOUS
<1>. DEFINE id   == <<p, v>>
            All  == Proc \X Writable
            Code == Area \ Writable
            Some == All \ {id}
            Keys == Some \cup ({FirstProc} \X Code)
            ppn  == [x \in Keys |-> pte[x].ppn]
<1>1. /\ procs \subseteq Proc /\ Writable \subseteq Area /\ Area \subseteq Page
      /\ id \in All /\ All \subseteq PteId /\ Keys \subseteq PteId
  <2>1. procs \subseteq Proc /\ Writable \subseteq Area /\ Area \subseteq Page
    BY SizeAssumption DEF FramesOK, Area, Page
  <2>2. id \in All /\ All \subseteq PteId /\ {FirstProc} \X Code \subseteq PteId
    BY <2>1, SizeAssumption DEF PteId
  <2>. QED
    BY <2>1, <2>2
<1>2. ASSUME NEW f \in Frame
      PROVE  \E x \in Keys : ppn[x] = f
  <2>1. WellFormed(pageMap[f]) /\ pageMap[f].counter > 0
    BY DEF FramesOK, WellFormed
  <2>2. PICK i \in Slot : pageMap[f].mapping[i] # NULL
    <3>1. 1 \in Slot /\ 1 <= pageMap[f].counter
      BY <2>1, SizeAssumption DEF Slot, WellFormed, Descriptor
    <3>. QED
      BY <2>1, <3>1 DEF WellFormed
  <2>3. PICK x \in PteId : x \in Names(pageMap[f])
    BY <2>1, <2>2 DEF Names, WellFormed, Descriptor
  <2>4. pte[x].present /\ pte[x].ppn = f
    BY <2>3 DEF FramesOK
  <2>5. PICK q \in procs, u \in Area : x = <<q, u>>
    <3>1. PICK q \in Proc, u \in Page : x = <<q, u>>
      BY DEF PteId
    <3>2. q \in procs /\ u \in Area
      BY <2>4, <3>1 DEF FramesOK, AreasMapped, Entry
    <3>. QED
      BY <3>1, <3>2
  <2>6. CASE u \notin Writable
    <3>1. pte[<<FirstProc, u>>].ppn = f /\ <<FirstProc, u>> \in Keys
      BY <2>4, <2>5, <2>6 DEF CodeOK, CodeShared, Entry
    <3>. QED
      BY <3>1
  <2>7. CASE u \in Writable /\ x # id
    BY <1>1, <2>4, <2>5, <2>7
  <2>8. CASE x = id
    <3>1. pageMap[f].counter > 1 /\ f = Entry(p, v).ppn
      BY <2>4, <2>8 DEF Entry
    <3>2. Names(pageMap[f]) # {id}
      <4>1. Cardinality(Names(pageMap[f])) > 1
        BY <2>1, <3>1, CountNames
      <4>2. Cardinality({id}) = 1
        BY FS_Singleton
      <4>. QED
        BY <4>1, <4>2
    <3>3. PICK y \in Names(pageMap[f]) : y # id
      BY <2>3, <2>8, <3>2
    <3>4. y \in PteId /\ pte[y].present /\ pte[y].ppn = f
      <4>1. y \in PteId
        BY <2>1 DEF Names, WellFormed, Descriptor
      <4>. QED
        BY <4>1 DEF FramesOK
    <3>5. y[2] = v /\ y = <<y[1], y[2]>> /\ y[1] \in Proc
      <4>1. id \in PteId /\ id[2] = v /\ y = <<y[1], y[2]>> /\ y[1] \in Proc
        BY <1>1, <3>4 DEF PteId
      <4>. QED
        BY <2>4, <2>8, <3>4, <4>1 DEF FramesOK, OnePagePerProcess
    <3>6. y \in Keys
      BY <3>3, <3>5
    <3>. QED
      BY <3>4, <3>6
  <2>. QED
    BY <2>5, <2>6, <2>7, <2>8
<1>3. IsFiniteSet(Writable) /\ IsFiniteSet(Code)
      /\ Cardinality(Writable) \in Nat /\ Cardinality(Code) \in Nat /\ Cardinality(Proc) \in Nat
  <2>1. IsFiniteSet(Area)
    <3>1. 0 \in Int /\ NArea - 1 \in Int
      BY SizeAssumption
    <3>. QED
      BY <3>1, FS_Interval DEF Area
  <2>2. IsFiniteSet(Writable) /\ IsFiniteSet(Code)
    BY <1>1, <2>1, FS_Subset
  <2>. QED
    BY <2>2, FS_CardinalityType
<1>4. IsFiniteSet(Some) /\ Cardinality(Some) = Cardinality(Proc) * Cardinality(Writable) - 1
  <2>1. IsFiniteSet(All) /\ Cardinality(All) = Cardinality(Proc) * Cardinality(Writable)
    BY <1>3, FS_Product
  <2>. HIDE DEF All, id
  <2>. QED
    BY <1>1, <2>1, FS_RemoveElement
<1>5. IsFiniteSet({FirstProc} \X Code) /\ Cardinality({FirstProc} \X Code) = Cardinality(Code)
  <2>1. IsFiniteSet({FirstProc}) /\ Cardinality({FirstProc}) = 1
    BY FS_Singleton
  <2>. HIDE DEF Code
  <2>2. IsFiniteSet({FirstProc} \X Code)
        /\ Cardinality({FirstProc} \X Code) = Cardinality({FirstProc}) * Cardinality(Code)
    BY <1>3, <2>1, FS_Product
  <2>. QED
    BY <1>3, <2>1, <2>2
<1>6. IsFiniteSet(Keys)
      /\ Cardinality(Keys) <= Cardinality(Proc) * Cardinality(Writable) - 1 + Cardinality(Code)
  <2>. DEFINE One == {FirstProc} \X Code
  <2>. HIDE DEF One, Some
  <2>1. IsFiniteSet(Some \cup One)
        /\ Cardinality(Some \cup One) = Cardinality(Some) + Cardinality(One) - Cardinality(Some \cap One)
    BY <1>4, <1>5, FS_Union DEF One
  <2>2. IsFiniteSet(Some \cap One) /\ Cardinality(Some \cap One) \in Nat
    BY <1>4, FS_Intersection, FS_CardinalityType
  <2>3. Cardinality(Some) \in Int /\ Cardinality(Some) = Cardinality(Proc) * Cardinality(Writable) - 1
    BY <1>4, FS_CardinalityType
  <2>4. Keys = Some \cup One
    BY DEF One
  <2>5. Cardinality(One) = Cardinality(Code)
    BY <1>5 DEF One
  <2>6. Cardinality(Some \cup One) <= Cardinality(Some) + Cardinality(Code)
    BY <1>3, <2>1, <2>2, <2>3, <2>5
  <2>. QED
    BY <2>1, <2>3, <2>4, <2>6
<1>7. ppn \in Surjection(Keys, Frame)
  <2>1. ASSUME NEW x \in Keys PROVE ppn[x] \in Frame
    BY <1>1 DEF FramesOK, Word
  <2>. QED
    BY <1>2, <2>1 DEF Surjection
<1>8. Cardinality(Frame) <= Cardinality(Keys)
  <2>. HIDE DEF Keys, ppn
  <2>. QED
    BY <1>6, <1>7, FS_Surjection
<1>9. Cardinality(Frame) = NFrame /\ NFrame \in Nat
  BY SizeAssumption, FS_Interval DEF Frame
<1>10. Cardinality(Proc) * Cardinality(Writable) \in Nat
  BY <1>3
<1>11. Cardinality(Proc) * Cardinality(Writable) + Cardinality(Code) <= NFrame
  BY DEF EnoughFrames
<1>12. Cardinality(Keys) \in Nat
  BY <1>6, FS_CardinalityType
<1>. HIDE DEF Keys, Code
<1>. QED
  BY <1>3, <1>6, <1>8, <1>9, <1>10, <1>11, <1>12

LEMMA NextResources ==
    ASSUME IsFiniteSet(Proc), FramesOK, CodeOK, NoResourceFailure, [Next]_vars
    PROVE  NoResourceFailure'
<1>. SUFFICES ASSUME MaxMap >= Cardinality(Proc), EnoughFrames
              PROVE  halt' \in {"none", "segmentation_fault"}
  BY DEF NoResourceFailure, EnoughFrames, Area
<1>1. halt \in {"none", "segmentation_fault"}
  BY DEF NoResourceFailure
<1>2. ASSUME NEW p \in Proc, NEW v \in Page PROVE ~CowAborts(p, v)
  <2>. SUFFICES ASSUME CowAborts(p, v) PROVE FALSE
    OBVIOUS
  <2>. PICK id \in PteId : id = <<p, v>>
    BY DEF PteId
  <2>1. /\ p \in procs /\ v \in Writable /\ pte[id].present /\ pte[id].readonly
        /\ CowFailure(id) # "none" /\ id[2] = v
    BY DEF CowAborts, WriteFaults, Entry
  <2>2. pageMap[pte[id].ppn].counter > 1 /\ pte[id].ppn \in Frame
    BY <2>1 DEF FramesOK, ReadonlyIffShared, Word
  <2>3. \E f \in Frame : ~pageMap[f].allocated
    BY <2>1, <2>2, FrameLeft DEF Entry
  <2>. QED
    BY <2>1, <2>2, <2>3, OnlyFramesMissing
<1>3. ASSUME NEW p \in Proc, NEW c \in Proc PROVE ~ForkAborts(p, c)
  BY SlotLeft DEF ForkAborts
<1>. QED
  BY <1>1, <1>2, <1>3
  DEF Next, vars, Write, Cow, SegmentationFault, ForkPages

\* With a slot for every process, and a frame for every writable page of every
\* process and for every other page once, fork and copy on write never run
\* out of either (map_pte4 and allocate_physicalframe always find one).
THEOREM ResourcesSuffice ==
    ASSUME IsFiniteSet(Proc)
    PROVE  Spec => []NoResourceFailure
<1>1. Init => FramesOK /\ CodeOK /\ NoResourceFailure
  BY InitFramesOK, InitCodeOK DEF Init, NoResourceFailure
<1>2. (FramesOK /\ CodeOK /\ NoResourceFailure) /\ [Next]_vars
      => (FramesOK /\ CodeOK /\ NoResourceFailure)'
  BY NextPreserves, NextCodeOK, NextResources
<1>. QED
  BY <1>1, <1>2, PTL DEF Spec

-----------------------------------------------------------------------------
(* Refinement: every step of the page tables is a write of one process to  *)
(* its own memory, a fork that copies a memory, or no step at all for the  *)
(* programs.  What a process reads, entry by entry, comes first.           *)

\* What the invariant says of the entries in the areas of a process that
\* exists: they name a frame.
LEMMA AreaEntries ==
    ASSUME FramesOK, NEW q \in procs, NEW v \in Area
    PROVE  /\ q \in Proc /\ v \in Page /\ <<q, v>> \in PteId
           /\ pte[<<q, v>>].present /\ pte[<<q, v>>].ppn \in Frame
<1>1. q \in Proc /\ v \in Page
  BY SizeAssumption DEF FramesOK, Area, Page
<1>2. <<q, v>> \in PteId
  BY <1>1 DEF PteId
<1>. QED
  BY <1>1, <1>2 DEF FramesOK, AreasMapped, Entry, Word

\* If the same processes read the same contents, the abstract memory
\* stutters.
LEMMA SameView ==
    ASSUME procs' = procs,
           \A q \in procs, v \in Area :
              pm'[pte'[<<q, v>>].ppn] = pm[pte[<<q, v>>].ppn]
    PROVE  UNCHANGED Memory!vars
<1>1. ASSUME NEW q \in Proc, NEW v \in Area
      PROVE  (IF q \in procs THEN pm'[pte'[<<q, v>>].ppn] ELSE NULL)
             = (IF q \in procs THEN pm[pte[<<q, v>>].ppn] ELSE NULL)
  OBVIOUS
<1>2. MemView' = MemView
  BY <1>1 DEF MemView, Entry
<1>. QED
  BY <1>2 DEF Memory!vars

\* The loader's frames hold what the process's memory holds.
LEMMA InitImplements == Init => Memory!Init
<1>. SUFFICES ASSUME Init PROVE Memory!Init
  OBVIOUS
<1>1. FirstProc \in Proc /\ Area \subseteq Frame /\ Area \subseteq Page
  BY SizeAssumption DEF Area, Frame, Page
<1>2. \A v \in Area : pte[<<FirstProc, v>>].ppn = v /\ pm[v] \in Value
  BY <1>1 DEF Init, PteId
<1>3. PICK image \in [Area -> Value] : \A v \in Area : image[v] = pm[v]
  <2>1. [v \in Area |-> pm[v]] \in [Area -> Value]
    BY <1>2
  <2>. QED
    BY <2>1
<1>4. MemView = [q \in Proc |-> IF q = FirstProc THEN image
                                ELSE [v \in Area |-> NULL]]
  <2>1. ASSUME NEW q \in Proc
        PROVE  [v \in Area |-> IF q \in procs THEN pm[Entry(q, v).ppn] ELSE NULL]
               = IF q = FirstProc THEN image ELSE [v \in Area |-> NULL]
    <3>1. CASE q = FirstProc
      BY <1>2, <1>3, <3>1 DEF Init, Entry
    <3>2. CASE q # FirstProc
      BY <3>2 DEF Init
    <3>. QED
      BY <3>1, <3>2
  <2>. QED
    BY <2>1 DEF MemView
<1>. QED
  BY <1>4 DEF Memory!Init, Init

\* A store changes the memory of the process that executes it only.
LEMMA WriteImplements ==
    ASSUME FramesOK, NEW p \in Proc, NEW v \in Page, NEW val \in Value, Write(p, v, val)
    PROVE  v \in Writable /\ Memory!Write(p, v, val)
<1>1. /\ p \in procs /\ procs' = procs /\ pte' = pte
      /\ pte[<<p, v>>].present /\ ~pte[<<p, v>>].readonly
      /\ pm' = [pm EXCEPT ![pte[<<p, v>>].ppn] = val]
  BY DEF Write, Entry
<1>2. <<p, v>> \in PteId /\ <<p, v>>[2] = v
  BY DEF PteId
<1>3. v \in Writable /\ v \in Area
  BY <1>1, <1>2, SizeAssumption DEF FramesOK, ReadonlyIffShared
<1>4. ASSUME NEW q \in procs, NEW u \in Area
      PROVE  pm'[pte[<<q, u>>].ppn]
             = IF q = p /\ u = v THEN val ELSE pm[pte[<<q, u>>].ppn]
  <2>1. pm \in [Frame -> Value] /\ pte[<<q, u>>].present
        /\ pte[<<q, u>>].ppn \in Frame /\ <<q, u>> \in PteId
    BY AreaEntries DEF FramesOK
  <2>2. CASE q = p /\ u = v
    BY <1>1, <2>1, <2>2
  <2>3. CASE ~(q = p /\ u = v)
    <3>1. <<p, v>> # <<q, u>>
      BY <2>3
    <3>2. pte[<<p, v>>].ppn # pte[<<q, u>>].ppn
      BY <1>1, <1>2, <2>1, <3>1, OwnsFrame DEF WriterOwnsFrame
    <3>. QED
      BY <1>1, <2>1, <2>3, <3>2
  <2>. QED
    BY <2>2, <2>3
<1>5. MemView' = [MemView EXCEPT ![p][v] = val]
  <2>1. ASSUME NEW q \in Proc, NEW u \in Area
        PROVE  MemView'[q][u] = IF q = p /\ u = v THEN val ELSE MemView[q][u]
    BY <1>1, <1>4 DEF MemView, Entry
  <2>2. /\ MemView' = [q \in Proc |-> [u \in Area |-> MemView'[q][u]]]
        /\ MemView = [q \in Proc |-> [u \in Area |-> MemView[q][u]]]
    BY DEF MemView
  <2>. QED
    BY <1>3, <2>1, <2>2
<1>. QED
  BY <1>1, <1>3, <1>5 DEF Memory!Write

\* Copy on write is invisible: the new frame has the contents of the old.
LEMMA CowImplements ==
    ASSUME FramesOK, NEW p \in Proc, NEW v \in Page, Cow(p, v)
    PROVE  UNCHANGED Memory!vars
<1>. PICK id \in PteId : id = <<p, v>>
  BY DEF PteId
<1>1. PICK old \in Frame, new \in Frame : Copied(id, old, new)
  BY CowCopies
<1>2. procs' = procs /\ pm' = [pm EXCEPT ![new] = pm[old]]
  BY <1>1 DEF Copied
<1>3. ASSUME NEW q \in procs, NEW u \in Area
      PROVE  pm'[pte'[<<q, u>>].ppn] = pm[pte[<<q, u>>].ppn]
  <2>1. /\ pm \in [Frame -> Value] /\ pte[<<q, u>>].present
        /\ pte[<<q, u>>].ppn \in Frame /\ <<q, u>> \in PteId
    BY AreaEntries DEF FramesOK
  <2>2. CASE <<q, u>> = id
    BY <1>1, <1>2, <2>1, <2>2 DEF Copied
  <2>3. CASE <<q, u>> # id
    <3>1. pte'[<<q, u>>].ppn = pte[<<q, u>>].ppn
      BY <1>1, <2>1, <2>3 DEF Copied
    <3>2. <<q, u>> \in Names(pageMap[pte[<<q, u>>].ppn])
      BY <2>1 DEF FramesOK
    <3>3. pte[<<q, u>>].ppn # new
      BY <1>1, <3>2 DEF Copied
    <3>. QED
      BY <1>1, <1>2, <2>1, <3>1, <3>3
  <2>. QED
    BY <2>2, <2>3
<1>. QED
  BY <1>2, <1>3, SameView

\* Fork gives the child the contents of the parent's memory.
LEMMA ForkImplements ==
    ASSUME FramesOK, NEW p \in Proc, NEW c \in Proc, ForkPages(p, c)
    PROVE  Memory!Fork(p, c)
<1>1. p \in procs /\ c \notin procs /\ p # c /\ Shared(p, c)
  BY ForkShares
<1>2. procs' = procs \cup {c} /\ pm' = pm /\ Area \subseteq Page
  BY <1>1, SizeAssumption DEF Shared, Area, Page
<1>3. ASSUME NEW q \in procs', NEW v \in Area
      PROVE  pte'[<<q, v>>].ppn = IF q = c THEN pte[<<p, v>>].ppn ELSE pte[<<q, v>>].ppn
  <2>1. q \in Proc /\ v \in Page
    BY <1>2 DEF FramesOK
  <2>2. CASE q \in {p, c}
    BY <1>1, <2>1, <2>2 DEF Shared
  <2>3. CASE q \notin {p, c}
    BY <1>1, <2>1, <2>3 DEF Shared
  <2>. QED
    BY <2>2, <2>3
<1>4. MemView' = [MemView EXCEPT ![c] = MemView[p]]
  <2>1. ASSUME NEW q \in Proc, NEW u \in Area
        PROVE  MemView'[q][u] = IF q = c THEN MemView[p][u] ELSE MemView[q][u]
    BY <1>1, <1>2, <1>3 DEF MemView, Entry
  <2>2. /\ MemView' = [q \in Proc |-> [u \in Area |-> MemView'[q][u]]]
        /\ MemView = [q \in Proc |-> [u \in Area |-> MemView[q][u]]]
    BY DEF MemView
  <2>. QED
    BY <2>1, <2>2
<1>. QED
  BY <1>1, <1>2, <1>4 DEF Memory!Fork

\* Sharing frames copy-on-write is invisible: every process has the private
\* memory that PrivateMemory promises.
THEOREM Refinement == Spec => PrivateToProcess
<1>1. Init => Memory!Init
  BY InitImplements
<1>2. FramesOK /\ [Next]_vars => [Memory!Next]_(Memory!vars)
  <2>. SUFFICES ASSUME FramesOK, [Next]_vars PROVE [Memory!Next]_(Memory!vars)
    OBVIOUS
  <2>1. ASSUME NEW p \in Proc, NEW v \in Page, NEW val \in Value, Write(p, v, val)
        PROVE  Memory!Next
    BY <2>1, WriteImplements DEF Memory!Next
  <2>2. ASSUME NEW p \in Proc, NEW c \in Proc, ForkPages(p, c)
        PROVE  Memory!Next
    BY <2>2, ForkImplements DEF Memory!Next
  <2>3. ASSUME NEW p \in Proc, NEW v \in Page, Cow(p, v)
        PROVE  UNCHANGED Memory!vars
    BY <2>3, CowImplements
  <2>4. ASSUME UNCHANGED <<procs, pte, pm>>
        PROVE  UNCHANGED Memory!vars
    BY <2>4 DEF MemView, Entry, Memory!vars
  <2>. QED
    BY <2>1, <2>2, <2>3, <2>4
    DEF Next, vars, CowAborts, SegmentationFault, ForkAborts
<1>3. Init => FramesOK
  BY InitFramesOK
<1>4. FramesOK /\ [Next]_vars => FramesOK'
  BY NextPreserves
<1>. QED
  BY <1>1, <1>2, <1>3, <1>4, PTL DEF Spec, PrivateToProcess, Memory!Spec
=============================================================================
