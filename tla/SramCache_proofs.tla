-------------------------- MODULE SramCache_proofs --------------------------
(***************************************************************************)
(* Proofs about SramCache, for any blocks, bytes and number of lines: the  *)
(* lines of a set stay in order, and the cache cannot be seen except where *)
(* a dirty line is evicted.                                                *)
(***************************************************************************)
EXTENDS SramCache, FiniteSetTheorems, Orders_proofs

-----------------------------------------------------------------------------
\* The zero cache holds nothing.
LEMMA InitIInv == SetInit => SetInv
BY CacheAssumption
   DEF SetInit, SetInv, SetTypeOK, OneLinePerBlock, AgesDiffer, CleanIsMemory, Valid, LineState, Block

\* After an access the line used is the only one of age 0.
LEMMA TouchAges ==
    ASSUME SetInv, Aged, NEW i \in Line, Touch(i)
    PROVE  /\ time' \in [Line -> 0 .. MaxTime]
           /\ \A j, k \in Valid \cup {i} : time'[j] = time'[k] => j = k
<1>1. \A j \in Line : time[j] \in 0 .. MaxTime /\ time[j] < MaxTime
  BY DEF SetInv, SetTypeOK, Aged
<1>2. \A j \in Line : time'[j] = IF j = i THEN 0 ELSE time[j] + 1
  BY DEF Touch
<1>3. time' \in [Line -> 0 .. MaxTime]
  BY <1>1, CacheAssumption DEF Touch
<1>4. \A j, k \in Valid : time[j] = time[k] => j = k
  BY DEF SetInv, AgesDiffer
<1> QED
  BY <1>1, <1>2, <1>3, <1>4 DEF Valid

\* A read of a block in the set changes the ages only.
LEMMA ReadHitIInv ==
    ASSUME SetInv, NEW t \in Tag, NEW o \in Offset, ReadHit(t, o)
    PROVE  SetInv'
<1>1. PICK i \in Line : Holds(i, t) /\ Touch(i) /\ byte' = block[i][o]
  BY DEF ReadHit
<1>2. UNCHANGED <<state, tag, block, dram>> /\ Valid' = Valid /\ i \in Valid
  BY <1>1 DEF ReadHit, Valid, Holds
<1>3. byte' \in ByteValue
  BY <1>1 DEF SetInv, SetTypeOK, Block
<1> QED
  BY <1>1, <1>2, <1>3, TouchAges
     DEF ReadHit, SetInv, SetTypeOK, OneLinePerBlock, AgesDiffer, CleanIsMemory

\* A write to a block in the set leaves it in its line, dirty.
LEMMA WriteHitIInv ==
    ASSUME SetInv, NEW t \in Tag, NEW o \in Offset, NEW val \in ByteValue, WriteHit(t, o, val)
    PROVE  SetInv'
<1>1. PICK i \in Line : /\ Holds(i, t) /\ Touch(i)
                        /\ state' = [state EXCEPT ![i] = "dirty"]
                        /\ block' = [block EXCEPT ![i][o] = val]
  BY DEF WriteHit
<1>2. UNCHANGED <<tag, dram, byte>> /\ i \in Valid
  BY <1>1 DEF WriteHit, Holds
<1>3. Valid' = Valid
  BY <1>1, <1>2 DEF Valid, SetInv, SetTypeOK
<1>4. SetTypeOK'
  <2>1. block' \in [Line -> Block]
    BY <1>1 DEF SetInv, SetTypeOK, Block
  <2>2. state' \in [Line -> LineState]
    BY <1>1 DEF SetInv, SetTypeOK, LineState
  <2> QED
    BY <1>1, <1>2, <2>1, <2>2, TouchAges DEF WriteHit, SetInv, SetTypeOK
<1>5. OneLinePerBlock' /\ AgesDiffer'
  BY <1>1, <1>2, <1>3, TouchAges DEF WriteHit, SetInv, OneLinePerBlock, AgesDiffer
<1>6. CleanIsMemory'
  BY <1>1, <1>2, <1>3 DEF SetInv, SetTypeOK, CleanIsMemory, Valid
<1> QED
  BY <1>4, <1>5, <1>6 DEF SetInv

\* What a miss does to the set and to main memory, whether the line chosen
\* was invalid or held another block.
Loaded(i, t, s, b) ==
    /\ Chosen(i, t)
    /\ Touch(i)
    /\ WriteBack(i, t)
    /\ state' = [state EXCEPT ![i] = s]
    /\ tag' = [tag EXCEPT ![i] = t]
    /\ block' = [block EXCEPT ![i] = b]

\* Main memory changes at most where the block loaded comes from.
LEMMA WriteBackAt ==
    ASSUME SetInv, NEW i \in Line, NEW t \in Tag, WriteBack(i, t)
    PROVE  /\ dram' \in [Tag -> Block]
           /\ \A u \in Tag \ {t} : dram'[u] = dram[u]
           /\ state[i] # "dirty" => dram' = dram
BY DEF WriteBack, SetInv, SetTypeOK

\* The line loaded holds the block, and no other does.
LEMMA LoadedIInv ==
    ASSUME SetInv, Aged, NEW i \in Line, NEW t \in Tag, NEW s \in {"clean", "dirty"},
           NEW b \in Block, Loaded(i, t, s, b), s = "clean" => b = dram'[t],
           byte' \in ByteValue \cup {NoByte}
    PROVE  SetInv'
<1>1. Valid' = Valid \cup {i}
  BY DEF Loaded, Valid, SetInv, SetTypeOK
<1>2. state'[i] = s /\ tag'[i] = t /\ block'[i] = b
      /\ \A j \in Line \ {i} : state'[j] = state[j] /\ tag'[j] = tag[j] /\ block'[j] = block[j]
  BY DEF Loaded, SetInv, SetTypeOK
<1>3. \A j \in Valid : tag[j] \in Tag /\ tag[j] # t
  BY DEF Loaded, Chosen, Hit, SetInv, OneLinePerBlock
<1>4. SetTypeOK'
  <2>1. state' \in [Line -> LineState]
    BY DEF Loaded, SetInv, SetTypeOK, LineState
  <2> QED
    BY <2>1, TouchAges, WriteBackAt DEF Loaded, SetInv, SetTypeOK
<1>5. OneLinePerBlock'
  BY <1>1, <1>2, <1>3 DEF SetInv, OneLinePerBlock, Valid
<1>6. AgesDiffer'
  BY <1>1, TouchAges DEF Loaded, AgesDiffer
<1>7. CleanIsMemory'
  <2> SUFFICES ASSUME NEW j \in Valid', state'[j] = "clean"
               PROVE  block'[j] = dram'[tag'[j]]
    BY DEF CleanIsMemory
  <2>1. CASE j = i
    BY <1>2, <2>1
  <2>2. CASE j # i
    BY <1>1, <1>2, <1>3, <2>2, WriteBackAt DEF Loaded, SetInv, CleanIsMemory, Valid
  <2> QED
    BY <2>1, <2>2
<1> QED
  BY <1>4, <1>5, <1>6, <1>7 DEF SetInv

\* A read that misses loads the block, and leaves its line clean.
LEMMA ReadMissLoads ==
    ASSUME SetInv, NEW t \in Tag, NEW o \in Offset, ReadMiss(t, o)
    PROVE  \E i \in Line :
              /\ Loaded(i, t, "clean", dram'[t])
              /\ dram'[t] \in Block /\ byte' = dram'[t][o] /\ byte' \in ByteValue
<1>1. PICK i \in Line : /\ Loaded(i, t, "clean", dram'[t])
                        /\ byte' = dram'[t][o]
  BY DEF ReadMiss, Loaded
<1>2. dram'[t] \in Block
  BY <1>1, WriteBackAt DEF Loaded
<1>3. byte' \in ByteValue
  BY <1>1, <1>2 DEF Block
<1> QED
  BY <1>1, <1>2, <1>3

\* The byte written is written to the block loaded.
LEMMA WriteMissLoads ==
    ASSUME SetInv, NEW t \in Tag, NEW o \in Offset, NEW val \in ByteValue, WriteMiss(t, o, val)
    PROVE  \E i \in Line :
              /\ Loaded(i, t, "dirty", [dram'[t] EXCEPT ![o] = val])
              /\ [dram'[t] EXCEPT ![o] = val] \in Block /\ byte' = byte
<1>1. PICK i \in Line : Loaded(i, t, "dirty", [dram'[t] EXCEPT ![o] = val])
  BY DEF WriteMiss, Loaded
<1>2. dram'[t] \in Block
  BY <1>1, WriteBackAt DEF Loaded
<1>3. [dram'[t] EXCEPT ![o] = val] \in Block
  BY <1>2 DEF Block
<1> QED
  BY <1>1, <1>3 DEF WriteMiss

\* Every access and every reset keeps the inductive invariant.
LEMMA NextIInv == SetInv /\ [SetNext]_setVars => SetInv'
<1> SUFFICES ASSUME SetInv, [SetNext]_setVars PROVE SetInv'
  OBVIOUS
<1>1. CASE UNCHANGED setVars
  BY <1>1 DEF setVars, SetInv, SetTypeOK, OneLinePerBlock, AgesDiffer, CleanIsMemory, Valid
<1>2. ASSUME NEW t \in Tag, NEW o \in Offset, ReadMiss(t, o) PROVE SetInv'
  BY <1>2, ReadMissLoads, LoadedIInv DEF ReadMiss
<1>3. ASSUME NEW t \in Tag, NEW o \in Offset, NEW val \in ByteValue, WriteMiss(t, o, val)
      PROVE  SetInv'
  <2>1. byte' \in ByteValue \cup {NoByte}
    BY <1>3 DEF WriteMiss, SetInv, SetTypeOK
  <2> DEFINE b == [dram'[t] EXCEPT ![o] = val]
  <2>2. PICK i \in Line : Loaded(i, t, "dirty", b) /\ b \in Block
    BY <1>3, WriteMissLoads
  <2>3. Aged
    BY <1>3 DEF WriteMiss
  <2> HIDE DEF b
  <2> QED
    BY <2>1, <2>2, <2>3, LoadedIInv
<1>4. CASE Reset
  BY <1>4 DEF Reset, SetInv, SetTypeOK, OneLinePerBlock, AgesDiffer, CleanIsMemory, Valid, LineState
<1> QED
  BY <1>1, <1>2, <1>3, <1>4, ReadHitIInv, WriteHitIInv DEF SetNext

\* The lines of a set stay in order, for any number of lines and blocks.
THEOREM Invariance == SetSpec => []SetInv
BY InitIInv, NextIInv, PTL DEF SetSpec

-----------------------------------------------------------------------------
(* The refinement.                                                         *)

\* A block is seen in the line that holds it, and else in main memory.
LEMMA SeenNow ==
    ASSUME SetInv
    PROVE  /\ SeenBlock = [t \in Tag |-> SeenBlock[t]]
           /\ \A i \in Valid : SeenBlock[tag[i]] = block[i]
           /\ \A t \in Tag : ~Hit(t) => SeenBlock[t] = dram[t]
BY DEF SeenBlock, Hit, SetInv, OneLinePerBlock

\* The same after a step.
LEMMA SeenNext ==
    ASSUME SetInv'
    PROVE  /\ SeenBlock' = [t \in Tag |-> SeenBlock'[t]]
           /\ \A i \in Valid' : SeenBlock'[tag'[i]] = block'[i]
           /\ \A t \in Tag : ~Hit(t)' => SeenBlock'[t] = dram'[t]
BY DEF SeenBlock, Hit, SetInv, OneLinePerBlock

\* What a block that a step does not touch looks like is not changed.
LEMMA SeenSame ==
    ASSUME SetInv, SetInv', NEW u \in Tag, dram'[u] = dram[u],
           \A i \in Line : i \in Valid /\ tag[i] = u <=> i \in Valid' /\ tag'[i] = u,
           \A i \in Valid : tag[i] = u => block'[i] = block[i]
    PROVE  SeenBlock'[u] = SeenBlock[u]
<1>1. CASE Hit(u)
  <2>1. PICK i \in Valid : tag[i] = u
    BY <1>1 DEF Hit
  <2>2. i \in Line /\ i \in Valid' /\ tag'[i] = u /\ block'[i] = block[i]
    BY <2>1 DEF Valid
  <2> QED
    BY <2>1, <2>2, SeenNow, SeenNext
<1>2. CASE ~Hit(u)
  <2>1. ~Hit(u)'
    BY <1>2 DEF Hit, Valid
  <2> QED
    BY <1>2, <2>1, SeenNow, SeenNext
<1> QED
  BY <1>1, <1>2

\* A read of a block in the set returns the byte seen there.
LEMMA ReadHitReads ==
    ASSUME SetInv, SetInv', NEW t \in Tag, NEW o \in Offset, ReadHit(t, o)
    PROVE  Bytes!Read(t, o)
<1>1. PICK i \in Line : Holds(i, t) /\ byte' = block[i][o]
  BY DEF ReadHit
<1>2. UNCHANGED <<state, tag, block, dram>>
  BY DEF ReadHit
<1>3. SeenBlock' = SeenBlock
  BY <1>2 DEF SeenBlock, Hit, Valid
<1>4. SeenBlock[t] = block[i]
  BY <1>1, SeenNow DEF Holds
<1> QED
  BY <1>1, <1>2, <1>3, <1>4 DEF Bytes!Read

\* A write to a block in the set changes the byte seen there and no other.
LEMMA WriteHitWrites ==
    ASSUME SetInv, SetInv', NEW t \in Tag, NEW o \in Offset, NEW val \in ByteValue,
           WriteHit(t, o, val)
    PROVE  Bytes!Write(t, o, val)
<1>1. PICK i \in Line : /\ Holds(i, t)
                        /\ state' = [state EXCEPT ![i] = "dirty"]
                        /\ block' = [block EXCEPT ![i][o] = val]
  BY DEF WriteHit
<1>2. UNCHANGED <<tag, dram, byte>> /\ i \in Valid /\ tag[i] = t
  BY <1>1 DEF WriteHit, Holds
<1>3. Valid' = Valid
  BY <1>1, <1>2 DEF Valid, SetInv, SetTypeOK
<1>4. block'[i] = [block[i] EXCEPT ![o] = val]
      /\ \A j \in Line \ {i} : block'[j] = block[j]
  BY <1>1 DEF SetInv, SetTypeOK
<1>5. SeenBlock'[t] = [SeenBlock[t] EXCEPT ![o] = val]
  BY <1>2, <1>3, <1>4, SeenNow, SeenNext
<1>6. \A u \in Tag \ {t} : SeenBlock'[u] = SeenBlock[u]
  BY <1>2, <1>3, <1>4, SeenSame DEF Valid
<1>7. SeenBlock' = [SeenBlock EXCEPT ![t][o] = val]
  BY <1>5, <1>6, SeenNow, SeenNext
<1> QED
  BY <1>2, <1>7 DEF Bytes!Write

\* If the line chosen holds nothing that main memory has not, main memory
\* and all blocks but the one loaded stay what they were.
LEMMA LoadedSeen ==
    ASSUME SetInv, SetInv', NEW i \in Line, NEW t \in Tag, NEW s \in {"clean", "dirty"},
           NEW b \in Block, Loaded(i, t, s, b), state[i] # "dirty"
    PROVE  /\ dram' = dram /\ SeenBlock[t] = dram[t] /\ SeenBlock'[t] = b
           /\ \A u \in Tag \ {t} : SeenBlock'[u] = SeenBlock[u]
<1>1. dram' = dram
  BY WriteBackAt DEF Loaded
<1>2. SeenBlock[t] = dram[t]
  BY SeenNow DEF Loaded, Chosen
<1>3. /\ Valid' = Valid \cup {i} /\ tag'[i] = t /\ block'[i] = b
      /\ \A j \in Line \ {i} : tag'[j] = tag[j] /\ block'[j] = block[j]
  BY DEF Loaded, Valid, SetInv, SetTypeOK
<1>4. SeenBlock'[t] = b
  BY <1>3, SeenNext
<1>5. ASSUME NEW u \in Tag \ {t} PROVE SeenBlock'[u] = SeenBlock[u]
  <2>1. CASE i \in Valid /\ tag[i] = u
    <3>1. state[i] = "clean"
      BY <2>1 DEF Valid, SetInv, SetTypeOK, LineState
    <3>2. SeenBlock[u] = dram[u]
      BY <2>1, <3>1, SeenNow DEF SetInv, CleanIsMemory
    <3>3. ~Hit(u)'
      BY <1>3, <1>5, <2>1 DEF Hit, Valid, SetInv, OneLinePerBlock
    <3> QED
      BY <1>1, <3>2, <3>3, SeenNext
  <2>2. CASE ~(i \in Valid /\ tag[i] = u)
    <3>1. \A j \in Line : j \in Valid /\ tag[j] = u <=> j \in Valid' /\ tag'[j] = u
      BY <1>3, <1>5, <2>2
    <3>2. \A j \in Valid : tag[j] = u => block'[j] = block[j]
      BY <1>3, <2>2 DEF Valid
    <3> QED
      BY <1>1, <3>1, <3>2, SeenSame
  <2> QED
    BY <2>1, <2>2
<1> QED
  BY <1>1, <1>2, <1>4, <1>5

\* If the line chosen is dirty, only its block and the one loaded change.
LEMMA LoadedEvicts ==
    ASSUME SetInv, SetInv', NEW i \in Line, NEW t \in Tag, NEW s \in {"clean", "dirty"},
           NEW b \in Block, Loaded(i, t, s, b), state[i] = "dirty"
    PROVE  Bytes!Evict
<1>1. i \in Valid /\ Valid = Line /\ Victim(i)
  BY DEF Loaded, Chosen, FirstInvalid, Valid
<1>2. DirtyVictim
  BY <1>1 DEF DirtyVictim
<1>3. /\ Valid' = Valid /\ tag'[i] = t
      /\ \A j \in Line \ {i} : tag'[j] = tag[j] /\ block'[j] = block[j]
  BY <1>1 DEF Loaded, Valid, SetInv, SetTypeOK
<1>4. tag[i] \in Tag
  BY <1>1 DEF SetInv, OneLinePerBlock
<1>5. ASSUME NEW u \in Tag \ {tag[i], t} PROVE SeenBlock'[u] = SeenBlock[u]
  <2>1. dram'[u] = dram[u]
    BY <1>5, WriteBackAt DEF Loaded
  <2>2. \A j \in Line : j \in Valid /\ tag[j] = u <=> j \in Valid' /\ tag'[j] = u
    BY <1>3, <1>5
  <2>3. \A j \in Valid : tag[j] = u => block'[j] = block[j]
    BY <1>3, <1>5 DEF Valid
  <2> QED
    BY <2>1, <2>2, <2>3, SeenSame
<1> QED
  BY <1>2, <1>4, <1>5 DEF Bytes!Evict

\* A read that misses returns the byte that was seen, or evicts a dirty line.
LEMMA ReadMissReads ==
    ASSUME SetInv, SetInv', NEW t \in Tag, NEW o \in Offset, ReadMiss(t, o)
    PROVE  Bytes!Read(t, o) \/ Bytes!Evict
<1>1. PICK i \in Line : /\ Loaded(i, t, "clean", dram'[t])
                        /\ dram'[t] \in Block /\ byte' = dram'[t][o]
  BY ReadMissLoads
<1>2. CASE state[i] # "dirty"
  <2>1. /\ dram' = dram /\ SeenBlock[t] = dram[t] /\ SeenBlock'[t] = dram'[t]
        /\ \A u \in Tag \ {t} : SeenBlock'[u] = SeenBlock[u]
    BY <1>1, <1>2, LoadedSeen
  <2>2. SeenBlock' = SeenBlock
    BY <2>1, SeenNow, SeenNext
  <2> QED
    BY <1>1, <2>1, <2>2 DEF Bytes!Read
<1>3. CASE state[i] = "dirty"
  BY <1>1, <1>3, LoadedEvicts
<1> QED
  BY <1>2, <1>3

\* A write that misses changes one byte, or evicts a dirty line.
LEMMA WriteMissWrites ==
    ASSUME SetInv, SetInv', NEW t \in Tag, NEW o \in Offset, NEW val \in ByteValue,
           WriteMiss(t, o, val)
    PROVE  Bytes!Write(t, o, val) \/ Bytes!Evict
<1> DEFINE b == [dram'[t] EXCEPT ![o] = val]
<1>1. PICK i \in Line : Loaded(i, t, "dirty", b) /\ b \in Block /\ byte' = byte
  BY WriteMissLoads
<1>2. CASE state[i] # "dirty"
  <2>1. /\ dram' = dram /\ SeenBlock[t] = dram[t] /\ SeenBlock'[t] = b
        /\ \A u \in Tag \ {t} : SeenBlock'[u] = SeenBlock[u]
    <3> HIDE DEF b
    <3> QED
      BY <1>1, <1>2, LoadedSeen
  <2>2. SeenBlock' = [SeenBlock EXCEPT ![t][o] = val]
    BY <2>1, SeenNow, SeenNext
  <2> QED
    BY <1>1, <2>1, <2>2 DEF Bytes!Write
<1>3. CASE state[i] = "dirty"
  <2> HIDE DEF b
  <2> QED
    BY <1>1, <1>3, LoadedEvicts
<1> QED
  BY <1>2, <1>3

\* Every step reads, writes, evicts, resets or cannot be seen.
LEMMA StepImplements == SetInv /\ SetInv' /\ [SetNext]_setVars => [Bytes!Next]_(Bytes!vars)
<1> SUFFICES ASSUME SetInv, SetInv', [SetNext]_setVars PROVE [Bytes!Next]_(Bytes!vars)
  OBVIOUS
<1>1. CASE UNCHANGED setVars
  BY <1>1 DEF setVars, Bytes!vars, SeenBlock, Hit, Valid, DirtyVictim, Victim
<1>2. CASE Reset
  <2>1. Valid' = {}
    BY <1>2 DEF Reset, Valid
  <2>2. SeenBlock' = dram
    BY <1>2, <2>1 DEF Reset, SeenBlock, Hit, SetInv, SetTypeOK
  <2> QED
    BY <1>2, <2>2 DEF Reset, Bytes!Reset, Bytes!Next
<1>3. CASE SetNext /\ ~Reset
  BY <1>3, ReadHitReads, WriteHitWrites, ReadMissReads, WriteMissWrites DEF SetNext, Bytes!Next
<1> QED
  BY <1>1, <1>2, <1>3

\* Where no dirty line is evicted the cache cannot be seen, for any number
\* of lines, blocks and bytes.
THEOREM Transparency == SetSpec => CacheTransparent
<1>1. SetInit => Bytes!Init
  BY DEF SetInit, Bytes!Init, SeenBlock, Hit, Valid
<1> QED
  BY <1>1, StepImplements, Invariance, PTL DEF SetSpec, CacheTransparent, Bytes!Spec

-----------------------------------------------------------------------------
(* The lines by age are the blocks used last.                              *)

\* The place of a line in the order of uses is the rank of its age.
Placed ==
    /\ Ranked(Valid, time) /\ Cardinality(Valid) \in Nat /\ Cardinality(Valid) <= NLine
    /\ Cardinality(Valid) = NLine <=> Valid = Line
    /\ Recent = [n \in 1 .. Cardinality(Valid) |-> Recent[n]]
    /\ \A i \in Valid : Recent[Rank(Valid, time, i) + 1] = tag[i]

LEMMA PlaceOf == SetInv => Placed
<1>. SUFFICES ASSUME SetInv PROVE Placed
  OBVIOUS
<1>1. IsFiniteSet(Line) /\ Cardinality(Line) = NLine /\ Valid \in SUBSET Line
  BY FS_Interval, CacheAssumption DEF Line, Valid
<1>2. IsFiniteSet(Valid) /\ Cardinality(Valid) \in Nat /\ Cardinality(Valid) <= NLine
      /\ (Cardinality(Valid) = NLine <=> Valid = Line)
  BY <1>1, FS_Subset, FS_CardinalityType
<1>3. Ranked(Valid, time)
  BY <1>2 DEF Ranked, SetInv, SetTypeOK, AgesDiffer, Valid
<1>4. Recent = [n \in 1 .. Cardinality(Valid) |-> Recent[n]]
  BY DEF Recent
<1>5. ASSUME NEW i \in Valid PROVE Recent[Rank(Valid, time, i) + 1] = tag[i]
  <2>. DEFINE n == Rank(Valid, time, i) + 1
  <2>1. Rank(Valid, time, i) \in Nat /\ Rank(Valid, time, i) < Cardinality(Valid)
    BY <1>3, RankRange
  <2>2. n \in 1 .. Cardinality(Valid) /\ n - 1 = Rank(Valid, time, i)
    BY <1>2, <2>1
  <2>3. \A j \in Valid : Rank(Valid, time, j) = n - 1 => j = i
    BY <1>3, <2>2, RanksFill
  <2>. HIDE DEF n
  <2>4. Recent[n] = tag[CHOOSE j \in Valid : Rank(Valid, time, j) = n - 1]
    BY <2>2 DEF Recent, Rank, Below
  <2>5. (CHOOSE j \in Valid : Rank(Valid, time, j) = n - 1) = i
    BY <2>2, <2>3
  <2>. QED
    BY <2>4, <2>5 DEF n
<1>. QED
  BY <1>2, <1>3, <1>4, <1>5 DEF Placed

LEMMA PlaceNext == SetInv' => Placed'
BY PlaceOf, PTL

\* The line used gets the first place, and the lines before its own place,
\* or all if it had none, are one place further back.
LEMMA RanksMove ==
    ASSUME SetInv, SetInv', NEW i \in Line, Touch(i), Valid' = Valid \cup {i},
           NEW p, p = IF i \in Valid THEN Rank(Valid, time, i) + 1 ELSE Cardinality(Valid) + 1
    PROVE  /\ Rank(Valid', time', i) = 0
           /\ \A j \in Valid \ {i} :
                  Rank(Valid', time', j) = IF Rank(Valid, time, j) + 1 < p
                                           THEN Rank(Valid, time, j) + 1 ELSE Rank(Valid, time, j)
           /\ \A j \in Valid \ {i} : Rank(Valid, time, j) + 1 # p
<1>1. Ranked(Valid, time) /\ Valid \in SUBSET Line /\ \A j \in Line : time[j] \in Nat
  BY PlaceOf DEF Placed, Valid, SetInv, SetTypeOK
<1>2. \A j \in Line : time'[j] = IF j = i THEN 0 ELSE time[j] + 1
  BY DEF Touch
<1>3. Rank(Valid', time', i) = 0
  <2>1. Below(Valid', time', i) = {}
    BY <1>1, <1>2 DEF Below
  <2>. QED
    BY <2>1, FS_EmptySet DEF Rank
<1>4. ASSUME NEW j \in Valid \ {i}
      PROVE  /\ Rank(Valid', time', j) = IF Rank(Valid, time, j) + 1 < p
                                         THEN Rank(Valid, time, j) + 1 ELSE Rank(Valid, time, j)
             /\ Rank(Valid, time, j) + 1 # p
  <2>. DEFINE B == Below(Valid, time, j)
  <2>1. Below(Valid', time', j) = (B \ {i}) \cup {i}
    BY <1>1, <1>2 DEF Below
  <2>2. IsFiniteSet(B) /\ Cardinality(B) \in Nat /\ Cardinality(B) < Cardinality(Valid)
    BY <1>1, RankRange DEF Rank
  <2>3. CASE i \in Valid
    <3>1. time[i] < time[j] \/ time[j] < time[i]
      BY <1>1, <2>3 DEF Ranked
    <3>2. Rank(Valid, time, i) \in Nat
      BY <1>1, <2>3, RankRange
    <3>3. CASE time[i] < time[j]
      <4>1. i \in B
        BY <2>3, <3>3 DEF Below
      <4>2. Below(Valid', time', j) = B
        BY <2>1, <4>1
      <4>3. Rank(Valid, time, i) < Rank(Valid, time, j)
        BY <1>1, <2>3, <3>3, RankOrder
      <4>. QED
        BY <2>2, <2>3, <3>2, <4>2, <4>3 DEF Rank
    <3>4. CASE time[j] < time[i]
      <4>1. i \notin B
        BY <1>1, <2>3, <3>4 DEF Below
      <4>2. Cardinality(Below(Valid', time', j)) = Cardinality(B) + 1
        <5>1. Below(Valid', time', j) = B \cup {i}
          BY <2>1, <4>1
        <5>. HIDE DEF B
        <5>. QED
          BY <2>2, <4>1, <5>1, FS_AddElement
      <4>3. Rank(Valid, time, j) < Rank(Valid, time, i)
        BY <1>1, <2>3, <3>4, RankOrder
      <4>. QED
        BY <2>2, <2>3, <3>2, <4>2, <4>3 DEF Rank
    <3>. QED
      BY <3>1, <3>3, <3>4
  <2>4. CASE i \notin Valid
    <3>1. i \notin B
      BY <2>4 DEF Below
    <3>2. Cardinality(Below(Valid', time', j)) = Cardinality(B) + 1
      <4>1. Below(Valid', time', j) = B \cup {i}
        BY <2>1, <3>1
      <4>. HIDE DEF B
      <4>. QED
        BY <2>2, <3>1, <4>1, FS_AddElement
    <3>3. Cardinality(Valid) \in Nat
      BY PlaceOf DEF Placed
    <3>. QED
      BY <2>2, <2>4, <3>2, <3>3 DEF Rank
  <2>. QED
    BY <2>3, <2>4
<1>. QED
  BY <1>3, <1>4

LEMMA TouchMoves ==
    ASSUME SetInv, SetInv', NEW i \in Line, Touch(i), Valid' = Valid \cup {i},
           \A j \in Valid \ {i} : tag'[j] = tag[j],
           NEW p, p = IF i \in Valid THEN Rank(Valid, time, i) + 1 ELSE Cardinality(Valid) + 1
    PROVE  Lru!ToFront(tag'[i], p)
<1>. DEFINE m == Cardinality(Valid)
            m2 == Cardinality(Valid')
<1>1. /\ m \in Nat /\ Ranked(Valid, time) /\ Recent = [n \in 1 .. m |-> Recent[n]]
      /\ \A j \in Valid : Recent[Rank(Valid, time, j) + 1] = tag[j]
  BY PlaceOf DEF Placed
<1>2. /\ m2 \in Nat /\ Ranked(Valid', time') /\ Recent' = [n \in 1 .. m2 |-> Recent'[n]]
      /\ \A j \in Valid' : Recent'[Rank(Valid', time', j) + 1] = tag'[j]
  BY PlaceNext DEF Placed
<1>3. Len(Recent) = m
  BY <1>1
<1>4. p \in Nat /\ p > 0 /\ m2 = IF p > m THEN p ELSE m
  <2>1. CASE i \in Valid
    <3>1. Valid' = Valid
      BY <2>1
    <3>2. Rank(Valid, time, i) \in Nat /\ Rank(Valid, time, i) < m
      BY <1>1, <2>1, RankRange
    <3>3. m2 = m
      BY <3>1
    <3>. HIDE DEF m, m2
    <3>. QED
      BY <1>1, <2>1, <3>2, <3>3
  <2>2. CASE i \notin Valid
    <3>1. m2 = m + 1
      BY <1>1, <2>2, FS_AddElement DEF Ranked
    <3>. QED
      BY <1>1, <2>2, <3>1
  <2>. QED
    BY <2>1, <2>2
<1>5. /\ Rank(Valid', time', i) = 0
      /\ \A j \in Valid \ {i} :
             /\ Rank(Valid', time', j) = IF Rank(Valid, time, j) + 1 < p
                                         THEN Rank(Valid, time, j) + 1 ELSE Rank(Valid, time, j)
             /\ Rank(Valid, time, j) + 1 # p
  BY RanksMove
<1>. HIDE DEF m, m2
<1>6. ASSUME NEW n \in 1 .. m2
      PROVE  Recent'[n] = IF n = 1 THEN tag'[i] ELSE IF n <= p THEN Recent[n - 1] ELSE Recent[n]
  <2>1. PICK j \in Valid' : Rank(Valid', time', j) = n - 1
    <3>. DEFINE V == Valid'
                f == time'
    <3>1. Ranked(V, f) /\ n \in 1 .. Cardinality(V)
      BY <1>2, <1>6 DEF m2
    <3>. HIDE DEF V, f
    <3>2. \E j \in V : Rank(V, f, j) = n - 1
      BY <3>1, RanksFill
    <3>. QED
      BY <3>2 DEF V, f
  <2>2. Recent'[n] = tag'[j]
    <3>1. Recent'[Rank(Valid', time', j) + 1] = tag'[j]
      BY <1>2, <2>1
    <3>2. Rank(Valid', time', j) + 1 = n
      BY <1>2, <1>6, <2>1
    <3>. QED
      BY <3>1, <3>2
  <2>3. CASE j = i
    BY <1>2, <1>5, <1>6, <2>1, <2>2, <2>3
  <2>4. CASE j # i
    <3>1. j \in Valid \ {i}
      BY <2>4
    <3>2. /\ n - 1 = IF Rank(Valid, time, j) + 1 < p THEN Rank(Valid, time, j) + 1 ELSE Rank(Valid, time, j)
          /\ Rank(Valid, time, j) + 1 # p /\ Rank(Valid, time, j) \in Nat
          /\ Recent[Rank(Valid, time, j) + 1] = tag'[j]
      BY <1>1, <1>5, <2>1, <3>1, RankRange
    <3>3. n # 1
      BY <1>4, <3>2
    <3>. QED
      BY <1>2, <1>4, <1>6, <2>2, <3>2, <3>3
  <2>. QED
    BY <2>3, <2>4
<1>7. Recent' = [n \in 1 .. m2 |-> IF n = 1 THEN tag'[i] ELSE IF n <= p THEN Recent[n - 1] ELSE Recent[n]]
  BY <1>2, <1>6
<1>. QED
  BY <1>3, <1>4, <1>7 DEF Lru!ToFront

\* A hit is a use of a block in the set.
LEMMA HitUses ==
    ASSUME SetInv, SetInv', NEW t \in Tag, NEW i \in Line, Holds(i, t), Touch(i),
           Valid' = Valid, UNCHANGED tag
    PROVE  Lru!Use(t)
<1>1. i \in Valid /\ tag[i] = t /\ Valid' = Valid \cup {i}
  BY DEF Holds
<1>. DEFINE p == Rank(Valid, time, i) + 1
<1>2. /\ Ranked(Valid, time) /\ Recent = [n \in 1 .. Cardinality(Valid) |-> Recent[n]]
      /\ Recent[p] = t /\ Cardinality(Valid) \in Nat
  BY <1>1, PlaceOf DEF Placed
<1>3. p \in 1 .. Cardinality(Valid)
  BY <1>1, <1>2, RankRange
<1>4. Lru!ToFront(tag'[i], p)
  <2>. HIDE DEF p
  <2>1. p = IF i \in Valid THEN Rank(Valid, time, i) + 1 ELSE Cardinality(Valid) + 1
    BY <1>1 DEF p
  <2>. QED
    BY <1>1, <2>1, TouchMoves
<1>. HIDE DEF p
<1>5. p \in DOMAIN Recent /\ tag'[i] = t
  BY <1>1, <1>2, <1>3
<1>. QED
  BY <1>2, <1>4, <1>5 DEF Lru!Use

\* A miss is a use of a block that is not, and takes the place of the block
\* used longest ago if there is no other place.
LEMMA MissUses ==
    ASSUME SetInv, SetInv', NEW t \in Tag, NEW i \in Line, Chosen(i, t), Touch(i),
           Valid' = Valid \cup {i}, tag' = [tag EXCEPT ![i] = t]
    PROVE  Lru!Use(t)
<1>. DEFINE m == Cardinality(Valid)
            p == IF i \in Valid THEN Rank(Valid, time, i) + 1 ELSE m + 1
<1>1. /\ Ranked(Valid, time) /\ Recent = [n \in 1 .. m |-> Recent[n]] /\ m \in Nat /\ m <= NLine
      /\ m = NLine <=> Valid = Line
      /\ \A j \in Valid : Recent[Rank(Valid, time, j) + 1] = tag[j]
  BY PlaceOf DEF Placed
<1>2. tag'[i] = t /\ \A j \in Valid \ {i} : tag'[j] = tag[j]
  BY DEF SetInv, SetTypeOK, Valid
<1>3. Lru!ToFront(t, p)
  <2>. HIDE DEF p
  <2>1. p = IF i \in Valid THEN Rank(Valid, time, i) + 1 ELSE Cardinality(Valid) + 1
    BY DEF p
  <2>. QED
    BY <1>2, <2>1, TouchMoves
<1>4. Len(Recent) = m /\ DOMAIN Recent = 1 .. m
  BY <1>1
<1>5. ~Lru!Present(t)
  <2>1. ASSUME NEW n \in 1 .. m PROVE Recent[n] # t
    <3>1. PICK j \in Valid : Rank(Valid, time, j) = n - 1
      BY <1>1, RanksFill
    <3>2. Recent[n] = tag[j]
      BY <1>1, <3>1
    <3>. QED
      BY <3>2 DEF Chosen, Hit
  <2>. QED
    BY <1>4, <2>1 DEF Lru!Present
<1>6. CASE Valid # Line
  <2>1. i \notin Valid /\ p = m + 1 /\ m < NLine
    BY <1>1, <1>6, CacheAssumption DEF Chosen, FirstInvalid
  <2>. QED
    BY <1>3, <1>4, <1>5, <2>1 DEF Lru!Use
<1>7. CASE Valid = Line
  <2>1. Victim(i) /\ i \in Valid /\ m = NLine
    BY <1>1, <1>7 DEF Chosen
  <2>2. PICK j \in Valid : Rank(Valid, time, j) = NLine - 1
    <3>1. NLine \in 1 .. Cardinality(Valid)
      BY <2>1, CacheAssumption
    <3>. QED
      BY <1>1, <3>1, RanksFill
  <2>3. j = i
    <3>1. ASSUME time[j] < time[i] PROVE FALSE
      <4>1. Rank(Valid, time, j) < Rank(Valid, time, i) /\ Rank(Valid, time, i) < m
            /\ Rank(Valid, time, i) \in Nat
        BY <1>1, <2>1, <3>1, RankOrder, RankRange
      <4>. QED
        BY <2>1, <2>2, <4>1, CacheAssumption
    <3>2. time[j] = time[i]
      BY <1>7, <2>1, <3>1 DEF Victim
    <3>. QED
      BY <1>1, <2>1, <3>2 DEF Ranked
  <2>4. p = NLine
    BY <2>1, <2>2, <2>3, CacheAssumption
  <2>. QED
    BY <1>3, <1>4, <1>5, <2>1, <2>4 DEF Lru!Use
<1>. QED
  BY <1>6, <1>7

LEMMA StepUses == SetInv /\ SetInv' /\ [SetNext]_setVars => [Lru!Next]_Recent
<1>. SUFFICES ASSUME SetInv, SetInv', [SetNext]_setVars PROVE Lru!Next \/ Recent' = Recent
  OBVIOUS
<1>1. CASE UNCHANGED setVars
  BY <1>1 DEF setVars, Recent, Valid
<1>2. CASE Reset
  <2>1. Valid' = {}
    BY <1>2 DEF Reset, Valid
  <2>2. Cardinality(Valid') = 0
    BY <2>1, FS_EmptySet
  <2>3. Recent' = <<>>
    BY <2>2, PlaceNext DEF Placed
  <2>. QED
    BY <2>3 DEF Lru!Next, Lru!Reset
<1>3. ASSUME NEW t \in Tag, NEW o \in Offset, ReadHit(t, o) PROVE Lru!Use(t)
  <2>1. PICK i \in Line : Holds(i, t) /\ Touch(i)
    BY <1>3 DEF ReadHit
  <2>2. Valid' = Valid /\ UNCHANGED tag
    BY <1>3 DEF ReadHit, Valid
  <2>. QED
    BY <2>1, <2>2, HitUses
<1>4. ASSUME NEW t \in Tag, NEW o \in Offset, NEW val \in ByteValue, WriteHit(t, o, val) PROVE Lru!Use(t)
  <2>1. PICK i \in Line : Holds(i, t) /\ Touch(i) /\ state' = [state EXCEPT ![i] = "dirty"]
    BY <1>4 DEF WriteHit
  <2>2. Valid' = Valid /\ UNCHANGED tag
    BY <1>4, <2>1 DEF WriteHit, Valid, Holds, SetInv, SetTypeOK
  <2>. QED
    BY <2>1, <2>2, HitUses
<1>5. ASSUME NEW t \in Tag, NEW i \in Line, NEW s \in {"clean", "dirty"}, NEW b, Loaded(i, t, s, b)
      PROVE  Lru!Use(t)
  <2>1. Valid' = Valid \cup {i}
    BY <1>5 DEF Loaded, Valid, SetInv, SetTypeOK
  <2>. QED
    BY <1>5, <2>1, MissUses DEF Loaded
<1>6. ASSUME NEW t \in Tag, NEW o \in Offset, ReadMiss(t, o) PROVE Lru!Use(t)
  BY <1>5, <1>6, ReadMissLoads
<1>7. ASSUME NEW t \in Tag, NEW o \in Offset, NEW val \in ByteValue, WriteMiss(t, o, val) PROVE Lru!Use(t)
  <2>. DEFINE b == [dram'[t] EXCEPT ![o] = val]
  <2>1. PICK i \in Line : Loaded(i, t, "dirty", b)
    BY <1>7, WriteMissLoads
  <2>. HIDE DEF b
  <2>. QED
    BY <1>5, <2>1
<1>. QED
  BY <1>1, <1>2, <1>3, <1>4, <1>6, <1>7 DEF SetNext, Lru!Next

\* The set holds the blocks used last, for any number of lines, whichever
\* mix of hits, misses and resets came before.
THEOREM LeastRecentlyUsed == SetSpec => HoldsRecent
<1>1. SetInit => Lru!Init
  <2>. SUFFICES ASSUME SetInit PROVE Recent = <<>>
    BY DEF Lru!Init
  <2>1. Valid = {}
    BY DEF SetInit, Valid
  <2>. QED
    BY <2>1, FS_EmptySet DEF Recent
<1>. QED
  BY <1>1, StepUses, Invariance, PTL DEF SetSpec, HoldsRecent, Lru!Spec
=============================================================================
