---------------------------- MODULE Mesi_proofs ----------------------------
(***************************************************************************)
(* The MESI invariants for every number of cores, and that the cores see   *)
(* one memory.                                                             *)
(***************************************************************************)
EXTENDS Mesi, FiniteSetTheorems, Orders_proofs

-----------------------------------------------------------------------------
(* The core that supplies the line.                                        *)

\* A modified or exclusive supplier is the only core with the line; a shared
\* one shares it with shared cores only.
LEMMA SupplierAlone ==
    ASSUME MesiInv, NEW c \in Core, NEW i \in Supplier(c)
    PROVE  /\ i \in Core /\ i # c /\ core_state[i] \in {"M", "E", "S"}
           /\ core_state[i] \in {"M", "E"} => \A d \in Core \ {i} : core_state[d] = "I"
           /\ core_state[i] = "S" => \A d \in Core : core_state[d] \in {"S", "I"}
BY DEF MesiInv, MesiTypeOK, State, Exclusive, Supplier

\* Some core supplies the line as soon as another one has it: the loops of
\* read and write do not miss it.
LEMMA NoSupplier ==
    ASSUME NEW c \in Core, Supplier(c) = {}, NEW d \in Core \ {c}
    PROVE  core_state[d] = "I"
<1>. DEFINE T == {i \in Core \ {c} : core_state[i] # "I"}
<1>1. ASSUME T # {} PROVE FALSE
  <2>1. T \in SUBSET Nat
    BY CoreAssumption DEF Core
  <2>2. PICK i \in T : \A j \in T : i <= j
    BY <1>1, <2>1, LeastExists
  <2>3. i \in Supplier(c)
    BY <2>1, <2>2 DEF Supplier, Core
  <2>. QED
    BY <2>3
<1>. QED
  BY <1>1

-----------------------------------------------------------------------------
(* The inductive invariant.                                                *)

\* All lines are invalid before main runs.
LEMMA InitIInv == MesiInit => MesiInv
BY CoreAssumption
DEF MesiInit, MesiInv, MesiTypeOK, State, Exclusive, SharedByTwo, UnmodifiedIsMemory

\* A read, a write and an eviction preserve the inductive invariant.
LEMMA ReadIInv ==
    ASSUME MesiInv, NEW c \in Core, CoreRead(c)
    PROVE  MesiInv'
<1>. USE DEF MesiInv, MesiTypeOK, State, Exclusive, SharedByTwo, UnmodifiedIsMemory
<1>1. CASE CoreReadHit(c)
  BY <1>1 DEF CoreReadHit
<1>2. CASE ReadShared(c)
  <2>1. PICK i \in Supplier(c) :
           /\ mem_value' = IF core_state[i] = "M" THEN core_val[i] ELSE mem_value
           /\ core_state' = [core_state EXCEPT ![i] = "S", ![c] = "S"]
           /\ core_val' = [core_val EXCEPT ![c] = core_val[i]]
           /\ result' = core_val[i]
    BY <1>2 DEF ReadShared
  <2>2. core_state[c] = "I"
    BY <1>2 DEF ReadShared
  <2>3. CASE core_state[i] \in {"M", "E"}
    BY <2>1, <2>2, <2>3, SupplierAlone
  <2>4. CASE core_state[i] = "S"
    BY <2>1, <2>2, <2>4, SupplierAlone
  <2>. QED
    BY <2>3, <2>4, SupplierAlone
<1>3. CASE ReadMemory(c)
  BY <1>3, NoSupplier DEF ReadMemory
<1>. QED
  BY <1>1, <1>2, <1>3 DEF CoreRead

\* After a write, however it is served, the writer is the only holder.
LEMMA WriteIInv ==
    ASSUME MesiInv, NEW c \in Core, NEW val \in LineValue, CoreWrite(c, val)
    PROVE  MesiInv'
<1>. USE DEF MesiInv, MesiTypeOK, State, Exclusive, SharedByTwo, UnmodifiedIsMemory
<1>1. CASE WriteExclusive(c, val)
  BY <1>1 DEF WriteExclusive
<1>2. CASE WriteShared(c, val)
  BY <1>2 DEF WriteShared
<1>3. CASE CoreWriteMiss(c, val)
  <2>1. PICK i \in Supplier(c) :
           /\ mem_value' = IF core_state[i] = "M" THEN core_val[i] ELSE mem_value
           /\ core_state' = [d \in Core |-> IF d = c THEN "M"
                                       ELSE IF d = i \/ core_state[i] = "S" THEN "I"
                                       ELSE core_state[d]]
    BY <1>3 DEF CoreWriteMiss
  <2>2. core_val' = [core_val EXCEPT ![c] = val] /\ result' = result
    BY <1>3 DEF CoreWriteMiss
  <2>3. \A d \in Core : core_state'[d] = IF d = c THEN "M" ELSE "I"
    BY <2>1, SupplierAlone
  <2>. QED
    BY <2>1, <2>2, <2>3, SupplierAlone
<1>4. CASE WriteMemory(c, val)
  BY <1>4, NoSupplier DEF WriteMemory
<1>. QED
  BY <1>1, <1>2, <1>3, <1>4 DEF CoreWrite

\* An eviction leaves the states of the other cores compatible.
LEMMA EvictIInv ==
    ASSUME MesiInv, NEW c \in Core, CoreEvict(c)
    PROVE  MesiInv'
<1>. USE DEF MesiInv, MesiTypeOK, State, Exclusive, SharedByTwo, UnmodifiedIsMemory
<1>1. CASE EvictModified(c)
  BY <1>1 DEF EvictModified
<1>2. CASE EvictExclusive(c)
  BY <1>2 DEF EvictExclusive
<1>3. CASE EvictShared(c)
  <2>. DEFINE sharers == {d \in Core \ {c} : core_state[d] = "S"}
  <2>1. /\ core_state[c] = "S"
        /\ core_state' = [d \in Core |-> IF d = c THEN "I"
                                    ELSE IF sharers = {d} THEN "E" ELSE core_state[d]]
        /\ UNCHANGED <<core_val, mem_value, result>>
    BY <1>3 DEF EvictShared
  <2>2. \A d \in Core : core_state[d] \in {"S", "I"}
    BY <2>1
  <2>3. PICK e \in sharers : TRUE
    BY <2>1
  <2>4. CASE sharers = {e}
    BY <2>1, <2>2, <2>3, <2>4
  <2>5. CASE sharers # {e}
    <3>1. PICK f \in sharers : f # e
      BY <2>3, <2>5
    <3>2. \A d \in Core : sharers # {d}
      BY <2>3, <3>1
    <3>3. \A d \in Core : core_state'[d] = IF d = c THEN "I" ELSE core_state[d]
      BY <2>1, <3>2
    <3>. HIDE DEF sharers
    <3>4. /\ \A d \in sharers : d \in Core /\ d # c /\ core_state[d] = "S"
          /\ \A d \in Core : d # c /\ core_state[d] = "S" => d \in sharers
      BY DEF sharers
    <3>. QED
      BY <2>1, <2>2, <2>3, <3>1, <3>3, <3>4
  <2>. QED
    BY <2>4, <2>5
<1>. QED
  BY <1>1, <1>2, <1>3 DEF CoreEvict

\* Every operation of every core keeps the inductive invariant.
LEMMA NextIInv == MesiInv /\ [MesiNext]_mesiVars => MesiInv'
<1>1. ASSUME MesiInv, UNCHANGED mesiVars PROVE MesiInv'
  BY <1>1 DEF MesiInv, MesiTypeOK, Exclusive, SharedByTwo, UnmodifiedIsMemory, mesiVars
<1>. QED
  BY <1>1, ReadIInv, WriteIInv, EvictIInv DEF MesiNext

\* The inductive invariant holds in every reachable state, for every number
\* of cores.
THEOREM Invariance == MesiSpec => []MesiInv
BY InitIInv, NextIInv, PTL DEF MesiSpec

-----------------------------------------------------------------------------
(* The check of main.                                                      *)

\* The number of cores in a state, as check_state counts them
Count(s) == Cardinality({c \in Core : core_state[c] = s})

\* The counters of check_state: one core in a state that excludes all others
\* leaves CORE_NUM - 1 invalid ones.
LEMMA CountAlone ==
    ASSUME MesiInv, NEW c \in Core, NEW s \in {"M", "E"}, core_state[c] = s
    PROVE  Count(s) = 1 /\ Count("I") = CORE_NUM - 1
<1>1. \A d \in Core \ {c} : core_state[d] = "I"
  BY DEF MesiInv, Exclusive
<1>2. {d \in Core : core_state[d] = s} = {c}
  BY <1>1
<1>3. {d \in Core : core_state[d] = "I"} = Core \ {c}
  BY <1>1
<1>4. Cardinality({c}) = 1
  BY FS_Singleton
<1>5. IsFiniteSet(Core) /\ Cardinality(Core) = CORE_NUM
  BY CoreAssumption, FS_Interval DEF Core
<1>6. Cardinality(Core \ {c}) = CORE_NUM - 1
  BY <1>5, FS_RemoveElement
<1>. QED
  BY <1>2, <1>3, <1>4, <1>6 DEF Count

\* The counter of check_state, for the states the invariant allows.
LEMMA CountShared ==
    ASSUME MesiInv, NEW c \in Core, core_state[c] = "S"
    PROVE  Count("S") >= 2 /\ Count("I") = CORE_NUM - Count("S")
<1>. DEFINE T == {d \in Core : core_state[d] = "S"}
<1>1. PICK d \in Core \ {c} : core_state[d] = "S"
  BY DEF MesiInv, SharedByTwo
<1>2. \A e \in Core : core_state[e] \in {"S", "I"}
  BY DEF MesiInv, MesiTypeOK, State, Exclusive
<1>3. {e \in Core : core_state[e] = "I"} = Core \ T
  BY <1>2
<1>4. /\ IsFiniteSet(Core) /\ Cardinality(Core) = CORE_NUM /\ CORE_NUM \in Nat
      /\ IsFiniteSet(T) /\ Cardinality(T) \in Nat
  <2>1. IsFiniteSet(Core) /\ Cardinality(Core) = CORE_NUM
    BY CoreAssumption, FS_Interval DEF Core
  <2>2. IsFiniteSet(T)
    BY <2>1, FS_Subset
  <2>. QED
    BY <2>1, <2>2, CoreAssumption, FS_CardinalityType
<1>5. Cardinality({c, d}) = 2
  <2>1. IsFiniteSet({c}) /\ Cardinality({c}) = 1
    BY FS_Singleton
  <2>2. Cardinality({c} \cup {d}) = IF d \in {c} THEN Cardinality({c})
                                   ELSE Cardinality({c}) + 1
    BY <2>1, FS_AddElement
  <2>3. {c, d} = {c} \cup {d} /\ d \notin {c}
    BY <1>1
  <2>. QED
    BY <2>1, <2>2, <2>3
<1>6. Cardinality(T) >= 2
  <2>1. {c, d} \in SUBSET T
    BY <1>1
  <2>. QED
    BY <1>4, <1>5, <2>1, FS_Subset
<1>7. Cardinality(Core \ T) = CORE_NUM - Cardinality(T)
  <2>1. Core \cap T = T
    OBVIOUS
  <2>. QED
    BY <1>4, <2>1, FS_Difference
<1>. QED
  BY <1>3, <1>6, <1>7 DEF Count

\* main never prints "failed": check_state accepts every reachable state,
\* for every number of cores.
THEOREM CheckStateHolds == MesiSpec => []CheckState
<1>1. MesiInv => CheckState
  <2>. SUFFICES ASSUME MesiInv PROVE CheckState
    OBVIOUS
  <2>. USE DEF Count
  <2>1. ASSUME NEW c \in Core, core_state[c] = "M" PROVE CheckState
    BY <2>1, CountAlone DEF CheckState
  <2>2. ASSUME NEW c \in Core, core_state[c] = "E" PROVE CheckState
    BY <2>2, CountAlone DEF CheckState
  <2>3. ASSUME NEW c \in Core, core_state[c] = "S" PROVE CheckState
    BY <2>3, CountShared DEF CheckState
  <2>4. ASSUME \A c \in Core : core_state[c] = "I" PROVE CheckState
    <3>1. {c \in Core : core_state[c] = "I"} = Core
      BY <2>4
    <3>2. Cardinality(Core) = CORE_NUM
      BY CoreAssumption, FS_Interval DEF Core
    <3>. QED
      BY <3>1, <3>2 DEF CheckState
  <2>. QED
    BY <2>1, <2>2, <2>3, <2>4 DEF MesiInv, MesiTypeOK, State
<1>. QED
  BY <1>1, Invariance, PTL

-----------------------------------------------------------------------------
(* One memory for all cores.                                               *)

\* Any core that holds the line holds its current value.
LEMMA HoldersAgree ==
    MesiInv => /\ \A c \in Core : core_state[c] # "I" => Current = core_val[c]
               /\ (\A c \in Core : core_state[c] = "I") => Current = mem_value
               /\ ~Modified => Current = mem_value
<1>. SUFFICES ASSUME MesiInv
              PROVE  /\ \A c \in Core : core_state[c] # "I" => Current = core_val[c]
                     /\ (\A c \in Core : core_state[c] = "I") => Current = mem_value
                     /\ ~Modified => Current = mem_value
  OBVIOUS
<1>1. ASSUME NEW c \in Core, NEW d \in Core, core_state[c] # "I", core_state[d] # "I"
      PROVE  core_val[c] = core_val[d]
  BY <1>1 DEF MesiInv, MesiTypeOK, State, Exclusive, UnmodifiedIsMemory
<1>2. ASSUME NEW c \in Core, core_state[c] # "I"
      PROVE  Current = core_val[c]
  <2>1. PICK d \in Core : d = (CHOOSE e \in Core : core_state[e] # "I") /\ core_state[d] # "I"
    BY <1>2
  <2>2. Current = core_val[d]
    BY <1>2, <2>1 DEF Current
  <2>. QED
    BY <1>1, <1>2, <2>1, <2>2
<1>3. ASSUME \A c \in Core : core_state[c] = "I"
      PROVE  Current = mem_value
  BY <1>3 DEF Current
<1>4. ASSUME ~Modified
      PROVE  Current = mem_value
  BY <1>2, <1>3, <1>4 DEF Modified, MesiInv, MesiTypeOK, State, UnmodifiedIsMemory
<1>. QED
  BY <1>2, <1>3, <1>4

\* What HoldersAgree says, as a state predicate that can be primed
Agree ==
    /\ \A c \in Core : core_state[c] # "I" => Current = core_val[c]
    /\ (\A c \in Core : core_state[c] = "I") => Current = mem_value
    /\ ~Modified => Current = mem_value

\* A read returns the current value and keeps it.
LEMMA ReadImplements ==
    ASSUME MesiInv, MesiInv', Agree, Agree', NEW c \in Core, CoreRead(c)
    PROVE  Shared!Read
<1>. USE DEF Shared!Read, Shared!WriteBack
<1>1. CASE CoreReadHit(c)
  <2>1. UNCHANGED <<Current, Modified>>
    BY <1>1 DEF CoreReadHit, Current, Modified
  <2>. QED
    BY <1>1, <2>1 DEF CoreReadHit, Agree
<1>2. CASE ReadShared(c)
  <2>1. PICK i \in Supplier(c) :
           /\ mem_value' = IF core_state[i] = "M" THEN core_val[i] ELSE mem_value
           /\ core_state' = [core_state EXCEPT ![i] = "S", ![c] = "S"]
           /\ core_val' = [core_val EXCEPT ![c] = core_val[i]]
           /\ result' = core_val[i]
    BY <1>2 DEF ReadShared
  <2>2. i \in Core /\ i # c /\ core_state[i] \in {"M", "E", "S"}
    BY <2>1, SupplierAlone
  <2>3. core_state'[c] = "S" /\ core_val'[c] = core_val[i]
    BY <2>1, <2>2 DEF MesiInv, MesiTypeOK
  <2>4. Current = core_val[i] /\ Current' = core_val[i]
    BY <2>2, <2>3 DEF Agree
  <2>5. ~Modified'
    BY <2>3 DEF Modified, MesiInv, Exclusive
  <2>6. CASE core_state[i] = "M"
    BY <2>1, <2>2, <2>4, <2>5, <2>6 DEF Modified
  <2>7. CASE core_state[i] # "M"
    <3>1. ~Modified
      BY <2>2, <2>7 DEF Modified, MesiInv, Exclusive
    <3>2. Modified' = Modified
      BY <2>5, <3>1 DEF Modified
    <3>3. mem_value' = mem_value
      BY <2>1, <2>7
    <3>. QED
      BY <2>1, <2>4, <3>2, <3>3
  <2>. QED
    BY <2>6, <2>7
<1>3. CASE ReadMemory(c)
  <2>1. \A d \in Core : core_state[d] = "I"
    BY <1>3, NoSupplier DEF ReadMemory
  <2>2. core_state'[c] = "E" /\ core_val'[c] = mem_value
    BY <1>3 DEF ReadMemory, MesiInv, MesiTypeOK
  <2>3. ~Modified /\ ~Modified'
    BY <2>1, <2>2 DEF Modified, MesiInv, Exclusive
  <2>4. Current = mem_value /\ Current' = mem_value
    BY <2>1, <2>2 DEF Agree
  <2>5. Modified' = Modified
    BY <2>3 DEF Modified
  <2>. QED
    BY <1>3, <2>4, <2>5 DEF ReadMemory
<1>. QED
  BY <1>1, <1>2, <1>3 DEF CoreRead

\* A write makes its value the current one.
LEMMA WriteImplements ==
    ASSUME MesiInv, MesiInv', Agree, Agree', NEW c \in Core, NEW val \in LineValue, CoreWrite(c, val)
    PROVE  Shared!Write
<1>1. core_state'[c] = "M" /\ core_val'[c] = val /\ result' = result
  BY DEF CoreWrite, WriteExclusive, WriteShared, CoreWriteMiss, WriteMemory, MesiInv, MesiTypeOK
<1>2. Current' = val /\ Modified'
  BY <1>1 DEF Agree, Modified
<1>3. mem_value' = mem_value \/ (Modified /\ mem_value' = Current)
  <2>1. CASE CoreWriteMiss(c, val)
    <3>1. PICK i \in Supplier(c) : mem_value' = IF core_state[i] = "M" THEN core_val[i] ELSE mem_value
      BY <2>1 DEF CoreWriteMiss
    <3>2. i \in Core
      BY SupplierAlone
    <3>. QED
      BY <3>1, <3>2 DEF Agree, Modified
  <2>2. CASE ~CoreWriteMiss(c, val)
    BY <2>2 DEF CoreWrite, WriteExclusive, WriteShared, WriteMemory
  <2>. QED
    BY <2>1, <2>2
<1>. QED
  BY <1>1, <1>2, <1>3 DEF Shared!Write, Shared!WriteBack

\* An eviction of a clean line is invisible.
LEMMA EvictImplements ==
    ASSUME MesiInv, MesiInv', Agree, Agree', NEW c \in Core, CoreEvict(c), ~EvictModified(c)
    PROVE  UNCHANGED Shared!vars
<1>1. mem_value' = mem_value /\ result' = result
  BY DEF CoreEvict, EvictExclusive, EvictShared
<1>2. ~Modified /\ ~Modified'
  BY DEF Modified, CoreEvict, EvictExclusive, EvictShared, MesiInv, MesiTypeOK, State, Exclusive
<1>3. Current = mem_value /\ Current' = mem_value
  BY <1>1, <1>2 DEF Agree
<1>4. Modified' = Modified
  BY <1>2 DEF Modified
<1>. QED
  BY <1>1, <1>3, <1>4 DEF Shared!vars

\* The cores see one value: every read returns the last value written, with
\* the exception the property makes, the eviction of a modified line.
THEOREM Coherence == MesiSpec => CachesCoherent
<1>1. MesiInv => Agree
  BY HoldersAgree DEF Agree
<1>2. MesiInit => Shared!Init
  <2>. SUFFICES ASSUME MesiInit PROVE Shared!Init
    OBVIOUS
  <2>1. \A c \in Core : core_state[c] = "I"
    BY DEF MesiInit
  <2>2. ~Modified /\ Current = mem_value
    BY <2>1 DEF Modified, Current
  <2>. QED
    BY <2>2 DEF Shared!Init
<1>3. ASSUME MesiInv, MesiInv', Agree, Agree', [MesiNext]_mesiVars
      PROVE  [(\E c \in Core : EvictModified(c)) \/ [Shared!Next]_(Shared!vars)]_mesiVars
  <2>1. CASE UNCHANGED mesiVars
    BY <2>1
  <2>2. ASSUME NEW c \in Core, CoreRead(c) PROVE Shared!Next
    BY <1>3, <2>2, ReadImplements DEF Shared!Next
  <2>3. ASSUME NEW c \in Core, NEW val \in LineValue, CoreWrite(c, val) PROVE Shared!Next
    BY <1>3, <2>3, WriteImplements DEF Shared!Next
  <2>4. ASSUME NEW c \in Core, CoreEvict(c) PROVE EvictModified(c) \/ UNCHANGED Shared!vars
    BY <1>3, <2>4, EvictImplements
  <2>. QED
    BY <1>3, <2>1, <2>2, <2>3, <2>4 DEF MesiNext
<1>. QED
  BY <1>1, <1>2, <1>3, Invariance, PTL DEF MesiSpec, CachesCoherent
=============================================================================
