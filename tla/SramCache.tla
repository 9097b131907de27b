----------------------------- MODULE SramCache -----------------------------
(***************************************************************************)
(* One set of the cache between the processor and main memory, and the     *)
(* blocks of main memory that compete for it (cpu/sram.c, memory/dram.c).  *)
(* The sets do not interact: an address belongs to one set, and the blocks *)
(* of main memory a set reads and writes are those of its addresses.       *)
(*                                                                         *)
(* Every call of sram_cache_read and sram_cache_write is one step.  Such a *)
(* call ages all lines, finds the first invalid line and the line with the *)
(* greatest age, and then looks for the block.                             *)
(*                                                                         *)
(* A definition called "faulty" is a slip the code might have had; nothing *)
(* uses it but the tests of the properties.                                *)
(***************************************************************************)
EXTENDS Integers, FiniteSets

CONSTANTS
    Tag,         \* the values of paddr.ct
    Offset,      \* the values of paddr.co
    ByteValue,   \* the values of a byte
    NLine,       \* NUM_CACHE_LINE_PER_SET
    MaxTime,     \* the greatest value of the int time; beyond it the
                 \* addition is undefined, and the model stops
    NoTag,       \* the tag of a line never used
    NoByte       \* nothing has been read yet

Line  == 1 .. NLine
Block == [Offset -> ByteValue]

ASSUME CacheAssumption ==
    /\ NLine \in Nat \ {0} /\ MaxTime \in Nat
    /\ NoTag \notin Tag

VARIABLES
    state,       \* lines[i].state
    time,        \* lines[i].time: the accesses to the set since its own last
    tag,         \* lines[i].tag
    block,       \* lines[i].block
    dram,        \* dram[t]: the block of main memory with tag t, in pm[]
    byte         \* the byte the last sram_cache_read returned

setVars == <<state, time, tag, block, dram, byte>>

LineState == {"invalid", "clean", "dirty"}

Valid == {i \in Line : state[i] # "invalid"}

\* The line in which the second loop finds block t
Holds(i, t) ==
    /\ i \in Valid /\ tag[i] = t
    /\ \A j \in Valid : tag[j] = t => i <= j

Hit(t) == \E i \in Valid : tag[i] = t

FirstInvalid(i) == i \in Line \ Valid /\ \A j \in Line \ Valid : i <= j

\* Faulty: the line used last.
VictimYoungest(i) == \A j \in Line : time[j] >= time[i]

\* The first line of those with the greatest age
Victim(i) == \A j \in Line : time[j] < time[i] \/ (time[j] = time[i] /\ i <= j)

\* The first loop adds one to every age, and the line used then gets 0.
Aged == \A i \in Line : time[i] < MaxTime

\* Faulty: a hit does not make the line young again.
TouchOnlyAges(i) == time' = [j \in Line |-> time[j] + 1]

Touch(i) == time' = [j \in Line |-> IF j = i THEN 0 ELSE time[j] + 1]

\* The block is not in the set, and line i is the one it will be loaded to.
Chosen(i, t) ==
    /\ ~Hit(t)
    /\ IF Valid # Line THEN FirstInvalid(i) ELSE Victim(i)

\* The block of a dirty line is written to main memory, to the address that
\* missed, before the line is filled from there.
WriteBack(i, t) ==
    dram' = IF state[i] = "dirty" THEN [dram EXCEPT ![t] = block[i]] ELSE dram

-----------------------------------------------------------------------------

ReadHit(t, o) ==
    /\ Aged
    /\ \E i \in Line :
          /\ Holds(i, t)
          /\ Touch(i)
          /\ byte' = block[i][o]
    /\ UNCHANGED <<state, tag, block, dram>>

ReadMiss(t, o) ==
    /\ Aged
    /\ \E i \in Line :
          /\ Chosen(i, t)
          /\ Touch(i)
          /\ WriteBack(i, t)
          /\ state' = [state EXCEPT ![i] = "clean"]
          /\ tag' = [tag EXCEPT ![i] = t]
          /\ block' = [block EXCEPT ![i] = dram'[t]]
          /\ byte' = dram'[t][o]

\* Faulty: the line stays clean.
WriteHitClean(t, o, val) ==
    /\ Aged
    /\ \E i \in Line :
          /\ Holds(i, t)
          /\ Touch(i)
          /\ block' = [block EXCEPT ![i][o] = val]
    /\ UNCHANGED <<state, tag, dram, byte>>

WriteHit(t, o, val) ==
    /\ Aged
    /\ \E i \in Line :
          /\ Holds(i, t)
          /\ Touch(i)
          /\ state' = [state EXCEPT ![i] = "dirty"]
          /\ block' = [block EXCEPT ![i][o] = val]
    /\ UNCHANGED <<tag, dram, byte>>

\* Faulty: the rest of the block is not loaded.
WriteMissNoAllocate(t, o, val) ==
    /\ Aged
    /\ \E i \in Line :
          /\ Chosen(i, t)
          /\ Touch(i)
          /\ WriteBack(i, t)
          /\ state' = [state EXCEPT ![i] = "dirty"]
          /\ tag' = [tag EXCEPT ![i] = t]
          /\ block' = [block EXCEPT ![i][o] = val]
    /\ UNCHANGED byte

\* Write-allocate: the block is loaded, then one byte of it written.
WriteMiss(t, o, val) ==
    /\ Aged
    /\ \E i \in Line :
          /\ Chosen(i, t)
          /\ Touch(i)
          /\ WriteBack(i, t)
          /\ state' = [state EXCEPT ![i] = "dirty"]
          /\ tag' = [tag EXCEPT ![i] = t]
          /\ block' = [block EXCEPT ![i] = [dram'[t] EXCEPT ![o] = val]]
    /\ UNCHANGED byte

\* sram_reset writes nothing back and leaves the ages.
Reset ==
    /\ state' = [i \in Line |-> "invalid"]
    /\ UNCHANGED <<time, tag, block, dram, byte>>

\* The cache is a static variable, all zero.
SetInit ==
    /\ state = [i \in Line |-> "invalid"]
    /\ time = [i \in Line |-> 0]
    /\ tag = [i \in Line |-> NoTag]
    /\ dram \in [Tag -> Block]
    /\ \E b \in Block : block = [i \in Line |-> b]
    /\ byte = NoByte

SetNext ==
    \/ \E t \in Tag, o \in Offset : ReadHit(t, o) \/ ReadMiss(t, o)
    \/ \E t \in Tag, o \in Offset, val \in ByteValue : WriteHit(t, o, val) \/ WriteMiss(t, o, val)
    \/ Reset

SetSpec == SetInit /\ [][SetNext]_setVars

-----------------------------------------------------------------------------
(* Properties.                                                             *)

\* The types of the variables
SetTypeOK ==
    /\ state \in [Line -> LineState]
    /\ time \in [Line -> 0 .. MaxTime]
    /\ tag \in [Line -> Tag \cup {NoTag}]
    /\ block \in [Line -> Block]
    /\ dram \in [Tag -> Block]
    /\ byte \in ByteValue \cup {NoByte}

\* A block is in one line at most, so the first one found is the only one.
OneLinePerBlock ==
    /\ \A i \in Valid : tag[i] \in Tag
    /\ \A i, j \in Valid : tag[i] = tag[j] => i = j

\* Two lines in use never have the same age: the victim is the only oldest.
AgesDiffer == \A i, j \in Valid : time[i] = time[j] => i = j

\* A clean line may be dropped: main memory has the same block.
CleanIsMemory == \A i \in Valid : state[i] = "clean" => block[i] = dram[tag[i]]

\* The inductive invariant
SetInv == SetTypeOK /\ OneLinePerBlock /\ AgesDiffer /\ CleanIsMemory

\* The valid lines by age, the youngest first
Recent ==
    [n \in 1 .. Cardinality(Valid) |->
        tag[CHOOSE i \in Valid :
               Cardinality({j \in Valid : time[j] < time[i]}) = n - 1]]

Lru == INSTANCE LruSet WITH recent <- Recent

\* The ages implement the order of the last uses: the set always holds the
\* blocks used last, whichever mix of hits, misses and resets came before.
HoldsRecent == Lru!Spec

\* The block the processor reads and writes, in the cache or in main memory
SeenBlock ==
    [t \in Tag |-> IF Hit(t) THEN block[CHOOSE i \in Valid : tag[i] = t] ELSE dram[t]]

\* The set is full, and the line to be evicted next is dirty.
DirtyVictim == Valid = Line /\ \E i \in Line : Victim(i) /\ state[i] = "dirty"

Bytes == INSTANCE BlockMemory WITH Value <- ByteValue, mem <- SeenBlock, stored <- dram,
                                   evicting <- DirtyVictim

\* As long as no dirty line is evicted the cache cannot be seen: every byte
\* read is the one written last, and a write changes no other byte.
CacheTransparent == Bytes!Spec

\* sram.c:115, "need write back first": what a dirty line holds is in main
\* memory when another block takes the line.
WrittenBack ==
    [][\A i \in Valid : state[i] = "dirty" /\ tag'[i] # tag[i] => dram'[tag[i]] = block[i]]_setVars
=============================================================================
