-------------------------------- MODULE Mesi --------------------------------
(***************************************************************************)
(* The MESI protocol on one cache line of several cores (test_mesi.c).     *)
(* Every call of read, write and evict is one step, as in main, which      *)
(* draws the core and the operation at random.                             *)
(*                                                                         *)
(* A definition called "faulty" is a slip the code might have had; nothing *)
(* uses it but the tests of the properties.                                *)
(***************************************************************************)
EXTENDS Integers, FiniteSets

CONSTANTS
    CORE_NUM,    \* the number of cores
    LineValue,   \* the values of the line
    InitMem,     \* mem_value before main runs
    InitCache,   \* the value main gives the caches
    NoValue      \* nothing has been read yet

Core == 0 .. CORE_NUM - 1

ASSUME CoreAssumption ==
    /\ CORE_NUM \in Nat \ {0}
    /\ InitMem \in LineValue /\ InitCache \in LineValue

VARIABLES
    core_state,  \* core_state[c]: cacheline_state, one of M, E, S, I
    core_val,    \* core_val[c]: the value in the line of core c
    mem_value,   \* the value in main memory
    result       \* the value the last read returned

mesiVars == <<core_state, core_val, mem_value, result>>

State == {"M", "E", "S", "I"}

\* The loops over the other cores stop at the first that is not invalid.
Supplier(c) ==
    {i \in Core \ {c} : core_state[i] # "I" /\ \A j \in Core \ {c} : j < i => core_state[j] = "I"}

-----------------------------------------------------------------------------

CoreReadHit(c) ==
    /\ core_state[c] # "I"
    /\ result' = core_val[c]
    /\ UNCHANGED <<core_state, core_val, mem_value>>

\* Faulty: the supplier does not write a dirty value back.
ReadSharedNoWriteBack(c) ==
    /\ core_state[c] = "I"
    /\ \E i \in Supplier(c) :
          /\ core_state' = [core_state EXCEPT ![i] = "S", ![c] = "S"]
          /\ core_val' = [core_val EXCEPT ![c] = core_val[i]]
          /\ result' = core_val[i]
    /\ UNCHANGED mem_value

\* Another core supplies the value, after writing it back if it is dirty.
ReadShared(c) ==
    /\ core_state[c] = "I"
    /\ \E i \in Supplier(c) :
          /\ mem_value' = IF core_state[i] = "M" THEN core_val[i] ELSE mem_value
          /\ core_state' = [core_state EXCEPT ![i] = "S", ![c] = "S"]
          /\ core_val' = [core_val EXCEPT ![c] = core_val[i]]
          /\ result' = core_val[i]

ReadMemory(c) ==
    /\ core_state[c] = "I" /\ Supplier(c) = {}
    /\ core_state' = [core_state EXCEPT ![c] = "E"]
    /\ core_val' = [core_val EXCEPT ![c] = mem_value]
    /\ result' = mem_value
    /\ UNCHANGED mem_value

WriteExclusive(c, val) ==
    /\ core_state[c] \in {"M", "E"}
    /\ core_state' = [core_state EXCEPT ![c] = "M"]
    /\ core_val' = [core_val EXCEPT ![c] = val]
    /\ UNCHANGED <<mem_value, result>>

WriteShared(c, val) ==
    /\ core_state[c] = "S"
    /\ core_state' = [d \in Core |-> IF d = c THEN "M" ELSE "I"]
    /\ core_val' = [core_val EXCEPT ![c] = val]
    /\ UNCHANGED <<mem_value, result>>

\* Faulty: only the supplier is invalidated, also if it is one of several.
CoreWriteMissInvalidatesOne(c, val) ==
    /\ core_state[c] = "I"
    /\ \E i \in Supplier(c) :
          /\ mem_value' = IF core_state[i] = "M" THEN core_val[i] ELSE mem_value
          /\ core_state' = [core_state EXCEPT ![i] = "I", ![c] = "M"]
    /\ core_val' = [core_val EXCEPT ![c] = val]
    /\ UNCHANGED result

\* A supplier in M or E is the only core invalidated, one in S invalidates all.
CoreWriteMiss(c, val) ==
    /\ core_state[c] = "I"
    /\ \E i \in Supplier(c) :
          /\ mem_value' = IF core_state[i] = "M" THEN core_val[i] ELSE mem_value
          /\ core_state' = [d \in Core |-> IF d = c THEN "M"
                                           ELSE IF d = i \/ core_state[i] = "S" THEN "I"
                                           ELSE core_state[d]]
    /\ core_val' = [core_val EXCEPT ![c] = val]
    /\ UNCHANGED result

WriteMemory(c, val) ==
    /\ core_state[c] = "I" /\ Supplier(c) = {}
    /\ core_state' = [core_state EXCEPT ![c] = "M"]
    /\ core_val' = [core_val EXCEPT ![c] = val]
    /\ UNCHANGED <<mem_value, result>>

\* write_core_val(core_num, mem_value) goes from memory to the cache: the value
\* the comment says is written back is overwritten.
EvictModified(c) ==
    /\ core_state[c] = "M"
    /\ core_val' = [core_val EXCEPT ![c] = mem_value]
    /\ core_state' = [core_state EXCEPT ![c] = "I"]
    /\ UNCHANGED <<mem_value, result>>

EvictExclusive(c) ==
    /\ core_state[c] = "E"
    /\ core_state' = [core_state EXCEPT ![c] = "I"]
    /\ UNCHANGED <<core_val, mem_value, result>>

\* Faulty: the last sharer left stays shared.
EvictSharedNoUpgrade(c) ==
    /\ core_state[c] = "S"
    /\ core_state' = [core_state EXCEPT ![c] = "I"]
    /\ UNCHANGED <<core_val, mem_value, result>>

\* The last sharer left becomes exclusive.
EvictShared(c) ==
    LET sharers == {d \in Core \ {c} : core_state[d] = "S"}
    IN  /\ core_state[c] = "S"
        /\ core_state' = [d \in Core |-> IF d = c THEN "I"
                                         ELSE IF sharers = {d} THEN "E"
                                         ELSE core_state[d]]
        /\ UNCHANGED <<core_val, mem_value, result>>

MesiInit ==
    /\ core_state = [c \in Core |-> "I"]
    /\ core_val = [c \in Core |-> InitCache]
    /\ mem_value = InitMem
    /\ result = NoValue

CoreRead(c) == CoreReadHit(c) \/ ReadShared(c) \/ ReadMemory(c)

CoreWrite(c, val) ==
    WriteExclusive(c, val) \/ WriteShared(c, val) \/ CoreWriteMiss(c, val) \/ WriteMemory(c, val)

CoreEvict(c) == EvictModified(c) \/ EvictExclusive(c) \/ EvictShared(c)

MesiNext ==
    \E c \in Core :
        \/ CoreRead(c)
        \/ \E val \in LineValue : CoreWrite(c, val)
        \/ CoreEvict(c)

MesiSpec == MesiInit /\ [][MesiNext]_mesiVars

-----------------------------------------------------------------------------
(* Properties.                                                             *)

\* The types of the variables
MesiTypeOK ==
    /\ core_state \in [Core -> State]
    /\ core_val \in [Core -> LineValue]
    /\ mem_value \in LineValue
    /\ result \in LineValue \cup {NoValue}

\* check_state, which main asserts after every operation: the line is
\* modified or exclusive in one core, shared by two or more, or nowhere.
CheckState ==
    LET count(s) == Cardinality({c \in Core : core_state[c] = s})
    IN  \/ count("M") = 1 /\ count("I") = CORE_NUM - 1
        \/ count("E") = 1 /\ count("I") = CORE_NUM - 1
        \/ count("S") >= 2 /\ count("I") = CORE_NUM - count("S")
        \/ count("I") = CORE_NUM

\* A core that holds the line modified or exclusive holds it alone.
Exclusive ==
    \A c, d \in Core : c # d /\ core_state[c] \in {"M", "E"} => core_state[d] = "I"

\* A core that holds the line shared does share it.
SharedByTwo ==
    \A c \in Core : core_state[c] = "S" => \E d \in Core \ {c} : core_state[d] = "S"

\* A line that is not modified has the value of main memory, so a core may
\* drop it or hand it on without writing it back.
UnmodifiedIsMemory ==
    \A c \in Core : core_state[c] \in {"E", "S"} => core_val[c] = mem_value

\* The inductive invariant
MesiInv == MesiTypeOK /\ Exclusive /\ SharedByTwo /\ UnmodifiedIsMemory

\* The value of the line: that of any core which holds it, else of memory
Current ==
    IF \E c \in Core : core_state[c] # "I"
    THEN core_val[CHOOSE c \in Core : core_state[c] # "I"]
    ELSE mem_value

Modified == \E c \in Core : core_state[c] = "M"

Shared == INSTANCE CoherentMemory WITH Value <- LineValue, value <- Current,
                                       stored <- mem_value, dirty <- Modified

\* All cores read one value, the one written last by any of them: whichever
\* core a read asks, and whatever its cache and the memory hold, no step loses
\* a value or brings an older one back, with one exception.  The eviction of a
\* modified line does both; it is excepted here and refuted, against what the
\* source says of it, by ModifiedWrittenBack.
CachesCoherent ==
    /\ Shared!Init
    /\ [][(\E c \in Core : EvictModified(c)) \/ [Shared!Next]_(Shared!vars)]_mesiVars

\* test_mesi.c:286, "write the data back to memory" (in Chinese), and the
\* message in line 290: when a core gives up a modified line, by its own
\* eviction or because another core takes the line, main memory has the value.
ModifiedWrittenBack ==
    [][\A c \in Core :
          core_state[c] = "M" /\ core_state'[c] # "M" => mem_value' = core_val[c]]_mesiVars
=============================================================================
