---------------------------- MODULE BlockMemory ----------------------------
(***************************************************************************)
(* What sram_cache_read and sram_cache_write promise: a memory of bytes.   *)
(* A read returns the byte written last, and a write changes no other.     *)
(* There are exceptions: what only the cache has is lost when the cache is *)
(* reset, and may be when a block takes the place of another.              *)
(***************************************************************************)
CONSTANTS Tag, Offset, Value

VARIABLES
    mem,         \* mem[t][o]: byte o of block t
    stored,      \* what main memory has of it
    byte,        \* what the last read returned
    evicting     \* the next block to be loaded takes the place of one that
                 \* main memory has not got

vars == <<mem, stored, byte, evicting>>

Read(t, o) ==
    /\ byte' = mem[t][o]
    /\ UNCHANGED <<mem, stored>>

Write(t, o, val) ==
    /\ mem' = [mem EXCEPT ![t][o] = val]
    /\ UNCHANGED <<stored, byte>>

\* At most the block evicted and the block loaded change.
Evict ==
    /\ evicting
    /\ \E s, t \in Tag : \A u \in Tag \ {s, t} : mem'[u] = mem[u]

Reset ==
    /\ mem' = stored
    /\ UNCHANGED <<stored, byte>>

Init == mem = stored

Next ==
    \/ \E t \in Tag, o \in Offset : Read(t, o)
    \/ \E t \in Tag, o \in Offset, val \in Value : Write(t, o, val)
    \/ Evict
    \/ Reset

Spec == Init /\ [][Next]_vars
=============================================================================
