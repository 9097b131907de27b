------------------------------- MODULE HashTable -------------------------------
(***************************************************************************)
(* The extendible hash table (algorithm/hashtable.c).  A directory of      *)
(* 2^globaldepth entries points to buckets; the low bits of a hash choose  *)
(* the entry, and a bucket answers for the entries that agree with it in   *)
(* its own localdepth low bits.  A call is one step; hashtable_free, which *)
(* may go wrong in the middle, makes a step for each entry.                *)
(*                                                                         *)
(* A key is what its hash and its comparison tell apart; the hash function *)
(* itself is a parameter.  A definition called "faulty" is a slip the code *)
(* might have had; nothing uses it but the tests of the properties.        *)
(***************************************************************************)
EXTENDS Integers, Sequences, FiniteSets

CONSTANTS
    HashKeys,       \* the keys
    HashOf(_),      \* hash_function
    BucketSize,     \* size, given to hashtable_construct, not 0
    MaxPairs,       \* bound: pairs in the table
    MaxCopies       \* bound: pairs with one key

VARIABLES
    globaldepth,
    directory,      \* from 0 to 2^globaldepth - 1, buckets
    buckets,        \* what was allocated: localdepth and the pairs in order
    table           \* "open", "aborted", "freeing", "freed" or "overfreed"

vars == <<globaldepth, directory, buckets, table>>

NoBucket == 0

\* 1 << d
Pow2(d) == LET pow[i \in 0 .. d] == IF i = 0 THEN 1 ELSE 2 * pow[i - 1] IN pow[d]

\* lowbits_n, and the bit above them
Low(h, d) == h % Pow2(d)
Bit(h, d) == (h \div Pow2(d)) % 2

Entries(d) == 0 .. Pow2(d) - 1

NewBucket(d) == [localdepth |-> d, pairs |-> <<>>]

Init ==
    /\ globaldepth = 1
    /\ directory = [h \in Entries(1) |-> h + 1]
    /\ buckets = <<NewBucket(1), NewBucket(1)>>
    /\ table = "open"

-----------------------------------------------------------------------------
(* Lookup.                                                                 *)

Target(k) == directory[Low(HashOf(k), globaldepth)]

\* the places of k in its bucket; hashtable_get takes the first
Places(k) ==
    LET pairs == buckets[Target(k)].pairs
    IN  {j \in DOMAIN pairs : pairs[j].key = k}

Found(k) == Places(k) # {}

\* Faulty: the search does not stop at a match.
GetLast(k) == buckets[Target(k)].pairs[CHOOSE j \in Places(k) : \A l \in Places(k) : l <= j].value

Get(k) == buckets[Target(k)].pairs[CHOOSE j \in Places(k) : \A l \in Places(k) : j <= l].value

-----------------------------------------------------------------------------
(* Insertion.                                                              *)

Full(b) == Len(buckets[b].pairs) = BucketSize

\* insert_bucket_tail asserts that there is room
InsertTail(bs, b, k, v) ==
    IF Len(bs[b].pairs) < BucketSize
    THEN /\ buckets' = [bs EXCEPT ![b].pairs = Append(@, [key |-> k, value |-> v])]
         /\ table' = table
    ELSE /\ buckets' = bs
         /\ table' = "aborted"

\* the pairs of b whose hash has this bit next, in order
Half(b, bit) ==
    LET pairs == buckets[b].pairs
        d == buckets[b].localdepth
        half[i \in 0 .. Len(pairs)] ==
            IF i = 0 THEN <<>>
            ELSE IF Bit(HashOf(pairs[i].key), d) = bit THEN Append(half[i - 1], pairs[i])
            ELSE half[i - 1]
    IN  half[Len(pairs)]

\* one half stays in b, the other goes to a new last bucket
SplitBuckets(b) ==
    LET d == buckets[b].localdepth
    IN  Append([buckets EXCEPT ![b] = [localdepth |-> d + 1, pairs |-> Half(b, 0)]],
               [localdepth |-> d + 1, pairs |-> Half(b, 1)])

\* Faulty: the new entries start from the upper half.
UpperHalf(dir, g, b) ==
    [h \in Entries(g) |->
        IF dir[h] \notin {NoBucket, b} THEN dir[h]
        ELSE IF h < Pow2(g - 1) THEN b ELSE Len(buckets) + 1]

\* the entries that agree with the last pair of b in the old local depth
SplitDirectory(dir, g, b) ==
    LET d    == buckets[b].localdepth
        last == buckets[b].pairs[Len(buckets[b].pairs)].key
    IN  [h \in Entries(g) |->
            IF Low(h, d) # Low(HashOf(last), d) THEN dir[h]
            ELSE IF Bit(h, d) = 0 THEN b ELSE Len(buckets) + 1]

\* twice the directory; the entries of b are left as malloc returned them
Doubled(b) ==
    [h \in Entries(globaldepth + 1) |->
        LET c == directory[Low(h, globaldepth)] IN IF c = b THEN NoBucket ELSE c]

Insert(k, v) ==
    /\ table = "open"
    /\ LET b == Target(k)
           g == IF buckets[b].localdepth = globaldepth THEN globaldepth + 1 ELSE globaldepth
           d == SplitDirectory(IF g = globaldepth THEN directory ELSE Doubled(b), g, b)
       IN  \/ /\ ~ Full(b)
              /\ InsertTail(buckets, b, k, v)
              /\ UNCHANGED <<globaldepth, directory>>
           \/ /\ Full(b)
              /\ globaldepth' = g
              /\ directory' = d
              /\ InsertTail(SplitBuckets(b), d[Low(HashOf(k), g)], k, v)

-----------------------------------------------------------------------------
(* hashtable_free frees the bucket of every entry.  A freed bucket has no  *)
(* depth any more; to read one, as to free it again, is undefined.         *)

Freed(b) == buckets[b].localdepth = 0

Free ==
    /\ table = "open"
    /\ table' = "freeing"
    /\ UNCHANGED <<globaldepth, directory, buckets>>

\* one iteration: the first entry is taken off the directory
FreeEntry ==
    /\ table = "freeing"
    /\ DOMAIN directory # {}
    /\ LET i == CHOOSE i \in DOMAIN directory : \A j \in DOMAIN directory : i <= j
           b == directory[i]
       IN  /\ directory' = [h \in DOMAIN directory \ {i} |-> directory[h]]
           /\ table' = IF Freed(b) THEN "overfreed" ELSE table
           /\ buckets' = [buckets EXCEPT ![b] = NewBucket(0)]
    /\ UNCHANGED globaldepth

\* Faulty: the loop ends at the number of entries before the last doubling.
FreeTableEarly ==
    /\ table = "freeing"
    /\ globaldepth > 1
    /\ \A h \in DOMAIN directory : h >= Pow2(globaldepth - 1)
    /\ table' = "freed"
    /\ UNCHANGED <<globaldepth, directory, buckets>>

FreeTable ==
    /\ table = "freeing"
    /\ DOMAIN directory = {}
    /\ table' = "freed"
    /\ UNCHANGED <<globaldepth, directory, buckets>>

-----------------------------------------------------------------------------
Pairs == UNION {{<<b, j>> : j \in DOMAIN buckets[b].pairs} : b \in DOMAIN buckets}

Copies(k) == {x \in Pairs : buckets[x[1]].pairs[x[2]].key = k}

\* values tell the copies of a key apart
InsertNext(k) ==
    /\ Cardinality(Pairs) < MaxPairs
    /\ Cardinality(Copies(k)) < MaxCopies
    /\ Insert(k, Cardinality(Copies(k)) + 1)

Next == (\E k \in HashKeys : InsertNext(k)) \/ Free \/ FreeEntry \/ FreeTable

Spec == Init /\ [][Next]_vars

-----------------------------------------------------------------------------
Usable == table \in {"open", "aborted"}

\* The buckets share out the directory: two entries lead to one bucket
\* exactly when they agree in its local depth, no bucket is deeper than the
\* directory or over its size, and every pair lies where its hash leads.
\* Doubling, splitting and the entries filled from the last pair's hash
\* (hashtable.c:157, 201) must agree on that, also after an abort.
DirectoryExact ==
    Usable =>
        /\ DOMAIN directory = Entries(globaldepth)
        /\ \A h \in DOMAIN directory :
               LET b == directory[h]
                   d == buckets[b].localdepth
               IN  /\ b \in DOMAIN buckets
                   /\ d \in 1..globaldepth
                   /\ Len(buckets[b].pairs) <= BucketSize
                   /\ \A i \in DOMAIN directory : directory[i] = b <=> Low(i, d) = Low(h, d)
                   /\ \A j \in DOMAIN buckets[b].pairs :
                          Low(HashOf(buckets[b].pairs[j].key), d) = Low(h, d)

\* hashtable_free (hashtable.c:72) goes over the entries: it frees every
\* bucket once when each has one entry, and frees a bucket twice, which the C
\* library does not survive, whenever some bucket has more, as after a
\* doubling that has not been followed by the splits of the others.
FreesExactly ==
    /\ table = "freed" =>
           /\ Len(buckets) = Pow2(globaldepth)
           /\ \A b \in DOMAIN buckets : Freed(b)
    /\ table = "overfreed" => Len(buckets) < Pow2(globaldepth)

\* The promise: a dictionary in which the first value of a key stays.
D == INSTANCE Dictionary
     WITH Keys <- HashKeys, Values <- 1..MaxCopies,
          dict <- [k \in {x \in HashKeys : Usable /\ Found(x)} |-> Get(k)],
          open <- Usable

\* Whatever order of insertions, splits and doublings: hashtable_get finds
\* what was inserted, with the value of the first insertion, and nothing else
\* (hashtable.c:120, 140).
ImplementsDictionary == D!Spec
=============================================================================
