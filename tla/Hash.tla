-------------------------------- MODULE Hash --------------------------------
(***************************************************************************)
(* The hash table of ez_hash.c: an array of list heads, the index of a key *)
(* being its hash value masked with the number of buckets less one, also   *)
(* when that number is no power of two.  The hash and compare functions    *)
(* are the caller's; compare tells keys apart exactly.  Deleted items are  *)
(* not given back to malloc (hash_del), so a table only ever takes memory. *)
(***************************************************************************)
EXTENDS List, Integers, Sequences

CONSTANTS
    Keys,
    Vals,
    KHash,      \* value of k_hash for every key
    Requested,  \* arguments of hash_create
    MinBuckets, \* HASH_MIN_ITEM_SIZE, 16
    MaxBuckets  \* HASH_MAX_ITEM_SIZE, 1024

ASSUME HashAssumption ==
    /\ KHash \in [Keys -> Nat]
    /\ Requested \subseteq Int
    /\ MinBuckets \in Nat \ {0} /\ MaxBuckets \in Nat /\ MinBuckets <= MaxBuckets
    /\ Heads = 0 .. MaxBuckets - 1
    /\ NULL \notin Vals

VARIABLES
    bucket, \* number of buckets
    mem,    \* links of the bucket heads and of the items
    item,   \* key and val of every item
    heap,   \* items malloc has handed out
    ret     \* what the last call returned; NULL for hash_put

vars == <<bucket, mem, item, heap, ret>>

\* MAX and MIN compare as uint32_t: a negative number is larger than all.
Clamp(n) ==
    IF n < 0 \/ n > MaxBuckets THEN MaxBuckets
    ELSE IF n < MinBuckets THEN MinBuckets ELSE n

\* hash_create
Init ==
    /\ bucket \in {Clamp(n) : n \in Requested}
    /\ mem = InitHeads(Unlinked, 0 .. bucket - 1)
    /\ item = [i \in Entries |-> NULL]
    /\ heap = {}
    /\ ret = NULL

\* The operator & of C on naturals.
BitAnd[x \in Nat] ==
    [y \in Nat |-> IF x = 0 \/ y = 0 THEN 0
                   ELSE 2 * BitAnd[x \div 2][y \div 2] + (x % 2) * (y % 2)]

Index(k) == BitAnd[KHash[k]][bucket - 1]

\* Slip: the walk goes on to the last match instead of stopping at the first.
MatchLast(k) ==
    LET w == Visited(mem, Index(k))
        s == {i \in DOMAIN w : item[w[i]].key = k}
    IN  IF s = {} THEN NULL
        ELSE w[CHOOSE i \in s : \A j \in s : j <= i]

\* The first item of the key's bucket whose key compares equal, or NULL.
Match(k) ==
    LET w == Visited(mem, Index(k))
        s == {i \in DOMAIN w : item[w[i]].key = k}
    IN  IF s = {} THEN NULL
        ELSE w[CHOOSE i \in s : \A j \in s : i <= j]

ValOf(i) == IF i = NULL THEN NULL ELSE item[i].val

\* hash_put
Put(k, v) ==
    /\ \E i \in Entries \ heap :
         /\ heap' = heap \cup {i}
         /\ item' = [item EXCEPT ![i] = [key |-> k, val |-> v]]
         /\ mem' = Add(mem, i, Index(k))
    /\ ret' = NULL
    /\ UNCHANGED bucket

\* hash_get
Get(k) ==
    /\ ret' = ValOf(Match(k))
    /\ UNCHANGED <<bucket, mem, item, heap>>

\* hash_del
Delete(k) ==
    /\ ret' = ValOf(Match(k))
    /\ mem' = IF Match(k) = NULL THEN mem ELSE Del(mem, Match(k))
    /\ UNCHANGED <<bucket, item, heap>>

Next == \E k \in Keys : Get(k) \/ Delete(k) \/ \E v \in Vals : Put(k, v)

Spec == Init /\ [][Next]_vars

-----------------------------------------------------------------------------
(* Properties.                                                             *)

\* Cells that are in a ring: the heads of the table and the items that were
\* put and not deleted.
Linked == (0 .. bucket - 1) \cup {i \in heap : mem.next[i] # NULL}

\* After any mix of puts and deletions the rings are sound, forwards and
\* backwards, and a deleted item points nowhere.
RingsSound == Rings(mem, Linked)

\* The values of key k in its bucket, the latest first.
StackOf(k) ==
    LET w == Visited(mem, Index(k))
        last[n \in 0 .. Len(w)] == \* those of the last n items
          IF n = 0 THEN <<>>
          ELSE LET i == w[Len(w) + 1 - n]
               IN  (IF item[i].key = k THEN <<item[i].val>> ELSE <<>>) \o last[n - 1]
    IN  last[Len(w)]

\* Refinement: collisions and masks do not mix keys up, and the bucket lists
\* behave as one stack of values per key.
Abs == INSTANCE ShadowMap WITH
         stacks <- [k \in Keys |-> StackOf(k)], None <- NULL
AbsSpec == Abs!Spec
=============================================================================
