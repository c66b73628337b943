------------------------------ MODULE MCLibrary ------------------------------
(***************************************************************************)
(* Small instances of the data structures and conversions for TLC, which   *)
(* have nothing to do with each other: every behaviour is about one part,  *)
(* and the variables of the others keep one initial value.                 *)
(*                                                                         *)
(* The red-black tree has two parts of its own: any order of calls on six  *)
(* nodes, two of them with the same key; and a tree that is filled with    *)
(* all nodes in ascending order and then drained in every order, which     *)
(* reaches the deletions whose repair climbs several levels.               *)
(***************************************************************************)
EXTENDS Library, Conversions, TLC

VARIABLE part    \* what the behaviour is about

\* Two keys collide, and so do others in the table of three buckets.
SmallKeys == {"k", "l", "m"}
SmallKHash == [k \in SmallKeys |-> CASE k = "k" -> 1 [] k = "l" -> 5 [] k = "m" -> 6]
\* Which address malloc returns makes no difference.
ItemSymmetry == Permutations(Entries)

SmallRequested == {-1, 0, 3}
Buckets == 0 .. MaxBuckets - 1

ManyNodes == 1 .. 10
ManyKeys == [n \in ManyNodes |-> IF n > 4 THEN n - 1 ELSE n]

SmallThreads == {"t", "u"}
SmallPtrs == 1 .. 3
SmallSizes == {1, 2}

SmallData == 1 .. 4
SmallHeaps == {0, 1}

ASSUME LibraryAssumption ==
    /\ R!RBTreeAssumption
    /\ MH!MaxHeapAssumption
    /\ A!AllocAssumption
    /\ ConversionsAssumption

-----------------------------------------------------------------------------
(* Inputs: digits, blanks, signs; characters on both sides of every limit  *)
(* of the table; integers of every width in bytes of eight values.         *)

Wide == {-1, 36, 127, 128, 2047, 2048, 55296, 65535, 65536, 1114111, 1114112}

Values(n) ==
    {-(ByteSpan ^ n \div 2), ByteSpan ^ n \div 2 - 1, -2,
     Buf!FromBig([i \in 1 .. n |-> i - 1], ByteSpan)}
Integers8 ==
    UNION {{[val |-> v, n |-> n, little |-> l] : v \in Values(n), l \in BOOLEAN} :
             n \in {1, 2, 4, 8}}

GrowNumber ==
    /\ part = "number" /\ Len(figures) < 4
    /\ \E c \in 0 .. 13 : figures' = Append(figures, c)
    /\ UNCHANGED <<letters, integers>>

GrowText ==
    /\ part = "text" /\ Len(letters) < 3
    /\ \E c \in Wide : letters' = Append(letters, c)
    /\ UNCHANGED <<figures, integers>>

GrowIntegers ==
    /\ part = "ints" /\ Len(integers) < 2
    /\ \E x \in Integers8 : integers' = Append(integers, x)
    /\ UNCHANGED <<figures, letters>>

InputNext ==
    /\ GrowNumber \/ GrowText \/ GrowIntegers
    /\ UNCHANGED <<part, tree, hashVars, heapVars, allocVars>>

-----------------------------------------------------------------------------
InsertAny == part = "tree" /\ \E n \in 1 .. 6 \ R!Linked : R!Insert(n) /\ UNCHANGED part

Fill ==
    /\ part = "fill"
    /\ LET n == Cardinality(R!Linked) + 1
       IN  /\ R!Insert(n)
           /\ part' = IF n = Cardinality(ManyNodes) THEN "drain" ELSE part

Delete1 ==
    /\ part \in {"tree", "drain"}
    /\ \E n \in R!Linked : R!Delete(n)
    /\ UNCHANGED part

TreeNext ==
    /\ InsertAny \/ Fill \/ Delete1
    /\ UNCHANGED <<hashVars, heapVars, allocVars, inputVars>>

HashNext ==
    /\ part = "hash" /\ Next
    /\ UNCHANGED <<part, tree, heapVars, allocVars, inputVars>>

HeapNext ==
    /\ part = "heap" /\ MH!Next
    /\ UNCHANGED <<part, tree, hashVars, allocVars, inputVars>>

AllocNext ==
    /\ part = "alloc" /\ A!Next
    /\ UNCHANGED <<part, tree, hashVars, heapVars, inputVars>>

MCInit ==
    /\ part \in {"tree", "fill", "hash", "heap", "alloc", "number", "text", "ints"}
    /\ Init /\ (part # "hash" => bucket = MaxBuckets)
    /\ R!Init
    /\ MH!Init /\ (part # "heap" => places = 1)
    /\ A!Init
    /\ figures = <<>> /\ letters = <<>> /\ integers = <<>>

MCNext ==
    \/ TreeNext
    \/ HashNext
    \/ HeapNext
    \/ AllocNext
    \/ InputNext

MCSpec == MCInit /\ [][MCNext]_<<part, tree, hashVars, heapVars, allocVars, inputVars>>
=============================================================================
