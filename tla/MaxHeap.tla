------------------------------- MODULE MaxHeap -------------------------------
(***************************************************************************)
(* The max heap of ez_max_heap.c: an array in which the children of place  *)
(* i are places 2i+1 and 2i+2, with spare capacity.                        *)
(***************************************************************************)
EXTENDS Integers, FiniteSets

CONSTANTS
    Data,    \* values pushed; cmp compares them as numbers
    Sizes,   \* arguments of new_max_heap
    Growth,  \* 16: places extend_max_heap adds
    MaxItems, \* bound: values in the heap at once
    Nothing  \* NULL: the result of popping an empty heap

MaxHeapAssumption ==
    /\ Data \subseteq Int
    /\ Sizes \subseteq Nat
    /\ Growth \in Nat \ {0}
    /\ MaxItems \in Nat
    /\ Nothing \notin Int

VARIABLES
    array,  \* the values, on 0 .. n - 1
    a,      \* places allocated
    ret     \* what the last call returned

vars == <<array, a, ret>>

Size(h) == Cardinality(DOMAIN h)
Parent(i) == (i - 1) \div 2

\* new_max_heap
Init ==
    /\ array = [i \in {} |-> 0]
    /\ a \in Sizes
    /\ ret = Nothing

\* Slip: data is written into every place on its way up, not into the last one.
SiftUpFills(h, data) ==
    LET up[hole \in DOMAIN h] ==
          IF hole > 0 /\ h[Parent(hole)] <= data
          THEN [up[Parent(hole)] EXCEPT ![hole] = data]
          ELSE [h EXCEPT ![hole] = data]
    IN  up[Size(h) - 1]

\* Data comes in at the last place: the hole moves up, each parent that is not
\* larger moves down into it.
SiftUp(h, data) ==
    LET up[hole \in DOMAIN h] ==
          IF hole > 0 /\ h[Parent(hole)] <= data
          THEN [up[Parent(hole)] EXCEPT ![hole] = h[Parent(hole)]]
          ELSE [h EXCEPT ![hole] = data]
    IN  up[Size(h) - 1]

\* The child that moves up into the hole: the left one if there is no right.
LargerChild(h, right) ==
    IF right = Size(h) \/ h[right - 1] > h[right] THEN right - 1 ELSE right

\* The hole of a pop moves down to a leaf, which takes the last value.
SinkHole(h) ==
    LET down[hole \in DOMAIN h] ==
          LET right == 2 * (hole + 1)
              child == LargerChild(h, right)
          IN  IF right <= Size(h)
              THEN [down[child] EXCEPT ![hole] = h[child]]
              ELSE [h EXCEPT ![hole] = h[Size(h) - 1]]
    IN  down[0]

\* extend_max_heap
Capacity == IF Size(array) >= a THEN a + Growth ELSE a

\* push_max_heap
Push(data) ==
    LET n == Size(array)
    IN  /\ n < MaxItems
        /\ a' = Capacity
        /\ array' = SiftUp([i \in 0 .. n |-> IF i < n THEN array[i] ELSE data], data)
        /\ ret' = Nothing

\* pop_max_heap
Pop ==
    /\ IF Size(array) = 0
       THEN ret' = Nothing /\ UNCHANGED array
       ELSE /\ ret' = array[0]
            /\ array' = LET sunk == SinkHole(array)
                        IN  [i \in 0 .. Size(array) - 2 |-> sunk[i]]
    /\ UNCHANGED a

Next == Pop \/ \E d \in Data : Push(d)

Spec == Init /\ [][Next]_vars

-----------------------------------------------------------------------------
(* Properties.                                                             *)

Count(h, d) == Cardinality({i \in DOMAIN h : h[i] = d})

InOrder(h, i) == i = 0 \/ h[Parent(i)] >= h[i]

Ordered(h) == \A i \in DOMAIN h : InOrder(h, i)

One(x, d) == IF x = d THEN 1 ELSE 0

\* The heap has one x more than before, and of any other value as many.
Gained(x) == \A d \in Data : Count(array', d) = Count(array, d) + One(x, d)

\* The heap has one x less.
Lost(x) == \A d \in Data : Count(array', d) = Count(array, d) - One(x, d)

\* No value is lost or doubled: a push adds one copy of its argument, a pop
\* takes away one of what it returns.  No place beyond the block is used.
\* Order is kept, with one exception: a push into an ordered heap leaves it
\* ordered; a pop from one returns a largest value and leaves it ordered but
\* for copies of the value that was last, which pop_max_heap puts into the
\* hole without comparing it with its new parent.
HeapStep ==
    LET n == Size(array)
        popped == Size(array') < n
    IN  /\ Size(array') <= a'
        /\ \A d \in Data : Push(d) => Gained(d)
        /\ Pop => IF n = 0 THEN array' = array ELSE Lost(ret')
        /\ Ordered(array) /\ ~popped => Ordered(array')
        /\ Ordered(array) /\ popped =>
             /\ \A i \in DOMAIN array : array[i] <= ret'
             /\ \A i \in DOMAIN array' :
                  InOrder(array', i) \/ array'[i] = array[n - 1]

HeapContract == [][HeapStep]_vars
=============================================================================
