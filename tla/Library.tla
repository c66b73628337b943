------------------------------ MODULE Library ------------------------------
(***************************************************************************)
(* Parts of the library side by side, with nothing in common: the hash     *)
(* table, the red-black tree, the allocation statistics and the max heap.  *)
(***************************************************************************)
EXTENDS Hash

CONSTANTS
    Nodes, Key, Sentinel,               \* of RBTree
    Threads, Ptrs, Sizes, Span,         \* of Alloc
    Data, HeapSizes, Growth, MaxItems   \* of MaxHeap

VARIABLES
    tree,                         \* of RBTree
    size, used, call, owed, dead, \* of Alloc
    array, places, popped         \* of MaxHeap

R == INSTANCE RBTree WITH Null <- NULL

A == INSTANCE Alloc

MH == INSTANCE MaxHeap WITH Sizes <- HeapSizes, Nothing <- NULL,
                            a <- places, ret <- popped

hashVars  == vars
allocVars == <<size, used, call, owed, dead>>
heapVars  == <<array, places, popped>>

-----------------------------------------------------------------------------
(* Properties.                                                             *)

\* The rules of the red-black tree after any insertions and deletions.
TreeRules == R!TreeRules

\* Search and minimum against the set of nodes that are in the tree.
SearchesAgree == R!SearchesAgree

\* The tree implements the set of its nodes.
TreeAbs == R!AbsSpec

\* used_memory is the size of the blocks, but for ez_memalign.
UsedMemoryExact == A!UsedMemoryExact

\* The heap's contract, with the one exception pop_max_heap makes.
HeapContract == MH!HeapContract
=============================================================================
