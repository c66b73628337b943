-------------------------------- MODULE Alloc --------------------------------
(***************************************************************************)
(* The allocation statistics of ez_malloc.c: used_memory, a counter that   *)
(* every call adjusts by the usable size of the block, in an atomic step   *)
(* of its own after malloc and before free.  Threads allocate and free at  *)
(* the same time, and a block may be freed by another thread than the one  *)
(* that asked for it.  Alignment and zeroing are left out, and so is an    *)
(* out-of-memory handler that returns: the default one aborts.             *)
(***************************************************************************)
EXTENDS Integers, FiniteSetsExt

CONSTANTS
    Threads,
    Ptrs,    \* addresses malloc may return
    Sizes,   \* usable sizes of blocks
    Span     \* 2^64: used_memory is an unsigned counter

AllocAssumption ==
    /\ IsFiniteSet(Ptrs) /\ IsFiniteSet(Threads)
    /\ Sizes \subseteq Nat \ {0}
    /\ Span \in Nat \ {0}

VARIABLES
    size,   \* usable size of every block, 0 if it is not allocated
    used,   \* used_memory
    call,   \* what each thread is in the middle of
    owed,   \* sizes of the blocks ez_memalign has returned (history)
    dead    \* the process was aborted

vars == <<size, used, call, owed, dead>>

Idle == [at |-> "idle"]

Init ==
    /\ size = [p \in Ptrs |-> 0]
    /\ used = 0
    /\ call = [t \in Threads |-> Idle]
    /\ owed = 0
    /\ dead = FALSE

Free == {p \in Ptrs : size[p] = 0}

\* blocks of callers that no call is working on
Held == {p \in Ptrs \ Free : \A t \in Threads : call[t] = Idle \/ call[t].p # p}

Begins(t) == ~dead /\ call[t] = Idle

\* update_zmalloc_stat_alloc, update_zmalloc_stat_free
Adjust(n) == used' = (used + n) % Span

\* ez_malloc, ez_calloc, and ez_realloc(NULL, n): the block is there ...
Malloc(t, p, n) ==
    /\ Begins(t)
    /\ p \in Free
    /\ size' = [size EXCEPT ![p] = n]
    /\ call' = [call EXCEPT ![t] = [at |-> "count", p |-> p]]
    /\ UNCHANGED <<used, owed, dead>>

\* ... and counted
CountNew(t) ==
    /\ ~dead
    /\ call[t].at = "count"
    /\ Adjust(size[call[t].p])
    /\ call' = [call EXCEPT ![t] = Idle]
    /\ UNCHANGED <<size, owed, dead>>

\* ez_free: the size is taken off while the block still exists ...
FreeBlock(t, p) ==
    /\ Begins(t)
    /\ p \in Held
    /\ Adjust(-size[p])
    /\ call' = [call EXCEPT ![t] = [at |-> "release", p |-> p]]
    /\ UNCHANGED <<size, owed, dead>>

\* ... and then it is freed
Release(t) ==
    /\ ~dead
    /\ call[t].at = "release"
    /\ size' = [size EXCEPT ![call[t].p] = 0]
    /\ call' = [call EXCEPT ![t] = Idle]
    /\ UNCHANGED <<used, owed, dead>>

\* ez_realloc: in place or to another address
Realloc(t, p, q, n) ==
    /\ Begins(t)
    /\ p \in Held
    /\ q \in Free \cup {p}
    /\ size' = [size EXCEPT ![p] = 0, ![q] = n]
    /\ call' = [call EXCEPT ![t] = [at |-> "uncount", p |-> q, old |-> size[p]]]
    /\ UNCHANGED <<used, owed, dead>>

\* Slip: the new size is taken off as well as added.
OldSizeNew(t) == size[call[t].p]

OldSize(t) == call[t].old

UncountOld(t) ==
    /\ ~dead
    /\ call[t].at = "uncount"
    /\ Adjust(-OldSize(t))
    /\ call' = [call EXCEPT ![t] = [at |-> "count", p |-> call[t].p]]
    /\ UNCHANGED <<size, owed, dead>>

\* ez_memalign: the block is not counted
Memalign(t, p, n) ==
    /\ Begins(t)
    /\ p \in Free
    /\ size' = [size EXCEPT ![p] = n]
    /\ owed' = (owed + n) % Span
    /\ UNCHANGED <<used, call, dead>>

\* ez_realloc(p, 0): glibc frees the block and returns NULL, which is taken
\* for a lack of memory; so is any other failure
OutOfMemory(t, p) ==
    /\ Begins(t)
    /\ p \in Held
    /\ size' = [size EXCEPT ![p] = 0]
    /\ dead' = TRUE
    /\ UNCHANGED <<used, call, owed>>

Next ==
    \E t \in Threads :
        \/ CountNew(t) \/ Release(t) \/ UncountOld(t)
        \/ \E p \in Ptrs :
             \/ FreeBlock(t, p) \/ OutOfMemory(t, p)
             \/ \E n \in Sizes : Malloc(t, p, n) \/ Memalign(t, p, n)
             \/ \E q \in Ptrs, n \in Sizes : Realloc(t, p, q, n)

Spec == Init /\ [][Next]_vars

-----------------------------------------------------------------------------
(* Properties.                                                             *)

\* What thread t has done to the blocks and not yet to the counter.
InFlight(t) ==
    CASE call[t].at = "idle"    -> 0
      [] call[t].at = "count"   -> size[call[t].p]
      [] call[t].at = "uncount" -> size[call[t].p] - call[t].old
      [] call[t].at = "release" -> size[call[t].p]

Total(S, f(_)) == MapThenSumSet(f, S)

\* At any moment used_memory is the size of all blocks, but for the calls in
\* progress and for every block ez_memalign ever returned: those are taken off
\* when freed and never added.  Without ez_memalign the counter is exact once
\* all calls have returned, and never runs below zero.
UsedMemoryExact ==
    ~dead =>
        (used + Total(Threads, InFlight) + owed) % Span
            = Total(Ptrs, LAMBDA p : size[p]) % Span
=============================================================================
