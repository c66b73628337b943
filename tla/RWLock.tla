------------------------------- MODULE RWLock -------------------------------
(***************************************************************************)
(* The spinning reader-writer lock of ez_rwlock.c, one action per memory   *)
(* access: `write' is the writers' flag, `read' counts the readers.  A     *)
(* reader announces itself by incrementing read and withdraws if it then   *)
(* sees the flag; a writer takes the flag and then waits for read to drain.*)
(*                                                                         *)
(* Accesses are sequentially consistent here: on x86, the build's target,  *)
(* each read-modify-write is a full barrier.  The __ATOMIC_RELAXED of      *)
(* ATOM_INC promises less elsewhere; that is not modelled.                 *)
(***************************************************************************)
EXTENDS Integers, FiniteSets

CONSTANT Threads   \* threads that use the lock

ASSUME RWLockAssumption == IsFiniteSet(Threads)

VARIABLES
    write,   \* lock->write
    read,    \* lock->read
    pc       \* where each thread is

vars == <<write, read, pc>>

(* pc: "idle"                                                              *)
(*     "rSpin"  rwlock_rlock, line 14     "rInc"   about to increment      *)
(*     "rCheck" line 20                   "rBack"  about to withdraw       *)
(*     "reading"                          "rDone"  rwlock_runlock          *)
(*     "wSet"   rwlock_wlock, line 36     "wDrain" line 39                 *)
(*     "writing"                          "wDone"  rwlock_wunlock          *)

\* rwlock_init
Init ==
    /\ write = 0
    /\ read = 0
    /\ pc = [t \in Threads |-> "idle"]

Goto(t, from, to) == pc[t] = from /\ pc' = [pc EXCEPT ![t] = to]

-----------------------------------------------------------------------------
(* rwlock_rlock                                                            *)

RLock(t) == Goto(t, "idle", "rSpin") /\ UNCHANGED <<write, read>>

\* while (lock->write): leaves the loop once the flag is down
RSpin(t) ==
    /\ write = 0
    /\ Goto(t, "rSpin", "rInc")
    /\ UNCHANGED <<write, read>>

RInc(t) ==
    /\ Goto(t, "rInc", "rCheck")
    /\ read' = read + 1
    /\ UNCHANGED write

\* Slip: the flag is not looked at again after the increment.
RecheckNever == TRUE

Recheck == write = 0

RCheckFree(t) ==
    /\ Recheck
    /\ Goto(t, "rCheck", "reading")
    /\ UNCHANGED <<write, read>>

RCheckTaken(t) ==
    /\ ~Recheck
    /\ Goto(t, "rCheck", "rBack")
    /\ UNCHANGED <<write, read>>

\* Slip: a reader that withdraws stays counted.
WithdrawnNot == read

Withdrawn == read - 1

RBack(t) ==
    /\ Goto(t, "rBack", "rSpin")
    /\ read' = Withdrawn
    /\ UNCHANGED write

\* The reader leaves its critical section.
RLeave(t) == Goto(t, "reading", "rDone") /\ UNCHANGED <<write, read>>

\* rwlock_runlock
RUnlock(t) ==
    /\ Goto(t, "rDone", "idle")
    /\ read' = read - 1
    /\ UNCHANGED write

-----------------------------------------------------------------------------
(* rwlock_wlock                                                            *)

WLock(t) == Goto(t, "idle", "wSet") /\ UNCHANGED <<write, read>>

\* __sync_lock_test_and_set returned 0; while it returns 1 nothing changes
WSet(t) ==
    /\ write = 0
    /\ Goto(t, "wSet", "wDrain")
    /\ write' = 1
    /\ UNCHANGED read

\* Slip: one reader is tolerated.
DrainedButOne == read <= 1

Drained == read = 0

WDrain(t) ==
    /\ Drained
    /\ Goto(t, "wDrain", "writing")
    /\ UNCHANGED <<write, read>>

WLeave(t) == Goto(t, "writing", "wDone") /\ UNCHANGED <<write, read>>

\* rwlock_wunlock
WUnlock(t) ==
    /\ Goto(t, "wDone", "idle")
    /\ write' = 0
    /\ UNCHANGED read

-----------------------------------------------------------------------------
\* What a thread does once it has called rwlock_rlock or rwlock_wlock.
Step(t) ==
    \/ RSpin(t) \/ RInc(t) \/ RCheckFree(t) \/ RCheckTaken(t) \/ RBack(t)
    \/ RLeave(t) \/ RUnlock(t)
    \/ WSet(t) \/ WDrain(t) \/ WLeave(t) \/ WUnlock(t)

Next == \E t \in Threads : RLock(t) \/ WLock(t) \/ Step(t)

Spec == Init /\ [][Next]_vars

\* Every thread runs, and critical sections end; nobody has to call a lock.
FairSpec == Spec /\ \A t \in Threads : WF_vars(Step(t))

-----------------------------------------------------------------------------
(* Properties.                                                             *)

PcValues == {"idle", "rSpin", "rInc", "rCheck", "rBack", "reading", "rDone",
             "wSet", "wDrain", "writing", "wDone"}

TypeOK ==
    /\ write \in {0, 1}
    /\ read \in Nat
    /\ pc \in [Threads -> PcValues]

Counted  == {t \in Threads : pc[t] \in {"rCheck", "rBack", "reading", "rDone"}}
Holding  == {t \in Threads : pc[t] \in {"wDrain", "writing", "wDone"}}
Readers  == {t \in Threads : pc[t] \in {"reading", "rDone"}}
Writers  == {t \in Threads : pc[t] \in {"writing", "wDone"}}

\* A writer excludes everybody, readers exclude writers only: what the lock is
\* for.  The reader's increment and second look race with the writer's flag
\* and its wait.
MutualExclusion ==
    \A w \in Writers : Writers = {w} /\ Readers = {}

\* read counts exactly the readers that announced themselves, those that are
\* about to withdraw included, and the flag is up exactly while one writer
\* holds it.
CountersExact ==
    /\ read = Cardinality(Counted)
    /\ write = 0 <=> Holding = {}
    /\ \A u, v \in Holding : u = v

\* The writer that has the flag gets in: readers that keep arriving cannot
\* starve it, since they withdraw.
FlagWins ==
    \A t \in Threads : pc[t] = "wDrain" ~> pc[t] = "writing"

\* The strengthening that is inductive: the exclusion rests on the counters.
IInv == TypeOK /\ CountersExact /\ MutualExclusion

\* Somebody waiting means that somebody gets in, however they interleave.
SomebodyEnters ==
    (\E t \in Threads : pc[t] \in {"rSpin", "wSet"})
        ~> Readers \cup Writers # {}

-----------------------------------------------------------------------------
\* Refinement: the lock promises what ReadersWriters states, whatever its spinning does.
Abs == INSTANCE ReadersWriters WITH readers <- Readers, writers <- Writers
AbsSpec == Abs!Spec
=============================================================================
