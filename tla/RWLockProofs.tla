---------------------------- MODULE RWLockProofs ----------------------------
(***************************************************************************)
(* Proofs about RWLock for any finite set of threads: its counters are     *)
(* exact, it excludes as it should, and it implements ReadersWriters.      *)
(***************************************************************************)
EXTENDS RWLock, FiniteSetTheorems, TLAPS

\* The readers that are counted can be counted.
LEMMA CountedFinite ==
    IsFiniteSet(Counted) /\ Cardinality(Counted) \in Nat
<1>1. Counted \subseteq Threads
  BY DEF Counted
<1> QED
  BY <1>1, RWLockAssumption, FS_Subset, FS_CardinalityType

\* A reader that announces itself keeps read exact.
LEMMA CountUp ==
    ASSUME read = Cardinality(Counted), NEW t, t \notin Counted,
           Counted' = Counted \cup {t}, read' = read + 1
    PROVE  read' = Cardinality(Counted') /\ read' \in Nat
  BY CountedFinite, FS_AddElement

\* A reader that withdraws or unlocks keeps read exact and not negative.
LEMMA CountDown ==
    ASSUME read = Cardinality(Counted), NEW t, t \in Counted,
           Counted' = Counted \ {t}, read' = read - 1
    PROVE  read' = Cardinality(Counted') /\ read' \in Nat
<1>1. Cardinality(Counted \ {t}) = Cardinality(Counted) - 1
  BY CountedFinite, FS_RemoveElement
<1>2. IsFiniteSet(Counted \ {t}) /\ Cardinality(Counted \ {t}) \in Nat
  BY CountedFinite, FS_RemoveElement, FS_CardinalityType
<1> QED
  BY <1>1, <1>2

\* The invariant at the start.
LEMMA InitIInv == Init => IInv
<1> SUFFICES ASSUME Init PROVE IInv
  OBVIOUS
<1>1. Counted = {} /\ Holding = {} /\ Writers = {}
  BY DEF Init, Counted, Holding, Writers
<1>2. TypeOK
  BY DEF Init, TypeOK, PcValues
<1>3. CountersExact
  BY <1>1, FS_EmptySet DEF Init, CountersExact
<1>4. MutualExclusion
  BY <1>1 DEF MutualExclusion
<1> QED
  BY <1>2, <1>3, <1>4 DEF IInv

\* A step of one thread that touches neither counter nor their sets.
LEMMA QuietStep ==
    ASSUME IInv, UNCHANGED <<write, read>>, pc' \in [Threads -> PcValues],
           Counted' = Counted, Holding' = Holding, MutualExclusion'
    PROVE  IInv'
  BY DEF IInv, TypeOK, CountersExact

\* Every step keeps the invariant.
LEMMA StepIInv ==
    ASSUME IInv, [Next]_vars
    PROVE  IInv'
<1> USE DEF IInv
<1>0. TypeOK /\ CountersExact /\ MutualExclusion
  OBVIOUS
<1>1. ASSUME NEW t \in Threads, RLock(t) PROVE IInv'
  BY <1>1, QuietStep DEF RLock, Goto, TypeOK, PcValues, Counted, Holding, Readers,
     Writers, MutualExclusion
<1>2. ASSUME NEW t \in Threads, WLock(t) PROVE IInv'
  BY <1>2, QuietStep DEF WLock, Goto, TypeOK, PcValues, Counted, Holding, Readers,
     Writers, MutualExclusion
<1>3. ASSUME NEW t \in Threads, RSpin(t) PROVE IInv'
  BY <1>3, QuietStep DEF RSpin, Goto, TypeOK, PcValues, Counted, Holding, Readers,
     Writers, MutualExclusion
<1>4. ASSUME NEW t \in Threads, RInc(t) PROVE IInv'
  <2>1. t \notin Counted /\ Counted' = Counted \cup {t}
    BY <1>4 DEF RInc, Goto, TypeOK, Counted
  <2>2. read' = Cardinality(Counted') /\ read' \in Nat
    BY <1>4, <2>1, CountUp DEF RInc, CountersExact
  <2>3. Holding' = Holding /\ Readers' = Readers /\ Writers' = Writers
    BY <1>4 DEF RInc, Goto, TypeOK, Holding, Readers, Writers
  <2>4. pc' \in [Threads -> PcValues] /\ write' = write
    BY <1>4 DEF RInc, Goto, TypeOK, PcValues
  <2> QED
    BY <2>2, <2>3, <2>4 DEF TypeOK, CountersExact, MutualExclusion
<1>5. ASSUME NEW t \in Threads, RCheckFree(t) PROVE IInv'
  <2>1. Writers = {}
    BY <1>5 DEF RCheckFree, Recheck, CountersExact, Writers, Holding
  <2>2. Writers' = {} /\ Holding' = Holding /\ Counted' = Counted
    BY <1>5, <2>1 DEF RCheckFree, Goto, TypeOK, Writers, Holding, Counted
  <2>3. MutualExclusion'
    BY <2>2 DEF MutualExclusion
  <2> QED
    BY <1>5, <2>2, <2>3, QuietStep DEF RCheckFree, Goto, TypeOK, PcValues
<1>6. ASSUME NEW t \in Threads, RCheckTaken(t) PROVE IInv'
  BY <1>6, QuietStep DEF RCheckTaken, Goto, TypeOK, PcValues, Counted, Holding,
     Readers, Writers, MutualExclusion
<1>7. ASSUME NEW t \in Threads, RBack(t) PROVE IInv'
  <2>1. t \in Counted /\ Counted' = Counted \ {t}
    BY <1>7 DEF RBack, Goto, TypeOK, Counted
  <2>2. read' = Cardinality(Counted') /\ read' \in Nat
    BY <1>7, <2>1, CountDown DEF RBack, Withdrawn, CountersExact
  <2>3. Holding' = Holding /\ Readers' = Readers /\ Writers' = Writers
    BY <1>7 DEF RBack, Goto, TypeOK, Holding, Readers, Writers
  <2>4. pc' \in [Threads -> PcValues] /\ write' = write
    BY <1>7 DEF RBack, Goto, TypeOK, PcValues
  <2> QED
    BY <2>2, <2>3, <2>4 DEF TypeOK, CountersExact, MutualExclusion
<1>8. ASSUME NEW t \in Threads, RLeave(t) PROVE IInv'
  BY <1>8, QuietStep DEF RLeave, Goto, TypeOK, PcValues, Counted, Holding, Readers,
     Writers, MutualExclusion
<1>9. ASSUME NEW t \in Threads, RUnlock(t) PROVE IInv'
  <2>1. t \in Counted /\ Counted' = Counted \ {t}
    BY <1>9 DEF RUnlock, Goto, TypeOK, Counted
  <2>2. read' = Cardinality(Counted') /\ read' \in Nat
    BY <1>9, <2>1, CountDown DEF RUnlock, CountersExact
  <2>3. Holding' = Holding /\ Readers' \subseteq Readers /\ Writers' = Writers
    BY <1>9 DEF RUnlock, Goto, TypeOK, Holding, Readers, Writers
  <2>4. pc' \in [Threads -> PcValues] /\ write' = write
    BY <1>9 DEF RUnlock, Goto, TypeOK, PcValues
  <2>5. MutualExclusion'
    BY <2>3 DEF MutualExclusion
  <2> QED
    BY <2>2, <2>3, <2>4, <2>5 DEF TypeOK, CountersExact
<1>10. ASSUME NEW t \in Threads, WSet(t) PROVE IInv'
  <2>1. Holding = {}
    BY <1>10 DEF WSet, CountersExact
  <2>2. Holding' = {t} /\ Counted' = Counted
    BY <1>10, <2>1 DEF WSet, Goto, TypeOK, Holding, Counted
  <2>3. Writers' = {}
    BY <1>10, <2>1 DEF WSet, Goto, TypeOK, Holding, Writers
  <2>4. pc' \in [Threads -> PcValues] /\ write' = 1 /\ read' = read
    BY <1>10 DEF WSet, Goto, TypeOK, PcValues
  <2>5. MutualExclusion'
    BY <2>3 DEF MutualExclusion
  <2> QED
    BY <2>2, <2>4, <2>5 DEF TypeOK, CountersExact
<1>11. ASSUME NEW t \in Threads, WDrain(t) PROVE IInv'
  <2>1. Counted = {}
    BY <1>11, CountedFinite, FS_EmptySet DEF WDrain, Drained, CountersExact
  <2>2. Counted' = {} /\ Holding' = Holding /\ Readers' = {}
    BY <1>11, <2>1 DEF WDrain, Goto, TypeOK, Counted, Holding, Readers
  <2>3. \A w \in Writers' : Writers' = {w}
    <3>1. Writers' \subseteq Holding
      BY <2>2 DEF Writers, Holding
    <3> QED
      BY <3>1 DEF CountersExact
  <2>4. MutualExclusion'
    BY <2>2, <2>3 DEF MutualExclusion
  <2> QED
    BY <1>11, <2>1, <2>2, <2>4, QuietStep DEF WDrain, Goto, TypeOK, PcValues
<1>12. ASSUME NEW t \in Threads, WLeave(t) PROVE IInv'
  BY <1>12, QuietStep DEF WLeave, Goto, TypeOK, PcValues, Counted, Holding, Readers,
     Writers, MutualExclusion
<1>13. ASSUME NEW t \in Threads, WUnlock(t) PROVE IInv'
  <2>1. Holding = {t}
    BY <1>13 DEF WUnlock, Goto, Holding, CountersExact
  <2>2. Holding' = {} /\ Counted' = Counted
    BY <1>13, <2>1 DEF WUnlock, Goto, TypeOK, Holding, Counted
  <2>3. Writers' = {}
    BY <2>2 DEF Writers, Holding
  <2>4. pc' \in [Threads -> PcValues] /\ write' = 0 /\ read' = read
    BY <1>13 DEF WUnlock, Goto, TypeOK, PcValues
  <2>5. MutualExclusion'
    BY <2>3 DEF MutualExclusion
  <2> QED
    BY <2>2, <2>4, <2>5 DEF TypeOK, CountersExact
<1>14. CASE UNCHANGED vars
  BY <1>14 DEF vars, TypeOK, CountersExact, MutualExclusion, Counted, Holding,
     Readers, Writers
<1> QED
  BY <1>1, <1>2, <1>3, <1>4, <1>5, <1>6, <1>7, <1>8, <1>9, <1>10, <1>11, <1>12,
     <1>13, <1>14 DEF Next, Step

\* The inductive invariant holds throughout.
THEOREM Invariant == Spec => []IInv
  BY InitIInv, StepIInv, PTL DEF Spec

\* Types: in particular read never goes below zero, however readers withdraw
\* and unlock (the decrements of rwlock_rlock and rwlock_runlock).
THEOREM TypeCorrect == Spec => []TypeOK
<1>1. IInv => TypeOK
  BY DEF IInv
<1> QED
  BY <1>1, Invariant, PTL

\* A writer is alone and readers meet no writer, for any number of threads.
THEOREM Exclusion == Spec => []MutualExclusion
<1>1. IInv => MutualExclusion
  BY DEF IInv
<1> QED
  BY <1>1, Invariant, PTL

\* The counter and the flag mean what the code takes them to mean.
THEOREM Counters == Spec => []CountersExact
<1>1. IInv => CountersExact
  BY DEF IInv
<1> QED
  BY <1>1, Invariant, PTL

-----------------------------------------------------------------------------
(* Refinement.                                                             *)

\* The start of the lock is a start of the abstract lock.
LEMMA AbsInit == Init => Abs!Init
  BY DEF Init, Abs!Init, Readers, Writers

\* Only four steps show: the two entries and the two unlocks; the spinning,
\* the announcements and the withdrawals are stutters of the abstract lock.
LEMMA AbsStep ==
    ASSUME IInv, IInv', [Next]_vars
    PROVE  [Abs!Next]_(Abs!vars)
<1> DEFINE Quiet == Readers' = Readers /\ Writers' = Writers
<1>q. Quiet => UNCHANGED Abs!vars
  BY DEF Abs!vars
<1> HIDE DEF Quiet
<1>t. TypeOK /\ CountersExact /\ MutualExclusion /\ MutualExclusion'
  BY DEF IInv
<1>1. ASSUME NEW t \in Threads, RLock(t) \/ WLock(t) PROVE Quiet
  BY <1>1, <1>t DEF Quiet, RLock, WLock, Goto, TypeOK, Readers, Writers
<1>2. ASSUME NEW t \in Threads, RSpin(t) \/ RInc(t) \/ RCheckTaken(t) \/ RBack(t)
      PROVE  Quiet
  BY <1>2, <1>t DEF Quiet, RSpin, RInc, RCheckTaken, RBack, Goto, TypeOK, Readers,
     Writers
<1>3. ASSUME NEW t \in Threads, RLeave(t) \/ WSet(t) \/ WLeave(t) PROVE Quiet
  BY <1>3, <1>t DEF Quiet, RLeave, WSet, WLeave, Goto, TypeOK, Readers, Writers
<1>4. ASSUME NEW t \in Threads, RCheckFree(t) PROVE Abs!AcquireRead(t)
  <2>1. t \notin Readers /\ Readers' = Readers \cup {t} /\ Writers' = Writers
    BY <1>4, <1>t DEF RCheckFree, Goto, TypeOK, Readers, Writers
  <2>2. Writers = {}
    BY <1>4, <1>t DEF RCheckFree, Recheck, CountersExact, Writers, Holding
  <2> QED
    BY <2>1, <2>2 DEF Abs!AcquireRead
<1>5. ASSUME NEW t \in Threads, RUnlock(t) PROVE Abs!ReleaseRead(t)
  BY <1>5, <1>t DEF Abs!ReleaseRead, RUnlock, Goto, TypeOK, Readers, Writers
<1>6. ASSUME NEW t \in Threads, WDrain(t) PROVE Abs!AcquireWrite(t)
  <2>1. t \in Writers' /\ Readers' = Readers
    BY <1>6, <1>t DEF WDrain, Goto, TypeOK, Readers, Writers
  <2>2. Writers' = {t} /\ Readers' = {}
    BY <2>1, <1>t DEF MutualExclusion
  <2>3. Writers = {}
    BY <1>6, <2>2, <1>t DEF WDrain, Goto, TypeOK, Writers
  <2> QED
    BY <2>1, <2>2, <2>3 DEF Abs!AcquireWrite
<1>7. ASSUME NEW t \in Threads, WUnlock(t) PROVE Abs!ReleaseWrite(t)
  <2>1. t \in Writers /\ Readers' = Readers /\ Writers' = Writers \ {t}
    BY <1>7, <1>t DEF WUnlock, Goto, TypeOK, Readers, Writers
  <2>2. Writers = {t}
    BY <2>1, <1>t DEF MutualExclusion
  <2> QED
    BY <2>1, <2>2 DEF Abs!ReleaseWrite
<1>8. CASE UNCHANGED vars
  BY <1>8, <1>q DEF Quiet, vars, Readers, Writers
<1> QED
  BY <1>q, <1>1, <1>2, <1>3, <1>4, <1>5, <1>6, <1>7, <1>8 DEF Next, Step, Abs!Next

\* The spinning lock implements the abstract reader-writer lock.
THEOREM Refinement == Spec => AbsSpec
  BY AbsInit, AbsStep, Invariant, PTL DEF Spec, AbsSpec, Abs!Spec
=============================================================================
