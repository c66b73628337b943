--------------------------- MODULE ReadersWriters ---------------------------
(***************************************************************************)
(* What a reader-writer lock promises: the holders are any number of       *)
(* readers, or one writer.                                                 *)
(***************************************************************************)
CONSTANT Threads

VARIABLES
    readers,   \* threads that hold the lock for reading
    writers    \* threads that hold the lock for writing

vars == <<readers, writers>>

Init == readers = {} /\ writers = {}

AcquireRead(t) ==
    /\ t \notin readers
    /\ writers = {}
    /\ readers' = readers \cup {t}
    /\ UNCHANGED writers

AcquireWrite(t) ==
    /\ writers = {}
    /\ readers = {}
    /\ writers' = {t}
    /\ UNCHANGED readers

ReleaseRead(t) ==
    /\ t \in readers
    /\ readers' = readers \ {t}
    /\ UNCHANGED writers

ReleaseWrite(t) ==
    /\ t \in writers
    /\ writers' = {}
    /\ UNCHANGED readers

Next ==
    \E t \in Threads :
        \/ AcquireRead(t) \/ AcquireWrite(t)
        \/ ReleaseRead(t) \/ ReleaseWrite(t)

Spec == Init /\ [][Next]_vars

\* A writer is alone.
Exclusion == writers # {} => readers = {} /\ \A u, v \in writers : u = v
=============================================================================
