------------------------------ MODULE MCRWLock ------------------------------
(* Small instances of RWLock for TLC.                                      *)
EXTENDS RWLock

CONSTANTS t1, t2, t3, t4
=============================================================================
