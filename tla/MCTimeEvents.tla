---------------------------- MODULE MCTimeEvents ----------------------------
(* Small instances of TimeEvents for TLC.                                  *)
EXTENDS TimeEvents

ReturnValues == {-1, 0, 2}
EndOrPeriod  == {-1, 0}
=============================================================================
