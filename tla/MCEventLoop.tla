---------------------------- MODULE MCEventLoop ----------------------------
(* A small instance of EventLoop for TLC.                                  *)
EXTENDS EventLoop

CONSTANT n1

ReadOnly == {{"R"}}
EndOrLong == {-1, 8}   \* the end, or a delay beyond the width of an int
=============================================================================
