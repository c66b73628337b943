---------------------------- MODULE MCFileEvents ----------------------------
(* Small instances of FileEvents for TLC.                                  *)
EXTENDS FileEvents, TLC

CONSTANTS n1, n2, n3

SingleMasks == {{"R"}, {"W"}}
AnyMask == SUBSET Dirs \ {{}}

NodeSymmetry == Permutations(Nodes)
=============================================================================
