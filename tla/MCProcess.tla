----------------------------- MODULE MCProcess -----------------------------
(* A small table of descriptors, and buffers a few bytes long. *)
EXTENDS Process

\* all of them, or without number 0, or without number 2
MCStarts == {Std, {1, 2}, {0, 1}}

MCInit == Init
MCNext == Next
MCSpec == MCInit /\ [][MCNext]_vars
=============================================================================
