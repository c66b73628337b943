------------------------------ MODULE ShadowMap ------------------------------
(***************************************************************************)
(* What a caller of ez_hash.h can rely on: for every key a stack of values.*)
(* A put hides the values put before, a get reads the latest one, and a    *)
(* deletion takes the latest one away and brings back the one before.      *)
(***************************************************************************)
EXTENDS Sequences

CONSTANTS Keys, Vals, None

VARIABLES
    stacks, \* values of every key, the latest first
    ret     \* what the last call returned

Init == stacks = [k \in Keys |-> <<>>] /\ ret = None

Latest(k) == IF stacks[k] = <<>> THEN None ELSE Head(stacks[k])

Put(k, v) ==
    /\ stacks' = [stacks EXCEPT ![k] = <<v>> \o @]
    /\ ret' = None

Get(k) == ret' = Latest(k) /\ UNCHANGED stacks

Del(k) ==
    /\ ret' = Latest(k)
    /\ stacks' = [stacks EXCEPT ![k] = IF @ = <<>> THEN @ ELSE Tail(@)]

Next == \E k \in Keys : Get(k) \/ Del(k) \/ \E v \in Vals : Put(k, v)

Spec == Init /\ [][Next]_<<stacks, ret>>
=============================================================================
