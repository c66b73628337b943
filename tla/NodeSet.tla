------------------------------ MODULE NodeSet ------------------------------
(***************************************************************************)
(* What a caller of ez_rbtree.h sees: a set of nodes it links and unlinks. *)
(***************************************************************************)
CONSTANT Nodes

VARIABLE members

Init == members = {}

Add(n) == n \notin members /\ members' = members \cup {n}

Remove(n) == n \in members /\ members' = members \ {n}

Next == \E n \in Nodes : Add(n) \/ Remove(n)

Spec == Init /\ [][Next]_members
=============================================================================
