------------------------------- MODULE RBTree -------------------------------
(***************************************************************************)
(* The intrusive red-black tree of ez_rbtree.c, pointer by pointer: every  *)
(* node has a left, a right and a parent pointer and a colour, and one     *)
(* sentinel per tree stands for all leaves.  The C code spells each case   *)
(* twice, for the left and for the right; here the side is a parameter.    *)
(*                                                                         *)
(* Two things are easily lost in such code and are kept: the sentinel is   *)
(* an ordinary node whose parent field rbtree_delete writes, and the       *)
(* parent of the root is whatever was left in it.                          *)
(***************************************************************************)
EXTENDS Integers, FiniteSets

CONSTANTS
    Nodes,     \* nodes callers may link
    Key,       \* their keys: a function from Nodes to Int
    Sentinel,  \* tree->sentinel
    Null       \* the NULL pointer

RBTreeAssumption ==
    /\ IsFiniteSet(Nodes)
    /\ Key \in [Nodes -> Int]
    /\ Sentinel \notin Nodes
    /\ Null \notin Nodes \cup {Sentinel}

VARIABLE
    tree    \* the memory the tree lives in: root, kid, par, red

Sides == {"L", "R"}
Other(side) == IF side = "L" THEN "R" ELSE "L"
Cells == Nodes \cup {Sentinel}

Memory ==
    [root : Cells,
     kid  : [Sides -> [Cells -> Cells \cup {Null}]],
     par  : [Cells -> Cells \cup {Null}],
     red  : SUBSET Cells]

\* rbtree_init; nodes not linked hold NULL, as rbtree_delete leaves them
Init ==
    tree = [root |-> Sentinel,
            kid  |-> [s \in Sides |-> [c \in Cells |-> Null]],
            par  |-> [c \in Cells |-> Null],
            red  |-> {}]

-----------------------------------------------------------------------------
(* Assignments.  T is the memory before, the value the memory after.       *)

SetKid(T, s, n, m) == [T EXCEPT !.kid[s][n] = m]
SetPar(T, n, p)    == [T EXCEPT !.par[n] = p]
Redden(T, n)       == [T EXCEPT !.red = @ \cup {n}]
Blacken(T, n)      == [T EXCEPT !.red = @ \ {n}]
CopyColor(T, n, m) == IF m \in T.red THEN Redden(T, n) ELSE Blacken(T, n)

\* which child of its parent n is, asked the way the code asks
SideOf(T, n) == IF n = T.kid["L"][T.par[n]] THEN "L" ELSE "R"

\* n takes the place of old under old's parent, or as the root
Replace(T, old, n) ==
    IF old = T.root THEN [T EXCEPT !.root = n]
    ELSE SetKid(T, SideOf(T, old), T.par[old], n)

\* rbtree_left_rotate (s = "L"), rbtree_right_rotate (s = "R")
Rotate(T, s, n) ==
    LET up    == T.kid[Other(s)][n]
        inner == T.kid[s][up]
        T1    == SetKid(T, Other(s), n, inner)
        T2    == IF inner # Sentinel THEN SetPar(T1, inner, n) ELSE T1
        T3    == Replace(SetPar(T2, up, T2.par[n]), n, up)
    IN  SetPar(SetKid(T3, s, up, n), n, up)

\* What the two loops that repair the tree go by: the memory and a node.
At(T, n) == [mem |-> T, at |-> n]

\* Bound: rounds of such a loop.  One that needs more is left undone.
Rounds == Cardinality(Nodes)

-----------------------------------------------------------------------------
(* Searching.                                                              *)

\* for_each_order: node, left, right
Visit(T, n) ==
    LET below[c \in Cells \cup {Null}] ==
          IF c \in {Null, Sentinel} THEN {}
          ELSE {c} \cup below[T.kid["L"][c]] \cup below[T.kid["R"][c]]
    IN  below[n]

\* rbtree_foreach
ForEach(T) == Visit(T, T.root)

\* rbtree_min
MinFrom(T, n) ==
    LET down[c \in Cells \cup {Null}] ==
          IF c # Null /\ T.kid["L"][c] # Sentinel THEN down[T.kid["L"][c]] ELSE c
    IN  down[n]

\* rbtree_min_node
MinNode(T) == MinFrom(T, T.root)

\* Slip: the search turns the wrong way.
TurnWrong(n, k) == IF Key[n] < k THEN "L" ELSE "R"

Turn(n, k) == IF Key[n] < k THEN "R" ELSE "L"

\* rbtree_find_node with a comparison by key
FindNode(T, k) ==
    LET find[c \in ForEach(T) \cup {Sentinel}] ==
          IF c = Sentinel THEN Null
          ELSE IF Key[c] = k THEN c ELSE find[T.kid[Turn(c, k)][c]]
    IN  find[T.root]

-----------------------------------------------------------------------------
(* rbtree_insert                                                           *)

\* the comparison of default_rbtree_insert_value
Branch(n, at) == IF Key[n] < Key[at] THEN "L" ELSE "R"

\* default_rbtree_insert_value: down to where a child is missing
InsertPlace(T, n) ==
    LET begin[c \in ForEach(T)] ==
          IF T.kid[Branch(n, c)][c] = Sentinel THEN c
          ELSE begin[T.kid[Branch(n, c)][c]]
    IN  begin[T.root]

InsertValue(T, n) ==
    LET p  == InsertPlace(T, n)
        T1 == SetPar(SetKid(T, Branch(n, p), p, n), n, p)
    IN  Redden(SetKid(SetKid(T1, "L", n, Sentinel), "R", n, Sentinel), n)

\* An inner grandchild is rotated to the outside first.
OuterNode(T, s, n) == IF n = T.kid[Other(s)][T.par[n]] THEN T.par[n] ELSE n

Outward(T, s, n) ==
    IF n = T.kid[Other(s)][T.par[n]] THEN Rotate(T, s, T.par[n]) ELSE T

\* after recolouring the violation can only be at the grandparent
Climb(T, n) == T.par[T.par[n]]

\* while (node != *root && rbt_is_red(node->parent)) ...
InsertDone(T, n) == n = T.root \/ T.par[n] \notin T.red

InsertStep(T, n) ==
    LET p     == T.par[n]
        g     == T.par[p]
        s     == SideOf(T, p)
        uncle == T.kid[Other(s)][g]
    IN  IF uncle \in T.red
        THEN At(Redden(Blacken(Blacken(T, p), uncle), g), Climb(T, n))
        ELSE LET m  == OuterNode(T, s, n)
                 T1 == Outward(T, s, n)
                 T2 == Redden(Blacken(T1, T1.par[m]), T1.par[T1.par[m]])
             IN  At(Rotate(T2, Other(s), T2.par[T2.par[m]]), m)

InsertFix(T, n) ==
    LET loop[k \in 0 .. Rounds] ==
          IF k = 0 THEN At(T, n)
          ELSE LET v == loop[k - 1]
               IN  IF InsertDone(v.mem, v.at) THEN v ELSE InsertStep(v.mem, v.at)
        last == loop[Rounds].mem
    IN  Blacken(last, last.root)

InsertRoot(T, n) ==
    LET T1 == SetKid(SetKid(T, "L", n, Sentinel), "R", n, Sentinel)
    IN  [Blacken(SetPar(T1, n, Null), n) EXCEPT !.root = n]

InsertNode(T, n) ==
    IF T.root = Sentinel THEN InsertRoot(T, n)
    ELSE InsertFix(InsertValue(T, n), n)

-----------------------------------------------------------------------------
(* rbtree_delete                                                           *)

\* the node that leaves its place: n itself or its successor
Subst(T, n) ==
    IF Sentinel \in {T.kid["L"][n], T.kid["R"][n]} THEN n
    ELSE MinFrom(T, T.kid["R"][n])

\* Slip: the right child is taken where the left one may be the only one.
OnlyKidRight(T, m) == T.kid["R"][m]

\* the only child that node may have
OnlyKid(T, m) ==
    IF T.kid["L"][m] # Sentinel THEN T.kid["L"][m] ELSE T.kid["R"][m]

ClearNode(T, n) ==
    SetPar(SetKid(SetKid(T, "L", n, Null), "R", n, Null), n, Null)

\* Slip: the successor keeps its own colour.
TakePlaceKeepsColor(T, m, n) ==
    LET T1 == SetKid(SetKid(T, "L", m, T.kid["L"][n]), "R", m, T.kid["R"][n])
        T2 == Replace(SetPar(T1, m, T.par[n]), n, m)
        T3 == IF T2.kid["L"][m] # Sentinel THEN SetPar(T2, T2.kid["L"][m], m) ELSE T2
    IN  IF T3.kid["R"][m] # Sentinel THEN SetPar(T3, T3.kid["R"][m], m) ELSE T3

\* successor m takes over the links and the colour of n
TakePlace(T, m, n) ==
    LET T1 == SetKid(SetKid(T, "L", m, T.kid["L"][n]), "R", m, T.kid["R"][n])
        T2 == Replace(CopyColor(SetPar(T1, m, T.par[n]), m, n), n, m)
        T3 == IF T2.kid["L"][m] # Sentinel THEN SetPar(T2, T2.kid["L"][m], m) ELSE T2
    IN  IF T3.kid["R"][m] # Sentinel THEN SetPar(T3, T3.kid["R"][m], m) ELSE T3

\* unlink: child x moves up to where m was, and m to where n was
Unlink(T, n, m, x) ==
    LET T1 == SetKid(T, SideOf(T, m), T.par[m], x)
        T2 == SetPar(T1, x, IF m # n /\ T.par[m] = n THEN m ELSE T.par[m])
    IN  ClearNode(IF m = n THEN T2 ELSE TakePlace(T2, m, n), n)

\* A red sibling is rotated away, so that the sibling is black.
BlackSibling(T, s, x) ==
    LET p == T.par[x]
        w == T.kid[Other(s)][p]
    IN  IF w \in T.red THEN Rotate(Redden(Blacken(T, w), p), s, p) ELSE T

\* The sibling's far child is made red, if it is not.
FarRed(T, s, w) ==
    IF T.kid[Other(s)][w] \in T.red THEN T
    ELSE Rotate(Redden(Blacken(T, T.kid[s][w]), w), Other(s), w)

\* while (temp != *root && rbt_is_black(temp)) ...
DeleteDone(T, x) == x = T.root \/ x \in T.red

DeleteStep(T, x) ==
    LET s  == SideOf(T, x)
        p  == T.par[x]
        T1 == BlackSibling(T, s, x)
        w  == T1.kid[Other(s)][p]
    IN  IF {T1.kid["L"][w], T1.kid["R"][w]} \cap T1.red = {}
        THEN At(Redden(T1, w), p)
        ELSE LET T2 == FarRed(T1, s, w)
                 v  == T2.kid[Other(s)][p]
                 T3 == Blacken(CopyColor(T2, v, p), p)
                 T4 == Rotate(Blacken(T3, T3.kid[Other(s)][v]), s, p)
             IN  At(T4, T4.root)

DeleteFix(T, x) ==
    LET loop[k \in 0 .. Rounds] ==
          IF k = 0 THEN At(T, x)
          ELSE LET v == loop[k - 1]
               IN  IF DeleteDone(v.mem, v.at) THEN v ELSE DeleteStep(v.mem, v.at)
        last == loop[Rounds]
    IN  Blacken(last.mem, last.at)

\* only the loss of a black node changes a black height
NeedsFix(T, m) == m \notin T.red

DeleteNode(T, n) ==
    LET m  == Subst(T, n)
        x  == OnlyKid(T, m)
        T1 == Unlink(T, n, m, x)
    IN  IF m = T.root THEN ClearNode(Blacken([T EXCEPT !.root = x], x), n)
        ELSE IF NeedsFix(T, m) THEN DeleteFix(T1, x) ELSE T1

-----------------------------------------------------------------------------
\* Callers link nodes that are not linked and unlink nodes that are.
Linked == ForEach(tree)

Insert(n) == tree' = InsertNode(tree, n)

Delete(n) == tree' = DeleteNode(tree, n)

Next ==
    \/ \E n \in Nodes \ Linked : Insert(n)
    \/ \E n \in Linked : Delete(n)

Spec == Init /\ [][Next]_tree

-----------------------------------------------------------------------------
(* Properties.                                                             *)

Kids(n) == {tree.kid["L"][n], tree.kid["R"][n]}

TypeOK == tree \in Memory

\* No way down meets NULL.
Closed == \A n \in Linked : Kids(n) \subseteq Linked \cup {Sentinel}

\* Keys to the left are not larger, keys to the right not smaller, equal keys
\* included, after any rotations.
Ordered ==
    \A n \in Linked :
        /\ \A m \in Visit(tree, tree.kid["L"][n]) : Key[m] <= Key[n]
        /\ \A m \in Visit(tree, tree.kid["R"][n]) : Key[n] <= Key[m]

\* Black nodes below n, along the way down on which sides are the same.
BlackHeights(n) ==
    LET heights[c \in Linked \cup {Sentinel}] ==
          IF c = Sentinel THEN {0}
          ELSE {h + (IF c \in tree.red THEN 0 ELSE 1) :
                  h \in heights[tree.kid["L"][c]] \cup heights[tree.kid["R"][c]]}
    IN  heights[n]

\* The five rules of ez_rbtree.c:134-138: the root is black, a red node has
\* black children, and every way down passes the same number of black nodes.
RedBlack ==
    /\ tree.root \notin tree.red
    /\ \A n \in Linked \cap tree.red : Kids(n) \cap tree.red = {}
    /\ Cardinality(BlackHeights(tree.root)) = 1

\* Parent pointers lead back up, except the root's, which nobody may read.
ParentsBack ==
    \A n \in Linked : \A m \in Kids(n) \ {Sentinel} : tree.par[m] = n

\* The shared sentinel stays black and childless, although deletions write
\* its parent: rbtree_min of an empty tree returns NULL only because of this,
\* and ez_delete_event_loop ends only because of that.
SentinelIntact ==
    /\ Sentinel \notin tree.red
    /\ Kids(Sentinel) = {Null}
    /\ Linked = {} => MinNode(tree) = Null

\* All of this holds after every call, whatever was inserted and deleted before.
TreeRules == TypeOK /\ Closed /\ Ordered /\ RedBlack /\ ParentsBack /\ SentinelIntact

\* rbtree_find_node finds a node for every key that is in the tree, and none
\* for the others; rbtree_min_node returns a smallest one.
SearchesAgree ==
    /\ \A k \in {Key[n] : n \in Nodes} :
         LET f == FindNode(tree, k)
         IN  IF \E n \in Linked : Key[n] = k
             THEN f \in Linked /\ Key[f] = k
             ELSE f = Null
    /\ Linked # {} =>
         /\ MinNode(tree) \in Linked
         /\ \A n \in Linked : Key[MinNode(tree)] <= Key[n]

\* Refinement: the nodes rbtree_foreach visits are a set, to which insertion
\* adds and from which deletion removes exactly the node it is given.
Abs == INSTANCE NodeSet WITH members <- Linked
AbsSpec == Abs!Spec
=============================================================================
