-------------------------------- MODULE List --------------------------------
(***************************************************************************)
(* The intrusive list of ez_list.c, pointer by pointer: cells linked by    *)
(* next and prev into rings, each ring through one head.  The memory is a  *)
(* record of the two pointer fields; the operators are the functions of    *)
(* ez_list.c with their assignments in the order of the code.              *)
(***************************************************************************)
EXTENDS Naturals, Sequences, FiniteSets

CONSTANTS
    Heads,   \* list heads
    Entries, \* cells that can be linked behind a head
    NULL

Cells == Heads \cup Entries

ASSUME ListAssumption ==
    /\ NULL \notin Cells
    /\ Heads \cap Entries = {}
    /\ IsFiniteSet(Entries)

\* Memory in which nothing is linked yet.
Unlinked == [next |-> [c \in Cells |-> NULL], prev |-> [c \in Cells |-> NULL]]

\* init_list_head, for every head in H
InitHeads(m, H) ==
    [next |-> [c \in Cells |-> IF c \in H THEN c ELSE m.next[c]],
     prev |-> [c \in Cells |-> IF c \in H THEN c ELSE m.prev[c]]]

\* Slip: the old first entry keeps pointing back to the head.
AddBetweenOneWay(m, n, p, q) ==
    [m EXCEPT !.next[n] = q, !.prev[n] = p, !.next[p] = n]

\* __list_add
AddBetween(m, n, p, q) ==
    [m EXCEPT !.prev[q] = n, !.next[n] = q, !.prev[n] = p, !.next[p] = n]

\* list_add: behind the head, before all others
Add(m, n, h) == AddBetween(m, n, h, m.next[h])

\* __list_del
Unlink(m, p, q) == [m EXCEPT !.prev[q] = p, !.next[p] = q]

\* list_del
Del(m, e) ==
    LET u == Unlink(m, m.prev[e], m.next[e])
    IN  [u EXCEPT !.next[e] = NULL, !.prev[e] = NULL]

\* The entries LIST_FOR comes by, in order, until it is back at the head or
\* has made as many steps as there are entries.
Visited(m, h) ==
    LET walk[i \in 0 .. Cardinality(Entries)] ==
          IF i = 0 THEN <<>>
          ELSE LET w == walk[i - 1]
                   c == m.next[IF w = <<>> THEN h ELSE w[Len(w)]]
               IN  IF c \in Entries THEN Append(w, c) ELSE w
    IN  walk[Cardinality(Entries)]

\* The rings are sound: the linked cells L point at each other, forwards and
\* backwards alike, and all other cells point nowhere.
Rings(m, L) ==
    /\ m.next \in [Cells -> Cells \cup {NULL}]
    /\ m.prev \in [Cells -> Cells \cup {NULL}]
    /\ \A c \in L : m.next[c] \in L /\ m.prev[c] \in L
    /\ \A c \in L : m.prev[m.next[c]] = c /\ m.next[m.prev[c]] = c
    /\ \A c \in Cells \ L : m.next[c] = NULL /\ m.prev[c] = NULL
=============================================================================
