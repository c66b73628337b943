-------------------------- MODULE TimeEventsProofs --------------------------
(***************************************************************************)
(* Proofs about the timers: none is lost or doubled, the queue stays in    *)
(* order, a walk meets no timer twice and leaves out none that is due, the *)
(* loop does not sleep past its first deadline, and a clock that is set    *)
(* postpones no timer, for any number of timers, periods and return values.*)
(***************************************************************************)
EXTENDS TimeEvents, WellFoundedInduction, TLAPS

Distinct(l) == \A i, j \in 1 .. Len(l) : l[i] = l[j] => i = j

\* a timer of the list l
In(id, l) == \E i \in 1 .. Len(l) : l[i] = id

\* x stands before y
Before(l, x, y) == \E i, j \in 1 .. Len(l) : i < j /\ l[i] = x /\ l[j] = y

InOrder(l, w) == \A i, j \in 1 .. Len(l) : i < j => w[l[i]] <= w[l[j]]

-----------------------------------------------------------------------------
(* The list.                                                               *)

\* Every set of numbers has a least member.
LEMMA LeastNumber ==
    ASSUME NEW S, S \subseteq Nat, S # {}
    PROVE  Min(S) \in S /\ \A k \in S : Min(S) <= k
<1>1. PICK m \in S : \A k \in S : <<k, m>> \notin OpToRel(<, Nat)
  BY WFMin, NatLessThanWellFounded, Zenon
<1>2. \A k \in S : ~(k < m)
  BY <1>1, Zenon DEF OpToRel
<1>3. \E x \in S : \A y \in S : x <= y
  BY <1>2
<1>. QED  BY <1>3 DEF Min

\* list_add puts one timer between two others.
LEMMA Inserted ==
    ASSUME NEW l \in Seq(Ids), NEW k \in 1 .. Len(l) + 1, NEW id \in Ids
    PROVE  /\ InsertAt(l, k, id) \in Seq(Ids)
           /\ Len(InsertAt(l, k, id)) = Len(l) + 1
           /\ \A i \in 1 .. Len(l) + 1 :
                InsertAt(l, k, id)[i] =
                  IF i < k THEN l[i] ELSE IF i = k THEN id ELSE l[i - 1]
<1> DEFINE a == SubSeq(l, 1, k - 1)
           b == SubSeq(l, k, Len(l))
           r == (a \o <<id>>) \o b
<1>1. Len(l) \in Nat /\ k \in Nat
  OBVIOUS
<1>2. /\ a \in Seq(Ids) /\ Len(a) = k - 1
      /\ \A i \in 1 .. k - 1 : a[i] = l[i]
  BY <1>1
<1>3. /\ b \in Seq(Ids) /\ Len(b) = Len(l) + 1 - k
      /\ \A i \in 1 .. Len(l) + 1 - k : b[i] = l[k + i - 1]
  BY <1>1
<1> HIDE DEF a, b
<1>4. /\ a \o <<id>> \in Seq(Ids) /\ Len(a \o <<id>>) = k
      /\ \A i \in 1 .. k : (a \o <<id>>)[i] = IF i < k THEN l[i] ELSE id
  BY <1>1, <1>2
<1>5. /\ r \in Seq(Ids) /\ Len(r) = Len(l) + 1
      /\ \A i \in 1 .. Len(l) + 1 : r[i] = IF i <= k THEN (a \o <<id>>)[i] ELSE b[i - k]
  BY <1>1, <1>3, <1>4
<1>6. InsertAt(l, k, id) = r
  BY DEF InsertAt, r, a, b
<1> HIDE DEF r
<1>7. ASSUME NEW i \in 1 .. Len(l) + 1
      PROVE  r[i] = IF i < k THEN l[i] ELSE IF i = k THEN id ELSE l[i - 1]
  <2>1. CASE i <= k
    BY <1>1, <1>4, <1>5, <2>1
  <2>2. CASE i > k
    <3>1. i - k \in 1 .. Len(l) + 1 - k /\ k + (i - k) - 1 = i - 1
      BY <1>1, <2>2
    <3>2. b[i - k] = l[i - 1]
      BY <1>3, <3>1, Zenon
    <3>3. r[i] = b[i - k]
      BY <1>1, <1>5, <2>2
    <3>. QED  BY <1>1, <2>2, <3>2, <3>3
  <2>. QED  BY <1>1, <2>1, <2>2
<1>. QED  BY <1>5, <1>6, <1>7

\* list_del closes the gap.
LEMMA Removed ==
    ASSUME NEW l \in Seq(Ids), NEW k \in 1 .. Len(l)
    PROVE  /\ RemoveAt(l, k) \in Seq(Ids)
           /\ Len(RemoveAt(l, k)) = Len(l) - 1
           /\ \A i \in 1 .. Len(l) - 1 :
                RemoveAt(l, k)[i] = IF i < k THEN l[i] ELSE l[i + 1]
<1> DEFINE a == SubSeq(l, 1, k - 1)
           b == SubSeq(l, k + 1, Len(l))
           r == a \o b
<1>1. Len(l) \in Nat /\ k \in Nat
  OBVIOUS
<1>2. /\ a \in Seq(Ids) /\ Len(a) = k - 1
      /\ \A i \in 1 .. k - 1 : a[i] = l[i]
  BY <1>1
<1>3. /\ b \in Seq(Ids) /\ Len(b) = Len(l) - k
      /\ \A i \in 1 .. Len(l) - k : b[i] = l[k + i]
  BY <1>1
<1> HIDE DEF a, b
<1>4. /\ r \in Seq(Ids) /\ Len(r) = Len(l) - 1
      /\ \A i \in 1 .. Len(l) - 1 : r[i] = IF i < k THEN a[i] ELSE b[i - (k - 1)]
  <2>. a \in Seq(Ids) /\ b \in Seq(Ids)
    BY <1>2, <1>3
  <2>1. r \in Seq(Ids) /\ Len(r) = Len(a) + Len(b)
    OBVIOUS
  <2>2. \A i \in 1 .. Len(a) + Len(b) : r[i] = IF i <= Len(a) THEN a[i] ELSE b[i - Len(a)]
    OBVIOUS
  <2>. QED  BY <1>1, <1>2, <1>3, <2>1, <2>2
<1>5. RemoveAt(l, k) = r
  BY DEF RemoveAt, r, a, b
<1> HIDE DEF r
<1>6. ASSUME NEW i \in 1 .. Len(l) - 1
      PROVE  r[i] = IF i < k THEN l[i] ELSE l[i + 1]
  <2>1. CASE i < k
    BY <1>1, <1>2, <1>4, <2>1
  <2>2. CASE i >= k
    <3>1. i - (k - 1) \in 1 .. Len(l) - k /\ k + (i - (k - 1)) = i + 1
      BY <1>1, <2>2
    <3>2. b[i - (k - 1)] = l[i + 1]
      BY <1>3, <3>1, Zenon
    <3>3. r[i] = b[i - (k - 1)]
      BY <1>1, <1>4, <2>2
    <3>. QED  BY <1>1, <2>2, <3>2, <3>3
  <2>. QED  BY <1>1, <2>1, <2>2
<1>. QED  BY <1>4, <1>5, <1>6

\* insert_time_event_list keeps the order and adds one timer.
LEMMA Queueing ==
    ASSUME NEW l \in Seq(Ids), NEW id \in Ids, NEW w \in Nat, Distinct(l), ~In(id, l),
           when \in [Ids -> Nat]
    PROVE  /\ Insert(l, id, w) \in Seq(Ids)
           /\ Distinct(Insert(l, id, w))
           /\ \A x : In(x, Insert(l, id, w)) <=> x = id \/ In(x, l)
           /\ \A v \in [Ids -> Nat] :
                v[id] = w /\ (\A x \in Ids : In(x, l) => v[x] = when[x]) /\ InOrder(l, when)
                  => InOrder(Insert(l, id, w), v)
           /\ \A x, y : Before(l, x, y) => Before(Insert(l, id, w), x, y)
<1> DEFINE n == Len(l)
           k == Slot(l, w)
           r == InsertAt(l, k, id)
<1>1. n \in Nat /\ DOMAIN l = 1 .. n /\ \A i \in 1 .. n : l[i] \in Ids
  OBVIOUS
<1>2. /\ k \in 1 .. n + 1
      /\ \A i \in 1 .. n : i < k => when[l[i]] < w
      /\ k <= n => w <= when[l[k]]
  <2> DEFINE stop == {i \in 1 .. n : w <= when[l[i]]}
  <2>1. k = IF stop = {} THEN n + 1 ELSE Min(stop)
    BY <1>1 DEF Slot
  <2>2. \A i \in 1 .. n : when[l[i]] \in Nat
    BY <1>1
  <2>3. CASE stop = {}
    <3>1. k = n + 1
      BY <2>1, <2>3
    <3>2. \A i \in 1 .. n : ~(w <= when[l[i]])
      BY <2>3
    <3>. QED  BY <1>1, <2>2, <3>1, <3>2
  <2>4. CASE stop # {}
    <3>1. stop \subseteq Nat
      BY <1>1
    <3>2. Min(stop) \in stop /\ \A i \in stop : Min(stop) <= i
      BY <2>4, <3>1, LeastNumber, Zenon
    <3>3. k = Min(stop)
      BY <2>1, <2>4
    <3>4. k \in 1 .. n /\ w <= when[l[k]]
      BY <3>2, <3>3
    <3>5. ASSUME NEW i \in 1 .. n, i < k  PROVE when[l[i]] < w
      <4>1. i \notin stop
        BY <1>1, <3>2, <3>3, <3>4, <3>5
      <4>. QED  BY <2>2, <4>1
    <3>. QED  BY <1>1, <3>4, <3>5
  <2>. QED  BY <2>3, <2>4
<1> HIDE DEF k
<1>3. /\ r \in Seq(Ids) /\ Len(r) = n + 1
      /\ \A i \in 1 .. n + 1 : r[i] = IF i < k THEN l[i] ELSE IF i = k THEN id ELSE l[i - 1]
  BY <1>2, Inserted
<1>4. Insert(l, id, w) = r
  BY DEF Insert, k
<1> HIDE DEF r
<1>5. Distinct(r)
  <2> SUFFICES ASSUME NEW i \in 1 .. n + 1, NEW j \in 1 .. n + 1, r[i] = r[j]
               PROVE  i = j
    BY <1>3 DEF Distinct
  <2> DEFINE Down(m) == IF m < k THEN m ELSE m - 1
  <2>1. \A m \in 1 .. n + 1 : m # k => Down(m) \in 1 .. n /\ r[m] = l[Down(m)]
    BY <1>1, <1>2, <1>3
  <2>2. r[k] = id /\ \A m \in 1 .. n : l[m] # id
    BY <1>1, <1>2, <1>3 DEF In
  <2>3. CASE i = k \/ j = k
    BY <2>1, <2>2, <2>3
  <2>4. CASE i # k /\ j # k
    <3>1. Down(i) \in 1 .. n /\ Down(j) \in 1 .. n /\ l[Down(i)] = l[Down(j)]
      BY <2>1, <2>4
    <3>2. Down(i) = Down(j)
      BY <3>1 DEF Distinct
    <3>. QED  BY <1>1, <1>2, <2>4, <3>2
  <2>. QED  BY <2>3, <2>4
<1>6. \A x : In(x, r) <=> x = id \/ In(x, l)
  <2>1. In(id, r)
    BY <1>1, <1>2, <1>3 DEF In
  <2>2. ASSUME NEW x, In(x, l)  PROVE In(x, r)
    <3>1. PICK i \in 1 .. n : l[i] = x
      BY <2>2 DEF In
    <3>2. CASE i < k
      <4>1. i \in 1 .. n + 1 /\ r[i] = x
        BY <1>1, <1>2, <1>3, <3>1, <3>2
      <4>. QED  BY <1>3, <4>1 DEF In
    <3>3. CASE i >= k
      <4>1. i + 1 \in 1 .. n + 1 /\ r[i + 1] = x
        BY <1>1, <1>2, <1>3, <3>1, <3>3
      <4>. QED  BY <1>3, <4>1 DEF In
    <3>. QED  BY <1>1, <1>2, <3>2, <3>3
  <2>3. ASSUME NEW x, In(x, r), x # id  PROVE In(x, l)
    <3>1. PICK i \in 1 .. n + 1 : r[i] = x
      BY <1>3, <2>3 DEF In
    <3>2. PICK m \in 1 .. n : l[m] = x
      <4>1. CASE i < k
        BY <1>1, <1>2, <1>3, <3>1, <4>1
      <4>2. CASE i > k
        <5>1. i - 1 \in 1 .. n /\ r[i] = l[i - 1]
          BY <1>1, <1>2, <1>3, <4>2
        <5>. QED  BY <3>1, <5>1
      <4>. QED  BY <1>1, <1>2, <1>3, <2>3, <3>1, <4>1, <4>2
    <3>. QED  BY <3>2 DEF In
  <2>. QED  BY <2>1, <2>2, <2>3
<1>7. ASSUME NEW v \in [Ids -> Nat], v[id] = w, InOrder(l, when),
             \A x \in Ids : In(x, l) => v[x] = when[x]
      PROVE  InOrder(r, v)
  <2>1. \A i \in 1 .. n : v[l[i]] = when[l[i]] /\ when[l[i]] \in Nat
    BY <1>1, <1>7 DEF In
  <2>2. \A i, j \in 1 .. n : i < j => when[l[i]] <= when[l[j]]
    BY <1>7 DEF InOrder
  <2>3. ASSUME NEW j \in 1 .. n, k <= j  PROVE w <= when[l[j]]
    <3>1. k \in 1 .. n /\ w <= when[l[k]] /\ when[l[k]] \in Nat /\ when[l[j]] \in Nat
      BY <1>1, <1>2, <2>1, <2>3
    <3>2. k = j \/ when[l[k]] <= when[l[j]]
      BY <1>1, <2>2, <2>3, <3>1
    <3>. QED  BY <3>1, <3>2
  <2>4. ASSUME NEW i \in 1 .. n + 1, NEW j \in 1 .. n + 1, i < j
        PROVE  v[r[i]] <= v[r[j]]
    <3>1. CASE j < k
      BY <1>1, <1>2, <1>3, <2>1, <2>2, <2>4, <3>1
    <3>2. CASE j = k
      BY <1>1, <1>2, <1>3, <1>7, <2>1, <2>4, <3>2
    <3>3. CASE j > k /\ i < k
      <4>1. j - 1 \in 1 .. n /\ k <= j - 1 /\ i \in 1 .. n /\ r[i] = l[i] /\ r[j] = l[j - 1]
        BY <1>1, <1>2, <1>3, <2>4, <3>3
      <4>2. w <= when[l[j - 1]] /\ when[l[i]] < w
        BY <1>2, <2>3, <3>3, <4>1
      <4>3. v[l[i]] = when[l[i]] /\ v[l[j - 1]] = when[l[j - 1]]
        BY <2>1, <4>1
      <4>4. when[l[i]] \in Nat /\ when[l[j - 1]] \in Nat
        BY <2>1, <4>1
      <4>. QED  BY <4>1, <4>2, <4>3, <4>4
    <3>4. CASE j > k /\ i = k
      <4>1. j - 1 \in 1 .. n /\ k <= j - 1 /\ r[i] = id /\ r[j] = l[j - 1]
        BY <1>1, <1>2, <1>3, <2>4, <3>4
      <4>. QED  BY <1>7, <2>1, <2>3, <4>1
    <3>5. CASE j > k /\ i > k
      <4>1. i - 1 \in 1 .. n /\ j - 1 \in 1 .. n /\ i - 1 < j - 1
            /\ r[i] = l[i - 1] /\ r[j] = l[j - 1]
        BY <1>1, <1>2, <1>3, <2>4, <3>5
      <4>. QED  BY <2>1, <2>2, <4>1
    <3>. QED  BY <1>2, <2>4, <3>1, <3>2, <3>3, <3>4, <3>5
  <2>. QED  BY <1>3, <2>4 DEF InOrder
<1>8. ASSUME NEW x, NEW y, Before(l, x, y)  PROVE Before(r, x, y)
  <2> DEFINE Up(m) == IF m < k THEN m ELSE m + 1
  <2>1. PICK i \in 1 .. n, j \in 1 .. n : i < j /\ l[i] = x /\ l[j] = y
    BY <1>8 DEF Before
  <2>2. \A m \in 1 .. n : Up(m) \in 1 .. n + 1 /\ r[Up(m)] = l[m]
    <3> SUFFICES ASSUME NEW m \in 1 .. n
                 PROVE  Up(m) \in 1 .. n + 1 /\ r[Up(m)] = l[m]
      OBVIOUS
    <3>1. CASE m < k
      BY <1>1, <1>2, <1>3, <3>1
    <3>2. CASE m >= k
      <4>1. m + 1 \in 1 .. n + 1 /\ ~(m + 1 < k) /\ m + 1 # k /\ (m + 1) - 1 = m
        BY <1>1, <1>2, <3>2
      <4>2. \A p \in 1 .. n + 1 : ~(p < k) /\ p # k => r[p] = l[p - 1]
        BY <1>3
      <4>3. r[m + 1] = l[(m + 1) - 1]
        BY <4>1, <4>2
      <4>4. r[m + 1] = l[m]
        BY <4>1, <4>3
      <4>. QED  BY <1>1, <1>2, <3>2, <4>1, <4>4
    <3>. QED  BY <1>1, <1>2, <3>1, <3>2
  <2>3. Up(i) < Up(j)
    BY <1>1, <1>2, <2>1
  <2> HIDE DEF Up
  <2>. QED  BY <1>3, <2>1, <2>2, <2>3 DEF Before
<1>. QED  BY <1>3, <1>4, <1>5, <1>6, <1>7, <1>8

\* A timer with another one behind it is not the last.
LEMMA RoomAfter ==
    ASSUME NEW n \in Nat, NEW a \in 1 .. n, NEW c \in 1 .. n, a < c
    PROVE  a # n /\ a + 1 \in 1 .. n
OBVIOUS

\* list_del takes one timer out and keeps the others in order.
LEMMA Unlinking ==
    ASSUME list \in Seq(Ids), Distinct(list), NEW id, In(id, list)
    PROVE  /\ Without(id) \in Seq(Ids)
           /\ Distinct(Without(id))
           /\ \A x : In(x, Without(id)) <=> x # id /\ In(x, list)
           /\ \A v : InOrder(list, v) => InOrder(Without(id), v)
           /\ Successor(id) = End \/ (Successor(id) # id /\ In(Successor(id), list))
           /\ \A x, y : x # id /\ y # id /\ Before(list, x, y) => Before(Without(id), x, y)
           /\ \A y : Before(list, id, y) =>
                y = Successor(id) \/ Before(Without(id), Successor(id), y)
<1> DEFINE n == Len(list)
           k == Place(id)
           r == RemoveAt(list, k)
<1>1. n \in Nat /\ DOMAIN list = 1 .. n
  OBVIOUS
<1>2. k \in 1 .. n /\ list[k] = id
  BY <1>1 DEF Place, In
<1> HIDE DEF k
<1>3. /\ r \in Seq(Ids) /\ Len(r) = n - 1
      /\ \A i \in 1 .. n - 1 : r[i] = IF i < k THEN list[i] ELSE list[i + 1]
  BY <1>2, Removed
<1>4. Without(id) = r
  BY DEF Without, k
<1> HIDE DEF r
<1>5. Distinct(r)
  <2> SUFFICES ASSUME NEW i \in 1 .. n - 1, NEW j \in 1 .. n - 1, r[i] = r[j]
               PROVE  i = j
    BY <1>3 DEF Distinct
  <2> DEFINE Up(m) == IF m < k THEN m ELSE m + 1
  <2>1. /\ Up(i) \in 1 .. n /\ Up(j) \in 1 .. n
        /\ r[i] = list[Up(i)] /\ r[j] = list[Up(j)]
    BY <1>1, <1>2, <1>3
  <2>2. Up(i) = Up(j)
    BY <2>1 DEF Distinct
  <2>. QED  BY <1>1, <1>2, <2>2
<1>6. \A x : In(x, r) <=> x # id /\ In(x, list)
  <2>1. ASSUME NEW x, In(x, r)  PROVE x # id /\ In(x, list)
    <3>1. PICK i \in 1 .. n - 1 : r[i] = x
      BY <1>3, <2>1 DEF In
    <3>2. PICK m \in 1 .. n : m # k /\ list[m] = x
      BY <1>1, <1>2, <1>3, <3>1
    <3>. QED  BY <1>2, <3>2 DEF Distinct, In
  <2>2. ASSUME NEW x, x # id, In(x, list)  PROVE In(x, r)
    <3>1. PICK m \in 1 .. n : list[m] = x
      BY <2>2 DEF In
    <3>2. CASE m < k
      BY <1>1, <1>2, <1>3, <3>1, <3>2 DEF In
    <3>3. CASE m > k
      <4>1. m - 1 \in 1 .. n - 1 /\ r[m - 1] = x
        BY <1>1, <1>2, <1>3, <3>1, <3>3
      <4>. QED  BY <1>3, <4>1 DEF In
    <3>. QED  BY <1>1, <1>2, <2>2, <3>1, <3>2, <3>3
  <2>. QED  BY <2>1, <2>2
<1>7. ASSUME NEW v, InOrder(list, v)  PROVE InOrder(r, v)
  <2> SUFFICES ASSUME NEW i \in 1 .. n - 1, NEW j \in 1 .. n - 1, i < j
               PROVE  v[r[i]] <= v[r[j]]
    BY <1>3 DEF InOrder
  <2> DEFINE Up(m) == IF m < k THEN m ELSE m + 1
  <2>1. /\ Up(i) \in 1 .. n /\ Up(j) \in 1 .. n /\ Up(i) < Up(j)
        /\ r[i] = list[Up(i)] /\ r[j] = list[Up(j)]
    BY <1>1, <1>2, <1>3
  <2>. QED  BY <1>7, <2>1 DEF InOrder
<1>8. Successor(id) = End \/ (Successor(id) # id /\ In(Successor(id), list))
  <2>1. CASE k = n
    BY <2>1 DEF Successor, k
  <2>2. CASE k # n
    <3>1. k + 1 \in 1 .. n /\ k + 1 # k /\ Successor(id) = list[k + 1]
      BY <1>1, <1>2, <2>2 DEF Successor, k
    <3>. QED  BY <1>2, <3>1 DEF In, Distinct
  <2>. QED  BY <2>1, <2>2
<1> DEFINE Down(m) == IF m < k THEN m ELSE m - 1
<1>9. \A m \in 1 .. n : m # k => Down(m) \in 1 .. n - 1 /\ r[Down(m)] = list[m]
  <2> SUFFICES ASSUME NEW m \in 1 .. n, m # k
               PROVE  Down(m) \in 1 .. n - 1 /\ r[Down(m)] = list[m]
    OBVIOUS
  <2>1. CASE m < k
    BY <1>1, <1>2, <1>3, <2>1
  <2>2. CASE m > k
    <3>1. m - 1 \in 1 .. n - 1 /\ (m - 1) + 1 = m /\ ~(m - 1 < k)
      BY <1>1, <1>2, <2>2
    <3>2. r[m - 1] = list[m]
      BY <1>3, <3>1
    <3>. QED  BY <1>1, <1>2, <2>2, <3>1, <3>2
  <2>. QED  BY <1>1, <1>2, <2>1, <2>2
<1>10. \A i, j \in 1 .. n : i < j /\ i # k /\ j # k => Down(i) < Down(j)
  BY <1>1, <1>2
<1>11. ASSUME NEW x, NEW y, x # id, y # id, Before(list, x, y)  PROVE Before(r, x, y)
  <2>1. PICK i \in 1 .. n, j \in 1 .. n : i < j /\ list[i] = x /\ list[j] = y
    BY <1>11 DEF Before
  <2>2. i # k /\ j # k
    BY <1>2, <1>11, <2>1
  <2> HIDE DEF Down
  <2>. QED  BY <1>3, <1>9, <1>10, <2>1, <2>2 DEF Before
<1>12. ASSUME NEW y, Before(list, id, y), y # Successor(id)
       PROVE  Before(r, Successor(id), y)
  <2>1. PICK i \in 1 .. n, j \in 1 .. n : i < j /\ list[i] = id /\ list[j] = y
    BY <1>12 DEF Before
  <2>2. i = k
    BY <1>2, <2>1 DEF Distinct
  <2>3. k # n /\ k + 1 \in 1 .. n
    <3>1. k \in 1 .. n /\ j \in 1 .. n /\ k < j
      BY <1>2, <2>1, <2>2
    <3>. QED  BY <1>1, <3>1, RoomAfter
  <2>4. Successor(id) = list[k + 1]
    BY <2>3 DEF Successor, k
  <2>5. j # k + 1 /\ k + 1 < j /\ k + 1 # k /\ j # k
    BY <1>1, <1>2, <1>12, <2>1, <2>2, <2>4
  <2>6. Down(k + 1) < Down(j)
    BY <1>10, <2>3, <2>5
  <2> HIDE DEF Down
  <2>7. Down(k + 1) \in 1 .. n - 1 /\ r[Down(k + 1)] = Successor(id)
    BY <1>9, <2>3, <2>4, <2>5, Zenon
  <2>8. Down(j) \in 1 .. n - 1 /\ r[Down(j)] = y
    BY <1>9, <2>1, <2>5, Zenon
  <2>. QED  BY <1>3, <2>6, <2>7, <2>8 DEF Before
<1>. QED  BY <1>3, <1>4, <1>5, <1>6, <1>7, <1>8, <1>11, <1>12

-----------------------------------------------------------------------------
(* The inductive invariant.                                                *)

Times ==
    /\ pc \in {"setup", "files", "poll", "sleep", "scan", "inProc", "reput",
               "deleted", "crashed"}
    /\ now \in 0 .. MaxNow
    /\ timeout \in Nat \cup {Forever} /\ left \in Nat \cup {Forever}
    /\ left = Forever <=> timeout = Forever
    /\ timeout # Forever => left <= timeout
    /\ lost \in Nat /\ asked \in Nat /\ signals \in 0 .. MaxSignals
    /\ nowMs \in Nat /\ lastTime \in Nat
    /\ allFired \in BOOLEAN
    /\ spent \in 0 .. WalkSpan

\* Timers that were created; no number is given out twice.
Known == {i \in Ids : i < nextId}

Queues ==
    /\ list \in Seq(Ids) /\ reput \in Seq(Ids)
    /\ when \in [Ids -> Nat] /\ period \in [Ids -> Nat]
    /\ nextId \in Nat /\ begun \in 0 .. nextId
    /\ alive \subseteq Known /\ passed \subseteq Known /\ cut \subseteq Ids
    /\ te \in Ids \cup {End} /\ pos \in Known \cup {End}

\* Each timer is in one place.
Places ==
    /\ Distinct(list) /\ Distinct(reput)
    /\ \A x : In(x, list) => ~In(x, reput) /\ x # te
    /\ ~In(te, reput)
    /\ \A x : x \in alive <=> In(x, list) \/ In(x, reput) \/ (x = te /\ te # End)
    /\ te # End <=> pc = "inProc"
    /\ reput # <<>> => pc \in {"scan", "inProc", "reput", "crashed"}

\* The walk stands at a queued timer and has fired none of the queued ones;
\* during a callback the saved next timer may have been freed, by the callback.
Walk ==
    /\ pc = "scan" => pos = End \/ In(pos, list)
    /\ pc = "inProc" => pos = End \/ In(pos, list) \/ (pos \notin alive /\ pos \in cut)
    /\ pc \in {"scan", "inProc"} => \A x \in passed : ~In(x, list)
    /\ pc = "crashed" => pos \in cut

IInv ==
    /\ Times
    /\ Queues
    /\ Places
    /\ InOrder(list, when)
    /\ Walk

-----------------------------------------------------------------------------
(* The clock and the timeout.                                              *)

\* The conversion to int does not lengthen a wait; what an int can say stays.
LEMMA Narrowed ==
    ASSUME NEW x \in Int
    PROVE  /\ ToInt(x) \in Int
           /\ x >= 0 => ToInt(x) <= x
           /\ -(IntSpan \div 2) <= x /\ x < IntSpan \div 2 => ToInt(x) = x
<1> DEFINE h == IntSpan \div 2
<1>1. IntSpan \in Nat \ {0} /\ h \in Nat /\ IntSpan = 2 * h
  BY TimeEventsAssumption
<1> HIDE DEF h
<1>2. ASSUME NEW y \in Int
      PROVE  /\ y % IntSpan \in Int
             /\ y >= 0 => y % IntSpan <= y
             /\ 0 <= y /\ y < IntSpan => y % IntSpan = y
  BY <1>1
<1>3. /\ x + h \in Int
      /\ x >= 0 => x + h >= 0
      /\ -h <= x /\ x < h => 0 <= x + h /\ x + h < IntSpan
  BY <1>1
<1>4. /\ (x + h) % IntSpan \in Int
      /\ x >= 0 => (x + h) % IntSpan <= x + h
      /\ -h <= x /\ x < h => (x + h) % IntSpan = x + h
  BY <1>2, <1>3
<1>5. ToInt(x) = ((x + h) % IntSpan) - h
  BY DEF ToInt, h
<1>. QED  BY <1>1, <1>4, <1>5 DEF h

\* time(NULL) is a number.
LEMMA Clock == now \in 0 .. MaxNow => Seconds \in Nat
BY TimeEventsAssumption DEF Seconds

\* A queue that is not empty has a first timer.
LEMMA FirstQueued ==
    ASSUME Queues
    PROVE  list # <<>> => First \in Ids /\ First = list[1] /\ 1 \in 1 .. Len(list)
BY DEF Queues, First

\* The timeout of epoll_wait is a number or for ever.
LEMMA Timeout ==
    ASSUME Times, Queues
    PROVE  PollTimeout \in Nat \cup {Forever}
<1>1. CASE list = <<>>
  BY <1>1 DEF PollTimeout
<1>2. CASE list # <<>>
  <2> DEFINE t == ToInt(when[First] - now)
  <2>1. when[First] - now \in Int
    BY <1>2, FirstQueued DEF Times, Queues
  <2>2. t \in Int
    BY <2>1, Narrowed
  <2>3. PollTimeout = IF t < 0 THEN OverdueWait ELSE t
    BY <1>2 DEF PollTimeout
  <2> HIDE DEF t
  <2>. QED  BY <2>2, <2>3, TimeEventsAssumption
<1>. QED  BY <1>1, <1>2

\* Clock, timeout and phase keep their types.
LEMMA TimesKept ==
    ASSUME IInv, Next
    PROVE  Times'
<1>. USE DEF IInv
<1>1. CASE Run
  <2>1. /\ UNCHANGED <<now, timeout, left, lost, asked, signals>>
        /\ UNCHANGED <<nowMs, lastTime, allFired, spent>> /\ pc' = "poll"
    BY <1>1 DEF Run, sleep, scan
  <2>. QED  BY <2>1 DEF Times
<1>2. CASE Poll
  <2>1. /\ timeout' = PollTimeout /\ left' = PollTimeout /\ asked' = now /\ spent' = 0
        /\ UNCHANGED <<now, lost, signals, nowMs, lastTime, allFired>> /\ pc' = "sleep"
    BY <1>2 DEF Poll, scan
  <2>2. PollTimeout \in Nat \cup {Forever} /\ 0 \in 0 .. WalkSpan
    BY Timeout, TimeEventsAssumption
  <2>3. PollTimeout # Forever => PollTimeout <= PollTimeout
    BY <2>2
  <2>. QED  BY <2>1, <2>2, <2>3 DEF Times
<1>3. CASE FileWake
  BY <1>3 DEF FileWake, Times, scan, Forever
<1>4. CASE TimedOut
  BY <1>3, <1>4 DEF TimedOut, FileWake, Times, scan, Forever
<1>5. CASE StartPass
  BY <1>5, Clock DEF StartPass, Times, sleep, Skewed
<1>6. CASE Fire
  BY <1>6 DEF Fire, Times, sleep
<1>7. CASE EndScan
  BY <1>7 DEF EndScan, Times, sleep, scan
<1>8. CASE \E ret \in Rets : ProcReturn(ret)
  BY <1>8 DEF ProcReturn, Advance, Times, sleep
<1>9. CASE Reput
  BY <1>9 DEF Reput, Times, sleep, scan
<1>10. CASE EndPass
  BY <1>10 DEF EndPass, Times, sleep
<1>11. CASE \E p \in Periods : CreateTimeEvent(p)
  BY <1>11 DEF CreateTimeEvent, Times, sleep, scan
<1>12. CASE \E id \in Ids : DeleteTimeEvent(id)
  BY <1>12 DEF DeleteTimeEvent, Times, sleep, scan
<1>13. CASE Interrupted
  BY <1>13, TimeEventsAssumption DEF Interrupted, Times, scan, Forever
<1>14. CASE DeleteEventLoop
  BY <1>14 DEF DeleteEventLoop, Times, sleep, scan
<1>15. CASE Tick
  BY <1>15, TimeEventsAssumption DEF Tick, Times, scan, Forever, Busy
<1>16. CASE SetClock
  BY <1>16 DEF SetClock, Times, sleep, scan
<1>. QED  BY <1>1, <1>2, <1>3, <1>4, <1>5, <1>6, <1>7, <1>8, <1>9, <1>10, <1>11,
             <1>12, <1>13, <1>14, <1>15, <1>16 DEF Next, Loop, Calls

-----------------------------------------------------------------------------
(* The steps that leave the timers where they are.                         *)

Steady == Run \/ Poll \/ FileWake \/ Interrupted \/ StartPass \/ EndScan
          \/ EndPass \/ Tick \/ SetClock

\* They keep the places of the timers, and a walk starts at the first one.
LEMMA SteadyStep ==
    ASSUME IInv, Steady
    PROVE  (Queues /\ Places /\ InOrder(list, when) /\ Walk)'
<1>1. UNCHANGED <<list, reput, when, period, nextId, alive, te>>
  BY DEF Steady, Run, Poll, FileWake, Interrupted, StartPass, EndScan, EndPass,
         Tick, SetClock, timers, scan
<1>2. /\ passed' \in {passed, {}} /\ pos' \in {pos, First, End}
      /\ cut' \in {cut, {}} /\ begun' \in {begun, nextId, 0}
  BY DEF Steady, Run, Poll, FileWake, Interrupted, StartPass, EndScan, EndPass,
         Tick, SetClock, timers, scan
<1>3. First = End \/ In(First, list)
  BY FirstQueued DEF IInv, In, First
<1>4. InOrder(list, when)'
  BY <1>1 DEF IInv, InOrder
<1>5. In(First, list) => First \in Known
  BY DEF IInv, Places, Queues
<1>6. Queues'
  BY <1>1, <1>2, <1>3, <1>5 DEF IInv, Queues, Known
<1>7. /\ pc' = "inProc" <=> pc = "inProc"
      /\ reput # <<>> => pc' \in {"scan", "inProc", "reput", "crashed"}
  BY DEF IInv, Places, Steady, Run, Poll, FileWake, Interrupted, StartPass, EndScan,
         EndPass, Tick, SetClock
<1>8. Places'
  BY <1>1, <1>7 DEF IInv, Places, In, Distinct
<1>9. Walk'
  <2>1. CASE StartPass
    <3>1. pc' = "scan" /\ pos' = First /\ passed' = {}
      BY <2>1 DEF StartPass
    <3>. QED  BY <1>1, <1>3, <3>1 DEF Walk, In
  <2>2. CASE Tick
    <3>1. UNCHANGED <<pc, pos, passed, cut>>
      BY <2>2 DEF Tick, scan
    <3>. QED  BY <1>1, <3>1 DEF IInv, Walk, In
  <2>3. CASE ~StartPass /\ ~Tick
    <3>1. pc' \notin {"scan", "inProc", "crashed"}
      BY <2>3 DEF Steady, Run, Poll, FileWake, Interrupted, EndScan, EndPass, SetClock
    <3>. QED  BY <3>1 DEF Walk
  <2>. QED  BY <2>1, <2>2, <2>3
<1>. QED  BY <1>4, <1>6, <1>8, <1>9

-----------------------------------------------------------------------------
(* The steps that move timers.                                             *)

Moved == (Queues /\ Places /\ InOrder(list, when) /\ Walk)'

\* ez_create_time_event: a number never given out before, queued in order.
LEMMA CreateStep ==
    ASSUME IInv, NEW p \in Periods, CreateTimeEvent(p)
    PROVE  Moved
<1>. USE DEF IInv
<1>1. /\ nextId \in Ids /\ nextId \in Nat /\ p \in Nat
      /\ now + p \in Nat
  BY TimeEventsAssumption DEF CreateTimeEvent, Times, Queues
<1>2. UNCHANGED <<pc, reput, te, pos, passed, begun, cut>>
  BY DEF CreateTimeEvent, scan
<1>3. /\ list' = Insert(list, nextId, now + p)
      /\ when' = [when EXCEPT ![nextId] = now + p]
      /\ period' = [period EXCEPT ![nextId] = p]
      /\ alive' = alive \cup {nextId}
      /\ nextId' = nextId + 1
  BY DEF CreateTimeEvent
<1>4. nextId \notin Known /\ nextId \in Known' /\ Known \subseteq Known'
  <2>1. Known' = {i \in Ids : i < nextId + 1}
    BY <1>3 DEF Known
  <2>2. \A i \in Ids : i \in Nat
    BY TimeEventsAssumption
  <2>3. nextId < nextId + 1 /\ \A i \in Ids : i < nextId => i < nextId + 1
    BY <1>1, <2>2
  <2>4. ~(nextId < nextId)
    BY <1>1
  <2>. QED  BY <1>1, <2>1, <2>3, <2>4 DEF Known
<1>5. ~In(nextId, list) /\ ~In(nextId, reput) /\ nextId # te
  <2>1. nextId \notin alive /\ nextId # End
    BY <1>1, <1>4 DEF Queues, End
  <2>. QED  BY <2>1 DEF Places
<1>6. /\ list' \in Seq(Ids)
      /\ Distinct(list')
      /\ \A x : In(x, list') <=> x = nextId \/ In(x, list)
  BY <1>1, <1>3, <1>5, Queueing DEF Places, Queues
<1>7. InOrder(list', when')
  <2>1. when' \in [Ids -> Nat] /\ when'[nextId] = now + p
        /\ \A x \in Ids : In(x, list) => when'[x] = when[x]
    BY <1>1, <1>3, <1>5 DEF Queues
  <2>2. \A v \in [Ids -> Nat] :
          v[nextId] = now + p /\ (\A x \in Ids : In(x, list) => v[x] = when[x])
            /\ InOrder(list, when)
          => InOrder(list', v)
    <3> DEFINE w == now + p
    <3>1. list \in Seq(Ids) /\ Distinct(list) /\ when \in [Ids -> Nat]
      BY DEF Places, Queues
    <3>2. w \in Nat /\ nextId \in Ids /\ ~In(nextId, list) /\ list' = Insert(list, nextId, w)
      BY <1>1, <1>3, <1>5
    <3> HIDE DEF w
    <3>3. \A v \in [Ids -> Nat] :
            v[nextId] = w /\ (\A x \in Ids : In(x, list) => v[x] = when[x])
              /\ InOrder(list, when)
            => InOrder(Insert(list, nextId, w), v)
      BY <3>1, <3>2, Queueing
    <3>. QED  BY <3>2, <3>3 DEF w
  <2>. QED  BY <2>1, <2>2
<1>8. Queues'
  BY <1>1, <1>2, <1>3, <1>4, <1>6 DEF Queues
<1>9. Places'
  <2>1. \A x : In(x, reput') <=> In(x, reput)
    BY <1>2 DEF In
  <2>2. \A x : In(x, list') => ~In(x, reput') /\ x # te'
    BY <1>2, <1>5, <1>6, <2>1 DEF Places
  <2>3. \A x : x \in alive' <=> In(x, list') \/ In(x, reput') \/ (x = te' /\ te' # End)
    BY <1>2, <1>3, <1>6, <2>1 DEF Places
  <2>. QED  BY <1>2, <1>6, <2>1, <2>2, <2>3 DEF Places, Distinct
<1>10. Walk'
  <2>1. pc \in {"setup", "files", "inProc"}
    BY DEF CreateTimeEvent, Calling
  <2>2. pos # nextId /\ nextId \notin passed
    BY <1>1, <1>4 DEF Queues, End
  <2>. QED  BY <1>2, <1>3, <1>6, <2>1, <2>2 DEF Walk
<1>. QED  BY <1>7, <1>8, <1>9, <1>10 DEF Moved

\* ez_delete_time_event: a queued timer goes, any other number is ignored.
LEMMA DeleteStep ==
    ASSUME IInv, NEW id \in Ids, DeleteTimeEvent(id)
    PROVE  Moved
<1>. USE DEF IInv
<1>1. UNCHANGED <<pc, reput, when, period, nextId, te, pos, passed, begun>>
  BY DEF DeleteTimeEvent, scan
<1>2. CASE id \notin ToSet(list)
  <2>1. UNCHANGED <<list, alive, cut>>
    BY <1>2 DEF DeleteTimeEvent
  <2>. QED  BY <1>1, <2>1 DEF Moved, Queues, Known, Places, InOrder, Walk, In, Distinct
<1>3. CASE id \in ToSet(list)
  <2>1. /\ list' = Without(id) /\ alive' = alive \ {id}
        /\ cut' = IF pc = "inProc" THEN cut \cup {id} ELSE cut
    BY <1>3 DEF DeleteTimeEvent
  <2>2. In(id, list)
    BY <1>3 DEF ToSet, In, Queues
  <2>3. /\ list' \in Seq(Ids)
        /\ Distinct(list')
        /\ \A x : In(x, list') <=> x # id /\ In(x, list)
        /\ InOrder(list', when)
    BY <2>1, <2>2, Unlinking DEF Queues, Places
  <2>4. Queues'
    BY <1>1, <2>1, <2>3 DEF Queues, Known
  <2>5. Places'
    <3>1. \A x : In(x, reput') <=> In(x, reput)
      BY <1>1 DEF In
    <3>2. \A x : In(x, list') => ~In(x, reput') /\ x # te'
      BY <1>1, <2>3, <3>1 DEF Places
    <3>3. \A x : x \in alive' <=> In(x, list') \/ In(x, reput') \/ (x = te' /\ te' # End)
      BY <1>1, <2>1, <2>2, <2>3, <3>1 DEF Places
    <3>. QED  BY <1>1, <2>3, <3>1, <3>2, <3>3 DEF Places, Distinct
  <2>6. InOrder(list, when)'
    BY <1>1, <2>3
  <2>7. Walk'
    BY <1>1, <2>1, <2>2, <2>3 DEF Walk, DeleteTimeEvent, Calling
  <2>. QED  BY <2>4, <2>5, <2>6, <2>7 DEF Moved
<1>. QED  BY <1>2, <1>3

\* The walk takes a timer out and remembers the next one.
LEMMA FireStep ==
    ASSUME IInv, Fire
    PROVE  Moved
<1>. USE DEF IInv
<1>1. /\ pc = "scan" /\ pc' = "inProc" /\ pos # End /\ te' = pos
      /\ UNCHANGED <<reput, when, period, nextId, alive, begun>>
      /\ passed' = passed \cup {pos} /\ cut' = {}
      /\ list' = Without(pos) /\ pos' = Successor(pos)
  BY DEF Fire, Unlinked
<1>2. In(pos, list) /\ te = End
  BY <1>1 DEF Walk, Places
<1>3. /\ list' \in Seq(Ids)
      /\ Distinct(list')
      /\ \A x : In(x, list') <=> x # pos /\ In(x, list)
      /\ InOrder(list', when)
      /\ pos' = End \/ In(pos', list')
  BY <1>1, <1>2, Unlinking DEF Queues, Places
<1>4. \A x : In(x, list) => x \in Known
  BY DEF Places, Queues
<1>5. Queues'
  BY <1>1, <1>2, <1>3, <1>4 DEF Queues, Known
<1>6. Places'
  <2>1. \A x : In(x, reput') <=> In(x, reput)
    BY <1>1 DEF In
  <2>2. \A x : In(x, list') => ~In(x, reput') /\ x # te'
    BY <1>1, <1>3, <2>1 DEF Places
  <2>3. \A x : x \in alive' <=> In(x, list') \/ In(x, reput') \/ (x = te' /\ te' # End)
    BY <1>1, <1>2, <1>3, <2>1 DEF Places
  <2>. QED  BY <1>1, <1>2, <1>3, <2>1, <2>2, <2>3 DEF Places, Distinct
<1>7. InOrder(list, when)'
  BY <1>1, <1>3
<1>8. Walk'
  BY <1>1, <1>3 DEF Walk
<1>. QED  BY <1>5, <1>6, <1>7, <1>8 DEF Moved

\* A timer that goes on waits on the stack.
LEMMA Stacked ==
    ASSUME NEW l \in Seq(Ids), NEW id \in Ids, Distinct(l), ~In(id, l)
    PROVE  /\ <<id>> \o l \in Seq(Ids)
           /\ Distinct(<<id>> \o l)
           /\ \A x : In(x, <<id>> \o l) <=> x = id \/ In(x, l)
<1> DEFINE r == <<id>> \o l
           n == Len(l)
<1>1. /\ n \in Nat /\ r \in Seq(Ids) /\ Len(r) = n + 1
      /\ r[1] = id /\ \A i \in 1 .. n : r[i + 1] = l[i]
  OBVIOUS
<1> HIDE DEF r
<1>2. \A i \in 1 .. n + 1 : i = 1 \/ (i - 1 \in 1 .. n /\ r[i] = l[i - 1])
  <2> SUFFICES ASSUME NEW i \in 1 .. n + 1, i # 1
               PROVE  i - 1 \in 1 .. n /\ r[i] = l[i - 1]
    OBVIOUS
  <2>1. i - 1 \in 1 .. n /\ (i - 1) + 1 = i
    BY <1>1
  <2>. QED  BY <1>1, <2>1
<1>3. \A i \in 1 .. n : l[i] # id
  BY DEF In
<1>4. Distinct(r)
  <2> SUFFICES ASSUME NEW i \in 1 .. n + 1, NEW j \in 1 .. n + 1, r[i] = r[j]
               PROVE  i = j
    BY <1>1 DEF Distinct
  <2>1. CASE i = 1 \/ j = 1
    BY <1>1, <1>2, <1>3, <2>1
  <2>2. CASE i # 1 /\ j # 1
    <3>1. i - 1 \in 1 .. n /\ j - 1 \in 1 .. n /\ l[i - 1] = l[j - 1]
      BY <1>2, <2>2
    <3>2. i - 1 = j - 1
      BY <3>1, Zenon DEF Distinct
    <3>. QED  BY <1>1, <3>2
  <2>. QED  BY <2>1, <2>2
<1>5. \A x : In(x, r) <=> x = id \/ In(x, l)
  <2>1. In(id, r)
    BY <1>1 DEF In
  <2>2. ASSUME NEW x, In(x, l)  PROVE In(x, r)
    <3>1. PICK i \in 1 .. n : l[i] = x
      BY <2>2 DEF In
    <3>2. i + 1 \in 1 .. n + 1 /\ r[i + 1] = x
      BY <1>1, <3>1
    <3>. QED  BY <1>1, <3>2 DEF In
  <2>3. ASSUME NEW x, In(x, r)  PROVE x = id \/ In(x, l)
    <3>1. PICK i \in 1 .. n + 1 : r[i] = x
      BY <1>1, <2>3 DEF In
    <3>. QED  BY <1>1, <1>2, <3>1 DEF In
  <2>. QED  BY <2>1, <2>2, <2>3
<1>. QED  BY <1>1, <1>4, <1>5 DEF r

\* The first of the stack is taken off.
LEMMA Unstacked ==
    ASSUME NEW l \in Seq(Ids), l # <<>>, Distinct(l)
    PROVE  /\ Head(l) \in Ids /\ In(Head(l), l)
           /\ Tail(l) \in Seq(Ids)
           /\ Distinct(Tail(l))
           /\ \A x : In(x, Tail(l)) <=> x # Head(l) /\ In(x, l)
<1> DEFINE r == Tail(l)
           n == Len(l)
<1>1. /\ n \in Nat \ {0} /\ r \in Seq(Ids) /\ Len(r) = n - 1
      /\ Head(l) = l[1] /\ l[1] \in Ids /\ 1 \in 1 .. n
      /\ \A i \in 1 .. n - 1 : r[i] = l[i + 1]
  OBVIOUS
<1> HIDE DEF r
<1>2. \A i \in 1 .. n - 1 : i + 1 \in 1 .. n /\ i + 1 # 1
  BY <1>1
<1>3. Distinct(r)
  <2> SUFFICES ASSUME NEW i \in 1 .. n - 1, NEW j \in 1 .. n - 1, r[i] = r[j]
               PROVE  i = j
    BY <1>1 DEF Distinct
  <2>1. i + 1 \in 1 .. n /\ j + 1 \in 1 .. n /\ l[i + 1] = l[j + 1]
    BY <1>1, <1>2
  <2>2. i + 1 = j + 1
    BY <2>1, Zenon DEF Distinct
  <2>. QED  BY <1>1, <2>2
<1>4. \A x : In(x, r) <=> x # Head(l) /\ In(x, l)
  <2>1. ASSUME NEW x, In(x, r)  PROVE x # Head(l) /\ In(x, l)
    <3>1. PICK i \in 1 .. n - 1 : r[i] = x
      BY <1>1, <2>1 DEF In
    <3>2. i + 1 \in 1 .. n /\ i + 1 # 1 /\ l[i + 1] = x
      BY <1>1, <1>2, <3>1
    <3>. QED  BY <1>1, <3>2 DEF In, Distinct
  <2>2. ASSUME NEW x, x # Head(l), In(x, l)  PROVE In(x, r)
    <3>1. PICK i \in 1 .. n : l[i] = x
      BY <2>2 DEF In
    <3>2. i - 1 \in 1 .. n - 1 /\ (i - 1) + 1 = i
      BY <1>1, <2>2, <3>1
    <3>3. r[i - 1] = x
      BY <1>1, <3>1, <3>2
    <3>. QED  BY <1>1, <3>2, <3>3 DEF In
  <2>. QED  BY <2>1, <2>2
<1>. QED  BY <1>1, <1>3, <1>4 DEF In, r

\* The callback ended: the timer goes or waits, and the walk goes on.
LEMMA ReturnStep ==
    ASSUME IInv, NEW ret \in Rets, ProcReturn(ret)
    PROVE  Moved
<1>. USE DEF IInv
<1>1. /\ pc = "inProc" /\ te' = End
      /\ pc' = IF pos \in alive \cup {End} THEN "scan" ELSE "crashed"
      /\ UNCHANGED <<period, nextId, pos, passed, begun, cut>>
  BY DEF ProcReturn, Advance
<1>2. te \in Ids /\ te # End /\ te \in alive /\ ~In(te, list) /\ ~In(te, reput)
  BY <1>1 DEF Places, Queues
<1>3. \A x : ~In(x, list) \/ x # End
  BY TimeEventsAssumption DEF Places, Queues, Known, End
<1>4. list' = list
  BY DEF ProcReturn, Requeued
<1>5. \A x : In(x, list') <=> In(x, list)
  BY <1>4 DEF In
<1>6. Walk'
  <2>1. pc' = "scan" => pos = End \/ In(pos, list)
    BY <1>1 DEF Walk
  <2>2. pc' = "crashed" => pos \in cut
    BY <1>1 DEF Walk, Places
  <2>. QED  BY <1>1, <1>5, <2>1, <2>2 DEF Walk
<1>7. CASE ret <= -1
  <2>1. alive' = alive \ {te} /\ UNCHANGED <<reput, when>>
    BY <1>7 DEF ProcReturn
  <2>2. Queues'
    BY <1>1, <1>4, <2>1 DEF Queues, Known
  <2>3. Places'
    <3>1. \A x : In(x, reput') <=> In(x, reput)
      BY <2>1 DEF In
    <3>2. ~In(End, reput)
      BY TimeEventsAssumption DEF Places, Queues, Known, End
    <3>3. \A x : x \in alive' <=> In(x, list') \/ In(x, reput') \/ (x = te' /\ te' # End)
      BY <1>1, <1>2, <1>5, <2>1, <3>1 DEF Places
    <3>. QED  BY <1>1, <1>3, <1>4, <1>5, <2>1, <3>1, <3>2, <3>3 DEF Places, Distinct
  <2>4. InOrder(list, when)'
    BY <1>4, <2>1
  <2>. QED  BY <1>6, <2>2, <2>3, <2>4 DEF Moved
<1>8. CASE ~(ret <= -1)
  <2>1. /\ when' = [when EXCEPT ![te] = nowMs + Delay(ret)]
        /\ reput' = <<te>> \o reput
        /\ alive' = alive
    BY <1>8 DEF ProcReturn, Requeued
  <2>2. nowMs + Delay(ret) \in Nat
    BY <1>2, <1>8, TimeEventsAssumption DEF Delay, Times, Queues
  <2>3. /\ reput' \in Seq(Ids)
        /\ Distinct(reput')
        /\ \A x : In(x, reput') <=> x = te \/ In(x, reput)
    BY <1>2, <2>1, Stacked DEF Places, Queues
  <2>4. Queues'
    BY <1>1, <1>4, <2>1, <2>2, <2>3 DEF Queues, Known
  <2>5. Places'
    <3>1. ~In(End, reput')
      BY <1>2, <2>3, TimeEventsAssumption DEF Places, Queues, Known, End
    <3>2. \A x : x \in alive' <=> In(x, list') \/ In(x, reput') \/ (x = te' /\ te' # End)
      BY <1>1, <1>2, <1>5, <2>1, <2>3 DEF Places
    <3>3. \A x : In(x, list') => ~In(x, reput') /\ x # te'
      BY <1>1, <1>2, <1>3, <1>5, <2>3 DEF Places
    <3>. QED  BY <1>1, <1>4, <2>3, <3>1, <3>2, <3>3 DEF Places, Distinct
  <2>6. InOrder(list, when)'
    <3>1. \A i \in 1 .. Len(list) : list[i] # te
      BY <1>2 DEF In
    <3>2. \A i \in 1 .. Len(list) : list[i] \in Ids
      BY DEF Queues
    <3>3. \A i \in 1 .. Len(list) : when'[list[i]] = when[list[i]]
      BY <2>1, <3>1, <3>2 DEF Queues
    <3>. QED  BY <1>4, <3>3 DEF InOrder
  <2>. QED  BY <1>6, <2>4, <2>5, <2>6 DEF Moved
<1>. QED  BY <1>7, <1>8

\* A timer that waited is queued again.
LEMMA ReputStep ==
    ASSUME IInv, Reput
    PROVE  Moved
<1>. USE DEF IInv
<1> DEFINE id == Head(reput)
<1>1. /\ pc = "reput" /\ reput # <<>>
      /\ list' = Insert(list, id, when[id]) /\ reput' = Tail(reput)
      /\ UNCHANGED <<pc, when, period, nextId, alive, te, pos, passed, begun, cut>>
  BY DEF Reput, ReputRest, scan
<1>2. /\ id \in Ids /\ In(id, reput)
      /\ reput' \in Seq(Ids)
      /\ Distinct(reput')
      /\ \A x : In(x, reput') <=> x # id /\ In(x, reput)
  BY <1>1, Unstacked DEF Places, Queues
<1> HIDE DEF id
<1>3. when[id] \in Nat /\ ~In(id, list)
  BY <1>2 DEF Places, Queues
<1>4. /\ list' \in Seq(Ids)
      /\ Distinct(list')
      /\ \A x : In(x, list') <=> x = id \/ In(x, list)
      /\ InOrder(list', when)
  BY <1>1, <1>2, <1>3, Queueing DEF Places, Queues
<1>5. Queues'
  BY <1>1, <1>2, <1>4 DEF Queues, Known
<1>6. Places'
  <2>1. te = End
    BY <1>1 DEF Places
  <2>2. id # End
    BY <1>2, TimeEventsAssumption DEF End
  <2>3. \A x : In(x, list') => ~In(x, reput') /\ x # te'
    BY <1>1, <1>2, <1>4, <2>1, <2>2 DEF Places
  <2>4. \A x : x \in alive' <=> In(x, list') \/ In(x, reput') \/ (x = te' /\ te' # End)
    BY <1>1, <1>2, <1>4 DEF Places
  <2>. QED  BY <1>1, <1>2, <1>4, <2>3, <2>4 DEF Places
<1>7. Walk'
  BY <1>1 DEF Walk
<1>. QED  BY <1>1, <1>4, <1>5, <1>6, <1>7 DEF Moved

\* ez_delete_event_loop frees what is queued, which is all there is.
LEMMA EndStep ==
    ASSUME IInv, DeleteEventLoop
    PROVE  Moved
<1>. USE DEF IInv
<1>1. /\ pc = "poll" /\ pc' = "deleted"
      /\ alive' = alive \ ToSet(list) /\ list' = <<>>
      /\ UNCHANGED <<reput, when, period, nextId, te, pos, passed, begun, cut>>
  BY DEF DeleteEventLoop, scan
<1>2. \A x : ~In(x, list') /\ (In(x, reput') <=> In(x, reput))
  BY <1>1 DEF In
<1>3. \A x : x \in ToSet(list) <=> In(x, list)
  BY DEF ToSet, In, Queues
<1>4. Queues'
  BY <1>1 DEF Queues, Known
<1>5. Places'
  <2>1. \A x : x \in alive' <=> In(x, list') \/ In(x, reput') \/ (x = te' /\ te' # End)
    BY <1>1, <1>2, <1>3 DEF Places
  <2>2. reput = <<>> /\ te = End
    BY <1>1 DEF Places
  <2>3. Distinct(list')
    BY <1>1 DEF Distinct
  <2>. QED  BY <1>1, <1>2, <2>1, <2>2, <2>3 DEF Places
<1>6. InOrder(list, when)' /\ Walk'
  BY <1>1 DEF InOrder, Walk
<1>. QED  BY <1>4, <1>5, <1>6 DEF Moved

\* The inductive invariant.
THEOREM Invariant == Spec => []IInv
<1>1. Init => IInv
  <2> SUFFICES ASSUME Init PROVE IInv
    OBVIOUS
  <2>1. Times
    <3>1. now \in 0 .. MaxNow /\ 0 \in 0 .. MaxSignals /\ 0 \in 0 .. WalkSpan
      BY TimeEventsAssumption DEF Init
    <3>2. lastTime \in Nat
      BY <3>1, Clock DEF Init
    <3>. QED  BY <3>1, <3>2 DEF Init, Times
  <2>2. list = <<>> /\ reput = <<>> /\ Len(<<>>) = 0
    BY DEF Init
  <2>3. \A x : ~In(x, list) /\ ~In(x, reput)
    BY <2>2 DEF In
  <2>4. Queues
    BY DEF Init, Queues, Known
  <2>5. Places
    BY <2>2, <2>3 DEF Init, Places, Distinct
  <2>6. InOrder(list, when)
    BY <2>2 DEF InOrder
  <2>7. Walk
    BY DEF Init, Walk
  <2>. QED  BY <2>1, <2>4, <2>5, <2>6, <2>7 DEF IInv
<1>2. IInv /\ [Next]_vars => IInv'
  <2> SUFFICES ASSUME IInv, [Next]_vars PROVE IInv'
    OBVIOUS
  <2>1. CASE Next
    <3>1. Times'
      BY <2>1, TimesKept
    <3>2. CASE Steady
      BY <3>1, <3>2, SteadyStep DEF IInv
    <3>3. CASE \E p \in Periods : CreateTimeEvent(p)
      BY <3>1, <3>3, CreateStep DEF IInv, Moved
    <3>4. CASE \E id \in Ids : DeleteTimeEvent(id)
      BY <3>1, <3>4, DeleteStep DEF IInv, Moved
    <3>5. CASE Fire
      BY <3>1, <3>5, FireStep DEF IInv, Moved
    <3>6. CASE \E ret \in Rets : ProcReturn(ret)
      BY <3>1, <3>6, ReturnStep DEF IInv, Moved
    <3>7. CASE Reput
      BY <3>1, <3>7, ReputStep DEF IInv, Moved
    <3>8. CASE DeleteEventLoop
      BY <3>1, <3>8, EndStep DEF IInv, Moved
    <3>. QED  BY <2>1, <3>2, <3>3, <3>4, <3>5, <3>6, <3>7, <3>8
              DEF Next, Loop, Calls, Steady, TimedOut
  <2>2. CASE UNCHANGED vars
    BY <2>2 DEF vars, sleep, timers, scan, IInv, Times, Queues, Known, Places, Walk,
                In, Distinct, InOrder
  <2>. QED  BY <2>1, <2>2
<1>. QED  BY <1>1, <1>2, PTL DEF Spec

\* Every variable keeps its type; the timeout is a number or for ever.
THEOREM TypeCorrect == Spec => []TypeOK
<1>1. IInv => TypeOK
  BY DEF IInv, Times, Queues, Known, TypeOK
<1>. QED  BY <1>1, Invariant, PTL

\* The queue is in order of deadlines at every step of a walk.
THEOREM InDeadlineOrder == Spec => []Sorted
<1>1. IInv => Sorted
  <2> SUFFICES ASSUME IInv PROVE Sorted
    OBVIOUS
  <2>1. DOMAIN list = 1 .. Len(list)
    BY DEF IInv, Queues
  <2>. QED  BY <2>1 DEF IInv, InOrder, Sorted
<1>. QED  BY <1>1, Invariant, PTL

\* No timer is lost or doubled by callbacks that create and delete timers
\* during a walk, disciplined or not.
THEOREM Accounted == Spec => []TimersAccounted
<1>1. IInv => TimersAccounted
  <2> SUFFICES ASSUME IInv PROVE TimersAccounted
    OBVIOUS
  <2> USE DEF IInv
  <2>1. list \in Seq(Ids) /\ reput \in Seq(Ids)
    BY DEF Queues
  <2>2. \A x : (x \in ToSet(list) <=> In(x, list)) /\ (x \in ToSet(reput) <=> In(x, reput))
    BY <2>1 DEF ToSet, In
  <2>3. alive = ToSet(list) \cup ToSet(reput) \cup ({te} \ {End})
    BY <2>2 DEF Places
  <2> DEFINE m == Len(list)
             n == Len(reput)
             r == list \o reput
  <2>4. /\ m \in Nat /\ n \in Nat
        /\ DOMAIN r = 1 .. m + n
        /\ \A i \in 1 .. m + n : r[i] = IF i <= m THEN list[i] ELSE reput[i - m]
    BY <2>1
  <2> HIDE DEF r
  <2>5. ASSUME NEW i \in 1 .. m + n
        PROVE  \/ i \in 1 .. m /\ r[i] = list[i]
               \/ i - m \in 1 .. n /\ r[i] = reput[i - m]
    BY <2>4
  <2>6. ASSUME NEW i \in 1 .. m + n, NEW j \in 1 .. m + n, r[i] = r[j]
        PROVE  i = j
    <3>1. CASE i \in 1 .. m /\ r[i] = list[i]
      <4>1. ~(j - m \in 1 .. n /\ r[j] = reput[j - m])
        BY <2>6, <3>1 DEF Places, In
      <4>2. j \in 1 .. m /\ r[j] = list[j]
        BY <2>5, <4>1
      <4>. QED  BY <2>6, <3>1, <4>2 DEF Places, Distinct
    <3>2. CASE i - m \in 1 .. n /\ r[i] = reput[i - m]
      <4>1. ~(j \in 1 .. m /\ r[j] = list[j])
        BY <2>6, <3>2 DEF Places, In
      <4>2. j - m \in 1 .. n /\ r[j] = reput[j - m]
        BY <2>5, <4>1
      <4>3. i - m = j - m
        BY <2>6, <3>2, <4>2 DEF Places, Distinct
      <4>. QED  BY <2>4, <4>3
    <3>. QED  BY <2>5, <3>1, <3>2
  <2>7. IsInjective(r)
    BY <2>4, <2>6 DEF IsInjective
  <2>8. te \notin ToSet(r)
    <3>1. \A i \in 1 .. m + n : r[i] # te
      BY <2>5 DEF Places, In
    <3>. QED  BY <2>4, <3>1 DEF ToSet
  <2>. QED  BY <2>3, <2>7, <2>8 DEF TimersAccounted, r
<1>. QED  BY <1>1, Invariant, PTL

\* A walk never meets a timer that it has fired.
THEOREM Once == Spec => OncePerPass
<1>1. IInv /\ [Next]_vars => [pc = "scan" /\ pc' = "inProc" => pos \notin passed]_vars
  <2> SUFFICES ASSUME IInv, [Next]_vars, pc = "scan", pc' = "inProc"
               PROVE  pos \notin passed
    OBVIOUS
  <2>1. Fire
    BY DEF Next, Loop, Calls, Run, Poll, TimedOut, FileWake, Interrupted, StartPass,
           EndScan, EndPass, ProcReturn, Reput, CreateTimeEvent, DeleteTimeEvent,
           DeleteEventLoop, Tick, SetClock, vars, Calling
  <2>2. In(pos, list)
    BY <2>1 DEF IInv, Walk, Fire
  <2>. QED  BY <2>2 DEF IInv, Walk
<1>. QED  BY <1>1, Invariant, PTL DEF Spec, OncePerPass

-----------------------------------------------------------------------------
(* What a walk leaves out.                                                 *)

\* The walk still comes to x, or x was created after it began; with the saved
\* next timer freed it comes to nothing.
Ahead(x) ==
    \/ x >= begun
    \/ x = pos \/ Before(list, pos, x)
    \/ pc = "inProc" /\ pos \notin alive \cup {End}

\* The walk has done what it has to for x.
Met(x) == x \in passed \/ x >= begun \/ (~allFired /\ nowMs < when[x])

\* A queued timer is ahead of the walk, one that waits on the stack has fired.
MetInv ==
    /\ pc \in {"scan", "inProc"} => \A x : In(x, list) => Ahead(x)
    /\ pc \in {"scan", "inProc", "reput"} => \A x : In(x, reput) => x \in passed
    /\ pc = "inProc" => te \in passed
    /\ pc = "reput" => \A x : In(x, list) => Met(x)

\* A walk starts with all that is queued ahead of it.
LEMMA AllAhead ==
    ASSUME IInv, NEW x, In(x, list)
    PROVE  x = First \/ Before(list, First, x)
<1>1. PICK i \in 1 .. Len(list) : list[i] = x
  BY DEF In
<1>2. First = list[1] /\ 1 \in 1 .. Len(list)
  BY <1>1, FirstQueued DEF IInv, Queues
<1>3. x # First => 1 < i
  BY <1>1, <1>2 DEF IInv, Queues
<1>. QED  BY <1>1, <1>2, <1>3 DEF Before

\* What stands behind a timer that is not due is not due either.
LEMMA NoneDueBehind ==
    ASSUME IInv, In(pos, list), ~Due(pos), NEW x, x = pos \/ Before(list, pos, x)
    PROVE  ~allFired /\ now < when[x]
<1>1. ~allFired /\ ~(now >= when[pos])
  BY DEF Due
<1>2. In(x, list) /\ when[pos] <= when[x]
  <2>1. CASE x = pos
    <3>1. when[pos] \in Nat
      BY DEF In, IInv, Queues
    <3>. QED  BY <2>1, <3>1
  <2>2. CASE Before(list, pos, x)
    BY <2>2 DEF Before, In, IInv, InOrder
  <2>. QED  BY <2>1, <2>2
<1>3. now \in Int
  BY DEF IInv, Times
<1>4. x \in Ids /\ pos \in Ids
  BY <1>2 DEF In, IInv, Queues
<1>5. when[x] \in Nat /\ when[pos] \in Nat
  BY <1>4 DEF IInv, Queues
<1>. QED  BY <1>1, <1>2, <1>3, <1>5

\* A walk keeps what is ahead of it and what it has met, whatever its callbacks
\* create and delete.
LEMMA MetKept ==
    ASSUME IInv, MetInv, [Next]_vars
    PROVE  MetInv'
<1>1. \A x : In(x, list) \/ In(x, reput) => x \in Ids /\ x \in Known /\ x \in Nat
  BY TimeEventsAssumption DEF IInv, Places, Queues, Known
<1>2. \A x : In(x, list) => x # End /\ ~Before(list, End, x)
  BY <1>1, TimeEventsAssumption DEF Before, In, IInv, Queues, End
<1>3. CASE pc' \notin {"scan", "inProc", "reput"}
  BY <1>3 DEF MetInv
<1>4. CASE UNCHANGED <<pc, timers, scan>>
  <2>1. \A x : /\ In(x, list)' <=> In(x, list)
               /\ In(x, reput)' <=> In(x, reput)
               /\ Ahead(x)' <=> Ahead(x)
               /\ Met(x)' <=> Met(x)
    BY <1>4 DEF In, Before, Ahead, Met, timers, scan
  <2>. QED  BY <1>4, <2>1 DEF MetInv, scan
<1>5. CASE StartPass
  <2>1. /\ UNCHANGED <<list, reput>>
        /\ pc = "files" /\ pc' = "scan" /\ pos' = First
    BY <1>5 DEF StartPass, timers
  <2>2. \A x : ~In(x, reput')
    BY <2>1 DEF IInv, Places, In
  <2>3. ASSUME NEW x, In(x, list')  PROVE Ahead(x)'
    <3>1. In(x, list)
      BY <2>1, <2>3
    <3>2. x = First \/ Before(list, First, x)
      BY <3>1, AllAhead
    <3>. QED  BY <2>1, <3>2 DEF Ahead
  <2>. QED  BY <2>1, <2>2, <2>3 DEF MetInv
<1>6. CASE Fire
  <2>1. /\ pc = "scan" /\ pc' = "inProc" /\ te' = pos
        /\ UNCHANGED <<reput, begun>>
        /\ list' = Without(pos) /\ pos' = Successor(pos)
        /\ passed' = passed \cup {pos} /\ pos # End
    BY <1>6 DEF Fire, Unlinked
  <2>2. In(pos, list)
    BY <2>1 DEF IInv, Walk
  <2>3. /\ \A x : In(x, list') <=> x # pos /\ In(x, list)
        /\ \A y : Before(list, pos, y) => y = pos' \/ Before(list', pos', y)
    BY <2>1, <2>2, Unlinking DEF IInv, Places, Queues
  <2>4. ASSUME NEW x, In(x, list')  PROVE Ahead(x)'
    <3>1. x # pos /\ In(x, list)
      BY <2>3, <2>4
    <3>2. x >= begun \/ Before(list, pos, x)
      BY <2>1, <3>1 DEF MetInv, Ahead
    <3>. QED  BY <2>1, <2>3, <3>2 DEF Ahead
  <2>5. \A x : In(x, reput') => x \in passed'
    BY <2>1 DEF MetInv
  <2>. QED  BY <2>1, <2>4, <2>5 DEF MetInv
<1>7. CASE EndScan
  <2>1. /\ pc = "scan" /\ pc' = "reput" /\ (pos # End => ~Due(pos))
        /\ UNCHANGED <<list, reput, when, passed, begun, allFired>>
        /\ nowMs' = IF pos = End THEN nowMs ELSE now
    BY <1>7 DEF EndScan, timers
  <2>2. ASSUME NEW x, In(x, list'), ~(x >= begun)  PROVE ~allFired /\ nowMs' < when[x]
    <3>1. In(x, list)
      BY <2>1, <2>2
    <3>2. x = pos \/ Before(list, pos, x)
      BY <2>1, <2>2, <3>1 DEF MetInv, Ahead
    <3>3. pos # End
      BY <1>2, <3>1, <3>2
    <3>4. In(pos, list) /\ ~Due(pos)
      BY <2>1, <3>3 DEF IInv, Walk
    <3>5. ~allFired /\ now < when[x]
      BY <3>2, <3>4, NoneDueBehind
    <3>. QED  BY <2>1, <3>3, <3>5
  <2>3. \A x : In(x, list') => Met(x)'
    BY <2>1, <2>2 DEF Met
  <2>4. \A x : In(x, reput') => x \in passed'
    BY <2>1 DEF MetInv
  <2>. QED  BY <2>1, <2>3, <2>4 DEF MetInv
<1>8. CASE \E ret \in Rets : ProcReturn(ret)
  <2>1. PICK ret \in Rets : ProcReturn(ret)
    BY <1>8
  <2>2. /\ pc = "inProc" /\ pc' \in {"scan", "crashed"}
        /\ pc' = "scan" => pos \in alive \cup {End}
        /\ UNCHANGED <<list, pos, passed, begun>>
    BY <2>1 DEF ProcReturn, Advance, Requeued
  <2>3. te \in Ids /\ ~In(te, list) /\ ~In(te, reput)
    BY <2>2 DEF IInv, Places, Queues
  <2>4. ASSUME NEW x, In(x, reput')  PROVE x \in passed'
    <3>1. reput' = reput \/ reput' = <<te>> \o reput
      BY <2>1 DEF ProcReturn, Requeued
    <3>2. CASE reput' = reput
      BY <2>2, <2>4, <3>2 DEF MetInv
    <3>3. CASE reput' = <<te>> \o reput
      <4>1. reput \in Seq(Ids) /\ Distinct(reput)
        BY DEF IInv, Queues, Places
      <4>2. x = te \/ In(x, reput)
        BY <2>3, <2>4, <3>3, <4>1, Stacked
      <4>. QED  BY <2>2, <4>2 DEF MetInv
    <3>. QED  BY <3>1, <3>2, <3>3
  <2>5. ASSUME pc' = "scan", NEW x, In(x, list')  PROVE Ahead(x)'
    <3>1. In(x, list)
      BY <2>2, <2>5
    <3>2. Ahead(x)
      BY <2>2, <3>1 DEF MetInv
    <3>3. x >= begun \/ x = pos \/ Before(list, pos, x)
      BY <2>2, <2>5, <3>2 DEF Ahead
    <3>. QED  BY <2>2, <3>3 DEF Ahead
  <2>. QED  BY <2>2, <2>4, <2>5 DEF MetInv
<1>9. CASE Reput
  <2>1. /\ pc = "reput" /\ pc' = "reput" /\ reput # <<>>
        /\ list' = Insert(list, Head(reput), when[Head(reput)]) /\ reput' = Tail(reput)
        /\ UNCHANGED <<when, passed, begun, allFired, nowMs>>
    BY <1>9 DEF Reput, ReputRest, scan
  <2>2. /\ Head(reput) \in Ids /\ In(Head(reput), reput)
        /\ \A x : In(x, reput') <=> x # Head(reput) /\ In(x, reput)
    BY <2>1, Unstacked DEF IInv, Places, Queues
  <2>3. when[Head(reput)] \in Nat /\ ~In(Head(reput), list)
    BY <2>2 DEF IInv, Places, Queues
  <2>4. \A x : In(x, list') <=> x = Head(reput) \/ In(x, list)
    BY <2>1, <2>2, <2>3, Queueing DEF IInv, Places, Queues
  <2>5. Head(reput) \in passed'
    BY <2>1, <2>2 DEF MetInv
  <2>6. ASSUME NEW x, In(x, list')  PROVE Met(x)'
    <3>1. CASE x = Head(reput)
      BY <2>5, <3>1 DEF Met
    <3>2. CASE In(x, list)
      <4>1. Met(x)
        BY <2>1, <3>2 DEF MetInv
      <4>. QED  BY <2>1, <4>1 DEF Met
    <3>. QED  BY <2>4, <2>6, <3>1, <3>2
  <2>7. \A x : In(x, reput') => x \in passed'
    BY <2>1, <2>2 DEF MetInv
  <2>. QED  BY <2>1, <2>6, <2>7 DEF MetInv
<1>10. CASE pc' = "inProc" /\ \E p \in Periods : CreateTimeEvent(p)
  <2>1. PICK p \in Periods : CreateTimeEvent(p)
    BY <1>10
  <2>2. /\ nextId \in Ids /\ now + p \in Nat /\ nextId \notin Known
        /\ pc = "inProc" /\ pc' = "inProc"
        /\ UNCHANGED <<reput, pos, passed, begun, te>>
        /\ list' = Insert(list, nextId, now + p)
        /\ alive' = alive \cup {nextId}
    BY <1>10, <2>1, TimeEventsAssumption
    DEF CreateTimeEvent, scan, Known, IInv, Times, Queues
  <2>3. ~In(nextId, list)
    BY <1>1, <2>2
  <2>4. pos # nextId
    BY <2>2, TimeEventsAssumption DEF IInv, Queues, End
  <2>5. /\ \A x : In(x, list') <=> x = nextId \/ In(x, list)
        /\ \A x, y : Before(list, x, y) => Before(list', x, y)
    BY <2>2, <2>3, Queueing DEF IInv, Places, Queues
  <2>6. nextId >= begun
    BY DEF IInv, Queues
  <2>7. ASSUME NEW x, In(x, list')  PROVE Ahead(x)'
    <3>1. CASE x = nextId
      BY <2>2, <2>6, <3>1 DEF Ahead
    <3>2. CASE In(x, list)
      <4>1. Ahead(x)
        BY <2>2, <3>2 DEF MetInv
      <4>. QED  BY <2>2, <2>4, <2>5, <4>1 DEF Ahead
    <3>. QED  BY <2>5, <2>7, <3>1, <3>2
  <2>8. \A x : In(x, reput') => x \in passed'
    BY <2>2 DEF MetInv
  <2>. QED  BY <2>2, <2>7, <2>8 DEF MetInv
<1>11. CASE pc' = "inProc" /\ \E id \in Ids : DeleteTimeEvent(id)
  <2>1. PICK id \in Ids : DeleteTimeEvent(id)
    BY <1>11
  <2>2. /\ pc = "inProc" /\ pc' = "inProc"
        /\ UNCHANGED <<reput, pos, passed, begun, te>>
    BY <1>11, <2>1 DEF DeleteTimeEvent
  <2>3. \A x : In(x, reput') => x \in passed'
    BY <2>2 DEF MetInv
  <2>4. CASE id \notin ToSet(list)
    <3>1. list' = list /\ alive' = alive
      BY <2>1, <2>4 DEF DeleteTimeEvent
    <3>2. \A x : In(x, list') => Ahead(x)'
      BY <2>2, <3>1 DEF MetInv, Ahead
    <3>. QED  BY <2>2, <2>3, <3>2 DEF MetInv
  <2>5. CASE id \in ToSet(list)
    <3>1. list' = Without(id) /\ alive' = alive \ {id} /\ In(id, list)
      BY <2>1, <2>5 DEF DeleteTimeEvent, ToSet, In, IInv, Queues
    <3>2. /\ \A x : In(x, list') <=> x # id /\ In(x, list)
          /\ \A x, y : x # id /\ y # id /\ Before(list, x, y) => Before(list', x, y)
      BY <3>1, Unlinking DEF IInv, Places, Queues
    <3>3. id # End
      BY TimeEventsAssumption DEF End
    <3>4. ASSUME NEW x, In(x, list')  PROVE Ahead(x)'
      <4>1. x # id /\ Ahead(x)
        BY <2>2, <3>2, <3>4 DEF MetInv
      <4>2. CASE pos = id
        <5>1. pos' \notin alive' \cup {End}
          BY <2>2, <3>1, <3>3, <4>2
        <5>. QED  BY <2>2, <5>1 DEF Ahead
      <4>3. CASE pos # id
        BY <2>2, <3>1, <3>2, <4>1, <4>3 DEF Ahead
      <4>. QED  BY <4>2, <4>3
    <3>. QED  BY <2>2, <2>3, <3>4 DEF MetInv
  <2>. QED  BY <2>4, <2>5
<1>12. CASE Tick \/ SetClock \/ Interrupted \/ UNCHANGED vars
  BY <1>4, <1>12 DEF Tick, SetClock, Interrupted, vars
<1>13. CASE Calls /\ pc' # "inProc"
  <2>1. pc' \in {"setup", "files"}
    BY <1>13 DEF Calls, CreateTimeEvent, DeleteTimeEvent, Calling
  <2>. QED  BY <1>3, <2>1
<1>14. CASE Run \/ Poll \/ FileWake \/ TimedOut \/ EndPass \/ DeleteEventLoop
  BY <1>3, <1>14 DEF Run, Poll, FileWake, TimedOut, EndPass, DeleteEventLoop
<1>. QED  BY <1>5, <1>6, <1>7, <1>8, <1>9, <1>10, <1>11, <1>12, <1>13, <1>14
          DEF Next, Loop, Calls

\* Nothing is queued when the program starts.
LEMMA MetAtFirst == Init => MetInv
BY DEF Init, MetInv

\* A walk that ends has fired every timer that was queued when it began and is
\* due, and one that breaks off does so because a callback deleted the very
\* timer that was saved, whatever else callbacks create and delete.
THEOREM WalkComplete == Spec => []WalkIsComplete
<1>1. IInv /\ MetInv => WalkIsComplete
  <2> SUFFICES ASSUME IInv, MetInv PROVE WalkIsComplete
    OBVIOUS
  <2>1. \A x : x \in ToSet(list) <=> In(x, list)
    BY DEF ToSet, In, IInv, Queues
  <2>2. pc = "crashed" => pos \in cut
    BY DEF IInv, Walk
  <2>3. pc = "reput" => \A x \in ToSet(list) : Met(x)
    BY <2>1 DEF MetInv
  <2>. QED  BY <2>2, <2>3 DEF WalkIsComplete, Met
<1>. QED  BY <1>1, MetAtFirst, MetKept, Invariant, PTL DEF Spec

-----------------------------------------------------------------------------
(* The sleep.                                                              *)

\* The deadline of x has passed for no longer than the walk, or the setup, takes.
Recent(x) == now <= when[x] + spent

\* Overdue before a timeout is computed is only what became due since the walk
\* began: the timers it has met, those put back, and those its callbacks create.
LateInv ==
    /\ pc \in {"setup", "poll", "reput"} => \A x : In(x, list) => Recent(x)
    /\ pc \in {"scan", "inProc"} => \A x : In(x, list) /\ x >= begun => Recent(x)
    /\ pc \in {"scan", "inProc", "reput"} => \A x : In(x, reput) => Recent(x)
    /\ pc = "inProc" => now <= nowMs + spent

\* Sums of numbers are numbers.
LEMMA SumIsNat == \A a, b \in Nat : a + b \in Nat
OBVIOUS

\* A millisecond passes on both sides.
LEMMA Later ==
    ASSUME NEW a \in Nat, NEW b \in Nat, NEW c \in Nat, a <= b + c
    PROVE  a + 1 <= b + (c + 1)
OBVIOUS

\* Deadlines that stay are as recent as before.
LEMMA SameLate ==
    ASSUME NEW x, when'[x] = when[x], now' = now, spent' = spent
    PROVE  Recent(x)' <=> Recent(x)
BY DEF Recent

\* A walk, or the setup, makes no deadline pass for longer than it takes.
LEMMA LateKept ==
    ASSUME ~ClockIsSet, IInv, MetInv, LateInv, [Next]_vars
    PROVE  LateInv'
<1>1. /\ now \in Nat /\ spent \in Nat /\ nowMs \in Nat /\ now' \in Nat /\ nowMs' \in Nat
      /\ spent' \in Nat
  <2>1. Times /\ (Next => Times')
    BY TimesKept DEF IInv
  <2>2. UNCHANGED vars => UNCHANGED <<now, spent, nowMs>>
    BY DEF vars, scan
  <2>. QED  BY <2>1, <2>2 DEF Times
<1>2. \A x : In(x, list) \/ In(x, reput) => x \in Ids /\ x \in Known /\ when[x] \in Nat
  BY DEF IInv, Places, Queues, Known
<1>3. \A x \in Known : ~(x >= nextId)
  BY TimeEventsAssumption DEF Known, IInv, Queues
<1>4. CASE pc' \notin {"setup", "poll", "scan", "inProc", "reput"}
  BY <1>4 DEF LateInv
<1>5. CASE UNCHANGED vars
  <2>1. \A x : /\ In(x, list)' <=> In(x, list)
               /\ In(x, reput)' <=> In(x, reput)
               /\ Recent(x)' <=> Recent(x)
    BY <1>5 DEF In, Recent, vars, timers
  <2>. QED  BY <1>5, <2>1 DEF LateInv, vars, scan
<1>6. CASE Tick /\ pc' \in {"setup", "poll", "scan", "inProc", "reput"}
  <2>1. UNCHANGED <<pc, list, reput, when, begun, nowMs>>
    BY <1>6 DEF Tick, timers, scan
  <2>2. \/ now' = now + 1 /\ spent' = spent + 1
        \/ now' = now /\ spent' = spent
    BY <1>6, <2>1 DEF Tick, Busy, IInv, Times
  <2>3. ASSUME NEW x, In(x, list) \/ In(x, reput), Recent(x)  PROVE Recent(x)'
    <3>1. when[x] \in Nat /\ when'[x] = when[x] /\ now <= when[x] + spent
      BY <1>2, <2>1, <2>3 DEF Recent
    <3>2. now' <= when[x] + spent'
      BY <1>1, <2>2, <3>1
    <3>. QED  BY <3>1, <3>2 DEF Recent
  <2>4. ASSUME now <= nowMs + spent  PROVE now' <= nowMs' + spent'
    <3>1. nowMs' = nowMs
      BY <2>1
    <3>2. now + 1 <= nowMs + (spent + 1)
      BY <1>1, <2>4, Later
    <3>3. now' <= nowMs + spent'
      BY <2>2, <2>4, <3>2, Zenon
    <3>. QED  BY <3>1, <3>3
  <2>5. \A x : /\ In(x, list)' <=> In(x, list)
               /\ In(x, reput)' <=> In(x, reput)
    BY <2>1 DEF In
  <2>. QED  BY <2>1, <2>3, <2>4, <2>5 DEF LateInv
<1>7. CASE Run \/ EndPass
  <2>1. /\ UNCHANGED <<list, when, now, spent>>
        /\ pc \in {"setup", "reput"} /\ pc' = "poll"
    BY <1>7 DEF Run, EndPass, timers
  <2>2. \A x : Recent(x)' <=> Recent(x)
    BY <2>1 DEF Recent
  <2>. QED  BY <2>1, <2>2 DEF LateInv
<1>8. CASE StartPass
  <2>1. /\ UNCHANGED <<list, reput>>
        /\ pc = "files" /\ pc' = "scan" /\ begun' = nextId
    BY <1>8 DEF StartPass, timers
  <2>2. \A x : ~In(x, reput')
    BY <2>1 DEF IInv, Places, In
  <2>3. \A x : In(x, list') => ~(x >= begun')
    BY <1>2, <1>3, <2>1
  <2>. QED  BY <2>1, <2>2, <2>3 DEF LateInv
<1>9. CASE Fire
  <2>1. /\ pc = "scan" /\ pc' = "inProc" /\ pos # End
        /\ UNCHANGED <<reput, when, now, spent, begun>>
        /\ list' = Without(pos) /\ nowMs' = now
    BY <1>9 DEF Fire, Unlinked
  <2>2. In(pos, list)
    BY <2>1 DEF IInv, Walk
  <2>3. \A x : In(x, list') => In(x, list)
    BY <2>1, <2>2, Unlinking DEF IInv, Places, Queues
  <2>4. \A x : Recent(x)' <=> Recent(x)
    BY <2>1 DEF Recent
  <2>5. now' <= nowMs' + spent'
    BY <1>1, <2>1
  <2>. QED  BY <2>1, <2>3, <2>4, <2>5 DEF LateInv
<1>10. CASE EndScan
  <2>1. /\ pc = "scan" /\ pc' = "reput" /\ (pos # End => ~Due(pos))
        /\ UNCHANGED <<list, reput, when, now, spent>>
    BY <1>10 DEF EndScan, timers
  <2>2. \A x : Recent(x)' <=> Recent(x)
    BY <2>1 DEF Recent
  <2>3. ASSUME NEW x, In(x, list'), ~(x >= begun)  PROVE Recent(x)
    <3>1. In(x, list)
      BY <2>1, <2>3
    <3>2. x = pos \/ Before(list, pos, x)
      BY <2>1, <2>3, <3>1 DEF MetInv, Ahead
    <3>3. \A y : In(y, list) => y # End /\ ~Before(list, End, y)
      BY <1>2, TimeEventsAssumption DEF Before, In, IInv, Queues, End
    <3>4. In(pos, list) /\ ~Due(pos)
      BY <2>1, <3>1, <3>2, <3>3 DEF IInv, Walk
    <3>5. now < when[x] /\ when[x] \in Nat
      BY <1>2, <3>1, <3>2, <3>4, NoneDueBehind
    <3>. QED  BY <1>1, <3>5 DEF Recent
  <2>4. \A x : In(x, list') => Recent(x)'
    BY <2>1, <2>2, <2>3 DEF LateInv
  <2>5. \A x : In(x, reput') => Recent(x)'
    BY <2>1, <2>2 DEF LateInv
  <2>. QED  BY <2>1, <2>4, <2>5 DEF LateInv
<1>11. CASE \E ret \in Rets : ProcReturn(ret)
  <2>1. PICK ret \in Rets : ProcReturn(ret)
    BY <1>11
  <2>2. /\ pc = "inProc" /\ pc' \in {"scan", "crashed"}
        /\ UNCHANGED <<list, begun, now, spent>>
    BY <2>1 DEF ProcReturn, Advance, Requeued
  <2>3. te \in Ids /\ ~In(te, list) /\ ~In(te, reput)
    BY <2>2 DEF IInv, Places, Queues
  <2>4. ASSUME NEW x, In(x, reput')  PROVE Recent(x)'
    <3>1. CASE ret <= -1
      <4>1. reput' = reput /\ when' = when
        BY <2>1, <3>1 DEF ProcReturn
      <4>. QED  BY <2>2, <2>4, <4>1 DEF LateInv, Recent
    <3>2. CASE ~(ret <= -1)
      <4>1. when' = [when EXCEPT ![te] = nowMs + Delay(ret)] /\ reput' = <<te>> \o reput
        BY <2>1, <3>2 DEF ProcReturn, Requeued
      <4>2. x = te \/ In(x, reput)
        BY <2>3, <2>4, <4>1, Stacked DEF IInv, Places, Queues
      <4>3. CASE x = te
        <5>1. when'[te] = nowMs + Delay(ret) /\ Delay(ret) \in Nat
          BY <2>3, <3>2, <4>1, TimeEventsAssumption DEF Delay, IInv, Queues
        <5>2. now <= nowMs + spent
          BY <2>2 DEF LateInv
        <5>. QED  BY <1>1, <2>2, <4>3, <5>1, <5>2 DEF Recent
      <4>4. CASE In(x, reput)
        <5>1. x \in Ids /\ x # te
          BY <1>2, <2>3, <4>4
        <5>2. when'[x] = when[x]
          BY <4>1, <5>1 DEF IInv, Queues
        <5>. QED  BY <2>2, <4>4, <5>2, SameLate DEF LateInv
      <4>. QED  BY <4>2, <4>3, <4>4
    <3>. QED  BY <3>1, <3>2
  <2>5. ASSUME NEW x, In(x, list'), x >= begun'  PROVE Recent(x)'
    <3>1. In(x, list) /\ x >= begun /\ x \in Ids /\ x # te
      BY <1>2, <2>2, <2>3, <2>5
    <3>2. when'[x] = when[x]
      BY <2>1, <3>1 DEF ProcReturn, IInv, Queues
    <3>. QED  BY <2>2, <3>1, <3>2, SameLate DEF LateInv
  <2>. QED  BY <2>2, <2>4, <2>5 DEF LateInv
<1>12. CASE Reput
  <2>1. /\ pc = "reput" /\ pc' = "reput" /\ reput # <<>>
        /\ list' = Insert(list, Head(reput), when[Head(reput)]) /\ reput' = Tail(reput)
        /\ UNCHANGED <<when, now, spent>>
    BY <1>12 DEF Reput, ReputRest
  <2>2. /\ Head(reput) \in Ids /\ In(Head(reput), reput)
        /\ \A x : In(x, reput') <=> x # Head(reput) /\ In(x, reput)
    BY <2>1, Unstacked DEF IInv, Places, Queues
  <2>3. when[Head(reput)] \in Nat /\ ~In(Head(reput), list)
    BY <1>2, <2>2 DEF IInv, Places
  <2>4. \A x : In(x, list') <=> x = Head(reput) \/ In(x, list)
    BY <2>1, <2>2, <2>3, Queueing DEF IInv, Places, Queues
  <2>5. \A x : Recent(x)' <=> Recent(x)
    BY <2>1 DEF Recent
  <2>. QED  BY <2>1, <2>2, <2>4, <2>5 DEF LateInv
<1>13. CASE pc' \in {"setup", "inProc"} /\ \E p \in Periods : CreateTimeEvent(p)
  <2>1. PICK p \in Periods : CreateTimeEvent(p)
    BY <1>13
  <2>2. /\ nextId \in Ids /\ p \in Nat /\ now + p \in Nat /\ nextId \notin Known
        /\ pc' = pc
        /\ UNCHANGED <<reput, begun, now, spent, nowMs>>
        /\ list' = Insert(list, nextId, now + p)
        /\ when' = [when EXCEPT ![nextId] = now + p]
    BY <1>1, <2>1, TimeEventsAssumption DEF CreateTimeEvent, scan, Known, IInv, Queues
  <2>3. ~In(nextId, list) /\ ~In(nextId, reput)
    BY <1>2, <2>2
  <2>4. \A x : In(x, list') <=> x = nextId \/ In(x, list)
    BY <2>2, <2>3, Queueing DEF IInv, Places, Queues
  <2>5. \A x : In(x, list) \/ In(x, reput) => when'[x] = when[x]
    BY <1>2, <2>2, <2>3 DEF IInv, Queues
  <2>6. \A x : In(x, list) \/ In(x, reput) => (Recent(x)' <=> Recent(x))
    BY <2>2, <2>5, SameLate
  <2>7. when'[nextId] = now + p
    BY <2>2 DEF IInv, Queues
  <2>8. ASSUME NEW x, x = nextId  PROVE Recent(x)'
    <3>1. when'[x] = now + p /\ now' = now /\ spent' = spent
      BY <2>2, <2>7, <2>8
    <3>. QED  BY <1>1, <2>2, <3>1 DEF Recent
  <2>. QED  BY <1>13, <2>2, <2>4, <2>6, <2>8 DEF LateInv
<1>14. CASE pc' \in {"setup", "inProc"} /\ \E id \in Ids : DeleteTimeEvent(id)
  <2>1. PICK id \in Ids : DeleteTimeEvent(id)
    BY <1>14
  <2>2. pc' = pc /\ UNCHANGED <<reput, when, begun, now, spent, nowMs>>
    BY <2>1 DEF DeleteTimeEvent
  <2>3. \A x : In(x, list') => In(x, list)
    <3>1. CASE id \notin ToSet(list)
      BY <2>1, <3>1 DEF DeleteTimeEvent
    <3>2. CASE id \in ToSet(list)
      <4>1. list' = Without(id) /\ In(id, list)
        BY <2>1, <3>2 DEF DeleteTimeEvent, ToSet, In, IInv, Queues
      <4>. QED  BY <4>1, Unlinking DEF IInv, Places, Queues
    <3>. QED  BY <3>1, <3>2
  <2>4. \A x : Recent(x)' <=> Recent(x)
    BY <2>2 DEF Recent
  <2>. QED  BY <1>14, <2>2, <2>3, <2>4 DEF LateInv
<1>15. CASE Calls /\ pc' \notin {"setup", "inProc"}
  <2>1. pc' = "files"
    BY <1>15 DEF Calls, CreateTimeEvent, DeleteTimeEvent, Calling
  <2>. QED  BY <1>4, <2>1
<1>16. CASE Poll \/ FileWake \/ TimedOut \/ Interrupted \/ DeleteEventLoop
  BY <1>4, <1>16 DEF Poll, FileWake, TimedOut, Interrupted, DeleteEventLoop
<1>. QED  BY <1>4, <1>5, <1>6, <1>7, <1>8, <1>9, <1>10, <1>11, <1>12, <1>13, <1>14,
             <1>15, <1>16 DEF Next, Loop, Calls, SetClock

\* What epoll_wait is waiting for: the timeout ends with the first deadline, or
\* it is that of a deadline that had passed when the timeout was computed.
WaitInv ==
    pc = "sleep" /\ list # <<>> =>
        /\ timeout # Forever
        /\ asked <= when[First] + WalkSpan
        /\ asked <= when[First] => now + left <= when[First] + lost
        /\ when[First] < asked /\ asked <= when[First] + (IntSpan \div 2) =>
             timeout = OverdueWait

\* The timeout of a deadline to come ends with it, that of a deadline that has
\* passed is OverdueWait unless the distance is beyond an int.
LEMMA TimeoutOf ==
    ASSUME Times, Queues, list # <<>>
    PROVE  /\ PollTimeout \in Nat
           /\ now <= when[First] => now + PollTimeout <= when[First]
           /\ when[First] < now /\ now <= when[First] + (IntSpan \div 2) =>
                PollTimeout = OverdueWait
<1> DEFINE d == when[First] - now
           t == ToInt(d)
           h == IntSpan \div 2
<1>1. PollTimeout = IF t < 0 THEN OverdueWait ELSE t
  BY DEF PollTimeout
<1>2. when[First] \in Nat /\ now \in Nat
  BY FirstQueued DEF Times, Queues
<1>3. OverdueWait \in Nat \ {0} /\ h \in Nat /\ h >= OverdueWait
  BY TimeEventsAssumption
<1>4. d \in Int /\ now + d = when[First]
  BY <1>2
<1> HIDE DEF d
<1>5. /\ t \in Int
      /\ d >= 0 => t <= d
      /\ -h <= d /\ d < h => t = d
  BY <1>4, Narrowed
<1> HIDE DEF t, h
<1>6. PollTimeout \in Nat
  BY <1>1, <1>3, <1>5
<1>7. ASSUME now <= when[First]  PROVE now + PollTimeout <= when[First]
  <2>1. d >= 0
    BY <1>2, <1>4, <1>7
  <2>2. CASE t < 0
    <3>1. d >= h
      BY <1>3, <1>4, <1>5, <2>1, <2>2
    <3>. QED  BY <1>1, <1>2, <1>3, <1>4, <2>2, <3>1
  <2>3. CASE ~(t < 0)
    BY <1>1, <1>2, <1>4, <1>5, <2>1, <2>3
  <2>. QED  BY <2>2, <2>3
<1>8. ASSUME when[First] < now, now <= when[First] + h  PROVE PollTimeout = OverdueWait
  <2>1. -h <= d /\ d < 0 /\ d < h
    BY <1>2, <1>3, <1>4, <1>8
  <2>2. t < 0
    BY <1>4, <1>5, <2>1
  <2>. QED  BY <1>1, <2>2
<1>. QED  BY <1>6, <1>7, <1>8 DEF h

\* With a clock that is not set the loop sleeps past a deadline to come only as
\* long as it had slept before it was interrupted; a deadline that has passed
\* did so during the walk, and OverdueWait is slept unless that was too long for
\* an int.  Nothing is assumed of the clock, the periods and the callbacks.
THEOREM SleepsNoLonger ==
    ASSUME ~ClockIsSet
    PROVE  Spec => []SleepBounded
<1>1. Init => LateInv /\ WaitInv
  <2> SUFFICES ASSUME Init PROVE LateInv /\ WaitInv
    OBVIOUS
  <2>1. \A x : ~In(x, list) /\ ~In(x, reput)
    BY DEF Init, In
  <2>. QED  BY <2>1 DEF Init, LateInv, WaitInv
<1>2. IInv /\ LateInv /\ WaitInv /\ [Next]_vars => WaitInv'
  <2> SUFFICES ASSUME IInv, LateInv, WaitInv, [Next]_vars, pc' = "sleep", list' # <<>>
               PROVE  WaitInv'
    BY DEF WaitInv
  <2>1. /\ when[First] \in Nat \/ list = <<>>
        /\ now \in 0 .. MaxNow /\ lost \in Nat /\ asked \in Nat /\ spent \in 0 .. WalkSpan
        /\ timeout \in Nat \cup {Forever} /\ left \in Nat \cup {Forever}
        /\ left = Forever <=> timeout = Forever
    BY FirstQueued DEF IInv, Times, Queues
  <2>2. CASE Poll
    <3>1. /\ pc = "poll" /\ list' = list /\ when' = when /\ now' = now /\ lost' = lost
          /\ timeout' = PollTimeout /\ left' = timeout' /\ First' = First /\ asked' = now
      BY <2>2 DEF Poll, timers, First
    <3>2. /\ PollTimeout \in Nat
          /\ now <= when[First] => now + PollTimeout <= when[First]
          /\ when[First] < now /\ now <= when[First] + (IntSpan \div 2) =>
               PollTimeout = OverdueWait
      BY <3>1, TimeoutOf DEF IInv
    <3>3. In(First, list) /\ when[First] \in Nat
      BY <2>1, <3>1, FirstQueued DEF In, IInv
    <3>4. Recent(First)
      BY <3>1, <3>3 DEF LateInv
    <3>5. now <= when[First] + WalkSpan
      BY <2>1, <3>3, <3>4, TimeEventsAssumption DEF Recent
    <3>6. timeout' # Forever
      BY <3>1, <3>2 DEF Forever
    <3>7. now <= when[First] => now + PollTimeout <= when[First] + lost
      BY <2>1, <3>2, <3>3
    <3>. QED  BY <3>1, <3>2, <3>5, <3>6, <3>7 DEF WaitInv
  <2>3. CASE Interrupted
    <3>1. /\ pc = "sleep" /\ list' = list /\ when' = when /\ now' = now /\ asked' = asked
          /\ timeout' = timeout /\ left' = timeout /\ lost' = lost + (timeout - left)
          /\ First' = First
      BY <2>3 DEF Interrupted, timers, First
    <3>2. timeout \in Nat /\ left \in Nat /\ when[First] \in Nat
      BY <2>1, <3>1 DEF WaitInv
    <3>3. now + left <= when[First] + lost => now + timeout <= when[First] + lost'
      BY <2>1, <3>1, <3>2
    <3>. QED  BY <3>1, <3>3 DEF WaitInv
  <2>4. CASE Tick
    <3>1. /\ pc = "sleep" /\ list' = list /\ when' = when /\ lost' = lost /\ asked' = asked
          /\ timeout' = timeout /\ First' = First
          /\ left # 0 /\ left' = IF left > 0 THEN left - 1 ELSE left
          /\ now' = IF now < MaxNow THEN now + 1 ELSE now
      BY <2>4 DEF Tick, timers, First
    <3>2. timeout \in Nat /\ left \in Nat /\ when[First] \in Nat
      BY <2>1, <3>1 DEF WaitInv
    <3>3. now' + left' <= now + left
      BY <2>1, <3>1, <3>2, TimeEventsAssumption
    <3>4. now' \in Nat /\ left' \in Nat /\ now \in Nat /\ lost \in Nat
      BY <2>1, <3>1, <3>2
    <3> DEFINE a == now' + left'
               b == now + left
               c == when[First] + lost
    <3>5. a \in Nat /\ b \in Nat /\ c \in Nat /\ a <= b
      <4>1. a \in Nat /\ b \in Nat
        BY <3>2, <3>4, SumIsNat, Zenon
      <4>2. c \in Nat
        BY <3>2, <3>4, SumIsNat, Zenon
      <4>. QED  BY <3>3, <4>1, <4>2, Zenon
    <3> HIDE DEF a, b, c
    <3>6. b <= c => a <= c
      BY <3>5
    <3>7. now + left <= when[First] + lost => now' + left' <= when[First] + lost
      BY <3>6 DEF a, b, c
    <3>. QED  BY <3>1, <3>7 DEF WaitInv
  <2>5. CASE UNCHANGED vars
    BY <2>5 DEF vars, sleep, timers, First, WaitInv
  <2>. QED  BY <2>2, <2>3, <2>4, <2>5
            DEF Next, Loop, Calls, Run, TimedOut, FileWake, StartPass, Fire, EndScan,
                ProcReturn, Advance, Reput, EndPass, CreateTimeEvent, DeleteTimeEvent,
                Calling, DeleteEventLoop, SetClock
<1>3. IInv /\ WaitInv => SleepBounded
  <2> SUFFICES ASSUME IInv, WaitInv, pc = "sleep", list # <<>>
               PROVE  /\ left # Forever
                      /\ asked - when[First] <= WalkSpan
                      /\ asked - when[First] <= 0 => now + left <= when[First] + lost
                      /\ asked - when[First] \in 1 .. IntSpan \div 2 => timeout = OverdueWait
    BY DEF SleepBounded
  <2>1. left # Forever
    BY DEF IInv, Times, WaitInv
  <2>2. /\ when[First] \in Nat /\ asked \in Nat
        /\ WalkSpan \in Nat /\ IntSpan \div 2 \in Nat
    <3>1. when[First] \in Nat /\ asked \in Nat
      BY FirstQueued DEF IInv, Times, Queues
    <3>. QED  BY <3>1, TimeEventsAssumption
  <2> DEFINE w == when[First]
             h == IntSpan \div 2
  <2>3. /\ asked <= w + WalkSpan
        /\ asked <= w => now + left <= w + lost
        /\ w < asked /\ asked <= w + h => timeout = OverdueWait
    BY DEF WaitInv
  <2>4. w \in Nat /\ h \in Nat
    BY <2>2
  <2> HIDE DEF w, h
  <2>5. /\ asked - w <= WalkSpan
        /\ asked - w <= 0 => asked <= w
        /\ asked - w \in 1 .. h => w < asked /\ asked <= w + h
    BY <2>2, <2>3, <2>4
  <2>6. asked - w \in 1 .. h => timeout = OverdueWait
    BY <2>3, <2>5
  <2>. QED  BY <2>1, <2>3, <2>5, <2>6 DEF w, h
<1>4. IInv /\ MetInv /\ LateInv /\ [Next]_vars => LateInv'
  BY LateKept
<1>. QED  BY <1>1, <1>2, <1>3, <1>4, MetAtFirst, MetKept, Invariant, PTL DEF Spec

-----------------------------------------------------------------------------
(* The clock that is set.                                                  *)

\* The first millisecond of the second in which the last walk began.
Floor == lastTime * MsPerSec

\* Later than this no deadline may be once a walk has ended; D is the longest
\* delay.
InReach(x, D) == when[x] < Floor + MsPerSec + WalkSpan + D

\* A walk, or the setup, has begun in the second of Floor.
SpanInv ==
    /\ pc \in {"setup", "poll", "scan", "inProc", "reput"} =>
         Floor <= now /\ now < Floor + MsPerSec + spent
    /\ pc = "inProc" => nowMs <= now

\* Where a timer out of reach may be: created since the last walk, or still in
\* front of a walk that fires all.
ReachInv(D) ==
    /\ \A i \in Ids : period[i] <= D
    /\ pc \in {"setup", "poll", "sleep", "reput"} => \A x : In(x, list) => InReach(x, D)
    /\ pc = "files" => \A x : In(x, list) => InReach(x, D) \/ when[x] <= now + D
    /\ pc \in {"scan", "inProc"} =>
         \A x : In(x, list) =>
             \/ InReach(x, D)
             \/ allFired /\ (x = pos \/ Before(list, pos, x))
             \/ pc = "inProc" /\ pos \notin alive \cup {End}
    /\ pc \in {"scan", "inProc", "reput"} => \A x : In(x, reput) => InReach(x, D)

\* time(NULL) and mstime agree on the second.
LEMMA SecondOf ==
    ASSUME now \in 0 .. MaxNow
    PROVE  /\ Seconds \in Nat
           /\ Seconds * MsPerSec <= now
           /\ now < Seconds * MsPerSec + MsPerSec
BY TimeEventsAssumption DEF Seconds

\* Later seconds begin later.
LEMMA FloorOf ==
    ASSUME NEW a \in Nat, NEW b \in Nat, a <= b
    PROVE  a * MsPerSec \in Nat /\ a * MsPerSec <= b * MsPerSec
BY TimeEventsAssumption

\* A walk stays within its second and the time it takes.
LEMMA SpanKept ==
    ASSUME IInv, SpanInv, [Next]_vars
    PROVE  SpanInv'
<1>1. /\ Floor \in Nat /\ now \in Nat /\ now' \in Nat /\ spent \in Nat
      /\ MsPerSec \in Nat \ {0} /\ nowMs \in Nat
  BY FloorOf, TimesKept, TimeEventsAssumption DEF IInv, Times, Floor, vars
<1>2. CASE StartPass
  <2>1. Floor' = Seconds * MsPerSec /\ now' = now /\ spent' = spent /\ pc' = "scan"
    BY <1>2 DEF StartPass, Floor
  <2>. QED  BY <1>1, <2>1, SecondOf DEF SpanInv, IInv, Times
<1>3. CASE ~StartPass
  <2>1. Floor' = Floor
    BY <1>3 DEF Next, Loop, Calls, Run, Poll, TimedOut, FileWake, Interrupted, Fire,
           EndScan, EndPass, ProcReturn, Reput, CreateTimeEvent, DeleteTimeEvent,
           DeleteEventLoop, Tick, SetClock, vars, scan, Floor
  <2> HIDE DEF Floor
  <2>2. CASE Tick
    <3>1. pc' = pc /\ nowMs' = nowMs
      BY <2>2 DEF Tick, scan
    <3>2. pc \notin {"setup", "scan", "inProc", "reput", "poll"} => SpanInv'
      BY <3>1 DEF SpanInv
    <3>3. CASE pc \in {"setup", "scan", "inProc", "reput", "poll"}
      <4>1. \/ now' = now + 1 /\ spent' = spent + 1
            \/ now' = now /\ spent' = spent
        BY <2>2, <3>3 DEF Tick, Busy
      <4>. QED  BY <1>1, <2>1, <3>1, <4>1 DEF SpanInv
    <3>. QED  BY <3>2, <3>3
  <2>3. CASE SetClock \/ Poll \/ Interrupted \/ FileWake \/ TimedOut \/ DeleteEventLoop
    BY <1>1, <2>1, <2>3 DEF SetClock, Poll, Interrupted, FileWake, TimedOut,
           DeleteEventLoop, SpanInv, scan
  <2>4. CASE Run \/ EndPass
    BY <1>1, <2>1, <2>4, TimeEventsAssumption DEF Run, EndPass, SpanInv, scan
  <2>5. CASE Fire \/ EndScan \/ Reput \/ UNCHANGED vars
    BY <1>1, <2>1, <2>5 DEF Fire, EndScan, Reput, vars, SpanInv, scan
  <2>6. CASE (\E ret \in Rets : ProcReturn(ret)) \/ Calls
    BY <1>1, <2>1, <2>6 DEF ProcReturn, Advance, Calls, CreateTimeEvent, DeleteTimeEvent,
           SpanInv, scan
  <2>. QED  BY <1>3, <2>2, <2>3, <2>4, <2>5, <2>6 DEF Next, Loop
<1>. QED  BY <1>2, <1>3

\* A longer reach: what was in reach stays so.
LEMMA FurtherReach ==
    ASSUME NEW D \in Nat, IInv, lastTime' \in Nat, lastTime <= lastTime',
           NEW x \in Ids, when'[x] = when[x], InReach(x, D)
    PROVE  InReach(x, D)'
<1>1. Floor <= Floor' /\ Floor \in Nat /\ Floor' \in Nat
  BY FloorOf DEF IInv, Times, Floor
<1>2. when[x] \in Nat
  BY DEF IInv, Queues
<1> HIDE DEF Floor
<1>. QED  BY <1>1, <1>2, TimeEventsAssumption DEF InReach

\* Without a new walk or deadline, reach is what it was.
LEMMA SameReach ==
    ASSUME NEW D \in Nat, NEW x, when'[x] = when[x], lastTime' = lastTime
    PROVE  InReach(x, D)' <=> InReach(x, D)
BY DEF InReach, Floor

\* No step puts a timer out of reach, except in front of a walk that fires all.
LEMMA ReachKept ==
    ASSUME NEW D \in Nat, \A d \in Delays : d <= D,
           IInv, SpanInv, ReachInv(D), [Next]_vars
    PROVE  ReachInv(D)'
<1>1. /\ Floor \in Nat /\ now \in Nat /\ spent \in 0 .. WalkSpan /\ nowMs \in Nat
      /\ MsPerSec \in Nat \ {0} /\ WalkSpan \in Nat /\ lastTime \in Nat
  BY FloorOf, TimeEventsAssumption DEF IInv, Times, Floor, SpanInv
<1>2. \A x : In(x, list) \/ In(x, reput) => x \in Ids /\ x \in Known /\ when[x] \in Nat
  BY DEF IInv, Places, Queues, Known
<1>3. /\ \A p \in Periods : p \in Nat /\ p <= D
      /\ \A r \in Rets : r > 0 => r \in Nat /\ r <= D
      /\ \A i \in Ids : period[i] \in Nat /\ period[i] <= D
  BY TimeEventsAssumption DEF Delays, ReachInv, IInv, Queues
<1>4. CASE UNCHANGED <<list, reput, when, period, lastTime, pos, allFired, alive>>
           /\ pc' \notin {"files"} /\ pc' = pc
  <2>1. \A x : /\ InReach(x, D)' <=> InReach(x, D)
               /\ In(x, list)' <=> In(x, list)
               /\ In(x, reput)' <=> In(x, reput)
               /\ Before(list, pos, x)' <=> Before(list, pos, x)
    BY <1>4, SameReach DEF In, Before
  <2>. QED  BY <1>4, <2>1 DEF ReachInv
<1>5. CASE Tick /\ pc = "files"
  <2>1. UNCHANGED <<list, reput, when, period, lastTime, pc>> /\ now <= now' /\ now' \in Nat
    BY <1>1, <1>5 DEF Tick, timers, scan
  <2>2. \A x : /\ InReach(x, D)' <=> InReach(x, D)
               /\ In(x, list)' <=> In(x, list)
    BY <2>1, SameReach DEF In
  <2>3. \A x : In(x, list) /\ when[x] <= now + D => when[x] <= now' + D
    BY <1>1, <1>2, <2>1
  <2>. QED  BY <1>5, <2>1, <2>2, <2>3 DEF ReachInv
<1>6. CASE Run \/ Poll \/ FileWake \/ TimedOut \/ EndPass \/ DeleteEventLoop
  <2>1. UNCHANGED <<when, period, lastTime>>
    BY <1>6 DEF Run, Poll, FileWake, TimedOut, EndPass, DeleteEventLoop, timers, scan
  <2>2. /\ pc \in {"setup", "poll", "sleep", "reput"}
        /\ pc' \in {"poll", "sleep", "files", "deleted"}
        /\ pc' # "deleted" => list' = list
    BY <1>6 DEF Run, Poll, FileWake, TimedOut, EndPass, DeleteEventLoop, timers
  <2>3. \A x : InReach(x, D)' <=> InReach(x, D)
    BY <2>1, SameReach
  <2>. QED  BY <2>1, <2>2, <2>3 DEF ReachInv, In
<1>7. CASE StartPass
  <2>1. /\ UNCHANGED <<list, reput, when, period, alive, now>>
        /\ pc = "files" /\ pc' = "scan" /\ pos' = First
        /\ allFired' = (Seconds < lastTime) /\ lastTime' = Seconds
    BY <1>7 DEF StartPass, timers, Skewed
  <2>2. \A x : ~In(x, reput')
    BY <2>1 DEF IInv, Places, In
  <2>3. \A x : In(x, list') => x \in Ids /\ when'[x] = when[x] /\ In(x, list)
    BY <1>2, <2>1 DEF In
  <2>4. Seconds \in Nat /\ now < Seconds * MsPerSec + MsPerSec
    BY SecondOf DEF IInv, Times
  <2>5. CASE ~(Seconds < lastTime)
    <3>1. lastTime' \in Nat /\ lastTime <= lastTime'
      BY <1>1, <2>1, <2>4, <2>5
    <3>2. ASSUME NEW x, In(x, list')  PROVE InReach(x, D)'
      <4>1. CASE InReach(x, D)
        BY <2>3, <3>1, <3>2, <4>1, FurtherReach
      <4>2. CASE when[x] <= now + D
        <5>1. Floor' = Seconds * MsPerSec /\ Floor' \in Nat
          BY <2>1, <2>4, FloorOf DEF Floor
        <5>2. when'[x] = when[x] /\ when[x] \in Nat
          BY <1>2, <2>3, <3>2
        <5>. QED  BY <1>1, <2>4, <4>2, <5>1, <5>2 DEF InReach
      <4>. QED  BY <2>1, <2>3, <3>2, <4>1, <4>2 DEF ReachInv
    <3>. QED  BY <1>3, <2>1, <2>2, <3>2 DEF ReachInv
  <2>6. CASE Seconds < lastTime
    <3>1. ASSUME NEW x, In(x, list'), x # First  PROVE Before(list', First, x)
      <4>1. In(x, list)
        BY <2>1, <3>1
      <4>. QED  BY <2>1, <3>1, <4>1, AllAhead
    <3>. QED  BY <1>3, <2>1, <2>2, <2>6, <3>1 DEF ReachInv
  <2>. QED  BY <2>5, <2>6
<1>8. CASE Fire
  <2>1. /\ pc = "scan" /\ pc' = "inProc" /\ pos # End
        /\ UNCHANGED <<reput, when, period, lastTime, alive, allFired>>
        /\ list' = Without(pos) /\ pos' = Successor(pos)
    BY <1>8 DEF Fire, Unlinked
  <2>2. In(pos, list)
    BY <2>1 DEF IInv, Walk
  <2>3. /\ \A x : In(x, list') <=> x # pos /\ In(x, list)
        /\ \A y : Before(list, pos, y) => y = pos' \/ Before(list', pos', y)
    BY <2>1, <2>2, Unlinking DEF IInv, Places, Queues
  <2>4. \A x : InReach(x, D)' <=> InReach(x, D)
    BY <2>1, SameReach
  <2>. QED  BY <2>1, <2>3, <2>4 DEF ReachInv, In
<1>9. CASE EndScan
  <2>1. /\ pc = "scan" /\ pc' = "reput" /\ (pos # End => ~allFired)
        /\ UNCHANGED <<list, reput, when, period, lastTime>>
    BY <1>9 DEF EndScan, Due, timers, scan
  <2>2. \A x : InReach(x, D)' <=> InReach(x, D)
    BY <2>1, SameReach
  <2>3. \A x : In(x, list) => x # End /\ ~Before(list, End, x)
    BY <1>2, TimeEventsAssumption DEF Before, In, IInv, Queues, End
  <2>. QED  BY <2>1, <2>2, <2>3 DEF ReachInv, In
<1>10. CASE \E ret \in Rets : ProcReturn(ret)
  <2>1. PICK ret \in Rets : ProcReturn(ret)
    BY <1>10
  <2>2. /\ pc = "inProc" /\ pc' \in {"scan", "crashed"}
        /\ pc' = "scan" => pos \in alive \cup {End}
        /\ UNCHANGED <<list, period, lastTime, pos, allFired>>
    BY <2>1 DEF ProcReturn, Advance, Requeued
  <2>3. te \in Ids /\ ~In(te, list) /\ ~In(te, reput)
    BY <2>2 DEF IInv, Places, Queues
  <2>4. /\ \A x \in Ids : x # te => when'[x] = when[x]
        /\ \A x : In(x, reput') => x = te \/ In(x, reput)
        /\ In(te, reput') => when'[te] = nowMs + Delay(ret) /\ ~(ret <= -1)
    <3>1. CASE ret <= -1
      BY <2>1, <2>3, <3>1 DEF ProcReturn, In
    <3>2. CASE ~(ret <= -1)
      <4>1. when' = [when EXCEPT ![te] = nowMs + Delay(ret)] /\ reput' = <<te>> \o reput
        BY <2>1, <3>2 DEF ProcReturn, Requeued
      <4>2. \A x : In(x, reput') <=> x = te \/ In(x, reput)
        BY <2>3, <4>1, Stacked DEF IInv, Places, Queues
      <4>. QED  BY <2>3, <3>2, <4>1, <4>2 DEF IInv, Queues
    <3>. QED  BY <3>1, <3>2
  <2>5. \A x : x # te /\ (In(x, list) \/ In(x, reput)) => (InReach(x, D)' <=> InReach(x, D))
    BY <1>2, <2>2, <2>4, SameReach
  <2>6. \A x : x = te /\ In(x, reput') => InReach(x, D)'
    <3> SUFFICES ASSUME NEW x, x = te, In(x, reput') PROVE InReach(x, D)'
      OBVIOUS
    <3>1. Delay(ret) \in Nat /\ Delay(ret) <= D
      BY <1>3, <2>3, <2>4, TimeEventsAssumption DEF Delay
    <3>2. nowMs <= now /\ now < Floor + MsPerSec + spent
      BY <2>2 DEF SpanInv
    <3>3. Floor' = Floor
      BY <2>2 DEF Floor
    <3> HIDE DEF Floor
    <3>4. when'[x] = nowMs + Delay(ret)
      BY <2>4
    <3>. QED  BY <1>1, <3>1, <3>2, <3>3, <3>4 DEF InReach
  <2>7. /\ \A x : In(x, list') <=> In(x, list)
        /\ \A x : Before(list', pos', x) <=> Before(list, pos, x)
    BY <2>2 DEF In, Before
  <2>8. \A x : In(x, list') => x # te
    BY <2>3, <2>7
  <2>9. ASSUME pc' = "scan", NEW x, In(x, list')
        PROVE  InReach(x, D)' \/ (allFired' /\ (x = pos' \/ Before(list', pos', x)))
    <3>1. In(x, list) /\ x # te
      BY <2>7, <2>8, <2>9
    <3>2. InReach(x, D) \/ (allFired /\ (x = pos \/ Before(list, pos, x)))
      BY <2>2, <2>9, <3>1 DEF ReachInv
    <3>3. InReach(x, D) => InReach(x, D)'
      BY <2>5, <3>1
    <3>. QED  BY <2>2, <2>7, <3>2, <3>3
  <2>10. ASSUME NEW x, In(x, reput')  PROVE InReach(x, D)'
    <3>1. x = te \/ (In(x, reput) /\ x # te)
      BY <2>4, <2>10
    <3>2. In(x, reput) => InReach(x, D)
      BY <2>2 DEF ReachInv
    <3>. QED  BY <2>5, <2>6, <2>10, <3>1, <3>2
  <2>. QED  BY <1>3, <2>2, <2>9, <2>10 DEF ReachInv
<1>11. CASE Reput
  <2>1. /\ pc = "reput" /\ pc' = "reput" /\ reput # <<>>
        /\ list' = Insert(list, Head(reput), when[Head(reput)]) /\ reput' = Tail(reput)
        /\ UNCHANGED <<when, period, lastTime>>
    BY <1>11 DEF Reput, ReputRest, scan
  <2>2. /\ Head(reput) \in Ids /\ In(Head(reput), reput)
        /\ \A x : In(x, reput') <=> x # Head(reput) /\ In(x, reput)
    BY <2>1, Unstacked DEF IInv, Places, Queues
  <2>3. when[Head(reput)] \in Nat /\ ~In(Head(reput), list)
    BY <1>2, <2>2 DEF IInv, Places
  <2>4. \A x : In(x, list') <=> x = Head(reput) \/ In(x, list)
    BY <2>1, <2>2, <2>3, Queueing DEF IInv, Places, Queues
  <2>5. \A x : InReach(x, D)' <=> InReach(x, D)
    BY <2>1, SameReach
  <2>. QED  BY <2>1, <2>2, <2>4, <2>5 DEF ReachInv
<1>12. CASE \E p \in Periods : CreateTimeEvent(p)
  <2>1. PICK p \in Periods : CreateTimeEvent(p)
    BY <1>12
  <2>2. /\ nextId \in Ids /\ now + p \in Nat /\ nextId \notin Known
        /\ pc' = pc /\ pc \in {"setup", "files", "inProc"}
        /\ UNCHANGED <<reput, lastTime, pos, allFired, now>>
        /\ list' = Insert(list, nextId, now + p)
        /\ when' = [when EXCEPT ![nextId] = now + p]
        /\ period' = [period EXCEPT ![nextId] = p]
        /\ alive' = alive \cup {nextId}
    BY <1>1, <1>3, <2>1 DEF CreateTimeEvent, Calling, scan, Known, IInv, Queues
  <2>3. ~In(nextId, list) /\ ~In(nextId, reput)
    BY <1>2, <2>2
  <2>4. pos # nextId
    BY <2>2, TimeEventsAssumption DEF IInv, Queues, End
  <2>5. /\ \A x : In(x, list') <=> x = nextId \/ In(x, list)
        /\ \A x, y : Before(list, x, y) => Before(list', x, y)
    BY <2>2, <2>3, Queueing DEF IInv, Places, Queues
  <2>6. \A x : In(x, list) \/ In(x, reput) => when'[x] = when[x]
    BY <1>2, <2>2, <2>3 DEF IInv, Queues
  <2>7. \A x : In(x, list) \/ In(x, reput) => (InReach(x, D)' <=> InReach(x, D))
    BY <2>2, <2>6, SameReach
  <2>8. when'[nextId] = now + p /\ p \in Nat /\ p <= D
    BY <1>3, <2>2 DEF IInv, Queues
  <2>9. \A x : pc # "files" /\ x = nextId => InReach(x, D)'
    <3> SUFFICES ASSUME NEW x, x = nextId, pc # "files" PROVE InReach(x, D)'
      OBVIOUS
    <3>1. now < Floor + MsPerSec + spent
      BY <2>2 DEF SpanInv
    <3>2. Floor' = Floor
      BY <2>2 DEF Floor
    <3> HIDE DEF Floor
    <3>. QED  BY <1>1, <2>8, <3>1, <3>2 DEF InReach
  <2>10. pc = "files" => when'[nextId] <= now' + D
    BY <1>1, <2>2, <2>8
  <2>11. \A i \in Ids : period'[i] <= D
    BY <1>3, <2>2 DEF IInv, Queues
  <2>12. \A x : In(x, reput') <=> In(x, reput)
    BY <2>2 DEF In
  <2>13. CASE pc = "inProc"
    <3>1. ASSUME NEW x, In(x, list)
          PROVE  \/ InReach(x, D)'
                 \/ allFired' /\ (x = pos' \/ Before(list', pos', x))
                 \/ pos' \notin alive' \cup {End}
      <4>1. \/ InReach(x, D)
            \/ allFired /\ (x = pos \/ Before(list, pos, x))
            \/ pos \notin alive \cup {End}
        BY <2>13, <3>1 DEF ReachInv
      <4>2. InReach(x, D) => InReach(x, D)'
        BY <2>7, <3>1
      <4>. QED  BY <2>2, <2>4, <2>5, <4>1, <4>2
    <3>2. ASSUME NEW x, In(x, reput')  PROVE InReach(x, D)'
      <4>1. In(x, reput) /\ InReach(x, D)
        BY <2>12, <2>13, <3>2 DEF ReachInv
      <4>. QED  BY <2>7, <4>1
    <3>. QED  BY <2>2, <2>5, <2>9, <2>11, <2>13, <3>1, <3>2 DEF ReachInv
  <2>14. CASE pc = "files"
    <3>1. ASSUME NEW x, In(x, list)  PROVE InReach(x, D)' \/ when'[x] <= now' + D
      <4>1. InReach(x, D) \/ when[x] <= now + D
        BY <2>14, <3>1 DEF ReachInv
      <4>2. InReach(x, D) => InReach(x, D)'
        BY <2>7, <3>1
      <4>. QED  BY <2>2, <2>6, <3>1, <4>1, <4>2
    <3>. QED  BY <2>2, <2>5, <2>10, <2>11, <2>14, <3>1 DEF ReachInv
  <2>15. CASE pc = "setup"
    <3>1. ASSUME NEW x, In(x, list)  PROVE InReach(x, D)'
      <4>1. InReach(x, D)
        BY <2>15, <3>1 DEF ReachInv
      <4>. QED  BY <2>7, <3>1, <4>1
    <3>. QED  BY <2>2, <2>5, <2>9, <2>11, <2>15, <3>1 DEF ReachInv
  <2>. QED  BY <2>2, <2>13, <2>14, <2>15
<1>13. CASE \E id \in Ids : DeleteTimeEvent(id)
  <2>1. PICK id \in Ids : DeleteTimeEvent(id)
    BY <1>13
  <2>2. /\ pc' = pc /\ pc \in {"setup", "files", "inProc"}
        /\ UNCHANGED <<reput, when, period, lastTime, pos, allFired, now>>
    BY <2>1 DEF DeleteTimeEvent, Calling, scan
  <2>3. \A x : /\ InReach(x, D)' <=> InReach(x, D)
               /\ In(x, reput') <=> In(x, reput)
    BY <2>2, SameReach DEF In
  <2>4. CASE id \notin ToSet(list)
    <3>1. list' = list /\ alive' = alive
      BY <2>1, <2>4 DEF DeleteTimeEvent
    <3>. QED  BY <2>2, <2>3, <3>1 DEF ReachInv, In, Before
  <2>5. CASE id \in ToSet(list)
    <3>1. list' = Without(id) /\ alive' = alive \ {id} /\ In(id, list)
      BY <2>1, <2>5 DEF DeleteTimeEvent, ToSet, In, IInv, Queues
    <3>2. /\ \A x : In(x, list') <=> x # id /\ In(x, list)
          /\ \A x, y : x # id /\ y # id /\ Before(list, x, y) => Before(list', x, y)
      BY <3>1, Unlinking DEF IInv, Places, Queues
    <3>3. id # End
      BY TimeEventsAssumption DEF End
    <3>. QED  BY <2>2, <2>3, <3>1, <3>2, <3>3 DEF ReachInv
  <2>. QED  BY <2>4, <2>5
<1>14. CASE Interrupted \/ SetClock \/ (Tick /\ pc # "files") \/ (UNCHANGED vars /\ pc # "files")
  BY <1>4, <1>14 DEF Interrupted, SetClock, Tick, vars, timers, scan
<1>15. CASE UNCHANGED vars /\ pc = "files"
  <2>1. UNCHANGED <<pc, now, list, reput, when, period, lastTime>>
    BY <1>15 DEF vars, timers, scan
  <2>2. \A x : /\ InReach(x, D)' <=> InReach(x, D)
               /\ In(x, list') <=> In(x, list)
    BY <2>1, SameReach DEF In
  <2>. QED  BY <1>15, <2>1, <2>2 DEF ReachInv
<1>. QED  BY <1>5, <1>6, <1>7, <1>8, <1>9, <1>10, <1>11, <1>12, <1>13, <1>14, <1>15
          DEF Next, Loop, Calls

\* Delays are numbers.
LEMMA DelaysCount == Delays \subseteq Nat
<1>1. Periods \subseteq Nat /\ \A r \in Rets : r \in Int
  BY TimeEventsAssumption
<1>2. \A r \in Int : r > 0 => r \in Nat
  OBVIOUS
<1>. QED  BY <1>1, <1>2 DEF Delays

\* A clock that is set back postpones no timer beyond the longest delay, a
\* second, and the time a walk takes: callers' delays have a longest one.
THEOREM NotPostponed ==
    ASSUME \E d \in Delays : \A e \in Delays : d >= e
    PROVE  Spec => []SkewBounded
<1> DEFINE D == Max(Delays)
<1>1. D \in Delays /\ \A d \in Delays : D >= d
  <2>1. \E d \in Delays : \A e \in Delays : d >= e
    OBVIOUS
  <2>. QED  BY <2>1 DEF Max
<1> HIDE DEF D
<1>2. Delays \subseteq Nat
  BY DelaysCount
<1>3. D \in Nat /\ \A d \in Delays : d <= D
  BY <1>1, <1>2
<1>4. Init => SpanInv /\ ReachInv(D)
  <2> SUFFICES ASSUME Init PROVE SpanInv /\ ReachInv(D)
    OBVIOUS
  <2>1. pc = "setup" /\ now = 0 /\ spent = 0 /\ lastTime = Seconds
        /\ list = <<>> /\ reput = <<>> /\ period = [i \in Ids |-> 0]
    BY DEF Init
  <2>2. Floor <= now /\ now < Floor + MsPerSec /\ Floor \in Nat
    BY <2>1, SecondOf, FloorOf, TimeEventsAssumption DEF Floor
  <2>3. \A x : ~In(x, list) /\ ~In(x, reput)
    BY <2>1 DEF In
  <2>. QED  BY <1>3, <2>1, <2>2, <2>3, TimeEventsAssumption DEF SpanInv, ReachInv
<1>5. IInv /\ SpanInv /\ ReachInv(D) /\ [Next]_vars => (SpanInv /\ ReachInv(D))'
  BY <1>3, SpanKept, ReachKept
<1>6. IInv /\ SpanInv /\ ReachInv(D) => SkewBounded
  <2> SUFFICES ASSUME IInv, SpanInv, ReachInv(D), pc = "poll", NEW id \in ToSet(list)
               PROVE  when[id] - now < D + MsPerSec + WalkSpan
    BY DEF SkewBounded, D
  <2>1. In(id, list) /\ id \in Ids
    BY DEF ToSet, In, IInv, Queues
  <2>2. InReach(id, D) /\ Floor <= now
    BY <2>1 DEF ReachInv, SpanInv
  <2>3. Floor \in Nat /\ now \in Nat /\ when[id] \in Nat
    <3>1. lastTime \in Nat /\ lastTime <= lastTime
      BY DEF IInv, Times
    <3>2. Floor \in Nat
      BY <3>1, FloorOf DEF Floor
    <3>. QED  BY <2>1, <3>2 DEF IInv, Times, Queues
  <2> HIDE DEF Floor
  <2>. QED  BY <1>3, <2>2, <2>3, TimeEventsAssumption DEF InReach
<1>. QED  BY <1>4, <1>5, <1>6, Invariant, PTL DEF Spec
=============================================================================
