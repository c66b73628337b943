--------------------------- MODULE LibraryProofs ---------------------------
(***************************************************************************)
(* Proofs about the parts of the library that stand alone: the allocation  *)
(* statistics, for any number of threads and blocks; the hash table, for   *)
(* any number of buckets, items and keys and any hash function; the max    *)
(* heap, for any values and any size; and the red-black tree, for any      *)
(* number of nodes and any keys, equal ones included.                      *)
(***************************************************************************)
EXTENDS Library, Iteration

-----------------------------------------------------------------------------
(* The allocation statistics.                                              *)

\* What the calls in progress have done to the blocks and not to the counter.
Flight == [t \in Threads |-> A!InFlight(t)]

\* The totals of UsedMemoryExact are sums.
LEMMA Totals ==
    /\ A!Total(Ptrs, LAMBDA p : size[p]) = SumOf(size, Ptrs)
    /\ A!Total(Threads, A!InFlight) = SumOf(Flight, Threads)
<1>1. A!Total(Ptrs, LAMBDA p : size[p]) = SumOf(size, Ptrs)
  BY DEF A!Total, A!MapThenSumSet, A!MapThenFoldSet, SumOf, IsSum, Added, Any
<1>2. A!Total(Threads, A!InFlight) = SumOf(Flight, Threads)
  BY DEF A!Total, A!MapThenSumSet, A!MapThenFoldSet, SumOf, IsSum, Added, Any, Flight
<1>. QED  BY <1>1, <1>2

\* A call in progress is about a block that is there.
Busy(t) ==
    /\ call[t].at \in {"count", "uncount", "release"}
    /\ call[t].p \in Ptrs /\ size[call[t].p] # 0
    /\ call[t].at = "uncount" => call[t].old \in Nat

Calls ==
    /\ size \in [Ptrs -> Nat] /\ used \in Nat /\ owed \in Nat /\ dead \in BOOLEAN
    /\ call = [t \in Threads |-> call[t]]
    /\ \A t \in Threads : call[t] = A!Idle \/ Busy(t)

\* No two calls are about the same block.
Apart ==
    \A t, u \in Threads :
      t # u /\ call[t] # A!Idle /\ call[u] # A!Idle => call[t].p # call[u].p

Sameness(x, y) == \E k \in Int : x = y + k * Span

Balance == ~dead => Sameness(used + SumOf(Flight, Threads) + owed, SumOf(size, Ptrs))

AllocInv == Calls /\ Apart /\ Balance

\* The remainder differs from the number by a multiple of Span, and numbers
\* that do so have the same remainder.
LEMMA Remainder ==
    ASSUME A!AllocAssumption, NEW x \in Int
    PROVE  x % Span \in Nat /\ \E k \in Int : x % Span = x + k * Span
<1>1. Span \in Nat /\ Span > 0
  BY DEF A!AllocAssumption
<1>2. x % Span \in Nat /\ x = Span * (x \div Span) + (x % Span) /\ x \div Span \in Int
  BY <1>1
<1>3. x % Span = x + (-(x \div Span)) * Span
  BY <1>1, <1>2
<1>. QED  BY <1>2, <1>3

\* Numbers that differ by a multiple of Span have the same remainder.
LEMMA SameRemainder ==
    ASSUME A!AllocAssumption, NEW x \in Int, NEW y \in Int, Sameness(x, y)
    PROVE  x % Span = y % Span
<1>1. Span \in Nat /\ Span > 0
  BY DEF A!AllocAssumption
<1>2. PICK k \in Int : x = y + k * Span
  BY DEF Sameness
<1> DEFINE r == x % Span
           q == x \div Span
           u == y % Span
           v == y \div Span
<1>3. /\ x = Span * q + r /\ r \in 0 .. Span - 1 /\ q \in Int
      /\ y = Span * v + u /\ u \in 0 .. Span - 1 /\ v \in Int
  BY <1>1
<1> HIDE DEF r, q, u, v
<1> DEFINE d == q - v - k
<1>4. d \in Int /\ Span * d = u - r
  BY <1>1, <1>2, <1>3
<1>5. u - r < Span /\ r - u < Span
  BY <1>1, <1>3
<1> HIDE DEF d
<1>6. ~(d >= 1) /\ ~(d <= -1)
  BY <1>1, <1>3, <1>4, <1>5
<1>7. d = 0
  BY <1>4, <1>6
<1>. QED  BY <1>1, <1>3, <1>4, <1>7 DEF r, u

\* Sums that move together stay the same up to a multiple of Span.
LEMMA MovesTogether ==
    ASSUME A!AllocAssumption, NEW x \in Int, NEW y \in Int, Sameness(x, y),
           NEW a \in Int, NEW b \in Int, Sameness(a, x + b)
    PROVE  Sameness(a, y + b)
<1>1. Span \in Int
  BY DEF A!AllocAssumption
<1>2. PICK k \in Int : x = y + k * Span
  BY DEF Sameness
<1>3. PICK l \in Int : a = x + b + l * Span
  BY DEF Sameness
<1>4. k * Span \in Int /\ l * Span \in Int /\ k + l \in Int
      /\ k * Span + l * Span = (k + l) * Span
  BY <1>1
<1>5. a = y + b + (k + l) * Span
  <2> DEFINE m == k * Span
             n == l * Span
             o == (k + l) * Span
  <2>1. m \in Int /\ n \in Int /\ o = m + n /\ x = y + m /\ a = x + b + n
    BY <1>2, <1>3, <1>4
  <2> HIDE DEF m, n, o
  <2>2. a = y + b + o
    BY <2>1
  <2>. QED  BY <2>2 DEF o
<1>. QED  BY <1>4, <1>5 DEF Sameness

\* The sums are integers, and that of the calls changes with one call.
LEMMA FlightSum ==
    ASSUME A!AllocAssumption, Calls
    PROVE  /\ IsFiniteSet(Threads) /\ IsFiniteSet(Ptrs)
           /\ Flight \in [Threads -> Int] /\ size \in [Ptrs -> Int]
           /\ SumOf(Flight, Threads) \in Int /\ SumOf(size, Ptrs) \in Int
<1>1. IsFiniteSet(Threads) /\ IsFiniteSet(Ptrs)
  BY DEF A!AllocAssumption, A!IsFiniteSet, IsFiniteSet
<1>2. ASSUME NEW t \in Threads
      PROVE  A!InFlight(t) \in Int
  BY DEF Calls, Busy, A!InFlight, A!Idle
<1>3. Flight \in [Threads -> Int] /\ size \in [Ptrs -> Int]
  BY <1>2 DEF Flight, Calls
<1>. QED  BY <1>1, <1>3, SumOfIsSum

\* A step of one thread changes what is in flight by what that thread has.
LEMMA FlightChange ==
    ASSUME A!AllocAssumption, Calls, Calls', NEW t \in Threads,
           \A u \in Threads : u # t => A!InFlight(u)' = A!InFlight(u)
    PROVE  /\ A!InFlight(t) \in Int /\ A!InFlight(t)' \in Int
           /\ SumOf(Flight', Threads) \in Int
           /\ SumOf(Flight', Threads) =
                SumOf(Flight, Threads) - A!InFlight(t) + A!InFlight(t)'
<1>1. /\ IsFiniteSet(Threads) /\ Flight \in [Threads -> Int]
      /\ SumOf(Flight, Threads) \in Int
  BY FlightSum
<1>2. Flight' \in [Threads -> Int]
  <2>1. ASSUME NEW u \in Threads
        PROVE  A!InFlight(u)' \in Int
    BY DEF Calls, Busy, A!InFlight, A!Idle
  <2>. QED  BY <2>1 DEF Flight
<1>3. /\ \A u \in Threads : Flight[u] = A!InFlight(u) /\ Flight'[u] = A!InFlight(u)'
  BY DEF Flight
<1>4. \A u \in Threads : u # t => Flight'[u] = Flight[u]
  BY <1>3
<1>5. SumOf(Flight', Threads) = SumOf(Flight, Threads) - Flight[t] + Flight'[t]
  BY <1>1, <1>2, <1>4, SumChange
<1>. QED  BY <1>1, <1>2, <1>3, <1>5

\* What a step of one call adds to the blocks is what it adds to the counter,
\* to what is owed and to what the call has yet to count.
LEMMA Balanced ==
    ASSUME A!AllocAssumption, Calls, Balance, ~dead, Calls', NEW t \in Threads,
           \A u \in Threads : u # t => A!InFlight(u)' = A!InFlight(u),
           NEW d \in Int, SumOf(size', Ptrs) = SumOf(size, Ptrs) + d,
           Sameness(used' + owed', used + owed + d + A!InFlight(t) - A!InFlight(t)')
    PROVE  Balance'
<1> DEFINE f == SumOf(Flight, Threads)
           g == SumOf(Flight', Threads)
           s == SumOf(size, Ptrs)
           i == A!InFlight(t)
           j == A!InFlight(t)'
<1>1. f \in Int /\ s \in Int
  BY FlightSum
<1>2. i \in Int /\ j \in Int /\ g \in Int /\ g = f - i + j
  BY FlightChange
<1>3. used \in Int /\ owed \in Int /\ used' \in Int /\ owed' \in Int
  BY DEF Calls
<1>4. Sameness(used + f + owed, s)
  BY DEF Balance
<1>5. SumOf(size', Ptrs) = s + d
  OBVIOUS
<1>6. Sameness(used' + owed', used + owed + d + i - j)
  OBVIOUS
<1> HIDE DEF f, g, s, i, j
<1>7. Sameness(used' + g + owed', used + f + owed + d)
  <2>1. PICK k \in Int : used' + owed' = used + owed + d + i - j + k * Span
    BY <1>6 DEF Sameness
  <2> DEFINE m == k * Span
  <2>2. m \in Int
    BY DEF A!AllocAssumption
  <2> HIDE DEF m
  <2>3. used' + owed' = used + owed + d + i - j + m
    BY <2>1 DEF m
  <2>4. used' + g + owed' = used + f + owed + d + m
    <3>1. \A a, b, c, e, x, y \in Int :
            a + b = c + e + d + x - y + m =>
              a + (f - x + y) + b = c + f + e + d + m
      BY <1>1, <2>2
    <3>. QED  BY <1>2, <1>3, <2>3, <3>1
  <2>. QED  BY <2>4 DEF Sameness, m
<1>8. Sameness(used' + g + owed', s + d)
  <2> DEFINE x == used + f + owed
             a == used' + g + owed'
  <2>1. x \in Int /\ a \in Int /\ Sameness(x, s) /\ Sameness(a, x + d)
    BY <1>1, <1>2, <1>3, <1>4, <1>7
  <2> HIDE DEF x, a
  <2>2. Sameness(a, s + d)
    BY <1>1, <2>1, MovesTogether
  <2>. QED  BY <2>2 DEF a
<1>. QED  BY <1>5, <1>8 DEF Balance, g, Sameness

\* The counter moves by what it is adjusted by, up to a multiple of Span.
LEMMA Adjusted ==
    ASSUME A!AllocAssumption, Calls, NEW n \in Int, A!Adjust(n)
    PROVE  used' \in Nat /\ Sameness(used', used + n)
<1>1. used + n \in Int /\ used' = (used + n) % Span
  BY DEF Calls, A!Adjust
<1>. QED  BY <1>1, Remainder DEF Sameness

\* CountNew, FreeBlock and UncountOld change the counter, not the blocks.
LEMMA CounterStep ==
    ASSUME A!AllocAssumption, AllocInv, ~dead, Calls', NEW t \in Threads,
           UNCHANGED <<size, owed>>, \A u \in Threads : u # t => call'[u] = call[u],
           A!Adjust(A!InFlight(t) - A!InFlight(t)')
    PROVE  Balance'
<1> DEFINE i == A!InFlight(t)
           j == A!InFlight(t)'
<1>1. \A u \in Threads : u # t => A!InFlight(u)' = A!InFlight(u)
  BY DEF A!InFlight
<1>2. i \in Int /\ j \in Int
  BY <1>1, FlightChange DEF AllocInv
<1>3. SumOf(size, Ptrs) \in Int /\ SumOf(size', Ptrs) = SumOf(size, Ptrs) + 0
  BY FlightSum DEF AllocInv
<1>4. used \in Int /\ owed \in Int /\ used' \in Int
  BY DEF AllocInv, Calls
<1>5. i - j \in Int /\ A!Adjust(i - j)
  BY <1>2
<1> HIDE DEF i, j
<1>6. Sameness(used', used + (i - j))
  BY <1>5, Adjusted DEF AllocInv
<1>7. Sameness(used' + owed', used + owed + 0 + i - j)
  <2>1. PICK k \in Int : used' = used + (i - j) + k * Span
    BY <1>6 DEF Sameness
  <2> DEFINE m == k * Span
  <2>2. m \in Int
    BY DEF A!AllocAssumption
  <2>3. used' = used + (i - j) + m
    BY <2>1
  <2> HIDE DEF m
  <2>4. used' + owed = used + owed + 0 + i - j + m
    BY <1>2, <1>4, <2>2, <2>3
  <2>. QED  BY <2>4 DEF Sameness, m
<1>. QED  BY <1>1, <1>3, <1>7, Balanced DEF i, j, AllocInv

\* A step of t leaves the other calls and their blocks alone.
Untouched(t) ==
    \A u \in Threads : u # t =>
      call'[u] = call[u] /\ (call[u] # A!Idle => size'[call[u].p] = size[call[u].p])

\* Calls about other blocks than the one that changes stay as they are.
LEMMA Others ==
    ASSUME Calls, NEW t \in Threads, Untouched(t)
    PROVE  \A u \in Threads : u # t =>
             /\ A!InFlight(u)' = A!InFlight(u)
             /\ call'[u] = A!Idle \/ Busy(u)'
<1> SUFFICES ASSUME NEW u \in Threads, u # t
             PROVE  /\ A!InFlight(u)' = A!InFlight(u)
                    /\ call'[u] = A!Idle \/ Busy(u)'
  OBVIOUS
<1>1. call'[u] = call[u] /\ (call[u] # A!Idle => size'[call[u].p] = size[call[u].p])
  BY DEF Untouched
<1>2. CASE call[u] = A!Idle
  BY <1>1, <1>2 DEF A!InFlight, A!Idle
<1>3. CASE call[u] # A!Idle
  BY <1>1, <1>3 DEF Calls, Busy, A!InFlight
<1>. QED  BY <1>2, <1>3

\* A block of the sum changes its size.
LEMMA BlockChange ==
    ASSUME A!AllocAssumption, NEW f \in [Ptrs -> Nat], NEW p \in Ptrs, NEW n \in Nat
    PROVE  LET g == [f EXCEPT ![p] = n]
           IN  /\ g \in [Ptrs -> Nat]
               /\ SumOf(g, Ptrs) = SumOf(f, Ptrs) + (n - f[p])
               /\ SumOf(f, Ptrs) \in Int
<1> DEFINE g == [f EXCEPT ![p] = n]
<1>1. g \in [Ptrs -> Nat] /\ g[p] = n /\ \A y \in Ptrs : y # p => g[y] = f[y]
  OBVIOUS
<1>2. IsFiniteSet(Ptrs)
  BY DEF A!AllocAssumption, A!IsFiniteSet, IsFiniteSet
<1> HIDE DEF g
<1>3. f \in [Ptrs -> Int] /\ g \in [Ptrs -> Int]
  BY <1>1
<1>4. SumOf(g, Ptrs) = SumOf(f, Ptrs) - f[p] + g[p]
  BY <1>1, <1>2, <1>3, SumChange
<1>5. SumOf(f, Ptrs) \in Int
  BY <1>2, <1>3, SumOfIsSum
<1>. QED  BY <1>1, <1>4, <1>5 DEF g

\* A number differs from itself by no multiple of Span.
LEMMA SamenessReflexive ==
    ASSUME NEW x \in Int, A!AllocAssumption
    PROVE  Sameness(x, x)
<1>1. x = x + 0 * Span
  BY DEF A!AllocAssumption
<1>. QED  BY <1>1 DEF Sameness

\* Malloc, Release and Realloc change the blocks, not the counter.
LEMMA BlockStep ==
    ASSUME A!AllocAssumption, AllocInv, ~dead, Calls', NEW t \in Threads,
           UNCHANGED <<used, owed>>, Untouched(t),
           SumOf(size', Ptrs) = SumOf(size, Ptrs) + (A!InFlight(t)' - A!InFlight(t))
    PROVE  Balance'
<1> DEFINE i == A!InFlight(t)
           j == A!InFlight(t)'
<1>1. \A u \in Threads : u # t => A!InFlight(u)' = A!InFlight(u)
  BY Others DEF AllocInv
<1>2. i \in Int /\ j \in Int
  BY <1>1, FlightChange DEF AllocInv
<1>3. SumOf(size', Ptrs) = SumOf(size, Ptrs) + (j - i)
  OBVIOUS
<1>4. used \in Int /\ owed \in Int /\ used' = used /\ owed' = owed
  BY DEF AllocInv, Calls
<1> HIDE DEF i, j
<1>5. j - i \in Int /\ used + owed \in Int /\ used + owed + (j - i) + i - j = used + owed
  BY <1>2, <1>4
<1>6. Sameness(used' + owed', used + owed + (j - i) + i - j)
  BY <1>4, <1>5, SamenessReflexive
<1>. QED  BY <1>1, <1>3, <1>5, <1>6, Balanced DEF i, j, AllocInv

\* ez_malloc and ez_calloc keep the balance: the block is there, to be counted.
LEMMA MallocInv ==
    ASSUME A!AllocAssumption, AllocInv,
           NEW t \in Threads, NEW p \in Ptrs, NEW n \in Sizes, A!Malloc(t, p, n)
    PROVE  AllocInv'
<1>1. /\ ~dead /\ call[t] = A!Idle /\ size[p] = 0 /\ n \in Nat /\ n # 0
      /\ size' = [size EXCEPT ![p] = n]
      /\ call' = [call EXCEPT ![t] = [at |-> "count", p |-> p]]
      /\ UNCHANGED <<used, owed, dead>>
  BY DEF A!Malloc, A!Begins, A!Free, A!AllocAssumption
<1>2. /\ size \in [Ptrs -> Nat] /\ call = [u \in Threads |-> call[u]]
      /\ \A u \in Threads : call[u] = A!Idle \/ Busy(u)
  BY DEF AllocInv, Calls
<1>3. /\ size' \in [Ptrs -> Nat] /\ size'[p] = n
      /\ \A q \in Ptrs : q # p => size'[q] = size[q]
      /\ call' = [u \in Threads |-> call'[u]] /\ call'[t] = [at |-> "count", p |-> p]
      /\ \A u \in Threads : u # t => call'[u] = call[u]
  BY <1>1, <1>2
<1>4. \A u \in Threads : call[u] # A!Idle => call[u].p \in Ptrs /\ call[u].p # p
  BY <1>1, <1>2 DEF Busy
<1>5. Untouched(t)
  BY <1>3, <1>4 DEF Untouched
<1>6. Busy(t)'
  BY <1>1, <1>3 DEF Busy
<1>7. Calls'
  BY <1>1, <1>3, <1>5, <1>6, Others DEF AllocInv, Calls
<1>8. Apart'
  BY <1>3, <1>4 DEF AllocInv, Apart
<1>9. A!InFlight(t) = 0 /\ A!InFlight(t)' = n
  BY <1>1, <1>3 DEF A!InFlight, A!Idle
<1>10. SumOf(size', Ptrs) = SumOf(size, Ptrs) + (n - 0)
  BY <1>1, <1>2, BlockChange
<1>11. Balance'
  BY <1>1, <1>5, <1>7, <1>9, <1>10, BlockStep
<1>. QED  BY <1>7, <1>8, <1>11 DEF AllocInv

\* ez_memalign keeps the balance by what it owes.
LEMMA MemalignInv ==
    ASSUME A!AllocAssumption, AllocInv,
           NEW t \in Threads, NEW p \in Ptrs, NEW n \in Sizes, A!Memalign(t, p, n)
    PROVE  AllocInv'
<1>1. /\ ~dead /\ call[t] = A!Idle /\ size[p] = 0 /\ n \in Nat
      /\ size' = [size EXCEPT ![p] = n] /\ owed' = (owed + n) % Span
      /\ UNCHANGED <<used, call, dead>>
  BY DEF A!Memalign, A!Begins, A!Free, A!AllocAssumption
<1>2. /\ size \in [Ptrs -> Nat] /\ used \in Nat /\ owed \in Nat
      /\ \A u \in Threads : call[u] = A!Idle \/ Busy(u)
  BY DEF AllocInv, Calls
<1>3. size' \in [Ptrs -> Nat] /\ \A q \in Ptrs : q # p => size'[q] = size[q]
  BY <1>1, <1>2
<1>4. \A u \in Threads : call[u] # A!Idle => call[u].p \in Ptrs /\ call[u].p # p
  BY <1>1, <1>2 DEF Busy
<1>5. Untouched(t)
  BY <1>1, <1>3, <1>4 DEF Untouched
<1>6. owed + n \in Int /\ owed' \in Nat /\ Sameness(owed', owed + n)
  BY <1>1, <1>2, Remainder DEF Sameness
<1>7. Calls'
  BY <1>1, <1>3, <1>5, <1>6, Others DEF AllocInv, Calls
<1>8. Apart'
  BY <1>1 DEF AllocInv, Apart
<1>9. A!InFlight(t) = 0 /\ A!InFlight(t)' = 0
  BY <1>1 DEF A!InFlight, A!Idle
<1>10. SumOf(size', Ptrs) = SumOf(size, Ptrs) + (n - 0) /\ n - 0 = n /\ n \in Int
  <2>1. SumOf(size', Ptrs) = SumOf(size, Ptrs) + (n - size[p])
    BY <1>1, <1>2, BlockChange
  <2>. QED  BY <1>1, <2>1
<1>11. Sameness(used' + owed', used + owed + n + 0 - 0)
  <2>1. PICK k \in Int : owed' = owed + n + k * Span
    BY <1>6 DEF Sameness
  <2> DEFINE m == k * Span
  <2>2. m \in Int /\ owed' = owed + n + m
    BY <2>1 DEF A!AllocAssumption
  <2> HIDE DEF m
  <2>3. used' + owed' = used + owed + n + 0 - 0 + m
    BY <1>1, <1>2, <2>2
  <2>. QED  BY <2>3 DEF Sameness, m
<1>12. Balance'
  <2>1. \A u \in Threads : u # t => A!InFlight(u)' = A!InFlight(u)
    BY <1>5, Others DEF AllocInv
  <2>2. SumOf(size', Ptrs) = SumOf(size, Ptrs) + n /\ n \in Int
    BY <1>10
  <2>3. Sameness(used' + owed', used + owed + n + A!InFlight(t) - A!InFlight(t)')
    BY <1>9, <1>11
  <2>. QED  BY <1>1, <1>7, <2>1, <2>2, <2>3, Balanced DEF AllocInv
<1>. QED  BY <1>7, <1>8, <1>12 DEF AllocInv

\* ez_realloc keeps the balance: the old block leaves as the new one enters.
LEMMA ReallocInv ==
    ASSUME A!AllocAssumption, AllocInv, NEW t \in Threads,
           NEW p \in Ptrs, NEW q \in Ptrs, NEW n \in Sizes, A!Realloc(t, p, q, n)
    PROVE  AllocInv'
<1> DEFINE m == [size EXCEPT ![p] = 0]
           c == [at |-> "uncount", p |-> q, old |-> size[p]]
<1>1. /\ ~dead /\ call[t] = A!Idle /\ n \in Nat /\ n # 0
      /\ \A u \in Threads : call[u] = A!Idle \/ call[u].p # p
      /\ size[q] = 0 \/ q = p
      /\ size' = [m EXCEPT ![q] = n]
      /\ call' = [call EXCEPT ![t] = c]
      /\ UNCHANGED <<used, owed, dead>>
  BY DEF A!Realloc, A!Begins, A!Free, A!Held, A!AllocAssumption
<1>2. /\ size \in [Ptrs -> Nat] /\ call = [u \in Threads |-> call[u]]
      /\ \A u \in Threads : call[u] = A!Idle \/ Busy(u)
  BY DEF AllocInv, Calls
<1>3. /\ m \in [Ptrs -> Nat] /\ m[q] = 0
      /\ SumOf(m, Ptrs) = SumOf(size, Ptrs) + (0 - size[p])
      /\ SumOf(size, Ptrs) \in Int /\ size[p] \in Nat
  BY <1>1, <1>2, BlockChange
<1>4. /\ size' \in [Ptrs -> Nat]
      /\ SumOf(size', Ptrs) = SumOf(m, Ptrs) + (n - m[q]) /\ SumOf(m, Ptrs) \in Int
  <2> HIDE DEF m
  <2>. QED  BY <1>1, <1>3, BlockChange
<1>5. /\ size'[q] = n /\ \A x \in Ptrs : x # p /\ x # q => size'[x] = size[x]
      /\ call' = [u \in Threads |-> call'[u]] /\ call'[t] = c
      /\ \A u \in Threads : u # t => call'[u] = call[u]
  BY <1>1, <1>2
<1>6. \A u \in Threads : call[u] # A!Idle => call[u].p \in Ptrs \ {p, q}
  BY <1>1, <1>2 DEF Busy
<1>7. Untouched(t)
  BY <1>5, <1>6 DEF Untouched
<1>8. Busy(t)'
  BY <1>1, <1>2, <1>5 DEF Busy
<1>9. Calls'
  BY <1>1, <1>4, <1>5, <1>7, <1>8, Others DEF AllocInv, Calls
<1>10. Apart'
  BY <1>5, <1>6 DEF AllocInv, Apart
<1>11. A!InFlight(t) = 0 /\ A!InFlight(t)' = n - size[p]
  BY <1>1, <1>5 DEF A!InFlight, A!Idle
<1>12. SumOf(size', Ptrs) = SumOf(size, Ptrs) + ((n - size[p]) - 0)
  <2> HIDE DEF m
  <2>. QED  BY <1>1, <1>3, <1>4
<1>13. Balance'
  BY <1>1, <1>7, <1>9, <1>11, <1>12, BlockStep
<1>. QED  BY <1>9, <1>10, <1>13 DEF AllocInv

\* ez_free keeps the balance when the block goes.
LEMMA ReleaseInv ==
    ASSUME A!AllocAssumption, AllocInv, NEW t \in Threads, A!Release(t)
    PROVE  AllocInv'
<1> DEFINE p == call[t].p
<1>1. /\ ~dead /\ call[t] # A!Idle /\ call[t].at = "release"
      /\ size' = [size EXCEPT ![p] = 0]
      /\ call' = [call EXCEPT ![t] = A!Idle]
      /\ UNCHANGED <<used, owed, dead>>
  BY DEF A!Release, A!Idle
<1>2. /\ size \in [Ptrs -> Nat] /\ call = [u \in Threads |-> call[u]]
      /\ \A u \in Threads : call[u] = A!Idle \/ Busy(u)
  BY DEF AllocInv, Calls
<1>3. p \in Ptrs
  BY <1>1, <1>2 DEF Busy
<1>4. /\ size' \in [Ptrs -> Nat] /\ size'[p] = 0
      /\ \A x \in Ptrs : x # p => size'[x] = size[x]
      /\ call' = [u \in Threads |-> call'[u]] /\ call'[t] = A!Idle
      /\ \A u \in Threads : u # t => call'[u] = call[u]
  BY <1>1, <1>2, <1>3
<1>5. \A u \in Threads : u # t /\ call[u] # A!Idle => call[u].p \in Ptrs /\ call[u].p # p
  BY <1>1, <1>2 DEF Busy, AllocInv, Apart
<1>6. Untouched(t)
  BY <1>4, <1>5 DEF Untouched
<1>7. Calls'
  BY <1>1, <1>4, <1>6, Others DEF AllocInv, Calls
<1>8. Apart'
  BY <1>4 DEF AllocInv, Apart
<1>9. A!InFlight(t) = size[p] /\ A!InFlight(t)' = 0
  BY <1>1, <1>4 DEF A!InFlight, A!Idle
<1>10. SumOf(size', Ptrs) = SumOf(size, Ptrs) + (0 - size[p])
  <2> HIDE DEF p
  <2>. QED  BY <1>1, <1>2, <1>3, BlockChange
<1>11. Balance'
  BY <1>1, <1>6, <1>7, <1>9, <1>10, BlockStep
<1>. QED  BY <1>7, <1>8, <1>11 DEF AllocInv

\* The atomic additions keep the balance.
LEMMA CountingInv ==
    ASSUME A!AllocAssumption, AllocInv, NEW t \in Threads,
           A!CountNew(t) \/ A!UncountOld(t)
    PROVE  AllocInv'
<1> DEFINE p == call[t].p
           n == IF call[t].at = "count" THEN size[p] ELSE -call[t].old
           c == IF call[t].at = "count" THEN A!Idle ELSE [at |-> "count", p |-> p]
<1>1. /\ ~dead /\ call[t] # A!Idle /\ call[t].at \in {"count", "uncount"}
      /\ A!Adjust(n)
      /\ call' = [call EXCEPT ![t] = c]
      /\ UNCHANGED <<size, owed, dead>>
  BY DEF A!CountNew, A!UncountOld, A!OldSize, A!Idle
<1>2. /\ size \in [Ptrs -> Nat] /\ call = [u \in Threads |-> call[u]]
      /\ \A u \in Threads : call[u] = A!Idle \/ Busy(u)
  BY DEF AllocInv, Calls
<1>3. Busy(t) /\ p \in Ptrs /\ size[p] \in Nat /\ n \in Int
  BY <1>1, <1>2 DEF Busy
<1>4. /\ call' = [u \in Threads |-> call'[u]] /\ call'[t] = c
      /\ \A u \in Threads : u # t => call'[u] = call[u]
  BY <1>1, <1>2
<1>5. Untouched(t)
  BY <1>1, <1>4 DEF Untouched
<1>6. call'[t] = A!Idle \/ Busy(t)'
  BY <1>1, <1>3, <1>4 DEF Busy
<1>7. used' \in Nat
  <2> HIDE DEF n
  <2>. QED  BY <1>1, <1>3, Adjusted DEF AllocInv
<1>8. Calls'
  BY <1>1, <1>4, <1>5, <1>6, <1>7, Others DEF AllocInv, Calls
<1>9. Apart'
  BY <1>1, <1>4 DEF AllocInv, Apart, A!Idle
<1>10. A!InFlight(t) - A!InFlight(t)' = n
  BY <1>1, <1>3, <1>4 DEF A!InFlight, A!Idle, Busy
<1>11. Balance'
  <2> HIDE DEF n
  <2>. QED  BY <1>1, <1>4, <1>8, <1>10, CounterStep
<1>. QED  BY <1>8, <1>9, <1>11 DEF AllocInv

\* The subtraction of ez_free keeps the balance, the block still being there.
LEMMA FreeBlockInv ==
    ASSUME A!AllocAssumption, AllocInv, NEW t \in Threads, NEW p \in Ptrs,
           A!FreeBlock(t, p)
    PROVE  AllocInv'
<1> DEFINE c == [at |-> "release", p |-> p]
<1>1. /\ ~dead /\ call[t] = A!Idle /\ size[p] # 0
      /\ \A u \in Threads : call[u] = A!Idle \/ call[u].p # p
      /\ A!Adjust(-size[p])
      /\ call' = [call EXCEPT ![t] = c]
      /\ UNCHANGED <<size, owed, dead>>
  BY DEF A!FreeBlock, A!Begins, A!Free, A!Held
<1>2. /\ size \in [Ptrs -> Nat] /\ call = [u \in Threads |-> call[u]]
      /\ \A u \in Threads : call[u] = A!Idle \/ Busy(u)
  BY DEF AllocInv, Calls
<1>3. /\ call' = [u \in Threads |-> call'[u]] /\ call'[t] = c
      /\ \A u \in Threads : u # t => call'[u] = call[u]
  BY <1>1, <1>2
<1>4. Untouched(t)
  BY <1>1, <1>3 DEF Untouched
<1>5. Busy(t)'
  BY <1>1, <1>3 DEF Busy
<1>6. size[p] \in Nat /\ -size[p] \in Int /\ used' \in Nat
  BY <1>1, <1>2, Adjusted DEF AllocInv
<1>7. Calls'
  BY <1>1, <1>3, <1>4, <1>5, <1>6, Others DEF AllocInv, Calls
<1>8. Apart'
  BY <1>1, <1>3 DEF AllocInv, Apart
<1>9. A!InFlight(t) - A!InFlight(t)' = -size[p]
  BY <1>1, <1>3, <1>6 DEF A!InFlight, A!Idle
<1>10. Balance'
  BY <1>1, <1>3, <1>7, <1>9, CounterStep
<1>. QED  BY <1>7, <1>8, <1>10 DEF AllocInv

\* An allocation that fails ends the program, and nothing is claimed then.
LEMMA OutOfMemoryInv ==
    ASSUME AllocInv, NEW t \in Threads, NEW p \in Ptrs, A!OutOfMemory(t, p)
    PROVE  AllocInv'
<1>1. /\ dead' = TRUE
      /\ \A u \in Threads : call[u] = A!Idle \/ call[u].p # p
      /\ size' = [size EXCEPT ![p] = 0]
      /\ UNCHANGED <<used, call, owed>>
  BY DEF A!OutOfMemory, A!Held
<1>2. Calls'
  BY <1>1 DEF AllocInv, Calls, Busy
<1>3. Apart' /\ Balance'
  BY <1>1 DEF AllocInv, Apart, Balance
<1>. QED  BY <1>2, <1>3 DEF AllocInv

\* used_memory is the size of all blocks but for the calls in progress and the
\* blocks of ez_memalign, for any number of threads and blocks of any sizes.
THEOREM UsedMemory ==
    ASSUME A!AllocAssumption
    PROVE  A!Spec => []UsedMemoryExact
<1>1. A!Init => AllocInv
  <2> SUFFICES ASSUME A!Init
               PROVE  AllocInv
    OBVIOUS
  <2>1. /\ size = [p \in Ptrs |-> 0] /\ used = 0 /\ owed = 0 /\ dead = FALSE
        /\ call = [t \in Threads |-> A!Idle]
    BY DEF A!Init
  <2>2. Calls /\ Apart
    BY <2>1 DEF Calls, Apart
  <2>3. Flight = [t \in Threads |-> 0]
    BY <2>1 DEF Flight, A!InFlight, A!Idle
  <2>4. SumOf(Flight, Threads) = 0 /\ SumOf(size, Ptrs) = 0
    BY <2>1, <2>2, <2>3, FlightSum, SumOfZeros
  <2>5. Balance
    BY <2>1, <2>4, SamenessReflexive DEF Balance
  <2>. QED  BY <2>2, <2>5 DEF AllocInv
<1>2. AllocInv /\ [A!Next]_A!vars => AllocInv'
  <2> SUFFICES ASSUME AllocInv, [A!Next]_A!vars
               PROVE  AllocInv'
    OBVIOUS
  <2>1. CASE UNCHANGED A!vars
    <3>1. UNCHANGED <<size, used, call, owed, dead>>
      BY <2>1 DEF A!vars
    <3>2. Flight' = Flight
      BY <3>1 DEF Flight, A!InFlight
    <3>3. Balance' = Balance
      BY <3>1, <3>2 DEF Balance
    <3>4. Calls' /\ Apart'
      BY <3>1 DEF AllocInv, Calls, Busy, Apart
    <3>. QED  BY <3>3, <3>4 DEF AllocInv
  <2>2. ASSUME NEW t \in Threads, A!CountNew(t) \/ A!UncountOld(t)
        PROVE  AllocInv'
    BY <2>2, CountingInv
  <2>3. ASSUME NEW t \in Threads, A!Release(t)
        PROVE  AllocInv'
    BY <2>3, ReleaseInv
  <2>4. ASSUME NEW t \in Threads, NEW p \in Ptrs, A!FreeBlock(t, p) \/ A!OutOfMemory(t, p)
        PROVE  AllocInv'
    BY <2>4, FreeBlockInv, OutOfMemoryInv
  <2>5. ASSUME NEW t \in Threads, NEW p \in Ptrs, NEW n \in Sizes,
               A!Malloc(t, p, n) \/ A!Memalign(t, p, n)
        PROVE  AllocInv'
    BY <2>5, MallocInv, MemalignInv
  <2>6. ASSUME NEW t \in Threads, NEW p \in Ptrs, NEW q \in Ptrs, NEW n \in Sizes,
               A!Realloc(t, p, q, n)
        PROVE  AllocInv'
    BY <2>6, ReallocInv
  <2>. QED  BY <2>1, <2>2, <2>3, <2>4, <2>5, <2>6 DEF A!Next
<1>3. AllocInv => UsedMemoryExact
  <2> SUFFICES ASSUME AllocInv, ~dead
               PROVE  (used + SumOf(Flight, Threads) + owed) % Span
                        = SumOf(size, Ptrs) % Span
    BY Totals DEF UsedMemoryExact, A!UsedMemoryExact
  <2>1. /\ used + SumOf(Flight, Threads) + owed \in Int
        /\ SumOf(size, Ptrs) \in Int
        /\ Sameness(used + SumOf(Flight, Threads) + owed, SumOf(size, Ptrs))
    BY FlightSum DEF AllocInv, Calls, Balance
  <2>. QED  BY <2>1, SameRemainder
<1>. QED  BY <1>1, <1>2, <1>3, PTL DEF A!Spec

-----------------------------------------------------------------------------
(* The rings of the lists, pointer by pointer.                             *)

Links == [Cells -> Cells \cup {NULL}]
Memory == [next : Links, prev : Links]

\* The ring of h with the n entries w, cell by cell: 0 and n + 1 are the head.
Cell(h, n, w, j) == IF j \in 1 .. n THEN w[j] ELSE h

IsRing(m, h, n, w) ==
    /\ w \in [1 .. n -> Entries]
    /\ \A i, j \in 1 .. n : w[i] = w[j] => i = j
    /\ \A j \in 0 .. n : /\ m.next[Cell(h, n, w, j)] = Cell(h, n, w, j + 1)
                         /\ m.prev[Cell(h, n, w, j + 1)] = Cell(h, n, w, j)

\* What list_add and list_del do to the two fields.
LEMMA AddFields ==
    ASSUME NEW m \in Memory, NEW i \in Cells, NEW h \in Cells, m.next[h] \in Cells
    PROVE  /\ Add(m, i, h) \in Memory
           /\ Add(m, i, h).next = [m.next EXCEPT ![i] = m.next[h], ![h] = i]
           /\ Add(m, i, h).prev = [m.prev EXCEPT ![m.next[h]] = i, ![i] = h]
  BY DEF Add, AddBetween, Memory, Links

\* What list_del does to them.
LEMMA DelFields ==
    ASSUME NEW m \in Memory, NEW e \in Cells, m.next[e] \in Cells, m.prev[e] \in Cells
    PROVE  /\ Del(m, e) \in Memory
           /\ Del(m, e).next = [m.next EXCEPT ![m.prev[e]] = m.next[e], ![e] = NULL]
           /\ Del(m, e).prev = [m.prev EXCEPT ![m.next[e]] = m.prev[e], ![e] = NULL]
  BY DEF Del, Unlink, Memory, Links

\* A ring whose cells a step leaves alone is still one.
LEMMA RingKept ==
    ASSUME NEW m, NEW u, NEW h, NEW n \in Nat, NEW w, IsRing(m, h, n, w),
           u.next[h] = m.next[h], u.prev[h] = m.prev[h],
           \A j \in 1 .. n : u.next[w[j]] = m.next[w[j]] /\ u.prev[w[j]] = m.prev[w[j]]
    PROVE  IsRing(u, h, n, w)
<1>1. ASSUME NEW j \in 0 .. n
      PROVE  /\ u.next[Cell(h, n, w, j)] = Cell(h, n, w, j + 1)
             /\ u.prev[Cell(h, n, w, j + 1)] = Cell(h, n, w, j)
  BY DEF IsRing, Cell
<1>. QED  BY <1>1 DEF IsRing

\* The j-th entry of a ring has its neighbours in it.
Linking(m, h, n, w, j) ==
    /\ w[j] \in Entries /\ w[j] = Cell(h, n, w, j)
    /\ m.next[w[j]] = Cell(h, n, w, j + 1)
    /\ m.prev[w[j]] = Cell(h, n, w, j - 1)

\* The entries of a ring are linked to their neighbours.
LEMMA Neighbours ==
    ASSUME NEW m, NEW h, NEW n \in Nat, NEW w, IsRing(m, h, n, w), NEW j \in 1 .. n
    PROVE  Linking(m, h, n, w, j)
<1>1. j \in 0 .. n /\ j - 1 \in 0 .. n /\ (j - 1) + 1 = j
  OBVIOUS
<1>2. Cell(h, n, w, j) = w[j]
  BY DEF Cell
<1>. QED  BY <1>1, <1>2 DEF IsRing, Linking

\* The cells of a ring are cells, and the head has its first and last entry.
LEMMA RingCells ==
    ASSUME NEW m, NEW h \in Heads, NEW n \in Nat, NEW w, IsRing(m, h, n, w)
    PROVE  /\ \A j \in Int : Cell(h, n, w, j) \in Cells
           /\ m.next[h] = Cell(h, n, w, 1) /\ m.prev[h] = Cell(h, n, w, n)
<1>1. \A j \in 1 .. n : w[j] \in Entries
  BY DEF IsRing
<1>2. \A j \in Int : Cell(h, n, w, j) \in Cells
  BY <1>1 DEF Cell, Cells
<1>3. 0 \in 0 .. n /\ n \in 0 .. n /\ 0 + 1 = 1
  OBVIOUS
<1>4. Cell(h, n, w, 0) = h /\ Cell(h, n, w, n + 1) = h
  BY DEF Cell
<1>5. m.next[h] = Cell(h, n, w, 1) /\ m.prev[h] = Cell(h, n, w, n)
  BY <1>3, <1>4 DEF IsRing
<1>. QED  BY <1>2, <1>5

\* list_add makes i the first entry of the ring.
LEMMA RingAdd ==
    ASSUME NEW m \in Memory, NEW h \in Heads, NEW n \in Nat, NEW w, IsRing(m, h, n, w),
           NEW i \in Entries, \A j \in 1 .. n : w[j] # i
    PROVE  IsRing(Add(m, i, h), h, n + 1, [j \in 1 .. n + 1 |-> IF j = 1 THEN i ELSE w[j - 1]])
<1> DEFINE q == m.next[h]
           u == Add(m, i, h)
           v == [j \in 1 .. n + 1 |-> IF j = 1 THEN i ELSE w[j - 1]]
<1>1. q = Cell(h, n, w, 1) /\ q \in Cells /\ i \in Cells /\ h \in Cells /\ i # h /\ q # i
  <2>1. q = Cell(h, n, w, 1) /\ q \in Cells
    BY RingCells
  <2>2. i # h
    BY ListAssumption
  <2>. QED  BY <2>1, <2>2 DEF Cell, Cells
<1>2. /\ u.next = [m.next EXCEPT ![i] = q, ![h] = i]
      /\ u.prev = [m.prev EXCEPT ![q] = i, ![i] = h]
  BY <1>1, AddFields
<1>3. DOMAIN m.next = Cells /\ DOMAIN m.prev = Cells
  BY DEF Memory, Links
<1>4. /\ u.next[i] = q /\ u.next[h] = i /\ u.prev[q] = i /\ u.prev[i] = h
      /\ \A c \in Cells : c # i /\ c # h => u.next[c] = m.next[c]
      /\ \A c \in Cells : c # i /\ c # q => u.prev[c] = m.prev[c]
  BY <1>1, <1>2, <1>3
<1>5. /\ v \in [1 .. n + 1 -> Entries] /\ v[1] = i
      /\ \A j \in 1 .. n : v[j + 1] = w[j]
  BY DEF IsRing
<1> HIDE DEF q, u, v
<1>6. /\ Cell(h, n + 1, v, 0) = h /\ Cell(h, n + 1, v, 1) = i
      /\ \A j \in 1 .. n + 1 : Cell(h, n + 1, v, j + 1) = Cell(h, n, w, j)
  BY <1>5 DEF Cell
<1>7. ASSUME NEW j \in 0 .. n + 1
      PROVE  /\ u.next[Cell(h, n + 1, v, j)] = Cell(h, n + 1, v, j + 1)
             /\ u.prev[Cell(h, n + 1, v, j + 1)] = Cell(h, n + 1, v, j)
  <2>1. CASE j = 0
    BY <1>4, <1>6, <2>1
  <2>2. CASE j = 1
    <3>1. Cell(h, n + 1, v, 1 + 1) = q
      BY <1>1, <1>6
    <3>. QED  BY <1>4, <1>6, <2>2, <3>1
  <2>3. CASE j > 1
    <3> DEFINE k == j - 1
    <3>1. k \in 1 .. n /\ j = k + 1
      BY <2>3
    <3> HIDE DEF k
    <3>2. /\ Cell(h, n + 1, v, j) = w[k]
          /\ Cell(h, n + 1, v, j + 1) = Cell(h, n, w, k + 1)
      BY <1>6, <3>1 DEF Cell
    <3>3. /\ m.next[w[k]] = Cell(h, n, w, k + 1)
          /\ m.prev[Cell(h, n, w, k + 1)] = w[k]
          /\ w[k] \in Entries /\ Cell(h, n, w, k + 1) \in Cells
      <4>1. k \in 0 .. n /\ k + 1 \in Int /\ Cell(h, n, w, k) = w[k]
        BY <3>1 DEF Cell
      <4>2. m.prev[Cell(h, n, w, k + 1)] = w[k]
        BY <4>1 DEF IsRing
      <4>3. Linking(m, h, n, w, k)
        BY <3>1, Neighbours
      <4>. QED  BY <4>1, <4>2, <4>3, RingCells DEF Linking
    <3>4. w[k] # i /\ w[k] # h /\ w[k] \in Cells
      BY <3>1, <3>3, ListAssumption DEF Cells
    <3>5. Cell(h, n, w, k + 1) # i
      BY <1>1, <3>1 DEF Cell
    <3>6. Cell(h, n, w, k + 1) # q
      <4>1. CASE k + 1 \in 1 .. n
        BY <1>1, <3>1, <4>1 DEF Cell, IsRing
      <4>2. CASE k + 1 \notin 1 .. n
        <5>1. 1 \in 1 .. n /\ w[1] \in Entries
          BY <3>1 DEF IsRing
        <5>. QED  BY <1>1, <4>2, <5>1, ListAssumption DEF Cell
      <4>. QED  BY <4>1, <4>2
    <3>. QED  BY <1>4, <3>2, <3>3, <3>4, <3>5, <3>6
  <2>. QED  BY <2>1, <2>2, <2>3
<1>8. ASSUME NEW j \in 1 .. n + 1, NEW k \in 1 .. n + 1, v[j] = v[k]
      PROVE  j = k
  <2>1. ASSUME NEW x \in 1 .. n + 1
        PROVE  x = 1 \/ (x - 1 \in 1 .. n /\ v[x] = w[x - 1])
    <3>1. CASE x # 1
      <4>1. x - 1 \in 1 .. n /\ (x - 1) + 1 = x
        BY <3>1
      <4>. QED  BY <1>5, <4>1
    <3>. QED  BY <3>1
  <2>2. CASE j = 1 \/ k = 1
    BY <1>5, <1>8, <2>1, <2>2 DEF IsRing
  <2>3. CASE j # 1 /\ k # 1
    <3>1. j - 1 \in 1 .. n /\ k - 1 \in 1 .. n /\ w[j - 1] = w[k - 1]
      BY <1>8, <2>1, <2>3
    <3>2. j - 1 = k - 1
      BY <3>1 DEF IsRing
    <3>. QED  BY <3>2
  <2>. QED  BY <2>2, <2>3
<1>. QED  BY <1>5, <1>7, <1>8 DEF IsRing, u, v

\* The cells of a ring are different from each other.
LEMMA CellsDiffer ==
    ASSUME NEW m, NEW h \in Heads, NEW n \in Nat, NEW w, IsRing(m, h, n, w),
           NEW i \in 0 .. n + 1, NEW j \in 0 .. n + 1, i < j, i # 0 \/ j # n + 1
    PROVE  Cell(h, n, w, i) # Cell(h, n, w, j)
<1>1. CASE i \in 1 .. n /\ j \in 1 .. n
  BY <1>1 DEF Cell, IsRing
<1>2. CASE i \in 1 .. n /\ j \notin 1 .. n
  <2>1. w[i] \in Entries /\ w[i] # h
    BY <1>2, ListAssumption DEF IsRing
  <2>. QED  BY <1>2, <2>1 DEF Cell
<1>3. CASE i \notin 1 .. n /\ j \in 1 .. n
  <2>1. w[j] \in Entries /\ w[j] # h
    BY <1>3, ListAssumption DEF IsRing
  <2>. QED  BY <1>3, <2>1 DEF Cell
<1>. QED  BY <1>1, <1>2, <1>3

\* list_del takes the p-th entry out of the ring.
LEMMA RingDel ==
    ASSUME NEW m \in Memory, NEW h \in Heads, NEW n \in Nat, NEW w, IsRing(m, h, n, w),
           NEW p \in 1 .. n
    PROVE  IsRing(Del(m, w[p]), h, n - 1,
                  [j \in 1 .. n - 1 |-> IF j < p THEN w[j] ELSE w[j + 1]])
<1> DEFINE C(j) == Cell(h, n, w, j)
           u == Del(m, w[p])
           v == [j \in 1 .. n - 1 |-> IF j < p THEN w[j] ELSE w[j + 1]]
           D(j) == Cell(h, n - 1, v, j)
<1>1. /\ p - 1 \in 0 .. n + 1 /\ p \in 0 .. n + 1 /\ p + 1 \in 0 .. n + 1
      /\ p - 1 < p /\ p < p + 1
  OBVIOUS
<1>2. C(p) = w[p] /\ C(p - 1) # C(p) /\ C(p) # C(p + 1)
  <2>1. C(p) = w[p]
    BY DEF Cell
  <2>2. p - 1 # n + 1 /\ p # 0
    OBVIOUS
  <2>3. Cell(h, n, w, p - 1) # Cell(h, n, w, p)
    BY <1>1, <2>2, CellsDiffer
  <2>4. Cell(h, n, w, p) # Cell(h, n, w, p + 1)
    BY <1>1, <2>2, CellsDiffer
  <2>. QED  BY <2>1, <2>3, <2>4
<1>3. /\ m.next[C(p)] = C(p + 1) /\ m.prev[C(p)] = C(p - 1)
      /\ \A j \in Int : C(j) \in Cells
  <2>1. C(p) = w[p]
    BY DEF Cell
  <2>2. Linking(m, h, n, w, p)
    BY Neighbours
  <2>3. \A j \in Int : C(j) \in Cells
    BY RingCells
  <2>. QED  BY <2>1, <2>2, <2>3 DEF Linking
<1>4. /\ u.next = [m.next EXCEPT ![C(p - 1)] = C(p + 1), ![C(p)] = NULL]
      /\ u.prev = [m.prev EXCEPT ![C(p + 1)] = C(p - 1), ![C(p)] = NULL]
  BY <1>2, <1>3, DelFields
<1>5. DOMAIN m.next = Cells /\ DOMAIN m.prev = Cells
  BY DEF Memory, Links
<1>6. \A j \in 0 .. n : m.next[C(j)] = C(j + 1) /\ m.prev[C(j + 1)] = C(j)
  BY DEF IsRing
<1>7. \A i, j \in 0 .. n + 1 : i < j /\ (i # 0 \/ j # n + 1) => C(i) # C(j)
  BY CellsDiffer
<1>8. /\ v \in [1 .. n - 1 -> Entries]
      /\ \A j \in 1 .. n - 1 : v[j] = IF j < p THEN w[j] ELSE w[j + 1]
  BY DEF IsRing
<1>9. \A j \in 0 .. n : D(j) = IF j < p THEN C(j) ELSE C(j + 1)
  BY <1>8 DEF Cell
<1> HIDE DEF C, D, u, v
<1>10. /\ u.next[C(p - 1)] = C(p + 1) /\ u.prev[C(p + 1)] = C(p - 1)
       /\ \A c \in Cells : c # C(p) /\ c # C(p - 1) => u.next[c] = m.next[c]
       /\ \A c \in Cells : c # C(p) /\ c # C(p + 1) => u.prev[c] = m.prev[c]
  BY <1>2, <1>3, <1>4, <1>5
<1>11. ASSUME NEW j \in 0 .. n, j < p - 1 \/ j > p
       PROVE  u.next[C(j)] = C(j + 1) /\ u.prev[C(j + 1)] = C(j)
  <2>1. C(j) \in Cells /\ C(j + 1) \in Cells /\ m.next[C(j)] = C(j + 1) /\ m.prev[C(j + 1)] = C(j)
    BY <1>3, <1>6
  <2>2. C(j) # C(p) /\ C(j) # C(p - 1)
    BY <1>1, <1>7, <1>11
  <2>3. C(j + 1) # C(p) /\ C(j + 1) # C(p + 1)
    <3>1. j + 1 \in 0 .. n + 1 /\ (j + 1 < p \/ j + 1 > p + 1)
      BY <1>11
    <3>. QED  BY <1>1, <1>7, <3>1
  <2>. QED  BY <1>10, <2>1, <2>2, <2>3
<1>12. ASSUME NEW j \in 0 .. n - 1
       PROVE  u.next[D(j)] = D(j + 1) /\ u.prev[D(j + 1)] = D(j)
  <2>1. CASE j < p - 1
    <3>1. D(j) = C(j) /\ D(j + 1) = C(j + 1)
      BY <1>9, <2>1
    <3>. QED  BY <1>11, <2>1, <3>1
  <2>2. CASE j = p - 1
    <3>1. D(j) = C(p - 1) /\ D(j + 1) = C(p + 1)
      BY <1>9, <2>2
    <3>. QED  BY <1>10, <3>1
  <2>3. CASE j > p - 1
    <3>1. D(j) = C(j + 1) /\ D(j + 1) = C((j + 1) + 1) /\ j + 1 \in 0 .. n /\ j + 1 > p
      BY <1>9, <2>3
    <3>. QED  BY <1>11, <3>1
  <2>. QED  BY <2>1, <2>2, <2>3
<1>13. ASSUME NEW i \in 1 .. n - 1, NEW j \in 1 .. n - 1, v[i] = v[j]
       PROVE  i = j
  <2> DEFINE At(x) == IF x < p THEN x ELSE x + 1
  <2>1. v[i] = w[At(i)] /\ v[j] = w[At(j)] /\ At(i) \in 1 .. n /\ At(j) \in 1 .. n
    BY <1>8
  <2>2. At(i) = At(j)
    BY <1>13, <2>1 DEF IsRing
  <2>. QED  BY <2>2
<1>. QED  BY <1>8, <1>12, <1>13 DEF IsRing, u, v, D

\* A ring of different entries has at most as many as there are.
LEMMA RingFits ==
    ASSUME NEW m, NEW h, NEW n \in Nat, NEW w, IsRing(m, h, n, w)
    PROVE  Cardinality(Entries) \in Nat /\ n <= Cardinality(Entries)
<1>1. w \in Injection(1 .. n, Entries)
  BY DEF IsRing, Injection, IsInjective
<1>2. IsFiniteSet(Entries) /\ Cardinality(Entries) \in Nat
  BY ListAssumption, FS_CardinalityType
<1>3. Cardinality(1 .. n) <= Cardinality(Entries)
  BY <1>1, <1>2, FS_Injection
<1>4. Cardinality(1 .. n) = n
  BY FS_Interval
<1>. QED  BY <1>2, <1>3, <1>4

\* Sequences are functions.
LEMMA AppendIs ==
    ASSUME NEW S, NEW n \in Nat, NEW w \in [1 .. n -> S], NEW i \in 0 .. n
    PROVE  LET s == [j \in 1 .. i |-> w[j]]
           IN  /\ s \in Seq(S) /\ Len(s) = i
               /\ s = <<>> <=> i = 0
               /\ i < n => Append(s, w[i + 1]) = [j \in 1 .. i + 1 |-> w[j]]
<1> DEFINE s == [j \in 1 .. i |-> w[j]]
<1>1. s \in Seq(S) /\ Len(s) = i
  OBVIOUS
<1>2. s = <<>> <=> i = 0
  BY <1>1
<1>3. ASSUME i < n
      PROVE  Append(s, w[i + 1]) = [j \in 1 .. i + 1 |-> w[j]]
  BY <1>1, <1>3
<1>. QED  BY <1>1, <1>2, <1>3

\* LIST_FOR comes by the entries of the ring in their order.
LEMMA VisitsRing ==
    ASSUME NEW m, NEW h \in Heads, NEW n \in Nat, NEW w, IsRing(m, h, n, w)
    PROVE  Visited(m, h) = w /\ w \in Seq(Entries) /\ Len(w) = n
<1> DEFINE K == Cardinality(Entries)
           Step(v) == LET c == m.next[IF v = <<>> THEN h ELSE v[Len(v)]]
                      IN  IF c \in Entries THEN Append(v, c) ELSE v
           IsWalk(f) == f = [i \in 0 .. K |-> IF i = 0 THEN <<>> ELSE Step(f[i - 1])]
           walk == CHOOSE f : IsWalk(f)
           To(i) == IF i < n THEN i ELSE n
           Pre(i) == [j \in 1 .. To(i) |-> w[j]]
           pre == [i \in 0 .. K |-> Pre(i)]
<1>1. Visited(m, h) = walk[K]
  BY DEF Visited
<1>2. K \in Nat /\ n <= K /\ w \in [1 .. n -> Entries]
  <2>1. w \in [1 .. n -> Entries]
    BY DEF IsRing
  <2>. QED  BY <2>1, RingFits
<1>3. ASSUME NEW i \in Nat
      PROVE  Step(Pre(i)) = Pre(i + 1)
  <2> DEFINE v == Pre(i)
             c == m.next[IF v = <<>> THEN h ELSE v[Len(v)]]
  <2>1. To(i) \in 0 .. n
    OBVIOUS
  <2>2. /\ v \in Seq(Entries) /\ Len(v) = To(i) /\ (v = <<>> <=> To(i) = 0)
        /\ To(i) < n => Append(v, w[To(i) + 1]) = [j \in 1 .. To(i) + 1 |-> w[j]]
    <3> HIDE DEF To
    <3>. QED  BY <1>2, <2>1, AppendIs
  <2>3. c = Cell(h, n, w, To(i) + 1)
    <3>1. CASE To(i) = 0
      BY <2>2, <3>1, RingCells
    <3>2. CASE To(i) # 0
      <4>1. To(i) \in 1 .. n
        BY <2>1, <3>2
      <4>2. v # <<>> /\ v[Len(v)] = w[To(i)]
        BY <2>2, <4>1
      <4>3. Linking(m, h, n, w, To(i))
        BY <4>1, Neighbours
      <4> HIDE DEF v, To
      <4>. QED  BY <4>2, <4>3 DEF Linking
    <3>. QED  BY <3>1, <3>2
  <2>4. CASE i < n
    <3>1. To(i) = i /\ To(i + 1) = i + 1 /\ i + 1 \in 1 .. n
      BY <2>4
    <3>2. c = w[i + 1] /\ w[i + 1] \in Entries
      BY <1>2, <2>3, <3>1 DEF Cell
    <3>3. Append(v, w[i + 1]) = Pre(i + 1)
      BY <2>2, <2>4, <3>1
    <3> HIDE DEF v, Pre
    <3>. QED  BY <3>2, <3>3 DEF v
  <2>5. CASE ~(i < n)
    <3>1. To(i) = n /\ To(i + 1) = n
      BY <2>5
    <3>2. c \notin Entries
      BY <2>3, <3>1, ListAssumption DEF Cell
    <3>3. Pre(i + 1) = v
      BY <3>1
    <3> HIDE DEF v, Pre
    <3>. QED  BY <3>2, <3>3 DEF v
  <2>. QED  BY <2>4, <2>5
<1>4. Pre(0) = <<>> /\ Pre(K) = w
  BY <1>2
<1> HIDE DEF K, Step, Pre
<1>5. IsWalk(pre)
  <2>1. ASSUME NEW i \in 0 .. K
        PROVE  pre[i] = IF i = 0 THEN <<>> ELSE Step(pre[i - 1])
    <3>1. CASE i = 0
      BY <1>2, <1>4, <3>1
    <3>2. CASE i # 0
      <4>1. i - 1 \in Nat /\ i - 1 \in 0 .. K /\ (i - 1) + 1 = i
        BY <1>2, <3>2
      <4>2. Step(Pre(i - 1)) = Pre(i)
        BY <1>3, <4>1
      <4>. QED  BY <3>2, <4>1, <4>2
    <3>. QED  BY <3>1, <3>2
  <2>2. pre = [i \in 0 .. K |-> pre[i]]
    OBVIOUS
  <2> HIDE DEF pre
  <2>. QED  BY <2>1, <2>2
<1>6. IsWalk(walk)
  <2> HIDE DEF IsWalk
  <2>. QED  BY <1>5
<1> HIDE DEF walk, pre
<1> DEFINE S == {i \in Nat : i <= K => walk[i] = Pre(i)}
<1>7. 0 \in S
  BY <1>2, <1>4, <1>6
<1>8. ASSUME NEW i \in Nat, i \in S
      PROVE  i + 1 \in S
  <2> SUFFICES ASSUME i + 1 <= K
               PROVE  walk[i + 1] = Pre(i + 1)
    OBVIOUS
  <2>1. walk[i + 1] = Step(walk[i])
    BY <1>2, <1>6
  <2>2. walk[i] = Pre(i)
    BY <1>2, <1>8
  <2>. QED  BY <1>3, <2>1, <2>2
<1>9. walk[K] = Pre(K)
  <2>1. Nat \subseteq S
    <3> HIDE DEF S
    <3>. QED  BY <1>7, <1>8, Induction
  <2>. QED  BY <1>2, <2>1
<1>10. w \in Seq(Entries) /\ Len(w) = n
  BY <1>2
<1>. QED  BY <1>1, <1>4, <1>9, <1>10

-----------------------------------------------------------------------------
(* The rings of all buckets.                                               *)

\* The entry is in the row of a bucket.
In(c, B, n, s) == \E h \in B : \E j \in 1 .. n[h] : s[h][j] = c

\* The heads of B have the rings with the n[h] entries s[h], which share no
\* cell, and no other cell is linked.
Rows(m, B, n, s) ==
    /\ m \in Memory
    /\ n \in [B -> Nat]
    /\ \A h \in B : IsRing(m, h, n[h], s[h])
    /\ \A g, h \in B : g # h =>
         \A i \in 1 .. n[g], j \in 1 .. n[h] : s[g][i] # s[h][j]
    /\ \A c \in Cells \ B : ~In(c, B, n, s) => m.next[c] = NULL /\ m.prev[c] = NULL

\* Function f with value x at h, on B.
With(B, f, h, x) == [g \in B |-> IF g = h THEN x ELSE f[g]]

First(n, w, i) == [j \in 1 .. n + 1 |-> IF j = 1 THEN i ELSE w[j - 1]]
Without(n, w, p) == [j \in 1 .. n - 1 |-> IF j < p THEN w[j] ELSE w[j + 1]]

\* list_add leads from rows to rows.
LEMMA AddRows ==
    ASSUME NEW m, NEW B, B \subseteq Heads, NEW n, NEW s, Rows(m, B, n, s),
           NEW h \in B, NEW i \in Entries, ~In(i, B, n, s)
    PROVE  Rows(Add(m, i, h), B, With(B, n, h, n[h] + 1), With(B, s, h, First(n[h], s[h], i)))
<1> DEFINE u == Add(m, i, h)
           q == m.next[h]
           w == First(n[h], s[h], i)
           n2 == With(B, n, h, n[h] + 1)
           s2 == With(B, s, h, w)
<1>1. /\ m \in Memory /\ n \in [B -> Nat] /\ h \in Heads /\ n[h] \in Nat
      /\ \A g \in B : IsRing(m, g, n[g], s[g])
      /\ \A g \in B : \A j \in 1 .. n[g] : s[g][j] \in Entries /\ s[g][j] # i
      /\ DOMAIN m.next = Cells /\ DOMAIN m.prev = Cells
  BY DEF Rows, In, IsRing, Memory, Links
<1>2. q = h \/ (1 \in 1 .. n[h] /\ q = s[h][1])
  <2>1. q = Cell(h, n[h], s[h], 1)
    BY <1>1, RingCells
  <2>. QED  BY <2>1 DEF Cell
<1>3. q \in Cells /\ i \in Cells /\ h \in Cells /\ i \notin Heads
  BY <1>1, <1>2, ListAssumption DEF Cells
<1>4. /\ u \in Memory
      /\ \A c \in Cells : c # i /\ c # h => u.next[c] = m.next[c]
      /\ \A c \in Cells : c # i /\ c # q => u.prev[c] = m.prev[c]
  <2>1. /\ u \in Memory
        /\ u.next = [m.next EXCEPT ![i] = q, ![h] = i]
        /\ u.prev = [m.prev EXCEPT ![q] = i, ![i] = h]
    BY <1>1, <1>3, AddFields
  <2> HIDE DEF u, q
  <2>. QED  BY <1>1, <1>3, <2>1
<1>5. IsRing(u, h, n[h] + 1, w)
  BY <1>1, RingAdd DEF First
<1> HIDE DEF u, q, w
<1>6. /\ n2 \in [B -> Nat] /\ n2[h] = n[h] + 1 /\ s2[h] = w
      /\ \A g \in B : g # h => n2[g] = n[g] /\ s2[g] = s[g]
  BY <1>1 DEF With
<1>7. /\ w[1] = i /\ \A j \in 1 .. n[h] + 1 : w[j] = i \/ (j - 1 \in 1 .. n[h] /\ w[j] = s[h][j - 1])
      /\ \A j \in 1 .. n[h] : w[j + 1] = s[h][j]
  BY <1>1 DEF w, First
<1> HIDE DEF n2, s2
<1>8. ASSUME NEW g \in B, g # h
      PROVE  IsRing(u, g, n[g], s[g])
  <2>1. g \in Heads /\ g \in Cells /\ n[g] \in Nat /\ IsRing(m, g, n[g], s[g])
    BY <1>1 DEF Cells
  <2>2. g # i /\ g # h /\ g # q
    BY <1>1, <1>2, <1>3, <1>8, <2>1, ListAssumption
  <2>3. ASSUME NEW j \in 1 .. n[g]
        PROVE  s[g][j] \in Cells /\ s[g][j] # i /\ s[g][j] # h /\ s[g][j] # q
    BY <1>1, <1>2, <1>8, ListAssumption DEF Cells, Rows
  <2>. QED  BY <1>4, <2>1, <2>2, <2>3, RingKept
<1>9. \A g \in B : IsRing(u, g, n2[g], s2[g])
  BY <1>5, <1>6, <1>8
<1>10. ASSUME NEW g \in B, NEW f \in B, g # f,
              NEW x \in 1 .. n2[g], NEW y \in 1 .. n2[f]
       PROVE  s2[g][x] # s2[f][y]
  <2>1. CASE g # h /\ f # h
    BY <1>6, <1>10, <2>1 DEF Rows
  <2>2. CASE g = h
    BY <1>1, <1>6, <1>7, <1>10, <2>2 DEF Rows
  <2>3. CASE f = h
    BY <1>1, <1>6, <1>7, <1>10, <2>3 DEF Rows
  <2>. QED  BY <2>1, <2>2, <2>3
<1>11. ASSUME NEW c \in Cells \ B, ~In(c, B, n2, s2)
       PROVE  u.next[c] = NULL /\ u.prev[c] = NULL
  <2>1. c # i
    <3>1. 1 \in 1 .. n2[h] /\ s2[h][1] = i
      BY <1>1, <1>6, <1>7
    <3>. QED  BY <1>11, <3>1 DEF In
  <2>2. ~In(c, B, n, s)
    <3> SUFFICES ASSUME NEW g \in B, NEW j \in 1 .. n[g], s[g][j] = c
                 PROVE  FALSE
      BY DEF In
    <3>1. CASE g = h
      <4>1. j + 1 \in 1 .. n2[h] /\ s2[h][j + 1] = c
        BY <1>1, <1>6, <1>7, <3>1
      <4>. QED  BY <1>11, <4>1 DEF In
    <3>2. CASE g # h
      BY <1>6, <1>11, <3>2 DEF In
    <3>. QED  BY <3>1, <3>2
  <2>3. c # h /\ c # q
    BY <1>2, <2>2 DEF In
  <2>4. m.next[c] = NULL /\ m.prev[c] = NULL
    BY <2>2 DEF Rows
  <2>. QED  BY <1>4, <2>1, <2>3, <2>4
<1>. QED  BY <1>4, <1>6, <1>9, <1>10, <1>11 DEF Rows, u, w, n2, s2

\* list_del leads from rows to rows.
LEMMA DelRows ==
    ASSUME NEW m, NEW B, B \subseteq Heads, NEW n, NEW s, Rows(m, B, n, s),
           NEW h \in B, NEW p \in 1 .. n[h]
    PROVE  Rows(Del(m, s[h][p]), B, With(B, n, h, n[h] - 1), With(B, s, h, Without(n[h], s[h], p)))
<1> DEFINE e == s[h][p]
           u == Del(m, e)
           a == m.prev[e]
           b == m.next[e]
           w == Without(n[h], s[h], p)
           n2 == With(B, n, h, n[h] - 1)
           s2 == With(B, s, h, w)
<1>1. /\ m \in Memory /\ n \in [B -> Nat] /\ h \in Heads /\ n[h] \in Nat /\ n[h] - 1 \in Nat
      /\ \A g \in B : IsRing(m, g, n[g], s[g])
      /\ \A g \in B : \A j \in 1 .. n[g] : s[g][j] \in Entries
      /\ DOMAIN m.next = Cells /\ DOMAIN m.prev = Cells
  BY DEF Rows, IsRing, Memory, Links
<1>2. /\ a = Cell(h, n[h], s[h], p - 1) /\ b = Cell(h, n[h], s[h], p + 1)
      /\ e \in Entries
  <2>1. Linking(m, h, n[h], s[h], p)
    BY <1>1, Neighbours
  <2>. QED  BY <2>1 DEF Linking
<1>3. /\ a = h \/ (p - 1 \in 1 .. n[h] /\ a = s[h][p - 1])
      /\ b = h \/ (p + 1 \in 1 .. n[h] /\ b = s[h][p + 1])
  BY <1>2 DEF Cell
<1>4. a \in Cells /\ b \in Cells /\ e \in Cells /\ e \notin Heads
  BY <1>1, <1>2, <1>3, ListAssumption DEF Cells
<1>5. a # e /\ b # e
  <2>1. \A j \in 1 .. n[h] : j # p => s[h][j] # e
    BY <1>1 DEF IsRing
  <2>2. a # e
    BY <1>1, <1>3, <1>4, <2>1
  <2>3. b # e
    BY <1>1, <1>3, <1>4, <2>1
  <2>. QED  BY <2>2, <2>3
<1>6. /\ u \in Memory /\ u.next[e] = NULL /\ u.prev[e] = NULL
      /\ \A c \in Cells : c # e /\ c # a => u.next[c] = m.next[c]
      /\ \A c \in Cells : c # e /\ c # b => u.prev[c] = m.prev[c]
  <2>1. /\ u \in Memory
        /\ u.next = [m.next EXCEPT ![a] = b, ![e] = NULL]
        /\ u.prev = [m.prev EXCEPT ![b] = a, ![e] = NULL]
    BY <1>1, <1>4, DelFields
  <2> HIDE DEF u, a, b, e
  <2>. QED  BY <1>1, <1>4, <2>1
<1>7. IsRing(u, h, n[h] - 1, w)
  BY <1>1, RingDel DEF Without
<1>8. /\ \A j \in 1 .. n[h] - 1 : \E x \in 1 .. n[h] : x # p /\ w[j] = s[h][x]
      /\ \A x \in 1 .. n[h] : x # p => \E j \in 1 .. n[h] - 1 : w[j] = s[h][x]
  <2>1. ASSUME NEW j \in 1 .. n[h] - 1
        PROVE  \E x \in 1 .. n[h] : x # p /\ w[j] = s[h][x]
    <3>1. CASE j < p
      <4>1. j \in 1 .. n[h] /\ j # p /\ w[j] = s[h][j]
        BY <1>1, <3>1 DEF Without
      <4>. QED  BY <4>1
    <3>2. CASE ~(j < p)
      <4>1. j + 1 \in 1 .. n[h] /\ j + 1 # p /\ w[j] = s[h][j + 1]
        BY <1>1, <3>2 DEF Without
      <4>. QED  BY <4>1
    <3>. QED  BY <3>1, <3>2
  <2>2. ASSUME NEW x \in 1 .. n[h], x # p
        PROVE  \E j \in 1 .. n[h] - 1 : w[j] = s[h][x]
    <3>1. CASE x < p
      <4>1. x \in 1 .. n[h] - 1 /\ w[x] = s[h][x]
        BY <1>1, <3>1 DEF Without
      <4>. QED  BY <4>1
    <3>2. CASE ~(x < p)
      <4>1. x - 1 \in 1 .. n[h] - 1 /\ ~(x - 1 < p) /\ (x - 1) + 1 = x
        BY <1>1, <2>2, <3>2
      <4>2. w[x - 1] = s[h][x]
        BY <4>1 DEF Without
      <4>. QED  BY <4>1, <4>2
    <3>. QED  BY <3>1, <3>2
  <2>. QED  BY <2>1, <2>2
<1> HIDE DEF u, a, b, w, e
<1>9. /\ n2 \in [B -> Nat] /\ n2[h] = n[h] - 1 /\ s2[h] = w
      /\ \A g \in B : g # h => n2[g] = n[g] /\ s2[g] = s[g]
  BY <1>1 DEF With
<1> HIDE DEF n2, s2
<1>10. ASSUME NEW g \in B, g # h
       PROVE  IsRing(u, g, n[g], s[g])
  <2>1. g \in Heads /\ g \in Cells /\ n[g] \in Nat /\ IsRing(m, g, n[g], s[g])
    BY <1>1 DEF Cells
  <2>2. g # e /\ g # a /\ g # b
    BY <1>1, <1>3, <1>4, <1>10, <2>1, ListAssumption
  <2>3. ASSUME NEW j \in 1 .. n[g]
        PROVE  s[g][j] \in Cells /\ s[g][j] # e /\ s[g][j] # a /\ s[g][j] # b
    <3>1. s[g][j] \in Cells /\ s[g][j] # h
      BY <1>1, ListAssumption DEF Cells
    <3>2. \A x \in 1 .. n[h] : s[g][j] # s[h][x]
      BY <1>10 DEF Rows
    <3>. QED  BY <1>3, <3>1, <3>2 DEF e
  <2>. QED  BY <1>6, <2>1, <2>2, <2>3, RingKept
<1>11. \A g \in B : IsRing(u, g, n2[g], s2[g])
  BY <1>7, <1>9, <1>10
<1>12. ASSUME NEW g \in B, NEW f \in B, g # f,
              NEW x \in 1 .. n2[g], NEW y \in 1 .. n2[f]
       PROVE  s2[g][x] # s2[f][y]
  <2>1. CASE g # h /\ f # h
    BY <1>9, <1>12, <2>1 DEF Rows
  <2>2. CASE g = h
    <3>1. PICK z \in 1 .. n[h] : s2[g][x] = s[h][z]
      BY <1>8, <1>9, <2>2
    <3>2. s2[f] = s[f] /\ n2[f] = n[f]
      BY <1>9, <1>12, <2>2
    <3>. QED  BY <1>12, <2>2, <3>1, <3>2 DEF Rows
  <2>3. CASE f = h
    <3>1. PICK z \in 1 .. n[h] : s2[f][y] = s[h][z]
      BY <1>8, <1>9, <2>3
    <3>2. s2[g] = s[g] /\ n2[g] = n[g]
      BY <1>9, <1>12, <2>3
    <3>. QED  BY <1>12, <2>3, <3>1, <3>2 DEF Rows
  <2>. QED  BY <2>1, <2>2, <2>3
<1>13. ASSUME NEW c \in Cells \ B, ~In(c, B, n2, s2)
       PROVE  u.next[c] = NULL /\ u.prev[c] = NULL
  <2>1. CASE c = e
    BY <1>6, <2>1
  <2>2. CASE c # e
    <3>1. ~In(c, B, n, s)
      <4> SUFFICES ASSUME NEW g \in B, NEW j \in 1 .. n[g], s[g][j] = c
                   PROVE  FALSE
        BY DEF In
      <4>1. CASE g = h
        <5>1. j # p
          BY <2>2, <4>1 DEF e
        <5>2. PICK x \in 1 .. n2[h] : s2[h][x] = c
          BY <1>8, <1>9, <4>1, <5>1
        <5>. QED  BY <1>13, <5>2 DEF In
      <4>2. CASE g # h
        BY <1>9, <1>13, <4>2 DEF In
      <4>. QED  BY <4>1, <4>2
    <3>2. c # a /\ c # b
      BY <1>3, <3>1 DEF In
    <3>3. m.next[c] = NULL /\ m.prev[c] = NULL
      BY <3>1 DEF Rows
    <3>. QED  BY <1>6, <2>2, <3>2, <3>3
  <2>. QED  BY <2>1, <2>2
<1>. QED  BY <1>6, <1>9, <1>11, <1>12, <1>13 DEF Rows, u, w, n2, s2, e

-----------------------------------------------------------------------------
(* The mask of a hash value.                                               *)

\* One bit and half of the numbers.
Masked(g, x) ==
    [y \in Nat |-> IF x = 0 \/ y = 0 THEN 0
                   ELSE 2 * g[x \div 2][y \div 2] + (x % 2) * (y % 2)]

\* A number and its half.
LEMMA HalfLess ==
    ASSUME NEW x \in Nat
    PROVE  /\ x \div 2 \in Nat /\ x % 2 \in {0, 1} /\ 2 * (x \div 2) + (x % 2) = x
           /\ x # 0 => x \div 2 < x
<1> DEFINE d == x \div 2
           r == x % 2
<1>1. d \in Int /\ r \in 0 .. 1 /\ x = 2 * d + r
  OBVIOUS
<1> HIDE DEF d, r
<1>2. d \in Nat /\ r \in {0, 1} /\ 2 * d + r = x /\ (x # 0 => d < x)
  BY <1>1
<1>. QED  BY <1>2 DEF d, r

\* The function is masked up to n.
Masks(g, n) == \A x \in 0 .. n : g[x] \in [Nat -> Nat] /\ g[x] = Masked(g, x)

\* Masking makes natural numbers of natural numbers.
LEMMA MaskedNat ==
    ASSUME NEW g, NEW x \in Nat, x # 0 => g[x \div 2] \in [Nat -> Nat]
    PROVE  Masked(g, x) \in [Nat -> Nat]
<1> SUFFICES ASSUME NEW y \in Nat, x # 0, y # 0
             PROVE  2 * g[x \div 2][y \div 2] + (x % 2) * (y % 2) \in Nat
  BY DEF Masked
<1> DEFINE r == g[x \div 2][y \div 2]
           a == x % 2
           b == y % 2
<1>1. r \in Nat /\ a \in {0, 1} /\ b \in {0, 1}
  BY HalfLess
<1> HIDE DEF r, a, b
<1>2. a * b \in {0, 1}
  BY <1>1
<1>3. 2 * r + (a * b) \in Nat
  BY <1>1, <1>2
<1>. QED  BY <1>3 DEF r, a, b

\* A function that is masked up to n exists.
LEMMA MasksExist ==
    ASSUME NEW n \in Nat
    PROVE  \E g : Masks(g, n)
<1> DEFINE N == {i \in Nat : \E g : Masks(g, i)}
<1>1. 0 \in N
  <2> DEFINE g == [x \in 0 .. 0 |-> [y \in Nat |-> 0]]
  <2>1. Masks(g, 0)
    BY DEF Masks, Masked
  <2> HIDE DEF g
  <2>. QED  BY <2>1
<1>2. ASSUME NEW i \in Nat, i \in N
      PROVE  i + 1 \in N
  <2>1. PICK g : Masks(g, i)
    BY <1>2
  <2> DEFINE h == [x \in 0 .. i + 1 |-> IF x = i + 1 THEN Masked(g, i + 1) ELSE g[x]]
  <2>2. ASSUME NEW x \in 0 .. i + 1
        PROVE  h[x] = Masked(g, x) /\ h[x] \in [Nat -> Nat] /\ Masked(g, x) = Masked(h, x)
    <3>1. x \in Nat /\ (x # 0 => x \div 2 \in 0 .. i)
      <4>1. x # 0 => x \div 2 \in Nat /\ x \div 2 < x
        BY HalfLess
      <4> DEFINE d == x \div 2
      <4>2. x # 0 => d \in Nat /\ d < x
        BY <4>1
      <4> HIDE DEF d
      <4>3. x # 0 => d \in 0 .. i
        BY <4>2
      <4>. QED  BY <4>3 DEF d
    <3>2. x # 0 => h[x \div 2] = g[x \div 2] /\ g[x \div 2] \in [Nat -> Nat]
      <4> DEFINE d == x \div 2
      <4>1. x # 0 => d \in 0 .. i
        BY <3>1
      <4> HIDE DEF d
      <4>2. ASSUME NEW y \in 0 .. i
            PROVE  h[y] = g[y] /\ g[y] \in [Nat -> Nat]
        <5>1. y \in 0 .. i + 1 /\ y # i + 1
          OBVIOUS
        <5>2. g[y] \in [Nat -> Nat]
          BY <2>1 DEF Masks
        <5>. QED  BY <5>1, <5>2
      <4>3. x # 0 => h[d] = g[d] /\ g[d] \in [Nat -> Nat]
        BY <4>1, <4>2
      <4>. QED  BY <4>3 DEF d
    <3>3. Masked(g, x) = Masked(h, x)
      <4> HIDE DEF h
      <4>. QED  BY <3>2 DEF Masked
    <3>4. Masked(g, x) \in [Nat -> Nat]
      BY <3>1, <3>2, MaskedNat
    <3>5. h[x] = Masked(g, x)
      BY <2>1 DEF Masks
    <3>. QED  BY <3>3, <3>4, <3>5
  <2>3. Masks(h, i + 1)
    <3> HIDE DEF h
    <3>. QED  BY <2>2 DEF Masks
  <2> HIDE DEF h
  <2>. QED  BY <2>3
<1>3. n \in N
  <2> HIDE DEF N
  <2>. QED  BY <1>1, <1>2, Induction
<1>. QED  BY <1>3

\* Functions that are masked agree as far as both are.
LEMMA MasksAgree ==
    ASSUME NEW g, NEW n \in Nat, Masks(g, n), NEW h, NEW m \in Nat, Masks(h, m),
           NEW x \in Nat, x <= n, x <= m
    PROVE  g[x] = h[x]
<1> DEFINE S == {i \in Nat : i <= n /\ i <= m /\ g[i] # h[i]}
<1> SUFFICES ASSUME S # {}
             PROVE  FALSE
  OBVIOUS
<1>1. PICK i \in S : \A k \in S : i <= k
  BY LeastNumber, Zenon
<1>2. i \in Nat /\ i \in 0 .. n /\ i \in 0 .. m
  BY <1>1
<1>3. i # 0 => g[i \div 2] = h[i \div 2]
  <2> DEFINE d == i \div 2
  <2>1. i # 0 => d \in Nat /\ d < i
    BY <1>2, HalfLess
  <2> HIDE DEF d
  <2>2. i # 0 => g[d] = h[d]
    BY <1>1, <1>2, <2>1
  <2>. QED  BY <2>2 DEF d
<1>4. Masked(g, i) = Masked(h, i)
  BY <1>3 DEF Masked
<1>5. g[i] = h[i]
  BY <1>2, <1>4 DEF Masks
<1>. QED  BY <1>1, <1>5

\* The operator & is what its recursive definition says.
LEMMA BitAndMasks ==
    ASSUME NEW n \in Nat
    PROVE  Masks(BitAnd, n)
<1> DEFINE IsAnd(f) == f = [x \in Nat |-> Masked(f, x)]
           and == CHOOSE f : IsAnd(f)
           G(x) == CHOOSE g : Masks(g, x)
           f == [x \in Nat |-> G(x)[x]]
<1>1. BitAnd = and
  BY DEF BitAnd, Masked
<1>2. \A x \in Nat : Masks(G(x), x)
  BY MasksExist
<1> HIDE DEF G
<1>3. ASSUME NEW x \in Nat
      PROVE  f[x] = Masked(f, x) /\ f[x] \in [Nat -> Nat]
  <2> DEFINE d == x \div 2
  <2>1. x # 0 => d \in Nat /\ d < x
    BY HalfLess
  <2> HIDE DEF d
  <2>2. x # 0 => G(d)[d] = G(x)[d]
    BY <1>2, <2>1, MasksAgree
  <2>3. x # 0 => f[d] = G(x)[d]
    BY <2>1, <2>2
  <2>4. f[x] = G(x)[x]
    OBVIOUS
  <2> HIDE DEF f
  <2>5. Masked(G(x), x) = Masked(f, x)
    BY <2>3 DEF Masked, d
  <2>6. x \in 0 .. x
    OBVIOUS
  <2>. QED  BY <1>2, <2>4, <2>5, <2>6 DEF Masks
<1>4. IsAnd(f)
  <2>1. f = [x \in Nat |-> f[x]]
    OBVIOUS
  <2> HIDE DEF f
  <2>. QED  BY <1>3, <2>1
<1>5. IsAnd(and)
  <2> HIDE DEF f, IsAnd
  <2>. QED  BY <1>4
<1> HIDE DEF and, f
<1>6. \A x \in Nat : and[x] = Masked(and, x)
  BY <1>5
<1> DEFINE S == {x \in Nat : and[x] \notin [Nat -> Nat]}
<1>7. S = {}
  <2> SUFFICES ASSUME S # {}
               PROVE  FALSE
    OBVIOUS
  <2>1. PICK i \in S : \A k \in S : i <= k
    BY LeastNumber, Zenon
  <2> DEFINE d == i \div 2
  <2>2. i # 0 => d \in Nat /\ d < i
    BY HalfLess
  <2> HIDE DEF d
  <2>3. i # 0 => and[d] \in [Nat -> Nat]
    BY <2>1, <2>2
  <2>4. and[i] \in [Nat -> Nat]
    BY <1>6, <2>3, MaskedNat DEF d
  <2>. QED  BY <2>1, <2>4
<1>. QED  BY <1>1, <1>6, <1>7 DEF Masks

\* What masks y is at most y.
LEMMA MaskBelow ==
    ASSUME NEW x \in Nat, NEW y \in Nat
    PROVE  BitAnd[x][y] \in 0 .. y
<1> DEFINE and == BitAnd
           S == {i \in Nat : \E j \in Nat : and[i][j] \notin 0 .. j}
<1>1. \A i \in Nat : Masks(and, i)
  BY BitAndMasks
<1> HIDE DEF and
<1> SUFFICES ASSUME S # {}
             PROVE  FALSE
  BY DEF and
<1>2. PICK i \in S : \A k \in S : i <= k
  BY LeastNumber, Zenon
<1>3. PICK j \in Nat : and[i][j] \notin 0 .. j
  BY <1>2
<1>4. i \in 0 .. i /\ i \in Nat
  BY <1>2
<1>5. and[i] = Masked(and, i)
  BY <1>1, <1>4 DEF Masks
<1>6. i # 0 /\ j # 0 /\ and[i][j] = 2 * and[i \div 2][j \div 2] + (i % 2) * (j % 2)
  BY <1>3, <1>5 DEF Masked
<1> DEFINE d == i \div 2
           e == j \div 2
           a == i % 2
           b == j % 2
           r == and[d][e]
<1>7. d \in Nat /\ d < i /\ e \in Nat /\ 2 * e + b = j /\ a \in {0, 1} /\ b \in {0, 1}
  BY <1>3, <1>4, <1>6, HalfLess
<1>8. and[i][j] = 2 * r + (a * b)
  BY <1>6
<1> HIDE DEF d, e, a, b
<1>9. r \in 0 .. e
  BY <1>2, <1>7
<1> HIDE DEF r
<1>10. a * b \in 0 .. b
  BY <1>7
<1>11. 2 * r + (a * b) \in 0 .. 2 * e + b
  BY <1>7, <1>9, <1>10
<1>. QED  BY <1>3, <1>7, <1>8, <1>11

\* The rows of all buckets are sound rings of the heads and the entries in them.
LEMMA RowsSound ==
    ASSUME NEW m, NEW B, B \subseteq Heads, NEW n, NEW s, Rows(m, B, n, s)
    PROVE  Rings(m, B \cup {c \in Entries : In(c, B, n, s)})
<1> DEFINE L == B \cup {c \in Entries : In(c, B, n, s)}
<1>1. /\ m \in Memory /\ n \in [B -> Nat]
      /\ \A h \in B : IsRing(m, h, n[h], s[h])
  BY DEF Rows
<1>2. \A h \in B : \A j \in 1 .. n[h] : s[h][j] \in L
  BY <1>1 DEF IsRing, In
<1>3. ASSUME NEW h \in B, NEW j \in Int
      PROVE  Cell(h, n[h], s[h], j) \in L
  BY <1>2, <1>3 DEF Cell
<1>4. ASSUME NEW c \in L
      PROVE  \E h \in B : \E j \in 1 .. n[h] + 1 :
                 c = Cell(h, n[h], s[h], j) /\ c = Cell(h, n[h], s[h], IF j = n[h] + 1 THEN 0 ELSE j)
  <2>1. CASE c \in B
    <3>1. n[c] + 1 \in 1 .. n[c] + 1 /\ Cell(c, n[c], s[c], n[c] + 1) = c /\ Cell(c, n[c], s[c], 0) = c
      BY <1>1, <2>1 DEF Cell
    <3>. QED  BY <2>1, <3>1
  <2>2. CASE c \notin B
    <3>0. PICK h \in B : \E j \in 1 .. n[h] : s[h][j] = c
      BY <2>2 DEF In
    <3>1. PICK j \in 1 .. n[h] : s[h][j] = c
      BY <3>0
    <3>2. n[h] \in Nat
      BY <1>1
    <3>3. j \in 1 .. n[h] + 1 /\ j # n[h] + 1 /\ Cell(h, n[h], s[h], j) = c
      BY <3>1, <3>2 DEF Cell
    <3>. QED  BY <3>3
  <2>. QED  BY <2>1, <2>2
<1>5. ASSUME NEW c \in L
      PROVE  /\ m.next[c] \in L /\ m.prev[c] \in L
             /\ m.prev[m.next[c]] = c /\ m.next[m.prev[c]] = c
  <2>0. PICK h \in B : \E j \in 1 .. n[h] + 1 :
                 c = Cell(h, n[h], s[h], j) /\ c = Cell(h, n[h], s[h], IF j = n[h] + 1 THEN 0 ELSE j)
    BY <1>4
  <2>1. PICK j \in 1 .. n[h] + 1 :
                 c = Cell(h, n[h], s[h], j) /\ c = Cell(h, n[h], s[h], IF j = n[h] + 1 THEN 0 ELSE j)
    BY <2>0
  <2> DEFINE k == IF j = n[h] + 1 THEN 0 ELSE j
             C(x) == Cell(h, n[h], s[h], x)
  <2>2. n[h] \in Nat
    BY <1>1
  <2>3. /\ j - 1 \in 0 .. n[h] /\ (j - 1) + 1 = j
        /\ k \in 0 .. n[h] /\ k + 1 \in Int /\ j - 1 \in Int
    BY <2>2
  <2>4. \A x \in 0 .. n[h] : m.next[C(x)] = C(x + 1) /\ m.prev[C(x + 1)] = C(x)
    BY <1>1 DEF IsRing
  <2>5. C(j - 1) \in L /\ C(k + 1) \in L
    BY <1>3, <2>3
  <2>6. c = C(j) /\ c = C(k)
    BY <2>1
  <2> HIDE DEF C, k
  <2>. QED  BY <2>3, <2>4, <2>5, <2>6
<1>6. ASSUME NEW c \in Cells \ L
      PROVE  m.next[c] = NULL /\ m.prev[c] = NULL
  <2>1. c \in Cells \ B /\ ~In(c, B, n, s)
    BY <1>1 DEF In, IsRing
  <2>. QED  BY <2>1 DEF Rows
<1>. QED  BY <1>1, <1>5, <1>6 DEF Rings, Memory, Links

-----------------------------------------------------------------------------
(* The table.                                                              *)

\* The items of the rows are items that were put, each in the row of its key.
Filed(n, s) ==
    \A h \in 0 .. bucket - 1 : \A j \in 1 .. n[h] :
        s[h][j] \in heap /\ Index(item[s[h][j]].key) = h

HashType ==
    /\ bucket \in 1 .. MaxBuckets
    /\ heap \subseteq Entries
    /\ item = [i \in Entries |-> item[i]]
    /\ \A i \in heap : item[i] \in [key : Keys, val : Vals]

Table(n, s) == Rows(mem, 0 .. bucket - 1, n, s) /\ Filed(n, s)

HashInv == HashType /\ \E n, s : Table(n, s)

\* The buckets of a table are heads, and every key has one.
LEMMA Buckets ==
    ASSUME bucket \in 1 .. MaxBuckets
    PROVE  /\ 0 .. bucket - 1 \subseteq Heads
           /\ \A k \in Keys : Index(k) \in 0 .. bucket - 1
<1>1. 0 .. bucket - 1 \subseteq Heads
  BY HashAssumption
<1>2. ASSUME NEW k \in Keys
      PROVE  Index(k) \in 0 .. bucket - 1
  <2>1. KHash[k] \in Nat /\ bucket - 1 \in Nat
    BY HashAssumption
  <2>. QED  BY <2>1, MaskBelow DEF Index
<1>. QED  BY <1>1, <1>2

\* A new table has empty rows.
LEMMA HashInit ==
    ASSUME Init
    PROVE  HashInv
<1> DEFINE B == 0 .. bucket - 1
           n == [h \in B |-> 0]
           s == [h \in B |-> [j \in 1 .. 0 |-> h]]
<1>1. bucket \in 1 .. MaxBuckets
  <2>1. PICK r \in Requested : bucket = Clamp(r)
    BY DEF Init
  <2>. QED  BY <2>1, HashAssumption DEF Clamp
<1>2. B \subseteq Cells
  BY <1>1, HashAssumption DEF Cells
<1>3. /\ mem \in Memory
      /\ \A c \in Cells : /\ mem.next[c] = IF c \in B THEN c ELSE NULL
                          /\ mem.prev[c] = IF c \in B THEN c ELSE NULL
  BY <1>2 DEF Init, InitHeads, Unlinked, Memory, Links
<1>4. n \in [B -> Nat]
  OBVIOUS
<1>5. ASSUME NEW h \in B
      PROVE  IsRing(mem, h, n[h], s[h])
  <2>1. n[h] = 0 /\ s[h] \in [1 .. 0 -> Entries]
    OBVIOUS
  <2>2. mem.next[h] = h /\ mem.prev[h] = h
    BY <1>2, <1>3
  <2> HIDE DEF n, s
  <2>. QED  BY <2>1, <2>2 DEF IsRing, Cell
<1>6. Rows(mem, B, n, s)
  <2>1. \A h \in B : 1 .. n[h] = {}
    OBVIOUS
  <2> HIDE DEF B, n, s
  <2>. QED  BY <1>3, <1>4, <1>5, <2>1 DEF Rows
<1>7. Filed(n, s)
  BY DEF Filed
<1>8. Table(n, s)
  BY <1>6, <1>7 DEF Table
<1>9. HashType
  BY <1>1 DEF Init, HashType
<1>. QED  BY <1>8, <1>9 DEF HashInv

\* A put leads from rows to rows: the new item is the first in the row of its key.
LEMMA PutTable ==
    ASSUME HashType, NEW n, NEW s, Table(n, s), NEW k \in Keys, NEW v \in Vals,
           NEW i \in Entries \ heap,
           heap' = heap \cup {i},
           item' = [item EXCEPT ![i] = [key |-> k, val |-> v]],
           mem' = Add(mem, i, Index(k)), bucket' = bucket,
           NEW n2, n2 = With(0 .. bucket - 1, n, Index(k), n[Index(k)] + 1),
           NEW s2, s2 = With(0 .. bucket - 1, s, Index(k), First(n[Index(k)], s[Index(k)], i))
    PROVE  HashType' /\ Table(n2, s2)'
<1> DEFINE B == 0 .. bucket - 1
           h == Index(k)
<1>1. /\ B \subseteq Heads /\ h \in B /\ Rows(mem, B, n, s) /\ Filed(n, s)
      /\ \A x : Index(x)' = Index(x)
  BY Buckets DEF HashType, Table, Index
<1>2. /\ n \in [B -> Nat] /\ \A g \in B : \A j \in 1 .. n[g] : s[g][j] \in heap
  BY <1>1 DEF Rows, Filed
<1>3. ~In(i, B, n, s)
  BY <1>2 DEF In
<1>4. Rows(mem', B, n2, s2)
  BY <1>1, <1>3, AddRows
<1>5. /\ item'[i] = [key |-> k, val |-> v]
      /\ \A j \in heap : item'[j] = item[j] /\ item[j].key \in Keys
      /\ item' = [j \in Entries |-> item'[j]]
  BY DEF HashType
<1>6. /\ n2[h] = n[h] + 1 /\ s2[h] = First(n[h], s[h], i)
      /\ \A g \in B : g # h => n2[g] = n[g] /\ s2[g] = s[g]
  BY <1>1 DEF With
<1>7. /\ First(n[h], s[h], i)[1] = i
      /\ \A j \in 1 .. n[h] + 1 : j # 1 => /\ j - 1 \in 1 .. n[h]
                                          /\ First(n[h], s[h], i)[j] = s[h][j - 1]
  BY <1>1, <1>2 DEF First
<1> HIDE DEF B, h
<1>8. ASSUME NEW g \in B, NEW j \in 1 .. n2[g]
      PROVE  s2[g][j] \in heap' /\ Index(item'[s2[g][j]].key) = g
  <2>1. CASE g # h
    <3>1. j \in 1 .. n[g] /\ s2[g][j] = s[g][j] /\ s[g][j] \in heap
      BY <1>2, <1>6, <2>1
    <3>2. Index(item[s[g][j]].key) = g
      BY <1>1, <3>1 DEF Filed, B
    <3>. QED  BY <1>1, <1>5, <3>1, <3>2
  <2>2. CASE g = h /\ j = 1
    BY <1>1, <1>5, <1>6, <1>7, <2>2 DEF h
  <2>3. CASE g = h /\ j # 1
    <3>1. j - 1 \in 1 .. n[h] /\ s2[g][j] = s[h][j - 1] /\ s[h][j - 1] \in heap
      BY <1>1, <1>2, <1>6, <1>7, <2>3
    <3>2. Index(item[s[h][j - 1]].key) = h
      BY <1>1, <3>1 DEF Filed, B
    <3>. QED  BY <1>1, <1>5, <2>3, <3>1, <3>2
  <2>. QED  BY <2>1, <2>2, <2>3
<1>9. HashType'
  BY <1>5 DEF HashType
<1>10. Filed(n2, s2)'
  <2>1. ASSUME NEW g \in (0 .. bucket - 1)', NEW j \in 1 .. n2[g]
        PROVE  s2[g][j] \in heap' /\ BitAnd[KHash[item'[s2[g][j]].key]][bucket' - 1] = g
    <3>1. g \in B
      BY DEF B
    <3>. QED  BY <1>8, <3>1, Zenon DEF Index
  <2>. QED  BY <2>1, Zenon DEF Filed, Index
<1>. QED  BY <1>4, <1>9, <1>10 DEF Table, B

\* What a key finds: nothing if no item of its row has it, and else the first.
Finds(k, h, n, w) ==
    \/ /\ \A j \in 1 .. n : item[w[j]].key # k
       /\ Match(k) = NULL
    \/ \E p \in 1 .. n : /\ item[w[p]].key = k
                         /\ \A j \in 1 .. p - 1 : item[w[j]].key # k
                         /\ Match(k) = w[p] /\ w[p] \in heap

\* The walk of hash_get and hash_del finds the first item of the key.
LEMMA MatchFinds ==
    ASSUME HashType, NEW n, NEW s, Table(n, s), NEW k \in Keys
    PROVE  Finds(k, Index(k), n[Index(k)], s[Index(k)])
<1> DEFINE h == Index(k)
           w == s[h]
           N == n[h]
           S == {i \in 1 .. N : item[w[i]].key = k}
<1>1. /\ h \in 0 .. bucket - 1 /\ h \in Heads /\ N \in Nat
      /\ IsRing(mem, h, N, w) /\ \A j \in 1 .. N : w[j] \in heap
  BY Buckets DEF HashType, Table, Rows, Filed
<1>2. Visited(mem, h) = w /\ w \in Seq(Entries) /\ Len(w) = N
  BY <1>1, VisitsRing
<1>3. DOMAIN w = 1 .. N
  BY <1>2
<1>4. Match(k) = IF S = {} THEN NULL ELSE w[CHOOSE i \in S : \A j \in S : i <= j]
  BY <1>2, <1>3 DEF Match
<1> HIDE DEF w, N, h
<1>5. CASE S = {}
  BY <1>4, <1>5 DEF Finds, h, w, N
<1>6. CASE S # {}
  <2>1. \E i \in S : \A j \in S : i <= j
    <3>1. S \subseteq Nat
      BY <1>1
    <3> HIDE DEF S
    <3>. QED  BY <1>6, <3>1, LeastNumber, Zenon
  <2> DEFINE p == CHOOSE i \in S : \A j \in S : i <= j
  <2>2. p \in S /\ \A j \in S : p <= j
    BY <2>1
  <2>3. Match(k) = w[p]
    BY <1>4, <1>6
  <2> HIDE DEF p
  <2>4. p \in 1 .. N /\ item[w[p]].key = k /\ \A j \in 1 .. p - 1 : item[w[j]].key # k
    <3>1. ASSUME NEW j \in 1 .. p - 1, item[w[j]].key = k
          PROVE  FALSE
      <4>1. j \in 1 .. N /\ j < p /\ p \in Nat
        BY <1>1, <2>2
      <4>2. j \in S
        BY <3>1, <4>1
      <4>. QED  BY <2>2, <4>1, <4>2
    <3>. QED  BY <2>2, <3>1
  <2>. QED  BY <1>1, <2>3, <2>4 DEF Finds, h, w, N
<1>. QED  BY <1>5, <1>6

\* A deletion leads from rows to rows: the p-th item of a row leaves it.
LEMMA DeleteTable ==
    ASSUME HashType, NEW n, NEW s, Table(n, s), NEW h \in 0 .. bucket - 1, NEW p \in 1 .. n[h],
           mem' = Del(mem, s[h][p]), UNCHANGED <<bucket, item, heap>>,
           NEW n2, n2 = With(0 .. bucket - 1, n, h, n[h] - 1),
           NEW s2, s2 = With(0 .. bucket - 1, s, h, Without(n[h], s[h], p))
    PROVE  HashType' /\ Table(n2, s2)'
<1> DEFINE B == 0 .. bucket - 1
<1>1. /\ B \subseteq Heads /\ Rows(mem, B, n, s) /\ Filed(n, s)
      /\ \A x : Index(x)' = Index(x)
  BY Buckets DEF HashType, Table, Index
<1>2. n \in [B -> Nat] /\ n[h] \in Nat
  BY <1>1 DEF Rows
<1>3. Rows(mem', B, n2, s2)
  BY <1>1, DelRows
<1>4. /\ n2[h] = n[h] - 1 /\ s2[h] = Without(n[h], s[h], p)
      /\ \A g \in B : g # h => n2[g] = n[g] /\ s2[g] = s[g]
  BY DEF With
<1> HIDE DEF B
<1>5. ASSUME NEW g \in B, NEW j \in 1 .. n2[g]
      PROVE  \E x \in 1 .. n[g] : s2[g][j] = s[g][x]
  <2>1. CASE g # h
    BY <1>4, <2>1
  <2>2. CASE g = h
    <3>1. /\ j \in 1 .. n[h] - 1
          /\ s2[g][j] = IF j < p THEN s[h][j] ELSE s[h][j + 1]
      BY <1>4, <2>2 DEF Without
    <3>2. j \in 1 .. n[h] /\ j + 1 \in 1 .. n[h]
      BY <1>2, <3>1
    <3>. QED  BY <2>2, <3>1, <3>2
  <2>. QED  BY <2>1, <2>2
<1>6. Filed(n2, s2)'
  <2>1. \A g \in B : \A j \in 1 .. n[g] : s[g][j] \in heap /\ Index(item[s[g][j]].key) = g
    BY <1>1 DEF Filed, B
  <2>2. ASSUME NEW g \in B, NEW j \in 1 .. n2[g]
        PROVE  s2[g][j] \in heap' /\ Index(item'[s2[g][j]].key) = g
    <3>1. PICK x \in 1 .. n[g] : s2[g][j] = s[g][x]
      BY <1>5
    <3>. QED  BY <1>1, <2>1, <3>1
  <2>3. ASSUME NEW g \in (0 .. bucket - 1)', NEW j \in 1 .. n2[g]
        PROVE  s2[g][j] \in heap' /\ BitAnd[KHash[item'[s2[g][j]].key]][bucket' - 1] = g
    <3>1. g \in B
      BY <1>1 DEF B
    <3> HIDE DEF B
    <3>2. Index(item'[s2[g][j]].key) = g /\ bucket' = bucket
      BY <1>1, <2>2, <3>1, Zenon
    <3>3. s2[g][j] \in heap'
      BY <2>2, <3>1, Zenon
    <3>. QED  BY <3>2, <3>3, Zenon DEF Index
  <2>. QED  BY <2>3, Zenon DEF Filed, Index
<1>7. HashType'
  BY DEF HashType
<1>. QED  BY <1>3, <1>6, <1>7 DEF Table, B

\* A table nobody writes stays as it is.
LEMMA SameTable ==
    ASSUME NEW n, NEW s, HashType, Table(n, s), UNCHANGED <<bucket, mem, item, heap>>
    PROVE  HashType' /\ Table(n, s)'
<1>1. HashType'
  BY DEF HashType
<1>2. Rows(mem, 0 .. bucket - 1, n, s)'
  BY DEF Table
<1>3. Filed(n, s)'
  BY DEF Table, Filed, Index
<1>. QED  BY <1>1, <1>2, <1>3 DEF Table

\* Every call keeps the table.
LEMMA HashStep ==
    ASSUME HashInv, [Next]_vars
    PROVE  HashInv'
<1> USE DEF HashInv
<1>1. PICK n, s : Table(n, s)
  OBVIOUS
<1>2. ASSUME NEW k \in Keys, Get(k)
      PROVE  HashInv'
  <2>1. UNCHANGED <<bucket, mem, item, heap>>
    BY <1>2 DEF Get
  <2>2. HashType' /\ Table(n, s)'
    BY <1>1, <2>1, SameTable
  <2>. QED  BY <2>2
<1>3. ASSUME NEW k \in Keys, NEW v \in Vals, Put(k, v)
      PROVE  HashInv'
  <2> DEFINE B == 0 .. bucket - 1
             h == Index(k)
  <2>1. PICK i \in Entries \ heap :
             /\ heap' = heap \cup {i}
             /\ item' = [item EXCEPT ![i] = [key |-> k, val |-> v]]
             /\ mem' = Add(mem, i, h)
    BY <1>3 DEF Put
  <2> DEFINE n2 == With(B, n, h, n[h] + 1)
             s2 == With(B, s, h, First(n[h], s[h], i))
  <2>2. bucket' = bucket
    BY <1>3 DEF Put
  <2>3. \E n3, s3 : n3 = n2 /\ s3 = s2
    OBVIOUS
  <2>4. PICK n3, s3 : n3 = n2 /\ s3 = s2
    BY <2>3
  <2>5. HashType' /\ Table(n3, s3)'
    BY <1>1, <2>1, <2>2, <2>4, PutTable
  <2>. QED  BY <2>5
<1>4. ASSUME NEW k \in Keys, Delete(k)
      PROVE  HashInv'
  <2> DEFINE B == 0 .. bucket - 1
             h == Index(k)
  <2>1. /\ h \in B /\ UNCHANGED <<bucket, item, heap>>
        /\ mem' = IF Match(k) = NULL THEN mem ELSE Del(mem, Match(k))
    BY <1>4, Buckets DEF HashType, Delete
  <2>2. CASE Match(k) = NULL
    <3>1. UNCHANGED <<bucket, mem, item, heap>>
      BY <2>1, <2>2
    <3>2. HashType' /\ Table(n, s)'
      BY <1>1, <3>1, SameTable
    <3>. QED  BY <3>2
  <2>3. CASE Match(k) # NULL
    <3>1. PICK p \in 1 .. n[h] : Match(k) = s[h][p]
      BY <1>1, <2>3, MatchFinds DEF Finds
    <3> DEFINE n2 == With(B, n, h, n[h] - 1)
               s2 == With(B, s, h, Without(n[h], s[h], p))
    <3>2. PICK n3, s3 : n3 = n2 /\ s3 = s2
      OBVIOUS
    <3>3. mem' = Del(mem, s[h][p])
      BY <2>1, <2>3, <3>1
    <3> HIDE DEF h
    <3>4. HashType' /\ Table(n3, s3)'
      <4>1. HashType /\ Table(n, s) /\ h \in B
        BY <1>1, <2>1 DEF HashType
      <4>2. UNCHANGED <<bucket, item, heap>>
        BY <2>1
      <4>. QED  BY <3>2, <3>3, <4>1, <4>2, DeleteTable
    <3>. QED  BY <3>4
  <2>. QED  BY <2>2, <2>3
<1>5. CASE UNCHANGED vars
  BY <1>1, <1>5 DEF vars, HashType, Table, Filed, Index
<1>. QED  BY <1>2, <1>3, <1>4, <1>5 DEF Next

\* The rings are those of the rows.
LEMMA TableSound ==
    ASSUME HashInv
    PROVE  RingsSound
<1>1. PICK n, s : Table(n, s)
  BY DEF HashInv
<1> DEFINE B == 0 .. bucket - 1
<1>2. B \subseteq Heads /\ Rows(mem, B, n, s)
  BY <1>1, Buckets DEF HashInv, HashType, Table
<1>3. Rings(mem, B \cup {c \in Entries : In(c, B, n, s)})
  BY <1>2, RowsSound
<1>4. ASSUME NEW c \in Entries
      PROVE  In(c, B, n, s) <=> c \in heap /\ mem.next[c] # NULL
  <2>1. c \in Cells \ B /\ NULL \notin Cells
    BY <1>2, ListAssumption DEF Cells
  <2>2. ASSUME In(c, B, n, s)
        PROVE  c \in heap /\ mem.next[c] # NULL
    <3>1. PICK h \in B : \E j \in 1 .. n[h] : s[h][j] = c
      BY <2>2 DEF In
    <3>2. PICK j \in 1 .. n[h] : s[h][j] = c
      BY <3>1
    <3>3. IsRing(mem, h, n[h], s[h]) /\ n[h] \in Nat /\ h \in Heads
      BY <1>2 DEF Rows
    <3>4. mem.next[c] = Cell(h, n[h], s[h], j + 1)
      BY <3>2, <3>3, Neighbours DEF Linking
    <3>5. mem.next[c] \in Cells
      <4>1. j + 1 \in Int
        BY <3>3
      <4>. QED  BY <3>3, <3>4, <4>1, RingCells
    <3>. QED  BY <1>1, <2>1, <3>2, <3>5 DEF Table, Filed
  <2>3. ASSUME ~In(c, B, n, s)
        PROVE  mem.next[c] = NULL
    BY <1>2, <2>1, <2>3 DEF Rows
  <2>. QED  BY <2>2, <2>3
<1>5. Linked = B \cup {c \in Entries : In(c, B, n, s)}
  BY <1>4 DEF Linked, HashInv, HashType
<1>. QED  BY <1>3, <1>5 DEF RingsSound

\* After any mix of puts and deletions the bucket lists are sound rings,
\* forwards and backwards, whatever the size of the table.
THEOREM BucketRings == Spec => []RingsSound
<1>1. Spec => []HashInv
  <2>1. Init => HashInv
    BY HashInit
  <2>2. HashInv /\ [Next]_vars => HashInv'
    BY HashStep
  <2>. QED  BY <2>1, <2>2, PTL DEF Spec
<1>2. HashInv => RingsSound
  BY TableSound
<1>. QED  BY <1>1, <1>2, PTL

-----------------------------------------------------------------------------
(* The values of a key.                                                    *)

\* t puts f[1], f[2], ... one in front of the other.
Stacked(t, n, f) ==
    /\ t[0] = <<>>
    /\ \A j \in 0 .. n : t[j] \in Seq(Vals)
    /\ \A j \in 1 .. n : t[j] = f[j] \o t[j - 1]

\* What the items w of a row, from the last one on, add to the stack of k.
Share(it, k, i) == IF it[i].key = k THEN <<it[i].val>> ELSE <<>>
Shares(it, k, n, w) == [j \in 1 .. n |-> Share(it, k, w[n + 1 - j])]

\* The recursion that StackOf makes over the N items of the row w, and what it
\* makes of the row that LIST_FOR comes by.
IsLast(t, it, k, N, w) ==
    t = [j \in 0 .. N |-> IF j = 0 THEN <<>>
                          ELSE Share(it, k, w[N + 1 - j]) \o t[j - 1]]
Last(it, k, N, w) == CHOOSE t : IsLast(t, it, k, N, w)
Stack(m, it, h, k) ==
    LET w == Visited(m, h) IN Last(it, k, Len(w), w)[Len(w)]

\* The values of a key are those of the row it is in.
LEMMA StackOfIs ==
    ASSUME NEW k
    PROVE  /\ StackOf(k) = Stack(mem, item, Index(k), k)
           /\ StackOf(k)' = Stack(mem', item', Index(k)', k)
  BY Zenon DEF StackOf, Stack, Last, IsLast, Share

\* The row w of the ring of h has items with keys and values.
Row(m, it, h, N, w) ==
    /\ N \in Nat /\ IsRing(m, h, N, w)
    /\ \A j \in 1 .. N : it[w[j]] \in [key : Keys, val : Vals]

\* A row of items stacks up what each has for the key, from the last one on.
LEMMA StackIs ==
    ASSUME NEW m, NEW it, NEW h \in Heads, NEW N, NEW w, Row(m, it, h, N, w), NEW k
    PROVE  \E t : Stacked(t, N, Shares(it, k, N, w)) /\ Stack(m, it, h, k) = t[N]
<1> DEFINE f == Shares(it, k, N, w)
           V == Seq(Vals)
           last == Last(it, k, N, w)
<1>1. N \in Nat /\ IsRing(m, h, N, w)
  BY DEF Row
<1>2. Visited(m, h) = w /\ Len(w) = N
  BY <1>1, VisitsRing
<1>3. ASSUME NEW j \in 1 .. N
      PROVE  f[j] = Share(it, k, w[N + 1 - j]) /\ f[j] \in V
  <2>1. N + 1 - j \in 1 .. N
    BY <1>1
  <2>2. it[w[N + 1 - j]] \in [key : Keys, val : Vals]
    BY <2>1 DEF Row
  <2>3. f[j] = Share(it, k, w[N + 1 - j])
    BY DEF Shares
  <2>. QED  BY <2>2, <2>3 DEF Share
<1>4. Stack(m, it, h, k) = last[N]
  BY <1>2, Zenon DEF Stack
<1> HIDE DEF f
<1>5. ASSUME NEW t, IsLast(t, it, k, N, w)
      PROVE  /\ t = [j \in 0 .. N |-> t[j]] /\ t[0] = <<>>
             /\ \A j \in 1 .. N : t[j] = f[j] \o t[j - 1]
  <2>1. \A j \in 0 .. N : t[j] = IF j = 0 THEN <<>> ELSE Share(it, k, w[N + 1 - j]) \o t[j - 1]
    BY <1>5 DEF IsLast
  <2>2. t[0] = <<>>
    BY <1>1, <2>1
  <2>3. ASSUME NEW j \in 1 .. N
        PROVE  t[j] = f[j] \o t[j - 1]
    <3>1. j \in 0 .. N /\ j # 0
      BY <1>1
    <3>2. t[j] = Share(it, k, w[N + 1 - j]) \o t[j - 1]
      BY <2>1, <3>1
    <3>. QED  BY <1>3, <3>2
  <2>4. t = [j \in 0 .. N |-> t[j]]
    BY <1>5 DEF IsLast
  <2>. QED  BY <2>2, <2>3, <2>4
<1> DEFINE G == [j \in Nat |-> [q \in V |-> IF j + 1 \in 1 .. N THEN f[j + 1] \o q ELSE q]]
<1>6. G \in [Nat -> [V -> V]]
  <2>1. ASSUME NEW j \in Nat, NEW q \in V
        PROVE  (IF j + 1 \in 1 .. N THEN f[j + 1] \o q ELSE q) \in V
    BY <1>3
  <2> HIDE DEF V
  <2>. QED  BY <2>1
<1>7. <<>> \in V
  OBVIOUS
<1>8. ASSUME NEW j \in 1 .. N, NEW q \in V
      PROVE  G[j - 1][q] = f[j] \o q
  <2>1. j - 1 \in Nat /\ (j - 1) + 1 = j
    BY <1>1
  <2> HIDE DEF V
  <2>. QED  BY <2>1
<1> HIDE DEF G, V
<1>9. \E t : IsLast(t, it, k, N, w)
  <2>1. PICK t : Runs(t, <<>>, G, N, V)
    BY <1>1, <1>6, <1>7, Iterated
  <2>2. /\ t \in [0 .. N -> V] /\ t[0] = <<>>
        /\ \A j \in 1 .. N : t[j] = G[j - 1][t[j - 1]]
    BY <2>1 DEF Runs
  <2>3. ASSUME NEW j \in 0 .. N
        PROVE  t[j] = IF j = 0 THEN <<>> ELSE Share(it, k, w[N + 1 - j]) \o t[j - 1]
    <3>1. CASE j = 0
      BY <2>2, <3>1
    <3>2. CASE j # 0
      <4>1. j \in 1 .. N /\ j - 1 \in 0 .. N
        BY <1>1, <3>2
      <4>2. t[j] = f[j] \o t[j - 1]
        BY <1>8, <2>2, <4>1
      <4>. QED  BY <1>3, <3>2, <4>1, <4>2
    <3>. QED  BY <3>1, <3>2
  <2>. QED  BY <2>2, <2>3 DEF IsLast
<1>10. IsLast(last, it, k, N, w)
  BY <1>9, Zenon DEF Last
<1> HIDE DEF last
<1>11. Runs(last, <<>>, G, N, V)
  <2>1. /\ last = [j \in 0 .. N |-> last[j]] /\ last[0] = <<>>
        /\ \A j \in 1 .. N : last[j] = f[j] \o last[j - 1]
    BY <1>5, <1>10
  <2>2. \A j \in 1 .. N : last[j - 1] \in V => last[j] = G[j - 1][last[j - 1]]
    BY <1>8, <2>1
  <2>. QED  BY <1>1, <1>6, <1>7, <2>1, <2>2, Recursion
<1>12. \A j \in 0 .. N : last[j] \in V
  BY <1>11 DEF Runs
<1>13. Stacked(last, N, f)
  <2>1. last[0] = <<>> /\ \A j \in 1 .. N : last[j] = f[j] \o last[j - 1]
    BY <1>5, <1>10
  <2>. QED  BY <1>12, <2>1 DEF Stacked, V
<1>. QED  BY <1>4, <1>13 DEF f

\* From where two stacks are the same they stay so as long as they get the same.
Agree(t, u, a, b, c) == t[a + c] = u[b + c]
Same(f, g, a, b, c) == \A x \in 1 .. c : f[a + x] = g[b + x]

\* Two stacks that are the same and get the same stay the same.
LEMMA StacksAgree ==
    ASSUME NEW t, NEW n \in Nat, NEW f, Stacked(t, n, f),
           NEW u, NEW m \in Nat, NEW g, Stacked(u, m, g),
           NEW a \in Nat, NEW b \in Nat, NEW c \in Nat, a + c <= n, b + c <= m,
           t[a] = u[b], Same(f, g, a, b, c)
    PROVE  Agree(t, u, a, b, c)
<1> DEFINE S == {x \in Nat : x <= c => t[a + x] = u[b + x]}
<1>1. 0 \in S
  <2>1. a + 0 = a /\ b + 0 = b
    OBVIOUS
  <2>. QED  BY <2>1
<1>2. ASSUME NEW x \in Nat, x \in S
      PROVE  x + 1 \in S
  <2> SUFFICES ASSUME x + 1 <= c
               PROVE  t[a + (x + 1)] = u[b + (x + 1)]
    OBVIOUS
  <2>1. /\ x + 1 \in 1 .. c /\ a + (x + 1) \in 1 .. n /\ b + (x + 1) \in 1 .. m
        /\ (a + (x + 1)) - 1 = a + x /\ (b + (x + 1)) - 1 = b + x
    OBVIOUS
  <2>2. t[a + x] = u[b + x]
    BY <1>2
  <2> DEFINE p == a + (x + 1)
             q == b + (x + 1)
  <2>3. f[p] = g[q]
    BY <2>1 DEF Same
  <2>4. p \in 1 .. n /\ q \in 1 .. m /\ t[p - 1] = u[q - 1]
    BY <2>1, <2>2
  <2> HIDE DEF p, q
  <2>5. t[p] = u[q]
    BY <2>3, <2>4 DEF Stacked
  <2>. QED  BY <2>5 DEF p, q
<1>3. c \in S
  <2> HIDE DEF S
  <2>. QED  BY <1>1, <1>2, Induction
<1>. QED  BY <1>3 DEF Agree

\* A stack that gets nothing stays.
LEMMA StackStays ==
    ASSUME NEW t, NEW n \in Nat, NEW f, Stacked(t, n, f),
           NEW a \in Nat, NEW b \in Nat, a <= b, b <= n,
           \A j \in a + 1 .. b : f[j] = <<>>
    PROVE  t[b] = t[a]
<1> DEFINE S == {x \in Nat : a <= x /\ x <= b => t[x] = t[a]}
<1>1. 0 \in S
  OBVIOUS
<1>2. ASSUME NEW x \in Nat, x \in S
      PROVE  x + 1 \in S
  <2> SUFFICES ASSUME a <= x + 1, x + 1 <= b
               PROVE  t[x + 1] = t[a]
    OBVIOUS
  <2>1. CASE a = x + 1
    BY <2>1
  <2>2. CASE a # x + 1
    <3>1. x + 1 \in a + 1 .. b /\ x + 1 \in 1 .. n /\ (x + 1) - 1 = x /\ x \in 0 .. n /\ a <= x /\ x <= b
      BY <2>2
    <3>2. t[x] = t[a] /\ t[x + 1] = <<>> \o t[x] /\ t[x] \in Seq(Vals)
      BY <1>2, <3>1 DEF Stacked
    <3>3. t[x + 1] = t[x]
      BY <3>2
    <3>. QED  BY <3>2, <3>3
  <2>. QED  BY <2>1, <2>2
<1>3. b \in S
  <2> HIDE DEF S
  <2>. QED  BY <1>1, <1>2, Induction
<1>. QED  BY <1>3

\* A put in front adds what the new item has for the key.
RowPut(m, it, u, it2, h, N, w, i) ==
    /\ h \in Heads /\ Row(m, it, h, N, w) /\ Row(u, it2, h, N + 1, First(N, w, i))
    /\ \A j \in 1 .. N : it2[w[j]] = it[w[j]]

\* A put in front adds what the new item has for a key.
LEMMA StackAdd ==
    ASSUME NEW m, NEW it, NEW u, NEW it2, NEW h, NEW N, NEW w, NEW i,
           RowPut(m, it, u, it2, h, N, w, i), NEW k
    PROVE  Stack(u, it2, h, k) = Share(it2, k, i) \o Stack(m, it, h, k)
<1> DEFINE v == First(N, w, i)
           f == Shares(it, k, N, w)
           g == Shares(it2, k, N + 1, v)
<1>0. /\ Row(m, it, h, N, w) /\ Row(u, it2, h, N + 1, v) /\ h \in Heads
      /\ \A j \in 1 .. N : it2[w[j]] = it[w[j]]
  BY DEF RowPut
<1>1. N \in Nat /\ N + 1 \in Nat
  BY <1>0 DEF Row
<1>2. PICK t : Stacked(t, N, f) /\ Stack(m, it, h, k) = t[N]
  BY <1>0, StackIs
<1>3. PICK r : Stacked(r, N + 1, g) /\ Stack(u, it2, h, k) = r[N + 1]
  BY <1>0, StackIs
<1>4. ASSUME NEW x \in 1 .. N
      PROVE  f[x] = g[x]
  <2>1. /\ N + 1 - x \in 1 .. N /\ (N + 1) + 1 - x \in 1 .. N + 1
        /\ (N + 1) + 1 - x # 1 /\ ((N + 1) + 1 - x) - 1 = N + 1 - x /\ x \in 1 .. N + 1
    BY <1>1
  <2>2. v[(N + 1) + 1 - x] = w[N + 1 - x]
    BY <2>1 DEF First
  <2>3. f[x] = Share(it, k, w[N + 1 - x]) /\ g[x] = Share(it2, k, v[(N + 1) + 1 - x])
    BY <2>1 DEF Shares
  <2>. QED  BY <1>0, <2>1, <2>2, <2>3 DEF Share
<1>5. g[N + 1] = Share(it2, k, i)
  <2>1. (N + 1) + 1 - (N + 1) = 1 /\ N + 1 \in 1 .. N + 1 /\ 1 \in 1 .. N + 1
    BY <1>1
  <2>2. v[1] = i
    BY <2>1 DEF First
  <2>3. g[N + 1] = Share(it2, k, v[(N + 1) + 1 - (N + 1)])
    BY <2>1 DEF Shares
  <2>. QED  BY <2>1, <2>2, <2>3
<1> HIDE DEF f, g, v
<1>6. Agree(t, r, 0, 0, N)
  <2>1. t[0] = r[0] /\ Same(f, g, 0, 0, N)
    BY <1>2, <1>3, <1>4 DEF Stacked, Same
  <2>2. 0 + N <= N /\ 0 + N <= N + 1
    BY <1>1
  <2>. QED  BY <1>1, <1>2, <1>3, <2>1, <2>2, StacksAgree
<1>7. r[N + 1] = g[N + 1] \o r[N]
  <2>1. N + 1 \in 1 .. N + 1 /\ (N + 1) - 1 = N
    BY <1>1
  <2>. QED  BY <1>3, <2>1 DEF Stacked
<1>8. 0 + N = N
  BY <1>1
<1>. QED  BY <1>2, <1>3, <1>5, <1>6, <1>7, <1>8 DEF Agree

\* A row that stays has the same stacks.
LEMMA StackKept ==
    ASSUME NEW m, NEW it, NEW u, NEW it2, NEW h \in Heads, NEW N, NEW w,
           Row(m, it, h, N, w), Row(u, it2, h, N, w),
           \A j \in 1 .. N : it2[w[j]] = it[w[j]], NEW k
    PROVE  Stack(u, it2, h, k) = Stack(m, it, h, k)
<1>1. N \in Nat
  BY DEF Row
<1>2. PICK t : Stacked(t, N, Shares(it, k, N, w)) /\ Stack(m, it, h, k) = t[N]
  BY StackIs
<1>3. PICK r : Stacked(r, N, Shares(it2, k, N, w)) /\ Stack(u, it2, h, k) = r[N]
  BY StackIs
<1>4. \A x \in 1 .. N : Shares(it, k, N, w)[x] = Shares(it2, k, N, w)[x]
  <2>1. ASSUME NEW x \in 1 .. N
        PROVE  Shares(it, k, N, w)[x] = Shares(it2, k, N, w)[x]
    <3>1. N + 1 - x \in 1 .. N
      BY <1>1
    <3>. QED  BY <3>1 DEF Shares, Share
  <2>. QED  BY <2>1
<1> DEFINE f == Shares(it, k, N, w)
           g == Shares(it2, k, N, w)
<1> HIDE DEF f, g
<1>5. Agree(t, r, 0, 0, N)
  <2>1. t[0] = r[0] /\ Same(f, g, 0, 0, N)
    BY <1>2, <1>3, <1>4 DEF Stacked, Same, f, g
  <2>2. 0 + N <= N
    BY <1>1
  <2>. QED  BY <1>1, <1>2, <1>3, <2>1, <2>2, StacksAgree DEF f, g
<1>6. 0 + N = N
  BY <1>1
<1>. QED  BY <1>2, <1>3, <1>5, <1>6 DEF Agree

\* Taking the p-th item out takes away what it has for a key: it was in front
\* of that key's stack if the items before it have nothing for the key.
RowDel(m, it, u, h, N, w, p) ==
    /\ h \in Heads /\ p \in 1 .. N
    /\ Row(m, it, h, N, w) /\ Row(u, it, h, N - 1, Without(N, w, p))

\* Taking an item out takes away what it has for a key.
LEMMA StackDel ==
    ASSUME NEW m, NEW it, NEW u, NEW h, NEW N, NEW w, NEW p,
           RowDel(m, it, u, h, N, w, p), NEW k
    PROVE  /\ (\A j \in 1 .. p - 1 : Share(it, k, w[j]) = <<>>)
                => Stack(m, it, h, k) = Share(it, k, w[p]) \o Stack(u, it, h, k)
           /\ Share(it, k, w[p]) = <<>> => Stack(u, it, h, k) = Stack(m, it, h, k)
<1> DEFINE M == N - 1
           v == Without(N, w, p)
           f == Shares(it, k, N, w)
           g == Shares(it, k, N - 1, v)
           a == N - p
<1>0. /\ h \in Heads /\ p \in 1 .. N
      /\ Row(m, it, h, N, w) /\ Row(u, it, h, N - 1, v)
  BY DEF RowDel
<1>1. /\ N \in Nat /\ N - 1 \in Nat /\ a \in Nat /\ a + 1 \in Nat /\ p \in Nat /\ p - 1 \in Nat
      /\ a <= N - 1 /\ a <= N /\ a + 1 <= N
      /\ a + 1 \in 1 .. N /\ (a + 1) - 1 = a /\ a \in 0 .. N
      /\ (a + 1) + (p - 1) = N /\ a + (p - 1) = N - 1
  BY <1>0 DEF Row
<1>2. PICK t : Stacked(t, N, f) /\ Stack(m, it, h, k) = t[N]
  BY <1>0, StackIs
<1>3. PICK r : Stacked(r, N - 1, g) /\ Stack(u, it, h, k) = r[N - 1]
  BY <1>0, StackIs
<1>4. /\ \A x \in 1 .. N : f[x] = Share(it, k, w[N + 1 - x])
      /\ \A x \in 1 .. N - 1 : g[x] = Share(it, k, v[(N - 1) + 1 - x])
      /\ \A j \in 1 .. N - 1 : v[j] = IF j < p THEN w[j] ELSE w[j + 1]
  BY DEF Shares, Without
<1> HIDE DEF f, g, v
<1>5. ASSUME NEW x \in 1 .. a
      PROVE  f[0 + x] = g[0 + x]
  <2>1. /\ x \in 1 .. N /\ x \in 1 .. N - 1 /\ 0 + x = x
        /\ (N - 1) + 1 - x \in 1 .. N - 1 /\ ~((N - 1) + 1 - x < p)
        /\ ((N - 1) + 1 - x) + 1 = N + 1 - x
    BY <1>1
  <2>2. v[(N - 1) + 1 - x] = w[N + 1 - x]
    BY <1>4, <2>1
  <2>. QED  BY <1>4, <2>1, <2>2
<1>6. ASSUME NEW x \in 1 .. p - 1
      PROVE  /\ f[(a + 1) + x] = Share(it, k, w[p - x]) /\ g[a + x] = Share(it, k, w[p - x])
             /\ p - x \in 1 .. p - 1
  <2>1. /\ (a + 1) + x \in 1 .. N /\ a + x \in 1 .. N - 1
        /\ N + 1 - ((a + 1) + x) = p - x /\ (N - 1) + 1 - (a + x) = p - x
        /\ p - x \in 1 .. N - 1 /\ p - x < p /\ p - x \in 1 .. p - 1
    BY <1>1
  <2> DEFINE y == (a + 1) + x
             z == a + x
             q == p - x
  <2>2. /\ y \in 1 .. N /\ z \in 1 .. N - 1 /\ q \in 1 .. N - 1 /\ q < p
        /\ N + 1 - y = q /\ (N - 1) + 1 - z = q /\ q \in 1 .. p - 1
    BY <2>1
  <2> HIDE DEF y, z, q
  <2>3. f[y] = Share(it, k, w[q]) /\ g[z] = Share(it, k, v[q]) /\ v[q] = w[q]
    BY <1>4, <2>2
  <2>. QED  BY <2>2, <2>3 DEF y, z, q
<1>7. f[a + 1] = Share(it, k, w[p])
  <2>1. N + 1 - (a + 1) = p
    BY <1>1
  <2>. QED  BY <1>1, <1>4, <2>1
<1>20. M \in Nat /\ a <= M /\ a + (p - 1) = M /\ Stacked(r, M, g)
  BY <1>1, <1>3
<1> HIDE DEF a, M
<1>8. t[a] = r[a]
  <2>1. t[0] = r[0]
    BY <1>2, <1>3 DEF Stacked
  <2>2. 0 + a = a /\ 0 \in Nat /\ 0 + a <= N /\ 0 + a <= M
    BY <1>1, <1>20
  <2>3. Same(f, g, 0, 0, a)
    BY <1>5 DEF Same
  <2>4. Agree(t, r, 0, 0, a)
    BY <1>1, <1>2, <1>20, <2>1, <2>2, <2>3, StacksAgree
  <2>. QED  BY <2>2, <2>4 DEF Agree
<1>9. t[a + 1] = Share(it, k, w[p]) \o t[a] /\ t[a] \in Seq(Vals)
  BY <1>1, <1>2, <1>7 DEF Stacked
<1>10. ASSUME Share(it, k, w[p]) = <<>>
       PROVE  r[N - 1] = t[N]
  <2>1. t[a + 1] = r[a]
    BY <1>8, <1>9, <1>10
  <2>2. \A x \in 1 .. p - 1 : f[(a + 1) + x] = g[a + x]
    BY <1>6
  <2>3. t[(a + 1) + (p - 1)] = r[a + (p - 1)]
    <3> DEFINE b == a + 1
               c == p - 1
    <3>1. b \in Nat /\ c \in Nat /\ b + c <= N /\ a + c <= M
      BY <1>1, <1>20
    <3>2. t[b] = r[a] /\ Same(f, g, b, a, c)
      BY <2>1, <2>2 DEF Same
    <3> HIDE DEF b, c
    <3>3. Agree(t, r, b, a, c)
      BY <1>1, <1>2, <1>20, <3>1, <3>2, StacksAgree
    <3>. QED  BY <3>3 DEF b, c, Agree
  <2>. QED  BY <1>1, <2>3
<1>11. ASSUME \A j \in 1 .. p - 1 : Share(it, k, w[j]) = <<>>
       PROVE  t[N] = Share(it, k, w[p]) \o r[N - 1]
  <2>1. ASSUME NEW j \in (a + 1) + 1 .. N
        PROVE  f[j] = <<>>
    <3>1. j - (a + 1) \in 1 .. p - 1 /\ (a + 1) + (j - (a + 1)) = j
      BY <1>1
    <3> DEFINE x == j - (a + 1)
    <3>2. x \in 1 .. p - 1 /\ (a + 1) + x = j
      BY <3>1
    <3> HIDE DEF x
    <3>. QED  BY <1>6, <1>11, <3>2
  <2>2. ASSUME NEW j \in a + 1 .. N - 1
        PROVE  g[j] = <<>>
    <3> DEFINE x == j - a
    <3>1. x \in 1 .. p - 1 /\ a + x = j
      BY <1>1
    <3> HIDE DEF x
    <3>. QED  BY <1>6, <1>11, <3>1
  <2>3. t[N] = t[a + 1]
    <3> DEFINE b == a + 1
    <3>1. b \in Nat /\ b <= N /\ N <= N /\ \A j \in b + 1 .. N : f[j] = <<>>
      BY <1>1, <2>1
    <3> HIDE DEF b
    <3>2. t[N] = t[b]
      BY <1>1, <1>2, <3>1, StackStays
    <3>. QED  BY <3>2 DEF b
  <2>4. r[N - 1] = r[a]
    <3> DEFINE b == N - 1
    <3>1. b \in Nat /\ a <= b /\ b <= b /\ \A j \in a + 1 .. b : g[j] = <<>>
      BY <1>1, <2>2
    <3>2. Stacked(r, b, g)
      BY <1>3
    <3> HIDE DEF b
    <3>3. r[b] = r[a]
      BY <1>1, <3>1, <3>2, StackStays
    <3>. QED  BY <3>3 DEF b
  <2>. QED  BY <1>8, <1>9, <2>3, <2>4
<1>. QED  BY <1>2, <1>3, <1>10, <1>11

-----------------------------------------------------------------------------
(* The table is a stack of values per key.                                 *)

\* The row of a bucket has typed items.
LEMMA TableRow ==
    ASSUME NEW n, NEW s
    PROVE  /\ HashType /\ Table(n, s) =>
                \A h \in 0 .. bucket - 1 : Row(mem, item, h, n[h], s[h])
           /\ HashType' /\ Table(n, s)' =>
                \A h \in 0 .. bucket' - 1 : Row(mem', item', h, n[h], s[h])
<1>1. ASSUME HashType, Table(n, s), NEW h \in 0 .. bucket - 1
      PROVE  Row(mem, item, h, n[h], s[h])
  BY <1>1 DEF HashType, Table, Filed, Rows, Row
<1>2. ASSUME HashType', Table(n, s)', NEW h \in 0 .. bucket' - 1
      PROVE  Row(mem', item', h, n[h], s[h])
  BY <1>2 DEF HashType, Table, Filed, Rows, Row
<1>. QED  BY <1>1, <1>2

\* A bucket that keeps its row keeps its stacks.
LEMMA StackOther ==
    ASSUME HashType, HashType', NEW n, NEW s, Table(n, s), NEW n2, NEW s2, Table(n2, s2)',
           bucket' = bucket, NEW k \in Keys,
           n2[Index(k)] = n[Index(k)], s2[Index(k)] = s[Index(k)],
           \A i \in heap : item'[i] = item[i]
    PROVE  StackOf(k)' = StackOf(k)
<1> DEFINE h == Index(k)
           w == s[h]
           N == n[h]
<1>1. h \in 0 .. bucket - 1 /\ h \in Heads /\ h \in 0 .. bucket' - 1 /\ Index(k)' = h
  BY Buckets DEF HashType, Index
<1>2. Row(mem, item, h, N, w) /\ Row(mem', item', h, N, w)
  BY <1>1, TableRow
<1>3. \A j \in 1 .. N : item'[w[j]] = item[w[j]]
  BY <1>1 DEF Table, Filed
<1> HIDE DEF h, w, N
<1>4. Stack(mem', item', h, k) = Stack(mem, item, h, k)
  BY <1>1, <1>2, <1>3, StackKept
<1>5. StackOf(k) = Stack(mem, item, h, k) /\ StackOf(k)' = Stack(mem', item', h, k)
  BY <1>1, StackOfIs, Zenon DEF h
<1>. QED  BY <1>4, <1>5

\* A put puts its value in front of the values of its key.
LEMMA PutStacks ==
    ASSUME HashInv, NEW k \in Keys, NEW v \in Vals, Put(k, v)
    PROVE  /\ StackOf(k)' = <<v>> \o StackOf(k)
           /\ \A g \in Keys : g # k => StackOf(g)' = StackOf(g)
<1> DEFINE B == 0 .. bucket - 1
           h == Index(k)
<1>1. PICK n, s : Table(n, s)
  BY DEF HashInv
<1>2. PICK i \in Entries \ heap :
           /\ heap' = heap \cup {i}
           /\ item' = [item EXCEPT ![i] = [key |-> k, val |-> v]]
           /\ mem' = Add(mem, i, h)
  BY DEF Put
<1>3. bucket' = bucket /\ HashType
  BY DEF Put, HashInv
<1> DEFINE m == With(B, n, h, n[h] + 1)
           r == With(B, s, h, First(n[h], s[h], i))
<1>4. PICK n2, s2 : n2 = m /\ s2 = r
  OBVIOUS
<1>5. HashType' /\ Table(n2, s2)'
  BY <1>1, <1>2, <1>3, <1>4, PutTable
<1>6. /\ h \in B /\ h \in Heads /\ h \in 0 .. bucket' - 1
      /\ \A g \in Keys : Index(g) \in B /\ Index(g)' = Index(g)
  BY <1>3, Buckets DEF HashType, Index
<1>7. /\ n2[h] = n[h] + 1 /\ s2[h] = First(n[h], s[h], i)
      /\ \A g \in B : g # h => n2[g] = n[g] /\ s2[g] = s[g]
  BY <1>4, <1>6 DEF With
<1>8. item'[i] = [key |-> k, val |-> v] /\ \A j \in heap : item'[j] = item[j]
  BY <1>2, <1>3 DEF HashType
<1> HIDE DEF m, r
<1>9. /\ Row(mem, item, h, n[h], s[h])
      /\ Row(mem', item', h, n[h] + 1, First(n[h], s[h], i))
  BY <1>1, <1>3, <1>5, <1>6, <1>7, TableRow
<1>10. \A j \in 1 .. n[h] : item'[s[h][j]] = item[s[h][j]]
  BY <1>1, <1>6, <1>8 DEF Table, Filed
<1> HIDE DEF h, B
<1>11. \A g : Stack(mem', item', h, g) = Share(item', g, i) \o Stack(mem, item, h, g)
  <2> DEFINE N == n[h]
             w == s[h]
             it == item'
             u == mem'
  <2>1. RowPut(mem, item, u, it, h, N, w, i)
    BY <1>6, <1>9, <1>10 DEF RowPut
  <2> HIDE DEF N, w, it, u
  <2>2. \A g : Stack(u, it, h, g) = Share(it, g, i) \o Stack(mem, item, h, g)
    BY <2>1, StackAdd
  <2>. QED  BY <2>2 DEF it, u
<1>12. ASSUME NEW g \in Keys, Index(g) = h
       PROVE  /\ StackOf(g)' = Share(item', g, i) \o StackOf(g)
              /\ StackOf(g) \in Seq(Vals)
  <2>1. StackOf(g) = Stack(mem, item, h, g) /\ StackOf(g)' = Stack(mem', item', h, g)
    BY <1>6, <1>12, StackOfIs, Zenon
  <2>2. PICK t : Stacked(t, n[h], Shares(item, g, n[h], s[h])) /\ Stack(mem, item, h, g) = t[n[h]]
    BY <1>6, <1>9, StackIs
  <2>3. n[h] \in 0 .. n[h]
    BY <1>9 DEF Row
  <2>. QED  BY <1>11, <2>1, <2>2, <2>3 DEF Stacked
<1>13. StackOf(k)' = <<v>> \o StackOf(k)
  <2>1. Share(item', k, i) = <<v>>
    BY <1>8 DEF Share
  <2>. QED  BY <1>12, <2>1 DEF h
<1>14. ASSUME NEW g \in Keys, g # k
       PROVE  StackOf(g)' = StackOf(g)
  <2>1. CASE Index(g) = h
    <3>1. Share(item', g, i) = <<>>
      BY <1>8, <1>14 DEF Share
    <3>2. StackOf(g)' = <<>> \o StackOf(g) /\ StackOf(g) \in Seq(Vals)
      BY <1>12, <2>1, <3>1
    <3>. QED  BY <3>2
  <2>2. CASE Index(g) # h
    <3>1. n2[Index(g)] = n[Index(g)] /\ s2[Index(g)] = s[Index(g)]
      BY <1>6, <1>7, <2>2
    <3>. QED  BY <1>1, <1>3, <1>5, <1>8, <3>1, StackOther
  <2>. QED  BY <2>1, <2>2
<1>. QED  BY <1>13, <1>14

\* A deletion takes the latest value of its key away.
LEMMA DeleteStacks ==
    ASSUME HashInv, NEW k \in Keys, Delete(k), Match(k) # NULL
    PROVE  /\ StackOf(k) = <<ValOf(Match(k))>> \o StackOf(k)'
           /\ StackOf(k)' \in Seq(Vals)
           /\ \A g \in Keys : g # k => StackOf(g)' = StackOf(g)
<1> DEFINE B == 0 .. bucket - 1
           h == Index(k)
<1>1. PICK n, s : Table(n, s)
  BY DEF HashInv
<1>2. HashType /\ UNCHANGED <<bucket, item, heap>> /\ mem' = Del(mem, Match(k))
  BY DEF Delete, HashInv
<1>3. PICK p \in 1 .. n[h] : /\ item[s[h][p]].key = k
                             /\ \A j \in 1 .. p - 1 : item[s[h][j]].key # k
                             /\ Match(k) = s[h][p]
  BY <1>1, <1>2, MatchFinds DEF Finds
<1> DEFINE m == With(B, n, h, n[h] - 1)
           r == With(B, s, h, Without(n[h], s[h], p))
<1>4. PICK n2, s2 : n2 = m /\ s2 = r
  OBVIOUS
<1>5. /\ h \in B /\ h \in Heads /\ h \in 0 .. bucket' - 1
      /\ \A g \in Keys : Index(g) \in B /\ Index(g)' = Index(g)
  BY <1>2, Buckets DEF HashType, Index
<1>6. HashType' /\ Table(n2, s2)'
  <2>1. mem' = Del(mem, s[h][p])
    BY <1>2, <1>3
  <2> HIDE DEF h
  <2>. QED  BY <1>1, <1>2, <1>4, <1>5, <2>1, DeleteTable
<1>7. /\ n2[h] = n[h] - 1 /\ s2[h] = Without(n[h], s[h], p)
      /\ \A g \in B : g # h => n2[g] = n[g] /\ s2[g] = s[g]
  BY <1>4, <1>5 DEF With
<1> HIDE DEF m, r
<1>8. /\ Row(mem, item, h, n[h], s[h])
      /\ Row(mem', item, h, n[h] - 1, Without(n[h], s[h], p))
  BY <1>1, <1>2, <1>5, <1>6, <1>7, TableRow
<1> HIDE DEF h, B
<1>9. ASSUME NEW g
      PROVE  /\ (\A j \in 1 .. p - 1 : Share(item, g, s[h][j]) = <<>>)
                  => Stack(mem, item, h, g) = Share(item, g, s[h][p]) \o Stack(mem', item, h, g)
             /\ Share(item, g, s[h][p]) = <<>> => Stack(mem', item, h, g) = Stack(mem, item, h, g)
  <2> DEFINE N == n[h]
             w == s[h]
             u == mem'
  <2>1. RowDel(mem, item, u, h, N, w, p)
    BY <1>5, <1>8 DEF RowDel
  <2> HIDE DEF N, w, u
  <2>2. /\ (\A j \in 1 .. p - 1 : Share(item, g, w[j]) = <<>>)
                  => Stack(mem, item, h, g) = Share(item, g, w[p]) \o Stack(u, item, h, g)
        /\ Share(item, g, w[p]) = <<>> => Stack(u, item, h, g) = Stack(mem, item, h, g)
    BY <2>1, StackDel
  <2>. QED  BY <2>2 DEF w, u
<1>10. ASSUME NEW g \in Keys, Index(g) = h
       PROVE  StackOf(g) = Stack(mem, item, h, g) /\ StackOf(g)' = Stack(mem', item, h, g)
  BY <1>2, <1>5, <1>10, StackOfIs, Zenon
<1>11. StackOf(k) = <<ValOf(Match(k))>> \o StackOf(k)'
  <2>1. Match(k) # NULL /\ ValOf(Match(k)) = item[s[h][p]].val
    BY <1>3 DEF ValOf
  <2>2. Share(item, k, s[h][p]) = <<ValOf(Match(k))>>
    BY <1>3, <2>1 DEF Share
  <2>3. \A j \in 1 .. p - 1 : Share(item, k, s[h][j]) = <<>>
    BY <1>3 DEF Share
  <2>4. Stack(mem, item, h, k) = Share(item, k, s[h][p]) \o Stack(mem', item, h, k)
    BY <1>9, <2>3
  <2>. QED  BY <1>10, <2>2, <2>4 DEF h
<1>12. StackOf(k)' \in Seq(Vals)
  <2> DEFINE N == n[h] - 1
             w == Without(n[h], s[h], p)
  <2>1. Row(mem', item, h, N, w)
    BY <1>8
  <2> HIDE DEF N, w
  <2>2. PICK t : Stacked(t, N, Shares(item, k, N, w)) /\ Stack(mem', item, h, k) = t[N]
    BY <1>5, <2>1, StackIs
  <2>3. N \in 0 .. N
    BY <2>1 DEF Row
  <2>. QED  BY <1>10, <2>2, <2>3 DEF Stacked, h
<1>13. ASSUME NEW g \in Keys, g # k
       PROVE  StackOf(g)' = StackOf(g)
  <2>1. CASE Index(g) = h
    <3>1. Share(item, g, s[h][p]) = <<>>
      BY <1>3, <1>13 DEF Share
    <3>. QED  BY <1>9, <1>10, <2>1, <3>1
  <2>2. CASE Index(g) # h
    <3>1. \A i \in heap : item'[i] = item[i]
      BY <1>2
    <3>2. n2[Index(g)] = n[Index(g)] /\ s2[Index(g)] = s[Index(g)]
      BY <1>5, <1>7, <2>2
    <3>3. bucket' = bucket
      BY <1>2
    <3>. QED  BY <1>1, <1>2, <1>6, <3>1, <3>2, <3>3, StackOther
  <2>. QED  BY <2>1, <2>2
<1>. QED  BY <1>11, <1>12, <1>13

\* What is found is the head of the stack, and nothing if there is none.
LEMMA FoundIsLatest ==
    ASSUME HashInv, NEW k \in Keys
    PROVE  /\ ValOf(Match(k)) = Abs!Latest(k)
           /\ Match(k) = NULL <=> StackOf(k) = <<>>
           /\ StackOf(k) \in Seq(Vals)
<1> DEFINE h == Index(k)
<1>1. PICK n, s : Table(n, s)
  BY DEF HashInv
<1>2. HashType
  BY DEF HashInv
<1>3. h \in 0 .. bucket - 1 /\ h \in Heads
  BY <1>2, Buckets DEF HashType
<1>4. Row(mem, item, h, n[h], s[h])
  BY <1>1, <1>2, <1>3, TableRow
<1> DEFINE N == n[h]
           w == s[h]
           f == Shares(item, k, N, w)
<1>5. N \in Nat /\ \A j \in 1 .. N : item[w[j]] \in [key : Keys, val : Vals]
  BY <1>4 DEF Row
<1>6. Finds(k, h, N, w)
  BY <1>1, <1>2, MatchFinds
<1> HIDE DEF h, N, w
<1>7. PICK t : Stacked(t, N, f) /\ Stack(mem, item, h, k) = t[N]
  BY <1>3, <1>4, StackIs DEF N, w
<1>8. StackOf(k) = t[N] /\ StackOf(k) \in Seq(Vals)
  <2>1. StackOf(k) = Stack(mem, item, h, k)
    BY StackOfIs, Zenon DEF h
  <2>2. N \in 0 .. N
    BY <1>5
  <2>. QED  BY <1>7, <2>1, <2>2 DEF Stacked
<1>9. \A j \in 1 .. N : f[j] = Share(item, k, w[N + 1 - j])
  BY DEF Shares
<1> HIDE DEF f
<1>10. Abs!Latest(k) = IF StackOf(k) = <<>> THEN NULL ELSE Head(StackOf(k))
  BY DEF Abs!Latest
<1>11. CASE /\ \A j \in 1 .. N : item[w[j]].key # k
            /\ Match(k) = NULL
  <2>1. ASSUME NEW j \in 0 + 1 .. N
        PROVE  f[j] = <<>>
    <3>1. j \in 1 .. N /\ N + 1 - j \in 1 .. N
      BY <1>5
    <3>. QED  BY <1>9, <1>11, <3>1 DEF Share
  <2>2. t[N] = t[0]
    <3>1. 0 \in Nat /\ 0 <= N /\ N <= N
      BY <1>5
    <3>. QED  BY <1>5, <1>7, <2>1, <3>1, StackStays
  <2>3. StackOf(k) = <<>>
    BY <1>7, <1>8, <2>2 DEF Stacked
  <2>. QED  BY <1>8, <1>10, <1>11, <2>3 DEF ValOf
<1>12. ASSUME NEW p \in 1 .. N, item[w[p]].key = k,
              \A j \in 1 .. p - 1 : item[w[j]].key # k,
              Match(k) = w[p], w[p] \in heap
       PROVE  /\ ValOf(Match(k)) = Abs!Latest(k)
              /\ Match(k) # NULL /\ StackOf(k) # <<>>
  <2> DEFINE b == N + 1 - p
             x == item[w[p]].val
  <2>1. /\ b \in Nat /\ b \in 1 .. N /\ b <= N /\ N <= N /\ N + 1 - b = p
        /\ \A j \in b + 1 .. N : j \in 1 .. N /\ N + 1 - j \in 1 .. p - 1
    BY <1>5
  <2>2. f[b] = <<x>>
    BY <1>9, <1>12, <2>1 DEF Share
  <2> HIDE DEF b
  <2>3. ASSUME NEW j \in b + 1 .. N
        PROVE  f[j] = <<>>
    BY <1>9, <1>12, <2>1 DEF Share
  <2>4. t[N] = t[b]
    BY <1>5, <1>7, <2>1, <2>3, StackStays
  <2>5. x \in Vals /\ Match(k) # NULL
    BY <1>2, <1>5, <1>12, ListAssumption DEF HashType, Cells
  <2>6. b - 1 \in 0 .. N
    BY <1>5, <2>1
  <2> HIDE DEF x
  <2>7. StackOf(k) = <<x>> \o t[b - 1] /\ t[b - 1] \in Seq(Vals)
    BY <1>7, <1>8, <2>1, <2>2, <2>4, <2>6 DEF Stacked
  <2>8. StackOf(k) # <<>> /\ Head(StackOf(k)) = x
    BY <2>5, <2>7
  <2>9. ValOf(Match(k)) = x
    BY <1>12, <2>5 DEF ValOf, x
  <2>. QED  BY <1>10, <2>5, <2>8, <2>9
<1>. QED  BY <1>6, <1>8, <1>11, <1>12 DEF Finds

\* A new table has no values.
LEMMA InitStacks ==
    ASSUME Init
    PROVE  Abs!Init
<1>1. HashInv
  BY HashInit
<1>2. ASSUME NEW k \in Keys
      PROVE  StackOf(k) = <<>>
  <2>1. PICK n, s : Table(n, s)
    BY <1>1 DEF HashInv
  <2>2. Finds(k, Index(k), n[Index(k)], s[Index(k)])
    BY <1>1, <2>1, MatchFinds DEF HashInv
  <2>3. Match(k) \in heap \/ Match(k) = NULL
    BY <2>2 DEF Finds
  <2>4. Match(k) = NULL
    BY <2>3 DEF Init
  <2>. QED  BY <1>1, <2>4, FoundIsLatest
<1>. QED  BY <1>2 DEF Init, Abs!Init

\* A call of the table is a call of the map or changes nothing.
LEMMA AbsStep ==
    ASSUME HashInv, HashInv', [Next]_vars
    PROVE  [Abs!Next]_(<<[k \in Keys |-> StackOf(k)], ret>>)
<1> DEFINE st == [k \in Keys |-> StackOf(k)]
<1>0. st' = [k \in Keys |-> StackOf(k)']
  OBVIOUS
<1>1. ASSUME UNCHANGED <<bucket, mem, item, heap>>
      PROVE  st' = st
  <2>1. \A k : StackOf(k)' = StackOf(k)
    <3>1. ASSUME NEW k
          PROVE  StackOf(k)' = StackOf(k)
      <4>1. Index(k)' = Index(k)
        BY <1>1 DEF Index
      <4>. QED  BY <1>1, <4>1, StackOfIs, Zenon
    <3>. QED  BY <3>1
  <2> HIDE DEF st
  <2>. QED  BY <1>0, <2>1, Zenon DEF st
<1>2. ASSUME NEW k \in Keys, Get(k)
      PROVE  Abs!Get(k)
  <2>1. st' = st
    BY <1>1, <1>2 DEF Get
  <2>2. ret' = Abs!Latest(k)
    BY <1>2, FoundIsLatest DEF Get
  <2>. QED  BY <2>1, <2>2, Zenon DEF Abs!Get
<1>3. ASSUME NEW k \in Keys, NEW v \in Vals, Put(k, v)
      PROVE  Abs!Put(k, v)
  <2>1. StackOf(k)' = <<v>> \o StackOf(k) /\ \A g \in Keys : g # k => StackOf(g)' = StackOf(g)
    BY <1>3, PutStacks
  <2>2. st' = [st EXCEPT ![k] = <<v>> \o @]
    BY <1>0, <2>1
  <2>3. ret' = NULL
    BY <1>3 DEF Put
  <2>. QED  BY <2>2, <2>3 DEF Abs!Put
<1>4. ASSUME NEW k \in Keys, Delete(k)
      PROVE  Abs!Del(k)
  <2>1. ret' = Abs!Latest(k)
    BY <1>4, FoundIsLatest DEF Delete
  <2>2. st' = [st EXCEPT ![k] = IF @ = <<>> THEN @ ELSE Tail(@)]
    <3>1. CASE Match(k) = NULL
      <4>1. st' = st
        BY <1>1, <1>4, <3>1 DEF Delete
      <4>2. StackOf(k) = <<>> /\ st[k] = <<>>
        BY <3>1, FoundIsLatest
      <4>3. st = [st EXCEPT ![k] = st[k]]
        OBVIOUS
      <4> HIDE DEF st
      <4>. QED  BY <4>1, <4>2, <4>3
    <3>2. CASE Match(k) # NULL
      <4> DEFINE x == ValOf(Match(k))
      <4>1. /\ StackOf(k) = <<x>> \o StackOf(k)' /\ StackOf(k)' \in Seq(Vals)
            /\ \A g \in Keys : g # k => StackOf(g)' = StackOf(g)
        BY <1>4, <3>2, DeleteStacks
      <4>2. StackOf(k) # <<>>
        BY <3>2, FoundIsLatest
      <4> HIDE DEF x
      <4>3. Tail(StackOf(k)) = StackOf(k)'
        BY <4>1
      <4>. QED  BY <1>0, <4>1, <4>2, <4>3
    <3>. QED  BY <3>1, <3>2
  <2>. QED  BY <2>1, <2>2 DEF Abs!Del
<1>5. CASE UNCHANGED vars
  <2>1. st' = st /\ ret' = ret
    BY <1>1, <1>5 DEF vars
  <2>. QED  BY <2>1, Zenon
<1>6. CASE Next
  <2>1. Abs!Next
    BY <1>2, <1>3, <1>4, <1>6, Zenon DEF Next, Abs!Next
  <2>. QED  BY <2>1
<1>. QED  BY <1>5, <1>6

\* The bucket lists behave as one stack of values per key: the step of the
\* table is a step of the map, whatever collides and whatever the mask is.
THEOREM StackPerKey == Spec => AbsSpec
<1>1. Init => Abs!Init
  BY InitStacks
<1>2. HashInv /\ HashInv' /\ [Next]_vars => [Abs!Next]_(<<[k \in Keys |-> StackOf(k)], ret>>)
  BY AbsStep
<1>3. Init => HashInv
  BY HashInit
<1>4. HashInv /\ [Next]_vars => HashInv'
  BY HashStep
<1>. QED  BY <1>1, <1>2, <1>3, <1>4, PTL DEF Spec, AbsSpec, Abs!Spec

-----------------------------------------------------------------------------
(* The max heap.                                                           *)

\* An array with places 0 .. n.
Arrays(n) == [0 .. n -> Int]

\* An array on 0 .. n - 1 has n values.
LEMMA Sizes0 ==
    ASSUME NEW n \in Nat, NEW h \in [0 .. n - 1 -> Int]
    PROVE  MH!Size(h) = n /\ DOMAIN h = 0 .. n - 1
<1>1. Cardinality(0 .. n - 1) = n
  BY FS_Interval
<1>2. DOMAIN h = 0 .. n - 1
  OBVIOUS
<1>. QED  BY <1>1, <1>2 DEF MH!Size, MH!Cardinality, Cardinality

\* A place is a child of its parent, which comes before it.
LEMMA ParentLess ==
    ASSUME NEW i \in Nat, i > 0
    PROVE  MH!Parent(i) \in 0 .. i - 1 /\ (i = 2 * MH!Parent(i) + 1 \/ i = 2 * MH!Parent(i) + 2)
<1> DEFINE p == (i - 1) \div 2
           r == (i - 1) % 2
<1>1. p \in Int /\ r \in 0 .. 1 /\ i - 1 = 2 * p + r
  OBVIOUS
<1> HIDE DEF p, r
<1>2. p \in 0 .. i - 1 /\ (i = 2 * p + 1 \/ i = 2 * p + 2)
  BY <1>1
<1>. QED  BY <1>2 DEF p, MH!Parent

\* The recursion of SiftUp.
IsUp(u, h, data) ==
    u = [hole \in DOMAIN h |->
           IF hole > 0 /\ h[MH!Parent(hole)] <= data
           THEN [u[MH!Parent(hole)] EXCEPT ![hole] = h[MH!Parent(hole)]]
           ELSE [h EXCEPT ![hole] = data]]

\* SiftUp is the recursion, from the last place.
LEMMA SiftUpIs ==
    ASSUME NEW h, NEW data
    PROVE  MH!SiftUp(h, data) = (CHOOSE u : IsUp(u, h, data))[MH!Size(h) - 1]
  BY Zenon DEF MH!SiftUp, IsUp

\* The recursion of SiftUp is defined.
LEMMA UpExists ==
    ASSUME NEW n \in Nat, NEW h \in Arrays(n), NEW data \in Int
    PROVE  \E u : IsUp(u, h, data)
<1> DEFINE D == 0 .. n
           V == Arrays(n)
           left == [i \in D |-> i]
           stop == [i \in D |-> ~(i > 0 /\ h[MH!Parent(i)] <= data)]
           base == [i \in D |-> [h EXCEPT ![i] = data]]
           next == [i \in D |-> MH!Parent(i)]
           G == [i \in D |-> [x \in V |-> IF i > 0 THEN [x EXCEPT ![i] = h[MH!Parent(i)]] ELSE x]]
<1>1. left \in [D -> 0 .. n]
  OBVIOUS
<1>2. base \in [D -> V]
  BY DEF Arrays
<1>3. ASSUME NEW i \in D, i > 0
      PROVE  MH!Parent(i) \in D /\ MH!Parent(i) < i
  BY <1>3, ParentLess
<1>4. G \in [D -> [V -> V]]
  <2>1. ASSUME NEW i \in D, NEW x \in V
        PROVE  (IF i > 0 THEN [x EXCEPT ![i] = h[MH!Parent(i)]] ELSE x) \in V
    BY <1>3 DEF Arrays
  <2> HIDE DEF V
  <2>. QED  BY <2>1
<1>5. ASSUME NEW i \in D, ~stop[i]
      PROVE  next[i] \in D /\ left[next[i]] < left[i]
  BY <1>3, <1>5
<1>6. PICK u : Descends(u, D, V, stop, base, next, G)
  <2> HIDE DEF D, V, left, stop, base, next, G
  <2>. QED  BY <1>1, <1>2, <1>4, <1>5, Descent
<1>7. /\ u \in [D -> V]
      /\ \A i \in D : u[i] = IF stop[i] THEN base[i] ELSE G[i][u[next[i]]]
  <2> HIDE DEF D, V, left, stop, base, next, G
  <2>. QED  BY <1>6 DEF Descends
<1>8. ASSUME NEW i \in D
      PROVE  u[i] = IF i > 0 /\ h[MH!Parent(i)] <= data
                    THEN [u[MH!Parent(i)] EXCEPT ![i] = h[MH!Parent(i)]]
                    ELSE [h EXCEPT ![i] = data]
  <2>1. stop[i] <=> ~(i > 0 /\ h[MH!Parent(i)] <= data)
    OBVIOUS
  <2>2. base[i] = [h EXCEPT ![i] = data] /\ next[i] = MH!Parent(i)
    OBVIOUS
  <2>3. i > 0 => u[MH!Parent(i)] \in V
    BY <1>3, <1>7
  <2>4. i > 0 => G[i][u[MH!Parent(i)]] = [u[MH!Parent(i)] EXCEPT ![i] = h[MH!Parent(i)]]
    BY <2>3
  <2> HIDE DEF stop, base, next, G, V
  <2>. QED  BY <1>7, <2>1, <2>2, <2>4
<1>9. DOMAIN h = D /\ u = [i \in D |-> u[i]]
  BY <1>7 DEF Arrays
<1>. QED  BY <1>8, <1>9 DEF IsUp

\* The edge between place j and its parent is in order.
Edge(h, j) == h[MH!Parent(j)] >= h[j]

\* What a push does up to the hole i: the places behind it have not changed;
\* and if the heap was in order it is so up to the hole, once the value there
\* is not larger than the new one.
Risen(u, h, data, n, i) ==
    /\ u \in Arrays(n)
    /\ \A j \in i + 1 .. n : u[j] = h[j]
    /\ (\A j \in 1 .. n - 1 : Edge(h, j)) /\ (i # n => h[i] <= data) =>
         /\ \A j \in 0 .. i : j # n => u[j] >= h[j]
         /\ \A j \in 1 .. i : Edge(u, j)

\* The hole of a push rises.
LEMMA UpRises ==
    ASSUME NEW n \in Nat, NEW h \in Arrays(n), NEW data \in Int,
           NEW u, IsUp(u, h, data), NEW i \in 0 .. n
    PROVE  Risen(u[i], h, data, n, i)
<1> DEFINE S == {k \in 0 .. n : ~Risen(u[k], h, data, n, k)}
<1> SUFFICES ASSUME S # {}
             PROVE  FALSE
  OBVIOUS
<1>1. PICK k \in S : \A j \in S : k <= j
  <2>1. S \subseteq Nat
    OBVIOUS
  <2> HIDE DEF S
  <2>. QED  BY <2>1, LeastNumber, Zenon
<1>2. k \in 0 .. n /\ DOMAIN h = 0 .. n
  BY <1>1 DEF Arrays
<1> DEFINE p == MH!Parent(k)
<1>3. u[k] = IF k > 0 /\ h[p] <= data
             THEN [u[p] EXCEPT ![k] = h[p]]
             ELSE [h EXCEPT ![k] = data]
  BY <1>2 DEF IsUp
<1>4. k > 0 => p \in 0 .. k - 1
  BY <1>2, ParentLess
<1>5. \A j \in 1 .. n : MH!Parent(j) \in 0 .. j - 1
  BY ParentLess
<1> HIDE DEF S, p
<1>6. CASE ~(k > 0 /\ h[p] <= data)
  <2> DEFINE w == [h EXCEPT ![k] = data]
  <2>1. /\ w \in Arrays(n) /\ w[k] = data
        /\ \A j \in 0 .. n : j # k => w[j] = h[j]
    BY <1>2 DEF Arrays
  <2>2. u[k] = w
    BY <1>3, <1>6
  <2> HIDE DEF w
  <2>3. ASSUME \A j \in 1 .. n - 1 : Edge(h, j), k # n => h[k] <= data
        PROVE  /\ \A j \in 0 .. k : j # n => w[j] >= h[j]
               /\ \A j \in 1 .. k : Edge(w, j)
    <3>1. ASSUME NEW j \in 1 .. k
          PROVE  Edge(w, j)
      <4>1. CASE j = k
        <5>1. w[p] = h[p] /\ h[p] \in Int /\ h[p] > data
          BY <1>2, <1>4, <1>6, <2>1, <4>1 DEF Arrays
        <5>. QED  BY <2>1, <4>1, <5>1 DEF Edge, p
      <4>2. CASE j # k
        <5>1. /\ j \in 1 .. n - 1 /\ MH!Parent(j) \in 0 .. n /\ MH!Parent(j) # k /\ j \in 0 .. n
          BY <1>2, <1>5, <4>2
        <5>. QED  BY <2>1, <2>3, <4>2, <5>1 DEF Edge
      <4>. QED  BY <4>1, <4>2
    <3>2. \A j \in 0 .. k : j # n => w[j] >= h[j]
      BY <1>2, <2>1, <2>3 DEF Arrays
    <3>. QED  BY <3>1, <3>2
  <2>4. Risen(w, h, data, n, k)
    BY <1>2, <2>1, <2>3 DEF Risen
  <2>. QED  BY <1>1, <2>2, <2>4 DEF S
<1>7. CASE k > 0 /\ h[p] <= data
  <2> DEFINE v == u[p]
             w == [v EXCEPT ![k] = h[p]]
  <2>1. p \in 0 .. n /\ p < k /\ k \in 1 .. n /\ p # n
    BY <1>2, <1>4, <1>7
  <2>2. Risen(v, h, data, n, p)
    BY <1>1, <2>1 DEF S
  <2>3. v \in Arrays(n) /\ \A j \in p + 1 .. n : v[j] = h[j]
    BY <2>2 DEF Risen
  <2>4. u[k] = w
    BY <1>3, <1>7
  <2> HIDE DEF v
  <2>5. /\ w \in Arrays(n) /\ w[k] = h[p]
        /\ \A j \in 0 .. n : j # k => w[j] = v[j]
    BY <2>1, <2>3 DEF Arrays
  <2> HIDE DEF w
  <2>6. \A j \in 0 .. n : h[j] \in Int /\ v[j] \in Int /\ w[j] \in Int
    BY <2>3, <2>5 DEF Arrays
  <2>7. \A j \in k + 1 .. n : w[j] = h[j]
    BY <2>1, <2>3, <2>5
  <2>8. ASSUME \A j \in 1 .. n - 1 : Edge(h, j), k # n => h[k] <= data
        PROVE  /\ \A j \in 0 .. k : j # n => w[j] >= h[j]
               /\ \A j \in 1 .. k : Edge(w, j)
    <3>1. /\ \A j \in 0 .. p : v[j] >= h[j]
          /\ \A j \in 1 .. p : Edge(v, j)
      BY <1>7, <2>1, <2>2, <2>8 DEF Risen
    <3>2. \A j \in 0 .. n : v[j] >= h[j]
      BY <2>1, <2>3, <2>6, <3>1
    <3>3. ASSUME NEW j \in 0 .. k, j # n
          PROVE  w[j] >= h[j]
      <4>1. CASE j = k
        <5>1. k \in 1 .. n - 1
          BY <2>1, <3>3, <4>1
        <5>. QED  BY <2>5, <2>8, <4>1, <5>1 DEF Edge, p
      <4>2. CASE j # k
        BY <2>1, <2>5, <3>2, <3>3, <4>2
      <4>. QED  BY <4>1, <4>2
    <3>4. ASSUME NEW j \in 1 .. k
          PROVE  Edge(w, j)
      <4> DEFINE q == MH!Parent(j)
      <4>1. q \in 0 .. n /\ q < j /\ q # k /\ j \in 0 .. n /\ j \in 1 .. n
        BY <1>5, <2>1
      <4> HIDE DEF q
      <4>2. w[q] = v[q]
        BY <2>5, <4>1
      <4>3. CASE j = k
        <5>1. q = p /\ v[p] >= h[p]
          BY <2>1, <3>1, <4>3 DEF p, q
        <5>. QED  BY <2>5, <4>2, <4>3, <5>1 DEF Edge, q
      <4>4. CASE j # k /\ j <= p
        <5>1. w[j] = v[j] /\ Edge(v, j)
          BY <2>5, <3>1, <4>1, <4>4
        <5>. QED  BY <4>2, <5>1 DEF Edge, q
      <4>5. CASE j # k /\ j > p
        <5>1. j \in p + 1 .. n /\ j \in 1 .. n - 1
          BY <2>1, <4>1, <4>5
        <5>2. w[j] = h[j] /\ h[q] >= h[j] /\ v[q] >= h[q]
          BY <2>3, <2>5, <2>8, <3>2, <4>1, <4>5, <5>1 DEF Edge, q
        <5>3. v[q] >= h[j]
          BY <2>6, <4>1, <5>2
        <5>. QED  BY <4>2, <5>2, <5>3 DEF Edge, q
      <4>. QED  BY <2>1, <4>1, <4>3, <4>4, <4>5
    <3>. QED  BY <3>3, <3>4
  <2>9. Risen(w, h, data, n, k)
    BY <2>5, <2>7, <2>8 DEF Risen
  <2>. QED  BY <1>1, <2>4, <2>9 DEF S
<1>. QED  BY <1>6, <1>7

\* The recursion of SinkHole.
IsDown(u, h) ==
    u = [hole \in DOMAIN h |->
           LET right == 2 * (hole + 1)
               child == MH!LargerChild(h, right)
           IN  IF right <= MH!Size(h)
               THEN [u[child] EXCEPT ![hole] = h[child]]
               ELSE [h EXCEPT ![hole] = h[MH!Size(h) - 1]]]

\* SinkHole is the recursion, from the root.
LEMMA SinkHoleIs ==
    ASSUME NEW h
    PROVE  MH!SinkHole(h) = (CHOOSE u : IsDown(u, h))[0]
  BY Zenon DEF MH!SinkHole, IsDown

\* The child that moves up is a child, and none is larger.
Child(h, n, i, c) ==
    /\ c \in i + 1 .. n /\ c \in {2 * i + 1, 2 * i + 2}
    /\ \A j \in 1 .. n : MH!Parent(j) = i => h[j] <= h[c]

\* slip: the child that moves up is a largest one.
LEMMA LargerChildIs ==
    ASSUME NEW n \in Nat, NEW h \in Arrays(n), NEW i \in 0 .. n, 2 * (i + 1) <= n + 1
    PROVE  Child(h, n, i, MH!LargerChild(h, 2 * (i + 1)))
<1> DEFINE r == 2 * (i + 1)
           c == MH!LargerChild(h, r)
<1>1. MH!Size(h) = n + 1
  <2>1. n + 1 \in Nat /\ h \in [0 .. (n + 1) - 1 -> Int]
    BY DEF Arrays
  <2>. QED  BY <2>1, Sizes0
<1>2. c = IF r = n + 1 \/ h[r - 1] > h[r] THEN r - 1 ELSE r
  BY <1>1 DEF MH!LargerChild
<1> HIDE DEF c
<1>3. c \in i + 1 .. n /\ c \in {2 * i + 1, 2 * i + 2}
  BY <1>2
<1>4. ASSUME NEW j \in 1 .. n, MH!Parent(j) = i
      PROVE  h[j] <= h[c]
  <2>1. j = r - 1 \/ j = r
    BY <1>4, ParentLess
  <2>2. h[j] \in Int /\ h[c] \in Int
    BY <1>3 DEF Arrays
  <2>3. CASE r = n + 1
    <3>1. j = c
      BY <1>2, <2>1, <2>3
    <3>. QED  BY <2>2, <3>1
  <2>4. CASE r # n + 1
    <3>1. r \in 0 .. n /\ r - 1 \in 0 .. n
      BY <2>4
    <3>2. h[r] \in Int /\ h[r - 1] \in Int
      BY <3>1 DEF Arrays
    <3> HIDE DEF r
    <3>. QED  BY <1>2, <2>1, <2>4, <3>2
  <2>. QED  BY <2>3, <2>4
<1>. QED  BY <1>3, <1>4 DEF Child, c

\* The same for an array with places 0 .. n.
DownTo(u, h, n) ==
    u = [i \in 0 .. n |->
           IF 2 * (i + 1) <= n + 1
           THEN [u[MH!LargerChild(h, 2 * (i + 1))]
                   EXCEPT ![i] = h[MH!LargerChild(h, 2 * (i + 1))]]
           ELSE [h EXCEPT ![i] = h[n]]]

\* The recursion of SinkHole, by the number of places.
LEMMA DownIs ==
    ASSUME NEW n \in Nat, NEW h \in Arrays(n), NEW u
    PROVE  IsDown(u, h) <=> DownTo(u, h, n)
<1>1. MH!Size(h) = n + 1 /\ DOMAIN h = 0 .. n
  <2>1. n + 1 \in Nat /\ h \in [0 .. (n + 1) - 1 -> Int]
    BY DEF Arrays
  <2>2. DOMAIN h = 0 .. n
    BY DEF Arrays
  <2>. QED  BY <2>1, <2>2, Sizes0
<1>2. (n + 1) - 1 = n
  OBVIOUS
<1>. QED  BY <1>1, <1>2, Zenon DEF IsDown, DownTo

\* The recursion of SinkHole is defined.
LEMMA DownExists ==
    ASSUME NEW n \in Nat, NEW h \in Arrays(n)
    PROVE  \E u : IsDown(u, h)
<1> DEFINE D == 0 .. n
           V == Arrays(n)
           C(i) == MH!LargerChild(h, 2 * (i + 1))
           left == [i \in D |-> n - i]
           stop == [i \in D |-> ~(2 * (i + 1) <= n + 1)]
           base == [i \in D |-> [h EXCEPT ![i] = h[n]]]
           next == [i \in D |-> C(i)]
           G == [i \in D |-> [x \in V |-> IF stop[i] THEN x ELSE [x EXCEPT ![i] = h[C(i)]]]]
<1>1. left \in [D -> 0 .. n]
  OBVIOUS
<1>2. base \in [D -> V]
  BY DEF Arrays
<1>3. ASSUME NEW i \in D, ~stop[i]
      PROVE  C(i) \in i + 1 .. n /\ C(i) \in D /\ n - C(i) < n - i
  <2>1. C(i) \in i + 1 .. n
    <3>1. 2 * (i + 1) <= n + 1
      BY <1>3
    <3> HIDE DEF C
    <3>. QED  BY <3>1, LargerChildIs DEF Child, C
  <2> HIDE DEF C
  <2>. QED  BY <2>1
<1>4. G \in [D -> [V -> V]]
  <2>1. ASSUME NEW i \in D, NEW x \in V
        PROVE  (IF stop[i] THEN x ELSE [x EXCEPT ![i] = h[C(i)]]) \in V
    <3> HIDE DEF C, stop
    <3>. QED  BY <1>3 DEF Arrays
  <2> HIDE DEF V, stop, C
  <2>. QED  BY <2>1
<1>5. ASSUME NEW i \in D, ~stop[i]
      PROVE  next[i] \in D /\ left[next[i]] < left[i]
  <2> HIDE DEF C, stop
  <2>. QED  BY <1>3, <1>5
<1>6. PICK u : Descends(u, D, V, stop, base, next, G)
  <2> HIDE DEF D, V, left, stop, base, next, G
  <2>. QED  BY <1>1, <1>2, <1>4, <1>5, Descent
<1>7. /\ u \in [D -> V]
      /\ \A i \in D : u[i] = IF stop[i] THEN base[i] ELSE G[i][u[next[i]]]
  <2> HIDE DEF D, V, left, stop, base, next, G
  <2>. QED  BY <1>6 DEF Descends
<1>8. ASSUME NEW i \in D
      PROVE  u[i] = IF 2 * (i + 1) <= n + 1
                    THEN [u[C(i)] EXCEPT ![i] = h[C(i)]]
                    ELSE [h EXCEPT ![i] = h[n]]
  <2>1. stop[i] <=> ~(2 * (i + 1) <= n + 1)
    OBVIOUS
  <2> HIDE DEF C
  <2>2. base[i] = [h EXCEPT ![i] = h[n]] /\ next[i] = C(i)
    OBVIOUS
  <2> HIDE DEF stop
  <2>3. ~stop[i] => u[C(i)] \in V
    BY <1>3, <1>7
  <2>4. ~stop[i] => G[i][u[C(i)]] = [u[C(i)] EXCEPT ![i] = h[C(i)]]
    BY <2>3
  <2> HIDE DEF base, next, G, V
  <2>. QED  BY <1>7, <2>1, <2>2, <2>4
<1>9. u = [i \in D |-> u[i]]
  BY <1>7
<1>10. u = [i \in 0 .. n |-> IF 2 * (i + 1) <= n + 1
                             THEN [u[C(i)] EXCEPT ![i] = h[C(i)]]
                             ELSE [h EXCEPT ![i] = h[n]]]
  <2> HIDE DEF C
  <2>. QED  BY <1>8, <1>9
<1>11. IsDown(u, h)
  <2>1. DownTo(u, h, n)
    BY <1>10 DEF DownTo
  <2>. QED  BY <2>1, DownIs
<1>. QED  BY <1>11

\* How often a value is in an array.
Often(h, n, d) == Cardinality({i \in 0 .. n : h[i] = d})
One(x, d) == IF x = d THEN 1 ELSE 0

\* A count is a number.
LEMMA OftenNat ==
    ASSUME NEW n \in Nat, NEW h, NEW d
    PROVE  Often(h, n, d) \in Nat
<1> DEFINE P == {j \in 0 .. n : h[j] = d}
<1>1. IsFiniteSet(P)
  <2>1. IsFiniteSet(0 .. n) /\ P \subseteq 0 .. n
    BY FS_Interval
  <2> HIDE DEF P
  <2>. QED  BY <2>1, FS_Subset
<1>. QED  BY <1>1, FS_CardinalityType DEF Often

\* Writing to a place takes one value away and brings one.
LEMMA OftenChange ==
    ASSUME NEW n \in Nat, NEW h \in Arrays(n), NEW i \in 0 .. n, NEW x \in Int, NEW d
    PROVE  /\ Often(h, n, d) \in Nat
           /\ Often([h EXCEPT ![i] = x], n, d) = Often(h, n, d) - One(h[i], d) + One(x, d)
<1> DEFINE P(g) == {j \in 0 .. n : g[j] = d}
           Rest == P(h) \ {i}
           w == [h EXCEPT ![i] = x]
<1>1. IsFiniteSet(0 .. n)
  BY FS_Interval
<1>2. IsFiniteSet(P(h)) /\ IsFiniteSet(Rest) /\ Cardinality(P(h)) \in Nat /\ Cardinality(Rest) \in Nat
  <2>1. P(h) \subseteq 0 .. n /\ Rest \subseteq 0 .. n
    OBVIOUS
  <2> HIDE DEF Rest
  <2>. QED  BY <1>1, <2>1, FS_Subset, FS_CardinalityType
<1>3. Cardinality(P(h)) = Cardinality(Rest) + One(h[i], d)
  <2>1. CASE h[i] = d
    <3>1. i \in P(h)
      BY <2>1
    <3>2. Cardinality(Rest) = Cardinality(P(h)) - 1
      BY <1>2, <3>1, FS_RemoveElement
    <3>. QED  BY <1>2, <2>1, <3>2 DEF One
  <2>2. CASE h[i] # d
    <3>1. Rest = P(h)
      BY <2>2
    <3>. QED  BY <1>2, <2>2, <3>1 DEF One
  <2>. QED  BY <2>1, <2>2
<1>4. Cardinality(P(w)) = Cardinality(Rest) + One(x, d)
  <2>1. w[i] = x /\ \A j \in 0 .. n : j # i => w[j] = h[j]
    BY DEF Arrays
  <2> HIDE DEF w
  <2>2. CASE x = d
    <3>1. P(w) = Rest \cup {i} /\ i \notin Rest
      BY <2>1, <2>2
    <3> HIDE DEF Rest
    <3>2. Cardinality(Rest \cup {i}) = Cardinality(Rest) + 1
      BY <1>2, <3>1, FS_AddElement
    <3>. QED  BY <2>2, <3>1, <3>2 DEF One
  <2>3. CASE x # d
    <3>1. P(w) = Rest
      BY <2>1, <2>3
    <3>. QED  BY <1>2, <2>3, <3>1 DEF One
  <2>. QED  BY <2>2, <2>3
<1>5. One(h[i], d) \in Int /\ One(x, d) \in Int
  BY DEF One
<1> DEFINE e == Cardinality(P(w))
           f == Cardinality(P(h))
           r == Cardinality(Rest)
<1>6. e = Often(w, n, d) /\ f = Often(h, n, d) /\ r \in Nat /\ f \in Nat
  BY <1>2 DEF Often
<1> HIDE DEF e, f, r, Rest, P
<1>7. f = r + One(h[i], d) /\ e = r + One(x, d)
  BY <1>3, <1>4 DEF e, f, r
<1>. QED  BY <1>5, <1>6, <1>7

\* What a pop does below the hole i: the values there are those of before but
\* for h[i], which is gone, and the last value, which is there once more; and
\* if the heap was in order it is so but for the last value.
Sunk(u, h, n, i) ==
    /\ u \in Arrays(n)
    /\ u[n] = h[n]
    /\ \A d : Often(u, n, d) = Often(h, n, d) - One(h[i], d) + One(h[n], d)
    /\ \A j \in 0 .. i - 1 : u[j] = h[j]
    /\ (\A j \in 1 .. n : Edge(h, j)) =>
         /\ \A j \in 0 .. n : u[j] <= h[j] \/ u[j] = h[n]
         /\ \A j \in 1 .. n : MH!Parent(j) >= i => Edge(u, j) \/ u[j] = h[n]

\* The hole of a pop sinks.
LEMMA DownSinks ==
    ASSUME NEW n \in Nat, NEW h \in Arrays(n), NEW u, IsDown(u, h), NEW i \in 0 .. n
    PROVE  Sunk(u[i], h, n, i)
<1> DEFINE S == {k \in 0 .. n : ~Sunk(u[n - k], h, n, n - k)}
<1> SUFFICES ASSUME S # {}
             PROVE  FALSE
  <2>1. n - i \in 0 .. n /\ n - (n - i) = i
    OBVIOUS
  <2>. QED  BY <2>1
<1>1. PICK m \in S : \A j \in S : m <= j
  <2>1. S \subseteq Nat
    OBVIOUS
  <2> HIDE DEF S
  <2>. QED  BY <2>1, LeastNumber, Zenon
<1> DEFINE k == n - m
           r == 2 * (k + 1)
           c == MH!LargerChild(h, r)
<1>2. k \in 0 .. n /\ DOMAIN h = 0 .. n /\ ~Sunk(u[k], h, n, k)
  BY <1>1 DEF Arrays
<1>3. ASSUME NEW j \in k + 1 .. n
      PROVE  Sunk(u[j], h, n, j)
  <2>1. n - j \in 0 .. n /\ n - (n - j) = j /\ ~(m <= n - j)
    BY <1>1
  <2>2. n - j \notin S
    BY <1>1, <2>1
  <2>. QED  BY <2>1, <2>2
<1>4. u[k] = IF r <= n + 1 THEN [u[c] EXCEPT ![k] = h[c]] ELSE [h EXCEPT ![k] = h[n]]
  <2> DEFINE C(x) == MH!LargerChild(h, 2 * (x + 1))
  <2> HIDE DEF k
  <2>1. u = [x \in 0 .. n |-> IF 2 * (x + 1) <= n + 1
                              THEN [u[C(x)] EXCEPT ![x] = h[C(x)]]
                              ELSE [h EXCEPT ![x] = h[n]]]
    <3>1. DownTo(u, h, n)
      BY DownIs
    <3>. QED  BY <3>1 DEF DownTo, C
  <2> HIDE DEF C, k
  <2>2. u[k] = IF 2 * (k + 1) <= n + 1
               THEN [u[C(k)] EXCEPT ![k] = h[C(k)]]
               ELSE [h EXCEPT ![k] = h[n]]
    BY <1>2, <2>1
  <2>. QED  BY <2>2 DEF C
<1>5. \A j \in 1 .. n : MH!Parent(j) \in 0 .. j - 1 /\ (j = 2 * MH!Parent(j) + 1 \/ j = 2 * MH!Parent(j) + 2)
  BY ParentLess
<1>6. \A j \in 0 .. n : h[j] \in Int
  BY DEF Arrays
<1>7. r <= n + 1 => Child(h, n, k, c)
  <2> HIDE DEF k
  <2>. QED  BY <1>2, LargerChildIs
<1> HIDE DEF S, k, c
<1>8. CASE ~(r <= n + 1)
  <2> DEFINE w == [h EXCEPT ![k] = h[n]]
  <2>0. n \in 0 .. n
    OBVIOUS
  <2>1. /\ w \in Arrays(n) /\ w[k] = h[n] /\ w[n] = h[n]
        /\ \A j \in 0 .. n : j # k => w[j] = h[j]
        /\ \A d : Often(w, n, d) = Often(h, n, d) - One(h[k], d) + One(h[n], d)
    <3>1. /\ w \in Arrays(n) /\ w[k] = h[n] /\ w[n] = h[n]
          /\ \A j \in 0 .. n : j # k => w[j] = h[j]
      BY <1>2, <1>6, <2>0 DEF Arrays
    <3>2. ASSUME NEW d
          PROVE  Often(w, n, d) = Often(h, n, d) - One(h[k], d) + One(h[n], d)
      <4>1. k \in 0 .. n /\ h \in Arrays(n) /\ h[n] \in Int
        BY <1>2, <1>6, <2>0 DEF Arrays
      <4> HIDE DEF k
      <4>. QED  BY <4>1, OftenChange
    <3>. QED  BY <3>1, <3>2
  <2>2. u[k] = w
    BY <1>4, <1>8
  <2> HIDE DEF w
  <2>3. \A j \in 0 .. k - 1 : w[j] = h[j]
    BY <1>2, <2>1
  <2>4. ASSUME \A j \in 1 .. n : Edge(h, j)
        PROVE  /\ \A j \in 0 .. n : w[j] <= h[j] \/ w[j] = h[n]
               /\ \A j \in 1 .. n : MH!Parent(j) >= k => Edge(w, j) \/ w[j] = h[n]
    <3>1. ASSUME NEW j \in 0 .. n
          PROVE  w[j] <= h[j] \/ w[j] = h[n]
      BY <1>6, <2>1
    <3>2. ASSUME NEW j \in 1 .. n, MH!Parent(j) >= k
          PROVE  Edge(w, j) \/ w[j] = h[n]
      <4> DEFINE q == MH!Parent(j)
      <4>0. q \in 0 .. j - 1 /\ (j = 2 * q + 1 \/ j = 2 * q + 2) /\ q >= k
        BY <1>5, <3>2
      <4> HIDE DEF q
      <4>1. q \in 0 .. n /\ q # k /\ j # k /\ j \in 0 .. n
        BY <1>2, <1>8, <4>0
      <4>2. w[q] = h[q] /\ w[j] = h[j] /\ h[q] >= h[j]
        BY <2>1, <2>4, <4>1 DEF Edge, q
      <4>. QED  BY <4>2 DEF Edge, q
    <3>. QED  BY <3>1, <3>2
  <2>5. Sunk(w, h, n, k)
    BY <2>1, <2>3, <2>4 DEF Sunk
  <2>. QED  BY <1>2, <2>2, <2>5
<1>9. CASE r <= n + 1
  <2> DEFINE v == u[c]
             w == [v EXCEPT ![k] = h[c]]
  <2>1. /\ c \in k + 1 .. n /\ c \in 0 .. n /\ c # k
        /\ \A j \in 1 .. n : MH!Parent(j) = k => h[j] <= h[c]
        /\ k # n
    BY <1>2, <1>7, <1>9 DEF Child
  <2>2. Sunk(v, h, n, c)
    BY <1>3, <2>1
  <2>3. u[k] = w
    BY <1>4, <1>9
  <2> HIDE DEF v
  <2>4. /\ v \in Arrays(n) /\ v[n] = h[n]
        /\ \A j \in 0 .. c - 1 : v[j] = h[j]
    BY <2>2 DEF Sunk
  <2>5. \A j \in 0 .. n : v[j] \in Int
    BY <2>4 DEF Arrays
  <2>6. /\ w \in Arrays(n) /\ w[k] = h[c]
        /\ \A j \in 0 .. n : j # k => w[j] = v[j]
    BY <1>2, <1>6, <2>1, <2>4 DEF Arrays
  <2>7. ASSUME NEW d
        PROVE  Often(w, n, d) = Often(h, n, d) - One(h[k], d) + One(h[n], d)
    <3>1. v[k] = h[k]
      BY <1>2, <2>1, <2>4
    <3>2. Often(v, n, d) = Often(h, n, d) - One(h[c], d) + One(h[n], d)
      BY <2>2 DEF Sunk
    <3>3. Often(w, n, d) = Often(v, n, d) - One(v[k], d) + One(h[c], d) /\ Often(v, n, d) \in Nat
      BY <1>2, <1>6, <2>1, <2>4, OftenChange
    <3>4. /\ One(h[c], d) \in Int /\ One(h[k], d) \in Int /\ One(h[n], d) \in Int
          /\ Often(h, n, d) \in Int
      <4>1. Often(h, n, d) \in Nat
        BY OftenNat
      <4>2. \A x : One(x, d) \in Int
        BY DEF One
      <4>. QED  BY <4>1, <4>2
    <3> HIDE DEF w
    <3>5. \A a, b, e, x, y, z \in Int : e = a - x + y /\ b = e - z + x => b = a - z + y
      OBVIOUS
    <3> DEFINE a0 == Often(h, n, d)
               e0 == Often(v, n, d)
               b0 == Often(w, n, d)
               x0 == One(h[c], d)
               y0 == One(h[n], d)
               z0 == One(h[k], d)
    <3>6. /\ a0 \in Int /\ e0 \in Int /\ x0 \in Int /\ y0 \in Int /\ z0 \in Int
          /\ e0 = a0 - x0 + y0 /\ b0 = e0 - z0 + x0
      BY <3>1, <3>2, <3>3, <3>4
    <3> HIDE DEF a0, b0, e0, x0, y0, z0
    <3>7. b0 = a0 - z0 + y0
      BY <3>6
    <3>. QED  BY <3>7 DEF a0, b0, y0, z0
  <2> HIDE DEF w
  <2>8. w[n] = h[n] /\ \A j \in 0 .. k - 1 : w[j] = h[j]
    BY <1>2, <2>1, <2>4, <2>6
  <2>9. ASSUME \A j \in 1 .. n : Edge(h, j)
        PROVE  /\ \A j \in 0 .. n : w[j] <= h[j] \/ w[j] = h[n]
               /\ \A j \in 1 .. n : MH!Parent(j) >= k => Edge(w, j) \/ w[j] = h[n]
    <3>1. /\ \A j \in 0 .. n : v[j] <= h[j] \/ v[j] = h[n]
          /\ \A j \in 1 .. n : MH!Parent(j) >= c => Edge(v, j) \/ v[j] = h[n]
      BY <2>2, <2>9 DEF Sunk
    <3>2. h[c] <= h[k]
      <4>1. MH!Parent(c) = k
        <5>1. c \in 1 .. n /\ (c = 2 * k + 1 \/ c = 2 * k + 2)
          BY <1>2, <1>7, <1>9, <2>1 DEF Child
        <5> DEFINE q == MH!Parent(c)
        <5>2. q \in 0 .. c - 1 /\ (c = 2 * q + 1 \/ c = 2 * q + 2)
          BY <1>5, <5>1
        <5> HIDE DEF q
        <5>3. q = k
          BY <1>2, <5>1, <5>2
        <5>. QED  BY <5>3 DEF q
      <4>2. c \in 1 .. n
        BY <1>2, <2>1
      <4>. QED  BY <1>2, <1>6, <2>1, <2>9, <4>1, <4>2 DEF Edge
    <3>3. ASSUME NEW j \in 0 .. n
          PROVE  w[j] <= h[j] \/ w[j] = h[n]
      BY <2>6, <3>1, <3>2
    <3>4. ASSUME NEW j \in 1 .. n, MH!Parent(j) >= k
          PROVE  Edge(w, j) \/ w[j] = h[n]
      <4> DEFINE q == MH!Parent(j)
      <4>1. q \in 0 .. n /\ q < j /\ j # k /\ j \in 0 .. n
        BY <1>2, <1>5, <3>4
      <4>2. w[j] = v[j] /\ v[j] \in Int /\ h[j] \in Int /\ h[q] \in Int /\ h[c] \in Int
        BY <1>6, <2>1, <2>5, <2>6, <4>1
      <4>3. CASE q = k
        <5>1. w[q] = h[c] /\ h[j] <= h[c]
          BY <2>1, <2>6, <4>3
        <5>2. v[j] <= h[j] \/ v[j] = h[n]
          BY <3>1, <4>1
        <5> HIDE DEF q
        <5>3. w[q] >= w[j] \/ w[j] = h[n]
          BY <4>2, <5>1, <5>2
        <5>. QED  BY <5>3 DEF Edge, q
      <4>4. CASE q # k /\ q >= c
        <5>1. w[q] = v[q]
          BY <2>6, <4>1, <4>4
        <5>2. Edge(v, j) \/ v[j] = h[n]
          BY <3>1, <4>4
        <5>. QED  BY <4>2, <5>1, <5>2 DEF Edge
      <4>5. CASE q # k /\ q < c
        <5>1. w[q] = v[q] /\ v[q] = h[q]
          <6>1. q \in 0 .. c - 1
            BY <2>1, <4>1, <4>5
          <6>. QED  BY <2>4, <2>6, <4>1, <4>5, <6>1
        <5>2. h[q] >= h[j]
          BY <2>9 DEF Edge
        <5>3. v[j] <= h[j] \/ v[j] = h[n]
          BY <3>1, <4>1
        <5> HIDE DEF q
        <5>4. w[q] >= w[j] \/ w[j] = h[n]
          BY <4>2, <5>1, <5>2, <5>3
        <5>. QED  BY <5>4 DEF Edge, q
      <4>. QED  BY <2>1, <4>1, <4>3, <4>4, <4>5
    <3>. QED  BY <3>3, <3>4
  <2>10. Sunk(w, h, n, k)
    BY <2>6, <2>7, <2>8, <2>9 DEF Sunk
  <2>. QED  BY <1>2, <2>3, <2>10
<1>. QED  BY <1>8, <1>9

\* The values of a heap of n, and its capacity.
Heap(n) ==
    /\ n \in Nat /\ array \in [0 .. n - 1 -> Int]
    /\ places \in Nat /\ n <= places

HeapInv == \E n : Heap(n)

\* The last place apart.
LEMMA OftenLast ==
    ASSUME NEW n \in Nat, NEW u, NEW d
    PROVE  Often(u, n, d) = Cardinality({i \in 0 .. n - 1 : u[i] = d}) + One(u[n], d)
<1> DEFINE P == {i \in 0 .. n - 1 : u[i] = d}
           Q == {i \in 0 .. n : u[i] = d}
<1>1. IsFiniteSet(P) /\ n \notin P
  <2>1. IsFiniteSet(0 .. n - 1) /\ P \subseteq 0 .. n - 1
    BY FS_Interval
  <2>2. n \notin P
    OBVIOUS
  <2> HIDE DEF P
  <2>. QED  BY <2>1, <2>2, FS_Subset
<1>2. CASE u[n] = d
  <2>1. Q = P \cup {n}
    BY <1>2
  <2> HIDE DEF P, Q
  <2>2. Cardinality(P \cup {n}) = Cardinality(P) + 1
    BY <1>1, FS_AddElement
  <2>. QED  BY <1>2, <2>1, <2>2 DEF Often, One, P, Q
<1>3. CASE u[n] # d
  <2>1. Q = P
    BY <1>3
  <2>2. Cardinality(P) \in Nat
    BY <1>1, FS_CardinalityType
  <2> DEFINE c == Cardinality(P)
  <2>3. Often(u, n, d) = c
    BY <2>1 DEF Often
  <2>4. One(u[n], d) = 0
    BY <1>3 DEF One
  <2> HIDE DEF c
  <2>5. c = c + 0
    BY <2>2 DEF c
  <2>. QED  BY <2>3, <2>4, <2>5, Zenon DEF c
<1>. QED  BY <1>2, <1>3

\* The root of an ordered heap is a largest value.
LEMMA RootLargest ==
    ASSUME NEW n \in Nat, NEW h \in Arrays(n), \A j \in 1 .. n : Edge(h, j), NEW i \in 0 .. n
    PROVE  h[i] <= h[0]
<1> DEFINE S == {k \in 0 .. n : ~(h[k] <= h[0])}
<1> SUFFICES ASSUME S # {}
             PROVE  FALSE
  OBVIOUS
<1>1. PICK k \in S : \A j \in S : k <= j
  <2>1. S \subseteq Nat
    OBVIOUS
  <2> HIDE DEF S
  <2>. QED  BY <2>1, LeastNumber, Zenon
<1>2. \A j \in 0 .. n : h[j] \in Int
  BY DEF Arrays
<1>3. k \in 1 .. n
  BY <1>1, <1>2
<1> DEFINE p == MH!Parent(k)
<1>4. p \in 0 .. k - 1
  BY <1>3, ParentLess
<1> HIDE DEF p
<1>5. h[p] <= h[0]
  BY <1>1, <1>3, <1>4
<1>6. h[p] >= h[k]
  BY <1>3 DEF Edge, p
<1>7. 0 \in 0 .. n /\ p \in 0 .. n /\ k \in 0 .. n
  BY <1>3, <1>4
<1>8. h[k] <= h[0]
  BY <1>2, <1>5, <1>6, <1>7
<1>. QED  BY <1>1, <1>8

\* Ordered, by the pairs of a place and its parent.
LEMMA OrderedIs ==
    ASSUME NEW n \in Nat, NEW h \in Arrays(n)
    PROVE  MH!Ordered(h) <=> \A j \in 1 .. n : Edge(h, j)
<1>1. DOMAIN h = 0 .. n
  BY DEF Arrays
<1>2. \A j \in 0 .. n : j = 0 \/ j \in 1 .. n
  OBVIOUS
<1>3. \A j \in 1 .. n : j \in 0 .. n /\ j # 0
  OBVIOUS
<1>. QED  BY <1>1, <1>2, <1>3, Zenon DEF MH!Ordered, MH!InOrder, Edge

\* The hole of a push takes the place of data: what rises adds nothing else.
LEMMA UpKeeps ==
    ASSUME NEW n \in Nat, NEW h \in Arrays(n), NEW data \in Int,
           NEW u, IsUp(u, h, data), NEW i \in 0 .. n, NEW d
    PROVE  Often(u[i], n, d) = Often(h, n, d) - One(h[i], d) + One(data, d)
<1> DEFINE Kept(k) == Often(u[k], n, d) = Often(h, n, d) - One(h[k], d) + One(data, d)
           S == {k \in 0 .. n : ~Kept(k)}
<1> SUFFICES ASSUME S # {}
             PROVE  FALSE
  OBVIOUS
<1>1. PICK k \in S : \A j \in S : k <= j
  <2>1. S \subseteq Nat
    OBVIOUS
  <2> HIDE DEF S
  <2>. QED  BY <2>1, LeastNumber, Zenon
<1>2. k \in 0 .. n /\ DOMAIN h = 0 .. n /\ ~Kept(k)
  BY <1>1 DEF Arrays
<1> DEFINE p == MH!Parent(k)
<1>3. u[k] = IF k > 0 /\ h[p] <= data
             THEN [u[p] EXCEPT ![k] = h[p]]
             ELSE [h EXCEPT ![k] = data]
  BY <1>2 DEF IsUp
<1>4. k > 0 => p \in 0 .. k - 1
  BY <1>2, ParentLess
<1> HIDE DEF p
<1>5. \A j \in 0 .. n : h[j] \in Int
  BY DEF Arrays
<1>6. CASE ~(k > 0 /\ h[p] <= data)
  <2>1. Often([h EXCEPT ![k] = data], n, d) = Often(h, n, d) - One(h[k], d) + One(data, d)
    BY <1>2, OftenChange
  <2>. QED  BY <1>2, <1>3, <1>6, <2>1
<1>7. CASE k > 0 /\ h[p] <= data
  <2> DEFINE v == u[p]
  <2>1. p \in 0 .. n /\ p < k /\ k \in p + 1 .. n
    BY <1>2, <1>4, <1>7
  <2>2. Risen(v, h, data, n, p)
    BY <2>1, UpRises
  <2>3. v \in Arrays(n) /\ v[k] = h[k]
    BY <2>1, <2>2 DEF Risen
  <2>4. Kept(p)
    <3>1. ~(k <= p)
      BY <1>2, <2>1
    <3>2. p \notin S
      BY <1>1, <3>1
    <3>. QED  BY <2>1, <3>2
  <2>5. u[k] = [v EXCEPT ![k] = h[p]]
    BY <1>3, <1>7
  <2> HIDE DEF v
  <2> DEFINE a0 == Often(h, n, d)
             b0 == Often(v, n, d)
             x0 == One(h[p], d)
             y0 == One(data, d)
             z0 == One(h[k], d)
             c0 == Often(u[k], n, d)
  <2>6. c0 = b0 - z0 + x0
    BY <1>2, <1>5, <2>1, <2>3, <2>5, OftenChange
  <2>7. b0 = a0 - x0 + y0
    BY <2>4 DEF v
  <2>8. a0 \in Int /\ x0 \in Int /\ y0 \in Int /\ z0 \in Int
    <3>1. a0 \in Nat
      BY OftenNat
    <3>2. \A x : One(x, d) \in Int
      BY DEF One
    <3>. QED  BY <3>1, <3>2
  <2>9. c0 # a0 - z0 + y0
    BY <1>2
  <2> HIDE DEF a0, b0, c0, x0, y0, z0
  <2>. QED  BY <2>6, <2>7, <2>8, <2>9
<1>. QED  BY <1>6, <1>7

\* A step that takes no value away: order is kept, and so is the block's size.
Grown ==
    /\ MH!Size(array') <= places'
    /\ MH!Size(array') >= MH!Size(array)
    /\ MH!Ordered(array) => MH!Ordered(array')

\* push_max_heap, with or without extend_max_heap.
LEMMA HeapPush ==
    ASSUME MH!MaxHeapAssumption, NEW n, Heap(n), NEW data \in Data, MH!Push(data)
    PROVE  Heap(n + 1)' /\ Grown /\ MH!Gained(data)
<1> DEFINE h == [i \in 0 .. n |-> IF i < n THEN array[i] ELSE data]
           u == CHOOSE x : IsUp(x, h, data)
<1>1. /\ n \in Nat /\ array \in [0 .. n - 1 -> Int] /\ places \in Nat /\ n <= places
      /\ data \in Int /\ Growth \in Nat \ {0}
  BY DEF Heap, MH!MaxHeapAssumption
<1>2. MH!Size(array) = n
  BY <1>1, Sizes0
<1>3. array' = MH!SiftUp(h, data)
  BY <1>2 DEF MH!Push
<1>4. places' = IF n >= places THEN places + Growth ELSE places
  BY <1>2 DEF MH!Push, MH!Capacity
<1>5. h \in Arrays(n) /\ \A i \in 0 .. n : i < n => h[i] = array[i]
  BY <1>1 DEF Arrays
<1> HIDE DEF h
<1>6. MH!Size(h) - 1 = n
  <2>1. n + 1 \in Nat /\ h \in [0 .. (n + 1) - 1 -> Int]
    BY <1>1, <1>5 DEF Arrays
  <2>2. MH!Size(h) = n + 1
    BY <2>1, Sizes0
  <2>. QED  BY <1>1, <2>2
<1>7. IsUp(u, h, data)
  BY <1>1, <1>5, UpExists
<1>8. array' = u[n]
  BY <1>3, <1>6, SiftUpIs
<1> HIDE DEF u
<1>9. Risen(array', h, data, n, n)
  <2>1. n \in 0 .. n
    BY <1>1
  <2>. QED  BY <1>1, <1>5, <1>7, <1>8, <2>1, UpRises
<1>10. array' \in Arrays(n) /\ array' \in [0 .. (n + 1) - 1 -> Int]
  <2>1. array' \in Arrays(n)
    BY <1>9 DEF Risen
  <2>. QED  BY <1>1, <2>1 DEF Arrays
<1>11. MH!Size(array') = n + 1
  <2> DEFINE m == n + 1
             g == array'
  <2>1. m \in Nat /\ g \in [0 .. m - 1 -> Int]
    BY <1>1, <1>10
  <2> HIDE DEF m, g
  <2>2. MH!Size(g) = m
    BY <2>1, Sizes0
  <2>. QED  BY <2>2 DEF m, g
<1>12. places' \in Nat /\ n + 1 <= places'
  BY <1>1, <1>4
<1>13. ASSUME MH!Ordered(array)
       PROVE  MH!Ordered(array')
  <2>1. ASSUME NEW j \in 1 .. n - 1
        PROVE  Edge(h, j)
    <3> DEFINE q == MH!Parent(j)
    <3>1. q \in 0 .. j - 1
      BY <1>1, ParentLess
    <3>2. q \in 0 .. n /\ q < n /\ j \in 0 .. n /\ j < n /\ j \in DOMAIN array /\ j # 0
      BY <1>1, <3>1
    <3>3. array[q] >= array[j]
      BY <1>13, <3>2 DEF MH!Ordered, MH!InOrder
    <3> HIDE DEF q
    <3>4. h[q] = array[q] /\ h[j] = array[j]
      BY <1>5, <3>2
    <3>. QED  BY <3>3, <3>4 DEF Edge, q
  <2>2. \A j \in 1 .. n : Edge(array', j)
    BY <1>9, <2>1 DEF Risen
  <2> DEFINE g == array'
  <2>3. g \in Arrays(n) /\ \A j \in 1 .. n : Edge(g, j)
    BY <1>10, <2>2
  <2> HIDE DEF g
  <2>4. MH!Ordered(g)
    BY <1>1, <2>3, OrderedIs
  <2>. QED  BY <2>4 DEF g
<1>14. Grown
  <2>1. MH!Size(array') >= MH!Size(array) /\ MH!Size(array') <= places'
    BY <1>1, <1>2, <1>11, <1>12
  <2>. QED  BY <1>13, <2>1, Zenon DEF Grown
<1>15. Heap(n + 1)'
  BY <1>1, <1>10, <1>12 DEF Heap
<1>16. ASSUME NEW d \in Data
       PROVE  MH!Count(array', d) = MH!Count(array, d) + One(data, d)
  <2>1. h[n] = data /\ n \in 0 .. n
    <3>1. n \in 0 .. n
      BY <1>1
    <3>. QED  BY <1>1, <3>1 DEF h
  <2>2. Often(array', n, d) = Often(h, n, d) - One(h[n], d) + One(data, d)
    BY <1>1, <1>5, <1>7, <1>8, <2>1, UpKeeps
  <2>3. Often(h, n, d) = Cardinality({i \in 0 .. n - 1 : h[i] = d}) + One(h[n], d)
    BY <1>1, <1>5, OftenLast
  <2>4. MH!Count(array, d) = Cardinality({i \in 0 .. n - 1 : h[i] = d})
    <3>1. DOMAIN array = 0 .. n - 1
      BY <1>1
    <3>2. \A i \in 0 .. n - 1 : i \in 0 .. n /\ i < n
      BY <1>1
    <3>3. {i \in DOMAIN array : array[i] = d} = {i \in 0 .. n - 1 : h[i] = d}
      BY <1>5, <3>1, <3>2
    <3>. QED  BY <3>3 DEF MH!Count, MH!Cardinality, Cardinality
  <2>5. MH!Count(array', d) = Often(array', n, d)
    <3>1. DOMAIN array' = 0 .. n
      BY <1>10 DEF Arrays
    <3>. QED  BY <3>1 DEF MH!Count, MH!Cardinality, Cardinality, Often
  <2>6. Often(h, n, d) \in Nat /\ One(data, d) \in Int
    <3>1. Often(h, n, d) \in Nat
      BY <1>1, <1>5, OftenNat
    <3>. QED  BY <3>1 DEF One
  <2> DEFINE x == Often(h, n, d)
             y == One(data, d)
             z == Often(array', n, d)
             c == Cardinality({i \in 0 .. n - 1 : h[i] = d})
  <2>7. z = x - y + y /\ x = c + y /\ x \in Int /\ y \in Int
    BY <2>1, <2>2, <2>3, <2>6
  <2>8. z = x
    <3> HIDE DEF x, y, z, c
    <3>. QED  BY <2>7
  <2>9. z = c + y
    BY <2>7, <2>8
  <2>. QED  BY <2>4, <2>5, <2>9
<1>17. MH!Gained(data)
  <2>1. \A x, d : MH!One(x, d) = One(x, d)
    BY DEF MH!One, One
  <2>. QED  BY <1>16, <2>1 DEF MH!Gained
<1>. QED  BY <1>14, <1>15, <1>17

\* What a pop keeps.
Popped ==
    /\ MH!Size(array') <= places'
    /\ IF MH!Size(array) = 0 THEN array' = array ELSE MH!Lost(popped')
    /\ MH!Ordered(array) /\ ~(MH!Size(array') < MH!Size(array)) => MH!Ordered(array')
    /\ MH!Ordered(array) /\ MH!Size(array') < MH!Size(array) =>
         /\ \A i \in DOMAIN array : array[i] <= popped'
         /\ \A i \in DOMAIN array' :
              MH!InOrder(array', i) \/ array'[i] = array[MH!Size(array) - 1]

\* pop_max_heap, of an empty heap too.
LEMMA HeapPop ==
    ASSUME NEW n, Heap(n), MH!Pop
    PROVE  HeapInv' /\ Popped
<1>1. n \in Nat /\ array \in [0 .. n - 1 -> Int] /\ places \in Nat /\ n <= places
  BY DEF Heap
<1>2. MH!Size(array) = n
  BY <1>1, Sizes0
<1>3. CASE n = 0
  <2>1. UNCHANGED <<array, places>>
    BY <1>2, <1>3 DEF MH!Pop
  <2>2. Heap(n)'
    BY <1>1, <2>1 DEF Heap
  <2>3. /\ ~(MH!Size(array') < MH!Size(array)) /\ MH!Size(array') <= places'
        /\ MH!Ordered(array) => MH!Ordered(array')
    BY <1>1, <1>2, <2>1
  <2>4. Popped
    BY <1>2, <1>3, <2>1, <2>3, Zenon DEF Popped
  <2>. QED  BY <2>2, <2>4 DEF HeapInv
<1>4. CASE n # 0
  <2> DEFINE N == n - 1
             u == CHOOSE x : IsDown(x, array)
             s == u[0]
  <2>1. /\ popped' = array[0] /\ places' = places
        /\ array' = [i \in 0 .. n - 2 |-> MH!SinkHole(array)[i]]
    BY <1>2, <1>4 DEF MH!Pop
  <2>2. /\ N \in Nat /\ array \in Arrays(N) /\ 0 \in 0 .. N /\ N \in 0 .. N /\ n - 2 = N - 1
        /\ DOMAIN array = 0 .. N /\ n = N + 1
    BY <1>1, <1>4 DEF Arrays
  <2> HIDE DEF N
  <2>3. IsDown(u, array)
    BY <2>2, DownExists
  <2>4. MH!SinkHole(array) = s
    BY SinkHoleIs
  <2> HIDE DEF u
  <2>5. Sunk(s, array, N, 0)
    BY <2>2, <2>3, DownSinks
  <2> HIDE DEF s
  <2>6. array' = [i \in 0 .. N - 1 |-> s[i]] /\ s \in Arrays(N) /\ s[N] = array[N]
    BY <2>1, <2>2, <2>4, <2>5 DEF Sunk
  <2>7. array' \in [0 .. N - 1 -> Int] /\ \A i \in 0 .. N - 1 : array'[i] = s[i] /\ i \in 0 .. N
    BY <2>2, <2>6 DEF Arrays
  <2>8. MH!Size(array') = N /\ DOMAIN array' = 0 .. N - 1
    <3> DEFINE g == array'
    <3>1. g \in [0 .. N - 1 -> Int]
      BY <2>7
    <3> HIDE DEF g
    <3>2. MH!Size(g) = N /\ DOMAIN g = 0 .. N - 1
      BY <2>2, <3>1, Sizes0
    <3>. QED  BY <3>2 DEF g
  <2>9. Heap(N)'
    BY <1>1, <2>1, <2>2, <2>7 DEF Heap
  <2>10. MH!Size(array') <= places' /\ MH!Size(array') < MH!Size(array)
    BY <1>1, <1>2, <2>1, <2>2, <2>8
  <2>11. ASSUME NEW d \in Data
         PROVE  MH!Count(array', d) = MH!Count(array, d) - MH!One(popped', d)
    <3>1. MH!Count(array, d) = Often(array, N, d)
      BY <2>2 DEF MH!Count, MH!Cardinality, Cardinality, Often
    <3>2. MH!Count(array', d) = Cardinality({i \in 0 .. N - 1 : s[i] = d})
      <4>1. {i \in DOMAIN array' : array'[i] = d} = {i \in 0 .. N - 1 : s[i] = d}
        BY <2>7, <2>8
      <4>. QED  BY <4>1 DEF MH!Count, MH!Cardinality, Cardinality
    <3>3. Often(s, N, d) = Cardinality({i \in 0 .. N - 1 : s[i] = d}) + One(s[N], d)
      BY <2>2, OftenLast
    <3>4. Often(s, N, d) = Often(array, N, d) - One(array[0], d) + One(array[N], d)
      BY <2>5 DEF Sunk
    <3>5. One(popped', d) = MH!One(popped', d)
      BY DEF One, MH!One
    <3>6. Often(array, N, d) \in Nat
      BY <2>2, OftenNat
    <3> DEFINE x == Cardinality({i \in 0 .. N - 1 : s[i] = d})
    <3>7. x \in Nat
      <4> DEFINE P == {i \in 0 .. N - 1 : s[i] = d}
      <4>1. IsFiniteSet(0 .. N - 1) /\ P \subseteq 0 .. N - 1
        BY <2>2, FS_Interval
      <4> HIDE DEF P
      <4>2. Cardinality(P) \in Nat
        BY <4>1, FS_Subset, FS_CardinalityType
      <4>. QED  BY <4>2 DEF P
    <3> DEFINE o == Often(array, N, d)
               y == One(array[0], d)
               z == One(array[N], d)
    <3>8. y \in Int /\ z \in Int
      BY DEF One
    <3>9. x + z = o - y + z
      BY <2>6, <3>3, <3>4
    <3>10. o \in Nat
      BY <3>6
    <3> HIDE DEF x, o, y, z
    <3>11. x = o - y
      BY <3>7, <3>8, <3>9, <3>10
    <3>12. y = MH!One(popped', d)
      BY <2>1, <3>5 DEF y
    <3>. QED  BY <3>1, <3>2, <3>11, <3>12 DEF x, o
  <2>12. ASSUME MH!Ordered(array)
         PROVE  /\ \A i \in DOMAIN array : array[i] <= popped'
                /\ \A i \in DOMAIN array' :
                     MH!InOrder(array', i) \/ array'[i] = array[n - 1]
    <3>1. \A j \in 1 .. N : Edge(array, j)
      BY <2>2, <2>12, OrderedIs
    <3>2. \A i \in DOMAIN array : array[i] <= popped'
      BY <2>1, <2>2, <3>1, RootLargest
    <3>3. ASSUME NEW i \in 0 .. N - 1, i # 0
          PROVE  array'[MH!Parent(i)] >= array'[i] \/ array'[i] = array[N]
      <4> DEFINE q == MH!Parent(i)
      <4>1. i \in 1 .. N /\ i \in Nat /\ i > 0
        BY <2>2, <3>3
      <4>2. q \in 0 .. i - 1
        BY <4>1, ParentLess
      <4>3. q >= 0 /\ q \in 0 .. N - 1
        BY <2>2, <4>1, <4>2
      <4>4. Edge(s, i) \/ s[i] = array[N]
        BY <2>5, <3>1, <4>1, <4>3 DEF Sunk
      <4> HIDE DEF q
      <4>. QED  BY <2>7, <4>3, <4>4 DEF Edge, q
    <3>4. n - 1 = N
      BY <2>2
    <3>. QED  BY <2>8, <3>2, <3>3, <3>4 DEF MH!InOrder
  <2>13. Popped
    BY <1>2, <1>4, <2>10, <2>11, <2>12, Zenon DEF Popped, MH!Lost
  <2>. QED  BY <2>9, <2>13 DEF HeapInv
<1>. QED  BY <1>3, <1>4

\* Every step of the heap.
LEMMA HeapSteps ==
    ASSUME MH!MaxHeapAssumption, HeapInv, MH!Next
    PROVE  HeapInv' /\ MH!HeapStep
<1>1. PICK n : Heap(n)
  BY DEF HeapInv
<1>2. \A d \in Data : MH!Push(d) => Heap(n + 1)' /\ Grown /\ MH!Gained(d)
  BY <1>1, HeapPush
<1>3. MH!Pop => HeapInv' /\ Popped
  BY <1>1, HeapPop
<1>4. HeapInv'
  BY <1>2, <1>3, Zenon DEF HeapInv, MH!Next
<1>5. MH!Size(array) \in Nat /\ MH!Size(array') \in Nat
  <2>1. \A m : Heap(m) => MH!Size(array) \in Nat
    BY Sizes0 DEF Heap
  <2>2. \A m : Heap(m)' => MH!Size(array') \in Nat
    <3> SUFFICES ASSUME NEW m, Heap(m)'
                 PROVE  MH!Size(array') \in Nat
      OBVIOUS
    <3> DEFINE g == array'
    <3>1. m \in Nat /\ g \in [0 .. m - 1 -> Int]
      BY DEF Heap
    <3> HIDE DEF g
    <3>2. MH!Size(g) \in Nat
      BY <3>1, Sizes0
    <3>. QED  BY <3>2 DEF g
  <2>. QED  BY <1>1, <1>4, <2>1, <2>2, Zenon DEF HeapInv
<1>6. Grown => ~(MH!Size(array') < MH!Size(array))
  BY <1>5 DEF Grown
<1>7. ASSUME NEW d \in Data, MH!Push(d), ~MH!Pop
      PROVE  MH!HeapStep
  BY <1>2, <1>6, <1>7, Zenon DEF MH!HeapStep, Grown
<1>8. ASSUME MH!Pop
      PROVE  MH!HeapStep
  BY <1>2, <1>3, <1>8, Zenon DEF MH!HeapStep, Popped
<1>. QED  BY <1>4, <1>7, <1>8, Zenon DEF MH!Next

\* A push adds one copy of its argument and keeps an ordered heap ordered; a
\* pop takes away a largest value of it and leaves it ordered but for copies of
\* the value that was last; nothing else is lost or doubled, and no place beyond
\* the block is used.  For heaps of any size.
THEOREM HeapKept ==
    ASSUME MH!MaxHeapAssumption
    PROVE  MH!Spec => HeapContract
<1>1. MH!Init => HeapInv
  <2> SUFFICES ASSUME MH!Init
               PROVE  Heap(0)
    BY DEF HeapInv
  <2>. QED  BY DEF MH!Init, MH!MaxHeapAssumption, Heap
<1>2. HeapInv /\ MH!Next => HeapInv' /\ MH!HeapStep
  BY HeapSteps
<1>3. HeapInv /\ UNCHANGED MH!vars => HeapInv'
  BY DEF HeapInv, Heap, MH!vars
<1>. QED  BY <1>1, <1>2, <1>3, PTL DEF MH!Spec, HeapContract, MH!HeapContract

-----------------------------------------------------------------------------
(* The red-black tree: assignments.                                        *)

\* a is on side s of b, as far as the keys go.
Aside(s, a, b) == IF s = "L" THEN Key[a] <= Key[b] ELSE Key[b] <= Key[a]

\* The two sides.
LEMMA TwoSides ==
    ASSUME NEW s \in R!Sides
    PROVE  /\ R!Other(s) \in R!Sides /\ R!Other(s) # s /\ R!Other(R!Other(s)) = s
           /\ \A t \in R!Sides : t = s \/ t = R!Other(s)
           /\ "L" \in R!Sides /\ "R" \in R!Sides
  BY DEF R!Sides, R!Other

\* The order on a side.
LEMMA AsideOrder ==
    ASSUME R!RBTreeAssumption, NEW s \in R!Sides, NEW a \in Nodes, NEW b \in Nodes
    PROVE  /\ Aside(s, a, a)
           /\ Aside(R!Other(s), a, b) <=> Aside(s, b, a)
           /\ \A c \in Nodes : Aside(s, a, b) /\ Aside(s, b, c) => Aside(s, a, c)
  BY DEF R!RBTreeAssumption, Aside, R!Sides, R!Other

\* U is T after an assignment to a child.
KidSet(T, U, s, n, m) ==
    /\ U \in R!Memory /\ U.root = T.root /\ U.par = T.par /\ U.red = T.red
    /\ \A t \in R!Sides, c \in R!Cells :
         U.kid[t][c] = IF t = s /\ c = n THEN m ELSE T.kid[t][c]

\* To a parent.
ParSet(T, U, n, p) ==
    /\ U \in R!Memory /\ U.root = T.root /\ U.kid = T.kid /\ U.red = T.red
    /\ \A c \in R!Cells : U.par[c] = IF c = n THEN p ELSE T.par[c]

\* To colours.
Recolored(T, U, red) ==
    /\ U \in R!Memory /\ U.root = T.root /\ U.kid = T.kid /\ U.par = T.par
    /\ U.red = red

\* To the root.
RootSet(T, U, n) ==
    /\ U \in R!Memory /\ U.root = n /\ U.kid = T.kid /\ U.par = T.par
    /\ U.red = T.red

\* What the assignments do.
LEMMA SetKidDoes ==
    ASSUME NEW T \in R!Memory, NEW s \in R!Sides, NEW n \in R!Cells, NEW m \in R!Cells \cup {NULL}
    PROVE  KidSet(T, R!SetKid(T, s, n, m), s, n, m)
  BY DEF R!SetKid, R!Memory, KidSet

\* SetPar writes one parent pointer.
LEMMA SetParDoes ==
    ASSUME NEW T \in R!Memory, NEW n \in R!Cells, NEW p \in R!Cells \cup {NULL}
    PROVE  ParSet(T, R!SetPar(T, n, p), n, p)
  BY DEF R!SetPar, R!Memory, ParSet

\* Redden changes only the colours.
LEMMA ReddenDoes ==
    ASSUME NEW T \in R!Memory, NEW n \in R!Cells
    PROVE  Recolored(T, R!Redden(T, n), T.red \cup {n})
  BY DEF R!Redden, R!Memory, Recolored

\* Blacken changes only the colours.
LEMMA BlackenDoes ==
    ASSUME NEW T \in R!Memory, NEW n \in R!Cells
    PROVE  Recolored(T, R!Blacken(T, n), T.red \ {n})
  BY DEF R!Blacken, R!Memory, Recolored

\* The assignment to *root changes only the root.
LEMMA RootDoes ==
    ASSUME NEW T \in R!Memory, NEW n \in R!Cells
    PROVE  RootSet(T, [T EXCEPT !.root = n], n)
  BY DEF R!Memory, RootSet

\* What is in a memory.
LEMMA Fields ==
    ASSUME NEW T \in R!Memory
    PROVE  /\ T.root \in R!Cells /\ T.red \in SUBSET R!Cells
           /\ \A c \in R!Cells : T.par[c] \in R!Cells \cup {NULL}
           /\ \A t \in R!Sides, c \in R!Cells : T.kid[t][c] \in R!Cells \cup {NULL}
           /\ T.kid \in [R!Sides -> [R!Cells -> R!Cells \cup {NULL}]]
           /\ T.par \in [R!Cells -> R!Cells \cup {NULL}]
  BY DEF R!Memory

\* Putting m in the place of n.
Replaced(T, U, n, m) ==
    /\ U \in R!Memory
    /\ U.root = (IF n = T.root THEN m ELSE T.root)
    /\ U.par = T.par /\ U.red = T.red
    /\ \A t \in R!Sides, c \in R!Cells :
         U.kid[t][c] = IF n # T.root /\ c = T.par[n] /\ t = R!SideOf(T, n)
                       THEN m ELSE T.kid[t][c]

\* Replace puts m in the place of n and writes nothing else.
LEMMA ReplaceDoes ==
    ASSUME NEW T \in R!Memory, NEW n \in R!Cells, NEW m \in R!Cells,
           n # T.root => T.par[n] \in R!Cells
    PROVE  Replaced(T, R!Replace(T, n, m), n, m)
<1>1. CASE n = T.root
  <2>1. R!Replace(T, n, m) = [T EXCEPT !.root = m]
    BY <1>1 DEF R!Replace
  <2>. QED  BY <1>1, <2>1, RootDoes DEF Replaced, RootSet
<1>2. CASE n # T.root
  <2> DEFINE s == R!SideOf(T, n)
             p == T.par[n]
  <2>1. R!Replace(T, n, m) = R!SetKid(T, s, p, m)
    BY <1>2 DEF R!Replace
  <2>2. s \in R!Sides /\ p \in R!Cells
    BY <1>2 DEF R!SideOf, R!Sides
  <2> HIDE DEF s, p
  <2>3. KidSet(T, R!SetKid(T, s, p, m), s, p, m)
    BY <2>2, SetKidDoes, Zenon
  <2>. QED  BY <1>2, <2>1, <2>3 DEF Replaced, KidSet, s, p
<1>. QED  BY <1>1, <1>2

\* What a rotation does to the memory: up, the child of n away from side s,
\* takes the place of n.
Rotated(T, U, s, n, up, inner) ==
    /\ U \in R!Memory
    /\ U.root = (IF n = T.root THEN up ELSE T.root)
    /\ U.red = T.red
    /\ \A c \in R!Cells :
         U.par[c] = IF c = n THEN up
                    ELSE IF c = up THEN T.par[n]
                    ELSE IF c = inner /\ c # Sentinel THEN n ELSE T.par[c]
    /\ \A t \in R!Sides, c \in R!Cells :
         U.kid[t][c] = IF c = n /\ t = R!Other(s) THEN inner
                       ELSE IF c = up /\ t = s THEN n
                       ELSE IF n # T.root /\ c = T.par[n] /\ t = R!SideOf(T, n) THEN up
                       ELSE T.kid[t][c]

\* A rotation writes these pointers and no others.
LEMMA RotateDoes ==
    ASSUME NEW T \in R!Memory, NEW n \in R!Cells, NEW s \in R!Sides, NEW up \in R!Cells,
           NEW inner \in R!Cells, up = T.kid[R!Other(s)][n], inner = T.kid[s][up],
           up # n, inner # n, inner # up,
           n # T.root => T.par[n] \in R!Cells \ {n, up}
    PROVE  Rotated(T, R!Rotate(T, s, n), s, n, up, inner)
<1> DEFINE T1 == R!SetKid(T, R!Other(s), n, inner)
           T2 == IF inner # Sentinel THEN R!SetPar(T1, inner, n) ELSE T1
           T3 == R!SetPar(T2, up, T2.par[n])
           T4 == R!Replace(T3, n, up)
           T5 == R!SetKid(T4, s, up, n)
           T6 == R!SetPar(T5, n, up)
<1>1. R!Rotate(T, s, n) = T6
  BY DEF R!Rotate
<1> HIDE DEF T6
<1> HIDE DEF T1
<1>2. KidSet(T, T1, R!Other(s), n, inner)
  BY SetKidDoes, TwoSides DEF T1
<1> HIDE DEF T2
<1>3. /\ T2 \in R!Memory /\ T2.root = T1.root /\ T2.kid = T1.kid /\ T2.red = T1.red
      /\ \A c \in R!Cells :
           T2.par[c] = IF c = inner /\ c # Sentinel THEN n ELSE T1.par[c]
  <2>1. T1 \in R!Memory
    BY <1>2 DEF KidSet
  <2>2. ParSet(T1, R!SetPar(T1, inner, n), inner, n)
    BY <2>1, SetParDoes
  <2>. QED  BY <2>1, <2>2, Zenon DEF ParSet, T2
<1> HIDE DEF T3
<1>4. ParSet(T2, T3, up, T2.par[n])
  <2>1. T2.par[n] \in R!Cells \cup {NULL}
    BY <1>3, Fields
  <2>. QED  BY <1>3, <2>1, SetParDoes DEF T3
<1>5. T3.par[n] = T.par[n] /\ T3.root = T.root /\ T3 \in R!Memory
  BY <1>2, <1>3, <1>4 DEF KidSet, ParSet
<1>6. R!SideOf(T3, n) = R!SideOf(T, n) \/ n = T.root
  <2> SUFFICES ASSUME n # T.root
               PROVE  R!SideOf(T3, n) = R!SideOf(T, n)
    OBVIOUS
  <2>1. T3.kid["L"][T.par[n]] = T.kid["L"][T.par[n]]
    BY <1>2, <1>3, <1>4, TwoSides DEF KidSet, ParSet
  <2>. QED  BY <1>5, <2>1 DEF R!SideOf
<1> HIDE DEF T4
<1>7. Replaced(T3, T4, n, up)
  BY <1>5, ReplaceDoes DEF T4
<1>8. /\ T4 \in R!Memory /\ T4.root = (IF n = T.root THEN up ELSE T.root)
      /\ T4.par = T3.par /\ T4.red = T3.red
      /\ \A t \in R!Sides, c \in R!Cells :
         T4.kid[t][c] = IF n # T.root /\ c = T.par[n] /\ t = R!SideOf(T, n)
                        THEN up ELSE T3.kid[t][c]
  BY <1>5, <1>6, <1>7 DEF Replaced
<1> HIDE DEF T5
<1>9. KidSet(T4, T5, s, up, n)
  BY <1>8, SetKidDoes DEF T5
<1>10. ParSet(T5, T6, n, up)
  <2>1. T5 \in R!Memory
    BY <1>9 DEF KidSet
  <2>. QED  BY <2>1, SetParDoes DEF T6
<1>11. \A c \in R!Cells :
         T6.par[c] = IF c = n THEN up
                    ELSE IF c = up THEN T.par[n]
                    ELSE IF c = inner /\ c # Sentinel THEN n ELSE T.par[c]
  BY <1>2, <1>3, <1>4, <1>8, <1>9, <1>10 DEF KidSet, ParSet
<1>12. ASSUME NEW t \in R!Sides, NEW c \in R!Cells
       PROVE  T6.kid[t][c] = IF c = n /\ t = R!Other(s) THEN inner
                       ELSE IF c = up /\ t = s THEN n
                       ELSE IF n # T.root /\ c = T.par[n] /\ t = R!SideOf(T, n) THEN up
                       ELSE T.kid[t][c]
  BY <1>2, <1>3, <1>4, <1>8, <1>9, <1>10 DEF KidSet, ParSet
<1>13. T6 \in R!Memory /\ T6.root = (IF n = T.root THEN up ELSE T.root) /\ T6.red = T.red
  BY <1>2, <1>3, <1>4, <1>8, <1>9, <1>10 DEF KidSet, ParSet
<1>. QED  BY <1>1, <1>11, <1>12, <1>13 DEF Rotated

-----------------------------------------------------------------------------
(* The red-black tree: its shape.                                          *)

\* The child c of n on side s and the child d on the other side: which nodes
\* are below them (C, D) and n (X), n included, and what c has for a parent.
Half(L, n, s, c, pc, X, C, D) ==
    /\ c \in L \cup {Sentinel}
    /\ c \in L => pc = n
    /\ n \notin C
    /\ \A m \in C : Aside(s, m, n)
    /\ C \cap D = {}
    /\ X = {n} \cup C \cup D

\* Half, for the children that T has.
Kid(T, L, B, n, s) ==
    Half(L, n, s, T.kid[s][n], T.par[T.kid[s][n]], B[n],
         B[T.kid[s][n]], B[T.kid[R!Other(s)][n]])

\* A search tree of the nodes L.  B[n] is what is below n.
Shape(T, L, B) ==
    /\ T \in R!Memory /\ L \subseteq Nodes
    /\ B \in [L \cup {Sentinel} -> SUBSET L] /\ B[Sentinel] = {}
    /\ T.root \in L \cup {Sentinel} /\ B[T.root] = L
    /\ \A n \in L, s \in R!Sides : Kid(T, L, B, n, s)

\* What a node n and its child c on side s have to do with one another.
Sits(T, L, B, n, s, c) ==
    /\ n \in Nodes /\ n \in R!Cells /\ n # Sentinel /\ n \in B[n] /\ B[n] \subseteq L
    /\ c \in L \cup {Sentinel} /\ c \in R!Cells /\ c # n
    /\ c \in L => T.par[c] = n /\ c \in B[c]
    /\ B[c] \subseteq B[n] \ {n} /\ B[c] \subseteq L
    /\ B[c] \cap B[T.kid[R!Other(s)][n]] = {}
    /\ B[n] = {n} \cup B[c] \cup B[T.kid[R!Other(s)][n]]
    /\ \A m \in B[c] : Aside(s, m, n)

\* In a tree every node and every child of it are like this.
LEMMA Below ==
    ASSUME R!RBTreeAssumption, NEW T, NEW L, NEW B, Shape(T, L, B), NEW n \in L, NEW s \in R!Sides
    PROVE  Sits(T, L, B, n, s, T.kid[s][n])
<1>1. ASSUME NEW m \in L
      PROVE  Kid(T, L, B, m, s) /\ m \in B[m] /\ m # Sentinel /\ m \in R!Cells
  BY DEF Shape, Kid, Half, R!RBTreeAssumption, R!Cells
<1>2. B[n] \subseteq L
  BY DEF Shape
<1>. QED  BY <1>1, <1>2 DEF Shape, Kid, Half, R!RBTreeAssumption, R!Cells, Sits

\* A node is below itself.
LEMMA BelowItself ==
    ASSUME R!RBTreeAssumption, NEW T, NEW L, NEW B, Shape(T, L, B), NEW n \in L
    PROVE  n \in Nodes /\ n \in R!Cells /\ n # Sentinel /\ n \in B[n] /\ B[n] \subseteq L
<1>1. "L" \in R!Sides
  BY DEF R!Sides
<1>. QED  BY <1>1, Below DEF Sits

\* What is below a node is it or is below one of its children.
LEMMA BelowKid ==
    ASSUME R!RBTreeAssumption, NEW T, NEW L, NEW B, Shape(T, L, B), NEW n \in L, NEW m \in B[n],
           m # n
    PROVE  \E s \in R!Sides : m \in B[T.kid[s][n]] /\ T.kid[s][n] \in L
<1>1. "L" \in R!Sides /\ "R" \in R!Sides /\ R!Other("L") = "R"
  BY DEF R!Sides, R!Other
<1>2. Sits(T, L, B, n, "L", T.kid["L"][n]) /\ Sits(T, L, B, n, "R", T.kid["R"][n])
  BY <1>1, Below
<1>3. B[Sentinel] = {}
  BY DEF Shape
<1>. QED  BY <1>1, <1>2, <1>3 DEF Sits

\* Of any nodes there is one above which there is none of them, and one below
\* which there is none.
LEMMA Extremes ==
    ASSUME R!RBTreeAssumption, NEW T, NEW L, NEW B, Shape(T, L, B), NEW S, S \subseteq L, S # {}
    PROVE  /\ \E c \in S : \A d \in S : ~(B[d] \subseteq B[c] \ {c})
           /\ \E c \in S : \A d \in S : ~(B[c] \subseteq B[d] \ {d})
<1> DEFINE Z(c) == Cardinality(B[c])
           K == Cardinality(L)
<1>1. IsFiniteSet(L) /\ K \in Nat
  <2>1. L \subseteq Nodes /\ IsFiniteSet(Nodes)
    BY DEF Shape, R!RBTreeAssumption, R!IsFiniteSet, IsFiniteSet
  <2>. QED  BY <2>1, FS_Subset, FS_CardinalityType
<1>2. ASSUME NEW c \in L
      PROVE  Z(c) \in 0 .. K /\ c \in B[c] /\ IsFiniteSet(B[c])
  <2>1. B[c] \subseteq L /\ c \in B[c]
    BY BelowItself
  <2>. QED  BY <1>1, <2>1, FS_Subset, FS_CardinalityType
<1>3. ASSUME NEW c \in L, NEW d \in L, B[d] \subseteq B[c] \ {c}
      PROVE  Z(d) < Z(c)
  <2> DEFINE E == B[c] \ {c}
  <2>1. IsFiniteSet(E) /\ Cardinality(E) = Cardinality(B[c]) - 1
    BY <1>2, FS_RemoveElement
  <2>2. Cardinality(B[d]) <= Cardinality(E)
    BY <1>3, <2>1, FS_Subset
  <2>. QED  BY <1>2, <2>1, <2>2
<1> HIDE DEF Z, K
<1>4. \E c \in S : \A d \in S : ~(B[d] \subseteq B[c] \ {c})
  <2> DEFINE N == {Z(c) : c \in S}
  <2>1. N \subseteq Nat /\ N # {}
    BY <1>1, <1>2
  <2>2. PICK k \in N : \A j \in N : k <= j
    <3> HIDE DEF N
    <3>. QED  BY <2>1, LeastNumber, Zenon
  <2>3. PICK c \in S : Z(c) = k
    BY <2>2
  <2>4. ASSUME NEW d \in S, B[d] \subseteq B[c] \ {c}
        PROVE  FALSE
    <3>1. Z(d) < k /\ k <= Z(d)
      BY <1>3, <2>2, <2>3, <2>4
    <3>2. Z(d) \in Nat /\ k \in Nat
      BY <1>1, <1>2, <2>1
    <3>. QED  BY <3>1, <3>2
  <2>. QED  BY <2>4
<1>5. \E c \in S : \A d \in S : ~(B[c] \subseteq B[d] \ {d})
  <2> DEFINE N == {K - Z(c) : c \in S}
  <2>1. N \subseteq Nat /\ N # {}
    BY <1>1, <1>2
  <2>2. PICK k \in N : \A j \in N : k <= j
    <3> HIDE DEF N
    <3>. QED  BY <2>1, LeastNumber, Zenon
  <2>3. PICK c \in S : K - Z(c) = k
    BY <2>2
  <2>4. ASSUME NEW d \in S, B[c] \subseteq B[d] \ {d}
        PROVE  FALSE
    <3>1. Z(c) < Z(d) /\ k <= K - Z(d)
      BY <1>3, <2>2, <2>3, <2>4
    <3>2. Z(d) \in Nat /\ Z(c) \in Nat /\ K \in Nat
      BY <1>1, <1>2
    <3>. QED  BY <2>3, <3>1, <3>2
  <2>. QED  BY <2>4
<1>. QED  BY <1>4, <1>5

\* Every node but the root is the child of its parent it is taken for.
LEMMA Upward ==
    ASSUME R!RBTreeAssumption, NEW T, NEW L, NEW B, Shape(T, L, B), NEW n \in L, n # T.root
    PROVE  /\ T.par[n] \in L /\ T.par[n] # n
           /\ R!SideOf(T, n) \in R!Sides /\ T.kid[R!SideOf(T, n)][T.par[n]] = n
           /\ B[n] \subseteq B[T.par[n]] \ {T.par[n]}
<1> DEFINE S == {c \in L : n \in B[c] /\ n # c}
<1>1. T.root \in S
  BY DEF Shape
<1>2. PICK c \in S : \A d \in S : ~(B[d] \subseteq B[c] \ {c})
  <2>1. S \subseteq L /\ S # {}
    BY <1>1
  <2> HIDE DEF S
  <2>. QED  BY <2>1, Extremes
<1>3. PICK s \in R!Sides : n \in B[T.kid[s][c]] /\ T.kid[s][c] \in L
  BY <1>2, BelowKid
<1> DEFINE d == T.kid[s][c]
<1>4. Sits(T, L, B, c, s, d)
  BY <1>2, Below
<1>5. d \in L
  BY <1>3
<1> HIDE DEF d
<1>6. d = n
  BY <1>2, <1>3, <1>4, <1>5 DEF d, Sits
<1>7. T.par[n] = c /\ T.kid[s][c] = n
  BY <1>4, <1>5, <1>6 DEF d, Sits
<1>8. R!SideOf(T, n) \in R!Sides /\ T.kid[R!SideOf(T, n)][c] = n
  BY <1>7 DEF R!SideOf, R!Sides
<1>. QED  BY <1>2, <1>4, <1>6, <1>7, <1>8 DEF Sits

\* The root is nobody's child.
LEMMA RootNoKid ==
    ASSUME R!RBTreeAssumption, NEW T, NEW L, NEW B, Shape(T, L, B), NEW n \in L, NEW s \in R!Sides
    PROVE  T.kid[s][n] # T.root
<1>1. B[T.kid[s][n]] \subseteq B[n] \ {n} /\ n \in L
  BY Below DEF Sits
<1>2. B[T.root] = L
  BY DEF Shape
<1>. QED  BY <1>1, <1>2

\* What is above n is above its parent or is its parent.
LEMMA Between ==
    ASSUME R!RBTreeAssumption, NEW T, NEW L, NEW B, Shape(T, L, B), NEW n \in L, NEW c \in L,
           n \in B[c], n # c
    PROVE  T.par[n] \in B[c]
<1> DEFINE S == {d \in L : n \in B[d] /\ n # d /\ T.par[n] \notin B[d]}
<1> SUFFICES ASSUME S # {}
             PROVE  FALSE
  OBVIOUS
<1>2. PICK a \in S : \A d \in S : ~(B[d] \subseteq B[a] \ {a})
  <2>1. S \subseteq L
    OBVIOUS
  <2> HIDE DEF S
  <2>. QED  BY <2>1, Extremes
<1>3. PICK s \in R!Sides : n \in B[T.kid[s][a]] /\ T.kid[s][a] \in L
  BY <1>2, BelowKid
<1> DEFINE d == T.kid[s][a]
<1>4. Sits(T, L, B, a, s, d)
  BY <1>2, Below
<1>5. d \in L
  BY <1>3
<1> HIDE DEF d
<1>. QED  BY <1>2, <1>3, <1>4, <1>5 DEF d, Sits

\* A rotation about n keeps the shape.
Turned(T, U, L, s, n, up) ==
    /\ Rotated(T, U, s, n, up, T.kid[s][up])
    /\ \E B : Shape(U, L, B)

\* up is the child of n away from side s.
Away(T, s, n, up) == up = T.kid[R!Other(s)][n]

\* A rotation about a node whose child on the other side is a node keeps the
\* shape: the same nodes in the same order of keys.
LEMMA RotateShape ==
    ASSUME R!RBTreeAssumption, NEW T, NEW L, NEW B, Shape(T, L, B), NEW n \in L, NEW s \in R!Sides,
           NEW up \in L, Away(T, s, n, up)
    PROVE  Turned(T, R!Rotate(T, s, n), L, s, n, up)
<1> DEFINE o == R!Other(s)
           U == R!Rotate(T, s, n)
           inner == T.kid[s][up]
           outer == T.kid[o][up]
           side == T.kid[s][n]
           p == T.par[n]
           X == {n} \cup B[side] \cup B[inner]
           C == [c \in L \cup {Sentinel} |-> IF c = n THEN X ELSE IF c = up THEN B[n] ELSE B[c]]
<1>1. o \in R!Sides /\ o # s /\ R!Other(o) = s /\ \A t \in R!Sides : t = s \/ t = o
  BY TwoSides
<1>2. Sits(T, L, B, n, s, side) /\ Sits(T, L, B, n, o, up)
  BY <1>1, Below DEF Away
<1>3. Sits(T, L, B, up, s, inner) /\ Sits(T, L, B, up, o, outer)
  BY <1>1, Below
<1>4. T \in R!Memory /\ B[Sentinel] = {} /\ L \subseteq Nodes /\ B \in [L \cup {Sentinel} -> SUBSET L]
  BY DEF Shape
<1>5. n # T.root =>
        /\ p \in L /\ p # n /\ p \in R!Cells
        /\ R!SideOf(T, n) \in R!Sides /\ T.kid[R!SideOf(T, n)][p] = n
        /\ B[n] \subseteq B[p] \ {p}
  BY Upward, BelowItself
<1> HIDE DEF inner, outer, side, p, U
<1>9. /\ B[n] = {n} \cup B[side] \cup B[up] /\ B[up] = {up} \cup B[inner] \cup B[outer]
      /\ B[side] \cap B[up] = {} /\ B[inner] \cap B[outer] = {}
      /\ n \notin B[side] /\ n \notin B[up] /\ up \notin B[inner] /\ up \notin B[outer]
      /\ B[inner] \subseteq B[up] /\ B[outer] \subseteq B[up] /\ B[n] \subseteq L
      /\ up \in B[up] /\ n \in B[n]
  <2>1. B[n] = {n} \cup B[side] \cup B[up] /\ B[side] \cap B[up] = {} /\ n \notin B[side]
        /\ n \in B[n] /\ B[n] \subseteq L
    BY <1>2, Zenon DEF Sits, Away, o
  <2>2. n \notin B[up] /\ up \in B[up]
    BY <1>2 DEF Sits
  <2>3. B[up] = {up} \cup B[inner] \cup B[outer] /\ B[inner] \cap B[outer] = {}
        /\ up \notin B[inner]
    BY <1>3 DEF Sits, o, outer
  <2>4. up \notin B[outer]
    BY <1>3 DEF Sits
  <2>. QED  BY <2>1, <2>2, <2>3, <2>4
<1> HIDE DEF o
<1>6. up # n /\ inner # n /\ inner # up /\ side # up /\ outer # n /\ outer # up /\ side # n
      /\ (inner \in L => inner # side) /\ (inner \in L => inner # outer)
      /\ (side \in L => side # outer)
  <2>1. up # n /\ inner # up /\ outer # up /\ side # n
    BY <1>2, <1>3 DEF Sits
  <2>2. /\ side \in L => side \in B[side]
        /\ inner \in L => inner \in B[inner]
        /\ outer \in L => outer \in B[outer]
    BY <1>2, <1>3 DEF Sits
  <2>3. inner # n /\ outer # n
    BY <1>9, <2>2
  <2>4. side # up
    BY <1>9
  <2>5. inner \in L => inner # side
    BY <1>9, <2>2
  <2>6. side \in L => side # outer
    BY <1>9, <2>2
  <2>7. inner \in L => inner # outer
    BY <1>9, <2>2
  <2>. QED  BY <2>1, <2>3, <2>4, <2>5, <2>6, <2>7, Zenon
<1>7. n # T.root => p # up
  BY <1>2, <1>5 DEF Sits
<1>8. Rotated(T, U, s, n, up, inner)
  <2>1. n # T.root => T.par[n] \in R!Cells \ {n, up}
    BY <1>5, <1>7 DEF p
  <2>2. n \in R!Cells /\ up \in R!Cells /\ inner \in R!Cells
    BY <1>2, <1>3 DEF Sits
  <2>3. up = T.kid[R!Other(s)][n] /\ inner = T.kid[s][up]
    BY DEF inner, Away
  <2>. QED  BY <1>4, <1>6, <2>1, <2>2, <2>3, RotateDoes, Zenon DEF U
<1>10. X \subseteq L
  BY <1>9 DEF X
<1> HIDE DEF X
<1>11. /\ C \in [L \cup {Sentinel} -> SUBSET L] /\ C[n] = X /\ C[up] = B[n]
       /\ \A c \in L \cup {Sentinel} : c # n /\ c # up => C[c] = B[c]
  BY <1>4, <1>6, <1>10
<1> HIDE DEF C
<1>12. n \in R!Cells /\ up \in R!Cells /\ n \in Nodes /\ up \in Nodes /\ n # Sentinel /\ up # Sentinel
       /\ side \in R!Cells /\ inner \in R!Cells /\ outer \in R!Cells
  BY <1>2, <1>3 DEF Sits
\* The order along the new edge.
<1>13. /\ Aside(s, n, up)
       /\ \A m \in X : Aside(s, m, up)
       /\ \A m \in B[inner] : Aside(o, m, n)
  <2>1. Aside(o, up, n) /\ \A m \in B[up] : Aside(o, m, n)
    BY <1>2, <1>9 DEF Sits
  <2>2. Aside(s, n, up)
    BY <1>1, <1>12, <2>1, AsideOrder DEF o
  <2>3. ASSUME NEW m \in B[side]
        PROVE  Aside(s, m, up)
    <3>1. Aside(s, m, n) /\ m \in Nodes
      BY <1>2, <1>4 DEF Sits
    <3>. QED  BY <1>12, <2>2, <3>1, AsideOrder
  <2>4. \A m \in B[inner] : Aside(s, m, up)
    BY <1>3 DEF Sits
  <2>. QED  BY <1>9, <2>1, <2>2, <2>3, <2>4 DEF X
\* The two nodes that turn, the parent, and all others.
<1>14. ASSUME NEW t \in R!Sides
       PROVE  Kid(U, L, C, n, t)
  <2>1. U.kid[s][n] = side /\ U.kid[o][n] = inner
    <3>1. U.kid[s][n] = side
      BY <1>1, <1>5, <1>6, <1>8, <1>12 DEF Rotated, side, o, p
    <3>2. U.kid[o][n] = inner
      BY <1>1, <1>8, <1>12 DEF Rotated, o
    <3>. QED  BY <3>1, <3>2
  <2>2. side \in L => U.par[side] = n
    BY <1>2, <1>6, <1>8, <1>12 DEF Rotated, Sits
  <2>3. inner \in L => U.par[inner] = n
    <3>1. inner \in L => inner # Sentinel
      BY <1>4 DEF R!RBTreeAssumption
    <3>. QED  BY <1>6, <1>8, <1>12, <3>1 DEF Rotated
  <2>4. C[side] = B[side] /\ C[inner] = B[inner] /\ side \in L \cup {Sentinel}
        /\ inner \in L \cup {Sentinel}
    BY <1>2, <1>3, <1>6, <1>11 DEF Sits
  <2>5. Half(L, n, s, side, U.par[side], X, B[side], B[inner])
    BY <1>2, <1>9, <2>2, <2>4 DEF Half, Sits, X
  <2>6. Half(L, n, o, inner, U.par[inner], X, B[inner], B[side])
    BY <1>9, <1>13, <2>3, <2>4 DEF Half, X
  <2>7. Kid(U, L, C, n, s)
    BY <1>11, <2>1, <2>4, <2>5 DEF Kid, o
  <2>8. Kid(U, L, C, n, o)
    BY <1>1, <1>11, <2>1, <2>4, <2>6 DEF Kid
  <2>. QED  BY <1>1, <2>7, <2>8
<1>15. ASSUME NEW t \in R!Sides
       PROVE  Kid(U, L, C, up, t)
  <2>1. U.kid[s][up] = n /\ U.kid[o][up] = outer
    <3>1. U.kid[s][up] = n
      BY <1>6, <1>8, <1>12 DEF Rotated
    <3>2. U.kid[o][up] = outer
      BY <1>1, <1>6, <1>7, <1>8, <1>12 DEF Rotated, outer, p
    <3>. QED  BY <3>1, <3>2
  <2>2. U.par[n] = up
    BY <1>8, <1>12 DEF Rotated
  <2>3. outer \in L => U.par[outer] = up
    <3>1. outer \in L => T.par[outer] = up
      BY <1>3 DEF Sits
    <3>2. outer \in L => ~(outer = inner /\ outer # Sentinel)
      BY <1>6
    <3>. QED  BY <1>6, <1>8, <1>12, <3>1, <3>2 DEF Rotated
  <2>4. C[outer] = B[outer] /\ outer \in L \cup {Sentinel}
    BY <1>3, <1>6, <1>11 DEF Sits
  <2>5. B[n] = {up} \cup X \cup B[outer] /\ up \notin X /\ X \cap B[outer] = {}
    BY <1>6, <1>9, <1>9 DEF X
  <2>6. Half(L, up, s, n, U.par[n], B[n], X, B[outer])
    <3>1. n \in L \cup {Sentinel}
      OBVIOUS
    <3>. QED  BY <1>13, <2>2, <2>5, <3>1, Zenon DEF Half
  <2>7. Half(L, up, o, outer, U.par[outer], B[n], B[outer], X)
    BY <1>3, <1>9, <2>3, <2>4, <2>5 DEF Half, Sits
  <2>8. Kid(U, L, C, up, s)
    BY <1>11, <2>1, <2>4, <2>6 DEF Kid, o
  <2>9. Kid(U, L, C, up, o)
    BY <1>1, <1>11, <2>1, <2>4, <2>7 DEF Kid
  <2>. QED  BY <1>1, <2>8, <2>9
<1>16. ASSUME NEW c \in L, c # n, c # up, NEW t \in R!Sides
       PROVE  Kid(U, L, C, c, t)
  <2> DEFINE d == T.kid[t][c]
             e == T.kid[R!Other(t)][c]
             d2 == U.kid[t][c]
             e2 == U.kid[R!Other(t)][c]
  <2>1. Sits(T, L, B, c, t, d) /\ Sits(T, L, B, c, R!Other(t), e) /\ R!Other(t) \in R!Sides
        /\ R!Other(t) # t
    BY Below, TwoSides
  <2>2. Kid(T, L, B, c, t)
    BY DEF Shape
  <2>3. d # T.root /\ e # T.root
    BY <2>1, RootNoKid
  <2>4. Half(L, c, t, d, T.par[d], B[c], B[d], B[e])
    BY <2>2 DEF Kid
  <2>5. T.par[up] = n
    BY <1>2 DEF Sits
  <2>6. d # up /\ e # up
    BY <1>16, <2>1, <2>5 DEF Sits
  <2>7. C[c] = B[c]
    BY <1>11, <1>16
  <2>8. CASE d = n
    <3>1. p = c /\ n # T.root /\ R!SideOf(T, n) = t /\ e # n
      <4>1. p = c /\ n # T.root
        BY <2>1, <2>3, <2>8 DEF Sits, p
      <4>2. e # n
        BY <2>1, <2>8, TwoSides DEF Sits
      <4>. QED  BY <1>5, <2>1, <4>1, <4>2, TwoSides
    <3>2. d2 = up /\ e2 = e
      BY <1>8, <1>12, <1>16, <2>1, <3>1 DEF Rotated, p, Sits
    <3>3. U.par[up] = c
      BY <1>6, <1>8, <1>12, <3>1 DEF Rotated, p
    <3>4. C[d2] = B[d] /\ C[e2] = B[e]
      BY <1>11, <2>1, <2>6, <2>8, <3>1, <3>2 DEF Sits
    <3>5. Half(L, c, t, up, c, B[c], B[d], B[e])
      BY <2>4 DEF Half
    <3>. QED  BY <2>7, <3>2, <3>3, <3>4, <3>5 DEF Kid
  <2>9. CASE d # n
    <3>1. ~(n # T.root /\ c = p /\ t = R!SideOf(T, n))
      BY <1>5, <2>9
    <3>2. d2 = d
      BY <1>8, <1>16, <2>1, <3>1 DEF Rotated, p, Sits
    <3>3. d \in L => U.par[d] = c
      <4> SUFFICES ASSUME d \in L
                   PROVE  U.par[d] = c
        OBVIOUS
      <4>1. T.par[d] = c /\ d \in R!Cells
        BY <2>1 DEF Sits
      <4>2. d # inner
        BY <1>3, <1>16, <4>1 DEF Sits
      <4>. QED  BY <1>8, <2>6, <2>9, <4>1, <4>2 DEF Rotated
    <3>4. C[d2] = B[d]
      BY <1>11, <2>1, <2>6, <2>9, <3>2 DEF Sits
    <3>5. C[e2] = B[e]
      <4>1. CASE e = n
        <5>1. p = c /\ n # T.root
          BY <2>1, <2>3, <4>1 DEF Sits, p
        <5>2. R!SideOf(T, n) = R!Other(t)
          BY <1>5, <2>1, <2>9, <5>1, TwoSides
        <5>3. e2 = up
          BY <1>8, <1>16, <2>1, <5>1, <5>2 DEF Rotated, p, Sits
        <5>. QED  BY <1>11, <4>1, <5>3
      <4>2. CASE e # n
        <5>1. ~(n # T.root /\ c = p /\ R!Other(t) = R!SideOf(T, n))
          BY <1>5, <4>2
        <5>2. e2 = e
          BY <1>8, <1>16, <2>1, <5>1 DEF Rotated, p, Sits
        <5>. QED  BY <1>11, <2>1, <2>6, <4>2, <5>2 DEF Sits
      <4>. QED  BY <4>1, <4>2
    <3>6. Half(L, c, t, d, U.par[d], B[c], B[d], B[e])
      BY <2>4, <3>3 DEF Half
    <3>. QED  BY <2>7, <3>2, <3>4, <3>5, <3>6 DEF Kid
  <2>. QED  BY <2>8, <2>9
<1>17. U \in R!Memory /\ U.root = (IF n = T.root THEN up ELSE T.root)
  BY <1>8 DEF Rotated
<1>18. C[Sentinel] = {} /\ U.root \in L \cup {Sentinel} /\ C[U.root] = L
  <2>1. T.root \in L \cup {Sentinel} /\ B[T.root] = L /\ Sentinel \in L \cup {Sentinel}
    BY DEF Shape
  <2>2. T.root # up
    <3>1. T.kid[o][n] # T.root
      BY <1>1, RootNoKid
    <3>. QED  BY <3>1 DEF o, Away
  <2>. QED  BY <1>4, <1>11, <1>12, <1>17, <2>1, <2>2
<1>19. Shape(U, L, C)
  <2>1. ASSUME NEW c \in L, NEW t \in R!Sides
        PROVE  Kid(U, L, C, c, t)
    <3>1. CASE c = n
      BY <1>14, <3>1
    <3>2. CASE c = up
      BY <1>15, <3>2
    <3>3. CASE c # n /\ c # up
      BY <1>16, <3>3
    <3>. QED  BY <3>1, <3>2, <3>3
  <2>2. U \in R!Memory /\ L \subseteq Nodes /\ C \in [L \cup {Sentinel} -> SUBSET L]
    BY <1>4, <1>11, <1>17, Zenon
  <2>. QED  BY <1>18, <2>1, <2>2, Zenon DEF Shape
<1>. QED  BY <1>8, <1>19 DEF Turned, U, inner

\* What a rotation about n, with its child up, changes for the nodes.
Swung(T, U, L, s, n, up) ==
    /\ U \in R!Memory /\ U.red = T.red
    /\ U.root = (IF n = T.root THEN up ELSE T.root)
    /\ U.kid[s][n] = T.kid[s][n] /\ U.kid[R!Other(s)][n] = T.kid[s][up]
    /\ U.kid[s][up] = n /\ U.kid[R!Other(s)][up] = T.kid[R!Other(s)][up]
    /\ \A c \in L, t \in R!Sides :
         c # n /\ c # up =>
           /\ T.kid[t][c] # up
           /\ U.kid[t][c] = IF T.kid[t][c] = n THEN up ELSE T.kid[t][c]
    /\ \A c \in R!Cells, t \in R!Sides : c \notin L => U.kid[t][c] = T.kid[t][c]
    /\ U.par[n] = up /\ U.par[up] = T.par[n]
    /\ T.kid[s][up] \in L => U.par[T.kid[s][up]] = n
    /\ \A c \in R!Cells : c # n /\ c # up /\ (c = Sentinel \/ c # T.kid[s][up])
                          => U.par[c] = T.par[c]
    /\ \E B : Shape(U, L, B)

\* That is what a rotation does.
LEMMA RotateSwings ==
    ASSUME R!RBTreeAssumption, NEW T, NEW L, NEW B, Shape(T, L, B), NEW n \in L, NEW s \in R!Sides,
           NEW up \in L, up = T.kid[R!Other(s)][n]
    PROVE  Swung(T, R!Rotate(T, s, n), L, s, n, up)
<1> DEFINE o == R!Other(s)
           U == R!Rotate(T, s, n)
           inner == T.kid[s][up]
           p == T.par[n]
<1>1. o \in R!Sides /\ o # s /\ R!Other(o) = s /\ \A t \in R!Sides : t = s \/ t = o
  BY TwoSides
<1>2. Sits(T, L, B, n, s, T.kid[s][n]) /\ Sits(T, L, B, n, o, up)
  BY <1>1, Below
<1>3. Sits(T, L, B, up, s, inner) /\ Sits(T, L, B, up, o, T.kid[o][up])
  BY <1>1, Below
<1>4. n # T.root =>
        /\ p \in L /\ p # n
        /\ R!SideOf(T, n) \in R!Sides /\ T.kid[R!SideOf(T, n)][p] = n
        /\ B[n] \subseteq B[p] \ {p}
  BY Upward
<1>5. Turned(T, U, L, s, n, up)
  <2>1. Away(T, s, n, up)
    BY DEF Away
  <2>. QED  BY <2>1, RotateShape
<1>6. Rotated(T, U, s, n, up, inner) /\ \E C : Shape(U, L, C)
  BY <1>5 DEF Turned
<1> HIDE DEF U, inner, p
<1>7. up # n /\ n \in R!Cells /\ up \in R!Cells /\ inner \in R!Cells
      /\ n # Sentinel /\ up # Sentinel /\ (n # T.root => p # up) /\ T.par[up] = n
  BY <1>2, <1>3, <1>4, Zenon DEF Sits
<1>8. U.kid[s][n] = T.kid[s][n] /\ U.kid[o][n] = inner
  <2>1. U.kid[s][n] = T.kid[s][n]
    BY <1>1, <1>4, <1>6, <1>7 DEF Rotated, p
  <2>2. U.kid[o][n] = inner
    BY <1>1, <1>6, <1>7 DEF Rotated
  <2>. QED  BY <2>1, <2>2
<1>9. U.kid[s][up] = n /\ U.kid[o][up] = T.kid[o][up]
  <2>1. U.kid[s][up] = n
    BY <1>1, <1>6, <1>7 DEF Rotated
  <2>2. U.kid[o][up] = T.kid[o][up]
    BY <1>1, <1>6, <1>7 DEF Rotated, p
  <2>. QED  BY <2>1, <2>2
<1>10. ASSUME NEW c \in L, NEW t \in R!Sides, c # n, c # up
       PROVE  /\ T.kid[t][c] # up
              /\ U.kid[t][c] = IF T.kid[t][c] = n THEN up ELSE T.kid[t][c]
  <2>1. Sits(T, L, B, c, t, T.kid[t][c]) /\ T.kid[t][c] # T.root
    BY Below, RootNoKid
  <2>2. T.kid[t][c] # up
    BY <1>7, <1>10, <2>1 DEF Sits
  <2>3. T.kid[t][c] = n <=> (n # T.root /\ c = p /\ t = R!SideOf(T, n))
    <3>1. ASSUME T.kid[t][c] = n
          PROVE  n # T.root /\ c = p /\ t = R!SideOf(T, n)
      <4>1. n # T.root /\ c = p
        BY <2>1, <3>1 DEF Sits, p
      <4>2. t = R!SideOf(T, n)
        <5> SUFFICES ASSUME t # R!SideOf(T, n)
                     PROVE  FALSE
          OBVIOUS
        <5>1. R!SideOf(T, n) = R!Other(t)
          BY <1>4, <4>1, TwoSides
        <5>2. T.kid[R!Other(t)][c] = n
          BY <1>4, <4>1, <5>1
        <5>. QED  BY <2>1, <3>1, <5>2 DEF Sits
      <4>. QED  BY <4>1, <4>2
    <3>. QED  BY <1>4, <3>1
  <2>4. U.kid[t][c] = IF n # T.root /\ c = p /\ t = R!SideOf(T, n) THEN up ELSE T.kid[t][c]
    BY <1>6, <1>10, <2>1 DEF Rotated, p, Sits
  <2>. QED  BY <2>2, <2>3, <2>4
<1>11. ASSUME NEW c \in R!Cells, NEW t \in R!Sides, c \notin L
       PROVE  U.kid[t][c] = T.kid[t][c]
  <2>1. c # n /\ c # up /\ ~(n # T.root /\ c = p)
    BY <1>4, <1>11
  <2>. QED  BY <1>6, <1>11, <2>1 DEF Rotated, p
<1>12. U.par[n] = up /\ U.par[up] = T.par[n]
  BY <1>6, <1>7 DEF Rotated
<1>13. inner \in L => U.par[inner] = n
  <2> SUFFICES ASSUME inner \in L
               PROVE  U.par[inner] = n
    OBVIOUS
  <2>1. inner # n /\ inner # up /\ inner # Sentinel
    <3>1. inner # up /\ T.par[inner] = up
      BY <1>3 DEF Sits
    <3>2. inner # n
      BY <1>2, <1>3, Zenon DEF Sits
    <3>3. Sentinel \notin L
      BY DEF Shape, R!RBTreeAssumption
    <3>. QED  BY <3>1, <3>2, <3>3
  <2>. QED  BY <1>6, <1>7, <2>1 DEF Rotated
<1>14. \A c \in R!Cells : c # n /\ c # up /\ (c = Sentinel \/ c # inner)
                          => U.par[c] = T.par[c]
  BY <1>6 DEF Rotated
<1>15. U \in R!Memory /\ U.red = T.red /\ U.root = (IF n = T.root THEN up ELSE T.root)
  BY <1>6 DEF Rotated
<1>. QED  BY <1>6, <1>8, <1>9, <1>10, <1>11, <1>12, <1>13, <1>14, <1>15 DEF Swung, inner, U

-----------------------------------------------------------------------------
(* The red-black tree: colours.                                            *)

\* The black nodes that n adds to a way down.
Black(T, n) == IF n \in T.red THEN 0 ELSE 1

\* b[n] black nodes are below n, whichever way; on side s of p one is missing.
Heights(T, L, b, p, s) ==
    /\ b \in [L \cup {Sentinel} -> Nat] /\ b[Sentinel] = 0
    /\ \A n \in L, t \in R!Sides :
         b[n] = b[T.kid[t][n]] + Black(T, n) + (IF n = p /\ t = s THEN 1 ELSE 0)

\* No red node but x has a red parent.
ApartBut(T, L, x) ==
    \A n \in L, t \in R!Sides :
        n \in T.red /\ T.kid[t][n] \in T.red => T.kid[t][n] = x

\* What is not in the tree: the sentinel and free nodes.
Outside(T, L) ==
    /\ Sentinel \notin T.red
    /\ \A c \in R!Cells, t \in R!Sides : c \notin L => T.kid[t][c] = NULL

\* All that holds of a tree between two calls.
Good(T, L) ==
    /\ \E B : Shape(T, L, B)
    /\ \E b : Heights(T, L, b, NULL, "L")
    /\ ApartBut(T, L, NULL)
    /\ Outside(T, L)
    /\ T.root \notin T.red

-----------------------------------------------------------------------------
(* The red-black tree: repair after an insertion.                          *)

\* With no black node missing anywhere.
Full(T, L, b) ==
    /\ b \in [L \cup {Sentinel} -> Nat] /\ b[Sentinel] = 0
    /\ \A n \in L, t \in R!Sides : b[n] = b[T.kid[t][n]] + Black(T, n)

\* A hole that is nowhere is none.
LEMMA NoHole ==
    ASSUME R!RBTreeAssumption, NEW T, NEW L, NEW B, Shape(T, L, B), NEW b
    PROVE  Heights(T, L, b, NULL, "L") <=> Full(T, L, b)
<1>1. ASSUME NEW n \in L, NEW t \in R!Sides, b \in [L \cup {Sentinel} -> Nat]
      PROVE  b[T.kid[t][n]] + Black(T, n) + (IF n = NULL /\ t = "L" THEN 1 ELSE 0)
               = b[T.kid[t][n]] + Black(T, n)
  <2>1. n # NULL
    BY DEF Shape, R!RBTreeAssumption
  <2>2. T.kid[t][n] \in L \cup {Sentinel}
    BY Below DEF Sits
  <2>. QED  BY <1>1, <2>1, <2>2 DEF Black
<1>. QED  BY <1>1 DEF Heights, Full

\* Colours are no part of the shape.
LEMMA RecolorShape ==
    ASSUME NEW T, NEW U, NEW L, NEW B, Shape(T, L, B), NEW red, Recolored(T, U, red)
    PROVE  Shape(U, L, B)
  BY DEF Recolored, Shape, Kid

\* While an insertion is repaired: all is well but that the red node n may have
\* a red parent or be the root.
Pushed(T, L, n) ==
    /\ \E B : Shape(T, L, B)
    /\ \E b : Full(T, L, b)
    /\ ApartBut(T, L, n)
    /\ Outside(T, L)
    /\ n \in L /\ n \in T.red
    /\ T.root \in T.red => T.root = n

\* The nodes the repair looks at: n, its parent p, on side s of g, and the uncle.
Family(T, L, n, p, g, s, o, uncle) ==
    /\ n # T.root /\ p = T.par[n] /\ g = T.par[p]
    /\ p \in L /\ g \in L /\ p # n /\ g # p /\ g # n
    /\ n \in T.red /\ p \in T.red /\ g \notin T.red /\ p # T.root /\ T.root \notin T.red
    /\ s \in R!Sides /\ o \in R!Sides /\ s # o /\ o = R!Other(s) /\ s = R!Other(o)
    /\ \A t \in R!Sides : t \in {s, o}
    /\ T.kid[s][g] = p /\ T.kid[o][g] = uncle
    /\ uncle \in L \cup {Sentinel} /\ uncle # g /\ uncle # p /\ uncle # n
    /\ uncle \in L => T.par[uncle] = g

\* While the repair of an insertion goes on, the node has a red parent, and so
\* a black grandparent: nothing it follows is NULL or the sentinel.
LEMMA Relatives ==
    ASSUME R!RBTreeAssumption, NEW T, NEW L, NEW n, Pushed(T, L, n), ~R!InsertDone(T, n)
    PROVE  Family(T, L, n, T.par[n], T.par[T.par[n]], R!SideOf(T, T.par[n]),
                  R!Other(R!SideOf(T, T.par[n])),
                  T.kid[R!Other(R!SideOf(T, T.par[n]))][T.par[T.par[n]]])
<1> DEFINE p == T.par[n]
           g == T.par[p]
           s == R!SideOf(T, p)
           o == R!Other(s)
           uncle == T.kid[o][g]
<1>1. PICK B : Shape(T, L, B)
  BY DEF Pushed
<1>2. n \in L /\ n # T.root /\ p \in T.red
  BY DEF R!InsertDone, Pushed
<1>3. /\ p \in L /\ p # n
      /\ R!SideOf(T, n) \in R!Sides /\ T.kid[R!SideOf(T, n)][p] = n
      /\ B[n] \subseteq B[p] \ {p}
  BY <1>1, <1>2, Upward
<1>4. p # T.root /\ T.root \notin T.red
  BY <1>2, <1>3 DEF Pushed
<1>5. /\ g \in L /\ g # p /\ s \in R!Sides /\ T.kid[s][g] = p
      /\ B[p] \subseteq B[g] \ {g}
  BY <1>1, <1>3, <1>4, Upward
<1>6. n \in B[n]
  BY <1>1, <1>2, BelowItself
<1>7. g \notin T.red
  BY <1>2, <1>3, <1>5 DEF Pushed, ApartBut
<1>8. /\ o \in R!Sides /\ o # s /\ R!Other(o) = s /\ \A t \in R!Sides : t = s \/ t = o
  BY <1>5, TwoSides
<1>9. Sits(T, L, B, g, o, uncle)
  BY <1>1, <1>5, <1>8, Below
<1>10. p \in B[p]
  BY <1>1, <1>3, BelowItself
<1> HIDE DEF p, g, s, o, uncle
<1>11. n # g
  BY <1>3, <1>5, <1>6
<1>12. uncle \in L \cup {Sentinel} /\ uncle # g /\ (uncle \in L => T.par[uncle] = g)
  BY <1>9 DEF Sits
<1>13. uncle # p
  <2>1. B[uncle] \cap B[T.kid[s][g]] = {} /\ T.kid[s][g] = p
    BY <1>5, <1>8, <1>9 DEF Sits
  <2>. QED  BY <1>10, <2>1
<1>14. uncle # n
  <2>1. T.par[n] # g
    BY <1>5 DEF p
  <2>. QED  BY <1>2, <1>12, <2>1
<1>15. /\ p = T.par[n] /\ g = T.par[p] /\ s = R!SideOf(T, p) /\ o = R!Other(s)
       /\ uncle = T.kid[o][g] /\ n \in T.red
  BY DEF p, g, s, o, uncle, Pushed
<1>16. Family(T, L, n, p, g, s, o, uncle)
  BY <1>2, <1>3, <1>4, <1>5, <1>7, <1>8, <1>11, <1>12, <1>13, <1>14, <1>15 DEF Family
<1>. QED  BY <1>16 DEF p, g, s, o, uncle

\* With a red uncle the trouble moves up two levels, and there is less red.
LEMMA ClimbStep ==
    ASSUME R!RBTreeAssumption, NEW T, NEW L, NEW n, Pushed(T, L, n),
           NEW p, NEW g, NEW s, NEW o, NEW uncle, Family(T, L, n, p, g, s, o, uncle),
           uncle \in T.red,
           NEW U, Recolored(T, U, ((T.red \ {p}) \ {uncle}) \cup {g})
    PROVE  Pushed(U, L, g)
<1>1. PICK B : Shape(T, L, B)
  BY DEF Pushed
<1>2. PICK b : Full(T, L, b)
  BY DEF Pushed
<1>3. Shape(U, L, B)
  BY <1>1, RecolorShape
<1>4. uncle \in L
  BY DEF Family, Pushed, Outside
<1>5. /\ U.red = ((T.red \ {p}) \ {uncle}) \cup {g} /\ U.kid = T.kid /\ U.root = T.root
  BY DEF Recolored
<1>6. ASSUME NEW c \in L, NEW t \in R!Sides
      PROVE  /\ T.kid[t][c] \in L \cup {Sentinel}
             /\ c # g => T.kid[t][c] # p /\ T.kid[t][c] # uncle
             /\ T.kid[t][c] # c
  <2>1. Sits(T, L, B, c, t, T.kid[t][c])
    BY <1>1, Below
  <2>2. p \in L /\ T.par[p] = g /\ T.par[uncle] = g
    BY <1>4 DEF Family
  <2>. QED  BY <1>4, <2>1, <2>2 DEF Sits
<1> DEFINE h == [c \in L \cup {Sentinel} |-> IF c = p \/ c = uncle THEN b[c] + 1 ELSE b[c]]
<1>7. Full(U, L, h)
  <2>1. b \in [L \cup {Sentinel} -> Nat] /\ b[Sentinel] = 0 /\ Sentinel \notin L
    BY <1>1, <1>2 DEF Full, Shape, R!RBTreeAssumption
  <2>2. h \in [L \cup {Sentinel} -> Nat] /\ h[Sentinel] = 0
    BY <1>4, <2>1 DEF Family
  <2>3. ASSUME NEW c \in L, NEW t \in R!Sides
        PROVE  h[c] = h[T.kid[t][c]] + Black(U, c)
    <3> DEFINE d == T.kid[t][c]
    <3>1. b[c] = b[d] + Black(T, c) /\ d \in L \cup {Sentinel}
      BY <1>2, <1>6 DEF Full
    <3>2. c # g => d # p /\ d # uncle
      BY <1>6
    <3>3. c = g => d = p \/ d = uncle
      BY DEF Family
    <3>4. g \notin T.red /\ p \in T.red /\ uncle \in T.red /\ g # p /\ g # uncle
      BY DEF Family
    <3> HIDE DEF d
    <3>5. h[c] = IF c = p \/ c = uncle THEN b[c] + 1 ELSE b[c]
      OBVIOUS
    <3>6. h[d] = IF d = p \/ d = uncle THEN b[d] + 1 ELSE b[d]
      BY <3>1
    <3>7. b[c] \in Nat /\ b[d] \in Nat
      BY <2>1, <3>1
    <3>8. Black(T, c) = (IF c \in T.red THEN 0 ELSE 1) /\ Black(U, c) = (IF c \in U.red THEN 0 ELSE 1)
      BY DEF Black
    <3> HIDE DEF h
    <3>9. h[c] = h[d] + Black(U, c)
      BY <1>5, <3>1, <3>2, <3>3, <3>4, <3>5, <3>6, <3>7, <3>8
    <3>. QED  BY <3>9 DEF d
  <2>. QED  BY <1>5, <2>2, <2>3 DEF Full
<1>8. ApartBut(U, L, g)
  <2> SUFFICES ASSUME NEW c \in L, NEW t \in R!Sides, c \in U.red, T.kid[t][c] \in U.red,
                      T.kid[t][c] # g
               PROVE  FALSE
    BY <1>5 DEF ApartBut
  <2> DEFINE d == T.kid[t][c]
  <2>1. d \in T.red /\ d # p /\ d # uncle
    BY <1>5
  <2>2. c # g
    BY <2>1 DEF Family
  <2>3. c \in T.red /\ c # p
    BY <1>5, <2>2
  <2>4. d = n
    BY <2>1, <2>3 DEF Pushed, ApartBut
  <2>5. T.par[n] = c
    <3>1. Sits(T, L, B, c, t, d)
      BY <1>1, Below
    <3>. QED  BY <2>4, <3>1 DEF Sits, Pushed
  <2>. QED  BY <2>3, <2>5 DEF Family
<1>9. Outside(U, L)
  <2>1. g # Sentinel
    BY <1>1, BelowItself DEF Family
  <2>. QED  BY <1>5, <2>1 DEF Outside, Pushed
<1>10. g \in L /\ g \in U.red /\ (U.root \in U.red => U.root = g)
  BY <1>5 DEF Family
<1>. QED  BY <1>3, <1>7, <1>8, <1>9, <1>10 DEF Pushed

\* Two out of a finite set and one into it.
LEMMA TwoForOne ==
    ASSUME NEW S, IsFiniteSet(S), NEW a \in S, NEW b \in S, a # b, NEW c, c \notin S
    PROVE  LET Q == ((S \ {a}) \ {b}) \cup {c}
           IN  Cardinality(Q) \in Nat /\ Cardinality(S) = Cardinality(Q) + 1
<1>1. IsFiniteSet(S \ {a}) /\ Cardinality(S \ {a}) = Cardinality(S) - 1
  BY FS_RemoveElement
<1> DEFINE S1 == S \ {a}
           S2 == S1 \ {b}
<1>2. b \in S1
  OBVIOUS
<1>3. IsFiniteSet(S2) /\ Cardinality(S2) = Cardinality(S1) - 1
  <2> HIDE DEF S1
  <2>. QED  BY <1>1, <1>2, FS_RemoveElement DEF S1
<1>4. c \notin S2
  OBVIOUS
<1>5. Cardinality(S2 \cup {c}) = Cardinality(S2) + 1 /\ IsFiniteSet(S2 \cup {c})
  <2> HIDE DEF S2
  <2>. QED  BY <1>3, <1>4, FS_AddElement
<1>6. Cardinality(S) \in Nat /\ Cardinality(S1) \in Nat /\ Cardinality(S2) \in Nat
  BY <1>1, <1>3, FS_CardinalityType
<1>. QED  BY <1>1, <1>3, <1>5, <1>6

\* A node is a child on one side only.
LEMMA KidsDiffer ==
    ASSUME R!RBTreeAssumption, NEW T, NEW L, NEW B, Shape(T, L, B), NEW n \in L, NEW s \in R!Sides,
           T.kid[s][n] \in L
    PROVE  T.kid[R!Other(s)][n] # T.kid[s][n]
<1>1. T.kid[s][n] \in B[T.kid[s][n]]
  BY BelowItself
<1>2. B[T.kid[s][n]] \cap B[T.kid[R!Other(s)][n]] = {}
  BY Below DEF Sits
<1>. QED  BY <1>1, <1>2

\* The trouble is at an outer grandchild m of g, below q; the uncle is black.
Straight(T, L, s, o, m, q, g) ==
    /\ Pushed(T, L, m)
    /\ s \in R!Sides /\ o \in R!Sides /\ s # o /\ o = R!Other(s) /\ s = R!Other(o)
    /\ m \in L /\ q \in L /\ g \in L /\ m # q /\ q # g /\ m # g
    /\ m \in T.red /\ q \in T.red /\ g \notin T.red
    /\ q # T.root /\ T.root \notin T.red
    /\ T.kid[s][g] = q /\ T.kid[s][q] = m
    /\ T.par[m] = q /\ T.par[q] = g
    /\ T.kid[o][g] \notin T.red

\* Turning an inner grandchild to the outside leaves it there.
LEMMA OutwardStep ==
    ASSUME R!RBTreeAssumption, NEW T, NEW L, NEW n, Pushed(T, L, n),
           NEW p, NEW g, NEW s, NEW o, NEW uncle, Family(T, L, n, p, g, s, o, uncle),
           uncle \notin T.red
    PROVE  Straight(R!Outward(T, s, n), L, s, o, R!OuterNode(T, s, n),
                    IF n = T.kid[o][p] THEN n ELSE p, g)
<1>1. PICK B : Shape(T, L, B)
  BY DEF Pushed
<1>2. PICK b : Full(T, L, b)
  BY DEF Pushed
<1>3. /\ n # T.root /\ p = T.par[n] /\ g = T.par[p]
      /\ p \in L /\ g \in L /\ p # n /\ g # p /\ g # n
      /\ n \in T.red /\ p \in T.red /\ g \notin T.red /\ p # T.root /\ T.root \notin T.red
      /\ s \in R!Sides /\ o \in R!Sides /\ s # o /\ o = R!Other(s) /\ s = R!Other(o)
      /\ \A t \in R!Sides : t \in {s, o}
      /\ T.kid[s][g] = p /\ T.kid[o][g] = uncle
      /\ uncle \in L \cup {Sentinel} /\ uncle # g /\ uncle # p /\ uncle # n
  BY DEF Family
<1>4. n \in L
  BY DEF Pushed
<1>5. CASE n # T.kid[o][p]
  <2>1. R!Outward(T, s, n) = T /\ R!OuterNode(T, s, n) = n
    BY <1>3, <1>5 DEF R!Outward, R!OuterNode
  <2>2. T.kid[s][p] = n
    <3>1. R!SideOf(T, n) \in R!Sides /\ T.kid[R!SideOf(T, n)][p] = n
      BY <1>1, <1>3, <1>4, Upward
    <3>. QED  BY <1>3, <1>5, <3>1
  <2>. QED  BY <1>3, <1>4, <1>5, <2>1, <2>2 DEF Straight
<1>6. CASE n = T.kid[o][p]
  <2> DEFINE U == R!Rotate(T, s, p)
  <2>1. R!Outward(T, s, n) = U /\ R!OuterNode(T, s, n) = p
    BY <1>3, <1>6, Zenon DEF R!Outward, R!OuterNode
  <2>2. Swung(T, U, L, s, p, n)
    BY <1>1, <1>3, <1>4, <1>6, RotateSwings, Zenon
  <2> HIDE DEF U
  <2>3. /\ U \in R!Memory /\ U.red = T.red /\ U.root = T.root
        /\ U.kid[s][p] = T.kid[s][p] /\ U.kid[o][p] = T.kid[s][n]
        /\ U.kid[s][n] = p /\ U.kid[o][n] = T.kid[o][n]
        /\ U.par[p] = n /\ U.par[n] = g
        /\ \E C : Shape(U, L, C)
    BY <1>3, <2>2 DEF Swung
  <2>4. ASSUME NEW c \in L, NEW t \in R!Sides, c # p, c # n
        PROVE  T.kid[t][c] # n /\ U.kid[t][c] = IF T.kid[t][c] = p THEN n ELSE T.kid[t][c]
    BY <2>2, <2>4 DEF Swung
  <2>5. ASSUME NEW c \in L, NEW t \in R!Sides
        PROVE  T.kid[t][c] \in L \cup {Sentinel} /\ (T.kid[t][c] \in L => T.par[T.kid[t][c]] = c)
    BY <1>1, Below DEF Sits
  <2>6. U.kid[s][g] = n /\ U.kid[o][g] = uncle
    BY <1>3, <2>4
  <2>7. b \in [L \cup {Sentinel} -> Nat] /\ b[Sentinel] = 0
        /\ \A c \in L, t \in R!Sides : b[c] = b[T.kid[t][c]] + Black(T, c)
    BY <1>2 DEF Full
  <2>8. Full(U, L, b)
    <3>1. b[p] = b[n]
      <4>1. b[p] = b[T.kid[o][p]] + Black(T, p) /\ b[n] \in Nat
        BY <1>3, <1>4, <2>7
      <4>2. Black(T, p) = 0
        BY <1>3 DEF Black
      <4>. QED  BY <1>6, <4>1, <4>2
    <3>2. ASSUME NEW c \in L, NEW t \in R!Sides
          PROVE  b[c] = b[U.kid[t][c]] + Black(U, c)
      <4>1. Black(U, c) = Black(T, c)
        BY <2>3 DEF Black
      <4>2. CASE c = p
        <5>1. U.kid[t][p] \in {T.kid[s][p], T.kid[s][n]}
          BY <1>3, <2>3
        <5>2. b[p] = b[T.kid[s][p]] + Black(T, p)
          BY <1>3, <2>7
        <5>3. b[p] = b[T.kid[s][n]] + Black(T, p)
          BY <1>3, <1>4, <2>7, <3>1 DEF Black
        <5>. QED  BY <4>1, <4>2, <5>1, <5>2, <5>3
      <4>3. CASE c = n
        <5>1. U.kid[t][n] \in {p, T.kid[o][n]}
          BY <1>3, <2>3
        <5>2. b[n] = b[T.kid[o][n]] + Black(T, n)
          BY <1>3, <1>4, <2>7
        <5>3. b[n] = b[p] + Black(T, n)
          <6>1. Black(T, n) = 0 /\ b[n] \in Nat
            BY <1>3, <1>4, <2>7 DEF Black
          <6>. QED  BY <3>1, <6>1
        <5>. QED  BY <4>1, <4>3, <5>1, <5>2, <5>3
      <4>4. CASE c # p /\ c # n
        <5>1. b[c] = b[T.kid[t][c]] + Black(T, c)
          BY <2>7
        <5>2. b[U.kid[t][c]] = b[T.kid[t][c]]
          BY <2>4, <3>1, <4>4
        <5>. QED  BY <4>1, <5>1, <5>2
      <4>. QED  BY <4>2, <4>3, <4>4
    <3>. QED  BY <2>7, <3>2 DEF Full
  <2>9. ASSUME NEW c \in L, NEW t \in R!Sides, c \in T.red, T.kid[t][c] \in T.red
        PROVE  T.kid[t][c] = n
    BY <2>9 DEF Pushed, ApartBut
  <2>10. ApartBut(U, L, p)
    <3> SUFFICES ASSUME NEW c \in L, NEW t \in R!Sides, c \in T.red, U.kid[t][c] \in T.red,
                        U.kid[t][c] # p
                 PROVE  FALSE
      BY <2>3 DEF ApartBut
    <3>1. CASE c = p
      <4>1. U.kid[t][p] \in {T.kid[s][p], T.kid[s][n]}
        BY <1>3, <2>3
      <4>2. T.kid[s][p] \notin T.red
        <5>1. T.kid[s][p] # n
          <6>1. T.kid[R!Other(o)][p] # T.kid[o][p]
            <7>1. T.kid[o][p] \in L
              BY <1>4, <1>6
            <7>2. p \in L /\ o \in R!Sides
              BY <1>3
            <7>. QED  BY <1>1, <7>1, <7>2, KidsDiffer, Zenon
          <6>. QED  BY <1>3, <1>6, <6>1, Zenon
        <5>. QED  BY <1>3, <2>9, <5>1
      <4>3. T.kid[s][n] \notin T.red
        <5>1. T.kid[s][n] # n
          BY <1>1, <1>3, <1>4, Below DEF Sits
        <5>. QED  BY <1>3, <1>4, <2>9, <5>1
      <4>. QED  BY <3>1, <4>1, <4>2, <4>3
    <3>2. CASE c = n
      <4>1. U.kid[t][n] = T.kid[o][n]
        BY <1>3, <2>3, <3>2
      <4>2. T.kid[o][n] # n
        BY <1>1, <1>3, <1>4, Below DEF Sits
      <4>. QED  BY <1>3, <1>4, <2>9, <3>2, <4>1, <4>2
    <3>3. CASE c # p /\ c # n
      <4>1. T.kid[t][c] # n /\ (T.kid[t][c] # p => U.kid[t][c] = T.kid[t][c])
        BY <2>4, <3>3
      <4>2. T.kid[t][c] # p
        <5>1. c # g
          BY <1>3
        <5>. QED  BY <1>3, <2>5, <5>1
      <4>. QED  BY <2>9, <4>1, <4>2
    <3>. QED  BY <3>1, <3>2, <3>3
  <2>11. Outside(U, L)
    BY <2>2 DEF Outside, Pushed, Swung
  <2>12. Pushed(U, L, p)
    BY <1>3, <2>3, <2>8, <2>10, <2>11 DEF Pushed
  <2>13. n # U.root
    BY <1>3, <2>3
  <2>. QED  BY <1>3, <1>4, <1>6, <2>1, <2>3, <2>6, <2>12, <2>13, Zenon DEF Straight
<1>. QED  BY <1>5, <1>6

\* Recoloured and turned about g, the tree is in order.
LEMMA FinishStep ==
    ASSUME R!RBTreeAssumption, NEW T, NEW L, NEW s, NEW o, NEW m, NEW q, NEW g,
           Straight(T, L, s, o, m, q, g),
           NEW V, Recolored(T, V, (T.red \ {q}) \cup {g}), NEW U, Swung(V, U, L, o, g, q)
    PROVE  Pushed(U, L, m) /\ U.par[m] \notin U.red
<1>1. PICK B : Shape(T, L, B)
  BY DEF Pushed, Straight
<1>2. PICK b : Full(T, L, b)
  BY DEF Pushed, Straight
<1>3. /\ s \in R!Sides /\ o \in R!Sides /\ s # o /\ o = R!Other(s) /\ s = R!Other(o)
      /\ m \in L /\ q \in L /\ g \in L /\ m # q /\ q # g /\ m # g
      /\ m \in T.red /\ q \in T.red /\ g \notin T.red
      /\ q # T.root /\ T.root \notin T.red
      /\ T.kid[s][g] = q /\ T.kid[s][q] = m
      /\ T.par[m] = q /\ T.par[q] = g
      /\ T.kid[o][g] \notin T.red
  BY DEF Straight
<1>4. V.root = T.root /\ V.kid = T.kid /\ V.par = T.par /\ V.red = (T.red \ {q}) \cup {g}
  BY DEF Recolored
<1>5. /\ U \in R!Memory /\ U.red = (T.red \ {q}) \cup {g}
      /\ U.root = (IF g = T.root THEN q ELSE T.root)
      /\ U.kid[o][g] = T.kid[o][g] /\ U.kid[s][g] = T.kid[o][q]
      /\ U.kid[o][q] = g /\ U.kid[s][q] = m
      /\ \E C : Shape(U, L, C)
  BY <1>3, <1>4 DEF Swung
<1>6. ASSUME NEW c \in L, NEW t \in R!Sides, c # g, c # q
      PROVE  T.kid[t][c] # q /\ U.kid[t][c] = IF T.kid[t][c] = g THEN q ELSE T.kid[t][c]
  BY <1>4, <1>6 DEF Swung
<1>7. \A t \in R!Sides : t = s \/ t = o
  BY <1>3, TwoSides
<1>8. ASSUME NEW c \in L, NEW t \in R!Sides
      PROVE  /\ T.kid[t][c] \in L \cup {Sentinel} /\ T.kid[t][c] # c
             /\ T.kid[t][c] \in L => T.par[T.kid[t][c]] = c
  BY <1>1, Below DEF Sits
<1>9. b \in [L \cup {Sentinel} -> Nat] /\ b[Sentinel] = 0
      /\ \A c \in L, t \in R!Sides : b[c] = b[T.kid[t][c]] + Black(T, c)
  BY <1>2 DEF Full
<1>10. Sentinel \notin L /\ L \subseteq R!Cells
  BY <1>1 DEF Shape, R!RBTreeAssumption, R!Cells
<1>11. /\ \A c \in L : b[c] \in Nat
       /\ Black(T, m) = 0 /\ Black(T, q) = 0 /\ Black(T, g) = 1
       /\ Black(U, m) = 0 /\ Black(U, q) = 1 /\ Black(U, g) = 0
       /\ \A c \in L : c # q /\ c # g => Black(U, c) = Black(T, c)
  BY <1>3, <1>5, <1>9 DEF Black
<1> DEFINE h == [c \in L \cup {Sentinel} |-> IF c = g THEN b[q] ELSE IF c = q THEN b[g] ELSE b[c]]
<1>12. Full(U, L, h)
  <2>1. h \in [L \cup {Sentinel} -> Nat] /\ h[Sentinel] = 0
    BY <1>3, <1>9, <1>10
  <2>2. b[g] = b[q] + 1 /\ b[q] \in Nat /\ b[g] \in Nat
    BY <1>3, <1>9, <1>11
  <2>3. ASSUME NEW c \in L, NEW t \in R!Sides
        PROVE  h[c] = h[U.kid[t][c]] + Black(U, c)
    <3>1. CASE c = g
      <4>1. U.kid[t][g] \in {T.kid[o][g], T.kid[o][q]}
        BY <1>3, <1>5, <1>7
      <4>2. T.kid[o][g] \in L \cup {Sentinel} /\ T.kid[o][q] \in L \cup {Sentinel}
            /\ T.kid[o][g] # g /\ T.kid[o][g] # q /\ T.kid[o][q] # g /\ T.kid[o][q] # q
        <5>1. T.kid[o][q] # g
          BY <1>1, <1>3, Below, BelowItself DEF Sits
        <5>. QED  BY <1>3, <1>8, <5>1
      <4>3. h[T.kid[o][g]] = b[T.kid[o][g]] /\ h[T.kid[o][q]] = b[T.kid[o][q]] /\ h[g] = b[q]
        BY <1>3, <4>2
      <4>4. b[g] = b[T.kid[o][g]] + 1 /\ b[T.kid[o][g]] \in Nat
        BY <1>3, <1>9, <1>11, <4>2
      <4>5. b[q] = b[T.kid[o][q]] + 0 /\ b[T.kid[o][q]] \in Nat
        BY <1>3, <1>9, <1>11, <4>2
      <4> HIDE DEF h
      <4>6. b[q] = b[T.kid[o][g]] /\ b[q] = b[T.kid[o][q]]
        BY <2>2, <4>4, <4>5
      <4>7. h[U.kid[t][g]] = b[q]
        BY <4>1, <4>3, <4>6
      <4>. QED  BY <1>11, <2>2, <3>1, <4>3, <4>7
    <3>2. CASE c = q
      <4>1. U.kid[t][q] \in {g, m}
        BY <1>5, <1>7
      <4>2. h[g] = b[q] /\ h[m] = b[m] /\ h[q] = b[g]
        BY <1>3
      <4>3. b[q] = b[m] + Black(T, q) /\ b[m] \in Nat
        BY <1>3, <1>9, <1>11
      <4>4. b[q] = b[m]
        BY <1>11, <4>3
      <4> HIDE DEF h
      <4>. QED  BY <1>11, <2>2, <3>2, <4>1, <4>2, <4>4
    <3>3. CASE c # g /\ c # q
      <4>1. b[c] = b[T.kid[t][c]] + Black(U, c) /\ h[c] = b[c]
        BY <1>9, <1>11, <3>3
      <4>2. T.kid[t][c] # q /\ U.kid[t][c] = IF T.kid[t][c] = g THEN q ELSE T.kid[t][c]
        BY <1>6, <3>3
      <4>3. T.kid[t][c] \in L \cup {Sentinel}
        BY <1>8
      <4>4. h[q] = b[g]
        BY <1>3
      <4>5. h[U.kid[t][c]] = b[T.kid[t][c]]
        BY <4>2, <4>3, <4>4
      <4>. QED  BY <4>1, <4>5
    <3>. QED  BY <3>1, <3>2, <3>3
  <2>. QED  BY <2>1, <2>3 DEF Full
<1>13. ASSUME NEW c \in L, NEW t \in R!Sides, c \in T.red, T.kid[t][c] \in T.red
       PROVE  T.kid[t][c] = m
  BY <1>13 DEF Straight, Pushed, ApartBut
<1>14. ApartBut(U, L, m)
  <2> SUFFICES ASSUME NEW c \in L, NEW t \in R!Sides, c \in U.red, U.kid[t][c] \in U.red
               PROVE  FALSE
    BY DEF ApartBut
  <2>1. CASE c = g
    <3>1. U.kid[t][g] \in {T.kid[o][g], T.kid[o][q]}
      BY <1>3, <1>5, <1>7
    <3>2. T.kid[o][g] # g /\ T.kid[o][q] # g
      BY <1>1, <1>3, Below, BelowItself DEF Sits
    <3>3. T.kid[o][q] \notin T.red
      <4>1. T.kid[R!Other(s)][q] # T.kid[s][q]
        <5>1. T.kid[s][q] \in L
          BY <1>3
        <5>2. q \in L /\ s \in R!Sides
          BY <1>3
        <5>. QED  BY <1>1, <5>1, <5>2, KidsDiffer, Zenon
      <4>. QED  BY <1>3, <1>13, <4>1
    <3>. QED  BY <1>3, <1>5, <2>1, <3>1, <3>2, <3>3
  <2>2. CASE c # g
    <3>1. c # q /\ c \in T.red
      BY <1>3, <1>5, <2>2
    <3>2. T.kid[t][c] # q /\ U.kid[t][c] = IF T.kid[t][c] = g THEN q ELSE T.kid[t][c]
      BY <1>6, <2>2, <3>1
    <3>3. U.kid[t][c] # q
      BY <1>3, <1>5
    <3>4. T.kid[t][c] \in T.red
      BY <1>3, <1>5, <3>2, <3>3
    <3>5. T.kid[t][c] = m
      BY <1>13, <3>1, <3>4
    <3>. QED  BY <1>3, <1>8, <3>1, <3>5
  <2>. QED  BY <2>1, <2>2
<1>15. Outside(U, L)
  <2>1. Sentinel \notin U.red
    BY <1>3, <1>5, <1>10 DEF Straight, Pushed, Outside
  <2>2. ASSUME NEW c \in R!Cells, NEW t \in R!Sides, c \notin L
        PROVE  U.kid[t][c] = NULL
    BY <1>4, <2>2 DEF Straight, Pushed, Outside, Swung
  <2>. QED  BY <2>1, <2>2 DEF Outside
<1>16. U.root \notin U.red
  BY <1>3, <1>5
<1>17. U.par[m] = q
  <2>1. m # T.kid[o][q]
    <3>1. T.kid[R!Other(s)][q] # T.kid[s][q]
      <4>1. T.kid[s][q] \in L
        BY <1>3
      <4>2. q \in L /\ s \in R!Sides
        BY <1>3
      <4>. QED  BY <1>1, <4>1, <4>2, KidsDiffer, Zenon
    <3>. QED  BY <1>3, <3>1
  <2>2. m \in R!Cells /\ m # g /\ m # q
    BY <1>3, <1>10
  <2>. QED  BY <1>3, <1>4, <2>1, <2>2 DEF Swung
<1>. QED  BY <1>3, <1>5, <1>12, <1>14, <1>15, <1>16, <1>17 DEF Pushed

\* A tree that needs no more repair but black at its root.
LEMMA BlackRoot ==
    ASSUME R!RBTreeAssumption, NEW T, NEW L, NEW n, Pushed(T, L, n), R!InsertDone(T, n)
    PROVE  Good(R!Blacken(T, T.root), L)
<1>1. PICK B : Shape(T, L, B)
  BY DEF Pushed
<1>2. PICK b : Full(T, L, b)
  BY DEF Pushed
<1> DEFINE U == R!Blacken(T, T.root)
<1>3. T \in R!Memory /\ T.root \in R!Cells
  BY <1>1, Fields DEF Shape
<1>4. Recolored(T, U, T.red \ {T.root})
  BY <1>3, BlackenDoes
<1> HIDE DEF U
<1>5. Shape(U, L, B)
  BY <1>1, <1>4, RecolorShape
<1>6. U.root = T.root /\ U.kid = T.kid /\ U.par = T.par /\ U.red = T.red \ {T.root}
  BY <1>4 DEF Recolored
<1>7. ASSUME NEW c \in L, NEW t \in R!Sides
      PROVE  /\ T.kid[t][c] # T.root /\ T.kid[t][c] \in L \cup {Sentinel}
             /\ T.kid[t][c] \in L => T.par[T.kid[t][c]] = c
  BY <1>1, RootNoKid, Below DEF Sits
<1>8. T.root \in L /\ Sentinel \notin L
  <2>1. B[T.root] = L /\ B[Sentinel] = {} /\ T.root \in L \cup {Sentinel} /\ n \in L
    BY <1>1 DEF Shape, Pushed
  <2>. QED  BY <1>1, <2>1 DEF Shape, R!RBTreeAssumption
<1> DEFINE h == [c \in L \cup {Sentinel} |-> IF c = T.root /\ c \in T.red THEN b[c] + 1 ELSE b[c]]
<1>9. Full(U, L, h)
  <2>1. b \in [L \cup {Sentinel} -> Nat] /\ b[Sentinel] = 0
        /\ \A c \in L, t \in R!Sides : b[c] = b[T.kid[t][c]] + Black(T, c)
    BY <1>2 DEF Full
  <2>2. h \in [L \cup {Sentinel} -> Nat] /\ h[Sentinel] = 0
    BY <1>8, <2>1
  <2>3. ASSUME NEW c \in L, NEW t \in R!Sides
        PROVE  h[c] = h[U.kid[t][c]] + Black(U, c)
    <3>1. h[T.kid[t][c]] = b[T.kid[t][c]]
      BY <1>7
    <3>2. h[c] = IF c = T.root /\ c \in T.red THEN b[c] + 1 ELSE b[c]
      OBVIOUS
    <3>3. b[c] = b[T.kid[t][c]] + Black(T, c) /\ b[T.kid[t][c]] \in Nat
      BY <1>7, <2>1
    <3> HIDE DEF h
    <3>. QED  BY <1>6, <3>1, <3>2, <3>3 DEF Black
  <2>. QED  BY <2>2, <2>3 DEF Full
<1>10. Heights(U, L, h, NULL, "L")
  BY <1>5, <1>9, NoHole
<1>11. ApartBut(U, L, NULL)
  <2> SUFFICES ASSUME NEW c \in L, NEW t \in R!Sides, c \in U.red, U.kid[t][c] \in U.red
               PROVE  FALSE
    BY DEF ApartBut
  <2>1. T.kid[t][c] = n
    BY <1>6 DEF Pushed, ApartBut
  <2>2. T.par[n] = c /\ n # T.root
    BY <1>7, <2>1 DEF Pushed
  <2>. QED  BY <1>6, <2>2 DEF R!InsertDone
<1>12. Outside(U, L)
  BY <1>6 DEF Pushed, Outside
<1>13. U.root \notin U.red
  BY <1>6
<1>. QED  BY <1>5, <1>10, <1>11, <1>12, <1>13 DEF Good, U

\* Blackening some and reddening one.
LEMMA RecolorTwice ==
    ASSUME NEW T \in R!Memory, NEW p \in R!Cells, NEW g \in R!Cells
    PROVE  Recolored(T, R!Redden(R!Blacken(T, p), g), (T.red \ {p}) \cup {g})
<1> DEFINE V == R!Blacken(T, p)
<1>1. Recolored(T, V, T.red \ {p})
  BY BlackenDoes
<1>2. V \in R!Memory
  BY <1>1 DEF Recolored
<1> HIDE DEF V
<1>3. Recolored(V, R!Redden(V, g), V.red \cup {g})
  BY <1>2, ReddenDoes
<1>. QED  BY <1>1, <1>3 DEF Recolored, V

\* Three colours in a row, as with a red uncle.
LEMMA RecolorThrice ==
    ASSUME NEW T \in R!Memory, NEW p \in R!Cells, NEW q \in R!Cells, NEW g \in R!Cells
    PROVE  Recolored(T, R!Redden(R!Blacken(R!Blacken(T, p), q), g), ((T.red \ {p}) \ {q}) \cup {g})
<1> DEFINE V == R!Blacken(T, p)
<1>1. Recolored(T, V, T.red \ {p})
  BY BlackenDoes
<1>2. V \in R!Memory
  BY <1>1 DEF Recolored
<1> HIDE DEF V
<1>3. Recolored(V, R!Redden(R!Blacken(V, q), g), (V.red \ {q}) \cup {g})
  BY <1>2, RecolorTwice
<1>. QED  BY <1>1, <1>3 DEF Recolored, V

\* One round of the repair: it was the last or there is less red than before.
Repaired(T, L, v) ==
    /\ v.mem \in R!Memory /\ v.at \in L /\ v = R!At(v.mem, v.at)
    /\ Pushed(v.mem, L, v.at)
    /\ \/ R!InsertDone(v.mem, v.at)
       \/ /\ Cardinality(v.mem.red \cap L) \in Nat
          /\ Cardinality(T.red \cap L) = Cardinality(v.mem.red \cap L) + 1

\* A round of the repair of an insertion is the last or leaves one red node
\* less in the tree.
LEMMA InsertRound ==
    ASSUME R!RBTreeAssumption, NEW T, NEW L, NEW n, Pushed(T, L, n), ~R!InsertDone(T, n)
    PROVE  Repaired(T, L, R!InsertStep(T, n))
<1> DEFINE p == T.par[n]
           g == T.par[p]
           s == R!SideOf(T, p)
           o == R!Other(s)
           uncle == T.kid[o][g]
<1>1. PICK B : Shape(T, L, B)
  BY DEF Pushed
<1>2. Family(T, L, n, p, g, s, o, uncle)
  BY Relatives
<1>3. IsFiniteSet(L) /\ L \subseteq R!Cells /\ T \in R!Memory
  <2>1. L \subseteq Nodes /\ IsFiniteSet(Nodes) /\ T \in R!Memory
    BY <1>1 DEF Shape, R!RBTreeAssumption, R!IsFiniteSet, IsFiniteSet
  <2>. QED  BY <2>1, FS_Subset DEF R!Cells
<1>4. CASE uncle \in T.red
  <2> DEFINE U == R!Redden(R!Blacken(R!Blacken(T, p), uncle), g)
  <2>1. R!InsertStep(T, n) = R!At(U, g)
    BY <1>4 DEF R!InsertStep, R!Climb
  <2> HIDE DEF p, g, s, o, uncle
  <2>2. p \in L /\ g \in L /\ uncle \in L /\ p # uncle /\ g \notin T.red /\ p \in T.red
    BY <1>2, <1>4 DEF Family, Pushed, Outside
  <2>3. Recolored(T, U, ((T.red \ {p}) \ {uncle}) \cup {g})
    BY <1>3, <2>2, RecolorThrice
  <2> HIDE DEF U
  <2>4. Pushed(U, L, g)
    BY <1>2, <1>4, <2>3, ClimbStep
  <2>5. U \in R!Memory /\ U.red = ((T.red \ {p}) \ {uncle}) \cup {g}
    BY <2>3 DEF Recolored
  <2> DEFINE S == T.red \cap L
  <2>6. IsFiniteSet(S) /\ p \in S /\ uncle \in S /\ g \notin S
    BY <1>3, <1>4, <2>2, FS_Subset
  <2>7. U.red \cap L = ((S \ {p}) \ {uncle}) \cup {g}
    BY <2>2, <2>5
  <2> HIDE DEF S
  <2>8. Cardinality(U.red \cap L) \in Nat /\ Cardinality(S) = Cardinality(U.red \cap L) + 1
    BY <2>2, <2>6, <2>7, TwoForOne
  <2>9. R!At(U, g).mem = U /\ R!At(U, g).at = g
    BY DEF R!At
  <2>. QED  BY <2>1, <2>2, <2>4, <2>5, <2>8, <2>9 DEF Repaired, S
<1>5. CASE uncle \notin T.red
  <2> DEFINE m == R!OuterNode(T, s, n)
             T1 == R!Outward(T, s, n)
             q == IF n = T.kid[o][p] THEN n ELSE p
             V == R!Redden(R!Blacken(T1, T1.par[m]), T1.par[T1.par[m]])
             U == R!Rotate(V, o, V.par[V.par[m]])
  <2>1. R!InsertStep(T, n) = R!At(U, m)
    BY <1>5 DEF R!InsertStep
  <2>2. Straight(T1, L, s, o, m, q, g)
    BY <1>2, <1>5, OutwardStep
  <2> HIDE DEF p, g, s, o, uncle, m, T1, q
  <2>3. PICK C : Shape(T1, L, C)
    BY <2>2 DEF Straight, Pushed
  <2>4. T1 \in R!Memory /\ T1.par[m] = q /\ T1.par[q] = g /\ g \in L /\ q \in L /\ m \in L
        /\ s \in R!Sides /\ o \in R!Sides /\ s = R!Other(o) /\ T1.kid[s][g] = q
    BY <2>2, <2>3 DEF Straight, Shape
  <2>5. V = R!Redden(R!Blacken(T1, q), g)
    BY <2>4
  <2>6. Recolored(T1, V, (T1.red \ {q}) \cup {g})
    BY <1>3, <2>4, <2>5, RecolorTwice
  <2> HIDE DEF V
  <2>7. Shape(V, L, C) /\ V.par = T1.par /\ V.kid = T1.kid
    BY <2>3, <2>6, RecolorShape DEF Recolored
  <2>8. U = R!Rotate(V, o, g)
    BY <2>4, <2>7
  <2>9. Swung(V, U, L, o, g, q)
    <3>1. q = V.kid[R!Other(o)][g]
      BY <2>4, <2>7
    <3>. QED  BY <2>4, <2>7, <2>8, <3>1, RotateSwings
  <2> HIDE DEF U
  <2>10. Pushed(U, L, m) /\ U.par[m] \notin U.red
    BY <2>2, <2>6, <2>9, FinishStep
  <2>11. R!At(U, m).mem = U /\ R!At(U, m).at = m /\ U \in R!Memory /\ R!InsertDone(U, m)
    BY <2>9, <2>10 DEF R!At, Swung, R!InsertDone
  <2>. QED  BY <2>1, <2>4, <2>10, <2>11 DEF Repaired
<1>. QED  BY <1>4, <1>5

\* The loop of rbtree_insert as a function.
IsInsertLoop(loop, T, n) ==
    loop = [k \in 0 .. R!Rounds |->
              IF k = 0 THEN R!At(T, n)
              ELSE IF R!InsertDone(loop[k - 1].mem, loop[k - 1].at) THEN loop[k - 1]
                   ELSE R!InsertStep(loop[k - 1].mem, loop[k - 1].at)]

InsertLoop(T, n) == CHOOSE loop : IsInsertLoop(loop, T, n)

\* The states of the loop of InsertFix satisfy the equation of the loop.
LEMMA InsertFixLoop ==
    ASSUME NEW T, NEW n
    PROVE  R!InsertFix(T, n) = LET last == InsertLoop(T, n)[R!Rounds].mem
                             IN  R!Blacken(last, last.root)
  BY Zenon DEF R!InsertFix, InsertLoop, IsInsertLoop

\* The repair ends with a tree in order.
LEMMA InsertFixed ==
    ASSUME R!RBTreeAssumption, NEW T, NEW L, NEW n, Pushed(T, L, n)
    PROVE  Good(R!InsertFix(T, n), L)
<1> DEFINE K == R!Rounds
           V == {v \in [mem : R!Memory, at : L] : Pushed(v.mem, L, v.at)}
           Next1(v) == IF R!InsertDone(v.mem, v.at) THEN v ELSE R!InsertStep(v.mem, v.at)
           G == [k \in Nat |-> [v \in V |-> Next1(v)]]
           c == R!At(T, n)
           loop == InsertLoop(T, n)
<1>0. R!InsertFix(T, n) = R!Blacken(loop[R!Rounds].mem, loop[R!Rounds].mem.root)
  BY InsertFixLoop
<1>1. L \subseteq Nodes /\ IsFiniteSet(Nodes) /\ T \in R!Memory /\ n \in L
  BY DEF Pushed, Shape, R!RBTreeAssumption, R!IsFiniteSet, IsFiniteSet
<1>2. K \in Nat /\ K = Cardinality(Nodes)
  BY <1>1, FS_CardinalityType DEF R!Rounds, R!Cardinality, Cardinality
<1>3. ASSUME NEW v \in V
      PROVE  Next1(v) \in V
  <2>1. CASE R!InsertDone(v.mem, v.at)
    BY <2>1
  <2>2. CASE ~R!InsertDone(v.mem, v.at)
    <3>1. Pushed(v.mem, L, v.at)
      OBVIOUS
    <3> DEFINE x == R!InsertStep(v.mem, v.at)
    <3>2. Repaired(v.mem, L, x)
      BY <2>2, <3>1, InsertRound
    <3> HIDE DEF x
    <3>3. x \in [mem : R!Memory, at : L]
      BY <3>2 DEF Repaired, R!At
    <3>4. x \in V
      BY <3>2, <3>3 DEF Repaired
    <3>. QED  BY <2>2, <3>4 DEF x
  <2>. QED  BY <2>1, <2>2
<1>4. c \in V
  BY <1>1 DEF R!At
<1> HIDE DEF V
<1>5. G \in [Nat -> [V -> V]]
  BY <1>3
<1>6. ASSUME NEW k \in 1 .. K, NEW v \in V
      PROVE  G[k - 1][v] = Next1(v)
  <2>1. k - 1 \in Nat
    BY <1>2
  <2>. QED  BY <2>1
<1> HIDE DEF G, c, loop
<1>7. IsInsertLoop(loop, T, n)
  <2>1. PICK g : Runs(g, c, G, K, V)
    BY <1>2, <1>4, <1>5, Iterated
  <2>2. /\ g \in [0 .. K -> V] /\ g[0] = c
        /\ \A k \in 1 .. K : g[k] = G[k - 1][g[k - 1]]
    BY <2>1 DEF Runs
  <2>3. ASSUME NEW k \in 0 .. K
        PROVE  g[k] = IF k = 0 THEN R!At(T, n) ELSE Next1(g[k - 1])
    <3>1. CASE k = 0
      BY <2>2, <3>1 DEF c
    <3>2. CASE k # 0
      <4>1. k \in 1 .. K /\ k - 1 \in 0 .. K
        BY <1>2, <3>2
      <4>2. g[k - 1] \in V
        BY <2>2, <4>1
      <4>. QED  BY <1>6, <2>2, <3>2, <4>1, <4>2
    <3>. QED  BY <3>1, <3>2
  <2>4. g = [k \in 0 .. K |-> g[k]]
    BY <2>2
  <2>5. IsInsertLoop(g, T, n)
    BY <2>3, <2>4, Zenon DEF IsInsertLoop
  <2>. QED  BY <2>5, Zenon DEF loop, InsertLoop
<1>8. /\ loop = [k \in 0 .. K |-> loop[k]] /\ loop[0] = c
      /\ \A k \in 1 .. K : loop[k] = Next1(loop[k - 1])
  <2>1. \A k \in 0 .. K : loop[k] = IF k = 0 THEN R!At(T, n) ELSE Next1(loop[k - 1])
    BY <1>7 DEF IsInsertLoop
  <2>2. loop = [k \in 0 .. K |-> loop[k]]
    BY <1>7 DEF IsInsertLoop
  <2>3. 0 \in 0 .. K /\ \A k \in 1 .. K : k \in 0 .. K /\ k # 0
    BY <1>2
  <2> HIDE DEF K
  <2>. QED  BY <2>1, <2>2, <2>3 DEF c
<1>9. Runs(loop, c, G, K, V)
  <2>1. \A k \in 1 .. K : loop[k - 1] \in V => loop[k] = G[k - 1][loop[k - 1]]
    BY <1>6, <1>8
  <2>. QED  BY <1>2, <1>4, <1>5, <1>8, <2>1, Recursion
<1>10. \A k \in 0 .. K : loop[k] \in V
  BY <1>9 DEF Runs
<1> DEFINE Red(v) == Cardinality(v.mem.red \cap L)
           Near(v, k) == R!InsertDone(v.mem, v.at) \/ Red(v) + k <= K
           S == {k \in Nat : k \in 0 .. K => Near(loop[k], k)}
<1>11. ASSUME NEW v \in V
       PROVE  Red(v) \in 1 .. K /\ Pushed(v.mem, L, v.at)
  <2>1. v.at \in v.mem.red \cap L /\ Pushed(v.mem, L, v.at)
    BY DEF V, Pushed
  <2>2. v.mem.red \cap L \subseteq Nodes
    BY <1>1
  <2>3. IsFiniteSet(v.mem.red \cap L) /\ Cardinality(v.mem.red \cap L) <= Cardinality(Nodes)
    BY <1>1, <2>2, FS_Subset
  <2>4. Cardinality(v.mem.red \cap L) \in Nat /\ Cardinality(v.mem.red \cap L) # 0
    BY <2>1, <2>3, FS_CardinalityType, FS_EmptySet
  <2>. QED  BY <1>2, <2>1, <2>3, <2>4
<1>12. 0 \in S
  <2>1. Red(loop[0]) \in 1 .. K
    BY <1>4, <1>8, <1>11
  <2> HIDE DEF Red
  <2>. QED  BY <1>2, <2>1
<1>13. ASSUME NEW k \in Nat, k \in S
       PROVE  k + 1 \in S
  <2> SUFFICES ASSUME k + 1 \in 0 .. K
               PROVE  Near(loop[k + 1], k + 1)
    OBVIOUS
  <2>1. k \in 0 .. K /\ k + 1 \in 1 .. K /\ (k + 1) - 1 = k
    BY <1>2
  <2>2. loop[k + 1] = Next1(loop[k])
    BY <1>8, <2>1
  <2>3. loop[k] \in V /\ loop[k + 1] \in V
    BY <1>10, <2>1
  <2>4. CASE R!InsertDone(loop[k].mem, loop[k].at)
    BY <2>2, <2>4
  <2>5. CASE ~R!InsertDone(loop[k].mem, loop[k].at)
    <3>1. Red(loop[k]) + k <= K
      BY <1>13, <2>1, <2>5
    <3> DEFINE v == loop[k]
               w == loop[k + 1]
    <3>2. w = R!InsertStep(v.mem, v.at)
      BY <2>2, <2>5
    <3> HIDE DEF v, w
    <3>3. Repaired(v.mem, L, w)
      BY <1>11, <2>3, <2>5, <3>2, InsertRound DEF v
    <3>4. R!InsertDone(w.mem, w.at) \/ (Red(w) \in Nat /\ Red(v) = Red(w) + 1)
      BY <3>3 DEF Repaired
    <3>5. Red(v) + k <= K
      BY <3>1 DEF v
    <3> HIDE DEF Red
    <3>6. R!InsertDone(w.mem, w.at) \/ Red(w) + (k + 1) <= K
      BY <3>4, <3>5
    <3>. QED  BY <3>6 DEF w
  <2>. QED  BY <2>4, <2>5
<1>14. K \in S
  <2>1. Nat \subseteq S
    <3> HIDE DEF S
    <3>. QED  BY <1>12, <1>13, Induction
  <2>. QED  BY <1>2, <2>1
<1>15. R!InsertDone(loop[K].mem, loop[K].at) /\ Pushed(loop[K].mem, L, loop[K].at)
  <2>1. K \in 0 .. K
    BY <1>2
  <2>2. Near(loop[K], K) /\ loop[K] \in V
    BY <1>10, <1>14, <2>1
  <2>3. Red(loop[K]) \in 1 .. K /\ Pushed(loop[K].mem, L, loop[K].at)
    BY <1>11, <2>2
  <2> HIDE DEF Red
  <2>. QED  BY <1>2, <2>2, <2>3
<1>16. Good(R!Blacken(loop[K].mem, loop[K].mem.root), L)
  BY <1>15, BlackRoot
<1>. QED  BY <1>0, <1>16

-----------------------------------------------------------------------------
(* The red-black tree: going down.                                         *)

\* Of any nodes there is one none of whose children is among them.
LEMMA Lowest ==
    ASSUME R!RBTreeAssumption, NEW T, NEW L, NEW B, Shape(T, L, B), NEW S, S \subseteq L, S # {}
    PROVE  \E c \in S : \A s \in R!Sides : T.kid[s][c] \notin S
<1>1. PICK c \in S : \A d \in S : ~(B[d] \subseteq B[c] \ {c})
  BY Extremes
<1>2. ASSUME NEW s \in R!Sides
      PROVE  B[T.kid[s][c]] \subseteq B[c] \ {c}
  BY Below DEF Sits
<1>. QED  BY <1>1, <1>2

\* What is below a node that is below c is below c.
LEMMA Nested ==
    ASSUME R!RBTreeAssumption, NEW T, NEW L, NEW B, Shape(T, L, B), NEW c \in L, NEW a \in B[c],
           a # c
    PROVE  a \in L /\ B[a] \subseteq B[c] \ {c}
<1> DEFINE S == {e \in L : \E d \in B[e] : d # e /\ ~(B[d] \subseteq B[e] \ {e})}
<1>1. S = {}
  <2> SUFFICES ASSUME S # {}
               PROVE  FALSE
    OBVIOUS
  <2>1. PICK e \in S : \A s \in R!Sides : T.kid[s][e] \notin S
    <3>1. S \subseteq L
      OBVIOUS
    <3> HIDE DEF S
    <3>. QED  BY <3>1, Lowest
  <2>2. e \in L /\ \E d \in B[e] : d # e /\ ~(B[d] \subseteq B[e] \ {e})
    OBVIOUS
  <2>3. PICK d \in B[e] : d # e /\ ~(B[d] \subseteq B[e] \ {e})
    BY <2>2
  <2>4. PICK s \in R!Sides : d \in B[T.kid[s][e]] /\ T.kid[s][e] \in L
    BY <2>2, <2>3, BelowKid
  <2>5. B[T.kid[s][e]] \subseteq B[e] \ {e}
    BY <2>2, Below DEF Sits
  <2>6. T.kid[s][e] \notin S
    BY <2>1
  <2>. QED  BY <2>3, <2>4, <2>5, <2>6
<1>2. a \in L
  BY DEF Shape
<1>. QED  BY <1>1, <1>2

\* Every way down comes to its end.
LEMMA Depths ==
    ASSUME R!RBTreeAssumption, NEW T, NEW L, NEW B, Shape(T, L, B)
    PROVE  \E K \in Nat : \E left \in [L \cup {Sentinel} -> 0 .. K] :
             \A c \in L, s \in R!Sides : left[T.kid[s][c]] < left[c]
<1> DEFINE K == Cardinality(L)
           left == [c \in L \cup {Sentinel} |-> Cardinality(B[c])]
<1>1. IsFiniteSet(L) /\ K \in Nat
  <2>1. L \subseteq Nodes /\ IsFiniteSet(Nodes)
    BY DEF Shape, R!RBTreeAssumption, R!IsFiniteSet, IsFiniteSet
  <2>. QED  BY <2>1, FS_Subset, FS_CardinalityType
<1>2. ASSUME NEW c \in L \cup {Sentinel}
      PROVE  Cardinality(B[c]) \in 0 .. K /\ IsFiniteSet(B[c])
  <2>1. B[c] \subseteq L
    BY DEF Shape
  <2>. QED  BY <1>1, <2>1, FS_Subset, FS_CardinalityType
<1> HIDE DEF K
<1>3. left \in [L \cup {Sentinel} -> 0 .. K]
  BY <1>2
<1>4. ASSUME NEW c \in L, NEW s \in R!Sides
      PROVE  left[T.kid[s][c]] < left[c]
  <2> DEFINE d == T.kid[s][c]
             E == B[c] \ {c}
  <2>1. d \in L \cup {Sentinel} /\ B[d] \subseteq E /\ c \in B[c]
    BY Below DEF Sits
  <2> HIDE DEF d
  <2>2. IsFiniteSet(E) /\ Cardinality(E) = Cardinality(B[c]) - 1
    BY <1>2, <2>1, FS_RemoveElement
  <2>3. Cardinality(B[d]) <= Cardinality(E)
    BY <2>1, <2>2, FS_Subset
  <2>4. Cardinality(B[d]) \in Nat /\ Cardinality(B[c]) \in Nat
    BY <1>1, <1>2, <2>1
  <2>5. Cardinality(B[d]) < Cardinality(B[c])
    BY <2>2, <2>3, <2>4
  <2>. QED  BY <2>1, <2>5 DEF d
<1>. QED  BY <1>1, <1>3, <1>4

\* f is where the way down ends that goes to side dir[c] at c.
Ends(f, T, L, dir) ==
    f = [c \in L |-> IF T.kid[dir[c]][c] = Sentinel THEN c ELSE f[T.kid[dir[c]][c]]]

\* Ways down end: there is a function that says where.
LEMMA EndsExist ==
    ASSUME R!RBTreeAssumption, NEW T, NEW L, NEW B, Shape(T, L, B), NEW dir \in [L -> R!Sides]
    PROVE  \E f \in [L -> L] : Ends(f, T, L, dir)
<1>1. PICK K \in Nat : \E left \in [L \cup {Sentinel} -> 0 .. K] :
             \A c \in L, s \in R!Sides : left[T.kid[s][c]] < left[c]
  BY Depths
<1>2. PICK left \in [L \cup {Sentinel} -> 0 .. K] :
             \A c \in L, s \in R!Sides : left[T.kid[s][c]] < left[c]
  BY <1>1
<1> DEFINE less == [c \in L |-> left[c]]
           stop == [c \in L |-> T.kid[dir[c]][c] = Sentinel]
           base == [c \in L |-> c]
           next == [c \in L |-> T.kid[dir[c]][c]]
           G == [c \in L |-> [v \in L |-> v]]
<1>3. less \in [L -> 0 .. K] /\ base \in [L -> L] /\ G \in [L -> [L -> L]]
  OBVIOUS
<1>4. ASSUME NEW c \in L, ~stop[c]
      PROVE  next[c] \in L /\ less[next[c]] < less[c]
  <2>1. dir[c] \in R!Sides
    OBVIOUS
  <2>2. T.kid[dir[c]][c] \in L \cup {Sentinel}
    BY <2>1, Below DEF Sits
  <2>. QED  BY <1>2, <1>4, <2>1, <2>2
<1>5. PICK f : Descends(f, L, L, stop, base, next, G)
  <2> HIDE DEF less, stop, base, next, G
  <2>. QED  BY <1>3, <1>4, Descent
<1>6. f \in [L -> L] /\ \A c \in L : f[c] = IF stop[c] THEN base[c] ELSE G[c][f[next[c]]]
  BY <1>5 DEF Descends
<1>7. ASSUME NEW c \in L
      PROVE  f[c] = IF T.kid[dir[c]][c] = Sentinel THEN c ELSE f[T.kid[dir[c]][c]]
  <2>1. CASE stop[c]
    BY <1>6, <2>1
  <2>2. CASE ~stop[c]
    BY <1>4, <1>6, <2>2
  <2>. QED  BY <2>1, <2>2
<1>. QED  BY <1>6, <1>7 DEF Ends

\* The end is below where it began; the ways from all nodes above it go there.
Ended(f, T, L, B, dir) ==
    \A c \in L :
        /\ f[c] \in L /\ f[c] \in B[c]
        /\ T.kid[dir[f[c]]][f[c]] = Sentinel
        /\ \A a \in B[c] : f[c] \in B[a] /\ f[c] # a => f[c] \in B[T.kid[dir[a]][a]]

\* Where such a way ends a child is missing, and the end lies on the chosen
\* side of every node on the way.
LEMMA EndsThere ==
    ASSUME R!RBTreeAssumption, NEW T, NEW L, NEW B, Shape(T, L, B), NEW dir \in [L -> R!Sides],
           NEW f, Ends(f, T, L, dir)
    PROVE  Ended(f, T, L, B, dir)
<1> DEFINE P(c) == /\ f[c] \in L /\ f[c] \in B[c]
                   /\ T.kid[dir[f[c]]][f[c]] = Sentinel
                   /\ \A a \in B[c] : f[c] \in B[a] /\ f[c] # a => f[c] \in B[T.kid[dir[a]][a]]
           S == {c \in L : ~P(c)}
<1> SUFFICES ASSUME S # {}
             PROVE  FALSE
  BY DEF Ended
<1>1. PICK c \in S : \A s \in R!Sides : T.kid[s][c] \notin S
  <2>1. S \subseteq L
    OBVIOUS
  <2> HIDE DEF S
  <2>. QED  BY <2>1, Lowest
<1>2. c \in L /\ ~P(c) /\ dir[c] \in R!Sides
  OBVIOUS
<1> DEFINE d == T.kid[dir[c]][c]
<1>3. Sits(T, L, B, c, dir[c], d) /\ c \in B[c] /\ B[Sentinel] = {}
  BY <1>2, Below, BelowItself DEF Shape
<1>4. \A a \in L : \A t \in R!Sides : B[T.kid[t][a]] \subseteq B[a] \ {a}
  BY Below DEF Sits
<1>5. f[c] = IF d = Sentinel THEN c ELSE f[d]
  BY <1>2, Zenon DEF Ends
<1> HIDE DEF S, d
<1>6. CASE d = Sentinel
  <2>1. f[c] = c
    BY <1>5, <1>6
  <2>2. ASSUME NEW a \in B[c], c \in B[a], a # c
        PROVE  FALSE
    BY <1>2, <2>2, Nested
  <2>. QED  BY <1>2, <1>3, <1>6, <2>1, <2>2 DEF d
<1>7. CASE d # Sentinel
  <2>1. d \in L /\ d \notin S /\ f[c] = f[d]
    <3>1. d \in L
      BY <1>3, <1>7 DEF Sits
    <3>2. d \notin S
      BY <1>1, <1>2, Zenon DEF d
    <3>. QED  BY <1>5, <1>7, <3>1, <3>2, Zenon
  <2>2. P(d)
    <3> HIDE DEF P
    <3>. QED  BY <2>1 DEF S
  <2>3. ASSUME NEW a \in B[c], f[d] \in B[a], f[d] # a
        PROVE  f[d] \in B[T.kid[dir[a]][a]]
    <3>1. CASE a = c
      BY <2>2, <3>1 DEF d
    <3>2. CASE a # c /\ a \in B[d]
      BY <2>2, <2>3, <3>2
    <3>3. CASE a # c /\ a \notin B[d]
      <4> DEFINE g == T.kid[R!Other(dir[c])][c]
      <4>1. a \in B[g] /\ B[g] \cap B[d] = {}
        <5>1. B[c] = {c} \cup B[d] \cup B[g] /\ B[d] \cap B[g] = {}
          BY <1>3 DEF Sits
        <5>2. a # c /\ a \notin B[d] /\ a \in B[c]
          BY <3>3
        <5> HIDE DEF g, P
        <5>3. a \in {c} \cup B[d] \cup B[g]
          BY <5>1, <5>2, Zenon
        <5>4. a \in B[g]
          BY <5>2, <5>3
        <5>. QED  BY <5>1, <5>4, Zenon
      <4>2. g \in L
        <5> DEFINE s == R!Other(dir[c])
        <5>1. s \in R!Sides
          BY <1>2, TwoSides
        <5> HIDE DEF s, P
        <5>2. Sits(T, L, B, c, s, T.kid[s][c])
          BY <1>2, <5>1, Below
        <5>3. T.kid[s][c] \in L \/ T.kid[s][c] = Sentinel
          BY <5>2 DEF Sits
        <5>4. g = T.kid[s][c]
          BY DEF s
        <5> HIDE DEF g
        <5>. QED  BY <1>3, <4>1, <5>3, <5>4, Zenon
      <4> HIDE DEF g
      <4>3. B[a] \subseteq B[g]
        BY <4>1, <4>2, Nested
      <4>. QED  BY <2>2, <2>3, <4>1, <4>3
    <3>. QED  BY <3>1, <3>2, <3>3
  <2>4. f[c] \in B[c]
    BY <1>3, <2>1, <2>2 DEF Sits
  <2>. QED  BY <1>2, <2>1, <2>2, <2>3, <2>4
<1>. QED  BY <1>6, <1>7

\* What the walk over the tree visits.
IsVisit(f, T) ==
    f = [c \in R!Cells \cup {NULL} |->
           IF c \in {NULL, Sentinel} THEN {}
           ELSE {c} \cup f[T.kid["L"][c]] \cup f[T.kid["R"][c]]]

VisitWalk(T) == CHOOSE f : IsVisit(f, T)

\* Visit computes a function that satisfies the equation of the traversal.
LEMMA VisitLoop ==
    ASSUME NEW T, NEW n
    PROVE  R!Visit(T, n) = VisitWalk(T)[n]
  BY Zenon DEF R!Visit, VisitWalk, IsVisit

\* It visits what is below a node, each node and no other.
LEMMA Visits ==
    ASSUME R!RBTreeAssumption, NEW T, NEW L, NEW B, Shape(T, L, B), Outside(T, L),
           NEW c \in L \cup {Sentinel}
    PROVE  R!Visit(T, c) = B[c] /\ R!ForEach(T) = L
<1> DEFINE w == [a \in R!Cells \cup {NULL} |-> IF a \in L \cup {Sentinel} THEN B[a]
                                              ELSE IF a = NULL THEN {} ELSE {a}]
<1>0. "L" \in R!Sides /\ "R" \in R!Sides /\ R!Other("L") = "R" /\ T \in R!Memory
  BY DEF R!Sides, R!Other, Shape
<1>1. L \cup {Sentinel} \subseteq R!Cells /\ NULL \notin R!Cells /\ Sentinel \notin L /\ B[Sentinel] = {}
  BY DEF Shape, R!RBTreeAssumption, R!Cells
<1>2. IsVisit(w, T)
  <2>1. ASSUME NEW a \in R!Cells \cup {NULL}
        PROVE  w[a] = IF a \in {NULL, Sentinel} THEN {}
                      ELSE {a} \cup w[T.kid["L"][a]] \cup w[T.kid["R"][a]]
    <3>1. CASE a \in {NULL, Sentinel}
      BY <1>1, <3>1
    <3>2. CASE a \in L
      <4>1. /\ T.kid["L"][a] \in L \cup {Sentinel} /\ T.kid["R"][a] \in L \cup {Sentinel}
            /\ B[a] = {a} \cup B[T.kid["L"][a]] \cup B[T.kid["R"][a]]
        BY <1>0, <3>2, Below DEF Sits
      <4>2. w[T.kid["L"][a]] = B[T.kid["L"][a]] /\ w[T.kid["R"][a]] = B[T.kid["R"][a]] /\ w[a] = B[a]
        BY <1>1, <3>2, <4>1
      <4>3. a \notin {NULL, Sentinel}
        BY <1>1, <3>2
      <4> HIDE DEF w
      <4>. QED  BY <4>1, <4>2, <4>3
    <3>3. CASE a \notin L /\ a \notin {NULL, Sentinel}
      <4>1. T.kid["L"][a] = NULL /\ T.kid["R"][a] = NULL
        BY <1>0, <3>3 DEF Outside
      <4>2. w[NULL] = {} /\ w[a] = {a}
        BY <1>1, <3>3
      <4> HIDE DEF w
      <4>. QED  BY <3>3, <4>1, <4>2
    <3>. QED  BY <3>1, <3>2, <3>3
  <2>2. w = [a \in R!Cells \cup {NULL} |-> w[a]]
    OBVIOUS
  <2> HIDE DEF w
  <2>. QED  BY <2>1, <2>2, Zenon DEF IsVisit
<1> DEFINE f == VisitWalk(T)
<1>3. IsVisit(f, T)
  BY <1>2, Zenon DEF VisitWalk
<1> HIDE DEF f
<1>4. \A a \in R!Cells \cup {NULL} :
        f[a] = IF a \in {NULL, Sentinel} THEN {}
               ELSE {a} \cup f[T.kid["L"][a]] \cup f[T.kid["R"][a]]
  BY <1>3, Zenon DEF IsVisit
<1>5. f[Sentinel] = B[Sentinel]
  BY <1>1, <1>4
<1> DEFINE S == {a \in L : f[a] # B[a]}
<1>6. S = {}
  <2> SUFFICES ASSUME S # {}
               PROVE  FALSE
    OBVIOUS
  <2>1. PICK a \in S : \A s \in R!Sides : T.kid[s][a] \notin S
    <3>1. S \subseteq L
      OBVIOUS
    <3> HIDE DEF S
    <3>. QED  BY <3>1, Lowest
  <2>2. /\ a \in L /\ T.kid["L"][a] \in L \cup {Sentinel} /\ T.kid["R"][a] \in L \cup {Sentinel}
        /\ B[a] = {a} \cup B[T.kid["L"][a]] \cup B[T.kid["R"][a]]
    BY <1>0, Below DEF Sits
  <2>3. f[T.kid["L"][a]] = B[T.kid["L"][a]] /\ f[T.kid["R"][a]] = B[T.kid["R"][a]]
    BY <1>0, <1>5, <2>1, <2>2
  <2>4. f[a] = {a} \cup f[T.kid["L"][a]] \cup f[T.kid["R"][a]]
    BY <1>1, <1>4, <2>2
  <2>. QED  BY <2>2, <2>3, <2>4
<1>7. \A a \in L \cup {Sentinel} : R!Visit(T, a) = B[a]
  BY <1>5, <1>6, VisitLoop DEF f
<1>8. R!ForEach(T) = L
  BY <1>7 DEF R!ForEach, Shape
<1>. QED  BY <1>7, <1>8

-----------------------------------------------------------------------------
(* The red-black tree: insertion.                                          *)

\* f satisfies the equation of default_rbtree_insert_value.
IsInsertWalk(f, T, n) ==
    f = [c \in R!ForEach(T) |-> IF T.kid[R!Branch(n, c)][c] = Sentinel THEN c
                              ELSE f[T.kid[R!Branch(n, c)][c]]]

InsertWalk(T, n) == CHOOSE f : IsInsertWalk(f, T, n)

\* InsertPlace computes a function that satisfies the equation of the descent.
LEMMA InsertPlaceWalk ==
    ASSUME NEW T, NEW n
    PROVE  R!InsertPlace(T, n) = InsertWalk(T, n)[T.root]
  BY Zenon DEF R!InsertPlace, InsertWalk, IsInsertWalk

\* Where n belongs: p has no child on its side, and whatever is above p has p
\* on the side on which n belongs.
Place(T, L, B, n, p) ==
    /\ p \in L /\ R!Branch(n, p) \in R!Sides /\ T.kid[R!Branch(n, p)][p] = Sentinel
    /\ \A a \in L : p \in B[a] /\ p # a => p \in B[T.kid[R!Branch(n, a)][a]]

\* The descent of default_rbtree_insert_value ends where the new node belongs.
LEMMA InsertPlaceFound ==
    ASSUME R!RBTreeAssumption, NEW T, NEW L, NEW B, Shape(T, L, B), Outside(T, L),
           T.root \in L, NEW n
    PROVE  Place(T, L, B, n, R!InsertPlace(T, n))
<1> DEFINE dir == [c \in L |-> R!Branch(n, c)]
           f == InsertWalk(T, n)
<1>1. dir \in [L -> R!Sides] /\ \A c : R!Branch(n, c) \in R!Sides
  BY DEF R!Branch, R!Sides
<1>2. R!ForEach(T) = L
  BY Visits
<1>3. \A g : Ends(g, T, L, dir) <=> IsInsertWalk(g, T, n)
  <2>1. \A c \in L : dir[c] = R!Branch(n, c)
    OBVIOUS
  <2> HIDE DEF dir
  <2>2. ASSUME NEW g
        PROVE  [c \in L |-> IF T.kid[dir[c]][c] = Sentinel THEN c ELSE g[T.kid[dir[c]][c]]]
               = [c \in L |-> IF T.kid[R!Branch(n, c)][c] = Sentinel THEN c
                              ELSE g[T.kid[R!Branch(n, c)][c]]]
    BY <2>1
  <2>. QED  BY <1>2, <2>2, Zenon DEF Ends, IsInsertWalk
<1> HIDE DEF dir
<1>4. Ends(f, T, L, dir)
  <2>1. PICK g \in [L -> L] : Ends(g, T, L, dir)
    BY <1>1, EndsExist
  <2>2. IsInsertWalk(g, T, n)
    BY <1>3, <2>1
  <2>3. IsInsertWalk(f, T, n)
    BY <2>2, Zenon DEF InsertWalk
  <2>. QED  BY <1>3, <2>3
<1> HIDE DEF f
<1>5. Ended(f, T, L, B, dir)
  BY <1>1, <1>4, EndsThere
<1>6. R!InsertPlace(T, n) = f[T.root] /\ B[T.root] = L
  BY InsertPlaceWalk DEF f, Shape
<1> DEFINE p == f[T.root]
<1>7. /\ p \in L /\ T.kid[dir[p]][p] = Sentinel
      /\ \A a \in L : p \in B[a] /\ p # a => p \in B[T.kid[dir[a]][a]]
  BY <1>5, <1>6 DEF Ended
<1> HIDE DEF p
<1>8. \A a \in L : dir[a] = R!Branch(n, a)
  BY DEF dir
<1>9. Place(T, L, B, n, p)
  BY <1>1, <1>7, <1>8 DEF Place
<1>. QED  BY <1>6, <1>9 DEF p

\* The memory after n was hung below p, on side s.
Hung(T, U, n, p, s) ==
    /\ U \in R!Memory /\ U.root = T.root /\ U.red = T.red \cup {n}
    /\ \A c \in R!Cells : U.par[c] = IF c = n THEN p ELSE T.par[c]
    /\ \A t \in R!Sides, c \in R!Cells :
         U.kid[t][c] = IF c = n THEN Sentinel
                       ELSE IF c = p /\ t = s THEN n ELSE T.kid[t][c]

\* default_rbtree_insert_value links the node there, red and without children.
LEMMA InsertValueDoes ==
    ASSUME NEW T \in R!Memory, NEW n \in Nodes, R!InsertPlace(T, n) \in R!Cells
    PROVE  Hung(T, R!InsertValue(T, n), n, R!InsertPlace(T, n), R!Branch(n, R!InsertPlace(T, n)))
<1> DEFINE p  == R!InsertPlace(T, n)
           s  == R!Branch(n, p)
           T1 == R!SetKid(T, s, p, n)
           T2 == R!SetPar(T1, n, p)
           T3 == R!SetKid(T2, "L", n, Sentinel)
           T4 == R!SetKid(T3, "R", n, Sentinel)
           T5 == R!Redden(T4, n)
<1>1. R!InsertValue(T, n) = T5
  BY DEF R!InsertValue
<1>2. s \in R!Sides /\ "L" \in R!Sides /\ "R" \in R!Sides /\ n \in R!Cells /\ Sentinel \in R!Cells /\ p \in R!Cells
      /\ \A t \in R!Sides : t = "L" \/ t = "R"
  BY DEF R!Branch, R!Sides, R!Cells
<1> HIDE DEF p, s, T1
<1>3. KidSet(T, T1, s, p, n)
  BY <1>2, SetKidDoes DEF T1
<1> HIDE DEF T2
<1>4. ParSet(T1, T2, n, p)
  BY <1>2, <1>3, SetParDoes DEF T2, KidSet
<1> HIDE DEF T3
<1>5. KidSet(T2, T3, "L", n, Sentinel)
  BY <1>2, <1>4, SetKidDoes DEF T3, ParSet
<1> HIDE DEF T4
<1>6. KidSet(T3, T4, "R", n, Sentinel)
  BY <1>2, <1>5, SetKidDoes DEF T4, KidSet
<1> HIDE DEF T5
<1>7. Recolored(T4, T5, T4.red \cup {n})
  BY <1>2, <1>6, ReddenDoes DEF T5, KidSet
<1>8. T5 \in R!Memory /\ T5.root = T.root /\ T5.red = T.red \cup {n}
  BY <1>3, <1>4, <1>5, <1>6, <1>7 DEF KidSet, ParSet, Recolored
<1>9. \A c \in R!Cells : T5.par[c] = IF c = n THEN p ELSE T.par[c]
  BY <1>3, <1>4, <1>5, <1>6, <1>7 DEF KidSet, ParSet, Recolored
<1>10. ASSUME NEW t \in R!Sides, NEW c \in R!Cells
       PROVE  T5.kid[t][c] = IF c = n THEN Sentinel
                       ELSE IF c = p /\ t = s THEN n ELSE T.kid[t][c]
  BY <1>2, <1>3, <1>4, <1>5, <1>6, <1>7 DEF KidSet, ParSet, Recolored
<1>11. Hung(T, T5, n, p, s)
  BY <1>8, <1>9, <1>10 DEF Hung
<1>. QED  BY <1>1, <1>11 DEF p, s

\* A node hung where it belongs leaves a search tree, with one node more.
LEMMA HungShape ==
    ASSUME R!RBTreeAssumption, NEW T, NEW L, NEW B, Shape(T, L, B), T.root \in L,
           NEW n \in Nodes, n \notin L, NEW p, Place(T, L, B, n, p),
           NEW U, Hung(T, U, n, p, R!Branch(n, p))
    PROVE  \E C : Shape(U, L \cup {n}, C)
<1> DEFINE M == L \cup {n}
           s == R!Branch(n, p)
           C == [c \in M \cup {Sentinel} |-> IF c = n THEN {n}
                                             ELSE IF p \in B[c] THEN B[c] \cup {n} ELSE B[c]]
<1>1. /\ p \in L /\ s \in R!Sides /\ T.kid[s][p] = Sentinel
      /\ \A a \in L : p \in B[a] /\ p # a => p \in B[T.kid[R!Branch(n, a)][a]]
  BY DEF Place
<1>2. /\ B \in [L \cup {Sentinel} -> SUBSET L] /\ B[Sentinel] = {} /\ B[T.root] = L
      /\ L \subseteq Nodes /\ n \in R!Cells /\ n # Sentinel /\ Sentinel \notin L
      /\ L \subseteq R!Cells
  BY DEF Shape, R!RBTreeAssumption, R!Cells
<1>3. C \in [M \cup {Sentinel} -> SUBSET M] /\ C[Sentinel] = {}
  BY <1>2
<1>4. /\ U \in R!Memory /\ U.root = T.root /\ U.red = T.red \cup {n}
      /\ \A c \in R!Cells : U.par[c] = IF c = n THEN p ELSE T.par[c]
      /\ \A t \in R!Sides, c \in R!Cells :
           U.kid[t][c] = IF c = n THEN Sentinel
                         ELSE IF c = p /\ t = s THEN n ELSE T.kid[t][c]
  BY DEF Hung
<1>5. \A c \in L \cup {Sentinel} : C[c] = IF p \in B[c] THEN B[c] \cup {n} ELSE B[c]
  BY <1>2
<1>6. C[n] = {n}
  OBVIOUS
<1> HIDE DEF C, s
<1>7. C[T.root] = M
  BY <1>1, <1>2, <1>5
<1>8. ASSUME NEW c \in L, NEW t \in R!Sides
      PROVE  Kid(U, M, C, c, t)
  <2> DEFINE d == T.kid[t][c]
             e == T.kid[R!Other(t)][c]
             x == U.kid[t][c]
             y == U.kid[R!Other(t)][c]
  <2>1. Sits(T, L, B, c, t, d) /\ R!Other(t) \in R!Sides /\ R!Other(t) # t
    BY Below, TwoSides
  <2>2. Sits(T, L, B, c, R!Other(t), e)
    BY <2>1, Below
  <2>3. /\ d \in L \cup {Sentinel} /\ (d \in L => T.par[d] = c) /\ c \in B[c]
        /\ B[d] \subseteq B[c] \ {c} /\ B[d] \cap B[e] = {}
        /\ B[c] = {c} \cup B[d] \cup B[e]
        /\ \A m \in B[d] : Aside(t, m, c)
        /\ e \in L \cup {Sentinel} /\ B[e] \subseteq B[c] \ {c}
    BY <2>1, <2>2 DEF Sits
  <2>5. x = (IF c = p /\ t = s THEN n ELSE d) /\ y = (IF c = p /\ R!Other(t) = s THEN n ELSE e)
    <3>1. c \in R!Cells /\ c # n
      BY <1>2
    <3>. QED  BY <1>4, <2>1, <3>1
  <2>6. R!Branch(n, c) \in R!Sides /\ Aside(R!Branch(n, c), n, c)
    <3>1. Key[n] \in Int /\ Key[c] \in Int
      BY <1>2 DEF R!RBTreeAssumption
    <3>. QED  BY <3>1 DEF R!Branch, Aside, R!Sides
  <2>7. n \notin B[d] /\ n \notin B[e] /\ n \notin B[c]
    BY <1>2, <2>3
  <2>8. x \in L \cup {n} \cup {Sentinel} /\ (x \in M => U.par[x] = c)
    <3>1. CASE c = p /\ t = s
      BY <1>2, <1>4, <2>5, <3>1
    <3>2. CASE ~(c = p /\ t = s)
      <4>1. x = d
        BY <2>5, <3>2
      <4>2. d \in M => d \in L /\ d \in R!Cells /\ d # n
        BY <1>2, <2>3
      <4>. QED  BY <1>4, <2>3, <4>1, <4>2
    <3>. QED  BY <3>1, <3>2
  <2> DEFINE P == C[x]
             Q == C[y]
  <2>9. /\ c \notin P /\ P \cap Q = {} /\ C[c] = {c} \cup P \cup Q
        /\ \A m \in P : Aside(t, m, c)
    <3>1. CASE c = p /\ t = s
      <4>1. x = n /\ y = e /\ d = Sentinel
        BY <1>1, <2>1, <2>5, <3>1
      <4>2. P = {n} /\ Q = B[e] /\ C[c] = B[c] \cup {n} /\ B[d] = {}
        <5>1. P = {n}
          BY <1>6, <4>1
        <5>2. B[d] = {}
          BY <1>2, <4>1
        <5>3. p \notin B[e] /\ p \in B[c]
          BY <2>3, <3>1
        <5>4. C[e] = B[e] /\ C[c] = B[c] \cup {n}
          BY <1>5, <2>3, <5>3
        <5>. QED  BY <4>1, <5>1, <5>2, <5>4
      <4>3. \A m \in P : Aside(t, m, c)
        BY <2>6, <3>1, <4>2 DEF s
      <4> HIDE DEF d, e, x, y, P, Q
      <4>. QED  BY <1>2, <2>3, <2>7, <4>2, <4>3
    <3>2. CASE c = p /\ t # s
      <4>1. R!Other(t) = s /\ T.kid[s][p] = Sentinel
        BY <1>1, <3>2, TwoSides
      <4>2. x = d /\ y = n /\ e = Sentinel
        BY <2>5, <3>2, <4>1
      <4>3. P = B[d] /\ Q = {n} /\ C[c] = B[c] \cup {n} /\ B[e] = {}
        <5>1. Q = {n}
          BY <1>6, <4>2
        <5>2. B[e] = {}
          BY <1>2, <4>2
        <5>3. p \notin B[d] /\ p \in B[c]
          BY <2>3, <3>2
        <5>4. C[d] = B[d] /\ C[c] = B[c] \cup {n}
          BY <1>5, <2>3, <5>3
        <5>. QED  BY <4>2, <5>1, <5>2, <5>4
      <4> HIDE DEF d, e, x, y, P, Q
      <4>. QED  BY <1>2, <2>3, <2>7, <4>3
    <3>3. CASE c # p /\ p \notin B[c]
      <4>1. x = d /\ y = e
        BY <2>5, <3>3
      <4>2. P = B[d] /\ Q = B[e] /\ C[c] = B[c]
        BY <1>5, <2>3, <3>3, <4>1
      <4> HIDE DEF d, e, x, y, P, Q
      <4>. QED  BY <2>3, <4>2
    <3>4. CASE c # p /\ p \in B[c]
      <4>1. x = d /\ y = e
        BY <2>5, <3>4
      <4>2. p \in B[T.kid[R!Branch(n, c)][c]]
        BY <1>1, <3>4
      <4>3. CASE t = R!Branch(n, c)
        <5>1. p \in B[d] /\ p \notin B[e]
          BY <2>3, <4>2, <4>3
        <5>2. P = B[d] \cup {n} /\ Q = B[e] /\ C[c] = B[c] \cup {n}
          BY <1>5, <2>3, <3>4, <4>1, <5>1
        <5>3. Aside(t, n, c)
          BY <2>6, <4>3
        <5> HIDE DEF d, e, x, y, P, Q
        <5>. QED  BY <1>2, <2>3, <2>7, <5>2, <5>3
      <4>4. CASE t # R!Branch(n, c)
        <5>0. R!Branch(n, c) = R!Other(t)
          BY <2>6, <4>4, TwoSides
        <5>1. p \notin B[d] /\ p \in B[e]
          BY <2>3, <4>2, <5>0
        <5>2. P = B[d] /\ Q = B[e] \cup {n} /\ C[c] = B[c] \cup {n}
          BY <1>5, <2>3, <3>4, <4>1, <5>1
        <5> HIDE DEF d, e, x, y, P, Q
        <5>. QED  BY <1>2, <2>3, <2>7, <5>2
      <4>. QED  BY <4>3, <4>4
    <3>. QED  BY <3>1, <3>2, <3>3, <3>4
  <2>. QED  BY <2>8, <2>9 DEF Kid, Half
<1>9. ASSUME NEW t \in R!Sides
      PROVE  Kid(U, M, C, n, t)
  <2>1. U.kid[t][n] = Sentinel /\ U.kid[R!Other(t)][n] = Sentinel
    BY <1>2, <1>4, TwoSides
  <2>. QED  BY <1>2, <1>3, <1>6, <2>1 DEF Kid, Half
<1>10. ASSUME NEW c \in M, NEW t \in R!Sides
       PROVE  Kid(U, M, C, c, t)
  BY <1>8, <1>9
<1>11. M \subseteq Nodes /\ U.root \in M \cup {Sentinel} /\ C[U.root] = M
  BY <1>2, <1>4, <1>7
<1>. QED  BY <1>3, <1>4, <1>10, <1>11 DEF Shape

\* After it was hung and made red only its parent's colour can be wrong.
LEMMA HungPushed ==
    ASSUME R!RBTreeAssumption, NEW T, NEW L, Good(T, L), NEW B, Shape(T, L, B), T.root \in L,
           NEW n \in Nodes, n \notin L, NEW p, Place(T, L, B, n, p),
           NEW U, Hung(T, U, n, p, R!Branch(n, p))
    PROVE  Pushed(U, L \cup {n}, n)
<1> DEFINE M == L \cup {n}
           s == R!Branch(n, p)
<1>1. PICK b : Heights(T, L, b, NULL, "L")
  BY DEF Good
<1>2. Full(T, L, b) /\ ApartBut(T, L, NULL) /\ Outside(T, L) /\ T.root \notin T.red
  BY <1>1, NoHole DEF Good
<1>3. p \in L /\ s \in R!Sides /\ T.kid[s][p] = Sentinel
  BY DEF Place
<1>4. /\ n \in R!Cells /\ n # Sentinel /\ Sentinel \notin L /\ L \subseteq R!Cells
      /\ NULL \notin L
  BY DEF Shape, R!RBTreeAssumption, R!Cells
<1>5. /\ U.root = T.root /\ U.red = T.red \cup {n}
      /\ \A t \in R!Sides, c \in R!Cells :
           U.kid[t][c] = IF c = n THEN Sentinel
                         ELSE IF c = p /\ t = s THEN n ELSE T.kid[t][c]
  BY DEF Hung
<1> HIDE DEF s
<1>6. ASSUME NEW c \in L, NEW t \in R!Sides
      PROVE  /\ T.kid[t][c] \in L \cup {Sentinel} /\ T.kid[t][c] # n
             /\ U.kid[t][c] = IF c = p /\ t = s THEN n ELSE T.kid[t][c]
  <2>1. T.kid[t][c] \in L \cup {Sentinel}
    BY Below DEF Sits
  <2>2. c \in R!Cells /\ c # n
    BY <1>4
  <2>. QED  BY <1>4, <1>5, <2>1, <2>2
<1>7. \A t \in R!Sides : U.kid[t][n] = Sentinel
  BY <1>4, <1>5
<1> DEFINE h == [c \in M \cup {Sentinel} |-> IF c = n THEN 0 ELSE b[c]]
<1>8. Full(U, M, h)
  <2>1. /\ b \in [L \cup {Sentinel} -> Nat] /\ b[Sentinel] = 0
        /\ \A c \in L, t \in R!Sides : b[c] = b[T.kid[t][c]] + Black(T, c)
    BY <1>2 DEF Full
  <2>2. h \in [M \cup {Sentinel} -> Nat] /\ h[Sentinel] = 0
    BY <1>4, <2>1
  <2>3. ASSUME NEW c \in M, NEW t \in R!Sides
        PROVE  h[c] = h[U.kid[t][c]] + Black(U, c)
    <3>1. CASE c = n
      <4>1. h[n] = 0 /\ h[U.kid[t][n]] = 0 /\ Black(U, n) = 0
        BY <1>5, <1>7, <2>2 DEF Black
      <4> HIDE DEF h
      <4>. QED  BY <3>1, <4>1
    <3>2. CASE c # n
      <4>1. c \in L /\ Black(U, c) = Black(T, c) /\ h[c] = b[c]
        BY <1>5, <3>2 DEF Black
      <4>2. h[U.kid[t][c]] = b[T.kid[t][c]]
        <5>1. CASE c = p /\ t = s
          <6>1. U.kid[t][c] = n /\ T.kid[t][c] = Sentinel
            BY <1>3, <1>6, <4>1, <5>1
          <6>. QED  BY <2>1, <6>1
        <5>2. CASE ~(c = p /\ t = s)
          <6>1. U.kid[t][c] = T.kid[t][c] /\ T.kid[t][c] \in L \cup {Sentinel} /\ T.kid[t][c] # n
            BY <1>6, <4>1, <5>2
          <6>. QED  BY <6>1
        <5>. QED  BY <5>1, <5>2
      <4> HIDE DEF h
      <4>. QED  BY <2>1, <4>1, <4>2
    <3>. QED  BY <3>1, <3>2
  <2>. QED  BY <2>2, <2>3 DEF Full
<1>9. ApartBut(U, M, n)
  <2> SUFFICES ASSUME NEW c \in M, NEW t \in R!Sides, c \in U.red, U.kid[t][c] \in U.red,
                      U.kid[t][c] # n
               PROVE  FALSE
    BY DEF ApartBut
  <2>1. c # n
    BY <1>4, <1>5, <1>7, <1>2 DEF Outside
  <2>2. c \in L /\ c \in T.red /\ U.kid[t][c] = T.kid[t][c] /\ T.kid[t][c] \in T.red
    BY <1>5, <1>6, <2>1
  <2>3. T.kid[t][c] = NULL
    BY <1>2, <2>2 DEF ApartBut
  <2>. QED  BY <1>6, <2>2, <2>3 DEF R!RBTreeAssumption, Shape
<1>10. Outside(U, M)
  <2>1. Sentinel \notin U.red
    BY <1>2, <1>4, <1>5 DEF Outside
  <2>2. ASSUME NEW c \in R!Cells, NEW t \in R!Sides, c \notin M
        PROVE  U.kid[t][c] = NULL
    BY <1>2, <1>3, <1>5, <2>2 DEF Outside
  <2>. QED  BY <2>1, <2>2 DEF Outside
<1>11. U.root \in U.red => U.root = n
  BY <1>2, <1>5
<1>12. \E C : Shape(U, M, C)
  BY HungShape
<1>. QED  BY <1>5, <1>8, <1>9, <1>10, <1>11, <1>12 DEF Pushed

\* A tree with no root has no nodes.
LEMMA EmptyTree ==
    ASSUME R!RBTreeAssumption, NEW T, NEW L, NEW B, Shape(T, L, B)
    PROVE  T.root \in L \cup {Sentinel} /\ (T.root = Sentinel <=> L = {})
           /\ (T.root \in L <=> L # {}) /\ Sentinel \notin L
<1>1. T.root \in L \cup {Sentinel} /\ B[T.root] = L /\ B[Sentinel] = {} /\ Sentinel \notin L
  BY DEF Shape, R!RBTreeAssumption
<1>. QED  BY <1>1

\* The first node of a tree.
LEMMA InsertRootGood ==
    ASSUME R!RBTreeAssumption, NEW T, NEW L, Good(T, L), T.root = Sentinel, NEW n \in Nodes
    PROVE  Good(R!InsertRoot(T, n), {n}) /\ L = {}
<1> DEFINE T1 == R!SetKid(T, "L", n, Sentinel)
           T2 == R!SetKid(T1, "R", n, Sentinel)
           T3 == R!SetPar(T2, n, NULL)
           T4 == R!Blacken(T3, n)
           U == [T4 EXCEPT !.root = n]
<1>1. PICK B : Shape(T, L, B)
  BY DEF Good
<1>2. L = {} /\ T \in R!Memory /\ Outside(T, L)
  BY <1>1, EmptyTree DEF Shape, Good
<1>3. R!InsertRoot(T, n) = U
  BY DEF R!InsertRoot
<1>4. "L" \in R!Sides /\ "R" \in R!Sides /\ n \in R!Cells /\ Sentinel \in R!Cells /\ n # Sentinel /\ n # NULL
      /\ \A t \in R!Sides : t = "L" \/ t = "R"
  BY DEF R!Sides, R!Cells, R!RBTreeAssumption
<1> HIDE DEF T1
<1>5. KidSet(T, T1, "L", n, Sentinel)
  BY <1>2, <1>4, SetKidDoes DEF T1
<1> HIDE DEF T2
<1>6. KidSet(T1, T2, "R", n, Sentinel)
  BY <1>4, <1>5, SetKidDoes DEF T2, KidSet
<1> HIDE DEF T3
<1>7. ParSet(T2, T3, n, NULL)
  BY <1>4, <1>6, SetParDoes DEF T3, KidSet
<1> HIDE DEF T4
<1>8. Recolored(T3, T4, T3.red \ {n})
  BY <1>4, <1>7, BlackenDoes DEF T4, ParSet
<1> HIDE DEF U
<1>9. RootSet(T4, U, n)
  BY <1>4, <1>8, RootDoes DEF U, Recolored
<1>10. /\ U \in R!Memory /\ U.root = n /\ U.red = T.red \ {n}
       /\ \A t \in R!Sides, c \in R!Cells : U.kid[t][c] = IF c = n THEN Sentinel ELSE T.kid[t][c]
  BY <1>4, <1>5, <1>6, <1>7, <1>8, <1>9 DEF KidSet, ParSet, Recolored, RootSet
<1> DEFINE C == [c \in {n} \cup {Sentinel} |-> IF c = n THEN {n} ELSE {}]
           h == [c \in {n} \cup {Sentinel} |-> IF c = n THEN 1 ELSE 0]
<1>11. Shape(U, {n}, C)
  <2>1. C \in [{n} \cup {Sentinel} -> SUBSET {n}] /\ C[Sentinel] = {} /\ C[n] = {n}
    BY <1>4
  <2> HIDE DEF C
  <2>2. ASSUME NEW t \in R!Sides
        PROVE  Kid(U, {n}, C, n, t)
    <3>1. U.kid[t][n] = Sentinel /\ U.kid[R!Other(t)][n] = Sentinel
      BY <1>4, <1>10, TwoSides
    <3> DEFINE c == U.kid[t][n]
               e == U.kid[R!Other(t)][n]
    <3>2. c = Sentinel /\ e = Sentinel
      BY <3>1
    <3> HIDE DEF c, e
    <3>3. Half({n}, n, t, c, U.par[c], C[n], C[c], C[e])
      BY <1>4, <2>1, <3>2 DEF Half
    <3>. QED  BY <3>3 DEF Kid, c, e
  <2>. QED  BY <1>10, <2>1, <2>2 DEF Shape
<1>12. Full(U, {n}, h)
  <2>1. h \in [{n} \cup {Sentinel} -> Nat] /\ h[Sentinel] = 0 /\ h[n] = 1
    BY <1>4
  <2>2. Black(U, n) = 1 /\ \A t \in R!Sides : U.kid[t][n] = Sentinel
    BY <1>4, <1>10 DEF Black
  <2> HIDE DEF h
  <2>. QED  BY <2>1, <2>2 DEF Full
<1>13. Heights(U, {n}, h, NULL, "L")
  BY <1>11, <1>12, NoHole
<1>14. ApartBut(U, {n}, NULL)
  BY <1>10 DEF ApartBut
<1>15. Outside(U, {n})
  BY <1>2, <1>10 DEF Outside
<1>16. U.root \notin U.red
  BY <1>10
<1>. QED  BY <1>2, <1>3, <1>11, <1>13, <1>14, <1>15, <1>16 DEF Good

\* rbtree_insert adds the node and keeps the tree in order.
LEMMA InsertGood ==
    ASSUME R!RBTreeAssumption, NEW T, NEW L, Good(T, L), NEW n \in Nodes, n \notin L
    PROVE  Good(R!InsertNode(T, n), L \cup {n})
<1>1. PICK B : Shape(T, L, B)
  BY DEF Good
<1>2. Outside(T, L) /\ T \in R!Memory /\ L \subseteq R!Cells
  BY <1>1 DEF Good, Shape, R!Cells
<1>3. CASE T.root = Sentinel
  <2>1. R!InsertNode(T, n) = R!InsertRoot(T, n)
    BY <1>3 DEF R!InsertNode
  <2>2. Good(R!InsertRoot(T, n), {n}) /\ L = {}
    BY <1>3, InsertRootGood
  <2>3. L \cup {n} = {n}
    BY <2>2
  <2>. QED  BY <2>1, <2>2, <2>3
<1>4. CASE T.root # Sentinel
  <2> DEFINE p == R!InsertPlace(T, n)
             U == R!InsertValue(T, n)
  <2>1. T.root \in L
    BY <1>1, <1>4, EmptyTree
  <2>2. Place(T, L, B, n, p)
    BY <1>1, <1>2, <2>1, InsertPlaceFound
  <2>3. p \in R!Cells
    BY <1>2, <2>2 DEF Place
  <2>4. Hung(T, U, n, p, R!Branch(n, p))
    BY <1>2, <2>3, InsertValueDoes
  <2> HIDE DEF p, U
  <2>5. Pushed(U, L \cup {n}, n)
    BY <1>1, <2>1, <2>2, <2>4, HungPushed
  <2>6. Good(R!InsertFix(U, n), L \cup {n})
    BY <2>5, InsertFixed
  <2>. QED  BY <1>4, <2>6 DEF R!InsertNode, U
<1>. QED  BY <1>3, <1>4

-----------------------------------------------------------------------------
(* The red-black tree: the smallest node.                                  *)

\* f satisfies the equation of rbtree_min.
IsMinWalk(f, T) ==
    f = [c \in R!Cells \cup {NULL} |->
           IF c # NULL /\ T.kid["L"][c] # Sentinel THEN f[T.kid["L"][c]] ELSE c]

MinWalk(T) == CHOOSE f : IsMinWalk(f, T)

\* MinFrom computes a function that satisfies the equation of the descent.
LEMMA MinFromWalk ==
    ASSUME NEW T, NEW c
    PROVE  R!MinFrom(T, c) = MinWalk(T)[c]
  BY Zenon DEF R!MinFrom, MinWalk, IsMinWalk

\* m is the leftmost of the nodes below c.
Leftmost(T, L, B, c, m) ==
    /\ m \in L /\ m \in B[c] /\ T.kid["L"][m] = Sentinel
    /\ \A d \in B[c] : Key[m] <= Key[d]

\* What the walk to the left finds, from a node and from the sentinel.
LEMMA MinFound ==
    ASSUME R!RBTreeAssumption, NEW T, NEW L, NEW B, Shape(T, L, B), Outside(T, L)
    PROVE  /\ \A c \in L : Leftmost(T, L, B, c, R!MinFrom(T, c))
           /\ R!MinFrom(T, Sentinel) = NULL
<1> DEFINE dir == [c \in L |-> "L"]
           f == MinWalk(T)
<1>1. dir \in [L -> R!Sides] /\ "L" \in R!Sides /\ "R" \in R!Sides /\ R!Other("L") = "R"
  BY DEF R!Sides, R!Other
<1>2. L \cup {Sentinel} \subseteq R!Cells /\ NULL \notin R!Cells /\ Sentinel \notin L /\ B[Sentinel] = {}
      /\ T \in R!Memory /\ L \subseteq Nodes /\ \A c \in L : B[c] \subseteq L
  BY DEF Shape, R!RBTreeAssumption, R!Cells
<1>3. \A c \in L : dir[c] = "L"
  OBVIOUS
<1> HIDE DEF dir
<1>4. ASSUME NEW c \in R!Cells, c \notin L
      PROVE  T.kid["L"][c] = NULL
  BY <1>1, <1>4 DEF Outside
<1>5. IsMinWalk(f, T)
  <2>1. PICK g \in [L -> L] : Ends(g, T, L, dir)
    BY <1>1, EndsExist
  <2> DEFINE w == [c \in R!Cells \cup {NULL} |-> IF c \in L THEN g[c] ELSE NULL]
  <2>2. ASSUME NEW c \in R!Cells \cup {NULL}
        PROVE  w[c] = IF c # NULL /\ T.kid["L"][c] # Sentinel THEN w[T.kid["L"][c]] ELSE c
    <3>1. CASE c = NULL
      BY <1>2, <3>1
    <3>2. CASE c \in L
      <4>1. T.kid["L"][c] \in L \cup {Sentinel} /\ T.kid["L"][c] \in R!Cells
        BY <1>1, <1>2, <3>2, Below DEF Sits
      <4>2. g[c] = IF T.kid["L"][c] = Sentinel THEN c ELSE g[T.kid["L"][c]]
        BY <1>3, <2>1, <3>2, Zenon DEF Ends
      <4>3. w[c] = g[c] /\ (T.kid["L"][c] # Sentinel => w[T.kid["L"][c]] = g[T.kid["L"][c]])
        BY <3>2, <4>1
      <4>4. c # NULL
        BY <1>2, <3>2
      <4> HIDE DEF w
      <4>. QED  BY <4>2, <4>3, <4>4
    <3>3. CASE c \notin L /\ c # NULL
      <4>1. T.kid["L"][c] = NULL
        BY <1>4, <3>3
      <4>2. w[c] = NULL /\ w[NULL] = NULL /\ NULL # Sentinel
        BY <1>2, <3>3
      <4> HIDE DEF w
      <4>. QED  BY <3>3, <4>1, <4>2
    <3>. QED  BY <3>1, <3>2, <3>3
  <2>3. w = [c \in R!Cells \cup {NULL} |-> w[c]]
    OBVIOUS
  <2> HIDE DEF w
  <2>4. IsMinWalk(w, T)
    BY <2>2, <2>3, Zenon DEF IsMinWalk
  <2>. QED  BY <2>4, Zenon DEF MinWalk
<1> HIDE DEF f
<1>6. \A c \in R!Cells \cup {NULL} :
        f[c] = IF c # NULL /\ T.kid["L"][c] # Sentinel THEN f[T.kid["L"][c]] ELSE c
  BY <1>5 DEF IsMinWalk
<1>7. f[Sentinel] = NULL
  <2>1. T.kid["L"][Sentinel] = NULL /\ NULL # Sentinel /\ Sentinel \in R!Cells
    BY <1>2, <1>4
  <2>2. f[Sentinel] = f[NULL]
    BY <1>6, <2>1
  <2>3. f[NULL] = NULL
    BY <1>6
  <2>. QED  BY <2>2, <2>3
<1> DEFINE S == {c \in L : ~Leftmost(T, L, B, c, f[c])}
<1>8. S = {}
  <2> SUFFICES ASSUME S # {}
               PROVE  FALSE
    OBVIOUS
  <2>1. PICK c \in S : \A s \in R!Sides : T.kid[s][c] \notin S
    <3>1. S \subseteq L
      OBVIOUS
    <3> HIDE DEF S
    <3>. QED  BY <3>1, Lowest
  <2> DEFINE d == T.kid["L"][c]
             e == T.kid["R"][c]
  <2>2. c \in L /\ c \in R!Cells /\ c # NULL /\ c \in B[c] /\ c \in Nodes
    BY <1>2, BelowItself
  <2>3. Sits(T, L, B, c, "L", d) /\ Sits(T, L, B, c, "R", e)
    BY <1>1, <2>2, Below
  <2>4. /\ d \in L \cup {Sentinel} /\ B[d] \subseteq B[c]
        /\ B[c] = {c} \cup B[d] \cup B[e]
        /\ \A a \in B[d] : Key[a] <= Key[c]
        /\ \A a \in B[e] : Key[c] <= Key[a]
    BY <1>1, <2>3 DEF Sits, Aside
  <2>5. \A a \in L : Key[a] \in Int
    BY <1>2 DEF R!RBTreeAssumption
  <2>6. CASE d = Sentinel
    <3>1. f[c] = c /\ B[d] = {}
      BY <1>2, <1>6, <2>2, <2>6
    <3>2. Key[c] <= Key[c]
      BY <2>2, <2>5
    <3>3. Leftmost(T, L, B, c, f[c])
      BY <2>2, <2>4, <2>6, <3>1, <3>2 DEF Leftmost
    <3>. QED  BY <3>3
  <2>7. CASE d # Sentinel
    <3>1. f[c] = f[d] /\ d \in L
      BY <1>6, <2>2, <2>4, <2>7
    <3>2. Leftmost(T, L, B, d, f[d])
      BY <1>1, <2>1, <3>1
    <3> DEFINE m == f[d]
    <3>3. m \in L /\ m \in B[d] /\ T.kid["L"][m] = Sentinel /\ \A a \in B[d] : Key[m] <= Key[a]
      BY <3>2 DEF Leftmost
    <3> HIDE DEF m, d, e
    <3>4. ASSUME NEW a \in B[c]
          PROVE  Key[m] <= Key[a]
      <4>1. Key[m] <= Key[c] /\ Key[m] \in Int /\ Key[c] \in Int
        BY <2>2, <2>4, <2>5, <3>3
      <4>2. CASE a \in B[d]
        BY <3>3, <4>2
      <4>3. CASE a = c
        BY <4>1, <4>3
      <4>4. CASE a \in B[e]
        <5>1. Key[c] <= Key[a] /\ Key[a] \in Int
          BY <1>2, <2>2, <2>4, <2>5, <4>4
        <5>. QED  BY <4>1, <5>1
      <4>. QED  BY <2>4, <4>2, <4>3, <4>4
    <3>5. Leftmost(T, L, B, c, m)
      BY <2>4, <3>3, <3>4 DEF Leftmost
    <3>. QED  BY <3>1, <3>5 DEF m
  <2>. QED  BY <2>6, <2>7
<1>. QED  BY <1>7, <1>8, MinFromWalk DEF f

-----------------------------------------------------------------------------
(* The red-black tree: search.                                             *)

\* f satisfies the equation of rbtree_find_node.
IsFindWalk(f, T, k) ==
    f = [c \in R!ForEach(T) \cup {Sentinel} |->
           IF c = Sentinel THEN NULL
           ELSE IF Key[c] = k THEN c ELSE f[T.kid[R!Turn(c, k)][c]]]

FindWalk(T, k) == CHOOSE f : IsFindWalk(f, T, k)

\* FindNode computes a function that satisfies the equation of the search.
LEMMA FindNodeWalk ==
    ASSUME NEW T, NEW k
    PROVE  R!FindNode(T, k) = FindWalk(T, k)[T.root]
  BY Zenon DEF R!FindNode, FindWalk, IsFindWalk

\* The search finds a node with the key, or there is none.
LEMMA Found ==
    ASSUME R!RBTreeAssumption, NEW T, NEW L, NEW B, Shape(T, L, B), Outside(T, L), NEW k \in Int
    PROVE  LET n == R!FindNode(T, k)
           IN  IF \E c \in L : Key[c] = k THEN n \in L /\ Key[n] = k ELSE n = NULL
<1> DEFINE f == FindWalk(T, k)
           D == L \cup {Sentinel}
           V == L \cup {NULL}
<1>1. /\ NULL \notin L /\ Sentinel \notin L /\ B[Sentinel] = {} /\ B[T.root] = L /\ T.root \in D
      /\ L \subseteq Nodes /\ \A c \in L : B[c] \subseteq L
  BY DEF Shape, R!RBTreeAssumption
<1>2. R!ForEach(T) = L
  BY Visits
<1>3. \A c : R!Turn(c, k) \in R!Sides
  BY DEF R!Turn, R!Sides
<1>4. ASSUME NEW c \in L, NEW s \in R!Sides
      PROVE  T.kid[s][c] \in D
  BY Below DEF Sits
<1>5. IsFindWalk(f, T, k)
  <2>1. PICK K \in Nat : \E left \in [D -> 0 .. K] :
             \A c \in L, s \in R!Sides : left[T.kid[s][c]] < left[c]
    BY Depths
  <2>2. PICK left \in [D -> 0 .. K] : \A c \in L, s \in R!Sides : left[T.kid[s][c]] < left[c]
    BY <2>1
  <2> DEFINE stop == [c \in D |-> c = Sentinel \/ Key[c] = k]
             base == [c \in D |-> IF c = Sentinel THEN NULL ELSE c]
             next == [c \in D |-> T.kid[R!Turn(c, k)][c]]
             G == [c \in D |-> [v \in V |-> v]]
  <2>3. base \in [D -> V] /\ G \in [D -> [V -> V]]
    OBVIOUS
  <2>4. ASSUME NEW c \in D, ~stop[c]
        PROVE  next[c] \in D /\ left[next[c]] < left[c]
    <3>1. c \in L
      BY <2>4
    <3>. QED  BY <1>3, <1>4, <2>2, <3>1
  <2>5. PICK g : Descends(g, D, V, stop, base, next, G)
    <3> HIDE DEF stop, base, next, G, D, V
    <3>. QED  BY <2>2, <2>3, <2>4, Descent
  <2>6. g \in [D -> V] /\ \A c \in D : g[c] = IF stop[c] THEN base[c] ELSE G[c][g[next[c]]]
    BY <2>5 DEF Descends
  <2>7. ASSUME NEW c \in D
        PROVE  g[c] = IF c = Sentinel THEN NULL
                      ELSE IF Key[c] = k THEN c ELSE g[T.kid[R!Turn(c, k)][c]]
    <3>1. CASE stop[c]
      BY <2>6, <3>1
    <3>2. CASE ~stop[c]
      <4>1. next[c] \in D /\ g[c] = G[c][g[next[c]]]
        BY <2>4, <2>6, <3>2
      <4>2. g[next[c]] \in V
        BY <2>6, <4>1
      <4>3. g[c] = g[next[c]]
        BY <4>1, <4>2
      <4>. QED  BY <3>2, <4>3
    <3>. QED  BY <3>1, <3>2
  <2>8. g = [c \in D |-> g[c]]
    BY <2>6
  <2> HIDE DEF stop, base, next, G
  <2>9. IsFindWalk(g, T, k)
    BY <1>2, <2>7, <2>8, Zenon DEF IsFindWalk
  <2>. QED  BY <2>9, Zenon DEF FindWalk
<1> HIDE DEF f
<1>6. \A c \in D : f[c] = IF c = Sentinel THEN NULL
                          ELSE IF Key[c] = k THEN c ELSE f[T.kid[R!Turn(c, k)][c]]
  BY <1>2, <1>5, Zenon DEF IsFindWalk
<1> DEFINE P(c) == IF \E e \in B[c] : Key[e] = k THEN f[c] \in L /\ Key[f[c]] = k ELSE f[c] = NULL
           S == {c \in L : ~P(c)}
<1>7. P(Sentinel)
  BY <1>1, <1>6
<1>8. S = {}
  <2> SUFFICES ASSUME S # {}
               PROVE  FALSE
    OBVIOUS
  <2>1. PICK c \in S : \A s \in R!Sides : T.kid[s][c] \notin S
    <3>1. S \subseteq L
      OBVIOUS
    <3> HIDE DEF S
    <3>. QED  BY <3>1, Lowest
  <2>2. c \in L /\ ~P(c)
    OBVIOUS
  <2> DEFINE t == R!Turn(c, k)
             d == T.kid[t][c]
             e == T.kid[R!Other(t)][c]
  <2>3. Sits(T, L, B, c, t, d) /\ R!Other(t) \in R!Sides
    BY <1>3, <2>2, Below, TwoSides
  <2>4. Sits(T, L, B, c, R!Other(t), e)
    BY <2>2, <2>3, Below
  <2>5. /\ d \in L \cup {Sentinel} /\ B[c] = {c} \cup B[d] \cup B[e] /\ c \in B[c]
        /\ \A a \in B[e] : Aside(R!Other(t), a, c)
        /\ B[e] \subseteq L
    BY <2>3, <2>4 DEF Sits
  <2>6. \A a \in L : Key[a] \in Int
    BY <1>1 DEF R!RBTreeAssumption
  <2>7. CASE Key[c] = k
    <3>1. f[c] = c
      BY <1>1, <1>6, <2>2, <2>7
    <3>. QED  BY <2>2, <2>5, <2>7, <3>1
  <2>8. CASE Key[c] # k
    <3>1. f[c] = f[d] /\ P(d)
      <4>1. f[c] = f[d]
        BY <1>1, <1>6, <2>2, <2>8
      <4>2. P(d)
        BY <1>3, <1>7, <2>1, <2>5
      <4>. QED  BY <4>1, <4>2
    <3>2. ASSUME NEW a \in B[e]
          PROVE  Key[a] # k
      <4>1. Key[a] \in Int /\ Key[c] \in Int /\ Aside(R!Other(t), a, c)
        BY <2>2, <2>5, <2>6
      <4>. QED  BY <2>8, <4>1 DEF R!Turn, Aside, R!Other
    <3>3. (\E a \in B[c] : Key[a] = k) <=> (\E a \in B[d] : Key[a] = k)
      <4> HIDE DEF d, e, t
      <4>. QED  BY <2>5, <2>8, <3>2
    <3>. QED  BY <2>2, <3>1, <3>3
  <2>. QED  BY <2>7, <2>8
<1>9. P(T.root)
  BY <1>1, <1>7, <1>8
<1>. QED  BY <1>1, <1>9, FindNodeWalk DEF f

-----------------------------------------------------------------------------
(* The red-black tree: a node with one child leaves it.                    *)

\* No two red nodes in a row, but for x.
Lone(T, L, x) ==
    \A n \in L, t \in R!Sides : n \in T.red /\ T.kid[t][n] \in T.red => x \in {n, T.kid[t][n]}

\* x is the child of p on side s, and a black node is missing on the way to it.
Hole(T, L, p, s, x) ==
    /\ p \in L /\ s \in R!Sides
    /\ T.par[x] = p /\ T.kid[s][p] = x
    /\ \E b : Heights(T, L, b, p, s)

\* A tree in order but for a black node missing above x.
Wanting(T, L, x) ==
    /\ \E B : Shape(T, L, B)
    /\ x \in L \cup {Sentinel}
    /\ T.root \notin T.red /\ Sentinel \notin T.red
    /\ Lone(T, L, x)
    /\ IF x = T.root THEN \E b : Full(T, L, b) ELSE \E p, s : Hole(T, L, p, s, x)

\* A tree in order.
Sound(T, L) ==
    /\ \E B : Shape(T, L, B)
    /\ T.root \notin T.red /\ Sentinel \notin T.red
    /\ ApartBut(T, L, NULL)
    /\ \E b : Full(T, L, b)

\* W is T with child x, on side s of m, in the place of m.
Cut(T, W, m, s, x) ==
    /\ m # T.root
    /\ x = T.kid[s][m] /\ T.kid[R!Other(s)][m] = Sentinel
    /\ W \in R!Memory /\ W.root = T.root /\ W.red = T.red
    /\ \A c \in R!Cells : W.par[c] = IF c = x THEN T.par[m] ELSE T.par[c]
    /\ \A t \in R!Sides, c \in R!Cells :
         W.kid[t][c] = IF c = T.par[m] /\ t = R!SideOf(T, m) THEN x ELSE T.kid[t][c]

\* The child takes over, on the same side.
CutKids(T, W, L, m, x) ==
    \A c \in L \ {m}, t \in R!Sides :
        /\ T.kid[t][c] \in L \cup {Sentinel}
        /\ W.kid[t][c] = IF T.kid[t][c] = m THEN x ELSE T.kid[t][c]
        /\ T.kid[t][c] = m <=> c = T.par[m] /\ t = R!SideOf(T, m)

\* When m is cut out, every other node keeps its children, x for m.
LEMMA CutKid ==
    ASSUME R!RBTreeAssumption, NEW T, NEW L, NEW B, Shape(T, L, B), NEW m \in L,
           NEW s \in R!Sides, NEW x, NEW W, Cut(T, W, m, s, x)
    PROVE  CutKids(T, W, L, m, x)
<1> DEFINE p == T.par[m]
           r == R!SideOf(T, m)
<1>1. m # T.root /\ L \subseteq R!Cells
      /\ \A t \in R!Sides, c \in R!Cells :
           W.kid[t][c] = IF c = p /\ t = r THEN x ELSE T.kid[t][c]
  BY DEF Cut, Shape, R!Cells
<1>2. p \in L /\ p # m /\ r \in R!Sides /\ T.kid[r][p] = m
  BY <1>1, Upward
<1> HIDE DEF p, r
<1>7. ASSUME NEW c \in L \ {m}, NEW t \in R!Sides
      PROVE  /\ T.kid[t][c] \in L \cup {Sentinel}
             /\ W.kid[t][c] = (IF T.kid[t][c] = m THEN x ELSE T.kid[t][c])
             /\ T.kid[t][c] = m <=> c = p /\ t = r
  <2> DEFINE d == T.kid[t][c]
  <2>2. d \in L \cup {Sentinel} /\ (d \in L => T.par[d] = c) /\ c \in R!Cells
    BY <1>1, Below DEF Sits
  <2>3. ASSUME d = m
        PROVE  c = p /\ t = r
    <3>1. c = p
      BY <2>2, <2>3 DEF p
    <3>2. t = r
      <4> SUFFICES ASSUME t # r
                   PROVE  FALSE
        OBVIOUS
      <4>1. r = R!Other(t)
        BY <1>2, TwoSides
      <4>2. T.kid[t][c] \in L /\ T.kid[R!Other(t)][c] = T.kid[t][c]
        BY <1>2, <2>3, <3>1, <4>1
      <4>. QED  BY <4>2, KidsDiffer
    <3>. QED  BY <3>1, <3>2
  <2>. QED  BY <1>1, <1>2, <2>2, <2>3
<1>. QED  BY <1>7 DEF CutKids, p, r

\* The rest is a search tree.
LEMMA CutShape ==
    ASSUME R!RBTreeAssumption, NEW T, NEW L, NEW B, Shape(T, L, B), NEW m \in L,
           NEW s \in R!Sides, NEW x, NEW W, Cut(T, W, m, s, x)
    PROVE  Shape(W, L \ {m}, [c \in (L \ {m}) \cup {Sentinel} |-> B[c] \ {m}])
<1> DEFINE M == L \ {m}
           C == [c \in M \cup {Sentinel} |-> B[c] \ {m}]
           p == T.par[m]
           r == R!SideOf(T, m)
<1>1. /\ m # T.root /\ x = T.kid[s][m] /\ T.kid[R!Other(s)][m] = Sentinel
      /\ W \in R!Memory /\ W.root = T.root
      /\ \A c \in R!Cells : W.par[c] = IF c = x THEN p ELSE T.par[c]
  BY DEF Cut
<1>2. p \in L /\ p # m /\ r \in R!Sides /\ T.kid[r][p] = m
  BY <1>1, Upward
<1>3. Sits(T, L, B, m, s, x)
  BY <1>1, Below
<1>4. /\ B \in [L \cup {Sentinel} -> SUBSET L] /\ B[Sentinel] = {} /\ B[T.root] = L
      /\ L \subseteq Nodes /\ Sentinel \notin L /\ L \subseteq R!Cells /\ T.root \in L \cup {Sentinel}
  BY DEF Shape, R!RBTreeAssumption, R!Cells
<1>5. x \in L \cup {Sentinel} /\ x # m /\ B[m] = {m} \cup B[x] /\ m \notin B[x]
  BY <1>1, <1>3, <1>4 DEF Sits
<1> HIDE DEF p, r
<1>6. C \in [M \cup {Sentinel} -> SUBSET M] /\ C[Sentinel] = {}
      /\ \A c \in M \cup {Sentinel} : C[c] = B[c] \ {m}
  BY <1>4
<1> HIDE DEF C
<1>7. ASSUME NEW c \in M, NEW t \in R!Sides
      PROVE  /\ T.kid[t][c] \in L \cup {Sentinel}
             /\ W.kid[t][c] = (IF T.kid[t][c] = m THEN x ELSE T.kid[t][c])
             /\ W.kid[t][c] \in M \cup {Sentinel}
             /\ C[W.kid[t][c]] = B[T.kid[t][c]] \ {m}
  <2> DEFINE d == T.kid[t][c]
  <2>2. d \in L \cup {Sentinel}
    BY Below DEF Sits
  <2>4. W.kid[t][c] = (IF d = m THEN x ELSE d)
    BY CutKid DEF CutKids
  <2> HIDE DEF d
  <2>5. W.kid[t][c] \in M \cup {Sentinel}
    BY <1>5, <2>2, <2>4
  <2>6. C[W.kid[t][c]] = B[d] \ {m}
    <3>1. C[W.kid[t][c]] = B[W.kid[t][c]] \ {m}
      BY <1>6, <2>5
    <3>. QED  BY <1>5, <2>4, <3>1
  <2>. QED  BY <2>2, <2>4, <2>5, <2>6 DEF d
<1>8. ASSUME NEW c \in M, NEW t \in R!Sides
      PROVE  Kid(W, M, C, c, t)
  <2> DEFINE d == T.kid[t][c]
             e == T.kid[R!Other(t)][c]
             y == W.kid[t][c]
             z == W.kid[R!Other(t)][c]
  <2>1. Sits(T, L, B, c, t, d) /\ R!Other(t) \in R!Sides
    BY Below, TwoSides
  <2>2. /\ d \in L \cup {Sentinel} /\ (d \in L => T.par[d] = c) /\ c \in B[c]
        /\ B[d] \subseteq B[c] \ {c} /\ B[d] \cap B[e] = {}
        /\ B[c] = {c} \cup B[d] \cup B[e]
        /\ \A a \in B[d] : Aside(t, a, c)
    BY <2>1 DEF Sits
  <2>3. C[y] = B[d] \ {m} /\ C[z] = B[e] \ {m} /\ C[c] = B[c] \ {m}
    BY <1>6, <1>7, <2>1
  <2>4. y \in M \cup {Sentinel} /\ y = (IF d = m THEN x ELSE d)
    BY <1>7
  <2>5. y \in M => W.par[y] = c
    <3> SUFFICES ASSUME y \in M
                 PROVE  W.par[y] = c
      OBVIOUS
    <3> HIDE DEF y, d
    <3>0. y \in R!Cells
      BY <1>4
    <3>1. W.par[y] = IF y = x THEN p ELSE T.par[y]
      BY <1>1, <3>0
    <3>2. y = x => p = c
      <4> SUFFICES ASSUME y = x
                   PROVE  p = c
        OBVIOUS
      <4>1. T.par[x] = m /\ x \in L
        BY <1>3 DEF Sits
      <4>2. d = m
        BY <2>2, <2>4, <4>1
      <4>. QED  BY <2>2, <4>2 DEF p
    <3>3. y # x => y = d
      BY <2>4
    <3>. QED  BY <2>2, <3>1, <3>2, <3>3
  <2>6. c \notin C[y] /\ C[y] \cap C[z] = {} /\ C[c] = {c} \cup C[y] \cup C[z]
        /\ \A a \in C[y] : Aside(t, a, c)
    <3> HIDE DEF d, e, y, z
    <3>. QED  BY <2>2, <2>3
  <2>. QED  BY <2>4, <2>5, <2>6 DEF Kid, Half
<1>9. W.root \in M \cup {Sentinel} /\ C[W.root] = M
  BY <1>1, <1>4, <1>6
<1>. QED  BY <1>1, <1>4, <1>6, <1>8, <1>9 DEF Shape, C

\* Where a black node leaves one black node is missing.
LEMMA CutBlack ==
    ASSUME R!RBTreeAssumption, NEW T, NEW L, Good(T, L), NEW m \in L,
           NEW s \in R!Sides, NEW x, NEW W, Cut(T, W, m, s, x)
    PROVE  IF m \in T.red THEN Sound(W, L \ {m}) ELSE Wanting(W, L \ {m}, x)
<1> DEFINE M == L \ {m}
           p == T.par[m]
           r == R!SideOf(T, m)
<1>1. PICK B : Shape(T, L, B)
  BY DEF Good
<1>2. PICK b : Full(T, L, b)
  BY <1>1, NoHole DEF Good
<1>3. ApartBut(T, L, NULL) /\ Sentinel \notin T.red /\ T.root \notin T.red /\ NULL \notin L /\ NULL # Sentinel
  BY <1>1 DEF Good, Outside, Shape, R!RBTreeAssumption
<1>4. \E C : Shape(W, M, C)
  BY <1>1, CutShape
<1>5. CutKids(T, W, L, m, x)
  BY <1>1, CutKid
<1>6. /\ m # T.root /\ x = T.kid[s][m] /\ W.root = T.root /\ W.red = T.red
  BY DEF Cut
<1>7. /\ p \in M /\ r \in R!Sides /\ T.kid[r][p] = m
  BY <1>1, <1>6, Upward
<1>8. x \in M \cup {Sentinel} /\ x # T.root
  BY <1>1, <1>6, Below, RootNoKid DEF Sits
<1>9. W.par[x] = p
  <2>1. x \in R!Cells
    BY <1>1, <1>8 DEF Shape, R!Cells
  <2>. QED  BY <2>1 DEF Cut
<1> HIDE DEF p, r
<1>10. ASSUME NEW c \in M, NEW t \in R!Sides
       PROVE  /\ T.kid[t][c] \in L \cup {Sentinel}
              /\ W.kid[t][c] = (IF T.kid[t][c] = m THEN x ELSE T.kid[t][c])
              /\ T.kid[t][c] = m <=> c = p /\ t = r
  BY <1>5 DEF CutKids, p, r
<1>11. ASSUME NEW c \in L, NEW t \in R!Sides, c \in T.red, T.kid[t][c] \in T.red
       PROVE  FALSE
  <2>1. T.kid[t][c] = NULL
    BY <1>3, <1>11 DEF ApartBut
  <2>2. T.kid[t][c] \in L \cup {Sentinel}
    BY <1>1, Below DEF Sits
  <2>. QED  BY <1>3, <2>1, <2>2
<1>12. /\ b \in [L \cup {Sentinel} -> Nat] /\ b[Sentinel] = 0
       /\ \A c \in L, t \in R!Sides : b[c] = b[T.kid[t][c]] + Black(T, c)
  BY <1>2 DEF Full
<1>13. \A c \in L : Black(W, c) = Black(T, c) /\ Black(T, c) \in Nat
  BY <1>6 DEF Black
<1> DEFINE h == [c \in M \cup {Sentinel} |-> b[c]]
<1>14. h \in [M \cup {Sentinel} -> Nat] /\ h[Sentinel] = 0 /\ \A c \in M \cup {Sentinel} : h[c] = b[c]
  BY <1>12
<1> HIDE DEF h
<1>15. b[m] = b[x] + Black(T, m) /\ b[x] \in Nat
  BY <1>6, <1>8, <1>12
<1>16. ASSUME NEW c \in M, NEW t \in R!Sides
       PROVE  h[c] = h[W.kid[t][c]] + Black(W, c)
                       + (IF c = p /\ t = r THEN Black(T, m) ELSE 0)
  <2>1. b[c] = b[T.kid[t][c]] + Black(T, c) /\ b[T.kid[t][c]] \in Nat
    BY <1>10, <1>12
  <2>2. CASE c = p /\ t = r
    <3>1. W.kid[t][c] = x /\ T.kid[t][c] = m
      BY <1>10, <2>2
    <3>2. h[W.kid[t][c]] = b[x] /\ h[c] = b[c]
      BY <1>8, <1>14, <3>1
    <3>. QED  BY <1>13, <1>15, <2>1, <2>2, <3>1, <3>2
  <2>3. CASE ~(c = p /\ t = r)
    <3>1. W.kid[t][c] = T.kid[t][c] /\ T.kid[t][c] \in M \cup {Sentinel}
      BY <1>10, <2>3
    <3>2. h[W.kid[t][c]] = b[T.kid[t][c]] /\ h[c] = b[c]
      BY <1>14, <3>1
    <3>. QED  BY <1>13, <2>1, <2>3, <3>2
  <2>. QED  BY <2>2, <2>3
<1>17. CASE m \in T.red
  <2>1. Black(T, m) = 0
    BY <1>17 DEF Black
  <2>2. ASSUME NEW c \in M, NEW t \in R!Sides
        PROVE  h[c] = h[W.kid[t][c]] + Black(W, c)
    <3>1. W.kid[t][c] \in M \cup {Sentinel}
      BY <1>8, <1>10
    <3>. QED  BY <1>13, <1>14, <1>16, <2>1, <3>1
  <2>3. Full(W, M, h)
    BY <1>14, <2>2 DEF Full
  <2>4. ApartBut(W, M, NULL)
    <3> SUFFICES ASSUME NEW c \in M, NEW t \in R!Sides, c \in W.red, W.kid[t][c] \in W.red
                 PROVE  FALSE
      BY DEF ApartBut
    <3>1. c # p
      BY <1>6, <1>7, <1>11, <1>17
    <3>. QED  BY <1>6, <1>10, <1>11, <3>1
  <2>. QED  BY <1>3, <1>4, <1>6, <1>17, <2>3, <2>4 DEF Sound
<1>18. CASE m \notin T.red
  <2>1. Black(T, m) = 1
    BY <1>18 DEF Black
  <2>2. Heights(W, M, h, p, r)
    BY <1>14, <1>16, <2>1 DEF Heights
  <2>3. Lone(W, M, x)
    <3> SUFFICES ASSUME NEW c \in M, NEW t \in R!Sides, c \in W.red, W.kid[t][c] \in W.red,
                        W.kid[t][c] # x
                 PROVE  FALSE
      BY DEF Lone
    <3>. QED  BY <1>6, <1>10, <1>11
  <2>4. Hole(W, M, p, r, x)
    BY <1>7, <1>9, <1>10, <2>2 DEF Hole
  <2>. QED  BY <1>3, <1>4, <1>6, <1>8, <1>18, <2>3, <2>4 DEF Wanting
<1>. QED  BY <1>17, <1>18

-----------------------------------------------------------------------------
(* The red-black tree: a node takes the place of another.                  *)

\* One node for another.
Swap(n, m, c) == IF c = n THEN m ELSE c

\* U is T, but for the node m, which is new, where n was.  The parent of x may
\* have been set to m before.
Renamed(T, U, L, n, m, x) ==
    /\ U \in R!Memory /\ U.root = Swap(n, m, T.root)
    /\ m \in U.red <=> n \in T.red
    /\ \A c \in R!Cells : c # m => (c \in U.red <=> c \in T.red)
    /\ \A t \in R!Sides : U.kid[t][m] = T.kid[t][n]
    /\ \A c \in L \ {n}, t \in R!Sides : U.kid[t][c] = Swap(n, m, T.kid[t][c])
    /\ U.par[m] = T.par[n]
    /\ \A c \in L : c \in {T.kid["L"][n], T.kid["R"][n]} => U.par[c] = m
    /\ \A c \in (L \ {n}) \cup {Sentinel} :
         c \notin {T.kid["L"][n], T.kid["R"][n]} \ {Sentinel} /\ T.par[c] # n
           => U.par[c] = T.par[c]
    /\ T.par[x] = n => U.par[x] = m

\* The key of m belongs where n is.
Fits(T, L, B, n, m) ==
    /\ m \in Nodes \ L
    /\ \A c \in L, t \in R!Sides : n \in B[T.kid[t][c]] => Aside(t, m, c)
    /\ \A t \in R!Sides : \A c \in B[T.kid[t][n]] : Aside(t, c, m)

\* What becomes of a set of nodes.
SwapIn(n, m, S) == IF n \in S THEN (S \ {n}) \cup {m} ELSE S

\* Every node has the children it had, m for n.
SwapKids(T, U, L, n, m) ==
    \A c \in L, t \in R!Sides :
        /\ T.kid[t][c] \in L \cup {Sentinel}
        /\ U.kid[t][Swap(n, m, c)] = Swap(n, m, T.kid[t][c])

\* When m takes the place of n, the children stay, m for n.
LEMMA SwapKid ==
    ASSUME R!RBTreeAssumption, NEW T, NEW L, NEW B, Shape(T, L, B), NEW n \in L,
           NEW m \in Nodes \ L, NEW x, NEW U, Renamed(T, U, L, n, m, x)
    PROVE  SwapKids(T, U, L, n, m)
<1>1. ASSUME NEW c \in L, NEW t \in R!Sides
      PROVE  /\ T.kid[t][c] \in L \cup {Sentinel}
             /\ U.kid[t][Swap(n, m, c)] = Swap(n, m, T.kid[t][c])
  <2>1. T.kid[t][c] \in L \cup {Sentinel} /\ T.kid[t][c] # c
    BY Below DEF Sits
  <2>2. CASE c = n
    <3>1. Swap(n, m, c) = m /\ U.kid[t][m] = T.kid[t][n]
      BY <2>2 DEF Renamed, Swap
    <3>. QED  BY <2>1, <2>2, <3>1 DEF Swap
  <2>3. CASE c # n
    <3>1. Swap(n, m, c) = c
      BY <2>3 DEF Swap
    <3>2. U.kid[t][c] = Swap(n, m, T.kid[t][c])
      BY <2>3 DEF Renamed
    <3>. QED  BY <2>1, <3>1, <3>2
  <2>. QED  BY <2>2, <2>3
<1>. QED  BY <1>1 DEF SwapKids

\* The new tree is a search tree.
LEMMA RenameShape ==
    ASSUME R!RBTreeAssumption, NEW T, NEW L, NEW B, Shape(T, L, B), NEW n \in L, NEW m,
           Fits(T, L, B, n, m), NEW x, NEW U, Renamed(T, U, L, n, m, x)
    PROVE  \E D : Shape(U, (L \ {n}) \cup {m}, D)
<1> DEFINE M == (L \ {n}) \cup {m}
           D == [c \in M \cup {Sentinel} |-> SwapIn(n, m, B[IF c = m THEN n ELSE c])]
<1>1. /\ B \in [L \cup {Sentinel} -> SUBSET L] /\ B[Sentinel] = {} /\ B[T.root] = L
      /\ L \subseteq Nodes /\ Sentinel \notin L /\ L \subseteq R!Cells /\ T.root \in L \cup {Sentinel}
      /\ Sentinel \notin Nodes
  BY DEF Shape, R!RBTreeAssumption, R!Cells
<1>2. /\ m \in Nodes /\ m \notin L /\ m # Sentinel /\ m # n
      /\ \A c \in L, t \in R!Sides : n \in B[T.kid[t][c]] => Aside(t, m, c)
      /\ \A t \in R!Sides : \A c \in B[T.kid[t][n]] : Aside(t, c, m)
  BY <1>1 DEF Fits
<1>3. SwapKids(T, U, L, n, m)
  BY <1>2, SwapKid
<1>4. ASSUME NEW c \in L \cup {Sentinel}
      PROVE  /\ Swap(n, m, c) \in M \cup {Sentinel}
             /\ Swap(n, m, c) \in M <=> c \in L
             /\ D[Swap(n, m, c)] = SwapIn(n, m, B[c])
             /\ SwapIn(n, m, B[c]) \subseteq M
             /\ B[c] \subseteq L
  <2>1. Swap(n, m, c) \in M \cup {Sentinel} /\ (Swap(n, m, c) \in M <=> c \in L)
    BY <1>1, <1>2 DEF Swap
  <2>2. (IF Swap(n, m, c) = m THEN n ELSE Swap(n, m, c)) = c
    BY <1>1, <1>2 DEF Swap
  <2>3. B[c] \subseteq L
    BY <1>1
  <2>4. SwapIn(n, m, B[c]) \subseteq M
    BY <2>3 DEF SwapIn
  <2>. QED  BY <2>1, <2>2, <2>3, <2>4
<1>5. D \in [M \cup {Sentinel} -> SUBSET M]
  <2>1. ASSUME NEW c \in M \cup {Sentinel}
        PROVE  SwapIn(n, m, B[IF c = m THEN n ELSE c]) \subseteq M
    <3>1. (IF c = m THEN n ELSE c) \in L \cup {Sentinel}
      OBVIOUS
    <3>. QED  BY <1>4, <3>1
  <2>. QED  BY <2>1
<1> HIDE DEF D
<1>6. D[Sentinel] = {}
  <2>1. Swap(n, m, Sentinel) = Sentinel /\ SwapIn(n, m, {}) = {}
    BY <1>1 DEF Swap, SwapIn
  <2>. QED  BY <1>1, <1>4, <2>1
<1>7. ASSUME NEW c \in L, NEW t \in R!Sides
      PROVE  Kid(U, M, D, Swap(n, m, c), t)
  <2> DEFINE d == T.kid[t][c]
             e == T.kid[R!Other(t)][c]
             y == Swap(n, m, d)
             v == Swap(n, m, c)
  <2>1. Sits(T, L, B, c, t, d) /\ R!Other(t) \in R!Sides
    BY Below, TwoSides
  <2>2. /\ d \in L \cup {Sentinel} /\ (d \in L => T.par[d] = c) /\ c \in B[c] /\ d # c
        /\ B[d] \subseteq B[c] \ {c} /\ B[d] \cap B[e] = {}
        /\ B[c] = {c} \cup B[d] \cup B[e]
        /\ \A a \in B[d] : Aside(t, a, c)
    BY <2>1 DEF Sits
  <2>3. e \in L \cup {Sentinel}
    BY <2>1, Below DEF Sits
  <2>4. U.kid[t][v] = y /\ U.kid[R!Other(t)][v] = Swap(n, m, e)
    BY <1>3, <2>1 DEF SwapKids
  <2>5. /\ D[y] = SwapIn(n, m, B[d]) /\ D[Swap(n, m, e)] = SwapIn(n, m, B[e])
        /\ D[v] = SwapIn(n, m, B[c]) /\ y \in M \cup {Sentinel} /\ (y \in M <=> d \in L)
        /\ B[d] \subseteq L /\ B[e] \subseteq L
    BY <1>4, <2>2, <2>3
  <2>6. y \in M => U.par[y] = v
    <3> SUFFICES ASSUME d \in L
                 PROVE  U.par[y] = v
      BY <2>5
    <3>1. CASE d = n
      <4>1. y = m /\ v = c
        BY <2>2, <3>1 DEF Swap
      <4>. QED  BY <2>2, <3>1, <4>1 DEF Renamed
    <3>2. CASE d # n /\ c = n
      <4>1. y = d /\ v = m
        BY <3>2 DEF Swap
      <4>2. d \in {T.kid["L"][n], T.kid["R"][n]}
        BY <3>2 DEF R!Sides
      <4>. QED  BY <4>1, <4>2 DEF Renamed
    <3>3. CASE d # n /\ c # n
      <4>1. y = d /\ v = c
        BY <3>3 DEF Swap
      <4>2. T.par[d] # n
        BY <2>2, <3>3
      <4>3. ASSUME NEW u \in R!Sides, d = T.kid[u][n]
            PROVE  FALSE
        BY <4>2, <4>3, Below DEF Sits
      <4>4. d \notin {T.kid["L"][n], T.kid["R"][n]}
        BY <4>3, TwoSides
      <4>5. U.par[d] = T.par[d]
        BY <3>3, <4>2, <4>4 DEF Renamed
      <4>. QED  BY <2>2, <4>1, <4>5
    <3>. QED  BY <3>1, <3>2, <3>3
  <2>7. \A a \in SwapIn(n, m, B[d]) : Aside(t, a, v)
    <3> SUFFICES ASSUME NEW a \in SwapIn(n, m, B[d])
                 PROVE  Aside(t, a, v)
      OBVIOUS
    <3>1. CASE a = m
      <4>1. n \in B[d] /\ c # n
        BY <1>2, <2>2, <2>5, <3>1 DEF SwapIn
      <4>2. v = c
        BY <4>1 DEF Swap
      <4>. QED  BY <1>2, <3>1, <4>1, <4>2
    <3>2. CASE a # m
      <4>1. a \in B[d]
        BY <3>2 DEF SwapIn
      <4>2. CASE c = n
        BY <1>2, <4>1, <4>2 DEF Swap
      <4>3. CASE c # n
        BY <2>2, <4>1, <4>3 DEF Swap
      <4>. QED  BY <4>2, <4>3
    <3>. QED  BY <3>1, <3>2
  <2>8. LET P == SwapIn(n, m, B[d])
            Q == SwapIn(n, m, B[e])
        IN  v \notin P /\ P \cap Q = {} /\ SwapIn(n, m, B[c]) = {v} \cup P \cup Q
    <3> HIDE DEF d, e, y
    <3>1. m \notin B[d] /\ m \notin B[e] /\ m # c
      BY <1>2, <2>5
    <3>2. CASE c = n
      BY <2>2, <3>1, <3>2 DEF SwapIn, Swap
    <3>3. CASE c # n /\ n \in B[d]
      BY <2>2, <3>1, <3>3 DEF SwapIn, Swap
    <3>4. CASE c # n /\ n \in B[e]
      BY <2>2, <3>1, <3>4 DEF SwapIn, Swap
    <3>5. CASE c # n /\ n \notin B[d] /\ n \notin B[e]
      BY <2>2, <3>1, <3>5 DEF SwapIn, Swap
    <3>. QED  BY <3>2, <3>3, <3>4, <3>5
  <2>9. Half(M, v, t, y, U.par[y], D[v], D[y], D[Swap(n, m, e)])
    <3> HIDE DEF y, v, d, e
    <3>. QED  BY <2>5, <2>6, <2>7, <2>8 DEF Half
  <2>. QED  BY <2>4, <2>9 DEF Kid
<1>8. ASSUME NEW c \in M, NEW t \in R!Sides
      PROVE  Kid(U, M, D, c, t)
  <2> DEFINE a == IF c = m THEN n ELSE c
  <2>1. a \in L /\ Swap(n, m, a) = c
    BY <1>2 DEF Swap
  <2> HIDE DEF a
  <2>. QED  BY <1>7, <2>1
<1>9. U.root \in M \cup {Sentinel} /\ D[U.root] = M
  <2>1. U.root = Swap(n, m, T.root)
    BY DEF Renamed
  <2>2. D[U.root] = SwapIn(n, m, B[T.root]) /\ U.root \in M \cup {Sentinel}
    BY <1>1, <1>4, <2>1
  <2>3. SwapIn(n, m, L) = M
    BY DEF SwapIn
  <2>. QED  BY <1>1, <2>2, <2>3
<1>10. U \in R!Memory /\ M \subseteq Nodes
  BY <1>1, <1>2 DEF Renamed
<1>. QED  BY <1>5, <1>6, <1>8, <1>9, <1>10 DEF Shape

\* Colours and black heights go with the place.
SwapColors(T, U, L, n, m) ==
    /\ Swap(n, m, NULL) = NULL
    /\ \A c \in L \cup {Sentinel} : Swap(n, m, c) \in U.red <=> c \in T.red
    /\ \A c \in (L \ {n}) \cup {m} : \E a \in L : c = Swap(n, m, a)
    /\ \A p \in L \cup {NULL}, s \in R!Sides :
         (\E b : Heights(T, L, b, p, s))
           => \E h : Heights(U, (L \ {n}) \cup {m}, h, Swap(n, m, p), s)

\* When m takes the place and the colour of n, the black heights stay.
LEMMA RenameHeights ==
    ASSUME R!RBTreeAssumption, NEW T, NEW L, NEW B, Shape(T, L, B), NEW n \in L,
           NEW m \in Nodes \ L, NEW x, NEW U, Renamed(T, U, L, n, m, x)
    PROVE  SwapColors(T, U, L, n, m)
<1> DEFINE M == (L \ {n}) \cup {m}
<1>1. /\ L \subseteq Nodes /\ Sentinel \notin L /\ L \subseteq R!Cells /\ Sentinel \in R!Cells
      /\ Sentinel \notin Nodes /\ NULL \notin L /\ m # Sentinel /\ m # n /\ NULL # m
      /\ n # Sentinel
  BY DEF Shape, R!RBTreeAssumption, R!Cells
<1>2. SwapKids(T, U, L, n, m)
  BY SwapKid
<1>3. ASSUME NEW c \in L \cup {Sentinel}
      PROVE  Swap(n, m, c) \in U.red <=> c \in T.red
  <2>1. CASE c = n
    BY <2>1 DEF Swap, Renamed
  <2>2. CASE c # n
    <3>1. c \in R!Cells /\ c # m
      BY <1>1
    <3>. QED  BY <2>2, <3>1 DEF Swap, Renamed
  <2>. QED  BY <2>1, <2>2
<1>4. ASSUME NEW c \in M
      PROVE  \E a \in L : c = Swap(n, m, a)
  <2>1. CASE c = m
    BY <2>1 DEF Swap
  <2>2. CASE c # m
    BY <2>2 DEF Swap
  <2>. QED  BY <2>1, <2>2
<1>5. ASSUME NEW p \in L \cup {NULL}, NEW s \in R!Sides, NEW b, Heights(T, L, b, p, s)
      PROVE  \E h : Heights(U, M, h, Swap(n, m, p), s)
  <2> DEFINE h == [c \in M \cup {Sentinel} |-> b[IF c = m THEN n ELSE c]]
  <2>1. /\ b \in [L \cup {Sentinel} -> Nat] /\ b[Sentinel] = 0
        /\ \A c \in L, t \in R!Sides :
             b[c] = b[T.kid[t][c]] + Black(T, c) + (IF c = p /\ t = s THEN 1 ELSE 0)
    BY <1>5 DEF Heights
  <2>2. h \in [M \cup {Sentinel} -> Nat] /\ h[Sentinel] = 0
    <3>1. ASSUME NEW c \in M \cup {Sentinel}
          PROVE  b[IF c = m THEN n ELSE c] \in Nat
      BY <2>1
    <3>. QED  BY <1>1, <2>1, <3>1
  <2>3. ASSUME NEW c \in L \cup {Sentinel}
        PROVE  h[Swap(n, m, c)] = b[c]
    <3>1. Swap(n, m, c) \in M \cup {Sentinel} /\ (IF Swap(n, m, c) = m THEN n ELSE Swap(n, m, c)) = c
      BY <1>1 DEF Swap
    <3>. QED  BY <3>1
  <2> HIDE DEF h
  <2>4. ASSUME NEW c \in L, NEW t \in R!Sides
        PROVE  LET v == Swap(n, m, c)
               IN  h[v] = h[U.kid[t][v]] + Black(U, v)
                            + (IF v = Swap(n, m, p) /\ t = s THEN 1 ELSE 0)
    <3>1. U.kid[t][Swap(n, m, c)] = Swap(n, m, T.kid[t][c]) /\ T.kid[t][c] \in L \cup {Sentinel}
      BY <1>2 DEF SwapKids
    <3>2. h[Swap(n, m, c)] = b[c] /\ h[Swap(n, m, T.kid[t][c])] = b[T.kid[t][c]]
      BY <2>3, <3>1
    <3>3. Black(U, Swap(n, m, c)) = Black(T, c)
      BY <1>3 DEF Black
    <3>4. Swap(n, m, c) = Swap(n, m, p) <=> c = p
      BY <1>1 DEF Swap
    <3>. QED  BY <2>1, <3>1, <3>2, <3>3, <3>4
  <2>5. ASSUME NEW c \in M, NEW t \in R!Sides
        PROVE  h[c] = h[U.kid[t][c]] + Black(U, c)
                            + (IF c = Swap(n, m, p) /\ t = s THEN 1 ELSE 0)
    <3>1. PICK a \in L : c = Swap(n, m, a)
      BY <1>4
    <3>. QED  BY <2>4, <3>1
  <2>6. Heights(U, M, h, Swap(n, m, p), s)
    BY <2>2, <2>5 DEF Heights
  <2>. QED  BY <2>6
<1>6. Swap(n, m, NULL) = NULL
  BY <1>1 DEF Swap
<1>. QED  BY <1>3, <1>4, <1>5, <1>6 DEF SwapColors

\* A tree in order stays so, one with a black node missing lacks no more.
LEMMA RenameKeeps ==
    ASSUME R!RBTreeAssumption, NEW T, NEW L, NEW B, Shape(T, L, B), NEW n \in L, NEW m,
           Fits(T, L, B, n, m), NEW x, x # n, x # T.root, NEW U, Renamed(T, U, L, n, m, x)
    PROVE  /\ Sound(T, L) => Sound(U, (L \ {n}) \cup {m})
           /\ Wanting(T, L, x) => Wanting(U, (L \ {n}) \cup {m}, x)
<1> DEFINE M == (L \ {n}) \cup {m}
<1>1. /\ L \subseteq Nodes /\ Sentinel \notin L /\ L \subseteq R!Cells /\ m \in Nodes \ L
      /\ Sentinel \notin Nodes /\ NULL \notin L /\ NULL # Sentinel /\ m # Sentinel
      /\ n # Sentinel /\ m # n /\ m # NULL /\ n # NULL /\ T.root \in L \cup {Sentinel}
  BY DEF Shape, R!RBTreeAssumption, R!Cells, Fits
<1>2. \E D : Shape(U, M, D)
  BY RenameShape
<1>3. SwapKids(T, U, L, n, m)
  BY <1>1, SwapKid
<1>4. /\ \A c \in L \cup {Sentinel} : Swap(n, m, c) \in U.red <=> c \in T.red
      /\ \A c \in M : \E a \in L : c = Swap(n, m, a)
      /\ \A p \in L \cup {NULL}, s \in R!Sides :
           (\E b : Heights(T, L, b, p, s)) => \E h : Heights(U, M, h, Swap(n, m, p), s)
      /\ Swap(n, m, NULL) = NULL
  <2>1. SwapColors(T, U, L, n, m)
    BY <1>1, RenameHeights
  <2>. QED  BY <2>1 DEF SwapColors
<1>5. Swap(n, m, Sentinel) = Sentinel /\ U.root = Swap(n, m, T.root)
  BY <1>1 DEF Swap, Renamed
<1>6. /\ Sentinel \in U.red <=> Sentinel \in T.red
      /\ U.root \in U.red <=> T.root \in T.red
  <2>1. Swap(n, m, T.root) \in U.red <=> T.root \in T.red
    BY <1>1, <1>4
  <2>2. Swap(n, m, Sentinel) \in U.red <=> Sentinel \in T.red
    BY <1>4
  <2>. QED  BY <1>5, <2>1, <2>2
<1>7. ASSUME NEW c \in M, NEW t \in R!Sides, c \in U.red, U.kid[t][c] \in U.red
      PROVE  \E a \in L : /\ a \in T.red /\ T.kid[t][a] \in T.red /\ c = Swap(n, m, a)
                          /\ U.kid[t][c] = Swap(n, m, T.kid[t][a])
                          /\ T.kid[t][a] \in L \cup {Sentinel}
  <2>1. PICK a \in L : c = Swap(n, m, a)
    BY <1>4
  <2>2. T.kid[t][a] \in L \cup {Sentinel} /\ U.kid[t][c] = Swap(n, m, T.kid[t][a])
    BY <1>3, <2>1 DEF SwapKids
  <2>. QED  BY <1>4, <1>7, <2>1, <2>2
<1>8. ASSUME Sound(T, L)
      PROVE  Sound(U, M)
  <2>1. ApartBut(U, M, NULL)
    <3> SUFFICES ASSUME NEW c \in M, NEW t \in R!Sides, c \in U.red, U.kid[t][c] \in U.red
                 PROVE  FALSE
      BY DEF ApartBut
    <3>1. PICK a \in L : a \in T.red /\ T.kid[t][a] \in T.red /\ T.kid[t][a] \in L \cup {Sentinel}
      BY <1>7
    <3>. QED  BY <1>1, <1>8, <3>1 DEF Sound, ApartBut
  <2>2. \E h : Full(U, M, h)
    <3>1. "L" \in R!Sides
      BY DEF R!Sides
    <3>2. PICK b : Full(T, L, b)
      BY <1>8 DEF Sound
    <3>3. Heights(T, L, b, NULL, "L")
      BY <3>2, NoHole
    <3>4. PICK h : Heights(U, M, h, NULL, "L")
      BY <1>4, <3>1, <3>3
    <3>. QED  BY <1>2, <3>4, NoHole
  <2>. QED  BY <1>2, <1>6, <1>8, <2>1, <2>2 DEF Sound
<1>9. ASSUME Wanting(T, L, x)
      PROVE  Wanting(U, M, x)
  <2>1. x \in L \cup {Sentinel}
    BY <1>9 DEF Wanting
  <2>2. Swap(n, m, x) = x /\ x \in M \cup {Sentinel} /\ x # m
    BY <1>1, <2>1 DEF Swap
  <2>3. x # U.root
    BY <1>1, <1>5, <2>2 DEF Swap
  <2>4. Lone(U, M, x)
    <3> SUFFICES ASSUME NEW c \in M, NEW t \in R!Sides, c \in U.red, U.kid[t][c] \in U.red
                 PROVE  x \in {c, U.kid[t][c]}
      BY DEF Lone
    <3>1. PICK a \in L : /\ a \in T.red /\ T.kid[t][a] \in T.red /\ c = Swap(n, m, a)
                         /\ U.kid[t][c] = Swap(n, m, T.kid[t][a])
      BY <1>7
    <3>2. x \in {a, T.kid[t][a]}
      BY <1>9, <3>1 DEF Wanting, Lone
    <3>. QED  BY <2>2, <3>1, <3>2
  <2>5. PICK p, s : Hole(T, L, p, s, x)
    BY <1>9 DEF Wanting
  <2>6. /\ p \in L /\ s \in R!Sides /\ T.par[x] = p /\ T.kid[s][p] = x
        /\ \E b : Heights(T, L, b, p, s)
    BY <2>5 DEF Hole
  <2> DEFINE q == Swap(n, m, p)
  <2>7. q \in M /\ U.kid[s][q] = x
    <3>1. q \in M
      BY <1>1, <2>6 DEF Swap
    <3>2. U.kid[s][q] = Swap(n, m, T.kid[s][p])
      BY <1>3, <2>6 DEF SwapKids
    <3>. QED  BY <2>2, <2>6, <3>1, <3>2
  <2>8. \E h : Heights(U, M, h, q, s)
    BY <1>4, <2>6
  <2>9. U.par[x] = q
    <3>1. CASE p = n
      BY <2>6, <3>1 DEF Renamed, Swap
    <3>2. CASE p # n
      <4>1. x \in (L \ {n}) \cup {Sentinel}
        BY <2>1
      <4>2. x \notin {T.kid["L"][n], T.kid["R"][n]} \ {Sentinel}
        <5>1. ASSUME NEW u \in R!Sides, x = T.kid[u][n], x # Sentinel
              PROVE  FALSE
          <6>1. T.par[x] = n
            BY <2>1, <5>1, Below DEF Sits
          <6>. QED  BY <2>6, <3>2, <6>1
        <5>2. "L" \in R!Sides /\ "R" \in R!Sides
          BY DEF R!Sides
        <5>. QED  BY <5>1, <5>2
      <4>3. U.par[x] = T.par[x]
        BY <2>6, <3>2, <4>1, <4>2 DEF Renamed
      <4>. QED  BY <2>6, <3>2, <4>3 DEF Swap
    <3>. QED  BY <3>1, <3>2
  <2>10. Hole(U, M, q, s, x)
    BY <2>6, <2>7, <2>8, <2>9 DEF Hole
  <2>. QED  BY <1>2, <1>6, <1>9, <2>2, <2>3, <2>4, <2>10 DEF Wanting
<1>. QED  BY <1>8, <1>9

-----------------------------------------------------------------------------
(* The red-black tree: unlinking.                                          *)

\* The memory after the links of n were cleared.
Cleared(T, U, n) ==
    /\ U \in R!Memory /\ U.root = T.root /\ U.red = T.red
    /\ \A c \in R!Cells : U.par[c] = IF c = n THEN NULL ELSE T.par[c]
    /\ \A t \in R!Sides, c \in R!Cells : U.kid[t][c] = IF c = n THEN NULL ELSE T.kid[t][c]

\* ClearNode clears the three links of one node.
LEMMA ClearNodeDoes ==
    ASSUME NEW T \in R!Memory, NEW n \in R!Cells
    PROVE  Cleared(T, R!ClearNode(T, n), n)
<1> DEFINE T1 == R!SetKid(T, "L", n, NULL)
           T2 == R!SetKid(T1, "R", n, NULL)
           T3 == R!SetPar(T2, n, NULL)
<1>1. R!ClearNode(T, n) = T3
  BY DEF R!ClearNode
<1>2. "L" \in R!Sides /\ "R" \in R!Sides /\ \A t \in R!Sides : t = "L" \/ t = "R"
  BY DEF R!Sides
<1> HIDE DEF T1
<1>3. KidSet(T, T1, "L", n, NULL)
  BY <1>2, SetKidDoes DEF T1
<1> HIDE DEF T2
<1>4. KidSet(T1, T2, "R", n, NULL)
  BY <1>2, <1>3, SetKidDoes DEF T2, KidSet
<1> HIDE DEF T3
<1>5. ParSet(T2, T3, n, NULL)
  BY <1>4, SetParDoes DEF T3, KidSet
<1>6. Cleared(T, T3, n)
  BY <1>2, <1>3, <1>4, <1>5 DEF KidSet, ParSet, Cleared
<1>. QED  BY <1>1, <1>6

\* A node that is not in the tree is cleared without harm.
LEMMA ClearKeeps ==
    ASSUME R!RBTreeAssumption, NEW T, NEW L, NEW B, Shape(T, L, B), NEW n \in Nodes \ L,
           NEW x, NEW U, Cleared(T, U, n)
    PROVE  /\ Sound(T, L) => Sound(U, L)
           /\ Wanting(T, L, x) => Wanting(U, L, x)
<1>1. /\ U \in R!Memory /\ U.root = T.root /\ U.red = T.red
      /\ \A c \in R!Cells : c # n => U.par[c] = T.par[c]
      /\ \A t \in R!Sides, c \in R!Cells : c # n => U.kid[t][c] = T.kid[t][c]
  BY DEF Cleared
<1>2. /\ n \notin L \cup {Sentinel} /\ L \cup {Sentinel} \subseteq R!Cells
  BY DEF Shape, R!RBTreeAssumption, R!Cells
<1>3. ASSUME NEW c \in L, NEW t \in R!Sides
      PROVE  U.kid[t][c] = T.kid[t][c] /\ T.kid[t][c] \in L \cup {Sentinel}
  BY <1>1, <1>2, Below DEF Sits
<1>4. Shape(U, L, B)
  <2>1. ASSUME NEW c \in L, NEW t \in R!Sides
        PROVE  Kid(U, L, B, c, t)
    <3>1. R!Other(t) \in R!Sides
      BY TwoSides
    <3>2. Kid(T, L, B, c, t)
      BY DEF Shape
    <3>3. U.kid[t][c] = T.kid[t][c] /\ U.kid[R!Other(t)][c] = T.kid[R!Other(t)][c]
          /\ T.kid[t][c] \in L \cup {Sentinel}
      BY <1>3, <3>1
    <3>4. U.par[T.kid[t][c]] = T.par[T.kid[t][c]]
      BY <1>1, <1>2, <3>3
    <3>. QED  BY <3>2, <3>3, <3>4 DEF Kid
  <2>. QED  BY <1>1, <2>1 DEF Shape
<1>5. \A c : Black(U, c) = Black(T, c)
  BY <1>1 DEF Black
<1>6. \A b : Full(T, L, b) => Full(U, L, b)
  BY <1>3, <1>5 DEF Full
<1>7. \A b, p, s : Heights(T, L, b, p, s) => Heights(U, L, b, p, s)
  BY <1>3, <1>5 DEF Heights
<1>8. Sound(T, L) => Sound(U, L)
  <2>1. ApartBut(T, L, NULL) => ApartBut(U, L, NULL)
    BY <1>1, <1>3 DEF ApartBut
  <2>. QED  BY <1>1, <1>4, <1>6, <2>1 DEF Sound
<1>9. Wanting(T, L, x) => Wanting(U, L, x)
  <2> SUFFICES ASSUME Wanting(T, L, x)
               PROVE  Wanting(U, L, x)
    OBVIOUS
  <2>1. Lone(U, L, x)
    BY <1>1, <1>3 DEF Lone, Wanting
  <2>2. ASSUME NEW p, NEW s, Hole(T, L, p, s, x)
        PROVE  Hole(U, L, p, s, x)
    <3>1. p \in L /\ s \in R!Sides /\ T.par[x] = p /\ T.kid[s][p] = x
      BY <2>2 DEF Hole
    <3>2. U.kid[s][p] = x /\ U.par[x] = p
      BY <1>1, <1>2, <1>3, <3>1
    <3>. QED  BY <1>7, <2>2, <3>1, <3>2 DEF Hole
  <2>3. IF x = U.root THEN \E b : Full(U, L, b) ELSE \E p, s : Hole(U, L, p, s, x)
    <3>1. CASE x = T.root
      BY <1>1, <1>6, <3>1 DEF Wanting
    <3>2. CASE x # T.root
      BY <1>1, <2>2, <3>2 DEF Wanting
    <3>. QED  BY <3>1, <3>2
  <2>. QED  BY <1>1, <1>4, <2>1, <2>3 DEF Wanting
<1>. QED  BY <1>8, <1>9

\* The memory after m took the place of n.
Taken(T, U, m, n) ==
    /\ U \in R!Memory
    /\ U.root = (IF n = T.root THEN m ELSE T.root)
    /\ U.red = (IF n \in T.red THEN T.red \cup {m} ELSE T.red \ {m})
    /\ \A c \in R!Cells :
         U.par[c] = IF c # Sentinel /\ c \in {T.kid["L"][n], T.kid["R"][n]} THEN m
                    ELSE IF c = m THEN T.par[n] ELSE T.par[c]
    /\ \A t \in R!Sides, c \in R!Cells :
         U.kid[t][c] = IF c = m THEN T.kid[t][n]
                       ELSE IF n # T.root /\ c = T.par[n] /\ t = R!SideOf(T, n) THEN m
                       ELSE T.kid[t][c]

\* TakePlace gives m the links, the parent and the colour of n.
LEMMA TakePlaceDoes ==
    ASSUME NEW T \in R!Memory, NEW n \in R!Cells, NEW m \in R!Cells, m # n,
           n # T.root => T.par[n] \in R!Cells \ {m},
           T.kid["L"][n] \in R!Cells, T.kid["R"][n] \in R!Cells
    PROVE  Taken(T, R!TakePlace(T, m, n), m, n)
<1> DEFINE l == T.kid["L"][n]
           r == T.kid["R"][n]
           T1 == R!SetKid(T, "L", m, l)
           T2 == R!SetKid(T1, "R", m, r)
           T3 == R!SetPar(T2, m, T.par[n])
           T4 == R!CopyColor(T3, m, n)
           T5 == R!Replace(T4, n, m)
           T6 == IF T5.kid["L"][m] # Sentinel THEN R!SetPar(T5, T5.kid["L"][m], m) ELSE T5
           T7 == IF T6.kid["R"][m] # Sentinel THEN R!SetPar(T6, T6.kid["R"][m], m) ELSE T6
<1>1. R!TakePlace(T, m, n) = T7
  BY DEF R!TakePlace
<1>2. "L" \in R!Sides /\ "R" \in R!Sides /\ (\A t \in R!Sides : t = "L" \/ t = "R") /\ "L" # "R"
      /\ l \in R!Cells /\ r \in R!Cells
  BY DEF R!Sides
<1> HIDE DEF T7
<1> HIDE DEF T6
<1> HIDE DEF T5
<1> HIDE DEF T4
<1> HIDE DEF T3
<1> HIDE DEF T2
<1> HIDE DEF T1
<1> HIDE DEF l, r
<1>3. KidSet(T, T1, "L", m, l)
  BY <1>2, SetKidDoes DEF T1
<1>4. KidSet(T1, T2, "R", m, r)
  BY <1>2, <1>3, SetKidDoes DEF T2, KidSet
<1>5. ParSet(T2, T3, m, T.par[n])
  <2>1. T.par[n] \in R!Cells \cup {NULL}
    BY Fields
  <2>. QED  BY <1>4, <2>1, SetParDoes DEF T3, KidSet
<1>6. /\ T3 \in R!Memory /\ T3.root = T.root /\ T3.red = T.red
      /\ \A c \in R!Cells : T3.par[c] = IF c = m THEN T.par[n] ELSE T.par[c]
      /\ \A t \in R!Sides, c \in R!Cells : T3.kid[t][c] = IF c = m THEN T.kid[t][n] ELSE T.kid[t][c]
  BY <1>2, <1>3, <1>4, <1>5 DEF KidSet, ParSet, l, r
<1>7. /\ T4 \in R!Memory /\ T4.root = T3.root /\ T4.par = T3.par /\ T4.kid = T3.kid
      /\ T4.red = (IF n \in T.red THEN T.red \cup {m} ELSE T.red \ {m})
  <2>1. CASE n \in T3.red
    <3>1. T4 = R!Redden(T3, m)
      BY <2>1 DEF T4, R!CopyColor
    <3>2. Recolored(T3, R!Redden(T3, m), T3.red \cup {m})
      BY <1>6, ReddenDoes
    <3>. QED  BY <1>6, <2>1, <3>1, <3>2 DEF Recolored
  <2>2. CASE n \notin T3.red
    <3>1. T4 = R!Blacken(T3, m)
      BY <2>2 DEF T4, R!CopyColor
    <3>2. Recolored(T3, R!Blacken(T3, m), T3.red \ {m})
      BY <1>6, BlackenDoes
    <3>. QED  BY <1>6, <2>2, <3>1, <3>2 DEF Recolored
  <2>. QED  BY <2>1, <2>2
<1>8. Replaced(T4, T5, n, m)
  <2>1. n # T4.root => T4.par[n] \in R!Cells
    BY <1>6, <1>7
  <2>. QED  BY <1>7, <2>1, ReplaceDoes DEF T5
<1>9. n # T.root => T4.par[n] = T.par[n] /\ T.par[n] # m /\ T.par[n] \in R!Cells
                    /\ R!SideOf(T4, n) = R!SideOf(T, n)
  <2> SUFFICES ASSUME n # T.root
               PROVE  T4.par[n] = T.par[n] /\ T.par[n] # m /\ T.par[n] \in R!Cells
                      /\ R!SideOf(T4, n) = R!SideOf(T, n)
    OBVIOUS
  <2>1. T4.par[n] = T.par[n] /\ T.par[n] # m /\ T.par[n] \in R!Cells
    BY <1>6, <1>7
  <2>2. T4.kid["L"][T.par[n]] = T.kid["L"][T.par[n]]
    BY <1>2, <1>6, <1>7, <2>1
  <2>. QED  BY <2>1, <2>2 DEF R!SideOf
<1>10. /\ T5 \in R!Memory /\ T5.root = (IF n = T.root THEN m ELSE T.root)
       /\ T5.red = (IF n \in T.red THEN T.red \cup {m} ELSE T.red \ {m})
       /\ \A c \in R!Cells : T5.par[c] = IF c = m THEN T.par[n] ELSE T.par[c]
  BY <1>6, <1>7, <1>8 DEF Replaced
<1>11. ASSUME NEW t \in R!Sides, NEW c \in R!Cells
       PROVE  T5.kid[t][c] = IF c = m THEN T.kid[t][n]
                       ELSE IF n # T.root /\ c = T.par[n] /\ t = R!SideOf(T, n) THEN m
                       ELSE T.kid[t][c]
  BY <1>6, <1>7, <1>8, <1>9 DEF Replaced
<1>12. T5.kid["L"][m] = l /\ T5.kid["R"][m] = r
  BY <1>2, <1>11 DEF l, r
<1>13. /\ T6 \in R!Memory /\ T6.root = T5.root /\ T6.kid = T5.kid /\ T6.red = T5.red
       /\ \A c \in R!Cells : T6.par[c] = IF c # Sentinel /\ c = l THEN m ELSE T5.par[c]
  <2>1. ParSet(T5, R!SetPar(T5, l, m), l, m)
    BY <1>2, <1>10, SetParDoes
  <2>. QED  BY <1>10, <1>12, <2>1 DEF T6, ParSet
<1>14. /\ T7 \in R!Memory /\ T7.root = T6.root /\ T7.kid = T6.kid /\ T7.red = T6.red
       /\ \A c \in R!Cells : T7.par[c] = IF c # Sentinel /\ c = r THEN m ELSE T6.par[c]
  <2>1. ParSet(T6, R!SetPar(T6, r, m), r, m)
    BY <1>2, <1>13, SetParDoes
  <2>. QED  BY <1>12, <1>13, <2>1 DEF T7, ParSet
<1>15. Taken(T, T7, m, n)
  BY <1>10, <1>11, <1>13, <1>14 DEF Taken, l, r
<1>. QED  BY <1>1, <1>15

\* The node m that leaves its place, and its only child x, on side s.
Chosen(T, L, B, n, m, x, s) ==
    /\ m \in L /\ s \in R!Sides
    /\ x = T.kid[s][m] /\ T.kid[R!Other(s)][m] = Sentinel
    /\ m # n => /\ m # T.root
                /\ T.kid["L"][n] \in L /\ T.kid["R"][n] \in L
                /\ Leftmost(T, L, B, T.kid["R"][n], m)

\* rbtree_delete chooses a node that has at most one child.
LEMMA SubstFound ==
    ASSUME R!RBTreeAssumption, NEW T, NEW L, NEW B, Shape(T, L, B), Outside(T, L), NEW n \in L
    PROVE  \E s : Chosen(T, L, B, n, R!Subst(T, n), R!OnlyKid(T, R!Subst(T, n)), s)
<1> DEFINE m == R!Subst(T, n)
           x == R!OnlyKid(T, m)
           l == T.kid["L"][n]
           r == T.kid["R"][n]
<1>1. "L" \in R!Sides /\ "R" \in R!Sides /\ R!Other("L") = "R" /\ R!Other("R") = "L"
  BY DEF R!Sides, R!Other
<1>2. l \in L \cup {Sentinel} /\ r \in L \cup {Sentinel} /\ B[r] \subseteq B[n] \ {n}
  BY <1>1, Below DEF Sits
<1>3. CASE Sentinel \in {l, r}
  <2>1. m = n
    BY <1>3 DEF R!Subst
  <2>2. x = (IF l # Sentinel THEN l ELSE r)
    BY <2>1 DEF R!OnlyKid
  <2> HIDE DEF m, x
  <2>3. CASE l # Sentinel
    <3>1. Chosen(T, L, B, n, m, x, "L")
      BY <1>1, <1>3, <2>1, <2>2, <2>3 DEF Chosen
    <3>. QED  BY <3>1 DEF m, x
  <2>4. CASE l = Sentinel
    <3>1. Chosen(T, L, B, n, m, x, "R")
      BY <1>1, <2>1, <2>2, <2>4 DEF Chosen
    <3>. QED  BY <3>1 DEF m, x
  <2>. QED  BY <2>3, <2>4
<1>4. CASE Sentinel \notin {l, r}
  <2>1. m = R!MinFrom(T, r) /\ r \in L /\ l \in L
    BY <1>2, <1>4 DEF R!Subst
  <2>2. Leftmost(T, L, B, r, m)
    BY <2>1, MinFound
  <2> HIDE DEF m
  <2>3. m \in L /\ m \in B[r] /\ T.kid["L"][m] = Sentinel
    BY <2>2 DEF Leftmost
  <2>4. x = T.kid["R"][m]
    BY <2>3 DEF R!OnlyKid
  <2>5. m # T.root /\ m # n
    <3>1. m # n
      BY <1>2, <2>3
    <3>2. m # T.root
      <4> SUFFICES ASSUME m = T.root
                   PROVE  FALSE
        OBVIOUS
      <4>1. B[m] = L
        BY DEF Shape
      <4>2. m \in B[n] /\ n \in B[m]
        BY <1>2, <2>3, <4>1
      <4>3. B[m] \subseteq B[n] \ {n}
        BY <3>1, <4>2, Nested
      <4>. QED  BY <4>2, <4>3
    <3>. QED  BY <3>1, <3>2
  <2> HIDE DEF x
  <2>6. Chosen(T, L, B, n, m, x, "R")
    BY <1>1, <2>1, <2>2, <2>3, <2>4, <2>5 DEF Chosen
  <2>. QED  BY <2>6 DEF m, x
<1>. QED  BY <1>3, <1>4

\* The first two assignments of the removal; q becomes the parent of x.
Moved(T, m, x, q) == R!SetPar(R!SetKid(T, R!SideOf(T, m), T.par[m], x), x, q)

\* The memory after them.
MovedTo(T, U, m, x, q) ==
    /\ U \in R!Memory /\ U.root = T.root /\ U.red = T.red
    /\ \A c \in R!Cells : U.par[c] = IF c = x THEN q ELSE T.par[c]
    /\ \A t \in R!Sides, c \in R!Cells :
         U.kid[t][c] = IF c = T.par[m] /\ t = R!SideOf(T, m) THEN x ELSE T.kid[t][c]

\* What these assignments do.
LEMMA MovedDoes ==
    ASSUME NEW T \in R!Memory, NEW m \in R!Cells, NEW x \in R!Cells, NEW q \in R!Cells,
           T.par[m] \in R!Cells
    PROVE  MovedTo(T, Moved(T, m, x, q), m, x, q)
<1> DEFINE V == R!SetKid(T, R!SideOf(T, m), T.par[m], x)
<1>1. R!SideOf(T, m) \in R!Sides
  BY DEF R!SideOf, R!Sides
<1>2. KidSet(T, V, R!SideOf(T, m), T.par[m], x)
  BY <1>1, SetKidDoes
<1> HIDE DEF V
<1>3. ParSet(V, R!SetPar(V, x, q), x, q)
  BY <1>2, SetParDoes DEF KidSet
<1>4. Moved(T, m, x, q) = R!SetPar(V, x, q)
  BY DEF Moved, V
<1>. QED  BY <1>2, <1>3, <1>4 DEF KidSet, ParSet, MovedTo

\* Whose child a node is.
LEMMA ParentOf ==
    ASSUME R!RBTreeAssumption, NEW T, NEW L, NEW B, Shape(T, L, B), NEW n \in L, NEW c \in L,
           NEW t \in R!Sides
    PROVE  T.kid[t][c] = n <=> n # T.root /\ c = T.par[n] /\ t = R!SideOf(T, n)
<1>1. ASSUME T.kid[t][c] = n
      PROVE  n # T.root /\ c = T.par[n] /\ t = R!SideOf(T, n)
  <2>1. c = T.par[n] /\ n # T.root
    BY <1>1, Below, RootNoKid DEF Sits
  <2>2. R!SideOf(T, n) \in R!Sides /\ T.kid[R!SideOf(T, n)][c] = n
    BY <2>1, Upward
  <2>3. T.kid[R!Other(t)][c] # T.kid[t][c]
    BY <1>1, KidsDiffer
  <2>. QED  BY <1>1, <2>1, <2>2, <2>3, TwoSides
<1>. QED  BY <1>1, Upward

\* What is left when n is unlinked.
TakenOut(T, U, L, n, m, x) ==
    /\ Outside(U, L \ {n})
    /\ IF m \in T.red THEN Sound(U, L \ {n}) ELSE Wanting(U, L \ {n}, x)

\* The node unlinked is the one that leaves its place.
LEMMA UnlinkSelf ==
    ASSUME R!RBTreeAssumption, NEW T, NEW L, Good(T, L), NEW B, Shape(T, L, B), NEW n \in L,
           NEW x, NEW s, Chosen(T, L, B, n, n, x, s), n # T.root
    PROVE  TakenOut(T, R!Unlink(T, n, n, x), L, n, n, x)
<1> DEFINE M == L \ {n}
           p == T.par[n]
           W == Moved(T, n, x, p)
           U == R!ClearNode(W, n)
<1>1. n \in L /\ s \in R!Sides /\ x = T.kid[s][n] /\ T.kid[R!Other(s)][n] = Sentinel
  BY DEF Chosen
<1>2. /\ T \in R!Memory /\ L \subseteq R!Cells /\ Sentinel \in R!Cells /\ n \in Nodes
      /\ Outside(T, L) /\ Sentinel \notin Nodes
  BY DEF Shape, R!Cells, R!RBTreeAssumption, Good
<1>3. p \in L /\ x \in L \cup {Sentinel} /\ p # n
  BY <1>1, Upward, Below DEF Sits
<1>4. R!Unlink(T, n, n, x) = U
  BY DEF R!Unlink, Moved
<1>5. /\ W \in R!Memory /\ W.root = T.root /\ W.red = T.red
      /\ \A c \in R!Cells : W.par[c] = IF c = x THEN p ELSE T.par[c]
      /\ \A t \in R!Sides, c \in R!Cells :
           W.kid[t][c] = IF c = p /\ t = R!SideOf(T, n) THEN x ELSE T.kid[t][c]
  <2>1. MovedTo(T, W, n, x, p)
    <3>1. n \in R!Cells /\ x \in R!Cells /\ p \in R!Cells
      BY <1>2, <1>3
    <3>. QED  BY <1>2, <3>1, MovedDoes
  <2>. QED  BY <2>1 DEF MovedTo
<1> HIDE DEF W
<1>6. Cut(T, W, n, s, x)
  BY <1>1, <1>5 DEF Cut
<1>7. IF n \in T.red THEN Sound(W, M) ELSE Wanting(W, M, x)
  BY <1>1, <1>6, CutBlack
<1>8. Cleared(W, U, n)
  BY <1>2, <1>5, ClearNodeDoes
<1> HIDE DEF U
<1>9. PICK C : Shape(W, M, C)
  BY <1>7 DEF Sound, Wanting
<1>10. n \in Nodes \ M
  BY <1>2
<1>11. IF n \in T.red THEN Sound(U, M) ELSE Wanting(U, M, x)
  BY <1>7, <1>8, <1>9, <1>10, ClearKeeps
<1>12. Outside(U, M)
  <2>1. Sentinel \notin U.red
    BY <1>2, <1>5, <1>8 DEF Outside, Cleared
  <2>2. ASSUME NEW c \in R!Cells, NEW t \in R!Sides, c \notin M
        PROVE  U.kid[t][c] = NULL
    BY <1>2, <1>3, <1>5, <1>8, <2>2 DEF Outside, Cleared
  <2>. QED  BY <2>1, <2>2 DEF Outside
<1>. QED  BY <1>4, <1>11, <1>12 DEF TakenOut

\* Its successor takes the place of the node unlinked.
LEMMA UnlinkOther ==
    ASSUME R!RBTreeAssumption, NEW T, NEW L, Good(T, L), NEW B, Shape(T, L, B), NEW n \in L,
           NEW m, NEW x, NEW s, Chosen(T, L, B, n, m, x, s), m # n
    PROVE  TakenOut(T, R!Unlink(T, n, m, x), L, n, m, x)
<1> DEFINE M == L \ {m}
           K == L \ {n}
           p == T.par[m]
           q == IF p = n THEN m ELSE p
           l == T.kid["L"][n]
           r == T.kid["R"][n]
           W == Moved(T, m, x, p)
           V == Moved(T, m, x, q)
           Z == R!TakePlace(V, m, n)
           U == R!ClearNode(Z, n)
           C == [c \in M \cup {Sentinel} |-> B[c] \ {m}]
<1>1. /\ m \in L /\ s \in R!Sides /\ x = T.kid[s][m] /\ T.kid[R!Other(s)][m] = Sentinel
      /\ m # T.root /\ l \in L /\ r \in L /\ Leftmost(T, L, B, r, m)
  BY DEF Chosen
<1>2. /\ T \in R!Memory /\ L \subseteq R!Cells /\ Sentinel \in R!Cells /\ L \subseteq Nodes
      /\ Outside(T, L) /\ Sentinel \notin Nodes
  BY DEF Shape, R!Cells, R!RBTreeAssumption, Good
<1>3. p \in L /\ x \in L \cup {Sentinel} /\ p # m /\ q \in L /\ x # m
  BY <1>1, Upward, Below DEF Sits
<1>4. R!Unlink(T, n, m, x) = U
  BY DEF R!Unlink, Moved
<1>5. "L" \in R!Sides /\ "R" \in R!Sides /\ R!Other("L") = "R" /\ R!Other("R") = "L"
      /\ \A t \in R!Sides : t = "L" \/ t = "R"
  BY DEF R!Sides, R!Other
<1>0. /\ m \in R!Cells /\ x \in R!Cells /\ p \in R!Cells /\ q \in R!Cells
  BY <1>1, <1>2, <1>3
<1>6. /\ W \in R!Memory /\ W.root = T.root /\ W.red = T.red
      /\ \A c \in R!Cells : W.par[c] = IF c = x THEN p ELSE T.par[c]
      /\ \A t \in R!Sides, c \in R!Cells :
           W.kid[t][c] = IF c = p /\ t = R!SideOf(T, m) THEN x ELSE T.kid[t][c]
  <2>1. MovedTo(T, W, m, x, p)
    BY <1>0, <1>2, MovedDoes
  <2>. QED  BY <2>1 DEF MovedTo
<1>7. /\ V \in R!Memory /\ V.root = T.root /\ V.red = T.red
      /\ \A c \in R!Cells : V.par[c] = IF c = x THEN q ELSE T.par[c]
      /\ \A t \in R!Sides, c \in R!Cells :
           V.kid[t][c] = IF c = p /\ t = R!SideOf(T, m) THEN x ELSE T.kid[t][c]
  <2>1. MovedTo(T, V, m, x, q)
    BY <1>0, <1>2, MovedDoes
  <2>. QED  BY <2>1 DEF MovedTo
<1>18. q = (IF p = n THEN m ELSE p)
  OBVIOUS
<1> HIDE DEF W, V, C, l, r, p, q
<1>8. Cut(T, W, m, s, x)
  BY <1>1, <1>6 DEF Cut, p
<1>9. Shape(W, M, C) /\ (IF m \in T.red THEN Sound(W, M) ELSE Wanting(W, M, x))
  BY <1>1, <1>8, CutShape, CutBlack DEF C
<1>10. /\ m \in B[r] /\ \A d \in B[r] : Key[m] <= Key[d]
  BY <1>1 DEF Leftmost
<1>11. Sits(T, L, B, n, "L", l) /\ Sits(T, L, B, n, "R", r)
  BY <1>5, Below DEF l, r
<1>12. /\ n \in M /\ m \in B[n] /\ n \in B[n] /\ l # m
       /\ \A a \in B[l] : Key[a] <= Key[n]
       /\ \A a \in B[r] : Key[n] <= Key[a]
       /\ B[l] \subseteq L /\ B[r] \subseteq L /\ m \notin B[l]
  <2>1. l \in B[l] /\ B[l] \cap B[r] = {}
    BY <1>1, <1>5, <1>11, BelowItself DEF Sits, l, r
  <2>. QED  BY <1>10, <1>11, <2>1 DEF Sits, Aside
<1>13. CutKids(T, W, L, m, x)
  BY <1>1, <1>8, CutKid
<1>14. ASSUME NEW c \in M, NEW t \in R!Sides
       PROVE  /\ W.kid[t][c] \in M \cup {Sentinel}
              /\ C[W.kid[t][c]] = B[T.kid[t][c]] \ {m}
              /\ T.kid[t][c] \in L \cup {Sentinel}
  <2>1. /\ T.kid[t][c] \in L \cup {Sentinel}
        /\ W.kid[t][c] = IF T.kid[t][c] = m THEN x ELSE T.kid[t][c]
    BY <1>13 DEF CutKids
  <2>2. W.kid[t][c] \in M \cup {Sentinel}
    BY <1>3, <2>1
  <2>3. C[W.kid[t][c]] = B[W.kid[t][c]] \ {m}
    BY <2>2 DEF C
  <2>4. B[m] = {m} \cup B[x]
    <3>1. B[m] = {m} \cup B[x] \cup B[Sentinel] /\ B[Sentinel] = {}
      BY <1>1, Below DEF Sits, Shape
    <3>. QED  BY <3>1
  <2>. QED  BY <2>1, <2>2, <2>3, <2>4
<1>15. Fits(W, M, C, n, m)
  <2>1. m \in Nodes \ M
    BY <1>1, <1>2
  <2>2. ASSUME NEW c \in M, NEW t \in R!Sides, n \in C[W.kid[t][c]]
        PROVE  Aside(t, m, c)
    <3> DEFINE d == T.kid[t][c]
    <3>1. n \in B[d] /\ d \in L \cup {Sentinel}
      BY <1>14, <2>2
    <3>2. d \in L
      BY <3>1 DEF Shape
    <3>3. \A a \in B[d] : Aside(t, a, c)
      BY Below DEF Sits
    <3> HIDE DEF d
    <3>4. m \in B[d]
      BY <1>12, <3>1, <3>2, Nested
    <3>. QED  BY <3>3, <3>4
  <2>3. ASSUME NEW t \in R!Sides, NEW c \in C[W.kid[t][n]]
        PROVE  Aside(t, c, m)
    <3>1. c \in B[T.kid[t][n]]
      BY <1>12, <1>14
    <3>2. \A a \in L : Key[a] \in Int
      BY <1>2 DEF R!RBTreeAssumption
    <3>3. CASE t = "L"
      <4>1. Key[c] <= Key[n] /\ Key[n] <= Key[m]
        BY <1>10, <1>12, <3>1, <3>3 DEF l
      <4>2. Key[c] \in Int /\ Key[n] \in Int /\ Key[m] \in Int
        BY <1>1, <1>12, <3>1, <3>2, <3>3 DEF l
      <4>. QED  BY <3>3, <4>1, <4>2 DEF Aside
    <3>4. CASE t = "R"
      <4>1. Key[m] <= Key[c]
        BY <1>10, <3>1, <3>4 DEF r
      <4>. QED  BY <3>4, <4>1 DEF Aside
    <3>. QED  BY <1>5, <3>3, <3>4
  <2>. QED  BY <2>1, <2>2, <2>3 DEF Fits
<1>16. /\ V.root = W.root /\ V.red = W.red /\ V \in R!Memory
       /\ \A t \in R!Sides, c \in R!Cells : V.kid[t][c] = W.kid[t][c]
       /\ \A c \in R!Cells : V.par[c] = IF c = x THEN q ELSE W.par[c]
       /\ W.par[x] = p /\ W.root = T.root
  BY <1>0, <1>6, <1>7
<1>17. /\ n \in R!Cells /\ m \in R!Cells /\ m # Sentinel /\ n # Sentinel /\ m \notin M
       /\ x # n /\ x # W.root /\ n # m
  <2>1. B[m] \subseteq B[n] \ {n}
    BY <1>12, Nested
  <2>2. x \in L => x \in B[m]
    BY <1>1, Below DEF Sits
  <2>3. x # n /\ x # T.root
    BY <1>1, <1>2, <1>3, <2>1, <2>2, RootNoKid
  <2>. QED  BY <1>1, <1>2, <1>12, <1>16, <2>3
<1>19. n # V.root => V.par[n] \in R!Cells \ {m} /\ V.par[n] \in L
  <2>1. n # T.root => T.par[n] \in L /\ B[n] \subseteq B[T.par[n]] \ {T.par[n]}
    BY Upward
  <2>2. V.par[n] = T.par[n]
    BY <1>7, <1>17
  <2>. QED  BY <1>2, <1>7, <1>12, <2>1, <2>2
<1>20. /\ V.kid["L"][n] \in M \cup {Sentinel} /\ V.kid["R"][n] \in M \cup {Sentinel}
       /\ V.kid["L"][n] = W.kid["L"][n] /\ V.kid["R"][n] = W.kid["R"][n]
       /\ M \cup {Sentinel} \subseteq R!Cells
  <2>1. V.kid["L"][n] = W.kid["L"][n] /\ V.kid["R"][n] = W.kid["R"][n]
    BY <1>5, <1>16, <1>17
  <2>2. W.kid["L"][n] \in M \cup {Sentinel} /\ W.kid["R"][n] \in M \cup {Sentinel}
    BY <1>5, <1>12, <1>14
  <2>. QED  BY <1>2, <2>1, <2>2
<1>21. Taken(V, Z, m, n)
  BY <1>16, <1>17, <1>19, <1>20, TakePlaceDoes
<1> HIDE DEF Z
<1>22. Cleared(Z, U, n)
  BY <1>17, <1>21, ClearNodeDoes DEF Taken
<1> HIDE DEF U
<1>23. /\ U \in R!Memory
       /\ U.root = (IF n = W.root THEN m ELSE W.root)
       /\ U.red = (IF n \in W.red THEN W.red \cup {m} ELSE W.red \ {m})
       /\ \A c \in R!Cells : c # n =>
            U.par[c] = IF c # Sentinel /\ c \in {W.kid["L"][n], W.kid["R"][n]} THEN m
                       ELSE IF c = m THEN V.par[n] ELSE V.par[c]
  BY <1>16, <1>20, <1>21, <1>22 DEF Taken, Cleared
<1>24. \A t \in R!Sides, c \in R!Cells :
            U.kid[t][c] = IF c = n THEN NULL
                          ELSE IF c = m THEN V.kid[t][n]
                          ELSE IF n # W.root /\ c = V.par[n] /\ t = R!SideOf(V, n) THEN m
                          ELSE V.kid[t][c]
  BY <1>16, <1>21, <1>22 DEF Taken, Cleared
<1>25. V.par[n] = W.par[n] /\ (n # W.root => R!SideOf(V, n) = R!SideOf(W, n))
  <2>1. V.par[n] = W.par[n]
    BY <1>16, <1>17
  <2>. QED  BY <1>5, <1>16, <1>19, <2>1 DEF R!SideOf
<1>26. Renamed(W, U, M, n, m, x)
  <2>1. U.root = Swap(n, m, W.root) /\ (m \in U.red <=> n \in W.red)
        /\ \A c \in R!Cells : c # m => (c \in U.red <=> c \in W.red)
    BY <1>17, <1>23 DEF Swap
  <2>2. ASSUME NEW t \in R!Sides
        PROVE  U.kid[t][m] = W.kid[t][n]
    BY <1>16, <1>17, <1>24
  <2>3. ASSUME NEW c \in M \ {n}, NEW t \in R!Sides
        PROVE  U.kid[t][c] = Swap(n, m, W.kid[t][c])
    <3>1. W.kid[t][c] = n <=> n # W.root /\ c = W.par[n] /\ t = R!SideOf(W, n)
      BY <1>9, <1>12, ParentOf
    <3>2. c \in R!Cells /\ c # n /\ c # m
      BY <1>17, <1>20
    <3>3. U.kid[t][c] = IF n # W.root /\ c = V.par[n] /\ t = R!SideOf(V, n) THEN m ELSE V.kid[t][c]
      BY <1>24, <3>2
    <3>4. V.kid[t][c] = W.kid[t][c]
      BY <1>16, <3>2
    <3>. QED  BY <1>25, <3>1, <3>3, <3>4 DEF Swap
  <2>4. U.par[m] = W.par[n]
    BY <1>17, <1>20, <1>23, <1>25
  <2>5. ASSUME NEW c \in M, c \in {W.kid["L"][n], W.kid["R"][n]}
        PROVE  U.par[c] = m
    <3>1. c # n
      BY <1>5, <1>9, <1>12, <2>5, Below DEF Sits
    <3>2. c # Sentinel /\ c \in R!Cells
      BY <1>2, <1>20
    <3>. QED  BY <1>23, <2>5, <3>1, <3>2
  <2>6. ASSUME NEW c \in (M \ {n}) \cup {Sentinel},
               c \notin {W.kid["L"][n], W.kid["R"][n]} \ {Sentinel}, W.par[c] # n
        PROVE  U.par[c] = W.par[c]
    <3>1. c \in R!Cells /\ c # n /\ c # m
      BY <1>17, <1>20
    <3>2. U.par[c] = V.par[c]
      BY <1>23, <2>6, <3>1
    <3>3. V.par[c] = IF c = x THEN q ELSE W.par[c]
      BY <1>16, <3>1
    <3>. QED  BY <1>16, <1>18, <2>6, <3>2, <3>3
  <2>7. W.par[x] = n => U.par[x] = m
    <3> SUFFICES ASSUME W.par[x] = n
                 PROVE  U.par[x] = m
      OBVIOUS
    <3>1. V.par[x] = m
      BY <1>0, <1>16, <1>18
    <3>. QED  BY <1>0, <1>3, <1>17, <1>23, <3>1
  <2>. QED  BY <1>23, <2>1, <2>2, <2>3, <2>4, <2>5, <2>6, <2>7 DEF Renamed
<1>27. (M \ {n}) \cup {m} = K
  BY <1>1, <1>17
<1>28. /\ Sound(W, M) => Sound(U, K)
       /\ Wanting(W, M, x) => Wanting(U, K, x)
  <2>1. n \in M /\ x # n /\ x # W.root
    BY <1>12, <1>17
  <2> HIDE DEF M, K
  <2>. QED  BY <1>9, <1>15, <1>26, <1>27, <2>1, RenameKeeps
<1>29. Outside(U, K)
  <2>1. Sentinel \notin U.red
    BY <1>2, <1>6, <1>17, <1>23 DEF Outside
  <2>2. ASSUME NEW c \in R!Cells, NEW t \in R!Sides, c \notin K
        PROVE  U.kid[t][c] = NULL
    <3>1. CASE c = n
      BY <1>24, <3>1
    <3>2. CASE c # n
      <4>1. c \notin L /\ c # m /\ c # p /\ T.kid[t][c] = NULL
        BY <1>1, <1>2, <1>3, <2>2, <3>2 DEF Outside
      <4>2. V.kid[t][c] = NULL
        BY <1>7, <4>1
      <4>. QED  BY <1>16, <1>19, <1>24, <3>2, <4>1, <4>2
    <3>. QED  BY <3>1, <3>2
  <2>. QED  BY <2>1, <2>2 DEF Outside
<1>30. TakenOut(T, U, L, n, m, x)
  BY <1>9, <1>28, <1>29 DEF TakenOut
<1>. QED  BY <1>4, <1>30

-----------------------------------------------------------------------------
(* The red-black tree: repair after a deletion.                            *)

\* No red node has a red child.
Calm(T, L) == \A n \in L, t \in R!Sides : n \in T.red => T.kid[t][n] \notin T.red

\* In order but for a black node missing on side s of p.
Holed(T, L, p, s) ==
    /\ \E B : Shape(T, L, B)
    /\ \E b : Heights(T, L, b, p, s)
    /\ Calm(T, L)
    /\ Outside(T, L)
    /\ T.root \notin T.red
    /\ p \in L /\ s \in R!Sides

\* The nodes the repair looks at: x, above which a black node is missing, its
\* parent p and its sibling w.
Lacks(T, L, p, s, o, x, w) ==
    /\ Holed(T, L, p, s)
    /\ s \in R!Sides /\ o \in R!Sides /\ s # o /\ o = R!Other(s) /\ s = R!Other(o)
    /\ \A t \in R!Sides : t \in {s, o}
    /\ T.kid[s][p] = x /\ T.par[x] = p /\ x \notin T.red
    /\ T.kid[o][p] = w

\* What follows from what is missing: the sibling is no leaf.
Heavy(T, L, p, s, o, x, w, b) ==
    /\ x \in L \cup {Sentinel} /\ w \in L /\ x # w /\ x # p /\ w # p
    /\ T.par[w] = p /\ w # T.root
    /\ b[w] = b[x] + 1 /\ b[x] \in Nat
    /\ b[p] = b[w] + Black(T, p)
    /\ b[w] = b[T.kid[s][w]] + Black(T, w)
    /\ b[w] = b[T.kid[o][w]] + Black(T, w)

\* Where a black node is missing, the sibling is a node with enough black
\* nodes below it: the repair of a deletion never follows NULL.
LEMMA Sibling ==
    ASSUME R!RBTreeAssumption, NEW T, NEW L, NEW p, NEW s, NEW o, NEW x, NEW w,
           Lacks(T, L, p, s, o, x, w), NEW b, Heights(T, L, b, p, s)
    PROVE  Heavy(T, L, p, s, o, x, w, b)
<1>1. PICK B : Shape(T, L, B)
  BY DEF Lacks, Holed
<1>2. /\ s \in R!Sides /\ o \in R!Sides /\ s # o /\ o = R!Other(s) /\ s = R!Other(o) /\ p \in L
      /\ T.kid[s][p] = x /\ T.kid[o][p] = w
  BY DEF Lacks, Holed
<1>3. x \in L \cup {Sentinel} /\ x # p
  BY <1>1, <1>2, Below DEF Sits
<1>4. /\ w \in L \cup {Sentinel} /\ w # p /\ w # T.root
      /\ w \in L => T.par[w] = p
  BY <1>1, <1>2, Below, RootNoKid DEF Sits
<1>5. /\ b \in [L \cup {Sentinel} -> Nat] /\ b[Sentinel] = 0
      /\ \A c \in L, t \in R!Sides :
           b[c] = b[T.kid[t][c]] + Black(T, c) + (IF c = p /\ t = s THEN 1 ELSE 0)
  BY DEF Heights
<1>6. b[x] \in Nat /\ b[w] \in Nat /\ b[p] \in Nat
  BY <1>2, <1>3, <1>4, <1>5
<1>7. b[p] = b[x] + Black(T, p) + 1
  BY <1>2, <1>5
<1>8. b[p] = b[w] + Black(T, p) + 0
  BY <1>2, <1>5
<1>9. Black(T, p) \in Nat
  BY DEF Black
<1>10. b[w] = b[x] + 1 /\ b[p] = b[w] + Black(T, p)
  BY <1>6, <1>7, <1>8, <1>9
<1>11. w # x /\ w # Sentinel
  BY <1>5, <1>6, <1>10
<1>12. w \in L
  BY <1>4, <1>11
<1>13. ASSUME NEW t \in R!Sides
       PROVE  b[w] = b[T.kid[t][w]] + Black(T, w)
  <2>1. b[w] = b[T.kid[t][w]] + Black(T, w) + 0
    BY <1>4, <1>5, <1>12
  <2>2. T.kid[t][w] \in L \cup {Sentinel}
    BY <1>1, <1>12, Below DEF Sits
  <2>3. b[T.kid[t][w]] \in Nat /\ Black(T, w) \in Nat
    BY <1>5, <2>2 DEF Black
  <2>. QED  BY <2>1, <2>3
<1>. QED  BY <1>2, <1>3, <1>4, <1>6, <1>10, <1>11, <1>12, <1>13 DEF Heavy

\* No parent is red with its child: said in two ways.
LEMMA CalmApart ==
    ASSUME R!RBTreeAssumption, NEW T, NEW L, NEW B, Shape(T, L, B)
    PROVE  Calm(T, L) <=> ApartBut(T, L, NULL)
<1>1. ASSUME NEW n \in L, NEW t \in R!Sides
      PROVE  T.kid[t][n] # NULL
  <2>1. T.kid[t][n] \in L \cup {Sentinel}
    BY Below DEF Sits
  <2>. QED  BY <2>1 DEF Shape, R!RBTreeAssumption
<1>. QED  BY <1>1 DEF Calm, ApartBut

\* When a black node is missing above a black node x, all else is in order.
LEMMA WantingLacks ==
    ASSUME R!RBTreeAssumption, NEW T, NEW L, NEW x, Wanting(T, L, x), Outside(T, L),
           ~R!DeleteDone(T, x)
    PROVE  Lacks(T, L, T.par[x], R!SideOf(T, x), R!Other(R!SideOf(T, x)), x,
                 T.kid[R!Other(R!SideOf(T, x))][T.par[x]])
<1>1. PICK B : Shape(T, L, B)
  BY DEF Wanting
<1>2. x # T.root /\ x \notin T.red
  BY DEF R!DeleteDone
<1>3. PICK p, s : Hole(T, L, p, s, x)
  BY <1>2 DEF Wanting
<1>4. /\ p \in L /\ s \in R!Sides /\ T.par[x] = p /\ T.kid[s][p] = x
  BY <1>3 DEF Hole
<1>5. PICK b : Heights(T, L, b, p, s)
  BY <1>3 DEF Hole
<1>6. Calm(T, L)
  BY <1>2 DEF Wanting, Lone, Calm
<1>7. Holed(T, L, p, s)
  BY <1>1, <1>4, <1>5, <1>6 DEF Holed, Wanting
<1>8. /\ R!Other(s) \in R!Sides /\ R!Other(s) # s /\ R!Other(R!Other(s)) = s
      /\ \A t \in R!Sides : t = s \/ t = R!Other(s)
  BY <1>4, TwoSides
<1>9. Lacks(T, L, p, s, R!Other(s), x, T.kid[R!Other(s)][p])
  BY <1>2, <1>4, <1>7, <1>8 DEF Lacks
<1>10. Heavy(T, L, p, s, R!Other(s), x, T.kid[R!Other(s)][p], b)
  BY <1>5, <1>9, Sibling
<1>11. T.kid[R!Other(s)][p] # x
  BY <1>10 DEF Heavy
<1>12. R!SideOf(T, x) = s
  BY <1>4, <1>8, <1>11 DEF R!SideOf, R!Sides, R!Other
<1>. QED  BY <1>4, <1>9, <1>12

\* Blackening x ends the repair.
LEMMA LastBlack ==
    ASSUME R!RBTreeAssumption, NEW T, NEW L, NEW x, Wanting(T, L, x), Outside(T, L),
           R!DeleteDone(T, x)
    PROVE  Good(R!Blacken(T, x), L)
<1>1. PICK B : Shape(T, L, B)
  BY DEF Wanting
<1> DEFINE U == R!Blacken(T, x)
<1>2. T \in R!Memory /\ L \subseteq R!Cells /\ Sentinel \in R!Cells /\ x \in L \cup {Sentinel}
      /\ Sentinel \notin L
  BY <1>1 DEF Shape, Wanting, R!Cells, R!RBTreeAssumption
<1>3. Recolored(T, U, T.red \ {x})
  <2>1. x \in R!Cells
    BY <1>2
  <2>. QED  BY <1>2, <2>1, BlackenDoes
<1> HIDE DEF U
<1>4. Shape(U, L, B)
  BY <1>1, <1>3, RecolorShape
<1>5. /\ U.red = T.red \ {x} /\ U.kid = T.kid /\ U.root = T.root
  BY <1>3 DEF Recolored
<1>6. Outside(U, L) /\ U.root \notin U.red
  BY <1>5 DEF Outside, Wanting
<1>7. Calm(U, L)
  BY <1>5 DEF Calm, Wanting, Lone
<1>8. ApartBut(U, L, NULL)
  BY <1>4, <1>7, CalmApart
<1>9. \E h : Full(U, L, h)
  <2>1. CASE x = T.root
    <3>1. PICK b : Full(T, L, b)
      BY <2>1 DEF Wanting
    <3>2. U.red = T.red
      BY <1>5, <2>1 DEF Wanting
    <3>3. \A c : Black(U, c) = Black(T, c)
      BY <3>2 DEF Black
    <3>4. Full(U, L, b)
      BY <1>5, <3>1, <3>3 DEF Full
    <3>. QED  BY <3>4
  <2>2. CASE x # T.root
    <3>1. PICK p, s : Hole(T, L, p, s, x)
      BY <2>2 DEF Wanting
    <3>2. /\ p \in L /\ s \in R!Sides /\ T.kid[s][p] = x
      BY <3>1 DEF Hole
    <3>3. PICK b : Heights(T, L, b, p, s)
      BY <3>1 DEF Hole
    <3>4. x \in T.red /\ x \in L
      BY <1>2, <2>2 DEF R!DeleteDone, Outside
    <3>5. /\ b \in [L \cup {Sentinel} -> Nat] /\ b[Sentinel] = 0
          /\ \A c \in L, t \in R!Sides :
               b[c] = b[T.kid[t][c]] + Black(T, c) + (IF c = p /\ t = s THEN 1 ELSE 0)
      BY <3>3 DEF Heights
    <3> DEFINE h == [c \in L \cup {Sentinel} |-> IF c = x THEN b[c] + 1 ELSE b[c]]
    <3>6. h \in [L \cup {Sentinel} -> Nat] /\ h[Sentinel] = 0
          /\ \A c \in L \cup {Sentinel} : h[c] = IF c = x THEN b[c] + 1 ELSE b[c]
      BY <1>2, <3>4, <3>5
    <3> HIDE DEF h
    <3>7. ASSUME NEW c \in L, NEW t \in R!Sides
          PROVE  h[c] = h[U.kid[t][c]] + Black(U, c)
      <4> DEFINE d == T.kid[t][c]
      <4>1. d \in L \cup {Sentinel} /\ d # c
        BY <1>1, Below DEF Sits
      <4>2. d = x <=> c = p /\ t = s
        <5>1. d = x <=> x # T.root /\ c = T.par[x] /\ t = R!SideOf(T, x)
          BY <1>1, <3>4, ParentOf
        <5>2. T.kid[s][p] = x <=> x # T.root /\ p = T.par[x] /\ s = R!SideOf(T, x)
          BY <1>1, <3>2, <3>4, ParentOf
        <5>. QED  BY <3>2, <5>1, <5>2
      <4>3. b[c] = b[d] + Black(T, c) + (IF c = p /\ t = s THEN 1 ELSE 0)
        BY <3>5
      <4>4. b[d] \in Nat /\ b[c] \in Nat
        BY <3>5, <4>1
      <4> HIDE DEF d
      <4>5. h[d] = (IF d = x THEN b[d] + 1 ELSE b[d]) /\ h[c] = (IF c = x THEN b[c] + 1 ELSE b[c])
        BY <3>6, <4>1
      <4>6. Black(U, c) = (IF c = x THEN 1 ELSE Black(T, c)) /\ (c = x => Black(T, c) = 0)
            /\ Black(T, c) \in Nat
        BY <1>5, <3>4 DEF Black
      <4>7. h[c] = h[d] + Black(U, c)
        BY <4>1, <4>2, <4>3, <4>4, <4>5, <4>6
      <4>. QED  BY <1>5, <4>7 DEF d
    <3>8. Full(U, L, h)
      BY <3>6, <3>7 DEF Full
    <3>. QED  BY <3>8
  <2>. QED  BY <2>1, <2>2
<1>10. \E h : Heights(U, L, h, NULL, "L")
  BY <1>4, <1>9, NoHole
<1>. QED  BY <1>4, <1>6, <1>8, <1>10 DEF Good, U

\* Where black g has a red child q away from side u, they change colours, and g
\* goes down on side u.
Reddened(T, V, U, L, u, g, q) ==
    /\ u \in R!Sides /\ R!Other(u) \in R!Sides /\ R!Other(u) # u /\ R!Other(R!Other(u)) = u
    /\ \A t \in R!Sides : t \in {u, R!Other(u)}
    /\ g \in L /\ q \in L /\ g # q /\ g \notin T.red /\ q \in T.red
    /\ q = T.kid[R!Other(u)][g] /\ T.kid[u][g] \notin T.red
    /\ Recolored(T, V, (T.red \ {q}) \cup {g})
    /\ Swung(V, U, L, u, g, q)

\* That leaves the tree as it was, with what is missing where it was.
LEMMA TurnRed ==
    ASSUME R!RBTreeAssumption, NEW T, NEW L, NEW p, NEW s, Holed(T, L, p, s),
           NEW V, NEW U, NEW u, NEW g, NEW q, Reddened(T, V, U, L, u, g, q),
           p # q, p = g => s = u
    PROVE  Holed(U, L, p, s)
<1>1. PICK B : Shape(T, L, B)
  BY DEF Holed
<1>2. PICK b : Heights(T, L, b, p, s)
  BY DEF Holed
<1> DEFINE o == R!Other(u)
<1>3. /\ u \in R!Sides /\ o \in R!Sides /\ o # u
      /\ \A t \in R!Sides : t \in {u, o}
      /\ g \in L /\ q \in L /\ g # q /\ g \notin T.red /\ q \in T.red
      /\ q = T.kid[o][g] /\ T.kid[u][g] \notin T.red
  BY DEF Reddened
<1>4. /\ V.red = (T.red \ {q}) \cup {g} /\ V.kid = T.kid /\ V.root = T.root
  BY DEF Reddened, Recolored
<1>5. Swung(V, U, L, u, g, q)
  BY DEF Reddened
<1>6. /\ U \in R!Memory /\ U.red = (T.red \ {q}) \cup {g}
      /\ U.root = (IF g = T.root THEN q ELSE T.root)
      /\ U.kid[u][g] = T.kid[u][g] /\ U.kid[o][g] = T.kid[u][q]
      /\ U.kid[u][q] = g /\ U.kid[o][q] = T.kid[o][q]
      /\ \A c \in R!Cells, t \in R!Sides : c \notin L => U.kid[t][c] = T.kid[t][c]
      /\ \E C : Shape(U, L, C)
  BY <1>4, <1>5 DEF Swung
<1>7. \A c \in L, t \in R!Sides : c # g /\ c # q =>
        /\ T.kid[t][c] # q
        /\ U.kid[t][c] = IF T.kid[t][c] = g THEN q ELSE T.kid[t][c]
  BY <1>4, <1>5 DEF Swung
<1>8. ASSUME NEW c \in L, NEW t \in R!Sides
      PROVE  T.kid[t][c] \in L \cup {Sentinel} /\ T.kid[t][c] # c /\ T.kid[t][c] # T.root
  BY <1>1, Below, RootNoKid DEF Sits
<1>9. T.kid[u][q] # g /\ T.kid[o][q] # g /\ T.kid[u][g] # q
  <2>1. B[q] \subseteq B[g] \ {g}
    BY <1>1, <1>3, Below DEF Sits
  <2>2. \A t \in R!Sides : B[T.kid[t][q]] \subseteq B[q]
    BY <1>1, <1>3, Below DEF Sits
  <2>3. g \in B[g]
    BY <1>1, <1>3, BelowItself
  <2>. QED  BY <1>3, <2>1, <2>2, <2>3
<1>10. /\ b \in [L \cup {Sentinel} -> Nat] /\ b[Sentinel] = 0 /\ Sentinel \notin L
       /\ \A c \in L, t \in R!Sides :
            b[c] = b[T.kid[t][c]] + Black(T, c) + (IF c = p /\ t = s THEN 1 ELSE 0)
  BY <1>1, <1>2 DEF Heights, Shape, R!RBTreeAssumption
<1>11. Calm(T, L) /\ Outside(T, L) /\ T.root \notin T.red /\ p \in L /\ s \in R!Sides
  BY DEF Holed
<1> DEFINE h == [c \in L \cup {Sentinel} |-> IF c = g THEN b[q] ELSE IF c = q THEN b[g] ELSE b[c]]
<1>12. h \in [L \cup {Sentinel} -> Nat] /\ h[Sentinel] = 0
       /\ \A c \in L \cup {Sentinel} : h[c] = IF c = g THEN b[q] ELSE IF c = q THEN b[g] ELSE b[c]
  BY <1>3, <1>10
<1> HIDE DEF h, o
<1>13. ASSUME NEW c \in L, NEW t \in R!Sides
       PROVE  h[c] = h[U.kid[t][c]] + Black(U, c) + (IF c = p /\ t = s THEN 1 ELSE 0)
  <2>1. /\ h[g] = b[q] /\ h[q] = b[g] /\ b[q] \in Nat /\ b[g] \in Nat
    BY <1>3, <1>10, <1>12
  <2>2. Black(T, g) = 1 /\ Black(T, q) = 0 /\ Black(U, g) = 0 /\ Black(U, q) = 1
    BY <1>3, <1>6 DEF Black
  <2>3. ~(g = p /\ o = s)
    BY <1>3
  <2>4. b[g] = b[q] + 1
    <3>1. b[g] = b[q] + Black(T, g) + 0
      BY <1>3, <1>10, <2>3
    <3>. QED  BY <2>1, <2>2, <3>1
  <2>5. ASSUME NEW r \in R!Sides
        PROVE  b[q] = b[T.kid[r][q]] /\ T.kid[r][q] \in L \cup {Sentinel}
               /\ (T.kid[r][q] # g => h[T.kid[r][q]] = b[T.kid[r][q]])
    <3>1. b[q] = b[T.kid[r][q]] + Black(T, q) + 0
      BY <1>3, <1>10
    <3>2. T.kid[r][q] \in L \cup {Sentinel} /\ T.kid[r][q] # q
      BY <1>3, <1>8
    <3>3. b[T.kid[r][q]] \in Nat
      BY <1>10, <3>2
    <3>. QED  BY <1>12, <2>2, <3>1, <3>2, <3>3
  <2>6. CASE c = g
    <3>1. CASE t = u
      <4>1. U.kid[t][c] = T.kid[u][g] /\ T.kid[u][g] \in L \cup {Sentinel}
            /\ T.kid[u][g] # g /\ T.kid[u][g] # q
        BY <1>3, <1>6, <1>8, <1>9, <2>6, <3>1
      <4>2. h[U.kid[t][c]] = b[T.kid[u][g]] /\ b[T.kid[u][g]] \in Nat
        BY <1>10, <1>12, <4>1
      <4>3. b[g] = b[T.kid[u][g]] + Black(T, g) + (IF g = p /\ u = s THEN 1 ELSE 0)
        BY <1>3, <1>10
      <4>. QED  BY <2>1, <2>2, <2>4, <2>6, <3>1, <4>2, <4>3
    <3>2. CASE t = o
      <4>1. U.kid[t][c] = T.kid[u][q]
        BY <1>6, <2>6, <3>2
      <4>2. h[U.kid[t][c]] = b[q]
        BY <1>3, <1>9, <2>5, <4>1
      <4>. QED  BY <2>1, <2>2, <2>3, <2>6, <3>2, <4>2
    <3>. QED  BY <1>3, <3>1, <3>2
  <2>7. CASE c = q
    <3>1. h[U.kid[t][c]] = b[q]
      <4>1. CASE t = u
        BY <1>6, <2>1, <2>7, <4>1
      <4>2. CASE t = o
        <5>1. U.kid[t][c] = T.kid[o][q]
          BY <1>6, <2>7, <4>2
        <5>. QED  BY <1>3, <1>9, <2>5, <5>1
      <4>. QED  BY <1>3, <4>1, <4>2
    <3>. QED  BY <2>1, <2>2, <2>4, <2>7, <3>1
  <2>8. CASE c # g /\ c # q
    <3> DEFINE d == T.kid[t][c]
    <3>1. d \in L \cup {Sentinel} /\ d # q /\ U.kid[t][c] = IF d = g THEN q ELSE d
      BY <1>7, <1>8, <2>8
    <3>2. b[c] = b[d] + Black(T, c) + (IF c = p /\ t = s THEN 1 ELSE 0)
      BY <1>10
    <3> HIDE DEF d
    <3>3. h[U.kid[t][c]] = b[d] /\ h[c] = b[c]
      BY <1>3, <1>12, <2>8, <3>1
    <3>4. Black(U, c) = Black(T, c)
      BY <1>6, <2>8 DEF Black
    <3>. QED  BY <3>2, <3>3, <3>4
  <2>. QED  BY <2>6, <2>7, <2>8
<1>14. Heights(U, L, h, p, s)
  BY <1>12, <1>13 DEF Heights
<1>15. Calm(U, L)
  <2> SUFFICES ASSUME NEW c \in L, NEW t \in R!Sides, c \in U.red, U.kid[t][c] \in U.red
               PROVE  FALSE
    BY DEF Calm
  <2>1. \A r \in R!Sides : T.kid[r][q] \notin T.red
    BY <1>3, <1>11 DEF Calm
  <2>2. CASE c = g
    <3>1. U.kid[t][c] \in {T.kid[u][g], T.kid[u][q]}
      BY <1>3, <1>6, <2>2
    <3>. QED  BY <1>3, <1>6, <1>8, <1>9, <2>1, <3>1
  <2>3. CASE c # g
    <3>1. c # q /\ c \in T.red
      BY <1>3, <1>6, <2>3
    <3>2. T.kid[t][c] # q /\ U.kid[t][c] = IF T.kid[t][c] = g THEN q ELSE T.kid[t][c]
      BY <1>7, <2>3, <3>1
    <3>3. T.kid[t][c] \notin T.red
      BY <1>11, <3>1 DEF Calm
    <3>. QED  BY <1>3, <1>6, <3>2, <3>3
  <2>. QED  BY <2>2, <2>3
<1>16. Outside(U, L)
  <2>1. Sentinel \notin U.red
    BY <1>3, <1>6, <1>10, <1>11 DEF Outside
  <2>2. ASSUME NEW c \in R!Cells, NEW t \in R!Sides, c \notin L
        PROVE  U.kid[t][c] = NULL
    BY <1>6, <1>11, <2>2 DEF Outside
  <2>. QED  BY <2>1, <2>2 DEF Outside
<1>17. U.root \notin U.red
  BY <1>3, <1>6, <1>11
<1>. QED  BY <1>6, <1>11, <1>14, <1>15, <1>16, <1>17 DEF Holed

\* Rotating the red sibling away.
LEMMA RedSibling ==
    ASSUME R!RBTreeAssumption, NEW T, NEW L, NEW p, NEW s, NEW o, NEW x, NEW w,
           Lacks(T, L, p, s, o, x, w)
    PROVE  LET U == R!BlackSibling(T, s, x)
           IN  /\ Lacks(U, L, p, s, o, x, U.kid[o][p]) /\ U.kid[o][p] \notin U.red
               /\ U = T \/ p \in U.red
<1>1. PICK B : Shape(T, L, B)
  BY DEF Lacks, Holed
<1>2. PICK b : Heights(T, L, b, p, s)
  BY DEF Lacks, Holed
<1>3. Heavy(T, L, p, s, o, x, w, b)
  BY <1>2, Sibling
<1>4. /\ s \in R!Sides /\ o \in R!Sides /\ s # o /\ o = R!Other(s) /\ s = R!Other(o)
      /\ \A t \in R!Sides : t \in {s, o}
      /\ T.kid[s][p] = x /\ T.par[x] = p /\ x \notin T.red /\ T.kid[o][p] = w
      /\ p \in L /\ Holed(T, L, p, s)
  BY DEF Lacks, Holed
<1>5. x \in L \cup {Sentinel} /\ w \in L /\ x # w /\ x # p /\ w # p /\ T.par[w] = p
  BY <1>3 DEF Heavy
<1>6. CASE w \notin T.red
  <2>1. R!BlackSibling(T, s, x) = T
    BY <1>4, <1>6, Zenon DEF R!BlackSibling
  <2>. QED  BY <1>4, <1>6, <2>1
<1>7. CASE w \in T.red
  <2> DEFINE V == R!Redden(R!Blacken(T, w), p)
             U == R!Rotate(V, s, p)
  <2>1. R!BlackSibling(T, s, x) = U
    BY <1>4, <1>7, Zenon DEF R!BlackSibling
  <2>2. T \in R!Memory /\ w \in R!Cells /\ p \in R!Cells /\ x \in R!Cells /\ Sentinel \in R!Cells
    BY <1>1, <1>4, <1>5 DEF Shape, R!Cells
  <2>3. Recolored(T, V, (T.red \ {w}) \cup {p})
    BY <2>2, RecolorTwice
  <2> HIDE DEF V
  <2>4. Shape(V, L, B) /\ V.kid = T.kid /\ V.par = T.par
    BY <1>1, <2>3, RecolorShape DEF Recolored
  <2>5. w = V.kid[R!Other(s)][p]
    BY <1>4, <2>4
  <2>6. Swung(V, U, L, s, p, w)
    BY <1>4, <1>5, <2>4, <2>5, RotateSwings
  <2> HIDE DEF U
  <2>7. p \notin T.red
    BY <1>4, <1>7 DEF Holed, Calm
  <2>8. Reddened(T, V, U, L, s, p, w)
    BY <1>4, <1>5, <1>7, <2>3, <2>6, <2>7 DEF Reddened
  <2>9. Holed(U, L, p, s)
    BY <1>4, <1>5, <2>8, TurnRed
  <2>10. /\ U.red = (T.red \ {w}) \cup {p} /\ U.kid[s][p] = x /\ U.kid[o][p] = T.kid[s][w]
         /\ \A c \in R!Cells : c # p /\ c # w /\ (c = Sentinel \/ c # T.kid[s][w])
                               => U.par[c] = T.par[c]
    BY <1>4, <2>3, <2>4, <2>6 DEF Swung, Recolored
  <2>11. x = Sentinel \/ x # T.kid[s][w]
    <3>1. T.kid[s][w] \in L => T.par[T.kid[s][w]] = w
      BY <1>1, <1>4, <1>5, Below DEF Sits
    <3>. QED  BY <1>4, <1>5, <3>1
  <2>12. U.par[x] = p
    BY <1>4, <1>5, <2>2, <2>10, <2>11
  <2>13. T.kid[s][w] \notin T.red /\ T.kid[s][w] # p
    <3>1. T.kid[s][w] \notin T.red
      BY <1>4, <1>5, <1>7 DEF Holed, Calm
    <3>2. T.kid[s][w] # p
      <4>1. B[w] \subseteq B[p] \ {p} /\ p \in B[p]
        BY <1>1, <1>4, Below, BelowItself DEF Sits
      <4>2. B[T.kid[s][w]] \subseteq B[w]
        BY <1>1, <1>4, <1>5, Below DEF Sits
      <4>. QED  BY <4>1, <4>2
    <3>. QED  BY <3>1, <3>2
  <2>14. Lacks(U, L, p, s, o, x, U.kid[o][p])
    BY <1>4, <1>5, <2>9, <2>10, <2>12 DEF Lacks
  <2>. QED  BY <2>1, <2>10, <2>13, <2>14
<1>. QED  BY <1>6, <1>7

\* With a black sibling whose children are black, the sibling turns red and the
\* black node is missing one level further up.
LEMMA LevelUp ==
    ASSUME R!RBTreeAssumption, NEW T, NEW L, NEW p, NEW s, NEW o, NEW x, NEW w,
           Lacks(T, L, p, s, o, x, w), w \notin T.red,
           T.kid[s][w] \notin T.red, T.kid[o][w] \notin T.red,
           NEW U, Recolored(T, U, T.red \cup {w})
    PROVE  Wanting(U, L, p) /\ Outside(U, L) /\ w \in L
<1>1. PICK B : Shape(T, L, B)
  BY DEF Lacks, Holed
<1>2. PICK b : Heights(T, L, b, p, s)
  BY DEF Lacks, Holed
<1>3. Heavy(T, L, p, s, o, x, w, b)
  BY <1>2, Sibling
<1>4. /\ s \in R!Sides /\ o \in R!Sides /\ s # o
      /\ \A t \in R!Sides : t \in {s, o}
      /\ T.kid[s][p] = x /\ T.par[x] = p /\ x \notin T.red /\ T.kid[o][p] = w
      /\ p \in L /\ Calm(T, L) /\ Outside(T, L) /\ T.root \notin T.red
  BY DEF Lacks, Holed
<1>5. /\ x \in L \cup {Sentinel} /\ w \in L /\ x # w /\ x # p /\ w # p /\ T.par[w] = p
      /\ w # T.root
      /\ b[w] = b[x] + 1 /\ b[x] \in Nat
      /\ b[p] = b[w] + Black(T, p)
      /\ b[w] = b[T.kid[s][w]] + Black(T, w)
      /\ b[w] = b[T.kid[o][w]] + Black(T, w)
  BY <1>3 DEF Heavy
<1>6. /\ U.red = T.red \cup {w} /\ U.kid = T.kid /\ U.root = T.root /\ U.par = T.par
  BY DEF Recolored
<1>7. Shape(U, L, B)
  BY <1>1, RecolorShape
<1>8. /\ b \in [L \cup {Sentinel} -> Nat] /\ b[Sentinel] = 0 /\ Sentinel \notin L
      /\ T.root \in L \cup {Sentinel}
      /\ \A c \in L, t \in R!Sides :
           b[c] = b[T.kid[t][c]] + Black(T, c) + (IF c = p /\ t = s THEN 1 ELSE 0)
  BY <1>1, <1>2 DEF Heights, Shape, R!RBTreeAssumption
<1>9. ASSUME NEW c \in L, NEW t \in R!Sides
      PROVE  T.kid[t][c] \in L \cup {Sentinel} /\ T.kid[t][c] # c
             /\ (T.kid[t][c] \in L => T.par[T.kid[t][c]] = c)
  BY <1>1, Below DEF Sits
<1>10. Lone(U, L, p)
  <2> SUFFICES ASSUME NEW c \in L, NEW t \in R!Sides, c \in U.red, T.kid[t][c] \in U.red
               PROVE  p \in {c, T.kid[t][c]}
    BY <1>6 DEF Lone
  <2>1. CASE c = w
    <3>1. T.kid[t][w] \notin T.red /\ T.kid[t][w] # w
      BY <1>4, <1>5, <1>9
    <3>. QED  BY <1>6, <2>1, <3>1
  <2>2. CASE c # w
    <3>1. T.kid[t][c] = w
      BY <1>4, <1>6, <2>2 DEF Calm
    <3>. QED  BY <1>5, <1>9, <3>1
  <2>. QED  BY <2>1, <2>2
<1>11. Outside(U, L) /\ U.root \notin U.red
  <2>1. Sentinel \notin U.red
    BY <1>4, <1>5, <1>6, <1>8 DEF Outside
  <2>2. U.root \notin U.red
    BY <1>4, <1>5, <1>6
  <2>. QED  BY <1>4, <1>6, <2>1, <2>2 DEF Outside
<1> DEFINE h == [c \in L \cup {Sentinel} |-> IF c = w \/ c = p THEN b[c] - 1 ELSE b[c]]
<1>12. b[w] \in Nat \ {0} /\ b[p] \in Nat \ {0} /\ b[p] \in Nat /\ b[w] \in Nat
  <2>1. Black(T, p) \in Nat
    BY DEF Black
  <2>. QED  BY <1>5, <2>1
<1>13. h \in [L \cup {Sentinel} -> Nat] /\ h[Sentinel] = 0
       /\ \A c \in L \cup {Sentinel} : h[c] = IF c = w \/ c = p THEN b[c] - 1 ELSE b[c]
  <2>1. ASSUME NEW c \in L \cup {Sentinel}
        PROVE  (IF c = w \/ c = p THEN b[c] - 1 ELSE b[c]) \in Nat
    BY <1>8, <1>12
  <2>. QED  BY <1>4, <1>5, <1>8, <2>1
<1> HIDE DEF h
<1>14. ASSUME NEW c \in L, NEW t \in R!Sides
       PROVE  h[c] = h[U.kid[t][c]] + Black(U, c) + (IF T.kid[t][c] = p THEN 1 ELSE 0)
  <2> DEFINE d == T.kid[t][c]
  <2>1. d \in L \cup {Sentinel} /\ d # c /\ (d \in L => T.par[d] = c)
    BY <1>9
  <2>2. b[d] \in Nat /\ b[c] \in Nat
    BY <1>8, <2>1
  <2>3. b[c] = b[d] + Black(T, c) + (IF c = p /\ t = s THEN 1 ELSE 0)
    BY <1>8
  <2>4. CASE c = w
    <3>1. d # p
      <4>1. p \in B[p] /\ B[w] \subseteq B[p] \ {p}
        BY <1>1, <1>4, Below, BelowItself DEF Sits
      <4>2. B[d] \subseteq B[w]
        BY <1>1, <2>4, Below DEF Sits
      <4>. QED  BY <1>1, <1>4, <4>1, <4>2, BelowItself
    <3> HIDE DEF d
    <3>2. h[d] = b[d] /\ h[w] = b[w] - 1
      BY <1>5, <1>13, <2>1, <2>4, <3>1
    <3>3. Black(T, w) = 1 /\ Black(U, w) = 0
      BY <1>6 DEF Black
    <3>4. h[c] = h[d] + Black(U, c) + (IF d = p THEN 1 ELSE 0)
      BY <1>5, <2>2, <2>3, <2>4, <3>1, <3>2, <3>3
    <3>. QED  BY <1>6, <3>4 DEF d
  <2>5. CASE c = p
    <3>1. Black(U, p) = Black(T, p) /\ Black(T, p) \in Nat
      BY <1>5, <1>6 DEF Black
    <3>2. h[p] = b[p] - 1
      BY <1>4, <1>13
    <3>3. CASE t = s
      <4>1. d = x /\ h[x] = b[x]
        BY <1>4, <1>5, <1>13, <2>5, <3>3
      <4> HIDE DEF d
      <4>2. h[c] = h[d] + Black(U, c) + (IF d = p THEN 1 ELSE 0)
        BY <1>5, <2>2, <2>3, <2>5, <3>1, <3>2, <3>3, <4>1
      <4>. QED  BY <1>6, <4>2 DEF d
    <3>4. CASE t = o
      <4>1. d = w /\ h[w] = b[w] - 1
        BY <1>4, <1>5, <1>13, <2>5, <3>4
      <4> HIDE DEF d
      <4>2. h[c] = h[d] + Black(U, c) + (IF d = p THEN 1 ELSE 0)
        BY <1>5, <1>12, <2>5, <3>1, <3>2, <4>1
      <4>. QED  BY <1>6, <4>2 DEF d
    <3>. QED  BY <1>4, <3>3, <3>4
  <2>6. CASE c # w /\ c # p
    <3>1. d # w
      BY <1>5, <2>1, <2>6
    <3> HIDE DEF d
    <3>2. h[d] = (IF d = p THEN b[d] - 1 ELSE b[d]) /\ h[c] = b[c]
      BY <1>13, <2>1, <2>6, <3>1
    <3>3. Black(U, c) = Black(T, c) /\ Black(T, c) \in Nat
      BY <1>6, <2>6 DEF Black
    <3>4. h[c] = h[d] + Black(U, c) + (IF d = p THEN 1 ELSE 0)
      BY <1>12, <2>2, <2>3, <2>6, <3>2, <3>3
    <3>. QED  BY <1>6, <3>4 DEF d
  <2>. QED  BY <2>4, <2>5, <2>6
<1>15. IF p = U.root THEN \E g : Full(U, L, g) ELSE \E q, r : Hole(U, L, q, r, p)
  <2>1. CASE p = U.root
    <3>1. ASSUME NEW c \in L, NEW t \in R!Sides
          PROVE  h[c] = h[U.kid[t][c]] + Black(U, c)
      <4>1. T.kid[t][c] # p
        BY <1>1, <1>6, <2>1, RootNoKid
      <4>2. h[U.kid[t][c]] \in Nat /\ Black(U, c) \in Nat
        BY <1>6, <1>9, <1>13 DEF Black
      <4>. QED  BY <1>14, <4>1, <4>2
    <3>2. Full(U, L, h)
      BY <1>13, <3>1 DEF Full
    <3>. QED  BY <2>1, <3>2
  <2>2. CASE p # U.root
    <3> DEFINE q == T.par[p]
               r == R!SideOf(T, p)
    <3>1. q \in L /\ r \in R!Sides /\ T.kid[r][q] = p
      BY <1>1, <1>4, <1>6, <2>2, Upward
    <3>2. ASSUME NEW c \in L, NEW t \in R!Sides
          PROVE  T.kid[t][c] = p <=> c = q /\ t = r
      BY <1>1, <1>4, <1>6, <2>2, ParentOf
    <3>3. q = U.par[p]
      BY <1>6
    <3> HIDE DEF q, r
    <3>4. Heights(U, L, h, q, r)
      BY <1>13, <1>14, <3>2 DEF Heights
    <3>5. Hole(U, L, q, r, p)
      BY <1>6, <3>1, <3>3, <3>4 DEF Hole
    <3>. QED  BY <2>2, <3>5
  <2>. QED  BY <2>1, <2>2
<1>16. Wanting(U, L, p)
  BY <1>4, <1>7, <1>10, <1>11, <1>15 DEF Wanting, Outside
<1>. QED  BY <1>5, <1>11, <1>16

\* With a red child of the black sibling, the outer one is red after one turn.
LEMMA FarSide ==
    ASSUME R!RBTreeAssumption, NEW T, NEW L, NEW p, NEW s, NEW o, NEW x, NEW w,
           Lacks(T, L, p, s, o, x, w), w \notin T.red,
           T.kid[s][w] \in T.red \/ T.kid[o][w] \in T.red
    PROVE  LET U == R!FarRed(T, s, w)
               v == U.kid[o][p]
           IN  Lacks(U, L, p, s, o, x, v) /\ v \notin U.red /\ U.kid[o][v] \in U.red
<1>1. PICK B : Shape(T, L, B)
  BY DEF Lacks, Holed
<1>2. PICK b : Heights(T, L, b, p, s)
  BY DEF Lacks, Holed
<1>3. Heavy(T, L, p, s, o, x, w, b)
  BY <1>2, Sibling
<1>4. /\ s \in R!Sides /\ o \in R!Sides /\ s # o /\ o = R!Other(s) /\ s = R!Other(o)
      /\ \A t \in R!Sides : t \in {s, o}
      /\ T.kid[s][p] = x /\ T.par[x] = p /\ x \notin T.red /\ T.kid[o][p] = w
      /\ p \in L /\ Holed(T, L, p, s)
  BY DEF Lacks, Holed
<1>5. x \in L \cup {Sentinel} /\ w \in L /\ x # w /\ x # p /\ w # p /\ T.par[w] = p
  BY <1>3 DEF Heavy
<1>6. CASE T.kid[o][w] \in T.red
  <2>1. R!FarRed(T, s, w) = T
    BY <1>4, <1>6, Zenon DEF R!FarRed
  <2>. QED  BY <1>4, <1>6, <2>1
<1>7. CASE T.kid[o][w] \notin T.red
  <2> DEFINE k == T.kid[s][w]
             V == R!Redden(R!Blacken(T, k), w)
             U == R!Rotate(V, o, w)
  <2>1. R!FarRed(T, s, w) = U
    BY <1>4, <1>7, Zenon DEF R!FarRed
  <2>2. k \in T.red /\ k \in L \cup {Sentinel} /\ k # w /\ (k \in L => T.par[k] = w)
    BY <1>1, <1>4, <1>5, <1>7, Below DEF Sits
  <2>3. k \in L
    BY <1>4, <2>2 DEF Holed, Outside
  <2>4. T \in R!Memory /\ w \in R!Cells /\ k \in R!Cells /\ p \in R!Cells /\ x \in R!Cells /\ Sentinel \in R!Cells
    BY <1>1, <1>4, <1>5, <2>3 DEF Shape, R!Cells
  <2>0. k = T.kid[R!Other(o)][w] /\ T.kid[s][w] = k
    BY <1>4
  <2> HIDE DEF k
  <2>5. Recolored(T, V, (T.red \ {k}) \cup {w})
    BY <2>4, RecolorTwice
  <2> HIDE DEF V
  <2>6. Shape(V, L, B) /\ V.kid = T.kid /\ V.par = T.par
    BY <1>1, <2>5, RecolorShape DEF Recolored
  <2>7. k = V.kid[R!Other(o)][w]
    BY <2>0, <2>6
  <2>8. Swung(V, U, L, o, w, k)
    BY <1>4, <1>5, <2>3, <2>6, <2>7, RotateSwings
  <2> HIDE DEF U
  <2>9. Reddened(T, V, U, L, o, w, k)
    BY <1>4, <1>5, <1>7, <2>0, <2>2, <2>3, <2>5, <2>8 DEF Reddened
  <2>10. p # k
    <3>1. p \in B[p] /\ B[w] \subseteq B[p] \ {p}
      BY <1>1, <1>4, Below, BelowItself DEF Sits
    <3>2. B[k] \subseteq B[w] /\ k \in B[k]
      BY <1>1, <1>4, <1>5, <2>0, <2>3, Below, BelowItself DEF Sits
    <3>. QED  BY <3>1, <3>2
  <2>11. Holed(U, L, p, s)
    BY <1>4, <1>5, <2>9, <2>10, TurnRed
  <2>12. /\ U.red = (T.red \ {k}) \cup {w} /\ U.kid[o][k] = w
         /\ U.kid[s][p] = x /\ U.kid[o][p] = k
    <3>1. U.red = (T.red \ {k}) \cup {w} /\ U.kid[o][k] = w
      BY <2>5, <2>8 DEF Swung, Recolored
    <3>2. \A t \in R!Sides : U.kid[t][p] = IF T.kid[t][p] = w THEN k ELSE T.kid[t][p]
      BY <1>4, <1>5, <2>6, <2>8, <2>10 DEF Swung
    <3>. QED  BY <1>4, <1>5, <3>1, <3>2
  <2>13. U.par[x] = p
    <3>1. x # k
      BY <1>4, <2>2
    <3>2. x = Sentinel \/ x # T.kid[o][k]
      <4>1. T.kid[o][k] \in L => T.par[T.kid[o][k]] = k
        BY <1>1, <1>4, <2>3, Below DEF Sits
      <4>. QED  BY <1>4, <1>5, <2>10, <4>1
    <3>3. \A c \in R!Cells : c # w /\ c # k /\ (c = Sentinel \/ c # T.kid[o][k])
                             => U.par[c] = T.par[c]
      BY <2>6, <2>8 DEF Swung
    <3>. QED  BY <1>4, <1>5, <2>4, <3>1, <3>2, <3>3
  <2>14. Lacks(U, L, p, s, o, x, k) /\ k \notin U.red /\ U.kid[o][k] \in U.red
    BY <1>4, <1>5, <2>2, <2>11, <2>12, <2>13 DEF Lacks
  <2>. QED  BY <2>1, <2>12, <2>14
<1>. QED  BY <1>6, <1>7

\* The last turn of the repair; f is the red outer child of the sibling v.
LEMMA LastTurn ==
    ASSUME R!RBTreeAssumption, NEW T, NEW L, NEW p, NEW s, NEW o, NEW x, NEW v,
           Lacks(T, L, p, s, o, x, v), v \notin T.red,
           NEW f, f = T.kid[o][v], f \in T.red, NEW V,
           Recolored(T, V, ((IF p \in T.red THEN T.red \cup {v} ELSE T.red \ {v}) \ {p}) \ {f}),
           NEW U, Swung(V, U, L, s, p, v)
    PROVE  Wanting(U, L, U.root) /\ Outside(U, L)
<1>1. PICK B : Shape(T, L, B)
  BY DEF Lacks, Holed
<1>2. PICK b : Heights(T, L, b, p, s)
  BY DEF Lacks, Holed
<1>3. Heavy(T, L, p, s, o, x, v, b)
  BY <1>2, Sibling
<1>4. /\ s \in R!Sides /\ o \in R!Sides /\ s # o
      /\ \A t \in R!Sides : t \in {s, o}
      /\ T.kid[s][p] = x /\ T.par[x] = p /\ x \notin T.red /\ T.kid[o][p] = v
      /\ p \in L /\ Calm(T, L) /\ Outside(T, L) /\ T.root \notin T.red
  BY DEF Lacks, Holed
<1>0. o = R!Other(s)
  BY DEF Lacks
<1> DEFINE i == T.kid[s][v]
<1>5. /\ x \in L \cup {Sentinel} /\ v \in L /\ x # v /\ x # p /\ v # p /\ T.par[v] = p
      /\ v # T.root
      /\ b[v] = b[x] + 1 /\ b[x] \in Nat
      /\ b[p] = b[v] + Black(T, p)
      /\ b[v] = b[i] + Black(T, v)
      /\ b[v] = b[f] + Black(T, v)
  BY <1>3 DEF Heavy
<1>6. /\ V.kid = T.kid /\ V.root = T.root /\ V.par = T.par
      /\ V.red = ((IF p \in T.red THEN T.red \cup {v} ELSE T.red \ {v}) \ {p}) \ {f}
  BY DEF Recolored
<1>7. ASSUME NEW c \in L, NEW t \in R!Sides
      PROVE  T.kid[t][c] \in L \cup {Sentinel} /\ T.kid[t][c] # c
             /\ (T.kid[t][c] \in L => T.par[T.kid[t][c]] = c) /\ T.kid[t][c] # T.root
  BY <1>1, Below, RootNoKid DEF Sits
<1>8. /\ f \in L /\ f # v /\ f # p /\ T.par[f] = v
  <2>1. f \in L
    BY <1>4, <1>5, <1>7 DEF Outside
  <2>2. f # v /\ T.par[f] = v
    BY <1>4, <1>5, <1>7, <2>1
  <2>3. p \in B[p] /\ B[v] \subseteq B[p] \ {p}
    BY <1>1, <1>4, Below, BelowItself DEF Sits
  <2>4. B[f] \subseteq B[v] /\ f \in B[f]
    BY <1>1, <1>4, <1>5, <2>1, Below, BelowItself DEF Sits
  <2>. QED  BY <2>1, <2>2, <2>3, <2>4
<1>9. i \in L \cup {Sentinel} /\ i # v /\ i # f /\ i # p
  <2>1. i \in L \cup {Sentinel} /\ i # v
    BY <1>4, <1>5, <1>7
  <2>2. i # f
    <3>1. T.kid[R!Other(s)][v] # T.kid[s][v] \/ T.kid[s][v] \notin L
      BY <1>1, <1>4, <1>5, KidsDiffer
    <3>. QED  BY <1>0, <1>8, <3>1
  <2>3. i # p
    <3>1. p \in B[p] /\ B[v] \subseteq B[p] \ {p}
      BY <1>1, <1>4, Below, BelowItself DEF Sits
    <3>2. B[i] \subseteq B[v]
      BY <1>1, <1>4, <1>5, Below DEF Sits
    <3>. QED  BY <3>1, <3>2
  <2>. QED  BY <2>1, <2>2, <2>3
<1>10. /\ U \in R!Memory /\ U.red = V.red
       /\ U.root = (IF p = T.root THEN v ELSE T.root)
       /\ U.kid[s][p] = x /\ U.kid[o][p] = i
       /\ U.kid[s][v] = p /\ U.kid[o][v] = f
       /\ \A c \in R!Cells, t \in R!Sides : c \notin L => U.kid[t][c] = T.kid[t][c]
       /\ \E C : Shape(U, L, C)
  BY <1>0, <1>4, <1>6 DEF Swung
<1>11. \A c \in L, t \in R!Sides : c # p /\ c # v =>
        /\ T.kid[t][c] # v
        /\ U.kid[t][c] = IF T.kid[t][c] = p THEN v ELSE T.kid[t][c]
  BY <1>6 DEF Swung
<1>12. /\ b \in [L \cup {Sentinel} -> Nat] /\ b[Sentinel] = 0 /\ Sentinel \notin L
       /\ T.root \in L \cup {Sentinel}
       /\ \A c \in L, t \in R!Sides :
            b[c] = b[T.kid[t][c]] + Black(T, c) + (IF c = p /\ t = s THEN 1 ELSE 0)
  BY <1>1, <1>2 DEF Heights, Shape, R!RBTreeAssumption
<1> HIDE DEF i
<1>13. /\ p \notin U.red /\ f \notin U.red /\ (v \in U.red <=> p \in T.red)
       /\ \A c : c # v /\ c # p /\ c # f => (c \in U.red <=> c \in T.red)
  BY <1>5, <1>6, <1>8, <1>10
<1> DEFINE h == [c \in L \cup {Sentinel} |->
                   IF c = p THEN b[v] ELSE IF c = v THEN b[p] ELSE IF c = f THEN b[f] + 1 ELSE b[c]]
<1>14. h \in [L \cup {Sentinel} -> Nat] /\ h[Sentinel] = 0
       /\ \A c \in L \cup {Sentinel} :
            h[c] = IF c = p THEN b[v] ELSE IF c = v THEN b[p]
                   ELSE IF c = f THEN b[f] + 1 ELSE b[c]
  BY <1>4, <1>5, <1>8, <1>12
<1> HIDE DEF h
<1>15. /\ h[p] = b[v] /\ h[v] = b[p] /\ h[f] = b[f] + 1 /\ h[x] = b[x] /\ h[i] = b[i]
       /\ b[i] \in Nat /\ b[f] \in Nat /\ b[v] \in Nat /\ b[p] \in Nat
  <2>1. x # f
    BY <1>4
  <2>. QED  BY <1>4, <1>5, <1>8, <1>9, <1>12, <1>14, <2>1
<1>16. /\ Black(T, v) = 1 /\ Black(U, p) = 1 /\ Black(U, f) = 1 /\ Black(T, f) = 0
       /\ Black(U, v) = Black(T, p)
  BY <1>13 DEF Black
<1>17. b[v] = b[i] + 1 /\ b[v] = b[f] + 1
  BY <1>5, <1>15, <1>16
<1>18. ASSUME NEW c \in L, NEW t \in R!Sides
       PROVE  h[c] = h[U.kid[t][c]] + Black(U, c)
  <2>1. CASE c = p
    <3>1. U.kid[t][c] = x \/ U.kid[t][c] = i
      BY <1>4, <1>10, <2>1
    <3>. QED  BY <1>5, <1>15, <1>16, <1>17, <2>1, <3>1
  <2>2. CASE c = v
    <3>1. U.kid[t][c] = p \/ U.kid[t][c] = f
      BY <1>4, <1>10, <2>2
    <3>. QED  BY <1>5, <1>15, <1>16, <1>17, <2>2, <3>1
  <2>3. CASE c = f
    <3> DEFINE d == T.kid[t][f]
    <3>1. d \in L \cup {Sentinel} /\ d # f /\ (d \in L => T.par[d] = f) /\ d # p /\ d # v
      <4>1. d \in L \cup {Sentinel} /\ d # f /\ (d \in L => T.par[d] = f)
        BY <1>7, <1>8
      <4>2. d # v
        BY <1>5, <1>8, <4>1
      <4>3. d # p
        <5>1. p \in B[p] /\ B[v] \subseteq B[p] \ {p}
          BY <1>1, <1>4, Below, BelowItself DEF Sits
        <5>2. B[f] \subseteq B[v]
          BY <1>1, <1>4, <1>5, Below DEF Sits
        <5>3. B[d] \subseteq B[f]
          BY <1>1, <1>8, Below DEF Sits
        <5>. QED  BY <5>1, <5>2, <5>3
      <4>. QED  BY <4>1, <4>2, <4>3
    <3>2. b[f] = b[d] + Black(T, f) + 0
      BY <1>8, <1>12
    <3>3. U.kid[t][f] = d
      BY <1>8, <1>11, <3>1
    <3> HIDE DEF d
    <3>4. h[d] = b[d] /\ b[d] \in Nat
      BY <1>12, <1>14, <3>1
    <3>. QED  BY <1>15, <1>16, <2>3, <3>2, <3>3, <3>4
  <2>4. CASE c # p /\ c # v /\ c # f
    <3> DEFINE d == T.kid[t][c]
    <3>1. d \in L \cup {Sentinel} /\ d # v /\ U.kid[t][c] = IF d = p THEN v ELSE d
      BY <1>7, <1>11, <2>4
    <3>2. d # f
      BY <1>7, <1>8, <2>4
    <3>3. b[c] = b[d] + Black(T, c) + 0
      BY <1>12, <2>4
    <3> HIDE DEF d
    <3>4. h[U.kid[t][c]] = b[d] /\ h[c] = b[c] /\ b[d] \in Nat
      BY <1>5, <1>12, <1>14, <1>15, <2>4, <3>1, <3>2
    <3>5. Black(U, c) = Black(T, c) /\ Black(T, c) \in Nat
      BY <1>13, <2>4 DEF Black
    <3>. QED  BY <3>3, <3>4, <3>5
  <2>. QED  BY <2>1, <2>2, <2>3, <2>4
<1>19. Full(U, L, h)
  BY <1>14, <1>18 DEF Full
<1>20. Calm(U, L)
  <2> SUFFICES ASSUME NEW c \in L, NEW t \in R!Sides, c \in U.red, U.kid[t][c] \in U.red
               PROVE  FALSE
    BY DEF Calm
  <2>1. c # p /\ c # f
    BY <1>13
  <2>2. CASE c = v
    <3>1. U.kid[t][c] = p \/ U.kid[t][c] = f
      BY <1>4, <1>10, <2>2
    <3>. QED  BY <1>13, <3>1
  <2>3. CASE c # v
    <3>1. c \in T.red /\ T.kid[t][c] \notin T.red
      BY <1>4, <1>13, <2>1, <2>3 DEF Calm
    <3>2. U.kid[t][c] = IF T.kid[t][c] = p THEN v ELSE T.kid[t][c]
      BY <1>11, <2>1, <2>3
    <3>3. T.kid[t][c] # v
      BY <1>11, <2>1, <2>3
    <3>. QED  BY <1>13, <3>1, <3>2, <3>3
  <2>. QED  BY <2>2, <2>3
<1>21. Outside(U, L)
  <2>1. Sentinel \notin U.red
    BY <1>4, <1>5, <1>8, <1>12, <1>13 DEF Outside
  <2>2. ASSUME NEW c \in R!Cells, NEW t \in R!Sides, c \notin L
        PROVE  U.kid[t][c] = NULL
    BY <1>4, <1>10, <2>2 DEF Outside
  <2>. QED  BY <2>1, <2>2 DEF Outside
<1>22. U.root \notin U.red /\ U.root \in L \cup {Sentinel}
  BY <1>4, <1>5, <1>10, <1>12, <1>13
<1>23. Lone(U, L, U.root)
  BY <1>20 DEF Lone, Calm
<1>24. \E b1 : Full(U, L, b1)
  BY <1>19
<1>25. Sentinel \notin U.red
  BY <1>21 DEF Outside
<1>26. \E C : Shape(U, L, C)
  BY <1>10
<1>27. Wanting(U, L, U.root)
  BY <1>22, <1>23, <1>24, <1>25, <1>26 DEF Wanting
<1>. QED  BY <1>21, <1>27

\* Copying a colour and blackening two.
LEMMA RecolorLast ==
    ASSUME NEW T \in R!Memory, NEW p \in R!Cells, NEW v \in R!Cells, NEW f \in R!Cells
    PROVE  Recolored(T, R!Blacken(R!Blacken(R!CopyColor(T, v, p), p), f),
                     ((IF p \in T.red THEN T.red \cup {v} ELSE T.red \ {v}) \ {p}) \ {f})
<1> DEFINE V1 == R!CopyColor(T, v, p)
           V2 == R!Blacken(V1, p)
<1>1. Recolored(T, V1, IF p \in T.red THEN T.red \cup {v} ELSE T.red \ {v})
  <2>1. CASE p \in T.red
    <3>1. V1 = R!Redden(T, v)
      BY <2>1 DEF R!CopyColor
    <3>2. Recolored(T, R!Redden(T, v), T.red \cup {v})
      BY ReddenDoes
    <3>. QED  BY <2>1, <3>1, <3>2
  <2>2. CASE p \notin T.red
    <3>1. V1 = R!Blacken(T, v)
      BY <2>2 DEF R!CopyColor
    <3>2. Recolored(T, R!Blacken(T, v), T.red \ {v})
      BY BlackenDoes
    <3>. QED  BY <2>2, <3>1, <3>2
  <2>. QED  BY <2>1, <2>2
<1> HIDE DEF V1
<1>2. V1 \in R!Memory
  BY <1>1 DEF Recolored
<1>3. Recolored(V1, V2, V1.red \ {p})
  BY <1>2, BlackenDoes
<1> HIDE DEF V2
<1>4. V2 \in R!Memory
  BY <1>3 DEF Recolored
<1>5. Recolored(V2, R!Blacken(V2, f), V2.red \ {f})
  BY <1>4, BlackenDoes
<1>. QED  BY <1>1, <1>3, <1>5 DEF Recolored, V1, V2

\* One round of the repair: it was the last or there is less black than before.
Mended(T, L, v) ==
    /\ v.mem \in R!Memory /\ v.at \in L \cup {Sentinel} /\ v = R!At(v.mem, v.at)
    /\ Wanting(v.mem, L, v.at) /\ Outside(v.mem, L)
    /\ \/ R!DeleteDone(v.mem, v.at)
       \/ \E w \in L \ T.red : L \ v.mem.red = (L \ T.red) \ {w}

\* A round of the repair of a deletion is the last or leaves one black node
\* less in the tree.
LEMMA DeleteRound ==
    ASSUME R!RBTreeAssumption, NEW T, NEW L, NEW x, Wanting(T, L, x), Outside(T, L),
           ~R!DeleteDone(T, x)
    PROVE  Mended(T, L, R!DeleteStep(T, x))
<1> DEFINE s == R!SideOf(T, x)
           p == T.par[x]
           o == R!Other(s)
           T1 == R!BlackSibling(T, s, x)
           w == T1.kid[o][p]
<1>1. Lacks(T, L, p, s, o, x, T.kid[o][p])
  BY WantingLacks
<1> DEFINE T2 == R!FarRed(T1, s, w)
           v == T2.kid[o][p]
           V == R!Blacken(R!Blacken(R!CopyColor(T2, v, p), p), T2.kid[o][v])
           U == R!Rotate(V, s, p)
<1>2. R!DeleteStep(T, x) =
        IF {T1.kid["L"][w], T1.kid["R"][w]} \cap T1.red = {}
        THEN R!At(R!Redden(T1, w), p)
        ELSE LET T3 == R!Blacken(R!CopyColor(T2, v, p), p)
                 T4 == R!Rotate(R!Blacken(T3, T3.kid[o][v]), s, p)
             IN  R!At(T4, T4.root)
  BY DEF R!DeleteStep
<1> HIDE DEF s, p, o
<1>3. /\ s \in R!Sides /\ o \in R!Sides /\ o = R!Other(s) /\ p \in L /\ \A t \in R!Sides : t \in {s, o}
  BY <1>1 DEF Lacks, Holed
<1>4. /\ Lacks(T1, L, p, s, o, x, w) /\ w \notin T1.red
      /\ T1 = T \/ p \in T1.red
  <2>1. LET Z == R!BlackSibling(T, s, x)
        IN  /\ Lacks(Z, L, p, s, o, x, Z.kid[o][p]) /\ Z.kid[o][p] \notin Z.red
            /\ Z = T \/ p \in Z.red
    BY <1>1, RedSibling
  <2>. QED  BY <2>1
<1> HIDE DEF T1, w
<1>5. PICK B : Shape(T1, L, B)
  BY <1>4 DEF Lacks, Holed
<1>6. w \in L
  <2>1. PICK b : Heights(T1, L, b, p, s)
    BY <1>4 DEF Lacks, Holed
  <2>2. Heavy(T1, L, p, s, o, x, w, b)
    BY <1>4, <2>1, Sibling
  <2>. QED  BY <2>2 DEF Heavy
<1>7. T1 \in R!Memory /\ w \in R!Cells /\ p \in R!Cells
  BY <1>3, <1>5, <1>6 DEF Shape, R!Cells
<1>8. "L" \in R!Sides /\ "R" \in R!Sides /\ {s, o} = {"L", "R"}
  BY <1>3 DEF R!Sides, R!Other
<1>9. CASE {T1.kid["L"][w], T1.kid["R"][w]} \cap T1.red = {}
  <2> DEFINE Z == R!Redden(T1, w)
  <2>1. R!DeleteStep(T, x) = R!At(Z, p)
    BY <1>2, <1>9
  <2>2. Recolored(T1, Z, T1.red \cup {w})
    BY <1>7, ReddenDoes
  <2> HIDE DEF Z
  <2>3. T1.kid[s][w] \notin T1.red /\ T1.kid[o][w] \notin T1.red
    BY <1>8, <1>9
  <2>4. Wanting(Z, L, p) /\ Outside(Z, L)
    BY <1>4, <2>2, <2>3, LevelUp
  <2>5. Z \in R!Memory /\ Z.red = T1.red \cup {w}
    BY <2>2 DEF Recolored
  <2>6. R!DeleteDone(Z, p) \/ \E y \in L \ T.red : L \ Z.red = (L \ T.red) \ {y}
    <3>1. CASE p \in T1.red
      BY <2>5, <3>1 DEF R!DeleteDone
    <3>2. CASE T1 = T
      BY <1>4, <1>6, <2>5, <3>2
    <3>. QED  BY <1>4, <3>1, <3>2
  <2>7. R!At(Z, p).mem = Z /\ R!At(Z, p).at = p
    BY DEF R!At
  <2>. QED  BY <1>3, <2>1, <2>4, <2>5, <2>6, <2>7 DEF Mended
<1>10. CASE ~({T1.kid["L"][w], T1.kid["R"][w]} \cap T1.red = {})
  <2> DEFINE f == T2.kid[o][v]
             T3 == R!Blacken(R!CopyColor(T2, v, p), p)
  <2>1. R!DeleteStep(T, x) = LET T4 == R!Rotate(R!Blacken(T3, T3.kid[o][v]), s, p)
                           IN  R!At(T4, T4.root)
    BY <1>2, <1>10
  <2>2. T1.kid[s][w] \in T1.red \/ T1.kid[o][w] \in T1.red
    BY <1>8, <1>10
  <2>3. Lacks(T2, L, p, s, o, x, v) /\ v \notin T2.red /\ f \in T2.red
    <3>1. LET Y == R!FarRed(T1, s, w)
              y == Y.kid[o][p]
          IN  Lacks(Y, L, p, s, o, x, y) /\ y \notin Y.red /\ Y.kid[o][y] \in Y.red
      BY <1>4, <2>2, FarSide
    <3>. QED  BY <3>1
  <2> HIDE DEF T2, v
  <2>4. PICK C : Shape(T2, L, C)
    BY <2>3 DEF Lacks, Holed
  <2>5. v \in L
    <3>1. PICK b : Heights(T2, L, b, p, s)
      BY <2>3 DEF Lacks, Holed
    <3>2. Heavy(T2, L, p, s, o, x, v, b)
      BY <2>3, <3>1, Sibling
    <3>. QED  BY <3>2 DEF Heavy
  <2>6. /\ T2 \in R!Memory /\ v \in R!Cells /\ p \in R!Cells /\ f \in R!Cells
        /\ T2.kid[o][p] = v
    <3>1. f \in L \cup {Sentinel}
      BY <1>3, <2>4, <2>5, Below DEF Sits
    <3>2. T2.kid[o][p] = v
      BY <2>3 DEF Lacks
    <3>. QED  BY <1>7, <2>4, <2>5, <3>1, <3>2 DEF Shape, R!Cells
  <2>7. V = R!Blacken(T3, f)
    OBVIOUS
  <2>8. Recolored(T2, V, ((IF p \in T2.red THEN T2.red \cup {v} ELSE T2.red \ {v}) \ {p}) \ {f})
    BY <2>6, RecolorLast
  <2>9. T3.kid = T2.kid
    BY DEF R!Blacken, R!CopyColor, R!Redden
  <2>10. U = R!Rotate(R!Blacken(T3, T3.kid[o][v]), s, p)
    BY <2>9
  <2>0. f = T2.kid[o][v]
    OBVIOUS
  <2> HIDE DEF V, f, T3
  <2>11. Shape(V, L, C) /\ V.kid = T2.kid
    BY <2>4, <2>8, RecolorShape DEF Recolored
  <2>12. v = V.kid[R!Other(s)][p]
    BY <1>3, <2>6, <2>11
  <2>13. Swung(V, U, L, s, p, v)
    BY <1>3, <2>5, <2>11, <2>12, RotateSwings
  <2> HIDE DEF U
  <2>14. Wanting(U, L, U.root) /\ Outside(U, L)
    BY <2>0, <2>3, <2>8, <2>13, LastTurn
  <2>15. R!DeleteStep(T, x) = R!At(U, U.root)
    BY <2>1, <2>10
  <2>16. /\ R!At(U, U.root).mem = U /\ R!At(U, U.root).at = U.root /\ U \in R!Memory
         /\ R!DeleteDone(U, U.root) /\ U.root \in L \cup {Sentinel}
    BY <2>13, <2>14 DEF R!At, Swung, R!DeleteDone, Wanting
  <2>. QED  BY <2>14, <2>15, <2>16 DEF Mended
<1>. QED  BY <1>9, <1>10

\* The loop of rbtree_delete as a function.
IsDeleteLoop(loop, T, x) ==
    loop = [k \in 0 .. R!Rounds |->
              IF k = 0 THEN R!At(T, x)
              ELSE IF R!DeleteDone(loop[k - 1].mem, loop[k - 1].at) THEN loop[k - 1]
                   ELSE R!DeleteStep(loop[k - 1].mem, loop[k - 1].at)]

DeleteLoop(T, x) == CHOOSE loop : IsDeleteLoop(loop, T, x)

\* DeleteFix, with a name for its loop.
LEMMA DeleteFixLoop ==
    ASSUME NEW T, NEW x
    PROVE  R!DeleteFix(T, x) = LET last == DeleteLoop(T, x)[R!Rounds]
                             IN  R!Blacken(last.mem, last.at)
  BY Zenon DEF R!DeleteFix, DeleteLoop, IsDeleteLoop

\* The repair ends with a tree in order.
LEMMA DeleteFixed ==
    ASSUME R!RBTreeAssumption, NEW T, NEW L, NEW x, Wanting(T, L, x), Outside(T, L)
    PROVE  Good(R!DeleteFix(T, x), L)
<1> DEFINE K == R!Rounds
           V == {v \in [mem : R!Memory, at : L \cup {Sentinel}] :
                   Wanting(v.mem, L, v.at) /\ Outside(v.mem, L)}
           Next1(v) == IF R!DeleteDone(v.mem, v.at) THEN v ELSE R!DeleteStep(v.mem, v.at)
           G == [k \in Nat |-> [v \in V |-> Next1(v)]]
           c == R!At(T, x)
           loop == DeleteLoop(T, x)
<1>0. R!DeleteFix(T, x) = R!Blacken(loop[R!Rounds].mem, loop[R!Rounds].at)
  BY DeleteFixLoop
<1>1. L \subseteq Nodes /\ IsFiniteSet(Nodes) /\ T \in R!Memory /\ x \in L \cup {Sentinel}
  BY DEF Wanting, Shape, R!RBTreeAssumption, R!IsFiniteSet, IsFiniteSet
<1>2. K \in Nat /\ K = Cardinality(Nodes)
  BY <1>1, FS_CardinalityType DEF R!Rounds, R!Cardinality, Cardinality
<1>3. ASSUME NEW v \in V
      PROVE  Next1(v) \in V
  <2>1. CASE R!DeleteDone(v.mem, v.at)
    BY <2>1
  <2>2. CASE ~R!DeleteDone(v.mem, v.at)
    <3>1. Wanting(v.mem, L, v.at) /\ Outside(v.mem, L)
      OBVIOUS
    <3> DEFINE y == R!DeleteStep(v.mem, v.at)
    <3>2. Mended(v.mem, L, y)
      BY <2>2, <3>1, DeleteRound
    <3> HIDE DEF y
    <3>3. y \in [mem : R!Memory, at : L \cup {Sentinel}]
      BY <3>2 DEF Mended, R!At
    <3>4. y \in V
      BY <3>2, <3>3 DEF Mended
    <3>. QED  BY <2>2, <3>4 DEF y
  <2>. QED  BY <2>1, <2>2
<1>4. c \in V
  BY <1>1 DEF R!At
<1> HIDE DEF V
<1>5. G \in [Nat -> [V -> V]]
  BY <1>3
<1>6. ASSUME NEW k \in 1 .. K, NEW v \in V
      PROVE  G[k - 1][v] = Next1(v)
  <2>1. k - 1 \in Nat
    BY <1>2
  <2>. QED  BY <2>1
<1> HIDE DEF G, c, loop
<1>7. IsDeleteLoop(loop, T, x)
  <2>1. PICK g : Runs(g, c, G, K, V)
    BY <1>2, <1>4, <1>5, Iterated
  <2>2. /\ g \in [0 .. K -> V] /\ g[0] = c
        /\ \A k \in 1 .. K : g[k] = G[k - 1][g[k - 1]]
    BY <2>1 DEF Runs
  <2>3. ASSUME NEW k \in 0 .. K
        PROVE  g[k] = IF k = 0 THEN R!At(T, x) ELSE Next1(g[k - 1])
    <3>1. CASE k = 0
      BY <2>2, <3>1 DEF c
    <3>2. CASE k # 0
      <4>1. k \in 1 .. K /\ k - 1 \in 0 .. K
        BY <1>2, <3>2
      <4>2. g[k - 1] \in V
        BY <2>2, <4>1
      <4>. QED  BY <1>6, <2>2, <3>2, <4>1, <4>2
    <3>. QED  BY <3>1, <3>2
  <2>4. g = [k \in 0 .. K |-> g[k]]
    BY <2>2
  <2>5. IsDeleteLoop(g, T, x)
    BY <2>3, <2>4, Zenon DEF IsDeleteLoop
  <2>. QED  BY <2>5, Zenon DEF loop, DeleteLoop
<1>8. /\ loop = [k \in 0 .. K |-> loop[k]] /\ loop[0] = c
      /\ \A k \in 1 .. K : loop[k] = Next1(loop[k - 1])
  <2>1. \A k \in 0 .. K : loop[k] = IF k = 0 THEN R!At(T, x) ELSE Next1(loop[k - 1])
    BY <1>7 DEF IsDeleteLoop
  <2>2. loop = [k \in 0 .. K |-> loop[k]]
    BY <1>7 DEF IsDeleteLoop
  <2>3. 0 \in 0 .. K /\ \A k \in 1 .. K : k \in 0 .. K /\ k # 0
    BY <1>2
  <2> HIDE DEF K
  <2>. QED  BY <2>1, <2>2, <2>3 DEF c
<1>9. Runs(loop, c, G, K, V)
  <2>1. \A k \in 1 .. K : loop[k - 1] \in V => loop[k] = G[k - 1][loop[k - 1]]
    BY <1>6, <1>8
  <2>. QED  BY <1>2, <1>4, <1>5, <1>8, <2>1, Recursion
<1>10. \A k \in 0 .. K : loop[k] \in V
  BY <1>9 DEF Runs
<1> DEFINE Blacks(v) == Cardinality(L \ v.mem.red)
           Near(v, k) == R!DeleteDone(v.mem, v.at) \/ Blacks(v) + k <= K
           S == {k \in Nat : k \in 0 .. K => Near(loop[k], k)}
<1>11. ASSUME NEW v \in V
       PROVE  /\ Blacks(v) \in 0 .. K /\ IsFiniteSet(L \ v.mem.red)
              /\ Wanting(v.mem, L, v.at) /\ Outside(v.mem, L)
              /\ R!DeleteDone(v.mem, v.at) \/ Blacks(v) # 0
  <2>1. Wanting(v.mem, L, v.at) /\ Outside(v.mem, L)
    BY DEF V
  <2>2. L \ v.mem.red \subseteq Nodes
    BY <1>1
  <2>3. IsFiniteSet(L \ v.mem.red) /\ Cardinality(L \ v.mem.red) <= Cardinality(Nodes)
    BY <1>1, <2>2, FS_Subset
  <2>4. Cardinality(L \ v.mem.red) \in Nat
    BY <2>3, FS_CardinalityType
  <2>5. ASSUME ~R!DeleteDone(v.mem, v.at)
        PROVE  Blacks(v) # 0
    <3>1. v.mem.root \in L \ v.mem.red
      <4>1. v.at # v.mem.root
        BY <2>5 DEF R!DeleteDone
      <4>2. PICK p, s : Hole(v.mem, L, p, s, v.at)
        BY <2>1, <4>1 DEF Wanting
      <4>3. PICK B : Shape(v.mem, L, B)
        BY <2>1 DEF Wanting
      <4>. QED  BY <2>1, <4>2, <4>3 DEF Wanting, Hole, Shape
    <3>. QED  BY <2>3, <3>1, FS_EmptySet
  <2>. QED  BY <1>2, <2>1, <2>3, <2>4, <2>5
<1>12. 0 \in S
  <2>1. Blacks(loop[0]) \in 0 .. K
    BY <1>4, <1>8, <1>11
  <2> HIDE DEF Blacks
  <2>. QED  BY <1>2, <2>1
<1>13. ASSUME NEW k \in Nat, k \in S
       PROVE  k + 1 \in S
  <2> SUFFICES ASSUME k + 1 \in 0 .. K
               PROVE  Near(loop[k + 1], k + 1)
    OBVIOUS
  <2>1. k \in 0 .. K /\ k + 1 \in 1 .. K /\ (k + 1) - 1 = k
    BY <1>2
  <2>2. loop[k + 1] = Next1(loop[k])
    BY <1>8, <2>1
  <2>3. loop[k] \in V /\ loop[k + 1] \in V
    BY <1>10, <2>1
  <2>4. CASE R!DeleteDone(loop[k].mem, loop[k].at)
    BY <2>2, <2>4
  <2>5. CASE ~R!DeleteDone(loop[k].mem, loop[k].at)
    <3>1. Blacks(loop[k]) + k <= K
      BY <1>13, <2>1, <2>5
    <3> DEFINE v == loop[k]
               u == loop[k + 1]
    <3>2. u = R!DeleteStep(v.mem, v.at)
      BY <2>2, <2>5
    <3> HIDE DEF v, u
    <3>3. Wanting(v.mem, L, v.at) /\ Outside(v.mem, L) /\ IsFiniteSet(L \ v.mem.red)
          /\ Blacks(v) \in 0 .. K
      BY <1>11, <2>3 DEF v
    <3>4. Mended(v.mem, L, u)
      BY <2>5, <3>2, <3>3, DeleteRound DEF v
    <3>5. R!DeleteDone(u.mem, u.at) \/ Blacks(u) = Blacks(v) - 1
      <4> SUFFICES ASSUME ~R!DeleteDone(u.mem, u.at)
                   PROVE  Blacks(u) = Blacks(v) - 1
        OBVIOUS
      <4>1. PICK w \in L \ v.mem.red : L \ u.mem.red = (L \ v.mem.red) \ {w}
        BY <3>4 DEF Mended
      <4>2. Cardinality((L \ v.mem.red) \ {w}) = Cardinality(L \ v.mem.red) - 1
        BY <3>3, FS_RemoveElement
      <4>. QED  BY <4>1, <4>2
    <3>6. Blacks(v) + k <= K
      BY <3>1 DEF v
    <3> HIDE DEF Blacks
    <3>7. R!DeleteDone(u.mem, u.at) \/ Blacks(u) + (k + 1) <= K
      BY <1>2, <3>3, <3>5, <3>6
    <3>. QED  BY <3>7 DEF u
  <2>. QED  BY <2>4, <2>5
<1>14. K \in S
  <2>1. Nat \subseteq S
    <3> HIDE DEF S
    <3>. QED  BY <1>12, <1>13, Induction
  <2>. QED  BY <1>2, <2>1
<1>15. /\ R!DeleteDone(loop[K].mem, loop[K].at)
       /\ Wanting(loop[K].mem, L, loop[K].at) /\ Outside(loop[K].mem, L)
  <2>1. K \in 0 .. K
    BY <1>2
  <2>2. Near(loop[K], K) /\ loop[K] \in V
    BY <1>10, <1>14, <2>1
  <2>3. /\ Blacks(loop[K]) \in 0 .. K
        /\ Wanting(loop[K].mem, L, loop[K].at) /\ Outside(loop[K].mem, L)
        /\ R!DeleteDone(loop[K].mem, loop[K].at) \/ Blacks(loop[K]) # 0
    BY <1>11, <2>2
  <2> HIDE DEF Blacks
  <2>. QED  BY <1>2, <2>2, <2>3
<1>16. Good(R!Blacken(loop[K].mem, loop[K].at), L)
  BY <1>15, LastBlack
<1>. QED  BY <1>0, <1>16

\* The root n leaves a tree in which it has the child x only.
RootCut(T, U, n, x) ==
    /\ U \in R!Memory /\ U.root = x /\ U.red = T.red \ {x}
    /\ \A c \in R!Cells : c # n => U.par[c] = T.par[c]
    /\ \A t \in R!Sides, c \in R!Cells : U.kid[t][c] = IF c = n THEN NULL ELSE T.kid[t][c]

\* The assignments of rbtree_delete for the root.
LEMMA RootCutDoes ==
    ASSUME NEW T \in R!Memory, NEW n \in R!Cells, NEW x \in R!Cells
    PROVE  RootCut(T, R!ClearNode(R!Blacken([T EXCEPT !.root = x], x), n), n, x)
<1> DEFINE T1 == [T EXCEPT !.root = x]
           T2 == R!Blacken(T1, x)
           T3 == R!ClearNode(T2, n)
<1>1. RootSet(T, T1, x)
  BY RootDoes
<1> HIDE DEF T1
<1>2. T1 \in R!Memory
  BY <1>1 DEF RootSet
<1>3. Recolored(T1, T2, T1.red \ {x})
  BY <1>2, BlackenDoes
<1> HIDE DEF T2
<1>4. T2 \in R!Memory
  BY <1>3 DEF Recolored
<1>5. Cleared(T2, T3, n)
  BY <1>4, ClearNodeDoes
<1> HIDE DEF T3
<1>6. RootCut(T, T3, n, x)
  BY <1>1, <1>3, <1>5 DEF RootSet, Recolored, Cleared, RootCut
<1>. QED  BY <1>6 DEF T3, T2, T1

\* The root n has no child but x, on side s.
OneBelow(T, n, s, x) == n = T.root /\ x = T.kid[s][n] /\ T.kid[R!Other(s)][n] = Sentinel

\* What the root leaves is in order.
LEMMA RootCutGood ==
    ASSUME R!RBTreeAssumption, NEW T, NEW L, Good(T, L), NEW n \in L, NEW s \in R!Sides,
           NEW x, OneBelow(T, n, s, x), NEW U, RootCut(T, U, n, x)
    PROVE  Good(U, L \ {n})
<1> DEFINE M == L \ {n}
<1>1. PICK B : Shape(T, L, B)
  BY DEF Good
<1>2. PICK b : Full(T, L, b)
  BY <1>1, NoHole DEF Good
<1>3. Calm(T, L) /\ Outside(T, L)
  BY <1>1, CalmApart DEF Good
<1>4. /\ B \in [L \cup {Sentinel} -> SUBSET L] /\ B[Sentinel] = {} /\ B[n] = L
      /\ L \subseteq Nodes /\ Sentinel \notin L /\ L \subseteq R!Cells /\ Sentinel \in R!Cells
  <2>1. /\ B \in [L \cup {Sentinel} -> SUBSET L] /\ B[Sentinel] = {} /\ B[n] = L
        /\ L \subseteq Nodes
    BY <1>1 DEF Shape, OneBelow
  <2>2. Sentinel \notin Nodes /\ Nodes \subseteq R!Cells /\ Sentinel \in R!Cells
    BY DEF R!RBTreeAssumption, R!Cells
  <2>. QED  BY <2>1, <2>2
<1>5. Sits(T, L, B, n, s, x) /\ T.kid[R!Other(s)][n] = Sentinel
  BY <1>1, Below DEF OneBelow
<1>6. x \in L \cup {Sentinel} /\ x # n /\ B[x] = M /\ (x \in L => T.par[x] = n)
  <2>1. /\ x \in L \cup {Sentinel} /\ x # n /\ (x \in L => T.par[x] = n)
        /\ B[n] = {n} \cup B[x] \cup B[T.kid[R!Other(s)][n]] /\ B[x] \subseteq B[n] \ {n}
    BY <1>5 DEF Sits
  <2>2. B[T.kid[R!Other(s)][n]] = {}
    BY <1>4, <1>5
  <2>3. B[x] = M
    BY <1>4, <2>1, <2>2
  <2>. QED  BY <2>1, <2>3, Zenon
<1>7. /\ U \in R!Memory /\ U.root = x /\ U.red = T.red \ {x}
      /\ \A c \in R!Cells : c # n => U.par[c] = T.par[c]
      /\ \A t \in R!Sides, c \in R!Cells : U.kid[t][c] = IF c = n THEN NULL ELSE T.kid[t][c]
  BY DEF RootCut
<1>8. ASSUME NEW c \in M
      PROVE  B[c] \subseteq M
  <2>1. x \in L
    BY <1>4, <1>6
  <2>2. c = x \/ B[c] \subseteq B[x] \ {x}
    BY <1>1, <1>6, <2>1, Nested
  <2>. QED  BY <1>6, <2>2
<1>9. ASSUME NEW c \in M, NEW t \in R!Sides
      PROVE  /\ U.kid[t][c] = T.kid[t][c] /\ T.kid[t][c] \in M \cup {Sentinel}
             /\ T.kid[t][c] # x \/ x = Sentinel
  <2>1. Sits(T, L, B, c, t, T.kid[t][c]) /\ T.kid[t][c] # n
    BY <1>1, Below, RootNoKid DEF OneBelow
  <2>2. U.kid[t][c] = T.kid[t][c]
    BY <1>4, <1>7
  <2>3. T.kid[t][c] # x \/ x = Sentinel
    BY <1>6, <2>1 DEF Sits
  <2>. QED  BY <2>1, <2>2, <2>3 DEF Sits
<1> DEFINE C == [c \in M \cup {Sentinel} |-> B[c]]
<1>10. C \in [M \cup {Sentinel} -> SUBSET M] /\ \A c \in M \cup {Sentinel} : C[c] = B[c]
  BY <1>4, <1>8
<1> HIDE DEF C
<1>11. ASSUME NEW c \in M, NEW t \in R!Sides
       PROVE  Kid(U, M, C, c, t)
  <2>1. R!Other(t) \in R!Sides
    BY TwoSides
  <2>2. /\ U.kid[t][c] = T.kid[t][c] /\ T.kid[t][c] \in M \cup {Sentinel}
        /\ U.kid[R!Other(t)][c] = T.kid[R!Other(t)][c] /\ T.kid[R!Other(t)][c] \in M \cup {Sentinel}
    BY <1>9, <2>1
  <2>3. Half(L, c, t, T.kid[t][c], T.par[T.kid[t][c]], B[c], B[T.kid[t][c]], B[T.kid[R!Other(t)][c]])
    BY <1>1 DEF Shape, Kid
  <2>4. T.kid[t][c] \in M => U.par[T.kid[t][c]] = T.par[T.kid[t][c]]
    BY <1>4, <1>7
  <2> DEFINE d == T.kid[t][c]
             e == T.kid[R!Other(t)][c]
  <2>5. C[d] = B[d] /\ C[e] = B[e] /\ C[c] = B[c]
    BY <1>10, <2>2
  <2> HIDE DEF d, e
  <2>6. Half(M, c, t, d, U.par[d], C[c], C[d], C[e])
    <3>1. Half(L, c, t, d, T.par[d], B[c], B[d], B[e])
      BY <2>3 DEF d, e
    <3>2. d \in M \cup {Sentinel} /\ (d \in M => U.par[d] = T.par[d])
      BY <2>2, <2>4 DEF d
    <3>. QED  BY <2>5, <3>1, <3>2 DEF Half
  <2>7. U.kid[t][c] = d /\ U.kid[R!Other(t)][c] = e
    BY <2>2 DEF d, e
  <2>. QED  BY <2>6, <2>7 DEF Kid
<1>12. Shape(U, M, C)
  <2>1. C[Sentinel] = {} /\ U.root \in M \cup {Sentinel} /\ C[U.root] = M /\ M \subseteq Nodes
    BY <1>4, <1>6, <1>7, <1>10
  <2>2. C \in [M \cup {Sentinel} -> SUBSET M] /\ U \in R!Memory
    BY <1>7, <1>10
  <2>3. \A c \in M, t \in R!Sides : Kid(U, M, C, c, t)
    BY <1>11
  <2> HIDE DEF M
  <2>. QED  BY <2>1, <2>2, <2>3 DEF Shape
<1>13. Calm(U, M)
  BY <1>3, <1>7, <1>9 DEF Calm
<1>14. Outside(U, M)
  <2>1. ASSUME NEW c \in R!Cells, NEW t \in R!Sides, c \notin M
        PROVE  U.kid[t][c] = NULL
    BY <1>3, <1>7, <2>1 DEF Outside
  <2>. QED  BY <1>3, <1>7, <2>1 DEF Outside
<1> DEFINE h == [c \in M \cup {Sentinel} |-> IF c = x /\ c \in T.red THEN b[c] + 1 ELSE b[c]]
<1>15. Full(U, M, h)
  <2>1. /\ b \in [L \cup {Sentinel} -> Nat] /\ b[Sentinel] = 0
        /\ \A c \in L, t \in R!Sides : b[c] = b[T.kid[t][c]] + Black(T, c)
    BY <1>2 DEF Full
  <2>2. h \in [M \cup {Sentinel} -> Nat] /\ h[Sentinel] = 0
        /\ \A c \in M \cup {Sentinel} : h[c] = IF c = x /\ c \in T.red THEN b[c] + 1 ELSE b[c]
    BY <1>3, <2>1 DEF Outside
  <2> HIDE DEF h
  <2>3. ASSUME NEW c \in M, NEW t \in R!Sides
        PROVE  h[c] = h[U.kid[t][c]] + Black(U, c)
    <3> DEFINE d == T.kid[t][c]
    <3>1. U.kid[t][c] = d /\ d \in M \cup {Sentinel} /\ (d # x \/ x = Sentinel)
      BY <1>9
    <3>2. b[c] = b[d] + Black(T, c)
      BY <2>1
    <3> HIDE DEF d
    <3>3. h[d] = b[d] /\ b[d] \in Nat
      BY <1>3, <2>1, <2>2, <3>1 DEF Outside
    <3>4. h[c] = IF c = x /\ c \in T.red THEN b[c] + 1 ELSE b[c]
      BY <2>2
    <3>5. Black(T, c) = (IF c \in T.red THEN 0 ELSE 1) /\ Black(U, c) = (IF c \in U.red THEN 0 ELSE 1)
      BY DEF Black
    <3>. QED  BY <1>7, <3>1, <3>2, <3>3, <3>4, <3>5
  <2>. QED  BY <2>2, <2>3 DEF Full
<1>16. \E g : Heights(U, M, g, NULL, "L")
  BY <1>12, <1>15, NoHole
<1>17. ApartBut(U, M, NULL) /\ U.root \notin U.red
  BY <1>7, <1>12, <1>13, CalmApart
<1>. QED  BY <1>12, <1>14, <1>16, <1>17 DEF Good

\* Deleting keeps a tree in order, and takes the node from it.
LEMMA DeleteGood ==
    ASSUME R!RBTreeAssumption, NEW T, NEW L, Good(T, L), NEW n \in L
    PROVE  Good(R!DeleteNode(T, n), L \ {n})
<1> DEFINE m == R!Subst(T, n)
           x == R!OnlyKid(T, m)
           T1 == R!Unlink(T, n, m, x)
<1>1. PICK B : Shape(T, L, B)
  BY DEF Good
<1>2. Outside(T, L)
  BY DEF Good
<1>3. PICK s : Chosen(T, L, B, n, m, x, s)
  BY <1>1, <1>2, SubstFound
<1>4. R!DeleteNode(T, n) =
        IF m = T.root THEN R!ClearNode(R!Blacken([T EXCEPT !.root = x], x), n)
        ELSE IF R!NeedsFix(T, m) THEN R!DeleteFix(T1, x) ELSE T1
  BY DEF R!DeleteNode
<1> HIDE DEF m, x
<1>5. CASE m = T.root
  <2>1. /\ m = n /\ s \in R!Sides /\ x = T.kid[s][n] /\ T.kid[R!Other(s)][n] = Sentinel
    BY <1>3, <1>5 DEF Chosen
  <2>2. T \in R!Memory /\ n \in R!Cells /\ x \in R!Cells
    BY <1>1, <2>1, Below DEF Sits, Shape
  <2> DEFINE U == R!ClearNode(R!Blacken([T EXCEPT !.root = x], x), n)
  <2>3. RootCut(T, U, n, x)
    BY <2>2, RootCutDoes
  <2> HIDE DEF U
  <2>4. Good(U, L \ {n})
    <3>1. OneBelow(T, n, s, x)
      BY <1>5, <2>1 DEF OneBelow
    <3>. QED  BY <2>1, <2>3, <3>1, RootCutGood
  <2>. QED  BY <1>4, <1>5, <2>4 DEF U
<1>6. CASE m # T.root
  <2>1. TakenOut(T, T1, L, n, m, x)
    <3>1. CASE m = n
      <4>1. Chosen(T, L, B, n, n, x, s) /\ n # T.root
        BY <1>3, <1>6, <3>1
      <4>2. TakenOut(T, R!Unlink(T, n, n, x), L, n, n, x)
        BY <1>1, <4>1, UnlinkSelf
      <4>. QED  BY <3>1, <4>2
    <3>2. CASE m # n
      BY <1>1, <1>3, <3>2, UnlinkOther
    <3>. QED  BY <3>1, <3>2
  <2> HIDE DEF T1
  <2>2. Outside(T1, L \ {n})
    BY <2>1 DEF TakenOut
  <2>3. CASE m \in T.red
    <3>1. Sound(T1, L \ {n}) /\ R!DeleteNode(T, n) = T1
      BY <1>4, <1>6, <2>1, <2>3 DEF TakenOut, R!NeedsFix
    <3>2. PICK C : Shape(T1, L \ {n}, C)
      BY <3>1 DEF Sound
    <3>3. \E h : Heights(T1, L \ {n}, h, NULL, "L")
      BY <3>1, <3>2, NoHole DEF Sound
    <3>4. Good(T1, L \ {n})
      BY <2>2, <3>1, <3>2, <3>3 DEF Good, Sound
    <3>. QED  BY <3>1, <3>4
  <2>4. CASE m \notin T.red
    <3>1. Wanting(T1, L \ {n}, x) /\ R!DeleteNode(T, n) = R!DeleteFix(T1, x)
      BY <1>4, <1>6, <2>1, <2>4 DEF TakenOut, R!NeedsFix
    <3>. QED  BY <2>2, <3>1, DeleteFixed
  <2>. QED  BY <2>3, <2>4
<1>. QED  BY <1>5, <1>6

-----------------------------------------------------------------------------
(* The red-black tree: what holds after every call.                        *)

\* The inductive invariant.
InOrder == Good(tree, R!Linked)

\* rbtree_foreach visits the nodes of a tree in order.
LEMMA Visited1 ==
    ASSUME R!RBTreeAssumption, NEW T, NEW L, Good(T, L)
    PROVE  R!ForEach(T) = L /\ L \subseteq Nodes
<1>1. PICK B : Shape(T, L, B)
  BY DEF Good
<1>2. T.root \in L \cup {Sentinel} /\ L \subseteq Nodes /\ Outside(T, L)
  BY <1>1 DEF Shape, Good
<1>. QED  BY <1>1, <1>2, Visits

\* The empty tree is in order.
LEMMA EmptyGood ==
    ASSUME R!RBTreeAssumption, R!Init
    PROVE  Good(tree, {}) /\ R!Linked = {}
<1>1. /\ tree.root = Sentinel /\ tree.red = {} /\ tree \in R!Memory
      /\ \A t \in R!Sides, c \in R!Cells : tree.kid[t][c] = NULL
  BY DEF R!Init, R!Memory, R!Cells
<1>2. Shape(tree, {}, [c \in {Sentinel} |-> {}])
  BY <1>1 DEF Shape
<1>3. Full(tree, {}, [c \in {Sentinel} |-> 0])
  BY DEF Full
<1>4. \E b : Heights(tree, {}, b, NULL, "L")
  BY <1>2, <1>3, NoHole
<1>5. Good(tree, {})
  BY <1>1, <1>2, <1>4 DEF Good, ApartBut, Outside
<1>6. R!ForEach(tree) = {}
  BY <1>5, Visited1
<1>. QED  BY <1>5, <1>6 DEF R!Linked

\* An insertion or a deletion changes the linked nodes by the node it is given.
LEMMA InsertLinks ==
    ASSUME R!RBTreeAssumption, InOrder, NEW n \in Nodes \ R!Linked, R!Insert(n)
    PROVE  InOrder' /\ R!Linked' = R!Linked \cup {n}
<1> DEFINE L == R!Linked
           U == R!InsertNode(tree, n)
<1>1. Good(tree, L)
  BY DEF InOrder
<1>2. n \in Nodes /\ n \notin L
  OBVIOUS
<1> HIDE DEF L
<1>3. Good(U, L \cup {n})
  BY <1>1, <1>2, InsertGood
<1>4. R!ForEach(U) = L \cup {n}
  <2> HIDE DEF U
  <2>. QED  BY <1>3, Visited1
<1>5. tree' = U
  BY DEF R!Insert
<1> HIDE DEF U
<1>6. R!Linked' = L \cup {n}
  BY <1>4, <1>5 DEF R!Linked
<1>. QED  BY <1>3, <1>5, <1>6 DEF InOrder, L

\* Deleting a node of a tree in order leaves a tree in order without it.
LEMMA DeleteLinks ==
    ASSUME R!RBTreeAssumption, InOrder, NEW n \in R!Linked, R!Delete(n)
    PROVE  InOrder' /\ R!Linked' = R!Linked \ {n}
<1> DEFINE L == R!Linked
           U == R!DeleteNode(tree, n)
<1>1. Good(tree, L)
  BY DEF InOrder
<1>2. n \in L
  OBVIOUS
<1> HIDE DEF L
<1>3. Good(U, L \ {n})
  BY <1>1, <1>2, DeleteGood
<1>4. R!ForEach(U) = L \ {n}
  <2> HIDE DEF U
  <2>. QED  BY <1>3, Visited1
<1>5. tree' = U
  BY DEF R!Delete
<1> HIDE DEF U
<1>6. R!Linked' = L \ {n}
  BY <1>4, <1>5 DEF R!Linked
<1>. QED  BY <1>3, <1>5, <1>6 DEF InOrder, L

\* The tree is in order after every call.
LEMMA AlwaysInOrder ==
    ASSUME R!RBTreeAssumption
    PROVE  R!Spec => []InOrder
<1>1. R!Init => InOrder
  BY EmptyGood DEF InOrder
<1>2. InOrder /\ [R!Next]_tree => InOrder'
  <2>1. ASSUME InOrder, R!Next
        PROVE  InOrder'
    BY <2>1, InsertLinks, DeleteLinks DEF R!Next
  <2>2. ASSUME InOrder, UNCHANGED tree
        PROVE  InOrder'
    BY <2>2 DEF InOrder, R!Linked
  <2>. QED  BY <2>1, <2>2
<1>. QED  BY <1>1, <1>2, PTL DEF R!Spec

-----------------------------------------------------------------------------
(* The red-black tree: its rules.                                          *)

\* The black heights as the rules count them.
IsBlackHeights(f) ==
    f = [c \in R!Linked \cup {Sentinel} |->
           IF c = Sentinel THEN {0}
           ELSE {h + (IF c \in tree.red THEN 0 ELSE 1) :
                   h \in f[tree.kid["L"][c]] \cup f[tree.kid["R"][c]]}]

CountedHeights == CHOOSE f : IsBlackHeights(f)

\* BlackHeights, with a name for its function.
LEMMA BlackHeightsCounted ==
    ASSUME NEW n
    PROVE  R!BlackHeights(n) = CountedHeights[n]
  BY Zenon DEF R!BlackHeights, CountedHeights, IsBlackHeights

\* Every way down passes the same number of black nodes.
LEMMA OneHeight ==
    ASSUME R!RBTreeAssumption, InOrder
    PROVE  Cardinality(R!BlackHeights(tree.root)) = 1
<1> DEFINE L == R!Linked
           T == tree
<1>1. Good(T, L)
  BY DEF InOrder
<1>2. PICK B : Shape(T, L, B)
  BY <1>1 DEF Good
<1>3. PICK b : Full(T, L, b)
  BY <1>1, <1>2, NoHole DEF Good
<1>4. /\ b \in [L \cup {Sentinel} -> Nat] /\ b[Sentinel] = 0
      /\ \A c \in L, t \in R!Sides : b[c] = b[T.kid[t][c]] + Black(T, c)
  BY <1>3 DEF Full
<1>5. ASSUME NEW c \in L, NEW t \in R!Sides
      PROVE  T.kid[t][c] \in L \cup {Sentinel} /\ b[T.kid[t][c]] \in Nat
  BY <1>2, <1>4, Below DEF Sits
<1>6. Sentinel \notin L /\ T.root \in L \cup {Sentinel} /\ "L" \in R!Sides /\ "R" \in R!Sides
  BY <1>2 DEF Shape, R!RBTreeAssumption, R!Sides
<1> DEFINE Sums(f, c) == IF c = Sentinel THEN {0}
                         ELSE {h + (IF c \in T.red THEN 0 ELSE 1) :
                                 h \in f[T.kid["L"][c]] \cup f[T.kid["R"][c]]}
<1>7. ASSUME NEW f, NEW c \in L \cup {Sentinel},
             c \in L => \A t \in R!Sides : f[T.kid[t][c]] = {b[T.kid[t][c]]}
      PROVE  Sums(f, c) = {b[c]}
  <2>1. CASE c = Sentinel
    BY <1>4, <2>1
  <2>2. CASE c # Sentinel
    <3>1. c \in L
      BY <2>2
    <3>2. f[T.kid["L"][c]] = {b[T.kid["L"][c]]} /\ f[T.kid["R"][c]] = {b[T.kid["R"][c]]}
      BY <1>6, <1>7, <3>1
    <3>3. b[c] = b[T.kid["L"][c]] + Black(T, c) /\ b[c] = b[T.kid["R"][c]] + Black(T, c)
      BY <1>4, <1>6, <3>1
    <3>4. Sums(f, c) = {h + Black(T, c) : h \in f[T.kid["L"][c]] \cup f[T.kid["R"][c]]}
      BY <2>2 DEF Black
    <3> HIDE DEF Sums
    <3>. QED  BY <3>2, <3>3, <3>4
  <2>. QED  BY <2>1, <2>2
<1> DEFINE g == [c \in L \cup {Sentinel} |-> {b[c]}]
<1>8. \A c \in L \cup {Sentinel} : Sums(g, c) = {b[c]}
  <2>1. \A c \in L, t \in R!Sides : g[T.kid[t][c]] = {b[T.kid[t][c]]}
    BY <1>5
  <2> HIDE DEF g, Sums
  <2>. QED  BY <1>7, <2>1
<1>9. IsBlackHeights(g)
  <2>1. g = [c \in L \cup {Sentinel} |-> Sums(g, c)]
    <3> HIDE DEF Sums
    <3>. QED  BY <1>8
  <2> HIDE DEF g
  <2>. QED  BY <2>1, Zenon DEF IsBlackHeights
<1> DEFINE f == CountedHeights
<1>10. IsBlackHeights(f)
  <2> HIDE DEF g
  <2>. QED  BY <1>9, Zenon DEF CountedHeights
<1>11. \A c \in L \cup {Sentinel} : f[c] = Sums(f, c)
  <2> HIDE DEF f
  <2>. QED  BY <1>10, Zenon DEF IsBlackHeights
<1> HIDE DEF f, Sums, g
<1>12. f[Sentinel] = {b[Sentinel]}
  BY <1>6, <1>7, <1>11
<1>13. \A c \in L : f[c] = {b[c]}
  <2> DEFINE S == {c \in L : f[c] # {b[c]}}
  <2> SUFFICES ASSUME S # {}
               PROVE  FALSE
    OBVIOUS
  <2>1. S \subseteq L
    OBVIOUS
  <2>2. PICK c \in S : \A t \in R!Sides : T.kid[t][c] \notin S
    <3> HIDE DEF S, L, T
    <3>. QED  BY <1>2, <2>1, Lowest
  <2>3. \A t \in R!Sides : f[T.kid[t][c]] = {b[T.kid[t][c]]}
    BY <1>5, <1>12, <2>2
  <2>4. c \in L
    BY <2>2
  <2>5. Sums(f, c) = {b[c]} /\ f[c] = Sums(f, c)
    <3> HIDE DEF S
    <3>. QED  BY <1>7, <1>11, <2>3, <2>4
  <2>. QED  BY <2>2, <2>5
<1>14. R!BlackHeights(tree.root) = {b[tree.root]}
  BY <1>6, <1>12, <1>13, BlackHeightsCounted DEF f
<1>15. Cardinality({b[tree.root]}) = 1
  BY FS_Singleton DEF R!Cardinality, Cardinality
<1>. QED  BY <1>14, <1>15

\* What the inductive invariant says in the words of the rules.
LEMMA RulesHold ==
    ASSUME R!RBTreeAssumption, InOrder
    PROVE  R!TreeRules
<1> DEFINE L == R!Linked
           T == tree
<1>1. Good(T, L)
  BY DEF InOrder
<1>2. PICK B : Shape(T, L, B)
  BY <1>1 DEF Good
<1>3. Calm(T, L) /\ Outside(T, L)
  BY <1>1, <1>2, CalmApart DEF Good
<1>4. /\ "L" \in R!Sides /\ "R" \in R!Sides /\ \A t \in R!Sides : t = "L" \/ t = "R"
      /\ Sentinel \notin L /\ L \subseteq Nodes /\ Sentinel \in R!Cells
  BY <1>2 DEF Shape, R!RBTreeAssumption, R!Sides, R!Cells
<1>5. ASSUME NEW n \in L, NEW t \in R!Sides
      PROVE  Sits(T, L, B, n, t, T.kid[t][n])
  BY <1>2, Below
<1>6. R!TypeOK
  BY <1>2 DEF R!TypeOK, Shape
<1>7. R!Closed
  BY <1>4, <1>5 DEF R!Closed, R!Kids, Sits
<1>8. R!Ordered
  <2>1. ASSUME NEW n \in L, NEW t \in R!Sides
        PROVE  \A m \in R!Visit(T, T.kid[t][n]) : Aside(t, m, n)
    <3> DEFINE d == T.kid[t][n]
    <3>1. d \in L \cup {Sentinel} /\ \A m \in B[d] : Aside(t, m, n)
      BY <1>5 DEF Sits
    <3> HIDE DEF d, T, L
    <3>2. R!Visit(T, d) = B[d]
      BY <1>2, <1>3, <3>1, Visits
    <3>. QED  BY <3>1, <3>2 DEF d
  <2>2. ASSUME NEW n \in L
        PROVE  /\ \A m \in R!Visit(T, T.kid["L"][n]) : Key[m] <= Key[n]
               /\ \A m \in R!Visit(T, T.kid["R"][n]) : Key[n] <= Key[m]
    <3>1. \A m \in R!Visit(T, T.kid["L"][n]) : Aside("L", m, n)
      BY <1>4, <2>1
    <3>2. \A m \in R!Visit(T, T.kid["R"][n]) : Aside("R", m, n)
      BY <1>4, <2>1
    <3>. QED  BY <3>1, <3>2 DEF Aside
  <2>. QED  BY <2>2 DEF R!Ordered
<1>9. R!RedBlack
  <2>1. \A n \in L \cap T.red : R!Kids(n) \cap T.red = {}
    BY <1>3, <1>4 DEF R!Kids, Calm
  <2>2. T.root \notin T.red
    BY <1>1 DEF Good
  <2>. QED  BY <2>1, <2>2, OneHeight DEF R!RedBlack, R!Cardinality, Cardinality
<1>10. R!ParentsBack
  BY <1>4, <1>5 DEF R!ParentsBack, R!Kids, Sits
<1>11. R!SentinelIntact
  <2>1. R!Kids(Sentinel) = {NULL}
    BY <1>3, <1>4 DEF R!Kids, Outside
  <2>2. ASSUME L = {}
        PROVE  R!MinNode(T) = NULL
    <3>1. T.root = Sentinel
      BY <1>2, <2>2, EmptyTree
    <3>2. R!MinFrom(T, Sentinel) = NULL
      BY <1>2, <1>3, MinFound
    <3>. QED  BY <3>1, <3>2 DEF R!MinNode
  <2>. QED  BY <1>3, <2>1, <2>2 DEF R!SentinelIntact, Outside
<1>. QED  BY <1>6, <1>7, <1>8, <1>9, <1>10, <1>11, Zenon DEF R!TreeRules, R!TreeRules

\* Search and minimum in a tree in order.
LEMMA SearchesHold ==
    ASSUME R!RBTreeAssumption, InOrder
    PROVE  R!SearchesAgree
<1> DEFINE L == R!Linked
           T == tree
<1>1. Good(T, L)
  BY DEF InOrder
<1>2. PICK B : Shape(T, L, B)
  BY <1>1 DEF Good
<1>3. Outside(T, L) /\ L \subseteq Nodes
  BY <1>1, <1>2 DEF Good, Shape
<1>4. ASSUME NEW k \in Int
      PROVE  LET f == R!FindNode(T, k)
             IN  IF \E n \in L : Key[n] = k THEN f \in L /\ Key[f] = k ELSE f = NULL
  BY <1>2, <1>3, Found
<1>5. {Key[n] : n \in Nodes} \subseteq Int
  BY DEF R!RBTreeAssumption
<1>6. ASSUME L # {}
      PROVE  /\ R!MinNode(T) \in L
             /\ \A n \in L : Key[R!MinNode(T)] <= Key[n]
  <2>1. T.root \in L
    BY <1>2, <1>6, EmptyTree
  <2>2. Leftmost(T, L, B, T.root, R!MinFrom(T, T.root))
    BY <1>2, <1>3, <2>1, MinFound
  <2>3. B[T.root] = L
    BY <1>2 DEF Shape
  <2>. QED  BY <2>2, <2>3 DEF Leftmost, R!MinNode
<1> HIDE DEF T, L
<1>7. \A k \in {Key[n] : n \in Nodes} :
        LET f == R!FindNode(T, k)
        IN  IF \E n \in L : Key[n] = k THEN f \in L /\ Key[f] = k ELSE f = NULL
  BY <1>4, <1>5
<1>. QED  BY <1>6, <1>7, Zenon DEF R!SearchesAgree, T, L

\* After any insertions and deletions, in any order, of any nodes with any keys,
\* the rules of ez_rbtree.c hold: no way down meets NULL, the keys are in order,
\* no red node has a red child, every way down passes as many black nodes, the
\* parents lead back up and the sentinel is black and childless.
THEOREM TreeRulesKept ==
    ASSUME R!RBTreeAssumption
    PROVE  R!Spec => []TreeRules
<1>1. InOrder => TreeRules
  BY RulesHold DEF TreeRules
<1>. QED  BY <1>1, AlwaysInOrder, PTL

\* rbtree_find_node finds a node for every key in the tree and for no other, and
\* rbtree_min_node returns one with the smallest.
THEOREM SearchesRight ==
    ASSUME R!RBTreeAssumption
    PROVE  R!Spec => []SearchesAgree
<1>1. InOrder => SearchesAgree
  BY SearchesHold DEF SearchesAgree
<1>. QED  BY <1>1, AlwaysInOrder, PTL

\* To its callers the tree is the set of the nodes they linked: an insertion adds
\* and a deletion removes exactly the node it is given.
THEOREM TreeIsSet ==
    ASSUME R!RBTreeAssumption
    PROVE  R!Spec => TreeAbs
<1>1. R!Init => R!Abs!Init
  BY EmptyGood DEF R!Abs!Init
<1>2. InOrder /\ [R!Next]_tree => [R!Abs!Next]_(R!Linked)
  <2>1. ASSUME InOrder, NEW n \in Nodes \ R!Linked, R!Insert(n)
        PROVE  R!Abs!Next
    BY <2>1, InsertLinks DEF R!Abs!Next, R!Abs!Add
  <2>2. ASSUME InOrder, NEW n \in R!Linked, R!Delete(n)
        PROVE  R!Abs!Next
    <3>1. R!Linked \subseteq Nodes
      BY <2>2, Visited1 DEF InOrder, R!Linked
    <3>2. R!Linked' = R!Linked \ {n}
      BY <2>2, DeleteLinks
    <3>. QED  BY <3>1, <3>2 DEF R!Abs!Next, R!Abs!Remove
  <2>3. ASSUME UNCHANGED tree
        PROVE  UNCHANGED R!Linked
    BY <2>3 DEF R!Linked
  <2>. QED  BY <2>1, <2>2, <2>3 DEF R!Next
<1>. QED  BY <1>1, <1>2, AlwaysInOrder, PTL DEF R!Spec, TreeAbs, R!AbsSpec, R!Abs!Spec
=============================================================================
