-------------------------- MODULE FileEventsProofs --------------------------
(***************************************************************************)
(* Proofs about the registry of FileEvents, for any set of descriptors,    *)
(* any SetSize and any callers, disciplined or not, and whatever epoll_ctl *)
(* answers.                                                                *)
(***************************************************************************)
EXTENDS FileEvents, FiniteSetTheorems, TLAPS

-----------------------------------------------------------------------------
(* Looking up a descriptor.                                                *)

\* The node found is the one of the descriptor; NULL means there is none.
LEMMA FindSound ==
    \A fd : \/ /\ Find(fd) \in tree
               /\ node[Find(fd)].fd = fd
            \/ /\ Find(fd) = NoNode
               /\ \A n \in tree : node[n].fd # fd
  BY DEF Find

\* FindSound, in the state after.
LEMMA FindSoundNext ==
    (\A fd : \/ /\ Find(fd) \in tree
                /\ node[Find(fd)].fd = fd
             \/ /\ Find(fd) = NoNode
                /\ \A n \in tree : node[n].fd # fd)'
  BY FindSound, PTL

\* The mask of a descriptor is that of its node, and empty without one.
LEMMA RegMaskSound ==
    TypeOK /\ CountExact =>
        /\ \A n \in tree : RegMask(node[n].fd) = node[n].mask
        /\ \A fd : (\A n \in tree : node[n].fd # fd) => RegMask(fd) = {}
<1> SUFFICES ASSUME TypeOK, CountExact
             PROVE  /\ \A n \in tree : RegMask(node[n].fd) = node[n].mask
                    /\ \A fd : (\A n \in tree : node[n].fd # fd) => RegMask(fd) = {}
  OBVIOUS
<1>1. NoNode \notin tree
  BY FileEventsAssumption DEF TypeOK
<1>2. ASSUME NEW n \in tree PROVE Find(node[n].fd) = n
  BY FindSound DEF CountExact
<1>3. ASSUME NEW fd, \A n \in tree : node[n].fd # fd PROVE Find(fd) = NoNode
  BY <1>3, FindSound
<1> QED
  BY <1>1, <1>2, <1>3 DEF RegMask

\* RegMaskSound, in the state after.
LEMMA RegMaskSoundNext ==
    (TypeOK /\ CountExact =>
        /\ \A n \in tree : RegMask(node[n].fd) = node[n].mask
        /\ \A fd : (\A n \in tree : node[n].fd # fd) => RegMask(fd) = {})'
  BY RegMaskSound, PTL

-----------------------------------------------------------------------------
(* The free list as a set.                                                 *)

\* Taking a block from the free list.
LEMMA PopRange ==
    ASSUME NEW S, NEW s \in Seq(S), s # <<>>,
           \A i, j \in DOMAIN s : s[i] = s[j] => i = j
    PROVE  /\ Tail(s) \in Seq(S)
           /\ Head(s) \in {s[i] : i \in DOMAIN s}
           /\ {Tail(s)[i] : i \in DOMAIN Tail(s)} = {s[i] : i \in DOMAIN s} \ {Head(s)}
           /\ \A i, j \in DOMAIN Tail(s) : Tail(s)[i] = Tail(s)[j] => i = j
<1> DEFINE t == Tail(s)
<1>1. t \in Seq(S) /\ Len(s) \in Nat \ {0} /\ Len(t) = Len(s) - 1
  OBVIOUS
<1>2. DOMAIN s = 1 .. Len(s) /\ DOMAIN t = 1 .. (Len(s) - 1)
  BY <1>1
<1>3. \A i \in DOMAIN t : t[i] = s[i + 1] /\ i + 1 \in DOMAIN s
  BY <1>1, <1>2
<1>4. Head(s) = s[1] /\ 1 \in DOMAIN s
  BY <1>1, <1>2
<1> HIDE DEF t
<1>5. ASSUME NEW x \in {s[i] : i \in DOMAIN s}, x # Head(s)
      PROVE  x \in {t[i] : i \in DOMAIN t}
  <2>1. PICK k \in DOMAIN s : x = s[k]
    OBVIOUS
  <2>2. k - 1 \in DOMAIN t /\ t[k - 1] = x
    BY <1>1, <1>2, <1>3, <1>4, <1>5, <2>1
  <2> QED
    BY <2>2
<1>6. ASSUME NEW i \in DOMAIN t
      PROVE  t[i] \in {s[k] : k \in DOMAIN s} /\ t[i] # Head(s)
  <2>1. t[i] = s[i + 1] /\ i + 1 \in DOMAIN s /\ i + 1 # 1
    BY <1>2, <1>3
  <2> QED
    BY <2>1, <1>4
<1>7. {t[i] : i \in DOMAIN t} = {s[i] : i \in DOMAIN s} \ {Head(s)}
  BY <1>5, <1>6
<1>8. \A i, j \in DOMAIN t : t[i] = t[j] => i = j
  BY <1>1, <1>2, <1>3
<1> QED
  BY <1>1, <1>4, <1>7, <1>8 DEF t

\* Putting a block back.
LEMMA PushRange ==
    ASSUME NEW S, NEW s \in Seq(S), NEW n \in S,
           n \notin {s[i] : i \in DOMAIN s},
           \A i, j \in DOMAIN s : s[i] = s[j] => i = j
    PROVE  /\ <<n>> \o s \in Seq(S)
           /\ {(<<n>> \o s)[i] : i \in DOMAIN (<<n>> \o s)}
                = {s[i] : i \in DOMAIN s} \cup {n}
           /\ \A i, j \in DOMAIN (<<n>> \o s) :
                (<<n>> \o s)[i] = (<<n>> \o s)[j] => i = j
<1> DEFINE t == <<n>> \o s
<1>1. t \in Seq(S) /\ Len(s) \in Nat /\ Len(t) = Len(s) + 1
  OBVIOUS
<1>2. DOMAIN s = 1 .. Len(s) /\ DOMAIN t = 1 .. (Len(s) + 1)
  BY <1>1
<1>3. t[1] = n /\ \A i \in DOMAIN s : t[i + 1] = s[i]
  BY <1>1, <1>2
<1> HIDE DEF t
<1>4. \A i \in DOMAIN t : i = 1 \/ (i - 1 \in DOMAIN s /\ t[i] = s[i - 1])
  BY <1>1, <1>2, <1>3
<1>5. \A i \in DOMAIN s : i + 1 \in DOMAIN t
  BY <1>1, <1>2
<1>6. 1 \in DOMAIN t
  BY <1>1, <1>2
<1>7. {t[i] : i \in DOMAIN t} = {s[i] : i \in DOMAIN s} \cup {n}
  BY <1>3, <1>4, <1>5, <1>6
<1>8. ASSUME NEW i \in DOMAIN t, NEW j \in DOMAIN t, t[i] = t[j] PROVE i = j
  <2>1. i \in Int /\ j \in Int
    BY <1>1, <1>2
  <2>2. CASE i = 1 /\ j # 1
    BY <2>2, <1>3, <1>4, <1>8
  <2>3. CASE i # 1 /\ j = 1
    BY <2>3, <1>3, <1>4, <1>8
  <2>4. CASE i # 1 /\ j # 1
    <3>1. i - 1 \in DOMAIN s /\ j - 1 \in DOMAIN s /\ s[i - 1] = s[j - 1]
      BY <2>4, <1>4, <1>8
    <3> QED
      BY <3>1, <2>1
  <2> QED
    BY <2>2, <2>3, <2>4
<1> QED
  BY <1>1, <1>7, <1>8 DEF t

-----------------------------------------------------------------------------
(* Steps that leave the registry alone.                                    *)

\* Such a step keeps the invariant.
LEMMA QuietStep ==
    ASSUME IInv, TypeOK', UNCHANGED <<registry, kernel, want>>,
           pc' = "deleted" => pc = "deleted"
    PROVE  IInv'
<1>1. /\ tree' = tree /\ node' = node /\ free' = free /\ heap' = heap
      /\ count' = count /\ interest' = interest /\ want' = want
  BY DEF registry, kernel
<1>2. FreeSet' = FreeSet
  BY <1>1 DEF FreeSet
<1>3. \A fd : RegMask(fd)' = RegMask(fd)
  BY <1>1 DEF RegMask, Find
<1>4. CountExact' /\ NothingLeaks'
  BY <1>1 DEF IInv, CountExact, NothingLeaks
<1>5. BlocksAccounted'
  BY <1>1, <1>2 DEF IInv, BlocksAccounted
<1>6. RegistryAgrees'
  BY <1>1, <1>3 DEF IInv, RegistryAgrees, KernelBacked
<1> QED
  BY <1>1, <1>4, <1>5, <1>6 DEF IInv

\* The invariant at the start.
LEMMA InitIInv == Init => IInv
<1> SUFFICES ASSUME Init PROVE IInv
  OBVIOUS
<1>0. Empty \in Blocks
  BY DEF Empty, Blocks
<1>1. TypeOK
  <2>1. node \in [Nodes -> Blocks]
    BY <1>0 DEF Init
  <2>2. interest \in [Fds -> SUBSET Dirs] /\ want \in [Fds -> SUBSET Dirs]
    BY DEF Init
  <2>3. free \in Seq(Nodes)
    BY DEF Init
  <2> QED
    BY <2>1, <2>2, <2>3 DEF Init, TypeOK, PcValues
<1>2. CountExact /\ IsFiniteSet(heap)
  BY FS_EmptySet, FileEventsAssumption DEF Init, CountExact
<1>3. FreeSet = {}
  BY DEF Init, FreeSet
<1>4. BlocksAccounted /\ NothingLeaks
  BY <1>3, FS_EmptySet, FileEventsAssumption DEF Init, BlocksAccounted, NothingLeaks
<1>5. \A fd : RegMask(fd) = {}
  BY DEF Init, RegMask, Find
<1>6. RegistryAgrees
  BY <1>5 DEF Init, RegistryAgrees, KernelBacked
<1> QED
  BY <1>1, <1>2, <1>4, <1>6 DEF IInv

-----------------------------------------------------------------------------
(* Registration.                                                           *)

\* Descriptors that a step does not concern keep their mask.
LEMMA OtherRegMask ==
    ASSUME TypeOK, CountExact, TypeOK', CountExact', NEW g,
           \A m : m \in tree /\ node[m].fd = g <=> m \in tree' /\ node'[m].fd = g,
           \A m \in tree : node[m].fd = g => node'[m].mask = node[m].mask
    PROVE  RegMask(g)' = RegMask(g)
<1>1. CASE \E m \in tree : node[m].fd = g
  <2>1. PICK m \in tree : node[m].fd = g
    BY <1>1
  <2>2. RegMask(g) = node[m].mask
    BY <2>1, RegMaskSound
  <2>3. m \in tree' /\ node'[m].fd = g
    BY <2>1
  <2>4. RegMask(g)' = node'[m].mask
    BY <2>3, RegMaskSoundNext
  <2> QED
    BY <2>1, <2>2, <2>4
<1>2. CASE \A m \in tree : node[m].fd # g
  <2>1. RegMask(g) = {}
    BY <1>2, RegMaskSound
  <2>2. \A m \in tree' : node'[m].fd # g
    BY <1>2
  <2>3. RegMask(g)' = {}
    BY <2>2, RegMaskSoundNext
  <2> QED
    BY <2>1, <2>3
<1> QED
  BY <1>1, <1>2

\* What handing out a block does to the free list.
LEMMA NewBlockFacts ==
    ASSUME IInv, NEW n \in Nodes, NewBlock(n), free' = FreeAfterPop
    PROVE  /\ n \notin tree
           /\ free' \in Seq(Nodes)
           /\ FreeSet' = FreeSet \ {n}
           /\ \A i, j \in DOMAIN free' : free'[i] = free'[j] => i = j
           /\ free = <<>> => n \notin heap /\ heap = tree
           /\ free # <<>> => n \in FreeSet
<1> USE DEF IInv
<1>1. CASE free = <<>>
  <2>1. FreeSet = {} /\ FreeSet' = {} /\ free' = <<>>
    BY <1>1 DEF FreeSet, FreeAfterPop
  <2> QED
    BY <1>1, <2>1 DEF NewBlock, BlocksAccounted
<1>2. CASE free # <<>>
  <2>1. n = Head(free) /\ free' = Tail(free)
    BY <1>2 DEF NewBlock, FreeAfterPop
  <2>2. free \in Seq(Nodes) /\ \A i, j \in DOMAIN free : free[i] = free[j] => i = j
    BY DEF TypeOK, BlocksAccounted
  <2>3. /\ Tail(free) \in Seq(Nodes)
        /\ n \in FreeSet
        /\ {Tail(free)[i] : i \in DOMAIN Tail(free)} = FreeSet \ {n}
        /\ \A i, j \in DOMAIN Tail(free) : Tail(free)[i] = Tail(free)[j] => i = j
    BY <1>2, <2>1, <2>2, PopRange DEF FreeSet
  <2>4. FreeSet' = FreeSet \ {n}
    BY <2>1, <2>3 DEF FreeSet
  <2>5. n \notin tree
    BY <2>3 DEF BlocksAccounted
  <2> QED
    BY <1>2, <2>1, <2>3, <2>4, <2>5
<1> QED
  BY <1>1, <1>2

\* The fields of a block just taken.
LEMMA FreshBlock ==
    ASSUME NEW fd \in Fds, NEW mask \in SUBSET Dirs
    PROVE  /\ Fresh(fd, mask) \in Blocks
           /\ Fresh(fd, mask).fd = fd
           /\ Fresh(fd, mask).mask = mask
  BY DEF Fresh, Blocks, Installs

\* ez_create_file_event for a descriptor without a block.
LEMMA CreateNewStep ==
    ASSUME IInv, NEW fd \in Fds, NEW mask \in SUBSET Dirs, mask # {},
           CreateNew(fd, mask), pc # "deleted", UNCHANGED <<pc, batch, control>>
    PROVE  IInv'
<1> USE DEF IInv
<1>0. PICK n \in Nodes : /\ NewBlock(n)
                         /\ heap' = heap \cup {n}
                         /\ tree' = tree \cup {n}
                         /\ node' = [node EXCEPT ![n] = Fresh(fd, mask)]
  BY DEF CreateNew
<1>1. /\ free' = FreeAfterPop
      /\ count' = count + 1
      /\ count < SetSize
      /\ interest' = [interest EXCEPT ![fd] = mask]
      /\ want' = [want EXCEPT ![fd] = @ \cup mask]
      /\ open' = open
      /\ interest[fd] = {}
      /\ Find(fd) = NoNode
  BY FileEventsAssumption DEF CreateNew, Full, Accepted, CtlMayPass, TypeOK
<1>2. /\ n \notin tree
      /\ free' \in Seq(Nodes)
      /\ FreeSet' = FreeSet \ {n}
      /\ \A i, j \in DOMAIN free' : free'[i] = free'[j] => i = j
      /\ free = <<>> => n \notin heap /\ heap = tree
      /\ free # <<>> => n \in FreeSet
  BY <1>0, <1>1, NewBlockFacts
<1>3. /\ node'[n].fd = fd /\ node'[n].mask = mask
      /\ node' \in [Nodes -> Blocks]
      /\ \A m \in Nodes : m # n => node'[m] = node[m]
  BY <1>0, FreshBlock DEF TypeOK
<1>4. TypeOK'
  <2>1. interest' \in [Fds -> SUBSET Dirs] /\ want' \in [Fds -> SUBSET Dirs]
    BY <1>1 DEF TypeOK
  <2>2. /\ tree' \subseteq Nodes /\ heap' \subseteq Nodes /\ count' \in Nat
        /\ open' \subseteq Fds
    BY <1>0, <1>1 DEF TypeOK
  <2> QED
    BY <1>2, <1>3, <2>1, <2>2 DEF TypeOK, batch, control
<1>5. \A m \in tree : node[m].fd # fd
  BY <1>1, FindSound, FileEventsAssumption DEF TypeOK
<1>6. /\ IsFiniteSet(tree)
      /\ Cardinality(tree') = count + 1
      /\ IsFiniteSet(heap')
  BY <1>0, <1>2, FS_Subset, FS_AddElement DEF BlocksAccounted, CountExact
<1>7. CountExact'
  <2>1. count' = Cardinality(tree') /\ count' <= SetSize
    BY <1>1, <1>6, FileEventsAssumption DEF TypeOK
  <2>2. \A m \in tree' : node'[m].mask # {}
    BY <1>0, <1>2, <1>3 DEF CountExact, TypeOK
  <2>3. \A l, m \in tree' : node'[l].fd = node'[m].fd => l = m
    BY <1>0, <1>2, <1>3, <1>5 DEF CountExact, TypeOK
  <2> QED
    BY <2>1, <2>2, <2>3 DEF CountExact
<1>8. BlocksAccounted'
  <2>1. heap' = tree' \cup FreeSet'
    BY <1>0, <1>2 DEF BlocksAccounted
  <2>2. \A m \in FreeSet' : m \notin tree' /\ node'[m].mask = {}
    BY <1>0, <1>2, <1>3 DEF BlocksAccounted, TypeOK
  <2>3. Cardinality(heap') <= SetSize
    <3>1. CASE free = <<>>
      BY <3>1, <1>0, <1>1, <1>2, <1>6, <1>7 DEF CountExact
    <3>2. CASE free # <<>>
      BY <3>2, <1>0, <1>2 DEF BlocksAccounted
    <3> QED
      BY <3>1, <3>2
  <2> QED
    BY <1>2, <2>1, <2>2, <2>3 DEF BlocksAccounted
<1>9. RegMask(fd)' = mask
  BY <1>0, <1>3, <1>4, <1>7, RegMaskSoundNext
<1>10. \A g \in Fds : g # fd => RegMask(g)' = RegMask(g)
  BY <1>0, <1>2, <1>3, <1>4, <1>7, OtherRegMask DEF TypeOK
<1>11. want'[fd] = mask /\ interest'[fd] = mask
  <2>1. RegMask(fd) = {}
    BY <1>1 DEF RegMask
  <2>2. want[fd] = {}
    BY <2>1 DEF RegistryAgrees, KernelBacked
  <2> QED
    BY <1>1, <2>2 DEF TypeOK
<1>12. RegistryAgrees'
  BY <1>1, <1>9, <1>10, <1>11 DEF RegistryAgrees, KernelBacked, TypeOK
<1>13. NothingLeaks'
  BY DEF NothingLeaks
<1> QED
  BY <1>4, <1>6, <1>7, <1>8, <1>11, <1>12, <1>13

\* The same when epoll_ctl fails.
LEMMA CreateNewFailsStep ==
    ASSUME IInv, NEW fd \in Fds, NEW mask \in SUBSET Dirs,
           CreateNewFails(fd, mask), pc # "deleted", UNCHANGED <<pc, batch, control>>
    PROVE  IInv'
<1> USE DEF IInv
<1>0. PICK n \in Nodes : /\ NewBlock(n)
                         /\ heap' = heap \ {n}
                         /\ node' = [node EXCEPT ![n] = Empty]
  BY DEF CreateNewFails, HeapAfterFailedAdd
<1>1. /\ free' = FreeAfterPop
      /\ tree' = tree /\ count' = count /\ open' = open
      /\ interest' = interest /\ want' = want
  BY DEF CreateNewFails, kernel
<1>2. /\ n \notin tree
      /\ free' \in Seq(Nodes)
      /\ FreeSet' = FreeSet \ {n}
      /\ \A i, j \in DOMAIN free' : free'[i] = free'[j] => i = j
  BY <1>0, <1>1, NewBlockFacts
<1>3. /\ node' \in [Nodes -> Blocks]
      /\ \A m \in Nodes : m # n => node'[m] = node[m]
  <2>1. Empty \in Blocks
    BY DEF Empty, Blocks
  <2> QED
    BY <1>0, <2>1 DEF TypeOK
<1>4. TypeOK'
  BY <1>0, <1>1, <1>2, <1>3 DEF TypeOK, batch, control
<1>5. \A m \in tree : node'[m] = node[m]
  BY <1>2, <1>3 DEF TypeOK
<1>6. CountExact'
  BY <1>1, <1>5 DEF CountExact
<1>7. IsFiniteSet(heap') /\ Cardinality(heap') <= Cardinality(heap)
  BY <1>0, FS_Subset
<1>8. BlocksAccounted'
  <2>1. heap' = tree' \cup FreeSet'
    BY <1>0, <1>1, <1>2 DEF BlocksAccounted
  <2>2. \A m \in FreeSet' : m \notin tree' /\ node'[m].mask = {}
    <3>1. \A m \in FreeSet : m \in Nodes
      BY DEF BlocksAccounted, TypeOK
    <3> QED
      BY <1>1, <1>2, <1>3, <3>1 DEF BlocksAccounted
  <2>3. Cardinality(heap') <= SetSize
    BY <1>7, FS_CardinalityType, FileEventsAssumption DEF BlocksAccounted
  <2> QED
    BY <1>2, <2>1, <2>2, <2>3 DEF BlocksAccounted
<1>9. \A g \in Fds : RegMask(g)' = RegMask(g)
  BY <1>1, <1>4, <1>5, <1>6, OtherRegMask
<1>10. RegistryAgrees'
  BY <1>1, <1>9 DEF RegistryAgrees, KernelBacked
<1>11. NothingLeaks'
  BY DEF NothingLeaks
<1> QED
  BY <1>4, <1>6, <1>7, <1>8, <1>10, <1>11

\* The fields of a block with a direction more.
LEMMA MergedBlock ==
    ASSUME NEW e \in Blocks, NEW mask \in SUBSET Dirs
    PROVE  /\ Merged(e, mask) \in Blocks
           /\ Merged(e, mask).fd = e.fd
           /\ Merged(e, mask).mask = e.mask \cup mask
  BY DEF Merged, Blocks, Installs

\* ez_create_file_event for a descriptor that has a block.
LEMMA CreateMoreStep ==
    ASSUME IInv, NEW fd \in Fds, NEW mask \in SUBSET Dirs,
           CreateMore(fd, mask), pc # "deleted", UNCHANGED <<pc, batch, control>>
    PROVE  IInv'
<1> USE DEF IInv
<1> DEFINE n == Find(fd)
<1>0. n \in tree /\ n \in Nodes /\ node[n].fd = fd
  BY FindSound, FileEventsAssumption DEF CreateMore, TypeOK
<1>1. /\ node' = [node EXCEPT ![n] = Merged(@, mask)]
      /\ interest' = [interest EXCEPT ![fd] = mask \cup node[n].mask]
      /\ want' = [want EXCEPT ![fd] = @ \cup mask]
      /\ tree' = tree /\ free' = free /\ heap' = heap /\ count' = count
      /\ open' = open
  BY DEF CreateMore, Accepted
<1>2. RegMask(fd) = node[n].mask
  BY <1>0, RegMaskSound
<1> HIDE DEF n
<1>3. /\ node' \in [Nodes -> Blocks]
      /\ node'[n].fd = fd
      /\ node'[n].mask = node[n].mask \cup mask
      /\ \A m \in Nodes : m # n => node'[m] = node[m]
  BY <1>0, <1>1, MergedBlock DEF TypeOK
<1>4. TypeOK'
  <2>1. node[n].mask \in SUBSET Dirs
    BY <1>0 DEF TypeOK, Blocks
  <2>2. interest' \in [Fds -> SUBSET Dirs] /\ want' \in [Fds -> SUBSET Dirs]
    BY <1>1, <2>1 DEF TypeOK
  <2> QED
    BY <1>1, <1>3, <2>2 DEF TypeOK, batch, control
<1>5. \A m \in tree : node'[m].fd = node[m].fd /\ node'[m].mask # {}
  BY <1>0, <1>3 DEF TypeOK, CountExact
<1>6. CountExact'
  BY <1>1, <1>5 DEF CountExact
<1>7. BlocksAccounted'
  <2>1. FreeSet' = FreeSet
    BY <1>1 DEF FreeSet
  <2>2. \A m \in FreeSet : m \in Nodes /\ m # n
    BY <1>0 DEF BlocksAccounted, TypeOK
  <2> QED
    BY <1>1, <1>3, <2>1, <2>2 DEF BlocksAccounted
<1>8. RegMask(fd)' = node[n].mask \cup mask
  BY <1>0, <1>1, <1>3, <1>4, <1>6, RegMaskSoundNext
<1>9. \A g \in Fds : g # fd => RegMask(g)' = RegMask(g)
  BY <1>0, <1>1, <1>3, <1>4, <1>5, <1>6, OtherRegMask DEF TypeOK
<1>10. RegistryAgrees'
  <2>1. /\ want'[fd] = want[fd] \cup mask
        /\ interest'[fd] = mask \cup node[n].mask
    BY <1>1, <1>2 DEF TypeOK
  <2>2. /\ want'[fd] \subseteq interest'[fd]
        /\ interest'[fd] \subseteq RegMask(fd)'
        /\ fd < SetSize => RegMask(fd)' \subseteq want'[fd]
    BY <1>2, <1>8, <2>1 DEF RegistryAgrees, KernelBacked
  <2>3. \A g \in Fds : g # fd => want'[g] = want[g] /\ interest'[g] = interest[g]
    BY <1>1, <1>2 DEF TypeOK
  <2> QED
    BY <1>9, <2>2, <2>3 DEF RegistryAgrees, KernelBacked
<1>11. NothingLeaks'
  BY DEF NothingLeaks
<1> QED
  BY <1>1, <1>4, <1>6, <1>7, <1>10, <1>11

-----------------------------------------------------------------------------
(* Withdrawal.                                                             *)

\* What ez_delete_file_event does once it has found the block.
LEMMA DeleteBodyStep ==
    ASSUME IInv, NEW fd \in Fds, NEW mask \in SUBSET Dirs,
           Find(fd) # NoNode, DeleteBody(fd, mask),
           want' = [want EXCEPT ![fd] = @ \ mask],
           pc # "deleted", UNCHANGED <<pc, batch, control>>
    PROVE  IInv'
<1> USE DEF IInv
<1> DEFINE n == Find(fd)
           left == node[n].mask \ mask
<1>0. n \in tree /\ n \in Nodes /\ node[n].fd = fd
  BY FindSound, FileEventsAssumption DEF TypeOK
<1>1. /\ interest' = [interest EXCEPT ![fd] = IF @ = {} THEN {} ELSE left]
      /\ node' = [node EXCEPT ![n].mask = left]
      /\ heap' = heap /\ open' = open
  BY DEF DeleteBody, CtlDel
<1>2. IF left = {}
      THEN tree' = tree \ {n} /\ count' = count - 1 /\ free' = <<n>> \o free
      ELSE tree' = tree /\ count' = count /\ free' = free
  BY DEF DeleteBody, CountAfter, Recycled
<1>3. RegMask(fd) = node[n].mask
  BY <1>0, RegMaskSound
<1>4. left \in SUBSET Dirs
  BY <1>0 DEF TypeOK, Blocks
<1> HIDE DEF n, left
<1>5. /\ node' \in [Nodes -> Blocks]
      /\ node'[n].fd = fd /\ node'[n].mask = left
      /\ \A m \in Nodes : m # n => node'[m] = node[m]
  BY <1>0, <1>1, <1>4 DEF TypeOK, Blocks
<1>6. interest' \in [Fds -> SUBSET Dirs] /\ want' \in [Fds -> SUBSET Dirs]
  BY <1>1, <1>4 DEF TypeOK
<1>7. IsFiniteSet(tree) /\ Cardinality(tree) = count /\ n \notin FreeSet
  BY <1>0, FS_Subset DEF BlocksAccounted, CountExact
<1>8. /\ TypeOK'
      /\ CountExact'
      /\ BlocksAccounted'
      /\ tree' = tree \/ (left = {} /\ tree' = tree \ {n})
      /\ left # {} => tree' = tree
  <2>1. CASE left = {}
    <3>1. tree' = tree \ {n} /\ count' = count - 1 /\ free' = <<n>> \o free
      BY <1>2, <2>1
    <3>2. /\ free' \in Seq(Nodes)
          /\ FreeSet' = FreeSet \cup {n}
          /\ \A i, j \in DOMAIN free' : free'[i] = free'[j] => i = j
      <4>1. free \in Seq(Nodes) /\ \A i, j \in DOMAIN free : free[i] = free[j] => i = j
        BY DEF TypeOK, BlocksAccounted
      <4>2. /\ <<n>> \o free \in Seq(Nodes)
            /\ {(<<n>> \o free)[i] : i \in DOMAIN (<<n>> \o free)} = FreeSet \cup {n}
            /\ \A i, j \in DOMAIN (<<n>> \o free) :
                 (<<n>> \o free)[i] = (<<n>> \o free)[j] => i = j
        BY <1>0, <1>7, <4>1, PushRange DEF FreeSet
      <4> QED
        BY <3>1, <4>2 DEF FreeSet
    <3>3. count' = Cardinality(tree') /\ count' \in Nat /\ count' <= SetSize
      <4>1. Cardinality(tree \ {n}) = count - 1 /\ Cardinality(tree \ {n}) \in Nat
        BY <1>0, <1>7, FS_RemoveElement, FS_CardinalityType
      <4> QED
        BY <3>1, <4>1, FileEventsAssumption DEF CountExact, TypeOK
    <3>4. TypeOK'
      BY <1>1, <1>5, <1>6, <3>1, <3>2, <3>3 DEF TypeOK, batch, control
    <3>5. CountExact'
      BY <1>5, <3>1, <3>3 DEF CountExact, TypeOK
    <3>6. BlocksAccounted'
      <4>1. heap' = tree' \cup FreeSet'
        BY <1>0, <1>1, <3>1, <3>2 DEF BlocksAccounted
      <4>2. \A m \in FreeSet' : m \notin tree' /\ node'[m].mask = {}
        BY <1>5, <2>1, <3>1, <3>2 DEF BlocksAccounted, TypeOK
      <4> QED
        BY <1>1, <3>2, <4>1, <4>2 DEF BlocksAccounted
    <3> QED
      BY <2>1, <3>1, <3>4, <3>5, <3>6
  <2>2. CASE left # {}
    <3>1. tree' = tree /\ count' = count /\ free' = free
      BY <1>2, <2>2
    <3>2. FreeSet' = FreeSet
      BY <3>1 DEF FreeSet
    <3>3. TypeOK'
      BY <1>1, <1>5, <1>6, <3>1 DEF TypeOK, batch, control
    <3>4. \A m \in tree : node'[m].fd = node[m].fd /\ node'[m].mask # {}
      BY <1>0, <1>5, <2>2 DEF CountExact, TypeOK
    <3>5. CountExact'
      BY <3>1, <3>4 DEF CountExact
    <3>6. BlocksAccounted'
      BY <1>1, <1>5, <1>7, <3>1, <3>2 DEF BlocksAccounted, TypeOK
    <3> QED
      BY <2>2, <3>1, <3>3, <3>5, <3>6
  <2> QED
    BY <2>1, <2>2
<1>9. RegMask(fd)' = left
  <2>1. CASE left = {}
    <3>1. \A m \in tree' : node'[m].fd # fd
      BY <1>0, <1>2, <1>5, <2>1 DEF CountExact, TypeOK
    <3> QED
      BY <1>8, <2>1, <3>1, RegMaskSoundNext
  <2>2. CASE left # {}
    BY <1>0, <1>5, <1>8, <2>2, RegMaskSoundNext
  <2> QED
    BY <2>1, <2>2
<1>10. \A g \in Fds : g # fd => RegMask(g)' = RegMask(g)
  <2> SUFFICES ASSUME NEW g \in Fds, g # fd PROVE RegMask(g)' = RegMask(g)
    OBVIOUS
  <2>1. \A m : m \in tree /\ node[m].fd = g <=> m \in tree' /\ node'[m].fd = g
    BY <1>0, <1>5, <1>8 DEF TypeOK
  <2>2. \A m \in tree : node[m].fd = g => node'[m].mask = node[m].mask
    BY <1>0, <1>5 DEF TypeOK
  <2> QED
    BY <1>8, <2>1, <2>2, OtherRegMask
<1>11. /\ want'[fd] \subseteq interest'[fd]
       /\ interest'[fd] \subseteq left
       /\ fd < SetSize => left \subseteq want'[fd]
  <2>1. /\ want[fd] \subseteq interest[fd]
        /\ interest[fd] \subseteq node[n].mask
        /\ fd < SetSize => node[n].mask \subseteq want[fd]
    BY <1>3 DEF RegistryAgrees, KernelBacked
  <2>2. /\ interest'[fd] = IF interest[fd] = {} THEN {} ELSE left
        /\ want'[fd] = want[fd] \ mask
    BY <1>1 DEF TypeOK
  <2> QED
    BY <2>1, <2>2 DEF left
<1>12. RegistryAgrees'
  BY <1>1, <1>9, <1>10, <1>11 DEF RegistryAgrees, KernelBacked, TypeOK
<1>13. NothingLeaks'
  BY DEF NothingLeaks
<1> QED
  BY <1>1, <1>8, <1>11, <1>12, <1>13

\* Only the caller's and the kernel's view of one descriptor change.
LEMMA ViewStep ==
    ASSUME IInv, UNCHANGED <<pc, registry, batch, control>>,
           open' \subseteq Fds,
           interest' \in [Fds -> SUBSET Dirs], want' \in [Fds -> SUBSET Dirs],
           \A fd \in Fds : want'[fd] \subseteq interest'[fd],
           \A fd \in Fds : interest'[fd] \subseteq interest[fd],
           \A fd \in Fds : fd < SetSize =>
               interest'[fd] = interest[fd] /\ want'[fd] = want[fd]
    PROVE  IInv'
<1> USE DEF IInv
<1>1. /\ tree' = tree /\ node' = node /\ free' = free /\ heap' = heap
      /\ count' = count /\ pc' = pc
  BY DEF registry
<1>2. TypeOK'
  BY <1>1 DEF TypeOK, batch, control
<1>3. FreeSet' = FreeSet
  BY <1>1 DEF FreeSet
<1>4. \A fd : RegMask(fd)' = RegMask(fd)
  BY <1>1 DEF RegMask, Find
<1>5. CountExact' /\ NothingLeaks'
  BY <1>1 DEF CountExact, NothingLeaks
<1>6. BlocksAccounted'
  BY <1>1, <1>3 DEF BlocksAccounted
<1>7. RegistryAgrees'
  <2>1. ASSUME NEW fd \in Fds PROVE interest'[fd] \subseteq RegMask(fd)
    BY DEF RegistryAgrees, KernelBacked
  <2> QED
    BY <1>4, <2>1 DEF RegistryAgrees, KernelBacked
<1> QED
  BY <1>1, <1>2, <1>5, <1>6, <1>7

\* ez_create_file_event.
LEMMA CreateStep ==
    ASSUME IInv, NEW fd \in Fds, NEW mask \in Masks, CreateFileEvent(fd, mask)
    PROVE  IInv'
<1>1. mask \in SUBSET Dirs /\ mask # {}
  BY FileEventsAssumption DEF CreateFileEvent
<1>2. UNCHANGED <<pc, batch, control>> /\ pc # "deleted"
  BY DEF CreateFileEvent, Calling, InHandler
<1>3. ASSUME UNCHANGED <<registry, kernel, want>> PROVE IInv'
  <2>1. TypeOK'
    BY <1>2, <1>3 DEF IInv, TypeOK, registry, kernel, batch, control
  <2> QED
    BY <1>2, <1>3, <2>1, QuietStep
<1>4. CASE CreateRefused(fd) \/ CreateMoreFails(fd)
  BY <1>3, <1>4 DEF CreateRefused, CreateMoreFails
<1>5. CASE CreateNew(fd, mask)
  BY <1>1, <1>2, <1>5, CreateNewStep
<1>6. CASE CreateNewFails(fd, mask)
  BY <1>1, <1>2, <1>6, CreateNewFailsStep
<1>7. CASE CreateMore(fd, mask)
  BY <1>1, <1>2, <1>7, CreateMoreStep
<1> QED
  BY <1>4, <1>5, <1>6, <1>7 DEF CreateFileEvent

\* ez_delete_file_event.
LEMMA DeleteStep ==
    ASSUME IInv, NEW fd \in Fds, NEW mask \in SUBSET Dirs, DeleteFileEvent(fd, mask)
    PROVE  IInv'
<1>1. /\ UNCHANGED <<pc, batch, control>>
      /\ pc # "deleted"
      /\ want' = [want EXCEPT ![fd] = @ \ mask]
  BY DEF DeleteFileEvent, Calling, InHandler
<1>2. CASE DeleteIgnored(fd)
  <2>1. UNCHANGED <<registry, kernel>>
    BY <1>2 DEF DeleteFileEvent
  <2>2. fd < SetSize => want[fd] = {}
    <3>1. fd < SetSize => RegMask(fd) = {}
      BY <1>2, FileEventsAssumption DEF DeleteIgnored, RegMask
    <3> QED
      BY <3>1 DEF IInv, RegistryAgrees, KernelBacked
  <2>3. want' \in [Fds -> SUBSET Dirs]
    BY <1>1 DEF IInv, TypeOK
  <2>4. \A g \in Fds : g < SetSize => want'[g] = want[g]
    BY <1>1, <2>2 DEF IInv, TypeOK
  <2>5. /\ interest' = interest /\ interest' \in [Fds -> SUBSET Dirs]
        /\ open' \subseteq Fds
    BY <2>1 DEF IInv, TypeOK, kernel
  <2>6. \A g \in Fds : want'[g] \subseteq interest'[g]
    BY <1>1, <2>5 DEF IInv, RegistryAgrees, KernelBacked, TypeOK
  <2> QED
    BY <1>1, <2>1, <2>3, <2>4, <2>5, <2>6, ViewStep
<1>3. CASE ~DeleteIgnored(fd)
  BY <1>1, <1>3, DeleteBodyStep DEF DeleteFileEvent, DeleteIgnored
<1> QED
  BY <1>2, <1>3

\* A descriptor is opened.
LEMMA OpenStep ==
    ASSUME IInv, NEW fd \in Fds, OpenFd(fd)
    PROVE  IInv'
<1>1. /\ UNCHANGED <<pc, registry, batch, control>>
      /\ interest' = interest /\ want' = want /\ open' \subseteq Fds
  BY DEF OpenFd, IInv, TypeOK
<1> QED
  BY <1>1, ViewStep DEF IInv, TypeOK, RegistryAgrees, KernelBacked

\* A descriptor is closed.
LEMMA CloseStep ==
    ASSUME IInv, NEW fd \in Fds, CloseFd(fd)
    PROVE  IInv'
<1>1. /\ UNCHANGED <<pc, registry, batch, control>>
      /\ want' = want /\ want[fd] = {} /\ open' \subseteq Fds
      /\ interest' = [interest EXCEPT ![fd] = {}]
  BY DEF CloseFd, IInv, TypeOK
<1>2. fd < SetSize => interest[fd] = {}
  BY <1>1 DEF IInv, RegistryAgrees, KernelBacked
<1>3. /\ interest' \in [Fds -> SUBSET Dirs]
      /\ \A g \in Fds : interest'[g] \subseteq interest[g]
      /\ \A g \in Fds : g < SetSize => interest'[g] = interest[g]
  BY <1>1, <1>2 DEF IInv, TypeOK
<1>4. \A g \in Fds : want'[g] \subseteq interest'[g]
  BY <1>1 DEF IInv, RegistryAgrees, KernelBacked, TypeOK
<1> QED
  BY <1>1, <1>3, <1>4, ViewStep DEF IInv, TypeOK

\* ez_delete_event_loop frees every block: they are all in one of its two lists.
LEMMA DeleteEventLoopStep ==
    ASSUME IInv, DeleteEventLoop
    PROVE  IInv'
<1>1. heap' = {}
  BY DEF DeleteEventLoop, FreedByDelete, IInv, BlocksAccounted
<1>2. /\ tree' = {} /\ free' = <<>> /\ count' = 0
      /\ interest' = [f \in Fds |-> {}] /\ want' = [f \in Fds |-> {}]
      /\ node' = node /\ open' = open /\ pc' = "deleted"
  BY DEF DeleteEventLoop
<1>3. TypeOK'
  <2>1. interest' \in [Fds -> SUBSET Dirs] /\ want' \in [Fds -> SUBSET Dirs]
    BY <1>2
  <2>2. free' \in Seq(Nodes)
    BY <1>2
  <2>3. UNCHANGED <<batch, control>>
    BY DEF DeleteEventLoop
  <2> QED
    BY <1>1, <1>2, <2>1, <2>2, <2>3 DEF IInv, TypeOK, PcValues, batch, control
<1>4. FreeSet' = {}
  BY <1>2 DEF FreeSet
<1>5. \A fd : RegMask(fd)' = {}
  BY <1>2 DEF RegMask, Find
<1>6. CountExact' /\ BlocksAccounted' /\ IsFiniteSet(heap')
  BY <1>1, <1>2, <1>4, FS_EmptySet, FileEventsAssumption
     DEF CountExact, BlocksAccounted
<1>7. RegistryAgrees' /\ NothingLeaks'
  BY <1>1, <1>2, <1>5 DEF RegistryAgrees, KernelBacked, NothingLeaks
<1> QED
  BY <1>3, <1>6, <1>7 DEF IInv

-----------------------------------------------------------------------------
(* The loop's own steps keep the types and leave the registry alone.       *)

\* What none of the loop's steps, and no stop command, ever writes.
LEMMA LoopQuiet ==
    ASSUME Loop \/ StopEventLoop
    PROVE  UNCHANGED <<registry, kernel, want>> /\ (pc' = "deleted" => pc = "deleted")
<1>1. CASE StopEventLoop
  BY <1>1 DEF StopEventLoop
<1>2. CASE Run
  BY <1>2 DEF Run
<1>3. CASE Exit
  BY <1>3 DEF Exit
<1>4. CASE Poll
  BY <1>4 DEF Poll
<1>5. CASE PollStop
  BY <1>5 DEF PollStop
<1>6. ASSUME NEW e \in fired, ReadPhase(e)
      PROVE  UNCHANGED <<registry, kernel, want>> /\ pc' # "deleted"
  <2>1. UNCHANGED <<registry, kernel, want>>
    BY <1>6 DEF ReadPhase
  <2>2. pc' \in {"inRead", "write", "crashed"}
    BY <1>6 DEF ReadPhase, CallHandler
  <2> QED
    BY <2>1, <2>2
<1>7. ASSUME NEW e \in cur, WritePhase(e)
      PROVE  UNCHANGED <<registry, kernel, want>> /\ pc' # "deleted"
  <2>1. UNCHANGED <<registry, kernel, want>>
    BY <1>7 DEF WritePhase
  <2>2. pc' \in {"inWrite", "batch", "crashed"}
    BY <1>7 DEF WritePhase, CallHandler
  <2> QED
    BY <2>1, <2>2
<1>8. CASE ReadReturn
  BY <1>8 DEF ReadReturn
<1>9. CASE WriteReturn
  BY <1>9 DEF WriteReturn
<1>10. CASE TimerPhase
  BY <1>10 DEF TimerPhase
<1>11. CASE TimerReturn
  BY <1>11 DEF TimerReturn
<1> QED
  BY <1>1, <1>2, <1>3, <1>4, <1>5, <1>6, <1>7, <1>8, <1>9, <1>10, <1>11 DEF Loop

\* What they do write, of which type it stays.
OwnTypes ==
    /\ pc \in PcValues
    /\ fired \subseteq Entries /\ cur \subseteq Entries
    /\ fe \in Nodes \cup {NoNode}
    /\ stop \in BOOLEAN /\ evcnt \in Nat /\ evIn \in BOOLEAN /\ stops \in Nat

\* The steps of the loop keep them.
LEMMA LoopTypes ==
    ASSUME TypeOK, Loop \/ StopEventLoop
    PROVE  OwnTypes'
<1>0. OwnTypes
  BY DEF TypeOK, OwnTypes
<1>1. CASE StopEventLoop
  <2>1. evcnt' \in Nat /\ stops' \in Nat
    BY <1>0, <1>1 DEF StopEventLoop, StopCmd, OwnTypes
  <2> QED
    BY <1>0, <1>1, <2>1 DEF StopEventLoop, OwnTypes, batch
<1>2. CASE Run
  BY <1>0, <1>2 DEF Run, OwnTypes, PcValues, batch
<1>3. CASE Exit
  BY <1>0, <1>3 DEF Exit, OwnTypes, PcValues, batch
<1>4. CASE Poll
  <2>1. fired' \subseteq Entries
    BY <1>4 DEF Poll, Results
  <2> QED
    BY <1>0, <1>4, <2>1 DEF Poll, OwnTypes, PcValues, control
<1>5. CASE PollStop
  <2>1. fired' \subseteq Entries
    BY <1>5 DEF PollStop, Results
  <2>2. stop' \in BOOLEAN
    BY <1>0, <1>5 DEF PollStop, StopAfterRead, OwnTypes
  <2> QED
    BY <1>0, <1>5, <2>1, <2>2 DEF PollStop, OwnTypes, PcValues
<1>6. ASSUME NEW e \in fired, ReadPhase(e) PROVE OwnTypes'
  <2>1. fe' \in Nodes \cup {NoNode}
    BY <1>6, FindSound DEF ReadPhase, TypeOK
  <2>2. pc' \in PcValues
    BY <1>6 DEF ReadPhase, CallHandler, PcValues
  <2> QED
    BY <1>0, <1>6, <2>1, <2>2 DEF ReadPhase, OwnTypes, control
<1>7. ASSUME NEW e \in cur, WritePhase(e) PROVE OwnTypes'
  <2>1. pc' \in PcValues
    BY <1>7 DEF WritePhase, CallHandler, PcValues
  <2>2. cur' \subseteq Entries /\ fe' \in Nodes \cup {NoNode}
    BY <1>0, <1>7 DEF WritePhase, EndEvent, OwnTypes
  <2> QED
    BY <1>0, <1>7, <2>1, <2>2 DEF WritePhase, OwnTypes, control
<1>8. CASE ReadReturn
  BY <1>0, <1>8 DEF ReadReturn, OwnTypes, PcValues, batch, control
<1>9. CASE WriteReturn
  BY <1>0, <1>9 DEF WriteReturn, EndEvent, OwnTypes, PcValues, control
<1>10. CASE TimerPhase
  BY <1>0, <1>10 DEF TimerPhase, OwnTypes, PcValues, batch, control
<1>11. CASE TimerReturn
  BY <1>0, <1>11 DEF TimerReturn, OwnTypes, PcValues, batch, control
<1> QED
  BY <1>1, <1>2, <1>3, <1>4, <1>5, <1>6, <1>7, <1>8, <1>9, <1>10, <1>11 DEF Loop

\* The steps of the loop keep the invariant.
LEMMA LoopStep ==
    ASSUME IInv, Loop \/ StopEventLoop
    PROVE  IInv'
<1>0. TypeOK
  BY DEF IInv
<1>1. UNCHANGED <<registry, kernel, want>> /\ (pc' = "deleted" => pc = "deleted")
  BY LoopQuiet
<1>2. /\ tree' = tree /\ node' = node /\ free' = free /\ heap' = heap
      /\ count' = count /\ interest' = interest /\ open' = open /\ want' = want
  BY <1>1 DEF registry, kernel
<1>3. TypeOK'
  BY <1>0, <1>2, LoopTypes DEF TypeOK, OwnTypes
<1> QED
  BY <1>1, <1>3, QuietStep

\* So does every step.
LEMMA StepIInv ==
    ASSUME IInv, [Next]_vars
    PROVE  IInv'
<1>1. CASE Loop \/ StopEventLoop
  BY <1>1, LoopStep
<1>2. CASE Caller
  BY <1>2, CreateStep, DeleteStep, OpenStep, CloseStep DEF Caller
<1>3. CASE DeleteEventLoop
  BY <1>3, DeleteEventLoopStep
<1>4. CASE UNCHANGED vars
  <2>1. UNCHANGED <<registry, kernel, want>> /\ pc' = pc
    BY <1>4 DEF vars
  <2>2. TypeOK'
    BY <1>4 DEF IInv, TypeOK, vars, registry, kernel, batch, control
  <2> QED
    BY <2>1, <2>2, QuietStep
<1> QED
  BY <1>1, <1>2, <1>3, <1>4 DEF Next

-----------------------------------------------------------------------------
(* Theorems.                                                               *)

\* The inductive invariant holds throughout.
THEOREM Invariant == Spec => []IInv
  BY InitIInv, StepIInv, PTL DEF Spec

\* Every variable keeps its type.
THEOREM TypeCorrect == Spec => []TypeOK
<1>1. IInv => TypeOK
  BY DEF IInv
<1> QED
  BY <1>1, Invariant, PTL

\* The count of the loop is exact and within SetSize, for any SetSize.
THEOREM Counted == Spec => []CountExact
<1>1. IInv => CountExact
  BY DEF IInv
<1> QED
  BY <1>1, Invariant, PTL

\* No block of the registry leaks or is linked twice, and SetSize of them are
\* enough for ever, however registrations come, go and fail.
THEOREM Blocks_Accounted == Spec => []BlocksAccounted
<1>1. IInv => BlocksAccounted
  BY DEF IInv
<1> QED
  BY <1>1, Invariant, PTL

\* What a caller wants of a descriptor the kernel watches and the loop has a
\* node for, whatever its number; below SetSize the three are equal.
THEOREM Agreement == Spec => []RegistryAgrees
<1>1. IInv => RegistryAgrees
  BY DEF IInv
<1> QED
  BY <1>1, Invariant, PTL

\* Deleting the loop gives back all memory of the registry.
THEOREM Nothing_Leaks == Spec => []NothingLeaks
<1>1. IInv => NothingLeaks
  BY DEF IInv
<1> QED
  BY <1>1, Invariant, PTL

-----------------------------------------------------------------------------
(***************************************************************************)
(* The contract of the dispatch: with disciplined callers, entries of one  *)
(* direction per call and no error-only events, a handler is only called   *)
(* when it is there and its descriptor is registered for it, although the  *)
(* registry changes while the batch is being walked.                       *)
(***************************************************************************)

Dispatching == {"batch", "inRead", "write", "inWrite"}

\* Every direction that is registered has a handler.
Handled == \A n \in tree : node[n].mask \subseteq node[n].procs

\* The entries that wait in the batch are for different descriptors, and what
\* they report is still registered: handlers leave them alone.
Pending ==
    /\ fired # {} => pc \in Dispatching
    /\ \A e \in fired : e.mask \subseteq interest[e.fd]
    /\ \A e, f \in fired : e.fd = f.fd => e = f

\* Between the two halves fe is the node of the entry, still registered for
\* writing if that was reported, or a block nobody has taken from the free list.
Target(e) ==
    \/ fe \in tree /\ node[fe].fd = e.fd /\ ("W" \in e.mask => "W" \in node[fe].mask)
    \/ fe \in FreeSet
    \/ fe = NoNode

Current ==
    \A e \in cur :
        /\ pc \in {"inRead", "write", "inWrite"}
        /\ \A f \in fired : f.fd # e.fd
        /\ pc \in {"inRead", "write"} => Target(e)

DInv == Handled /\ Pending /\ Current /\ pc # "crashed"

\* What the contract asks for: callbacks that keep the rules of FileEvents, one
\* direction a call, and errors that come with an event that is registered.
WellBehaved == Disciplined /\ ~ErrorOnly /\ \A m \in Masks : Cardinality(m) = 1

-----------------------------------------------------------------------------
(* Callers.                                                                *)

\* A step that changes no block keeps everything but what the kernel watches.
LEMMA SameBlocks ==
    ASSUME DInv, UNCHANGED <<pc, registry, batch>>,
           \A e \in fired : interest'[e.fd] = interest[e.fd]
    PROVE  DInv'
<1>1. /\ UNCHANGED <<tree, node, free, fired, cur, fe, pc>>
      /\ FreeSet' = FreeSet
  BY DEF registry, batch, FreeSet
<1>2. Handled' /\ Pending'
  BY <1>1 DEF DInv, Handled, Pending
<1>3. \A e \in cur : Target(e)' <=> Target(e)
  BY <1>1 DEF Target
<1>4. Current'
  BY <1>1, <1>3 DEF DInv, Current
<1>. QED  BY <1>1, <1>2, <1>4 DEF DInv

\* No batch is walked while the program sets up or a timer runs; a handler
\* leaves the entries of the batch alone.
LEMMA Untouched ==
    ASSUME DInv, Calling, NEW fd, InHandler => fd \notin PendingFds
    PROVE  /\ \A e \in fired : e.fd # fd
           /\ ~InHandler => fired = {} /\ cur = {}
<1>1. ~InHandler => pc \notin Dispatching
  BY DEF Calling, InHandler, Dispatching
<1>2. ~InHandler => fired = {} /\ cur = {}
  BY <1>1 DEF DInv, Pending, Current, Dispatching
<1>. QED  BY <1>2 DEF PendingFds

\* A mask of one direction is stored with its handler.
LEMMA Installed ==
    ASSUME WellBehaved, NEW mask \in Masks
    PROVE  Installs(mask) = mask
  BY DEF WellBehaved, Installs

\* Creating an event leaves every node in the tree with what it has.
LEMMA CreateKeepsNodes ==
    ASSUME IInv, Handled, WellBehaved, NEW fd \in Fds, NEW mask \in Masks,
           \/ CreateRefused(fd) \/ CreateNew(fd, mask) \/ CreateNewFails(fd, mask)
           \/ CreateMore(fd, mask) \/ CreateMoreFails(fd)
    PROVE  /\ \A n \in tree : /\ n \in tree'
                             /\ node'[n].fd = node[n].fd
                             /\ node[n].mask \subseteq node'[n].mask
           /\ Handled'
           /\ \A g \in Fds : g # fd => interest'[g] = interest[g]
<1>0. /\ Installs(mask) = mask /\ mask \in SUBSET Dirs
      /\ node \in [Nodes -> Blocks] /\ tree \subseteq Nodes
      /\ interest \in [Fds -> SUBSET Dirs]
  BY Installed, FileEventsAssumption DEF IInv, TypeOK
<1>1. CASE CreateRefused(fd) \/ CreateMoreFails(fd)
  BY <1>1 DEF CreateRefused, CreateMoreFails, registry, kernel, Handled
<1>2. CASE CreateNew(fd, mask)
  <2>1. PICK n \in Nodes : /\ NewBlock(n) /\ tree' = tree \cup {n}
                           /\ node' = [node EXCEPT ![n] = Fresh(fd, mask)]
    BY <1>2 DEF CreateNew
  <2>2. n \notin tree
    BY <1>2, <2>1, NewBlockFacts DEF CreateNew
  <2>3. \A m \in tree : node'[m] = node[m]
    BY <1>0, <2>1, <2>2
  <2>4. node'[n].mask = node'[n].procs
    BY <1>0, <2>1 DEF Fresh
  <2>5. Handled'
    BY <2>1, <2>3, <2>4 DEF Handled
  <2>6. \A g \in Fds : g # fd => interest'[g] = interest[g]
    BY <1>0, <1>2 DEF CreateNew
  <2>. QED  BY <2>1, <2>3, <2>5, <2>6
<1>3. CASE CreateNewFails(fd, mask)
  <2>1. PICK n \in Nodes : NewBlock(n) /\ node' = [node EXCEPT ![n] = Empty]
    BY <1>3 DEF CreateNewFails
  <2>2. n \notin tree
    BY <1>3, <2>1, NewBlockFacts DEF CreateNewFails
  <2>3. tree' = tree /\ interest' = interest /\ \A m \in tree : node'[m] = node[m]
    BY <1>0, <1>3, <2>1, <2>2 DEF CreateNewFails, kernel
  <2>. QED  BY <2>3 DEF Handled
<1>4. CASE CreateMore(fd, mask)
  <2>1. /\ tree' = tree
        /\ node' = [node EXCEPT ![Find(fd)] = Merged(node[Find(fd)], mask)]
        /\ interest' = [interest EXCEPT ![fd] = mask \cup node[Find(fd)].mask]
        /\ Find(fd) \in tree
    BY <1>4, FindSound DEF CreateMore
  <2>2. \A m \in tree : m # Find(fd) => node'[m] = node[m]
    BY <1>0, <2>1
  <2>3. node'[Find(fd)] = Merged(node[Find(fd)], mask) /\ node[Find(fd)] \in Blocks
    BY <1>0, <2>1
  <2>4. /\ node'[Find(fd)].fd = node[Find(fd)].fd
        /\ node'[Find(fd)].mask = node[Find(fd)].mask \cup mask
        /\ node'[Find(fd)].procs = node[Find(fd)].procs \cup mask
    BY <1>0, <2>3 DEF Merged, Blocks
  <2>5. \A m \in tree : /\ node'[m].fd = node[m].fd
                        /\ node[m].mask \subseteq node'[m].mask
                        /\ node'[m].mask \subseteq node'[m].procs
    BY <2>2, <2>4 DEF Handled
  <2>6. \A g \in Fds : g # fd => interest'[g] = interest[g]
    BY <1>0, <2>1
  <2>. QED  BY <2>1, <2>5, <2>6 DEF Handled
<1>. QED  BY <1>1, <1>2, <1>3, <1>4

\* ez_create_file_event, by a handler or by anyone else.
LEMMA CreateDInv ==
    ASSUME IInv, DInv, WellBehaved, NEW fd \in Fds, NEW mask \in Masks, CreateFileEvent(fd, mask)
    PROVE  DInv'
<1>1. /\ UNCHANGED <<pc, fired, cur, fe>> /\ Calling
      /\ InHandler => fd \notin PendingFds /\ fe \in tree
  BY DEF CreateFileEvent, batch, MayCreate, WellBehaved
<1>2. /\ \A n \in tree : /\ n \in tree'
                         /\ node'[n].fd = node[n].fd
                         /\ node[n].mask \subseteq node'[n].mask
      /\ Handled'
      /\ \A g \in Fds : g # fd => interest'[g] = interest[g]
  BY CreateKeepsNodes DEF CreateFileEvent, DInv
<1>3. /\ \A e \in fired : e.fd # fd
      /\ ~InHandler => fired = {} /\ cur = {}
  BY <1>1, Untouched
<1>4. \A e \in fired : e.fd \in Fds
  BY DEF IInv, TypeOK, Entries
<1>5. Pending'
  BY <1>1, <1>2, <1>3, <1>4 DEF DInv, Pending
<1>6. Current'
  <2> SUFFICES ASSUME NEW e \in cur, pc \in {"inRead", "write"}
               PROVE  Target(e)'
    BY <1>1 DEF DInv, Current
  <2>1. fe \in tree /\ fe \notin FreeSet /\ fe # NoNode
    BY <1>1, <1>3, FileEventsAssumption DEF IInv, TypeOK, BlocksAccounted
  <2>2. node[fe].fd = e.fd /\ ("W" \in e.mask => "W" \in node[fe].mask)
    BY <2>1 DEF DInv, Current, Target
  <2>. QED  BY <1>1, <1>2, <2>1, <2>2 DEF Target
<1>. QED  BY <1>1, <1>2, <1>5, <1>6 DEF DInv

\* Withdrawing changes one block, which goes to the free list with its last
\* direction.
LEMMA DeleteKeepsNodes ==
    ASSUME IInv, Handled, NEW fd \in Fds, NEW mask \in SUBSET Dirs,
           ~DeleteIgnored(fd), DeleteBody(fd, mask)
    PROVE  /\ Find(fd) \in tree /\ node[Find(fd)].fd = fd
           /\ \A n \in tree : n # Find(fd) => n \in tree' /\ node'[n] = node[n]
           /\ Handled'
           /\ FreeSet \subseteq FreeSet'
           /\ node[Find(fd)].mask \subseteq mask => Find(fd) \in FreeSet'
           /\ \A g \in Fds : g # fd => interest'[g] = interest[g]
<1> DEFINE n == Find(fd)
           left == node[n].mask \ mask
<1>1. n \in tree /\ node[n].fd = fd
  BY FindSound DEF DeleteIgnored
<1>2. /\ node \in [Nodes -> Blocks] /\ tree \subseteq Nodes /\ free \in Seq(Nodes)
      /\ interest \in [Fds -> SUBSET Dirs]
  BY DEF IInv, TypeOK
<1>3. /\ node' = [node EXCEPT ![n].mask = left]
      /\ CtlDel(fd, left)
      /\ IF left = {} THEN tree' = tree \ {n} /\ free' = <<n>> \o free
                      ELSE tree' = tree /\ free' = free
  BY DEF DeleteBody, Recycled
<1>4. \A g \in Fds : g # fd => interest'[g] = interest[g]
  BY <1>2, <1>3 DEF CtlDel
<1> HIDE DEF n
<1>5. /\ \A m \in tree : m # n => node'[m] = node[m]
      /\ node'[n].mask = left /\ node'[n].procs = node[n].procs
  BY <1>1, <1>2, <1>3 DEF Blocks
<1>6. tree' \subseteq tree /\ \A m \in tree : m # n => m \in tree'
  BY <1>3
<1>7. Handled'
  BY <1>5, <1>6, <1>1 DEF Handled
<1>8. CASE left = {}
  <2>1. n \in Nodes /\ n \notin FreeSet
    BY <1>1, <1>2 DEF IInv, BlocksAccounted
  <2>2. free' = <<n>> \o free /\ free \in Seq(Nodes)
    BY <1>2, <1>3, <1>8
  <2>3. \A i, j \in DOMAIN free : free[i] = free[j] => i = j
    BY DEF IInv, BlocksAccounted
  <2>4. /\ <<n>> \o free \in Seq(Nodes)
        /\ {(<<n>> \o free)[i] : i \in DOMAIN (<<n>> \o free)} = FreeSet \cup {n}
        /\ \A i, j \in DOMAIN (<<n>> \o free) :
             (<<n>> \o free)[i] = (<<n>> \o free)[j] => i = j
    BY <2>1, <2>2, <2>3, PushRange DEF FreeSet
  <2>5. FreeSet' = FreeSet \cup {n}
    BY <2>2, <2>4 DEF FreeSet
  <2>. QED  BY <1>1, <1>4, <1>5, <1>6, <1>7, <2>5 DEF n
<1>9. CASE left # {}
  <2>1. FreeSet' = FreeSet
    BY <1>3, <1>9 DEF FreeSet
  <2>. QED  BY <1>1, <1>4, <1>5, <1>6, <1>7, <1>9, <2>1 DEF n
<1>. QED  BY <1>8, <1>9

\* ez_delete_file_event: a handler withdraws its own descriptor as a whole, and
\* fe then points to a block on the free list.
LEMMA DeleteDInv ==
    ASSUME IInv, DInv, WellBehaved, NEW fd \in Fds, NEW mask \in SUBSET Dirs,
           DeleteFileEvent(fd, mask)
    PROVE  DInv'
<1>1. /\ UNCHANGED <<pc, fired, cur, fe>> /\ UNCHANGED batch /\ Calling
      /\ InHandler => fd \notin PendingFds
      /\ InHandler /\ fd \in OwnFds /\ pc = "inRead" => RegMask(fd) \subseteq mask
  BY DEF DeleteFileEvent, batch, MayDelete, WellBehaved
<1>2. /\ \A e \in fired : e.fd # fd
      /\ ~InHandler => fired = {} /\ cur = {}
  BY <1>1, Untouched
<1>3. CASE DeleteIgnored(fd)
  BY <1>1, <1>3, SameBlocks DEF DeleteFileEvent, kernel
<1>4. CASE ~DeleteIgnored(fd)
  <2>1. /\ Find(fd) \in tree /\ node[Find(fd)].fd = fd
        /\ \A n \in tree : n # Find(fd) => n \in tree' /\ node'[n] = node[n]
        /\ Handled'
        /\ FreeSet \subseteq FreeSet'
        /\ node[Find(fd)].mask \subseteq mask => Find(fd) \in FreeSet'
        /\ \A g \in Fds : g # fd => interest'[g] = interest[g]
    BY <1>4, DeleteKeepsNodes DEF DeleteFileEvent, DInv
  <2>2. \A e \in fired : e.fd \in Fds
    BY DEF IInv, TypeOK, Entries
  <2>3. Pending'
    BY <1>1, <1>2, <2>1, <2>2 DEF DInv, Pending
  <2>4. Current'
    <3> SUFFICES ASSUME NEW e \in cur, pc \in {"inRead", "write"}
                 PROVE  Target(e)'
      BY <1>1 DEF DInv, Current
    <3>1. Target(e) /\ pc = "inRead" /\ InHandler
      BY <1>2 DEF DInv, Current, InHandler
    <3>2. CASE fe \in FreeSet \/ fe = NoNode
      BY <1>1, <2>1, <3>2 DEF Target
    <3>3. CASE fe \in tree /\ fe # Find(fd)
      <4>1. fe \notin FreeSet /\ fe # NoNode
        BY <3>3, FileEventsAssumption DEF IInv, TypeOK, BlocksAccounted
      <4>. QED  BY <1>1, <2>1, <3>1, <3>3, <4>1 DEF Target
    <3>4. CASE fe \in tree /\ fe = Find(fd)
      <4>1. fe \notin FreeSet /\ fe # NoNode
        BY <3>4, FileEventsAssumption DEF IInv, TypeOK, BlocksAccounted
      <4>2. e.fd = fd
        BY <2>1, <3>1, <3>4, <4>1 DEF Target
      <4>3. RegMask(fd) \subseteq mask
        BY <1>1, <3>1, <4>2 DEF OwnFds
      <4>4. fe \in FreeSet'
        BY <2>1, <3>4, <4>1, <4>3 DEF RegMask
      <4>. QED  BY <1>1, <4>4 DEF Target
    <3>. QED  BY <3>1, <3>2, <3>3, <3>4 DEF Target
  <2>. QED  BY <1>1, <2>1, <2>3, <2>4 DEF DInv
<1>. QED  BY <1>3, <1>4

\* Opening and closing descriptors.
LEMMA OpenCloseDInv ==
    ASSUME IInv, DInv, WellBehaved, NEW fd \in Fds, OpenFd(fd) \/ CloseFd(fd)
    PROVE  DInv'
<1>1. CASE OpenFd(fd)
  BY <1>1, SameBlocks DEF OpenFd
<1>2. CASE CloseFd(fd)
  <2>1. \A e \in fired : e.fd # fd /\ e.fd \in Fds
    BY <1>2, Untouched DEF CloseFd, MayClose, WellBehaved, IInv, TypeOK, Entries
  <2>2. \A g \in Fds : g # fd => interest'[g] = interest[g]
    BY <1>2 DEF CloseFd, IInv, TypeOK
  <2>. QED  BY <1>2, <2>1, <2>2, SameBlocks DEF CloseFd
<1>. QED  BY <1>1, <1>2

-----------------------------------------------------------------------------
(* The loop.                                                               *)

\* epoll_wait reports what is registered, every descriptor once.
LEMMA PollDInv ==
    ASSUME IInv, DInv, WellBehaved, Poll \/ PollStop
    PROVE  DInv'
<1>1. /\ pc = "top" /\ pc' = "batch" /\ fired' \in Results
      /\ UNCHANGED <<registry, kernel, cur, fe>>
  BY DEF Poll, PollStop
<1>2. /\ \A e \in fired' : e.mask \subseteq interest[e.fd]
      /\ \A e, f \in fired' : e.fd = f.fd => e = f
  BY <1>1 DEF Results, Reported, WellBehaved
<1>3. cur' = {}
  BY <1>1 DEF DInv, Current
<1>4. Handled'
  BY <1>1 DEF DInv, Handled, registry
<1>5. Pending'
  BY <1>1, <1>2 DEF Pending, Dispatching, kernel
<1>. QED  BY <1>1, <1>3, <1>4, <1>5 DEF DInv, Current

\* The node of an entry that waits is in the tree and registered for what the
\* entry reports, so a handler that is due is there.
LEMMA EntryBacked ==
    ASSUME IInv, DInv, NEW e \in fired
    PROVE  /\ e.mask \subseteq RegMask(e.fd)
           /\ e.mask # {} => /\ Find(e.fd) \in tree
                             /\ node[Find(e.fd)].fd = e.fd
                             /\ e.mask \subseteq node[Find(e.fd)].mask
<1>1. e.fd \in Fds
  BY DEF IInv, TypeOK, Entries
<1>2. e.mask \subseteq RegMask(e.fd)
  BY <1>1 DEF DInv, Pending, IInv, RegistryAgrees, KernelBacked
<1>3. ASSUME e.mask # {}
      PROVE  Find(e.fd) # NoNode /\ e.mask \subseteq node[Find(e.fd)].mask
  BY <1>2, <1>3 DEF RegMask
<1>. QED  BY <1>2, <1>3, FindSound

\* The read half.
LEMMA ReadPhaseDInv ==
    ASSUME IInv, DInv, NEW e \in fired, ReadPhase(e)
    PROVE  /\ DInv'
           /\ pc' = "inRead" => /\ fe' \in tree /\ node[fe'].fd = e.fd
                                /\ "R" \in node[fe'].mask /\ cur' = {e}
<1>1. /\ fired' = fired \ {e} /\ cur' = {e} /\ fe' = Find(e.fd)
      /\ UNCHANGED <<registry, kernel>>
      /\ IF "R" \in e.mask /\ fe' # NoNode /\ node[fe'].mask # {}
         THEN pc' = IF fe' \in heap /\ "R" \in node[fe'].procs THEN "inRead" ELSE "crashed"
         ELSE pc' = "write"
  BY DEF ReadPhase, Live, CallHandler
<1>2. "R" \in e.mask => /\ fe' \in heap /\ fe' \in tree /\ node[fe'].fd = e.fd
                        /\ "R" \in node[fe'].mask /\ "R" \in node[fe'].procs
  BY <1>1, EntryBacked DEF IInv, BlocksAccounted, DInv, Handled
<1>3. pc' \in {"inRead", "write"} /\ (pc' = "inRead" => "R" \in e.mask)
  BY <1>1, <1>2
<1>4. Handled' /\ Pending'
  <2>1. UNCHANGED <<tree, node, interest>>
    BY <1>1 DEF registry, kernel
  <2>. QED  BY <1>1, <1>3, <2>1 DEF DInv, Handled, Pending, Dispatching
<1>5. Target(e)'
  <2>1. UNCHANGED <<tree, node>>
    BY <1>1 DEF registry
  <2>2. CASE "W" \in e.mask
    BY <1>1, <2>1, <2>2, EntryBacked DEF Target
  <2>3. CASE "W" \notin e.mask
    BY <1>1, <2>1, <2>3, FindSound DEF Target
  <2>. QED  BY <2>2, <2>3
<1>6. Current'
  <2>1. \A f \in fired' : f.fd # e.fd
    BY <1>1 DEF DInv, Pending
  <2>. QED  BY <1>1, <1>3, <1>5, <2>1 DEF Current
<1>. QED  BY <1>1, <1>2, <1>3, <1>4, <1>6 DEF DInv

\* The write half: a pointer to a block that is free again is not followed.
LEMMA WritePhaseDInv ==
    ASSUME IInv, DInv, NEW e \in cur, WritePhase(e)
    PROVE  /\ DInv'
           /\ pc' = "inWrite" => /\ fe' \in tree /\ node[fe'].fd = e.fd
                                 /\ "W" \in node[fe'].mask /\ cur' = cur
<1>1. /\ pc = "write" /\ UNCHANGED <<registry, kernel, fired>>
      /\ IF WriteDue(e)
         THEN /\ pc' = IF fe \in heap /\ "W" \in node[fe].procs THEN "inWrite" ELSE "crashed"
              /\ UNCHANGED <<cur, fe>>
         ELSE pc' = "batch" /\ cur' = {}
  BY DEF WritePhase, CallHandler, EndEvent
<1>2. Target(e)
  BY <1>1 DEF DInv, Current
<1>3. UNCHANGED <<tree, node, interest>>
  BY <1>1 DEF registry, kernel
<1>4. Handled'
  BY <1>3 DEF DInv, Handled
<1>5. CASE WriteDue(e)
  <2>1. fe \in tree /\ node[fe].fd = e.fd /\ "W" \in node[fe].mask
    BY <1>2, <1>5 DEF Target, WriteDue, Live, IInv, BlocksAccounted
  <2>2. fe \in heap /\ "W" \in node[fe].procs
    BY <2>1 DEF IInv, BlocksAccounted, DInv, Handled
  <2>3. Pending'
    BY <1>1, <1>3, <1>5, <2>2 DEF DInv, Pending, Dispatching
  <2>4. Current'
    BY <1>1, <1>5, <2>2 DEF DInv, Current
  <2>. QED  BY <1>1, <1>4, <1>5, <2>1, <2>2, <2>3, <2>4 DEF DInv
<1>6. CASE ~WriteDue(e)
  BY <1>1, <1>3, <1>4, <1>6 DEF DInv, Pending, Current, Dispatching
<1>. QED  BY <1>5, <1>6

\* All other steps of the loop.
LEMMA OtherLoopDInv ==
    ASSUME IInv, DInv,
           \/ Run \/ Exit \/ ReadReturn \/ WriteReturn \/ TimerPhase \/ TimerReturn
           \/ StopEventLoop \/ DeleteEventLoop \/ UNCHANGED vars
    PROVE  DInv' /\ (pc' \in {"inRead", "inWrite"} => pc' = pc)
<1>1. CASE StopEventLoop \/ UNCHANGED vars
  BY <1>1, SameBlocks DEF StopEventLoop, vars, kernel
<1>2. CASE Run \/ Exit \/ TimerPhase \/ TimerReturn
  <2>1. /\ UNCHANGED <<registry, kernel, batch>>
        /\ fired = {} /\ cur = {}
        /\ pc' \in {"top", "done", "inTimer"}
    BY <1>2 DEF Run, Exit, TimerPhase, TimerReturn, DInv, Pending, Current, Dispatching
  <2>. QED  BY <2>1 DEF DInv, Handled, Pending, Current, registry, batch
<1>3. CASE ReadReturn
  <2>1. UNCHANGED <<registry, kernel, batch>> /\ pc = "inRead" /\ pc' = "write"
    BY <1>3 DEF ReadReturn
  <2>2. UNCHANGED <<tree, node, free, fired, cur, fe, interest>> /\ FreeSet' = FreeSet
    BY <2>1 DEF registry, kernel, batch, FreeSet
  <2>3. \A e \in cur : Target(e)'
    BY <2>1, <2>2 DEF DInv, Current, Target
  <2>4. Handled' /\ Pending'
    BY <2>1, <2>2 DEF DInv, Handled, Pending, Dispatching
  <2>5. Current'
    BY <2>1, <2>2, <2>3 DEF DInv, Current
  <2>. QED  BY <2>1, <2>4, <2>5 DEF DInv
<1>4. CASE WriteReturn
  <2>1. /\ UNCHANGED <<registry, kernel, fired>>
        /\ pc = "inWrite" /\ pc' = "batch" /\ cur' = {}
    BY <1>4 DEF WriteReturn, EndEvent
  <2>. QED  BY <2>1 DEF DInv, Handled, Pending, Current, Dispatching, registry, kernel
<1>5. CASE DeleteEventLoop
  <2>1. /\ UNCHANGED batch /\ fired = {} /\ cur = {}
        /\ pc' = "deleted" /\ tree' = {}
    BY <1>5 DEF DeleteEventLoop, DInv, Pending, Current, Dispatching
  <2>. QED  BY <2>1 DEF DInv, Handled, Pending, Current, batch
<1>. QED  BY <1>1, <1>2, <1>3, <1>4, <1>5

-----------------------------------------------------------------------------
(* The contract.                                                           *)

\* What DispatchContract says of a step.
Contract ==
    /\ pc' # "crashed"
    /\ \A dir \in Dirs :
         LET running == IF dir = "R" THEN "inRead" ELSE "inWrite"
         IN  pc # running /\ pc' = running =>
               /\ fe' \in tree
               /\ \E e \in cur' :
                    /\ node[fe'].fd = e.fd
                    /\ dir \in node[fe'].mask
                    /\ e.fd < SetSize => dir \in want[e.fd]

\* A node in the tree has what its caller holds registered.
LEMMA Wanted ==
    ASSUME IInv, NEW n \in tree, NEW fd \in Fds, node[n].fd = fd, fd < SetSize
    PROVE  want[fd] = node[n].mask
<1>1. RegMask(fd) = node[n].mask
  BY RegMaskSound DEF IInv
<1>. QED  BY <1>1 DEF IInv, RegistryAgrees, KernelBacked

\* A handler starts in one of the two halves; everything keeps DInv.
LEMMA StepDInv ==
    ASSUME IInv, DInv, WellBehaved, [Next]_vars
    PROVE  DInv' /\ Contract
<1> DEFINE Quiet == pc' \in {"inRead", "inWrite"} => pc' = pc
<1>1. ASSUME DInv', Quiet  PROVE Contract
  BY <1>1 DEF Contract, DInv, Dirs
<1>2. CASE Caller
  <2>1. UNCHANGED pc
    BY <1>2 DEF Caller, CreateFileEvent, DeleteFileEvent, OpenFd, CloseFd
  <2>2. DInv'
    BY <1>2, CreateDInv, DeleteDInv, OpenCloseDInv DEF Caller
  <2>. QED  BY <1>1, <2>1, <2>2
<1>3. CASE Poll \/ PollStop
  <2>1. pc' = "batch"
    BY <1>3 DEF Poll, PollStop
  <2>. QED  BY <1>1, <1>3, <2>1, PollDInv
<1>4. ASSUME NEW e \in fired, ReadPhase(e)  PROVE DInv' /\ Contract
  <2>1. /\ DInv'
        /\ pc' = "inRead" => /\ fe' \in tree /\ node[fe'].fd = e.fd
                             /\ "R" \in node[fe'].mask /\ cur' = {e}
    BY <1>4, ReadPhaseDInv
  <2>2. e.fd \in Fds /\ pc' # "inWrite"
    BY <1>4 DEF IInv, TypeOK, Entries, ReadPhase, CallHandler
  <2>3. CASE pc' = "inRead"
    <3>1. e.fd < SetSize => "R" \in want[e.fd]
      BY <2>1, <2>2, <2>3, Wanted
    <3>. QED  BY <2>1, <2>3, <3>1 DEF Contract, DInv, Dirs
  <2>4. CASE pc' # "inRead"
    BY <1>1, <2>1, <2>2, <2>4
  <2>. QED  BY <2>3, <2>4
<1>5. ASSUME NEW e \in cur, WritePhase(e)  PROVE DInv' /\ Contract
  <2>1. /\ DInv'
        /\ pc' = "inWrite" => /\ fe' \in tree /\ node[fe'].fd = e.fd
                              /\ "W" \in node[fe'].mask /\ cur' = cur
    BY <1>5, WritePhaseDInv
  <2>2. e.fd \in Fds /\ pc' # "inRead"
    BY <1>5 DEF IInv, TypeOK, Entries, WritePhase, CallHandler
  <2>3. CASE pc' = "inWrite"
    <3>1. e.fd < SetSize => "W" \in want[e.fd]
      BY <2>1, <2>2, <2>3, Wanted
    <3>. QED  BY <1>5, <2>1, <2>3, <3>1 DEF Contract, DInv, Dirs
  <2>4. CASE pc' # "inWrite"
    BY <1>1, <2>1, <2>2, <2>4
  <2>. QED  BY <2>3, <2>4
<1>6. CASE \/ Run \/ Exit \/ ReadReturn \/ WriteReturn \/ TimerPhase \/ TimerReturn
           \/ StopEventLoop \/ DeleteEventLoop \/ UNCHANGED vars
  BY <1>1, <1>6, OtherLoopDInv
<1>. QED  BY <1>2, <1>3, <1>4, <1>5, <1>6 DEF Next, Loop

\* With disciplined callers no handler is called that is not there or not
\* registered, for any number of descriptors, of registrations and of slots.
THEOREM HandlersAreLive ==
    ASSUME WellBehaved
    PROVE  Spec => DispatchContract
<1>1. Init => DInv
  BY DEF Init, DInv, Handled, Pending, Current
<1>2. IInv /\ DInv /\ [Next]_vars => DInv' /\ Contract
  BY StepDInv
<1>3. Spec => [][Contract]_vars
  BY <1>1, <1>2, Invariant, PTL DEF Spec
<1>. QED  BY <1>3, PTL DEF Contract, DispatchContract
=============================================================================
