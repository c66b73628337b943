----------------------------- MODULE FileEvents -----------------------------
(***************************************************************************)
(* The file-event half of the event loop: ez_event.c with the epoll        *)
(* backend ez_epoll.c that it includes.                                    *)
(*                                                                         *)
(* The loop keeps one ez_file_event_t per registered descriptor in a       *)
(* red-black tree keyed by fd (here the set `tree', see RBTree.tla for the *)
(* tree itself), recycles the blocks of deleted registrations through the  *)
(* stack free_events, and mirrors every registration in the kernel's epoll *)
(* set (`interest').  epoll_wait fills a batch; each entry of the batch is *)
(* dispatched to a read and then to a write handler, and handlers and      *)
(* timer callbacks call back into ez_create_file_event and                 *)
(* ez_delete_file_event while the batch is still being walked.             *)
(*                                                                         *)
(* Data left out: clientData and the identity of handlers (only whether a  *)
(* direction has one), the timeout computed from the timers                *)
(* (TimeEvents.tla), log messages.                                         *)
(***************************************************************************)
EXTENDS Naturals, FiniteSets, Sequences

CONSTANTS
    Fds,         \* descriptor numbers the program may open
    SetSize,     \* argument of ez_create_event_loop
    Nodes,       \* addresses malloc may return for an ez_file_event_t
    NoNode,      \* the NULL pointer
    Masks,       \* masks callers pass to ez_create_file_event
    AddMayFail,  \* epoll_ctl may fail for lack of kernel resources
    ErrorOnly,   \* the kernel may report EPOLLERR/EPOLLHUP without IN or OUT
    Disciplined, \* callbacks keep to the rules of MayCreate, MayDelete, MayClose
    MaxStops     \* bound: calls of ez_stop_event_loop

Dirs == {"R", "W"}                  \* AE_READABLE, AE_WRITABLE
StopCmd == 255                      \* _STOP_CMD

ASSUME FileEventsAssumption ==
    /\ Fds \subseteq Nat
    /\ IsFiniteSet(Fds)
    /\ SetSize \in Nat \ {0}
    /\ NoNode \notin Nodes
    /\ Masks \subseteq SUBSET Dirs
    /\ AddMayFail \in BOOLEAN
    /\ ErrorOnly \in BOOLEAN
    /\ Disciplined \in BOOLEAN
    /\ MaxStops \in Nat

VARIABLES
    pc,       \* where the loop's thread is
    tree,     \* nodes in rbtree_events
    node,     \* contents of every block: fd, mask, which handlers are not NULL
    free,     \* free_events, a stack threaded through rb_node.parent
    heap,     \* blocks malloc has handed out and free has not taken back
    count,    \* registered descriptors, as the loop counts them
    interest, \* the kernel's epoll set: events watched per descriptor
    open,     \* descriptors that are open
    want,     \* what the callers hold registered (client->mask of the server)
    fired,    \* entries of the current batch not dispatched yet
    cur,      \* the entry being dispatched: a set of at most one entry
    fe,       \* the local variable fe of ez_process_events
    stop,     \* eventLoop->stop
    evcnt,    \* the eventfd's counter
    evIn,     \* the eventfd is in the epoll set
    stops     \* calls of ez_stop_event_loop so far

registry == <<tree, node, free, heap, count>>
kernel   == <<interest, open>>
batch    == <<fired, cur, fe>>
control  == <<stop, evcnt, evIn, stops>>
vars     == <<pc, registry, kernel, want, batch, control>>

Entries == [fd : Fds, mask : SUBSET Dirs]
Blocks  == [fd : Fds \cup {0}, mask : SUBSET Dirs, procs : SUBSET Dirs]

\* A zeroed block; also stands for the content of memory that is not ours.
Empty == [fd |-> 0, mask |-> {}, procs |-> {}]

\* ez_create_event_loop: an empty tree, no free block, count zeroed by ez_malloc.
Init ==
    /\ pc = "setup"
    /\ tree = {} /\ free = <<>> /\ heap = {} /\ count = 0
    /\ node = [n \in Nodes |-> Empty]
    /\ interest = [f \in Fds |-> {}]
    /\ want = [f \in Fds |-> {}]
    /\ open = {}
    /\ fired = {} /\ cur = {} /\ fe = NoNode
    /\ stop = FALSE /\ evcnt = 0 /\ evIn = FALSE /\ stops = 0

-----------------------------------------------------------------------------
(* The registry.                                                           *)

\* ez_fund_file_event: the tree node of a descriptor, or NULL.
Find(fd) ==
    IF \E n \in tree : node[n].fd = fd
    THEN CHOOSE n \in tree : node[n].fd = fd
    ELSE NoNode

\* What the loop believes to be registered for a descriptor.
RegMask(fd) == IF Find(fd) = NoNode THEN {} ELSE node[Find(fd)].mask

\* A handler is stored only when the mask is exactly one direction.
Installs(mask) == IF Cardinality(mask) = 1 THEN mask ELSE {}

Fresh(fd, mask) == [fd |-> fd, mask |-> mask, procs |-> Installs(mask)]

\* The blocks on the free list.
FreeSet == {free[i] : i \in DOMAIN free}

Merged(e, mask) ==
    [e EXCEPT !.mask = @ \cup mask, !.procs = @ \cup Installs(mask)]

\* The top of free_events if there is one, otherwise a block from malloc.
NewBlock(n) ==
    IF free = <<>> THEN n \in Nodes \ heap ELSE n = Head(free)

FreeAfterPop == IF free = <<>> THEN free ELSE Tail(free)

\* Error of epoll_ctl: resources, EEXIST for ADD, ENOENT for MOD.
CtlMayFail(fd, known) == AddMayFail \/ (interest[fd] # {}) # known

CtlMayPass(fd, known) == (interest[fd] # {}) = known

\* The caller learns that its registration was accepted.
Accepted(fd, mask) == want' = [want EXCEPT ![fd] = @ \cup mask]

\* Slip: off by one at the limit.
FullLate == count > SetSize

Full == count >= SetSize

\* Slip: the block of a failed registration is not freed.
HeapAfterFailedAddLeaks(n) == heap \cup {n}

HeapAfterFailedAdd(n) == heap \ {n}

\* No free slot: AE_ERR.
CreateRefused(fd) ==
    /\ Find(fd) = NoNode
    /\ Full
    /\ UNCHANGED <<registry, kernel, want>>

CreateNew(fd, mask) ==
    /\ Find(fd) = NoNode
    /\ ~Full
    /\ CtlMayPass(fd, FALSE)
    /\ \E n \in Nodes :
        /\ NewBlock(n)
        /\ heap' = heap \cup {n}
        /\ tree' = tree \cup {n}
        /\ node' = [node EXCEPT ![n] = Fresh(fd, mask)]
    /\ free' = FreeAfterPop
    /\ count' = count + 1
    /\ interest' = [interest EXCEPT ![fd] = mask]
    /\ Accepted(fd, mask)
    /\ UNCHANGED open

\* epoll_ctl(ADD) failed: the block, recycled or new, is given to free.
CreateNewFails(fd, mask) ==
    /\ Find(fd) = NoNode
    /\ ~Full
    /\ CtlMayFail(fd, FALSE)
    /\ \E n \in Nodes :
        /\ NewBlock(n)
        /\ heap' = HeapAfterFailedAdd(n)
        /\ node' = [node EXCEPT ![n] = Empty]
    /\ free' = FreeAfterPop
    /\ UNCHANGED <<tree, count, kernel, want>>

CreateMore(fd, mask) ==
    /\ Find(fd) # NoNode
    /\ CtlMayPass(fd, TRUE)
    /\ node' = [node EXCEPT ![Find(fd)] = Merged(@, mask)]
    /\ interest' = [interest EXCEPT ![fd] = mask \cup node[Find(fd)].mask]
    /\ Accepted(fd, mask)
    /\ UNCHANGED <<tree, free, heap, count, open>>

CreateMoreFails(fd) ==
    /\ Find(fd) # NoNode
    /\ CtlMayFail(fd, TRUE)
    /\ UNCHANGED <<registry, kernel, want>>

\* The early returns of ez_delete_file_event.
DeleteIgnored(fd) == fd >= SetSize \/ Find(fd) = NoNode \/ RegMask(fd) = {}

\* Slip: the kernel is only told when nothing is left.
CtlDelOnlyLast(fd, left) ==
    interest' = [interest EXCEPT ![fd] = IF left = {} THEN {} ELSE @]

\* ezApiDelEvent: MOD to what is left, DEL when nothing is.
CtlDel(fd, left) ==
    interest' = [interest EXCEPT ![fd] = IF @ = {} THEN {} ELSE left]

\* put_to_free_file_events
Recycled(n) == <<n>> \o free

\* Slip: every withdrawal is counted, the last one of a descriptor or not.
CountAfterAny(left) == count - 1

CountAfter(left) == IF left = {} THEN count - 1 ELSE count

DeleteBody(fd, mask) ==
    LET n    == Find(fd)
        left == node[n].mask \ mask
    IN  /\ CtlDel(fd, left)
        /\ node' = [node EXCEPT ![n].mask = left]
        /\ count' = CountAfter(left)
        /\ IF left = {}
           THEN /\ tree' = tree \ {n}
                /\ free' = Recycled(n)
           ELSE UNCHANGED <<tree, free>>
        /\ UNCHANGED <<heap, open>>

-----------------------------------------------------------------------------
(* Callers: the program before the loop runs, file handlers, and timer     *)
(* callbacks.  A handler that is Disciplined                               *)
(*   - does not touch another descriptor of the batch being dispatched,    *)
(*   - does not withdraw one direction of its own descriptor in the read   *)
(*     handler while keeping the other (it may withdraw all of it), and    *)
(*   - registers nothing after withdrawing its own descriptor.             *)
(* test/echo_s.c keeps all three.                                          *)

InHandler == pc \in {"inRead", "inWrite"}
Calling == InHandler \/ pc \in {"setup", "inTimer"}
PendingFds == {f.fd : f \in fired}
OwnFds == {f.fd : f \in cur}

MayCreate(fd) ==
    Disciplined /\ InHandler => fd \notin PendingFds /\ fe \in tree

MayDelete(fd, mask) ==
    Disciplined /\ InHandler =>
        /\ fd \notin PendingFds
        /\ fd \in OwnFds /\ pc = "inRead" => RegMask(fd) \subseteq mask

MayClose(fd) ==
    Disciplined /\ InHandler => fd \notin PendingFds

CreateFileEvent(fd, mask) ==
    /\ Calling
    /\ fd \in open
    /\ mask # {}
    /\ MayCreate(fd)
    /\ \/ CreateRefused(fd)
       \/ CreateNew(fd, mask)
       \/ CreateNewFails(fd, mask)
       \/ CreateMore(fd, mask)
       \/ CreateMoreFails(fd)
    /\ UNCHANGED <<pc, batch, control>>

DeleteFileEvent(fd, mask) ==
    /\ Calling
    /\ fd \in open
    /\ MayDelete(fd, mask)
    /\ IF DeleteIgnored(fd)
       THEN UNCHANGED <<registry, kernel>>
       ELSE DeleteBody(fd, mask)
    /\ want' = [want EXCEPT ![fd] = @ \ mask]
    /\ UNCHANGED <<pc, batch, control>>

\* accept, socket, pipe: the caller gets a descriptor
OpenFd(fd) ==
    /\ Calling
    /\ fd \notin open
    /\ open' = open \cup {fd}
    /\ UNCHANGED <<pc, registry, interest, want, batch, control>>

\* close: assumed of callers, disciplined or not, is that they close only
\* what they have withdrawn; the kernel forgets what the loop did not withdraw
CloseFd(fd) ==
    /\ Calling
    /\ fd \in open
    /\ want[fd] = {}
    /\ MayClose(fd)
    /\ open' = open \ {fd}
    /\ interest' = [interest EXCEPT ![fd] = {}]
    /\ UNCHANGED <<pc, registry, want, batch, control>>

\* ez_stop_event_loop, called from a signal handler or another thread.
StopEventLoop ==
    /\ stops < MaxStops
    /\ pc \notin {"deleted", "crashed"}
    /\ stops' = stops + 1
    /\ evcnt' = evcnt + StopCmd
    /\ UNCHANGED <<pc, registry, kernel, want, batch, stop, evIn>>

-----------------------------------------------------------------------------
(* The loop.                                                               *)

\* ez_run_event_loop up to the while; the result of adding the eventfd is
\* not looked at.
Run ==
    /\ pc = "setup"
    /\ pc' = "top"
    /\ evIn' \in (IF AddMayFail THEN BOOLEAN ELSE {TRUE})
    /\ UNCHANGED <<registry, kernel, want, batch, stop, evcnt, stops>>

\* The while condition fails; ezApiAfterPoll.
Exit ==
    /\ pc = "top"
    /\ stop
    /\ pc' = "done"
    /\ evIn' = FALSE
    /\ UNCHANGED <<registry, kernel, want, batch, stop, evcnt, stops>>

\* Masks ezApiPoll may make of one kernel entry: IN and OUT as reported, or
\* both when only an error or hang-up was.
Reported(fd) ==
    {m \in SUBSET interest[fd] : m # {}} \cup (IF ErrorOnly THEN {Dirs} ELSE {})

\* A result of epoll_wait: one entry per ready descriptor.
Results == {B \in SUBSET {e \in Entries : interest[e.fd] # {}
                                          /\ e.mask \in Reported(e.fd)} :
              /\ Cardinality(B) <= SetSize
              /\ \A a, b \in B : a.fd = b.fd => a = b}

Signalled == evIn /\ evcnt > 0

\* epoll_wait returned (possibly on its timeout) without the eventfd: it was
\* not signalled, or SetSize other descriptors took every slot.
Poll ==
    /\ pc = "top"
    /\ ~stop
    /\ \E B \in Results :
        /\ Signalled => Cardinality(B) = SetSize
        /\ fired' = B
    /\ pc' = "batch"
    /\ UNCHANGED <<registry, kernel, want, cur, fe, control>>

\* Slip: the command is compared with the wrong value.
StopAfterReadMisses == stop \/ evcnt > StopCmd

\* ezApiDoEventfdCmd: stop only on exactly one stop command
StopAfterRead == stop \/ evcnt = StopCmd

\* epoll_wait returned the eventfd too; it is read and left out of fired
PollStop ==
    /\ pc = "top"
    /\ ~stop
    /\ Signalled
    /\ \E B \in Results :
        /\ Cardinality(B) < SetSize
        /\ fired' = B
    /\ stop' = StopAfterRead
    /\ evcnt' = 0
    /\ pc' = "batch"
    /\ UNCHANGED <<registry, kernel, want, cur, fe, evIn, stops>>

\* Slip: the write half does not look at the mask again.
LiveUnlessNull(n) == n # NoNode

\* fe != NULL && fe->mask != AE_NONE, for a pointer that is still valid
Live(n) == n # NoNode /\ node[n].mask # {}

\* fe->rfileProc or fe->wfileProc through pointer n.  A block that was freed
\* holds anything: the call runs wild, and so does a call through NULL.
CallHandler(n, dir, running) ==
    pc' = IF n \in heap /\ dir \in node[n].procs THEN running ELSE "crashed"

\* First half of the loop body: fe is looked up and the read handler called.
ReadPhase(e) ==
    /\ pc = "batch"
    /\ e \in fired
    /\ fired' = fired \ {e}
    /\ cur' = {e}
    /\ fe' = Find(e.fd)
    /\ IF "R" \in e.mask /\ Live(fe')
       THEN CallHandler(fe', "R", "inRead")
       ELSE pc' = "write"
    /\ UNCHANGED <<registry, kernel, want, control>>

\* Second half: the same pointer again, however the read handler ended.
WriteDue(e) == "W" \in e.mask /\ (fe \notin heap \cup {NoNode} \/ Live(fe))

EndEvent == cur' = {} /\ fe' = NoNode

WritePhase(e) ==
    /\ pc = "write"
    /\ e \in cur
    /\ IF WriteDue(e)
       THEN CallHandler(fe, "W", "inWrite") /\ UNCHANGED <<cur, fe>>
       ELSE pc' = "batch" /\ EndEvent
    /\ UNCHANGED <<registry, kernel, want, fired, control>>

ReadReturn ==
    /\ pc = "inRead"
    /\ pc' = "write"
    /\ UNCHANGED <<registry, kernel, want, batch, control>>

WriteReturn ==
    /\ pc = "inWrite"
    /\ pc' = "batch"
    /\ EndEvent
    /\ UNCHANGED <<registry, kernel, want, fired, control>>

\* The batch is done: process_time_events, whose callbacks are callers
TimerPhase ==
    /\ pc = "batch"
    /\ fired = {}
    /\ pc' = "inTimer"
    /\ UNCHANGED <<registry, kernel, want, batch, control>>

TimerReturn ==
    /\ pc = "inTimer"
    /\ pc' = "top"
    /\ UNCHANGED <<registry, kernel, want, batch, control>>

\* ez_delete_event_loop: the epoll set is closed, the blocks of the free
\* list and of the tree are freed.
\* Slip: only the tree is walked.
FreedByDeleteTreeOnly == tree

FreedByDelete == tree \cup FreeSet

DeleteEventLoop ==
    /\ pc = "done"
    /\ pc' = "deleted"
    /\ heap' = heap \ FreedByDelete
    /\ tree' = {} /\ free' = <<>> /\ count' = 0
    /\ interest' = [f \in Fds |-> {}]
    /\ want' = [f \in Fds |-> {}]
    /\ UNCHANGED <<node, open, batch, control>>

-----------------------------------------------------------------------------
Loop ==
    \/ Run \/ Exit \/ Poll \/ PollStop
    \/ \E e \in fired : ReadPhase(e)
    \/ \E e \in cur : WritePhase(e)
    \/ ReadReturn \/ WriteReturn
    \/ TimerPhase \/ TimerReturn

Caller ==
    \/ \E fd \in Fds, mask \in Masks : CreateFileEvent(fd, mask)
    \/ \E fd \in Fds, mask \in SUBSET Dirs \ {{}} : DeleteFileEvent(fd, mask)
    \/ \E fd \in Fds : OpenFd(fd) \/ CloseFd(fd)

Next == Loop \/ Caller \/ StopEventLoop \/ DeleteEventLoop

Spec == Init /\ [][Next]_vars

\* The thread keeps running, handlers return, and epoll_wait serves ready
\* level-triggered entries in rotation, so that the eventfd is not passed
\* over for ever.
FairSpec ==
    /\ Spec
    /\ WF_vars(Loop)
    /\ SF_vars(PollStop)

-----------------------------------------------------------------------------
(* Properties.                                                             *)

PcValues == {"setup", "top", "batch", "inRead", "write", "inWrite", "inTimer",
             "done", "deleted", "crashed"}

\* Every variable has its type.
TypeOK ==
    /\ pc \in PcValues
    /\ tree \subseteq Nodes
    /\ node \in [Nodes -> Blocks]
    /\ free \in Seq(Nodes)
    /\ heap \subseteq Nodes
    /\ count \in Nat
    /\ interest \in [Fds -> SUBSET Dirs]
    /\ open \subseteq Fds
    /\ want \in [Fds -> SUBSET Dirs]
    /\ fired \subseteq Entries
    /\ cur \subseteq Entries
    /\ fe \in Nodes \cup {NoNode}
    /\ stop \in BOOLEAN
    /\ evcnt \in Nat
    /\ evIn \in BOOLEAN
    /\ stops \in Nat

\* The loop counts exactly the descriptors in the tree, each of them once and
\* with something registered, and never more than SetSize: the batch array
\* and the epoll_wait buffer hold SetSize entries.
CountExact ==
    /\ count = Cardinality(tree)
    /\ count <= SetSize
    /\ \A n \in tree : node[n].mask # {}
    /\ \A m, n \in tree : node[m].fd = node[n].fd => m = n

\* Every block malloc handed out is in the tree or on the free list, exactly
\* once: none leaks, none is linked twice, and recycling keeps the memory of
\* the registry within SetSize blocks for ever.
BlocksAccounted ==
    /\ heap = tree \cup FreeSet
    /\ \A n \in FreeSet : n \notin tree /\ node[n].mask = {}
    /\ \A i, j \in DOMAIN free : free[i] = free[j] => i = j
    /\ Cardinality(heap) <= SetSize

\* What a caller holds registered the kernel watches, and for what the kernel
\* watches the loop has a node, so that no entry of a new batch is dropped:
\* for every descriptor, large ones included.
KernelBacked ==
    \A fd \in Fds :
        /\ want[fd] \subseteq interest[fd]
        /\ interest[fd] \subseteq RegMask(fd)

\* The tree, the kernel and the caller agree on what each descriptor is
\* watched for, after every call and whatever failed in it: exactly below
\* SetSize, and as far as KernelBacked goes from SetSize on, where
\* ez_delete_file_event ignores what the caller withdraws.
RegistryAgrees ==
    /\ KernelBacked
    /\ \A fd \in Fds : fd < SetSize => RegMask(fd) \subseteq want[fd]

\* No call goes through a NULL handler or a freed block, and a handler is
\* entered only for the descriptor of the entry being dispatched and for a
\* direction that is registered for it at that moment: by the tree, and, where
\* ez_delete_file_event listens, by the caller.  It does not listen for a
\* descriptor that is not below setsize, although setsize is only the "max
\* number of file descriptors tracked" (ez_event.c:61).
DispatchContract ==
    [][pc' # "crashed" /\
       \A dir \in Dirs :
         LET running == IF dir = "R" THEN "inRead" ELSE "inWrite"
         IN  pc # running /\ pc' = running =>
               /\ fe' \in tree
               /\ \E e \in cur' :
                    /\ node[fe'].fd = e.fd
                    /\ dir \in node[fe'].mask
                    /\ e.fd < SetSize => dir \in want[e.fd]]_vars

\* "add these flags to handle the events at least in one active handler"
\* (ez_epoll.c:150-154): the added flags only ever reach an active handler.
ErrorReachesActiveHandler == pc # "crashed"

\* ez_delete_event_loop gives back every block, whatever happened before.
NothingLeaks == pc = "deleted" => heap = {}

\* The inductive strengthening of the registry's invariants: what each step of
\* create and delete relies on is what all the others keep.
IInv ==
    /\ TypeOK
    /\ IsFiniteSet(heap)
    /\ CountExact
    /\ BlocksAccounted
    /\ RegistryAgrees
    /\ NothingLeaks

\* Once ez_stop_event_loop has been called, ez_run_event_loop returns.
StopQuits == stops > 0 ~> pc \in {"done", "deleted"}
=============================================================================
