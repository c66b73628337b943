# TLA+ models of c_util

c_util is a library of C tools drawn from redis, twemcache and libevent: an event
loop on epoll with file events and timers, intrusive containers, a spinning
reader-writer lock, buffers, sockets, strings and logging.  This directory holds
TLA+ modules that model it, the TLC configurations that check them on small
instances, and theorems checked by TLAPS.

Run them here:

    tlc -config files_dispatch.cfg MCFileEvents     # any line of the table of runs
    tlapm FileEventsProofs.tla                      # any module of proofs

## The system

| Component | State | Operations | Used by |
|---|---|---|---|
| event loop, file events (`ez_event.c`) | red-black tree of `ez_file_event_t`, stack `free_events` of recycled blocks, `count`, array `fired`, `stop` | create/delete file event, process a batch, create/run/stop/delete loop | handlers call back into it |
| epoll backend (`ez_epoll.c`, included by `ez_event.c`) | epoll set, eventfd, result array | create, delete, add, del, poll, stop | file events |
| event loop, timers (`ez_event.c`) | list ordered by `when_ms`, `timeNextId`, `lastTime`, the local stack `re_put` | create/delete timer, `process_time_events` | callbacks call back into it |
| red-black tree (`ez_rbtree.c`) | nodes linked by left, right, parent and colour, one sentinel per tree | insert, delete, find, min, foreach | file events, the echo server's clients |
| list (`ez_list.c`) | circular doubly linked list | add, del, `LIST_FOR`, foreach | timers, hash |
| reader-writer lock (`ez_rwlock.c`) | `write`, `read` | rlock, runlock, wlock, wunlock | threads |
| hash table (`ez_hash.c`) | array of list heads | create, put, get, del | callers |
| max heap (`ez_max_heap.c`) | array, `n`, `a` | push, pop | callers |
| byte buffer (`ez_bytebuf.c`) | `data`, `r`, `w`, `cap` | read/write integers, reset, resize | sockets |
| sockets (`ez_net.c`) | descriptors, `errno` | servers, accept, connect, flags, close, read, write | echo server |
| strings (`ez_string.c`) | none | UTF-8, bounded printf | log |
| allocation (`ez_malloc.c`) | `used_memory` | malloc, calloc, realloc, free, memalign | all |
| conversions and clock (`ez_util.c`) | none | number parsing, `ez_read_file`, `mstime` | timers, log |
| log (`ez_log.c`) | descriptor, level, file name | init, release, reopen, level, entries, panic, dump | all |
| daemon (`ez_daemon.c`) | the standard descriptors | `ez_daemonize` | programs |
| echo server (`test/echo_s.c`) | client table, `client->mask` | accept and client handlers, a cleaning timer | sample of a caller |
| test runner (`ez_test.c`) | | run | tests |

Components meet through calls within one thread: the loop calls handlers and timer
callbacks, these call back into the loop while it walks its batch or its list.  They
also meet, without knowing of each other, in the process's table of descriptors.
Concurrent are `ez_stop_event_loop`, called from signal handlers, which talks to the
loop through an eventfd; the threads at a reader-writer lock; and threads that
allocate, with the counter `used_memory`.

What is hard here:

- the registry changes while a batch is being dispatched (stale pointer `fe`, stale
  masks, recycled blocks), and the timer list changes while it is walked (saved next
  pointer);
- a registration is kept in three places, the tree, the kernel and the caller, and
  `epoll_ctl` can fail between them;
- limits: `setsize` registrations, `setsize` results per poll, a counter in the
  eventfd, 64-bit deadlines cut to `int`, buffers of fixed size;
- a wall clock that is set back; a sleep that a signal interrupts;
- tree repairs over several levels with a sentinel that is written to;
- the race of a reader's increment with a writer's flag;
- descriptors: every function that opens several may fail after some of them, a
  closed number is soon somebody else's, and 0, 1 and 2 are treated apart.

What makes each part correct: every block is in exactly one place; tree, kernel and
caller agree; only registered handlers are entered; a stop request ends the loop;
the queue stays sorted and loses or doubles no timer; a due timer fires, and fires
once per walk; the loop sleeps no longer than to its first deadline; the tree keeps
its rules and the sentinel; the lock excludes and does not starve a writer that has
the flag; containers do what a set, a map and a priority queue do; a conversion
agrees with what is written; every descriptor has one owner or is closed.

`PROJECT.json` lists these as hazards with the line where each bites and the
property that covers it, or the reason why none does.

## Modules

| Module | Models | Notes |
|---|---|---|
| `FileEvents` | file events and the epoll backend | one action per call, per half of a dispatch and per step of the loop |
| `TimeEvents` | timers, poll timeout, clock, interrupted sleep | |
| `EventLoop` | the two composed on the one thread | instantiates both; implements both |
| `ReadersWriters` | what a reader-writer lock promises | abstract |
| `RWLock` | `ez_rwlock.c`, one action per memory access | implements `ReadersWriters` (`Abs`, `AbsSpec`) |
| `NodeSet` | what a tree promises its callers: a set of nodes | abstract |
| `RBTree` | `ez_rbtree.c`, pointer by pointer | implements `NodeSet`; loops are bounded by the number of nodes |
| `List` | `ez_list.c`, pointer by pointer | operators over a memory of links |
| `ShadowMap` | what a hash table promises: per key a stack of values | abstract |
| `Hash` | `ez_hash.c` over `List` | implements `ShadowMap` |
| `MaxHeap` | `ez_max_heap.c` | the loops of push and pop are recursive functions |
| `Alloc` | `used_memory` of `ez_malloc.c` with threads | |
| `ByteBuf` | `ez_bytebuf.c`: block, positions, reset, resize, integers | operators on a record |
| `Utf8` | encoder and decoder of `ez_string.c` | beside the table of the encoding |
| `Numbers` | number parsers of `ez_util.c` | beside the value that is written |
| `Connection` | one connection of `test/echo_s.c` over `ez_net_read_bf` and `ez_net_write_bf` | extends `ByteBuf` |
| `FdTable` | the kernel's table of descriptors | external; lowest free number first |
| `Log` | `ez_log.c` and the lengths of `ez_vsnprintf` | extends `FdTable` |
| `Sockets` | the functions of `ez_net.c` that make, change and close sockets | extends `FdTable` |
| `Process` | `Log`, `Sockets`, `ezApiCreate`/`ezApiDelete`, `ez_read_file`, `ez_daemonize` in one process | |
| `Library` | `RBTree`, `Hash`, `Alloc` and `MaxHeap` side by side | names the properties that `MCLibrary` checks and `LibraryProofs` proves |
| `Conversions` | `Numbers`, `Utf8` and the integers of `ByteBuf`, with what they are given | names the properties that `MCLibrary` checks and `DataProofs` proves |
| `...Proofs` | theorems about `FileEvents`, `TimeEvents`, `EventLoop`, `RWLock`, `Process`, `Library`, and in `DataProofs` about `Connection` and `Conversions` | TLAPS |
| `Iteration` | lemmas on induction, recursive functions and sums | TLAPS |
| `MC...` | constants for TLC | `MCLibrary` puts the containers and conversions into one run |

**FileEvents.**  `tree` is the set of nodes in `rbtree_events` (the tree itself is
`RBTree`'s subject), `node` the contents of each block, `free` the stack
`free_events`, `heap` what malloc has handed out.  `interest` is the kernel's epoll
set, `want` what callers believe to be registered (`client->mask` in
`test/echo_s.c`).  `ez_create_file_event` is the disjunction of `CreateRefused`,
`CreateNew`, `CreateNewFails`, `CreateMore` and `CreateMoreFails`, one per way
through the function.  `ReadPhase` and `WritePhase` are the two halves of the
dispatch loop's body; between a `CallHandler` and its return the callers' actions
are enabled, which is how handlers call back.  `fe` survives from the first half
into the second, as in the code.  `pc = "crashed"` stands for a call through a NULL
handler or a freed block.  Handlers' identities and `clientData` are left out: a
direction has a handler or it has none.

**TimeEvents.**  `list` is the queue, `reput` the stack `re_put`, `pos` the
position of `LIST_FOR` and, while a callback runs, its saved next pointer.
`Advance` follows it, and the walk ends as `crashed` if it was freed.  Time is in milliseconds;
`Seconds` is `time(NULL)`.  `Tick` lets time pass between any two steps, `SetClock`
sets the clock while the loop sleeps, `Interrupted` is the signal after which
`ezApiPoll` sleeps the whole timeout again (`lost` counts what it had slept
before).  `ToInt` is the conversion to `int`, with a smaller width `IntSpan`.

**EventLoop.**  In `FileEvents` the timers are a phase that may take any time, and in
`TimeEvents` the files are; here each phase is the other module.  `Wake` joins their
views of `epoll_wait`: with a result it returns before the timeout, without one only
when the timeout is over.  `Call` lets the setup, a file handler and a timer callback
create and withdraw events of both kinds.

**RWLock.**  Each `pc` value stands before one access to `write` or `read`.
Spinning without a change is stuttering.

**RBTree.**  `tree` is the memory: root, children, parents and red nodes.  The C code
spells every case twice, once per side; operators here take the side as a parameter.
A body of a `while` loop is one operator (`InsertStep`, `DeleteStep`, the steps of the
searches), and the loop a recursive function of the rounds it has made, at most
`Rounds`, the number of nodes; the proofs show that no loop would make more.  An insertion
or deletion is one step, since the tree is not shared between threads.

**List, Hash.**  `AddBetween`, `Unlink` and `Del` are the assignments of `ez_list.c` in
their order; every bucket of `Hash` is a ring of cells.  `hash_create` clamps the
number of buckets as `uint32_t` values, so a negative request gives the maximum; the
index is masked with that number less one, power of two or not.  A deleted item is
unlinked and never given back to malloc, which is why `heap` only grows.

**MaxHeap, Numbers, Utf8, ByteBuf's integers.**  Pure functions of the code, written
out with its own order of tests and its own arithmetic, next to a definition of what
they should compute: the largest element of a bag, the value of the digits, the table
of UTF-8, the identity of writing and reading.

**Alloc.**  An allocation is two steps, malloc and the addition; a release is two, the
subtraction and free; a `realloc` has both.  Other threads run between them.

**Connection.**  `KernelRead` and `KernelWrite` are the system calls with every
result a non-blocking stream socket gives; `Result` is what `ez_net_read` and
`ez_net_write`, which are the same text, make of it.  `errno` is a variable because
the code reads it after calls that do not set it.  `ReadClient`, then one of
`ReadAgain`, `Echo`, `CloseClient`, is the readable half of `echo_client_handler`,
`Welcome` the writable half; the peer acts between them.  The dispatch is what
`FileEvents` shows: read before write, as long as something is registered.  The
sample assigns the result of `bytebuf_resize`, which returns nothing in this version
of the library; the model takes the call for its effect on the buffer.

**FdTable, Log, Sockets, Process.**  `table` says what every number refers to, and a
new descriptor gets the lowest free one.  `Log` keeps the logger's static structure,
which is zeroed before `log_init`: number 0, level `LOG_EMERG`.  The functions of
`Sockets` may fail at every system call; `Tried` is what the addresses that were
given up have left in the table, and `held` the sockets callers keep, with the
function that made each.  `Process` adds the loop's two descriptors, `ez_read_file` as
what it leaves behind, and `ez_daemonize` from its redirection on.  The process starts
with any set of its standard descriptors that `Starts` allows.

`Disciplined` (in `FileEvents`) restricts file handlers to what the code can cope
with: a handler leaves other descriptors of the current batch alone, withdraws its own
descriptor as a whole, and registers nothing afterwards.  The handlers of
`test/echo_s.c` keep these rules.  Nothing in the code enforces them, so each property
says in which run it is checked.  Timer callbacks are under no such rule: they create
and delete any timer, the running one, one that has fired and the saved next one
included.

What is assumed of all callers, disciplined or not:

- A descriptor is closed only after its registrations were withdrawn (`CloseFd`).  The
  kernel drops a closed descriptor by itself and the loop keeps its node, so that the
  agreement of tree and kernel ends there.  A caller may withdraw in vain, which is what
  happens to large descriptors.
- `log_release` and `log_reopen` come after a `log_init`.  The zeroed logger has number
  0, so that `log_release` before it closes the standard input of the process.
- `log_init` does not come while a log file is open (`LogOwns`): the code forgets the
  old number, which stays open.  After `log_release`, after a file that could not be
  opened, and on stderr it may come again, and does in the model.

A definition whose comment starts with `Slip` is a plausible mistake: a variant of
the definition that follows it, kept to show that a property notices it.

## Runs

| Run | Module | Instance | Shows |
|---|---|---|---|
| `files_recycling` | MCFileEvents | descriptors 0, 2; `SetSize` 2; three blocks; any mask, `epoll_ctl` may fail, error-only events, no discipline; one stop request | `BlocksAccounted`, `RegistryAgrees`, `NothingLeaks` |
| `files_dispatch` | MCFileEvents | descriptors 0, 1, 2; `SetSize` 2; disciplined; one stop request; fair | `TypeOK`, `CountExact`, `DispatchContract`, `StopQuits` |
| `files_stop_twice` | MCFileEvents | two stop requests; fair | `StopQuits` is violated |
| `files_error_only` | MCFileEvents | error-only events | `ErrorReachesActiveHandler` is violated |
| `timers_queue` | MCTimeEvents | three timers, periods 0 and 1, four milliseconds, clock may be set, one signal; callbacks delete anything | `Sorted`, `TimersAccounted`, `WalkIsComplete`, `SkewBounded`, `OncePerPass` |
| `timers_interrupted` | MCTimeEvents | two timers, one signal | `SleepsUntilNextTimer` is violated |
| `event_loop` | MCEventLoop | one descriptor, two timers, delays and walks beyond the width of `int`; one stop request, one signal; fair | `SleepBounded`, `NothingOutlives`, `DueFires`, `StopQuits` |
| `rwlock` | MCRWLock | four threads; fair | `MutualExclusion`, `CountersExact`, `AbsSpec`, `FlagWins`, `SomebodyEnters` |
| `library` | MCLibrary | one part per behaviour: tree, hash, heap, allocation, numbers, text, integers | `TreeRules`, `SearchesAgree`, `TreeAbs`; `RingsSound`, `AbsSpec`; `HeapContract`; `UsedMemoryExact`; `NumbersLaw`; `Utf8Law`; `IntegersKept` |
| `descriptors` | MCProcess | six numbers, two sockets, started with all standard descriptors, without 0, or without 2 | `NothingStrays`, `OwnersAgree`, `SocketsReady`, `LogContract` |
| `connection` | Connection | buffer and send buffer of 2 bytes, a peer that sends 5; fair | `TypeOK`, `EchoInOrder`, `RegisteredLives`, `ClosedForCause`, `EndSeen` |
| `connection_end` | Connection | the same, 2 bytes | `EndReadsOkZero` is violated |

**Bounds.**  Two descriptors are enough for a handler to act on itself and on
another one, pending or not; in `files_recycling` one of them is below `SetSize` and
one is not, and together they fill the loop.  Three with `SetSize` 2 make it refuse one
and fill a batch.  Three timers are one that runs,
one that is saved as next, and one behind it.  `MaxNow` stops the clock (a sleeper's
timeout still runs down), `WalkSpan` bounds how long a walk or the setup takes,
`Ids` how many timers are ever created, `MaxStops` the stop requests, `MaxSignals`
the interruptions.  `MsPerSec` is 2 and `OverdueWait` is 2 instead of 1000 and 100:
what matters is that a second is coarser than a millisecond.  In `event_loop` an `int`
has the six values from -3 to 2 (`IntSpan`), a walk may take four milliseconds and a
callback may ask for a delay of eight, so that both a deadline far ahead and one that
passed long ago wrap.  In `event_loop` one
descriptor with one slot makes files and the eventfd compete, and two timers are
one that is due while the other one runs.

In `library`, any order of calls on six nodes with a repeated key covers every case
of a single repair, and draining ten passes through trees in which the repair climbs.
Three keys with colliding hash values, three items and two to four buckets put keys
that differ into one ring and let a put hide another.  A heap of up to six values
grows past its capacity and has a third level.  Two threads and three addresses let a
block change hands between the two steps of a call.  Texts of up to four characters
with a `long` of eight bits and an `int` of six reach both limits from both sides;
wide characters are taken at both ends of every class of UTF-8.  In `descriptors`,
`MaxFd` is 5, so that three numbers above the standard ones run out, and `MaxHeld`
bounds the sockets callers keep.  Entries use a buffer of 32 bytes with heads shorter
and longer than it.  In `connection`, five bytes through a buffer of two fill it,
leave a remainder at each position and reset it; a send buffer of two is full after
one welcome message.

`CHECK_DEADLOCK FALSE` where the system really stops: a deleted loop, a drained
tree, a clock at its bound, a full table, a process that has aborted, a closed
connection.  Symmetry is used for blocks and hash items only, in runs without
liveness; malloc's addresses are never compared.

**Fairness.**  `FileEvents` and `EventLoop`: the loop's thread runs and handlers return
(`WF_vars(Loop)`); strong fairness of the wake-up by the eventfd (`PollStop`) says
that epoll serves level-triggered entries in rotation, moving reported entries to the
end of its ready list, so that the eventfd is reported although other descriptors can
fill every slot.  `EventLoop` adds that time passes (`WF_vars(Tick)`).  Nothing is
assumed of callers, of signals and of `ez_stop_event_loop`.  `RWLock`: each thread that
has called a lock keeps running and critical sections end; no thread has to call.
`Connection`: the loop runs and epoll, level triggered, reports all that is ready; the
peer owes nothing.

## Findings

Violations, each with a run of its own:

- **A second stop request cancels the first** (`ez_epoll.c:20`, `files_stop_twice`).
  The eventfd adds up; 510 is not `_STOP_CMD`.  Two signals of those
  `test/cust_sign.h:29-31` maps to the quit handler, before the loop wakes, and the
  server runs on.
- **A hang-up calls a NULL handler** (`ez_event.c:460`, `files_error_only`).  An error
  without IN or OUT is dispatched in both directions although only one is registered;
  the comment in `ez_epoll.c:150-154` promises an active handler.
- **A signal makes the loop oversleep** (`ez_epoll.c:135`, `timers_interrupted`):
  `epoll_wait` is called again for the whole timeout, against the comment in
  `ez_event.c:407-408`.
- **The end of file can look like EAGAIN** (`ez_net.c:594`, `connection_end`): `errno` is
  read after a `read` that returned 0 and left it alone.  `test/echo_c.c:74` says that
  reading from a closed peer always gives `NET_OK` and 0.  `EndSeen` shows that a stale
  `errno` is the only reason why the server does not free such a client.

Deviations that a property has to grant, so that it states what the code does:

- **Large descriptors cannot be withdrawn** (`ez_event.c:256`): `setsize` bounds the
  number of descriptors, by its comment and in `ez_create_file_event`, but
  `ez_delete_file_event` compares it with the descriptor itself.  Of descriptors from
  `setsize` on `RegistryAgrees` only says that what the caller wants is watched and that
  the loop has a node for what is watched.
- **A callback that deletes the next timer makes the walk read freed memory**
  (`ez_event.c:362,316`): the next position is saved before the callback runs, and
  nothing tells the callback which timer it is.  `WalkIsComplete` says that the walk
  breaks off for no other reason; the liveness of `EventLoop` ends there (`BrokenOff`).
- **An overdue timer waits up to 100 ms more** (`ez_event.c:445`): `SleepBounded`.
- **A timer that is overdue by more than 2^31 ms waits up to 2^31 ms more**
  (`ez_event.c:443`): the cut to `int` makes the distance positive again.
  `SleepBounded` says nothing of the sleep after so long a walk, and `event_loop`
  reaches it.
- **`log_panic` may return** (`ez_log.c:141`): a logger whose file could not be opened
  drops the entry before the abort.  `LogContract` grants it to loggers with a file, and
  says that with a descriptor no `log_panic` returns (`returned`).
- **`ez_net_set_closexec` sets nothing** (`ez_net.c:420`): `F_SETFL` does not reach
  `FD_CLOEXEC`.  `SocketsReady` says that no socket has the flag.
- **Descriptors that are never closed**: epoll's when there is no eventfd
  (`ez_epoll.c:44`), and number 0 as a socket or file (`ez_net.c:256`,
  `ez_util.c:240`).  `NothingStrays` lists them.
- **UTF-8** (`ez_string.c:75,120`): the character behind an ASCII one is skipped, and
  two-byte characters are decoded with the wrong shift.  `Utf8Law`.
- **The heap loses its order** (`ez_max_heap.c:72`): the last value goes into the hole at
  the bottom without moving up again.  `HeapContract` exempts that value.
- **Numbers beyond the width of their result succeed** (`ez_util.c:184`): `NumbersLaw`
  claims exactness within the width.
- **`used_memory` runs low** (`ez_malloc.c:160`): `ez_memalign` is not added, but
  subtracted when freed.  `UsedMemoryExact` counts what it owes.

A related limit is part of `ClosedForCause`: the server's buffer is not compacted and
its resize does not enlarge it (`test/echo_s.c:67`), so a peer that sends without
receiving fills it, and the read into no room is taken for the end of file.

Two observations have no run.  Timers with equal deadlines are queued latest first
(`ez_event.c:278`), while the comment in line 70 speaks of an order by time and id.  A
clock that is set back before the first walk is noticed only against the time of
`ez_create_event_loop`; `SkewBounded` bounds the setup for this reason.

## Proofs

TLAPS checks the following for every value of the constants that satisfies the named
assumptions of the modules: `FileEventsAssumption`, `TimeEventsAssumption`,
`EventLoopAssumption` (the two for the constants of the whole), `RWLockAssumption`,
`ConnectionAssumption`, `FdTableAssumption`, `LogAssumption`, `ProcessAssumption`,
`ListAssumption`, `HashAssumption`, `AllocAssumption`, `MaxHeapAssumption`,
`RBTreeAssumption`, `ConversionsAssumption`.  They say
that sets are finite, that counts and lengths are numbers, and that widths are even.

*FileEvents*: `TypeOK`, `CountExact`, `BlocksAccounted`, `RegistryAgrees` and
`NothingLeaks`, for any finite set of descriptors, any `SetSize`, any number of stop
requests, with failing `epoll_ctl`, error-only events and undisciplined callbacks.  The
inductive invariant `IInv` is their conjunction with the finiteness of `heap`; none of
the parts is inductive alone.  That a recycled block is not in the tree
(`BlocksAccounted`) is what keeps `CountExact` and `RegistryAgrees` when `CreateNew`
overwrites it; that each descriptor has one node (`CountExact`) makes `Find` a function;
that tree and kernel agree (`RegistryAgrees`) makes `epoll_ctl` fail only for lack of
resources below `SetSize`.  From `SetSize` on the three views are only nested, the
caller's in the kernel's and the kernel's in the tree's (`KernelBacked`).  The proof has a lemma for each way through
`ez_create_file_event` and `ez_delete_file_event`, and `QuietStep` for all steps that
leave the registry alone.

*The dispatch* (also in `FileEventsProofs`): `DispatchContract`, for callers that are `WellBehaved`:
disciplined, one direction a call, as `test/echo_s.c` calls, because a mask of both
registers two directions and stores no handler (`ez_event.c`, `Installs`), and no
error-only events, which break the contract (`files_error_only`).  `DInv` has three parts
besides `pc # "crashed"`.  `Handled`: every registered direction has a handler.  `Pending`: what
an entry of the batch reports is still registered when its turn comes, as disciplined
handlers leave the entries that wait alone.  `Current`: between the two halves `fe` is
the entry's node or a block on the free list that nobody takes, because a handler that
withdraws its own descriptor registers nothing afterwards; the stale masks of that
block are why the second half does not call.

*TimeEvents*: `Sorted`, `TimersAccounted`, `OncePerPass`, `WalkIsComplete`,
`SleepBounded` and `SkewBounded`, for any set of ids, any periods and results of
callbacks, with interrupted sleeps.  The first part is about sequences: what inserting
and removing do to the order, to membership and to what stands before what.  The
inductive `IInv` has five parts.  `Queues` and `Places` say that every timer that was
not freed is in exactly one of `list`, `reput` and the running callback; that needs
`Walk`, which says that the walk stands at a queued timer or at the end, because
`Fire` would otherwise remove nothing; and `Walk` needs that a timer in the queue was
not fired in this walk, from which `OncePerPass` follows.  `WalkIsComplete` needs no rule
for callbacks: `MetInv` says that what is queued during a walk is still ahead of it or was
created in it, and afterwards was fired, was created in it or is not due, as nothing is
that stands behind a timer that is not due; `Walk` says that a saved next timer which is
gone was deleted by the callback.  `SleepBounded` is proved for a clock that is not set and without
a bound on deadlines: `LateInv` says that a queued timer is overdue, when a timeout is
computed, by no more than the walk before has taken, and `WaitInv` follows the timeout
through the conversion and the sleep.  `SkewBounded` rests on an invariant of its own, `ReachInv`: once
a walk has ended, every deadline is within the largest delay of the second in which
that walk began, so that a clock set back before this second makes all timers fire,
and one set back less far postpones none by more than the second.

*EventLoop*: `ImplementsFiles` and `ImplementsTimers` say that the whole implements each
half, step by step, so that all of the above holds of the whole; `SleepsNoLonger` and
`Nothing_Outlives` make two properties of it.  The second one belongs to neither half:
it also needs `InStep`, that the two halves change phase together, as a timer on
`re_put` or in its callback would not be freed with the queue.

*RWLock*: `CountersExact` and `MutualExclusion` for any finite set of threads, and
`Refinement`: `Spec => AbsSpec`.  Exclusion is not inductive: that no reader is counted
when a writer leaves `wDrain`, and that the flag is up while one holds it, is
`CountersExact`.

*Connection*: `TypeOK`, `RegisteredLives`, `ClosedForCause` and `EchoInOrder` for all sizes.  `LInv` says
that `client->mask` equals the registration at every step, and that a read in progress
belongs to a live client whose read half is not due again.  `Typed` fixes the size of
the buffer, which `test/echo_s.c` resizes to the size it has.  `CauseInv` carries the
cause of an error from the kernel's result through `errno` to the decision to close.
`EInv` extends `EchoInOrder` to the time before the accept: the bytes of the stream in
what the peer has, what is on the way and what waits in the buffer (`Whole`) are 1, ...,
`taken`, ascending.  Reading adds at the end (`StreamGrows`), echoing and receiving move
a boundary between the parts (`WholeEchoed`, `WholeReceived`), and the welcome message
gets between bytes of the stream without moving any (`ZerosAnywhere`).

*Process*: `OwnersAgree`, `NothingStrays` and `SocketsReady` for a table of any size, any
number of sockets and any standard descriptors at the start; that only a logger with a
file drops a call, that `log_panic` returns from none that has a descriptor, and the length
of an entry for any buffer.  In the inductive `IInv`,
`Accounted` says from the side of the table who may refer to a descriptor of each kind,
`Exclusive` from the side of the owners that no number they have is free or has two
owners, also among 0, 1 and 2, where `OwnersAgree` promises nothing: a close would free
somebody else's number.  That a new descriptor gets the lowest number is used where a
process that has its standard ones never loses them; `LeastNumber` takes the existence
of that number from the well-foundedness of the natural numbers.  `LogContract` is
proved for entries and dumps of any length: a dump is a run of a function over its
bytes (`Iterated`), whose position never passes the end of the buffer.

*Alloc*: `UsedMemoryExact` for any number of threads and blocks.  The sums over blocks
and threads are recursive functions on sets; `SumChange` says what changing one summand
does, and the inductive `AllocInv` that no two calls in progress are about the same block.

*Hash and List*: `RingsSound`, and the refinement `Spec => AbsSpec`, for any numbers of
buckets, items and keys, any hash function and any request, a mask that is no power of
two less one included: that the masked value is a bucket (`MaskBelow`) is proved from
the bitwise definition.  `HashInv` says that the items of every bucket stand in a ring,
that the rings are disjoint, and that a deleted item points nowhere.  A ring is a
sequence without repetition whose neighbours point at one another, so that adding behind
the head and taking out are operations on sequences.  From it follows what a walk of the
ring finds, and with it that the values of a key are a stack (`StackOf`) whose top every
get and deletion takes.

*RBTree*: `TreeRules`, `SearchesAgree` and the refinement `TreeAbs`, for any number of
nodes, any integer keys, equal ones included, and any order of insertions and deletions.
`TreeRules` speaks of the tree that can be reached from the root, which says too little
of the rest of the memory to be inductive.  The inductive `InOrder` speaks of all of it:
the linked nodes form a search tree (`Shape`, which gives the set of nodes below each
node and orders it by key), black nodes are level (`Full`), no red node has a red child
(`ApartBut`), and everything else is cleared, the sentinel black (`Outside`).
Rotations keep `Shape` (`RotateShape`).  In the middle of an insertion the
tree is `Pushed`: only the new red node may have a red parent; each round of the repair
ends it or leaves one red node less (`InsertRound`).  In the middle of a deletion it is
`Holed`: one black node is missing on one side of one node, a side that may be empty, so
that the sentinel's parent is read; each round fills the gap or moves it up and leaves one
black node less (`DeleteRound`).  This count is why `Rounds` cuts no loop short.

*MaxHeap*: `HeapContract` for any values and any size.  `UpRises` and `DownSinks` say what
the holes of a push and of a pop do to the order, `UpKeeps` and `DownSinks` what they do to
the number of copies of every value: a push adds one copy of its argument, a pop takes one
of its result, and all other values stay as many.  They go by the distance of the hole from
the root.

*Utf8*: `Utf8Law` for any text (`EveryText`).  The loops of encoder and decoder are
functions of the place they have reached, and the table is a concatenation; that they
agree goes from the end of the text to its front, place by place, and for the decoder
along the bytes of one character at a time, which are a prefix of what is left.  The
length of four bytes a character holds for integers that are no characters as well.

*ByteBuf's integers*: `IntegersKept` for any number of integers, of any widths and orders,
and for any number of values of a byte (`IntegersComeBack`).  Quotients and remainders
by that number make the bytes of a value come back to it; that each integer finds its own
bytes where the one before it ended is an induction over what was written.

*Numbers*: `NumbersLaw` for any text, and any widths that `NumbersAssumption` allows
(`AnyNumber`).  `PartsTell` cuts a text into blanks, digits and blanks, and says by their
lengths whether it is a number; `NumberIs` that a number's value is that of its digits.
The loop of `ez_strtoull_len` stops at the first value that reaches a tenth of the limit,
and as digits only add (`DigitsAdd`), the one before the last decides.

Induction over data is done without an operator parameter: `LeastNumber` and `Induction`
speak of sets of numbers, and each proof names the set of the places, lengths or steps
for which its claim fails or holds.  That a recursive function is defined at all is a
lemma of its own (`Iterated`, `Descent`, `SumExists`).

Only model-checked is what TLAPS does not reach: liveness (`StopQuits`, `DueFires`,
`FlagWins`, `SomebodyEnters`, `EndSeen`) and enabledness.  Every other property of the
passing runs is a theorem, under the hypotheses named above.

## Not modelled

- The MurmurHash3 functions: third-party arithmetic.  `Hash` takes any hash function.
- Addresses and names (`getaddrinfo`, formatting), and socket options that no other
  step looks at.
- `ez_strncpy`, `ez_localtime_r` and the text of log entries and error messages.
- An out-of-memory handler that returns; the default one aborts.
- The fork, session and working directory of `ez_daemonize`: they change no state that
  another part sees.
- The interactive client, and the server's table of clients, which is only printed.
- The unit test runner, the aio sample, and the manual test of the tree.
- The relaxed memory order of `ATOM_INC` outside x86; a descriptor closed and reopened
  within a batch (excluded by the discipline); a clock set during a walk.

## Plan

What is left, in the order of what it would add: a variant of `RWLock` with relaxed
accesses; `TimeEvents` on top of the list's links.
