----------------------------- MODULE TimeEvents -----------------------------
(***************************************************************************)
(* The timer half of the event loop (ez_event.c): a list of time events    *)
(* kept in order of their deadlines, the timeout ez_process_events derives *)
(* from its head, and process_time_events, which walks the list with a     *)
(* saved next pointer while the callbacks it runs create and delete timers.*)
(*                                                                         *)
(* Time is the wall clock in milliseconds (mstime); time(NULL) is the same *)
(* clock in whole seconds of MsPerSec.  It advances between any two steps, *)
(* and it can be set while the loop sleeps.                                *)
(***************************************************************************)
EXTENDS Integers, SequencesExt

CONSTANTS
    Ids,         \* timer identifiers, 0 .. n-1; bound on timers ever created
    Periods,     \* periods callers ask for, in milliseconds
    Rets,        \* values timer callbacks return
    MsPerSec,    \* milliseconds per second of time(NULL)
    OverdueWait, \* the 100 ms poll timeout when the first timer is overdue
    IntSpan,     \* 2^32: tvp is an int, the deadlines are 64 bits wide
    WalkSpan,    \* bound: milliseconds a walk of the list, or the setup, may take
                 \* up to the computation of the timeout after it
    MaxNow,      \* bound: where the clock stops advancing
    ClockIsSet,  \* the administrator may set the clock
    MaxSignals   \* bound: signals that interrupt epoll_wait

End     == -1     \* the list head as a position, and no timer
Forever == -1     \* epoll_wait's infinite timeout

ASSUME TimeEventsAssumption ==
    /\ Ids \subseteq Nat
    /\ Periods \subseteq Nat
    /\ Rets \subseteq Int
    /\ MsPerSec \in Nat \ {0}
    /\ OverdueWait \in Nat \ {0}
    /\ IntSpan \in Nat /\ IntSpan % 2 = 0 /\ IntSpan > 2 * OverdueWait
    /\ WalkSpan \in Nat
    /\ MaxNow \in Nat
    /\ ClockIsSet \in BOOLEAN
    /\ MaxSignals \in Nat

VARIABLES
    pc,       \* "setup", "poll", "sleep", "files", "scan", "inProc", "reput", ...
    now,      \* the wall clock
    timeout,  \* what ezApiPoll passes to epoll_wait
    left,     \* what remains of it
    lost,     \* milliseconds slept before interruptions (history)
    asked,    \* the clock when the timeout was computed (history)
    signals,  \* interruptions so far
    list,     \* time_events
    reput,    \* re_put, the stack of fired timers to be queued again
    when,     \* when_ms of each timer
    period,   \* period of each timer
    nextId,   \* timeNextId
    alive,    \* timers allocated and not freed
    te,       \* the timer whose callback runs
    pos,      \* the position of LIST_FOR, or the saved next during a callback
    nowMs,    \* now_ms, sampled before the callback
    allFired, \* all_fired
    lastTime, \* lastTime, in seconds
    passed,   \* timers fired in this pass (history)
    begun,    \* timeNextId when this pass began (history)
    cut,      \* timers the running callback has deleted (history)
    spent     \* milliseconds since the walk or the setup began (for WalkSpan)

timers == <<list, reput, when, period, nextId, alive>>
scan   == <<te, pos, nowMs, allFired, lastTime, passed, begun, cut>>
sleep  == <<timeout, left, lost, asked, signals>>
vars   == <<pc, now, sleep, timers, scan, spent>>

Seconds == now \div MsPerSec

\* ez_create_event_loop
Init ==
    /\ pc = "setup"
    /\ now = 0
    /\ timeout = Forever /\ left = Forever
    /\ lost = 0 /\ asked = 0 /\ signals = 0
    /\ list = <<>> /\ reput = <<>>
    /\ when = [i \in Ids |-> 0]
    /\ period = [i \in Ids |-> 0]
    /\ nextId = 0
    /\ alive = {}
    /\ te = End /\ pos = End /\ nowMs = 0
    /\ allFired = FALSE
    /\ lastTime = Seconds
    /\ passed = {} /\ begun = 0 /\ cut = {}
    /\ spent = 0

-----------------------------------------------------------------------------
(* The list.                                                               *)

\* Slip: the new timer goes before the first smaller deadline.
SlotReversed(l, w) ==
    LET stop == {i \in DOMAIN l : w > when[l[i]]}
    IN  IF stop = {} THEN Len(l) + 1 ELSE Min(stop)

\* insert_time_event_list: before the first timer not earlier than deadline w
Slot(l, w) ==
    LET stop == {i \in DOMAIN l : w <= when[l[i]]}
    IN  IF stop = {} THEN Len(l) + 1 ELSE Min(stop)

Insert(l, id, w) == InsertAt(l, Slot(l, w), id)

Place(id) == CHOOSE i \in DOMAIN list : list[i] = id

\* list_del
Without(id) == RemoveAt(list, Place(id))

\* Slip: the next pointer is followed twice.
SuccessorSkipping(id) ==
    IF Place(id) + 1 >= Len(list) THEN End ELSE list[Place(id) + 2]

\* pos->next
Successor(id) == IF Place(id) = Len(list) THEN End ELSE list[Place(id) + 1]

First == IF list = <<>> THEN End ELSE Head(list)

-----------------------------------------------------------------------------
(* Calls: before the loop runs, from file handlers, from timer callbacks.  *)

Calling == pc \in {"setup", "files", "inProc"}

CreateTimeEvent(p) ==
    /\ Calling
    /\ nextId \in Ids
    /\ nextId' = nextId + 1
    /\ when' = [when EXCEPT ![nextId] = now + p]
    /\ period' = [period EXCEPT ![nextId] = p]
    /\ alive' = alive \cup {nextId}
    /\ list' = Insert(list, nextId, now + p)
    /\ UNCHANGED <<pc, now, sleep, reput, scan, spent>>

\* A timer that is not queued (it runs, waits on re_put, or is gone) is not found.
DeleteTimeEvent(id) ==
    /\ Calling
    /\ IF id \in ToSet(list)
       THEN /\ list' = Without(id)
            /\ alive' = alive \ {id}
            /\ cut' = IF pc = "inProc" THEN cut \cup {id} ELSE cut
       ELSE UNCHANGED <<list, alive, cut>>
    /\ UNCHANGED <<pc, now, sleep, reput, when, period, nextId, te, pos, nowMs,
                   allFired, lastTime, passed, begun, spent>>

-----------------------------------------------------------------------------
(* ez_process_events                                                       *)

\* Conversion of a 64-bit difference to int.
ToInt(x) == ((x + IntSpan \div 2) % IntSpan) - IntSpan \div 2

\* Slip: the timeout is that of the last timer.
PollTimeoutOfLast ==
    IF list = <<>> THEN Forever
    ELSE LET t == ToInt(when[Last(list)] - now)
         IN  IF t < 0 THEN OverdueWait ELSE t

\* Slip: the timeout of an overdue timer stays negative, which is for ever.
PollTimeoutNegative ==
    IF list = <<>> THEN Forever ELSE ToInt(when[First] - now)

PollTimeout ==
    IF list = <<>> THEN Forever
    ELSE LET t == ToInt(when[First] - now)
         IN  IF t < 0 THEN OverdueWait ELSE t

\* ez_run_event_loop
Run ==
    /\ pc = "setup"
    /\ pc' = "poll"
    /\ UNCHANGED <<now, sleep, timers, scan, spent>>

Poll ==
    /\ pc = "poll"
    /\ pc' = "sleep"
    /\ timeout' = PollTimeout
    /\ left' = timeout'
    /\ asked' = now
    /\ spent' = 0
    /\ UNCHANGED <<now, lost, signals, timers, scan>>

\* A signal interrupts epoll_wait, which is called again for all of the timeout.
Interrupted ==
    /\ pc = "sleep"
    /\ signals < MaxSignals
    /\ signals' = signals + 1
    /\ lost' = lost + (timeout - left)
    /\ left' = timeout
    /\ UNCHANGED <<pc, now, timeout, asked, timers, scan, spent>>

\* epoll_wait returns because a descriptor is ready
FileWake ==
    /\ pc = "sleep"
    /\ pc' = "files"
    /\ timeout' = Forever /\ left' = Forever /\ lost' = 0 /\ asked' = 0
    /\ UNCHANGED <<now, signals, timers, scan, spent>>

TimedOut == left = 0 /\ FileWake

\* Slip: a clock that was set back is not noticed.
SkewedNever == FALSE

\* now < eventLoop->lastTime
Skewed == Seconds < lastTime

\* process_time_events up to its loop
StartPass ==
    /\ pc = "files"
    /\ pc' = "scan"
    /\ allFired' = Skewed
    /\ lastTime' = Seconds
    /\ pos' = First
    /\ passed' = {}
    /\ begun' = nextId
    /\ UNCHANGED <<now, sleep, timers, te, nowMs, cut, spent>>

Due(id) == allFired \/ now >= when[id]

Unlinked(id) == Without(id)

\* The loop body up to the call of timeProc.
Fire ==
    /\ pc = "scan"
    /\ pos # End
    /\ Due(pos)
    /\ pc' = "inProc"
    /\ te' = pos
    /\ pos' = Successor(pos)
    /\ nowMs' = now
    /\ list' = Unlinked(pos)
    /\ passed' = passed \cup {te'}
    /\ cut' = {}
    /\ UNCHANGED <<now, sleep, reput, when, period, nextId, alive,
                   allFired, lastTime, begun, spent>>

\* (pos) = n, n = (pos)->next: if the callback freed the saved next timer, the
\* walk reads freed memory.
Advance == pc' = IF pos \in alive \cup {End} THEN "scan" ELSE "crashed"

Delay(ret) == IF ret = 0 THEN period[te] ELSE ret

\* Slip: the timer is queued at once, where the walk can meet it again.
RequeuedAtOnce(ret) ==
    /\ list' = Insert(list, te, nowMs + Delay(ret))
    /\ UNCHANGED reput

\* te->listNode.next = re_put; re_put = &te->listNode
Requeued(ret) ==
    /\ reput' = <<te>> \o reput
    /\ UNCHANGED list

\* timeProc returns ret: the timer is freed, or waits to be queued again.
ProcReturn(ret) ==
    /\ pc = "inProc"
    /\ Advance
    /\ te' = End
    /\ IF ret <= -1
       THEN /\ alive' = alive \ {te}
            /\ UNCHANGED <<list, reput, when>>
       ELSE /\ when' = [when EXCEPT ![te] = nowMs + Delay(ret)]
            /\ Requeued(ret)
            /\ UNCHANGED alive
    /\ UNCHANGED <<now, sleep, period, nextId, pos, nowMs, allFired,
                   lastTime, passed, begun, cut, spent>>

\* The end of the list, or the first timer that is not due.
EndScan ==
    /\ pc = "scan"
    /\ pos # End => ~Due(pos)
    /\ pc' = "reput"
    /\ nowMs' = IF pos = End THEN nowMs ELSE now
    /\ UNCHANGED <<now, sleep, timers, te, pos, allFired, lastTime, passed,
                   begun, cut, spent>>

\* Slip: the rest of the stack is lost after the first timer.
ReputRestDropped == <<>>

ReputRest == Tail(reput)

Reput ==
    /\ pc = "reput"
    /\ reput # <<>>
    /\ list' = Insert(list, Head(reput), when[Head(reput)])
    /\ reput' = ReputRest
    /\ UNCHANGED <<pc, now, sleep, when, period, nextId, alive, scan, spent>>

\* The walk's own variables end with it.
EndPass ==
    /\ pc = "reput"
    /\ reput = <<>>
    /\ pc' = "poll"
    /\ pos' = End /\ nowMs' = 0 /\ allFired' = FALSE
    /\ passed' = {} /\ begun' = 0 /\ cut' = {}
    /\ UNCHANGED <<now, sleep, timers, te, lastTime, spent>>

\* ez_delete_event_loop after the loop has ended
DeleteEventLoop ==
    /\ pc = "poll"
    /\ pc' = "deleted"
    /\ alive' = alive \ ToSet(list)
    /\ list' = <<>>
    /\ UNCHANGED <<now, sleep, reput, when, period, nextId, scan, spent>>

-----------------------------------------------------------------------------
(* Time.                                                                   *)

Busy == pc \in {"setup", "scan", "inProc", "reput", "poll"}

\* A millisecond passes; past MaxNow only the sleeper's timeout runs down.
Tick ==
    /\ pc \notin {"deleted", "crashed"}
    /\ now' = IF now < MaxNow THEN now + 1 ELSE now
    /\ left > 0 => pc = "sleep"
    /\ left' = IF left > 0 THEN left - 1 ELSE left
    /\ pc = "sleep" => left # 0
    /\ IF Busy /\ now < MaxNow
       THEN spent < WalkSpan /\ spent' = spent + 1
       ELSE UNCHANGED spent
    /\ UNCHANGED <<pc, timeout, lost, asked, signals, timers, scan>>

\* settimeofday while the loop sleeps
SetClock ==
    /\ ClockIsSet
    /\ pc = "sleep"
    /\ now' \in 0 .. MaxNow
    /\ UNCHANGED <<pc, sleep, timers, scan, spent>>

-----------------------------------------------------------------------------
Loop ==
    \/ Run \/ Poll \/ TimedOut
    \/ StartPass \/ Fire \/ EndScan
    \/ \E ret \in Rets : ProcReturn(ret)
    \/ Reput \/ EndPass

Calls ==
    \/ \E p \in Periods : CreateTimeEvent(p)
    \/ \E id \in Ids : DeleteTimeEvent(id)

Next ==
    \/ Loop \/ Calls \/ FileWake \/ Interrupted \/ DeleteEventLoop
    \/ Tick \/ SetClock

Spec == Init /\ [][Next]_vars

-----------------------------------------------------------------------------
(* Properties.                                                             *)

TypeOK ==
    /\ pc \in {"setup", "files", "poll", "sleep", "scan", "inProc", "reput",
               "deleted", "crashed"}
    /\ now \in 0 .. MaxNow
    /\ timeout \in Nat \cup {Forever} /\ left \in Nat \cup {Forever}
    /\ lost \in Nat /\ asked \in Nat /\ signals \in 0 .. MaxSignals
    /\ list \in Seq(Ids) /\ reput \in Seq(Ids)
    /\ when \in [Ids -> Nat] /\ period \in [Ids -> Nat]
    /\ nextId \in Nat /\ begun \in Nat
    /\ alive \subseteq Ids /\ passed \subseteq Ids /\ cut \subseteq Ids
    /\ te \in Ids \cup {End} /\ pos \in Ids \cup {End}
    /\ nowMs \in Nat /\ lastTime \in Nat
    /\ allFired \in BOOLEAN

\* The queue is in order of deadlines, although timers are inserted, removed,
\* fired and put back during one walk; the walk may stop at the first timer
\* that is not due only because of this.
Sorted ==
    \A i, j \in DOMAIN list : i < j => when[list[i]] <= when[list[j]]

\* Every timer that was created and neither deleted nor ended is in exactly
\* one place: the queue, the stack of fired ones, or its own callback.
TimersAccounted ==
    /\ alive = ToSet(list) \cup ToSet(reput) \cup ({te} \ {End})
    /\ IsInjective(list \o reput)
    /\ te \notin ToSet(list \o reput)

\* A timer that is queued again is not met a second time by the same walk,
\* even if it is due at once.
OncePerPass == [][pc = "scan" /\ pc' = "inProc" => pos \notin passed]_vars

\* "Process every pending time event" (ez_event.c:405): when the walk has ended,
\* a timer it has not fired was created by a callback of this walk or is not
\* due, although callbacks have created and deleted timers on both sides of the
\* saved next pointer.  The walk breaks off in freed memory in one case only,
\* which nothing tells a caller to avoid: the callback that was running has
\* deleted the very timer the pointer was saved for.
WalkIsComplete ==
    /\ pc = "crashed" => pos \in cut
    /\ pc = "reput" =>
         \A id \in ToSet(list) :
             id \in passed \/ id >= begun \/ (~allFired /\ nowMs < when[id])

\* The loop does not sleep past the first deadline.  A deadline that has passed
\* when the timeout is computed has done so since the last walk, or the setup,
\* began, and the timeout is OverdueWait, unless the distance has wrapped in the
\* conversion to int: that takes a walk of IntSpan \div 2 milliseconds, and then
\* the timeout is anything an int can say.  What had been slept when a signal
\* interrupted epoll_wait is slept once more.  (For a clock that is not set.)
SleepBounded ==
    pc = "sleep" /\ list # <<>> =>
        LET overdue == asked - when[First]
        IN  /\ left # Forever
            /\ overdue <= WalkSpan
            /\ overdue <= 0 => now + left <= when[First] + lost
            /\ overdue \in 1 .. IntSpan \div 2 => timeout = OverdueWait

\* "the function sleeps until some file event fires, or when the next time
\* event occurs (if any)" (ez_event.c:407-408); for a deadline that has passed
\* already OverdueWait is granted.
SleepsUntilNextTimer ==
    pc = "sleep" /\ list # <<>> =>
        /\ left # Forever
        /\ IF asked <= when[First] THEN now + left <= when[First]
           ELSE left <= OverdueWait

Delays == Periods \cup {r \in Rets : r > 0}

\* A clock that is set back does not postpone timers "indefinitely"
\* (ez_event.c:347-354): after a walk no deadline is further away than the
\* longest delay asked for, the second that time(NULL) cannot see, and the
\* time a walk takes after it has read time(NULL).  The same holds before the
\* first walk for the time since ez_create_event_loop has read it: a clock set
\* back by less than a long setup is not noticed.
SkewBounded ==
    pc = "poll" =>
        \A id \in ToSet(list) : when[id] - now < Max(Delays) + MsPerSec + WalkSpan

=============================================================================
