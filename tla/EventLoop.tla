----------------------------- MODULE EventLoop -----------------------------
(***************************************************************************)
(* The event loop as a whole: FileEvents and TimeEvents on the one thread  *)
(* of ez_run_event_loop.  Each half stands for the other one by a phase    *)
(* that may do anything and take any time; here the phases are the real    *)
(* ones.  epoll_wait sleeps for the timeout the timers allow and returns   *)
(* for a ready descriptor, for the eventfd or because the time is over;    *)
(* then the batch is dispatched, then the timers are walked, and handlers  *)
(* of both kinds register and withdraw descriptors and timers alike.       *)
(***************************************************************************)
EXTENDS Integers, Sequences

CONSTANTS
    Fds, SetSize, Nodes, NoNode, Masks, AddMayFail, ErrorOnly, MaxStops,
    Ids, Periods, Rets, MsPerSec, OverdueWait, IntSpan, WalkSpan, MaxNow,
    MaxSignals, Disciplined

VARIABLES
    pc, tree, node, free, heap, count, interest, open, want,  \* FileEvents
    fired, cur, fe, stop, evcnt, evIn, stops,
    at, now, timeout, left, lost, asked, signals, list, reput,  \* TimeEvents
    when, period, nextId, alive, te, pos, nowMs, allFired, lastTime,
    passed, begun, cut, spent

F == INSTANCE FileEvents
T == INSTANCE TimeEvents WITH pc <- at, ClockIsSet <- FALSE

fileVars == <<pc, tree, node, free, heap, count, interest, open, want,
              fired, cur, fe, stop, evcnt, evIn, stops>>
timeVars == <<at, now, timeout, left, lost, asked, signals, list, reput, when,
              period, nextId, alive, te, pos, nowMs, allFired, lastTime,
              passed, begun, cut, spent>>
vars == <<fileVars, timeVars>>

\* What the two halves assume of their constants, of the constants given here.
ASSUME EventLoopAssumption == F!FileEventsAssumption /\ T!TimeEventsAssumption

Init == F!Init /\ T!Init

-----------------------------------------------------------------------------
(* ez_process_events.                                                      *)

Run == F!Run /\ T!Run

\* The timeout is computed from the timers, the while condition having held.
ComputeTimeout ==
    /\ pc = "top"
    /\ ~stop
    /\ T!Poll
    /\ UNCHANGED fileVars

\* without a result only when the time is over
WakeUp(hasResult) == IF hasResult THEN T!FileWake ELSE T!TimedOut

\* epoll_wait returns.
Wake ==
    \/ F!Poll /\ WakeUp(fired' # {})
    \/ F!PollStop /\ WakeUp(TRUE)

\* The loop over the batch.
Dispatch ==
    /\ \/ \E e \in fired : F!ReadPhase(e)
       \/ \E e \in cur : F!WritePhase(e)
       \/ F!ReadReturn \/ F!WriteReturn
    /\ UNCHANGED timeVars

\* process_time_events
StartTimers == F!TimerPhase /\ T!StartPass

WalkTimers ==
    /\ \/ T!Fire \/ T!EndScan \/ T!Reput
       \/ \E ret \in Rets : T!ProcReturn(ret)
    /\ UNCHANGED fileVars

EndTimers == F!TimerReturn /\ T!EndPass

\* the while condition fails
Exit == F!Exit /\ at = "poll" /\ UNCHANGED timeVars

Loop ==
    \/ Run \/ ComputeTimeout \/ Wake \/ Dispatch
    \/ StartTimers \/ WalkTimers \/ EndTimers \/ Exit

-----------------------------------------------------------------------------
(* The program around it: before the loop runs, file handlers, callbacks.  *)

MayCall == pc = "setup" \/ F!InHandler \/ at = "inProc"

Call ==
    /\ MayCall
    /\ \/ F!Caller /\ UNCHANGED timeVars
       \/ T!Calls /\ UNCHANGED fileVars

StopEventLoop == F!StopEventLoop /\ UNCHANGED timeVars

DeleteEventLoop == F!DeleteEventLoop /\ T!DeleteEventLoop

\* a signal for the thread that sleeps
Interrupted == T!Interrupted /\ UNCHANGED fileVars

Tick ==
    /\ pc \notin {"done", "deleted"}
    /\ T!Tick
    /\ UNCHANGED fileVars

Next == Loop \/ Call \/ StopEventLoop \/ DeleteEventLoop \/ Interrupted \/ Tick

Spec == Init /\ [][Next]_vars

\* As in the two halves: the thread runs on, callbacks return, time passes,
\* and ready entries are served in rotation.
FairSpec ==
    /\ Spec
    /\ WF_vars(Loop)
    /\ WF_vars(Tick)
    /\ SF_vars(F!PollStop /\ WakeUp(TRUE))

-----------------------------------------------------------------------------
(* Properties.                                                             *)

\* The loop does not sleep past the first deadline, and a deadline that has
\* passed has done so since the last walk began, whoever created the timers and
\* whenever: before the loop ran, in file handlers, in callbacks of the walk.
SleepBounded == T!SleepBounded

Queued(id) == \E i \in DOMAIN list : list[i] = id

\* The walk has followed a next pointer its callback had freed: nothing can be
\* said of what comes after (see TimeEvents!WalkIsComplete).
BrokenOff == at = "crashed"

\* A due timer leaves the queue, however busy the descriptors are, unless the
\* loop is told to stop.
DueFires ==
    \A id \in Ids :
        Queued(id) /\ now >= when[id] ~> ~Queued(id) \/ stop \/ BrokenOff

\* One stop command ends the loop, also when it comes while the loop sleeps
\* without a timeout, and however many timers keep firing.
StopQuits == stops > 0 ~> pc \in {"done", "deleted"} \/ BrokenOff

\* ez_delete_event_loop gives back every block and every timer: no timer is on
\* the stack of fired ones or in its callback when the loop has ended.
NothingOutlives == pc = "deleted" => heap = {} /\ alive = {}
=============================================================================
