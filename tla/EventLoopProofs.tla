-------------------------- MODULE EventLoopProofs --------------------------
(***************************************************************************)
(* The event loop as a whole implements its two halves, so that what is    *)
(* proved of each half alone holds of both on the one thread.              *)
(***************************************************************************)
EXTENDS EventLoop, TLAPS

FP == INSTANCE FileEventsProofs
TP == INSTANCE TimeEventsProofs WITH pc <- at, ClockIsSet <- FALSE

-----------------------------------------------------------------------------
(* Refinement.                                                             *)

\* Every step of the whole is a step of the file events, or none of theirs.
THEOREM ImplementsFiles == Spec => F!Spec
<1>1. Init => F!Init
  BY DEF Init
<1>2. [Next]_vars => [F!Next]_(F!vars)
  <2> SUFFICES ASSUME [Next]_vars PROVE [F!Next]_(F!vars)
    OBVIOUS
  <2>1. CASE UNCHANGED fileVars
    BY <2>1 DEF fileVars, F!vars, F!registry, F!kernel, F!batch, F!control
  <2>2. CASE Loop
    <3>1. CASE Run
      BY <3>1 DEF Run, F!Next, F!Loop
    <3>2. CASE Wake
      BY <3>2 DEF Wake, F!Next, F!Loop
    <3>3. CASE Dispatch
      BY <3>3 DEF Dispatch, F!Next, F!Loop
    <3>4. CASE StartTimers \/ EndTimers \/ Exit
      BY <3>4 DEF StartTimers, EndTimers, Exit, F!Next, F!Loop
    <3>5. CASE ComputeTimeout \/ WalkTimers
      BY <2>1, <3>5 DEF ComputeTimeout, WalkTimers
    <3>. QED  BY <2>2, <3>1, <3>2, <3>3, <3>4, <3>5 DEF Loop
  <2>3. CASE Call
    BY <2>1, <2>3 DEF Call, F!Next
  <2>4. CASE StopEventLoop \/ DeleteEventLoop
    BY <2>4 DEF StopEventLoop, DeleteEventLoop, F!Next
  <2>5. CASE Interrupted \/ Tick \/ UNCHANGED vars
    BY <2>1, <2>5 DEF Interrupted, Tick, vars
  <2>. QED  BY <2>2, <2>3, <2>4, <2>5 DEF Next
<1>. QED  BY <1>1, <1>2, PTL DEF Spec, F!Spec

\* Every step of the whole is a step of the timers, or none of theirs.
THEOREM ImplementsTimers == Spec => T!Spec
<1>1. Init => T!Init
  BY DEF Init
<1>2. [Next]_vars => [T!Next]_(T!vars)
  <2> SUFFICES ASSUME [Next]_vars PROVE [T!Next]_(T!vars)
    OBVIOUS
  <2>1. CASE UNCHANGED timeVars
    BY <2>1 DEF timeVars, T!vars, T!timers, T!scan, T!sleep
  <2>2. CASE Loop
    <3>1. CASE Run \/ ComputeTimeout
      BY <3>1 DEF Run, ComputeTimeout, T!Next, T!Loop
    <3>2. CASE Wake
      BY <3>2 DEF Wake, WakeUp, T!Next, T!Loop
    <3>3. CASE Dispatch \/ Exit
      BY <2>1, <3>3 DEF Dispatch, Exit
    <3>4. CASE StartTimers \/ EndTimers
      BY <3>4 DEF StartTimers, EndTimers, T!Next, T!Loop
    <3>5. CASE WalkTimers
      BY <3>5 DEF WalkTimers, T!Next, T!Loop
    <3>. QED  BY <2>2, <3>1, <3>2, <3>3, <3>4, <3>5 DEF Loop
  <2>3. CASE Call
    BY <2>1, <2>3 DEF Call, T!Next
  <2>4. CASE StopEventLoop \/ UNCHANGED vars
    BY <2>1, <2>4 DEF StopEventLoop, vars
  <2>5. CASE DeleteEventLoop \/ Interrupted \/ Tick
    BY <2>5 DEF DeleteEventLoop, Interrupted, Tick, T!Next
  <2>. QED  BY <2>2, <2>3, <2>4, <2>5 DEF Next
<1>. QED  BY <1>1, <1>2, PTL DEF Spec, T!Spec


-----------------------------------------------------------------------------
(* The theorems of the halves are about FP and TP, the whole is built from *)
(* F and T: the same modules, so the same formulas once all is expanded.   *)

\* TimeEvents as instantiated by EventLoop and by its proofs.
LEMMA SameTimers ==
    /\ T!Init <=> TP!Init
    /\ [T!Next]_(T!vars) <=> [TP!Next]_(TP!vars)
    /\ T!SleepBounded <=> TP!SleepBounded
BY Zenon DEF
       T!Init, TP!Init, T!Next, TP!Next, T!vars, TP!vars,
       T!SleepBounded, TP!SleepBounded, T!Forever, TP!Forever, T!End, TP!End,
       T!Seconds, TP!Seconds, T!Loop, TP!Loop, T!Calls, TP!Calls,
       T!FileWake, TP!FileWake, T!Interrupted, TP!Interrupted,
       T!DeleteEventLoop, TP!DeleteEventLoop, T!Tick, TP!Tick,
       T!SetClock, TP!SetClock, T!sleep, TP!sleep, T!timers, TP!timers,
       T!scan, TP!scan, T!First, TP!First, T!Run, TP!Run, T!Poll, TP!Poll,
       T!TimedOut, TP!TimedOut, T!StartPass, TP!StartPass, T!Fire, TP!Fire,
       T!EndScan, TP!EndScan, T!ProcReturn, TP!ProcReturn, T!Reput, TP!Reput,
       T!EndPass, TP!EndPass, T!CreateTimeEvent, TP!CreateTimeEvent,
       T!DeleteTimeEvent, TP!DeleteTimeEvent, T!Busy, TP!Busy,
       T!PollTimeout, TP!PollTimeout, T!Skewed, TP!Skewed, T!Due, TP!Due,
       T!Successor, TP!Successor, T!Unlinked, TP!Unlinked,
       T!Advance, TP!Advance, T!Delay, TP!Delay, T!Requeued, TP!Requeued,
       T!Insert, TP!Insert, T!ReputRest, TP!ReputRest, T!Calling, TP!Calling,
       T!Without, TP!Without, T!ToInt, TP!ToInt,
       T!Place, TP!Place, T!Slot, TP!Slot, T!InsertAt, TP!InsertAt, T!RemoveAt, TP!RemoveAt,
       T!ToSet, TP!ToSet, T!Min, TP!Min

\* FileEvents as instantiated by EventLoop and by its proofs.
LEMMA SameFiles ==
    /\ F!Init <=> FP!Init
    /\ [F!Next]_(F!vars) <=> [FP!Next]_(FP!vars)
BY Zenon DEF
       F!Init, FP!Init, F!Next, FP!Next, F!vars, FP!vars, F!Empty, FP!Empty,
       F!Loop, FP!Loop, F!Caller, FP!Caller, F!StopEventLoop, FP!StopEventLoop,
       F!DeleteEventLoop, FP!DeleteEventLoop, F!registry, FP!registry,
       F!kernel, FP!kernel, F!batch, FP!batch, F!control, FP!control,
       F!Run, FP!Run, F!Exit, FP!Exit, F!Poll, FP!Poll,
       F!PollStop, FP!PollStop, F!ReadPhase, FP!ReadPhase,
       F!WritePhase, FP!WritePhase, F!ReadReturn, FP!ReadReturn,
       F!WriteReturn, FP!WriteReturn, F!TimerPhase, FP!TimerPhase,
       F!TimerReturn, FP!TimerReturn, F!CreateFileEvent, FP!CreateFileEvent,
       F!Dirs, FP!Dirs, F!DeleteFileEvent, FP!DeleteFileEvent,
       F!OpenFd, FP!OpenFd, F!CloseFd, FP!CloseFd, F!StopCmd, FP!StopCmd,
       F!FreedByDelete, FP!FreedByDelete, F!Results, FP!Results,
       F!Signalled, FP!Signalled, F!StopAfterRead, FP!StopAfterRead,
       F!Find, FP!Find, F!Live, FP!Live, F!CallHandler, FP!CallHandler,
       F!WriteDue, FP!WriteDue, F!EndEvent, FP!EndEvent, F!Calling, FP!Calling,
       F!MayCreate, FP!MayCreate, F!CreateRefused, FP!CreateRefused,
       F!CreateNew, FP!CreateNew, F!CreateNewFails, FP!CreateNewFails,
       F!CreateMore, FP!CreateMore, F!CreateMoreFails, FP!CreateMoreFails,
       F!MayDelete, FP!MayDelete, F!DeleteIgnored, FP!DeleteIgnored,
       F!DeleteBody, FP!DeleteBody, F!MayClose, FP!MayClose,
       F!FreeSet, FP!FreeSet, F!Entries, FP!Entries, F!Reported, FP!Reported,
       F!InHandler, FP!InHandler, F!PendingFds, FP!PendingFds, F!Full, FP!Full,
       F!CtlMayPass, FP!CtlMayPass, F!NewBlock, FP!NewBlock, F!Fresh, FP!Fresh,
       F!FreeAfterPop, FP!FreeAfterPop, F!Accepted, FP!Accepted,
       F!CtlMayFail, FP!CtlMayFail,
       F!HeapAfterFailedAdd, FP!HeapAfterFailedAdd, F!Merged, FP!Merged,
       F!OwnFds, FP!OwnFds, F!RegMask, FP!RegMask, F!CtlDel, FP!CtlDel,
       F!CountAfter, FP!CountAfter, F!Recycled, FP!Recycled,
       F!Installs, FP!Installs, F!Cardinality, FP!Cardinality

\* The whole keeps the invariant of the timers.
THEOREM TimersInvariant == Spec => []TP!IInv
<1>1. T!Spec => TP!Spec
  BY SameTimers, PTL DEF T!Spec, TP!Spec
<1>2. TP!Spec => []TP!IInv
  BY TP!Invariant, EventLoopAssumption
<1>. QED  BY <1>1, <1>2, ImplementsTimers, PTL

\* The whole keeps the invariant of the file events.
THEOREM FilesInvariant == Spec => []FP!IInv
<1>1. F!Spec => FP!Spec
  BY SameFiles, PTL DEF F!Spec, FP!Spec
<1>2. FP!Spec => []FP!IInv
  BY FP!Invariant, EventLoopAssumption
     DEF F!Dirs, FP!Dirs, F!IsFiniteSet, FP!IsFiniteSet
<1>. QED  BY <1>1, <1>2, ImplementsFiles, PTL

-----------------------------------------------------------------------------
(* Properties of the whole.                                                *)

\* The loop does not sleep past its first deadline, whoever creates timers and
\* whenever, and what has passed has done so during the walk or the setup; the
\* periods, what callbacks return and how long it all takes are not limited.
THEOREM SleepsNoLonger == Spec => []SleepBounded
<1>1. T!Spec => TP!Spec
  BY SameTimers, PTL DEF T!Spec, TP!Spec
<1>2. TP!Spec => []TP!SleepBounded
  BY TP!SleepsNoLonger, EventLoopAssumption
<1>3. TP!SleepBounded => SleepBounded
  BY SameTimers DEF SleepBounded
<1>. QED  BY <1>1, <1>2, <1>3, ImplementsTimers, PTL

\* Where the timers are while the file events are at pc.
InStep ==
    /\ pc = "setup" => at = "setup"
    /\ pc = "top" => at \in {"poll", "sleep"}
    /\ pc \in {"batch", "inRead", "write", "inWrite"} => at = "files"
    /\ pc = "inTimer" => at \in {"scan", "inProc", "reput", "crashed"}
    /\ pc = "done" => at = "poll"
    /\ pc = "deleted" => at = "deleted" /\ alive = {}

\* When the loop is over no timer waits on re_put or runs its callback: freeing
\* the queue frees all.
LEMMA NoneLeft ==
    ASSUME TP!IInv, T!DeleteEventLoop
    PROVE  alive' = {}
<1>1. at = "poll" /\ alive' = alive \ {list[i] : i \in DOMAIN list}
  BY DEF T!DeleteEventLoop, T!ToSet
<1>2. te = TP!End /\ reput = <<>>
  BY <1>1 DEF TP!IInv, TP!Places
<1>3. \A x \in alive : \E i \in 1 .. Len(list) : list[i] = x
  BY <1>2 DEF TP!IInv, TP!Places, TP!In
<1>4. DOMAIN list = 1 .. Len(list)
  BY DEF TP!IInv, TP!Queues
<1>. QED  BY <1>1, <1>3, <1>4

\* The halves change phase together.
LEMMA StaysInStep ==
    ASSUME TP!IInv, InStep, [Next]_vars
    PROVE  InStep'
<1>1. CASE Run
  BY <1>1 DEF InStep, Run, F!Run, T!Run
<1>2. CASE ComputeTimeout
  BY <1>2 DEF InStep, ComputeTimeout, T!Poll, fileVars
<1>3. CASE Wake
  BY <1>3 DEF InStep, Wake, WakeUp, F!Poll, F!PollStop, T!FileWake, T!TimedOut
<1>4. CASE Dispatch
  <2>1. pc \in {"batch", "inRead", "write", "inWrite"} /\ at' = at
    BY <1>4 DEF Dispatch, F!ReadPhase, F!WritePhase, F!ReadReturn, F!WriteReturn, timeVars
  <2>2. pc' \in {"batch", "inRead", "write", "inWrite", "crashed"}
    BY <1>4 DEF Dispatch, F!ReadPhase, F!WritePhase, F!ReadReturn, F!WriteReturn,
                F!CallHandler
  <2>. QED  BY <2>1, <2>2 DEF InStep
<1>5. CASE StartTimers \/ EndTimers \/ Exit
  BY <1>5 DEF InStep, StartTimers, EndTimers, Exit, F!TimerPhase, F!TimerReturn, F!Exit,
              T!StartPass, T!EndPass, timeVars
<1>6. CASE WalkTimers
  <2>1. at \in {"scan", "inProc", "reput"} /\ at' \in {"scan", "inProc", "reput", "crashed"}
    BY <1>6 DEF WalkTimers, T!Fire, T!EndScan, T!Reput, T!ProcReturn, T!Advance
  <2>. QED  BY <1>6, <2>1 DEF InStep, WalkTimers, fileVars
<1>7. CASE Call
  <2>1. pc' = pc /\ at' = at
    BY <1>7 DEF Call, F!Caller, F!CreateFileEvent, F!DeleteFileEvent, F!OpenFd, F!CloseFd,
                T!Calls, T!CreateTimeEvent, T!DeleteTimeEvent, fileVars, timeVars
  <2>2. at = "deleted" => alive' = alive
    BY <1>7 DEF Call, T!Calls, T!CreateTimeEvent, T!DeleteTimeEvent, T!Calling, timeVars
  <2>. QED  BY <2>1, <2>2 DEF InStep
<1>8. CASE StopEventLoop \/ UNCHANGED vars
  BY <1>8 DEF InStep, StopEventLoop, F!StopEventLoop, fileVars, timeVars, vars
<1>9. CASE DeleteEventLoop
  BY <1>9, NoneLeft DEF InStep, DeleteEventLoop, F!DeleteEventLoop, T!DeleteEventLoop
<1>10. CASE Interrupted \/ Tick
  BY <1>10 DEF InStep, Interrupted, Tick, T!Interrupted, T!Tick, T!timers, fileVars
<1>. QED  BY <1>1, <1>2, <1>3, <1>4, <1>5, <1>6, <1>7, <1>8, <1>9, <1>10 DEF Next, Loop

\* ez_delete_event_loop gives back every block and every timer, whatever the
\* handlers of both kinds did and wherever the stop command reached the loop.
THEOREM Nothing_Outlives == Spec => []NothingOutlives
<1>1. Init => InStep
  BY DEF Init, InStep, F!Init, T!Init
<1>2. TP!IInv /\ InStep /\ [Next]_vars => InStep'
  BY StaysInStep
<1>3. InStep /\ FP!IInv => NothingOutlives
  BY DEF InStep, FP!IInv, FP!NothingLeaks, NothingOutlives
<1>. QED  BY <1>1, <1>2, <1>3, TimersInvariant, FilesInvariant, PTL DEF Spec
=============================================================================
