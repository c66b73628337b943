-------------------------------- MODULE Log --------------------------------
(***************************************************************************)
(* The logger (ez_log.c): one static structure with a descriptor, a level  *)
(* and the name of its file, if it has one.  Before log_init it is zeroed, *)
(* that is, descriptor 0 and LOG_EMERG.  Texts are their lengths.          *)
(***************************************************************************)
EXTENDS FdTable

CONSTANTS
    Debug,      \* LOG_DEBUG; LOG_EMERG is 0
    LogMaxLen,  \* LOG_MAX_LEN, 256: size of the buffer of an entry
    HeadLens,   \* lengths of the date, level and place in front of a message
    MsgLens,    \* lengths of formatted messages
    DumpLens    \* numbers of bytes to dump

ASSUME LogAssumption ==
    /\ Debug \in Nat
    /\ LogMaxLen \in Nat \ {0}
    /\ HeadLens \subseteq Nat \ {0} /\ MsgLens \subseteq Nat /\ DumpLens \subseteq Nat

VARIABLES
    log,       \* the logger: [named, fd, level], and ready after log_init
    dead,      \* abort was called
    lost,      \* a call was dropped since the last log_init (history)
    returned   \* a log_panic came back though there was a descriptor (history)

logVars == <<log, dead, lost, returned>>

Levels == 0 .. Debug

LogStart ==
    /\ log = [named |-> FALSE, fd |-> 0, level |-> 0, ready |-> FALSE]
    /\ dead = FALSE
    /\ lost = FALSE /\ returned = FALSE

\* ez_vsnprintf: n characters into a buffer of size bytes
Written(n, size) == IF n <= 0 THEN 0 ELSE IF n < size THEN n ELSE size - 1

\* _log_core: the head, the message in what is left, and the newline
Entry(head, msg) ==
    LET len == Written(head, LogMaxLen)
    IN  len + Written(msg, LogMaxLen - len) + 1

\* _log_hexdump: a line of 64 characters and one for each of its at most 16
\* bytes, as long as there are bytes and the buffer has room
Dump(n) ==
    LET size == 8 * LogMaxLen
        Bytes(k) == IF n - 16 * k < 16 THEN n - 16 * k ELSE 16
        len[k \in 0 .. (n + 15) \div 16] ==
          IF k = 0 THEN 0
          ELSE IF len[k - 1] < size - 1
               THEN len[k - 1] + Written(64 + Bytes(k - 1), size - len[k - 1])
               ELSE len[k - 1]
    IN  len[(n + 15) \div 16]

-----------------------------------------------------------------------------
\* what the operations that write no entry leave alone
Quiet == UNCHANGED <<dead, lost, returned>>

\* the logger has a descriptor of its own
LogOwns == log.ready /\ log.fd \notin {-1, StdErr}

\* opening the log file in the table t, for a logger l that has a name
OpenLog(t, l) ==
    \/ /\ Room(t)
       /\ table' = Opened(t, File("log"))
       /\ log' = [l EXCEPT !.fd = Lowest(t)]
    \/ /\ table' = t
       /\ log' = [l EXCEPT !.fd = -1]

OpenOrStdErr(t, l) ==
    IF l.named THEN OpenLog(t, l)
    ELSE table' = t /\ log' = [l EXCEPT !.fd = StdErr]

\* log_init, also after a log_release, a file that could not be opened, or on
\* stderr.  Assumed of callers: not while a log file is open, which it forgets.
LogInit(named, level) ==
    /\ ~LogOwns
    /\ OpenOrStdErr(table, [named |-> named, fd |-> 0, level |-> level, ready |-> TRUE])
    /\ lost' = FALSE
    /\ UNCHANGED <<dead, returned>>

\* Slip: the closed descriptor is not forgotten.
ReleasedKept == log.fd

Released == IF log.fd # StdErr THEN -1 ELSE log.fd

\* log_release.  Assumed of callers: after log_init, for the zeroed logger's
\* descriptor is 0, which is not its own.
LogRelease ==
    /\ log.ready
    /\ table' = IF log.fd # StdErr THEN Closed(table, log.fd) ELSE table
    /\ log' = [log EXCEPT !.fd = Released]
    /\ Quiet

\* Slip: the old descriptor stays open.
BeforeReopenKept == table

BeforeReopen == IF log.fd > StdErr THEN Closed(table, log.fd) ELSE table

\* log_reopen, also after a release; after log_init, as above
LogReopen ==
    /\ log.ready
    /\ OpenOrStdErr(BeforeReopen, log)
    /\ Quiet

\* log_level_up, log_level_down, log_level_set
SetLevel(level) ==
    /\ log' = [log EXCEPT !.level = level]
    /\ Quiet
    /\ UNCHANGED table

\* Slip: the level can go below LOG_EMERG.
LevelDownBelow == log.level >= 0 /\ SetLevel(log.level - 1)

LevelUp   == log.level < Debug /\ SetLevel(log.level + 1)
LevelDown == log.level > 0 /\ SetLevel(log.level - 1)

\* log_loggable, then the test of the descriptor in _log_core: is an entry
\* written, and is it dropped in silence
Logs(level)  == level <= log.level /\ log.fd >= 0
Drops(level) == level <= log.level /\ log.fd < 0

\* log_error and its kin; log_panic, an entry of level LOG_EMERG and an abort
LogCall(panic, level) ==
    /\ lost' = (lost \/ Drops(level))
    /\ dead' = (panic /\ Logs(level))
    /\ returned' = (returned \/ (panic /\ log.fd >= 0 /\ ~dead'))
    /\ UNCHANGED <<table, log>>

LogNext ==
    \/ \E named \in BOOLEAN, level \in Levels : LogInit(named, level)
    \/ LogRelease
    \/ LogReopen
    \/ LevelUp
    \/ LevelDown
    \/ \E level \in Levels : SetLevel(level) \/ LogCall(FALSE, level)
    \/ LogCall(TRUE, 0)

-----------------------------------------------------------------------------
(* Property.                                                               *)

\* An entry is head and message cut to the buffer with a newline that always
\* fits, a dump is cut to one byte less than its own buffer; a call that passes
\* the level is dropped only by a logger that was given a file, one it could not
\* open or has released; and log_panic does not return to its caller, whatever
\* the level was turned to, unless it is dropped there (ez_log.c:141-143).
LengthsKept ==
    /\ \A head \in HeadLens, msg \in MsgLens :
         Entry(head, msg) = Written(head + msg, LogMaxLen) + 1
    /\ \A n \in DumpLens : Dump(n) < 8 * LogMaxLen

LogContract == LengthsKept /\ (lost => log.named) /\ ~returned
=============================================================================
