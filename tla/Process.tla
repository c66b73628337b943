------------------------------ MODULE Process ------------------------------
(***************************************************************************)
(* A process that uses the logger, sockets, an event loop's descriptors,   *)
(* ez_read_file and ez_daemonize over one table of descriptors.  None of   *)
(* them knows the numbers of the others.                                   *)
(***************************************************************************)
EXTENDS Log, Sockets

CONSTANT Starts    \* sets of standard descriptors the process may start with

ASSUME ProcessAssumption == Starts \subseteq SUBSET Std

VARIABLES
    started,     \* the standard descriptors the process was started with
    mishaps,     \* failures that leave a descriptor open (history)
    epfd, evfd   \* ezApiState of the process's event loop, -1 without one

loopVars == <<epfd, evfd>>
vars == <<table, logVars, held, started, mishaps, loopVars>>

Init ==
    /\ started \in Starts
    /\ table = [fd \in Numbers |-> IF fd \in started THEN File("std") ELSE Nothing]
    /\ LogStart
    /\ SocketsStart
    /\ mishaps = {}
    /\ epfd = -1 /\ evfd = -1

Kept(kind) == [File(kind) EXCEPT !.cloexec = TRUE]

\* ezApiCreate: without an eventfd the epoll descriptor is forgotten
ApiCreate ==
    /\ epfd = -1
    /\ \/ UNCHANGED <<table, mishaps, loopVars>>
       \/ /\ Room(table)
          /\ LET t == Opened(table, Kept("epoll"))
             IN  \/ /\ Room(t)
                    /\ table' = Opened(t, Kept("event"))
                    /\ epfd' = Lowest(table) /\ evfd' = Lowest(t)
                    /\ UNCHANGED mishaps
                 \/ /\ table' = t
                    /\ mishaps' = mishaps \cup {"create"}
                    /\ UNCHANGED loopVars
    /\ UNCHANGED <<logVars, held, started>>

\* ezApiDelete
ApiDelete ==
    /\ epfd # -1
    /\ table' = Closed(Closed(table, epfd), evfd)
    /\ epfd' = -1 /\ evfd' = -1
    /\ UNCHANGED <<logVars, held, started, mishaps>>

\* ez_read_file: the file is read and closed if its number is above 0
ReadFile ==
    /\ Room(table) /\ Lowest(table) = 0
    /\ table' = Opened(table, File("file"))
    /\ UNCHANGED <<logVars, held, started, mishaps, loopVars>>

\* the end of ez_daemonize: /dev/null is closed unless it is a standard number
AfterRedirect(t, fd) == IF fd > StdErr THEN Closed(t, fd) ELSE t

\* ez_daemonize in the process that goes on, from the redirection: earlier
\* failures and noclose leave the table alone.  A dup2 may fail.
Daemonize ==
    /\ Room(table)
    /\ LET t     == Opened(table, File("null"))
           Dup(n) == [fd \in Numbers |-> IF fd < n THEN File("null") ELSE t[fd]]
       IN  \/ /\ table' = AfterRedirect(Dup(3), Lowest(table))
              /\ UNCHANGED mishaps
           \/ /\ \E n \in 0 .. 2 : table' = Dup(n)
              /\ mishaps' = mishaps \cup {"dup2"}
    /\ UNCHANGED <<logVars, held, started, loopVars>>

Next ==
    /\ ~dead
    /\ \/ LogNext /\ UNCHANGED <<held, started, mishaps, loopVars>>
       \/ SocketsNext /\ UNCHANGED <<logVars, started, mishaps, loopVars>>
       \/ ApiCreate
       \/ ApiDelete
       \/ ReadFile
       \/ Daemonize

Spec == Init /\ [][Next]_vars

-----------------------------------------------------------------------------
(* Properties.                                                             *)

\* What belongs to somebody under the number fd.
Owned(fd) == fd \in Held \/ fd \in {log.fd, epfd, evfd}

\* A descriptor nobody refers to is one of: a standard one; number 0, which
\* the tests for numbers above 0 leave open (ez_net.c:256, ez_util.c:240);
\* a log file on 0, 1 or 2, which log_release and log_reopen take for a
\* standard one (ez_log.c:66,76); the epoll descriptor of an ezApiCreate that
\* got no eventfd (ez_epoll.c:44); /dev/null after a dup2 that failed.  All
\* other paths, the failing ones too, close what they opened.
NothingStrays ==
    \A fd \in Numbers : table[fd] # Nothing /\ ~Owned(fd) =>
      \/ fd \in Std /\ table[fd].kind \in {"std", "null"}
      \/ fd = 0 /\ table[fd].kind \in {"socket", "file"}
      \/ fd \in Std /\ table[fd].kind = "log"
      \/ table[fd].kind = "epoll" /\ "create" \in mishaps
      \/ table[fd].kind = "null" /\ "dup2" \in mishaps

\* A number above 2 still refers to what its owner opened, and has one owner:
\* no close reaches a number that was given to somebody else meanwhile.  When
\* the process was started with all standard descriptors the owners have no
\* other numbers and those three stay standard ones or /dev/null; otherwise a
\* socket, the log or the loop may get one, and lose it to ez_daemonize.
OwnersAgree ==
    /\ \A fd \in Numbers \ Std :
         /\ fd \in Held => table[fd].kind = "socket" /\ fd \notin {log.fd, epfd, evfd}
         /\ fd = log.fd => table[fd].kind = "log" /\ fd \notin {epfd, evfd}
         /\ fd = epfd => table[fd].kind = "epoll" /\ fd # evfd
         /\ fd = evfd => table[fd].kind = "event"
    /\ started = Std =>
         /\ Std \cap (Held \cup {epfd, evfd}) = {}
         /\ log.ready => log.fd \notin {0, 1}
         /\ \A fd \in Std : table[fd].kind \in {"std", "null"}
=============================================================================
