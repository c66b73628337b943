--------------------------- MODULE ProcessProofs ---------------------------
(***************************************************************************)
(* Proofs about the descriptors of a process: who owns which number, which *)
(* ones stay open without an owner, and what holds of a socket, for a      *)
(* table of any size, any number of sockets and any set of standard        *)
(* descriptors at the start.                                               *)
(***************************************************************************)
EXTENDS Process, Iteration

Files == [kind : Kinds, state : {"plain", "listening", "connecting", "connected"},
          nonblock : BOOLEAN, cloexec : BOOLEAN]

Apis == {"none", "tcp_server", "unix_server", "accept", "accept_blocking",
         "connect", "connect_non_block"}

OrNone == Numbers \cup {-1}

\* Types, tied to what the logger and the loop can be.
Types ==
    /\ table \in [Numbers -> Files]
    /\ log \in [named : BOOLEAN, fd : OrNone, level : Nat, ready : BOOLEAN]
    /\ dead \in BOOLEAN /\ lost \in BOOLEAN /\ returned \in BOOLEAN
    /\ held \in [Numbers -> Apis]
    /\ epfd \in OrNone /\ evfd \in OrNone
    /\ epfd = -1 <=> evfd = -1

\* A logger without a name writes to stderr and loses nothing.
LogShape ==
    /\ ~log.ready => log.fd = 0 /\ ~lost
    /\ log.ready /\ ~log.named => log.fd = StdErr
    /\ lost => log.named
    /\ ~returned

\* Who may refer to a descriptor of each kind.
Accounted ==
    \A fd \in Numbers :
      LET kind == table[fd].kind
      IN  /\ kind = "none" => table[fd] = Nothing
          /\ kind = "socket" => fd \in Held \/ fd = 0
          /\ kind = "log" => fd = log.fd \/ fd \in Std
          /\ kind = "epoll" => fd = epfd \/ "create" \in mishaps
          /\ kind = "event" => fd = evfd
          /\ kind = "null" => fd \in Std \/ "dup2" \in mishaps
          /\ kind = "std" => fd \in Std
          /\ kind = "file" => fd = 0

\* No number that somebody owns is free, and none has two owners.
Exclusive ==
    /\ \A fd \in Held : /\ table[fd] # Nothing
                        /\ fd # epfd /\ fd # evfd
                        /\ LogOwns => fd # log.fd
    /\ epfd # -1 => table[epfd] # Nothing /\ table[evfd] # Nothing /\ epfd # evfd
    /\ LogOwns => table[log.fd] # Nothing /\ log.fd # epfd /\ log.fd # evfd

IInv == Types /\ LogShape /\ Accounted /\ Exclusive /\ OwnersAgree /\ SocketsReady

-----------------------------------------------------------------------------
(* The table.                                                              *)

\* A new descriptor gets a number that is free.
LEMMA LowestIsFree ==
    ASSUME NEW t, Room(t)
    PROVE  /\ Lowest(t) \in Numbers
           /\ t[Lowest(t)] = Nothing
           /\ \A g \in Numbers : t[g] = Nothing => Lowest(t) <= g
<1>1. FreeIn(t) \subseteq Nat /\ FreeIn(t) # {}
  BY FdTableAssumption DEF FreeIn, Numbers, Room
<1>2. \E m \in FreeIn(t) : \A k \in FreeIn(t) : m <= k
  BY <1>1, LeastNumber
<1>3. Lowest(t) \in FreeIn(t) /\ \A k \in FreeIn(t) : Lowest(t) <= k
  BY <1>2 DEF Lowest
<1>. QED  BY <1>3 DEF FreeIn

\* The standard descriptors are numbers of the table.
LEMMA StdIsNumbers == Std \subseteq Numbers /\ 0 \in Std /\ 2 \in Std
  BY FdTableAssumption DEF Std, Numbers

\* What open files look like.
LEMMA KindsOfFiles ==
    /\ \A kind \in Kinds : File(kind) \in Files /\ File(kind).kind = kind
    /\ Nothing \in Files /\ Nothing.kind = "none"
    /\ Fresh \in Files /\ Fresh.kind = "socket"
  BY DEF File, Files, Kinds, Nothing, Fresh

\* Opening and closing touch one number.
LEMMA OpenedTable ==
    ASSUME NEW t \in [Numbers -> Files], NEW file \in Files, Room(t)
    PROVE  /\ Opened(t, file) \in [Numbers -> Files]
           /\ Opened(t, file)[Lowest(t)] = file
           /\ \A fd \in Numbers : fd # Lowest(t) => Opened(t, file)[fd] = t[fd]
  BY LowestIsFree DEF Opened

\* close takes a number out of the table and touches no other.
LEMMA ClosedTable ==
    ASSUME NEW t \in [Numbers -> Files], NEW n
    PROVE  /\ Closed(t, n) \in [Numbers -> Files]
           /\ n \in Numbers => Closed(t, n)[n] = Nothing
           /\ \A fd \in Numbers : fd # n => Closed(t, n)[fd] = t[fd]
  BY KindsOfFiles DEF Closed

-----------------------------------------------------------------------------
(* Steps of sockets.                                                       *)

\* u is t, or t with the socket that ez_net_close_socket leaves open.
Grown(t, u) ==
    /\ u \in [Numbers -> Files]
    /\ \A fd \in Numbers : u[fd] = t[fd] \/ (fd = 0 /\ t[fd] = Nothing /\ u[fd] = Fresh)

\* A socket that fails leaves nothing behind, or number 0.
LEMMA FailedGrows ==
    ASSUME NEW t \in [Numbers -> Files], Room(t)
    PROVE  Grown(t, Failed(t))
<1> DEFINE u == Opened(t, Fresh)
           l == Lowest(t)
<1>1. /\ u \in [Numbers -> Files] /\ u[l] = Fresh
      /\ \A fd \in Numbers : fd # l => u[fd] = t[fd]
  BY OpenedTable, KindsOfFiles
<1>2. l \in Numbers /\ t[l] = Nothing /\ l >= 0
  BY LowestIsFree, FdTableAssumption DEF Numbers
<1>3. CASE l > 0
  <2>1. Failed(t) = Closed(u, l)
    BY <1>3 DEF Failed, CloseSocket
  <2> HIDE DEF u, l
  <2>. QED  BY <1>1, <1>2, <2>1, ClosedTable DEF Grown
<1>4. CASE l = 0
  <2>1. Failed(t) = u
    BY <1>4 DEF Failed, CloseSocket
  <2> HIDE DEF u, l
  <2>. QED  BY <1>1, <1>2, <1>4, <2>1 DEF Grown
<1>. QED  BY <1>2, <1>3, <1>4 DEF Numbers

\* So does every outcome of a call that may fail at any step.
LEMMA TriedGrows ==
    ASSUME Types, NEW t \in Tried
    PROVE  Grown(table, t)
  BY FailedGrows DEF Tried, Types, Grown

\* A function that returns ANET_ERR.
LEMMA ErrorStep ==
    ASSUME IInv, NEW t, Grown(table, t), Error(t),
           UNCHANGED <<logVars, started, mishaps, loopVars>>
    PROVE  IInv'
<1>1. /\ table' = t /\ held' = held /\ log' = log /\ dead' = dead /\ lost' = lost /\ returned' = returned
      /\ started' = started /\ mishaps' = mishaps /\ epfd' = epfd /\ evfd' = evfd
  BY DEF Error, logVars, loopVars
<1>2. /\ table' \in [Numbers -> Files]
      /\ \A fd \in Numbers :
           table'[fd] = table[fd]
           \/ (fd = 0 /\ table[fd] = Nothing /\ table'[fd] = Fresh /\ table'[fd] # Nothing)
  BY <1>1, KindsOfFiles DEF Grown
<1>3. Fresh.kind = "socket" /\ Nothing.kind = "none"
  BY KindsOfFiles
<1>4. Types' /\ LogShape'
  BY <1>1, <1>2 DEF IInv, Types, LogShape
<1>5. Accounted'
  BY <1>1, <1>2, <1>3 DEF IInv, Accounted, Held
<1>6. Exclusive'
  BY <1>1, <1>2 DEF IInv, Exclusive, LogOwns, Held, Types, OrNone
<1>7. OwnersAgree'
  BY <1>1, <1>2, <1>3, StdIsNumbers DEF IInv, OwnersAgree, Held
<1>8. SocketsReady'
  BY <1>1, <1>2 DEF IInv, SocketsReady, Exclusive, Held
<1>. QED  BY <1>4, <1>5, <1>6, <1>7, <1>8 DEF IInv

\* What SocketsReady asks of a socket file that api returns.
Promised(api, file) ==
    /\ file \in Files /\ file.kind = "socket" /\ api \in Apis \ {"none"}
    /\ api \in {"tcp_server", "unix_server"} <=> file.state = "listening"
    /\ file.state = "connecting" => api = "connect_non_block"
    /\ api \in {"tcp_server", "accept", "connect_non_block"} => file.nonblock
    /\ ~file.cloexec

\* A function that returns a socket.
LEMMA ReturnStep ==
    ASSUME IInv, NEW t, Grown(table, t), NEW api, NEW file, Promised(api, file),
           Return(t, api, file),
           UNCHANGED <<logVars, started, mishaps, loopVars>>
    PROVE  IInv'
<1> DEFINE l == Lowest(t)
<1>1. /\ table' = Opened(t, file) /\ held' = [held EXCEPT ![l] = api]
      /\ log' = log /\ dead' = dead /\ lost' = lost /\ returned' = returned
      /\ started' = started /\ mishaps' = mishaps /\ epfd' = epfd /\ evfd' = evfd
  BY DEF Return, logVars, loopVars
<1>2. /\ l \in Numbers /\ t[l] = Nothing
      /\ table' \in [Numbers -> Files] /\ table'[l] = file
      /\ \A fd \in Numbers : fd # l => table'[fd] = t[fd]
  BY <1>1, LowestIsFree, OpenedTable DEF Return, Grown, Promised
<1>3. /\ Fresh.kind = "socket" /\ Nothing.kind = "none" /\ Fresh # Nothing /\ file # Nothing
      /\ file.kind = "socket"
  BY KindsOfFiles DEF Promised
<1>4. table[l] = Nothing
  BY <1>2, <1>3 DEF Grown
<1> HIDE DEF l
<1>5. \A fd \in Numbers :
        \/ fd = l
        \/ table'[fd] = table[fd]
        \/ fd = 0 /\ table[fd] = Nothing /\ table'[fd] = Fresh
  BY <1>2 DEF Grown
<1>6. held' \in [Numbers -> Apis] /\ Held' = Held \cup {l}
  BY <1>1, <1>2 DEF Held, Promised, IInv, Types
<1>7. Types' /\ LogShape'
  BY <1>1, <1>2, <1>6 DEF IInv, Types, LogShape
<1>8. Accounted'
  BY <1>1, <1>2, <1>3, <1>5, <1>6 DEF IInv, Accounted
<1>9. Exclusive'
  <2>1. l # epfd /\ l # evfd /\ (LogOwns => l # log.fd) /\ l \notin Held
    BY <1>2, <1>4, FdTableAssumption DEF IInv, Exclusive, Types, OrNone, Numbers
  <2>. QED
    BY <1>1, <1>2, <1>3, <1>5, <1>6, <2>1
       DEF IInv, Exclusive, LogOwns, Types, OrNone, Held
<1>10. OwnersAgree'
  <2>1. l \in Std => started # Std
    BY <1>3, <1>4 DEF IInv, OwnersAgree
  <2>2. l \notin Std => l # log.fd /\ l # epfd /\ l # evfd
    BY <1>2, <1>3, <1>4 DEF IInv, OwnersAgree
  <2>. QED
    BY <1>1, <1>2, <1>3, <1>5, <1>6, <2>1, <2>2, StdIsNumbers DEF IInv, OwnersAgree
<1>11. SocketsReady'
  <2>1. \A fd \in Held : fd # l => held'[fd] = held[fd] /\ table'[fd] = table[fd]
    BY <1>1, <1>2, <1>5 DEF IInv, Types, Exclusive, Held
  <2>2. held'[l] = api
    BY <1>1, <1>2 DEF IInv, Types
  <2>. QED
    BY <1>2, <1>6, <2>1, <2>2 DEF IInv, SocketsReady, Promised
<1>. QED  BY <1>7, <1>8, <1>9, <1>10, <1>11 DEF IInv

\* A socket a caller keeps and changes, but does not move.
LEMMA ChangeStep ==
    ASSUME IInv, NEW s \in Held, NEW file, file \in Files,
           file.kind = table[s].kind, file.kind # "none",
           table[s].kind = "socket" => Promised(held[s], file),
           table' = [table EXCEPT ![s] = file], UNCHANGED held,
           UNCHANGED <<logVars, started, mishaps, loopVars>>
    PROVE  IInv'
<1>1. /\ held' = held /\ log' = log /\ dead' = dead /\ lost' = lost /\ returned' = returned
      /\ started' = started /\ mishaps' = mishaps /\ epfd' = epfd /\ evfd' = evfd
  BY DEF logVars, loopVars
<1>2. /\ s \in Numbers /\ table' \in [Numbers -> Files] /\ table'[s] = file
      /\ \A fd \in Numbers : fd # s => table'[fd] = table[fd]
  BY DEF Held, IInv, Types
<1>3. \A fd \in Numbers : table'[fd].kind = table[fd].kind
  BY <1>2
<1>4. \A fd \in Numbers : table[fd].kind = "none" => table'[fd] = table[fd]
  BY <1>2
<1>5. Nothing.kind = "none" /\ Held' = Held
  BY <1>1, KindsOfFiles DEF Held
<1>6. Types' /\ LogShape'
  BY <1>1, <1>2 DEF IInv, Types, LogShape
<1>7. Accounted'
  BY <1>1, <1>3, <1>4, <1>5 DEF IInv, Accounted
<1>8. \A fd \in Numbers : table[fd] # Nothing => table'[fd] # Nothing
  BY <1>2, <1>5
<1>9. Exclusive'
  BY <1>1, <1>5, <1>8 DEF IInv, Exclusive, LogOwns, Types, OrNone, Held
<1>10. OwnersAgree'
  BY <1>1, <1>3, <1>5, StdIsNumbers DEF IInv, OwnersAgree
<1>11. SocketsReady'
  BY <1>1, <1>2, <1>5 DEF IInv, SocketsReady, Promised, Held
<1>. QED  BY <1>6, <1>7, <1>9, <1>10, <1>11 DEF IInv

\* ez_net_close_socket, called for a socket the caller keeps.
LEMMA CloseStep ==
    ASSUME IInv, NEW s, Close(s),
           UNCHANGED <<logVars, started, mishaps, loopVars>>
    PROVE  IInv'
<1>1. /\ table' = CloseSocket(table, s) /\ held' = [held EXCEPT ![s] = "none"]
      /\ log' = log /\ dead' = dead /\ lost' = lost /\ returned' = returned
      /\ started' = started /\ mishaps' = mishaps /\ epfd' = epfd /\ evfd' = evfd
  BY DEF Close, logVars, loopVars
<1>2. s \in Held /\ s \in Numbers /\ s >= 0
  BY FdTableAssumption DEF Close, Held, Numbers
<1>3. /\ table' \in [Numbers -> Files]
      /\ \A fd \in Numbers : fd # s => table'[fd] = table[fd]
      /\ table'[s] = Nothing \/ (s = 0 /\ table'[s] = table[s])
  <2>1. table \in [Numbers -> Files]
    BY DEF IInv, Types
  <2>2. CASE s > 0
    <3>1. table' = Closed(table, s)
      BY <1>1, <2>2 DEF CloseSocket
    <3>. QED  BY <1>2, <2>1, <3>1, ClosedTable
  <2>3. CASE s = 0
    BY <1>1, <2>1, <2>3 DEF CloseSocket
  <2>. QED  BY <1>2, <2>2, <2>3, FdTableAssumption DEF Numbers
<1>4. Nothing.kind = "none"
  BY KindsOfFiles
<1>5. /\ Held' = Held \ {s} /\ held' \in [Numbers -> Apis]
      /\ \A fd \in Held' : held'[fd] = held[fd] /\ fd # s
  BY <1>1, <1>2 DEF Held, IInv, Types, Apis
<1>6. s # epfd /\ s # evfd /\ (LogOwns => s # log.fd)
  BY <1>2 DEF IInv, Exclusive
<1>7. Types' /\ LogShape'
  BY <1>1, <1>3, <1>5 DEF IInv, Types, LogShape
<1>8. Accounted'
  <2>1. table[s].kind = "log" => s \in Std
    BY <1>2 DEF IInv, OwnersAgree, Accounted
  <2>. QED
    BY <1>1, <1>2, <1>3, <1>4, <1>5, <1>6, <2>1 DEF IInv, Accounted
<1>9. Exclusive'
  BY <1>1, <1>2, <1>3, <1>5, <1>6 DEF IInv, Exclusive, LogOwns, Types, OrNone, Held
<1>10. OwnersAgree'
  <2>1. s \in Std => started # Std
    BY <1>2 DEF IInv, OwnersAgree
  <2>2. s \notin Std => s # log.fd
    BY <1>2 DEF IInv, OwnersAgree
  <2>. QED
    BY <1>1, <1>2, <1>3, <1>5, <1>6, <2>1, <2>2, StdIsNumbers DEF IInv, OwnersAgree
<1>11. SocketsReady'
  BY <1>2, <1>3, <1>5 DEF IInv, SocketsReady, Held
<1>. QED  BY <1>7, <1>8, <1>9, <1>10, <1>11 DEF IInv

\* Every function of the socket part.
LEMMA SocketsStep ==
    ASSUME IInv, SocketsNext, UNCHANGED <<logVars, started, mishaps, loopVars>>
    PROVE  IInv'
<1>1. /\ Grown(table, table)
      /\ Room(table) => Grown(table, Failed(table))
      /\ \A t \in Tried : Grown(table, t)
  BY FailedGrows, TriedGrows DEF Grown, IInv, Types
<1>2. CASE TcpServer
  <2>1. Promised("tcp_server", [SetNonBlock(Fresh) EXCEPT !.state = "listening"])
    BY DEF Promised, SetNonBlock, Fresh, File, Files, Kinds, Apis
  <2>. QED  BY <1>1, <1>2, <2>1, ErrorStep, ReturnStep DEF TcpServer
<1>3. CASE UnixServer
  <2>1. Promised("unix_server", [Fresh EXCEPT !.state = "listening"])
    BY DEF Promised, Fresh, File, Files, Kinds, Apis
  <2>. QED  BY <1>1, <1>3, <2>1, ErrorStep, ReturnStep DEF UnixServer
<1>4. ASSUME NEW api, NEW file, Connect(api, file),
             Promised(api, [file EXCEPT !.state = "connected"]),
             file.nonblock => Promised(api, [file EXCEPT !.state = "connecting"])
      PROVE  IInv'
  BY <1>1, <1>4, ErrorStep, ReturnStep DEF Connect
<1>5. CASE Connect("connect", Fresh)
  <2>1. /\ Promised("connect", [Fresh EXCEPT !.state = "connected"])
        /\ ~Fresh.nonblock
    BY DEF Promised, Fresh, File, Files, Kinds, Apis
  <2>. QED  BY <1>4, <1>5, <2>1
<1>6. CASE Connect("connect_non_block", SetNonBlock(Fresh))
  <2>1. /\ Promised("connect_non_block", [SetNonBlock(Fresh) EXCEPT !.state = "connected"])
        /\ Promised("connect_non_block", [SetNonBlock(Fresh) EXCEPT !.state = "connecting"])
    BY DEF Promised, SetNonBlock, Fresh, File, Files, Kinds, Apis
  <2>. QED  BY <1>4, <1>6, <2>1
<1>7. ASSUME NEW s \in Numbers, Accept(s)  PROVE IInv'
  <2>1. /\ Promised("accept", SetNonBlock(SetClosexec([Fresh EXCEPT !.state = "connected"])))
        /\ Promised("accept_blocking", [Fresh EXCEPT !.state = "connected"])
    BY DEF Promised, SetNonBlock, SetClosexec, Fresh, File, Files, Kinds, Apis
  <2>. QED  BY <1>1, <1>7, <2>1, ErrorStep, ReturnStep DEF Accept
<1>8. ASSUME NEW s \in Numbers, Completes(s)  PROVE IInv'
  <2> DEFINE file == [table[s] EXCEPT !.state = "connected"]
  <2>1. s \in Held /\ table[s] \in Files /\ table[s].state = "connecting"
    BY <1>8 DEF Completes, IInv, Types
  <2>2. /\ file \in Files /\ file.kind = table[s].kind /\ file.state = "connected"
        /\ file.nonblock = table[s].nonblock /\ file.cloexec = table[s].cloexec
    BY <2>1 DEF Files
  <2>3. table[s].kind # "none" /\ table' = [table EXCEPT ![s] = file] /\ held' = held
    BY <1>8, <2>1 DEF Completes, IInv, Types, Exclusive, Accounted
  <2>4. table[s].kind = "socket" => Promised(held[s], file)
    BY <2>1, <2>2 DEF Promised, IInv, SocketsReady, Types, Held
  <2> HIDE DEF file
  <2>. QED  BY <2>1, <2>2, <2>3, <2>4, ChangeStep
<1>9. ASSUME NEW s \in Numbers, SetFlags(s)  PROVE IInv'
  <2>1. PICK file \in {SetNonBlock(table[s]), SetClosexec(table[s])} :
          table' = [table EXCEPT ![s] = file] /\ held' = held
    BY <1>9 DEF SetFlags
  <2>2. s \in Held /\ table[s] \in Files
    BY <1>9 DEF SetFlags, IInv, Types
  <2>3. /\ file \in Files /\ file.kind = table[s].kind /\ file.state = table[s].state
        /\ table[s].nonblock => file.nonblock
        /\ file.cloexec = table[s].cloexec
    BY <2>2 DEF Files, SetNonBlock, SetClosexec
  <2>4. table[s].kind # "none"
    BY <2>2 DEF IInv, Exclusive, Accounted
  <2>5. table[s].kind = "socket" => Promised(held[s], file)
    BY <2>2, <2>3 DEF Promised, IInv, SocketsReady, Types, Held
  <2>. QED  BY <2>1, <2>2, <2>3, <2>4, <2>5, ChangeStep
<1>. QED
  BY <1>2, <1>3, <1>5, <1>6, <1>7, <1>8, <1>9, CloseStep DEF SocketsNext

-----------------------------------------------------------------------------
(* Steps of the logger.                                                    *)

\* The number of the logger is closed or is stderr: nothing else changes.
Detached(t) ==
    /\ t \in [Numbers -> Files]
    /\ \A fd \in Numbers : t[fd] = table[fd] \/ (LogOwns /\ fd = log.fd /\ t[fd] = Nothing)
    /\ log.fd \in Numbers \ Std => t[log.fd] = Nothing

\* What the log leaves behind, by what it held.
LEMMA DetachedTables ==
    ASSUME IInv
    PROVE  /\ Detached(BeforeReopen)
           /\ log.ready /\ log.fd # StdErr => Detached(Closed(table, log.fd))
           /\ log.fd \notin Numbers \ Std => Detached(table)
<1>1. table \in [Numbers -> Files] /\ log.fd \in OrNone
  BY DEF IInv, Types
<1>2. log.fd \notin Numbers \ Std => Detached(table)
  BY <1>1 DEF Detached
<1>3. ASSUME log.fd \in Numbers, LogOwns  PROVE Detached(Closed(table, log.fd))
  BY <1>1, <1>3, ClosedTable DEF Detached
<1>4. ASSUME log.fd = -1  PROVE Detached(table) /\ Closed(table, log.fd) = table
  BY <1>1, <1>4, FdTableAssumption DEF Detached, Closed, Numbers
<1>5. log.ready /\ log.fd # StdErr => Detached(Closed(table, log.fd))
  BY <1>1, <1>3, <1>4 DEF OrNone, LogOwns
<1>6. Detached(BeforeReopen)
  <2>1. CASE log.fd > StdErr
    <3>1. log.fd \in Numbers /\ LogOwns
      BY <1>1, <2>1 DEF OrNone, LogOwns, IInv, LogShape, StdErr
    <3>. QED  BY <1>3, <2>1, <3>1 DEF BeforeReopen
  <2>2. CASE ~(log.fd > StdErr)
    <3>1. log.fd \notin Numbers \ Std
      BY <1>1, <2>2, FdTableAssumption DEF OrNone, StdErr, Numbers, Std
    <3>. QED  BY <1>2, <2>2, <3>1 DEF BeforeReopen
  <2>. QED  BY <2>1, <2>2
<1>. QED  BY <1>2, <1>5, <1>6

\* The logger gets what it had before, no descriptor, or stderr.
LEMMA LogPlainStep ==
    ASSUME IInv, NEW t, Detached(t), table' = t,
           log' \in [named : BOOLEAN, fd : OrNone, level : Nat, ready : BOOLEAN],
           log'.fd \in {-1, StdErr}, log'.ready,
           ~log'.named => log'.fd = StdErr,
           lost' \in BOOLEAN, lost' => log'.named,
           UNCHANGED <<dead, returned, held, started, mishaps, loopVars>>
    PROVE  IInv'
<1>1. /\ held' = held /\ dead' = dead /\ returned' = returned
      /\ started' = started /\ mishaps' = mishaps /\ epfd' = epfd /\ evfd' = evfd
  BY DEF loopVars
<1>2. /\ table' \in [Numbers -> Files]
      /\ \A fd \in Numbers :
           table'[fd] = table[fd] \/ (LogOwns /\ fd = log.fd /\ table'[fd] = Nothing)
      /\ log.fd \in Numbers \ Std => table'[log.fd] = Nothing
  BY DEF Detached
<1>3. Nothing.kind = "none" /\ Held' = Held /\ Held \subseteq Numbers
  BY <1>1, KindsOfFiles DEF Held
<1>4. StdErr \in Std /\ StdErr # -1 /\ -1 \notin Numbers
  BY FdTableAssumption DEF StdErr, Std, Numbers
<1>5. ~LogOwns'
  BY DEF LogOwns
<1>6. Types' /\ LogShape'
  BY <1>1, <1>2 DEF IInv, Types, LogShape
<1>7. Accounted'
  BY <1>1, <1>2, <1>3 DEF IInv, Accounted
<1>8. Exclusive'
  BY <1>1, <1>2, <1>3, <1>5 DEF IInv, Exclusive, Types, OrNone
<1>9. OwnersAgree'
  <2>1. \A fd \in Held \cup {epfd, evfd} : fd \in Numbers => table'[fd] = table[fd]
    BY <1>2, <1>3 DEF IInv, Exclusive
  <2>2. started = Std => \A fd \in Std : table'[fd] = table[fd]
    BY <1>2, StdIsNumbers DEF IInv, OwnersAgree, LogOwns, Std, StdErr
  <2>3. log'.fd \notin Numbers \ Std /\ log'.fd \notin {0, 1}
    BY <1>4 DEF StdErr
  <2>. QED
    BY <1>1, <1>3, <2>1, <2>2, <2>3, StdIsNumbers DEF IInv, OwnersAgree
<1>10. SocketsReady'
  <2>1. \A fd \in Held : table'[fd] = table[fd]
    BY <1>2, <1>3 DEF IInv, Exclusive
  <2>. QED  BY <1>1, <1>3, <2>1 DEF IInv, SocketsReady
<1>. QED  BY <1>6, <1>7, <1>8, <1>9, <1>10 DEF IInv

\* The logger opens its file.
LEMMA LogFileStep ==
    ASSUME IInv, NEW t, Detached(t), Room(t), table' = Opened(t, File("log")),
           log' \in [named : BOOLEAN, fd : OrNone, level : Nat, ready : BOOLEAN],
           log'.fd = Lowest(t), log'.ready, log'.named, lost' \in BOOLEAN,
           UNCHANGED <<dead, returned, held, started, mishaps, loopVars>>
    PROVE  IInv'
<1> DEFINE l == Lowest(t)
<1>1. /\ held' = held /\ dead' = dead /\ returned' = returned
      /\ started' = started /\ mishaps' = mishaps /\ epfd' = epfd /\ evfd' = evfd
  BY DEF loopVars
<1>2. /\ t \in [Numbers -> Files]
      /\ \A fd \in Numbers :
           t[fd] = table[fd] \/ (LogOwns /\ fd = log.fd /\ t[fd] = Nothing)
      /\ log.fd \in Numbers \ Std => t[log.fd] = Nothing
  BY DEF Detached
<1>3. /\ File("log") \in Files /\ File("log").kind = "log" /\ File("log") # Nothing
      /\ Nothing.kind = "none"
  BY KindsOfFiles DEF Kinds
<1>4. /\ l \in Numbers /\ t[l] = Nothing
      /\ table' \in [Numbers -> Files] /\ table'[l].kind = "log" /\ table'[l] # Nothing
      /\ \A fd \in Numbers : fd # l => table'[fd] = t[fd]
  BY <1>2, <1>3, LowestIsFree, OpenedTable
<1>5. Held' = Held /\ Held \subseteq Numbers
  BY <1>1 DEF Held
<1>6. -1 \notin Numbers
  BY FdTableAssumption DEF Numbers
<1> HIDE DEF l
<1>7. log'.fd = l
  BY DEF l
<1>8. \A fd \in Held \cup {epfd, evfd} :
        fd \in Numbers => fd # l /\ table'[fd] = table[fd] /\ table[fd] # Nothing
  BY <1>2, <1>4, <1>6 DEF IInv, Exclusive, Types, OrNone
<1>9. Types' /\ LogShape'
  BY <1>1, <1>4 DEF IInv, Types, LogShape
<1>10. Accounted'
  <2>1. ASSUME NEW fd \in Numbers, table[fd].kind = "log", fd # l, table'[fd] = table[fd]
        PROVE  fd \in Std
    BY <1>2, <1>3, <1>4, <2>1 DEF IInv, Accounted
  <2>. QED
    BY <1>1, <1>2, <1>3, <1>4, <1>5, <1>7, <2>1 DEF IInv, Accounted
<1>11. Exclusive'
  BY <1>1, <1>4, <1>5, <1>6, <1>7, <1>8 DEF IInv, Exclusive, Types, OrNone
<1>12. OwnersAgree'
  <2>1. started = Std => \A fd \in Std : t[fd] = table[fd] /\ table[fd] # Nothing
    BY <1>2, <1>3, StdIsNumbers DEF IInv, OwnersAgree, LogOwns, Std, StdErr
  <2>2. started = Std => l \notin Std /\ \A fd \in Std : table'[fd] = table[fd]
    BY <1>4, <2>1, StdIsNumbers
  <2>3. {0, 1} \subseteq Std
    BY DEF Std
  <2>. QED
    BY <1>1, <1>4, <1>5, <1>7, <1>8, <2>2, <2>3, StdIsNumbers DEF IInv, OwnersAgree
<1>13. SocketsReady'
  BY <1>1, <1>5, <1>8 DEF IInv, SocketsReady
<1>. QED  BY <1>9, <1>10, <1>11, <1>12, <1>13 DEF IInv

\* A change of the level, a call, and their like leave the table alone.
LEMMA LogQuietStep ==
    ASSUME IInv, log'.fd = log.fd, log'.named = log.named, log'.ready = log.ready,
           log' \in [named : BOOLEAN, fd : OrNone, level : Nat, ready : BOOLEAN],
           dead' \in BOOLEAN, lost' \in BOOLEAN, lost' => lost \/ log.fd < 0, ~returned',
           returned' \in BOOLEAN,
           UNCHANGED <<table, held, started, mishaps, loopVars>>
    PROVE  IInv'
<1>1. /\ table' = table /\ held' = held
      /\ started' = started /\ mishaps' = mishaps /\ epfd' = epfd /\ evfd' = evfd
  BY DEF loopVars
<1>2. Held' = Held /\ LogOwns' = LogOwns
  BY <1>1 DEF Held, LogOwns
<1>3. Types' /\ LogShape'
  BY <1>1 DEF IInv, Types, LogShape, StdErr
<1>4. Accounted' /\ Exclusive'
  BY <1>1, <1>2 DEF IInv, Accounted, Exclusive
<1>5. OwnersAgree' /\ SocketsReady'
  BY <1>1, <1>2 DEF IInv, OwnersAgree, SocketsReady
<1>. QED  BY <1>3, <1>4, <1>5 DEF IInv

\* Opening the log file or turning to stderr, after the old number is gone.
LEMMA OpenStep ==
    ASSUME IInv, NEW t, Detached(t), NEW l, l.ready, l.named \in BOOLEAN,
           l \in [named : BOOLEAN, fd : OrNone, level : Nat, ready : BOOLEAN],
           lost' \in BOOLEAN, lost' => l.named,
           OpenOrStdErr(t, l),
           UNCHANGED <<dead, returned, held, started, mishaps, loopVars>>
    PROVE  IInv'
<1> DEFINE To(n) == [l EXCEPT !.fd = n]
<1>1. \A n \in OrNone :
        /\ To(n) \in [named : BOOLEAN, fd : OrNone, level : Nat, ready : BOOLEAN]
        /\ To(n).fd = n /\ To(n).ready /\ To(n).named = l.named
  OBVIOUS
<1>2. -1 \in OrNone /\ StdErr \in OrNone /\ Numbers \subseteq OrNone
  BY StdIsNumbers DEF OrNone, StdErr
<1>3. CASE l.named /\ Room(t) /\ table' = Opened(t, File("log")) /\ log' = To(Lowest(t))
  <2>1. Lowest(t) \in OrNone
    BY <1>2, <1>3, LowestIsFree
  <2>. HIDE DEF To
  <2>. QED  BY <1>1, <1>3, <2>1, LogFileStep
<1>4. CASE l.named /\ table' = t /\ log' = To(-1)
  <2>. HIDE DEF To
  <2>. QED  BY <1>1, <1>2, <1>4, LogPlainStep
<1>5. CASE ~l.named /\ table' = t /\ log' = To(StdErr)
  <2>. HIDE DEF To
  <2>. QED  BY <1>1, <1>2, <1>5, LogPlainStep
<1>. QED  BY <1>3, <1>4, <1>5 DEF OpenOrStdErr, OpenLog

\* Every function of the logger.
LEMMA LogStep ==
    ASSUME IInv, LogNext, UNCHANGED <<held, started, mishaps, loopVars>>
    PROVE  IInv'
<1>1. /\ log \in [named : BOOLEAN, fd : OrNone, level : Nat, ready : BOOLEAN]
      /\ dead \in BOOLEAN /\ lost \in BOOLEAN /\ ~returned /\ returned \in BOOLEAN
      /\ lost => log.named
      /\ ~log.ready => log.fd = 0
      /\ log.ready /\ ~log.named => log.fd = StdErr
  BY DEF IInv, Types, LogShape
<1>2. Levels \subseteq Nat /\ 0 \in OrNone /\ -1 \in OrNone /\ StdErr \in OrNone
  BY LogAssumption, FdTableAssumption, StdIsNumbers DEF Levels, OrNone, Numbers, StdErr
<1>3. ASSUME NEW named \in BOOLEAN, NEW level \in Levels, LogInit(named, level)  PROVE IInv'
  <2> DEFINE l == [named |-> named, fd |-> 0, level |-> level, ready |-> TRUE]
  <2>1. /\ l \in [named : BOOLEAN, fd : OrNone, level : Nat, ready : BOOLEAN]
        /\ l.ready /\ l.named \in BOOLEAN
    BY <1>2, <1>3
  <2>2. ~LogOwns /\ OpenOrStdErr(table, l)
    BY <1>3 DEF LogInit
  <2>3. lost' = FALSE /\ UNCHANGED <<dead, returned>>
    BY <1>3 DEF LogInit
  <2>4. log.fd \notin Numbers \ Std
    BY <1>1, <2>2, StdIsNumbers, FdTableAssumption DEF LogOwns, Numbers, Std, StdErr
  <2>5. Detached(table)
    BY <2>4, DetachedTables
  <2>. HIDE DEF l
  <2>. QED  BY <2>1, <2>2, <2>3, <2>5, OpenStep
<1>4. CASE LogReopen
  <2>1. log.ready /\ OpenOrStdErr(BeforeReopen, log) /\ UNCHANGED <<dead, lost, returned>>
    BY <1>4 DEF LogReopen, Quiet
  <2>2. Detached(BeforeReopen) /\ log.named \in BOOLEAN
    BY <1>1, DetachedTables
  <2>. QED  BY <1>1, <2>1, <2>2, OpenStep
<1>5. CASE LogRelease
  <2>1. log.ready /\ log' = [log EXCEPT !.fd = Released] /\ UNCHANGED <<dead, lost, returned>>
    BY <1>5 DEF LogRelease, Quiet
  <2>2. CASE log.fd = StdErr
    <3>1. log' = log /\ table' = table
      BY <1>1, <1>5, <2>1, <2>2 DEF Released, LogRelease
    <3>2. Detached(table)
      BY <2>2, DetachedTables, StdIsNumbers DEF Std, StdErr
    <3>. QED  BY <1>1, <2>1, <2>2, <3>1, <3>2, LogPlainStep
  <2>3. CASE log.fd # StdErr
    <3>1. table' = Closed(table, log.fd) /\ log' = [log EXCEPT !.fd = -1]
      BY <1>5, <2>1, <2>3 DEF Released, LogRelease
    <3>2. log.named
      BY <1>1, <2>1, <2>3
    <3>3. /\ log' \in [named : BOOLEAN, fd : OrNone, level : Nat, ready : BOOLEAN]
          /\ log'.fd = -1 /\ log'.ready /\ log'.named
      BY <1>1, <1>2, <2>1, <3>1, <3>2
    <3>4. Detached(Closed(table, log.fd))
      BY <2>1, <2>3, DetachedTables
    <3>. QED  BY <1>1, <2>1, <3>1, <3>3, <3>4, LogPlainStep
  <2>. QED  BY <2>2, <2>3
<1>6. ASSUME NEW level, level \in Nat, SetLevel(level)  PROVE IInv'
  BY <1>1, <1>6, LogQuietStep DEF SetLevel, Quiet
<1>7. ASSUME NEW level \in Nat, LogCall(FALSE, level) \/ (level = 0 /\ LogCall(TRUE, level))
      PROVE  IInv'
  <2>1. /\ lost' = (lost \/ Drops(level)) /\ dead' \in BOOLEAN
        /\ table' = table /\ log' = log
    BY <1>7 DEF LogCall, Logs
  <2>2. Drops(level) \in BOOLEAN /\ (Drops(level) => log.fd < 0)
    BY DEF Drops
  <2>3. lost' \in BOOLEAN /\ (lost' => lost \/ log.fd < 0)
    BY <1>1, <2>1, <2>2
  <2>4. 0 <= log.level
    BY <1>1
  <2>5. returned' = FALSE
    BY <1>1, <1>7, <2>4 DEF LogCall, Logs
  <2>. QED  BY <1>1, <2>1, <2>3, <2>5, LogQuietStep
<1>8. LevelUp \/ LevelDown => \E level \in Nat : SetLevel(level)
  BY <1>1 DEF LevelUp, LevelDown
<1>9. (LevelUp \/ LevelDown) => IInv'
  BY <1>6, <1>8
<1>10. (\E level \in Levels : SetLevel(level) \/ LogCall(FALSE, level)) => IInv'
  BY <1>2, <1>6, <1>7
<1>11. LogCall(TRUE, 0) => IInv'
  <2>1. 0 \in Nat
    OBVIOUS
  <2>. QED  BY <1>7, <2>1, Zenon
<1>. QED
  BY <1>3, <1>4, <1>5, <1>9, <1>10, <1>11 DEF LogNext

-----------------------------------------------------------------------------
(* Steps of the event loop, of ez_read_file and of ez_daemonize.           *)

\* What may become of a number while its owners stay: a free one gets a file
\* that needs no owner, a standard one turns into /dev/null.
Unowned(fd) ==
    /\ table'[fd] # Nothing /\ (table[fd] = Nothing \/ fd \in Std)
    /\ \/ table'[fd].kind = "epoll" /\ "create" \in mishaps' /\ table[fd] = Nothing
       \/ table'[fd].kind = "file" /\ fd = 0 /\ table[fd] = Nothing
       \/ table'[fd].kind = "null" /\ (fd \in Std \/ "dup2" \in mishaps')

\* Steps that change only numbers nobody owns.
LEMMA UnownedStep ==
    ASSUME IInv, table' \in [Numbers -> Files], mishaps \subseteq mishaps',
           \A fd \in Numbers : table'[fd] = table[fd] \/ Unowned(fd),
           UNCHANGED <<logVars, held, started, loopVars>>
    PROVE  IInv'
<1>1. /\ held' = held /\ log' = log /\ dead' = dead /\ lost' = lost /\ returned' = returned
      /\ started' = started /\ epfd' = epfd /\ evfd' = evfd
  BY DEF logVars, loopVars
<1>2. Held' = Held /\ LogOwns' = LogOwns /\ Held \subseteq Numbers
  BY <1>1 DEF Held, LogOwns
<1>3. Nothing.kind = "none" /\ -1 \notin Numbers
  BY KindsOfFiles, FdTableAssumption DEF Numbers
<1>4. Types' /\ LogShape'
  BY <1>1 DEF IInv, Types, LogShape
<1>5. Accounted'
  BY <1>1, <1>2 DEF IInv, Accounted, Unowned
<1>6. \A fd \in Numbers : table[fd] # Nothing => table'[fd] # Nothing
  BY DEF Unowned
<1>7. Exclusive'
  BY <1>1, <1>2, <1>6 DEF IInv, Exclusive, Types, OrNone, LogOwns
<1>8. OwnersAgree'
  <2>1. \A fd \in Numbers \ Std : table[fd] # Nothing => table'[fd] = table[fd]
    BY DEF Unowned
  <2>2. \A fd \in Numbers \ Std :
          fd \in Held \/ fd = log.fd \/ fd = epfd \/ fd = evfd => table[fd] # Nothing
    BY <1>3 DEF IInv, OwnersAgree
  <2>3. started = Std => \A fd \in Std : table'[fd].kind \in {"std", "null"}
    BY <1>3, StdIsNumbers DEF IInv, OwnersAgree, Unowned
  <2>. QED
    BY <1>1, <1>2, <2>1, <2>2, <2>3 DEF IInv, OwnersAgree
<1>9. SocketsReady'
  <2>1. \A fd \in Held : table'[fd].kind = "socket" => table'[fd] = table[fd]
    BY <1>2 DEF Unowned
  <2>. QED  BY <1>1, <1>2, <2>1 DEF IInv, SocketsReady
<1>. QED  BY <1>4, <1>5, <1>7, <1>8, <1>9 DEF IInv

\* ezApiCreate.
LEMMA ApiCreateStep ==
    ASSUME IInv, ApiCreate
    PROVE  IInv'
<1> DEFINE t == Opened(table, Kept("epoll"))
           l == Lowest(table)
           u == Opened(t, Kept("event"))
           m == Lowest(t)
<1>1. /\ held' = held /\ log' = log /\ dead' = dead /\ lost' = lost /\ returned' = returned
      /\ started' = started /\ epfd = -1 /\ evfd = -1
  BY DEF ApiCreate, logVars, IInv, Types
<1>2. /\ Kept("epoll") \in Files /\ Kept("event") \in Files
      /\ Kept("epoll").kind = "epoll" /\ Kept("event").kind = "event"
      /\ Nothing.kind = "none" /\ table \in [Numbers -> Files]
  BY KindsOfFiles DEF Kept, File, Files, Kinds, IInv, Types
<1>3. ASSUME Room(table)
      PROVE  /\ l \in Numbers /\ table[l] = Nothing
             /\ t \in [Numbers -> Files] /\ t[l].kind = "epoll"
             /\ \A fd \in Numbers : fd # l => t[fd] = table[fd]
  BY <1>2, <1>3, LowestIsFree, OpenedTable
<1>4. ASSUME Room(table), Room(t)
      PROVE  /\ m \in Numbers /\ t[m] = Nothing /\ m # l
             /\ u \in [Numbers -> Files] /\ u[m].kind = "event"
             /\ \A fd \in Numbers : fd # m => u[fd] = t[fd]
  <2>. HIDE DEF t, l
  <2>1. t \in [Numbers -> Files] /\ t[l].kind = "epoll"
    BY <1>3, <1>4
  <2>2. m \in Numbers /\ t[m] = Nothing
    BY <1>4, LowestIsFree
  <2>3. /\ u \in [Numbers -> Files] /\ u[m] = Kept("event")
        /\ \A fd \in Numbers : fd # m => u[fd] = t[fd]
    BY <1>2, <1>4, <2>1, OpenedTable
  <2>. QED  BY <1>2, <2>1, <2>2, <2>3
<1> HIDE DEF t, l, u, m
<1>5. CASE UNCHANGED <<table, mishaps, loopVars>>
  BY <1>1, <1>2, <1>5, UnownedStep DEF logVars
<1>6. CASE Room(table) /\ table' = t /\ mishaps' = mishaps \cup {"create"} /\ UNCHANGED loopVars
  <2>1. \A fd \in Numbers : table'[fd] = table[fd] \/ Unowned(fd)
    BY <1>2, <1>3, <1>6 DEF Unowned
  <2>. QED  BY <1>1, <1>3, <1>6, <2>1, UnownedStep DEF logVars
<1>7. CASE /\ Room(table) /\ Room(t) /\ table' = u
           /\ epfd' = l /\ evfd' = m /\ mishaps' = mishaps
  <2>1. /\ l \in Numbers /\ m \in Numbers /\ l # m
        /\ table[l] = Nothing /\ table[m] = Nothing
        /\ table' \in [Numbers -> Files] /\ table'[l].kind = "epoll" /\ table'[m].kind = "event"
        /\ \A fd \in Numbers : fd # l /\ fd # m => table'[fd] = table[fd]
    BY <1>3, <1>4, <1>7
  <2>2. Held' = Held /\ LogOwns' = LogOwns /\ Held \subseteq Numbers /\ -1 \notin Numbers
    BY <1>1, FdTableAssumption DEF Held, LogOwns, Numbers
  <2>3. l \notin Held /\ m \notin Held /\ (LogOwns => l # log.fd /\ m # log.fd)
    BY <2>1 DEF IInv, Exclusive
  <2>4. Types' /\ LogShape'
    BY <1>1, <1>7, <2>1, <2>2 DEF IInv, Types, LogShape, OrNone
  <2>5. Accounted'
    BY <1>1, <1>2, <1>7, <2>1, <2>2 DEF IInv, Accounted
  <2>6. Exclusive'
    BY <1>1, <1>2, <1>7, <2>1, <2>2, <2>3 DEF IInv, Exclusive, Types, OrNone, LogOwns
  <2>7. OwnersAgree'
    <3>1. started = Std => l \notin Std /\ m \notin Std
      BY <1>2, <2>1 DEF IInv, OwnersAgree
    <3>2. l \notin Std => l # log.fd
      BY <1>2, <2>1 DEF IInv, OwnersAgree
    <3>3. m \notin Std => m # log.fd
      BY <1>2, <2>1 DEF IInv, OwnersAgree
    <3>. QED
      BY <1>1, <1>7, <2>1, <2>2, <2>3, <3>1, <3>2, <3>3, StdIsNumbers DEF IInv, OwnersAgree
  <2>8. SocketsReady'
    BY <1>1, <2>1, <2>2, <2>3 DEF IInv, SocketsReady
  <2>. QED  BY <2>4, <2>5, <2>6, <2>7, <2>8 DEF IInv
<1>. QED
  BY <1>5, <1>6, <1>7 DEF ApiCreate, t, l, u, m

\* ezApiDelete.
LEMMA ApiDeleteStep ==
    ASSUME IInv, ApiDelete
    PROVE  IInv'
<1>1. /\ held' = held /\ log' = log /\ dead' = dead /\ lost' = lost /\ returned' = returned
      /\ started' = started /\ mishaps' = mishaps /\ epfd # -1 /\ evfd # -1
      /\ epfd' = -1 /\ evfd' = -1
  BY DEF ApiDelete, logVars, IInv, Types
<1>2. epfd \in Numbers /\ evfd \in Numbers /\ epfd # evfd /\ -1 \notin Numbers
  BY <1>1, FdTableAssumption DEF IInv, Types, OrNone, Exclusive, Numbers
<1>3. /\ table' \in [Numbers -> Files] /\ table'[epfd] = Nothing /\ table'[evfd] = Nothing
      /\ \A fd \in Numbers : fd # epfd /\ fd # evfd => table'[fd] = table[fd]
  <2> DEFINE t == Closed(table, epfd)
  <2>1. /\ t \in [Numbers -> Files] /\ t[epfd] = Nothing
        /\ \A fd \in Numbers : fd # epfd => t[fd] = table[fd]
    BY <1>2, ClosedTable DEF IInv, Types
  <2>2. table' = Closed(t, evfd)
    BY DEF ApiDelete
  <2>. HIDE DEF t
  <2>. QED  BY <1>2, <2>1, <2>2, ClosedTable
<1>4. Held' = Held /\ LogOwns' = LogOwns /\ Held \subseteq Numbers /\ Nothing.kind = "none"
  BY <1>1, KindsOfFiles DEF Held, LogOwns
<1>5. epfd \notin Held /\ evfd \notin Held /\ (LogOwns => epfd # log.fd /\ evfd # log.fd)
  BY <1>1 DEF IInv, Exclusive
<1>6. Types' /\ LogShape'
  BY <1>1, <1>3 DEF IInv, Types, LogShape, OrNone
<1>7. Accounted'
  BY <1>1, <1>2, <1>3, <1>4 DEF IInv, Accounted
<1>8. Exclusive'
  BY <1>1, <1>2, <1>3, <1>4, <1>5 DEF IInv, Exclusive, Types, OrNone, LogOwns
<1>9. OwnersAgree'
  <2>1. started = Std => epfd \notin Std /\ evfd \notin Std
    BY DEF IInv, OwnersAgree
  <2>2. (epfd \notin Std => epfd # log.fd) /\ (evfd \notin Std => evfd # log.fd)
    BY <1>2 DEF IInv, OwnersAgree
  <2>. QED
    BY <1>1, <1>2, <1>3, <1>4, <1>5, <2>1, <2>2, StdIsNumbers DEF IInv, OwnersAgree
<1>10. SocketsReady'
  BY <1>1, <1>3, <1>4, <1>5 DEF IInv, SocketsReady
<1>. QED  BY <1>6, <1>7, <1>8, <1>9, <1>10 DEF IInv

\* ez_read_file, when its file has number 0.
LEMMA ReadFileStep ==
    ASSUME IInv, ReadFile
    PROVE  IInv'
<1>1. /\ Room(table) /\ Lowest(table) = 0 /\ table' = Opened(table, File("file"))
      /\ mishaps' = mishaps /\ UNCHANGED <<logVars, held, started, loopVars>>
  BY DEF ReadFile
<1>2. /\ File("file") \in Files /\ File("file").kind = "file" /\ Nothing.kind = "none"
      /\ table \in [Numbers -> Files]
  BY KindsOfFiles DEF Kinds, IInv, Types
<1>3. /\ table' \in [Numbers -> Files]
      /\ \A fd \in Numbers : table'[fd] = table[fd] \/ Unowned(fd)
  BY <1>1, <1>2, LowestIsFree, OpenedTable DEF Unowned
<1>. QED  BY <1>1, <1>3, UnownedStep

\* ez_daemonize.
LEMMA DaemonizeStep ==
    ASSUME IInv, Daemonize
    PROVE  IInv'
<1> DEFINE t == Opened(table, File("null"))
           l == Lowest(table)
           Dup(n) == [fd \in Numbers |-> IF fd < n THEN File("null") ELSE t[fd]]
<1>1. /\ Room(table) /\ UNCHANGED <<logVars, held, started, loopVars>>
      /\ \/ table' = AfterRedirect(Dup(3), l) /\ mishaps' = mishaps
         \/ (\E n \in 0 .. 2 : table' = Dup(n)) /\ mishaps' = mishaps \cup {"dup2"}
  BY DEF Daemonize
<1>2. /\ File("null") \in Files /\ File("null").kind = "null" /\ Nothing.kind = "none"
      /\ File("null") # Nothing /\ table \in [Numbers -> Files]
  BY KindsOfFiles DEF Kinds, IInv, Types
<1>3. /\ l \in Numbers /\ table[l] = Nothing
      /\ t \in [Numbers -> Files] /\ t[l] = File("null")
      /\ \A fd \in Numbers : fd # l => t[fd] = table[fd]
  BY <1>1, <1>2, LowestIsFree, OpenedTable
<1>4. \A fd \in Numbers : fd \in Int /\ (fd \in Std <=> fd < 3) /\ fd >= 0
  BY FdTableAssumption DEF Numbers, Std
<1> HIDE DEF t, l
<1>5. ASSUME NEW n \in 0 .. 3
      PROVE  /\ Dup(n) \in [Numbers -> Files]
             /\ \A fd \in Numbers : /\ fd < n => Dup(n)[fd] = File("null")
                                    /\ fd >= n => Dup(n)[fd] = t[fd]
  BY <1>2, <1>3, <1>4
<1>6. CASE (\E n \in 0 .. 2 : table' = Dup(n)) /\ mishaps' = mishaps \cup {"dup2"}
  <2>1. PICK n \in 0 .. 2 : table' = Dup(n)
    BY <1>6
  <2>2. /\ table' \in [Numbers -> Files]
        /\ \A fd \in Numbers : /\ fd < n => table'[fd] = File("null")
                               /\ fd >= n => table'[fd] = t[fd]
    BY <1>5, <2>1
  <2>3. \A fd \in Numbers : table'[fd] = table[fd] \/ Unowned(fd)
    BY <1>2, <1>3, <1>4, <1>6, <2>2 DEF Unowned
  <2>. QED  BY <1>1, <1>6, <2>2, <2>3, UnownedStep
<1>7. CASE table' = AfterRedirect(Dup(3), l) /\ mishaps' = mishaps
  <2> DEFINE d == Dup(3)
  <2>1. /\ d \in [Numbers -> Files]
        /\ \A fd \in Numbers : /\ fd \in Std => d[fd] = File("null")
                               /\ fd \notin Std => d[fd] = t[fd]
    BY <1>4, <1>5
  <2>2. table' = IF l > StdErr THEN Closed(d, l) ELSE d
    BY <1>7 DEF AfterRedirect
  <2>. HIDE DEF d
  <2>3. /\ table' \in [Numbers -> Files]
        /\ \A fd \in Numbers : fd # l => table'[fd] = d[fd]
        /\ l \in Std => table'[l] = File("null")
        /\ l \notin Std => table'[l] = Nothing
    BY <1>3, <1>4, <2>1, <2>2, ClosedTable DEF StdErr
  <2>4. \A fd \in Numbers : table'[fd] = table[fd] \/ Unowned(fd)
    BY <1>2, <1>3, <1>7, <2>1, <2>3, StdIsNumbers DEF Unowned
  <2>. QED  BY <1>1, <1>7, <2>3, <2>4, UnownedStep
<1>. QED  BY <1>1, <1>6, <1>7

-----------------------------------------------------------------------------
(* Theorems.                                                               *)

\* The process may be started with any of its standard descriptors missing.
LEMMA InitIInv == Init => IInv
<1> SUFFICES ASSUME Init  PROVE IInv
  OBVIOUS
<1>1. /\ started \in SUBSET Std /\ mishaps = {} /\ epfd = -1 /\ evfd = -1
      /\ table = [fd \in Numbers |-> IF fd \in started THEN File("std") ELSE Nothing]
      /\ log = [named |-> FALSE, fd |-> 0, level |-> 0, ready |-> FALSE]
      /\ dead = FALSE /\ lost = FALSE /\ returned = FALSE /\ held = [fd \in Numbers |-> "none"]
  BY ProcessAssumption DEF Init, LogStart, SocketsStart
<1>2. /\ File("std") \in Files /\ File("std").kind = "std"
      /\ Nothing \in Files /\ Nothing.kind = "none"
  BY KindsOfFiles DEF Kinds
<1>3. Held = {} /\ -1 \notin Numbers /\ -1 \notin Std /\ 0 \in Std
  BY <1>1, FdTableAssumption DEF Held, Numbers, Std
<1>4. Types /\ LogShape
  <2>1. table \in [Numbers -> Files] /\ held \in [Numbers -> Apis]
    BY <1>1, <1>2 DEF Apis
  <2>2. log \in [named : BOOLEAN, fd : OrNone, level : Nat, ready : BOOLEAN]
    BY <1>1, StdIsNumbers DEF OrNone
  <2>. QED  BY <1>1, <2>1, <2>2 DEF Types, LogShape, OrNone
<1>5. Accounted /\ Exclusive
  <2>1. \A fd \in Numbers : table[fd] = Nothing \/ (table[fd].kind = "std" /\ fd \in Std)
    BY <1>1, <1>2
  <2>. QED  BY <1>1, <1>2, <1>3, <2>1 DEF Accounted, Exclusive, LogOwns
<1>6. OwnersAgree /\ SocketsReady
  <2>1. started = Std => \A fd \in Std : table[fd].kind = "std"
    BY <1>1, <1>2, StdIsNumbers
  <2>2. \A fd \in Numbers \ Std : fd # log.fd /\ fd # epfd /\ fd # evfd
    BY <1>1, <1>3
  <2>. QED  BY <1>1, <1>3, <2>1, <2>2 DEF OwnersAgree, SocketsReady
<1>. QED  BY <1>4, <1>5, <1>6 DEF IInv

\* Every step of the process keeps the descriptors accounted for.
LEMMA NextIInv == IInv /\ [Next]_vars => IInv'
<1> SUFFICES ASSUME IInv, [Next]_vars  PROVE IInv'
  OBVIOUS
<1>1. CASE LogNext /\ UNCHANGED <<held, started, mishaps, loopVars>>
  BY <1>1, LogStep
<1>2. CASE SocketsNext /\ UNCHANGED <<logVars, started, mishaps, loopVars>>
  BY <1>2, SocketsStep
<1>3. CASE ApiCreate
  BY <1>3, ApiCreateStep
<1>4. CASE ApiDelete
  BY <1>4, ApiDeleteStep
<1>5. CASE ReadFile
  BY <1>5, ReadFileStep
<1>6. CASE Daemonize
  BY <1>6, DaemonizeStep
<1>7. CASE UNCHANGED vars
  <2>1. /\ table' = table /\ log' = log /\ dead' = dead /\ lost' = lost /\ returned' = returned /\ held' = held
        /\ started' = started /\ mishaps' = mishaps /\ epfd' = epfd /\ evfd' = evfd
    BY <1>7 DEF vars, logVars, loopVars
  <2>2. Held' = Held /\ LogOwns' = LogOwns
    BY <2>1 DEF Held, LogOwns
  <2>. QED
    BY <2>1, <2>2 DEF IInv, Types, LogShape, Accounted, Exclusive, OwnersAgree, SocketsReady
<1>. QED
  BY <1>1, <1>2, <1>3, <1>4, <1>5, <1>6, <1>7 DEF Next

\* The inductive invariant holds for a table of any size.
THEOREM Invariant == Spec => []IInv
<1>1. Init => IInv
  BY InitIInv
<1>2. IInv /\ [Next]_vars => IInv'
  BY NextIInv
<1>. QED  BY <1>1, <1>2, PTL DEF Spec

\* A number above 2 belongs to one owner and to what it opened; with all
\* standard descriptors at the start nobody else gets their numbers.
THEOREM OneOwner == Spec => []OwnersAgree
<1>1. IInv => OwnersAgree
  BY DEF IInv
<1>. QED  BY <1>1, Invariant, PTL

\* Only the descriptors that NothingStrays lists stay open without an owner.
THEOREM NoStray == Spec => []NothingStrays
<1>1. IInv => NothingStrays
  <2> SUFFICES ASSUME IInv, NEW fd \in Numbers, table[fd] # Nothing, ~Owned(fd)
               PROVE  \/ fd \in Std /\ table[fd].kind \in {"std", "null"}
                      \/ fd = 0 /\ table[fd].kind \in {"socket", "file"}
                      \/ fd \in Std /\ table[fd].kind = "log"
                      \/ table[fd].kind = "epoll" /\ "create" \in mishaps
                      \/ table[fd].kind = "null" /\ "dup2" \in mishaps
    BY DEF NothingStrays
  <2>1. table[fd].kind \in Kinds
    BY DEF IInv, Types, Files
  <2>. QED  BY <2>1 DEF IInv, Accounted, Owned, Kinds
<1>. QED  BY <1>1, Invariant, PTL

\* A socket that a caller keeps is what the function that made it promises.
THEOREM Ready == Spec => []SocketsReady
<1>1. IInv => SocketsReady
  BY DEF IInv
<1>. QED  BY <1>1, Invariant, PTL

\* Only a logger that was given a file ever drops a call.
THEOREM Loss == Spec => [](lost => log.named)
<1>1. IInv => (lost => log.named)
  BY DEF IInv, LogShape
<1>. QED  BY <1>1, Invariant, PTL

\* An entry of _log_core is its head and message, cut to what leaves room for
\* the newline, whichever of the two is cut.
THEOREM EntryLength ==
    ASSUME NEW head \in Nat, NEW msg \in Nat
    PROVE  Entry(head, msg) = Written(head + msg, LogMaxLen) + 1
  BY LogAssumption DEF Entry, Written

\* A dump of any number of bytes leaves at least one byte of its buffer free.
LEMMA DumpFits ==
    ASSUME NEW n \in Nat
    PROVE  Dump(n) < 8 * LogMaxLen
<1> DEFINE size == 8 * LogMaxLen
           V == 0 .. size - 1
           K == (n + 15) \div 16
           Bytes(k) == IF n - 16 * k < 16 THEN n - 16 * k ELSE 16
           Line(k, l) == IF l < size - 1 THEN l + Written(64 + Bytes(k), size - l) ELSE l
           IsLen(len) == len = [k \in 0 .. K |-> IF k = 0 THEN 0 ELSE Line(k - 1, len[k - 1])]
           G == [k \in Nat |-> [l \in V |-> Line(k, l)]]
           len == CHOOSE f : IsLen(f)
<1>1. Dump(n) = len[K]
  BY DEF Dump
<1>2. K \in Nat /\ size \in Nat /\ 0 \in V
  BY LogAssumption
<1>3. ASSUME NEW k \in Nat, NEW l \in V
      PROVE  Line(k, l) \in V
  BY <1>2 DEF Written
<1>4. G \in [Nat -> [V -> V]] /\ \A k \in Nat, l \in V : G[k][l] = Line(k, l)
  BY <1>3
<1> HIDE DEF V, K, G, Line
<1>5. PICK g : Runs(g, 0, G, K, V)
  BY <1>2, <1>4, Iterated
<1>6. IsLen(g)
  <2>1. ASSUME NEW k \in 1 .. K
        PROVE  g[k] = Line(k - 1, g[k - 1])
    <3>1. k - 1 \in Nat /\ k - 1 \in 0 .. K
      BY <1>2
    <3>. QED  BY <1>4, <1>5, <3>1 DEF Runs
  <2>. QED  BY <1>2, <1>5, <2>1 DEF Runs
<1>7. IsLen(len)
  <2> HIDE DEF IsLen
  <2>. QED  BY <1>6
<1> HIDE DEF len
<1>8. ASSUME NEW k \in 1 .. K, len[k - 1] \in V
      PROVE  len[k] = G[k - 1][len[k - 1]]
  BY <1>2, <1>4, <1>7, <1>8
<1>9. len = [k \in 0 .. K |-> len[k]] /\ len[0] = 0
  BY <1>2, <1>7
<1>10. Runs(len, 0, G, K, V)
  BY <1>2, <1>4, <1>8, <1>9, Recursion
<1>. QED  BY <1>1, <1>2, <1>10 DEF Runs, V

\* Entries keep to their buffer and so do dumps, and only a logger that was
\* given a file ever drops a call, log_panic's abort included.
THEOREM Log_Contract == Spec => []LogContract
<1>1. LengthsKept
  <2>1. ASSUME NEW head \in HeadLens, NEW msg \in MsgLens
        PROVE  Entry(head, msg) = Written(head + msg, LogMaxLen) + 1
    BY LogAssumption, EntryLength
  <2>2. ASSUME NEW n \in DumpLens
        PROVE  Dump(n) < 8 * LogMaxLen
    BY LogAssumption, DumpFits
  <2>. QED  BY <2>1, <2>2 DEF LengthsKept
<1>2. IInv => LogContract
  BY <1>1 DEF IInv, LogShape, LogContract
<1>. QED  BY <1>2, Invariant, PTL
=============================================================================
