------------------------------ MODULE Sockets ------------------------------
(***************************************************************************)
(* The functions of ez_net.c that make, change and close sockets.  What    *)
(* the kernel answers to socket, bind, listen, connect, fcntl and          *)
(* setsockopt is chosen freely; addresses are what getaddrinfo found,      *)
(* tried in turn.                                                          *)
(***************************************************************************)
EXTENDS FdTable, FiniteSets

CONSTANT MaxHeld    \* sockets a caller keeps at a time

VARIABLE held       \* the function that returned the socket a caller keeps,
                    \* and "accept_blocking" if its fcntl failed

SocketsStart == held = [fd \in Numbers |-> "none"]

Held == {fd \in Numbers : held[fd] # "none"}

Fresh == File("socket")

\* Slip: the flag is read and not set.
SetNonBlockForgets(file) == file

\* ez_net_set_non_block
SetNonBlock(file) == [file EXCEPT !.nonblock = TRUE]

\* ez_net_set_closexec: F_SETFL does not reach the descriptor flags
SetClosexec(file) == file

\* ez_net_close_socket
CloseSocket(t, s) == IF s > 0 THEN Closed(t, s) ELSE t

\* a socket that was made and failed at some later call
Failed(t) == CloseSocket(Opened(t, Fresh), Lowest(t))

\* the function api returns the socket it has made in the table t
Return(t, api, file) ==
    /\ Room(t)
    /\ Cardinality(Held) < MaxHeld
    /\ table' = Opened(t, file)
    /\ held' = [held EXCEPT ![Lowest(t)] = api]

\* it returns ANET_ERR and leaves the table t
Error(t) == table' = t /\ UNCHANGED held

\* _ez_net_tcp_server: an address without a socket is skipped, any later
\* failure ends the attempt
TcpServer ==
    \/ Error(table)
    \/ Room(table) /\ Error(Failed(table))
    \/ Return(table, "tcp_server", [SetNonBlock(Fresh) EXCEPT !.state = "listening"])

\* ez_net_unix_server
UnixServer ==
    \/ Error(table)
    \/ Room(table) /\ Error(Failed(table))
    \/ Return(table, "unix_server", [Fresh EXCEPT !.state = "listening"])

\* ez_net_tcp_generic_accept: the results of the two fcntl are not looked at
Accept(s) ==
    /\ s \in Held /\ table[s].state = "listening"
    /\ \/ Error(table)
       \/ Return(table, "accept",
                 SetNonBlock(SetClosexec([Fresh EXCEPT !.state = "connected"])))
       \/ Return(table, "accept_blocking", [Fresh EXCEPT !.state = "connected"])

\* What the addresses that failed before the last one have left: a second one
\* leaves nothing more than the first, as only number 0 is never closed.
Tried == {table} \cup (IF Room(table) THEN {Failed(table)} ELSE {})

\* ez_net_tcp_connect_ex, and ez_net_unix_connect_ex with one address: an
\* address that is not reached is given up and the next one tried
Connect(api, file) ==
    \E t \in Tried :
      \/ Error(t)
      \/ Return(t, api, [file EXCEPT !.state = "connected"])
      \/ /\ file.nonblock
         /\ Return(t, api, [file EXCEPT !.state = "connecting"])

\* the kernel completes the connection of a socket
Completes(s) ==
    /\ s \in Held /\ table[s].state = "connecting"
    /\ table' = [table EXCEPT ![s].state = "connected"]
    /\ UNCHANGED held

\* ez_net_close_socket, by the caller
Close(s) ==
    /\ s \in Held
    /\ table' = CloseSocket(table, s)
    /\ held' = [held EXCEPT ![s] = "none"]

\* ez_net_set_non_block and ez_net_set_closexec, by the caller
SetFlags(s) ==
    /\ s \in Held
    /\ \E file \in {SetNonBlock(table[s]), SetClosexec(table[s])} :
         table' = [table EXCEPT ![s] = file]
    /\ UNCHANGED held

SocketsNext ==
    \/ TcpServer
    \/ UnixServer
    \/ Connect("connect", Fresh)
    \/ Connect("connect_non_block", SetNonBlock(Fresh))
    \/ \E s \in Numbers : Accept(s) \/ Completes(s) \/ Close(s) \/ SetFlags(s)

-----------------------------------------------------------------------------
(* Property.                                                               *)

\* What a caller may rely on of a socket it keeps: it is in the state its
\* function promises, and it does not block where the function says so or
\* an event loop would need it: all but the server and the connections the
\* caller asked for as blocking, and accepted ones whose fcntl failed without
\* notice.  None is ever closed on exec, ez_net_set_closexec or not.
SocketsReady ==
    \A fd \in Held : table[fd].kind = "socket" =>
      /\ held[fd] \in {"tcp_server", "unix_server"} <=> table[fd].state = "listening"
      /\ table[fd].state = "connecting" => held[fd] = "connect_non_block"
      /\ held[fd] \in {"tcp_server", "accept", "connect_non_block"} => table[fd].nonblock
      /\ ~table[fd].cloexec
=============================================================================
