------------------------------ MODULE FdTable ------------------------------
(***************************************************************************)
(* The table of descriptors the kernel keeps for a process, as the library *)
(* uses it: a new descriptor gets the lowest number that is free, which is *)
(* 0, 1 or 2 when the process was started without its standard ones, and   *)
(* a number that was closed is soon the number of something else.          *)
(***************************************************************************)
EXTENDS Integers

CONSTANT MaxFd    \* largest number: RLIMIT_NOFILE less one

ASSUME FdTableAssumption == MaxFd \in Nat /\ MaxFd >= 2

VARIABLE table    \* what every descriptor refers to

Numbers == 0 .. MaxFd
Std     == 0 .. 2
StdErr  == 2                        \* STDERR_FILENO

Kinds == {"none", "std", "null", "file", "log", "socket", "epoll", "event"}

\* An open file: what it is, and for sockets how far it has got.
File(kind) == [kind |-> kind, state |-> "plain", nonblock |-> FALSE, cloexec |-> FALSE]
Nothing == File("none")

FreeIn(t) == {fd \in Numbers : t[fd] = Nothing}
Room(t)   == FreeIn(t) # {}

\* open, socket, accept, epoll_create1, eventfd: the number they return
Lowest(t) == CHOOSE fd \in FreeIn(t) : \A g \in FreeIn(t) : fd <= g

Opened(t, file) == [t EXCEPT ![Lowest(t)] = file]

\* close; of -1 it fails
Closed(t, fd) == IF fd \in Numbers THEN [t EXCEPT ![fd] = Nothing] ELSE t
=============================================================================
