----------------------------- MODULE Connection -----------------------------
(***************************************************************************)
(* One connection of the echo server (test/echo_s.c) over the library's    *)
(* non-blocking socket calls (ez_net.c) and its byte buffer: accept with   *)
(* its two registrations, the welcome message sent when the socket is      *)
(* writable, what is read written back, and the end of the connection.     *)
(*                                                                         *)
(* The peer and the kernel act between any two system calls.  A byte is    *)
(* its number in the stream the peer sends, 1, 2, ...; a byte of the       *)
(* welcome message is 0.  The loop is what FileEvents shows of it: a batch *)
(* entry is dispatched to the read and then to the write handler, as long  *)
(* as anything is registered.  errno is the thread's, never cleared by a   *)
(* call that succeeds; other connections leave their errors in it.         *)
(***************************************************************************)
EXTENDS ByteBuf

CONSTANTS
    Chunk,      \* 512: size of the buffer and what a read wants to have free
    SndBuf,     \* bytes the kernel takes before write fails with EAGAIN
    WelcomeLen, \* length of the welcome message
    MaxBytes    \* bound: bytes the peer sends

ASSUME ConnectionAssumption ==
    /\ Chunk \in Nat \ {0}
    /\ SndBuf \in Nat \ {0}
    /\ WelcomeLen \in Nat \ {0}
    /\ MaxBytes \in Nat

VARIABLES
    pc,      \* "poll", "dispatch", "handle": where the loop's thread is
    client,  \* the client_t: "none", "live", "freed", or "refused" at accept
    reg,     \* what the loop has registered for the descriptor
    mask,    \* client->mask
    buf,     \* client->buf
    due,     \* directions of the batch entry not dispatched yet
    res,     \* result and nbytes of ez_net_read_bf
    errno,   \* "again" for EAGAIN and EINTR, "other" for anything else
    sent,    \* bytes the peer has sent
    taken,   \* bytes read from the socket
    shut,    \* the peer has sent its end of file
    dead,    \* the connection was reset
    err,     \* the reset has not been reported yet
    sndq,    \* bytes written and not yet received by the peer
    got      \* bytes the peer has received

server == <<pc, client, reg, mask, buf, due, res>>
peer   == <<sent, shut, dead, got>>
vars   == <<server, errno, peer, taken, err, sndq>>

Dirs == {"R", "W"}

Init ==
    /\ pc = "poll"
    /\ client = "none"
    /\ reg = {} /\ mask = {} /\ due = {}
    /\ buf = NewBuf(Chunk)
    /\ res = [r |-> "OK", n |-> 0]
    /\ errno = "other"
    /\ sent = 0 /\ taken = 0
    /\ shut = FALSE /\ dead = FALSE /\ err = FALSE
    /\ sndq = <<>> /\ got = <<>>

Smaller(a, b) == IF a < b THEN a ELSE b

\* first, first + 1, ..., last
Stream(first, last) == [i \in 1 .. last - first + 1 |-> first + i - 1]

-----------------------------------------------------------------------------
(* System calls on the socket.                                             *)

\* read has nothing more to give, now and later
AtEnd == sent = taken /\ ~err /\ (shut \/ dead)

\* read(fd, p, size) returns n; with no room it returns 0 like at the end
KernelRead(size, n) ==
    \/ /\ size > 0 /\ sent > taken
       /\ n \in 1 .. Smaller(size, sent - taken)
       /\ taken' = taken + n
       /\ UNCHANGED <<err, errno>>
    \/ /\ size > 0 /\ sent = taken /\ err
       /\ n = -1
       /\ err' = FALSE
       /\ errno' = "other"
       /\ UNCHANGED taken
    \/ /\ size = 0 \/ AtEnd
       /\ n = 0
       /\ UNCHANGED <<taken, err, errno>>
    \/ /\ size > 0 /\ sent = taken /\ ~err /\ ~AtEnd
       /\ n = -1
       /\ errno' = "again"
       /\ UNCHANGED <<taken, err>>

\* write(fd, bytes) returns n; SIGPIPE is ignored (cust_sign.h)
KernelWrite(bytes, n) ==
    \/ /\ ~dead /\ Len(sndq) < SndBuf
       /\ n \in 1 .. Smaller(Len(bytes), SndBuf - Len(sndq))
       /\ sndq' = sndq \o SubSeq(bytes, 1, n)
       /\ UNCHANGED <<err, errno>>
    \/ /\ ~dead /\ Len(sndq) >= SndBuf
       /\ n = -1
       /\ errno' = "again"
       /\ UNCHANGED <<err, sndq>>
    \/ /\ dead
       /\ n = -1
       /\ err' = FALSE
       /\ errno' = "other"
       /\ UNCHANGED sndq

\* Slip: a call that returns 0 is always to be repeated.
ResultRetriesZero(n, e) ==
    IF n = 0 \/ (n < 0 /\ e = "again") THEN "EAGAIN"
    ELSE IF n < 0 THEN "ERR" ELSE "OK"

\* Slip: errno is only looked at when the call returns 0.
ResultErrs(n, e) ==
    IF n = 0 /\ e = "again" THEN "EAGAIN" ELSE IF n < 0 THEN "ERR" ELSE "OK"

\* ez_net_read, ez_net_write: what they make of the call's return value n and
\* of errno e, which only a failing call sets
Result(n, e) ==
    IF n <= 0 /\ e = "again" THEN "EAGAIN" ELSE IF n < 0 THEN "ERR" ELSE "OK"

\* Slip: the read position moves by what was offered, not by what was taken.
AfterWriteAll(b, n) == Drained(b, Readable(b))

\* ez_net_write_bf and the test of the two positions that follows it
AfterWrite(b, n) == IF n > 0 THEN Drained(b, n) ELSE b

ResetIfDrained(b) == IF b.r >= b.w THEN ResetBuf(b) ELSE b

-----------------------------------------------------------------------------
(* The server.                                                             *)

\* Slip: the second assignment replaces the mask.
AcceptedMaskLast == {"R"}

AcceptedMask == {"W", "R"}

\* accept_handler
AcceptClient ==
    /\ pc = "poll"
    /\ client = "none"
    /\ client' = "live"
    /\ reg' = {"W", "R"}
    /\ mask' = AcceptedMask
    /\ UNCHANGED <<pc, buf, due, res, errno, peer, taken, err, sndq>>

\* accept fails: the peer keeps waiting
AcceptError ==
    /\ pc = "poll"
    /\ client = "none"
    /\ errno' \in {"again", "other"}
    /\ UNCHANGED <<server, peer, taken, err, sndq>>

\* one of the registrations fails: what was done is undone
AcceptFails ==
    /\ pc = "poll"
    /\ client = "none"
    /\ client' = "refused"
    /\ errno' \in {errno, "other"}
    /\ UNCHANGED <<pc, reg, mask, buf, due, res, peer, taken, err, sndq>>

Ready ==
    (IF sent > taken \/ shut \/ dead THEN {"R"} ELSE {})
        \cup (IF Len(sndq) < SndBuf \/ dead THEN {"W"} ELSE {})

\* All that is ready is reported; the kernel may report more (spuriously).
Poll ==
    /\ pc = "poll"
    /\ due' \in {m \in SUBSET reg : m # {} /\ Ready \cap reg \subseteq m}
    /\ pc' = "dispatch"
    /\ UNCHANGED <<client, reg, mask, buf, res, errno, peer, taken, err, sndq>>

\* bytebuf_resize when less than a chunk is free, to a chunk
RoomMade == IF Writeable(buf) < Chunk THEN Resized(buf, Chunk) ELSE buf

\* echo_client_handler for AE_READABLE up to the result of ez_net_read_bf
ReadClient ==
    /\ pc = "dispatch"
    /\ "R" \in due
    /\ due' = due \ {"R"}
    /\ \E n \in -1 .. Chunk :
        /\ KernelRead(Writeable(RoomMade), n)
        /\ res' = [r |-> Result(n, errno'), n |-> IF n > 0 THEN n ELSE 0]
        /\ buf' = IF n > 0 THEN Filled(RoomMade, Stream(taken + 1, taken + n))
                           ELSE RoomMade
    /\ pc' = "handle"
    /\ UNCHANGED <<client, reg, mask, peer, sndq>>

GoesOn == res.r = "EAGAIN" /\ res.n = 0
Answers == res.r = "OK" /\ res.n > 0

\* nothing to read: wait for the next readiness
ReadAgain ==
    /\ pc = "handle"
    /\ GoesOn
    /\ pc' = "dispatch"
    /\ UNCHANGED <<client, reg, mask, buf, due, res, errno, peer, taken, err, sndq>>

\* ez_net_write_bf; whatever is not taken stays in the buffer
Echo ==
    /\ pc = "handle"
    /\ Answers
    /\ \E n \in -1 .. Chunk :
        /\ KernelWrite(Contents(buf), n)
        /\ buf' = ResetIfDrained(AfterWrite(buf, n))
    /\ pc' = "dispatch"
    /\ UNCHANGED <<client, reg, mask, due, res, peer, taken>>

\* end of file or error: everything in client->mask is withdrawn
CloseClient ==
    /\ pc = "handle"
    /\ ~GoesOn /\ ~Answers
    /\ reg' = reg \ mask
    /\ client' = "freed"
    /\ pc' = "dispatch"
    /\ UNCHANGED <<mask, buf, due, res, errno, peer, taken, err, sndq>>

RegAfterWelcome == reg \ {"W"}

\* echo_client_handler for AE_WRITABLE; the result of the write is not used
Welcome ==
    /\ pc = "dispatch"
    /\ due = {"W"}
    /\ reg # {}
    /\ due' = {}
    /\ \E n \in -1 .. WelcomeLen : KernelWrite([i \in 1 .. WelcomeLen |-> 0], n)
    /\ reg' = RegAfterWelcome
    /\ mask' = {"R"}
    /\ UNCHANGED <<pc, client, buf, res, peer, taken>>

\* the read handler withdrew everything
SkipWelcome ==
    /\ pc = "dispatch"
    /\ due = {"W"}
    /\ reg = {}
    /\ due' = {}
    /\ UNCHANGED <<pc, client, reg, mask, buf, res, errno, peer, taken, err, sndq>>

EndBatch ==
    /\ pc = "dispatch"
    /\ due = {}
    /\ pc' = "poll"
    /\ UNCHANGED <<client, reg, mask, buf, due, res, errno, peer, taken, err, sndq>>

\* a call on another descriptor of the loop fails
OtherCall ==
    /\ pc = "poll"
    /\ client = "live"
    /\ errno' \in {"again", "other"}
    /\ UNCHANGED <<server, peer, taken, err, sndq>>

-----------------------------------------------------------------------------
(* The peer.                                                               *)

Connected == client \in {"none", "live"} /\ ~dead

PeerSend ==
    /\ Connected /\ ~shut
    /\ sent < MaxBytes
    /\ sent' = sent + 1
    /\ UNCHANGED <<server, errno, shut, dead, got, taken, err, sndq>>

PeerReceive ==
    /\ ~dead
    /\ sndq # <<>>
    /\ got' = Append(got, Head(sndq))
    /\ sndq' = Tail(sndq)
    /\ UNCHANGED <<server, errno, sent, shut, dead, taken, err>>

\* end of file; the peer may go on receiving
PeerShut ==
    /\ Connected /\ ~shut
    /\ shut' = TRUE
    /\ UNCHANGED <<server, errno, sent, dead, got, taken, err, sndq>>

PeerReset ==
    /\ Connected
    /\ dead' = TRUE
    /\ err' = TRUE
    /\ sndq' = <<>>
    /\ UNCHANGED <<server, errno, sent, shut, got, taken>>

-----------------------------------------------------------------------------
Server ==
    \/ AcceptClient \/ AcceptError \/ AcceptFails
    \/ Poll \/ ReadClient \/ Welcome \/ SkipWelcome \/ EndBatch
    \/ ReadAgain \/ Echo \/ CloseClient

Peer == PeerSend \/ PeerReceive \/ PeerShut \/ PeerReset

Next == Server \/ OtherCall \/ Peer

Spec == Init /\ [][Next]_vars

\* The loop runs; epoll is level triggered, so that Poll reports whatever is
\* ready each time.  The peer owes nothing.
FairSpec == Spec /\ WF_vars(Server)

-----------------------------------------------------------------------------
(* Properties.                                                             *)

\* Every variable has its type; the two positions stay in order and within
\* the block, although the byte buffer itself does not look.
TypeOK ==
    /\ pc \in {"poll", "dispatch", "handle"}
    /\ client \in {"none", "live", "freed", "refused"}
    /\ reg \subseteq Dirs /\ mask \subseteq Dirs /\ due \subseteq Dirs
    /\ res.r \in {"OK", "ERR", "EAGAIN"} /\ res.n \in Nat
    /\ errno \in {"again", "other"}
    /\ 0 <= buf.r /\ buf.r <= buf.w /\ buf.w <= buf.cap
    /\ DOMAIN buf.data = 0 .. buf.cap - 1
    /\ taken <= sent
    /\ Len(sndq) <= SndBuf

\* The bytes of the peer's stream in s are 1, ..., n, in this order.
Ordered(s, n) ==
    /\ {s[i] : i \in DOMAIN s} \ {0} = 1 .. n
    /\ \A i, j \in DOMAIN s : i < j /\ s[j] # 0 => s[i] < s[j]

\* What the peer has received, what is on the way to it and what waits in the
\* buffer are together exactly what the server has read: through partial
\* writes, full send buffers and resizing no byte is lost, doubled or
\* reordered while the client lives.
EchoInOrder ==
    client = "live" /\ ~dead => Ordered(got \o sndq \o Contents(buf), taken)

\* The loop never holds a registration whose client_t is freed, and between
\* two batches client->mask is what the loop has registered: it is the
\* argument of the withdrawal when the client is freed.
RegisteredLives ==
    /\ reg # {} => client = "live"
    /\ pc = "poll" /\ client = "live" => mask = reg

\* A client is closed because its peer ended or reset the connection, or
\* because the buffer was full of bytes the peer does not take: a read into
\* no room returns 0 like the end of file.
ClosedForCause ==
    client = "freed" => shut \/ dead \/ Writeable(buf) = 0

\* After the peer's end the client is freed, unless some call left EAGAIN in
\* errno.
EndSeen ==
    client = "live" /\ (shut \/ dead) ~> client = "freed" \/ errno = "again"

\* "peer closed: reading always gives [result => NET_OK, nread => 0]"
\* (echo_c.c:74): a read at the end of the stream is reported as such.
EndReadsOkZero ==
    [][AtEnd /\ pc = "dispatch" /\ pc' = "handle" => res' = [r |-> "OK", n |-> 0]]_vars
=============================================================================
