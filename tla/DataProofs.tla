----------------------------- MODULE DataProofs -----------------------------
(***************************************************************************)
(* Proofs about data on its way.  Through a connection: no registration    *)
(* outlives its client, the positions of its buffer stay in order, it is   *)
(* closed for a reason, and what it is sent is echoed in order, for        *)
(* buffers, messages and streams of any length.  Through a conversion:     *)
(* texts are encoded as the table says, integers come back from a buffer,  *)
(* and numbers are read as they are written, for texts and integers of any *)
(* length.                                                                 *)
(***************************************************************************)
EXTENDS Connection, Conversions, SequenceTheorems, Iteration

\* Inductive form of RegisteredLives: client->mask never differs from what is
\* registered, reading included, so that the withdrawal in CloseClient is
\* complete; before the welcome both directions are registered, after it only
\* reading.
LInv ==
    /\ client = "live" => reg = mask /\ reg \in {{"R"}, {"R", "W"}}
    /\ client # "live" => reg = {}
    /\ pc = "handle" => client = "live" /\ "R" \notin due
    /\ pc = "dispatch" /\ "R" \in due => client = "live"
    /\ pc = "poll" => due = {}

USE DEF server, peer

\* At the start no handler is entered.
LEMMA LInvInit == Init => LInv
  BY DEF Init, LInv

\* The server's calls keep the life of the client.
LEMMA LInvServer ==
    ASSUME LInv, Server
    PROVE  LInv'
<1>1. CASE AcceptClient
  BY <1>1 DEF LInv, AcceptClient, AcceptedMask
<1>2. CASE AcceptError
  BY <1>2 DEF LInv, AcceptError
<1>3. CASE AcceptFails
  BY <1>3 DEF LInv, AcceptFails
<1>4. CASE Poll
  BY <1>4 DEF LInv, Poll
<1>5. CASE ReadClient
  BY <1>5 DEF LInv, ReadClient
<1>6. CASE Welcome
  BY <1>6 DEF LInv, Welcome, RegAfterWelcome
<1>7. CASE SkipWelcome
  BY <1>7 DEF LInv, SkipWelcome
<1>8. CASE EndBatch
  BY <1>8 DEF LInv, EndBatch
<1>9. CASE ReadAgain
  BY <1>9 DEF LInv, ReadAgain
<1>10. CASE Echo
  BY <1>10 DEF LInv, Echo
<1>11. CASE CloseClient
  \* the batch entry may still hold "W", never "R"
  BY <1>11 DEF LInv, CloseClient
<1> QED
  BY <1>1, <1>2, <1>3, <1>4, <1>5, <1>6, <1>7, <1>8, <1>9, <1>10, <1>11
     DEF Server

\* So do the steps of the peer and the other calls of the loop.
LEMMA LInvPeer ==
    ASSUME LInv, Peer \/ OtherCall \/ UNCHANGED vars
    PROVE  LInv'
  BY DEF LInv, Peer, PeerSend, PeerReceive, PeerShut, PeerReset, OtherCall, vars

\* The handlers' argument is never a freed client_t, and what the server
\* believes to be registered is what the loop has registered.
THEOREM NoDanglingHandler == Spec => []RegisteredLives
<1>1. LInv => RegisteredLives
  BY DEF LInv, RegisteredLives
<1>2. LInv /\ [Next]_vars => LInv'
  BY LInvServer, LInvPeer DEF Next
<1> QED
  BY <1>1, <1>2, LInvInit, PTL DEF Spec

-----------------------------------------------------------------------------
(* The buffer and the reasons to close.                                    *)

Buffers ==
    {b \in [data : [0 .. Chunk - 1 -> Int], r : Nat, w : Nat, cap : {Chunk}] :
       b.r <= b.w /\ b.w <= Chunk}

\* Types; the buffer is never resized to another size than it has.
Typed ==
    /\ pc \in {"poll", "dispatch", "handle"}
    /\ client \in {"none", "live", "freed", "refused"}
    /\ reg \subseteq Dirs /\ mask \subseteq Dirs /\ due \subseteq Dirs
    /\ res \in [r : {"OK", "ERR", "EAGAIN"}, n : Nat]
    /\ errno \in {"again", "other"}
    /\ buf \in Buffers
    /\ sent \in Nat /\ taken \in Nat /\ taken <= sent
    /\ sndq \in Seq(Int) /\ Len(sndq) <= SndBuf
    /\ shut \in BOOLEAN /\ dead \in BOOLEAN /\ err \in BOOLEAN

Cause == shut \/ dead \/ Writeable(buf) = 0

\* A result that closes the client has a cause from the read on; an error is
\* only pending on a connection that was reset.
CauseInv ==
    /\ err => dead
    /\ pc = "handle" => GoesOn \/ Answers \/ Cause
    /\ client = "freed" => Cause

CInv == LInv /\ Typed /\ CauseInv

\* What read and write return is no more than was asked for.
LEMMA SmallerIs ==
    ASSUME NEW a \in Int, NEW b \in Int
    PROVE  Smaller(a, b) \in Int /\ Smaller(a, b) <= a /\ Smaller(a, b) <= b
  BY DEF Smaller

\* The operations on the buffer keep its positions in order.
LEMMA BufferSteps ==
    ASSUME NEW b \in Buffers
    PROVE  /\ Resized(b, Chunk) \in Buffers
           /\ Writeable(Resized(b, Chunk)) = Writeable(b)
           /\ Writeable(b) \in Nat /\ Readable(b) \in Nat
           /\ ResetIfDrained(b) \in Buffers
           /\ \A n \in Nat : n <= Readable(b) => Drained(b, n) \in Buffers
           /\ \A m, n \in Nat : n <= Writeable(b) =>
                Filled(b, Stream(m + 1, m + n)) \in Buffers
<1> DEFINE Blocks == [0 .. Chunk - 1 -> Int]
           Recs == [data : Blocks, r : Nat, w : Nat, cap : {Chunk}]
<1>1. Chunk \in Nat \ {0}
  BY ConnectionAssumption
<1>2. /\ b \in Recs /\ b.data \in Blocks /\ b.r \in Nat /\ b.w \in Nat /\ b.cap = Chunk
      /\ b.r <= b.w /\ b.w <= Chunk
  BY DEF Buffers
<1>3. \A x \in Recs : x.r <= x.w /\ x.w <= Chunk => x \in Buffers
  BY DEF Buffers
<1>4. Writeable(b) \in Nat /\ Readable(b) \in Nat
  BY <1>1, <1>2 DEF Writeable, Readable
<1>5. Resized(b, Chunk) \in Buffers /\ Writeable(Resized(b, Chunk)) = Writeable(b)
  <2> DEFINE d == [i \in 0 .. Chunk - 1 |-> IF i < b.cap THEN b.data[i] ELSE Junk]
             x == Resized(b, Chunk)
  <2>1. d \in Blocks
    BY <1>1, <1>2 DEF Junk
  <2>2. x = [b EXCEPT !.cap = Chunk, !.data = d]
    BY DEF Resized
  <2>. HIDE DEF d, x, Blocks
  <2>3. x \in Recs /\ x.r = b.r /\ x.w = b.w /\ x.cap = Chunk
    BY <1>2, <2>1, <2>2
  <2>. QED  BY <1>2, <1>3, <2>3 DEF Writeable, x
<1>6. ResetIfDrained(b) \in Buffers
  <2> DEFINE d == [b.data EXCEPT ![0] = Junk]
             x == ResetBuf(b)
  <2>1. d \in Blocks
    BY <1>1, <1>2 DEF Junk
  <2>2. x = [b EXCEPT !.data = d, !.r = 0, !.w = 0]
    BY <1>2 DEF ResetBuf
  <2>. HIDE DEF d, x, Blocks
  <2>3. x \in Recs /\ x.r = 0 /\ x.w = 0
    BY <1>2, <2>1, <2>2
  <2>. QED  BY <1>1, <1>3, <2>3 DEF ResetIfDrained, x
<1>7. ASSUME NEW n \in Nat, n <= Readable(b)  PROVE Drained(b, n) \in Buffers
  <2> DEFINE x == Drained(b, n)
  <2>1. b.r + n \in Nat /\ b.r + n <= b.w
    BY <1>2, <1>7 DEF Readable
  <2>2. x = [b EXCEPT !.r = b.r + n]
    BY DEF Drained
  <2>. HIDE DEF x, Blocks
  <2>3. x \in Recs /\ x.r = b.r + n /\ x.w = b.w
    BY <1>2, <2>1, <2>2
  <2>. QED  BY <1>2, <1>3, <2>1, <2>3 DEF x
<1>8. ASSUME NEW m \in Nat, NEW n \in Nat, n <= Writeable(b)
      PROVE  Filled(b, Stream(m + 1, m + n)) \in Buffers
  <2> DEFINE s == Stream(m + 1, m + n)
             d == [i \in DOMAIN b.data |->
                     IF i - b.w \in 0 .. Len(s) - 1 THEN s[i - b.w + 1] ELSE b.data[i]]
             x == Filled(b, s)
  <2>1. s \in [1 .. n -> Int]
    BY DEF Stream
  <2>2. Len(s) = n /\ s \in Seq(Int)
    BY <2>1
  <2>. HIDE DEF s
  <2>3. d \in Blocks
    BY <1>1, <1>2, <2>1, <2>2
  <2>4. x = [b EXCEPT !.w = b.w + Len(s), !.data = d]
    BY DEF Filled
  <2>5. b.w + n <= Chunk /\ b.w + n \in Nat /\ b.r <= b.w + n
    BY <1>1, <1>2, <1>8 DEF Writeable
  <2>. HIDE DEF d, x, Blocks
  <2>6. x \in Recs /\ x.r = b.r /\ x.w = b.w + n
    BY <1>2, <2>2, <2>3, <2>4, <2>5
  <2>. QED  BY <1>3, <2>5, <2>6 DEF x, s
<1>. QED  BY <1>4, <1>5, <1>6, <1>7, <1>8

\* At the start the buffer is empty and nothing has been sent.
LEMMA CInvInit == Init => CInv
<1> SUFFICES ASSUME Init  PROVE CInv
  OBVIOUS
<1>1. NewBuf(Chunk) \in Buffers
  BY ConnectionAssumption DEF NewBuf, Buffers, Junk
<1>2. Typed
  <2>1. sndq \in Seq(Int) /\ Len(sndq) <= SndBuf
    BY ConnectionAssumption DEF Init
  <2>2. res \in [r : {"OK", "ERR", "EAGAIN"}, n : Nat]
    BY DEF Init
  <2>3. buf \in Buffers
    BY <1>1 DEF Init
  <2>4. pc = "poll" /\ client = "none" /\ errno = "other" /\ sent = 0 /\ taken = 0
        /\ reg = {} /\ mask = {} /\ due = {} /\ shut = FALSE /\ dead = FALSE /\ err = FALSE
    BY DEF Init
  <2>5. sent \in Nat /\ taken \in Nat /\ taken <= sent
    BY <2>4
  <2>. QED  BY <2>1, <2>2, <2>3, <2>4, <2>5, Zenon DEF Typed
<1>3. CauseInv
  BY DEF Init, CauseInv
<1>. QED  BY <1>2, <1>3, LInvInit DEF CInv

\* The read half: a result that is neither data nor EAGAIN has a cause.
LEMMA CInvRead ==
    ASSUME CInv, ReadClient
    PROVE  Typed' /\ CauseInv'
<1> DEFINE b == RoomMade
<1>1. PICK n \in -1 .. Chunk :
        /\ KernelRead(Writeable(b), n)
        /\ res' = [r |-> Result(n, errno'), n |-> IF n > 0 THEN n ELSE 0]
        /\ buf' = IF n > 0 THEN Filled(b, Stream(taken + 1, taken + n)) ELSE b
  BY DEF ReadClient
<1>2. /\ pc' = "handle" /\ client' = client /\ reg' = reg /\ mask' = mask
      /\ due' \subseteq Dirs /\ client = "live"
      /\ sent' = sent /\ shut' = shut /\ dead' = dead /\ sndq' = sndq
  BY DEF ReadClient, CInv, LInv, Typed
<1>3. b \in Buffers /\ Writeable(b) \in Nat
  BY BufferSteps DEF RoomMade, CInv, Typed
<1> HIDE DEF b
<1>4. n \in Int /\ Chunk \in Nat
  BY ConnectionAssumption
<1>5. /\ taken' \in Nat /\ taken' <= sent /\ err' \in BOOLEAN /\ (err' => err)
      /\ errno' \in {"again", "other"}
      /\ n > 0 => n <= Writeable(b)
  <2>1. /\ sent \in Nat /\ taken \in Nat /\ taken <= sent /\ err \in BOOLEAN
        /\ errno \in {"again", "other"} /\ sent - taken \in Int
    BY DEF CInv, Typed
  <2>2. /\ Smaller(Writeable(b), sent - taken) \in Int
        /\ Smaller(Writeable(b), sent - taken) <= Writeable(b)
        /\ Smaller(Writeable(b), sent - taken) <= sent - taken
    BY <1>3, <2>1 DEF Smaller
  <2>3. taken' \in Nat /\ taken' <= sent /\ (n > 0 => n <= Writeable(b))
    <3>1. n \in 1 .. Smaller(Writeable(b), sent - taken) =>
            n <= Writeable(b) /\ n <= sent - taken
      BY <1>3, <1>4, <2>1, <2>2
    <3>. QED  BY <1>1, <1>4, <2>1, <3>1 DEF KernelRead
  <2>4. (err' = err \/ err' = FALSE) /\ errno' \in {errno, "again", "other"}
    BY <1>1 DEF KernelRead
  <2>5. err' \in BOOLEAN /\ (err' => err)
    <3>1. CASE err' = err
      BY <2>1, <3>1
    <3>2. CASE err' = FALSE
      BY <3>2
    <3>. QED  BY <2>4, <3>1, <3>2
  <2>. QED  BY <2>1, <2>3, <2>4, <2>5
<1>6. buf' \in Buffers
  BY <1>1, <1>3, <1>4, <1>5, BufferSteps DEF CInv, Typed
<1>7. res' \in [r : {"OK", "ERR", "EAGAIN"}, n : Nat]
  BY <1>1, <1>4 DEF Result
<1>8. Typed'
  BY <1>2, <1>5, <1>6, <1>7 DEF CInv, Typed
<1>9. GoesOn' \/ Answers' \/ Cause'
  <2>1. CASE n > 0
    BY <1>1, <1>4, <2>1 DEF Result, Answers
  <2>2. CASE n = 0
    <3>1. buf' = b
      BY <1>1, <2>2
    <3>2. Writeable(b) = 0 \/ shut \/ dead
      BY <1>1, <1>3, <2>2, SmallerIs DEF KernelRead, AtEnd, CInv, Typed
    <3>. QED  BY <1>2, <3>1, <3>2 DEF Cause
  <2>3. CASE n = -1
    <3>1. errno' = "again" \/ err
      BY <1>1, <1>3, <2>3, SmallerIs DEF KernelRead, CInv, Typed
    <3>2. err => dead'
      BY <1>2 DEF CInv, CauseInv
    <3>. QED  BY <1>1, <2>3, <3>1, <3>2 DEF Result, GoesOn, Cause
  <2>. QED  BY <1>4, <2>1, <2>2, <2>3
<1>. QED  BY <1>2, <1>5, <1>8, <1>9 DEF CauseInv, CInv

\* What a write takes is not more than it was offered, and fits.
LEMMA Writes ==
    ASSUME NEW bytes \in Seq(Int), NEW n \in Int, Typed, CauseInv, KernelWrite(bytes, n)
    PROVE  /\ n = -1 \/ (n \in Nat /\ n > 0 /\ n <= Len(bytes))
           /\ sndq' \in Seq(Int) /\ Len(sndq') <= SndBuf
           /\ err' \in BOOLEAN /\ (err' => err) /\ errno' \in {"again", "other"}
<1>1. /\ Len(bytes) \in Nat /\ Len(sndq) \in Nat /\ SndBuf \in Nat /\ sndq \in Seq(Int)
  BY ConnectionAssumption DEF Typed
<1>2. CASE /\ ~dead /\ Len(sndq) < SndBuf
           /\ n \in 1 .. Smaller(Len(bytes), SndBuf - Len(sndq))
           /\ sndq' = sndq \o SubSeq(bytes, 1, n)
           /\ UNCHANGED <<err, errno>>
  <2>1. n \in Nat /\ n > 0 /\ n <= Len(bytes) /\ n <= SndBuf - Len(sndq)
    <3>1. SndBuf - Len(sndq) \in Int
      BY <1>1
    <3>2. /\ Smaller(Len(bytes), SndBuf - Len(sndq)) \in Int
          /\ Smaller(Len(bytes), SndBuf - Len(sndq)) <= Len(bytes)
          /\ Smaller(Len(bytes), SndBuf - Len(sndq)) <= SndBuf - Len(sndq)
      BY <1>1, <3>1 DEF Smaller
    <3>. QED  BY <1>1, <1>2, <3>1, <3>2
  <2>2. SubSeq(bytes, 1, n) \in Seq(Int) /\ Len(SubSeq(bytes, 1, n)) = n
    BY <2>1
  <2>. QED  BY <1>1, <1>2, <2>1, <2>2 DEF Typed
<1>3. CASE ~dead /\ Len(sndq) >= SndBuf /\ n = -1 /\ errno' = "again" /\ UNCHANGED <<err, sndq>>
  BY <1>3 DEF Typed
<1>4. CASE dead /\ n = -1 /\ err' = FALSE /\ errno' = "other" /\ UNCHANGED sndq
  BY <1>4 DEF Typed
<1>. QED  BY <1>2, <1>3, <1>4 DEF KernelWrite

\* The other steps of the server.
LEMMA CInvServer ==
    ASSUME CInv, Server
    PROVE  CInv'
<1> SUFFICES Typed' /\ CauseInv'
  BY LInvServer DEF CInv
<1> USE DEF CInv
<1>1. CASE AcceptClient
  BY <1>1 DEF Typed, CauseInv, AcceptClient, AcceptedMask, Dirs, LInv, GoesOn, Answers, Cause
<1>2. CASE AcceptError
  BY <1>2 DEF Typed, CauseInv, AcceptError, GoesOn, Answers, Cause
<1>3. CASE AcceptFails
  BY <1>3 DEF Typed, CauseInv, AcceptFails, GoesOn, Answers, Cause
<1>4. CASE Poll
  BY <1>4 DEF Typed, CauseInv, Poll, GoesOn, Answers, Cause
<1>5. CASE ReadClient
  BY <1>5, CInvRead
<1>6. CASE Welcome
  <2>1. PICK n \in -1 .. WelcomeLen : KernelWrite([i \in 1 .. WelcomeLen |-> 0], n)
    BY <1>6 DEF Welcome
  <2>2. n \in Int /\ [i \in 1 .. WelcomeLen |-> 0] \in Seq(Int)
    BY ConnectionAssumption
  <2>3. /\ sndq' \in Seq(Int) /\ Len(sndq') <= SndBuf
        /\ err' \in BOOLEAN /\ (err' => err) /\ errno' \in {"again", "other"}
    BY <2>1, <2>2, Writes
  <2>. QED
    BY <1>6, <2>3 DEF Typed, CauseInv, Welcome, RegAfterWelcome, Dirs, GoesOn, Answers, Cause
<1>7. CASE SkipWelcome
  BY <1>7 DEF Typed, CauseInv, SkipWelcome, GoesOn, Answers, Cause
<1>8. CASE EndBatch
  BY <1>8 DEF Typed, CauseInv, EndBatch, GoesOn, Answers, Cause
<1>9. CASE ReadAgain
  BY <1>9 DEF Typed, CauseInv, ReadAgain, GoesOn, Answers, Cause
<1>10. CASE Echo
  <2>1. PICK n \in -1 .. Chunk :
          /\ KernelWrite(Contents(buf), n)
          /\ buf' = ResetIfDrained(AfterWrite(buf, n))
    BY <1>10 DEF Echo
  <2>2. /\ n \in Int /\ Contents(buf) \in Seq(Int) /\ Len(Contents(buf)) = Readable(buf)
    <3>1. /\ buf.data \in [0 .. Chunk - 1 -> Int] /\ buf.r \in Nat /\ buf.w \in Nat
          /\ buf.r <= buf.w /\ buf.w <= Chunk /\ Chunk \in Nat
      BY ConnectionAssumption DEF Typed, Buffers
    <3>2. Readable(buf) \in Nat
      BY <3>1 DEF Readable
    <3>3. \A i \in 1 .. Readable(buf) : buf.data[buf.r + i - 1] \in Int
      BY <3>1 DEF Readable
    <3>. QED  BY <3>1, <3>2, <3>3 DEF Contents
  <2>3. /\ n = -1 \/ (n \in Nat /\ n > 0 /\ n <= Readable(buf))
        /\ sndq' \in Seq(Int) /\ Len(sndq') <= SndBuf
        /\ err' \in BOOLEAN /\ (err' => err) /\ errno' \in {"again", "other"}
    BY <2>1, <2>2, Writes
  <2>4. AfterWrite(buf, n) \in Buffers
    BY <2>3, BufferSteps DEF AfterWrite, Typed
  <2>5. buf' \in Buffers
    BY <2>1, <2>4, BufferSteps
  <2>. QED  BY <1>10, <2>3, <2>5 DEF Typed, CauseInv, LInv, Echo
<1>11. CASE CloseClient
  BY <1>11 DEF Typed, CauseInv, CloseClient, GoesOn, Answers, Cause
<1> QED
  BY <1>1, <1>2, <1>3, <1>4, <1>5, <1>6, <1>7, <1>8, <1>9, <1>10, <1>11 DEF Server

\* The steps of the peer keep the positions, results and causes.
LEMMA CInvPeer ==
    ASSUME CInv, Peer \/ OtherCall \/ UNCHANGED vars
    PROVE  CInv'
<1> SUFFICES Typed' /\ CauseInv'
  BY LInvPeer DEF CInv
<1> USE DEF CInv
<1>1. CASE PeerSend
  BY <1>1 DEF Typed, CauseInv, PeerSend, GoesOn, Answers, Cause
<1>2. CASE PeerReceive
  <2>1. Tail(sndq) \in Seq(Int) /\ Len(Tail(sndq)) <= Len(sndq)
    BY <1>2 DEF Typed, PeerReceive
  <2>2. Len(Tail(sndq)) <= SndBuf
    BY <1>2, <2>1, ConnectionAssumption DEF Typed, PeerReceive
  <2>. QED
    BY <1>2, <2>1, <2>2 DEF Typed, CauseInv, PeerReceive, GoesOn, Answers, Cause
<1>3. CASE PeerShut
  BY <1>3 DEF Typed, CauseInv, PeerShut, GoesOn, Answers, Cause
<1>4. CASE PeerReset
  BY <1>4, ConnectionAssumption DEF Typed, CauseInv, PeerReset, GoesOn, Answers, Cause
<1>5. CASE OtherCall
  BY <1>5 DEF Typed, CauseInv, OtherCall, GoesOn, Answers, Cause
<1>6. CASE UNCHANGED vars
  BY <1>6 DEF Typed, CauseInv, vars, GoesOn, Answers, Cause
<1>. QED
  BY <1>1, <1>2, <1>3, <1>4, <1>5, <1>6 DEF Peer

\* Positions, results and causes of a connection after any steps of the server
\* (on_client_read, on_client_write and what they call) and of its peer.
THEOREM Invariant == Spec => []CInv
<1>1. CInv /\ [Next]_vars => CInv'
  BY CInvServer, CInvPeer DEF Next
<1>. QED  BY <1>1, CInvInit, PTL DEF Spec

\* The positions of the buffer stay in order and within the block, although
\* no function of the buffer looks at them.
THEOREM TypeCorrect == Spec => []TypeOK
<1>1. CInv => TypeOK
  BY DEF CInv, Typed, TypeOK, Buffers
<1>. QED  BY <1>1, Invariant, PTL

\* A client is only closed after the peer's end or reset, or when its buffer
\* is full.
THEOREM Closed_For_Cause == Spec => []ClosedForCause
<1>1. CInv => ClosedForCause
  BY DEF CInv, CauseInv, Cause, ClosedForCause
<1>. QED  BY <1>1, Invariant, PTL

-----------------------------------------------------------------------------
(* The stream.                                                             *)

\* Bytes that are no part of the stream may stand anywhere between the others.
LEMMA ZerosAnywhere ==
    ASSUME NEW l \in Nat, NEW p \in Nat, NEW k \in Nat, NEW m \in Nat, p <= l,
           NEW s, NEW t, DOMAIN s = 1 .. l, DOMAIN t = 1 .. l + k,
           \A i \in 1 .. l : s[i] \in Nat,
           \A i \in 1 .. p : t[i] = s[i],
           \A i \in p + 1 .. p + k : t[i] = 0,
           \A i \in p + 1 .. l : t[i + k] = s[i],
           Ordered(s, m)
    PROVE  Ordered(t, m) /\ \A i \in 1 .. l + k : t[i] \in Nat
<1> DEFINE Down(i) == IF i <= p THEN i ELSE i - k
           Up(i) == IF i <= p THEN i ELSE i + k
           New(i) == p < i /\ i <= p + k
<1>1. \A i \in 1 .. l : Up(i) \in 1 .. l + k /\ t[Up(i)] = s[i]
  <2> SUFFICES ASSUME NEW i \in 1 .. l  PROVE Up(i) \in 1 .. l + k /\ t[Up(i)] = s[i]
    OBVIOUS
  <2>1. CASE i <= p
    BY <2>1
  <2>2. CASE i > p
    <3>1. i \in p + 1 .. l /\ Up(i) = i + k
      BY <2>2
    <3>2. t[i + k] = s[i]
      BY <3>1
    <3>. QED  BY <3>1, <3>2
  <2>. QED  BY <2>1, <2>2
<1>2. \A i \in 1 .. l + k : New(i) => t[i] = 0
  <2> SUFFICES ASSUME NEW i \in 1 .. l + k, New(i)  PROVE t[i] = 0
    OBVIOUS
  <2>1. i \in p + 1 .. p + k
    OBVIOUS
  <2>. QED  BY <2>1
<1>3. \A i \in 1 .. l + k : ~New(i) => Down(i) \in 1 .. l /\ t[i] = s[Down(i)]
  <2> SUFFICES ASSUME NEW i \in 1 .. l + k, ~New(i)
               PROVE  Down(i) \in 1 .. l /\ t[i] = s[Down(i)]
    OBVIOUS
  <2>1. CASE i <= p
    <3>1. i \in 1 .. p /\ i \in 1 .. l /\ Down(i) = i
      BY <2>1
    <3>. QED  BY <3>1
  <2>2. CASE i > p + k
    <3>1. i - k \in p + 1 .. l /\ i - k \in 1 .. l /\ (i - k) + k = i /\ Down(i) = i - k
      BY <2>2
    <3>2. t[(i - k) + k] = s[i - k]
      BY <3>1
    <3>. QED  BY <3>1, <3>2
  <2>. QED  BY <2>1, <2>2
<1>4. \A i, j \in 1 .. l + k : i < j /\ ~New(i) /\ ~New(j) => Down(i) < Down(j)
  OBVIOUS
<1> HIDE DEF Up, Down, New
<1>5. \A i \in 1 .. l + k : t[i] \in Nat
  BY <1>2, <1>3
<1>6. {t[i] : i \in DOMAIN t} \ {0} = {s[i] : i \in DOMAIN s} \ {0}
  <2>1. ASSUME NEW i \in 1 .. l + k, t[i] # 0
        PROVE  \E j \in 1 .. l : t[i] = s[j]
    BY <1>2, <1>3, <2>1
  <2>2. \A i \in 1 .. l : \E j \in 1 .. l + k : s[i] = t[j]
    BY <1>1
  <2>3. ASSUME NEW v \in {t[i] : i \in DOMAIN t} \ {0}
        PROVE  v \in {s[i] : i \in DOMAIN s} \ {0}
    <3>1. PICK i \in 1 .. l + k : t[i] = v
      OBVIOUS
    <3>2. PICK j \in 1 .. l : t[i] = s[j]
      BY <2>1, <3>1
    <3>. QED  BY <3>1, <3>2
  <2>4. ASSUME NEW v \in {s[i] : i \in DOMAIN s} \ {0}
        PROVE  v \in {t[i] : i \in DOMAIN t} \ {0}
    <3>1. PICK i \in 1 .. l : s[i] = v
      OBVIOUS
    <3>2. PICK j \in 1 .. l + k : s[i] = t[j]
      BY <2>2
    <3>. QED  BY <3>1, <3>2
  <2>. QED  BY <2>3, <2>4
<1>7. ASSUME NEW i \in 1 .. l + k, NEW j \in 1 .. l + k, i < j, t[j] # 0
      PROVE  t[i] < t[j]
  <2>1. ~New(j) /\ Down(j) \in 1 .. l /\ t[j] = s[Down(j)] /\ t[j] \in Nat
    BY <1>2, <1>3, <1>5, <1>7
  <2>2. CASE New(i)
    BY <1>2, <1>7, <2>1, <2>2
  <2>3. CASE ~New(i)
    <3>1. Down(i) \in 1 .. l /\ t[i] = s[Down(i)] /\ Down(i) < Down(j)
      BY <1>3, <1>4, <1>7, <2>1, <2>3
    <3>2. \A x, y \in 1 .. l : x < y /\ s[y] # 0 => s[x] < s[y]
      BY DEF Ordered
    <3>3. s[Down(j)] # 0
      BY <1>7, <2>1
    <3>4. s[Down(i)] < s[Down(j)]
      BY <2>1, <3>1, <3>2, <3>3, Zenon
    <3>. QED  BY <2>1, <3>1, <3>4
  <2>. QED  BY <2>2, <2>3
<1>. QED  BY <1>5, <1>6, <1>7 DEF Ordered

\* The bytes that are read follow those read before.
LEMMA StreamGrows ==
    ASSUME NEW l \in Nat, NEW n \in Nat, NEW m \in Nat,
           NEW s, NEW t, DOMAIN s = 1 .. l, DOMAIN t = 1 .. l + n,
           \A i \in 1 .. l : s[i] \in Nat /\ t[i] = s[i],
           \A i \in 1 .. n : t[l + i] = m + i,
           Ordered(s, m)
    PROVE  Ordered(t, m + n) /\ \A i \in 1 .. l + n : t[i] \in Nat
<1>1. \A i \in 1 .. l + n : i > l => t[i] = m + (i - l)
  <2> SUFFICES ASSUME NEW i \in 1 .. l + n, i > l  PROVE t[i] = m + (i - l)
    OBVIOUS
  <2>1. i - l \in 1 .. n /\ l + (i - l) = i
    OBVIOUS
  <2>2. t[l + (i - l)] = m + (i - l)
    BY <2>1
  <2>. QED  BY <2>1, <2>2
<1>2. \A i \in 1 .. l + n :
        i <= l => /\ i \in 1 .. l /\ t[i] = s[i] /\ t[i] \in Nat
                  /\ (t[i] # 0 => t[i] \in 1 .. m)
  <2> SUFFICES ASSUME NEW i \in 1 .. l + n, i <= l
               PROVE  /\ i \in 1 .. l /\ t[i] = s[i] /\ t[i] \in Nat
                      /\ (t[i] # 0 => t[i] \in 1 .. m)
    OBVIOUS
  <2>1. i \in 1 .. l
    OBVIOUS
  <2>2. t[i] = s[i] /\ s[i] \in Nat
    BY <2>1
  <2>3. s[i] # 0 => s[i] \in {s[j] : j \in DOMAIN s} \ {0}
    BY <2>1
  <2>. QED  BY <2>1, <2>2, <2>3 DEF Ordered
<1>3. \A i \in 1 .. l + n : t[i] \in Nat
  BY <1>1, <1>2
<1>4. {t[i] : i \in DOMAIN t} \ {0} = 1 .. m + n
  <2>1. ASSUME NEW i \in 1 .. l + n, t[i] # 0  PROVE t[i] \in 1 .. m + n
    BY <1>1, <1>2, <2>1
  <2>2. ASSUME NEW v \in 1 .. m + n  PROVE \E i \in 1 .. l + n : t[i] = v
    <3>1. CASE v <= m
      <4>0. v \in 1 .. m
        BY <3>1
      <4>1. v \in {s[i] : i \in DOMAIN s}
        BY <4>0 DEF Ordered
      <4>2. PICK i \in 1 .. l : s[i] = v
        BY <4>1
      <4>. QED  BY <4>2
    <3>2. CASE v > m
      <4>1. v - m \in 1 .. n /\ l + (v - m) \in 1 .. l + n
        BY <3>2
      <4>2. t[l + (v - m)] = m + (v - m)
        BY <4>1
      <4>. QED  BY <4>1, <4>2
    <3>. QED  BY <3>1, <3>2
  <2>3. ASSUME NEW v \in {t[i] : i \in DOMAIN t} \ {0}  PROVE v \in 1 .. m + n
    <3>1. PICK i \in 1 .. l + n : t[i] = v
      OBVIOUS
    <3>. QED  BY <2>1, <3>1
  <2>4. ASSUME NEW v \in 1 .. m + n  PROVE v \in {t[i] : i \in DOMAIN t} \ {0}
    <3>1. PICK i \in 1 .. l + n : t[i] = v
      BY <2>2
    <3>. QED  BY <3>1
  <2>. QED  BY <2>3, <2>4
<1>5. ASSUME NEW i \in 1 .. l + n, NEW j \in 1 .. l + n, i < j, t[j] # 0
      PROVE  t[i] < t[j]
  <2>1. CASE j <= l
    <3>1. i \in 1 .. l /\ j \in 1 .. l /\ t[i] = s[i] /\ t[j] = s[j]
      BY <1>5, <2>1
    <3>. QED  BY <1>5, <3>1 DEF Ordered
  <2>2. CASE j > l /\ i <= l
    <3>1. t[j] = m + (j - l) /\ t[i] \in Nat /\ (t[i] # 0 => t[i] \in 1 .. m)
      BY <1>1, <1>2, <2>2
    <3>. QED  BY <2>2, <3>1
  <2>3. CASE i > l
    BY <1>1, <1>5, <2>3
  <2>. QED  BY <2>1, <2>2, <2>3
<1>. QED  BY <1>3, <1>4, <1>5 DEF Ordered

\* What the server has read, wherever it is by now.
Whole == got \o sndq \o Contents(buf)

\* Inductive form of EchoInOrder; a connection not accepted yet has read
\* nothing.
EInv ==
    /\ got \in Seq(Int)
    /\ client \in {"none", "live"} /\ ~dead =>
         /\ Ordered(Whole, taken)
         /\ \A i \in 1 .. Len(Whole) : Whole[i] \in Nat

\* The buffer's contents: resizing leaves them, reading from the socket adds
\* behind them, writing takes from their front.
LEMMA ContentsIs ==
    ASSUME NEW b \in Buffers
    PROVE  /\ Contents(b) \in Seq(Int)
           /\ Len(Contents(b)) = Readable(b) /\ Readable(b) \in Nat
           /\ b.r \in Nat /\ b.w \in Nat /\ Readable(b) = b.w - b.r
           /\ \A i \in 1 .. Readable(b) : Contents(b)[i] = b.data[b.r + i - 1]
<1>1. /\ b.data \in [0 .. Chunk - 1 -> Int] /\ b.r \in Nat /\ b.w \in Nat
      /\ b.r <= b.w /\ b.w <= Chunk /\ Chunk \in Nat
  BY ConnectionAssumption DEF Buffers
<1>2. Readable(b) \in Nat
  BY <1>1 DEF Readable
<1>3. \A i \in 1 .. Readable(b) : b.data[b.r + i - 1] \in Int
  BY <1>1 DEF Readable
<1>4. Contents(b) = [i \in 1 .. Readable(b) |-> b.data[b.r + i - 1]]
  BY DEF Contents
<1>5. Readable(b) = b.w - b.r
  BY DEF Readable
<1>6. Contents(b) \in Seq(Int) /\ Len(Contents(b)) = Readable(b)
  BY <1>2, <1>3, <1>4
<1>7. \A i \in 1 .. Readable(b) : Contents(b)[i] = b.data[b.r + i - 1]
  BY <1>4
<1>. QED  BY <1>1, <1>2, <1>5, <1>6, <1>7

\* bytebuf_resize keeps what is to be read.
LEMMA ContentsResized ==
    ASSUME NEW b \in Buffers
    PROVE  Contents(Resized(b, Chunk)) = Contents(b)
<1> DEFINE d == [i \in 0 .. Chunk - 1 |-> IF i < b.cap THEN b.data[i] ELSE Junk]
<1>1. /\ b.data \in [0 .. Chunk - 1 -> Int] /\ b.cap = Chunk /\ Chunk \in Nat
      /\ b \in [data : [0 .. Chunk - 1 -> Int], r : Nat, w : Nat, cap : {Chunk}]
  BY ConnectionAssumption DEF Buffers
<1>2. d = b.data
  BY <1>1
<1>3. Resized(b, Chunk) = [b EXCEPT !.cap = Chunk, !.data = d]
  BY DEF Resized
<1> HIDE DEF d
<1>4. Resized(b, Chunk) = b
  BY <1>1, <1>2, <1>3
<1>. QED  BY <1>4

\* A read appends what it brought.
LEMMA ContentsFilled ==
    ASSUME NEW b \in Buffers, NEW m \in Nat, NEW n \in Nat, n <= Writeable(b)
    PROVE  /\ Contents(Filled(b, Stream(m + 1, m + n))) \in Seq(Int)
           /\ Len(Contents(Filled(b, Stream(m + 1, m + n)))) = Readable(b) + n
           /\ \A i \in 1 .. Readable(b) :
                Contents(Filled(b, Stream(m + 1, m + n)))[i] = Contents(b)[i]
           /\ \A i \in 1 .. n :
                Contents(Filled(b, Stream(m + 1, m + n)))[Readable(b) + i] = m + i
<1> DEFINE s == Stream(m + 1, m + n)
           x == Filled(b, s)
           d == [i \in DOMAIN b.data |->
                   IF i - b.w \in 0 .. Len(s) - 1 THEN s[i - b.w + 1] ELSE b.data[i]]
<1>1. /\ b.data \in [0 .. Chunk - 1 -> Int] /\ b.cap = Chunk /\ Chunk \in Nat
      /\ b \in [data : [0 .. Chunk - 1 -> Int], r : Nat, w : Nat, cap : {Chunk}]
      /\ b.r \in Nat /\ b.w \in Nat /\ b.r <= b.w /\ b.w + n <= Chunk
  BY ConnectionAssumption DEF Buffers, Writeable
<1>2. s \in [1 .. n -> Int] /\ Len(s) = n /\ \A i \in 1 .. n : s[i] = m + i
  BY DEF Stream
<1>3. x \in Buffers
  BY BufferSteps
<1> HIDE DEF s
<1>4. x = [b EXCEPT !.w = b.w + Len(s), !.data = d]
  BY DEF Filled
<1>5. \A i \in b.r .. b.w - 1 : d[i] = b.data[i]
  BY <1>1, <1>2
<1>6. \A i \in 1 .. n : d[b.w + i - 1] = m + i
  <2> SUFFICES ASSUME NEW i \in 1 .. n  PROVE d[b.w + i - 1] = m + i
    OBVIOUS
  <2>1. /\ b.w + i - 1 \in 0 .. Chunk - 1 /\ (b.w + i - 1) - b.w \in 0 .. n - 1
        /\ (b.w + i - 1) - b.w + 1 = i
    BY <1>1, SMTT(30)
  <2>. QED  BY <1>1, <1>2, <2>1
<1> HIDE DEF d, x
<1>7. x.data = d /\ x.r = b.r /\ x.w = b.w + n
  BY <1>1, <1>2, <1>4
<1>8. Readable(b) \in Nat /\ Readable(b) = b.w - b.r
  BY ContentsIs
<1>9. /\ Contents(x) \in Seq(Int) /\ Len(Contents(x)) = Readable(b) + n
      /\ \A i \in 1 .. Readable(b) + n : Contents(x)[i] = d[b.r + i - 1]
  <2>1. Readable(x) = Readable(b) + n
    BY <1>1, <1>7 DEF Readable
  <2>. QED  BY <1>3, <1>7, <2>1, ContentsIs
<1>10. \A i \in 1 .. Readable(b) : Contents(x)[i] = Contents(b)[i]
  <2> SUFFICES ASSUME NEW i \in 1 .. Readable(b)  PROVE Contents(x)[i] = Contents(b)[i]
    OBVIOUS
  <2>1. i \in 1 .. Readable(b) + n
    BY <1>8
  <2>2. b.r + i - 1 \in b.r .. b.w - 1
    BY <1>1, <1>8, SMTT(30)
  <2>3. Contents(b)[i] = b.data[b.r + i - 1]
    BY ContentsIs
  <2>. QED  BY <1>5, <1>9, <2>1, <2>2, <2>3
<1>11. \A i \in 1 .. n : Contents(x)[Readable(b) + i] = m + i
  <2> SUFFICES ASSUME NEW i \in 1 .. n  PROVE Contents(x)[Readable(b) + i] = m + i
    OBVIOUS
  <2>1. Readable(b) + i \in 1 .. Readable(b) + n
    BY <1>8
  <2>2. b.r + (Readable(b) + i) - 1 = b.w + i - 1
    BY <1>1, <1>8, SMTT(30)
  <2>. QED  BY <1>6, <1>9, <2>1, <2>2
<1>. QED  BY <1>9, <1>10, <1>11 DEF x, s

\* A write takes what it sent from the front; the reset at the end takes nothing.
LEMMA ContentsDrained ==
    ASSUME NEW b \in Buffers, NEW n \in Nat, n <= Readable(b)
    PROVE  /\ Contents(b) = SubSeq(Contents(b), 1, n) \o Contents(ResetIfDrained(Drained(b, n)))
           /\ SubSeq(Contents(b), 1, n) \in Seq(Int)
           /\ Contents(ResetIfDrained(Drained(b, n))) \in Seq(Int)
<1> DEFINE x == Drained(b, n)
           y == ResetIfDrained(x)
           c == Contents(b)
<1>1. x \in Buffers /\ y \in Buffers
  BY BufferSteps
<1>2. /\ c \in Seq(Int) /\ Len(c) = Readable(b) /\ Readable(b) \in Nat
      /\ b.r \in Nat /\ b.w \in Nat /\ Readable(b) = b.w - b.r
      /\ \A i \in 1 .. Readable(b) : c[i] = b.data[b.r + i - 1]
  BY ContentsIs
<1>3. x.r = b.r + n /\ x.w = b.w /\ x.data = b.data
  <2>1. b \in [data : [0 .. Chunk - 1 -> Int], r : Nat, w : Nat, cap : {Chunk}]
    BY DEF Buffers
  <2>. QED  BY <2>1 DEF Drained
<1> HIDE DEF x, c
<1>4. /\ Contents(x) \in Seq(Int) /\ Len(Contents(x)) = Readable(b) - n
      /\ \A i \in 1 .. Readable(b) - n : Contents(x)[i] = c[n + i]
  <2>1. Readable(x) = Readable(b) - n
    BY <1>2, <1>3 DEF Readable
  <2>2. /\ Contents(x) \in Seq(Int) /\ Len(Contents(x)) = Readable(x)
        /\ \A i \in 1 .. Readable(x) : Contents(x)[i] = b.data[b.r + n + i - 1]
    BY <1>1, <1>3, ContentsIs
  <2>3. ASSUME NEW i \in 1 .. Readable(b) - n  PROVE Contents(x)[i] = c[n + i]
    <3>1. n + i \in 1 .. Readable(b) /\ b.r + (n + i) - 1 = b.r + n + i - 1
      BY <1>2
    <3>. QED  BY <1>2, <2>1, <2>2, <3>1
  <2>. QED  BY <2>1, <2>2, <2>3
<1>5. Contents(y) = Contents(x)
  <2>1. CASE x.r >= x.w
    <3>1. Len(Contents(x)) = 0
      BY <1>2, <1>3, <1>4, <2>1
    <3>2. y = ResetBuf(x)
      BY <2>1 DEF ResetIfDrained
    <3>3. x \in [data : [0 .. Chunk - 1 -> Int], r : Nat, w : Nat, cap : {Chunk}]
      BY <1>1 DEF Buffers
    <3>4. y.r = 0 /\ y.w = 0
      BY <3>2, <3>3 DEF ResetBuf
    <3> HIDE DEF y
    <3>5. Contents(y) \in Seq(Int) /\ Len(Contents(y)) = 0
      BY <1>1, <3>4, ContentsIs
    <3>. QED  BY <1>4, <3>1, <3>5, EmptySeq
  <2>2. CASE ~(x.r >= x.w)
    BY <2>2 DEF ResetIfDrained
  <2>. QED  BY <2>1, <2>2
<1>6. Contents(x) = SubSeq(c, n + 1, Len(c))
  <2>1. \A i \in n + 1 .. Len(c) : c[i] \in Int
    BY <1>2
  <2>2. /\ SubSeq(c, n + 1, Len(c)) \in Seq(Int)
        /\ Len(SubSeq(c, n + 1, Len(c))) = Readable(b) - n
        /\ \A i \in 1 .. Readable(b) - n : SubSeq(c, n + 1, Len(c))[i] = c[n + i]
    BY <1>2, <2>1, SubSeqProperties
  <2>. QED  BY <1>4, <2>2, SeqEqual
<1>7. SubSeq(c, 1, n) \o SubSeq(c, n + 1, Len(c)) = SubSeq(c, 1, Len(c))
  <2>1. 1 \in 1 .. Len(c) + 1 /\ n \in 1 - 1 .. Len(c) /\ Len(c) \in n .. Len(c)
    BY <1>2
  <2>. QED  BY <1>2, <2>1, ConcatAdjacentSubSeq
<1>8. SubSeq(c, 1, Len(c)) = c
  BY <1>2, SubSeqFull
<1>9. SubSeq(c, 1, n) \in Seq(Int)
  BY <1>2
<1> HIDE DEF y
<1>. QED  BY <1>4, <1>5, <1>6, <1>7, <1>8, <1>9 DEF x, y, c

\* Concatenation, with the time the solver needs for it.
LEMMA Associative ==
    ASSUME NEW x \in Seq(Int), NEW y \in Seq(Int), NEW z \in Seq(Int)
    PROVE  (x \o y) \o z = x \o (y \o z)
  BY ConcatAssociative, SMTT(60)

\* The four ways the whole may be put together anew.
LEMMA WholeReceived ==
    ASSUME NEW a \in Seq(Int), NEW b \in Seq(Int), b # <<>>
    PROVE  Append(a, Head(b)) \in Seq(Int) /\ Append(a, Head(b)) \o Tail(b) = a \o b
<1>1. /\ Head(b) \in Int /\ Tail(b) \in Seq(Int) /\ Len(Tail(b)) = Len(b) - 1
      /\ \A i \in 1 .. Len(Tail(b)) : Tail(b)[i] = b[i + 1]
  BY HeadTailProperties
<1>2. Append(a, Head(b)) \in Seq(Int) /\ Append(a, Head(b)) = a \o <<Head(b)>>
  BY <1>1, AppendProperties, AppendIsConcat
<1>3. <<Head(b)>> \in Seq(Int)
  BY <1>1
<1>4. <<Head(b)>> \o Tail(b) = b
  <2>1. Len(b) \in Nat \ {0}
    BY EmptySeq
  <2>2. 1 \in 1 .. Len(b) /\ Len(b) \in 1 .. Len(b)
    BY <2>1
  <2>3. SubSeq(b, 1, Len(b)) = <<b[1]>> \o SubSeq(b, 1 + 1, Len(b))
    BY <2>2, SubSeqRecursiveFirst
  <2>4. SubSeq(b, 1, Len(b)) = b /\ Tail(b) = SubSeq(b, 2, Len(b)) /\ Head(b) = b[1]
    BY SubSeqFull, TailIsSubSeq
  <2>. QED  BY <2>3, <2>4
<1>. QED  BY <1>1, <1>2, <1>3, <1>4, Associative

Joined(x, y, z) == x \o y \o z

\* An echo moves bytes from the buffer to what was sent.
LEMMA WholeEchoed ==
    ASSUME NEW a \in Seq(Int), NEW b \in Seq(Int), NEW front \in Seq(Int),
           NEW rest \in Seq(Int)
    PROVE  Joined(a, b \o front, rest) = Joined(a, b, front \o rest)
<1>1. a \o b \in Seq(Int)
  BY ConcatProperties
<1>2. (a \o b) \o front = a \o (b \o front)
  BY Associative, Zenon
<1>3. ((a \o b) \o front) \o rest = (a \o b) \o (front \o rest)
  BY <1>1, Associative, Zenon
<1>. QED  BY <1>2, <1>3 DEF Joined

\* The welcome message comes in between, and its bytes are not counted.
LEMMA WholeWelcomed ==
    ASSUME NEW a \in Seq(Int), NEW b \in Seq(Int), NEW z \in Seq(Int), NEW c \in Seq(Int),
           NEW m \in Nat, \A i \in 1 .. Len(z) : z[i] = 0,
           Ordered(a \o b \o c, m),
           \A i \in 1 .. Len(a \o b \o c) : (a \o b \o c)[i] \in Nat
    PROVE  /\ Ordered(a \o (b \o z) \o c, m)
           /\ \A i \in 1 .. Len(a \o (b \o z) \o c) : (a \o (b \o z) \o c)[i] \in Nat
<1> DEFINE g == a \o b
           s == g \o c
           h == g \o z
           t == h \o c
           p == Len(g)
           k == Len(z)
           l == Len(s)
<1>1. g \in Seq(Int) /\ a \o (b \o z) = h
  BY ConcatProperties, Associative
<1> SUFFICES Ordered(t, m) /\ \A i \in 1 .. Len(t) : t[i] \in Nat
  BY <1>1
<1>0. Ordered(s, m) /\ \A i \in 1 .. l : s[i] \in Nat
  OBVIOUS
<1> HIDE DEF g
<1>2. p \in Nat /\ k \in Nat /\ Len(c) \in Nat
  BY <1>1
<1>3. /\ s \in Seq(Int) /\ l = p + Len(c)
      /\ \A i \in 1 .. p + Len(c) : s[i] = IF i <= p THEN g[i] ELSE c[i - p]
  BY <1>1, ConcatProperties
<1>4. /\ h \in Seq(Int) /\ Len(h) = p + k
      /\ \A i \in 1 .. p + k : h[i] = IF i <= p THEN g[i] ELSE z[i - p]
  BY <1>1, ConcatProperties
<1> HIDE DEF h
<1>5. /\ t \in Seq(Int) /\ Len(t) = p + k + Len(c)
      /\ \A i \in 1 .. p + k + Len(c) : t[i] = IF i <= p + k THEN h[i] ELSE c[i - (p + k)]
  <2>1. /\ t \in Seq(Int) /\ Len(t) = Len(h) + Len(c)
        /\ \A i \in 1 .. Len(h) + Len(c) :
             t[i] = IF i <= Len(h) THEN h[i] ELSE c[i - Len(h)]
    BY <1>4, ConcatProperties, ZenonT(30)
  <2>. QED  BY <1>4, <2>1, Zenon
<1>6. DOMAIN s = 1 .. l /\ DOMAIN t = 1 .. l + k /\ l \in Nat /\ p <= l /\ Len(t) = l + k
  BY <1>2, <1>3, <1>5
<1> HIDE DEF s, t, p, k, l
<1>7. \A i \in 1 .. p : t[i] = s[i]
  <2> SUFFICES ASSUME NEW i \in 1 .. p  PROVE t[i] = s[i]
    OBVIOUS
  <2>1. i \in 1 .. p + k + Len(c) /\ i \in 1 .. p + k /\ i \in 1 .. p + Len(c) /\ i <= p /\ i <= p + k
    BY <1>2
  <2>. QED  BY <1>3, <1>4, <1>5, <2>1
<1>8. \A i \in p + 1 .. p + k : t[i] = 0
  <2> SUFFICES ASSUME NEW i \in p + 1 .. p + k  PROVE t[i] = 0
    OBVIOUS
  <2>1. i \in 1 .. p + k + Len(c) /\ i \in 1 .. p + k /\ ~(i <= p) /\ i <= p + k
    BY <1>2
  <2>2. i - p \in 1 .. k
    BY <1>2
  <2>. QED  BY <1>4, <1>5, <2>1, <2>2 DEF k
<1>9. \A i \in p + 1 .. l : t[i + k] = s[i]
  <2> SUFFICES ASSUME NEW i \in p + 1 .. l  PROVE t[i + k] = s[i]
    OBVIOUS
  <2>1. i \in 1 .. p + Len(c) /\ ~(i <= p)
    BY <1>2, <1>3
  <2>2. i + k \in 1 .. p + k + Len(c) /\ ~(i + k <= p + k) /\ (i + k) - (p + k) = i - p
    BY <1>2, <1>3
  <2>. QED  BY <1>3, <1>5, <2>1, <2>2
<1>10. Ordered(t, m) /\ \A i \in 1 .. l + k : t[i] \in Nat
  BY <1>0, <1>2, <1>6, <1>7, <1>8, <1>9, ZerosAnywhere
<1>. QED  BY <1>6, <1>10

\* A read appends the next bytes of the stream.
LEMMA WholeRead ==
    ASSUME NEW g \in Seq(Int), NEW c \in Seq(Int), NEW d \in Seq(Int),
           NEW m \in Nat, NEW n \in Nat, Len(d) = Len(c) + n,
           \A i \in 1 .. Len(c) : d[i] = c[i],
           \A i \in 1 .. n : d[Len(c) + i] = m + i,
           Ordered(g \o c, m),
           \A i \in 1 .. Len(g \o c) : (g \o c)[i] \in Nat
    PROVE  /\ Ordered(g \o d, m + n)
           /\ \A i \in 1 .. Len(g \o d) : (g \o d)[i] \in Nat
<1> DEFINE s == g \o c
           t == g \o d
           p == Len(g)
           q == Len(c)
           l == p + q
<1>1. p \in Nat /\ q \in Nat /\ l \in Nat
  OBVIOUS
<1>2. /\ s \in Seq(Int) /\ Len(s) = l
      /\ \A i \in 1 .. p + q : s[i] = IF i <= p THEN g[i] ELSE c[i - p]
  BY ConcatProperties
<1>3. /\ t \in Seq(Int) /\ Len(t) = p + (q + n)
      /\ \A i \in 1 .. p + (q + n) : t[i] = IF i <= p THEN g[i] ELSE d[i - p]
  <2>1. /\ t \in Seq(Int) /\ Len(t) = p + Len(d)
        /\ \A i \in 1 .. p + Len(d) : t[i] = IF i <= p THEN g[i] ELSE d[i - p]
    BY ConcatProperties, Zenon
  <2>2. Len(d) = q + n
    OBVIOUS
  <2>. QED  BY <2>1, <2>2, Zenon
<1>4. Ordered(s, m) /\ \A i \in 1 .. l : s[i] \in Nat
  BY <1>2
<1>5. \A i \in 1 .. q : d[i] = c[i]
  OBVIOUS
<1>6. \A i \in 1 .. n : d[q + i] = m + i
  OBVIOUS
<1> HIDE DEF s, t, p, q
<1>7. DOMAIN s = 1 .. l /\ DOMAIN t = 1 .. l + n /\ Len(t) = l + n
  BY <1>1, <1>2, <1>3
<1>8. \A i \in 1 .. l : t[i] = s[i]
  <2> SUFFICES ASSUME NEW i \in 1 .. l  PROVE t[i] = s[i]
    OBVIOUS
  <2>1. i \in 1 .. p + q /\ i \in 1 .. p + (q + n)
    BY <1>1
  <2>2. CASE i <= p
    BY <1>2, <1>3, <2>1, <2>2
  <2>3. CASE ~(i <= p)
    <3>1. i - p \in 1 .. q
      BY <1>1, <2>3
    <3>. QED  BY <1>2, <1>3, <1>5, <2>1, <2>3, <3>1
  <2>. QED  BY <2>2, <2>3
<1>9. \A i \in 1 .. n : t[l + i] = m + i
  <2> SUFFICES ASSUME NEW i \in 1 .. n  PROVE t[l + i] = m + i
    OBVIOUS
  <2>1. l + i \in 1 .. p + (q + n) /\ ~(l + i <= p) /\ (l + i) - p = q + i
    BY <1>1
  <2>. QED  BY <1>3, <1>6, <2>1
<1> HIDE DEF l
<1>10. Ordered(t, m + n) /\ \A i \in 1 .. l + n : t[i] \in Nat
  <2>1. \A i \in 1 .. l : s[i] \in Nat /\ t[i] = s[i]
    BY <1>4, <1>8
  <2>. QED  BY <1>1, <1>4, <1>7, <1>9, <2>1, StreamGrows
<1>. QED  BY <1>7, <1>10 DEF t

\* At the start nothing was read and nothing sent.
LEMMA EInvInit == Init => EInv
<1> SUFFICES ASSUME Init  PROVE EInv
  OBVIOUS
<1>1. Contents(buf) = <<>>
  BY DEF Init, NewBuf, Contents, Readable
<1>2. Whole = <<>>
  BY <1>1 DEF Init, Whole
<1>3. got = <<>> /\ taken = 0
  BY DEF Init
<1>4. Ordered(<<>>, 0) /\ Len(<<>>) = 0
  BY DEF Ordered
<1>. QED  BY <1>2, <1>3, <1>4 DEF EInv

\* Reading adds to the end of the whole.
LEMMA EInvRead ==
    ASSUME CInv, EInv, ReadClient
    PROVE  EInv'
<1> SUFFICES ASSUME ~dead
             PROVE  /\ Ordered(Whole', taken')
                    /\ \A i \in 1 .. Len(Whole') : Whole'[i] \in Nat
  BY DEF ReadClient, EInv
<1> DEFINE b == RoomMade
           g == got \o sndq
<1>1. client = "live" /\ got' = got /\ sndq' = sndq
  BY DEF ReadClient, CInv, LInv
<1>2. /\ buf \in Buffers /\ got \in Seq(Int) /\ sndq \in Seq(Int) /\ taken \in Nat
      /\ sent \in Nat /\ taken <= sent
  BY DEF CInv, Typed, EInv
<1>3. b \in Buffers /\ Writeable(b) \in Nat
  BY <1>2, BufferSteps DEF RoomMade
<1>4. Contents(b) = Contents(buf)
  BY <1>2, ContentsResized DEF RoomMade
<1> HIDE DEF b
<1>5. PICK n \in -1 .. Chunk :
        /\ KernelRead(Writeable(b), n)
        /\ buf' = IF n > 0 THEN Filled(b, Stream(taken + 1, taken + n)) ELSE b
  BY DEF ReadClient, b
<1>6. n \in Int
  BY ConnectionAssumption
<1>7. g \in Seq(Int) /\ Ordered(g \o Contents(b), taken)
      /\ \A i \in 1 .. Len(g \o Contents(b)) : (g \o Contents(b))[i] \in Nat
  BY <1>1, <1>2, <1>4, ConcatProperties DEF EInv, Whole
<1>8. Whole' = g \o Contents(buf')
  BY <1>1 DEF Whole
<1> HIDE DEF g
<1>9. CASE n > 0
  <2> DEFINE x == Filled(b, Stream(taken + 1, taken + n))
             d == Contents(x)
  <2>1. n \in Nat /\ n <= Writeable(b) /\ taken' = taken + n
    <3>1. sent - taken \in Int
      BY <1>2
    <3>2. n \in 1 .. Smaller(Writeable(b), sent - taken) => n <= Writeable(b)
      <4>1. /\ Smaller(Writeable(b), sent - taken) \in Int
            /\ Smaller(Writeable(b), sent - taken) <= Writeable(b)
        BY <1>3, <3>1 DEF Smaller
      <4>. QED  BY <1>3, <1>6, <4>1
    <3>. QED  BY <1>5, <1>6, <1>9, <3>2 DEF KernelRead
  <2>2. /\ d \in Seq(Int) /\ Len(d) = Readable(b) + n
        /\ \A i \in 1 .. Readable(b) : d[i] = Contents(b)[i]
        /\ \A i \in 1 .. n : d[Readable(b) + i] = taken + i
    BY <1>2, <1>3, <2>1, ContentsFilled
  <2>3. Contents(b) \in Seq(Int) /\ Len(Contents(b)) = Readable(b)
    BY <1>3, ContentsIs
  <2>4. Contents(buf') = d
    BY <1>5, <1>9
  <2> DEFINE c == Contents(b)
  <2> HIDE DEF d, c
  <2>6. /\ c \in Seq(Int) /\ d \in Seq(Int) /\ Len(d) = Len(c) + n
        /\ \A i \in 1 .. Len(c) : d[i] = c[i]
        /\ \A i \in 1 .. n : d[Len(c) + i] = taken + i
    BY <2>2, <2>3, Zenon DEF c
  <2>7. /\ Ordered(g \o c, taken)
        /\ \A i \in 1 .. Len(g \o c) : (g \o c)[i] \in Nat
    BY <1>7 DEF c
  <2>8. /\ Ordered(g \o d, taken + n)
        /\ \A i \in 1 .. Len(g \o d) : (g \o d)[i] \in Nat
    BY <1>2, <1>7, <2>1, <2>6, <2>7, WholeRead, Zenon
  <2>. QED  BY <1>8, <2>1, <2>4, <2>8
<1>10. CASE ~(n > 0)
  <2>1. buf' = b /\ taken' = taken
    BY <1>5, <1>6, <1>10 DEF KernelRead
  <2>. QED  BY <1>7, <1>8, <2>1
<1>. QED  BY <1>9, <1>10

\* Writing back moves the front of the buffer into the send queue.
LEMMA EInvEcho ==
    ASSUME CInv, EInv, Echo
    PROVE  EInv'
<1> SUFFICES ASSUME ~dead  PROVE Whole' = Whole
  BY DEF Echo, EInv, CInv, LInv
<1>1. got' = got
  BY DEF Echo
<1>2. PICK n \in -1 .. Chunk :
        /\ KernelWrite(Contents(buf), n)
        /\ buf' = ResetIfDrained(AfterWrite(buf, n))
  BY DEF Echo
<1>3. n \in Int /\ buf \in Buffers /\ got \in Seq(Int) /\ sndq \in Seq(Int)
  BY ConnectionAssumption DEF CInv, Typed, EInv
<1>4. Contents(buf) \in Seq(Int) /\ Len(Contents(buf)) = Readable(buf) /\ Readable(buf) \in Nat
  BY <1>3, ContentsIs
<1>5. n = -1 \/ (n \in Nat /\ n > 0 /\ n <= Readable(buf))
  BY <1>2, <1>3, <1>4, Writes DEF CInv
<1>6. CASE n = -1
  <2>1. sndq' = sndq
    BY <1>2, <1>6 DEF KernelWrite
  <2>2. buf' = ResetIfDrained(buf)
    BY <1>2, <1>6 DEF AfterWrite
  <2>3. /\ Contents(buf) = SubSeq(Contents(buf), 1, 0) \o Contents(ResetIfDrained(Drained(buf, 0)))
        /\ Contents(ResetIfDrained(Drained(buf, 0))) \in Seq(Int)
    BY <1>3, <1>4, ContentsDrained
  <2>4. SubSeq(Contents(buf), 1, 0) = <<>>
    BY SubSeqEmpty
  <2>5. Drained(buf, 0) = buf
    BY <1>3 DEF Drained, Buffers
  <2>6. Contents(ResetIfDrained(buf)) = Contents(buf)
    BY <2>3, <2>4, <2>5, ConcatEmptySeq
  <2>. QED  BY <1>1, <2>1, <2>2, <2>6 DEF Whole
<1>7. CASE n \in Nat /\ n > 0 /\ n <= Readable(buf)
  <2> DEFINE front == SubSeq(Contents(buf), 1, n)
             rest == Contents(ResetIfDrained(Drained(buf, n)))
  <2>1. sndq' = sndq \o front
    BY <1>2, <1>7 DEF KernelWrite
  <2>2. Contents(buf') = rest
    BY <1>2, <1>7 DEF AfterWrite
  <2>3. Contents(buf) = front \o rest /\ front \in Seq(Int) /\ rest \in Seq(Int)
    BY <1>3, <1>7, ContentsDrained
  <2> HIDE DEF front, rest
  <2>4. Joined(got, sndq \o front, rest) = Joined(got, sndq, front \o rest)
    BY <1>3, <2>3, WholeEchoed
  <2>. QED  BY <1>1, <2>1, <2>2, <2>3, <2>4 DEF Whole, Joined
<1>. QED  BY <1>5, <1>6, <1>7

\* The welcome message gets between bytes of the stream and moves none.
LEMMA EInvWelcome ==
    ASSUME CInv, EInv, Welcome
    PROVE  EInv'
<1> DEFINE zeros == [i \in 1 .. WelcomeLen |-> 0]
<1> SUFFICES ASSUME ~dead
             PROVE  /\ Ordered(Whole', taken')
                    /\ \A i \in 1 .. Len(Whole') : Whole'[i] \in Nat
  BY DEF Welcome, EInv
<1>1. got' = got /\ buf' = buf /\ taken' = taken /\ client = "live"
  BY DEF Welcome, CInv, LInv
<1>2. PICK n \in -1 .. WelcomeLen : KernelWrite(zeros, n)
  BY DEF Welcome
<1>3. /\ n \in Int /\ zeros \in Seq(Int) /\ Len(zeros) = WelcomeLen
      /\ \A i \in 1 .. WelcomeLen : zeros[i] = 0
  BY ConnectionAssumption
<1>4. /\ got \in Seq(Int) /\ sndq \in Seq(Int) /\ taken \in Nat /\ Contents(buf) \in Seq(Int)
      /\ Ordered(got \o sndq \o Contents(buf), taken)
      /\ \A i \in 1 .. Len(got \o sndq \o Contents(buf)) :
           (got \o sndq \o Contents(buf))[i] \in Nat
  BY <1>1, ContentsIs DEF CInv, Typed, EInv, Whole
<1> HIDE DEF zeros
<1>5. n = -1 \/ (n \in Nat /\ n > 0 /\ n <= WelcomeLen)
  BY <1>2, <1>3, Writes DEF CInv
<1>6. CASE n = -1
  <2>1. sndq' = sndq
    BY <1>2, <1>6 DEF KernelWrite
  <2>. QED  BY <1>1, <1>4, <2>1 DEF Whole
<1>7. CASE n \in Nat /\ n > 0 /\ n <= WelcomeLen
  <2> DEFINE z == SubSeq(zeros, 1, n)
  <2>1. sndq' = sndq \o z
    BY <1>2, <1>7 DEF KernelWrite
  <2>2. z \in Seq(Int) /\ Len(z) = n /\ \A i \in 1 .. n : z[i] = 0
    BY <1>3, <1>7
  <2> HIDE DEF z
  <2>3. /\ Ordered(got \o (sndq \o z) \o Contents(buf), taken)
        /\ \A i \in 1 .. Len(got \o (sndq \o z) \o Contents(buf)) :
             (got \o (sndq \o z) \o Contents(buf))[i] \in Nat
    BY <1>4, <2>2, WholeWelcomed
  <2>. QED  BY <1>1, <2>1, <2>3 DEF Whole
<1>. QED  BY <1>5, <1>6, <1>7

\* Every step keeps the order of the bytes.
LEMMA EInvNext ==
    ASSUME CInv, EInv, [Next]_vars
    PROVE  EInv'
<1>1. CASE ReadClient
  BY <1>1, EInvRead
<1>2. CASE Echo
  BY <1>2, EInvEcho
<1>3. CASE Welcome
  BY <1>3, EInvWelcome
<1>4. CASE PeerReceive
  <2>1. got \in Seq(Int) /\ sndq \in Seq(Int) /\ sndq # <<>>
    BY <1>4 DEF PeerReceive, EInv, CInv, Typed
  <2>2. got' = Append(got, Head(sndq)) /\ sndq' = Tail(sndq)
        /\ UNCHANGED <<buf, client, dead, taken>>
    BY <1>4 DEF PeerReceive
  <2>3. got' \in Seq(Int) /\ Whole' = Whole
    BY <2>1, <2>2, WholeReceived DEF Whole
  <2>. QED  BY <2>2, <2>3 DEF EInv
<1>5. CASE PeerReset
  BY <1>5 DEF PeerReset, EInv
<1>6. CASE \/ AcceptClient \/ AcceptError \/ AcceptFails \/ Poll \/ SkipWelcome
           \/ EndBatch \/ ReadAgain \/ CloseClient \/ OtherCall
           \/ PeerSend \/ PeerShut \/ UNCHANGED vars
  <2>1. /\ UNCHANGED <<got, sndq, buf, taken>>
        /\ client' \in {"none", "live"} => client \in {"none", "live"}
        /\ dead' = dead
    BY <1>6 DEF AcceptClient, AcceptError, AcceptFails, Poll, SkipWelcome, EndBatch,
                ReadAgain, CloseClient, OtherCall, PeerSend, PeerShut, vars
  <2>2. Whole' = Whole
    BY <2>1 DEF Whole
  <2>. QED  BY <2>1, <2>2 DEF EInv
<1>. QED
  BY <1>1, <1>2, <1>3, <1>4, <1>5, <1>6 DEF Next, Server, Peer

\* Whatever the sizes and however the writes are cut, what the peer has
\* received, what is on the way and what waits in the buffer are the bytes
\* that were read, in their order, as long as the client lives.
THEOREM Echo_In_Order == Spec => []EchoInOrder
<1>1. CInv /\ EInv /\ [Next]_vars => EInv'
  BY EInvNext
<1>2. EInv => EchoInOrder
  BY DEF EInv, EchoInOrder, Whole
<1>. QED  BY <1>1, <1>2, EInvInit, Invariant, PTL DEF Spec

-----------------------------------------------------------------------------
(* UTF-8.  A loop over the text is its own end part, put behind what the   *)
(* first character gives; the table is read from the front.                *)

\* The functions in the definitions, with names.
IsEncoded(f, src) ==
    f = [i \in 1 .. Len(src) + 2 |->
           IF i > Len(src) THEN <<>> ELSE Text!BytesOf(src[i]) \o f[Text!After(src, i)]]
Encoded(src) == CHOOSE f : IsEncoded(f, src)

IsDecoded(f, src) ==
    f = [i \in 1 .. Len(src) + 4 |->
           IF i > Len(src) THEN <<>>
           ELSE IF Text!Length(src[i]) = 0 THEN f[i + 1]
           ELSE <<Text!CharAt(src, i, Text!Length(src[i]))>> \o f[i + Text!Length(src[i])]]
Decoded(src) == CHOOSE f : IsDecoded(f, src)

IsUpto(f, text, out) ==
    f = [i \in 0 .. Len(text) |->
           IF i = 0 THEN <<>>
           ELSE f[i - 1] \o (IF i \in out THEN <<>> ELSE Text!TableBytes(text[i]))]
Upto(text, out) == CHOOSE f : IsUpto(f, text, out)

IsOut(f, text) ==
    f = [i \in 0 .. Len(text) |-> i > 1 /\ ~f[i - 1] /\ text[i - 1] <= 127]
Out(text) == CHOOSE f : IsOut(f, text)

LEMMA TextNames ==
    ASSUME NEW text, NEW out
    PROVE  /\ Text!Encode(text) = Encoded(text)[1]
           /\ Text!Decode(text) = Decoded(text)[1]
           /\ Text!TableBut(text, out) = Upto(text, out)[Len(text)]
           /\ Text!Lost(text) = {i \in 1 .. Len(text) : Out(text)[i]}
<1>1. Text!Encode(text) = Encoded(text)[1]
  BY Zenon DEF Text!Encode, Encoded, IsEncoded
<1>2. Text!Decode(text) = Decoded(text)[1]
  BY Zenon DEF Text!Decode, Decoded, IsDecoded
<1>3. Text!TableBut(text, out) = Upto(text, out)[Len(text)]
  BY Zenon DEF Text!TableBut, Upto, IsUpto
<1>4. Text!Lost(text) = {i \in 1 .. Len(text) : Out(text)[i]}
  BY Zenon DEF Text!Lost, Out, IsOut
<1>. QED  BY <1>1, <1>2, <1>3, <1>4

\* The bytes of a character are at most four.
LEMMA FewBytes ==
    ASSUME NEW c \in Int
    PROVE  Text!BytesOf(c) \in Seq(Int) /\ Len(Text!BytesOf(c)) <= 4
<1>1. /\ Text!Bytes2(c) \in Seq(Int) /\ Len(Text!Bytes2(c)) = 2
      /\ Text!Bytes3(c) \in Seq(Int) /\ Len(Text!Bytes3(c)) = 3
      /\ Text!Bytes4(c) \in Seq(Int) /\ Len(Text!Bytes4(c)) = 4
  BY DEF Text!Bytes2, Text!Bytes3, Text!Bytes4
<1>2. <<c % 256>> \in Seq(Int) /\ Len(<<c % 256>>) = 1
  OBVIOUS
<1>3. \/ Text!BytesOf(c) = <<c % 256>> \/ Text!BytesOf(c) = Text!Bytes2(c)
      \/ Text!BytesOf(c) = Text!Bytes3(c) \/ Text!BytesOf(c) = Text!Bytes4(c) \/ Text!BytesOf(c) = <<>>
  BY DEF Text!BytesOf
<1>4. <<>> \in Seq(Int) /\ Len(<<>>) = 0
  OBVIOUS
<1> DEFINE Few(b) == b \in Seq(Int) /\ Len(b) <= 4
<1>5. Few(<<c % 256>>) /\ Few(Text!Bytes2(c)) /\ Few(Text!Bytes3(c)) /\ Few(Text!Bytes4(c)) /\ Few(<<>>)
  BY <1>1, <1>2, <1>4
<1> HIDE DEF Few
<1>6. Few(Text!BytesOf(c))
  BY <1>3, <1>5, Zenon
<1>. QED  BY <1>6 DEF Few

\* The loop of the encoder, from its end.
LEMMA EncodedRuns ==
    ASSUME NEW src \in Seq(Int)
    PROVE  \A i \in 1 .. Len(src) + 2 :
             /\ Encoded(src)[i] \in Seq(Int)
             /\ Encoded(src)[i] = IF i > Len(src) THEN <<>>
                                  ELSE Text!BytesOf(src[i]) \o Encoded(src)[Text!After(src, i)]
<1> DEFINE N == Len(src)
           D == 1 .. N + 2
           V == Seq(Int)
           left == [i \in D |-> N + 2 - i]
           stop == [i \in D |-> i > N]
           base == [i \in D |-> <<>>]
           next == [i \in D |-> Text!After(src, i)]
           G == [i \in D |-> [v \in V |-> IF i > N THEN <<>> ELSE Text!BytesOf(src[i]) \o v]]
           f == Encoded(src)
<1>1. N \in Nat /\ \A i \in 1 .. N : src[i] \in Int
  OBVIOUS
<1> HIDE DEF N
<1>2. N + 2 \in Nat /\ left \in [D -> 0 .. N + 2]
  BY <1>1
<1>3. base \in [D -> V]
  OBVIOUS
<1>4. ASSUME NEW i \in D, NEW v \in V
      PROVE  (IF i > N THEN <<>> ELSE Text!BytesOf(src[i]) \o v) \in V
  <2>1. CASE i > N
    BY <2>1
  <2>2. CASE ~(i > N)
    <3> DEFINE b == Text!BytesOf(src[i])
    <3>1. src[i] \in Int
      BY <1>1, <2>2
    <3>2. b \in V
      BY <3>1, FewBytes
    <3> HIDE DEF b
    <3>3. b \o v \in V
      BY <3>2, ConcatProperties
    <3>. QED  BY <2>2, <3>3 DEF b
  <2>. QED  BY <2>1, <2>2
<1>5. G \in [D -> [V -> V]]
  BY <1>4
<1>6. ASSUME NEW i \in D, ~stop[i]
      PROVE  next[i] \in D /\ left[next[i]] < left[i]
  <2>1. i <= N /\ next[i] \in {i + 1, i + 2}
    <3>1. i <= N
      <4>1. i > N => stop[i]
        OBVIOUS
      <4>2. ~(i > N)
        BY <1>6, <4>1, Zenon
      <4>. QED  BY <1>1, <4>2
    <3>2. next[i] = Text!After(src, i)
      OBVIOUS
    <3>3. Text!After(src, i) = i + 2 \/ Text!After(src, i) = i + 1
      BY Zenon DEF Text!After
    <3>. QED  BY <3>1, <3>2, <3>3
  <2>2. next[i] \in D
    BY <1>1, <2>1
  <2>. QED  BY <1>1, <2>1, <2>2
<1>7. \A g : IsEncoded(g, src) <=>
        /\ g = [i \in D |-> g[i]]
        /\ \A i \in D : g[i] = IF stop[i] THEN base[i] ELSE Text!BytesOf(src[i]) \o g[next[i]]
  <2>1. ASSUME NEW g, IsEncoded(g, src)
        PROVE  /\ g = [i \in D |-> g[i]]
               /\ \A i \in D : g[i] = IF stop[i] THEN base[i] ELSE Text!BytesOf(src[i]) \o g[next[i]]
    <3>1. g = [i \in D |-> IF i > N THEN <<>> ELSE Text!BytesOf(src[i]) \o g[Text!After(src, i)]]
      BY <2>1 DEF IsEncoded, N
    <3>. QED  BY <3>1, Zenon
  <2>2. ASSUME NEW g, g = [i \in D |-> g[i]],
               \A i \in D : g[i] = IF stop[i] THEN base[i] ELSE Text!BytesOf(src[i]) \o g[next[i]]
        PROVE  IsEncoded(g, src)
    <3>1. ASSUME NEW i \in D
          PROVE  g[i] = IF i > N THEN <<>> ELSE Text!BytesOf(src[i]) \o g[Text!After(src, i)]
      BY <2>2, Zenon
    <3>2. g = [i \in D |-> IF i > N THEN <<>> ELSE Text!BytesOf(src[i]) \o g[Text!After(src, i)]]
      BY <2>2, <3>1, Zenon
    <3>. QED  BY <3>2 DEF IsEncoded, N
  <2>. QED  BY <2>1, <2>2, Zenon
<1>8. ASSUME NEW i \in D, ~stop[i], NEW v \in V
      PROVE  G[i][v] = Text!BytesOf(src[i]) \o v
  BY <1>8
<1> HIDE DEF D, V, left, stop, base, next, G, f
<1>9. PICK g : Descends(g, D, V, stop, base, next, G)
  BY <1>2, <1>3, <1>5, <1>6, Descent
<1>10. IsEncoded(g, src)
  <2>1. g \in [D -> V] /\ \A i \in D : g[i] = IF stop[i] THEN base[i] ELSE G[i][g[next[i]]]
    BY <1>9 DEF Descends
  <2>2. ASSUME NEW i \in D
        PROVE  g[i] = IF stop[i] THEN base[i] ELSE Text!BytesOf(src[i]) \o g[next[i]]
    <3>1. ~stop[i] => g[next[i]] \in V
      BY <1>6, <2>1
    <3>. QED  BY <1>8, <2>1, <3>1
  <2>3. g = [i \in D |-> g[i]]
    BY <2>1
  <2>. QED  BY <1>7, <2>2, <2>3
<1>11. IsEncoded(f, src)
  BY <1>10, Zenon DEF f, Encoded
<1>12. /\ f = [i \in D |-> f[i]]
       /\ \A i \in D : f[i] = IF stop[i] THEN base[i] ELSE Text!BytesOf(src[i]) \o f[next[i]]
  BY <1>7, <1>11
<1>13. \A i \in D : ~stop[i] /\ f[next[i]] \in V => f[i] = G[i][f[next[i]]]
  BY <1>8, <1>12
<1>14. Descends(f, D, V, stop, base, next, G)
  BY <1>2, <1>3, <1>5, <1>6, <1>12, <1>13, Descended
<1>15. \A i \in D : f[i] \in V
  BY <1>14 DEF Descends
<1>16. \A i \in D : f[i] = IF i > N THEN <<>> ELSE Text!BytesOf(src[i]) \o f[Text!After(src, i)]
  BY <1>12, Zenon DEF stop, base, next
<1>. QED  BY <1>15, <1>16 DEF D, V, f, N

\* Nothing is written behind four bytes for each character.
LEMMA EncodedFits ==
    ASSUME NEW text \in Seq(Int)
    PROVE  Text!Encode(text) \in Seq(Int) /\ Len(Text!Encode(text)) <= 4 * Len(text)
<1> DEFINE N == Len(text)
           f == Encoded(text)
           Room(i) == IF i > N THEN 0 ELSE 4 * (N + 1 - i)
           S == {k \in Nat : \A i \in 1 .. N + 2 : N + 2 - i <= k => Len(f[i]) <= Room(i)}
<1>1. N \in Nat /\ \A i \in 1 .. N : text[i] \in Int
  OBVIOUS
<1>2. \A i \in 1 .. N + 2 :
        /\ f[i] \in Seq(Int)
        /\ f[i] = IF i > N THEN <<>> ELSE Text!BytesOf(text[i]) \o f[Text!After(text, i)]
  BY EncodedRuns
<1> HIDE DEF N, f
<1>3. 0 \in S
  <2>1. ASSUME NEW i \in 1 .. N + 2, N + 2 - i <= 0
        PROVE  Len(f[i]) <= Room(i)
    <3>1. i > N /\ f[i] = <<>>
      BY <1>1, <1>2, <2>1
    <3>. QED  BY <3>1
  <2>. QED  BY <2>1
<1>4. ASSUME NEW k \in Nat, k \in S
      PROVE  k + 1 \in S
  <2> SUFFICES ASSUME NEW i \in 1 .. N + 2, N + 2 - i <= k + 1
               PROVE  Len(f[i]) <= Room(i)
    OBVIOUS
  <2>1. CASE i > N
    <3>1. f[i] = <<>>
      BY <1>2, <2>1
    <3>. QED  BY <2>1, <3>1
  <2>2. CASE ~(i > N)
    <3> DEFINE j == Text!After(text, i)
               b == Text!BytesOf(text[i])
    <3>1. j \in 1 .. N + 2 /\ N + 2 - j <= k /\ j >= i + 1 /\ i <= N
      BY <1>1, <2>2 DEF Text!After
    <3>2. Len(f[j]) <= Room(j)
      BY <1>4, <3>1
    <3>3. b \in Seq(Int) /\ Len(b) <= 4
      <4>1. text[i] \in Int
        BY <1>1, <2>2
      <4>. QED  BY <4>1, FewBytes
    <3>4. f[i] = b \o f[j] /\ f[j] \in Seq(Int)
      BY <1>2, <2>2, <3>1
    <3> HIDE DEF b, j
    <3>5. Len(f[i]) = Len(b) + Len(f[j]) /\ Len(b) \in Nat /\ Len(f[j]) \in Nat
      BY <3>3, <3>4, ConcatProperties, LenProperties
    <3>6. Room(j) <= 4 * (N + 1 - i) - 4
      BY <1>1, <3>1
    <3>7. Room(j) \in Int
      BY <1>1, <3>1
    <3>. QED  BY <1>1, <2>2, <3>1, <3>2, <3>3, <3>5, <3>6, <3>7
  <2>. QED  BY <2>1, <2>2
<1>5. Nat \subseteq S
  <2> HIDE DEF S
  <2>. QED  BY <1>3, <1>4, Induction
<1>6. Len(f[1]) <= Room(1)
  <2>1. N + 1 \in S
    <3> HIDE DEF S
    <3>. QED  BY <1>1, <1>5
  <2>2. 1 \in 1 .. N + 2 /\ N + 2 - 1 <= N + 1
    BY <1>1
  <2>. QED  BY <2>1, <2>2
<1>7. Room(1) <= 4 * N
  BY <1>1
<1>8. f[1] \in Seq(Int) /\ Len(f[1]) \in Nat
  <2>1. 1 \in 1 .. N + 2
    BY <1>1
  <2>. QED  BY <1>2, <2>1
<1>9. Room(1) \in Int
  BY <1>1
<1>10. Len(f[1]) <= 4 * N
  <2> HIDE DEF Room
  <2>. QED  BY <1>1, <1>6, <1>7, <1>8, <1>9
<1>. QED  BY <1>8, <1>10, TextNames DEF N, f

\* The characters of the table.
Chars == {c \in Int : Text!InTable(c)}

\* The class of a character, and its bytes.
InClass(c, n) ==
    /\ n \in 1 .. 4 /\ Text!Class(c) = n
    /\ Text!TableBytes(c) \in Seq(Int) /\ Len(Text!TableBytes(c)) = n
    /\ Text!TableBytes(c) = Text!BytesOf(c)
    /\ n = 1 => c <= 127 /\ Text!TableBytes(c) = <<c>>
    /\ n = 2 => 127 < c /\ c <= 2047
    /\ n = 3 => 2047 < c /\ c <= 65535 /\ Text!TableBytes(c) = Text!Bytes3(c)
    /\ n = 4 => 65535 < c /\ c <= 1114111 /\ Text!TableBytes(c) = Text!Bytes4(c)

\* The table's bytes, listed.
LEMMA TableListed ==
    ASSUME NEW c \in Int, NEW n \in 1 .. 4, Text!Class(c) = n, NEW x \in Seq(Int), Len(x) = n,
           x[1] = Text!Marker[n] + c \div Text!Worth[n],
           \A k \in 2 .. n : x[k] = 128 + ((c \div Text!Worth[n + 1 - k]) % 64)
    PROVE  Text!TableBytes(c) = x
<1> DEFINE at(k) == IF k = 1 THEN Text!Marker[n] + c \div Text!Worth[n]
                    ELSE 128 + ((c \div Text!Worth[n + 1 - k]) % 64)
<1>1. Text!TableBytes(c) = [k \in 1 .. n |-> at(k)]
  BY Zenon DEF Text!TableBytes
<1>2. \A k \in 1 .. n : x[k] = at(k)
  <2>1. \A k \in 1 .. n : k = 1 \/ k \in 2 .. n
    OBVIOUS
  <2>2. \A k \in 2 .. n : k # 1
    OBVIOUS
  <2>. QED  BY <2>1, <2>2, Zenon
<1>3. x \in [1 .. n -> Int]
  BY LenProperties, Zenon
<1> HIDE DEF at
<1>4. x = [k \in 1 .. n |-> at(k)]
  BY <1>2, <1>3
<1>. QED  BY <1>1, <1>4

\* The class of a character.
LEMMA ClassIs ==
    ASSUME NEW c \in Int
    PROVE  /\ c <= 127 => Text!Class(c) = 1
           /\ 127 < c /\ c <= 2047 => Text!Class(c) = 2
           /\ 2047 < c /\ c <= 65535 => Text!Class(c) = 3
           /\ 65535 < c /\ c <= 1114111 => Text!Class(c) = 4
<1> DEFINE C(k) == c <= Text!Largest[k] /\ (k > 1 => c > Text!Largest[k - 1])
<1>1. /\ Text!Largest[1] = 127 /\ Text!Largest[2] = 2047 /\ Text!Largest[3] = 65535
      /\ Text!Largest[4] = 1114111
  BY SMT DEF Text!Largest
<1>2. /\ C(1) <=> c <= 127
      /\ C(2) <=> 127 < c /\ c <= 2047
      /\ C(3) <=> 2047 < c /\ c <= 65535
      /\ C(4) <=> 65535 < c /\ c <= 1114111
  BY <1>1, SMT
<1> HIDE DEF C
<1>3. Text!Class(c) = CHOOSE k \in 1 .. 4 : C(k)
  BY Zenon DEF Text!Class, C
<1>4. 1 .. 4 = {1, 2, 3, 4}
  BY SMT
<1>5. ASSUME NEW n \in {1, 2, 3, 4}, C(n)
      PROVE  Text!Class(c) = n
  <2>1. ASSUME NEW k \in {1, 2, 3, 4}, C(k)
        PROVE  k = n
    BY <1>2, <1>5, <2>1, SMT
  <2>. QED  BY <1>3, <1>4, <1>5, <2>1, Zenon
<1>. QED  BY <1>2, <1>5, SMT

\* The encoder's bytes are those of the table.
LEMMA ClassBytes ==
    ASSUME NEW c \in Chars
    PROVE  \E n : InClass(c, n)
<1>0. c \in Int
  BY Zenon DEF Chars
<1>1. c \in Int /\ 0 <= c /\ c <= 1114111
  <2>1. c \in Int /\ Text!InTable(c)
    BY Zenon DEF Chars
  <2>. QED  BY <2>1, SMT DEF Text!InTable
<1>2. /\ Text!Marker[1] = 0 /\ Text!Marker[2] = 192 /\ Text!Marker[3] = 224 /\ Text!Marker[4] = 240
      /\ Text!Worth[1] = 1 /\ Text!Worth[2] = 64 /\ Text!Worth[3] = 4096 /\ Text!Worth[4] = 262144
  BY SMT DEF Text!Marker, Text!Worth
<1>3. c \div 1 = c
  BY <1>1, SMT
<1>4. CASE c <= 127
  <2> DEFINE x == <<c>>
  <2>1. c % 256 = c
    BY <1>1, <1>4, SMT
  <2>2. Text!BytesOf(c) = x
    BY <1>4, <2>1, SMT DEF Text!BytesOf
  <2>3. x \in Seq(Int) /\ Len(x) = 1 /\ x[1] = Text!Marker[1] + c \div Text!Worth[1]
    BY <1>1, <1>2, <1>3, SMT
  <2>4. \A k \in 2 .. 1 : x[k] = 128 + ((c \div Text!Worth[1 + 1 - k]) % 64)
    <3>1. 2 .. 1 = {}
      BY SMT
    <3>. QED  BY <3>1, Zenon
  <2>5. Text!Class(c) = 1
    BY <1>1, <1>4, ClassIs, SMT
  <2>6. Text!TableBytes(c) = x
    <3> DEFINE n == 1
    <3>1. n \in 1 .. 4
      BY SMT
    <3>2. x \in Seq(Int) /\ Len(x) = n /\ Text!Class(c) = n
      BY <2>3, <2>5, Zenon
    <3>3. /\ x[1] = Text!Marker[n] + c \div Text!Worth[n]
          /\ \A k \in 2 .. n : x[k] = 128 + ((c \div Text!Worth[n + 1 - k]) % 64)
      BY <2>3, <2>4, Zenon
    <3> HIDE DEF n, x
    <3>. QED  BY <1>0, <3>1, <3>2, <3>3, TableListed, Zenon
  <2>. QED  BY <1>1, <1>4, <2>2, <2>3, <2>5, <2>6, SMT DEF InClass
<1>5. CASE 127 < c /\ c <= 2047
  <2> DEFINE x == Text!Bytes2(c)
  <2>1. (c \div 64) % 32 = c \div 64
    BY <1>1, <1>5, SMT
  <2>2. Text!BytesOf(c) = x
    BY <1>1, <1>5, SMT DEF Text!BytesOf
  <2>3. /\ x \in Seq(Int) /\ Len(x) = 2
        /\ x[1] = Text!Marker[2] + c \div Text!Worth[2]
        /\ x[2] = 128 + ((c \div Text!Worth[1]) % 64)
    BY <1>1, <1>2, <1>3, <2>1, SMT DEF Text!Bytes2
  <2> HIDE DEF x
  <2>4. \A k \in 2 .. 2 : x[k] = 128 + ((c \div Text!Worth[2 + 1 - k]) % 64)
    <3>1. 2 .. 2 = {2}
      BY SMT
    <3>2. 2 + 1 - 2 = 1
      BY SMT
    <3>. QED  BY <2>3, <3>1, <3>2, Zenon
  <2>5. Text!Class(c) = 2
    BY <1>1, <1>5, ClassIs, SMT
  <2>6. Text!TableBytes(c) = x
    <3> DEFINE n == 2
    <3>1. n \in 1 .. 4
      BY SMT
    <3>2. x \in Seq(Int) /\ Len(x) = n /\ Text!Class(c) = n
      BY <2>3, <2>5, Zenon
    <3>3. /\ x[1] = Text!Marker[n] + c \div Text!Worth[n]
          /\ \A k \in 2 .. n : x[k] = 128 + ((c \div Text!Worth[n + 1 - k]) % 64)
      BY <2>3, <2>4, Zenon
    <3> HIDE DEF n, x
    <3>. QED  BY <1>0, <3>1, <3>2, <3>3, TableListed, Zenon
  <2>. QED  BY <1>1, <1>5, <2>2, <2>3, <2>5, <2>6, SMT DEF InClass, x
<1>6. CASE 2047 < c /\ c <= 65535
  <2> DEFINE x == Text!Bytes3(c)
  <2>1. (c \div 4096) % 16 = c \div 4096
    BY <1>1, <1>6, SMT
  <2>2. Text!BytesOf(c) = x
    BY <1>1, <1>6, SMT DEF Text!BytesOf
  <2>3. /\ x \in Seq(Int) /\ Len(x) = 3
        /\ x[1] = Text!Marker[3] + c \div Text!Worth[3]
        /\ x[2] = 128 + ((c \div Text!Worth[2]) % 64)
        /\ x[3] = 128 + ((c \div Text!Worth[1]) % 64)
    BY <1>1, <1>2, <1>3, <2>1, SMT DEF Text!Bytes3
  <2> HIDE DEF x
  <2>4. \A k \in 2 .. 3 : x[k] = 128 + ((c \div Text!Worth[3 + 1 - k]) % 64)
    <3>1. 2 .. 3 = {2, 3}
      BY SMT
    <3>2. 3 + 1 - 2 = 2 /\ 3 + 1 - 3 = 1
      BY SMT
    <3>. QED  BY <2>3, <3>1, <3>2, Zenon
  <2>5. Text!Class(c) = 3
    BY <1>1, <1>6, ClassIs, SMT
  <2>6. Text!TableBytes(c) = x
    <3> DEFINE n == 3
    <3>1. n \in 1 .. 4
      BY SMT
    <3>2. x \in Seq(Int) /\ Len(x) = n /\ Text!Class(c) = n
      BY <2>3, <2>5, Zenon
    <3>3. /\ x[1] = Text!Marker[n] + c \div Text!Worth[n]
          /\ \A k \in 2 .. n : x[k] = 128 + ((c \div Text!Worth[n + 1 - k]) % 64)
      BY <2>3, <2>4, Zenon
    <3> HIDE DEF n, x
    <3>. QED  BY <1>0, <3>1, <3>2, <3>3, TableListed, Zenon
  <2>. QED  BY <1>1, <1>6, <2>2, <2>3, <2>5, <2>6, SMT DEF InClass, x
<1>7. CASE 65535 < c
  <2> DEFINE x == Text!Bytes4(c)
  <2>1. (c \div 262144) % 8 = c \div 262144
    BY <1>1, <1>7, SMT
  <2>2. Text!BytesOf(c) = x
    BY <1>1, <1>7, SMT DEF Text!BytesOf
  <2>3. /\ x \in Seq(Int) /\ Len(x) = 4
        /\ x[1] = Text!Marker[4] + c \div Text!Worth[4]
        /\ x[2] = 128 + ((c \div Text!Worth[3]) % 64)
        /\ x[3] = 128 + ((c \div Text!Worth[2]) % 64)
        /\ x[4] = 128 + ((c \div Text!Worth[1]) % 64)
    BY <1>1, <1>2, <1>3, <2>1, SMT DEF Text!Bytes4
  <2> HIDE DEF x
  <2>4. \A k \in 2 .. 4 : x[k] = 128 + ((c \div Text!Worth[4 + 1 - k]) % 64)
    <3>1. 2 .. 4 = {2, 3, 4}
      BY SMT
    <3>2. 4 + 1 - 2 = 3 /\ 4 + 1 - 3 = 2 /\ 4 + 1 - 4 = 1
      BY SMT
    <3>. QED  BY <2>3, <3>1, <3>2, Zenon
  <2>5. Text!Class(c) = 4
    BY <1>1, <1>7, ClassIs, SMT
  <2>6. Text!TableBytes(c) = x
    <3> DEFINE n == 4
    <3>1. n \in 1 .. 4
      BY SMT
    <3>2. x \in Seq(Int) /\ Len(x) = n /\ Text!Class(c) = n
      BY <2>3, <2>5, Zenon
    <3>3. /\ x[1] = Text!Marker[n] + c \div Text!Worth[n]
          /\ \A k \in 2 .. n : x[k] = 128 + ((c \div Text!Worth[n + 1 - k]) % 64)
      BY <2>3, <2>4, Zenon
    <3> HIDE DEF n, x
    <3>. QED  BY <1>0, <3>1, <3>2, <3>3, TableListed, Zenon
  <2>. QED  BY <1>1, <1>7, <2>2, <2>3, <2>5, <2>6, SMT DEF InClass, x
<1>. QED  BY <1>1, <1>4, <1>5, <1>6, <1>7, SMT

\* What the table adds at a place.
Piece(text, out, i) == IF i \in out THEN <<>> ELSE Text!TableBytes(text[i])

\* The table, place by place.
LEMMA UptoRuns ==
    ASSUME NEW text \in Seq(Chars), NEW out
    PROVE  /\ Upto(text, out)[0] = <<>>
           /\ \A i \in 0 .. Len(text) : Upto(text, out)[i] \in Seq(Int)
           /\ \A i \in 1 .. Len(text) : Piece(text, out, i) \in Seq(Int)
           /\ \A i \in 1 .. Len(text) :
                Upto(text, out)[i] = Upto(text, out)[i - 1] \o Piece(text, out, i)
<1> DEFINE N == Len(text)
           c == <<>>
           V == Seq(Int)
           G == [i \in Nat |-> [v \in V |-> IF i + 1 \in 1 .. N
                                            THEN v \o Piece(text, out, i + 1) ELSE v]]
           f == Upto(text, out)
<1>1. N \in Nat /\ c \in V
  OBVIOUS
<1>2. ASSUME NEW i \in 1 .. N
      PROVE  Piece(text, out, i) \in V
  <2>1. text[i] \in Chars
    OBVIOUS
  <2>2. Text!TableBytes(text[i]) \in V
    BY <2>1, ClassBytes DEF InClass
  <2>. QED  BY <2>2 DEF Piece
<1> HIDE DEF N
<1>3. ASSUME NEW i \in Nat, NEW v \in V
      PROVE  (IF i + 1 \in 1 .. N THEN v \o Piece(text, out, i + 1) ELSE v) \in V
  <2>1. CASE i + 1 \in 1 .. N
    <3> DEFINE p == Piece(text, out, i + 1)
    <3>1. p \in V
      BY <1>2, <2>1
    <3> HIDE DEF p
    <3>2. v \o p \in V
      BY <3>1, ConcatProperties
    <3>. QED  BY <2>1, <3>2 DEF p
  <2>. QED  BY <2>1
<1>4. G \in [Nat -> [V -> V]]
  BY <1>3
<1>5. ASSUME NEW i \in 1 .. N, NEW v \in V
      PROVE  G[i - 1][v] = v \o Piece(text, out, i)
  <2>1. i - 1 \in Nat /\ (i - 1) + 1 = i
    BY <1>1
  <2>. QED  BY <2>1
<1>6. \A g : IsUpto(g, text, out) <=>
        g = [i \in 0 .. N |-> IF i = 0 THEN c ELSE g[i - 1] \o Piece(text, out, i)]
  BY Zenon DEF IsUpto, Piece, N
<1> HIDE DEF V, G, f, c
<1>7. PICK g : Runs(g, c, G, N, V)
  BY <1>1, <1>4, Iterated
<1>8. IsUpto(g, text, out)
  <2>1. g \in [0 .. N -> V] /\ g[0] = c /\ \A i \in 1 .. N : g[i] = G[i - 1][g[i - 1]]
    BY <1>7 DEF Runs
  <2>2. ASSUME NEW i \in 0 .. N
        PROVE  g[i] = IF i = 0 THEN c ELSE g[i - 1] \o Piece(text, out, i)
    <3>1. CASE i # 0
      <4>1. i \in 1 .. N /\ i - 1 \in 0 .. N
        BY <1>1, <3>1
      <4>. QED  BY <1>5, <2>1, <3>1, <4>1
    <3>. QED  BY <2>1, <3>1
  <2>3. g = [i \in 0 .. N |-> g[i]]
    BY <2>1
  <2>4. g = [i \in 0 .. N |-> IF i = 0 THEN c ELSE g[i - 1] \o Piece(text, out, i)]
    BY <2>2, <2>3, Zenon
  <2>. QED  BY <1>6, <2>4
<1>9. IsUpto(f, text, out)
  BY <1>8, Zenon DEF f, Upto
<1>10. /\ f = [i \in 0 .. N |-> f[i]] /\ f[0] = c
       /\ \A i \in 1 .. N : f[i] = f[i - 1] \o Piece(text, out, i)
  <2>1. f = [i \in 0 .. N |-> IF i = 0 THEN c ELSE f[i - 1] \o Piece(text, out, i)]
    BY <1>6, <1>9
  <2>2. f = [i \in 0 .. N |-> f[i]]
    BY <2>1, Zenon
  <2>3. ASSUME NEW i \in 0 .. N
        PROVE  f[i] = IF i = 0 THEN c ELSE f[i - 1] \o Piece(text, out, i)
    BY <2>1, Zenon
  <2>4. 0 \in 0 .. N /\ \A i \in 1 .. N : i \in 0 .. N /\ i # 0
    BY <1>1
  <2>. QED  BY <2>2, <2>3, <2>4, Zenon
<1>11. ASSUME NEW i \in 1 .. N, f[i - 1] \in V
       PROVE  f[i] = G[i - 1][f[i - 1]]
  BY <1>5, <1>10, <1>11
<1>12. Runs(f, c, G, N, V)
  BY <1>1, <1>4, <1>10, <1>11, Recursion
<1>13. \A i \in 0 .. N : f[i] \in V
  BY <1>12 DEF Runs
<1>. QED  BY <1>2, <1>10, <1>13 DEF f, N, V, c

\* Which characters are lost, place by place.
LEMMA LostRule ==
    ASSUME NEW text \in Seq(Int)
    PROVE  /\ Text!Lost(text) \subseteq 1 .. Len(text)
           /\ 1 \notin Text!Lost(text)
           /\ \A i \in 2 .. Len(text) :
                i \in Text!Lost(text) <=> i - 1 \notin Text!Lost(text) /\ text[i - 1] <= 127
<1> DEFINE N == Len(text)
           c == FALSE
           G == [i \in Nat |-> [v \in BOOLEAN |-> i > 0 /\ ~v /\ text[i] <= 127]]
           f == Out(text)
           body(g, i) == i > 1 /\ ~g[i - 1] /\ text[i - 1] <= 127
<1>1. N \in Nat /\ c \in BOOLEAN
  OBVIOUS
<1>2. G \in [Nat -> [BOOLEAN -> BOOLEAN]]
  OBVIOUS
<1>3. ASSUME NEW i \in 1 .. N, NEW v \in BOOLEAN
      PROVE  G[i - 1][v] = (i > 1 /\ ~v /\ text[i - 1] <= 127)
  <2>1. i - 1 \in Nat /\ (i - 1 > 0 <=> i > 1)
    BY <1>1
  <2>2. G[i - 1][v] = (i - 1 > 0 /\ ~v /\ text[i - 1] <= 127)
    BY <2>1
  <2>. QED  BY <2>1, <2>2
<1>4. \A g : IsOut(g, text) <=> g = [i \in 0 .. N |-> body(g, i)]
  BY DEF IsOut
<1> HIDE DEF N, G, f, c
<1>5. PICK g : Runs(g, c, G, N, BOOLEAN)
  BY <1>1, <1>2, Iterated
<1>6. IsOut(g, text)
  <2>1. g \in [0 .. N -> BOOLEAN] /\ g[0] = c /\ \A i \in 1 .. N : g[i] = G[i - 1][g[i - 1]]
    BY <1>5 DEF Runs
  <2>2. ASSUME NEW i \in 0 .. N
        PROVE  g[i] = body(g, i)
    <3>1. CASE i = 0
      BY <2>1, <3>1 DEF c
    <3>2. CASE i # 0
      <4>1. i \in 1 .. N /\ i - 1 \in 0 .. N
        BY <1>1, <3>2
      <4>2. g[i - 1] \in BOOLEAN /\ g[i] = G[i - 1][g[i - 1]]
        BY <2>1, <4>1
      <4>. QED  BY <1>3, <4>1, <4>2
    <3>. QED  BY <3>1, <3>2
  <2>3. g = [i \in 0 .. N |-> g[i]]
    BY <2>1
  <2>4. g = [i \in 0 .. N |-> body(g, i)]
    BY <2>2, <2>3, Zenon
  <2>. QED  BY <1>4, <2>4
<1>7. IsOut(f, text)
  BY <1>6, Zenon DEF f, Out
<1>8. f = [i \in 0 .. N |-> body(f, i)]
  BY <1>4, <1>7
<1>9. \A i \in 0 .. N : f[i] = body(f, i)
  BY <1>8, Zenon
<1>10. Text!Lost(text) = {i \in 1 .. N : f[i]}
  BY TextNames DEF f, N
<1>11. Text!Lost(text) \subseteq 1 .. N /\ 1 \notin Text!Lost(text)
  <2>1. ~(1 > 1)
    OBVIOUS
  <2>2. 1 \in 1 .. N => 1 \in 0 .. N
    BY <1>1
  <2>3. 1 \in 1 .. N => ~f[1]
    BY <1>9, <2>1, <2>2, Zenon
  <2>. QED  BY <1>10, <2>3, Zenon
<1>12. ASSUME NEW i \in 2 .. N
       PROVE  i \in Text!Lost(text) <=> i - 1 \notin Text!Lost(text) /\ text[i - 1] <= 127
  <2>1. i \in 1 .. N /\ i - 1 \in 1 .. N /\ i \in 0 .. N /\ i > 1
    BY <1>1
  <2>2. i \in Text!Lost(text) <=> f[i]
    BY <1>10, <2>1
  <2>3. i - 1 \in Text!Lost(text) <=> f[i - 1]
    BY <1>10, <2>1
  <2>4. f[i] <=> ~f[i - 1] /\ text[i - 1] <= 127
    BY <1>9, <2>1
  <2>. QED  BY <2>2, <2>3, <2>4
<1>. QED  BY <1>11, <1>12 DEF N

\* Joining a sequence to two.
LEMMA JoinedUp ==
    ASSUME NEW W, NEW a \in Seq(W), NEW b \in Seq(W), NEW c \in Seq(W)
    PROVE  a \o (b \o c) = (a \o b) \o c /\ a \o b \in Seq(W)
<1>1. (a \o b) \o c = a \o (b \o c)
  BY ConcatAssociative
<1>2. a \o b \in Seq(W)
  BY ConcatProperties
<1>. QED  BY <1>1, <1>2

\* The encoding is that of the table, but for the characters that are lost.
LEMMA EncodedAsTable ==
    ASSUME NEW text \in Seq(Chars)
    PROVE  Text!Encode(text) = Text!TableBut(text, Text!Lost(text))
<1> DEFINE N == Len(text)
           L == Text!Lost(text)
           e == Encoded(text)
           t == Upto(text, L)
           Upheld(i) == /\ i \notin L => t[i - 1] \o e[i] = e[1]
                        /\ i \in L => t[i - 1] \o e[i + 1] = e[1]
           S == {k \in Nat : k <= N => Upheld(k + 1)}
<1>1. text \in Seq(Int) /\ N \in Nat /\ \A i \in 1 .. N : text[i] \in Chars /\ text[i] \in Int
  <2>1. Chars \subseteq Int
    BY Zenon DEF Chars
  <2>2. text \in Seq(Int)
    BY <2>1, SeqMonotonic
  <2>3. N \in Nat /\ \A i \in 1 .. N : text[i] \in Chars
    OBVIOUS
  <2>. QED  BY <2>1, <2>2, <2>3
<1>2. \A i \in 1 .. N + 2 :
        /\ e[i] \in Seq(Int)
        /\ e[i] = IF i > N THEN <<>> ELSE Text!BytesOf(text[i]) \o e[Text!After(text, i)]
  BY <1>1, EncodedRuns, Zenon
<1>3. /\ t[0] = <<>>
      /\ \A i \in 0 .. N : t[i] \in Seq(Int)
      /\ \A i \in 1 .. N : Piece(text, L, i) \in Seq(Int)
      /\ \A i \in 1 .. N : t[i] = t[i - 1] \o Piece(text, L, i)
  BY UptoRuns, Zenon
<1>4. /\ L \subseteq 1 .. N /\ 1 \notin L
      /\ \A i \in 2 .. N : i \in L <=> i - 1 \notin L /\ text[i - 1] <= 127
  BY <1>1, LostRule, Zenon
<1>5. Text!Encode(text) = e[1] /\ Text!TableBut(text, L) = t[N]
  BY TextNames, Zenon
<1>6. \A i \in 1 .. N : Text!TableBytes(text[i]) = Text!BytesOf(text[i])
  BY <1>1, ClassBytes DEF InClass
<1>7. \A i \in 1 .. N : Text!After(text, i) = IF text[i] <= 127 THEN i + 2 ELSE i + 1
  BY DEF Text!After
<1> HIDE DEF N, L, e, t
<1>8. 0 \in S
  <2>1. 1 \in 1 .. N + 2
    BY <1>1
  <2>2. e[1] \in Seq(Int)
    BY <1>2, <2>1
  <2>3. <<>> \o e[1] = e[1]
    BY <2>2, ConcatEmptySeq
  <2> DEFINE i == 1
  <2>4. 0 \in Nat /\ 0 + 1 = i /\ i - 1 = 0
    OBVIOUS
  <2> HIDE DEF i
  <2>5. t[i - 1] \o e[1] = e[1]
    BY <1>3, <2>3, <2>4
  <2>6. i \notin L /\ e[i] = e[1]
    BY <1>4 DEF i
  <2>7. Upheld(i)
    BY <2>5, <2>6
  <2> HIDE DEF Upheld
  <2>. QED  BY <2>4, <2>7
<1>9. ASSUME NEW k \in Nat, k \in S
      PROVE  k + 1 \in S
  <2> DEFINE i == k + 1
  <2> SUFFICES ASSUME i <= N
               PROVE  Upheld(i + 1)
    <3> HIDE DEF Upheld
    <3>. QED  OBVIOUS
  <2>1. i \in 1 .. N /\ i - 1 \in 0 .. N /\ i \in 0 .. N /\ (i + 1) - 1 = i /\ Upheld(i)
    <3> HIDE DEF Upheld
    <3>. QED  BY <1>1, <1>9
  <2> HIDE DEF i
  <2>2. t[i - 1] \in Seq(Int) /\ t[i] = t[i - 1] \o Piece(text, L, i)
    BY <1>3, <2>1
  <2>3. CASE i \notin L
    <3> DEFINE b == Text!BytesOf(text[i])
               j == Text!After(text, i)
    <3>1. Piece(text, L, i) = b
      BY <1>6, <2>1, <2>3 DEF Piece
    <3>2. b \in Seq(Int) /\ t[i] = t[i - 1] \o b
      BY <1>3, <2>1, <2>2, <3>1
    <3>3. j = (IF text[i] <= 127 THEN i + 2 ELSE i + 1) /\ j \in 1 .. N + 2
      BY <1>1, <1>7, <2>1
    <3>4. i \in 1 .. N + 2 /\ ~(i > N)
      BY <1>1, <2>1
    <3>5. e[i] = b \o e[j] /\ e[j] \in Seq(Int)
      BY <1>2, <3>3, <3>4
    <3> HIDE DEF b, j, Upheld
    <3>6. t[i - 1] \o (b \o e[j]) = (t[i - 1] \o b) \o e[j]
      <4> DEFINE u == t[i - 1]
                 v == e[j]
      <4>1. u \in Seq(Int) /\ b \in Seq(Int) /\ v \in Seq(Int)
        BY <2>2, <3>2, <3>5
      <4> HIDE DEF u, v
      <4>2. u \o (b \o v) = (u \o b) \o v
        BY <4>1, JoinedUp
      <4>. QED  BY <4>2 DEF u, v
    <3>7. t[i] \o e[j] = e[1]
      BY <2>1, <2>3, <3>2, <3>5, <3>6 DEF Upheld
    <3>8. CASE ~(text[i] <= 127)
      <4>1. i + 1 \notin L
        <5>1. i + 1 \in L => i + 1 \in 2 .. N
          BY <1>1, <1>4, <2>1
        <5>. QED  BY <1>4, <2>1, <3>8, <5>1
      <4>2. j = i + 1
        BY <3>3, <3>8
      <4>3. Upheld(i + 1)
        BY <2>1, <3>7, <4>1, <4>2 DEF Upheld
      <4>. QED  BY <4>3 DEF i
    <3>9. CASE text[i] <= 127 /\ i < N
      <4>1. i + 1 \in L
        <5>1. i + 1 \in 2 .. N
          BY <1>1, <2>1, <3>9
        <5>. QED  BY <1>4, <2>1, <2>3, <3>9, <5>1
      <4>2. j = (i + 1) + 1
        BY <2>1, <3>3, <3>9
      <4>3. Upheld(i + 1)
        BY <2>1, <3>7, <4>1, <4>2 DEF Upheld
      <4>. QED  BY <4>3 DEF i
    <3>10. CASE text[i] <= 127 /\ ~(i < N)
      <4>1. i + 1 \notin L /\ i = N
        BY <1>1, <1>4, <2>1, <3>10
      <4>2. j \in 1 .. N + 2 /\ j > N /\ i + 1 \in 1 .. N + 2 /\ i + 1 > N
        BY <1>1, <2>1, <3>3, <3>10, <4>1
      <4>3. e[j] = <<>> /\ e[i + 1] = <<>>
        BY <1>2, <4>2
      <4>4. Upheld(i + 1)
        BY <2>1, <3>7, <4>1, <4>3 DEF Upheld
      <4>. QED  BY <4>4 DEF i
    <3>. QED  BY <3>8, <3>9, <3>10
  <2>4. CASE i \in L
    <3>1. Piece(text, L, i) = <<>>
      BY <2>4 DEF Piece
    <3>2. t[i] = t[i - 1]
      BY <2>2, <3>1, ConcatEmptySeq
    <3>3. i + 1 \notin L
      <4>1. i + 1 \in L => i + 1 \in 2 .. N
        BY <1>1, <1>4, <2>1
      <4>. QED  BY <1>4, <2>1, <2>4, <4>1
    <3>4. Upheld(i + 1)
      BY <2>1, <2>4, <3>2, <3>3
    <3> HIDE DEF Upheld
    <3>. QED  BY <3>4 DEF i
  <2>. QED  BY <2>3, <2>4
<1>10. Nat \subseteq S
  <2> HIDE DEF S
  <2>. QED  BY <1>8, <1>9, Induction
<1>11. Upheld(N + 1)
  <2>1. N \in S
    <3> HIDE DEF S
    <3>. QED  BY <1>1, <1>10
  <2> HIDE DEF Upheld
  <2>. QED  BY <1>1, <2>1
<1>12. N + 1 \notin L /\ (N + 1) - 1 = N /\ N + 1 \in 1 .. N + 2 /\ N + 1 > N /\ N \in 0 .. N
  BY <1>1, <1>4
<1>13. e[N + 1] = <<>> /\ t[N] \in Seq(Int)
  BY <1>2, <1>3, <1>12
<1>14. t[N] \o <<>> = e[1]
  BY <1>11, <1>12, <1>13
<1>15. t[N] \o <<>> = t[N]
  BY <1>13, ConcatEmptySeq
<1>. QED  BY <1>5, <1>14, <1>15 DEF L, N

\* What the decoder may come upon, places behind the end of the text included.
Legible(src) ==
    Int \cup {Text!CharAt(src, i, n) : i \in 1 .. Len(src), n \in 0 .. 4}

\* The loop of the decoder, from its end.
LEMMA DecodedRuns ==
    ASSUME NEW src \in Seq(Int)
    PROVE  \A i \in 1 .. Len(src) + 4 :
             /\ Decoded(src)[i] \in Seq(Legible(src))
             /\ Decoded(src)[i] =
                  IF i > Len(src) THEN <<>>
                  ELSE IF Text!Length(src[i]) = 0 THEN Decoded(src)[i + 1]
                  ELSE <<Text!CharAt(src, i, Text!Length(src[i]))>>
                         \o Decoded(src)[i + Text!Length(src[i])]
<1> DEFINE N == Len(src)
           D == 1 .. N + 4
           W == Legible(src)
           V == Seq(W)
           m(i) == Text!Length(src[i])
           left == [i \in D |-> N + 4 - i]
           stop == [i \in D |-> i > N]
           base == [i \in D |-> <<>>]
           next == [i \in D |-> IF m(i) = 0 THEN i + 1 ELSE i + m(i)]
           put(i, v) == IF m(i) = 0 THEN v ELSE <<Text!CharAt(src, i, m(i))>> \o v
           G == [i \in D |-> [v \in V |-> IF i > N THEN <<>> ELSE put(i, v)]]
           f == Decoded(src)
<1>1. N \in Nat
  OBVIOUS
<1>2. \A i \in 1 .. N : m(i) \in 0 .. 4
  <2>1. \A b : Text!Length(b) \in {0, 1, 2, 3, 4}
    BY Zenon DEF Text!Length, Text!LeftBits
  <2>2. {0, 1, 2, 3, 4} = 0 .. 4
    BY SMT
  <2>. QED  BY <2>1, <2>2, Zenon
<1>3. \A i \in 1 .. N : Text!CharAt(src, i, m(i)) \in W
  <2> HIDE DEF m
  <2>. QED  BY <1>2 DEF Legible
<1> HIDE DEF N, m, W
<1>4. N + 4 \in Nat /\ left \in [D -> 0 .. N + 4] /\ base \in [D -> V]
  BY <1>1
<1>5. ASSUME NEW i \in D, NEW v \in V
      PROVE  (IF i > N THEN <<>> ELSE put(i, v)) \in V
  <2>1. CASE ~(i > N) /\ m(i) # 0
    <3> DEFINE b == <<Text!CharAt(src, i, m(i))>>
    <3>1. i \in 1 .. N
      BY <1>1, <2>1
    <3>2. b \in V
      BY <1>3, <3>1
    <3> HIDE DEF b
    <3>3. b \o v \in V
      BY <3>2, ConcatProperties
    <3>. QED  BY <2>1, <3>3 DEF b
  <2>2. CASE i > N
    BY <2>2
  <2>3. CASE ~(i > N) /\ m(i) = 0
    BY <2>3
  <2>. QED  BY <2>1, <2>2, <2>3
<1> HIDE DEF put
<1>6. G \in [D -> [V -> V]]
  BY <1>5
<1>7. ASSUME NEW i \in D, ~stop[i]
      PROVE  next[i] \in D /\ left[next[i]] < left[i]
  <2>1. i \in 1 .. N
    <3>1. i > N => stop[i]
      OBVIOUS
    <3>2. ~(i > N)
      BY <1>7, <3>1, Zenon
    <3>. QED  BY <1>1, <3>2
  <2>2. next[i] = (IF m(i) = 0 THEN i + 1 ELSE i + m(i)) /\ m(i) \in 0 .. 4
    BY <1>2, <2>1
  <2>3. next[i] \in D /\ next[i] > i
    BY <1>1, <2>1, <2>2
  <2>. QED  BY <1>1, <2>1, <2>3
<1>8. \A g : IsDecoded(g, src) <=>
        g = [i \in D |-> IF i > N THEN <<>>
                         ELSE IF m(i) = 0 THEN g[i + 1]
                         ELSE <<Text!CharAt(src, i, m(i))>> \o g[i + m(i)]]
  BY Zenon DEF IsDecoded, N, m
<1>9. ASSUME NEW g, NEW i \in D
      PROVE  (IF i > N THEN <<>>
              ELSE IF m(i) = 0 THEN g[i + 1]
              ELSE <<Text!CharAt(src, i, m(i))>> \o g[i + m(i)])
             = IF stop[i] THEN base[i] ELSE put(i, g[next[i]])
  <2>1. stop[i] = (i > N) /\ base[i] = <<>>
        /\ next[i] = IF m(i) = 0 THEN i + 1 ELSE i + m(i)
    OBVIOUS
  <2> HIDE DEF stop, base, next
  <2>2. CASE i > N
    BY <2>1, <2>2, Zenon
  <2>3. CASE ~(i > N) /\ m(i) = 0
    BY <2>1, <2>3, Zenon DEF put
  <2>4. CASE ~(i > N) /\ m(i) # 0
    BY <2>1, <2>4, Zenon DEF put
  <2>. QED  BY <2>2, <2>3, <2>4, Zenon
<1>10. ASSUME NEW i \in D, ~stop[i], NEW v \in V
       PROVE  G[i][v] = put(i, v)
  BY <1>10
<1> HIDE DEF D, V, left, stop, base, next, G, f
<1>11. PICK g : Descends(g, D, V, stop, base, next, G)
  BY <1>4, <1>6, <1>7, Descent
<1>12. IsDecoded(g, src)
  <2>1. g \in [D -> V] /\ \A i \in D : g[i] = IF stop[i] THEN base[i] ELSE G[i][g[next[i]]]
    BY <1>11 DEF Descends
  <2>2. ASSUME NEW i \in D
        PROVE  g[i] = IF stop[i] THEN base[i] ELSE put(i, g[next[i]])
    <3>1. ~stop[i] => g[next[i]] \in V
      BY <1>7, <2>1
    <3>. QED  BY <1>10, <2>1, <3>1
  <2>3. g = [i \in D |-> g[i]]
    BY <2>1
  <2>4. g = [i \in D |-> IF i > N THEN <<>>
                         ELSE IF m(i) = 0 THEN g[i + 1]
                         ELSE <<Text!CharAt(src, i, m(i))>> \o g[i + m(i)]]
    BY <1>9, <2>2, <2>3, Zenon
  <2>. QED  BY <1>8, <2>4
<1>13. IsDecoded(f, src)
  BY <1>12, Zenon DEF f, Decoded
<1>14. f = [i \in D |-> IF i > N THEN <<>>
                        ELSE IF m(i) = 0 THEN f[i + 1]
                        ELSE <<Text!CharAt(src, i, m(i))>> \o f[i + m(i)]]
  BY <1>8, <1>13
<1>15. \A i \in D : f[i] = IF i > N THEN <<>>
                           ELSE IF m(i) = 0 THEN f[i + 1]
                           ELSE <<Text!CharAt(src, i, m(i))>> \o f[i + m(i)]
  BY <1>14, Zenon
<1>16. f = [i \in D |-> f[i]]
  BY <1>14, Zenon
<1>17. \A i \in D : f[i] = IF stop[i] THEN base[i] ELSE put(i, f[next[i]])
  BY <1>9, <1>15, Zenon
<1>18. \A i \in D : ~stop[i] /\ f[next[i]] \in V => f[i] = G[i][f[next[i]]]
  BY <1>10, <1>17
<1>19. \A i \in D : stop[i] => f[i] = base[i]
  BY <1>17
<1>20. Descends(f, D, V, stop, base, next, G)
  BY <1>4, <1>6, <1>7, <1>16, <1>18, <1>19, Descended
<1>21. \A i \in D : f[i] \in V
  BY <1>20 DEF Descends
<1>22. \A i \in D : /\ f[i] \in V
                    /\ f[i] = IF i > N THEN <<>>
                              ELSE IF m(i) = 0 THEN f[i + 1]
                              ELSE <<Text!CharAt(src, i, m(i))>> \o f[i + m(i)]
  BY <1>15, <1>21, Zenon
<1>. QED  BY <1>22 DEF D, V, W, f, N, m

\* What the table begins with stays.
LEMMA UptoPrefix ==
    ASSUME NEW text \in Seq(Chars), NEW out, NEW i \in 0 .. Len(text)
    PROVE  \A j \in i .. Len(text) :
             /\ Len(Upto(text, out)[i]) <= Len(Upto(text, out)[j])
             /\ \A m \in 1 .. Len(Upto(text, out)[i]) :
                  Upto(text, out)[j][m] = Upto(text, out)[i][m]
<1> DEFINE N == Len(text)
           t == Upto(text, out)
           Begins(j) == /\ Len(t[i]) <= Len(t[j])
                        /\ \A m \in 1 .. Len(t[i]) : t[j][m] = t[i][m]
           S == {k \in Nat : i + k <= N => Begins(i + k)}
<1>1. /\ \A j \in 0 .. N : t[j] \in Seq(Int)
      /\ \A j \in 1 .. N : Piece(text, out, j) \in Seq(Int)
      /\ \A j \in 1 .. N : t[j] = t[j - 1] \o Piece(text, out, j)
  BY UptoRuns, Zenon
<1>2. N \in Nat /\ i \in 0 .. N
  OBVIOUS
<1> HIDE DEF N, t
<1>3. \A j \in 0 .. N : Len(t[j]) \in Nat
  BY <1>1, LenProperties
<1>4. 0 \in S
  <2>1. Begins(i)
    BY <1>2, <1>3
  <2> HIDE DEF Begins
  <2>2. i + 0 = i
    BY <1>2
  <2>. QED  BY <2>1, <2>2
<1>5. ASSUME NEW k \in Nat, k \in S
      PROVE  k + 1 \in S
  <2> DEFINE j == i + (k + 1)
  <2> SUFFICES ASSUME j <= N
               PROVE  Begins(j)
    <3> HIDE DEF Begins
    <3>. QED  OBVIOUS
  <2>1. j \in 1 .. N /\ j - 1 = i + k /\ j - 1 \in 0 .. N
    BY <1>2
  <2>2. Begins(j - 1)
    <3> HIDE DEF Begins
    <3>. QED  BY <1>2, <1>5, <2>1
  <2> HIDE DEF j
  <2> DEFINE u == t[j - 1]
             v == Piece(text, out, j)
  <2>3. u \in Seq(Int) /\ v \in Seq(Int) /\ t[j] = u \o v
    BY <1>1, <2>1
  <2>4. Len(u) \in Nat /\ Len(v) \in Nat /\ Len(t[i]) \in Nat
    BY <1>2, <1>3, <2>3, LenProperties
  <2>5. Len(t[i]) <= Len(u) /\ \A m \in 1 .. Len(t[i]) : u[m] = t[i][m]
    BY <2>2
  <2> HIDE DEF u, v
  <2>6. /\ Len(t[j]) = Len(u) + Len(v)
        /\ \A m \in 1 .. Len(u) + Len(v) : t[j][m] = IF m <= Len(u) THEN u[m] ELSE v[m - Len(u)]
    BY <2>3, ConcatProperties
  <2>7. \A m \in 1 .. Len(t[i]) : m \in 1 .. Len(u) + Len(v) /\ m <= Len(u)
    BY <2>4, <2>5
  <2>8. Len(t[i]) <= Len(t[j])
    BY <2>4, <2>5, <2>6
  <2>9. \A m \in 1 .. Len(t[i]) : t[j][m] = t[i][m]
    BY <2>5, <2>6, <2>7, Zenon
  <2>. QED  BY <2>8, <2>9
<1>6. Nat \subseteq S
  <2> HIDE DEF S
  <2>. QED  BY <1>4, <1>5, Induction
<1>7. ASSUME NEW j \in i .. N
      PROVE  Begins(j)
  <2>1. j - i \in Nat /\ i + (j - i) = j /\ j <= N
    BY <1>2
  <2>2. j - i \in S
    BY <1>6, <2>1
  <2> HIDE DEF Begins
  <2>. QED  BY <2>1, <2>2
<1>. QED  BY <1>7 DEF N, t

\* The decoder understands a character whose bytes stand at a place.
LEMMA OneChar ==
    ASSUME NEW c \in Chars, NEW n, InClass(c, n), n # 2,
           NEW src, NEW p \in Nat, \A k \in 1 .. n : src[p + k - 1] = Text!TableBytes(c)[k]
    PROVE  Text!Length(src[p]) = n /\ Text!CharAt(src, p, n) = c
<1>0. c \in Int /\ Text!InTable(c)
  BY Zenon DEF Chars
<1>1. c \in Int /\ 0 <= c /\ c <= 1114111
  BY <1>0, SMT DEF Text!InTable
<1>2. CASE n = 1
  <2>1. src[p] = c /\ c <= 127
    <3>1. Text!TableBytes(c) = <<c>> /\ c <= 127
      BY <1>2 DEF InClass
    <3>2. p + 1 - 1 = p /\ 1 \in 1 .. n
      BY <1>2
    <3>. QED  BY <3>1, <3>2
  <2>2. Text!Length(src[p]) = 1
    BY <2>1, SMT DEF Text!Length
  <2>3. Text!CharAt(src, p, 1) = src[p]
    BY SMT DEF Text!CharAt
  <2>. QED  BY <1>2, <2>1, <2>2, <2>3
<1>3. CASE n = 3
  <2>1. Text!TableBytes(c) = Text!Bytes3(c) /\ 2047 < c /\ c <= 65535
    BY <1>3, SMT DEF InClass
  <2>2. p + 1 - 1 = p /\ p + 2 - 1 = p + 1 /\ p + 3 - 1 = p + 2
        /\ 1 \in 1 .. n /\ 2 \in 1 .. n /\ 3 \in 1 .. n
    BY <1>3, SMT
  <2>3. /\ src[p] = Text!Bytes3(c)[1] /\ src[p + 1] = Text!Bytes3(c)[2]
        /\ src[p + 2] = Text!Bytes3(c)[3]
    BY <2>1, <2>2, SMT
  <2>4. /\ src[p] = 224 + ((c \div 4096) % 16)
        /\ src[p + 1] = 128 + ((c \div 64) % 64) /\ src[p + 2] = 128 + (c % 64)
    BY <2>3, SMT DEF Text!Bytes3
  <2> DEFINE x == (c \div 4096) % 16
             y == (c \div 64) % 64
             z == c % 64
  <2>5. /\ x \in 0 .. 15 /\ y \in 0 .. 63 /\ z \in 0 .. 63
        /\ c = (x * 64 + y) * 64 + z
    BY <1>1, <2>1, SMT
  <2>6. src[p] = 224 + x /\ src[p + 1] = 128 + y /\ src[p + 2] = 128 + z
    BY <2>4
  <2> HIDE DEF x, y, z
  <2>7. src[p] \div 32 = 7 /\ src[p] \div 16 = 14 /\ src[p] > 127 /\ src[p] % 16 = x
        /\ src[p + 1] % 64 = y /\ src[p + 2] % 64 = z
    BY <2>5, <2>6, SMT
  <2>8. Text!Length(src[p]) = 3
    BY <2>6, <2>5, <2>7, SMT DEF Text!Length, Text!LeftBits
  <2>9. Text!CharAt(src, p, 3) = ((src[p] % 16) * 64 + (src[p + 1] % 64)) * 64 + (src[p + 2] % 64)
    BY SMT DEF Text!CharAt
  <2>. QED  BY <1>3, <2>5, <2>7, <2>8, <2>9, SMT
<1>4. CASE n = 4
  <2>1. Text!TableBytes(c) = Text!Bytes4(c)
    BY <1>4, SMT DEF InClass
  <2>2. p + 1 - 1 = p /\ p + 2 - 1 = p + 1 /\ p + 3 - 1 = p + 2 /\ p + 4 - 1 = p + 3
        /\ 1 \in 1 .. n /\ 2 \in 1 .. n /\ 3 \in 1 .. n /\ 4 \in 1 .. n
    BY <1>4, SMT
  <2>3. /\ src[p] = Text!Bytes4(c)[1] /\ src[p + 1] = Text!Bytes4(c)[2]
        /\ src[p + 2] = Text!Bytes4(c)[3] /\ src[p + 3] = Text!Bytes4(c)[4]
    BY <2>1, <2>2, SMT
  <2>4. /\ src[p] = 240 + ((c \div 262144) % 8) /\ src[p + 1] = 128 + ((c \div 4096) % 64)
        /\ src[p + 2] = 128 + ((c \div 64) % 64) /\ src[p + 3] = 128 + (c % 64)
    BY <2>3, SMT DEF Text!Bytes4
  <2> DEFINE w == (c \div 262144) % 8
             x == (c \div 4096) % 64
             y == (c \div 64) % 64
             z == c % 64
  <2>5. /\ w \in 0 .. 7 /\ x \in 0 .. 63 /\ y \in 0 .. 63 /\ z \in 0 .. 63
        /\ c = ((w * 64 + x) * 64 + y) * 64 + z
    BY <1>1, SMT
  <2>6. src[p] = 240 + w /\ src[p + 1] = 128 + x /\ src[p + 2] = 128 + y /\ src[p + 3] = 128 + z
    BY <2>4
  <2> HIDE DEF w, x, y, z
  <2>7. src[p] \div 32 = 7 /\ src[p] \div 16 = 15 /\ src[p] \div 8 = 30 /\ src[p] > 127
        /\ src[p] % 8 = w /\ src[p + 1] % 64 = x /\ src[p + 2] % 64 = y
        /\ src[p + 3] % 64 = z
    BY <2>5, <2>6, SMT
  <2>8. Text!Length(src[p]) = 4
    BY <2>6, <2>5, <2>7, SMT DEF Text!Length, Text!LeftBits
  <2>9. Text!CharAt(src, p, 4) = (((src[p] % 8) * 64 + (src[p + 1] % 64)) * 64
                                 + (src[p + 2] % 64)) * 64 + (src[p + 3] % 64)
    BY SMT DEF Text!CharAt
  <2>. QED  BY <1>4, <2>5, <2>7, <2>8, <2>9, SMT
<1>5. n = 1 \/ n = 3 \/ n = 4
  <2>1. n \in 1 .. 4
    BY SMT DEF InClass
  <2>. QED  BY <2>1
<1>. QED  BY <1>2, <1>3, <1>4, <1>5

\* What was encoded by the table is decoded, but for characters of two bytes.
LEMMA DecodedTable ==
    ASSUME NEW text \in Seq(Chars), \A i \in DOMAIN text : Text!Class(text[i]) # 2
    PROVE  Text!Decode(Text!Table(text)) = text
<1> DEFINE N == Len(text)
           t == Upto(text, {})
           src == t[N]
           W == Legible(src)
           V == Seq(W)
           d == Decoded(src)
           at(j) == Len(t[j]) + 1
           Q(j) == SubSeq(text, 1, j) \o d[at(j)] = d[1]
           S == {k \in Nat : k <= N => Q(k)}
<1>1. N \in Nat /\ \A i \in 1 .. N : text[i] \in Chars
  OBVIOUS
<1>2. /\ t[0] = <<>>
      /\ \A j \in 0 .. N : t[j] \in Seq(Int)
      /\ \A j \in 1 .. N : Piece(text, {}, j) \in Seq(Int)
      /\ \A j \in 1 .. N : t[j] = t[j - 1] \o Piece(text, {}, j)
  BY UptoRuns, Zenon
<1>3. \A i \in 0 .. N : \A j \in i .. N :
        Len(t[i]) <= Len(t[j]) /\ \A m \in 1 .. Len(t[i]) : t[j][m] = t[i][m]
  BY UptoPrefix
<1>4. N \in 0 .. N /\ src \in Seq(Int) /\ Len(src) \in Nat
  BY <1>1, <1>2, LenProperties
<1>5. \A i \in 1 .. Len(src) + 4 :
        /\ d[i] \in V
        /\ d[i] = IF i > Len(src) THEN <<>>
                  ELSE IF Text!Length(src[i]) = 0 THEN d[i + 1]
                  ELSE <<Text!CharAt(src, i, Text!Length(src[i]))>> \o d[i + Text!Length(src[i])]
  BY <1>4, DecodedRuns, Zenon
<1>6. Text!Decode(Text!Table(text)) = d[1]
  <2>1. Text!Table(text) = src
    BY TextNames, Zenon DEF Text!Table
  <2>. QED  BY <2>1, TextNames, Zenon
<1>7. text \in V
  <2>1. Chars \subseteq W
    BY DEF Chars, Legible, W
  <2> HIDE DEF W
  <2>. QED  BY <2>1, SeqMonotonic
<1>8. \A j \in 1 .. N : text[j] \in W
  BY <1>1 DEF Chars, Legible, W
<1>9. \A j \in 1 .. N : Text!Class(text[j]) # 2
  BY <1>1
<1>10. \A j \in 0 .. N : Len(t[j]) \in Nat /\ Len(t[j]) <= Len(src)
  <2>1. \A j \in 0 .. N : Len(t[j]) \in Nat
    BY <1>2, LenProperties
  <2>2. \A j \in 0 .. N : N \in j .. N
    BY <1>1
  <2>. QED  BY <1>3, <2>1, <2>2
<1> HIDE DEF N, t, W, d
<1>11. 0 \in S
  <2>1. SubSeq(text, 1, 0) = <<>> /\ at(0) = 1
    BY <1>2, SubSeqEmpty
  <2>2. d[1] \in V
    <3>1. 1 \in 1 .. Len(src) + 4
      <4> HIDE DEF src
      <4>. QED  BY <1>4
    <3> HIDE DEF src, V
    <3>. QED  BY <1>5, <3>1
  <2>3. <<>> \o d[1] = d[1]
    <3> HIDE DEF V
    <3>1. V = Seq(W)
      BY DEF V
    <3>. QED  BY <2>2, <3>1, ConcatEmptySeq
  <2> HIDE DEF at
  <2>4. Q(0)
    BY <2>1, <2>3
  <2> HIDE DEF Q
  <2>. QED  BY <2>4
<1>12. ASSUME NEW k \in Nat, k \in S
       PROVE  k + 1 \in S
  <2> DEFINE j == k + 1
  <2> SUFFICES ASSUME j <= N
               PROVE  Q(j)
    <3> HIDE DEF Q
    <3>. QED  OBVIOUS
  <2>1. j \in 1 .. N /\ j - 1 = k /\ k \in 0 .. N /\ j \in 0 .. N /\ N \in j .. N /\ Q(k)
    <3> HIDE DEF Q
    <3>. QED  BY <1>1, <1>12
  <2> HIDE DEF j
  <2> DEFINE c == text[j]
             b == Text!TableBytes(c)
             p == at(k)
  <2>2. PICK n : InClass(c, n)
    BY <1>1, <2>1, ClassBytes
  <2>3. n \in 1 .. 4 /\ n # 2 /\ b \in Seq(Int) /\ Len(b) = n
    BY <1>9, <2>1, <2>2, SMT DEF InClass
  <2>4. t[j] = t[k] \o b /\ t[k] \in Seq(Int)
    <3>1. Piece(text, {}, j) = b
      BY DEF Piece
    <3> HIDE DEF b
    <3>. QED  BY <1>2, <2>1, <3>1
  <2> DEFINE l == Len(t[k])
  <2>5. l \in Nat /\ Len(t[j]) \in Nat /\ Len(t[j]) <= Len(src)
    BY <1>10, <2>1
  <2>6. Len(t[j]) = l + n /\ \A m \in 1 .. n : t[j][l + m] = b[m]
    <3> DEFINE u == t[k]
    <3> HIDE DEF b, u
    <3>1. u \in Seq(Int) /\ b \in Seq(Int) /\ t[j] = u \o b
      BY <2>3, <2>4 DEF u
    <3>2. /\ Len(t[j]) = Len(u) + Len(b)
          /\ \A m \in 1 .. Len(u) + Len(b) :
               t[j][m] = IF m <= Len(u) THEN u[m] ELSE b[m - Len(u)]
      BY <3>1, ConcatProperties
    <3>3. Len(u) = l /\ l \in Nat /\ Len(b) = n
      BY <2>3, <2>5 DEF u
    <3> HIDE DEF l
    <3>4. ASSUME NEW m \in 1 .. n
          PROVE  t[j][l + m] = b[m]
      <4>1. l + m \in 1 .. l + n /\ ~(l + m <= l) /\ (l + m) - l = m
        BY <2>3, <3>3
      <4>. QED  BY <3>2, <3>3, <4>1
    <3>. QED  BY <3>2, <3>3, <3>4
  <2>7. p = l + 1 /\ p \in Nat /\ at(j) = p + n
    BY <2>3, <2>5, <2>6
  <2> HIDE DEF b, p, l
  <2>8. \A m \in 1 .. n : src[p + m - 1] = b[m]
    <3> SUFFICES ASSUME NEW m \in 1 .. n
                 PROVE  src[p + m - 1] = b[m]
      OBVIOUS
    <3>1. p + m - 1 = l + m /\ l + m \in 1 .. Len(t[j])
      BY <2>3, <2>5, <2>6, <2>7
    <3>2. src[l + m] = t[j][l + m]
      BY <1>3, <2>1, <3>1
    <3> HIDE DEF src
    <3>. QED  BY <2>6, <3>1, <3>2
  <2> HIDE DEF src, at, V
  <2>9. Text!Length(src[p]) = n /\ Text!CharAt(src, p, n) = c
    <3>1. c \in Chars
      BY <1>1, <2>1
    <3>2. \A m \in 1 .. n : src[p + m - 1] = Text!TableBytes(c)[m]
      BY <2>8 DEF b
    <3> HIDE DEF c
    <3>3. n # 2 /\ p \in Nat
      BY <2>3, <2>7
    <3>. QED  BY <2>2, <3>1, <3>2, <3>3, OneChar
  <2>10. p \in 1 .. Len(src) + 4 /\ ~(p > Len(src)) /\ p + n \in 1 .. Len(src) + 4 /\ n # 0
    BY <1>4, <2>3, <2>5, <2>6, <2>7
  <2>11. d[p] = <<c>> \o d[p + n] /\ d[p + n] \in V
    <3> HIDE DEF c
    <3>. QED  BY <1>5, <2>9, <2>10
  <2>12. SubSeq(text, 1, k) \in V /\ <<c>> \in V
         /\ SubSeq(text, 1, j) = SubSeq(text, 1, k) \o <<c>>
    <3>1. text \in Seq(W) /\ 1 \in 1 .. Len(text) /\ j \in 1 .. Len(text)
      BY <1>7, <1>1, <2>1 DEF V, N
    <3>2. SubSeq(text, 1, j) = SubSeq(text, 1, j - 1) \o <<text[j]>>
      BY <3>1, SubSeqRecursiveSecond
    <3>3. <<c>> \in V
      BY <1>8, <2>1 DEF V
    <3>4. SubSeq(text, 1, k) \in Seq(W)
      <4>1. \A i \in 1 .. k : text[i] \in W
        BY <1>8, <2>1
      <4>. QED  BY <2>1, <4>1, SubSeqProperties
    <3>. QED  BY <2>1, <3>2, <3>3, <3>4 DEF V
  <2>13. SubSeq(text, 1, k) \o d[p] = d[1]
    BY <2>1 DEF p
  <2>14. SubSeq(text, 1, k) \o (<<c>> \o d[p + n]) = SubSeq(text, 1, j) \o d[p + n]
    <3> DEFINE x == SubSeq(text, 1, k)
               y == <<c>>
               z == d[p + n]
    <3>1. x \in Seq(W) /\ y \in Seq(W) /\ z \in Seq(W)
      BY <2>11, <2>12 DEF V
    <3>2. SubSeq(text, 1, j) = x \o y
      BY <2>12
    <3> HIDE DEF x, y, z
    <3>3. x \o (y \o z) = (x \o y) \o z
      BY <3>1, JoinedUp
    <3>. QED  BY <3>2, <3>3 DEF x, y, z
  <2>. QED  BY <2>7, <2>11, <2>13, <2>14
<1>13. Nat \subseteq S
  <2> HIDE DEF S
  <2>. QED  BY <1>11, <1>12, Induction
<1>14. Q(N)
  <2>1. N \in S
    <3> HIDE DEF S
    <3>. QED  BY <1>1, <1>13
  <2> HIDE DEF Q
  <2>. QED  BY <1>1, <2>1
<1>15. d[at(N)] = <<>>
  <2>1. at(N) \in 1 .. Len(src) + 4 /\ at(N) > Len(src)
    BY <1>4
  <2>. QED  BY <1>5, <2>1
<1>16. SubSeq(text, 1, N) = text /\ text \o <<>> = text
  BY SubSeqFull, ConcatEmptySeq DEF N
<1>. QED  BY <1>6, <1>14, <1>15, <1>16

\* The law of the encoding, for a text.
LEMMA AnyText ==
    ASSUME NEW text \in Seq(Int)
    PROVE  Text!Utf8Law(text)
<1>1. Len(Text!Encode(text)) <= 4 * Len(text)
  BY EncodedFits
<1>2. ASSUME \A i \in DOMAIN text : Text!InTable(text[i])
      PROVE  text \in Seq(Chars)
  <2>1. text \in [1 .. Len(text) -> Int] /\ DOMAIN text = 1 .. Len(text) /\ Len(text) \in Nat
    BY LenProperties
  <2>2. \A i \in 1 .. Len(text) : text[i] \in Chars
    BY <1>2, <2>1, Zenon DEF Chars
  <2>3. text \in [1 .. Len(text) -> Chars]
    BY <2>1, <2>2
  <2>. QED  BY <2>1, <2>3, SeqDef
<1>3. ASSUME \A i \in DOMAIN text : Text!InTable(text[i])
      PROVE  Text!Encode(text) = Text!TableBut(text, Text!Lost(text))
  BY <1>2, <1>3, EncodedAsTable, Zenon
<1>4. ASSUME \A i \in DOMAIN text : Text!InTable(text[i]),
             \A i \in DOMAIN text : Text!Class(text[i]) # 2
      PROVE  Text!Decode(Text!Table(text)) = text
  BY <1>2, <1>4, DecodedTable, Zenon
<1>. QED  BY <1>1, <1>3, <1>4, Zenon DEF Text!Utf8Law

\* ez_utf8_encode never writes behind the four bytes it has for each character,
\* whatever the characters are; of characters of the table it writes the bytes
\* of all but those behind an ASCII one; and ez_utf8_decode gives a text back,
\* unless there are characters of two bytes in it.
THEOREM EveryText ==
    letters \in Seq(Int) => Utf8Law
BY AnyText DEF Utf8Law

-----------------------------------------------------------------------------
(* The integers of a byte buffer.                                          *)

\* The functions in the definitions, with names.
IsShift(f, v, k, span) == f = [i \in 0 .. k |-> IF i = 0 THEN v ELSE f[i - 1] \div span]
Shift(v, k, span) == CHOOSE f : IsShift(f, v, k, span)
IsPower(f, n, span) == f = [i \in 0 .. n |-> IF i = 0 THEN 1 ELSE f[i - 1] * span]
Power(n, span) == CHOOSE f : IsPower(f, n, span)
IsJoin(f, bytes, span) ==
    f = [i \in 0 .. Len(bytes) |-> IF i = 0 THEN 0 ELSE f[i - 1] * span + bytes[i]]
Join(bytes, span) == CHOOSE f : IsJoin(f, bytes, span)

\* A shift is the last value of its function.
LEMMA ShiftedIs ==
    ASSUME NEW v, NEW k, NEW span
    PROVE  Buf!Shifted(v, k, span) = Shift(v, k, span)[k]
  BY Zenon DEF Buf!Shifted, Shift, IsShift

\* So is a power.
LEMMA ValuesIs ==
    ASSUME NEW n, NEW span
    PROVE  Buf!Values(n, span) = Power(n, span)[n]
  BY Zenon DEF Buf!Values, Power, IsPower

\* So is what is put together from bytes, before the sign.
LEMMA FromBigIs ==
    ASSUME NEW bytes, NEW span
    PROVE  Buf!FromBig(bytes, span) = Buf!Signed(Join(bytes, span)[Len(bytes)], Len(bytes), span)
  BY Zenon DEF Buf!FromBig, Join, IsJoin

\* What one division leaves.
LEMMA Division ==
    ASSUME NEW span \in Nat \ {0}, NEW v \in Int
    PROVE  /\ v \div span \in Int
           /\ v % span \in 0 .. span - 1
           /\ v = span * (v \div span) + (v % span)
  OBVIOUS

\* The steps of a shift, and of a power.
Shifting(span) == [i \in Nat |-> [v \in Int |-> v \div span]]
Raising(span) == [i \in Nat |-> [v \in Int |-> v * span]]

\* A shift runs through integers.
LEMMA ShiftRuns ==
    ASSUME NEW span \in Nat \ {0}, NEW v \in Int, NEW k \in Nat
    PROVE  Runs(Shift(v, k, span), v, Shifting(span), k, Int)
<1> DEFINE G == Shifting(span)
           f == Shift(v, k, span)
<1>1. G \in [Nat -> [Int -> Int]]
  BY Division DEF Shifting
<1>2. ASSUME NEW i \in 1 .. k, NEW x \in Int
      PROVE  G[i - 1][x] = x \div span
  BY DEF Shifting
<1> HIDE DEF G, f
<1>3. PICK g : Runs(g, v, G, k, Int)
  BY <1>1, Iterated
<1>4. IsShift(g, v, k, span)
  <2>1. g \in [0 .. k -> Int] /\ g[0] = v /\ \A i \in 1 .. k : g[i] = G[i - 1][g[i - 1]]
    BY <1>3 DEF Runs
  <2>2. ASSUME NEW i \in 0 .. k
        PROVE  g[i] = IF i = 0 THEN v ELSE g[i - 1] \div span
    <3>1. CASE i # 0
      <4>1. i \in 1 .. k /\ i - 1 \in 0 .. k
        BY <3>1
      <4>. QED  BY <1>2, <2>1, <3>1, <4>1
    <3>. QED  BY <2>1, <3>1
  <2>. QED  BY <2>1, <2>2 DEF IsShift
<1>5. IsShift(f, v, k, span)
  BY <1>4, Zenon DEF f, Shift
<1>6. /\ f = [i \in 0 .. k |-> f[i]] /\ f[0] = v
      /\ \A i \in 1 .. k : f[i] = f[i - 1] \div span
  BY <1>5 DEF IsShift
<1>7. ASSUME NEW i \in 1 .. k, f[i - 1] \in Int
      PROVE  f[i] = G[i - 1][f[i - 1]]
  BY <1>2, <1>6, <1>7
<1>8. Runs(f, v, G, k, Int)
  BY <1>1, <1>6, <1>7, Recursion
<1>. QED  BY <1>8 DEF f, G

\* So does a power.
LEMMA PowerRuns ==
    ASSUME NEW span \in Nat \ {0}, NEW n \in Nat
    PROVE  Runs(Power(n, span), 1, Raising(span), n, Int)
<1> DEFINE G == Raising(span)
           f == Power(n, span)
           c == 1
<1>1. G \in [Nat -> [Int -> Int]]
  BY DEF Raising
<1>2. ASSUME NEW i \in 1 .. n, NEW x \in Int
      PROVE  G[i - 1][x] = x * span
  BY DEF Raising
<1>0. c \in Int /\ c = 1
  OBVIOUS
<1> HIDE DEF c, G, f
<1>3. PICK g : Runs(g, c, G, n, Int)
  BY <1>1, <1>0, Iterated
<1>4. IsPower(g, n, span)
  <2>1. g \in [0 .. n -> Int] /\ g[0] = 1 /\ \A i \in 1 .. n : g[i] = G[i - 1][g[i - 1]]
    BY <1>3, <1>0 DEF Runs
  <2>2. ASSUME NEW i \in 0 .. n
        PROVE  g[i] = IF i = 0 THEN 1 ELSE g[i - 1] * span
    <3>1. CASE i # 0
      <4>1. i \in 1 .. n /\ i - 1 \in 0 .. n
        BY <3>1
      <4>. QED  BY <1>2, <2>1, <3>1, <4>1
    <3>. QED  BY <2>1, <3>1
  <2>. QED  BY <2>1, <2>2 DEF IsPower
<1>5. IsPower(f, n, span)
  BY <1>4, Zenon DEF f, Power
<1>6. /\ f = [i \in 0 .. n |-> f[i]] /\ f[0] = c
      /\ \A i \in 1 .. n : f[i] = f[i - 1] * span
  BY <1>5 DEF IsPower, c
<1>7. ASSUME NEW i \in 1 .. n, f[i - 1] \in Int
      PROVE  f[i] = G[i - 1][f[i - 1]]
  BY <1>2, <1>6, <1>7
<1>8. Runs(f, c, G, n, Int)
  BY <1>1, <1>6, <1>7, <1>0, Recursion
<1>. QED  BY <1>8 DEF f, G, c

\* One byte more to the right.
LEMMA ShiftedStep ==
    ASSUME NEW span \in Nat \ {0}, NEW v \in Int, NEW k \in Nat
    PROVE  /\ Buf!Shifted(v, 0, span) = v
           /\ Buf!Shifted(v, k, span) \in Int
           /\ Buf!Shifted(v, k + 1, span) = Buf!Shifted(v, k, span) \div span
<1> DEFINE f == Shift(v, k, span)
           g == Shift(v, k + 1, span)
           z == Shift(v, 0, span)
           G == Shifting(span)
<1>1. Runs(z, v, G, 0, Int) /\ Runs(f, v, G, k, Int) /\ Runs(g, v, G, k + 1, Int)
  <2>1. 0 \in Nat /\ k + 1 \in Nat
    OBVIOUS
  <2>. QED  BY <2>1, ShiftRuns, Zenon
<1>2. \A x \in Int : G[k][x] = x \div span
  BY DEF Shifting
<1>3. Buf!Shifted(v, 0, span) = z[0] /\ Buf!Shifted(v, k, span) = f[k]
      /\ Buf!Shifted(v, k + 1, span) = g[k + 1]
  BY ShiftedIs, Zenon
<1> HIDE DEF f, g, z, G
<1>4. f[k] = g[k]
  <2>1. k + 1 \in Nat /\ k <= k + 1 /\ k \in 0 .. k
    OBVIOUS
  <2>2. \A i \in 0 .. k : f[i] = g[i]
    BY <1>1, <2>1, SameRun
  <2>. QED  BY <2>1, <2>2
<1>5. f[k] \in Int /\ z[0] = v
  BY <1>1 DEF Runs
<1>6. g[k + 1] = G[k][g[k]]
  BY <1>1 DEF Runs
<1>. QED  BY <1>2, <1>3, <1>4, <1>5, <1>6

\* One byte more.
LEMMA ValuesStep ==
    ASSUME NEW span \in Nat \ {0}, NEW k \in Nat
    PROVE  /\ Buf!Values(0, span) = 1
           /\ Buf!Values(k, span) \in Int
           /\ Buf!Values(k + 1, span) = Buf!Values(k, span) * span
<1> DEFINE f == Power(k, span)
           g == Power(k + 1, span)
           z == Power(0, span)
           G == Raising(span)
<1>1. Runs(z, 1, G, 0, Int) /\ Runs(f, 1, G, k, Int) /\ Runs(g, 1, G, k + 1, Int)
  <2>1. 0 \in Nat /\ k + 1 \in Nat
    OBVIOUS
  <2>. QED  BY <2>1, PowerRuns, Zenon
<1>2. \A x \in Int : G[k][x] = x * span
  BY DEF Raising
<1>3. Buf!Values(0, span) = z[0] /\ Buf!Values(k, span) = f[k] /\ Buf!Values(k + 1, span) = g[k + 1]
  BY ValuesIs, Zenon
<1> HIDE DEF f, g, z, G
<1>4. f[k] = g[k]
  <2>1. k + 1 \in Nat /\ k <= k + 1 /\ k \in 0 .. k
    OBVIOUS
  <2>2. \A i \in 0 .. k : f[i] = g[i]
    BY <1>1, <2>1, SameRun
  <2>. QED  BY <2>1, <2>2
<1>5. f[k] \in Int /\ z[0] = 1
  BY <1>1 DEF Runs
<1>6. g[k + 1] = G[k][g[k]]
  BY <1>1 DEF Runs
<1>. QED  BY <1>2, <1>3, <1>4, <1>5, <1>6

\* The remainder grows by one byte.
LEMMA RestStep ==
    ASSUME NEW span \in Nat \ {0}, NEW v \in Int, NEW k \in Nat
    PROVE  /\ Buf!Shifted(v, k, span) \in Int
           /\ Buf!Values(k, span) \in Nat \ {0}
           /\ v - Buf!Values(k, span) * Buf!Shifted(v, k, span) \in 0 .. Buf!Values(k, span) - 1
<1> DEFINE Rest(i) == v - Buf!Values(i, span) * Buf!Shifted(v, i, span)
           S == {i \in Nat : /\ Buf!Values(i, span) \in Nat \ {0}
                             /\ Rest(i) \in 0 .. Buf!Values(i, span) - 1}
<1>1. 0 \in S
  <2>1. Buf!Values(0, span) = 1 /\ Buf!Shifted(v, 0, span) = v
    BY ValuesStep, ShiftedStep
  <2>. QED  BY <2>1
<1>2. ASSUME NEW i \in Nat, i \in S
      PROVE  i + 1 \in S
  <2> DEFINE p == Buf!Values(i, span)
             q == Buf!Shifted(v, i, span)
             d == q \div span
             m == q % span
  <2>1. Buf!Values(i + 1, span) = p * span /\ Buf!Shifted(v, i + 1, span) = d
    BY ValuesStep, ShiftedStep
  <2>2. p \in Nat \ {0} /\ q \in Int /\ v - p * q \in 0 .. p - 1
    BY <1>2, ShiftedStep
  <2>3. d \in Int /\ m \in 0 .. span - 1 /\ q = span * d + m
    BY <2>2, Division
  <2> HIDE DEF p, q, d, m
  <2>4. v - (p * span) * d = (v - p * q) + p * m
    BY <2>2, <2>3
  <2>5. p * m \in 0 .. p * (span - 1)
    BY <2>2, <2>3
  <2>6. p * span \in Nat \ {0} /\ p * (span - 1) = p * span - p
    BY <2>2
  <2>7. (v - p * q) + p * m \in 0 .. p * span - 1
    BY <2>2, <2>3, <2>5, <2>6
  <2>. QED  BY <2>1, <2>4, <2>6, <2>7 DEF p
<1>3. k \in S
  <2> HIDE DEF S
  <2>. QED  BY <1>1, <1>2, Induction
<1>. QED  BY <1>3, ShiftedStep

\* The bytes of an integer are bytes.
LEMMA BytesAre ==
    ASSUME NEW span \in Nat \ {0}, NEW v \in Int, NEW n \in Nat
    PROVE  /\ Buf!BigEndian(v, n, span) \in [1 .. n -> 0 .. span - 1]
           /\ Buf!BigEndian(v, n, span) \in Seq(Int)
           /\ Len(Buf!BigEndian(v, n, span)) = n
           /\ \A i \in 1 .. n : Buf!BigEndian(v, n, span)[i] = Buf!Shifted(v, n - i, span) % span
<1>1. ASSUME NEW i \in 1 .. n
      PROVE  Buf!Shifted(v, n - i, span) % span \in 0 .. span - 1
  <2>1. n - i \in Nat
    OBVIOUS
  <2>2. Buf!Shifted(v, n - i, span) \in Int
    BY <2>1, ShiftedStep
  <2>. QED  BY <2>2, Division
<1> DEFINE b == Buf!BigEndian(v, n, span)
<1>2. b \in [1 .. n -> 0 .. span - 1] /\ \A i \in 1 .. n : b[i] = Buf!Shifted(v, n - i, span) % span
  BY <1>1 DEF Buf!BigEndian
<1> HIDE DEF b
<1>3. b \in Seq(Int) /\ Len(b) = n
  BY <1>2
<1>. QED  BY <1>2, <1>3 DEF b

\* The steps of putting bytes together.
Joining(bytes, span) ==
    [i \in Nat |-> [u \in Int |-> IF i + 1 \in 1 .. Len(bytes) THEN u * span + bytes[i + 1] ELSE 0]]

\* Putting bytes together runs through integers.
LEMMA JoinRuns ==
    ASSUME NEW span \in Nat \ {0}, NEW bytes \in Seq(Int)
    PROVE  /\ Join(bytes, span)[0] = 0
           /\ \A i \in 0 .. Len(bytes) : Join(bytes, span)[i] \in Int
           /\ \A i \in 1 .. Len(bytes) :
                Join(bytes, span)[i] = Join(bytes, span)[i - 1] * span + bytes[i]
<1> DEFINE K == Len(bytes)
           G == Joining(bytes, span)
           f == Join(bytes, span)
           c == 0
<1>1. G \in [Nat -> [Int -> Int]]
  <2>1. ASSUME NEW i \in Nat, NEW u \in Int
        PROVE  (IF i + 1 \in 1 .. K THEN u * span + bytes[i + 1] ELSE 0) \in Int
    OBVIOUS
  <2>. QED  BY <2>1 DEF Joining
<1>2. ASSUME NEW i \in 1 .. K, NEW x \in Int
      PROVE  G[i - 1][x] = x * span + bytes[i]
  <2>1. i - 1 \in Nat /\ (i - 1) + 1 = i
    OBVIOUS
  <2>. QED  BY <2>1 DEF Joining
<1>0. K \in Nat /\ c \in Int /\ c = 0
  OBVIOUS
<1> HIDE DEF c, G, f, K
<1>3. PICK g : Runs(g, c, G, K, Int)
  BY <1>0, <1>1, Iterated
<1>4. IsJoin(g, bytes, span)
  <2>1. g \in [0 .. K -> Int] /\ g[0] = 0 /\ \A i \in 1 .. K : g[i] = G[i - 1][g[i - 1]]
    BY <1>0, <1>3 DEF Runs
  <2>2. ASSUME NEW i \in 0 .. K
        PROVE  g[i] = IF i = 0 THEN 0 ELSE g[i - 1] * span + bytes[i]
    <3>1. CASE i # 0
      <4>1. i \in 1 .. K /\ i - 1 \in 0 .. K
        BY <1>0, <3>1
      <4>. QED  BY <1>2, <2>1, <3>1, <4>1
    <3>. QED  BY <2>1, <3>1
  <2>. QED  BY <2>1, <2>2 DEF IsJoin, K
<1>5. IsJoin(f, bytes, span)
  BY <1>4, Zenon DEF f, Join
<1>6. /\ f = [i \in 0 .. K |-> f[i]] /\ f[0] = c
      /\ \A i \in 1 .. K : f[i] = f[i - 1] * span + bytes[i]
  <2>1. f = [i \in 0 .. K |-> IF i = 0 THEN c ELSE f[i - 1] * span + bytes[i]]
    BY <1>5 DEF IsJoin, K, c
  <2>2. f = [i \in 0 .. K |-> f[i]]
    BY <2>1, Zenon
  <2>3. ASSUME NEW i \in 0 .. K
        PROVE  f[i] = IF i = 0 THEN c ELSE f[i - 1] * span + bytes[i]
    BY <2>1, Zenon
  <2>4. 0 \in 0 .. K /\ \A i \in 1 .. K : i \in 0 .. K /\ i # 0
    BY <1>0
  <2>. QED  BY <2>2, <2>3, <2>4, Zenon
<1>7. ASSUME NEW i \in 1 .. K, f[i - 1] \in Int
      PROVE  f[i] = G[i - 1][f[i - 1]]
  BY <1>2, <1>6, <1>7
<1>8. Runs(f, c, G, K, Int)
  BY <1>0, <1>1, <1>6, <1>7, Recursion
<1>9. \A i \in 0 .. K : f[i] \in Int
  BY <1>8 DEF Runs
<1>. QED  BY <1>0, <1>6, <1>9 DEF f, K

\* What the values of n bytes are, with a sign.
FitsIn(v, n, span) == v \in -(Buf!Values(n, span) \div 2) .. Buf!Values(n, span) \div 2 - 1

\* An integer comes back from its bytes.
LEMMA RoundTrip ==
    ASSUME NEW span \in Nat \ {0}, NEW v \in Int, NEW n \in Nat, FitsIn(v, n, span)
    PROVE  Buf!FromBig(Buf!BigEndian(v, n, span), span) = v
<1> DEFINE b == Buf!BigEndian(v, n, span)
           u == Join(b, span)
           q(i) == Buf!Shifted(v, i, span)
           p(i) == Buf!Values(i, span)
           S == {i \in Nat : i <= n => u[i] = q(n - i) - p(i) * q(n)}
<1>1. b \in Seq(Int) /\ Len(b) = n /\ \A i \in 1 .. n : b[i] = q(n - i) % span
  BY BytesAre
<1> HIDE DEF b
<1>2. /\ u[0] = 0 /\ \A i \in 0 .. n : u[i] \in Int
      /\ \A i \in 1 .. n : u[i] = u[i - 1] * span + b[i]
  BY <1>1, JoinRuns
<1> HIDE DEF u
<1>3. \A i \in Nat : q(i) \in Int /\ q(i + 1) = q(i) \div span /\ q(0) = v
  BY ShiftedStep
<1>4. \A i \in Nat : p(i) \in Nat \ {0} /\ p(i + 1) = p(i) * span /\ p(0) = 1
  BY ValuesStep, RestStep
<1>5. v - p(n) * q(n) \in 0 .. p(n) - 1
  BY RestStep
<1>6. p(n) \in Nat \ {0} /\ v \in -(p(n) \div 2) .. p(n) \div 2 - 1
  BY <1>4 DEF FitsIn
<1> HIDE DEF q, p
<1>7. 0 \in S
  <2>1. n - 0 = n /\ p(0) = 1 /\ q(n) \in Int
    BY <1>3, <1>4
  <2>. QED  BY <1>2, <2>1
<1>8. ASSUME NEW i \in Nat, i \in S
      PROVE  i + 1 \in S
  <2> SUFFICES ASSUME i + 1 <= n
               PROVE  u[i + 1] = q(n - (i + 1)) - p(i + 1) * q(n)
    OBVIOUS
  <2> DEFINE k == n - (i + 1)
  <2>1. k \in Nat /\ k + 1 = n - i /\ i + 1 \in 1 .. n /\ (i + 1) - 1 = i
    OBVIOUS
  <2>2. u[i] = q(k + 1) - p(i) * q(n)
    BY <1>8, <2>1
  <2>3. u[i + 1] = u[i] * span + (q(k) % span)
    BY <1>1, <1>2, <2>1
  <2>4. q(k) \in Int /\ q(n) \in Int /\ p(i) \in Int /\ q(k + 1) \in Int
    BY <1>3, <1>4, <2>1
  <2>5. q(k) = span * q(k + 1) + (q(k) % span) /\ q(k) % span \in Int
    <3>1. q(k) \in Int /\ q(k + 1) = q(k) \div span
      BY <1>3, <2>1
    <3> DEFINE m == q(k)
    <3>2. m \in Int /\ q(k + 1) = m \div span
      BY <3>1
    <3> HIDE DEF m
    <3>3. m = span * (m \div span) + (m % span) /\ m % span \in Int
      BY <3>2, Division
    <3>. QED  BY <3>2, <3>3 DEF m
  <2>6. p(i + 1) = p(i) * span
    BY <1>4
  <2> HIDE DEF k
  <2>7. (q(k + 1) - p(i) * q(n)) * span + (q(k) % span) = q(k) - (p(i) * span) * q(n)
    <3> DEFINE m == q(k) % span
               a == q(k)
               c == q(k + 1)
               e == q(n)
               r == p(i)
    <3>1. a = span * c + m /\ m \in Int /\ a \in Int /\ c \in Int /\ e \in Int /\ r \in Int
      BY <2>4, <2>5
    <3> HIDE DEF m, a, c, e, r
    <3>2. (c - r * e) * span + m = a - (r * span) * e
      BY <3>1
    <3>. QED  BY <3>2 DEF m, a, c, e, r
  <2>. QED  BY <2>2, <2>3, <2>6, <2>7 DEF k
<1>9. n \in S
  <2> HIDE DEF S
  <2>. QED  BY <1>7, <1>8, Induction
<1>10. u[n] = v - p(n) * q(n)
  <2>1. n - n = 0
    OBVIOUS
  <2>. QED  BY <1>3, <1>9, <2>1
<1>11. IF 2 * u[n] >= p(n) THEN u[n] - p(n) = v ELSE u[n] = v
  <2> DEFINE P == p(n)
             Q == q(n)
             h == P \div 2
  <2>1. P \in Nat \ {0} /\ Q \in Int /\ v - P * Q \in 0 .. P - 1
    BY <1>3, <1>5, <1>6
  <2>2. h \in Int /\ 2 * h <= P /\ P <= 2 * h + 1 /\ v \in -h .. h - 1
    BY <1>6, <2>1
  <2> HIDE DEF P, Q, h
  <2>3. Q \in {-1, 0}
    <3>1. Q >= 1 => P * Q >= P
      BY <2>1
    <3>2. Q <= -2 => P * Q <= -(2 * P)
      BY <2>1
    <3>. QED  BY <2>1, <2>2, <3>1, <3>2
  <2>4. CASE Q = 0
    <3>1. P * Q = 0
      BY <2>1, <2>4
    <3>2. v \in 0 .. P - 1
      BY <2>1, <3>1
    <3>3. 2 * v < P
      BY <2>1, <2>2, <3>2
    <3>. QED  BY <1>10, <2>1, <3>1, <3>2, <3>3 DEF P, Q
  <2>5. CASE Q = -1
    <3>1. P * Q = -P
      BY <2>1, <2>5
    <3>2. v + P \in 0 .. P - 1
      BY <2>1, <3>1
    <3>3. 2 * (v + P) >= P
      BY <2>1, <2>2, <3>2
    <3>4. u[n] = v + P
      BY <1>10, <2>1, <3>1 DEF P, Q
    <3>. QED  BY <2>1, <3>3, <3>4 DEF P
  <2>. QED  BY <2>3, <2>4, <2>5
<1>12. Buf!FromBig(b, span) = Buf!Signed(u[n], n, span)
  BY <1>1, FromBigIs DEF u
<1>. QED  BY <1>11, <1>12 DEF Buf!Signed, b, p

\* Bytes turned around twice are as they were.
LEMMA TurnedTwice ==
    ASSUME NEW bytes \in Seq(Int)
    PROVE  Buf!Backwards(Buf!Backwards(bytes)) = bytes /\ Len(Buf!Backwards(bytes)) = Len(bytes)
           /\ Buf!Backwards(bytes) \in Seq(Int)
<1> DEFINE n == Len(bytes)
           c == Buf!Backwards(bytes)
<1>1. n \in Nat /\ bytes \in [1 .. n -> Int] /\ DOMAIN bytes = 1 .. n
  OBVIOUS
<1>2. c = [i \in 1 .. n |-> bytes[n + 1 - i]]
  BY <1>1 DEF Buf!Backwards
<1>3. ASSUME NEW i \in 1 .. n
      PROVE  n + 1 - i \in 1 .. n /\ n + 1 - (n + 1 - i) = i
  BY <1>1
<1> HIDE DEF n
<1>4. c \in [1 .. n -> Int] /\ \A i \in 1 .. n : c[i] = bytes[n + 1 - i]
  BY <1>1, <1>2, <1>3
<1> HIDE DEF c
<1>5. c \in Seq(Int) /\ Len(c) = n /\ DOMAIN c = 1 .. n
  BY <1>1, <1>4
<1>6. Buf!Backwards(c) = [i \in 1 .. n |-> c[n + 1 - i]]
  BY <1>5 DEF Buf!Backwards
<1>7. ASSUME NEW i \in 1 .. n
      PROVE  c[n + 1 - i] = bytes[i]
  BY <1>3, <1>4
<1>8. Buf!Backwards(c) = bytes
  BY <1>1, <1>6, <1>7
<1>. QED  BY <1>5, <1>8 DEF c, n

\* Integers of n bytes.
FittingIntegers(span) ==
    {x \in [val : Int, n : Nat, little : BOOLEAN] : FitsIn(x.val, x.n, span)}

\* The bytes in which x is stored.
BytesOf(x, span) == IF x.little THEN Buf!LittleEndian(x.val, x.n, span)
                    ELSE Buf!BigEndian(x.val, x.n, span)

\* What is put together from these bytes.
Assembled(bytes, x, span) ==
    IF x.little THEN Buf!FromLittle(bytes, span) ELSE Buf!FromBig(bytes, span)

\* An integer has as many bytes as its width and comes back from them.
LEMMA OneInteger ==
    ASSUME NEW span \in Nat \ {0}, NEW x \in FittingIntegers(span)
    PROVE  /\ BytesOf(x, span) \in Seq(Int)
           /\ Len(BytesOf(x, span)) = x.n
           /\ Assembled(BytesOf(x, span), x, span) = x.val
<1> DEFINE b == Buf!BigEndian(x.val, x.n, span)
<1>1. x.val \in Int /\ x.n \in Nat /\ FitsIn(x.val, x.n, span)
  BY DEF FittingIntegers
<1>2. b \in Seq(Int) /\ Len(b) = x.n
  BY <1>1, BytesAre
<1>3. Buf!FromBig(b, span) = x.val
  BY <1>1, RoundTrip
<1> HIDE DEF b
<1>4. Buf!Backwards(b) \in Seq(Int) /\ Len(Buf!Backwards(b)) = x.n /\ Buf!Backwards(Buf!Backwards(b)) = b
  BY <1>2, TurnedTwice
<1>. QED  BY <1>2, <1>3, <1>4 DEF BytesOf, Assembled, Buf!LittleEndian, Buf!FromLittle, b

\* A block of N bytes.
Box(N) == [data : [0 .. N - 1 -> Int], r : Nat, w : Nat, cap : Nat]

\* g is b with bytes behind w, and nothing else changed.
Stores(g, b, bytes, N) ==
    /\ g \in Box(N)
    /\ g.w = b.w + Len(bytes)
    /\ g.r = b.r
    /\ \A i \in 0 .. N - 1 :
         g.data[i] = IF i - b.w \in 0 .. Len(bytes) - 1
                     THEN bytes[i - b.w + 1] ELSE b.data[i]

\* Bytes that are stored do so.
LEMMA FilledIs ==
    ASSUME NEW N \in Nat, NEW b \in Box(N), NEW bytes \in Seq(Int)
    PROVE  Stores(Buf!Filled(b, bytes), b, bytes, N)
<1> DEFINE d == [i \in 0 .. N - 1 |-> IF i - b.w \in 0 .. Len(bytes) - 1
                                      THEN bytes[i - b.w + 1] ELSE b.data[i]]
           m == b.w + Len(bytes)
<1>1. /\ b = [data |-> b.data, r |-> b.r, w |-> b.w, cap |-> b.cap]
      /\ b.data \in [0 .. N - 1 -> Int] /\ b.r \in Nat /\ b.w \in Nat /\ b.cap \in Nat
      /\ DOMAIN b.data = 0 .. N - 1
  BY DEF Box
<1>2. Len(bytes) \in Nat /\ \A k \in 1 .. Len(bytes) : bytes[k] \in Int
  OBVIOUS
<1>3. ASSUME NEW i \in 0 .. N - 1
      PROVE  (IF i - b.w \in 0 .. Len(bytes) - 1 THEN bytes[i - b.w + 1] ELSE b.data[i]) \in Int
  <2>1. CASE i - b.w \in 0 .. Len(bytes) - 1
    <3>1. i - b.w + 1 \in 1 .. Len(bytes)
      BY <1>1, <1>2, <2>1
    <3>. QED  BY <1>2, <2>1, <3>1
  <2>2. CASE i - b.w \notin 0 .. Len(bytes) - 1
    BY <1>1, <2>2
  <2>. QED  BY <2>1, <2>2
<1>4. d \in [0 .. N - 1 -> Int] /\ m \in Nat
  BY <1>1, <1>2, <1>3
<1>5. Buf!Filled(b, bytes) = [b EXCEPT !.w = m, !.data = d]
  BY <1>1 DEF Buf!Filled
<1> HIDE DEF d, m
<1>6. Buf!Filled(b, bytes) = [data |-> d, r |-> b.r, w |-> m, cap |-> b.cap]
  BY <1>1, <1>5
<1>. QED  BY <1>1, <1>4, <1>6 DEF Stores, Box, d, m

\* A new block is one.
LEMMA NewBufIs ==
    ASSUME NEW N \in Nat
    PROVE  Buf!NewBuf(N) \in Box(N) /\ Buf!NewBuf(N).w = 0 /\ Buf!NewBuf(N).r = 0
  BY DEF Buf!NewBuf, Box, Buf!Junk

\* The functions of IntegersKept, with names.
IsEndsAt(f, xs) == f = [i \in 0 .. Len(xs) |-> IF i = 0 THEN 0 ELSE f[i - 1] + xs[i].n]
EndsAt(xs) == CHOOSE f : IsEndsAt(f, xs)
IsFillings(f, xs, span) ==
    f = [i \in 0 .. Len(xs) |-> IF i = 0 THEN Buf!NewBuf(EndsAt(xs)[Len(xs)])
                                ELSE Buf!Write(f[i - 1], xs[i], span)]
Fillings(xs, span) == CHOOSE f : IsFillings(f, xs, span)

\* IntegersKept speaks of these.
LEMMA KeptIs ==
    ASSUME NEW xs, NEW span
    PROVE  Buf!Kept(xs, span) <=>
             LET left(i) == Buf!Drained(Fillings(xs, span)[Len(xs)], EndsAt(xs)[i])
             IN  /\ \A i \in 1 .. Len(xs) : Buf!Read(left(i - 1), xs[i], span) = xs[i].val
                 /\ Buf!Contents(left(Len(xs))) = <<>>
  BY Zenon DEF Buf!Kept, Fillings, IsFillings, EndsAt, IsEndsAt

\* The steps of adding up the widths.
Adding(xs) ==
    [i \in Nat |-> [u \in Nat |-> IF i + 1 \in 1 .. Len(xs) THEN u + xs[i + 1].n ELSE 0]]

\* The widths add up to natural numbers.
LEMMA EndsRun ==
    ASSUME NEW span \in Nat \ {0}, NEW xs \in Seq(FittingIntegers(span))
    PROVE  /\ EndsAt(xs)[0] = 0
           /\ \A i \in 0 .. Len(xs) : EndsAt(xs)[i] \in Nat
           /\ \A i \in 1 .. Len(xs) : xs[i].n \in Nat /\ EndsAt(xs)[i] = EndsAt(xs)[i - 1] + xs[i].n
<1> DEFINE K == Len(xs)
           G == Adding(xs)
           f == EndsAt(xs)
           c == 0
<1>0. K \in Nat /\ c \in Nat /\ c = 0 /\ \A i \in 1 .. K : xs[i].n \in Nat
  BY DEF FittingIntegers
<1>1. G \in [Nat -> [Nat -> Nat]]
  <2>1. ASSUME NEW i \in Nat, NEW u \in Nat
        PROVE  (IF i + 1 \in 1 .. K THEN u + xs[i + 1].n ELSE 0) \in Nat
    BY <1>0
  <2>. QED  BY <2>1 DEF Adding
<1>2. ASSUME NEW i \in 1 .. K, NEW x \in Nat
      PROVE  G[i - 1][x] = x + xs[i].n
  <2>1. i - 1 \in Nat /\ (i - 1) + 1 = i
    OBVIOUS
  <2>. QED  BY <2>1 DEF Adding
<1> HIDE DEF c, G, f, K
<1>3. PICK g : Runs(g, c, G, K, Nat)
  BY <1>0, <1>1, Iterated
<1>4. IsEndsAt(g, xs)
  <2>1. g \in [0 .. K -> Nat] /\ g[0] = 0 /\ \A i \in 1 .. K : g[i] = G[i - 1][g[i - 1]]
    BY <1>0, <1>3 DEF Runs
  <2>2. ASSUME NEW i \in 0 .. K
        PROVE  g[i] = IF i = 0 THEN 0 ELSE g[i - 1] + xs[i].n
    <3>1. CASE i # 0
      <4>1. i \in 1 .. K /\ i - 1 \in 0 .. K
        BY <1>0, <3>1
      <4>. QED  BY <1>2, <2>1, <3>1, <4>1
    <3>. QED  BY <2>1, <3>1
  <2>. QED  BY <2>1, <2>2 DEF IsEndsAt, K
<1>5. IsEndsAt(f, xs)
  BY <1>4, Zenon DEF f, EndsAt
<1>6. /\ f = [i \in 0 .. K |-> f[i]] /\ f[0] = c
      /\ \A i \in 1 .. K : f[i] = f[i - 1] + xs[i].n
  <2>1. f = [i \in 0 .. K |-> IF i = 0 THEN c ELSE f[i - 1] + xs[i].n]
    BY <1>5 DEF IsEndsAt, K, c
  <2>2. f = [i \in 0 .. K |-> f[i]]
    BY <2>1, Zenon
  <2>3. ASSUME NEW i \in 0 .. K
        PROVE  f[i] = IF i = 0 THEN c ELSE f[i - 1] + xs[i].n
    BY <2>1, Zenon
  <2>4. 0 \in 0 .. K /\ \A i \in 1 .. K : i \in 0 .. K /\ i # 0
    BY <1>0
  <2>. QED  BY <2>2, <2>3, <2>4, Zenon
<1>7. ASSUME NEW i \in 1 .. K, f[i - 1] \in Nat
      PROVE  f[i] = G[i - 1][f[i - 1]]
  BY <1>2, <1>6, <1>7
<1>8. Runs(f, c, G, K, Nat)
  BY <1>0, <1>1, <1>6, <1>7, Recursion
<1>9. \A i \in 0 .. K : f[i] \in Nat
  BY <1>8 DEF Runs
<1>. QED  BY <1>0, <1>6, <1>9 DEF f, K

\* The steps of writing.
Storing(xs, span, N) ==
    [i \in Nat |-> [b \in Box(N) |->
       IF i + 1 \in 1 .. Len(xs) THEN Buf!Filled(b, BytesOf(xs[i + 1], span)) ELSE b]]

\* Writing runs through blocks of the same size.
LEMMA FillingsRun ==
    ASSUME NEW span \in Nat \ {0}, NEW xs \in Seq(FittingIntegers(span)),
           NEW N, N = EndsAt(xs)[Len(xs)]
    PROVE  /\ Fillings(xs, span)[0] = Buf!NewBuf(N)
           /\ \A i \in 0 .. Len(xs) : Fillings(xs, span)[i] \in Box(N)
           /\ \A i \in 1 .. Len(xs) :
                Fillings(xs, span)[i] = Buf!Filled(Fillings(xs, span)[i - 1], BytesOf(xs[i], span))
<1> DEFINE K == Len(xs)
           G == Storing(xs, span, N)
           f == Fillings(xs, span)
           c == Buf!NewBuf(N)
           V == Box(N)
           bytes(i) == BytesOf(xs[i], span)
<1>0. K \in Nat /\ N \in Nat /\ \A i \in 1 .. K : xs[i] \in FittingIntegers(span)
  <2>1. K \in 0 .. K /\ K \in Nat
    OBVIOUS
  <2>. QED  BY <2>1, EndsRun
<1>10. c \in V
  BY <1>0, NewBufIs
<1>11. \A i \in 1 .. K : bytes(i) \in Seq(Int)
  BY <1>0, OneInteger
<1>12. ASSUME NEW i \in 1 .. K, NEW b \in V
       PROVE  Buf!Filled(b, bytes(i)) \in V
  <2> HIDE DEF bytes
  <2>. QED  BY <1>0, <1>11, FilledIs DEF Stores
<1> HIDE DEF K, V, bytes
<1>1. G \in [Nat -> [V -> V]]
  <2>1. ASSUME NEW i \in Nat, NEW b \in V
        PROVE  (IF i + 1 \in 1 .. K THEN Buf!Filled(b, bytes(i + 1)) ELSE b) \in V
    BY <1>12
  <2>2. G = [i \in Nat |-> [b \in V |-> IF i + 1 \in 1 .. K THEN Buf!Filled(b, bytes(i + 1)) ELSE b]]
    BY DEF Storing, V, K, bytes
  <2> HIDE DEF G
  <2>. QED  BY <2>1, <2>2
<1>2. ASSUME NEW i \in 1 .. K, NEW x \in V
      PROVE  G[i - 1][x] = Buf!Filled(x, bytes(i))
  <2>1. i - 1 \in Nat /\ (i - 1) + 1 = i
    BY <1>0
  <2>. QED  BY <2>1 DEF Storing, V, K, bytes
<1>13. \A i : \A b : Buf!Write(b, xs[i], span) = Buf!Filled(b, bytes(i))
  BY DEF Buf!Write, bytes, BytesOf
<1> HIDE DEF c, G, f
<1>3. PICK g : Runs(g, c, G, K, V)
  BY <1>0, <1>1, <1>10, Iterated
<1>4. IsFillings(g, xs, span)
  <2>1. g \in [0 .. K -> V] /\ g[0] = c /\ \A i \in 1 .. K : g[i] = G[i - 1][g[i - 1]]
    BY <1>3 DEF Runs
  <2>2. ASSUME NEW i \in 0 .. K
        PROVE  g[i] = IF i = 0 THEN c ELSE Buf!Write(g[i - 1], xs[i], span)
    <3>1. CASE i # 0
      <4>1. i \in 1 .. K /\ i - 1 \in 0 .. K
        BY <1>0, <3>1
      <4>. QED  BY <1>2, <1>13, <2>1, <3>1, <4>1
    <3>. QED  BY <2>1, <3>1
  <2>3. g = [i \in 0 .. K |-> g[i]]
    BY <2>1
  <2>4. g = [i \in 0 .. K |-> IF i = 0 THEN c ELSE Buf!Write(g[i - 1], xs[i], span)]
    BY <2>2, <2>3, Zenon
  <2>. QED  BY <2>4 DEF IsFillings, K, c
<1>5. IsFillings(f, xs, span)
  BY <1>4, Zenon DEF f, Fillings
<1>6. /\ f = [i \in 0 .. K |-> f[i]] /\ f[0] = c
      /\ \A i \in 1 .. K : f[i] = Buf!Filled(f[i - 1], bytes(i))
  <2>1. f = [i \in 0 .. K |-> IF i = 0 THEN c ELSE Buf!Write(f[i - 1], xs[i], span)]
    BY <1>5 DEF IsFillings, K, c
  <2>2. f = [i \in 0 .. K |-> f[i]]
    BY <2>1, Zenon
  <2>3. ASSUME NEW i \in 0 .. K
        PROVE  f[i] = IF i = 0 THEN c ELSE Buf!Write(f[i - 1], xs[i], span)
    BY <2>1, Zenon
  <2>4. 0 \in 0 .. K /\ \A i \in 1 .. K : i \in 0 .. K /\ i # 0
    BY <1>0
  <2>. QED  BY <1>13, <2>2, <2>3, <2>4, Zenon
<1>7. ASSUME NEW i \in 1 .. K, f[i - 1] \in V
      PROVE  f[i] = G[i - 1][f[i - 1]]
  BY <1>2, <1>6, <1>7
<1>8. Runs(f, c, G, K, V)
  BY <1>0, <1>1, <1>6, <1>7, <1>10, Recursion
<1>9. \A i \in 0 .. K : f[i] \in V
  BY <1>8 DEF Runs
<1>. QED  BY <1>6, <1>9 DEF f, K, c, V, bytes

\* After k of them the bytes of each of those stand behind one another.
LEMMA Stored ==
    ASSUME NEW span \in Nat \ {0}, NEW xs \in Seq(FittingIntegers(span)),
           NEW N, N = EndsAt(xs)[Len(xs)]
    PROVE  \A k \in 0 .. Len(xs) :
             LET b == Fillings(xs, span)[k]
             IN  /\ b.w = EndsAt(xs)[k] /\ b.r = 0
                 /\ \A j \in 1 .. k : \A m \in 1 .. xs[j].n :
                      b.data[EndsAt(xs)[j - 1] + m - 1] = BytesOf(xs[j], span)[m]
<1> DEFINE K == Len(xs)
           f == Fillings(xs, span)
           e == EndsAt(xs)
           n(j) == xs[j].n
           bytes(j) == BytesOf(xs[j], span)
           Done(k) == /\ f[k].w = e[k] /\ f[k].r = 0
                      /\ \A j \in 1 .. k : \A m \in 1 .. n(j) :
                           f[k].data[e[j - 1] + m - 1] = bytes(j)[m]
           S == {k \in Nat : k <= K => Done(k)}
<1>1. K \in Nat
  OBVIOUS
<1>2. /\ e[0] = 0 /\ \A i \in 0 .. K : e[i] \in Nat
      /\ \A i \in 1 .. K : n(i) \in Nat /\ e[i] = e[i - 1] + n(i)
  BY EndsRun
<1>3. /\ f[0] = Buf!NewBuf(N) /\ \A i \in 0 .. K : f[i] \in Box(N)
      /\ \A i \in 1 .. K : f[i] = Buf!Filled(f[i - 1], bytes(i))
  BY FillingsRun
<1>4. \A j \in 1 .. K : bytes(j) \in Seq(Int) /\ Len(bytes(j)) = n(j)
  BY OneInteger
<1>5. N = e[K]
  OBVIOUS
<1> HIDE DEF K, f, e, n, bytes
<1>6. N \in Nat
  BY <1>1, <1>2, <1>5
\* what is added up does not decrease
<1>7. \A i \in 0 .. K : \A k \in 0 .. K : i <= k => e[i] <= e[k]
  <2> DEFINE T == {k \in Nat : k <= K => \A i \in 0 .. K : i <= k => e[i] <= e[k]}
  <2>1. 0 \in T
    BY <1>2
  <2>2. ASSUME NEW k \in Nat, k \in T
        PROVE  k + 1 \in T
    <3> SUFFICES ASSUME k + 1 <= K, NEW i \in 0 .. K, i <= k + 1
                 PROVE  e[i] <= e[k + 1]
      OBVIOUS
    <3>1. k + 1 \in 1 .. K /\ (k + 1) - 1 = k /\ k \in 0 .. K /\ k + 1 \in 0 .. K
      BY <1>1
    <3>2. e[k] \in Nat /\ n(k + 1) \in Nat /\ e[k + 1] = e[k] + n(k + 1) /\ e[i] \in Nat
      BY <1>2, <3>1
    <3>3. i <= k => e[i] <= e[k]
      BY <2>2, <3>1
    <3>4. i <= k \/ i = k + 1
      OBVIOUS
    <3>. QED  BY <3>2, <3>3, <3>4
  <2>3. Nat \subseteq T
    <3> HIDE DEF T
    <3>. QED  BY <2>1, <2>2, Induction
  <2>. QED  BY <2>3
<1>8. 0 \in S
  <2>1. f[0].w = 0 /\ f[0].r = 0
    BY <1>3, <1>6, NewBufIs
  <2>. QED  BY <1>2, <2>1
<1>9. ASSUME NEW k \in Nat, k \in S
      PROVE  k + 1 \in S
  <2> SUFFICES ASSUME k + 1 <= K
               PROVE  Done(k + 1)
    OBVIOUS
  <2>1. k + 1 \in 1 .. K /\ (k + 1) - 1 = k /\ k \in 0 .. K /\ k + 1 \in 0 .. K /\ K \in 0 .. K
    BY <1>1
  <2>2. f[k].w = e[k] /\ f[k].r = 0 /\ \A j \in 1 .. k : \A m \in 1 .. n(j) :
                           f[k].data[e[j - 1] + m - 1] = bytes(j)[m]
    BY <1>9, <2>1
  <2> DEFINE b == f[k]
             y == bytes(k + 1)
             g == f[k + 1]
  <2>3. b \in Box(N) /\ y \in Seq(Int) /\ Len(y) = n(k + 1) /\ g = Buf!Filled(b, y)
    BY <1>3, <1>4, <2>1
  <2>4. b.w = e[k] /\ b.r = 0
    BY <2>2
  <2> HIDE DEF b, y, g
  <2>5. /\ g.w = b.w + Len(y) /\ g.r = b.r
        /\ \A i \in 0 .. N - 1 : g.data[i] = IF i - b.w \in 0 .. Len(y) - 1
                                             THEN y[i - b.w + 1] ELSE b.data[i]
    <3>1. Stores(g, b, y, N)
      BY <1>6, <2>3, FilledIs
    <3>. QED  BY <3>1 DEF Stores
  <2>6. e[k] \in Nat /\ n(k + 1) \in Nat /\ e[k + 1] = e[k] + n(k + 1) /\ e[k + 1] <= N
    BY <1>2, <1>5, <1>7, <2>1
  <2>7. g.w = e[k + 1] /\ g.r = 0
    BY <2>3, <2>4, <2>5, <2>6
  <2>8. ASSUME NEW j \in 1 .. k + 1, NEW m \in 1 .. n(j)
        PROVE  g.data[e[j - 1] + m - 1] = bytes(j)[m]
    <3> DEFINE i == e[j - 1] + m - 1
    <3>1. j \in 1 .. K /\ j - 1 \in 0 .. K /\ j \in 0 .. K
      BY <2>1
    <3>2. e[j - 1] \in Nat /\ n(j) \in Nat /\ e[j] = e[j - 1] + n(j) /\ e[j] <= N
      BY <1>2, <1>5, <1>7, <2>1, <3>1
    <3>3. i \in 0 .. N - 1
      BY <1>6, <3>2
    <3>4. CASE j = k + 1
      <4>1. i - b.w = m - 1 /\ i - b.w + 1 = m
        BY <2>1, <2>4, <2>6, <3>2, <3>4
      <4>2. i - b.w \in 0 .. Len(y) - 1
        BY <2>3, <2>6, <3>4, <4>1
      <4> HIDE DEF i
      <4>3. g.data[i] = y[m]
        BY <2>5, <3>3, <4>1, <4>2
      <4>. QED  BY <3>4, <4>3 DEF i, y
    <3>5. CASE j # k + 1
      <4>1. j \in 1 .. k /\ j <= k
        BY <3>5
      <4>2. e[j] <= e[k]
        BY <1>7, <2>1, <3>1, <4>1
      <4>3. i - b.w < 0
        BY <2>4, <2>6, <3>2, <4>2
      <4>4. i - b.w \notin 0 .. Len(y) - 1
        BY <4>3
      <4>5. b.data[i] = bytes(j)[m]
        BY <2>2, <4>1 DEF b
      <4> HIDE DEF i
      <4>6. g.data[i] = b.data[i]
        BY <2>5, <3>3, <4>4
      <4>. QED  BY <4>5, <4>6 DEF i
    <3>. QED  BY <3>4, <3>5
  <2>. QED  BY <2>7, <2>8 DEF g
<1>10. Nat \subseteq S
  <2> HIDE DEF S
  <2>. QED  BY <1>8, <1>9, Induction
<1>11. ASSUME NEW k \in 0 .. K
       PROVE  Done(k)
  BY <1>1, <1>10
<1>. QED  BY <1>11 DEF K, f, e, n, bytes

\* Reading back a list of integers.
LEMMA ReadBack ==
    ASSUME NEW span \in Nat \ {0}, NEW xs \in Seq(FittingIntegers(span))
    PROVE  Buf!Kept(xs, span)
<1> DEFINE K == Len(xs)
           e == EndsAt(xs)
           f == Fillings(xs, span)
           N == e[K]
           b == f[K]
<1>1. K \in Nat /\ K \in 0 .. K
  OBVIOUS
<1>2. /\ \A i \in 0 .. K : e[i] \in Nat
      /\ \A i \in 1 .. K : xs[i].n \in Nat
  BY EndsRun
<1>3. b \in Box(N)
  BY <1>1, FillingsRun
<1>4. b.w = e[K] /\ \A j \in 1 .. K : \A m \in 1 .. xs[j].n :
                      b.data[e[j - 1] + m - 1] = BytesOf(xs[j], span)[m]
  BY <1>1, Stored
<1>5. Buf!Kept(xs, span) <=>
        /\ \A i \in 1 .. K : Buf!Read(Buf!Drained(b, e[i - 1]), xs[i], span) = xs[i].val
        /\ Buf!Contents(Buf!Drained(b, e[K])) = <<>>
  BY KeptIs, Zenon
<1>6. b.r = 0
  BY <1>1, Stored
<1> HIDE DEF K, e, f, N, b
<1>7. ASSUME NEW i \in 0 .. K
      PROVE  /\ Buf!Drained(b, e[i]).r = e[i]
             /\ Buf!Drained(b, e[i]).w = b.w
             /\ Buf!Drained(b, e[i]).data = b.data
  <2>1. e[i] \in Nat
    BY <1>2
  <2>. QED  BY <1>3, <1>6, <2>1 DEF Buf!Drained, Box
<1>8. ASSUME NEW i \in 1 .. K
      PROVE  Buf!Read(Buf!Drained(b, e[i - 1]), xs[i], span) = xs[i].val
  <2> DEFINE d == Buf!Drained(b, e[i - 1])
             x == xs[i]
             y == BytesOf(x, span)
  <2>1. i - 1 \in 0 .. K
    BY <1>1
  <2>2. d.r = e[i - 1] /\ d.data = b.data
    BY <1>7, <2>1
  <2>3. x \in FittingIntegers(span)
    BY DEF K
  <2>4. y \in Seq(Int) /\ Len(y) = x.n /\ Assembled(y, x, span) = x.val
    BY <2>3, OneInteger
  <2>5. \A m \in 1 .. x.n : b.data[e[i - 1] + m - 1] = y[m]
    BY <1>4
  <2> HIDE DEF d, x, y
  <2>6. y = [m \in 1 .. x.n |-> y[m]]
    BY <2>4
  <2>7. Buf!Upcoming(d, x.n) = [m \in 1 .. x.n |-> b.data[e[i - 1] + m - 1]]
    BY <2>2 DEF Buf!Upcoming
  <2>8. Buf!Upcoming(d, x.n) = y
    BY <2>5, <2>6, <2>7
  <2>. QED  BY <2>4, <2>8 DEF Buf!Read, Assembled, d, x
<1>9. Buf!Contents(Buf!Drained(b, e[K])) = <<>>
  <2> DEFINE d == Buf!Drained(b, e[K])
  <2>1. d.r = e[K] /\ d.w = e[K] /\ e[K] \in Nat
    BY <1>1, <1>2, <1>4, <1>7
  <2> HIDE DEF d
  <2>2. Buf!Readable(d) = 0
    BY <2>1 DEF Buf!Readable
  <2>. QED  BY <2>2 DEF Buf!Contents, d
<1>. QED  BY <1>5, <1>8, <1>9

\* Integers of any widths and orders, written one behind the other, come back
\* when read with the same widths and orders, the sign included, for any number
\* of them, any width, and bytes of any number of values.
THEOREM IntegersComeBack ==
    ByteSpan \in Nat \ {0} /\ integers \in Seq(FittingIntegers(ByteSpan)) => IntegersKept
BY ReadBack DEF IntegersKept

-----------------------------------------------------------------------------
(* The number parsers.                                                     *)

\* What a run of characters of S at place i is.
RunsTo(t, i, S, r) ==
    /\ r \in Nat /\ i + r <= Len(t) + 1
    /\ \A j \in i .. i + r - 1 : t[j] \in S
    /\ i + r <= Len(t) => t[i + r] \notin S

\* Run finds it.
LEMMA RunIs ==
    ASSUME NEW t \in Seq(Int), NEW i \in 1 .. Len(t) + 1, NEW S
    PROVE  RunsTo(t, i, S, Num!Run(t, i, S))
<1> DEFINE N == Len(t)
           stop == {j \in i .. N : t[j] \notin S}
           r == Num!Run(t, i, S)
<1>0. N \in Nat /\ i \in 1 .. N + 1
  OBVIOUS
<1>1. r = (IF stop = {} THEN N + 1 ELSE Num!Least(stop)) - i
  BY DEF Num!Run
<1>2. CASE stop = {}
  <2>1. r = N + 1 - i /\ \A j \in i .. N : t[j] \in S
    BY <1>1, <1>2
  <2> HIDE DEF r, N, stop
  <2>2. r \in Nat /\ i + r = N + 1 /\ i + r - 1 = N
    BY <1>0, <2>1
  <2>. QED  BY <1>0, <2>1, <2>2 DEF RunsTo, N, r
<1>3. CASE stop # {}
  <2>1. \E m \in stop : \A k \in stop : m <= k
    <3>1. stop \subseteq Nat
      BY <1>0
    <3>. QED  BY <1>3, <3>1, LeastNumber
  <2> DEFINE m == Num!Least(stop)
  <2>2. m \in stop /\ \A k \in stop : m <= k
    BY <2>1 DEF Num!Least
  <2>3. r = m - i
    BY <1>1, <1>3
  <2> HIDE DEF m, r
  <2>4. m \in i .. N /\ t[m] \notin S
    BY <2>2
  <2>5. \A j \in i .. m - 1 : t[j] \in S
    <3> SUFFICES ASSUME NEW j \in i .. m - 1, t[j] \notin S  PROVE FALSE
      OBVIOUS
    <3>1. j \in stop
      BY <1>0, <2>4
    <3>. QED  BY <1>0, <2>2, <2>4, <3>1
  <2> HIDE DEF stop, N
  <2>6. r \in Nat /\ i + r = m /\ i + r - 1 = m - 1 /\ m <= N
    BY <1>0, <2>3, <2>4
  <2>. QED  BY <1>0, <2>4, <2>5, <2>6 DEF RunsTo, N, r
<1>. QED  BY <1>2, <1>3

\* It is the only one.
LEMMA OneRun ==
    ASSUME NEW t \in Seq(Int), NEW i \in 1 .. Len(t) + 1, NEW S,
           NEW r, RunsTo(t, i, S, r), NEW q, RunsTo(t, i, S, q)
    PROVE  q = r
<1>0. q \in Nat /\ r \in Nat /\ Len(t) \in Nat
  BY DEF RunsTo
<1>1. ASSUME q < r  PROVE FALSE
  <2>1. i + q \in i .. i + r - 1 /\ i + q <= Len(t)
    BY <1>0, <1>1 DEF RunsTo
  <2>. QED  BY <2>1 DEF RunsTo
<1>2. ASSUME r < q  PROVE FALSE
  <2>1. i + r \in i .. i + q - 1 /\ i + r <= Len(t)
    BY <1>0, <1>2 DEF RunsTo
  <2>. QED  BY <2>1 DEF RunsTo
<1>. QED  BY <1>0, <1>1, <1>2

\* The function of ValueAt, with a name.
IsValues(f, t, i, n, base) ==
    f = [k \in 0 .. n |-> IF k = 0 THEN 0 ELSE (f[k - 1] * base) + t[i + k - 1]]
ValuesOf(t, i, n, base) == CHOOSE f : IsValues(f, t, i, n, base)

LEMMA ValueIs ==
    ASSUME NEW t, NEW i, NEW n, NEW base
    PROVE  Num!ValueAt(t, i, n, base) = ValuesOf(t, i, n, base)[n]
  BY Zenon DEF Num!ValueAt, ValuesOf, IsValues

\* The steps of adding digits.
AddingDigits(t, i, base) ==
    [k \in Nat |-> [v \in Int |-> IF i + k \in 1 .. Len(t) THEN (v * base) + t[i + k] ELSE 0]]

\* Values of places within the text run through integers.
LEMMA ValuesRun ==
    ASSUME NEW t \in Seq(Int), NEW i \in Nat \ {0}, NEW n \in Nat, i + n <= Len(t) + 1,
           NEW base \in Nat
    PROVE  /\ Runs(ValuesOf(t, i, n, base), 0, AddingDigits(t, i, base), n, Int)
           /\ \A k \in 1 .. n : \A v \in Int :
                AddingDigits(t, i, base)[k - 1][v] = (v * base) + t[i + k - 1]
<1> DEFINE G == AddingDigits(t, i, base)
           f == ValuesOf(t, i, n, base)
           c == 0
<1>0. c \in Int /\ c = 0 /\ Len(t) \in Nat
  OBVIOUS
<1>10. ASSUME NEW k \in 1 .. n
       PROVE  /\ i + k - 1 \in 1 .. Len(t) /\ i + (k - 1) = i + k - 1
              /\ t[i + k - 1] \in Int /\ k - 1 \in Nat /\ k - 1 \in 0 .. n
  OBVIOUS
<1>1. G \in [Nat -> [Int -> Int]]
  <2>1. ASSUME NEW k \in Nat, NEW v \in Int
        PROVE  (IF i + k \in 1 .. Len(t) THEN (v * base) + t[i + k] ELSE 0) \in Int
    <3>1. v * base \in Int
      OBVIOUS
    <3>. QED  BY <3>1
  <2>. QED  BY <2>1 DEF AddingDigits
<1>2. ASSUME NEW k \in 1 .. n, NEW v \in Int
      PROVE  G[k - 1][v] = (v * base) + t[i + k - 1]
  BY <1>10 DEF AddingDigits
<1> HIDE DEF c, G, f
<1>3. PICK g : Runs(g, c, G, n, Int)
  BY <1>0, <1>1, Iterated
<1>4. IsValues(g, t, i, n, base)
  <2>1. g \in [0 .. n -> Int] /\ g[0] = 0 /\ \A k \in 1 .. n : g[k] = G[k - 1][g[k - 1]]
    BY <1>0, <1>3 DEF Runs
  <2>2. ASSUME NEW k \in 0 .. n
        PROVE  g[k] = IF k = 0 THEN 0 ELSE (g[k - 1] * base) + t[i + k - 1]
    <3>1. CASE k # 0
      <4>1. k \in 1 .. n /\ k - 1 \in 0 .. n
        BY <3>1
      <4>2. g[k - 1] \in Int
        BY <2>1, <4>1
      <4>. QED  BY <1>2, <2>1, <3>1, <4>1, <4>2
    <3>. QED  BY <2>1, <3>1
  <2>. QED  BY <2>1, <2>2 DEF IsValues
<1>5. IsValues(f, t, i, n, base)
  BY <1>4, Zenon DEF f, ValuesOf
<1>6. /\ f = [k \in 0 .. n |-> f[k]] /\ f[0] = c
      /\ \A k \in 1 .. n : f[k] = (f[k - 1] * base) + t[i + k - 1]
  <2>1. f = [k \in 0 .. n |-> IF k = 0 THEN c ELSE (f[k - 1] * base) + t[i + k - 1]]
    BY <1>5 DEF IsValues, c
  <2>2. f = [k \in 0 .. n |-> f[k]]
    BY <2>1, Zenon
  <2>3. ASSUME NEW k \in 0 .. n
        PROVE  f[k] = IF k = 0 THEN c ELSE (f[k - 1] * base) + t[i + k - 1]
    BY <2>1, Zenon
  <2>4. 0 \in 0 .. n /\ \A k \in 1 .. n : k \in 0 .. n /\ k # 0
    OBVIOUS
  <2>. QED  BY <2>2, <2>3, <2>4, Zenon
<1>7. ASSUME NEW k \in 1 .. n, f[k - 1] \in Int
      PROVE  f[k] = G[k - 1][f[k - 1]]
  BY <1>2, <1>6, <1>7
<1>8. Runs(f, c, G, n, Int)
  BY <1>0, <1>1, <1>6, <1>7, Recursion
<1>. QED  BY <1>2, <1>8 DEF f, G, c

\* A digit more.
LEMMA NextDigit ==
    ASSUME NEW t \in Seq(Int), NEW i \in Nat \ {0}, NEW n \in Nat, i + n <= Len(t) + 1,
           NEW base \in Nat
    PROVE  /\ Num!ValueAt(t, i, 0, base) = 0
           /\ \A k \in 0 .. n : Num!ValueAt(t, i, k, base) \in Int
           /\ \A k \in 1 .. n : Num!ValueAt(t, i, k, base) =
                                  (Num!ValueAt(t, i, k - 1, base) * base) + t[i + k - 1]
<1> DEFINE G == AddingDigits(t, i, base)
           F(k) == ValuesOf(t, i, k, base)
           c == 0
<1>0. Len(t) \in Nat /\ \A k \in 0 .. n : k \in Nat /\ i + k <= Len(t) + 1
  OBVIOUS
<1>1. ASSUME NEW k \in 0 .. n
      PROVE  /\ Runs(F(k), c, G, k, Int)
             /\ \A j \in 1 .. k : \A v \in Int : G[j - 1][v] = (v * base) + t[i + j - 1]
  BY <1>0, ValuesRun
<1>2. \A k : Num!ValueAt(t, i, k, base) = F(k)[k]
  BY ValueIs, Zenon
<1> HIDE DEF F, G, c
<1>3. F(c)[c] = c
  <2>1. c \in 0 .. n /\ c = 0
    BY DEF c
  <2>. QED  BY <1>1, <2>1 DEF Runs
<1>4. ASSUME NEW k \in 0 .. n
      PROVE  F(k)[k] \in Int
  BY <1>1 DEF Runs
<1>5. ASSUME NEW k \in 1 .. n
      PROVE  F(k)[k] = (F(k - 1)[k - 1] * base) + t[i + k - 1]
  <2> DEFINE m == k - 1
  <2>1. m \in Nat /\ k \in Nat /\ m <= k /\ m \in 0 .. n /\ k \in 0 .. n /\ k \in 1 .. k /\ m \in 0 .. m /\ m \in 0 .. k
    OBVIOUS
  <2> HIDE DEF m
  <2>2. F(m)[m] = F(k)[m]
    <3> DEFINE f == F(m)
               g == F(k)
    <3>1. Runs(f, c, G, m, Int) /\ Runs(g, c, G, k, Int)
      BY <1>1, <2>1
    <3> HIDE DEF f, g
    <3>2. f[m] = g[m]
      BY <2>1, <3>1, SameRun
    <3>. QED  BY <3>2 DEF f, g
  <2>3. F(k)[k] = G[m][F(k)[m]] /\ F(k)[m] \in Int
    BY <1>1, <2>1 DEF Runs, m
  <2>4. G[m][F(k)[m]] = (F(k)[m] * base) + t[i + k - 1]
    BY <1>1, <2>1, <2>3 DEF m
  <2>. QED  BY <2>2, <2>3, <2>4 DEF m
<1>. QED  BY <1>2, <1>3, <1>4, <1>5, Zenon DEF c

\* Digits only add: the value of a longer number is no smaller.
LEMMA DigitsAdd ==
    ASSUME NEW t \in Seq(Int), NEW i \in Nat \ {0}, NEW n \in Nat, i + n <= Len(t) + 1,
           NEW base \in Nat \ {0}, \A j \in i .. i + n - 1 : t[j] \in Nat
    PROVE  /\ \A k \in 0 .. n : Num!ValueAt(t, i, k, base) \in Nat
           /\ \A k \in 0 .. n : Num!ValueAt(t, i, k, base) <= Num!ValueAt(t, i, n, base)
<1> DEFINE V == [k \in 0 .. n |-> Num!ValueAt(t, i, k, base)]
<1>1. /\ V \in [0 .. n -> Int] /\ V[0] = 0
      /\ \A k \in 1 .. n : V[k] = (V[k - 1] * base) + t[i + k - 1]
  <2>1. ASSUME NEW k \in 1 .. n
        PROVE  k \in 0 .. n /\ k - 1 \in 0 .. n
    OBVIOUS
  <2>. QED  BY <2>1, NextDigit
<1>2. \A k \in 0 .. n : V[k] = Num!ValueAt(t, i, k, base)
  OBVIOUS
<1> HIDE DEF V
<1>3. ASSUME NEW k \in 1 .. n, V[k - 1] \in Nat
      PROVE  V[k] \in Nat /\ V[k - 1] <= V[k]
  <2> DEFINE v == V[k - 1]
             x == t[i + k - 1]
  <2>1. v \in Nat /\ x \in Nat /\ V[k] = (v * base) + x
    BY <1>1, <1>3
  <2> HIDE DEF v, x
  <2>2. v * base \in Nat /\ v <= v * base
    BY <2>1
  <2>3. V[k] \in Nat /\ v <= V[k]
    BY <2>1, <2>2
  <2>. QED  BY <2>3 DEF v
<1>4. \A k \in 0 .. n : V[k] \in Nat
  <2> DEFINE S == {k \in Nat : k <= n => V[k] \in Nat}
  <2>1. 0 \in S
    BY <1>1
  <2>2. ASSUME NEW k \in Nat, k \in S
        PROVE  k + 1 \in S
    <3>1. k + 1 <= n => k + 1 \in 1 .. n /\ (k + 1) - 1 = k
      OBVIOUS
    <3>. QED  BY <1>3, <2>2, <3>1
  <2>3. Nat \subseteq S
    <3> HIDE DEF S
    <3>. QED  BY <2>1, <2>2, Induction
  <2>. QED  BY <2>3
<1>5. \A k \in 0 .. n : V[k] <= V[n]
  <2> DEFINE S == {j \in Nat : j <= n => V[n - j] <= V[n]}
  <2>1. 0 \in S
    BY <1>4
  <2>2. ASSUME NEW j \in Nat, j \in S
        PROVE  j + 1 \in S
    <3> SUFFICES ASSUME j + 1 <= n  PROVE V[n - (j + 1)] <= V[n]
      OBVIOUS
    <3>1. n - j \in 1 .. n /\ (n - j) - 1 = n - (j + 1) /\ n - j \in 0 .. n /\ n - (j + 1) \in 0 .. n /\ n \in 0 .. n
      OBVIOUS
    <3>2. V[n - (j + 1)] <= V[n - j]
      BY <1>3, <1>4, <3>1
    <3>3. V[n - j] <= V[n]
      <4>1. j <= n
        OBVIOUS
      <4>. QED  BY <2>2, <4>1
    <3>4. V[n - (j + 1)] \in Nat /\ V[n - j] \in Nat /\ V[n] \in Nat
      BY <1>4, <3>1
    <3>. QED  BY <3>2, <3>3, <3>4
  <2>3. Nat \subseteq S
    <3> HIDE DEF S
    <3>. QED  BY <2>1, <2>2, Induction
  <2>4. ASSUME NEW k \in 0 .. n
        PROVE  n - k \in Nat /\ n - (n - k) = k /\ n - k <= n
    OBVIOUS
  <2>. QED  BY <2>3, <2>4
<1>6. n \in 0 .. n
  OBVIOUS
<1>7. ASSUME NEW k \in 0 .. n
      PROVE  Num!ValueAt(t, i, k, base) \in Nat /\ Num!ValueAt(t, i, k, base) <= Num!ValueAt(t, i, n, base)
  BY <1>2, <1>4, <1>5, <1>6
<1>. QED  BY <1>7

\* A blank part, digits, and blanks: what the loops of the parsers find.
PartsOf(t, a, d, b) ==
    /\ RunsTo(t, 1, {Num!Space}, a)
    /\ RunsTo(t, a + 1, 0 .. 9, d)
    /\ RunsTo(t, a + d + 1, {Num!Space}, b)

BlanksAt(t)   == Num!Run(t, 1, {Num!Space})
DigitsAt(t)   == Num!Run(t, BlanksAt(t) + 1, 0 .. 9)
BlanksNext(t) == Num!Run(t, BlanksAt(t) + DigitsAt(t) + 1, {Num!Space})

LEMMA PartsAre ==
    ASSUME NEW t \in Seq(Int)
    PROVE  PartsOf(t, BlanksAt(t), DigitsAt(t), BlanksNext(t))
<1> DEFINE a == BlanksAt(t)
           d == DigitsAt(t)
           b == BlanksNext(t)
<1>0. Len(t) \in Nat
  OBVIOUS
<1>1. RunsTo(t, 1, {Num!Space}, a)
  <2>1. 1 \in 1 .. Len(t) + 1
    BY <1>0
  <2>. QED  BY <2>1, RunIs DEF BlanksAt
<1>2. a + 1 \in 1 .. Len(t) + 1
  BY <1>0, <1>1 DEF RunsTo
<1>3. RunsTo(t, a + 1, 0 .. 9, d)
  <2> HIDE DEF a
  <2>1. d = Num!Run(t, a + 1, 0 .. 9)
    BY DEF DigitsAt, a
  <2> DEFINE i == a + 1
  <2>2. i \in 1 .. Len(t) + 1
    BY <1>2
  <2> HIDE DEF i, d
  <2>3. RunsTo(t, i, 0 .. 9, Num!Run(t, i, 0 .. 9))
    BY <2>2, RunIs
  <2>. QED  BY <2>1, <2>3 DEF i
<1>4. a + d + 1 \in 1 .. Len(t) + 1
  BY <1>0, <1>1, <1>3 DEF RunsTo
<1>5. RunsTo(t, a + d + 1, {Num!Space}, b)
  <2> HIDE DEF a, d
  <2>1. b = Num!Run(t, a + d + 1, {Num!Space})
    BY DEF BlanksNext, a, d
  <2> DEFINE i == a + d + 1
  <2>2. i \in 1 .. Len(t) + 1
    BY <1>4
  <2> HIDE DEF i, b
  <2>3. RunsTo(t, i, {Num!Space}, Num!Run(t, i, {Num!Space}))
    BY <2>2, RunIs
  <2>. QED  BY <2>1, <2>3 DEF i
<1>. QED  BY <1>1, <1>3, <1>5 DEF PartsOf

\* What the three parts are in a text they make up, and which texts they do.
LEMMA PartsTell ==
    ASSUME NEW t \in Seq(Int), NEW a, NEW d, NEW b, PartsOf(t, a, d, b)
    PROVE  /\ a \in Nat /\ d \in Nat /\ b \in Nat /\ a + d + b <= Len(t)
           /\ \A i \in 1 .. a : t[i] = Num!Space
           /\ \A i \in a + 1 .. a + d : t[i] \in 0 .. 9
           /\ \A i \in a + d + 1 .. a + d + b : t[i] = Num!Space
           /\ Num!Blank(t) <=> a = Len(t)
           /\ Num!Written(t) <=> (d > 0 /\ a + d + b = Len(t))
           /\ d = 0 => b = 0
<1> DEFINE N == Len(t)
           S == Num!Space
<1>0. N \in Nat /\ S = 10 /\ DOMAIN t = 1 .. N
  BY DEF Num!Space
<1>1. /\ a \in Nat /\ a <= N /\ (\A i \in 1 .. a : t[i] = S) /\ (a < N => t[a + 1] # S)
  <2>1. /\ a \in Nat /\ 1 + a <= N + 1 /\ (\A j \in 1 .. 1 + a - 1 : t[j] \in {S})
        /\ 1 + a <= N => t[1 + a] \notin {S}
    BY DEF PartsOf, RunsTo
  <2>2. 1 + a - 1 = a /\ 1 + a = a + 1
    BY <2>1
  <2>. QED  BY <1>0, <2>1, <2>2
<1>2. /\ d \in Nat /\ a + d <= N /\ (\A i \in a + 1 .. a + d : t[i] \in 0 .. 9)
      /\ a + d < N => t[a + d + 1] \notin 0 .. 9
  <2>1. /\ d \in Nat /\ a + 1 + d <= N + 1 /\ (\A j \in a + 1 .. a + 1 + d - 1 : t[j] \in 0 .. 9)
        /\ a + 1 + d <= N => t[a + 1 + d] \notin 0 .. 9
    BY DEF PartsOf, RunsTo
  <2>2. a + 1 + d - 1 = a + d /\ a + 1 + d = a + d + 1
    BY <1>1, <2>1
  <2>. QED  BY <1>0, <1>1, <2>1, <2>2
<1>3. /\ b \in Nat /\ a + d + b <= N /\ (\A i \in a + d + 1 .. a + d + b : t[i] = S)
      /\ a + d + b < N => t[a + d + b + 1] # S
  <2>1. /\ b \in Nat /\ a + d + 1 + b <= N + 1
        /\ \A j \in a + d + 1 .. a + d + 1 + b - 1 : t[j] \in {S}
        /\ a + d + 1 + b <= N => t[a + d + 1 + b] \notin {S}
    BY DEF PartsOf, RunsTo
  <2>2. a + d + 1 + b - 1 = a + d + b /\ a + d + 1 + b = a + d + b + 1
    BY <1>1, <1>2, <2>1
  <2>3. a + d + 1 + b <= N + 1 => a + d + b <= N
    BY <1>0, <1>1, <1>2, <2>1
  <2>4. a + d + b < N => a + d + 1 + b <= N
    BY <1>0, <1>1, <1>2, <2>1
  <2>. QED  BY <2>1, <2>2, <2>3, <2>4
<1> HIDE DEF N
<1>4. Num!Blank(t) <=> a = N
  <2>1. Num!Blank(t) <=> \A i \in 1 .. N : t[i] = S
    BY <1>0 DEF Num!Blank, Num!Among
  <2>2. a < N => a + 1 \in 1 .. N
    BY <1>0, <1>1
  <2>. QED  BY <1>0, <1>1, <2>1, <2>2
<1>5. d = 0 => b = 0
  <2> SUFFICES ASSUME d = 0, b > 0  PROVE FALSE
    BY <1>3
  <2>1. a + 1 \in a + d + 1 .. a + d + b /\ a < N
    BY <1>0, <1>1, <1>3
  <2>. QED  BY <1>1, <1>3, <2>1
<1>6. Num!Written(t) <=>
        /\ \A i \in 1 .. N : t[i] \in 0 .. 9 \/ t[i] = S
        /\ ~Num!Blank(t)
        /\ \A i, j \in 1 .. N : i < j /\ t[i] # S /\ t[j] # S => \A k \in i .. j : t[k] # S
  <2>1. Num!Among(t, (0 .. 9) \cup {S}) <=> \A i \in 1 .. N : t[i] \in 0 .. 9 \/ t[i] = S
    BY <1>0 DEF Num!Among
  <2>. QED  BY <1>0, <2>1, Zenon DEF Num!Written
<1>7. ASSUME d > 0, a + d + b = N
      PROVE  Num!Written(t)
  <2>1. ASSUME NEW i \in 1 .. N
        PROVE  i \in 1 .. a \/ i \in a + 1 .. a + d \/ i \in a + d + 1 .. a + d + b
    BY <1>0, <1>1, <1>2, <1>3, <1>7
  <2>2. \A i \in 1 .. N : t[i] # S <=> i \in a + 1 .. a + d
    <3> SUFFICES ASSUME NEW i \in 1 .. N  PROVE t[i] # S <=> i \in a + 1 .. a + d
      OBVIOUS
    <3>1. CASE i \in a + 1 .. a + d
      <4>1. t[i] \in 0 .. 9
        BY <1>2, <3>1
      <4>. QED  BY <1>0, <3>1, <4>1
    <3>2. CASE i \in 1 .. a
      BY <1>1, <1>2, <3>2
    <3>3. CASE i \in a + d + 1 .. a + d + b
      BY <1>1, <1>2, <1>3, <3>3
    <3>. QED  BY <2>1, <3>1, <3>2, <3>3
  <2>3. \A i \in 1 .. N : t[i] \in 0 .. 9 \/ t[i] = S
    BY <1>2, <2>2
  <2>4. a # N
    BY <1>1, <1>2, <1>3, <1>7
  <2>5. ASSUME NEW i \in 1 .. N, NEW j \in 1 .. N, t[i] # S, t[j] # S, NEW k \in i .. j
        PROVE  t[k] # S
    <3>1. i \in a + 1 .. a + d /\ j \in a + 1 .. a + d
      BY <2>2, <2>5
    <3>2. k \in 1 .. N /\ k \in a + 1 .. a + d
      BY <1>0, <1>1, <1>2, <3>1
    <3>. QED  BY <2>2, <3>2
  <2>. QED  BY <1>4, <1>6, <2>3, <2>4, <2>5
<1>8. ASSUME Num!Written(t)
      PROVE  d > 0 /\ a + d + b = N
  <2>1. a < N /\ a + 1 \in 1 .. N
    BY <1>0, <1>1, <1>4, <1>6, <1>8
  <2>2. t[a + 1] \in 0 .. 9
    BY <1>1, <1>6, <1>8, <2>1
  <2>3. d > 0
    <3> SUFFICES ASSUME d = 0  PROVE FALSE
      BY <1>2
    <3>1. a + d + 1 = a + 1 /\ a + d < N
      BY <1>1, <2>1
    <3>. QED  BY <1>2, <2>2, <3>1
  <2>4. ASSUME a + d + b < N
        PROVE  FALSE
    <3>1. a + d + 1 \in 1 .. N /\ a + d + b + 1 \in 1 .. N /\ a + d < N
      BY <1>0, <1>1, <1>2, <1>3, <2>4
    <3>2. t[a + d + 1] = S
      BY <1>2, <1>6, <1>8, <3>1
    <3>3. t[a + d + b + 1] # S
      BY <1>3, <2>4
    <3>4. a + 1 < a + d + b + 1 /\ a + d + 1 \in a + 1 .. a + d + b + 1
      BY <1>1, <1>2, <1>3, <2>3
    <3>5. t[a + 1] # S
      BY <1>1, <2>1
    <3> DEFINE i == a + 1
               j == a + d + b + 1
               k == a + d + 1
    <3> HIDE DEF i, j, k
    <3>6. i \in 1 .. N /\ j \in 1 .. N /\ i < j /\ t[i] # S /\ t[j] # S /\ k \in i .. j /\ t[k] = S
      BY <2>1, <3>1, <3>2, <3>3, <3>4, <3>5 DEF i, j, k
    <3>. QED  BY <1>6, <1>8, <3>6, Zenon
  <2>. QED  BY <1>0, <1>1, <1>2, <1>3, <2>3, <2>4
<1>. QED  BY <1>1, <1>2, <1>3, <1>4, <1>5, <1>7, <1>8 DEF N

\* The function of Number, with a name.
IsReading(f, t, base) ==
    f = [k \in 0 .. Len(t) |-> IF k = 0 THEN 0
                               ELSE IF t[k] = Num!Space THEN f[k - 1] ELSE (base * f[k - 1]) + t[k]]
Reading(t, base) == CHOOSE f : IsReading(f, t, base)

LEMMA NumberOf ==
    ASSUME NEW t, NEW base
    PROVE  Num!Number(t, base) = Reading(t, base)[Len(t)]
  BY Zenon DEF Num!Number, Reading, IsReading

\* The steps of it.
Reader(t, base) ==
    [k \in Nat |-> [v \in Int |-> IF k + 1 \notin 1 .. Len(t) THEN 0
                                  ELSE IF t[k + 1] = Num!Space THEN v ELSE (base * v) + t[k + 1]]]

\* Lists that run alike end alike.
LEMMA SameEnd ==
    ASSUME NEW V, NEW c, NEW G, NEW K \in Nat, NEW f, Runs(f, c, G, K, V), NEW g, Runs(g, c, G, K, V)
    PROVE  f[K] = g[K]
<1>1. K \in 0 .. K /\ K <= K
  OBVIOUS
<1>. QED  BY <1>1, SameRun

\* What runs through the values of a text is what Number reads.
LEMMA ReadingIs ==
    ASSUME NEW t \in Seq(Int), NEW base \in Nat, NEW g \in [0 .. Len(t) -> Int], g[0] = 0,
           \A k \in 1 .. Len(t) :
             g[k] = IF t[k] = Num!Space THEN g[k - 1] ELSE (base * g[k - 1]) + t[k]
    PROVE  Num!Number(t, base) = g[Len(t)]
<1> DEFINE K == Len(t)
           G == Reader(t, base)
           f == Reading(t, base)
           c == 0
<1>0. K \in Nat /\ c \in Int /\ c = 0 /\ \A k \in 1 .. K : t[k] \in Int
  OBVIOUS
<1>1. G \in [Nat -> [Int -> Int]]
  <2>1. ASSUME NEW k \in Nat, NEW v \in Int
        PROVE  (IF k + 1 \notin 1 .. K THEN 0
                ELSE IF t[k + 1] = Num!Space THEN v ELSE (base * v) + t[k + 1]) \in Int
    <3>1. base * v \in Int
      OBVIOUS
    <3>. QED  BY <1>0, <3>1
  <2>. QED  BY <2>1 DEF Reader
<1>2. ASSUME NEW k \in 1 .. K, NEW x \in Int
      PROVE  G[k - 1][x] = IF t[k] = Num!Space THEN x ELSE (base * x) + t[k]
  <2>1. k - 1 \in Nat /\ (k - 1) + 1 = k
    OBVIOUS
  <2>. QED  BY <2>1 DEF Reader
<1> HIDE DEF c, G, f
<1>3. Runs(g, c, G, K, Int)
  <2>1. ASSUME NEW k \in 1 .. K
        PROVE  g[k] = G[k - 1][g[k - 1]]
    <3>1. k - 1 \in 0 .. K
      BY <1>0
    <3>2. g[k - 1] \in Int
      BY <3>1
    <3>. QED  BY <1>2, <3>2
  <2>. QED  BY <1>0, <2>1 DEF Runs
<1>4. IsReading(g, t, base)
  <2>1. ASSUME NEW k \in 0 .. K
        PROVE  g[k] = IF k = 0 THEN 0
                      ELSE IF t[k] = Num!Space THEN g[k - 1] ELSE (base * g[k - 1]) + t[k]
    <3>1. k # 0 => k \in 1 .. K
      BY <1>0
    <3>. QED  BY <3>1
  <2>. QED  BY <2>1 DEF IsReading
<1>5. IsReading(f, t, base)
  BY <1>4, Zenon DEF f, Reading
<1>6. /\ f = [k \in 0 .. K |-> f[k]] /\ f[0] = c
      /\ \A k \in 1 .. K : f[k] = IF t[k] = Num!Space THEN f[k - 1] ELSE (base * f[k - 1]) + t[k]
  <2>1. f = [k \in 0 .. K |-> IF k = 0 THEN c
                              ELSE IF t[k] = Num!Space THEN f[k - 1] ELSE (base * f[k - 1]) + t[k]]
    BY <1>5 DEF IsReading, c
  <2>2. f = [k \in 0 .. K |-> f[k]]
    BY <2>1, Zenon
  <2>3. ASSUME NEW k \in 0 .. K
        PROVE  f[k] = IF k = 0 THEN c
                      ELSE IF t[k] = Num!Space THEN f[k - 1] ELSE (base * f[k - 1]) + t[k]
    BY <2>1, Zenon
  <2>4. 0 \in 0 .. K /\ \A k \in 1 .. K : k \in 0 .. K /\ k # 0
    BY <1>0
  <2>. QED  BY <2>2, <2>3, <2>4, Zenon
<1>7. ASSUME NEW k \in 1 .. K, f[k - 1] \in Int
      PROVE  f[k] = G[k - 1][f[k - 1]]
  BY <1>2, <1>6, <1>7
<1>8. Runs(f, c, G, K, Int)
  BY <1>0, <1>1, <1>6, <1>7, Recursion
<1>9. f[K] = g[K]
  <2> HIDE DEF K
  <2>. QED  BY <1>0, <1>3, <1>8, SameEnd
<1>10. Num!Number(t, base) = f[K]
  BY NumberOf DEF f
<1>. QED  BY <1>9, <1>10

\* The number of a text of blanks, digits and blanks is the value of the digits.
LEMMA NumberIs ==
    ASSUME NEW t \in Seq(Int), NEW base \in Nat \ {0},
           NEW a \in Nat, NEW d \in Nat, NEW b \in Nat, a + d + b = Len(t),
           \A i \in 1 .. a : t[i] = Num!Space,
           \A i \in a + 1 .. a + d : t[i] \in 0 .. 9,
           \A i \in a + d + 1 .. a + d + b : t[i] = Num!Space
    PROVE  Num!Number(t, base) = Num!ValueAt(t, a + 1, d, base)
<1> DEFINE N == Len(t)
           i == a + 1
           V(k) == Num!ValueAt(t, i, k, base)
           g == [k \in 0 .. N |-> IF k <= a THEN 0 ELSE IF k <= a + d THEN V(k - a) ELSE V(d)]
<1>0. N \in Nat /\ N = a + d + b /\ i \in Nat \ {0} /\ i + d <= N + 1 /\ Num!Space = 10
  BY DEF Num!Space
<1>1. /\ V(0) = 0 /\ \A k \in 0 .. d : V(k) \in Int
      /\ \A k \in 1 .. d : V(k) = (V(k - 1) * base) + t[i + k - 1]
  <2> HIDE DEF i
  <2>. QED  BY <1>0, NextDigit
<1> HIDE DEF V
<1>2. g \in [0 .. N -> Int]
  <2>1. ASSUME NEW k \in 0 .. N
        PROVE  (IF k <= a THEN 0 ELSE IF k <= a + d THEN V(k - a) ELSE V(d)) \in Int
    <3>1. d \in 0 .. d /\ (~(k <= a) /\ k <= a + d => k - a \in 0 .. d)
      BY <1>0
    <3>. QED  BY <1>1, <3>1
  <2>. QED  BY <2>1
<1>3. g[0] = 0
  BY <1>0
<1>4. \A k \in 0 .. N : g[k] = IF k <= a THEN 0 ELSE IF k <= a + d THEN V(k - a) ELSE V(d)
  OBVIOUS
<1> HIDE DEF g, N
<1>5. ASSUME NEW k \in 1 .. N
      PROVE  g[k] = IF t[k] = Num!Space THEN g[k - 1] ELSE (base * g[k - 1]) + t[k]
  <2>0. k \in 0 .. N /\ k - 1 \in 0 .. N
    BY <1>0
  <2>1. CASE k <= a
    <3>1. k \in 1 .. a /\ k - 1 <= a
      BY <2>1
    <3>. QED  BY <1>4, <2>0, <2>1, <3>1
  <2>2. CASE k > a /\ k <= a + d
    <3>1. k \in a + 1 .. a + d /\ k - a \in 1 .. d /\ i + (k - a) - 1 = k /\ ~(k <= a)
      BY <1>0, <2>2
    <3>2. t[k] \in 0 .. 9 /\ t[k] # Num!Space
      <4>1. t[k] \in 0 .. 9
        BY <3>1
      <4>. QED  BY <1>0, <4>1
    <3>3. g[k - 1] = V(k - a - 1)
      <4>1. CASE k - 1 <= a
        <5>1. k - a - 1 = 0
          BY <2>2, <4>1
        <5>. QED  BY <1>1, <1>4, <2>0, <4>1, <5>1
      <4>2. CASE ~(k - 1 <= a)
        <5>1. k - 1 <= a + d /\ (k - 1) - a = k - a - 1
          BY <2>2
        <5>. QED  BY <1>4, <2>0, <4>2, <5>1
      <4>. QED  BY <4>1, <4>2
    <3>4. g[k] = V(k - a)
      BY <1>4, <2>0, <2>2, <3>1
    <3>5. V(k - a) = (V(k - a - 1) * base) + t[k]
      <4> DEFINE m == k - a
      <4>1. m \in 1 .. d /\ i + m - 1 = k
        BY <3>1
      <4>2. V(m) = (V(m - 1) * base) + t[i + m - 1]
        BY <1>1, <4>1
      <4>. QED  BY <4>1, <4>2
    <3>6. V(k - a - 1) * base = base * V(k - a - 1)
      <4>1. k - a - 1 \in 0 .. d
        BY <3>1
      <4>2. V(k - a - 1) \in Int
        BY <1>1, <4>1
      <4>. QED  BY <4>2
    <3>. QED  BY <3>2, <3>3, <3>4, <3>5, <3>6
  <2>3. CASE k > a + d
    <3>1. k \in a + d + 1 .. a + d + b /\ ~(k <= a) /\ ~(k <= a + d)
      BY <1>0, <2>3
    <3>2. t[k] = Num!Space
      BY <3>1
    <3>3. g[k] = V(d)
      BY <1>4, <2>0, <3>1
    <3>4. g[k - 1] = V(d)
      <4>1. CASE k - 1 <= a
        <5>1. d = 0
          BY <2>3, <4>1
        <5>. QED  BY <1>1, <1>4, <2>0, <4>1, <5>1
      <4>2. CASE ~(k - 1 <= a) /\ k - 1 <= a + d
        <5>1. (k - 1) - a = d
          BY <2>3, <4>2
        <5>. QED  BY <1>4, <2>0, <4>2, <5>1
      <4>3. CASE ~(k - 1 <= a) /\ ~(k - 1 <= a + d)
        BY <1>4, <2>0, <4>3
      <4>. QED  BY <4>1, <4>2, <4>3
    <3>. QED  BY <3>2, <3>3, <3>4
  <2>4. k <= a \/ (k > a /\ k <= a + d) \/ k > a + d
    OBVIOUS
  <2>. QED  BY <2>1, <2>2, <2>3, <2>4
<1>6. Num!Number(t, base) = g[N]
  BY <1>2, <1>3, <1>5, ReadingIs DEF N
<1>7. g[N] = V(d)
  <2>1. N \in 0 .. N
    BY <1>0
  <2>2. CASE N <= a
    <3>1. d = 0
      BY <1>0, <2>2
    <3>. QED  BY <1>1, <1>4, <2>1, <2>2, <3>1
  <2>3. CASE ~(N <= a) /\ N <= a + d
    <3>1. N - a = d
      BY <1>0, <2>3
    <3>. QED  BY <1>4, <2>1, <2>3, <3>1
  <2>4. CASE ~(N <= a) /\ ~(N <= a + d)
    BY <1>4, <2>1, <2>4
  <2>. QED  BY <2>2, <2>3, <2>4
<1>. QED  BY <1>6, <1>7 DEF V

\* The limit of the loop in ez_strtoull_len: ten of it and six more are a long.
LEMMA TheLimit ==
    ASSUME ConversionsAssumption
    PROVE  /\ LongSpan \in Nat /\ LongSpan = 10 * ((LongSpan - 1) \div 10) + 6
           /\ (LongSpan - 1) \div 10 \in Nat
           /\ IntSpan \in Nat /\ IntSpan % 2 = 0 /\ IntSpan > 0 /\ IntSpan <= LongSpan
           /\ LongSpan % IntSpan = 0
<1>1. LongSpan \in Nat /\ LongSpan % 10 = 6 /\ IntSpan \in Nat \ {0} /\ IntSpan % 2 = 0 /\ LongSpan % IntSpan = 0
  BY DEF ConversionsAssumption, Num!NumbersAssumption
<1>2. LongSpan = 10 * ((LongSpan - 1) \div 10) + 6 /\ (LongSpan - 1) \div 10 \in Nat
  BY <1>1
<1>3. IntSpan <= LongSpan
  <2> SUFFICES ASSUME LongSpan < IntSpan  PROVE FALSE
    BY <1>1
  <2>1. LongSpan % IntSpan = LongSpan
    BY <1>1
  <2>. QED  BY <1>1, <2>1
<1>. QED  BY <1>1, <1>2, <1>3

\* ez_strtoull_len against the number: what it accepts, and what it returns.
LenLaw(t) ==
    /\ Num!ez_strtoull_len(t).ok <=>
         (Num!Blank(t) \/ (Num!Written(t) /\ Num!Number(t, 10) <= LongSpan - 7))
    /\ Num!ez_strtoull_len(t).ok => Num!ez_strtoull_len(t).out = Num!Number(t, 10)

LEMMA LenRight ==
    ASSUME ConversionsAssumption, NEW t \in Seq(Int)
    PROVE  LenLaw(t)
<1> DEFINE N == Len(t)
           a == BlanksAt(t)
           d == DigitsAt(t)
           b == BlanksNext(t)
           i == a + 1
           V(k) == Num!ValueAt(t, i, k, 10)
           q == (LongSpan - 1) \div 10
           late == {k \in 0 .. d - 1 : V(k) >= q}
           x == Num!ez_strtoull_len(t)
           n == Num!Number(t, 10)
<1>1. PartsOf(t, a, d, b)
  BY PartsAre
<1>2. x = IF late # {} THEN [ok |-> FALSE, out |-> V(Num!Least(late))]
          ELSE [ok |-> i + d + Num!Run(t, i + d, {Num!Space}) > N, out |-> V(d) % LongSpan]
  BY Zenon DEF Num!ez_strtoull_len, Num!AtLimit, BlanksAt, DigitsAt
<1>20. b = Num!Run(t, a + d + 1, {Num!Space})
  BY Zenon DEF BlanksNext
<1> HIDE DEF a, d, b
<1>3. /\ a \in Nat /\ d \in Nat /\ b \in Nat /\ a + d + b <= N
      /\ \A j \in 1 .. a : t[j] = Num!Space
      /\ \A j \in a + 1 .. a + d : t[j] \in 0 .. 9
      /\ \A j \in a + d + 1 .. a + d + b : t[j] = Num!Space
      /\ Num!Blank(t) <=> a = N
      /\ Num!Written(t) <=> (d > 0 /\ a + d + b = N)
      /\ d = 0 => b = 0
  BY <1>1, PartsTell
<1>4. N \in Nat /\ i \in Nat \ {0} /\ i + d <= N + 1 /\ i + d = a + d + 1 /\ i + d - 1 = a + d
  BY <1>3
<1>5. b = Num!Run(t, i + d, {Num!Space})
  BY <1>4, <1>20
<1>6. /\ V(0) = 0 /\ \A k \in 0 .. d : V(k) \in Nat /\ V(k) <= V(d)
      /\ \A k \in 1 .. d : V(k) = (V(k - 1) * 10) + t[i + k - 1]
  <2>1. \A j \in i .. i + d - 1 : t[j] \in Nat
    <3> SUFFICES ASSUME NEW j \in i .. i + d - 1  PROVE t[j] \in Nat
      OBVIOUS
    <3>1. j \in a + 1 .. a + d
      BY <1>3, <1>4
    <3>2. t[j] \in 0 .. 9
      BY <1>3, <3>1
    <3>. QED  BY <3>2
  <2>2. 10 \in Nat \ {0}
    OBVIOUS
  <2> DEFINE base == 10
  <2>3. base \in Nat \ {0} /\ base \in Nat
    OBVIOUS
  <2> HIDE DEF i, base
  <2>4. /\ \A k \in 0 .. d : Num!ValueAt(t, i, k, base) \in Nat
        /\ \A k \in 0 .. d : Num!ValueAt(t, i, k, base) <= Num!ValueAt(t, i, d, base)
    BY <1>3, <1>4, <2>1, <2>3, DigitsAdd
  <2>5. /\ Num!ValueAt(t, i, 0, base) = 0
        /\ \A k \in 1 .. d : Num!ValueAt(t, i, k, base) =
                               (Num!ValueAt(t, i, k - 1, base) * base) + t[i + k - 1]
    BY <1>3, <1>4, <2>3, NextDigit
  <2>. QED  BY <2>4, <2>5 DEF base
<1>7. a + d + b = N => n = V(d)
  <2> SUFFICES ASSUME a + d + b = N  PROVE n = V(d)
    OBVIOUS
  <2> DEFINE base == 10
  <2>1. base \in Nat \ {0}
    OBVIOUS
  <2> HIDE DEF base
  <2>2. Num!Number(t, base) = Num!ValueAt(t, a + 1, d, base)
    BY <1>3, <2>1, NumberIs
  <2>. QED  BY <2>2 DEF base
<1>8. /\ LongSpan \in Nat /\ LongSpan = 10 * q + 6 /\ q \in Nat
  BY TheLimit
<1>9. x = IF late # {} THEN [ok |-> FALSE, out |-> V(Num!Least(late))]
          ELSE [ok |-> i + d + b > N, out |-> V(d) % LongSpan]
  BY <1>2, <1>5
<1> HIDE DEF V, q, i, n, x, N
<1>10. CASE late # {}
  <2>1. PICK k \in 0 .. d - 1 : V(k) >= q
    BY <1>10
  <2>2. d > 0 /\ d - 1 \in 0 .. d /\ d \in 1 .. d /\ k \in 0 .. d /\ d \in 0 .. d /\ k + 1 \in 1 .. d /\ (k + 1) - 1 = k /\ k + 1 \in 0 .. d
    BY <1>3, <2>1
  <2>3. V(d) >= 10 * q
    <3>1. V(k + 1) = (V(k) * 10) + t[i + (k + 1) - 1]
      BY <1>6, <2>2
    <3>2. t[i + (k + 1) - 1] \in 0 .. 9
      <4>1. i + (k + 1) - 1 \in a + 1 .. a + d
        BY <1>3, <2>1 DEF i
      <4>. QED  BY <1>3, <4>1
    <3>3. V(k) \in Nat /\ V(k + 1) \in Nat /\ V(k + 1) <= V(d) /\ V(d) \in Nat
      BY <1>6, <2>2
    <3> DEFINE v == V(k)
               w == V(k + 1)
               u == V(d)
               c == t[i + (k + 1) - 1]
    <3>4. v \in Nat /\ w \in Nat /\ u \in Nat /\ w <= u /\ c \in 0 .. 9 /\ v >= q /\ q \in Nat
      BY <1>8, <2>1, <3>2, <3>3
    <3>5. w = (v * 10) + c
      BY <3>1
    <3> HIDE DEF v, w, u, c
    <3>6. u >= 10 * q
      BY <3>4, <3>5
    <3>. QED  BY <3>6 DEF u
  <2>4. ~x.ok
    BY <1>9, <1>10
  <2>5. ~Num!Blank(t)
    BY <1>3, <2>2
  <2>6. Num!Written(t) => ~(n <= LongSpan - 7)
    <3> SUFFICES ASSUME Num!Written(t)  PROVE ~(n <= LongSpan - 7)
      OBVIOUS
    <3>1. n = V(d) /\ V(d) \in Nat
      BY <1>3, <1>6, <1>7, <2>2
    <3>. QED  BY <1>8, <2>3, <3>1
  <2>. QED  BY <2>4, <2>5, <2>6 DEF LenLaw, x, n
<1>11. CASE late = {}
  <2>1. x.ok <=> a + d + b = N
    <3>1. x.ok = (i + d + b > N)
      BY <1>9, <1>11
    <3>2. (i + d + b > N) <=> a + d + b = N
      BY <1>3, <1>4 DEF i
    <3>. QED  BY <3>1, <3>2
  <2>2. V(d) <= LongSpan - 7 \/ d = 0
    <3> SUFFICES ASSUME d # 0  PROVE V(d) <= LongSpan - 7
      OBVIOUS
    <3>1. d - 1 \in 0 .. d - 1 /\ d \in 1 .. d /\ d - 1 \in 0 .. d
      BY <1>3
    <3>2. V(d - 1) < q /\ V(d - 1) \in Nat
      <4>1. ~(V(d - 1) >= q)
        BY <1>11, <3>1
      <4>2. V(d - 1) \in Nat
        BY <1>6, <3>1
      <4>. QED  BY <1>8, <4>1, <4>2
    <3>3. V(d) = (V(d - 1) * 10) + t[i + d - 1]
      BY <1>6, <3>1
    <3>4. t[i + d - 1] \in 0 .. 9
      <4>1. i + d - 1 \in a + 1 .. a + d
        BY <1>3, <3>1 DEF i
      <4>. QED  BY <1>3, <4>1
    <3>. QED  BY <1>8, <3>2, <3>3, <3>4
  <2>3. x.ok => x.out = n
    <3> SUFFICES ASSUME x.ok  PROVE x.out = n
      OBVIOUS
    <3>1. x.out = V(d) % LongSpan
      BY <1>9, <1>11
    <3>2. n = V(d) /\ V(d) \in Nat /\ V(d) < LongSpan
      <4>1. n = V(d)
        BY <1>7, <2>1
      <4>2. d \in 0 .. d
        BY <1>3
      <4>3. d = 0 => V(d) = 0
        BY <1>6
      <4>. QED  BY <1>6, <1>8, <2>2, <4>1, <4>2, <4>3
    <3>3. V(d) % LongSpan = V(d)
      BY <1>8, <3>2
    <3>. QED  BY <3>1, <3>2, <3>3
  <2>4. a + d + b = N <=> (Num!Blank(t) \/ (Num!Written(t) /\ n <= LongSpan - 7))
    <3>1. a + d + b = N => Num!Blank(t) \/ (Num!Written(t) /\ n <= LongSpan - 7)
      <4> SUFFICES ASSUME a + d + b = N
                   PROVE  Num!Blank(t) \/ (Num!Written(t) /\ n <= LongSpan - 7)
        OBVIOUS
      <4>1. CASE d = 0
        BY <1>3, <4>1
      <4>2. CASE d # 0
        BY <1>3, <1>7, <2>2, <4>2
      <4>. QED  BY <4>1, <4>2
    <3>2. Num!Blank(t) => a + d + b = N
      BY <1>3, <1>4
    <3>. QED  BY <1>3, <3>1, <3>2
  <2>. QED  BY <2>1, <2>3, <2>4 DEF LenLaw, x, n
<1>. QED  BY <1>10, <1>11

\* What strtol makes of a number with blanks around it.
LEMMA StrtoIs ==
    ASSUME NEW t \in Seq(Int), NEW base \in Nat \ {0}, base <= 10, NEW a, NEW d, NEW b,
           PartsOf(t, a, d, b), d > 0, a + d + b = Len(t),
           \A j \in a + 1 .. a + d : t[j] \in 0 .. base - 1
    PROVE  /\ Num!Strto(t, base) = [used |-> a + d, value |-> Num!Number(t, base)]
           /\ Num!EndsWell(t, a + d)
<1> DEFINE N == Len(t)
<1>1. /\ a \in Nat /\ d \in Nat /\ b \in Nat /\ a + d + b = N /\ N \in Nat
      /\ \A j \in 1 .. a : t[j] = Num!Space
      /\ \A j \in a + 1 .. a + d : t[j] \in 0 .. 9
      /\ \A j \in a + d + 1 .. a + d + b : t[j] = Num!Space
  <2>1. N \in Nat
    OBVIOUS
  <2>2. PartsOf(t, a, d, b) /\ t \in Seq(Int) /\ a + d + b = N
    OBVIOUS
  <2> HIDE DEF N
  <2>. QED  BY ONLY <2>1, <2>2, PartsTell
<1>0. Num!Space = 10 /\ Num!Minus = 11 /\ Num!Plus = 12
  BY DEF Num!Space, Num!Minus, Num!Plus
<1>2. Num!Run(t, 1, {Num!Space}) = a
  <2> DEFINE i == 1
             S == {Num!Space}
  <2>1. i \in 1 .. Len(t) + 1 /\ RunsTo(t, i, S, a)
    BY <1>1 DEF PartsOf
  <2> HIDE DEF i, S
  <2>2. RunsTo(t, i, S, Num!Run(t, i, S))
    BY <2>1, RunIs
  <2>3. Num!Run(t, i, S) = a
    BY <2>1, <2>2, OneRun
  <2>. QED  BY <2>3 DEF i, S
<1>3. a < N /\ a + 1 \in 1 .. N /\ t[a + 1] \notin {Num!Minus, Num!Plus}
  <2>1. a + 1 \in a + 1 .. a + d /\ a < N /\ a + 1 \in 1 .. N
    BY <1>1
  <2>2. t[a + 1] \in 0 .. 9
    BY <1>1, <2>1
  <2>. QED  BY <1>0, <2>1, <2>2
<1>4. Num!Run(t, a + 1, 0 .. base - 1) = d
  <2> DEFINE i == a + 1
             S == 0 .. base - 1
  <2>1. i \in 1 .. Len(t) + 1
    BY <1>1
  <2>2. RunsTo(t, i, S, d)
    <3>1. d \in Nat /\ i + d <= Len(t) + 1
      BY <1>1
    <3>2. \A j \in i .. i + d - 1 : t[j] \in S
      <4>1. i + d - 1 = a + d
        BY <1>1
      <4>. QED  BY <4>1
    <3>3. i + d <= Len(t) => t[i + d] \notin S
      <4> SUFFICES ASSUME i + d <= N  PROVE t[i + d] \notin S
        OBVIOUS
      <4>1. i + d \in a + d + 1 .. a + d + b
        BY <1>1
      <4>2. t[i + d] = 10
        BY <1>0, <1>1, <4>1
      <4>. QED  BY <4>2
    <3>. QED  BY <3>1, <3>2, <3>3 DEF RunsTo
  <2> HIDE DEF i, S
  <2>3. RunsTo(t, i, S, Num!Run(t, i, S))
    BY <2>1, RunIs
  <2>4. Num!Run(t, i, S) = d
    BY <2>1, <2>2, <2>3, OneRun
  <2>. QED  BY <2>4 DEF i, S
<1>5. Num!Number(t, base) = Num!ValueAt(t, a + 1, d, base)
  BY <1>1, NumberIs
<1>6. Num!Strto(t, base) = [used |-> a + d, value |-> Num!Number(t, base)]
  <2> DEFINE sign == IF Num!Run(t, 1, {Num!Space}) < Len(t)
                        /\ t[Num!Run(t, 1, {Num!Space}) + 1] \in {Num!Minus, Num!Plus} THEN 1 ELSE 0
             first == Num!Run(t, 1, {Num!Space}) + sign + 1
             digits == Num!Run(t, first, 0 .. base - 1)
             value == Num!ValueAt(t, first, digits, base)
  <2>1. Num!Strto(t, base) =
          IF digits = 0 THEN [used |-> 0, value |-> 0]
          ELSE [used |-> Num!Run(t, 1, {Num!Space}) + sign + digits,
                value |-> IF sign = 1 /\ t[Num!Run(t, 1, {Num!Space}) + 1] = Num!Minus
                          THEN -value ELSE value]
    BY Zenon DEF Num!Strto
  <2>2. sign = 0
    BY <1>2, <1>3
  <2> HIDE DEF sign
  <2>3. first = a + 1
    BY <1>1, <1>2, <2>2
  <2> HIDE DEF first
  <2>4. digits = d
    BY <1>4, <2>3
  <2> HIDE DEF digits
  <2>5. value = Num!Number(t, base)
    BY <1>5, <2>3, <2>4
  <2> HIDE DEF value
  <2>6. a + 0 + d = a + d /\ d # 0 /\ 0 # 1
    BY <1>1
  <2>. QED  BY <1>2, <2>1, <2>2, <2>4, <2>5, <2>6
<1>7. Num!EndsWell(t, a + d)
  <2>1. a + d # 0
    BY <1>1
  <2>2. a + d < N => t[a + d + 1] = Num!Space
    <3> SUFFICES ASSUME a + d < N  PROVE t[a + d + 1] = Num!Space
      OBVIOUS
    <3>1. a + d + 1 \in a + d + 1 .. a + d + b
      BY <1>1
    <3>. QED  BY <1>1, <3>1
  <2>. QED  BY <2>1, <2>2 DEF Num!EndsWell
<1>. QED  BY <1>6, <1>7

\* A negative result had its sign in the text.
LEMMA StrtoSign ==
    ASSUME NEW t \in Seq(Int)
    PROVE  /\ Num!Strto(t, 10).value \in Int
           /\ Num!Strto(t, 10).value < 0 => \E i \in DOMAIN t : t[i] = Num!Minus
<1> DEFINE S == {Num!Space}
           a == Num!Run(t, 1, S)
           sign == IF a < Len(t) /\ t[a + 1] \in {Num!Minus, Num!Plus} THEN 1 ELSE 0
           first == a + sign + 1
           digits == Num!Run(t, first, 0 .. 10 - 1)
           value == Num!ValueAt(t, first, digits, 10)
           x == Num!Strto(t, 10)
<1>1. x = IF digits = 0 THEN [used |-> 0, value |-> 0]
          ELSE [used |-> a + sign + digits,
                value |-> IF sign = 1 /\ t[a + 1] = Num!Minus THEN -value ELSE value]
  BY Zenon DEF Num!Strto
<1>2. a \in Nat /\ a <= Len(t) /\ Len(t) \in Nat /\ DOMAIN t = 1 .. Len(t)
  <2> DEFINE i == 1
  <2>1. i \in 1 .. Len(t) + 1 /\ i = 1
    OBVIOUS
  <2> HIDE DEF i, S
  <2>2. RunsTo(t, i, S, Num!Run(t, i, S))
    BY <2>1, RunIs
  <2>. QED  BY <2>1, <2>2 DEF RunsTo
<1> HIDE DEF a
<1>3. /\ sign \in {0, 1} /\ a + sign <= Len(t)
      /\ sign = 1 => a + 1 \in 1 .. Len(t)
  BY <1>2
<1> HIDE DEF sign
<1>4. first \in 1 .. Len(t) + 1 /\ first \in Nat \ {0}
  BY <1>2, <1>3
<1> HIDE DEF first
<1>5. value \in Nat
  <2> DEFINE base == 10
             D == 0 .. 10 - 1
  <2>1. base \in Nat \ {0} /\ D \subseteq Nat
    OBVIOUS
  <2> HIDE DEF base, D
  <2>2. RunsTo(t, first, D, Num!Run(t, first, D))
    BY <1>4, RunIs
  <2>3. digits = Num!Run(t, first, D)
    BY DEF D
  <2> HIDE DEF digits
  <2>4. /\ digits \in Nat /\ first + digits <= Len(t) + 1
        /\ \A j \in first .. first + digits - 1 : t[j] \in Nat
    BY <2>1, <2>2, <2>3 DEF RunsTo
  <2>5. digits \in 0 .. digits
    BY <2>4
  <2>6. Num!ValueAt(t, first, digits, base) \in Nat
    BY <1>4, <2>1, <2>4, <2>5, DigitsAdd
  <2>. QED  BY <2>6 DEF base
<1> HIDE DEF value, digits
<1>6. x.value = IF digits = 0 THEN 0 ELSE IF sign = 1 /\ t[a + 1] = Num!Minus THEN -value ELSE value
  BY <1>1
<1> HIDE DEF x
<1>7. x.value \in Int
  BY <1>5, <1>6
<1>8. ASSUME x.value < 0
      PROVE  \E i \in DOMAIN t : t[i] = Num!Minus
  <2>1. sign = 1 /\ t[a + 1] = Num!Minus
    BY <1>5, <1>6, <1>8
  <2>. QED  BY <1>2, <1>3, <2>1
<1>. QED  BY <1>7, <1>8 DEF x

\* A number is its own remainder by a larger one.
LEMMA SmallRemainder ==
    ASSUME NEW m \in Nat, NEW s \in Nat, m < s
    PROVE  m % s = m
OBVIOUS

\* The parsers on strtol and its kin, given a number with blanks around it.
WrittenLaw(t) ==
    LET n == Num!Number(t, 10)
        o == Num!Number(t, 8)
        Fits(r, limit) == r = IF n < limit THEN Num!Parsed(n) ELSE Num!Failed
    IN  /\ Fits(Num!ez_strtoull(t), LongSpan)
        /\ Fits(Num!ez_strtoll(t), LongSpan \div 2)
        /\ Num!ez_strtoul(t).ok = Num!ez_strtoull(t).ok
        /\ Num!ez_strtol(t).ok = Num!ez_strtoll(t).ok
        /\ n < IntSpan => Num!ez_strtoul(t).out = n
        /\ n < IntSpan \div 2 => Num!ez_strtol(t).out = n
        /\ n < IntSpan \div 2 /\ Num!Run(t, 1, {Num!Space}) = 0 /\ t[Len(t)] # Num!Space
             => Num!ez_atoi(t) = {n}
        /\ Num!Among(t, (0 .. 7) \cup {Num!Space}) /\ o < IntSpan \div 2
             => Num!ez_str2oct(t) = Num!Parsed(o)

LEMMA WrittenRight ==
    ASSUME ConversionsAssumption, NEW t \in Seq(Int), Num!Written(t)
    PROVE  WrittenLaw(t)
<1> DEFINE N == Len(t)
           a == BlanksAt(t)
           d == DigitsAt(t)
           b == BlanksNext(t)
           n == Num!Number(t, 10)
           o == Num!Number(t, 8)
           r == [used |-> a + d, value |-> n]
           ull == Num!ez_strtoull(t)
           ll == Num!ez_strtoll(t)
<1>1. PartsOf(t, a, d, b)
  BY PartsAre
<1>2. a = Num!Run(t, 1, {Num!Space})
  BY Zenon DEF BlanksAt
<1> HIDE DEF a, d, b
<1>3. /\ a \in Nat /\ d \in Nat /\ b \in Nat /\ a + d + b = N /\ d > 0
      /\ \A j \in 1 .. a : t[j] = Num!Space
      /\ \A j \in a + 1 .. a + d : t[j] \in 0 .. 9
      /\ \A j \in a + d + 1 .. a + d + b : t[j] = Num!Space
  BY <1>1, PartsTell
<1>4. /\ LongSpan \in Nat /\ LongSpan % 2 = 0 /\ LongSpan > 0
      /\ IntSpan \in Nat /\ IntSpan % 2 = 0 /\ IntSpan > 0 /\ IntSpan <= LongSpan
  <2> DEFINE q == (LongSpan - 1) \div 10
  <2>1. /\ LongSpan \in Nat /\ LongSpan = 10 * q + 6 /\ q \in Nat
        /\ IntSpan \in Nat /\ IntSpan % 2 = 0 /\ IntSpan > 0 /\ IntSpan <= LongSpan
    BY TheLimit
  <2> HIDE DEF q
  <2>. QED  BY <2>1
<1>5. N \in Nat /\ N > 0 /\ DOMAIN t = 1 .. N
  BY <1>3
<1>6. ASSUME NEW base \in Nat \ {0}, base <= 10,
             \A j \in a + 1 .. a + d : t[j] \in 0 .. base - 1
      PROVE  /\ Num!Strto(t, base) = [used |-> a + d, value |-> Num!Number(t, base)]
             /\ Num!EndsWell(t, a + d)
             /\ Num!Number(t, base) = Num!ValueAt(t, a + 1, d, base)
             /\ Num!Number(t, base) \in Nat
  <2>1. Num!Number(t, base) = Num!ValueAt(t, a + 1, d, base)
    BY <1>3, NumberIs
  <2>2. Num!ValueAt(t, a + 1, d, base) \in Nat
    <3> DEFINE i == a + 1
    <3>1. i \in Nat \ {0} /\ i + d <= Len(t) + 1 /\ i + d - 1 = a + d /\ d \in 0 .. d
      BY <1>3
    <3>2. \A j \in i .. i + d - 1 : t[j] \in Nat
      <4> SUFFICES ASSUME NEW j \in i .. i + d - 1  PROVE t[j] \in Nat
        OBVIOUS
      <4>1. t[j] \in 0 .. 9
        BY <1>3, <3>1
      <4>. QED  BY <4>1
    <3> HIDE DEF i
    <3>3. \A k \in 0 .. d : Num!ValueAt(t, i, k, base) \in Nat
      BY <1>3, <3>1, <3>2, DigitsAdd
    <3>. QED  BY <3>1, <3>3 DEF i
  <2>3. /\ Num!Strto(t, base) = [used |-> a + d, value |-> Num!Number(t, base)]
        /\ Num!EndsWell(t, a + d)
    BY <1>1, <1>3, <1>6, StrtoIs
  <2>. QED  BY <2>1, <2>2, <2>3
<1>7. Num!Strto(t, 10) = r /\ Num!EndsWell(t, a + d) /\ n = Num!ValueAt(t, a + 1, d, 10) /\ n \in Nat
  <2>1. 10 \in Nat \ {0} /\ 10 <= 10 /\ \A j \in a + 1 .. a + d : t[j] \in 0 .. 10 - 1
    BY <1>3
  <2>. QED  BY <1>6, <2>1
<1>8. r.used = a + d /\ r.value = n
  OBVIOUS
<1> HIDE DEF r, n, N
<1>9. \A j \in DOMAIN t : t[j] # Num!Minus
  <2> SUFFICES ASSUME NEW j \in 1 .. N  PROVE t[j] # Num!Minus
    BY <1>5
  <2>1. Num!Space = 10 /\ Num!Minus = 11
    BY DEF Num!Space, Num!Minus
  <2>2. j \in 1 .. a \/ j \in a + 1 .. a + d \/ j \in a + d + 1 .. a + d + b
    BY <1>3
  <2>3. t[j] = Num!Space \/ t[j] \in 0 .. 9
    BY <1>3, <2>2
  <2>. QED  BY <2>1, <2>3
<1>10. ull = IF n < LongSpan THEN Num!Parsed(n) ELSE Num!Failed
  <2>1. ull = IF /\ Num!UnsignedRange(r.value)
                 /\ Num!EndsWell(t, r.used)
                 /\ r.value % LongSpan >= LongSpan \div 2 => \A j \in DOMAIN t : t[j] # Num!Minus
              THEN Num!Parsed(r.value % LongSpan) ELSE Num!Failed
    BY <1>7, Zenon DEF Num!ez_strtoull, Num!Unsigned
  <2>2. ull = IF Num!UnsignedRange(n) THEN Num!Parsed(n % LongSpan) ELSE Num!Failed
    BY <1>7, <1>8, <1>9, <2>1, Zenon
  <2>3. Num!UnsignedRange(n) <=> n < LongSpan
    BY <1>4, <1>7 DEF Num!UnsignedRange
  <2>4. n < LongSpan => n % LongSpan = n
    BY <1>4, <1>7, SmallRemainder
  <2>. QED  BY <2>2, <2>3, <2>4, Zenon
<1>11. ll = IF n < LongSpan \div 2 THEN Num!Parsed(n) ELSE Num!Failed
  <2>1. ll = IF Num!SignedRange(r.value) /\ Num!EndsWell(t, r.used) THEN Num!Parsed(r.value) ELSE Num!Failed
    BY <1>7, Zenon DEF Num!ez_strtoll, Num!Signed
  <2>2. Num!SignedRange(n) <=> n < LongSpan \div 2
    BY <1>4, <1>7 DEF Num!SignedRange
  <2>. QED  BY <1>7, <1>8, <2>1, <2>2, Zenon
<1>12. Num!ez_strtoul(t) = IF ull.ok THEN Num!Parsed(ull.out % IntSpan) ELSE ull
  BY Zenon DEF Num!ez_strtoul, Num!ez_strtoull, Num!Narrowed
<1>13. Num!ez_strtol(t) = IF ll.ok THEN Num!Parsed(Num!ToSigned(ll.out, IntSpan)) ELSE ll
  BY Zenon DEF Num!ez_strtol, Num!ez_strtoll, Num!Narrowed
<1> HIDE DEF ull, ll
<1>14. \A k : Num!Parsed(k).ok = TRUE /\ Num!Parsed(k).out = k
  BY DEF Num!Parsed
<1>15. Num!Failed.ok = FALSE
  BY DEF Num!Failed
<1>16. ASSUME NEW k \in Nat, k < IntSpan \div 2
       PROVE  Num!ToSigned(k, IntSpan) = k
  <2>1. k + (IntSpan \div 2) \in Nat /\ k + (IntSpan \div 2) < IntSpan
    BY <1>4, <1>16
  <2>2. (k + (IntSpan \div 2)) % IntSpan = k + (IntSpan \div 2)
    BY <1>4, <2>1
  <2>. QED  BY <1>4, <2>2 DEF Num!ToSigned
<1>17. Num!ez_strtoul(t).ok = ull.ok /\ Num!ez_strtol(t).ok = ll.ok
  BY <1>10, <1>11, <1>12, <1>13, <1>14, <1>15
<1>18. n < IntSpan => Num!ez_strtoul(t).out = n
  <2> SUFFICES ASSUME n < IntSpan  PROVE Num!ez_strtoul(t).out = n
    OBVIOUS
  <2>1. n < LongSpan /\ n % IntSpan = n
    BY <1>4, <1>7, SmallRemainder
  <2>. QED  BY <1>10, <1>12, <1>14, <2>1
<1>19. n < IntSpan \div 2 => Num!ez_strtol(t).out = n
  <2> SUFFICES ASSUME n < IntSpan \div 2  PROVE Num!ez_strtol(t).out = n
    OBVIOUS
  <2>1. n < LongSpan \div 2 /\ Num!ToSigned(n, IntSpan) = n
    BY <1>4, <1>7, <1>16
  <2>. QED  BY <1>11, <1>13, <1>14, <2>1
<1>20. ASSUME n < IntSpan \div 2, a = 0, t[Len(t)] # Num!Space
       PROVE  Num!ez_atoi(t) = {n}
  <2>1. b = 0
    <3> SUFFICES ASSUME b # 0  PROVE FALSE
      OBVIOUS
    <3>1. N \in a + d + 1 .. a + d + b
      BY <1>3
    <3>. QED  BY <1>3, <1>20, <3>1 DEF N
  <2>2. d = N /\ a + 1 = 1
    BY <1>3, <1>20, <2>1
  <2>3. n = Num!ValueAt(t, 1, Len(t), 10)
    BY <1>7, <2>2 DEF N
  <2>4. \A j \in DOMAIN t : t[j] \in 0 .. 9
    BY <1>3, <1>5, <1>20, <2>2
  <2>5. t # <<>>
    BY <1>5 DEF N
  <2>. QED  BY <1>20, <2>3, <2>4, <2>5, Zenon DEF Num!ez_atoi
<1>21. ASSUME Num!Among(t, (0 .. 7) \cup {Num!Space}), o < IntSpan \div 2
       PROVE  Num!ez_str2oct(t) = Num!Parsed(o)
  <2>1. \A j \in a + 1 .. a + d : t[j] \in 0 .. 8 - 1
    <3> SUFFICES ASSUME NEW j \in a + 1 .. a + d  PROVE t[j] \in 0 .. 8 - 1
      OBVIOUS
    <3>1. j \in DOMAIN t /\ Num!Space = 10 /\ t[j] \in 0 .. 9
      BY <1>3, <1>5 DEF Num!Space
    <3>2. t[j] \in (0 .. 7) \cup {Num!Space}
      BY <1>21, <3>1 DEF Num!Among
    <3>. QED  BY <3>1, <3>2
  <2> DEFINE s == [used |-> a + d, value |-> o]
  <2>2. Num!Strto(t, 8) = s /\ Num!EndsWell(t, a + d) /\ o \in Nat
    <3>1. 8 \in Nat \ {0} /\ 8 <= 10
      OBVIOUS
    <3>. QED  BY <1>6, <2>1, <3>1
  <2>3. s.used = a + d /\ s.value = o
    OBVIOUS
  <2> HIDE DEF s, o
  <2>4. Num!Signed(t, 8) = IF Num!SignedRange(s.value) /\ Num!EndsWell(t, s.used)
                           THEN Num!Parsed(s.value) ELSE Num!Failed
    BY <2>2, Zenon DEF Num!Signed
  <2>5. Num!SignedRange(o)
    BY <1>4, <1>21, <2>2 DEF Num!SignedRange
  <2>6. Num!Signed(t, 8) = Num!Parsed(o)
    BY <2>2, <2>3, <2>4, <2>5, Zenon
  <2>7. Num!ToSigned(o, IntSpan) = o
    BY <1>16, <1>21, <2>2
  <2>. QED  BY <1>14, <2>6, <2>7, Zenon DEF Num!ez_str2oct, Num!Narrowed
<1>. QED  BY <1>2, <1>10, <1>11, <1>17, <1>18, <1>19, <1>20, <1>21, Zenon DEF WrittenLaw, ull, ll, n, o

\* A refusal leaves 0 behind, and a number with a minus sign is not refused
\* only if it is below the range of a signed one.
LEMMA Refusals ==
    ASSUME ConversionsAssumption, NEW t \in Seq(Int)
    PROVE  /\ \A f \in {Num!ez_strtoull(t), Num!ez_strtoll(t), Num!ez_strtol(t), Num!ez_strtoul(t)} :
                ~f.ok => f.out = 0
           /\ Num!ez_strtoull(t).ok /\ Num!Strto(t, 10).value < 0
                => Num!Strto(t, 10).value <= -(LongSpan \div 2)
<1> DEFINE v == Num!Strto(t, 10).value
           ull == Num!ez_strtoull(t)
<1>1. LongSpan \in Nat /\ LongSpan % 2 = 0 /\ LongSpan > 0
  <2> DEFINE q == (LongSpan - 1) \div 10
  <2>1. LongSpan \in Nat /\ LongSpan = 10 * q + 6 /\ q \in Nat
    BY TheLimit
  <2> HIDE DEF q
  <2>. QED  BY <2>1
<1>2. /\ \A k : Num!Parsed(k).ok = TRUE
      /\ Num!Failed.ok = FALSE /\ Num!Failed.out = 0
  BY DEF Num!Parsed, Num!Failed
<1>3. \E k : ull \in {Num!Parsed(k), Num!Failed}
  BY DEF Num!ez_strtoull, Num!Unsigned
<1>4. \E k : Num!ez_strtoll(t) \in {Num!Parsed(k), Num!Failed}
  BY DEF Num!ez_strtoll, Num!Signed
<1>5. Num!ez_strtoul(t) = ull \/ \E k : Num!ez_strtoul(t) = Num!Parsed(k)
  BY DEF Num!ez_strtoul, Num!ez_strtoull, Num!Narrowed
<1>6. Num!ez_strtol(t) = Num!ez_strtoll(t) \/ \E k : Num!ez_strtol(t) = Num!Parsed(k)
  BY DEF Num!ez_strtol, Num!ez_strtoll, Num!Narrowed
<1>7. ull.ok => /\ Num!UnsignedRange(v)
                /\ v % LongSpan >= LongSpan \div 2 => \A j \in DOMAIN t : t[j] # Num!Minus
  BY <1>2, Zenon DEF Num!ez_strtoull, Num!Unsigned
<1>8. v \in Int /\ (v < 0 => \E i \in DOMAIN t : t[i] = Num!Minus)
  BY StrtoSign
<1> HIDE DEF v, ull
<1>9. ASSUME ull.ok, v < 0
      PROVE  v <= -(LongSpan \div 2)
  <2>1. ~(v % LongSpan >= LongSpan \div 2)
    BY <1>7, <1>8, <1>9
  <2>2. v >= -(LongSpan - 1)
    BY <1>1, <1>7, <1>8, <1>9 DEF Num!UnsignedRange
  <2>3. v % LongSpan = v + LongSpan
    BY <1>1, <1>8, <1>9, <2>2
  <2>. QED  BY <1>1, <1>8, <2>1, <2>2, <2>3
<1>10. ASSUME NEW f \in {ull, Num!ez_strtoll(t), Num!ez_strtol(t), Num!ez_strtoul(t)}, ~f.ok
       PROVE  f.out = 0
  BY <1>2, <1>3, <1>4, <1>5, <1>6, <1>10
<1>. QED  BY <1>9, <1>10 DEF ull, v

\* The parsers of ez_util.c agree with the number that is written, as far as
\* their widths go, for any text and any widths.
THEOREM AnyNumber == ConversionsAssumption /\ figures \in Seq(Int) => NumbersLaw
<1> SUFFICES ASSUME ConversionsAssumption, figures \in Seq(Int)
             PROVE  NumbersLaw
  OBVIOUS
<1>1. LenLaw(figures)
  BY LenRight
<1>2. Num!Written(figures) => WrittenLaw(figures)
  BY WrittenRight
<1> DEFINE t == figures
<1>3. /\ \A f \in {Num!ez_strtoull(t), Num!ez_strtoll(t), Num!ez_strtol(t), Num!ez_strtoul(t)} :
           ~f.ok => f.out = 0
      /\ Num!ez_strtoull(t).ok /\ Num!Strto(t, 10).value < 0
           => Num!Strto(t, 10).value <= -(LongSpan \div 2)
  BY Refusals
<1>. QED  BY <1>1, <1>2, <1>3, Zenon DEF NumbersLaw, Num!NumbersLaw, LenLaw, WrittenLaw
=============================================================================
