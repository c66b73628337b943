------------------------------ MODULE ByteBuf ------------------------------
(***************************************************************************)
(* The byte buffer (ez_bytebuf.c): a block of cap bytes with a read        *)
(* position r and a write position w.  The socket functions move the       *)
(* positions; nothing but the callers' use of writeable and readable size  *)
(* keeps them within the block.  Sizes are multiples of the machine word,  *)
(* which EZ_ALIGN leaves alone.                                            *)
(***************************************************************************)
EXTENDS Integers, Sequences

Junk == -1      \* content of a byte nobody has written

\* new_bytebuf
NewBuf(size) ==
    [data |-> [i \in 0 .. size - 1 |-> Junk], r |-> 0, w |-> 0, cap |-> size]

\* Slip: the room behind the write position is taken for the whole block.
WriteableAll(b) == b.cap

\* bytebuf_writeable_size
Writeable(b) == b.cap - b.w

\* bytebuf_readable_size
Readable(b) == b.w - b.r

\* bytebuf_reset
ResetBuf(b) == [b EXCEPT !.r = 0, !.w = 0, !.data[0] = Junk]

\* bytebuf_resize: to exactly size bytes, whatever the two positions are
Resized(b, size) ==
    [b EXCEPT !.cap = size,
              !.data = [i \in 0 .. size - 1 |->
                          IF i < b.cap THEN b.data[i] ELSE Junk]]

\* bytes stored at the write position, which moves behind them
Filled(b, bytes) ==
    [b EXCEPT !.w = @ + Len(bytes),
              !.data = [i \in DOMAIN @ |->
                          IF i - b.w \in 0 .. Len(bytes) - 1
                          THEN bytes[i - b.w + 1] ELSE @[i]]]

-----------------------------------------------------------------------------
(* Integers of n bytes, a byte having `span' values (256 in the code).     *)

\* v shifted right by k bytes, the sign kept
Shifted(v, k, span) ==
    LET shift[i \in 0 .. k] == IF i = 0 THEN v ELSE shift[i - 1] \div span
    IN  shift[k]

\* bytebuf_write_int16, _int32, _int64: the highest byte first.  The bytes of
\* a negative number are those of its two's complement.
BigEndian(v, n, span) == [i \in 1 .. n |-> Shifted(v, n - i, span) % span]

Backwards(bytes) == [i \in DOMAIN bytes |-> bytes[Len(bytes) + 1 - i]]

\* bytebuf_write_int16_le, _int32_le, _int64_le
LittleEndian(v, n, span) == Backwards(BigEndian(v, n, span))

\* how many values n bytes have
Values(n, span) ==
    LET power[i \in 0 .. n] == IF i = 0 THEN 1 ELSE power[i - 1] * span
    IN  power[n]

\* Slip: the sign is lost.
SignedUnsigned(u, n, span) == u

\* what is assembled is stored in a signed integer of n bytes
Signed(u, n, span) ==
    LET values == Values(n, span)
    IN  IF 2 * u >= values THEN u - values ELSE u

\* bytebuf_read_int16, _int32, _int64
FromBig(bytes, span) ==
    LET u[i \in 0 .. Len(bytes)] == IF i = 0 THEN 0 ELSE u[i - 1] * span + bytes[i]
    IN  Signed(u[Len(bytes)], Len(bytes), span)

\* bytebuf_read_int16_le, _int32_le, _int64_le
FromLittle(bytes, span) == FromBig(Backwards(bytes), span)

\* the next n bytes, which bytebuf_read_... takes without looking at w
Upcoming(b, n) == [i \in 1 .. n |-> b.data[b.r + i - 1]]

-----------------------------------------------------------------------------
\* n bytes taken from the read position
Drained(b, n) == [b EXCEPT !.r = @ + n]

\* what is still to be read
Contents(b) == [i \in 1 .. Readable(b) |-> b.data[b.r + i - 1]]

-----------------------------------------------------------------------------
(* Property of the integers.                                               *)

\* A value, its width, and whether it is written low byte first.
Write(b, x, span) ==
    Filled(b, IF x.little THEN LittleEndian(x.val, x.n, span)
                          ELSE BigEndian(x.val, x.n, span))

Read(b, x, span) ==
    IF x.little THEN FromLittle(Upcoming(b, x.n), span)
                ELSE FromBig(Upcoming(b, x.n), span)

\* Integers of any widths and orders, written one behind the other, come back
\* when read with the same widths and orders, the sign included, and then the
\* two positions meet.
Kept(xs, span) ==
    LET at[i \in 0 .. Len(xs)] == IF i = 0 THEN 0 ELSE at[i - 1] + xs[i].n
        full[i \in 0 .. Len(xs)] ==
          IF i = 0 THEN NewBuf(at[Len(xs)]) ELSE Write(full[i - 1], xs[i], span)
        left(i) == Drained(full[Len(xs)], at[i])
    IN  /\ \A i \in 1 .. Len(xs) : Read(left(i - 1), xs[i], span) = xs[i].val
        /\ Contents(left(Len(xs))) = <<>>
=============================================================================
