-------------------------------- MODULE Utf8 --------------------------------
(***************************************************************************)
(* ez_utf8_encode and ez_utf8_decode (ez_string.c) over sequences of       *)
(* wide characters and of bytes, beside the encoding table that the        *)
(* comment above them gives.  wchar_t is a signed 32-bit integer.          *)
(***************************************************************************)
EXTENDS Integers, Sequences

\* The classes of the table, by the number of bytes: largest character, marker
\* of the first byte, and what its lowest bit stands for.
Largest == <<127, 2047, 65535, 1114111>>
Marker  == <<0, 192, 224, 240>>
Worth   == <<1, 64, 4096, 262144>>

\* ez_utf8_encode: the bytes of one character; none if it is out of range.
Bytes2(c) == <<192 + ((c \div 64) % 32), 128 + (c % 64)>>
Bytes3(c) == <<224 + ((c \div 4096) % 16), 128 + ((c \div 64) % 64), 128 + (c % 64)>>
Bytes4(c) == <<240 + ((c \div 262144) % 8), 128 + ((c \div 4096) % 64),
               128 + ((c \div 64) % 64), 128 + (c % 64)>>

\* Slip: the class of three bytes begins one character late.
BytesOfLate(c) ==
    IF c <= 127 THEN <<c % 256>>
    ELSE IF c <= 2048 THEN Bytes2(c)
    ELSE IF c <= 65535 THEN Bytes3(c)
    ELSE IF c <= 1114111 THEN Bytes4(c) ELSE <<>>

BytesOf(c) ==
    IF c <= 127 THEN <<c % 256>>
    ELSE IF c <= 2047 THEN Bytes2(c)
    ELSE IF c <= 65535 THEN Bytes3(c)
    ELSE IF c <= 1114111 THEN Bytes4(c) ELSE <<>>

\* ez_utf8_encode advances past an ASCII character and, like past any other,
\* once more at the end of its loop.
After(src, i) == IF src[i] <= 127 THEN i + 2 ELSE i + 1

Encode(src) ==
    LET from[i \in 1 .. Len(src) + 2] ==
          IF i > Len(src) THEN <<>> ELSE BytesOf(src[i]) \o from[After(src, i)]
    IN  from[1]

\* left_bits: the length a first byte announces, 0 for none
LeftBits(b) ==
    IF b \div 32 = 6 THEN 2 ELSE IF b \div 16 = 14 THEN 3
    ELSE IF b \div 8 = 30 THEN 4 ELSE 0

\* (high << 5) | low for a low of six bits: bit 5 is in both
ShiftBy5(high, low) ==
    high * 32 + low - (IF high % 2 = 1 /\ low >= 32 THEN 32 ELSE 0)

\* The character of n bytes at place i.
CharAt(src, i, n) ==
    LET low(k) == src[i + k] % 64
    IN  CASE n = 1 -> src[i]
          [] n = 2 -> ShiftBy5(src[i] % 32, low(1))
          [] n = 3 -> ((src[i] % 16) * 64 + low(1)) * 64 + low(2)
          [] n = 4 -> (((src[i] % 8) * 64 + low(1)) * 64 + low(2)) * 64 + low(3)

\* ez_utf8_decode, of a text that does not end within a character: the code
\* reads on past the end of one that does
Length(b) == IF b <= 127 THEN 1 ELSE LeftBits(b)

Decode(src) ==
    LET from[i \in 1 .. Len(src) + 4] ==
          IF i > Len(src) THEN <<>>
          ELSE IF Length(src[i]) = 0 THEN from[i + 1]
          ELSE <<CharAt(src, i, Length(src[i]))>> \o from[i + Length(src[i])]
    IN  from[1]

-----------------------------------------------------------------------------
(* Reference: the table.                                                   *)

\* Bytes a character takes: its class.
Class(c) == CHOOSE n \in 1 .. 4 : c <= Largest[n] /\ (n > 1 => c > Largest[n - 1])

\* x's are filled with the character's bits from the right, six in each byte
\* but the first.
TableBytes(c) ==
    LET n == Class(c)
    IN  [k \in 1 .. n |->
           IF k = 1 THEN Marker[n] + c \div Worth[n]
           ELSE 128 + ((c \div Worth[n + 1 - k]) % 64)]

\* The text but for the characters at some places.
TableBut(text, out) ==
    LET upto[i \in 0 .. Len(text)] ==
          IF i = 0 THEN <<>>
          ELSE upto[i - 1] \o (IF i \in out THEN <<>> ELSE TableBytes(text[i]))
    IN  upto[Len(text)]

Table(text) == TableBut(text, {})

\* characters the table gives an encoding
InTable(c) == (0 <= c /\ c <= 55295) \/ (57344 <= c /\ c <= 1114111)

\* The places right behind an ASCII character that is not itself left out.
Lost(text) ==
    LET out[i \in 0 .. Len(text)] == i > 1 /\ ~out[i - 1] /\ text[i - 1] <= 127
    IN  {i \in 1 .. Len(text) : out[i]}

\* The encoding is that of the table (ez_string.c:62-69), except that the
\* character behind an ASCII one is lost; decoding is exact unless there are
\* characters of two bytes; nothing is written behind four bytes for each
\* character, those beyond the table included.
Utf8Law(text) ==
    /\ Len(Encode(text)) <= 4 * Len(text)
    /\ (\A i \in DOMAIN text : InTable(text[i])) =>
         /\ Encode(text) = TableBut(text, Lost(text))
         /\ (\A i \in DOMAIN text : Class(text[i]) # 2) => Decode(Table(text)) = text
=============================================================================
