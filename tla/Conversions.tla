---------------------------- MODULE Conversions ----------------------------
(***************************************************************************)
(* The conversions of the library side by side, each with what it is       *)
(* given: the number parsers, the encoding of text, and the integers of    *)
(* byte buffers.                                                           *)
(***************************************************************************)
EXTENDS Integers, Sequences

CONSTANTS
    LongSpan, IntSpan,   \* of Numbers
    ByteSpan             \* values of a byte, of ByteBuf

VARIABLES
    figures,    \* the text of a number
    letters,    \* a text
    integers    \* what is written to a buffer, and read again

Num == INSTANCE Numbers

Text == INSTANCE Utf8

Buf == INSTANCE ByteBuf

ConversionsAssumption == Num!NumbersAssumption /\ ByteSpan \in Nat \ {0}

inputVars == <<figures, letters, integers>>

-----------------------------------------------------------------------------
(* Properties.                                                             *)

\* The parsers against the number that is written.
NumbersLaw == Num!NumbersLaw(figures)

\* Encoder and decoder against the table, as far as they follow it.
Utf8Law == Text!Utf8Law(letters)

\* Integers written to a byte buffer come back.
IntegersKept == Buf!Kept(integers, ByteSpan)
=============================================================================
