------------------------------- MODULE Numbers -------------------------------
(***************************************************************************)
(* The number parsers of ez_util.c.  A text is a sequence of characters:   *)
(* the digits 0 .. 9, and the four below.  The widths of long (as of long  *)
(* long) and of int are parameters; any that divide one another and agree  *)
(* with 2^64 in the last digit will do.                                    *)
(***************************************************************************)
EXTENDS Integers, Sequences

CONSTANTS
    LongSpan, \* 2^64
    IntSpan   \* 2^32

NumbersAssumption ==
    /\ LongSpan \in Nat /\ IntSpan \in Nat \ {0}
    /\ LongSpan % 10 = 6 /\ IntSpan % 2 = 0
    /\ LongSpan % IntSpan = 0

Space == 10
Minus == 11
Plus  == 12
Other == 13

Failed == [ok |-> FALSE, out |-> 0]
Parsed(n) == [ok |-> TRUE, out |-> n]

Least(S) == CHOOSE m \in S : \A k \in S : m <= k

\* Number of characters at place i and after that are in S.
Run(t, i, S) ==
    LET stop == {j \in i .. Len(t) : t[j] \notin S}
    IN  (IF stop = {} THEN Len(t) + 1 ELSE Least(stop)) - i

\* The value of n digits at place i.
ValueAt(t, i, n, base) ==
    LET v[k \in 0 .. n] == IF k = 0 THEN 0 ELSE v[k - 1] * base + t[i + k - 1]
    IN  v[n]

\* strtol and its kin: blanks, a sign, digits.  `used' is how far endptr gets.
Strto(t, base) ==
    LET blanks == Run(t, 1, {Space})
        sign   == IF blanks < Len(t) /\ t[blanks + 1] \in {Minus, Plus} THEN 1 ELSE 0
        first  == blanks + sign + 1
        digits == Run(t, first, 0 .. base - 1)
        value  == ValueAt(t, first, digits, base)
    IN  IF digits = 0 THEN [used |-> 0, value |-> 0]
        ELSE [used |-> blanks + sign + digits,
              value |-> IF sign = 1 /\ t[blanks + 1] = Minus THEN -value ELSE value]

\* isspace(*endptr) || (*endptr == '\0' && endptr != str)
EndsWell(t, used) ==
    IF used < Len(t) THEN t[used + 1] = Space ELSE used # 0

\* errno is ERANGE
SignedRange(n)   == n \in -(LongSpan \div 2) .. LongSpan \div 2 - 1
UnsignedRange(n) == n \in -(LongSpan - 1) .. LongSpan - 1

ToSigned(n, span) == ((n + span \div 2) % span) - span \div 2

\* strtol as ez_strtoll, ez_strtol and ez_str2oct use it
Signed(t, base) ==
    LET r == Strto(t, base)
    IN  IF SignedRange(r.value) /\ EndsWell(t, r.used) THEN Parsed(r.value) ELSE Failed

\* strtoul as ez_strtoull and ez_strtoul use it: a minus sign is refused only
\* when the result, as a signed number, is negative
Unsigned(t) ==
    LET r == Strto(t, 10)
        u == r.value % LongSpan
    IN  IF /\ UnsignedRange(r.value)
           /\ EndsWell(t, r.used)
           /\ u >= LongSpan \div 2 => \A i \in DOMAIN t : t[i] # Minus
        THEN Parsed(u) ELSE Failed

Narrowed(r, n) == IF r.ok THEN Parsed(n) ELSE r

ez_strtoull(t) == Unsigned(t)
ez_strtoll(t)  == Signed(t, 10)
ez_strtoul(t)  == Narrowed(Unsigned(t), Unsigned(t).out % IntSpan)
ez_strtol(t)   == Narrowed(Signed(t, 10), ToSigned(Signed(t, 10).out, IntSpan))
ez_str2oct(t)  == Narrowed(Signed(t, 8), ToSigned(Signed(t, 8).out, IntSpan))

\* Slip: one digit more is taken at the limit.
AtLimitLate(n) == n > (LongSpan - 1) \div 10

\* another digit might go beyond UINT64_MAX
AtLimit(n) == n >= (LongSpan - 1) \div 10

\* ez_strtoull_len: the loop over the digits stops the function at the limit
ez_strtoull_len(t) ==
    LET first  == Run(t, 1, {Space}) + 1
        digits == Run(t, first, 0 .. 9)
        late   == {k \in 0 .. digits - 1 : AtLimit(ValueAt(t, first, k, 10))}
        behind == first + digits
    IN  IF late # {}
        THEN [ok |-> FALSE, out |-> ValueAt(t, first, Least(late), 10)]
        ELSE [ok |-> behind + Run(t, behind, {Space}) > Len(t),
              out |-> ValueAt(t, first, digits, 10) % LongSpan]

\* ez_atoi: -1 for anything but digits.  Beyond int the sum overflows, which
\* is undefined: the result may be any int.
ez_atoi(t) ==
    LET value == ValueAt(t, 1, Len(t), 10)
    IN  IF t = <<>> \/ \E i \in DOMAIN t : t[i] \notin 0 .. 9 THEN {-1}
        ELSE IF value < IntSpan \div 2 THEN {value}
        ELSE -(IntSpan \div 2) .. IntSpan \div 2 - 1

-----------------------------------------------------------------------------
(* Reference and property.                                                 *)

Among(t, S) == \A i \in DOMAIN t : t[i] \in S

\* Nothing but blanks.
Blank(t) == Among(t, {Space})

\* The text is a number with blanks around it, and nothing else.
Written(t) ==
    /\ Among(t, (0 .. 9) \cup {Space}) /\ ~Blank(t)
    /\ \A i, j \in DOMAIN t :
         i < j /\ t[i] # Space /\ t[j] # Space => \A k \in i .. j : t[k] # Space

\* The value of everything but the blanks.
Number(t, base) ==
    LET upto[k \in 0 .. Len(t)] ==
          IF k = 0 THEN 0
          ELSE IF t[k] = Space THEN upto[k - 1] ELSE base * upto[k - 1] + t[k]
    IN  upto[Len(t)]

\* ez_strtoull_len accepts blank texts and numbers "up to (UINT64_MAX - 6)"
\* (ez_util.c:82-85) and nothing else.  The others, which ignore whatever
\* follows a blank, agree on plain numbers as far as their width goes: the
\* long ones are exact or refuse; an int one is exact within int, and what a
\* long holds beyond it comes back cut to the low bits and is not refused.
\* An unsigned result that is not refused is never a wrapped small negative.
NumbersLaw(t) ==
    LET n == Number(t, 10)
        o == Number(t, 8)
        Fits(r, limit) == r = IF n < limit THEN Parsed(n) ELSE Failed
    IN  /\ ez_strtoull_len(t).ok <=> (Blank(t) \/ (Written(t) /\ n <= LongSpan - 7))
        /\ ez_strtoull_len(t).ok => ez_strtoull_len(t).out = n
        /\ Written(t) =>
             /\ Fits(ez_strtoull(t), LongSpan)
             /\ Fits(ez_strtoll(t), LongSpan \div 2)
             /\ ez_strtoul(t).ok = ez_strtoull(t).ok
             /\ ez_strtol(t).ok = ez_strtoll(t).ok
             /\ n < IntSpan => ez_strtoul(t).out = n
             /\ n < IntSpan \div 2 => ez_strtol(t).out = n
             /\ n < IntSpan \div 2 /\ Run(t, 1, {Space}) = 0 /\ t[Len(t)] # Space
                  => ez_atoi(t) = {n}
             /\ Among(t, (0 .. 7) \cup {Space}) /\ o < IntSpan \div 2
                  => ez_str2oct(t) = Parsed(o)
        /\ \A f \in {ez_strtoull(t), ez_strtoll(t), ez_strtol(t), ez_strtoul(t)} :
             ~f.ok => f.out = 0
        /\ ez_strtoull(t).ok /\ Strto(t, 10).value < 0
             => Strto(t, 10).value <= -(LongSpan \div 2)
=============================================================================
