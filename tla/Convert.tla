-------------------------------- MODULE Convert --------------------------------
(***************************************************************************)
(* The conversions of common/convert.c.  string2uint_range reads a text    *)
(* with a finite automaton, one character a step, and computes in words of *)
(* Width bits; every text read so far is also a text that might end here.  *)
(* uint2float rounds an unsigned number to a float with Fraction bits      *)
(* after the point.                                                        *)
(*                                                                         *)
(* A definition called "faulty" is a slip the code might have had; nothing *)
(* uses it but the tests of the properties.                                *)
(***************************************************************************)
EXTENDS Integers, Sequences, Functions

CONSTANTS
    Width,          \* 64: bits of a uint64_t
    Alphabet,       \* the characters of the texts
    MaxText,        \* bound: characters of a text
    IntWidth,       \* 32: bits of a uint32_t
    Fraction,       \* 23: bits of a fraction
    Bias            \* 127, odd

VARIABLES
    text,           \* what string2uint_range has read
    dfa,            \* its state, or Fail
    uv, sign_bit,
    number          \* the argument of uint2float

vars == <<text, dfa, uv, sign_bit, number>>

Fail == -1

Word(i) == i % 2^Width

Blanks == {" ", "tab"}
Decimal == <<"0", "1", "2", "3", "4", "5", "6", "7", "8", "9">>
Hexadecimal == Decimal \o <<"a", "b", "c", "d", "e", "f">>
Value(c) == (CHOOSE i \in DOMAIN Hexadecimal : Hexadecimal[i] = c) - 1

Init ==
    /\ text = <<>> /\ dfa = 0 /\ uv = 0 /\ sign_bit = 0
    /\ number \in 0 .. 2^IntWidth - 1

-----------------------------------------------------------------------------
(* Text to number.                                                         *)

Go(to, value) == dfa' = to /\ uv' = value /\ UNCHANGED sign_bit

\* Faulty: the overflow is looked for in the top bit of the word.
TopBitTested(base, c) ==
    LET next == Word(uv * base + Value(c))
    IN  IF uv >= 2^(Width - 1) THEN Go(Fail, next) ELSE Go(IF base = 10 THEN 2 ELSE 5, next)

\* one more digit, unless the word has become smaller
Digit(base, c) ==
    LET next == Word(uv * base + Value(c))
    IN  IF uv > next THEN Go(Fail, next) ELSE Go(IF base = 10 THEN 2 ELSE 5, next)

\* leading blanks, and the first character of the number
Start(c) ==
    /\ dfa = 0
    /\ \/ c = "0" /\ Go(1, 0)
       \/ c \in Range(Tail(Decimal)) /\ Go(2, Value(c))
       \/ c = "-" /\ dfa' = 3 /\ sign_bit' = 1 /\ UNCHANGED uv
       \/ c \in Blanks /\ Go(0, uv)
       \/ c \notin Range(Decimal) \cup {"-"} \cup Blanks /\ Go(Fail, uv)

\* after a leading zero
Zero(c) ==
    /\ dfa = 1
    /\ \/ c \in Range(Decimal) /\ Go(2, Word(uv * 10 + Value(c)))
       \/ c = "x" /\ Go(4, uv)
       \/ c = " " /\ Go(6, uv)
       \/ c \notin Range(Decimal) \cup {"x", " "} /\ Go(Fail, uv)

DecimalDigits(c) ==
    /\ dfa = 2
    /\ \/ c \in Range(Decimal) /\ Digit(10, c)
       \/ c = " " /\ Go(6, uv)
       \/ c \notin Range(Decimal) \cup {" "} /\ Go(Fail, uv)

Minus(c) ==
    /\ dfa = 3
    /\ \/ c = "0" /\ Go(1, uv)
       \/ c \in Range(Tail(Decimal)) /\ Go(2, Value(c))
       \/ c \notin Range(Decimal) /\ Go(Fail, uv)

HexDigits(c) ==
    /\ dfa \in {4, 5}
    /\ \/ c \in Range(Hexadecimal) /\ Digit(16, c)
       \/ c \in Blanks /\ dfa = 5 /\ Go(6, uv)
       \/ /\ c \notin Range(Hexadecimal)
          /\ dfa = 4 \/ c \notin Blanks
          /\ Go(Fail, uv)

TrailingBlanks(c) ==
    /\ dfa = 6
    /\ \/ c \in Blanks /\ Go(6, uv)
       \/ c \notin Blanks /\ Go(Fail, uv)

Read(c) ==
    /\ Len(text) < MaxText
    /\ number = 0
    /\ text' = Append(text, c)
    /\ Start(c) \/ Zero(c) \/ DecimalDigits(c) \/ Minus(c) \/ HexDigits(c) \/ TrailingBlanks(c)
    /\ UNCHANGED number

Next == \E c \in Alphabet : Read(c)

Spec == Init /\ [][Next]_vars

\* The end of the text: a negative number must not use the sign bit.  The
\* rest is exit, as a failure of the automaton is.
Returns == dfa # Fail /\ ~ (sign_bit = 1 /\ uv >= 2^(Width - 1))
Returned == IF sign_bit = 1 THEN Word(- uv) ELSE uv

-----------------------------------------------------------------------------
(* Number to float, packed: exponent and fraction.                         *)

Pack(e, f) == e * 2^Fraction + f

HighestBit(u) == CHOOSE n \in 0 .. IntWidth - 1 : 2^n <= u /\ u < 2^(n + 1)

\* Faulty: halves are always rounded up.
HalfUp(u, n) == (u \div 2^(n - Fraction)) + ((u \div 2^(n - Fraction - 1)) % 2)

\* the carry is R & (G | S)
Rounded(u, n) ==
    LET g == (u \div 2^(n - Fraction)) % 2
        r == (u \div 2^(n - Fraction - 1)) % 2
        s == u % 2^(n - Fraction - 1)
    IN  (u \div 2^(n - Fraction)) + IF r = 1 /\ (g = 1 \/ s # 0) THEN 1 ELSE 0

\* For 1 the mask is shifted by all its bits, which leaves nothing or
\* everything of it; the bit that may then stray is one the bias has set.
Uint2Float(u) ==
    LET n == HighestBit(u)
        a == Rounded(u, n)
    IN  CASE u = 0 -> {0}
          [] u = 1 -> {Pack(Bias, 0), IF Bias % 2 = 1 THEN Pack(Bias, 0) ELSE Pack(Bias + 1, 0)}
          [] u \in 2 .. 2^(Fraction + 1) - 1 ->
                 {Pack(n + Bias, (u % 2^n) * 2^(Fraction - n))}
          [] u >= 2^(Fraction + 1) /\ a < 2^(Fraction + 1) -> {Pack(n + Bias, a % 2^Fraction)}
          [] u >= 2^(Fraction + 1) /\ a = 2^(Fraction + 1) -> {Pack(n + 1 + Bias, 0)}

-----------------------------------------------------------------------------
(* What the texts and the floats mean.                                     *)

\* the number written in t, without its blanks: sign, base and magnitude
Body(t) ==
    LET Inner(i) == t[i] \notin Blanks
        ends     == {i \in DOMAIN t : Inner(i)}
    IN  IF ends = {} THEN <<>>
        ELSE SubSeq(t, CHOOSE i \in ends : \A j \in ends : i <= j,
                       CHOOSE i \in ends : \A j \in ends : j <= i)

Negative(t) == Body(t) # <<>> /\ Head(Body(t)) = "-"
Unsigned(t) == IF Negative(t) THEN Tail(Body(t)) ELSE Body(t)
IsHex(t)    == Len(Unsigned(t)) > 2 /\ SubSeq(Unsigned(t), 1, 2) = <<"0", "x">>
Digits(t)   == IF IsHex(t) THEN SubSeq(Unsigned(t), 3, Len(Unsigned(t))) ELSE Unsigned(t)
Radix(t)    == IF IsHex(t) THEN 16 ELSE 10
IsNumeral(t) ==
    /\ Digits(t) # <<>>
    /\ Range(Digits(t)) \subseteq Range(IF IsHex(t) THEN Hexadecimal ELSE Decimal)

Magnitude(t) ==
    LET first[n \in 0..Len(Digits(t))] ==
            IF n = 0 THEN 0 ELSE first[n - 1] * Radix(t) + Value(Digits(t)[n])
    IN  first[Len(Digits(t))]
Meaning(t) == IF Negative(t) THEN - Magnitude(t) ELSE Magnitude(t)

Fits(t) == - 2^(Width - 1) < Meaning(t) /\ Meaning(t) < 2^Width

\* blanks after a decimal number begin with a space
BlanksAccepted(t) == IsHex(t) \/ t[Len(t)] \notin Blanks \/ \E i \in DOMAIN t :
    t[i] = " " /\ i > 1 /\ t[i - 1] \notin Blanks

\* a negative number that needs the sign bit, or a number just too large
JustOver(t) ==
    \/ Negative(t) /\ Magnitude(t) \in 2^(Width - 1) .. 2^Width - 1
    \/ Magnitude(t) - 2^Width \in 0 .. (2^Width \div Radix(t)) - 1

\* Every number that fits is read, and as what it means; what is returned for
\* any other number agrees with it in the bits of the word.  Texts that are
\* not numbers are refused, except blanks and a bare 0x, which are read as 0.
\* The test for overflow (convert.c:103, 148) compares the wrapped word with
\* the one before it: numbers up to a tenth, or a sixteenth, over 2^Width are
\* refused, but some larger ones wrap to a word that is not smaller.
TextExact ==
    /\ Returns =>
           IF IsNumeral(text) THEN Returned = Word(Meaning(text))
           ELSE Returned = 0 /\ Unsigned(text) \in {<<>>, <<"0", "x">>}
    /\ IsNumeral(text) /\ Fits(text) /\ BlanksAccepted(text) => Returns
    /\ IsNumeral(text) /\ JustOver(text) => ~ Returns

\* the value of a float and its distance from u, both times 2^Fraction
FloatValue(fl) ==
    IF fl = 0 THEN 0
    ELSE (2^Fraction + (fl % 2^Fraction)) * 2^(fl \div 2^Fraction - Bias)
Distance(u, fl) ==
    LET d == u * 2^Fraction - FloatValue(fl) IN IF d < 0 THEN - d ELSE d

\* uint2float returns the nearest float, and of two nearest ones the even one
\* (convert.c:257, the table of guard, round and sticky bits), whatever the
\* shift by 32 - n (convert.c:233) leaves when n is 0.
FloatNearest ==
    \A fl \in Uint2Float(number) :
        \A other \in Pack(Bias, 0) .. Pack(Bias + IntWidth + 1, 0) \cup {0} :
            \/ Distance(number, fl) < Distance(number, other)
            \/ other = fl
            \/ Distance(number, fl) = Distance(number, other) /\ fl % 2 = 0

ConversionsExact == TextExact /\ FloatNearest
=============================================================================
