------------------------------- MODULE Format -------------------------------
(***************************************************************************)
(* The conversions of printf.c.  A text is a sequence of digits, and MINUS *)
(* for the sign; a 64-bit number is its eight bytes, lowest first, as      *)
(* print_hex reads them.                                                   *)
(***************************************************************************)
EXTENDS Integers, Sequences

MINUS == -1

\* The number of zeros a sequence of digits starts with.
LeadingZeros(v) ==
    LET other == { k \in DOMAIN v : v[k] # 0 }
    IN  IF other = {} THEN Len(v) ELSE (CHOOSE k \in other : \A j \in other : k <= j) - 1

\* v[]: two digits of each byte, the highest byte first.
AllDigits(a) ==
    [k \in 1 .. 16 |-> LET byte == a[8 - ((k - 1) \div 2)]
                       IN  IF k % 2 = 1 THEN byte \div 16 ELSE byte % 16]

print_hex(a) ==
    IF \A k \in 1 .. 8 : a[k] = 0 THEN <<0>>
    ELSE SubSeq(AllDigits(a), LeadingZeros(AllDigits(a)) + 1, 16)

\* -a in width bits: the least number is its own negative.
Negate(a, width) == IF a = -(2^(width - 1)) THEN a ELSE -a

\* The digits of a > 0, the highest first; none for other numbers.
Digits(a) ==
    LET n == IF a <= 0 THEN 0 ELSE CHOOSE n \in 1 .. 10 : 10^(n - 1) <= a /\ a \div 10 < 10^(n - 1)
    IN  [k \in 1 .. n |-> (a \div 10^(n - k)) % 10]

\* print_decimal of a number of width bits.  The sign is tested with test_bit, see
\* spin_is_locked of SpinLock for its LOCK prefix.
print_decimal(a, width) ==
    IF a = 0 THEN <<0>>
    ELSE IF a < 0 THEN <<MINUS>> \o Digits(Negate(a, width)) ELSE Digits(a)

-----------------------------------------------------------------------------
(* Reference: what a reader takes a text for. *)

NoZeroFirst(v) == v # <<>> /\ (v[1] = 0 => Len(v) = 1)

ReadHex(v) == LET digit(k) == IF k <= Len(v) THEN v[Len(v) - k + 1] ELSE 0
              IN  [b \in 1 .. 8 |-> 16 * digit(2 * b) + digit(2 * b - 1)]

ReadDecimal(v) ==
    LET body == IF v[1] = MINUS THEN Tail(v) ELSE v
        sum[k \in 0 .. Len(body)] == IF k = 0 THEN 0 ELSE 10 * sum[k - 1] + body[k]
    IN  IF v[1] = MINUS THEN -sum[Len(body)] ELSE sum[Len(body)]
=============================================================================
