---------------------------- MODULE MCExceptions ----------------------------
(* Vectors and values for Exceptions, and the conversions of Format.           *)
EXTENDS Exceptions

\* Every vector with an entry of its own, the reserved 15, and the int 100 of
\* _test_except.
MCVectors == 0 .. 19 \cup {100}

\* A selector with a zero in it.
MCCodes == {<<160, 1, 0, 0, 0, 0, 0, 0>>}

\* Somewhere in the kernel.
MCRips == {<<240, 10, 16, 0, 0, 128, 255, 255>>}

\* The conversions read back as the number: every number of ten bits but the
\* least one, and every pair of neighbouring bytes.
ASSUME DecimalReadsBack ==
    \A a \in -511 .. 511 : ReadDecimal(print_decimal(a, 10)) = a

ASSUME HexReadsBack ==
    \A k \in 1 .. 7, x \in {0, 1, 15, 16, 159, 160, 255}, y \in {0, 9, 10, 171} :
        LET a == [ZERO EXCEPT ![k] = x, ![k + 1] = y]
        IN  ReadHex(print_hex(a)) = a /\ NoZeroFirst(print_hex(a))
=============================================================================
