----------------------------- MODULE RegisterOps -----------------------------
(***************************************************************************)
(* The register operations of TraceReader::process_register_write           *)
(* (src/src/trace_reader.cpp).  A register and the value of an operation    *)
(* are sequences of as many bytes, the lowest first.  Widths of a machine   *)
(* integer are computed as one number, all others byte by byte.             *)
(***************************************************************************)
EXTENDS Integers, Sequences

CONSTANT BitsPerByte          \* 8 in the code

ASSUME ByteAssumption == BitsPerByte \in Nat \ {0}

\* 2^n
PowerOfTwo[n \in Nat] == IF n = 0 THEN 1 ELSE 2 * PowerOfTwo[n - 1]

ByteMod == PowerOfTwo[BitsPerByte]
Bytes(size) == [1..size -> 0..(ByteMod - 1)]
Operators == {"set", "add", "and", "or"}
NativeSizes == {1, 2, 4, 8}

\* What the first n bytes of a buffer count for.
Weight(n) == PowerOfTwo[BitsPerByte * n]

\* A buffer as an unsigned integer and back, the bytes above its size dropped.
ValueOf(bytes) ==
    LET upTo[n \in 0..Len(bytes)] ==
            IF n = 0 THEN 0 ELSE upTo[n - 1] + bytes[n] * Weight(n - 1)
    IN  upTo[Len(bytes)]
BytesOf(n, size) == [i \in 1..size |-> (n \div Weight(i - 1)) % ByteMod]

Bit(n, k) == (n \div PowerOfTwo[k]) % 2
Gate(operator, b, c) == IF operator = "and" THEN b * c ELSE b + c - b * c
OfBits(operator, x, y, bits) ==
    LET upTo[n \in 0..bits] ==
            IF n = 0 THEN 0
            ELSE upTo[n - 1]
                 + Gate(operator, Bit(x, n - 1), Bit(y, n - 1)) * PowerOfTwo[n - 1]
    IN  upTo[bits]

\* What an operation does to unsigned integers of that many bits.
OnNumbers(operator, x, y, bits) ==
    CASE operator = "set" -> y
      [] operator = "add" -> (x + y) % PowerOfTwo[bits]
      [] operator \in {"and", "or"} -> OfBits(operator, x, y, bits)

\* Mutant: the carry is that of the two bytes alone.
AddBytesCarryLost(a, b) ==
    LET Carry(i) == IF i = 0 THEN 0 ELSE (a[i] + b[i]) \div ByteMod
    IN  [i \in DOMAIN a |-> (a[i] + b[i] + Carry(i - 1)) % ByteMod]

\* Mutant: a byte of the result is not cut to its width.
AddBytesWide(a, b) ==
    LET carry[i \in 0..Len(a)] ==
            IF i = 0 THEN 0 ELSE (a[i] + b[i] + carry[i - 1]) \div ByteMod
    IN  [i \in DOMAIN a |-> a[i] + b[i] + carry[i - 1]]

AddBytes(a, b) ==
    LET carry[i \in 0..Len(a)] ==
            IF i = 0 THEN 0 ELSE (a[i] + b[i] + carry[i - 1]) \div ByteMod
    IN  [i \in DOMAIN a |-> (a[i] + b[i] + carry[i - 1]) % ByteMod]

OnBytes(operator, a, b) ==
    IF operator = "add" THEN AddBytes(a, b)
    ELSE [i \in DOMAIN a |-> OnNumbers(operator, a[i], b[i], BitsPerByte)]

\* The new content of a register that holds `a'.
Applied(operator, a, b) ==
    IF Len(b) \in NativeSizes
    THEN BytesOf(OnNumbers(operator, ValueOf(a), ValueOf(b), BitsPerByte * Len(b)), Len(b))
    ELSE OnBytes(operator, a, b)

=============================================================================
