-------------------------------- MODULE Words --------------------------------
(***************************************************************************)
(* The machine words that both instruction interpreters of the repository  *)
(* compute with: C's int and unsigned int on a little-endian host.  A word *)
(* has four bytes of ByteBits bits (8 in the code) and is represented by   *)
(* its unsigned value; Signed gives its value as an int.                   *)
(***************************************************************************)
EXTENDS Integers, Sequences, Bitwise

CONSTANTS ByteBits,
          MaxReg,        \* the general registers are 0..MaxReg; MaxReg plays R31
          DataBase,      \* address of the first byte of data
          DataSize       \* number of bytes of data

ASSUME WordsAssumption == ByteBits \in Nat \ {0} /\ MaxReg \in Nat \ {0} /\ DataBase % 4 = 0

DataAddr == DataBase..(DataBase + DataSize - 1)

HalfBits == 2 * ByteBits

WordBits == 4 * ByteBits

Radix == 2^WordBits

Word == 0..(Radix - 1)

\* Arithmetic on ints wraps around (the build uses no -ftrapv).
Wrap(i) == i % Radix

Negative(x) == x >= Radix \div 2

Signed(x) == IF Negative(x) THEN x - Radix ELSE x

\* The low "bits" bits of x, and the same bits read as a signed number.
Low(x, bits) == x % 2^bits

Extend(x, bits) == IF Low(x, bits) >= 2^(bits - 1) THEN Wrap(Low(x, bits) - 2^bits) ELSE Low(x, bits)

Complement(x) == Radix - 1 - x

ShiftLeft(x, n) == Wrap(x * 2^n)

\* >> on an int keeps the sign, on an unsigned int it does not.
ShiftSigned(x, n) == Wrap(Signed(x) \div 2^n)

ShiftUnsigned(x, n) == x \div 2^n

Magnitude(i) == IF i < 0 THEN -i ELSE i

\* C's / and % on ints truncate towards zero.
Quotient(a, b) == LET q == Magnitude(a) \div Magnitude(b) IN IF (a < 0) = (b < 0) THEN q ELSE -q

Remainder(a, b) == a - b * Quotient(a, b)

IndexToAddr(x) == ShiftLeft(x, 2)

Truth(b) == IF b THEN 1 ELSE 0

\* The little-endian value of the n bytes of memory at address a, and memory
\* with those bytes replaced by the low n bytes of v.
BytesAt(memory, a, n) ==
    LET sum[k \in 0..n] == IF k = 0 THEN 0 ELSE sum[k - 1] + memory[a + k - 1] * 2^(ByteBits * (k - 1))
    IN  sum[n]

WithBytes(memory, a, n, v) ==
    [k \in DOMAIN memory |->
        IF k \in a..(a + n - 1) THEN Low(v \div 2^(ByteBits * (k - a)), ByteBits) ELSE memory[k]]

=============================================================================
