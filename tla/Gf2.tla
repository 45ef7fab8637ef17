--------------------------------- MODULE Gf2 ---------------------------------
(***************************************************************************)
(* 128-bit registers as the sets of their one bits, with the vector        *)
(* instructions that src/engine/aesgcm.h and src/http1/crc32_clmul.h use.  *)
(* Exclusive or is symmetric difference.                                   *)
(***************************************************************************)
EXTENDS Integers, FiniteSets, FiniteSetsExt

Register == 0..127

Xor(a, b) == SymDiff(a, b)

\* The low (0) or high (1) 64 bits.
HalfOf(x, h) == {b - 64 * h : b \in {c \in x : c \div 64 = h}}

\* The bits of a number below 2^16, and of three such from the low one up.
BitsOf(n) == {b \in 0..15 : (n \div 2^b) % 2 = 1}
Const48(n0, n1, n2) ==
    BitsOf(n0) \cup {b + 16 : b \in BitsOf(n1)} \cup {b + 32 : b \in BitsOf(n2)}

\* The carry-less product of two halves: bit s of it is the parity of the ways
\* to write s as a bit of a plus a bit of b.
Product(a, b) ==
    {s \in 0..126 : Cardinality({i \in a : (s - i) \in b}) % 2 = 1}

\* PCLMULQDQ: half ha of a times half hb of b.
clmul(a, ha, b, hb) == Product(HalfOf(a, ha), HalfOf(b, hb))

\* Shifts of the whole register by n bytes, and of its 32-bit lanes by n bits.
slli_si128(x, n) == {b + 8 * n : b \in {c \in x : c + 8 * n \in Register}}
srli_si128(x, n) == {b - 8 * n : b \in {c \in x : c >= 8 * n}}
slli_epi32(x, n) == {b + n : b \in {c \in x : (c % 32) + n < 32}}
srli_epi32(x, n) == {b - n : b \in {c \in x : c % 32 >= n}}
=============================================================================
