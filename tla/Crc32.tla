-------------------------------- MODULE Crc32 --------------------------------
(***************************************************************************)
(* CRC-32 by folding: viltrum_crc32_clmul of src/http1/crc32_clmul.h and   *)
(* its caller crc32 of src/http1/deflate.v, at their real sizes.  A        *)
(* message is the set of its one bits, bit b of byte i being 8 * i + b, as *)
(* a register loads them.                                                  *)
(***************************************************************************)
EXTENDS Gf2, Sequences

\* The folding constants, from the hexadecimal words of the source.
k1 == Const48(\h2bd4, \h5444, \h1)
k2 == Const48(\h1596, \hc6e4, \h1)
k3 == Const48(\h97d0, \h7519, \h1)
k4 == Const48(\h009e, \hccaa, \h0)
k5 == Const48(\h6124, \h63cd, \h1)
poly0 == Const48(\h0641, \hdb71, \h1)
poly1 == Const48(\h1641, \hf701, \h1)

Pair(lo, hi) == lo \cup {b + 64 : b \in hi}

\* The 16 bytes of the message at byte p.
load(msg, p) == {b - 8 * p : b \in {c \in msg : c \div 8 \in p..(p + 15)}}

\* One fold of a register by a pair of constants, and what is added to it.
Fold(x, k, y) == Xor(Xor(clmul(x, 1, k, 1), y), clmul(x, 0, k, 0))

\* Odd 32-bit lanes cleared.
EvenLanes(x) == {b \in x : (b \div 32) % 2 = 0}

\* 64 bytes a step in four lanes, then one lane of 16 bytes a step.
FourLanes(lanes, msg, p) ==
    <<Fold(lanes[1], Pair(k1, k2), load(msg, p)),
      Fold(lanes[2], Pair(k1, k2), load(msg, p + 16)),
      Fold(lanes[3], Pair(k1, k2), load(msg, p + 32)),
      Fold(lanes[4], Pair(k1, k2), load(msg, p + 48))>>

FoldOne(x, y) == Fold(x, Pair(k3, k4), y)

\* 128 bits to 64, and Barrett's reduction to 32.
Finish(x) ==
    LET a  == Xor(srli_si128(x, 8), clmul(x, 0, Pair(k3, k4), 1))
        b  == Xor(clmul(EvenLanes(a), 0, k5, 0), srli_si128(a, 4))
        c  == EvenLanes(clmul(EvenLanes(b), 0, Pair(poly0, poly1), 1))
        d  == Xor(b, clmul(c, 0, Pair(poly0, poly1), 0))
    IN  {i - 32 : i \in {j \in d : j \div 32 = 1}}

\* viltrum_crc32_clmul: n is at least 64 and a multiple of 16.
crc32_clmul(crc, msg, n) ==
    LET wide == n \div 64
        lanes[s \in 1..wide] ==
            IF s = 1 THEN <<Xor(load(msg, 0), crc), load(msg, 16), load(msg, 32), load(msg, 48)>>
            ELSE FourLanes(lanes[s - 1], msg, 64 * (s - 1))
        four == lanes[wide]
        one[s \in 0..((n % 64) \div 16)] ==
            IF s = 0 THEN FoldOne(FoldOne(FoldOne(four[1], four[2]), four[3]), four[4])
            ELSE FoldOne(one[s - 1], load(msg, 64 * wide + 16 * (s - 1)))
    IN  Finish(one[(n % 64) \div 16])

\* The register after one more bit: 0xedb88320 reflected.
Poly32 == BitsOf(\h8320) \cup {b + 16 : b \in BitsOf(\hedb8)}
BitStep(crc, bit) ==
    LET s == {b - 1 : b \in crc \ {0}}
    IN  IF (0 \in crc) # bit THEN Xor(s, Poly32) ELSE s

ByteAt(msg, p) == {b \in 0..7 : (8 * p + b) \in msg}
Shift8(c) == {b - 8 : b \in {i \in c : i >= 8}}

\* make_crc_table: entry b of table 0 is b after eight steps, that of table k
\* one more byte further than that of table k - 1.
Table0 == [b \in SUBSET (0..7) |->
    LET steps[i \in 0..8, c \in SUBSET (0..31)] ==
            IF i = 8 THEN c ELSE steps[i + 1, BitStep(c, FALSE)]
    IN  steps[0, b]]
crc_table[k \in 0..7, b \in SUBSET (0..7)] ==
    IF k = 0 THEN Table0[b]
    ELSE LET prev == crc_table[k - 1, b]
         IN  Xor(Shift8(prev), Table0[prev \cap (0..7)])

\* Eight bytes from the tables, and one.
EightBytes(c, msg, p) ==
    LET x == Xor(c, {b - 8 * p : b \in {i \in msg : i \div 8 \in p..(p + 7)}})
        entries == UNION {crc_table[7 - k, ByteAt(x, k)] \X {k} : k \in 0..7}
    IN  {b \in 0..31 : Cardinality(entries \cap ({b} \X (0..7))) % 2 = 1}
\* Mutant of OneByte: loses the three higher bytes.
OneByteOnly(c, msg, p) == Table0[Xor(c \cap (0..7), ByteAt(msg, p))]

OneByte(c, msg, p) == Xor(Table0[Xor(c \cap (0..7), ByteAt(msg, p))], Shift8(c))

\* crc32: the folding takes the whole 16-byte blocks of a message of 64 bytes
\* or more, the tables the rest; the register starts as ones and is inverted.
crc32(msg, n, have_clmul) ==
    LET ones == 0..31
        i == IF have_clmul /\ n >= 64 THEN n - (n % 16) ELSE 0
        start == IF i > 0 THEN crc32_clmul(ones, msg, i) ELSE ones
        loop[p \in i..n, c \in SUBSET ones] ==
            IF p + 8 <= n THEN loop[p + 8, EightBytes(c, msg, p)]
            ELSE IF p < n THEN loop[p + 1, OneByte(c, msg, p)] ELSE c
    IN  ones \ loop[i, start]

\* The reference: every bit of the n bytes, one at a time.
BitWise(crc, msg, n) ==
    LET bits[i \in 0..8, byte \in SUBSET (0..7), c \in SUBSET (0..31)] ==
            IF i = 8 THEN c ELSE bits[i + 1, byte, BitStep(c, i \in byte)]
        bytes[p \in 0..n, c \in SUBSET (0..31)] ==
            IF p = n THEN c ELSE bytes[p + 1, bits[0, ByteAt(msg, p), c]]
    IN  bytes[0, crc]
=============================================================================
