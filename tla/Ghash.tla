-------------------------------- MODULE Ghash --------------------------------
(***************************************************************************)
(* The multiplication of GHASH and the AES key schedule of                 *)
(* src/engine/aesgcm.h, on the real 128-bit registers.                     *)
(***************************************************************************)
EXTENDS Gf2, Sequences

\* The halves swapped and added: _mm_xor_si128(a, _mm_shuffle_epi32(a, 0x4e)).
HalvesXored(a) == Xor(a, {(b + 64) % 128 : b \in a})

\* An unreduced 256-bit product, or the sums Karatsuba keeps of one.
Zero == [lo |-> {}, mid |-> {}, hi |-> {}]

clmul_wide(a, b) ==
    LET m == Xor(clmul(a, 0, b, 1), clmul(a, 1, b, 0))
    IN  [lo |-> Xor(clmul(a, 0, b, 0), slli_si128(m, 8)),
         hi |-> Xor(clmul(a, 1, b, 1), srli_si128(m, 8))]

clmul_kar(s, a, b, bk) ==
    [lo  |-> Xor(s.lo, clmul(a, 0, b, 0)),
     mid |-> Xor(s.mid, clmul(HalvesXored(a), 0, bk, 0)),
     hi  |-> Xor(s.hi, clmul(a, 1, b, 1))]

kar_fold(s) ==
    LET mid == Xor(s.mid, Xor(s.lo, s.hi))
    IN  [lo |-> Xor(s.lo, slli_si128(mid, 8)),
         hi |-> Xor(s.hi, srli_si128(mid, 8))]

\* One bit to the left over both registers, for the reflection.
ShiftedOne(p) ==
    LET t7 == srli_epi32(p.lo, 31)
        t8 == srli_epi32(p.hi, 31)
    IN  [lo |-> slli_epi32(p.lo, 1) \cup slli_si128(t7, 4),
         hi |-> slli_epi32(p.hi, 1) \cup slli_si128(t8, 4) \cup srli_si128(t7, 12)]

\* The product modulo x^128 + x^7 + x^2 + x + 1.
gf_reduce(p) ==
    LET s  == ShiftedOne(p)
        t7 == Xor(Xor(slli_epi32(s.lo, 31), slli_epi32(s.lo, 30)), slli_epi32(s.lo, 25))
        lo == Xor(s.lo, slli_si128(t7, 12))
        t2 == Xor(Xor(Xor(srli_epi32(lo, 1), srli_epi32(lo, 2)), srli_epi32(lo, 7)),
                  srli_si128(t7, 4))
    IN  Xor(s.hi, Xor(lo, t2))

gf_mul(a, b) == gf_reduce(clmul_wide(a, b))

\* The powers H^1..H^n that viltrum_gcm_init keeps.
hp(h, n) ==
    LET powers[i \in 1..n] ==
            IF i = 1 THEN <<h>>
            ELSE LET p == powers[i - 1] IN Append(p, gf_mul(p[i - 1], h))
    IN  powers[n]

\* One batch of ghash_blocks: blocks x[1..n] times H^n..H^1, given as power,
\* summed before one reduction.
Batch(x, power) ==
    LET n == Len(x)
        sum[k \in 0..n] ==
            IF k = 0 THEN Zero
            ELSE LET b == power[n + 1 - k]
                 IN  clmul_kar(sum[k - 1], x[k], b, HalvesXored(b))
    IN  gf_reduce(kar_fold(sum[n]))

\* The reference.  Bit r of a reflected register is the coefficient of
\* x^(127 - r); a multiplication by x is one step of the field's polynomial.
TimesX(r) ==
    LET s == {b - 1 : b \in r \ {0}}
    IN  IF 0 \in r THEN Xor(s, {127, 126, 125, 120}) ELSE s
FieldMul(a, b) ==
    LET rows[i \in 0..128, v \in SUBSET Register, z \in SUBSET Register] ==
            IF i = 128 THEN z
            ELSE rows[i + 1, TimesX(v), IF (127 - i) \in b THEN Xor(z, v) ELSE z]
    IN  rows[0, a, {}]

(***************************************************************************)
(* The key schedule.  A round key is four words, a word the set of the     *)
(* terms added up in it; what SubWord makes of word i of the schedule is   *)
(* the term <<"sub", i>>, after RotWord the term <<"rotsub", i>>.          *)
(***************************************************************************)
KeyWord(i) == {<<"key", i>>}

\* Round constants as the source lists them.
Rcon == <<\h01, \h02, \h04, \h08, \h10, \h20, \h40, \h80, \h1b, \h36>>

\* AESKEYGENASSIST of round key r, whose last word is word 4r + 3: lanes 3 and 2.
AssistFF(r, rcon) == {<<"rotsub", 4 * r + 3>>, <<"rcon", rcon>>}
AssistAA(r) == {<<"sub", 4 * r + 3>>}

\* The key and its shifts by one, two and three words, and the assist.
aes128_step(k, assist) ==
    <<Xor(k[1], assist),
      Xor(Xor(k[1], k[2]), assist),
      Xor(Xor(Xor(k[1], k[2]), k[3]), assist),
      Xor(Xor(Xor(Xor(k[1], k[2]), k[3]), k[4]), assist)>>
aes256_odd(r, k) == aes128_step(k, AssistAA(r))

KeyBlock(r) == <<KeyWord(4 * r), KeyWord(4 * r + 1), KeyWord(4 * r + 2), KeyWord(4 * r + 3)>>

\* Round key i of aes_expand.
RoundKey128[i \in 0..10] ==
    IF i = 0 THEN KeyBlock(0)
    ELSE aes128_step(RoundKey128[i - 1], AssistFF(i - 1, Rcon[i]))
RoundKey256[i \in 0..14] ==
    IF i < 2 THEN KeyBlock(i)
    ELSE IF i % 2 = 0 THEN aes128_step(RoundKey256[i - 2], AssistFF(i - 1, Rcon[i \div 2]))
    ELSE aes256_odd(i - 1, RoundKey256[i - 2])
aes_expand(key_len, i) == IF key_len = 16 THEN RoundKey128[i] ELSE RoundKey256[i]

\* The reference: the recurrence of FIPS-197 over words, and its constants as
\* powers of x modulo x^8 + x^4 + x^3 + x + 1.
XPower[i \in 1..10] ==
    IF i = 1 THEN 1
    ELSE LET d == 2 * XPower[i - 1]
         IN  IF d < 256 THEN d ELSE SumSet({2^b : b \in Xor(BitsOf(d), BitsOf(\h11b))})
Schedule(nk, i) ==
    LET w[j \in 0..i] ==
            IF j < nk THEN KeyWord(j)
            ELSE Xor(w[j - nk],
                     IF j % nk = 0 THEN {<<"rotsub", j - 1>>, <<"rcon", XPower[j \div nk]>>}
                     ELSE IF nk > 6 /\ j % nk = 4 THEN {<<"sub", j - 1>>}
                     ELSE w[j - 1])
    IN  w[i]
=============================================================================
