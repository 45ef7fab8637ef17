-------------------------------- MODULE Mont --------------------------------
(***************************************************************************)
(* Montgomery arithmetic of src/engine/rsa.h.  A number of k words of W    *)
(* bits (64 in the code), least significant word first, is the natural     *)
(* below B^k it stands for, Word(x, i) its i-th word.  Every sum keeps the *)
(* width the code gives it: a column sum is three words, a product plus    *)
(* carries two, a limb one.                                                *)
(*                                                                         *)
(* The code's 64-bit words are scaled down with everything that depends on *)
(* them: Window (4 bits) divides W, and NewtonSteps (6) doublings of one   *)
(* correct bit reach W bits.                                               *)
(***************************************************************************)
EXTENDS Integers, FiniteSetsExt

CONSTANTS
    W,           \* bits of a word
    Window,      \* bits of the exponent that mont_exp takes at a time
    NewtonSteps  \* rounds of Newton's iteration in n0

ASSUME MontAssumption ==
    /\ W \in Nat \ {0}
    /\ Window \in 1..W /\ W % Window = 0
    /\ NewtonSteps \in Nat /\ 2^NewtonSteps >= W

\* Two to the word width: the number of values of a word.
B == 2^W

\* The numbers of k words.
Number(k) == 0..(B^k - 1)

Word(x, i) == (x \div B^i) % B

-----------------------------------------------------------------------------
(* Word-wise subtraction and addition, with the borrow and the carry the   *)
(* loops of the code hand on.                                              *)

\* s is the unsigned double word x[j] - y[j] - borrow, which wraps around.
Subtract(x, y, k) ==
    LET sub[j \in 0..k] ==
            IF j = 0 THEN [d |-> 0, borrow |-> 0]
            ELSE LET lower == sub[j - 1]
                     s == (Word(x, j - 1) - Word(y, j - 1) - lower.borrow) % (B * B)
                 IN  [d      |-> lower.d + (s % B) * B^(j - 1),
                      borrow |-> (s \div B) % 2]
    IN  sub[k]

\* The carry out of the top word is dropped.
AddWords(x, y, k) ==
    LET add[j \in 0..k] ==
            IF j = 0 THEN [d |-> 0, c |-> 0]
            ELSE LET lower == add[j - 1]
                     s == Word(x, j - 1) + Word(y, j - 1) + lower.c
                 IN  [d |-> lower.d + (s % B) * B^(j - 1), c |-> s \div B]
    IN  add[k].d

\* A row of a schoolbook product: x + f * y * B^i over the k words from word i
\* on, and the carry out of them.
MulAddRow(x, f, y, i, k) ==
    LET row[j \in 0..k] ==
            IF j = 0 THEN [x |-> x, c |-> 0]
            ELSE LET lower == row[j - 1]
                     at == i + j - 1
                     s == f * Word(y, j - 1) + Word(x, at) + lower.c
                 IN  [x |-> lower.x + ((s % B) - Word(x, at)) * B^at, c |-> s \div B]
    IN  row[k]

\* Mutant of FinalSubtract: does not look at the word above.
SubtractIfNoBorrow(t, over, m, k) ==
    LET s == Subtract(t, m, k)
    IN  IF s.borrow = 0 THEN s.d ELSE t

\* The masked end of a reduction: t, with the word over above it, minus m
\* unless that borrows past the top.
FinalSubtract(t, over, m, k) ==
    LET s == Subtract(t, m, k)
    IN  IF over % 2 = 1 \/ s.borrow = 0 THEN s.d ELSE t

-----------------------------------------------------------------------------
(* viltrum_mont_k.  A column of a * b + u * m is summed in three words.    *)

\* The products of column i of a * b; a square takes each cross product once,
\* doubled.
ColumnProducts(a, b, i, k, sq) ==
    LET lo == IF i < k THEN 0 ELSE i - k + 1
        hi == IF i < k THEN i ELSE k - 1
    IN  IF sq
        THEN 2 * MapThenSumSet(LAMBDA j : Word(a, j) * Word(a, i - j),
                               {j \in lo..hi : j < i - j})
             + (IF i % 2 = 0 THEN Word(a, i \div 2) * Word(a, i \div 2) ELSE 0)
        ELSE MapThenSumSet(LAMBDA j : Word(a, j) * Word(b, i - j), lo..hi)

\* The products of u * m that column i takes besides u[i] * m[0].
ReductionProducts(u, m, i, k) ==
    LET lo == IF i < k THEN 0 ELSE i - k + 1
        hi == IF i < k THEN i - 1 ELSE k - 1
    IN  MapThenSumSet(LAMBDA j : Word(u, j) * Word(m, i - j), lo..hi)

\* The end of column i, whose sum is the three words c = (c0, c1, c2), moved
\* down by one; u and t are the words written so far.
ColumnEnd(acc, c, m, n0, i, k) ==
    LET ui == ((c % B) * n0) % B
    IN  IF i < k
        THEN [c |-> ((c + ui * Word(m, 0)) % B^3) \div B,
              u |-> acc.u + ui * B^i, t |-> acc.t]
        ELSE [c |-> c \div B, u |-> acc.u, t |-> acc.t + (c % B) * B^(i - k)]

Column(acc, a, b, m, n0, i, k, sq) ==
    ColumnEnd(acc, (acc.c + ColumnProducts(a, b, i, k, sq)
                          + ReductionProducts(acc.u, m, i, k)) % B^3, m, n0, i, k)

\* What the last column leaves in c is the top word of t, and the word above it.
AfterColumns(end, m, k) ==
    FinalSubtract(end.t + (end.c % B) * B^(k - 1), (end.c \div B) % B, m, k)

mont_k(a, b, m, n0, k, sq) ==
    LET product[x \in Number(k), y \in Number(k)] ==
            LET columns[i \in 0..(2 * k - 1)] ==
                    IF i = 0 THEN [c |-> 0, u |-> 0, t |-> 0]
                    ELSE Column(columns[i - 1], x, y, m, n0, i - 1, k, sq)
            IN  AfterColumns(columns[2 * k - 1], m, k)
    IN  product[a, b]

mont_mul(a, b, m, n0, k) == mont_k(a, b, m, n0, k, FALSE)

mont_sqr(a, m, n0, k) == mont_k(a, a, m, n0, k, TRUE)

-----------------------------------------------------------------------------
(* viltrum_mont_redc: x / R mod m for the 2k words x.                      *)

\* One round: add mq * m at position i, so that word i becomes 0.  The carry
\* out of word i + k is owed to word i + k + 1 and added in the next round.
RedcRound(acc, m, n0, i, k) ==
    LET row == MulAddRow(acc.t, (Word(acc.t, i) * n0) % B, m, i, k)
        s   == Word(acc.t, i + k) + row.c + acc.top
    IN  [t   |-> row.x + ((s % B) - Word(acc.t, i + k)) * B^(i + k),
         top |-> s \div B]

mont_redc(x, m, n0, k) ==
    LET round[i \in 0..k] ==
            IF i = 0 THEN [t |-> x, top |-> 0]
            ELSE RedcRound(round[i - 1], m, n0, i - 1, k)
    IN  FinalSubtract(round[k].t \div B^k, round[k].top, m, k)

-----------------------------------------------------------------------------
(* viltrum_mont_exp: a^e, a Montgomery, over every window of e's k words.  *)

mont_exp(a, e, m, n0, one, k) ==
    LET table[i \in 0..(2^Window - 1)] ==
            CASE i = 0 -> one
              [] i = 1 -> a
              [] OTHER -> mont_mul(table[i - 1], a, m, n0, k)
        perWord == W \div Window
        index(w) == (Word(e, w \div perWord) \div 2^((w % perWord) * Window)) % 2^Window
        square[s \in 0..Window, x \in Number(k)] ==
            IF s = 0 THEN x ELSE square[s - 1, mont_sqr(x, m, n0, k)]
        \* the windows below w, from acc
        windows[w \in 0..(k * perWord), acc \in Number(k)] ==
            IF w = 0 THEN acc
            ELSE windows[w - 1, mont_mul(square[Window, acc], table[index(w - 1)], m, n0, k)]
    IN  windows[k * perWord, one]

\* viltrum_rsa_n0: -m0^-1 mod 2^W by Newton's iteration.
n0_of(m0) ==
    LET newton[i \in 0..NewtonSteps, x \in 0..(B - 1)] ==
            IF i = 0 THEN x ELSE newton[i - 1, (x * ((2 - m0 * x) % B)) % B]
    IN  (0 - newton[NewtonSteps, 1]) % B

\* viltrum_rsa_mont_const: x * R^power mod m.  R^power is kept reduced: what
\* the bignum library computes, not how.
mont_const(m, k, power, x) ==
    LET r[i \in 0..power] == IF i = 0 THEN x % m ELSE (r[i - 1] * (B^k % m)) % m
    IN  r[power]
=============================================================================
