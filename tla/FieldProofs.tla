----------------------------- MODULE FieldProofs -----------------------------
(***************************************************************************)
(* The field arithmetic of Fe25519 at the sizes of the code, where TLC     *)
(* cannot go: no column or limb overflows its word, and the results are    *)
(* those of the field.                                                     *)
(***************************************************************************)
EXTENDS Fe25519, TLAPS

\* What the arguments below need of the radix and of C; 2^51 and 19 in the code.
FeSizes == M \in Nat /\ M >= 8192 /\ C \in Nat /\ C >= 1 /\ C <= 19

\* Five limbs of at most n.
Limbs(n) == [1..5 -> 0..n]
Tight == Limbs(M + 1536)
Loose == Limbs(4 * M)

\* x and y are the same element of the field.
Congruent(x, y) == \E k \in Int : x = y + k * Prime

\* Column sums that viltrum_fe_carry can take in: the carry out of the last one
\* must still fit a word when it is multiplied by C.
Columns(t) ==
    /\ \A i \in 1..5 : t[i] \in Nat
    /\ \A i \in 1..4 : t[i] <= 4096 * M * M
    /\ t[5] <= 80 * M * M

\* r is the field element v in limbs of which only the second exceeds the radix.
Represents(r, v) ==
    /\ r \in Tight
    /\ \A i \in {1, 3, 4, 5} : r[i] < M
    /\ Congruent(v, FeVal(r))

\* A product is monotone in its factors.
LEMMA ProductMonotone ==
    ASSUME NEW a \in Nat, NEW b \in Nat, NEW x \in Nat, NEW y \in Nat, a <= x, b <= y
    PROVE  a * b <= x * y
BY SMT

\* The shift by a limb and the mask split a word.
LEMMA SplitLimb ==
    ASSUME FeSizes, NEW x \in Nat
    PROVE  /\ x \div M \in Nat /\ x % M \in Nat /\ x % M < M
           /\ x = M * (x \div M) + (x % M)
BY SMTT(30) DEF FeSizes

\* A word that fits 64 bits is converted to itself.
LEMMA FitsWord == ASSUME FeSizes, NEW x \in Nat, x < 8192 * M PROVE U(x) = x
BY SMTT(30) DEF FeSizes, U, Word64

\* A column below 8192 M * M has a carry of 64 bits; its bound goes down by a limb.
LEMMA CarryFits ==
    ASSUME FeSizes, NEW x \in Nat, NEW n \in Nat, NEW m \in Nat, x <= n * M * M + m * M
    PROVE  x \div M <= n * M + m
<1>1. x = M * (x \div M) + (x % M) /\ x \div M \in Nat /\ x % M \in Nat
    BY SplitLimb
<1>2. ASSUME x \div M >= n * M + m + 1 PROVE FALSE
    <2>1. M * (n * M + m + 1) <= M * (x \div M)
        BY <1>1, <1>2, ProductMonotone DEF FeSizes
    <2>2. M * (n * M + m + 1) = n * M * M + m * M + M
        BY SMT DEF FeSizes
    <2> QED BY <1>1, <2>1, <2>2, SMT DEF FeSizes
<1> QED BY <1>1, <1>2 DEF FeSizes

\* fe_carry of columns that are not too large: every carry fits a word, the
\* limbs are tight, and the value changes by a multiple of the prime.
LEMMA CarryRight ==
    ASSUME FeSizes, NEW t, Columns(t)
    PROVE  Represents(fe_carry(t), FeVal(t))
<1> DEFINE t1 == t[1]  t2 == t[2]  t3 == t[3]  t4 == t[4]  t5 == t[5]
<1>a. /\ t1 \in Nat /\ t2 \in Nat /\ t3 \in Nat /\ t4 \in Nat /\ t5 \in Nat
      /\ t1 <= 4096 * M * M /\ t2 <= 4096 * M * M /\ t3 <= 4096 * M * M /\ t4 <= 4096 * M * M
      /\ t5 <= 80 * M * M
    BY DEF Columns
<1> HIDE DEF t1, t2, t3, t4, t5
<1> DEFINE q1 == t1 \div M
           T2 == t2 + q1
           q2 == T2 \div M
           T3 == t3 + q2
           q3 == T3 \div M
           T4 == t4 + q3
           q4 == T4 \div M
           T5 == t5 + q4
           q5 == T5 \div M
           r1 == (t1 % M) + q5 * C
           p1 == r1 \div M
<1>0. M \in Nat /\ M >= 8192 /\ C \in Nat /\ C >= 1 /\ C <= 19 /\ M * M \in Nat /\ M * M >= 8192 * M
    BY SMT DEF FeSizes
<1>1. q1 \in Nat /\ q1 <= 4096 * M /\ U(q1) = q1 /\ t1 = M * q1 + (t1 % M) /\ t1 % M \in Nat /\ t1 % M < M
    <2>1. q1 <= 4096 * M + 0
        BY <1>0, <1>a, CarryFits
    <2>2. q1 \in Nat /\ t1 = M * q1 + (t1 % M) /\ t1 % M \in Nat /\ t1 % M < M
        BY <1>a, SplitLimb
    <2> QED BY <1>0, <2>1, <2>2, FitsWord
<1> HIDE DEF q1
<1>2. q2 \in Nat /\ q2 <= 4096 * M + 4096 /\ U(q2) = q2 /\ T2 = M * q2 + (T2 % M) /\ T2 % M \in Nat /\ T2 % M < M
    <2>1. T2 \in Nat /\ T2 <= 4096 * M * M + 4096 * M
        BY <1>0, <1>a, <1>1
    <2>2. q2 <= 4096 * M + 4096
        BY <2>1, CarryFits
    <2>3. q2 \in Nat /\ T2 = M * q2 + (T2 % M) /\ T2 % M \in Nat /\ T2 % M < M
        BY <2>1, SplitLimb
    <2> QED BY <1>0, <2>2, <2>3, FitsWord
<1> HIDE DEF q2
<1>3. q3 \in Nat /\ q3 <= 4096 * M + 4097 /\ U(q3) = q3 /\ T3 = M * q3 + (T3 % M) /\ T3 % M \in Nat /\ T3 % M < M
    <2>1. T3 \in Nat /\ T3 <= 4096 * M * M + 4097 * M
        BY <1>0, <1>a, <1>2
    <2>2. q3 <= 4096 * M + 4097
        BY <2>1, CarryFits
    <2>3. q3 \in Nat /\ T3 = M * q3 + (T3 % M) /\ T3 % M \in Nat /\ T3 % M < M
        BY <2>1, SplitLimb
    <2> QED BY <1>0, <2>2, <2>3, FitsWord
<1> HIDE DEF q3
<1>4. q4 \in Nat /\ q4 <= 4096 * M + 4097 /\ U(q4) = q4 /\ T4 = M * q4 + (T4 % M) /\ T4 % M \in Nat /\ T4 % M < M
    <2>1. T4 \in Nat /\ T4 <= 4096 * M * M + 4097 * M
        BY <1>0, <1>a, <1>3
    <2>2. q4 <= 4096 * M + 4097
        BY <2>1, CarryFits
    <2>3. q4 \in Nat /\ T4 = M * q4 + (T4 % M) /\ T4 % M \in Nat /\ T4 % M < M
        BY <2>1, SplitLimb
    <2> QED BY <1>0, <2>2, <2>3, FitsWord
<1> HIDE DEF q4
<1>5. q5 \in Nat /\ q5 <= 80 * M + 4097 /\ U(q5) = q5 /\ T5 = M * q5 + (T5 % M) /\ T5 % M \in Nat /\ T5 % M < M
    <2>1. T5 \in Nat /\ T5 <= 80 * M * M + 4097 * M
        BY <1>0, <1>a, <1>4
    <2>2. q5 <= 80 * M + 4097
        BY <2>1, CarryFits
    <2>3. q5 \in Nat /\ T5 = M * q5 + (T5 % M) /\ T5 % M \in Nat /\ T5 % M < M
        BY <2>1, SplitLimb
    <2> QED BY <1>0, <2>2, <2>3, FitsWord
<1> HIDE DEF q5
<1>6. r1 \in Nat /\ U(r1) = r1 /\ r1 <= 1521 * M + 77843
    <2>1. q5 * C \in Nat /\ q5 * C <= (80 * M + 4097) * 19
        BY <1>0, <1>5, ProductMonotone
    <2>2. r1 \in Nat /\ r1 <= 1521 * M + 77843
        BY <1>0, <1>1, <2>1
    <2> QED BY <1>0, <2>2, FitsWord
<1>7. p1 \in Nat /\ p1 <= 1530 /\ r1 = M * p1 + (r1 % M) /\ r1 % M \in Nat /\ r1 % M < M
    <2>1. p1 \in Nat /\ r1 = M * p1 + (r1 % M) /\ r1 % M \in Nat /\ r1 % M < M
        BY <1>6, SplitLimb
    <2>2. ASSUME p1 >= 1531 PROVE FALSE
        <3> HIDE DEF p1
        <3>1. M * 1531 <= M * p1
            BY <1>0, <2>1, <2>2, ProductMonotone
        <3> QED BY <1>0, <1>6, <2>1, <3>1
    <2> QED BY <2>1, <2>2
<1>8. U((T2 % M) + p1) = (T2 % M) + p1
    BY <1>0, <1>2, <1>7, FitsWord
<1> DEFINE r == <<r1 % M, (T2 % M) + p1, T3 % M, T4 % M, T5 % M>>
<1>9. fe_carry(t) = r
    <2>1. fe_carry(t)
              = LET u2 == t2 + U(t1 \div M)
                    u3 == t3 + U(u2 \div M)
                    u4 == t4 + U(u3 \div M)
                    u5 == t5 + U(u4 \div M)
                    s1 == U((t1 % M) + U(u5 \div M) * C)
                IN  <<s1 % M, U((u2 % M) + (s1 \div M)), u3 % M, u4 % M, u5 % M>>
        BY DEF fe_carry, t1, t2, t3, t4, t5
    <2> QED BY <1>1, <1>2, <1>3, <1>4, <1>5, <1>6, <1>8, <2>1 DEF q1, q2, q3, q4, q5
<1>10. r \in Tight /\ \A i \in {1, 3, 4, 5} : r[i] < M
    <2>1. (T2 % M) + p1 <= M + 1536 /\ (T2 % M) + p1 \in Nat
        BY <1>0, <1>2, <1>7
    <2> HIDE DEF r1, p1, T2, T3, T4, T5
    <2> QED BY <1>0, <1>2, <1>3, <1>4, <1>5, <1>7, <2>1 DEF Tight, Limbs
<1>11. FeVal(t) = FeVal(r) + q5 * Prime
    <2>1. t1 + M * (t2 + M * (t3 + M * (t4 + M * t5)))
              = (r1 % M) + M * (((T2 % M) + p1) + M * ((T3 % M) + M * ((T4 % M) + M * (T5 % M))))
                + q5 * (M * M * M * M * M - C)
        <3> DEFINE s1 == t1 % M  s2 == T2 % M  s3 == T3 % M  s4 == T4 % M  s5 == T5 % M  s == r1 % M
        <3>1. /\ t1 = M * q1 + s1 /\ t2 + q1 = M * q2 + s2 /\ t3 + q2 = M * q3 + s3
              /\ t4 + q3 = M * q4 + s4 /\ t5 + q4 = M * q5 + s5 /\ s1 + q5 * C = M * p1 + s
            BY <1>1, <1>2, <1>3, <1>4, <1>5, <1>7
        <3>2. /\ s1 \in Int /\ s2 \in Int /\ s3 \in Int /\ s4 \in Int /\ s5 \in Int /\ s \in Int
              /\ q1 \in Int /\ q2 \in Int /\ q3 \in Int /\ q4 \in Int /\ q5 \in Int /\ p1 \in Int
              /\ M \in Int /\ C \in Int
              /\ t1 \in Int /\ t2 \in Int /\ t3 \in Int /\ t4 \in Int /\ t5 \in Int
            BY <1>0, <1>a, <1>1, <1>2, <1>3, <1>4, <1>5, <1>7
        <3> HIDE DEF s1, s2, s3, s4, s5, s, p1
        <3>3. t1 + M * (t2 + M * (t3 + M * (t4 + M * t5)))
                  = s + M * ((s2 + p1) + M * (s3 + M * (s4 + M * s5))) + q5 * (M * M * M * M * M - C)
            <4>1. /\ t1 = M * q1 + (M * p1 + s - q5 * C)
                  /\ t2 = M * q2 + s2 - q1 /\ t3 = M * q3 + s3 - q2
                  /\ t4 = M * q4 + s4 - q3 /\ t5 = M * q5 + s5 - q4
                BY ONLY <3>1, <3>2, SMT
            <4>2. (M * q1 + (M * p1 + s - q5 * C)) + M * ((M * q2 + s2 - q1) + M * ((M * q3 + s3 - q2)
                      + M * ((M * q4 + s4 - q3) + M * (M * q5 + s5 - q4))))
                      = s + M * ((s2 + p1) + M * (s3 + M * (s4 + M * s5))) + q5 * (M * M * M * M * M - C)
                BY ONLY <3>2, SMTT(60)
            <4> QED BY ONLY <4>1, <4>2, Zenon
        <3> QED BY <3>3 DEF s, s2, s3, s4, s5
    <2> QED BY <2>1 DEF FeVal, Prime, t1, t2, t3, t4, t5
<1> QED BY <1>5, <1>9, <1>10, <1>11 DEF Congruent, Represents

\* What is congruent to the same is congruent.
LEMMA CongruentTransitive ==
    ASSUME NEW x \in Int, NEW y \in Int, NEW z \in Int, Prime \in Int,
           Congruent(x, y), Congruent(y, z)
    PROVE  Congruent(x, z)
<1>1. PICK k \in Int : x = y + k * Prime
    BY ZenonT(60) DEF Congruent
<1>2. PICK l \in Int : y = z + l * Prime
    BY ZenonT(60) DEF Congruent
<1>3. x = z + (k + l) * Prime
    BY <1>1, <1>2
<1>4. k + l \in Int
    OBVIOUS
<1> QED BY <1>3, <1>4, Zenon DEF Congruent

\* Five limbs stand for an integer, and so does the prime.
LEMMA Values ==
    ASSUME FeSizes, NEW n \in Nat, NEW a \in Limbs(n)
    PROVE  FeVal(a) \in Int /\ Prime \in Int
<1>1. a[1] \in Int /\ a[2] \in Int /\ a[3] \in Int /\ a[4] \in Int /\ a[5] \in Int
    BY DEF Limbs
<1>2. M \in Int /\ C \in Int
    BY DEF FeSizes
<1> QED BY ONLY <1>1, <1>2, SMT DEF FeVal, Prime

\* The columns of fe_mul, summed with their weights, are the product: the
\* terms above the top limb come back times C.
LEMMA MulColumnsRight ==
    ASSUME FeSizes, NEW a \in Loose, NEW b \in Loose
    PROVE  Columns(MulColumns(a, b)) /\ Congruent(FeVal(a) * FeVal(b), FeVal(MulColumns(a, b)))
<1> DEFINE a1 == a[1]  a2 == a[2]  a3 == a[3]  a4 == a[4]  a5 == a[5]
           b1 == b[1]  b2 == b[2]  b3 == b[3]  b4 == b[4]  b5 == b[5]
<1>0. M \in Nat /\ M >= 8192 /\ C \in Nat /\ C >= 1 /\ C <= 19 /\ M * M \in Nat
    BY SMT DEF FeSizes
<1>1. /\ a1 \in Nat /\ a2 \in Nat /\ a3 \in Nat /\ a4 \in Nat /\ a5 \in Nat
      /\ b1 \in Nat /\ b2 \in Nat /\ b3 \in Nat /\ b4 \in Nat /\ b5 \in Nat
      /\ a1 <= 4 * M /\ a2 <= 4 * M /\ a3 <= 4 * M /\ a4 <= 4 * M /\ a5 <= 4 * M
      /\ b1 <= 4 * M /\ b2 <= 4 * M /\ b3 <= 4 * M /\ b4 <= 4 * M /\ b5 <= 4 * M
    BY <1>0 DEF Loose, Limbs
<1> HIDE DEF a1, a2, a3, a4, a5, b1, b2, b3, b4, b5
<1>2. \A x \in Nat : x <= 4 * M => x * C \in Nat /\ x * C <= 76 * M /\ U(x * C) = x * C
    <2> SUFFICES ASSUME NEW x \in Nat, x <= 4 * M
                 PROVE  x * C \in Nat /\ x * C <= 76 * M /\ U(x * C) = x * C
        OBVIOUS
    <2>1. x * C \in Nat /\ x * C <= (4 * M) * 19
        BY <1>0, ProductMonotone
    <2> QED BY <1>0, <2>1, FitsWord
<1>3. \A x, y \in Nat : x <= 4 * M /\ y <= 4 * M
          => x * y \in Nat /\ x * y <= 16 * M * M
    <2> SUFFICES ASSUME NEW x \in Nat, NEW y \in Nat, x <= 4 * M, y <= 4 * M
                 PROVE  x * y \in Nat /\ x * y <= 16 * M * M
        OBVIOUS
    <2>1. x * y \in Nat /\ x * y <= (4 * M) * (4 * M)
        BY <1>0, ProductMonotone
    <2> QED BY <1>0, <2>1
<1>4. \A x, y \in Nat : x <= 4 * M /\ y <= 4 * M
          => x * (y * C) \in Nat /\ x * (y * C) <= 304 * M * M
    <2> SUFFICES ASSUME NEW x \in Nat, NEW y \in Nat, x <= 4 * M, y <= 4 * M
                 PROVE  x * (y * C) \in Nat /\ x * (y * C) <= 304 * M * M
        OBVIOUS
    <2>1. y * C \in Nat /\ y * C <= 76 * M
        BY <1>2
    <2>2. x * (y * C) \in Nat /\ x * (y * C) <= (4 * M) * (76 * M)
        BY <1>0, <2>1, ProductMonotone
    <2> QED BY <1>0, <2>2
<1> DEFINE t1 == a1 * b1 + a2 * (b5 * C) + a3 * (b4 * C) + a4 * (b3 * C) + a5 * (b2 * C)
           t2 == a1 * b2 + a2 * b1 + a3 * (b5 * C) + a4 * (b4 * C) + a5 * (b3 * C)
           t3 == a1 * b3 + a2 * b2 + a3 * b1 + a4 * (b5 * C) + a5 * (b4 * C)
           t4 == a1 * b4 + a2 * b3 + a3 * b2 + a4 * b1 + a5 * (b5 * C)
           t5 == a1 * b5 + a2 * b4 + a3 * b3 + a4 * b2 + a5 * b1
<1>5. MulColumns(a, b) = <<t1, t2, t3, t4, t5>>
    <2>1. U(b2 * C) = b2 * C /\ U(b3 * C) = b3 * C /\ U(b4 * C) = b4 * C /\ U(b5 * C) = b5 * C
        BY <1>1, <1>2
    <2> QED BY <2>1 DEF MulColumns, a1, a2, a3, a4, a5, b1, b2, b3, b4, b5
<1>6. t1 \in Nat /\ t1 <= 4096 * M * M
    <2>1. a1 * b1 \in Nat /\ a1 * b1 <= 16 * M * M
        BY <1>1, <1>3
    <2>2. /\ a2 * (b5 * C) \in Nat /\ a2 * (b5 * C) <= 304 * M * M
          /\ a3 * (b4 * C) \in Nat /\ a3 * (b4 * C) <= 304 * M * M
          /\ a4 * (b3 * C) \in Nat /\ a4 * (b3 * C) <= 304 * M * M
          /\ a5 * (b2 * C) \in Nat /\ a5 * (b2 * C) <= 304 * M * M
        BY <1>1, <1>4
    <2> QED BY <1>0, <2>1, <2>2
<1>7. t2 \in Nat /\ t2 <= 4096 * M * M
    <2>1. /\ a1 * b2 \in Nat /\ a1 * b2 <= 16 * M * M
          /\ a2 * b1 \in Nat /\ a2 * b1 <= 16 * M * M
        BY <1>1, <1>3
    <2>2. /\ a3 * (b5 * C) \in Nat /\ a3 * (b5 * C) <= 304 * M * M
          /\ a4 * (b4 * C) \in Nat /\ a4 * (b4 * C) <= 304 * M * M
          /\ a5 * (b3 * C) \in Nat /\ a5 * (b3 * C) <= 304 * M * M
        BY <1>1, <1>4
    <2> QED BY <1>0, <2>1, <2>2
<1>8. t3 \in Nat /\ t3 <= 4096 * M * M
    <2>1. /\ a1 * b3 \in Nat /\ a1 * b3 <= 16 * M * M
          /\ a2 * b2 \in Nat /\ a2 * b2 <= 16 * M * M
          /\ a3 * b1 \in Nat /\ a3 * b1 <= 16 * M * M
        BY <1>1, <1>3
    <2>2. /\ a4 * (b5 * C) \in Nat /\ a4 * (b5 * C) <= 304 * M * M
          /\ a5 * (b4 * C) \in Nat /\ a5 * (b4 * C) <= 304 * M * M
        BY <1>1, <1>4
    <2> QED BY <1>0, <2>1, <2>2
<1>9. t4 \in Nat /\ t4 <= 4096 * M * M /\ t5 \in Nat /\ t5 <= 80 * M * M
    <2>1. /\ a1 * b4 \in Nat /\ a1 * b4 <= 16 * M * M /\ a2 * b3 \in Nat /\ a2 * b3 <= 16 * M * M
          /\ a3 * b2 \in Nat /\ a3 * b2 <= 16 * M * M /\ a4 * b1 \in Nat /\ a4 * b1 <= 16 * M * M
          /\ a5 * (b5 * C) \in Nat /\ a5 * (b5 * C) <= 304 * M * M
        BY <1>1, <1>3, <1>4
    <2>2. /\ a1 * b5 \in Nat /\ a1 * b5 <= 16 * M * M /\ a2 * b4 \in Nat /\ a2 * b4 <= 16 * M * M
          /\ a3 * b3 \in Nat /\ a3 * b3 <= 16 * M * M /\ a4 * b2 \in Nat /\ a4 * b2 <= 16 * M * M
          /\ a5 * b1 \in Nat /\ a5 * b1 <= 16 * M * M
        BY <1>1, <1>3
    <2> QED BY <1>0, <2>1, <2>2
<1>10. \E k \in Int : FeVal(a) * FeVal(b) = FeVal(<<t1, t2, t3, t4, t5>>) + k * Prime
    <2> DEFINE k == (a2 * b5 + a3 * b4 + a4 * b3 + a5 * b2) + M * ((a3 * b5 + a4 * b4 + a5 * b3)
                     + M * ((a4 * b5 + a5 * b4) + M * (a5 * b5)))
    <2>0. /\ a1 \in Int /\ a2 \in Int /\ a3 \in Int /\ a4 \in Int /\ a5 \in Int
          /\ b1 \in Int /\ b2 \in Int /\ b3 \in Int /\ b4 \in Int /\ b5 \in Int
          /\ M \in Int /\ C \in Int
        BY <1>0, <1>1
    <2>1. k \in Int
        BY ONLY <2>0, SMT
    <2>2. (a1 + M * (a2 + M * (a3 + M * (a4 + M * a5)))) * (b1 + M * (b2 + M * (b3 + M * (b4 + M * b5))))
              = (t1 + M * (t2 + M * (t3 + M * (t4 + M * t5)))) + k * (M * M * M * M * M - C)
        BY ONLY <2>0, SMTT(60)
    <2> HIDE DEF k, t1, t2, t3, t4, t5
    <2> QED BY <2>1, <2>2 DEF FeVal, Prime, a1, a2, a3, a4, a5, b1, b2, b3, b4, b5
<1> HIDE DEF t1, t2, t3, t4, t5
<1> DEFINE t == <<t1, t2, t3, t4, t5>>
<1>11. t[1] = t1 /\ t[2] = t2 /\ t[3] = t3 /\ t[4] = t4 /\ t[5] = t5
    OBVIOUS
<1>12. Columns(t)
    <2> HIDE DEF t
    <2> QED BY <1>6, <1>7, <1>8, <1>9, <1>11 DEF Columns
<1> QED BY <1>5, <1>10, <1>12, Zenon DEF Congruent

\* fe_carry of columns that stand for v is v.
LEMMA CarriedRight ==
    ASSUME FeSizes, NEW v \in Int, NEW t, Columns(t), Congruent(v, FeVal(t))
    PROVE  Represents(fe_carry(t), v)
<1>1. Represents(fe_carry(t), FeVal(t))
    BY CarryRight
<1>2. FeVal(fe_carry(t)) \in Int /\ Prime \in Int
    <2>1. M + 1536 \in Nat
        BY DEF FeSizes
    <2> QED BY <1>1, <2>1, Values DEF Tight, Represents
<1>3. FeVal(t) \in Int
    <2>1. t[1] \in Int /\ t[2] \in Int /\ t[3] \in Int /\ t[4] \in Int /\ t[5] \in Int /\ M \in Int
        BY DEF FeSizes, Columns
    <2> QED BY ONLY <2>1, SMT DEF FeVal
<1> QED BY <1>1, <1>2, <1>3, CongruentTransitive DEF Represents

\* viltrum_fe_mul of limbs up to 4 * 2^51, as the ladder hands it sums and
\* differences: no product, column or carry overflows, the result is the
\* product modulo the prime, and its limbs are tight again.
THEOREM FeMulRight ==
    ASSUME FeSizes, NEW a \in Loose, NEW b \in Loose
    PROVE  Represents(fe_mul(a, b), FeVal(a) * FeVal(b))
<1>1. Columns(MulColumns(a, b)) /\ Congruent(FeVal(a) * FeVal(b), FeVal(MulColumns(a, b)))
    BY MulColumnsRight
<1>2. FeVal(a) * FeVal(b) \in Int
    <2>1. 4 * M \in Nat
        BY DEF FeSizes
    <2>2. FeVal(a) \in Int /\ FeVal(b) \in Int
        BY <2>1, Values DEF Loose
    <2> QED BY ONLY <2>2, SMT
<1> QED BY <1>1, <1>2, CarriedRight DEF fe_mul

\* viltrum_fe_sq, with its doubled cross products, has the columns of the
\* product of its argument with itself: it is fe_mul(a, a).
THEOREM FeSqRight ==
    ASSUME FeSizes, NEW a \in Loose
    PROVE  fe_sq(a) = fe_mul(a, a)
<1> DEFINE a1 == a[1]  a2 == a[2]  a3 == a[3]  a4 == a[4]  a5 == a[5]
<1>0. M \in Nat /\ M >= 8192 /\ C \in Nat /\ C >= 1 /\ C <= 19
    BY DEF FeSizes
<1>1. /\ a1 \in Nat /\ a2 \in Nat /\ a3 \in Nat /\ a4 \in Nat /\ a5 \in Nat
      /\ a1 <= 4 * M /\ a2 <= 4 * M /\ a3 <= 4 * M /\ a4 <= 4 * M /\ a5 <= 4 * M
    BY <1>0 DEF Loose, Limbs
<1> HIDE DEF a1, a2, a3, a4, a5
<1>2. \A x \in Nat : x <= 4 * M
          => /\ U(x * 2) = x * 2
             /\ U(x * C) = x * C
             /\ U(x * 2 * C) = x * 2 * C
    <2> SUFFICES ASSUME NEW x \in Nat, x <= 4 * M
                 PROVE  U(x * 2) = x * 2 /\ U(x * C) = x * C /\ U(x * 2 * C) = x * 2 * C
        OBVIOUS
    <2>1. x * C \in Nat /\ x * C <= (4 * M) * 19
        BY <1>0, ProductMonotone
    <2>2. (x * 2) * C \in Nat /\ (x * 2) * C <= (8 * M) * 19
        BY <1>0, ProductMonotone
    <2>3. x * 2 \in Nat /\ x * 2 < 8192 * M /\ x * C < 8192 * M /\ x * 2 * C < 8192 * M
        BY <1>0, <2>1, <2>2
    <2> QED BY <2>1, <2>2, <2>3, FitsWord
<1>3. /\ U(a1 * 2) = a1 * 2 /\ U(a2 * 2) = a2 * 2 /\ U(a4 * 2) = a4 * 2
      /\ U(a3 * 2 * C) = a3 * 2 * C
      /\ U(a2 * C) = a2 * C /\ U(a3 * C) = a3 * C /\ U(a4 * C) = a4 * C /\ U(a5 * C) = a5 * C
    BY <1>1, <1>2
<1>4. /\ a1 \in Int /\ a2 \in Int /\ a3 \in Int /\ a4 \in Int /\ a5 \in Int /\ C \in Int
    BY <1>0, <1>1
<1>5. a1 * a1 + (a2 * 2) * (a5 * C) + (a3 * 2 * C) * a4
          = a1 * a1 + a2 * (a5 * C) + a3 * (a4 * C) + a4 * (a3 * C) + a5 * (a2 * C)
    BY ONLY <1>4, SMTT(30)
<1>6. (a1 * 2) * a2 + (a3 * 2 * C) * a5 + a4 * (a4 * C)
          = a1 * a2 + a2 * a1 + a3 * (a5 * C) + a4 * (a4 * C) + a5 * (a3 * C)
    BY ONLY <1>4, SMTT(30)
<1>7. (a1 * 2) * a3 + a2 * a2 + (a4 * 2) * (a5 * C)
          = a1 * a3 + a2 * a2 + a3 * a1 + a4 * (a5 * C) + a5 * (a4 * C)
    BY ONLY <1>4, SMTT(30)
<1>8. (a1 * 2) * a4 + (a2 * 2) * a3 + a5 * (a5 * C)
          = a1 * a4 + a2 * a3 + a3 * a2 + a4 * a1 + a5 * (a5 * C)
    BY ONLY <1>4, SMTT(30)
<1>9. (a1 * 2) * a5 + (a2 * 2) * a4 + a3 * a3
          = a1 * a5 + a2 * a4 + a3 * a3 + a4 * a2 + a5 * a1
    BY ONLY <1>4, SMTT(30)
<1>10. SqColumns(a) = <<a1 * a1 + (a2 * 2) * (a5 * C) + (a3 * 2 * C) * a4,
                        (a1 * 2) * a2 + (a3 * 2 * C) * a5 + a4 * (a4 * C),
                        (a1 * 2) * a3 + a2 * a2 + (a4 * 2) * (a5 * C),
                        (a1 * 2) * a4 + (a2 * 2) * a3 + a5 * (a5 * C),
                        (a1 * 2) * a5 + (a2 * 2) * a4 + a3 * a3>>
    BY <1>3, Zenon DEF SqColumns, a1, a2, a3, a4, a5
<1>11. MulColumns(a, a) = <<a1 * a1 + a2 * (a5 * C) + a3 * (a4 * C) + a4 * (a3 * C) + a5 * (a2 * C),
                            a1 * a2 + a2 * a1 + a3 * (a5 * C) + a4 * (a4 * C) + a5 * (a3 * C),
                            a1 * a3 + a2 * a2 + a3 * a1 + a4 * (a5 * C) + a5 * (a4 * C),
                            a1 * a4 + a2 * a3 + a3 * a2 + a4 * a1 + a5 * (a5 * C),
                            a1 * a5 + a2 * a4 + a3 * a3 + a4 * a2 + a5 * a1>>
    BY <1>3, Zenon DEF MulColumns, a1, a2, a3, a4, a5
<1>12. SqColumns(a) = MulColumns(a, a)
    BY ONLY <1>5, <1>6, <1>7, <1>8, <1>9, <1>10, <1>11, Zenon
<1> QED BY <1>12, Zenon DEF fe_sq, fe_mul

\* viltrum_fe_add of tight elements: no limb overflows, the sum is exact, and
\* it may go into viltrum_fe_mul.
THEOREM FeAddRight ==
    ASSUME FeSizes, NEW a \in Tight, NEW b \in Tight
    PROVE  fe_add(a, b) \in Loose /\ FeVal(fe_add(a, b)) = FeVal(a) + FeVal(b)
<1>0. M \in Nat /\ M >= 8192
    BY DEF FeSizes
<1>1. \A i \in 1..5 : a[i] + b[i] \in 0..(4 * M) /\ U(a[i] + b[i]) = a[i] + b[i]
    <2> SUFFICES ASSUME NEW i \in 1..5
                 PROVE  a[i] + b[i] \in 0..(4 * M) /\ U(a[i] + b[i]) = a[i] + b[i]
        OBVIOUS
    <2>1. a[i] \in 0..(M + 1536) /\ b[i] \in 0..(M + 1536)
        BY DEF Tight, Limbs
    <2>2. a[i] + b[i] \in Nat /\ a[i] + b[i] <= 4 * M /\ a[i] + b[i] < 8192 * M
        BY <1>0, <2>1
    <2> QED BY <1>0, <2>2, FitsWord
<1>2. fe_add(a, b) = <<a[1] + b[1], a[2] + b[2], a[3] + b[3], a[4] + b[4], a[5] + b[5]>>
    BY <1>1 DEF fe_add
<1>3. fe_add(a, b) \in Loose
    BY <1>0, <1>1, <1>2 DEF Loose, Limbs
<1>4. \A i \in 1..5 : a[i] \in Int /\ b[i] \in Int
    BY DEF Tight, Limbs
<1>5. FeVal(fe_add(a, b)) = FeVal(a) + FeVal(b)
    <2> DEFINE s == fe_add(a, b)
    <2>1. s[1] = a[1] + b[1] /\ s[2] = a[2] + b[2] /\ s[3] = a[3] + b[3] /\ s[4] = a[4] + b[4]
          /\ s[5] = a[5] + b[5]
        BY <1>2
    <2> HIDE DEF s
    <2>2. FeVal(s) = FeVal(a) + FeVal(b)
        BY <1>0, <1>4, <2>1, SMTT(30) DEF FeVal
    <2> QED BY <2>2 DEF s
<1> QED BY <1>3, <1>5

\* viltrum_fe_sub of tight elements, as its comment says: no limb goes negative
\* (the word would wrap), the difference is off by 2p, and it may go into
\* viltrum_fe_mul.
THEOREM FeSubRight ==
    ASSUME FeSizes, NEW a \in Tight, NEW b \in Tight
    PROVE  fe_sub(a, b) \in Loose /\ FeVal(fe_sub(a, b)) = FeVal(a) - FeVal(b) + 2 * Prime
<1>0. M \in Nat /\ M >= 8192 /\ C \in Nat /\ C >= 1 /\ C <= 19
    BY DEF FeSizes
<1>1. \A i \in 1..5, d \in 2..38 :
          /\ a[i] + (2 * M - d) - b[i] \in 0..(4 * M)
          /\ U(a[i] + (2 * M - d) - b[i]) = a[i] + (2 * M - d) - b[i]
    <2> SUFFICES ASSUME NEW i \in 1..5, NEW d \in 2..38
                 PROVE  /\ a[i] + (2 * M - d) - b[i] \in 0..(4 * M)
                        /\ U(a[i] + (2 * M - d) - b[i]) = a[i] + (2 * M - d) - b[i]
        OBVIOUS
    <2>1. a[i] \in 0..(M + 1536) /\ b[i] \in 0..(M + 1536)
        BY DEF Tight, Limbs
    <2> DEFINE x == a[i] + (2 * M - d) - b[i]
    <2>2. x \in Nat /\ x <= 4 * M /\ x < 8192 * M
        BY <1>0, <2>1
    <2> HIDE DEF x
    <2>3. x \in 0..(4 * M) /\ U(x) = x
        BY <1>0, <2>2, FitsWord
    <2> QED BY ONLY <2>3, ZenonT(60) DEF x
<1>2. fe_sub(a, b) = <<a[1] + (2 * M - 2 * C) - b[1], a[2] + (2 * M - 2) - b[2],
                       a[3] + (2 * M - 2) - b[3], a[4] + (2 * M - 2) - b[4],
                       a[5] + (2 * M - 2) - b[5]>>
    <2>1. 2 * C \in 2..38 /\ 2 \in 2..38
        BY <1>0
    <2>2. \A i \in 1..5 : /\ U(a[i] + (2 * M - 2 * C) - b[i]) = a[i] + (2 * M - 2 * C) - b[i]
                          /\ U(a[i] + (2 * M - 2) - b[i]) = a[i] + (2 * M - 2) - b[i]
        BY <1>1, <2>1, Zenon
    <2>3. 1 \in 1..5 /\ 2 \in 1..5 /\ 3 \in 1..5 /\ 4 \in 1..5 /\ 5 \in 1..5
        OBVIOUS
    <2> QED BY <2>2, <2>3, Zenon DEF fe_sub
<1>3. fe_sub(a, b) \in Loose
    <2>1. 2 * C \in 2..38 /\ 2 \in 2..38
        BY <1>0
    <2>2. /\ a[1] + (2 * M - 2 * C) - b[1] \in 0..(4 * M) /\ a[2] + (2 * M - 2) - b[2] \in 0..(4 * M)
          /\ a[3] + (2 * M - 2) - b[3] \in 0..(4 * M) /\ a[4] + (2 * M - 2) - b[4] \in 0..(4 * M)
          /\ a[5] + (2 * M - 2) - b[5] \in 0..(4 * M)
        <3>1. 1 \in 1..5 /\ 2 \in 1..5 /\ 3 \in 1..5 /\ 4 \in 1..5 /\ 5 \in 1..5
            OBVIOUS
        <3> QED BY <1>1, <2>1, <3>1, ZenonT(60)
    <2> DEFINE x1 == a[1] + (2 * M - 2 * C) - b[1]
               x2 == a[2] + (2 * M - 2) - b[2]
               x3 == a[3] + (2 * M - 2) - b[3]
               x4 == a[4] + (2 * M - 2) - b[4]
               x5 == a[5] + (2 * M - 2) - b[5]
    <2>3. fe_sub(a, b) = <<x1, x2, x3, x4, x5>>
        BY <1>2, Zenon
    <2> HIDE DEF x1, x2, x3, x4, x5
    <2>4. <<x1, x2, x3, x4, x5>> \in Loose
        <3>1. /\ x1 \in 0..(4 * M) /\ x2 \in 0..(4 * M) /\ x3 \in 0..(4 * M) /\ x4 \in 0..(4 * M)
              /\ x5 \in 0..(4 * M)
            BY <2>2, Zenon DEF x1, x2, x3, x4, x5
        <3> QED BY <3>1 DEF Loose, Limbs
    <2> QED BY ONLY <2>3, <2>4, ZenonT(60)
<1>4. \A i \in 1..5 : a[i] \in Int /\ b[i] \in Int
    BY DEF Tight, Limbs
<1>5. FeVal(fe_sub(a, b)) = FeVal(a) - FeVal(b) + 2 * Prime
    <2> DEFINE s == fe_sub(a, b)
    <2>1. /\ s[1] = a[1] + (2 * M - 2 * C) - b[1] /\ s[2] = a[2] + (2 * M - 2) - b[2]
          /\ s[3] = a[3] + (2 * M - 2) - b[3] /\ s[4] = a[4] + (2 * M - 2) - b[4]
          /\ s[5] = a[5] + (2 * M - 2) - b[5]
        BY <1>2
    <2> HIDE DEF s
    <2>2. FeVal(s) = FeVal(a) - FeVal(b) + 2 * Prime
        BY <1>0, <1>4, <2>1, SMTT(30) DEF FeVal, Prime
    <2> QED BY <2>2 DEF s
<1> QED BY <1>3, <1>5

\* viltrum_fe_mul_a24 of what viltrum_fe_sub returns: 121665 times the element.
THEOREM FeMulA24Right ==
    ASSUME FeSizes, NEW a \in Loose
    PROVE  Represents(fe_mul_a24(a), a24 * FeVal(a))
<1>0. M \in Nat /\ M >= 8192
    BY DEF FeSizes
<1> DEFINE t == <<a[1] * a24, a[2] * a24, a[3] * a24, a[4] * a24, a[5] * a24>>
<1>1. \A i \in 1..5 : a[i] \in Nat /\ a[i] <= 4 * M
    BY <1>0 DEF Loose, Limbs
<1>2. \A i \in 1..5 : t[i] = a[i] * a24
    OBVIOUS
<1> HIDE DEF t
<1>3. Columns(t)
    <2>1. \A x \in Nat : x <= 4 * M => x * a24 \in Nat /\ x * a24 <= 80 * M * M
        BY <1>0, SMT DEF a24
    <2>2. M * M \in Nat
        BY <1>0
    <2>3. \A i \in 1..5 : t[i] \in Nat /\ t[i] <= 80 * M * M
        BY <1>1, <1>2, <2>1
    <2> QED BY <1>0, <2>2, <2>3 DEF Columns
<1>4. FeVal(t) = a24 * FeVal(a) /\ FeVal(t) \in Int
    <2>1. /\ a[1] \in Int /\ a[2] \in Int /\ a[3] \in Int /\ a[4] \in Int /\ a[5] \in Int /\ M \in Int
          /\ t[1] = a[1] * a24 /\ t[2] = a[2] * a24 /\ t[3] = a[3] * a24
          /\ t[4] = a[4] * a24 /\ t[5] = a[5] * a24
        BY <1>0, <1>1, <1>2
    <2> QED BY ONLY <2>1, SMTT(30) DEF FeVal, a24
<1>5. Represents(fe_carry(t), FeVal(t))
    BY <1>3, CarryRight
<1> QED BY <1>4, <1>5 DEF fe_mul_a24, t

-----------------------------------------------------------------------------
(* The operations chained, as the ladder chains them.                      *)

\* r stands for v in limbs that may go into an addition or a subtraction, and
\* in limbs that may go into a product only.
TightFor(r, v) == r \in Tight /\ Congruent(v, FeVal(r))
LooseFor(r, v) == r \in Loose /\ Congruent(v, FeVal(r))

\* Congruence is kept by sums, differences and products.
LEMMA CongruentArithmetic ==
    ASSUME FeSizes, NEW v \in Int, NEW w \in Int, NEW x \in Int, NEW y \in Int,
           Congruent(v, x), Congruent(w, y)
    PROVE  Congruent(v + w, x + y) /\ Congruent(v - w, x - y + 2 * Prime) /\ Congruent(v * w, x * y)
<1>0. Prime \in Int
    <2>1. M \in Int /\ C \in Int
        BY DEF FeSizes
    <2> QED BY ONLY <2>1, SMT DEF Prime
<1>1. PICK k \in Int : v = x + k * Prime
    BY DEF Congruent
<1>2. PICK l \in Int : w = y + l * Prime
    BY DEF Congruent
<1>3. v + w = (x + y) + (k + l) * Prime /\ v - w = (x - y + 2 * Prime) + (k - l - 2) * Prime
    BY <1>0, <1>1, <1>2, SMT
<1>4. v * w = x * y + (k * y + l * x + k * l * Prime) * Prime
    <2>1. (x + k * Prime) * (y + l * Prime) = x * y + (k * y + l * x + k * l * Prime) * Prime
        BY ONLY <1>0, x \in Int, y \in Int, k \in Int, l \in Int, SMTT(30)
    <2> QED BY <1>1, <1>2, <2>1, Zenon
<1>5. k + l \in Int /\ k - l - 2 \in Int /\ k * y + l * x + k * l * Prime \in Int
    BY ONLY <1>0, x \in Int, y \in Int, k \in Int, l \in Int, SMT
<1> QED BY <1>3, <1>4, <1>5, Zenon DEF Congruent

\* What a tight or loose element stands for is an integer, and a tight one is loose.
LEMMA TightValues ==
    ASSUME FeSizes
    PROVE  /\ \A r \in Tight : r \in Loose /\ FeVal(r) \in Int
           /\ \A r \in Loose : FeVal(r) \in Int
           /\ Prime \in Int
<1>1. M + 1536 \in Nat /\ 4 * M \in Nat /\ M + 1536 <= 4 * M
    BY DEF FeSizes
<1>2. \A r \in Tight : r \in Loose
    BY <1>1 DEF Tight, Loose, Limbs
<1>3. \A r \in Loose : FeVal(r) \in Int
    BY <1>1, Values DEF Loose
<1>4. Prime \in Int
    <2>1. M \in Int /\ C \in Int
        BY DEF FeSizes
    <2> QED BY ONLY <2>1, SMT DEF Prime
<1> QED BY <1>2, <1>3, <1>4

\* A sum and a difference of tight elements.
LEMMA SumOf ==
    ASSUME FeSizes, NEW v \in Int, NEW w \in Int, NEW a, NEW b, TightFor(a, v), TightFor(b, w)
    PROVE  LooseFor(fe_add(a, b), v + w) /\ LooseFor(fe_sub(a, b), v - w)
<1>1. a \in Tight /\ b \in Tight /\ Congruent(v, FeVal(a)) /\ Congruent(w, FeVal(b))
    BY DEF TightFor
<1>2. FeVal(a) \in Int /\ FeVal(b) \in Int
    BY <1>1, TightValues
<1>3. Congruent(v + w, FeVal(a) + FeVal(b)) /\ Congruent(v - w, FeVal(a) - FeVal(b) + 2 * Prime)
    BY <1>1, <1>2, CongruentArithmetic, ZenonT(60)
<1>4. fe_add(a, b) \in Loose /\ FeVal(fe_add(a, b)) = FeVal(a) + FeVal(b)
    BY <1>1, FeAddRight
<1>5. fe_sub(a, b) \in Loose /\ FeVal(fe_sub(a, b)) = FeVal(a) - FeVal(b) + 2 * Prime
    BY <1>1, FeSubRight
<1> QED BY <1>3, <1>4, <1>5, Zenon DEF LooseFor

\* A product of loose elements.
LEMMA ProductOf ==
    ASSUME FeSizes, NEW v \in Int, NEW w \in Int, NEW a, NEW b, LooseFor(a, v), LooseFor(b, w)
    PROVE  TightFor(fe_mul(a, b), v * w)
<1>1. a \in Loose /\ b \in Loose /\ Congruent(v, FeVal(a)) /\ Congruent(w, FeVal(b))
    BY DEF LooseFor
<1>2. FeVal(a) \in Int /\ FeVal(b) \in Int /\ Prime \in Int
    BY <1>1, TightValues
<1>3. Congruent(v * w, FeVal(a) * FeVal(b))
    BY <1>1, <1>2, CongruentArithmetic
<1>4. fe_mul(a, b) \in Tight /\ Congruent(FeVal(a) * FeVal(b), FeVal(fe_mul(a, b)))
    BY <1>1, FeMulRight DEF Represents
<1>5. FeVal(fe_mul(a, b)) \in Int /\ v * w \in Int /\ FeVal(a) * FeVal(b) \in Int
    BY <1>2, <1>4, TightValues
<1>6. Congruent(v * w, FeVal(fe_mul(a, b)))
    BY <1>2, <1>3, <1>4, <1>5, CongruentTransitive
<1> QED BY <1>4, <1>6 DEF TightFor

\* A square of a loose element.
LEMMA SquareOf ==
    ASSUME FeSizes, NEW v \in Int, NEW a, LooseFor(a, v)
    PROVE  TightFor(fe_sq(a), v * v)
<1>1. fe_sq(a) = fe_mul(a, a)
    BY FeSqRight DEF LooseFor
<1> QED BY <1>1, ProductOf

\* The product with 121665.
LEMMA A24Of ==
    ASSUME FeSizes, NEW v \in Int, NEW a, LooseFor(a, v)
    PROVE  TightFor(fe_mul_a24(a), a24 * v)
<1>1. a \in Loose /\ Congruent(v, FeVal(a)) /\ FeVal(a) \in Int /\ Prime \in Int
    BY TightValues DEF LooseFor
<1>2. Congruent(a24 * v, a24 * FeVal(a))
    <2>1. PICK k \in Int : v = FeVal(a) + k * Prime
        BY <1>1 DEF Congruent
    <2>2. a24 * v = a24 * FeVal(a) + (a24 * k) * Prime /\ a24 * k \in Int
        BY <1>1, <2>1, SMT DEF a24
    <2> QED BY <2>2 DEF Congruent
<1>3. fe_mul_a24(a) \in Tight /\ Congruent(a24 * FeVal(a), FeVal(fe_mul_a24(a)))
    BY <1>1, FeMulA24Right DEF Represents
<1>4. FeVal(fe_mul_a24(a)) \in Int /\ a24 * v \in Int /\ a24 * FeVal(a) \in Int
    BY <1>1, <1>3, TightValues DEF a24
<1>5. Congruent(a24 * v, FeVal(fe_mul_a24(a)))
    BY <1>1, <1>2, <1>3, <1>4, CongruentTransitive
<1> QED BY <1>3, <1>5 DEF TightFor

\* A turn of the ladder of viltrum_x25519 on limbs: fed tight elements it
\* leaves tight elements, so no number of turns overflows a limb, and it
\* computes the doubling and the differential addition of the Montgomery curve.
THEOREM LadderRoundRight ==
    ASSUME FeSizes, NEW x1, NEW x2, NEW z2, NEW x3, NEW z3,
           NEW u \in Int, NEW v2 \in Int, NEW w2 \in Int, NEW v3 \in Int, NEW w3 \in Int,
           LooseFor(x1, u), TightFor(x2, v2), TightFor(z2, w2), TightFor(x3, v3), TightFor(z3, w3)
    PROVE  LET A   == v2 + w2
               B   == v2 - w2
               E   == A * A - B * B
               DA  == (v3 - w3) * A
               CB  == (v3 + w3) * B
               new == LadderRound(x1, x2, z2, x3, z3)
           IN  /\ TightFor(new.x3, (DA + CB) * (DA + CB))
               /\ TightFor(new.z3, u * ((DA - CB) * (DA - CB)))
               /\ TightFor(new.x2, (A * A) * (B * B))
               /\ TightFor(new.z2, E * (A * A + a24 * E))
<1> DEFINE A == v2 + w2
           B == v2 - w2
           AA == A * A
           BB == B * B
           E == AA - BB
           Cs == v3 + w3
           D == v3 - w3
           DA == D * A
           CB == Cs * B
           aa == fe_sq(fe_add(x2, z2))
           bb == fe_sq(fe_sub(x2, z2))
           e == fe_sub(aa, bb)
           da == fe_mul(fe_sub(x3, z3), fe_add(x2, z2))
           cb == fe_mul(fe_add(x3, z3), fe_sub(x2, z2))
<1>1. A \in Int /\ B \in Int /\ Cs \in Int /\ D \in Int
    OBVIOUS
<1>2. LooseFor(fe_add(x2, z2), A) /\ LooseFor(fe_sub(x2, z2), B)
    BY Zenon, SumOf
<1>3. LooseFor(fe_add(x3, z3), Cs) /\ LooseFor(fe_sub(x3, z3), D)
    BY Zenon, SumOf
<1> HIDE DEF A, B, Cs, D
<1>4. AA \in Int /\ BB \in Int /\ DA \in Int /\ CB \in Int
    BY <1>1
<1>5. TightFor(aa, AA) /\ TightFor(bb, BB)
    BY ONLY FeSizes, <1>1, <1>2, SquareOf, Zenon
<1>6. TightFor(da, DA) /\ TightFor(cb, CB)
    BY ONLY FeSizes, <1>1, <1>2, <1>3, ProductOf, Zenon
<1> HIDE DEF aa, bb, da, cb, AA, BB, DA, CB
<1>7. LooseFor(e, E) /\ E \in Int
    <2>1. LooseFor(fe_sub(aa, bb), AA - BB)
        BY ONLY FeSizes, <1>4, <1>5, SumOf, Zenon
    <2> QED BY <1>4, <2>1
<1>8. LooseFor(fe_add(da, cb), DA + CB) /\ LooseFor(fe_sub(da, cb), DA - CB)
    BY ONLY FeSizes, <1>4, <1>6, SumOf, Zenon
<1>9. TightFor(fe_sq(fe_add(da, cb)), (DA + CB) * (DA + CB))
    <2>1. DA + CB \in Int
        BY <1>4
    <2> QED BY ONLY FeSizes, <1>8, <2>1, SquareOf, Zenon
<1>10. TightFor(fe_mul(x1, fe_sq(fe_sub(da, cb))), u * ((DA - CB) * (DA - CB)))
    <2>1. (DA - CB) * (DA - CB) \in Int /\ DA - CB \in Int
        BY <1>4
    <2>2. TightFor(fe_sq(fe_sub(da, cb)), (DA - CB) * (DA - CB))
        BY ONLY FeSizes, <1>8, <2>1, SquareOf, Zenon
    <2>3. LooseFor(fe_sq(fe_sub(da, cb)), (DA - CB) * (DA - CB))
        BY ONLY FeSizes, <2>2, TightValues, Zenon DEF TightFor, LooseFor
    <2> QED BY ONLY FeSizes, LooseFor(x1, u), u \in Int, <2>1, <2>3, ProductOf, Zenon
<1>11. LooseFor(aa, AA) /\ LooseFor(bb, BB)
    BY ONLY FeSizes, <1>5, TightValues, Zenon DEF TightFor, LooseFor
<1>12. TightFor(fe_mul(aa, bb), AA * BB)
    BY ONLY FeSizes, <1>4, <1>11, ProductOf, Zenon
<1> HIDE DEF e, E
<1>13. TightFor(fe_mul(e, fe_add(aa, fe_mul_a24(e))), E * (AA + a24 * E))
    <2>1. a24 * E \in Int /\ AA + a24 * E \in Int
        BY <1>4, <1>7 DEF a24
    <2>2. TightFor(fe_mul_a24(e), a24 * E)
        BY ONLY FeSizes, <1>7, A24Of, Zenon
    <2>3. LooseFor(fe_add(aa, fe_mul_a24(e)), AA + a24 * E)
        BY ONLY FeSizes, <1>4, <1>5, <2>1, <2>2, SumOf, Zenon
    <2> QED BY ONLY FeSizes, <1>7, <2>1, <2>3, ProductOf, Zenon
<1>14. LadderRound(x1, x2, z2, x3, z3)
           = [x3 |-> fe_sq(fe_add(da, cb)), z3 |-> fe_mul(x1, fe_sq(fe_sub(da, cb))),
              x2 |-> fe_mul(aa, bb), z2 |-> fe_mul(e, fe_add(aa, fe_mul_a24(e)))]
    BY Zenon DEF LadderRound, e, aa, bb, da, cb
<1> DEFINE new == LadderRound(x1, x2, z2, x3, z3)
<1>15. /\ new.x3 = fe_sq(fe_add(da, cb)) /\ new.z3 = fe_mul(x1, fe_sq(fe_sub(da, cb)))
       /\ new.x2 = fe_mul(aa, bb) /\ new.z2 = fe_mul(e, fe_add(aa, fe_mul_a24(e)))
    BY <1>14
<1> HIDE DEF new
<1>16. /\ TightFor(new.x3, (DA + CB) * (DA + CB))
       /\ TightFor(new.z3, u * ((DA - CB) * (DA - CB)))
       /\ TightFor(new.x2, AA * BB)
       /\ TightFor(new.z2, E * (AA + a24 * E))
    BY ONLY <1>9, <1>10, <1>12, <1>13, <1>15, Zenon
<1> QED BY ONLY <1>16, Zenon DEF new, A, B, AA, BB, E, Cs, D, DA, CB
=============================================================================
