------------------------------ MODULE Fe25519 ------------------------------
(***************************************************************************)
(* The field arithmetic of src/engine/x25519.h: an element is five limbs,  *)
(* a[1] the least significant (the code's a[0]), in radix M (2^51 in the   *)
(* code), for the prime M^5 - C (2^255 - 19).  U is the conversion to      *)
(* uint64_t: it drops what is above 64 bits, which is 2^13 radices.  A     *)
(* column sum is left unreduced: it is shifted down by a limb and          *)
(* converted to 64 bits before anything else, so a sum that fits there     *)
(* fits 128 bits.                                                          *)
(***************************************************************************)
EXTENDS Integers

CONSTANTS
    M,  \* the radix of a limb
    C   \* M^5 modulo the prime

ASSUME FeAssumption == M \in Nat /\ C \in Nat /\ 0 < C /\ C < M

\* uint64_t.
Word64 == 8192 * M
U(x) == x % Word64

Prime == M * M * M * M * M - C

\* What five limbs stand for.
FeVal(a) == a[1] + M * (a[2] + M * (a[3] + M * (a[4] + M * a[5])))

-----------------------------------------------------------------------------
fe_add(a, b) ==
    <<U(a[1] + b[1]), U(a[2] + b[2]), U(a[3] + b[3]), U(a[4] + b[4]), U(a[5] + b[5])>>

\* a - b + 2p, limb by limb.
fe_sub(a, b) ==
    <<U(a[1] + (2 * M - 2 * C) - b[1]), U(a[2] + (2 * M - 2) - b[2]),
      U(a[3] + (2 * M - 2) - b[3]), U(a[4] + (2 * M - 2) - b[4]),
      U(a[5] + (2 * M - 2) - b[5])>>

\* Column sums back to limbs: each hands what is above a limb to the next, the
\* last one C times to the first.
fe_carry(t) ==
    LET t2 == t[2] + U(t[1] \div M)
        t3 == t[3] + U(t2 \div M)
        t4 == t[4] + U(t3 \div M)
        t5 == t[5] + U(t4 \div M)
        r1 == U((t[1] % M) + U(t5 \div M) * C)
    IN  <<r1 % M, U((t2 % M) + (r1 \div M)), t3 % M, t4 % M, t5 % M>>

\* The columns of a product; b[i] * C is a 64-bit product.
MulColumns(a, b) ==
    LET b2 == U(b[2] * C)
        b3 == U(b[3] * C)
        b4 == U(b[4] * C)
        b5 == U(b[5] * C)
    IN  <<a[1] * b[1] + a[2] * b5 + a[3] * b4 + a[4] * b3 + a[5] * b2,
          a[1] * b[2] + a[2] * b[1] + a[3] * b5 + a[4] * b4 + a[5] * b3,
          a[1] * b[3] + a[2] * b[2] + a[3] * b[1] + a[4] * b5 + a[5] * b4,
          a[1] * b[4] + a[2] * b[3] + a[3] * b[2] + a[4] * b[1] + a[5] * b5,
          a[1] * b[5] + a[2] * b[4] + a[3] * b[3] + a[4] * b[2] + a[5] * b[1]>>

fe_mul(a, b) == fe_carry(MulColumns(a, b))

\* The columns of a square, cross products once, doubled.
SqColumns(a) ==
    LET d1 == U(a[1] * 2)
        d2 == U(a[2] * 2)
        d3 == U(a[3] * 2 * C)
        d4 == U(a[4] * C)
        d5 == U(a[5] * C)
    IN  <<a[1] * a[1] + d2 * d5 + d3 * a[4],
          d1 * a[2] + d3 * a[5] + a[4] * d4,
          d1 * a[3] + a[2] * a[2] + U(a[4] * 2) * d5,
          d1 * a[4] + d2 * a[3] + a[5] * d5,
          d1 * a[5] + d2 * a[4] + a[3] * a[3]>>

fe_sq(a) == fe_carry(SqColumns(a))

\* (486662 - 2) / 4.
a24 == 121665
fe_mul_a24(a) == fe_carry(<<a[1] * a24, a[2] * a24, a[3] * a24, a[4] * a24, a[5] * a24>>)

\* The arithmetic of one turn of the ladder in viltrum_x25519, on limbs.
LadderRound(x1, x2, z2, x3, z3) ==
    LET a  == fe_add(x2, z2)
        aa == fe_sq(a)
        b  == fe_sub(x2, z2)
        bb == fe_sq(b)
        e  == fe_sub(aa, bb)
        c  == fe_add(x3, z3)
        d  == fe_sub(x3, z3)
        da == fe_mul(d, a)
        cb == fe_mul(c, b)
    IN  [x3 |-> fe_sq(fe_add(da, cb)),
         z3 |-> fe_mul(x1, fe_sq(fe_sub(da, cb))),
         x2 |-> fe_mul(aa, bb),
         z2 |-> fe_mul(e, fe_add(aa, fe_mul_a24(e)))]

-----------------------------------------------------------------------------
(* viltrum_fe_tobytes up to the bytes: the canonical value.                *)

\* One pass of carries up the limbs; what leaves the top is C times added at
\* the bottom when fold is set, and dropped otherwise.
CarryPass(t, fold) ==
    LET t2 == t[2] + t[1] \div M
        t3 == t[3] + t2 \div M
        t4 == t[4] + t3 \div M
        t5 == t[5] + t4 \div M
    IN  <<(t[1] % M) + (IF fold THEN (t5 \div M) * C ELSE 0), t2 % M, t3 % M, t4 % M, t5 % M>>

Canonical(a) ==
    LET below == CarryPass(CarryPass(a, TRUE), TRUE)
        plus  == CarryPass([below EXCEPT ![1] = @ + C], TRUE)
    IN  CarryPass(<<plus[1] + M - C, plus[2] + M - 1, plus[3] + M - 1,
                    plus[4] + M - 1, plus[5] + M - 1>>, FALSE)

-----------------------------------------------------------------------------
(* The packing of 255 bits into limbs of 51 and into words of 64, at the   *)
(* code's own sizes: which bit of the source a bit of the result is.       *)

NoBit == -1

\* Limb i (0..4) is a 64-bit little-endian load at a byte offset, shifted down
\* and masked.
LoadOffset == <<0, 6, 12, 19, 24>>
LoadShift == <<0, 3, 6, 1, 12>>

\* Bit b of limb i of fe_frombytes, as a bit of the 32 bytes.
frombytes(i, b) ==
    LET inLoad == b + LoadShift[i + 1]
    IN  IF b < 51 /\ inLoad < 64 THEN 8 * LoadOffset[i + 1] + inLoad ELSE NoBit

\* Word j (0..3) of fe_tobytes is limb j shifted down or limb j + 1 shifted up.
StoreDown == <<0, 13, 26, 39>>
StoreUp == <<51, 38, 25, 12>>

\* The limbs' bits that are or-ed into bit n of the 32 bytes.
tobytes(n) ==
    LET j == n \div 64
        b == n % 64
    IN  {x \in {<<j, b + StoreDown[j + 1]>>, <<j + 1, b - StoreUp[j + 1]>>} : x[2] \in 0..50}
=============================================================================
