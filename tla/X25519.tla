------------------------------- MODULE X25519 -------------------------------
(***************************************************************************)
(* viltrum_x25519 of src/engine/x25519.h: the Montgomery ladder, one bit   *)
(* of the scalar a step, over the field modulo P.  How limbs represent a   *)
(* field element is Fe25519; here an element is its residue.               *)
(***************************************************************************)
EXTENDS Integers, FiniteSets

CONSTANTS
    P,      \* the prime (2^255 - 19)
    A24,    \* (A - 2) / 4 for the curve y^2 = x^3 + A x^2 + x
    Bits,   \* bits of the prime (255)
    Points  \* the u-coordinates a peer may send, reduced or not

VARIABLES
    k,                \* the scalar, clamped
    x1,               \* the point
    pos,              \* the bit of k the loop is at, -1 after the last
    x2, z2, x3, z3,   \* the two projective points of the ladder
    swap,             \* whether they are swapped now
    out               \* the result, or NoOut

ladderVars == <<k, x1, pos, x2, z2, x3, z3, swap, out>>

NoOut == -1

-----------------------------------------------------------------------------
\* Bytes to scalar: the lowest three bits and the bit above the field's are
\* cleared, the field's top bit is set.
Clamp(s) == 8 * ((s \div 8) % 2^(Bits - 4)) + 2^(Bits - 1)

\* The exponents of viltrum_fe_invert's chain, a set of bits each: a squaring
\* moves the bits up, a product adds two exponents that share no bit.
SqN(e, n) == {b + n : b \in e}
Times(e, f) == IF e \cap f = {} THEN e \cup f ELSE {}

InvertChain ==
    LET z     == {0}
        z2_   == SqN(z, 1)
        z9    == Times(SqN(z2_, 2), z)
        z11   == Times(z9, z2_)
        e5    == Times(SqN(z11, 1), z9)
        e10   == Times(SqN(e5, 5), e5)
        e20   == Times(SqN(e10, 10), e10)
        e50   == Times(SqN(Times(SqN(e20, 20), e20), 10), e10)
        e100  == Times(SqN(e50, 50), e50)
        e250  == Times(SqN(Times(SqN(e100, 100), e100), 50), e50)
    IN  Times(SqN(e250, 5), z11)

Power(z, exponent) ==
    LET pow[e \in 0..exponent] ==
            IF e = 0 THEN 1
            ELSE LET h == pow[e \div 2]
                 IN  (((h * h) % P) * (IF e % 2 = 1 THEN z ELSE 1)) % P
    IN  pow[exponent]

\* Mutant of fe_invert: the exponent of a prime one larger.
InvertOff(z) == Power(z, P - 1)

\* z^(P - 2), what the chain is for this prime.
fe_invert(z) == Power(z, P - 2)

\* swap ^= bit: whether the points change places at this bit.
SwapFor(swapped, bit) == (swapped + bit) % 2

fe_cswap(s, a, b) == IF s = 1 THEN <<b, a>> ELSE <<a, b>>

-----------------------------------------------------------------------------
LadderInit ==
    /\ k \in {Clamp(s) : s \in 0..(2^(Bits + 1) - 1)}
    /\ \E u \in Points : x1 = (u % 2^Bits) % P
    /\ pos = Bits - 1
    /\ x2 = 1 /\ z2 = 0
    /\ x3 = x1 /\ z3 = 1
    /\ swap = 0
    /\ out = NoOut

\* One turn of the loop.
LadderStep ==
    /\ pos >= 0
    /\ LET bit == (k \div 2^pos) % 2
           s   == SwapFor(swap, bit)
           xs  == fe_cswap(s, x2, x3)
           zs  == fe_cswap(s, z2, z3)
           a   == (xs[1] + zs[1]) % P
           aa  == (a * a) % P
           b   == (xs[1] - zs[1]) % P
           bb  == (b * b) % P
           e   == (aa - bb) % P
           c   == (xs[2] + zs[2]) % P
           d   == (xs[2] - zs[2]) % P
           da  == (d * a) % P
           cb  == (c * b) % P
       IN  /\ swap' = bit
           /\ x3' = ((da + cb) * (da + cb)) % P
           /\ z3' = (x1 * (((da - cb) * (da - cb)) % P)) % P
           /\ x2' = (aa * bb) % P
           /\ z2' = (e * ((aa + A24 * e) % P)) % P
    /\ pos' = pos - 1
    /\ UNCHANGED <<k, x1, out>>

\* After the loop: swap back, divide, and the canonical bytes.
LadderEnd ==
    /\ pos = -1 /\ out = NoOut
    /\ LET xs == fe_cswap(swap, x2, x3)
           zs == fe_cswap(swap, z2, z3)
       IN  out' = (xs[1] * fe_invert(zs[1])) % P
    /\ UNCHANGED <<k, x1, pos, x2, z2, x3, z3, swap>>

LadderNext == LadderStep \/ LadderEnd
LadderSpec == LadderInit /\ [][LadderNext]_ladderVars

-----------------------------------------------------------------------------
(* The reference: affine points of the curve, and of its twist for a       *)
(* u-coordinate that is not on the curve.  The twist is d y^2 = f(x) for a *)
(* d that is no square.                                                    *)

F(x) == (x * ((x * ((x + 4 * A24 + 2) % P) + 1) % P)) % P
Roots == [v \in 0..(P - 1) |-> {y \in 0..(P - 1) : (y * y) % P = v}]
Inverses == [v \in 1..(P - 1) |-> CHOOSE w \in 1..(P - 1) : (v * w) % P = 1]
NonSquare == CHOOSE v \in 1..(P - 1) : Roots[v] = {}

Coefficient(x) == IF Roots[F(x)] # {} THEN 1 ELSE NonSquare
Lift(x) ==
    LET y == CHOOSE y \in 0..(P - 1) : (Coefficient(x) * ((y * y) % P)) % P = F(x)
    IN  <<x, y>>

Infinity == <<>>

AddPoints(p, q, d) ==
    IF p = Infinity THEN q
    ELSE IF q = Infinity THEN p
    ELSE IF p[1] = q[1] /\ (p[2] + q[2]) % P = 0 THEN Infinity
    ELSE LET slope ==
                IF p = q
                THEN ((3 * p[1] * p[1] + 2 * (4 * A24 + 2) * p[1] + 1)
                      * Inverses[(2 * d * p[2]) % P]) % P
                ELSE ((q[2] - p[2]) * Inverses[(q[1] - p[1]) % P]) % P
             x == (d * ((slope * slope) % P) - (4 * A24 + 2) - p[1] - q[1]) % P
         IN  <<x, (slope * (p[1] - x) - p[2]) % P>>

\* n times the point with u-coordinate x.
Multiple(n, x) ==
    LET d == Coefficient(x)
        times[i \in 0..n] ==
            IF i = 0 THEN Infinity
            ELSE LET half == times[i \div 2]
                     even == AddPoints(half, half, d)
                 IN  IF i % 2 = 1 THEN AddPoints(even, Lift(x), d) ELSE even
    IN  times[n]

Represents(x, z, point) ==
    IF point = Infinity THEN z = 0 ELSE z # 0 /\ x = (point[1] * z) % P

\* At every turn of the loop, swapped back, the pair is [s]P and [s+1]P for the
\* bits s of the scalar done so far: the deferred swap never mixes them up.
\* (0, 0), whose difference the formulas cannot use, is left to LadderRight.
LadderPair ==
    LET s  == k \div 2^(pos + 1)
        xs == fe_cswap(swap, x2, x3)
        zs == fe_cswap(swap, z2, z3)
    IN  x1 # 0 => /\ Represents(xs[1], zs[1], Multiple(s, x1))
                  /\ Represents(xs[2], zs[2], Multiple(s + 1, x1))

\* The result is the u-coordinate of the scalar times the point, on the curve
\* or its twist, for a point sent reduced or not; 0 for the point at infinity.
LadderRight ==
    out # NoOut =>
        LET point == Multiple(k, x1)
        IN  out = IF point = Infinity THEN 0 ELSE point[1]

\* A point whose order divides eight gives all zeros, which the handshake
\* refuses: clamping makes every scalar a multiple of the cofactor.
SmallOrderIsZero ==
    out # NoOut /\ Multiple(8, x1) = Infinity => out = 0

\* viltrum_x25519 is scalar multiplication: at every turn of its loop, in its
\* result, and for the points the handshake must refuse.
X25519Right == LadderPair /\ LadderRight /\ SmallOrderIsZero
=============================================================================
