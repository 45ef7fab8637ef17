-------------------------------- MODULE Rsa --------------------------------
(***************************************************************************)
(* One RSA private key of src/engine/rsa.h: loading it, and signing with   *)
(* it under base blinding and the Chinese remainder theorem.  The key      *)
(* outlives its signatures: every signing squares the blinding pair it     *)
(* holds.  A fault (a flipped bit, a failing multiplier) may replace one   *)
(* CRT half by any residue; the code checks the signature with the public  *)
(* exponent before it lets it out.                                         *)
(***************************************************************************)
EXTENDS Mont

CONSTANTS
    MinBits, MaxBits,  \* sizes of modulus the code takes (1024 and 4096)
    Keys,              \* keys a certificate may come with: [n, p, q, e, d]
    Blinds,            \* values the random generator may give for r
    Messages,          \* encoded messages to sign, as numbers
    FaultMessages,     \* those whose signing a fault may hit
    Faults,            \* residues a fault may leave in a CRT half
    MaxUses            \* bound on the signatures made with one key

VARIABLES
    file,    \* the key the certificate came with
    key,     \* viltrum_rsa: NoKey before load and after a load that failed
    uses,    \* how often the blinding pair was squared
    signing  \* the call of private in hand: its message, result and fault

rsaVars == <<file, key, uses, signing>>

NoKey == [ok |-> 0]
NoSigning == [m |-> 0, ret |-> 0, out |-> 0, fault |-> "none", made |-> FALSE]

BitLen(v) == IF v = 0 THEN 0 ELSE CHOOSE b \in 1..31 : v \div 2^(b - 1) = 1

\* The reference: x^y mod m by repeated multiplication, and inverses.
PowMod(x, y, m) ==
    LET pow[i \in 0..y] ==
            IF i = 0 THEN 1 % m
            ELSE LET r == pow[i \div 2]
                 IN  (((r * r) % m) * (IF i % 2 = 1 THEN x ELSE 1)) % m
    IN  pow[y]

HasInverse(x, m) == \E y \in 0..(m - 1) : (x * y) % m = 1
InvMod(x, m) == CHOOSE y \in 0..(m - 1) : (x * y) % m = 1

\* The primes fill their h words exactly: q < 2p follows, which private
\* relies on.
PrimesFill(f, h) == BitLen(f.p) = W * h /\ BitLen(f.q) = W * h

\* The shape of key the code handles.
Handled(f) ==
    LET bits == BitLen(f.n)
    IN  /\ bits >= MinBits /\ bits <= MaxBits /\ bits % (2 * W) = 0
        /\ PrimesFill(f, bits \div (2 * W))
        /\ BitLen(f.e) <= W /\ f.e >= 3

\* What load fills in for a key it handles, with the blinding value r.
Loaded(f, r) ==
    LET k == BitLen(f.n) \div W
        h == k \div 2
    IN  [ok     |-> 1, limbs |-> k, e |-> f.e,
         n      |-> f.n, p |-> f.p, q |-> f.q,
         dp     |-> f.d % (f.p - 1),
         dq     |-> f.d % (f.q - 1),
         n_n0   |-> n0_of(f.n % B), p_n0 |-> n0_of(f.p % B), q_n0 |-> n0_of(f.q % B),
         n_r2   |-> mont_const(f.n, k, 2, 1), n_one |-> mont_const(f.n, k, 1, 1),
         p_r3   |-> mont_const(f.p, h, 3, 1), q_r3  |-> mont_const(f.q, h, 3, 1),
         p_one  |-> mont_const(f.p, h, 1, 1), q_one |-> mont_const(f.q, h, 1, 1),
         qinv_m |-> mont_const(f.p, h, 1, InvMod(f.q, f.p)),
         bl_vf  |-> mont_const(f.n, k, 1, InvMod(r, f.n)),
         bl_vi  |-> mont_const(f.n, k, 1, PowMod(r, f.e, f.n))]

-----------------------------------------------------------------------------
(* viltrum_rsa_private in the order of its steps.                          *)

\* The blinding pair is squared before it is used.
NextBlinding(key_) ==
    [key_ EXCEPT !.bl_vi = mont_sqr(@, key_.n, key_.n_n0, key_.limbs),
                 !.bl_vf = mont_sqr(@, key_.n, key_.n_n0, key_.limbs)]

\* x^d mod prime: into the prime's Montgomery form by REDC and R^3, the
\* exponentiation, and out again.
CrtHalf(x, d, prime, n0, r3, one, h) ==
    LET t == mont_mul(mont_redc(x, prime, n0, h), r3, prime, n0, h)
    IN  mont_mul(mont_exp(t, d, prime, n0, one, h), 1, prime, n0, h)

\* Mutant of ReduceOnce: takes s2 for reduced.
ReduceNever(s2, p, h) == s2

\* s2 mod p, one subtraction because s2 < q < 2p.
ReduceOnce(s2, p, h) ==
    LET s == Subtract(s2, p, h)
    IN  IF s.borrow = 1 THEN s2 ELSE s.d

\* (s1 - t) mod p.
SubMod(s1, t, p, h) ==
    LET s == Subtract(s1, t, h)
    IN  IF s.borrow = 1 THEN AddWords(s.d, p, h) ELSE s.d

\* s2 + t * q as k words, the product row by row.
Recombine(s1, s2, key_) ==
    LET h == key_.limbs \div 2
        t == mont_mul(SubMod(s1, ReduceOnce(s2, key_.p, h), key_.p, h),
                      key_.qinv_m, key_.p, key_.p_n0, h)
        rows[i \in 0..h] ==
            IF i = 0 THEN 0
            ELSE LET row == MulAddRow(rows[i - 1], Word(t, i - 1), key_.q, i - 1, h)
                 IN  row.x + row.c * B^(i - 1 + h)
    IN  AddWords(rows[h], s2, 2 * h)

\* y^e for the public exponent, from its bit below the top one down, and out of
\* the Montgomery form.
PublicPower(y, key_, k) ==
    LET top == BitLen(key_.e) - 1
        bits[b \in 0..top, acc \in Number(k)] ==
            IF b = 0 THEN acc
            ELSE LET MulIfSet(sq) == IF (key_.e \div 2^(b - 1)) % 2 = 1
                                     THEN mont_mul(sq, y, key_.n, key_.n_n0, k) ELSE sq
                 IN  bits[b - 1, MulIfSet(mont_sqr(acc, key_.n, key_.n_n0, k))]
    IN  mont_mul(bits[top, y], 1, key_.n, key_.n_n0, k)

PublicExp(x, key_) ==
    PublicPower(mont_mul(x, key_.n_r2, key_.n, key_.n_n0, key_.limbs), key_, key_.limbs)

\* The signature of the blinded message x; fault is the half that is hit and bad
\* what is left there.
CrtPower(x, key_, h, fault, bad) ==
    Recombine(IF fault = "p" THEN bad
              ELSE CrtHalf(x, key_.dp, key_.p, key_.p_n0, key_.p_r3, key_.p_one, h),
              IF fault = "q" THEN bad
              ELSE CrtHalf(x, key_.dq, key_.q, key_.q_n0, key_.q_r3, key_.q_one, h),
              key_)

\* private(m) with the key key_ whose pair is already the next one.
Signature(m, key_, fault, bad) ==
    LET k == key_.limbs
    IN  mont_mul(CrtPower(mont_mul(m, key_.bl_vi, key_.n, key_.n_n0, k), key_, k \div 2,
                          fault, bad),
                 key_.bl_vf, key_.n, key_.n_n0, k)

\* Mutant of Releases: no check with the public exponent.
ReleaseUnchecked(x, m, key_) == TRUE

\* The check that stands between the signature and the caller.
Releases(x, m, key_) == PublicExp(x, key_) = m

-----------------------------------------------------------------------------
RsaInit ==
    /\ file \in Keys
    /\ key = NoKey
    /\ uses = 0
    /\ signing = NoSigning

\* viltrum_rsa_load: r, shorter than n, is drawn again until it is above 1
\* and prime to n.
Load ==
    /\ key = NoKey
    /\ IF Handled(file)
       THEN \E r \in Blinds :
                /\ r > 1 /\ r < 2^(BitLen(file.n) - 1)
                /\ HasInverse(r, file.n)
                /\ key' = Loaded(file, r)
       ELSE key' = NoKey
    /\ UNCHANGED <<file, uses, signing>>

\* What private returns: x when it is good.
Return(m, fault, x, good) ==
    [m |-> m, fault |-> fault, made |-> TRUE,
     ret |-> IF good THEN 0 ELSE -1, out |-> IF good THEN x ELSE 0]

\* The signature with the next blinding pair, checked.
Checked(m, fault, x, next) == Return(m, fault, x, Releases(x, m, next))
Blinded(m, fault, bad, next) ==
    /\ key' = next
    /\ signing' = Checked(m, fault, Signature(m, next, fault, bad), next)

\* viltrum_rsa_private.  A message not below n is refused before the pair
\* moves on.
Private(m, fault, bad) ==
    /\ key.ok = 1
    /\ signing = NoSigning
    /\ m < B^key.limbs
    /\ IF Subtract(m, key.n, key.limbs).borrow = 0
       THEN /\ fault = "none"
            /\ signing' = [m |-> m, ret |-> -1, out |-> 0, fault |-> fault, made |-> TRUE]
            /\ UNCHANGED <<key, uses>>
       ELSE /\ uses < MaxUses
            /\ uses' = uses + 1
            /\ Blinded(m, fault, bad, NextBlinding(key))
    /\ UNCHANGED file

Sign(m) == Private(m, "none", 0)

SignWithFault(m, half, v) ==
    /\ key.ok = 1
    /\ v < IF half = "p" THEN key.p ELSE key.q
    /\ Private(m, half, v)

\* The handshake takes the signature, or gives up, and the key is free again.
Taken ==
    /\ signing.made
    /\ signing' = NoSigning
    /\ UNCHANGED <<file, key, uses>>

RsaNext ==
    \/ Load
    \/ Taken
    \/ \E m \in Messages : Sign(m)
    \/ \E m \in FaultMessages, half \in {"p", "q"}, v \in Faults : SignWithFault(m, half, v)

-----------------------------------------------------------------------------
(* Properties.                                                             *)

\* Whatever a fault leaves in a CRT half, a signature that private lets out
\* is the right one: below n, and its e-th power is the message.
NothingWrongReleased ==
    key.ok = 1 /\ signing.ret = 0 =>
        signing.out < file.n /\ PowMod(signing.out, file.e, file.n) = signing.m

\* A key that load accepts signs every message below n, on the first use and
\* after any number of signings: the shape checks of load are all that the
\* recombination (q < 2p) and the Montgomery code need.
EveryMessageSigned ==
    key.ok = 1 /\ signing.fault = "none" /\ signing.m < file.n => signing.ret = 0

RsaSpec == RsaInit /\ [][RsaNext]_rsaVars
=============================================================================
