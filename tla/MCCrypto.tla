------------------------------ MODULE MCCrypto ------------------------------
(***************************************************************************)
(* The cryptography of src/engine and src/http1 for model checking: the    *)
(* RSA key and the X25519 ladder as the state machines they are, and the   *)
(* pure functions called once each on the inputs below.  The parts share   *)
(* nothing; call says which of them a behaviour is about, and the state of *)
(* the others stands still.                                                *)
(***************************************************************************)
EXTENDS Rsa, X25519, Fe25519, Pss, Crc32, Ghash, AesGcm

VARIABLES
    call,   \* the part, and for a function its arguments
    result  \* the sequence of what it returned: empty, then one value

vars == <<rsaVars, ladderVars, call, result>>

NoResult == <<>>

-----------------------------------------------------------------------------
(* Instances.                                                              *)

KeyOf(prime1, prime2, e) ==
    [n |-> prime1 * prime2, p |-> prime1, q |-> prime2, e |-> e,
     d |-> CHOOSE d \in 1..(prime1 * prime2) :
               (d * e) % (prime1 - 1) = 1 /\ (d * e) % (prime2 - 1) = 1]

\* Two words of four bits, in both orders of the primes; a modulus of the right
\* size whose primes do not fill their words; four words.
MCKeys == {KeyOf(11, 13, 7), KeyOf(13, 11, 7), KeyOf(5, 29, 3), KeyOf(181, 191, 7)}

\* Messages of the small moduli, the multiples of their primes included, and
\* some beyond; every u-coordinate of a byte, the top bit set or not, and one
\* with the ignored bit set.
MCMessages ==
    {m \in 0..150 : m % 5 = 0 \/ m % 11 = 0 \/ m % 13 = 0 \/ m % 7 = 1 \/ m >= 140}
    \cup {255, 4096, 34570, 34571, 65535}
MCFaults == 0..12
MCPoints == (0..255) \cup {265}

\* Montgomery products over every odd modulus of one word and some of two.
MontModuli == {[m |-> m, k |-> 1] : m \in {3, 7, 11, 13, 15}}
              \cup {[m |-> m, k |-> 2] : m \in {17, 143, 255}}
              \cup {[m |-> m, k |-> 3] : m \in {4095}}
MontArgs(m) == {v \in {0, 1, 2, 5, 9, 14, 16, 100, 142, 254, 4094} : v < m}
MontCalls == UNION {{<<"mont", x.m, x.k, a, b>> : a \in MontArgs(x.m), b \in MontArgs(x.m)} :
                    x \in MontModuli}

\* Limbs at and around the radix, and as large as a sum or a difference is.
LimbsOf(s) == s \X s \X s \X s \X s
FieldCalls ==
    {<<"mul", a, b>> : a \in LimbsOf({0, M - 1, 3 * M + 1}),
                       b \in LimbsOf({1, 3 * M}) \cup {<<M, 0, M - 1, 2, 0>>}}
    \cup {<<"canonical", a>> : a \in LimbsOf({0, 1, M - 2, M - 1, M + 1})
                                     \cup LimbsOf({M - C, M - 1})}
    \cup {<<"bit", n>> : n \in 0..255}
Subtrahend == <<M - C, M, M - 1, M - 1, M - 1>>

PssCalls == {<<"pss", 2 * i>> : i \in 8..32}

\* Single bits, by which a linear function is known, of a message of four
\* lanes, and messages of every kind of tail.
CrcCalls ==
    UNION {{<<"fold", n, i>> : i \in {b \in 0..(8 * n - 1) : b % 3 = 0 \/ b < 32}} : n \in {64, 80, 192}}
    \cup {<<"crc", n, s>> : n \in {1, 8, 15, 63, 64, 79, 80, 97, 153}, s \in 1..3}
CrcMessage(n, s) == {b \in 0..(8 * n - 1) : (b * b + s * b) % (7 * s + 4) < 4}

\* Single bits of both factors; blocks and a key for the sum of products.
GfCalls == {<<"gf", i, j>> : i \in {b \in Register : b % 32 \in {0, 1, 6, 7, 30, 31}}, j \in Register}
           \cup {<<"batch", n, s>> : n \in {1, 2, 3, 8}, s \in 1..3}
BlockOf(s) == {b \in Register : (b * (s + 3)) % 11 < 5}
KeyCalls == {<<"keys", 16, i>> : i \in 0..43} \cup {<<"keys", 32, i>> : i \in 0..59}

\* Sealing n bytes with aad_len bytes of additional data, in place or not, and
\* opening what was sealed, with one byte changed unless that is none.
TextAt == 0
OutAt == 50
LastAt == 100
AadAt == 110
Untouched == -1
GcmLengths == {0, 1, 2, 3, 15, 16, 17, 18, 31, 32, 33, 35, 40}
SealCalls ==
    {<<"seal", n, a, at>> : n \in GcmLengths, a \in {0, 2, 3}, at \in {TextAt, OutAt}}
    \cup {<<"record", n, a>> : n \in GcmLengths, a \in {0, 3}}
OpenCalls ==
    {<<"open", n, a, t>> : n \in {1, 2, 17, 33}, a \in {0, 3},
                           t \in {Untouched, 0, 1, 14, 16, 32, AadAt, AadAt + 2}}

Region(p, n, kind) == {<<p + i, <<kind, i, 0>>>> : i \in 0..(n - 1)}

\* A memory with the text and the additional data, guards everywhere else.
Memory(n, a) ==
    LET data == Region(TextAt, n, "text") \cup Region(AadAt, a, "aad")
    IN  data \cup {<<p, <<"guard", p, 0>>>> :
                       p \in (0..120) \ {e[1] : e \in data}}
Changed(mem, p) ==
    {e \in mem : e[1] # p} \cup {<<e[1], <<"changed", p, 0>>>> : e \in {f \in mem : f[1] = p}}
TypeByte == <<"type", 0, 0>>

-----------------------------------------------------------------------------
FunctionCalls ==
    MontCalls \cup FieldCalls \cup PssCalls \cup CrcCalls \cup GfCalls \cup KeyCalls
    \cup SealCalls \cup OpenCalls

RsaIdle ==
    /\ file = KeyOf(11, 13, 7)
    /\ key = NoKey
    /\ uses = 0
    /\ signing = NoSigning
LadderIdle ==
    /\ k = 0 /\ x1 = 0 /\ pos = -1
    /\ x2 = 1 /\ z2 = 0 /\ x3 = 0 /\ z3 = 1
    /\ swap = 0 /\ out = NoOut

Init ==
    /\ result = NoResult
    /\ \/ call = <<"rsa">> /\ RsaInit /\ LadderIdle
       \/ call = <<"ladder">> /\ RsaIdle /\ LadderInit
       \/ call \in FunctionCalls /\ RsaIdle /\ LadderIdle

RsaPart ==
    /\ call = <<"rsa">>
    /\ RsaNext
    /\ UNCHANGED <<ladderVars, call, result>>
LadderPart ==
    /\ call = <<"ladder">>
    /\ LadderNext
    /\ UNCHANGED <<rsaVars, call, result>>

\* A call of the function named op.
Called(op) ==
    /\ call[1] = op
    /\ result = NoResult
    /\ UNCHANGED <<rsaVars, ladderVars, call>>
Returns(v) == result' = <<v>>

\* Out of the Montgomery form again: the product, the square, the reduction of
\* the double-length product and the power, of the arguments brought into it.
MontCall ==
    /\ Called("mont")
    /\ LET m  == call[2]
           kk == call[3]
           n0 == n0_of(m % B)
           Out(v) == mont_mul(v, 1, m, n0, kk)
           aR == mont_const(m, kk, 1, call[4])
           bR == mont_const(m, kk, 1, call[5])
       IN  Returns([mul  |-> Out(mont_mul(aR, bR, m, n0, kk)),
                    sqr  |-> Out(mont_sqr(aR, m, n0, kk)),
                    redc |-> mont_redc(aR * bR, m, n0, kk),
                    exp  |-> Out(mont_exp(aR, call[5], m, n0, mont_const(m, kk, 1, 1), kk))])

MulCall ==
    /\ Called("mul")
    /\ Returns([mul |-> fe_mul(call[2], call[3]), sq |-> fe_sq(call[2]),
                add |-> fe_add(call[2], call[3]),
                sub |-> fe_sub(call[2], Subtrahend)])
CanonicalCall == Called("canonical") /\ Returns(Canonical(call[2]))
BitCall == Called("bit") /\ Returns(tobytes(call[2]))
PssCall == Called("pss") /\ Returns(pss_sha256(call[2]))
FoldCall ==
    /\ Called("fold")
    /\ Returns([msg |-> crc32_clmul({}, {call[3]}, call[2]),
                crc |-> crc32_clmul({call[3] % 32}, {}, call[2])])
CrcCall ==
    /\ Called("crc")
    /\ \E have_clmul \in BOOLEAN :
           Returns([crc |-> crc32(CrcMessage(call[2], call[3]), call[2], have_clmul)])
GfCall == Called("gf") /\ Returns([product |-> gf_mul({call[2]}, {call[3]})])
BatchCall ==
    /\ Called("batch")
    /\ Returns([sum |-> Batch([i \in 1..call[2] |-> BlockOf(i)],
                              hp(BlockOf(7 * call[3]), call[2]))])
KeysCall ==
    /\ Called("keys")
    /\ Returns([word |-> aes_expand(call[2], call[3] \div 4)[(call[3] % 4) + 1]])
SealCall ==
    /\ Called("seal")
    /\ Returns(seal(Memory(call[2], call[3]), AadAt, call[3], TextAt, call[4], call[2]))
RecordCall ==
    /\ Called("record")
    /\ Returns(seal_record(Memory(call[2], call[3]), AadAt, call[3], TextAt, call[2],
                           TypeByte, OutAt, LastAt))
Opened(mem, given) ==
    [before |-> mem, after |-> open(mem, AadAt, call[3], TextAt, TextAt, call[2], given)]
OpenSealed(sealed) == Opened(Changed(sealed.m, call[4]), sealed.tag)
OpenCall ==
    /\ Called("open")
    /\ Returns(OpenSealed(seal(Memory(call[2], call[3]), AadAt, call[3], TextAt, TextAt, call[2])))

Next ==
    \/ RsaPart \/ LadderPart
    \/ MontCall \/ MulCall \/ CanonicalCall \/ BitCall \/ PssCall
    \/ FoldCall \/ CrcCall \/ GfCall \/ BatchCall \/ KeysCall
    \/ SealCall \/ RecordCall \/ OpenCall

Spec == Init /\ [][Next]_vars

-----------------------------------------------------------------------------
(* Properties.                                                             *)

Returned(op) == call[1] = op /\ result # NoResult
value == result[1]

\* Montgomery multiplication, squaring, reduction and windowed exponentiation
\* (viltrum_mont_k, viltrum_mont_redc, viltrum_mont_exp) are the product, the
\* square, x / R and the power modulo m, for operands below m, whatever the
\* carries between the words do.
MontgomeryRight ==
    Returned("mont") =>
        LET m == call[2]
            a == call[4]
            b == call[5]
        IN  /\ value.mul = (a * b) % m
            /\ value.sqr = (a * a) % m
            /\ value.redc = mont_const(m, call[3], 1, (a * b) % m)
            /\ value.exp = PowMod(a, b, m)

\* viltrum_fe_mul and viltrum_fe_sq of sums and differences, and viltrum_fe_add
\* and viltrum_fe_sub, stand for what they say modulo the prime; the product has
\* limbs below the radix but for the second, which may exceed it by a carry.
FieldRight ==
    Returned("mul") =>
        LET a == FeVal(call[2]) % Prime
            b == FeVal(call[3]) % Prime
        IN  /\ FeVal(value.mul) % Prime = (a * b) % Prime
            /\ FeVal(value.sq) % Prime = (a * a) % Prime
            /\ FeVal(value.add) % Prime = (a + b) % Prime
            /\ FeVal(value.sub) % Prime = (a - FeVal(Subtrahend)) % Prime
            /\ \A i \in {1, 3, 4, 5} : value.mul[i] < M

\* The value viltrum_fe_tobytes writes is the one below the prime, though the
\* limbs may stand for the prime or more: two elements that are equal modulo
\* the prime have the same bytes.
CanonicalRight ==
    Returned("canonical") =>
        /\ \A i \in 1..5 : value[i] \in 0..(M - 1)
        /\ FeVal(value) = FeVal(call[2]) % Prime

\* viltrum_fe_tobytes stores each of the 255 bits of an element once, where
\* viltrum_fe_frombytes loads it from, and nothing in the top bit.
PackingRight ==
    Returned("bit") =>
        /\ Cardinality(value) = (IF call[2] = 255 THEN 0 ELSE 1)
        /\ \A x \in value : frombytes(x[1], x[2]) = call[2]

\* The chain of viltrum_fe_invert raises to 2^255 - 21: every bit below 255 but
\* 2 and 4.
InversePower == Returned("bit") => InvertChain = (0..254) \ {2, 4}

\* The arithmetic under RSA and X25519 is that of its modulus, whatever carries,
\* borrows and unreduced values its operands bring about.
ArithmeticRight == MontgomeryRight /\ FieldRight /\ CanonicalRight /\ PackingRight /\ InversePower

\* What viltrum_rsa_pss_sha256 encodes, EMSA-PSS-VERIFY accepts, for every size
\* of key, those included whose mask ends inside a hash block.
PssVerifies == Returned("pss") => PssVerify(value, 8 * call[2])

\* viltrum_rsa_pss_sign_hash never fails with a key that load accepted, and what
\* it signs is an encoding that verifies.
SigningRight == EveryMessageSigned /\ PssVerifies

\* Folding four lanes, one lane and Barrett's reduction, with the constants of
\* the source, move the CRC register as the bits one at a time do.
FoldRight ==
    Returned("fold") =>
        /\ value.msg = BitWise({}, {call[3]}, call[2])
        /\ value.crc = BitWise({call[3] % 32}, {}, call[2])

\* crc32 is the same with the instruction and without, over every split between
\* folding, eight bytes a step and single bytes.
CrcRight ==
    Returned("crc") =>
        value.crc = (0..31) \ BitWise(0..31, CrcMessage(call[2], call[3]), call[2])

\* The checksum of a gzip member does not depend on how it is computed: by
\* folding, by tables or by both.
ChecksumRight == FoldRight /\ CrcRight

\* viltrum_gf_mul is the product in the field of GHASH, and the sum of products
\* reduced once is what hashing block by block gives.
GhashRight ==
    /\ Returned("gf") => value.product = FieldMul({call[2]}, {call[3]})
    /\ Returned("batch") =>
           LET h == BlockOf(7 * call[3])
               horner[i \in 0..call[2]] ==
                   IF i = 0 THEN {} ELSE FieldMul(Xor(horner[i - 1], BlockOf(i)), h)
           IN  value.sum = horner[call[2]]

\* The round keys of viltrum_aes_expand are the words of FIPS-197's schedule.
KeyScheduleRight ==
    Returned("keys") => value.word = Schedule(call[2] \div 4, call[3])

\* However a text splits into chunks, blocks and a tail, in place or not,
\* viltrum_gcm_seal and viltrum_gcm_seal_record give each byte the keystream and
\* the hash the definition of GCM gives it (so no keystream byte is used twice),
\* and write nothing but the text's bytes.
SealRight ==
    LET n     == call[2]
        aad   == Region(0, call[3], "aad")
        Right(text, len, outAt) ==
            LET cipher == CipherOf(text)
                Outside(mem) == {e \in mem : /\ e[1] \notin outAt..(outAt + len - 1)
                                             /\ e[1] \notin LastAt..(LastAt + Block - 1)}
            IN  /\ LoadBytes(value.m, outAt, len) = cipher
                /\ value.tag = TagOf(aad, call[3], cipher, len)
                /\ Outside(value.m) = Outside(Memory(n, call[3]))
    IN  /\ Returned("seal") => Right(Region(0, n, "text"), n, call[4])
        /\ Returned("record") =>
               Right(Region(0, n, "text") \cup {<<n, TypeByte>>}, n + 1, OutAt)

\* viltrum_gcm_open gives back what was sealed; when a byte of the text or of the
\* additional data was changed it fails and writes nothing.
OpenRight ==
    Returned("open") =>
        LET n == call[2]
            covered == (TextAt..(TextAt + n - 1)) \cup (AadAt..(AadAt + call[3] - 1))
        IN  IF call[4] \in covered
            THEN ~value.after.ok /\ value.after.m = value.before
            ELSE value.after.ok /\ LoadBytes(value.after.m, TextAt, n) = Region(0, n, "text")

\* The record protection is GCM as defined: its hash, its keys, sealing and
\* opening, over every split of a text.
GcmRight == GhashRight /\ KeyScheduleRight /\ SealRight /\ OpenRight
=============================================================================
