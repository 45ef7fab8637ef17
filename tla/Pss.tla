--------------------------------- MODULE Pss ---------------------------------
(***************************************************************************)
(* The encoding of viltrum_rsa_pss_sha256 (src/engine/rsa.h) at the sizes  *)
(* of the keys it serves.  A buffer is a set of <<position, bit, term>>:   *)
(* "top" is bit 7 of the byte, "low" the seven others; a byte is the       *)
(* exclusive or of its terms.  SHA-256 is opaque: byte i of the hash of    *)
(* what <<kind, number>> names is the term <<kind, number, i>>.            *)
(***************************************************************************)
EXTENDS Integers, FiniteSetsExt

HashLen == 32
SaltLen == 32

BitParts == {"top", "low"}

\* n bytes of a hash or of the salt at position p.
Bytes(p, n, kind, number) == {<<p + i, b, <<kind, number, i>>>> : i \in 0..(n - 1), b \in BitParts}

\* A constant byte: 0x01 has no top bit, 0xbc has one.
Const01(p) == {<<p, "low", <<"01", 0, 0>>>>}
ConstBC(p) == {<<p, b, <<"bc", 0, 0>>>> : b \in BitParts}

\* DB = zeros || 0x01 || salt.
DataBlock(db_len) ==
    Const01(db_len - SaltLen - 1) \cup Bytes(db_len - SaltLen, SaltLen, "salt", 0)

\* One turn of the MGF1 loop: the block of the mask at off, cut at db_len.
MaskBlock(em, counter, off, db_len) ==
    LET left == db_len - off
    IN  SymDiff(em, Bytes(off, IF left < HashLen THEN left ELSE HashLen, "mgf", counter))

Masked(em, db_len) ==
    LET turns == (db_len + HashLen - 1) \div HashLen
        loop[t \in 0..turns] ==
            IF t = 0 THEN em ELSE MaskBlock(loop[t - 1], t - 1, HashLen * (t - 1), db_len)
    IN  loop[turns]

ClearTop(em) == {e \in em : ~(e[1] = 0 /\ e[2] = "top")}

pss_sha256(limbs) ==
    LET em_len == 8 * limbs
        db_len == em_len - HashLen - 1
    IN  ClearTop(Masked(DataBlock(db_len), db_len))
            \cup Bytes(db_len, HashLen, "hash", 0)
            \cup ConstBC(em_len - 1)

\* The reference: what EMSA-PSS-VERIFY of RFC 8017 accepts of an encoding of
\* em_len bytes: the trailer, the leading bit, and the unmasked data block.
SliceOf(em, from, to) == {<<e[1] - from, e[2], e[3]>> : e \in {f \in em : f[1] \in from..(to - 1)}}
PssVerify(em, em_len) ==
    LET db_len == em_len - HashLen - 1
        hash == SliceOf(em, db_len, em_len - 1)
        mask == {<<j, b, <<"mgf", j \div HashLen, j % HashLen>>>> : j \in 0..(db_len - 1), b \in BitParts}
        db == {e \in SymDiff(SliceOf(em, 0, db_len), mask) : ~(e[1] = 0 /\ e[2] = "top")}
    IN  /\ SliceOf(em, em_len - 1, em_len) = ConstBC(0)
        /\ \A e \in em : e[1] \in 0..(em_len - 1) /\ ~(e[1] = 0 /\ e[2] = "top")
        /\ hash = Bytes(0, HashLen, "hash", 0)
        /\ db = Const01(em_len - SaltLen - HashLen - 2)
                \cup Bytes(em_len - SaltLen - HashLen - 1, SaltLen, "salt", 0)
=============================================================================
