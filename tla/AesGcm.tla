-------------------------------- MODULE AesGcm --------------------------------
(***************************************************************************)
(* AES-GCM of src/engine/aesgcm.h: which bytes meet which keystream and    *)
(* which power of H, over every split into chunks, blocks and tails.       *)
(*                                                                         *)
(* Memory is a set of pairs <<address, term>>; the byte at an address is   *)
(* the exclusive or of its terms.  A term is <<kind, number, number>>: a   *)
(* byte of the input, a byte of keystream block ctr, a guard.  A hash is a *)
(* set of <<byte, term, power of H>>.                                      *)
(***************************************************************************)
EXTENDS Integers, FiniteSets, FiniteSetsExt

CONSTANTS
    Block,      \* bytes of a block; 16 in the code
    Lanes,      \* blocks of a chunk; 8 in the code
    Rounds      \* nr, the AES rounds; 10 or 14 in the code

ASSUME GcmAssumption ==
    /\ Block \in Nat \ {0}
    /\ Lanes \in Nat \ {0}
    /\ Rounds \in Nat \ {0}

Chunk == Block * Lanes

LoadBytes(m, p, n) == {<<e[1] - p, e[2]>> : e \in {f \in m : f[1] \in p..(p + n - 1)}}
StoreBytes(m, p, n, x) ==
    {e \in m : e[1] \notin p..(p + n - 1)} \cup {<<e[1] + p, e[2]>> : e \in x}

\* The first n bytes of keystream block ctr.
KeyStream(ctr, n) == (0..(n - 1)) \X {<<"ks", ctr, 0>>}

\* n bytes at in, xored with keystream block ctr, to out.
XorBlock(m, ctr, in, out, n) ==
    StoreBytes(m, out, n, SymDiff(LoadBytes(m, in, n), KeyStream(ctr, n)))

\* The blocks of a chunk, in the order of the loop over k.
ChunkBlocks(m, ctr, in, out) ==
    LET mem[k \in 0..Lanes] ==
            IF k = 0 THEN m
            ELSE LET o == Block * (k - 1)
                 IN  XorBlock(mem[k - 1], ctr + k - 1, in + o, out + o, Block)
    IN  mem[Lanes]

\* viltrum_gcm_ctr_from.
ctr_from(m, ctr, in, out, n) ==
    LET chunks == n \div Chunk
        wide[j \in 0..chunks] ==
            IF j = 0 THEN m
            ELSE LET o == Chunk * (j - 1)
                 IN  ChunkBlocks(wide[j - 1], ctr + Lanes * (j - 1), in + o, out + o)
        left == n % Chunk
        tail[t \in 0..((left + Block - 1) \div Block)] ==
            IF t = 0 THEN wide[chunks]
            ELSE LET o == Block * (t - 1)
                     at == Chunk * chunks + o
                 IN  XorBlock(tail[t - 1], ctr + Lanes * chunks + t - 1, in + at, out + at,
                              IF left - o >= Block THEN Block ELSE left - o)
    IN  tail[(left + Block - 1) \div Block]

(***************************************************************************)
(* Hashing.                                                                *)
(***************************************************************************)
AddBlock(y, x) == SymDiff(y, {<<e[1], e[2], 0>> : e \in x})
MulH(y, power) == {<<t[1], t[2], t[3] + power>> : t \in y}

\* The lanes of a chunk at p times H^Lanes..H^1, lane 0 with y added.
BatchOf(m, y, p, lanes) ==
    FoldSet(LAMBDA k, acc :
                SymDiff(acc, MulH(AddBlock(IF k = 0 THEN y ELSE {}, LoadBytes(m, p + Block * k, Block)),
                                  Lanes - k)),
            {}, lanes)

\* viltrum_ghash_blocks: n whole blocks at p.
ghash_blocks(m, y, p, n) ==
    LET batches == n \div Lanes
        wide[j \in 0..batches] ==
            IF j = 0 THEN y
            ELSE BatchOf(m, wide[j - 1], p + Chunk * (j - 1), 0..(Lanes - 1))
        tail[t \in 0..(n % Lanes)] ==
            IF t = 0 THEN wide[batches]
            ELSE MulH(AddBlock(tail[t - 1], LoadBytes(m, p + Chunk * batches + Block * (t - 1), Block)), 1)
    IN  tail[n % Lanes]

\* viltrum_ghash: a last partial block is padded with zeros.
ghash(m, y, p, len) ==
    LET rest == len % Block
        y1 == ghash_blocks(m, y, p, len \div Block)
    IN  IF rest > 0 THEN MulH(AddBlock(y1, LoadBytes(m, p + len - rest, rest)), 1) ELSE y1

(***************************************************************************)
(* Sealing and opening.                                                    *)
(***************************************************************************)
\* viltrum_gcm_enc_ghash: the rounds of chunk j between the multiplies of the
\* ciphertext of chunk j - 1, one multiply after each of the first eight.
enc_ghash(m, ctr, in, out, n, y) ==
    LET chunks == n \div Chunk
        multiplied == {r - 1 : r \in {i \in 1..(Rounds - 1) : i <= Lanes}}
        pass[j \in 1..chunks] ==
            IF j = 1 THEN [m |-> ctr_from(m, ctr, in, out, Chunk), y |-> y]
            ELSE LET s == pass[j - 1]
                     o == Chunk * (j - 1)
                 IN  [m |-> ChunkBlocks(s.m, ctr + Lanes * (j - 1), in + o, out + o),
                      y |-> BatchOf(s.m, s.y, out + o - Chunk, multiplied)]
        Last(s) == [m |-> s.m, done |-> Chunk * chunks,
                    y |-> ghash_blocks(s.m, s.y, out + Chunk * (chunks - 1), Lanes)]
    IN  IF chunks = 0 THEN [m |-> m, y |-> y, done |-> 0] ELSE Last(pass[chunks])

\* viltrum_gcm_tag: the length block, and keystream block 1 as the mask.
tag(y, aad_len, n) ==
    SymDiff(MulH(AddBlock(y, {<<0, <<"len", aad_len, n>>>>}), 1),
            {<<e[1], e[2], 0>> : e \in KeyStream(1, Block)})

\* The result over the ciphertext in mem, of which s.done bytes are hashed.
Tagged(mem, s, aad_len, out, n) ==
    [m |-> mem, tag |-> tag(ghash(mem, s.y, out + s.done, n - s.done), aad_len, n)]

\* The bytes that enc_ghash left, encrypted up to n.
CtrRest(s, in, out, n) ==
    ctr_from(s.m, 2 + (s.done \div Block), in + s.done, out + s.done, n - s.done)

seal(m, aad, aad_len, in, out, n) ==
    LET Rest(s) == Tagged(CtrRest(s, in, out, n), s, aad_len, out, n)
    IN  Rest(enc_ghash(m, 2, in, out, n, ghash(m, {}, aad, aad_len)))

\* viltrum_gcm_seal_record: the n bytes and the type; last is its stack buffer.
seal_record(m, aad, aad_len, in, n, typ, out, last) ==
    LET full == n - (n % Block)
        rest == n % Block
        Filled(mem) == StoreBytes(mem, last, rest + 1,
                                  LoadBytes(mem, in + full, rest) \cup {<<rest, typ>>})
        LastBlock(mem) == ctr_from(mem, 2 + (full \div Block), last, out + full, rest + 1)
        Rest(s) == Tagged(LastBlock(Filled(CtrRest(s, in, out, full))), s, aad_len, out, n + 1)
    IN  Rest(enc_ghash(m, 2, in, out, full, ghash(m, {}, aad, aad_len)))

\* Mutant of open: decrypts whatever the tag says.
OpenAnyway(m, aad, aad_len, in, out, n, given) ==
    LET want == tag(ghash(m, ghash(m, {}, aad, aad_len), in, n), aad_len, n)
    IN  [m |-> ctr_from(m, 2, in, out, n), ok |-> want = given]

open(m, aad, aad_len, in, out, n, given) ==
    LET want == tag(ghash(m, ghash(m, {}, aad, aad_len), in, n), aad_len, n)
    IN  IF want # given THEN [m |-> m, ok |-> FALSE]
        ELSE [m |-> ctr_from(m, 2, in, out, n), ok |-> TRUE]

(***************************************************************************)
(* The reference, from the definition of GCM: byte i of the text meets     *)
(* keystream block 2 + i / Block, and block t of the hashed blocks meets   *)
(* the power of H that counts it from the end.                             *)
(***************************************************************************)
CipherOf(text) == SymDiff(text, {<<e[1], <<"ks", 2 + (e[1] \div Block), 0>>>> : e \in text})
BlocksOf(n) == (n + Block - 1) \div Block
TagOf(aad, aad_len, cipher, n) ==
    LET total == BlocksOf(aad_len) + BlocksOf(n) + 1
        Term(e, before) ==
            <<e[1] % Block, e[2], total - before - (e[1] \div Block)>>
    IN  {Term(e, 0) : e \in aad}
        \cup {Term(e, BlocksOf(aad_len)) : e \in cipher}
        \cup {<<0, <<"len", aad_len, n>>, 1>>}
        \cup {<<e[1], e[2], 0>> : e \in KeyStream(1, Block)}
=============================================================================
