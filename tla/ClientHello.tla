----------------------------- MODULE ClientHello -----------------------------
(***************************************************************************)
(* viltrum_hs13_parse of src/engine/hs13.h: a bounded reader walks one     *)
(* ClientHello and decides who answers it.  A byte is a digit below Radix, *)
(* so that a length fits few of them; what follows the message in the      *)
(* buffer (the client's next records) is part of buf.                      *)
(***************************************************************************)
EXTENDS Integers, Sequences, FiniteSets

CONSTANTS
    Radix,      \* values of a byte; 256 in the code
    RandomLen,  \* bytes of the random; 32
    MaxSid,     \* longest session id; 32
    ShareLen,   \* bytes of an X25519 share; 32
    MaxExt,     \* VILTRUM_HS13_MAX_EXT
    V12, V13,   \* 0x0303 and 0x0304
    X25519Group, Suite, SigPss,
    ProtoH11, ProtoH2   \* the bytes of "http/1.1" and "h2"

ASSUME ClientHelloAssumption ==
    /\ {Radix, RandomLen, ShareLen, MaxExt} \subseteq Nat \ {0}
    /\ MaxSid \in Nat

VARIABLES
    buf,        \* the read-ahead from the message's first byte on
    len,        \* bytes of the message
    h2,         \* h->h2: the listener speaks HTTP/2
    header,     \* what the fields before the extensions said
    exts,       \* the reader over the extensions
    seen,       \* extension types so far, in order
    flags,      \* the parse's local flags
    verdict,    \* Parsing, or what parse returned
    chosen      \* h->alpn

helloVars == <<buf, len, h2, header, exts, seen, flags, verdict, chosen>>

Parsing == 2
Served == 1
Mbedtls == 0
Refused == -1

(***************************************************************************)
(* The bounded reader: p and n are the bytes left, ok is cleared for good  *)
(* by a take that does not fit.                                            *)
(***************************************************************************)
rd_new(p, n) == [p |-> p, n |-> n, ok |-> TRUE]

Fits(r, n) == r.ok /\ r.n >= n

take(r, n) ==
    IF Fits(r, n) THEN [r EXCEPT !.p = @ + n, !.n = @ - n]
    ELSE [r EXCEPT !.ok = FALSE, !.n = 0]

\* viltrum_hs13_u8, u16 and u24: w bytes, big end first; 0 when they do not fit.
Uint(r, w) ==
    IF ~Fits(r, w) THEN 0
    ELSE LET digits[i \in 0..w] == IF i = 0 THEN 0 ELSE Radix * digits[i - 1] + buf[r.p + i - 1]
         IN  digits[w]

sub(r, n) ==
    IF Fits(r, n) THEN rd_new(r.p, n) ELSE [p |-> 0, n |-> 0, ok |-> FALSE]

\* A vector behind a length of w bytes, and the reader after it.
Vector(r, w) == sub(take(r, w), Uint(r, w))
After(r, w) == take(take(r, w), Uint(r, w))

\* The one vector an extension's body consists of.
Whole(ext, w) == After(ext, w).ok /\ After(ext, w).n = 0

\* The loops over 16-bit code points of an even vector.
Codes(v) == {Uint(rd_new(v.p + 2 * i, 2), 2) : i \in 0..(v.n \div 2 - 1)}
EvenCodes(ext, w) == Whole(ext, w) /\ Vector(ext, w).n > 0 /\ Vector(ext, w).n % 2 = 0

-----------------------------------------------------------------------------
NoFlags == [v13 |-> FALSE, x25519_group |-> FALSE, share |-> FALSE, pss |-> FALSE,
            alpn |-> FALSE, alpn_h11 |-> FALSE, alpn_h2 |-> FALSE, defer |-> FALSE]
NoHeader == [read |-> FALSE, version |-> 0, suite |-> FALSE, comp_null_only |-> FALSE]

ParseInit(bytes, n, listener) ==
    /\ buf = bytes
    /\ len = n
    /\ h2 = listener
    /\ header = NoHeader
    /\ exts = rd_new(1, 0)
    /\ seen = <<>>
    /\ flags = NoFlags
    /\ verdict = Parsing
    /\ chosen = 0

Return(v) == verdict' = v

\* The malformed label: a TLS 1.3 hello is refused, any other left to mbedtls.
MalformedFor(v13) == Return(IF v13 THEN Refused ELSE Mbedtls)

\* The fields before the extensions; exts is the reader over them.
Header ==
    LET r0 == rd_new(1, len)
        r1 == take(r0, 1)
        r2 == take(r1, 3)
        r3 == take(r2, 2)
        r4 == take(r3, RandomLen)
        r5 == take(r4, 1)
        sid_len == Uint(r4, 1)
        r6 == take(r5, sid_len)
        suites == Vector(r6, 2)
        r7 == After(r6, 2)
        comp == Vector(r7, 1)
        r8 == After(r7, 1)
        r9 == After(r8, 2)
        bad == \/ Uint(r0, 1) # 1
               \/ Uint(r1, 3) # len - 4
               \/ ~r8.ok \/ sid_len > MaxSid
               \/ suites.n = 0 \/ suites.n % 2 # 0 \/ comp.n = 0
        trailing == ~r9.ok \/ r9.n # 0
    IN  /\ verdict = Parsing /\ ~header.read
        /\ \/ /\ bad \/ (r8.n # 0 /\ trailing)
              /\ MalformedFor(FALSE)
              /\ UNCHANGED <<header, exts>>
           \/ /\ ~bad /\ r8.n = 0
              /\ Return(Mbedtls)
              /\ UNCHANGED <<header, exts>>
           \/ /\ ~bad /\ r8.n # 0 /\ ~trailing
              /\ header' = [read |-> TRUE, version |-> Uint(r2, 2),
                            suite |-> Suite \in Codes(suites),
                            comp_null_only |-> comp.n = 1 /\ Uint(comp, 1) = 0]
              /\ exts' = Vector(r8, 2)
              /\ UNCHANGED verdict
        /\ UNCHANGED <<buf, len, h2, seen, flags, chosen>>

-----------------------------------------------------------------------------
(* The extensions.  Each operator gives the set of the flags after its     *)
(* extension: none when it is malformed.                                   *)

Malformed == {}

CodesFlag(ext, w, wanted, name) ==
    IF ~EvenCodes(ext, w) THEN Malformed
    ELSE {[flags EXCEPT ![name] = @ \/ wanted \in Codes(Vector(ext, w))]}

\* Mutant of ShareFault: a second share of the group replaces the first.
ShareFaultLast(group, klen, share) == klen = 0 \/ (group = X25519Group /\ klen # ShareLen)

ShareFault(group, klen, share) ==
    klen = 0 \/ (group = X25519Group /\ (klen # ShareLen \/ share))

\* The shares of key_share, one at a time.
KeyShare(ext) ==
    LET loop[at \in 0..len, share \in BOOLEAN] ==
            LET ks    == Vector(ext, 2)
                r     == rd_new(ks.p + at, ks.n - at)
                group == Uint(r, 2)
                klen  == Uint(take(r, 2), 2)
            IN  IF at = ks.n THEN {[flags EXCEPT !.share = share]}
                ELSE IF ~Fits(take(r, 4), klen) \/ ShareFault(group, klen, share) THEN Malformed
                ELSE loop[at + 4 + klen, share \/ group = X25519Group]
    IN  IF ~Whole(ext, 2) THEN Malformed ELSE loop[0, flags.share]

\* The protocols of ALPN, one at a time.
Alpn(ext) ==
    LET l == Vector(ext, 2)
        loop[at \in 0..len, f \in [alpn_h11 : BOOLEAN, alpn_h2 : BOOLEAN]] ==
            LET r     == rd_new(l.p + at, l.n - at)
                plen  == Uint(r, 1)
                proto == SubSeq(buf, r.p + 1, r.p + plen)
            IN  IF at = l.n
                THEN {[flags EXCEPT !.alpn = TRUE, !.alpn_h11 = f.alpn_h11, !.alpn_h2 = f.alpn_h2]}
                ELSE IF ~Fits(take(r, 1), plen) \/ plen = 0 THEN Malformed
                ELSE loop[at + 1 + plen, [alpn_h11 |-> f.alpn_h11 \/ proto = ProtoH11,
                                          alpn_h2  |-> f.alpn_h2 \/ proto = ProtoH2]]
    IN  IF ~Whole(ext, 2) \/ l.n = 0 THEN Malformed
        ELSE loop[0, [alpn_h11 |-> flags.alpn_h11, alpn_h2 |-> flags.alpn_h2]]

\* The switch on the type of an extension; rest is what follows it.
FlagsAfter(type, ext, rest) ==
    CASE type = 43 -> CodesFlag(ext, 1, V13, "v13")
      [] type = 10 -> CodesFlag(ext, 2, X25519Group, "x25519_group")
      [] type = 51 -> KeyShare(ext)
      [] type = 13 -> CodesFlag(ext, 2, SigPss, "pss")
      [] type = 16 -> Alpn(ext)
      [] type = 41 -> IF rest.n # 0 THEN Malformed ELSE {flags}
      [] type \in {42, 44} -> {[flags EXCEPT !.defer = TRUE]}
      [] OTHER -> {flags}

\* One turn of the loop over the extensions.
Extension ==
    LET type == Uint(exts, 2)
        r    == take(exts, 2)
        rest == After(r, 2)
        f    == FlagsAfter(type, Vector(r, 2), rest)
        twice == \E i \in DOMAIN seen : seen[i] = type
    IN  /\ verdict = Parsing /\ header.read
        /\ exts.n > 0
        /\ \/ /\ ~rest.ok
              /\ MalformedFor(flags.v13)
              /\ UNCHANGED <<exts, seen, flags>>
           \/ /\ rest.ok /\ Len(seen) = MaxExt
              /\ Return(Mbedtls)
              /\ UNCHANGED <<exts, seen, flags>>
           \/ /\ rest.ok /\ Len(seen) < MaxExt
              /\ twice \/ f = Malformed
              /\ MalformedFor(flags.v13)
              /\ UNCHANGED <<exts, seen, flags>>
           \/ /\ rest.ok /\ Len(seen) < MaxExt
              /\ ~twice /\ f # Malformed
              /\ exts' = rest
              /\ seen' = Append(seen, type)
              /\ flags' \in f
              /\ UNCHANGED verdict
        /\ UNCHANGED <<buf, len, h2, header, chosen>>

Choice(listener, f) ==
    IF listener /\ f.alpn_h2 THEN 2 ELSE IF f.alpn_h11 THEN 1 ELSE 0

\* After the loop.
Decide ==
    LET c == Choice(h2, flags)
        served == /\ ~flags.defer /\ header.suite
                  /\ flags.x25519_group /\ flags.share /\ flags.pss
                  /\ flags.alpn => c # 0
    IN  /\ verdict = Parsing /\ header.read
        /\ exts.n = 0
        /\ \/ ~flags.v13 /\ Return(Mbedtls) /\ UNCHANGED chosen
           \/ /\ flags.v13
              /\ header.version # V12 \/ ~header.comp_null_only
              /\ Return(Refused) /\ UNCHANGED chosen
           \/ /\ flags.v13 /\ header.version = V12 /\ header.comp_null_only
              /\ Return(IF served THEN Served ELSE Mbedtls)
              /\ chosen' = IF served /\ flags.alpn THEN c ELSE 0
        /\ UNCHANGED <<buf, len, h2, header, exts, seen, flags>>

HelloNext == Header \/ Extension \/ Decide

-----------------------------------------------------------------------------
\* Every reader the parse keeps lies inside the message: nothing of the records
\* that follow it in the read-ahead is taken for part of the hello.
ReadsInBounds ==
    /\ exts.n >= 0
    /\ header.read => exts.p >= 1 /\ exts.p + exts.n = len + 1
=============================================================================
