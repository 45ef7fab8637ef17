------------------------------- MODULE Flight --------------------------------
(***************************************************************************)
(* The server's flight of src/engine/hs13.h: the messages it is made of,   *)
(* the key schedule, the transcript each step takes, the records, and the  *)
(* room hs13_answer makes for them.                                        *)
(*                                                                         *)
(* A secret, a hash or a key is the term that says how it was made.  A     *)
(* message is its meaning and its fields: <<"data", bytes, 0, 0>>, or a    *)
(* length <<"len", bytes, value, k>> that has to measure the k fields that *)
(* follow.  Sizes are the code's.                                          *)
(***************************************************************************)
EXTENDS Integers, Sequences, SequencesExt, FiniteSets

VARIABLES
    given,      \* the arguments of viltrum_hs13_flight, and hs_out.cap before
    at,         \* where flight_with is
    flown,      \* the records in out
    n,          \* bytes of them
    seq,        \* the next sequence number of the server's handshake key
    th_run,     \* the messages hashed so far
    secrets,    \* c_hs, s_hs, master and the server's handshake key
    keys,       \* viltrum_hs13_keys
    ret         \* {}, or {0} or {-1} with the reason

flightVars == <<given, at, flown, n, seq, th_run, secrets, keys, ret>>

-----------------------------------------------------------------------------
(* Terms: the hash functions and the curve are external.                   *)

None == <<"none">>
Zeros == <<"zeros">>
Hash(msgs) == <<"hash", msgs>>
Extract(salt, ikm) == <<"extract", salt, ikm>>
Hmac(key, data) == <<"hmac", key, data>>
Public(private) == <<"public", private>>

\* viltrum_x25519: a share of small order gives zero.
Shared(private, share) == IF share = <<"small order">> THEN Zeros ELSE <<"dh", {Public(private), share}>>

\* viltrum_hs13_expand, with the length that goes into info.
expand(secret, label, ctx, out_len) == <<"expand", secret, label, ctx, out_len>>

schedule(shared, th) ==
    LET empty     == Hash(<<>>)
        early     == Extract(Zeros, Zeros)
        hs_secret == Extract(expand(early, "derived", empty, 32), shared)
    IN  [c_hs   |-> expand(hs_secret, "c hs traffic", th, 32),
         s_hs   |-> expand(hs_secret, "s hs traffic", th, 32),
         master |-> Extract(expand(hs_secret, "derived", empty, 32), Zeros)]

traffic(secret) == [key |-> expand(secret, "key", None, 16), iv |-> expand(secret, "iv", None, 12)]

finished_mac(secret, th) == Hmac(expand(secret, "finished", None, 32), th)

app(master, th) == [c_ap |-> expand(master, "c ap traffic", th, 32),
                    s_ap |-> expand(master, "s ap traffic", th, 32)]

-----------------------------------------------------------------------------
(* Messages.                                                               *)

Data(w) == <<"data", w, 0, 0>>
Length(w, value, k) == <<"len", w, value, k>>
Size(fields) == FoldLeft(LAMBDA sum, f : sum + f[2], 0, fields)
Message(meaning, fields) == [means |-> meaning, fields |-> fields]
MsgLen(m) == Size(m.fields)

\* viltrum_hs13_cert_msg: the chain ends at an empty certificate.
Chain(crt) ==
    LET used == {i \in DOMAIN crt : \A j \in 1..i : crt[j] > 0}
    IN  SubSeq(crt, 1, Cardinality(used))
ListLen(crt) == FoldLeft(LAMBDA sum, raw : sum + 3 + raw + 2, 0, Chain(crt))
cert_total(crt) == 4 + 1 + 3 + ListLen(crt)
cert_msg(crt) ==
    LET chain == Chain(crt)
        Entry(raw) == <<Length(3, raw, 1), Data(raw), Length(2, 0, 0)>>
    IN  Message(<<"certificate", chain>>,
                <<Data(1), Length(3, 1 + 3 + ListLen(crt), 2 + 3 * Len(chain)), Length(1, 0, 0),
                  Length(3, ListLen(crt), 3 * Len(chain))>> \o FlattenSeq([i \in DOMAIN chain |-> Entry(chain[i])]))

HelloBody(sid_len) == 2 + 32 + 1 + sid_len + 2 + 1 + 2 + (4 + 36) + (4 + 2)

server_hello(sid_len, random, pub) ==
    Message(<<"server_hello", random, pub>>,
            <<Data(1), Length(3, HelloBody(sid_len), 15), Data(2), Data(32),
              Length(1, sid_len, 1), Data(sid_len), Data(2), Data(1),
              Length(2, (4 + 36) + (4 + 2), 8),
              Data(2), Length(2, 36, 3), Data(2), Length(2, 32, 1), Data(32),
              Data(2), Length(2, 2, 1), Data(2)>>)

EncryptedExtensions(alpn) ==
    LET ext == CASE alpn = 0 -> <<>>
                 [] alpn = 1 -> <<Data(2), Length(2, 11, 3), Length(2, 9, 2), Length(1, 8, 1), Data(8)>>
                 [] alpn = 2 -> <<Data(2), Length(2, 5, 3), Length(2, 3, 2), Length(1, 2, 1), Data(2)>>
        alpn_len == CASE alpn = 0 -> 0 [] alpn = 1 -> 15 [] alpn = 2 -> 9
    IN  Message(<<"encrypted_extensions", alpn>>,
                <<Data(1), Length(3, 2 + alpn_len, 1 + Len(ext)), Length(2, alpn_len, Len(ext))>> \o ext)

CertificateVerify(sig_len, key, th) ==
    Message(<<"certificate_verify", <<"signature", key, <<"server CertificateVerify", th>>>>>>,
            <<Data(1), Length(3, 4 + sig_len, 3), Data(2), Length(2, sig_len, 1), Data(sig_len)>>)

FinishedMsg(mac) == Message(<<"finished", mac>>, <<Data(1), Length(3, 32, 1), Data(32)>>)

-----------------------------------------------------------------------------
(* Records.                                                                *)

MaxPlain == 16384
ChunksOf(len) == (len + MaxPlain - 1) \div MaxPlain

\* viltrum_hs13_seal: the records of a message, and the bytes they take.
Records(m, key, from) ==
    [j \in 1..ChunksOf(MsgLen(m)) |->
        LET off == MaxPlain * (j - 1)
        IN  [sealed |-> TRUE, key |-> key, seq |-> from + j - 1, msg |-> m, off |-> off,
             len |-> IF MsgLen(m) - off > MaxPlain THEN MaxPlain ELSE MsgLen(m) - off]]
SealedSize(len) == len + (5 + 1 + 16) * ChunksOf(len)
Plain(m) == [sealed |-> FALSE, key |-> None, seq |-> 0, msg |-> m, off |-> 0, len |-> MsgLen(m)]
Ccs == Message(<<"change_cipher_spec">>, <<Data(1)>>)

\* What hs13_answer makes room for.
NeedFor(cert_len) == cert_len + 1024 + 22 * (cert_len \div MaxPlain + 4)
Cap == LET need == NeedFor(cert_total(given.crt))
       IN  IF given.cap < need THEN need ELSE given.cap

-----------------------------------------------------------------------------
(* viltrum_hs13_flight_with, a stretch of it at a time.                    *)

NoSecrets == [c_hs |-> None, s_hs |-> None, master |-> None, tx |-> [key |-> None, iv |-> None]]
NoKeys == [c |-> [key |-> None, iv |-> None], c_ap |-> None, s_ap |-> None, c_fin |-> None, s_seq |-> 0]
ClientMsg == Message(<<"client_hello">>, <<Data(64)>>)

FlightInit(inputs) ==
    /\ given \in inputs
    /\ at = "start"
    /\ flown = <<>> /\ n = 0 /\ seq = 0
    /\ th_run = <<>>
    /\ secrets = NoSecrets /\ keys = NoKeys
    /\ ret = {}

KeysAfterFailure == keys' = NoKeys

\* The done label of a failed flight: the secrets and keys are wiped.
Fail(reason) ==
    /\ at' = "done" /\ ret' = {<<-1, reason>>}
    /\ KeysAfterFailure
    /\ secrets' = NoSecrets
    /\ UNCHANGED <<given, flown, n, seq, th_run>>

\* drbg, a hash or a cipher that fails (external), at any stretch.
Breaks ==
    /\ at # "done"
    /\ Fail("external")

\* The checks, the shared secret, the ServerHello, a change_cipher_spec, the keys.
Start ==
    LET private == <<"private">>
        shared  == Shared(private, given.share)
        sh      == server_hello(given.sid_len, <<"random">>, Public(private))
        th      == Hash(<<ClientMsg.means, sh.means>>)
        s       == schedule(shared, th)
        ccs     == given.sid_len > 0
    IN  /\ at = "start"
        /\ \/ /\ ~given.ok \/ given.sig_len > 512 \/ Cap < 5 + 128 + 6
              /\ Fail("key")
           \/ /\ given.ok /\ given.sig_len <= 512 /\ Cap >= 5 + 128 + 6
              /\ shared = Zeros
              /\ Fail("share")
           \/ /\ given.ok /\ given.sig_len <= 512 /\ Cap >= 5 + 128 + 6
              /\ shared # Zeros
              /\ at' = "certificate"
              /\ flown' = IF ccs THEN <<Plain(sh), Plain(Ccs)>> ELSE <<Plain(sh)>>
              /\ n' = 5 + MsgLen(sh) + (IF ccs THEN 6 ELSE 0)
              /\ th_run' = <<ClientMsg.means, sh.means>>
              /\ secrets' = [c_hs |-> s.c_hs, s_hs |-> s.s_hs, master |-> s.master,
                             tx |-> traffic(s.s_hs)]
              /\ keys' = [keys EXCEPT !.c = traffic(s.c_hs)]
              /\ UNCHANGED <<given, seq, ret>>

\* The messages ms are hashed and sealed: all of their records, or a failure.
Sealing(ms, next) ==
    LET sizes == FoldLeft(LAMBDA sum, m : sum + SealedSize(MsgLen(m)), 0, ms)
        recs  == FoldLeft(LAMBDA rs, m : rs \o Records(m, secrets.tx, seq + Len(rs)), <<>>, ms)
    IN  \/ /\ n + sizes > Cap
           /\ Fail("room")
        \/ /\ n + sizes <= Cap
           /\ at' = next
           /\ flown' = flown \o recs
           /\ n' = n + sizes
           /\ seq' = seq + Len(recs)
           /\ th_run' = th_run \o [i \in DOMAIN ms |-> ms[i].means]
           /\ UNCHANGED <<given, secrets, keys, ret>>

\* EncryptedExtensions and Certificate.
Certificate ==
    /\ at = "certificate"
    /\ Sealing(<<EncryptedExtensions(given.alpn), cert_msg(given.crt)>>, "verify")

\* Mutant of VerifyHash: the hash from before EncryptedExtensions is used again.
VerifyHashStale == Hash(SubSeq(th_run, 1, 2))

VerifyHash == Hash(th_run)

\* CertificateVerify over the transcript through Certificate.
Verify ==
    /\ at = "verify"
    /\ Sealing(<<CertificateVerify(given.sig_len, <<"server key">>, VerifyHash)>>, "finished")

\* Finished over the transcript through CertificateVerify.
Finish ==
    /\ at = "finished"
    /\ Sealing(<<FinishedMsg(finished_mac(secrets.s_hs, Hash(th_run)))>>, "keys")

\* The application secrets and the client's Finished, through the server's.
Done ==
    LET th == Hash(th_run)
        ap == app(secrets.master, th)
    IN  /\ at = "keys"
        /\ at' = "done" /\ ret' = {<<0, "served">>}
        /\ keys' = [keys EXCEPT !.c_ap = ap.c_ap, !.s_ap = ap.s_ap, !.s_seq = seq,
                                !.c_fin = finished_mac(secrets.c_hs, th)]
        /\ secrets' = NoSecrets
        /\ UNCHANGED <<given, flown, n, seq, th_run>>

FlightNext == Start \/ Certificate \/ Verify \/ Finish \/ Done \/ Breaks

\* viltrum_hs13_finished_ok of a message.
finished_ok(m) == m = FinishedMsg(keys.c_fin)

-----------------------------------------------------------------------------
(* A client by RFC 8446, section 4 and 7: what it derives from its own     *)
(* hello and the messages it has read.                                     *)

ClientPrivate == <<"client private">>
ClientSecrets(sh) ==
    LET hs == Extract(expand(Extract(Zeros, Zeros), "derived", Hash(<<>>), 32),
                      Shared(ClientPrivate, sh[3]))
        th == Hash(<<ClientMsg.means, sh>>)
    IN  [client |-> expand(hs, "c hs traffic", th, 32),
         server |-> expand(hs, "s hs traffic", th, 32),
         master |-> Extract(expand(hs, "derived", Hash(<<>>), 32), Zeros)]
FinishedMac(secret, msgs) == Hmac(expand(secret, "finished", None, 32), Hash(msgs))

\* The records after the clear ones open one by one, and put together give
\* whole messages.
Opened == SelectSeq(flown, LAMBDA r : r.sealed)
Starts == SelectSeq(Opened, LAMBDA r : r.off = 0)
OpensInOrder(key) ==
    /\ \A i \in DOMAIN Opened : Opened[i].key = key /\ Opened[i].seq = i - 1
    /\ \A i \in DOMAIN Opened :
           LET r == Opened[i]
               ends == r.off + r.len = MsgLen(r.msg)
           IN  IF i = Len(Opened) THEN ends
               ELSE IF ends THEN Opened[i + 1].off = 0
               ELSE Opened[i + 1].msg = r.msg /\ Opened[i + 1].off = r.off + r.len

\* A flight that succeeds convinces a client by the RFC: it opens every record
\* with its own keys and the next number, reads the four messages, the
\* signature and the Finished are over the transcript it has, its Finished is
\* the one the server waits for, and both hold the same application secrets
\* (viltrum_hs13_flight_with and finished_ok).
FlightVerifies ==
    ret = {<<0, "served">>} =>
        LET sh   == flown[1].msg.means
            s    == ClientSecrets(sh)
            read == <<ClientMsg.means, sh>> \o [i \in DOMAIN Starts |-> Starts[i].msg.means]
            To(k) == SubSeq(read, 1, k)
        IN  /\ OpensInOrder([key |-> expand(s.server, "key", None, 16),
                             iv |-> expand(s.server, "iv", None, 12)])
            /\ [i \in 3..Len(read) |-> read[i][1]]
                   = [i \in 3..6 |-> <<"encrypted_extensions", "certificate", "certificate_verify",
                                       "finished">>[i - 2]]
            /\ read[5][2] = <<"signature", <<"server key">>, <<"server CertificateVerify", Hash(To(4))>>>>
            /\ read[6][2] = FinishedMac(s.server, To(5))
            /\ finished_ok(FinishedMsg(FinishedMac(s.client, To(6))))
            /\ keys.c_ap = expand(s.master, "c ap traffic", Hash(To(6)), 32)
            /\ keys.s_ap = expand(s.master, "s ap traffic", Hash(To(6)), 32)
            /\ keys.s_seq = Len(Opened)
            /\ Len(flown) - Len(Opened) = IF given.sid_len > 0 THEN 2 ELSE 1

\* The room hs13_answer makes is always enough: a flight never fails for want
\* of it, whatever the chain, the key and the session id.
FlightFits == n <= Cap /\ ret # {<<-1, "room">>}

\* Every length field measures what follows it, in every message of the flight,
\* and no message but Certificate outgrows the code's buffers.
MessagesMeasured ==
    \A i \in DOMAIN flown :
        LET m == flown[i].msg
            f == m.fields
        IN  /\ \A j \in DOMAIN f : f[j][1] = "len" =>
                   /\ f[j][3] = Size(SubSeq(f, j + 1, j + f[j][4]))
                   /\ f[j][3] < 256 ^ (IF f[j][2] > 2 THEN 3 ELSE f[j][2])
            /\ m.means[1] = "server_hello" => MsgLen(m) <= 128
            /\ m.means[1] = "certificate" => MsgLen(m) = cert_total(given.crt)
            /\ m.means[1] \notin {"server_hello", "certificate"} => MsgLen(m) <= 4 + 4 + 512

\* A flight that fails, at whatever point, leaves no key behind (the wipe after
\* the done label: keys->c_key is written long before the last thing that may
\* fail).
FailureLeavesNoKey == (at = "done" /\ ret # {<<0, "served">>}) => keys = NoKeys

\* A flight convinces its client or fails cleanly; on the way its messages are
\* well formed and its buffer is large enough.
FlightRight == FlightVerifies /\ FlightFits /\ MessagesMeasured /\ FailureLeavesNoKey
=============================================================================
