------------------------------- MODULE TlsConn -------------------------------
(***************************************************************************)
(* One TLS connection of a worker, and the connection that follows it on   *)
(* the same pooled TlsConn: the read-ahead under the handshake             *)
(* (tls_linux.h), the server's own TLS 1.3 handshake (hs13_linux.c.v), the *)
(* hand-over to mbedtls and back, the record layer with its key updates    *)
(* (tls13_linux.c.v), and the part of the event loop that drives them      *)
(* (worker_linux.c.v).  A turn of a loop in the code is a step here, so    *)
(* that bytes arrive, and the socket fills, between any two of them.       *)
(*                                                                         *)
(* Bytes are units <<r, j>>: unit j of the client's record r, whose first  *)
(* one is the header with the length.  Keys are numbered: 0 is the         *)
(* handshake key of a direction, 1 and up the application keys.            *)
(***************************************************************************)
EXTENDS Integers, Sequences, FiniteSets

CONSTANTS
    BioCap,     \* tls_read_ahead
    MaxRecord,  \* units of the longest record
    MaxPlain,   \* tls13_max_plain: units of content one record carries
    OutRecords, \* tls13_out_records
    KuRoom,     \* the 32 bytes tls13_out_cap leaves for a KeyUpdate
    KuSize,     \* what a sealed KeyUpdate, or alert, takes of them
    RekeyAt,    \* tls13_rekey_at
    MaxKeyUpdates, \* tls13_max_key_updates
    FlightSeq,  \* records of the flight under the handshake key
    FlightSize, \* units of the flight
    SndCap,     \* what the socket's send buffer holds
    Responses,  \* units of a response
    MaxApp,     \* bound: records the client sends after its Finished
    MaxWrites,  \* bound: responses written
    MaxSessions,\* bound: connections served by the TlsConn
    MaxInputs   \* bound: all of these together

InCap == 2 * MaxRecord
RecordCap == MaxPlain + 1
OutCap == OutRecords * RecordCap + KuRoom

ASSUME TlsAssumption ==
    /\ {BioCap, MaxRecord, MaxPlain, OutRecords, KuRoom, KuSize, RekeyAt, FlightSeq,
        FlightSize, SndCap} \subseteq Nat \ {0}
    /\ KuSize <= KuRoom
    /\ BioCap <= InCap
    /\ Responses \subseteq Nat
    /\ MaxKeyUpdates \in Nat

VARIABLES
    \* the client and the network
    cstage,     \* how far the client is
    csend,      \* units of its record that have not arrived
    ccontent,   \* content the client has sent
    sock,       \* units in the socket
    eof,        \* the client has shut down its side
    ckey, cseq, \* the client's sending key and sequence number
    room,       \* free units of the send buffer
    \* the read-ahead: viltrum_bio
    bio, bio_off, bio_drained,
    \* Tls13: receiving
    inb, in_off, pt_off, pt_end, drained, rx_key, rx_seq, ku_owed, ku_seen,
    \* Tls13: sending
    out_len, out_off, tx_key, tx_seq,
    \* TlsConn and its Conn
    phase,      \* hs13, handshaking and fast
    hs_left,    \* what is left of hs_out
    mb,         \* units of a record mbedtls has fetched so far
    out_armed, wbuf, close_after,
    pc,         \* where the worker is in its code
    after,      \* what on_event does after flush: reads on, or read_pending
    sealing,    \* k of write13: content sealed in this call
    \* bounds and history
    budget,     \* of client records, timers and sessions
    sealed,     \* every <<key, seq>> a record was sealed with
    reused,     \* one of them twice
    peer,       \* the next <<key, seq>> the client opens with
    garbled,    \* a record the client cannot open
    got, wrong  \* content handed to the worker, and whether out of order

clientVars == <<cstage, csend, ccontent, eof, ckey, cseq>>
bioVars == <<bio, bio_off, bio_drained>>
inVars == <<inb, in_off, pt_off, pt_end, drained>>
rxVars == <<rx_key, rx_seq, ku_owed, ku_seen>>
outVars == <<out_len, out_off>>
txVars == <<tx_key, tx_seq, sealed, reused, peer, garbled>>
connVars == <<phase, hs_left, mb, out_armed, wbuf, close_after, after, sealing>>
readVars == <<got, wrong>>
tlsVars == <<clientVars, sock, room, bioVars, inVars, rxVars, outVars, txVars, connVars,
             pc, budget, readVars>>

Phases == {"hello", "flight", "finished", "mbed", "fast", "mbed_open", "closed"}
Handshaking == phase \in {"hello", "flight", "finished", "mbed"}

NoKey == -1

TlsInit ==
    /\ cstage = "start" /\ csend = <<>> /\ ccontent = 0 /\ sock = <<>> /\ eof = FALSE
    /\ ckey = 0 /\ cseq = 0
    /\ room = SndCap
    /\ bio = <<>> /\ bio_off = 0 /\ bio_drained = FALSE
    /\ inb = <<>> /\ in_off = 0 /\ pt_off = 0 /\ pt_end = 0 /\ drained = FALSE
    /\ rx_key = NoKey /\ rx_seq = 0 /\ ku_owed = FALSE /\ ku_seen = 0
    /\ out_len = 0 /\ out_off = 0
    /\ tx_key = NoKey /\ tx_seq = 0
    /\ phase = "hello" /\ hs_left = 0 /\ mb = <<>>
    /\ out_armed = FALSE /\ wbuf = 0 /\ close_after = FALSE /\ after = "read" /\ sealing = 0
    /\ pc = "idle"
    /\ budget = [app |-> MaxApp, write |-> MaxWrites, session |-> MaxSessions,
                 all |-> MaxInputs]
    /\ sealed = {} /\ reused = FALSE /\ peer = <<1, 0>> /\ garbled = FALSE
    /\ got = 0 /\ wrong = FALSE

CanSpend(what) == budget[what] > 0 /\ budget.all > 0
Spend(what) == [budget EXCEPT ![what] = @ - 1, !.all = @ - 1]

-----------------------------------------------------------------------------
(* The client (external): a hello, perhaps a change_cipher_spec, a Finished *)
(* once it has the flight, then application records, key updates and       *)
(* alerts, each sealed with the next of its sequence numbers.  A record is *)
(* chosen as its first unit arrives.  The network moves only when the      *)
(* worker is about to look: a unit that comes earlier is seen no sooner.   *)

\* The next record in a buffer; its length is in the header.
SizeAt(b, at) == b[at][1].size
HasHeader(b, off) == Len(b) > off
HasRecord(b, off) == HasHeader(b, off) /\ Len(b) - off >= SizeAt(b, off + 1)
RecordAt(b, off) == b[off + 1][1]

\* The next step of the worker is a recv, or it waits for an event.
AtRecv ==
    \/ pc = "idle" /\ phase # "closed"
    \/ pc = "hello" /\ ~bio_drained /\ ~HasRecord(bio, 0)
    \/ pc = "finished" /\ ~drained /\ ~HasRecord(inb, in_off)
    \/ pc = "read" /\ phase = "fast" /\ ~drained /\ pt_off >= pt_end /\ ~HasRecord(inb, in_off)
    \/ /\ pc = "mbed" \/ (pc = "read" /\ phase = "mbed_open")
       /\ ~bio_drained /\ bio_off = Len(bio) /\ ~HasRecord(mb, 0)

\* It is a send, or waits for the socket to take more.
AtSend ==
    \/ pc = "idle" /\ out_armed
    \/ pc = "flight"
    \/ pc = "flush" /\ (out_off < out_len \/ phase = "mbed_open")
    \/ pc = "seal" /\ sealing > 0

ClientSends(kind, size) ==
    LET r == [kind |-> kind, size |-> size, key |-> ckey, seq |-> cseq, at |-> ccontent]
    IN  /\ AtRecv /\ ~eof /\ csend = <<>>
        /\ sock' = Append(sock, <<r, 1>>)
        /\ csend' = [j \in 1..(size - 1) |-> <<r, j + 1>>]
        /\ UNCHANGED <<eof, room, bioVars, inVars, rxVars, outVars, txVars, connVars, pc, readVars>>

\* A hello the server answers itself, one longer than the read-ahead, one it
\* leaves to mbedtls, one in a record of another kind or length; and two that
\* end the connection: refused by the parse, or with a share of small order.
SendHello ==
    /\ cstage = "start" /\ cstage' = "hello"
    /\ \E h \in {<<"own", 2>>, <<"own", BioCap + 1>>, <<"other", 2>>, <<"odd", 2>>,
                 <<"refused", 2>>, <<"zero_share", 2>>} : ClientSends(h[1], h[2])
    /\ UNCHANGED <<ckey, cseq, ccontent, budget>>

\* In the clear: a change_cipher_spec, or an alert that gives up.
SendClear ==
    /\ cstage = "hello"
    /\ cstage' \in {"ccs", "alert"}
    /\ ClientSends(cstage', 2)
    /\ UNCHANGED <<ckey, cseq, ccontent, budget>>

\* Once the whole flight is out: hs_out is sent, or mbedtls has read the hello.
SendFinished ==
    /\ phase = "finished" \/ (phase = "mbed" /\ rx_key = 0)
    /\ cstage \in {"hello", "ccs"} /\ cstage' = "app"
    /\ \E kind \in {"finished", "bad"} : ClientSends(kind, 2)
    /\ ckey' = 1 /\ cseq' = 0
    /\ UNCHANGED <<ccontent, budget>>

\* Under the application keys: data, KeyUpdates that ask for one or not,
\* close_notify.  A KeyUpdate is the last record of its key.
SendApp ==
    /\ cstage = "app" /\ CanSpend("app")
    /\ \E r \in {<<"app", 2>>, <<"app", 3>>, <<"ku_req", 2>>, <<"ku", 2>>, <<"close", 2>>} :
           /\ ClientSends(r[1], r[2])
           /\ cstage' = IF r[1] = "close" THEN "close" ELSE "app"
           /\ ccontent' = IF r[1] = "app" THEN ccontent + r[2] - 1 ELSE ccontent
           /\ IF r[1] \in {"ku_req", "ku"} THEN ckey' = ckey + 1 /\ cseq' = 0
              ELSE ckey' = ckey /\ cseq' = cseq + 1
    /\ budget' = Spend("app")

\* The end of the client's stream, after a whole record or inside one.
ClientShutdown ==
    /\ AtRecv /\ ~eof /\ cstage # "start"
    /\ eof' = TRUE
    /\ UNCHANGED <<cstage, csend, ccontent, ckey, cseq, sock, room, bioVars, inVars, rxVars,
                   outVars, txVars, connVars, pc, budget, readVars>>

\* The next unit of a record arrives.
Arrive ==
    /\ AtRecv /\ ~eof /\ csend # <<>>
    /\ sock' = Append(sock, Head(csend))
    /\ csend' = Tail(csend)
    /\ UNCHANGED <<cstage, ccontent, eof, ckey, cseq, room, bioVars, inVars, rxVars, outVars,
                   txVars, connVars, pc, budget, readVars>>

\* The client reads what it was sent.
ClientReads ==
    /\ AtSend /\ room < SndCap
    /\ room' = SndCap
    /\ UNCHANGED <<clientVars, sock, bioVars, inVars, rxVars, outVars, txVars, connVars, pc,
                   budget, readVars>>

-----------------------------------------------------------------------------
(* recv and send.                                                          *)

Least(a, b) == IF a < b THEN a ELSE b
Received(n) == Least(n, Len(sock))

\* What recv of at most n units does to the socket: it returns 0 at the end of
\* the stream, -1 when there is nothing, else how many it read.
EndOfStream == sock = <<>> /\ eof

\* The units after the header are the record's own, in order: its tag is right
\* under the key and the sequence number it was sealed with.
Opens(b, off, key, seq) ==
    LET r == RecordAt(b, off)
    IN  /\ \A j \in 1..r.size : b[off + j] = <<r, j>>
        /\ r.key = key /\ r.seq = seq

-----------------------------------------------------------------------------
(* Events.                                                                 *)

\* on_event: readable clears both flags, whatever the event; a handshake goes
\* on, a connection waiting to write flushes, any other reads.
Event ==
    /\ pc = "idle" /\ phase # "closed"
    /\ IF out_armed THEN room > 0 ELSE sock # <<>> \/ EndOfStream
    /\ bio_drained' = FALSE /\ drained' = FALSE
    /\ pc' = IF Handshaking THEN phase ELSE IF out_armed THEN "flush" ELSE "read"
    /\ after' = "pending"
    /\ UNCHANGED <<clientVars, sock, room, bio, bio_off, inb, in_off, pt_off, pt_end, rxVars,
                   outVars, txVars, phase, hs_left, mb, out_armed, wbuf, close_after, sealing,
                   budget, readVars>>

\* EPOLLHUP, or a deadline passed: the loop closes the connection.
Drop ==
    /\ pc = "idle" /\ phase # "closed"
    /\ pc' = "close"
    /\ UNCHANGED <<clientVars, sock, room, bioVars, inVars, rxVars, outVars, txVars, connVars,
                   budget, readVars>>

\* What Loop.handshake makes of hs_want_read and hs_want_write.
WantRead == pc' = "settle" /\ out_armed' = FALSE
WantWrite == pc' = "settle" /\ out_armed' = TRUE

\* tls_settle: buffers with nothing left in them go back to the pools.
Settle ==
    /\ pc = "settle"
    /\ pc' = "idle" /\ after' = "read"
    /\ IF in_off = Len(inb) /\ pt_off >= pt_end
       THEN inb' = <<>> /\ in_off' = 0 /\ pt_off' = 0 /\ pt_end' = 0
       ELSE UNCHANGED <<inb, in_off, pt_off, pt_end>>
    /\ IF phase = "fast" THEN bio' = <<>> /\ bio_off' = 0 ELSE UNCHANGED <<bio, bio_off>>
    /\ UNCHANGED <<clientVars, sock, room, bio_drained, drained, rxVars, outVars, txVars, phase,
                   hs_left, mb, out_armed, wbuf, close_after, sealing, budget, readVars>>

-----------------------------------------------------------------------------
(* The handshake.                                                          *)

\* A record sealed with key and seq, kept for the properties.
SealedWith(key, seq) ==
    /\ sealed' = sealed \cup {<<key, seq>>}
    /\ reused' = (reused \/ <<key, seq>> \in sealed)

\* send: as much of out as the socket takes.  All of it, and out is empty.
AllFits(len) == len - out_off <= room
PushOut(len) ==
    IF AllFits(len) THEN out_len' = 0 /\ out_off' = 0 /\ room' = room - (len - out_off)
    ELSE out_len' = len /\ out_off' = out_off + room /\ room' = 0

\* The session goes to mbedtls, which may have no memory for it; the bio keeps
\* what it has read ahead.
Defer ==
    /\ phase' = "mbed"
    /\ pc' \in {"mbed", "close"}
    /\ rx_key' = NoKey
    /\ UNCHANGED <<sock, room, bioVars, inVars, rx_seq, ku_owed, ku_seen, outVars, txVars,
                   hs_left, mb, out_armed>>

Failed ==
    /\ pc' = "close"
    /\ UNCHANGED <<sock, room, bioVars, inVars, rxVars, outVars, txVars, phase, hs_left, mb, out_armed>>

\* viltrum_hs13_flight and what hs13_answer does after it: the record state
\* starts, with the rest of the read-ahead as its first input.
Flight ==
    LET size == SizeAt(bio, 1)
    IN  /\ inb' = SubSeq(bio, size + 1, Len(bio))
        /\ in_off' = 0 /\ pt_off' = 0 /\ pt_end' = 0 /\ drained' = FALSE
        /\ bio_off' = Len(bio)
        /\ rx_key' = 0 /\ rx_seq' = 0 /\ ku_owed' = FALSE /\ ku_seen' = 0
        /\ out_len' = 0 /\ out_off' = 0
        /\ tx_key' = 0 /\ tx_seq' = FlightSeq
        /\ sealed' = {0} \X (0..(FlightSeq - 1))
        /\ hs_left' = FlightSize
        /\ phase' = "flight" /\ pc' = "flight"
        /\ UNCHANGED <<sock, room, bio, bio_drained, reused, peer, garbled, mb, out_armed>>

\* What the read-ahead still takes.
HelloRoom == BioCap - Len(bio)

\* One turn of hs13_hello.
HelloTurn ==
    /\ pc = "hello"
    /\ \/ /\ HasHeader(bio, 0) /\ RecordAt(bio, 0).kind = "odd"
          /\ Defer
       \/ /\ HasRecord(bio, 0)
          /\ LET kind == RecordAt(bio, 0).kind
             IN  \/ kind = "own" /\ Flight
                 \/ kind = "other" /\ Defer
                 \/ kind \in {"refused", "zero_share"} /\ Failed
       \/ /\ ~HasRecord(bio, 0) /\ Len(bio) = BioCap
          /\ RecordAt(bio, 0).kind # "odd"
          /\ Defer
       \/ /\ ~HasRecord(bio, 0) /\ Len(bio) < BioCap
          /\ HasHeader(bio, 0) => RecordAt(bio, 0).kind # "odd"
          /\ \/ /\ bio_drained \/ (sock = <<>> /\ ~EndOfStream)
                /\ bio_drained' = TRUE
                /\ WantRead
                /\ UNCHANGED <<sock, bio>>
             \/ /\ ~bio_drained /\ EndOfStream
                /\ pc' = "close"
                /\ UNCHANGED <<sock, bio, bio_drained, out_armed>>
             \/ /\ ~bio_drained /\ sock # <<>>
                /\ LET m == Received(HelloRoom)
                   IN  /\ bio' = bio \o SubSeq(sock, 1, m)
                       /\ sock' = SubSeq(sock, m + 1, Len(sock))
                       /\ bio_drained' = (m < HelloRoom)
                /\ UNCHANGED <<pc, out_armed>>
          /\ UNCHANGED <<room, bio_off, inVars, rxVars, outVars, txVars, phase, hs_left, mb>>
    /\ UNCHANGED <<clientVars, wbuf, close_after, after, sealing, budget, readVars>>

\* The loop of hs13_step that sends the flight.
FlightTurn ==
    /\ pc = "flight"
    /\ \/ /\ hs_left <= room
          /\ hs_left' = 0 /\ room' = room - hs_left
          /\ phase' = "finished" /\ pc' = "finished"
          /\ UNCHANGED out_armed
       \/ /\ hs_left > room
          /\ hs_left' = hs_left - room /\ room' = 0
          /\ WantWrite
          /\ UNCHANGED phase
    /\ UNCHANGED <<clientVars, sock, bioVars, inVars, rxVars, outVars, txVars, mb, wbuf,
                   close_after, after, sealing, budget, readVars>>

\* hs13_sealed_alert, under the handshake key, and the failure after it.
SealedAlert ==
    /\ IF out_off < out_len THEN UNCHANGED <<outVars, room, tx_key, tx_seq, sealed, reused>>
       ELSE /\ SealedWith(tx_key, tx_seq)
            /\ tx_seq' = tx_seq + 1
            /\ PushOut(out_len + KuSize)
            /\ UNCHANGED tx_key
    /\ pc' = "close"
    /\ UNCHANGED <<sock, inVars, rxVars, peer, garbled, phase, out_armed>>

\* hs13_open_finished: both directions move to the application keys.
SwitchKeys ==
    /\ in_off' = in_off + SizeAt(inb, in_off + 1)
    /\ pt_off' = in_off' /\ pt_end' = in_off'
    /\ rx_key' = 1 /\ rx_seq' = 0
    /\ tx_key' = 1 /\ tx_seq' = 0
    /\ phase' = "fast" /\ pc' = "read" /\ out_armed' = FALSE
    /\ UNCHANGED <<sock, room, inb, drained, ku_owed, ku_seen, outVars, sealed, reused, peer, garbled>>

\* The rest of inb moves down, and recv adds to it.  at is the next record.
Refill ==
    LET rest == SubSeq(inb, in_off + 1, Len(inb))
        m    == Received(InCap - Len(rest))
    IN  /\ in_off' = 0
        /\ inb' = rest \o SubSeq(sock, 1, m)
        /\ sock' = SubSeq(sock, m + 1, Len(sock))
        /\ drained' = (m < InCap - Len(rest))
Compact == inb' = SubSeq(inb, in_off + 1, Len(inb)) /\ in_off' = 0

\* One turn of hs13_finished.
FinishedTurn ==
    /\ pc = "finished"
    /\ \/ /\ HasRecord(inb, in_off)
          /\ LET r == RecordAt(inb, in_off)
             IN  \/ /\ r.kind = "ccs"
                    /\ in_off' = in_off + r.size
                    /\ UNCHANGED <<sock, room, inb, pt_off, pt_end, drained, rxVars, outVars,
                                   txVars, phase, out_armed, pc>>
                 \/ /\ r.kind = "alert"
                    /\ pc' = "close"
                    /\ UNCHANGED <<sock, room, inVars, rxVars, outVars, txVars, phase, out_armed>>
                 \/ /\ r.kind \notin {"ccs", "alert"}
                    /\ r.kind # "finished" \/ ~Opens(inb, in_off, rx_key, 0)
                    /\ SealedAlert
                 \/ /\ r.kind = "finished" /\ Opens(inb, in_off, rx_key, 0)
                    /\ SwitchKeys
       \/ /\ ~HasRecord(inb, in_off)
          /\ \/ /\ drained \/ (sock = <<>> /\ ~EndOfStream)
                /\ Compact /\ drained' = TRUE
                /\ WantRead
                /\ UNCHANGED sock
             \/ /\ ~drained /\ EndOfStream
                /\ pc' = "close"
                /\ UNCHANGED <<sock, inb, in_off, drained, out_armed>>
             \/ /\ ~drained /\ sock # <<>>
                /\ Refill
                /\ UNCHANGED <<pc, out_armed>>
          /\ UNCHANGED <<room, pt_off, pt_end, rxVars, outVars, txVars, phase>>
    /\ UNCHANGED <<clientVars, bioVars, hs_left, mb, wbuf, close_after, after, sealing, budget, readVars>>

-----------------------------------------------------------------------------
(* mbedtls (external): it reads a record as a header and a body, each with *)
(* calls of viltrum_tls_recv.                                              *)

MbedWants == IF mb = <<>> THEN 1 ELSE SizeAt(mb, 1) - Len(mb)
MbedHasRecord == HasRecord(mb, 0)

\* viltrum_tls_recv: from the read-ahead, which is filled only when empty.
BioRecv ==
    \/ /\ bio_off < Len(bio)
       /\ LET k == Least(Len(bio) - bio_off, MbedWants)
          IN  mb' = mb \o SubSeq(bio, bio_off + 1, bio_off + k) /\ bio_off' = bio_off + k
       /\ UNCHANGED <<sock, bio, bio_drained, pc, out_armed>>
    \/ /\ bio_off = Len(bio)
       /\ bio_drained \/ (sock = <<>> /\ ~EndOfStream)
       /\ bio_drained' = TRUE
       /\ WantRead
       /\ UNCHANGED <<sock, bio, bio_off, mb>>
    \/ /\ bio_off = Len(bio) /\ ~bio_drained /\ EndOfStream
       /\ pc' = "close"
       /\ UNCHANGED <<sock, bio, bio_off, bio_drained, mb, out_armed>>
    \/ /\ bio_off = Len(bio) /\ ~bio_drained /\ sock # <<>>
       /\ bio' = SubSeq(sock, 1, Received(BioCap))
       /\ bio_off' = 0
       /\ sock' = SubSeq(sock, Received(BioCap) + 1, Len(sock))
       /\ bio_drained' = (Received(BioCap) < BioCap)
       /\ UNCHANGED <<mb, pc, out_armed>>

\* go_fast: the record state starts with what the read-ahead still holds, and
\* mbedtls is done with.  The suite and the processor decide whether it does.
GoFast ==
    \/ /\ phase' = "fast"
       /\ inb' = SubSeq(bio, bio_off + 1, Len(bio))
       /\ bio_off' = Len(bio)
       /\ in_off' = 0 /\ pt_off' = 0 /\ pt_end' = 0 /\ drained' = FALSE
       /\ ku_owed' = FALSE /\ ku_seen' = 0
       /\ out_len' = 0 /\ out_off' = 0
       /\ tx_key' = 1 /\ tx_seq' = 0
    \/ /\ phase' = "mbed_open"
       /\ UNCHANGED <<bio_off, inVars, ku_owed, ku_seen, outVars, tx_key, tx_seq>>

\* mbedtls_ssl_handshake, one call of recv or one record at a time.
MbedTurn ==
    /\ pc = "mbed"
    /\ \/ /\ ~MbedHasRecord
          /\ BioRecv
          /\ UNCHANGED <<inVars, rxVars, outVars, tx_key, tx_seq, phase>>
       \/ /\ MbedHasRecord
          /\ mb' = <<>>
          /\ LET kind == RecordAt(mb, 0).kind
             IN  \/ /\ kind \in {"own", "other", "odd"}
                    /\ rx_key' = 0 /\ rx_seq' = 0
                    /\ UNCHANGED <<inVars, ku_owed, ku_seen, outVars, tx_key, tx_seq, phase, pc,
                                   out_armed, bio_off>>
                 \/ /\ kind = "ccs"
                    /\ UNCHANGED <<inVars, rxVars, outVars, tx_key, tx_seq, phase, pc, out_armed,
                                   bio_off>>
                 \/ /\ kind = "finished" /\ Opens(mb, 0, rx_key, 0)
                    /\ rx_key' = 1 /\ rx_seq' = 0
                    /\ GoFast
                    /\ pc' = "read" /\ out_armed' = FALSE
                 \/ /\ kind \in {"refused", "zero_share", "alert", "bad"}
                       \/ (kind = "finished" /\ ~Opens(mb, 0, rx_key, 0))
                    /\ pc' = "close"
                    /\ UNCHANGED <<inVars, rxVars, outVars, tx_key, tx_seq, phase, out_armed, bio_off>>
          /\ UNCHANGED <<sock, bio, bio_drained>>
    /\ UNCHANGED <<clientVars, room, sealed, reused, peer, garbled, hs_left, wbuf, close_after,
                   after, sealing, budget, readVars>>

-----------------------------------------------------------------------------
(* Reading: on_readable, read13 and open_next.                             *)

\* A response, perhaps the last one.
Respond ==
    /\ CanSpend("write")
    /\ wbuf' \in {wbuf + w : w \in Responses}
    /\ close_after' \in BOOLEAN
    /\ budget' = Spend("write")

\* The worker gets n units of content from unit u on, and may answer.
HandOut(u, n) ==
    /\ wrong' = (wrong \/ got # u[1].at + u[2] - 2 \/ u[1].kind # "app")
    /\ got' = got + n
    /\ Respond \/ UNCHANGED <<wbuf, close_after, budget>>
    /\ after' = "read" /\ pc' = "flush"

\* The opened record's content moves to the worker, a unit at a time.
ReadContent ==
    /\ pc = "read" /\ phase = "fast" /\ pt_off < pt_end
    /\ HandOut(inb[pt_off + 1], 1)
    /\ pt_off' = pt_off + 1
    /\ UNCHANGED <<clientVars, sock, room, bioVars, inb, in_off, pt_end, drained, rxVars, outVars,
                   txVars, phase, hs_left, mb, out_armed, sealing>>

\* Mutant of ContentOf: the header counts as content.
ContentWithHeader(off, size) == pt_off' = off /\ pt_end' = off + size

\* The content of the record at off, opened in place.
ContentOf(off, size) == pt_off' = off + 1 /\ pt_end' = off + size

\* open_next of a whole record.
OpenNext ==
    /\ pc = "read" /\ phase = "fast" /\ pt_off >= pt_end
    /\ HasRecord(inb, in_off)
    /\ LET r == RecordAt(inb, in_off)
           ok == Opens(inb, in_off, rx_key, rx_seq)
       IN  \/ /\ ok /\ r.kind = "app"
              /\ ContentOf(in_off, r.size)
              /\ in_off' = in_off + r.size
              /\ rx_seq' = rx_seq + 1
              /\ UNCHANGED <<rx_key, ku_owed, ku_seen, pc>>
           \/ /\ ok /\ r.kind \in {"ku", "ku_req"} /\ ku_seen < MaxKeyUpdates
              /\ in_off' = in_off + r.size
              /\ ku_seen' = ku_seen + 1
              /\ ku_owed' = (ku_owed \/ r.kind = "ku_req")
              /\ rx_key' = rx_key + 1 /\ rx_seq' = 0
              /\ UNCHANGED <<pt_off, pt_end, pc>>
           \/ /\ ~ok \/ r.kind \notin {"app", "ku", "ku_req"}
                     \/ (r.kind # "app" /\ ku_seen = MaxKeyUpdates)
              /\ pc' = "close"
              /\ UNCHANGED <<in_off, pt_off, pt_end, rxVars>>
    /\ UNCHANGED <<clientVars, sock, room, bioVars, inb, drained, outVars, txVars, connVars,
                   budget, readVars>>

\* read13 without a whole record: recv unless the socket is known to be empty.
ReadMore ==
    /\ pc = "read" /\ phase = "fast" /\ pt_off >= pt_end
    /\ ~HasRecord(inb, in_off)
    /\ \/ /\ drained
          /\ pc' = "settle"
          /\ UNCHANGED <<sock, inVars>>
       \/ /\ ~drained /\ sock = <<>>
          /\ IF EndOfStream THEN pc' = "close" /\ drained' = drained
             ELSE pc' = "settle" /\ drained' = TRUE
          /\ Compact /\ pt_off' = 0 /\ pt_end' = 0
          /\ UNCHANGED sock
       \/ /\ ~drained /\ sock # <<>>
          /\ Refill /\ pt_off' = 0 /\ pt_end' = 0
          /\ UNCHANGED pc
    /\ UNCHANGED <<clientVars, room, bioVars, rxVars, outVars, txVars, connVars, budget, readVars>>

\* mbedtls_ssl_read of a session that stays with mbedtls, which takes no
\* KeyUpdate.
MbedRead ==
    /\ pc = "read" /\ phase = "mbed_open"
    /\ \/ /\ ~MbedHasRecord
          /\ BioRecv
          /\ UNCHANGED <<rx_seq, wbuf, close_after, after, budget, readVars>>
       \/ /\ MbedHasRecord
          /\ mb' = <<>>
          /\ LET r == RecordAt(mb, 0)
                 ok == Opens(mb, 0, rx_key, rx_seq) /\ r.kind = "app"
             IN  \/ /\ ok
                    /\ rx_seq' = rx_seq + 1
                    /\ HandOut(mb[2], r.size - 1)
                 \/ /\ ~ok
                    /\ pc' = "close"
                    /\ UNCHANGED <<rx_seq, wbuf, close_after, after, budget, readVars>>
          /\ UNCHANGED <<sock, bioVars, out_armed>>
    /\ UNCHANGED <<clientVars, room, inVars, rx_key, ku_owed, ku_seen, outVars, txVars, phase,
                   hs_left, sealing>>

-----------------------------------------------------------------------------
(* Writing: flush, write13, seal and send.                                 *)

\* A record of the application keys; a KeyUpdate is the last of its key.
SealNext(isKu) ==
    /\ SealedWith(tx_key, tx_seq)
    /\ garbled' = (garbled \/ peer # <<tx_key, tx_seq>>)
    /\ peer' = IF isKu THEN <<tx_key + 1, 0>> ELSE <<tx_key, tx_seq + 1>>

\* arm_out: the handler ends, and the next event is that the socket takes more.
ArmOut == pc' = "settle" /\ out_armed' = TRUE

\* Records left in out go first, whether more is to be written or not.
FlushOut ==
    /\ pc = "flush" /\ phase = "fast" /\ out_off < out_len
    /\ PushOut(out_len)
    /\ IF AllFits(out_len) THEN UNCHANGED <<pc, out_armed>> ELSE ArmOut
    /\ UNCHANGED <<clientVars, sock, bioVars, inVars, rxVars, txVars, phase, hs_left, mb, wbuf,
                   close_after, after, sealing, budget, readVars>>

\* write13 with nothing left in out: the loop over its records begins.
FlushWrite ==
    /\ pc = "flush" /\ phase = "fast" /\ out_off >= out_len /\ wbuf > 0
    /\ pc' = "seal"
    /\ UNCHANGED <<clientVars, sock, room, bioVars, inVars, rxVars, outVars, txVars, connVars,
                   budget, readVars>>

KeyUpdateDue == ku_owed \/ tx_seq >= RekeyAt
Free == OutCap - out_len
NextPlain == Least(wbuf - sealing, MaxPlain)

\* Mutant of RecordFits: room for the content, without the rest of a record.
ContentFits == Free >= NextPlain

\* There is room for the next record of content, and for a KeyUpdate and the
\* longest record after it.
RecordFits == Free >= NextPlain + 1
KeyUpdateFits == Free >= RecordCap + KuRoom

\* Mutant of Rekey: the numbers start again under the old key.
NumbersOnly == tx_seq' = 0 /\ UNCHANGED tx_key

\* Mutant of Rekey: the numbers go on under the new key.
KeyOnly == tx_key' = tx_key + 1 /\ tx_seq' = tx_seq + 1

\* rekey of the sending side.
Rekey == tx_key' = tx_key + 1 /\ tx_seq' = 0

\* Our KeyUpdate under the old key, and the new key.
SealKeyUpdate ==
    /\ pc = "seal" /\ KeyUpdateDue /\ KeyUpdateFits
    /\ SealNext(TRUE)
    /\ out_len' = out_len + KuSize
    /\ Rekey
    /\ ku_owed' = FALSE
    /\ UNCHANGED <<clientVars, sock, room, bioVars, inVars, rx_key, rx_seq, ku_seen, out_off,
                   connVars, pc, budget, readVars>>

\* One record of content.
SealContent ==
    /\ pc = "seal" /\ ~KeyUpdateDue /\ sealing < wbuf /\ RecordFits
    /\ SealNext(FALSE)
    /\ out_len' = out_len + NextPlain + 1
    /\ tx_seq' = tx_seq + 1
    /\ sealing' = sealing + NextPlain
    /\ UNCHANGED <<clientVars, sock, room, bioVars, inVars, rxVars, out_off, tx_key, phase,
                   hs_left, mb, out_armed, wbuf, close_after, after, pc, budget, readVars>>

\* All is sealed, or out is full.
SealEnds ==
    \/ sealing = wbuf
    \/ KeyUpdateDue /\ ~KeyUpdateFits
    \/ ~KeyUpdateDue /\ ~RecordFits

\* The loop ends, and what was sealed is sent and counts as written.
SendSealed ==
    /\ pc = "seal" /\ SealEnds
    /\ PushOut(out_len)
    /\ wbuf' = wbuf - sealing /\ sealing' = 0
    /\ pc' = "flush"
    /\ UNCHANGED <<clientVars, sock, bioVars, inVars, rxVars, txVars, phase, hs_left, mb,
                   out_armed, close_after, after, budget, readVars>>

\* mbedtls_ssl_write over viltrum_tls_send: a record, or what the socket takes
\* of it.
MbedWrite ==
    /\ pc = "flush" /\ phase = "mbed_open" /\ wbuf > 0
    /\ IF room > 0
       THEN /\ wbuf' = wbuf - Least(room, Least(wbuf, MaxPlain))
            /\ room' = room - Least(room, Least(wbuf, MaxPlain))
            /\ UNCHANGED <<pc, out_armed>>
       ELSE ArmOut /\ UNCHANGED <<wbuf, room>>
    /\ UNCHANGED <<clientVars, sock, bioVars, inVars, rxVars, outVars, txVars, phase, hs_left, mb,
                   close_after, after, sealing, budget, readVars>>

\* Mutant of Pending: content in hand counts, whole records do not.
ContentOnly == IF phase = "fast" THEN pt_off < pt_end ELSE bio_off < Len(bio)

\* TlsConn.pending: input that epoll cannot see.
Pending ==
    IF phase = "fast" THEN pt_off < pt_end \/ HasRecord(inb, in_off)
    ELSE bio_off < Len(bio)

\* All is written: the connection closes, reads on, or read_pending.
FlushEnd ==
    /\ pc = "flush" /\ wbuf = 0
    /\ phase = "fast" => out_off >= out_len
    /\ pc' = IF close_after THEN "close"
             ELSE IF after = "read" \/ Pending THEN "read" ELSE "settle"
    /\ out_armed' = (out_armed /\ close_after)
    /\ UNCHANGED <<clientVars, sock, room, bioVars, inVars, rxVars, outVars, txVars, phase,
                   hs_left, mb, wbuf, close_after, after, sealing, budget, readVars>>

\* fire: a timer's response, written also while the socket is full.
Timer ==
    /\ pc = "idle" /\ phase \in {"fast", "mbed_open"}
    /\ Respond
    /\ after' = "pending" /\ pc' = "flush"
    /\ UNCHANGED <<clientVars, sock, room, bioVars, inVars, rxVars, outVars, txVars, phase,
                   hs_left, mb, out_armed, sealing, readVars>>

-----------------------------------------------------------------------------
(* The end, and the next connection on the pooled TlsConn.                 *)

\* TlsConn.close and tls_settle of everything: close_notify unless a record is
\* half sent, the keys wiped; the flags and counters stay as they are.
Close ==
    /\ pc = "close"
    /\ IF phase = "fast" /\ out_off >= out_len THEN SealNext(FALSE) /\ tx_seq' = tx_seq + 1
       ELSE UNCHANGED <<tx_seq, sealed, reused, peer, garbled>>
    /\ tx_key' = NoKey /\ rx_key' = NoKey
    /\ out_len' = 0 /\ out_off' = 0
    /\ inb' = <<>> /\ in_off' = 0 /\ pt_off' = 0 /\ pt_end' = 0
    /\ bio' = <<>> /\ bio_off' = 0 /\ mb' = <<>>
    /\ phase' = "closed" /\ pc' = "idle"
    /\ out_armed' = FALSE /\ wbuf' = 0 /\ close_after' = FALSE /\ hs_left' = 0 /\ after' = "read"
    /\ cstage' = "start" /\ csend' = <<>> /\ ccontent' = 0 /\ sock' = <<>> /\ eof' = FALSE
    /\ ckey' = 0 /\ cseq' = 0 /\ room' = SndCap /\ got' = 0
    /\ UNCHANGED <<bio_drained, drained, rx_seq, ku_owed, ku_seen, sealing, budget, wrong>>

\* tls_start for another client: new keys will be agreed on.
Reconnect ==
    /\ phase = "closed" /\ budget.session > 1 /\ CanSpend("session")
    /\ budget' = Spend("session")
    /\ phase' = "hello"
    /\ bio_drained' = FALSE
    /\ sealed' = {} /\ peer' = <<1, 0>>
    /\ UNCHANGED <<clientVars, sock, room, bio, bio_off, inVars, rxVars, outVars, tx_key, tx_seq,
                   reused, garbled, hs_left, mb, out_armed, wbuf, close_after, after, sealing, pc,
                   readVars>>

Client == SendHello \/ SendClear \/ SendFinished \/ SendApp \/ ClientShutdown
Worker ==
    \/ Event \/ Settle \/ HelloTurn \/ FlightTurn \/ FinishedTurn \/ MbedTurn
    \/ ReadContent \/ OpenNext \/ ReadMore \/ MbedRead
    \/ FlushOut \/ FlushWrite \/ SealKeyUpdate \/ SealContent \/ SendSealed \/ MbedWrite
    \/ FlushEnd \/ Close
TlsNext == Client \/ ClientReads \/ Arrive \/ Worker \/ Drop \/ Timer \/ Reconnect

TlsSpec == TlsInit /\ [][TlsNext]_tlsVars

-----------------------------------------------------------------------------
(* Properties.                                                             *)

\* Every variable has its type, and every offset lies in its buffer.
TlsTypeOK ==
    /\ phase \in Phases
    /\ pc \in Phases \cup {"idle", "settle", "read", "flush", "seal", "close"}
    /\ room \in 0..SndCap
    /\ Len(bio) <= BioCap /\ bio_off \in 0..Len(bio)
    /\ Len(inb) <= InCap /\ in_off \in 0..Len(inb) /\ {pt_off, pt_end} \subseteq 0..Len(inb)
    /\ out_off \in 0..out_len
    /\ {bio_drained, drained, ku_owed, eof, out_armed, close_after} \subseteq BOOLEAN

\* No two records are sealed with one key and sequence number, whatever the
\* order of flight, alerts, key updates of both sides and close_notify (the
\* nonce of seal and of viltrum_hs13_seal).
NonceNeverReused == ~reused

\* The client can open every record sealed under the application keys: none is
\* skipped, and a KeyUpdate is the last one of its key (write13, close13).
ClientOpensAll == ~garbled

\* No application key seals more than tls13_rekey_at records and the one that
\* ends it, a KeyUpdate or close_notify (write13, close13).
KeyLimit == tx_key >= 1 => tx_seq <= RekeyAt

\* What is sealed fits out, KeyUpdates in front of full records included, and
\* write13 takes something on every call, so that flush does not spin.
OutFits ==
    /\ out_len <= OutCap
    /\ (pc = "seal" /\ SealEnds) => sealing > 0

\* The worker gets the client's content in order, each unit once, across the
\* hand-over between the read-ahead, mbedtls and the record layer, and every
\* offset stays in its buffer.
ContentInOrder == TlsTypeOK /\ ~wrong

\* A worker that waits has no whole record left to handle, unless it waits for
\* the socket to take output: nothing else would wake it for that record
\* (drained, pending, read_pending).
NoStrandedInput ==
    (pc = "idle" /\ phase # "closed" /\ ~out_armed) =>
        /\ phase = "hello" => ~HasRecord(bio, 0)
        /\ phase \in {"flight", "finished", "fast"} =>
               ~HasRecord(inb, in_off) /\ pt_off >= pt_end /\ bio_off = Len(bio)
        /\ phase \in {"mbed", "mbed_open"} => ~MbedHasRecord /\ bio_off = Len(bio)

\* Once the peer has asked for a KeyUpdate, no more content is sealed before it
\* (open_next, write13).
KeyUpdateFirst == [][(ku_owed /\ phase = "fast") => sealing' <= sealing]_tlsVars
=============================================================================
