------------------------------ MODULE TlsProofs ------------------------------
(***************************************************************************)
(* What the record layer of TlsConn guarantees for every size of buffers,  *)
(* records and responses, and any number of sessions: no nonce twice, no   *)
(* record the client cannot open, no key used too long, no overrun of out; *)
(* content in order, and no whole record left when the worker waits.       *)
(***************************************************************************)
EXTENDS TlsConn, TLAPS

\* Which code runs in which phase of the connection.
PhaseOfPc ==
    /\ phase \in Phases
    /\ pc \in {"hello", "flight", "finished", "mbed"} => phase = pc
    /\ pc = "seal" => phase = "fast"
    /\ pc \in {"read", "flush"} => phase \in {"fast", "mbed_open"}
    /\ pc \in {"close", "settle"} => phase # "closed"

\* The record numbered s was sealed before the next one.
Behind(s) == s[1] < tx_key \/ (s[1] = tx_key /\ s[2] < tx_seq)

\* The keys of a phase, and the client's idea of them.
KeyInv ==
    /\ PhaseOfPc
    /\ tx_key \in Int /\ tx_seq \in Nat
    /\ sealed \subseteq Int \X Nat
    /\ phase \in {"hello", "mbed", "mbed_open", "closed"} => tx_key = NoKey
    /\ phase \in {"hello", "mbed", "mbed_open"} => sealed = {}
    /\ phase \in {"flight", "finished"} => tx_key = 0
    /\ phase \in {"hello", "mbed", "mbed_open", "flight", "finished"} => peer = <<1, 0>>
    /\ phase = "fast" => tx_key >= 1 /\ tx_seq <= RekeyAt /\ peer = <<tx_key, tx_seq>>
    /\ phase \in {"flight", "finished", "fast"} => \A s \in sealed : Behind(s)
    /\ reused = FALSE /\ garbled = FALSE

\* The initial state has no key yet.
LEMMA KeyInvInit == TlsInit => KeyInv
BY DEF TlsInit, KeyInv, PhaseOfPc, Phases, NoKey

\* A step of the client, or one that only moves the worker on, leaves the keys
\* as they are: it is enough to look at where the worker is.
LEMMA KeysUntouched ==
    ASSUME KeyInv, UNCHANGED <<txVars, phase>>, PhaseOfPc'
    PROVE  KeyInv'
BY DEF KeyInv, txVars, Behind

\* The invariant is inductive: one step per action.
LEMMA KeyInvStep == KeyInv /\ [TlsNext]_tlsVars => KeyInv'
<1> SUFFICES ASSUME KeyInv, [TlsNext]_tlsVars PROVE KeyInv'
    OBVIOUS
<1> USE TlsAssumption DEF TlsAssumption
<1>1. CASE Client
    <2>1. UNCHANGED <<txVars, phase, pc>>
        BY <1>1 DEF Client, SendHello, SendClear, SendFinished, SendApp, ClientShutdown, ClientSends, connVars
    <2> QED BY <2>1, KeysUntouched, ZenonT(60) DEF KeyInv, PhaseOfPc
<1>2. CASE ClientReads \/ Arrive \/ ReadContent \/ OpenNext \/ ReadMore \/ MbedRead
    <2>1. UNCHANGED <<txVars, phase>>
        BY <1>2, ZenonT(60) DEF ClientReads, Arrive, ReadContent, OpenNext, ReadMore, MbedRead, connVars
    <2>2. PhaseOfPc'
        BY <1>2, <2>1, ZenonT(60) DEF ClientReads, Arrive, ReadContent, OpenNext, ReadMore, MbedRead, BioRecv, WantRead,
                          HandOut, KeyInv, PhaseOfPc
    <2> QED BY <2>1, <2>2, KeysUntouched
<1>3. CASE Event \/ Settle \/ Drop \/ Timer \/ FlightTurn
    <2>1. UNCHANGED txVars
        BY <1>3 DEF Event, Settle, Drop, Timer, FlightTurn
    <2>2. CASE Event \/ Settle \/ Drop \/ Timer
        <3>1. UNCHANGED phase
            BY <2>2 DEF Event, Settle, Drop, Timer, connVars
        <3>2. PhaseOfPc'
            BY <2>2, <3>1, ZenonT(60) DEF Event, Settle, Drop, Timer, KeyInv, PhaseOfPc, Phases, Handshaking
        <3> QED BY <2>1, <3>1, <3>2, KeysUntouched
    <2>3. CASE FlightTurn
        BY <2>1, <2>3 DEF FlightTurn, WantWrite, KeyInv, PhaseOfPc, Phases, txVars, Behind
    <2> QED BY <1>3, <2>2, <2>3
<1>4. CASE FlushOut \/ FlushWrite \/ SendSealed \/ MbedWrite \/ FlushEnd
    <2>1. UNCHANGED <<txVars, phase>>
        BY <1>4 DEF FlushOut, FlushWrite, SendSealed, MbedWrite, FlushEnd, connVars
    <2>2. PhaseOfPc'
        BY <1>4, <2>1 DEF FlushOut, FlushWrite, SendSealed, MbedWrite, FlushEnd, ArmOut, KeyInv, PhaseOfPc
    <2> QED BY <2>1, <2>2, KeysUntouched
<1>5. CASE HelloTurn
    <2>1. CASE Flight
        <3>1. tx_key' = 0 /\ tx_seq' = FlightSeq /\ sealed' = {0} \X (0..(FlightSeq - 1))
              /\ phase' = "flight" /\ pc' = "flight" /\ UNCHANGED <<reused, peer, garbled>>
            BY <2>1 DEF Flight
        <3>2. phase = "hello"
            BY <1>5 DEF HelloTurn, KeyInv, PhaseOfPc
        <3> QED BY <3>1, <3>2 DEF KeyInv, PhaseOfPc, Phases, Behind
    <2>2. CASE Defer
        <3>1. phase = "hello" /\ phase' = "mbed" /\ pc' \in {"mbed", "close"} /\ UNCHANGED txVars
            BY <1>5, <2>2 DEF HelloTurn, Defer, KeyInv, PhaseOfPc
        <3> QED BY <3>1 DEF KeyInv, PhaseOfPc, Phases, txVars, NoKey
    <2>3. CASE UNCHANGED <<txVars, phase>> /\ (pc' \in {"close", "settle"} \/ UNCHANGED pc)
        BY <1>5, <2>3, KeysUntouched, ZenonT(60) DEF HelloTurn, KeyInv, PhaseOfPc
    <2> QED BY <1>5, <2>1, <2>2, <2>3 DEF HelloTurn, Failed, WantRead
<1>6. CASE FinishedTurn
    <2>1. phase = "finished"
        BY <1>6 DEF FinishedTurn, KeyInv, PhaseOfPc
    <2>2. CASE SwitchKeys
        <3>1. tx_key' = 1 /\ tx_seq' = 0 /\ phase' = "fast" /\ pc' = "read"
              /\ UNCHANGED <<sealed, reused, peer, garbled>>
            BY <2>2 DEF SwitchKeys
        <3> QED BY <2>1, <3>1 DEF KeyInv, PhaseOfPc, Phases, Behind
    <2>3. CASE SealedAlert
        <3>1. CASE out_off < out_len
            <4>1. UNCHANGED <<txVars, phase>> /\ pc' = "close"
                BY <2>3, <3>1 DEF SealedAlert, txVars
            <4> QED BY <2>1, <4>1, KeysUntouched, ZenonT(60) DEF KeyInv, PhaseOfPc
        <3>2. CASE ~(out_off < out_len)
            <4>1. tx_seq' = tx_seq + 1 /\ pc' = "close" /\ UNCHANGED <<tx_key, peer, garbled, phase>>
                  /\ sealed' = sealed \cup {<<tx_key, tx_seq>>}
                  /\ reused' = (reused \/ <<tx_key, tx_seq>> \in sealed)
                BY <2>3, <3>2 DEF SealedAlert, SealedWith
            <4>2. <<tx_key, tx_seq>> \notin sealed
                BY <2>1 DEF KeyInv, Behind
            <4>3. reused' = FALSE
                BY <4>1, <4>2, ZenonT(60) DEF KeyInv
            <4>4. \A s \in sealed' : s \in Int \X Nat /\ Behind(s)'
                BY <2>1, <4>1 DEF KeyInv, Behind
            <4> QED BY <2>1, <4>1, <4>3, <4>4 DEF KeyInv, PhaseOfPc, Phases
        <3> QED BY <3>1, <3>2
    <2>4. CASE UNCHANGED <<txVars, phase>> /\ (pc' \in {"close", "settle"} \/ UNCHANGED pc)
        BY <2>1, <2>4, KeysUntouched, ZenonT(60) DEF KeyInv, PhaseOfPc
    <2> QED BY <1>6, <2>2, <2>3, <2>4 DEF FinishedTurn, WantRead
<1>7. CASE MbedTurn
    <2>1. phase = "mbed"
        BY <1>7 DEF MbedTurn, KeyInv, PhaseOfPc
    <2>2. CASE UNCHANGED <<txVars, phase>> /\ (pc' \in {"close", "settle"} \/ UNCHANGED pc)
        BY <2>1, <2>2, KeysUntouched, ZenonT(60) DEF KeyInv, PhaseOfPc
    <2>3. CASE GoFast /\ pc' = "read" /\ UNCHANGED <<sealed, reused, peer, garbled>>
        <3>1. sealed' = {} /\ peer' = <<1, 0>> /\ reused' = FALSE /\ garbled' = FALSE
            BY <2>1, <2>3 DEF KeyInv
        <3>2. \/ phase' = "fast" /\ tx_key' = 1 /\ tx_seq' = 0
              \/ phase' = "mbed_open" /\ UNCHANGED <<tx_key, tx_seq>>
            BY <2>3 DEF GoFast
        <3> QED BY <2>1, <2>3, <3>1, <3>2 DEF KeyInv, PhaseOfPc, Phases, NoKey
    <2> QED BY <1>7, <2>2, <2>3 DEF MbedTurn, BioRecv, WantRead, txVars
<1>8. CASE SealKeyUpdate \/ SealContent
    <2>1. phase = "fast"
        BY <1>8, ZenonT(60) DEF SealKeyUpdate, SealContent, KeyInv, PhaseOfPc
    <2>2. <<tx_key, tx_seq>> \notin sealed
        BY <2>1 DEF KeyInv, Behind
    <2>3. /\ sealed' = sealed \cup {<<tx_key, tx_seq>>}
          /\ reused' = FALSE /\ garbled' = FALSE /\ UNCHANGED <<phase, pc>>
        BY <1>8, <2>1, <2>2, ZenonT(60) DEF SealKeyUpdate, SealContent, SealNext, SealedWith, KeyInv, connVars
    <2>4. CASE SealKeyUpdate
        <3>1. tx_key' = tx_key + 1 /\ tx_seq' = 0 /\ peer' = <<tx_key + 1, 0>>
            BY <2>4 DEF SealKeyUpdate, SealNext, Rekey
        <3> QED BY <2>1, <2>3, <3>1 DEF KeyInv, PhaseOfPc, Phases, Behind
    <2>5. CASE SealContent
        <3>1. tx_key' = tx_key /\ tx_seq' = tx_seq + 1 /\ peer' = <<tx_key, tx_seq + 1>> /\ tx_seq < RekeyAt
            BY <2>5 DEF SealContent, SealNext, KeyUpdateDue, KeyInv
        <3> QED BY <2>1, <2>3, <3>1 DEF KeyInv, PhaseOfPc, Phases, Behind
    <2> QED BY <1>8, <2>4, <2>5
<1>9. CASE Close
    <2>1. phase' = "closed" /\ pc' = "idle" /\ tx_key' = NoKey
        BY <1>9 DEF Close
    <2>2. CASE phase = "fast" /\ out_off >= out_len
        <3>1. <<tx_key, tx_seq>> \notin sealed
            BY <2>2 DEF KeyInv, Behind
        <3>2. reused' = FALSE /\ garbled' = FALSE /\ tx_seq' = tx_seq + 1
              /\ sealed' = sealed \cup {<<tx_key, tx_seq>>}
            BY <1>9, <2>2, <3>1, ZenonT(60) DEF Close, SealNext, SealedWith, KeyInv
        <3> QED BY <2>1, <3>2 DEF KeyInv, PhaseOfPc, Phases, NoKey
    <2>3. CASE ~(phase = "fast" /\ out_off >= out_len)
        <3>1. UNCHANGED <<tx_seq, sealed, reused, peer, garbled>>
            BY <1>9, <2>3, ZenonT(60) DEF Close
        <3> QED BY <2>1, <3>1 DEF KeyInv, PhaseOfPc, Phases, NoKey
    <2> QED BY <2>2, <2>3
<1>10. CASE Reconnect
    <2>1. phase = "closed" /\ phase' = "hello" /\ sealed' = {} /\ peer' = <<1, 0>>
          /\ UNCHANGED <<tx_key, tx_seq, reused, garbled, pc>>
        BY <1>10 DEF Reconnect
    <2> QED BY <2>1 DEF KeyInv, PhaseOfPc, Phases
<1>11. CASE UNCHANGED tlsVars
    <2>1. UNCHANGED <<txVars, phase, pc>>
        BY <1>11 DEF tlsVars, connVars
    <2> QED BY <2>1, KeysUntouched, ZenonT(60) DEF KeyInv, PhaseOfPc
<1> QED
    BY <1>1, <1>2, <1>3, <1>4, <1>5, <1>6, <1>7, <1>8, <1>9, <1>10, <1>11 DEF TlsNext, Worker

\* No nonce of a session is used twice, for the flight, its alerts, every key
\* update of either side and close_notify (seal of tls13_linux.c.v, seal and
\* sealed_alert of the handshake).
THEOREM NonceNeverReusedAlways == TlsSpec => []NonceNeverReused
<1>1. KeyInv => NonceNeverReused
    BY DEF KeyInv, NonceNeverReused
<1> QED BY <1>1, KeyInvInit, KeyInvStep, PTL DEF TlsSpec

\* The client, which counts records and key updates on its own, opens every
\* record sealed under the application keys (write13, rekey, close13).
THEOREM ClientOpensAllAlways == TlsSpec => []ClientOpensAll
<1>1. KeyInv => ClientOpensAll
    BY DEF KeyInv, ClientOpensAll
<1> QED BY <1>1, KeyInvInit, KeyInvStep, PTL DEF TlsSpec

\* An application key is replaced before it has sealed more than
\* tls13_rekey_at records (write13).
THEOREM KeyLimitAlways == TlsSpec => []KeyLimit
<1>1. KeyInv => KeyLimit
    BY DEF KeyInv, PhaseOfPc, Phases, NoKey, KeyLimit
<1> QED BY <1>1, KeyInvInit, KeyInvStep, PTL DEF TlsSpec

-----------------------------------------------------------------------------
(* The output buffer.                                                      *)

\* Counters count, records wait only while they are being sealed or the socket
\* is full, and a call of write13 starts with nothing in out.
OutInv ==
    /\ {room, hs_left, wbuf, sealing, out_len, out_off} \subseteq Nat
    /\ out_len <= OutCap /\ sealing <= wbuf
    /\ pc # "seal" => sealing = 0 /\ (out_len = 0 => out_off = 0) /\ (out_len > 0 => out_off < out_len)
    /\ pc = "seal" => out_off = 0 /\ wbuf > 0
    /\ (pc = "seal" /\ sealing = 0) => out_len = 0 \/ (out_len = KuSize /\ ~KeyUpdateDue)
    /\ phase = "closed" \/ (Handshaking /\ pc # "close") => out_len = 0

\* A KeyUpdate and a record fit an empty out.
LEMMA OutCapRoom == OutCap \in Nat /\ OutCap >= KuRoom + RecordCap /\ RecordCap = MaxPlain + 1
<1>1. OutRecords \in Nat \ {0} /\ MaxPlain \in Nat \ {0} /\ KuRoom \in Nat
    BY TlsAssumption DEF TlsAssumption
<1>2. \A a, b \in Nat : a > 0 => a * b \in Nat /\ a * b >= b
    BY SMT
<1> QED BY <1>1, <1>2 DEF OutCap, RecordCap

\* What a send leaves in out: nothing, or less than there was, from further on.
LEMMA PushOutLeaves ==
    ASSUME NEW n \in Nat, room \in Nat, out_off \in Nat, n = 0 => out_off = 0, n > 0 => out_off < n, PushOut(n)
    PROVE  /\ {room', out_len', out_off'} \subseteq Nat
           /\ out_len' \in {0, n}
           /\ out_len' = 0 => out_off' = 0
           /\ out_len' > 0 => out_off' < out_len'
BY DEF PushOut, AllFits

\* A step that leaves out and what is to be written alone.
LEMMA OutUntouched ==
    ASSUME OutInv, UNCHANGED <<room, hs_left, wbuf, sealing, outVars>>, pc # "seal", pc' # "seal",
           Handshaking' => Handshaking /\ pc # "close", phase' = "closed" => phase = "closed"
    PROVE  OutInv'
BY DEF OutInv, outVars

\* The invariant is inductive next to KeyInv.
LEMMA OutInvStep == KeyInv /\ OutInv /\ [TlsNext]_tlsVars => OutInv'
<1> SUFFICES ASSUME KeyInv, OutInv, [TlsNext]_tlsVars PROVE OutInv'
    OBVIOUS
<1>0. SndCap \in Nat /\ KuSize \in Nat \ {0} /\ KuSize <= KuRoom /\ MaxPlain \in Nat \ {0}
      /\ KuRoom \in Nat /\ RekeyAt \in Nat \ {0} /\ FlightSize \in Nat /\ Responses \subseteq Nat
    BY TlsAssumption DEF TlsAssumption
<1>a. PhaseOfPc
    BY DEF KeyInv
<1>b. room \in Nat /\ hs_left \in Nat /\ wbuf \in Nat /\ sealing \in Nat /\ out_len \in Nat /\ out_off \in Nat
      /\ out_len <= OutCap /\ sealing <= wbuf
    BY DEF OutInv
<1>c. pc # "seal" => sealing = 0 /\ (out_len = 0 => out_off = 0) /\ (out_len > 0 => out_off < out_len)
    BY DEF OutInv
<1>d. pc = "seal" => out_off = 0 /\ wbuf > 0
    BY DEF OutInv
<1>e. (pc = "seal" /\ sealing = 0) => out_len = 0 \/ (out_len = KuSize /\ ~KeyUpdateDue)
    BY DEF OutInv
<1>f. phase = "closed" \/ (Handshaking /\ pc # "close") => out_len = 0
    BY DEF OutInv
<1>1. CASE SealKeyUpdate
    <2>1. phase = "fast" /\ pc = "seal" /\ UNCHANGED <<phase, pc, room, hs_left, wbuf, sealing, out_off>>
        BY ONLY <1>1, <1>a DEF SealKeyUpdate, PhaseOfPc, connVars
    <2>2. out_len' = out_len + KuSize /\ Free >= RecordCap + KuRoom /\ KeyUpdateDue
        BY ONLY <1>1 DEF SealKeyUpdate, KeyUpdateFits
    <2>3. out_len' \in Nat /\ out_len' <= OutCap
        BY ONLY <1>0, <1>b, <2>2, OutCapRoom DEF Free
    <2>4. ~KeyUpdateDue'
        BY ONLY <1>0, <1>1 DEF SealKeyUpdate, Rekey, KeyUpdateDue
    <2>5. sealing = 0 => out_len' = KuSize
        BY ONLY <1>0, <1>e, <2>1, <2>2
    <2> QED BY ONLY <1>b, <1>d, <2>1, <2>3, <2>4, <2>5 DEF OutInv, Handshaking
<1>2. CASE SealContent
    <2>1. phase = "fast" /\ pc = "seal" /\ UNCHANGED <<phase, pc, room, hs_left, wbuf, out_off>>
        BY ONLY <1>2, <1>a DEF SealContent, PhaseOfPc
    <2>2. NextPlain \in Nat \ {0} /\ NextPlain <= wbuf - sealing
        BY ONLY <1>0, <1>2, <1>b DEF SealContent, NextPlain, Least
    <2>3. out_len' = out_len + NextPlain + 1 /\ sealing' = sealing + NextPlain /\ Free >= NextPlain + 1
        BY ONLY <1>2 DEF SealContent, RecordFits
    <2>4. out_len' \in Nat /\ out_len' <= OutCap /\ sealing' \in Nat \ {0} /\ sealing' <= wbuf
        BY ONLY <1>b, <2>2, <2>3, OutCapRoom DEF Free
    <2> QED BY ONLY <1>b, <1>d, <2>1, <2>4 DEF OutInv, Handshaking
<1>3. CASE SendSealed
    <2>1. phase = "fast" /\ UNCHANGED <<phase, hs_left>> /\ pc' = "flush" /\ pc = "seal"
          /\ wbuf' = wbuf - sealing /\ sealing' = 0 /\ PushOut(out_len)
        BY ONLY <1>3, <1>a DEF SendSealed, PhaseOfPc
    <2>2. /\ {room', out_len', out_off'} \subseteq Nat /\ out_len' \in {0, out_len}
          /\ (out_len' = 0 => out_off' = 0) /\ (out_len' > 0 => out_off' < out_len')
        BY ONLY <1>b, <1>d, <2>1, PushOutLeaves
    <2>3. wbuf' \in Nat /\ sealing' <= wbuf' /\ out_len' <= OutCap
        BY ONLY <1>b, <2>1, <2>2, OutCapRoom
    <2> QED BY ONLY <1>b, <2>1, <2>2, <2>3 DEF OutInv, Handshaking
<1>4. CASE FlushOut
    <2>1. pc = "flush" /\ phase = "fast" /\ UNCHANGED <<phase, hs_left, wbuf, sealing>> /\ pc' \in {"flush", "settle"}
          /\ PushOut(out_len)
        BY ONLY <1>4 DEF FlushOut, ArmOut
    <2>2. /\ {room', out_len', out_off'} \subseteq Nat /\ out_len' \in {0, out_len}
          /\ (out_len' = 0 => out_off' = 0) /\ (out_len' > 0 => out_off' < out_len')
        BY ONLY <1>b, <1>c, <2>1, PushOutLeaves
    <2>3. out_len' <= OutCap
        BY ONLY <1>b, <2>2, OutCapRoom
    <2> QED BY ONLY <1>b, <1>c, <2>1, <2>2, <2>3 DEF OutInv, Handshaking
<1>5. CASE FlushWrite
    <2>1. pc = "flush" /\ pc' = "seal" /\ phase = "fast" /\ wbuf > 0 /\ out_off >= out_len
          /\ UNCHANGED <<room, hs_left, wbuf, sealing, out_len, out_off, phase>>
        BY ONLY <1>5 DEF FlushWrite, outVars, connVars
    <2>2. out_len = 0
        BY ONLY <1>b, <1>c, <2>1
    <2> QED BY ONLY <1>b, <1>c, <2>1, <2>2 DEF OutInv, Handshaking
<1>6. CASE MbedWrite
    <2>1. pc = "flush" /\ pc' \in {"flush", "settle"} /\ phase = "mbed_open"
          /\ UNCHANGED <<hs_left, sealing, out_len, out_off, phase>>
        BY ONLY <1>6 DEF MbedWrite, ArmOut, outVars
    <2>2. {room', wbuf'} \subseteq Nat
        BY ONLY <1>0, <1>6, <1>b DEF MbedWrite, Least
    <2> QED BY ONLY <1>b, <1>c, <2>1, <2>2 DEF OutInv, Handshaking
<1>7. CASE FlightTurn
    <2>1. pc = "flight" /\ pc' \in {"finished", "settle"} /\ phase = "flight" /\ phase' \in {"flight", "finished"}
          /\ UNCHANGED <<wbuf, sealing, out_len, out_off>>
        BY ONLY <1>7, <1>a DEF FlightTurn, WantWrite, outVars, PhaseOfPc
    <2>2. {room', hs_left'} \subseteq Nat
        BY ONLY <1>7, <1>b DEF FlightTurn
    <2> QED BY ONLY <1>b, <1>c, <1>f, <2>1, <2>2 DEF OutInv, Handshaking
<1>8. CASE Close
    <2>1. out_len' = 0 /\ out_off' = 0 /\ wbuf' = 0 /\ hs_left' = 0 /\ room' = SndCap
          /\ sealing' = sealing /\ pc = "close" /\ pc' = "idle"
        BY ONLY <1>8 DEF Close
    <2> QED BY ONLY <1>0, <1>c, <2>1, OutCapRoom DEF OutInv
<1>9. CASE HelloTurn
    <2>1. pc = "hello" /\ phase = "hello" /\ UNCHANGED <<wbuf, sealing>>
        BY ONLY <1>9, <1>a DEF HelloTurn, PhaseOfPc
    <2>2. CASE Flight
        <3>1. out_len' = 0 /\ out_off' = 0 /\ hs_left' = FlightSize /\ pc' = "flight" /\ phase' = "flight"
              /\ UNCHANGED room
            BY ONLY <2>2 DEF Flight
        <3> QED BY ONLY <1>0, <1>b, <1>c, <2>1, <3>1, OutCapRoom DEF OutInv
    <2>3. CASE UNCHANGED <<room, hs_left, outVars>> /\ pc' \in {"hello", "mbed", "close", "settle"}
               /\ phase' \in {"hello", "mbed"}
        <3>1. Handshaking /\ pc # "close" /\ pc # "seal" /\ pc' # "seal" /\ phase' # "closed"
            BY ONLY <2>1, <2>3 DEF Handshaking
        <3> QED BY <2>1, <2>3, <3>1, OutUntouched
    <2> QED BY ONLY <1>9, <2>1, <2>2, <2>3 DEF HelloTurn, Defer, Failed, WantRead
<1>10. CASE FinishedTurn
    <2>1. pc = "finished" /\ phase = "finished" /\ UNCHANGED <<wbuf, sealing, hs_left>>
        BY ONLY <1>10, <1>a DEF FinishedTurn, PhaseOfPc
    <2>2. out_len = 0 /\ out_off = 0
        BY ONLY <1>c, <1>f, <2>1 DEF Handshaking
    <2>3. CASE SealedAlert
        <3>1. pc' = "close" /\ phase' = "finished"
            BY ONLY <2>1, <2>3 DEF SealedAlert
        <3>a. PushOut(out_len + KuSize)
            BY ONLY <2>2, <2>3 DEF SealedAlert
        <3>b. out_len + KuSize = KuSize
            BY ONLY <1>0, <2>2
        <3>2. PushOut(KuSize)
            BY ONLY <3>a, <3>b, Zenon
        <3>3. /\ {room', out_len', out_off'} \subseteq Nat /\ out_len' \in {0, KuSize}
              /\ (out_len' = 0 => out_off' = 0) /\ (out_len' > 0 => out_off' < out_len')
            BY ONLY <1>0, <1>b, <2>2, <3>2, PushOutLeaves
        <3>4. out_len' <= OutCap
            BY ONLY <1>0, <3>3, OutCapRoom
        <3> QED BY ONLY <1>b, <1>c, <2>1, <3>1, <3>3, <3>4 DEF OutInv, Handshaking
    <2>4. CASE UNCHANGED <<room, outVars>> /\ pc' \in {"finished", "read", "close", "settle"}
               /\ phase' \in {"finished", "fast"}
        <3>1. Handshaking /\ pc # "close" /\ pc # "seal" /\ pc' # "seal" /\ phase' # "closed"
            BY ONLY <2>1, <2>4 DEF Handshaking
        <3> QED BY <2>1, <2>4, <3>1, OutUntouched
    <2> QED BY ONLY <1>10, <2>1, <2>3, <2>4 DEF FinishedTurn, SwitchKeys, WantRead
<1>11. CASE MbedTurn
    <2>1. pc = "mbed" /\ phase = "mbed" /\ UNCHANGED <<room, wbuf, sealing, hs_left>>
        BY ONLY <1>11, <1>a DEF MbedTurn, PhaseOfPc
    <2>2. pc' \in {"mbed", "close", "settle", "read"} /\ phase' \in {"mbed", "fast", "mbed_open"}
          /\ (UNCHANGED outVars \/ (out_len' = 0 /\ out_off' = 0))
        BY ONLY <1>11, <2>1, ZenonT(60) DEF MbedTurn, BioRecv, WantRead, GoFast
    <2>3. out_len' = 0 /\ out_off' = 0
        BY ONLY <1>c, <1>f, <2>1, <2>2 DEF Handshaking, outVars
    <2> QED BY ONLY <1>b, <1>c, <2>1, <2>2, <2>3, OutCapRoom DEF OutInv, Handshaking
<1>12. CASE Timer \/ ReadContent \/ MbedRead
    <2>1. UNCHANGED <<room, hs_left, sealing, outVars, phase>> /\ phase \in {"fast", "mbed_open"}
          /\ pc \in {"idle", "read"} /\ pc' \in {"read", "flush", "close", "settle"}
        <3>1. CASE Timer
            BY ONLY <3>1 DEF Timer
        <3>2. CASE ReadContent
            BY ONLY <3>2 DEF ReadContent, HandOut
        <3>3. CASE MbedRead
            BY ONLY <3>3, ZenonT(60) DEF MbedRead, BioRecv, WantRead, HandOut
        <3> QED BY ONLY <1>12, <3>1, <3>2, <3>3
    <2>2. wbuf' \in Nat
        <3>1. \A w \in Responses : wbuf + w \in Nat
            BY ONLY <1>0, <1>b
        <3>2. ASSUME Respond PROVE wbuf' \in Nat
            BY ONLY <3>1, <3>2 DEF Respond
        <3>3. ASSUME UNCHANGED wbuf PROVE wbuf' \in Nat
            BY ONLY <1>b, <3>3
        <3> QED BY ONLY <1>12, <3>2, <3>3, ZenonT(60) DEF Timer, ReadContent, MbedRead, HandOut
    <2>3. pc # "seal" /\ pc' # "seal" /\ ~Handshaking' /\ phase' # "closed"
        BY ONLY <2>1 DEF Handshaking
    <2> QED BY ONLY <1>b, <1>c, <2>1, <2>2, <2>3 DEF OutInv, outVars
<1>13. CASE Event \/ Settle \/ Drop \/ FlushEnd \/ OpenNext \/ ReadMore
    <2>1. UNCHANGED <<room, hs_left, wbuf, sealing, outVars, phase>> /\ pc # "seal" /\ pc' # "seal"
          /\ (Handshaking => pc \in {"idle", "settle"})
        BY ONLY <1>13, <1>a, ZenonT(60) DEF Event, Settle, Drop, FlushEnd, OpenNext, ReadMore, connVars, Handshaking, Phases, PhaseOfPc
    <2>2. (Handshaking' => Handshaking /\ pc # "close") /\ (phase' = "closed" => phase = "closed")
        BY ONLY <2>1 DEF Handshaking
    <2>3. UNCHANGED <<room, hs_left, wbuf, sealing, outVars>> /\ pc # "seal" /\ pc' # "seal"
        BY ONLY <2>1
    <2>4. OutInv
        OBVIOUS
    <2> QED BY ONLY <2>2, <2>3, <2>4, OutUntouched
<1>14. CASE Client \/ Arrive \/ ClientReads
    <2>1. UNCHANGED <<hs_left, wbuf, sealing, outVars, phase, pc, ku_owed, tx_seq>> /\ room' \in Nat
        <3>1. CASE Client
            BY ONLY <1>b, <3>1, ZenonT(60) DEF Client, SendHello, SendClear, SendFinished, SendApp, ClientShutdown, ClientSends,
                                   connVars, rxVars, txVars
        <3>2. CASE Arrive
            BY ONLY <1>b, <3>2 DEF Arrive, connVars, rxVars, txVars
        <3>3. CASE ClientReads
            BY ONLY <1>0, <1>b, <3>3 DEF ClientReads, connVars, rxVars, txVars
        <3> QED BY ONLY <1>14, <3>1, <3>2, <3>3
    <2>2. UNCHANGED <<Handshaking, KeyUpdateDue, out_len, out_off>>
        BY ONLY <2>1 DEF Handshaking, KeyUpdateDue, outVars
    <2> QED BY ONLY <1>b, <1>c, <1>d, <1>e, <1>f, <2>1, <2>2 DEF OutInv
<1>15. CASE Reconnect
    <2>1. phase = "closed" /\ phase' = "hello"
          /\ UNCHANGED <<room, hs_left, wbuf, sealing, out_len, out_off, pc, ku_owed, tx_seq>>
        BY ONLY <1>15 DEF Reconnect, outVars, rxVars
    <2> QED BY ONLY <1>b, <1>c, <1>d, <1>e, <1>f, <2>1 DEF OutInv, Handshaking, KeyUpdateDue
<1>16. CASE UNCHANGED tlsVars
    <2>1. UNCHANGED <<room, hs_left, wbuf, sealing, out_len, out_off, phase, pc, ku_owed, tx_seq>>
        BY ONLY <1>16 DEF tlsVars, connVars, outVars, rxVars, txVars
    <2> QED BY ONLY <1>b, <1>c, <1>d, <1>e, <1>f, <2>1 DEF OutInv, Handshaking, KeyUpdateDue
<1> QED
    BY <1>1, <1>2, <1>3, <1>4, <1>5, <1>6, <1>7, <1>8, <1>9, <1>10, <1>11, <1>12, <1>13, <1>14, <1>15, <1>16
    DEF TlsNext, Worker

\* Whatever is sealed fits out, and write13 takes some of a response on every
\* call, so that flush does not spin: a KeyUpdate never fills out on its own.
THEOREM OutFitsAlways == TlsSpec => []OutFits
<1>1. TlsInit => OutInv
    BY TlsAssumption, OutCapRoom DEF TlsAssumption, TlsInit, OutInv
<1>2. OutInv => OutFits
    <2> SUFFICES ASSUME OutInv PROVE OutFits
        OBVIOUS
    <2>1. ASSUME pc = "seal", sealing = 0 PROVE ~SealEnds
        <3>1. NextPlain \in Nat /\ NextPlain <= MaxPlain /\ MaxPlain \in Nat /\ KuSize \in Nat /\ KuSize <= KuRoom
              /\ KuRoom \in Nat
            BY <2>1, TlsAssumption DEF TlsAssumption, OutInv, NextPlain, Least
        <3> QED BY <2>1, <3>1, OutCapRoom DEF OutInv, SealEnds, KeyUpdateFits, RecordFits, Free
    <2> QED BY <2>1 DEF OutInv, OutFits
<1> QED BY <1>1, <1>2, KeyInvInit, KeyInvStep, OutInvStep, PTL DEF TlsSpec

\* A KeyUpdate the peer has asked for goes out before any more content.
THEOREM KeyUpdateFirstAlways == TlsSpec => KeyUpdateFirst
<1>1. TlsInit => OutInv
    BY TlsAssumption, OutCapRoom DEF TlsAssumption, TlsInit, OutInv
<1>2. ASSUME OutInv, ku_owed, phase = "fast", TlsNext PROVE sealing' <= sealing
    <2>1. sealing \in Nat
        BY <1>2 DEF OutInv
    <2>2. ~SealContent
        BY <1>2 DEF SealContent, KeyUpdateDue
    <2>3. CASE SendSealed
        BY <2>1, <2>3 DEF SendSealed
    <2>4. CASE UNCHANGED sealing
        BY <2>1, <2>4
    <2> QED
        BY <1>2, <2>2, <2>3, <2>4, ZenonT(60)
        DEF TlsNext, Client, Worker, SendHello, SendClear, SendFinished, SendApp, ClientShutdown, ClientSends,
            ClientReads, Arrive, Drop, Timer, Reconnect, Event, Settle, HelloTurn, FlightTurn, FinishedTurn,
            MbedTurn, ReadContent, OpenNext, ReadMore, MbedRead, FlushOut, FlushWrite, SealKeyUpdate, MbedWrite,
            FlushEnd, Close, connVars
<1>3. OutInv /\ [TlsNext]_tlsVars => [(ku_owed /\ phase = "fast") => sealing' <= sealing]_tlsVars
    BY <1>2
<1> QED BY <1>1, <1>3, KeyInvInit, KeyInvStep, OutInvStep, PTL DEF TlsSpec, KeyUpdateFirst

-----------------------------------------------------------------------------
(* Sequences: facts the provers know, by name.                             *)

\* What a sequence holds, and where.
LEMMA ElementOfSeq == ASSUME NEW S, NEW s \in Seq(S), NEW n \in 1 .. Len(s) PROVE s[n] \in S
OBVIOUS

\* Its length.
LEMMA LenProperties == ASSUME NEW S, NEW s \in Seq(S) PROVE Len(s) \in Nat
OBVIOUS

\* A sequence is its elements.
LEMMA SeqEqual ==
    ASSUME NEW S, NEW s \in Seq(S), NEW t \in Seq(S),
           Len(s) = Len(t), \A i \in 1 .. Len(s) : s[i] = t[i]
    PROVE  s = t
OBVIOUS

\* One sequence after another.
LEMMA ConcatProperties ==
    ASSUME NEW S, NEW s \in Seq(S), NEW t \in Seq(S)
    PROVE  /\ s \o t \in Seq(S) /\ Len(s \o t) = Len(s) + Len(t)
           /\ \A i \in 1 .. Len(s) + Len(t) : (s \o t)[i] = IF i <= Len(s) THEN s[i] ELSE t[i - Len(s)]
OBVIOUS

\* Nothing before or after a sequence.
LEMMA ConcatEmptySeq == ASSUME NEW S, NEW s \in Seq(S) PROVE s \o <<>> = s /\ <<>> \o s = s
OBVIOUS

\* A part of a sequence.
LEMMA SubSeqProperties ==
    ASSUME NEW S, NEW s, NEW m \in Int, NEW n \in Int, \A i \in m .. n : s[i] \in S
    PROVE  /\ SubSeq(s, m, n) \in Seq(S)
           /\ Len(SubSeq(s, m, n)) = IF m <= n THEN n - m + 1 ELSE 0
           /\ \A i \in 1 .. n - m + 1 : SubSeq(s, m, n)[i] = s[m + i - 1]
OBVIOUS

\* No part of it.
LEMMA SubSeqEmpty == ASSUME NEW s, NEW m \in Int, NEW n \in Int, n < m PROVE SubSeq(s, m, n) = <<>>
OBVIOUS

\* All of it.
LEMMA SubSeqFull == ASSUME NEW S, NEW s \in Seq(S) PROVE SubSeq(s, 1, Len(s)) = s
OBVIOUS

-----------------------------------------------------------------------------
(* What the worker reads.                                                  *)

\* What is left of a buffer from an offset on.
Rest(s, o) == SubSeq(s, o + 1, Len(s))

\* Its units, and what is left of it in turn.
LEMMA RestIs ==
    ASSUME NEW S, NEW s \in Seq(S), NEW o \in 0 .. Len(s)
    PROVE  /\ Rest(s, o) \in Seq(S) /\ Len(Rest(s, o)) = Len(s) - o
           /\ \A i \in 1 .. Len(s) - o : Rest(s, o)[i] = s[o + i]
           /\ Rest(s, 0) = s /\ Rest(s, Len(s)) = <<>>
<1> DEFINE r == SubSeq(s, o + 1, Len(s))
<1>1. Len(s) \in Nat /\ o \in Nat /\ o <= Len(s) /\ \A i \in o + 1 .. Len(s) : s[i] \in S
  OBVIOUS
<1>2. r \in Seq(S) /\ Len(r) = (IF o + 1 <= Len(s) THEN Len(s) - (o + 1) + 1 ELSE 0)
      /\ \A i \in 1 .. Len(s) - (o + 1) + 1 : r[i] = s[o + 1 + i - 1]
  BY <1>1, SubSeqProperties
<1> HIDE DEF r
<1>3. Len(r) = Len(s) - o
  BY ONLY <1>1, <1>2
<1>4. ASSUME NEW i \in 1 .. Len(s) - o PROVE r[i] = s[o + i]
  <2>1. i \in 1 .. Len(s) - (o + 1) + 1 /\ o + 1 + i - 1 = o + i
    BY ONLY <1>1, <1>4
  <2> QED BY <2>1, <1>2
<1>5. SubSeq(s, 1, Len(s)) = s /\ SubSeq(s, Len(s) + 1, Len(s)) = <<>>
  <2>1. Len(s) < Len(s) + 1 /\ Len(s) + 1 \in Int /\ Len(s) \in Int
    BY ONLY <1>1
  <2> QED BY <2>1, SubSeqFull, SubSeqEmpty, Zenon
<1>6. 0 + 1 = 1
  OBVIOUS
<1> QED BY <1>2, <1>3, <1>4, <1>5, <1>6, Zenon DEF r, Rest

\* A buffer is its front and the rest.
LEMMA FrontAndRest ==
    ASSUME NEW S, NEW s \in Seq(S), NEW m \in 0 .. Len(s)
    PROVE  /\ SubSeq(s, 1, m) \in Seq(S) /\ Len(SubSeq(s, 1, m)) = m
           /\ \A i \in 1 .. m : SubSeq(s, 1, m)[i] = s[i]
           /\ SubSeq(s, 1, m) \o Rest(s, m) = s
<1> DEFINE f == SubSeq(s, 1, m)
<1>1. Len(s) \in Nat /\ m \in Nat /\ m <= Len(s) /\ \A i \in 1 .. m : s[i] \in S
  OBVIOUS
<1>2. f \in Seq(S) /\ Len(f) = (IF 1 <= m THEN m - 1 + 1 ELSE 0)
      /\ \A i \in 1 .. m - 1 + 1 : f[i] = s[1 + i - 1]
  BY <1>1, SubSeqProperties
<1> HIDE DEF f
<1>3. Len(f) = m
  BY ONLY <1>1, <1>2
<1>4. \A i \in 1 .. m : f[i] = s[i]
  <2>1. \A i \in 1 .. m : i \in 1 .. m - 1 + 1 /\ 1 + i - 1 = i
    BY ONLY <1>1
  <2> QED BY ONLY <2>1, <1>2, Zenon
<1>5. /\ Rest(s, m) \in Seq(S) /\ Len(Rest(s, m)) = Len(s) - m
      /\ \A i \in 1 .. Len(s) - m : Rest(s, m)[i] = s[m + i]
  BY ONLY s \in Seq(S), m \in 0 .. Len(s), RestIs
<1>6. /\ f \o Rest(s, m) \in Seq(S) /\ Len(f \o Rest(s, m)) = Len(f) + Len(Rest(s, m))
      /\ \A i \in 1 .. Len(f) + Len(Rest(s, m)) :
             (f \o Rest(s, m))[i] = IF i <= Len(f) THEN f[i] ELSE Rest(s, m)[i - Len(f)]
  BY ONLY <1>2, <1>5, ConcatProperties, Zenon
<1>7. Len(f \o Rest(s, m)) = Len(s)
  BY ONLY <1>1, <1>3, <1>5, <1>6
<1>8. ASSUME NEW i \in 1 .. Len(s) PROVE (f \o Rest(s, m))[i] = s[i]
  <2>1. CASE i <= m
    BY ONLY <1>1, <1>3, <1>4, <1>5, <1>6, <1>8, <2>1
  <2>2. CASE ~(i <= m)
    <3>1. i - m \in 1 .. Len(s) - m /\ m + (i - m) = i /\ i \in 1 .. Len(f) + Len(Rest(s, m))
      BY ONLY <1>1, <1>3, <1>5, <1>8, <2>2
    <3> QED BY ONLY <1>3, <1>5, <1>6, <2>2, <3>1, Zenon
  <2> QED BY ONLY <2>1, <2>2, Zenon
<1>9. f \o Rest(s, m) = s
  BY ONLY <1>6, <1>7, <1>8, s \in Seq(S), SeqEqual, Zenon
<1> QED BY <1>2, <1>3, <1>4, <1>9 DEF f

\* Concatenation is associative, in the form the next lemmas use.
IsAssociative(S) == \A x, y, z \in Seq(S) : (x \o y) \o z = x \o (y \o z)

\* Concatenation is, whatever the elements are.
LEMMA Associative == \A S : IsAssociative(S)
BY DEF IsAssociative

\* recv moves units from the front of one buffer to the end of another, and
\* changes nothing in their order.
MoveKeeps(a, b, d, m) == (a \o SubSeq(b, 1, m)) \o (Rest(b, m) \o d) = a \o (b \o d)

\* It does, however many elements move.
LEMMA Moved ==
    ASSUME NEW S, NEW a \in Seq(S), NEW b \in Seq(S), NEW d \in Seq(S), NEW m \in 0 .. Len(b)
    PROVE  MoveKeeps(a, b, d, m)
<1> DEFINE f == SubSeq(b, 1, m)
           r == Rest(b, m)
<1>1. f \in Seq(S)
  BY FrontAndRest
<1>b. f \o r = b
  BY FrontAndRest
<1>2. r \in Seq(S)
  BY RestIs
<1> HIDE DEF f, r
<1>3. r \o d \in Seq(S) /\ b \o d \in Seq(S)
  BY ONLY <1>2, b \in Seq(S), d \in Seq(S), ConcatProperties, Zenon
<1>s. IsAssociative(S)
  BY ONLY Associative, Zenon
<1> DEFINE e == r \o d
<1>e. e \in Seq(S)
  BY ONLY <1>3
<1> HIDE DEF e
<1>4. (a \o f) \o e = a \o (f \o e)
  BY ONLY <1>1, <1>e, a \in Seq(S), <1>s, ZenonT(60) DEF IsAssociative
<1>5. (f \o r) \o d = f \o (r \o d)
  BY ONLY <1>1, <1>2, d \in Seq(S), <1>s, ZenonT(60) DEF IsAssociative
<1> QED BY ONLY <1>b, <1>4, <1>5, Zenon DEF e, f, r, MoveKeeps

\* Taking from what is left moves the offset.
LEMMA RestOfRest ==
    ASSUME NEW S, NEW s \in Seq(S), NEW o \in 0 .. Len(s), NEW k \in 0 .. Len(s) - o
    PROVE  /\ o + k \in 0 .. Len(s)
           /\ Rest(Rest(s, o), k) = Rest(s, o + k)
           /\ SubSeq(Rest(s, o), 1, k) = SubSeq(s, o + 1, o + k)
<1>0. Len(s) \in Nat /\ o \in Nat /\ k \in Nat /\ o <= Len(s) /\ k <= Len(s) - o
  OBVIOUS
<1>1. o + k \in 0 .. Len(s)
  BY ONLY <1>0
<1> DEFINE r == Rest(s, o)
<1>2. /\ r \in Seq(S) /\ Len(r) = Len(s) - o
      /\ \A i \in 1 .. Len(s) - o : r[i] = s[o + i]
  BY RestIs
<1>3. /\ Rest(s, o + k) \in Seq(S) /\ Len(Rest(s, o + k)) = Len(s) - (o + k)
      /\ \A i \in 1 .. Len(s) - (o + k) : Rest(s, o + k)[i] = s[o + k + i]
  BY ONLY <1>1, s \in Seq(S), RestIs
<1> HIDE DEF r
<1>4. k \in 0 .. Len(r)
  <2>1. Len(r) = Len(s) - o
    BY ONLY <1>2, Zenon
  <2> QED BY ONLY <1>0, <2>1
<1>5. /\ Rest(r, k) \in Seq(S) /\ Len(Rest(r, k)) = Len(r) - k
      /\ \A i \in 1 .. Len(r) - k : Rest(r, k)[i] = r[k + i]
  BY ONLY <1>2, <1>4, RestIs, ZenonT(60)
<1>6. Rest(r, k) = Rest(s, o + k)
  <2>0. Len(Rest(r, k)) = Len(r) - k /\ Len(r) = Len(s) - o /\ Len(Rest(s, o + k)) = Len(s) - (o + k)
    BY ONLY <1>2, <1>3, <1>5, Zenon
  <2>1. Len(Rest(r, k)) = Len(Rest(s, o + k))
    BY ONLY <1>0, <2>0
  <2>2. ASSUME NEW i \in 1 .. Len(Rest(r, k)) PROVE Rest(r, k)[i] = Rest(s, o + k)[i]
    <3>1. /\ i \in 1 .. Len(r) - k /\ k + i \in 1 .. Len(s) - o /\ i \in 1 .. Len(s) - (o + k)
          /\ o + (k + i) = o + k + i
      BY ONLY <1>0, <2>0, <2>2
    <3> QED BY ONLY <1>2, <1>3, <1>5, <3>1, Zenon
  <2> QED BY ONLY <1>3, <1>5, <2>1, <2>2, SeqEqual, Zenon
<1>7. SubSeq(r, 1, k) = SubSeq(s, o + 1, o + k)
  <2> DEFINE f == SubSeq(r, 1, k)
             g == SubSeq(s, o + 1, o + k)
  <2>1. f \in Seq(S) /\ Len(f) = k /\ \A i \in 1 .. k : f[i] = r[i]
    BY ONLY <1>2, <1>4, FrontAndRest
  <2>2. o + 1 \in Int /\ o + k \in Int /\ \A i \in o + 1 .. o + k : s[i] \in S
    <3>1. o + 1 \in Int /\ o + k \in Int /\ \A i \in o + 1 .. o + k : i \in 1 .. Len(s)
      BY ONLY <1>0
    <3> QED BY ONLY <3>1, s \in Seq(S), ElementOfSeq, Zenon
  <2>3. g \in Seq(S) /\ Len(g) = (IF o + 1 <= o + k THEN o + k - (o + 1) + 1 ELSE 0)
        /\ \A i \in 1 .. o + k - (o + 1) + 1 : g[i] = s[o + 1 + i - 1]
    BY ONLY <2>2, SubSeqProperties
  <2> HIDE DEF f, g
  <2>4. Len(f) = Len(g)
    BY ONLY <1>0, <2>1, <2>3
  <2>5. ASSUME NEW i \in 1 .. Len(f) PROVE f[i] = g[i]
    <3>1. /\ i \in 1 .. k /\ i \in 1 .. o + k - (o + 1) + 1 /\ i \in 1 .. Len(s) - o
          /\ o + 1 + i - 1 = o + i
      BY ONLY <1>0, <2>1, <2>5
    <3> QED BY ONLY <1>2, <2>1, <2>3, <3>1, Zenon
  <2>6. f = g
    BY ONLY <2>1, <2>3, <2>4, <2>5, SeqEqual, Zenon
  <2> QED BY ONLY <2>6, Zenon DEF f, g
<1> QED BY <1>1, <1>6, <1>7 DEF r

\* Taking from the first of two buffers leaves the second behind the rest.
LEMMA RestOfConcat ==
    ASSUME NEW S, NEW a \in Seq(S), NEW b \in Seq(S), NEW n \in 0 .. Len(a)
    PROVE  /\ n \in 0 .. Len(a \o b)
           /\ Rest(a \o b, n) = Rest(a, n) \o b
<1>0. Len(a) \in Nat /\ Len(b) \in Nat /\ n \in Nat /\ n <= Len(a)
  OBVIOUS
<1> DEFINE f == SubSeq(a, 1, n)
           r == Rest(a, n)
           t == r \o b
<1>1. f \in Seq(S) /\ Len(f) = n
  BY FrontAndRest
<1>b. f \o r = a
  BY FrontAndRest
<1>2. r \in Seq(S)
  BY RestIs
<1> HIDE DEF f, r
<1>s. IsAssociative(S)
  BY ONLY Associative, Zenon
<1>a. (f \o r) \o b = f \o (r \o b)
  BY ONLY <1>1, <1>2, b \in Seq(S), <1>s, ZenonT(60) DEF IsAssociative
<1>4. f \in Seq(S) /\ Len(f) = n /\ t \in Seq(S)
  BY ONLY <1>1, <1>2, b \in Seq(S), ConcatProperties, Zenon
<1>3. a \o b = f \o t
  BY ONLY <1>a, <1>b, Zenon
<1> HIDE DEF t
<1>5. /\ f \o t \in Seq(S) /\ Len(f \o t) = Len(f) + Len(t) /\ Len(t) \in Nat
      /\ \A i \in 1 .. Len(f) + Len(t) : (f \o t)[i] = IF i <= Len(f) THEN f[i] ELSE t[i - Len(f)]
  BY ONLY <1>4, ConcatProperties, LenProperties, Zenon
<1>6. n \in 0 .. Len(f \o t)
  BY ONLY <1>0, <1>4, <1>5
<1>7. /\ Rest(f \o t, n) \in Seq(S) /\ Len(Rest(f \o t, n)) = Len(f \o t) - n
      /\ \A i \in 1 .. Len(f \o t) - n : Rest(f \o t, n)[i] = (f \o t)[n + i]
  BY ONLY <1>5, <1>6, RestIs, ZenonT(60)
<1>8. Len(Rest(f \o t, n)) = Len(t)
  BY ONLY <1>0, <1>4, <1>5, <1>7
<1>9. ASSUME NEW i \in 1 .. Len(Rest(f \o t, n)) PROVE Rest(f \o t, n)[i] = t[i]
  <2>1. /\ i \in 1 .. Len(f \o t) - n /\ n + i \in 1 .. Len(f) + Len(t) /\ ~(n + i <= Len(f))
        /\ n + i - Len(f) = i
    BY ONLY <1>0, <1>4, <1>5, <1>7, <1>9
  <2>2. Rest(f \o t, n)[i] = (f \o t)[n + i]
    BY ONLY <1>7, <2>1, Zenon
  <2> DEFINE k == n + i
  <2> HIDE DEF k
  <2>3. (f \o t)[k] = t[k - Len(f)]
    <3>1. k \in 1 .. Len(f) + Len(t) /\ ~(k <= Len(f))
      BY ONLY <2>1, Zenon DEF k
    <3> QED BY ONLY <1>5, <3>1, Zenon
  <2>4. k - Len(f) = i /\ Rest(f \o t, n)[i] = (f \o t)[k]
    BY ONLY <2>1, <2>2 DEF k
  <2> QED BY ONLY <2>3, <2>4, Zenon
<1>10. Rest(f \o t, n) = t
  BY ONLY <1>4, <1>7, <1>8, <1>9, SeqEqual, Zenon
<1> QED BY ONLY <1>3, <1>6, <1>10, Zenon DEF r, t

\* The client's records, and their units.
Kinds == {"own", "other", "odd", "refused", "zero_share", "ccs", "alert", "finished", "bad",
          "app", "ku_req", "ku", "close"}
Recs == [kind : Kinds, size : Nat \ {0, 1}, key : Nat, seq : Nat, at : Nat]
Units == Recs \X (Nat \ {0})

\* How much content there has been up to the end of a record.
After(r) == IF r.kind = "app" THEN r.at + r.size - 1 ELSE r.at

\* The unit at i is the header of a record that is all there, and the next one,
\* or the end of the input, follows it with the content that is due.
RecordFrom(s, i, to) ==
    LET r == s[i][1]
    IN  /\ i + r.size - 1 <= Len(s)
        /\ \A j \in 1 .. r.size : s[i + j - 1] = <<r, j>>
        /\ i + r.size - 1 = Len(s) => to = After(r)
        /\ i + r.size - 1 < Len(s) => s[i + r.size][2] = 1 /\ s[i + r.size][1].at = After(r)

\* s is a row of whole records, with the content from one count to another.
Whole(s, from, to) ==
    /\ Len(s) = 0 => from = to
    /\ Len(s) > 0 => s[1][2] = 1 /\ s[1][1].at = from
    /\ \A i \in 1 .. Len(s) : s[i][2] = 1 => RecordFrom(s, i, to)

\* The first record of a row is whole, and without it the rest is a row.
LEMMA WholeDrop ==
    ASSUME NEW s \in Seq(Units), NEW from \in Nat, NEW to \in Nat, Whole(s, from, to), Len(s) > 0
    PROVE  LET r == s[1][1]
           IN  /\ r \in Recs /\ r.at = from /\ s[1] = <<r, 1>>
               /\ r.size \in Nat \ {0, 1} /\ r.size <= Len(s)
               /\ \A j \in 1 .. r.size : s[j] = <<r, j>>
               /\ Whole(Rest(s, r.size), After(r), to)
<1> DEFINE r == s[1][1]
           t == Rest(s, r.size)
<1>0. Len(s) \in Nat /\ 1 \in 1 .. Len(s)
  OBVIOUS
<1>1. s[1] \in Units
  BY ONLY <1>0, s \in Seq(Units), ElementOfSeq
<1>2. r \in Recs
  BY ONLY <1>1, Zenon DEF Units
<1>3. r.size \in Nat \ {0, 1}
  BY ONLY <1>2, ZenonT(60) DEF Recs
<1>4. s[1][2] = 1 /\ r.at = from /\ RecordFrom(s, 1, to)
  BY ONLY <1>0, Whole(s, from, to), Len(s) > 0, Zenon DEF Whole
<1>5. /\ 1 + r.size - 1 <= Len(s)
      /\ \A j \in 1 .. r.size : s[1 + j - 1] = <<r, j>>
      /\ 1 + r.size - 1 = Len(s) => to = After(r)
      /\ 1 + r.size - 1 < Len(s) => s[1 + r.size][2] = 1 /\ s[1 + r.size][1].at = After(r)
  BY ONLY <1>4, Zenon DEF RecordFrom
<1> DEFINE n == r.size
           a == After(r)
<1> HIDE DEF r
<1>6. n \in Nat /\ n >= 2 /\ n <= Len(s) /\ n \in 0 .. Len(s)
  BY ONLY <1>0, <1>3, <1>5
<1>7. \A j \in 1 .. n : s[j] = <<r, j>>
  <2>1. \A j \in 1 .. n : 1 + j - 1 = j
    BY ONLY <1>6
  <2> QED BY ONLY <1>5, <2>1, Zenon
<1>8. (n = Len(s) => to = a) /\ (n < Len(s) => s[n + 1][2] = 1 /\ s[n + 1][1].at = a)
  <2>1. 1 + n - 1 = n /\ 1 + n = n + 1
    BY ONLY <1>6
  <2> QED BY ONLY <1>5, <2>1, Zenon
<1>9. t \in Seq(Units) /\ Len(t) = Len(s) - n /\ \A i \in 1 .. Len(s) - n : t[i] = s[n + i]
  BY ONLY <1>6, s \in Seq(Units), RestIs, Zenon
<1> HIDE DEF n, t, a
<1>10. Len(t) = 0 => a = to
  BY ONLY <1>0, <1>6, <1>8, <1>9
<1>11. Len(t) > 0 => t[1][2] = 1 /\ t[1][1].at = a
  <2> SUFFICES ASSUME Len(t) > 0 PROVE t[1][2] = 1 /\ t[1][1].at = a
    OBVIOUS
  <2>1. 1 \in 1 .. Len(s) - n /\ n < Len(s)
    BY ONLY <1>0, <1>6, <1>9, Len(t) > 0
  <2> QED BY ONLY <1>8, <1>9, <2>1, Zenon
<1>12. ASSUME NEW i \in 1 .. Len(t), t[i][2] = 1 PROVE RecordFrom(t, i, to)
  <2> DEFINE q == t[i][1]
  <2>1. i \in 1 .. Len(s) - n /\ n + i \in 1 .. Len(s) /\ i \in Nat
    BY ONLY <1>0, <1>6, <1>9, <1>12
  <2>2. t[i] = s[n + i]
    BY ONLY <1>9, <2>1, Zenon
  <2>3. RecordFrom(s, n + i, to)
    BY ONLY <1>12, <2>1, <2>2, Whole(s, from, to), Zenon DEF Whole
  <2>4. q \in Recs
    <3>1. s[n + i] \in Units
      BY ONLY <2>1, s \in Seq(Units), ElementOfSeq
    <3> QED BY ONLY <2>2, <3>1, Zenon DEF Units
  <2>5. q.size \in Nat \ {0, 1}
    BY ONLY <2>4, ZenonT(60) DEF Recs
  <2>6. /\ n + i + q.size - 1 <= Len(s)
        /\ \A j \in 1 .. q.size : s[n + i + j - 1] = <<q, j>>
        /\ n + i + q.size - 1 = Len(s) => to = After(q)
        /\ n + i + q.size - 1 < Len(s) =>
               s[n + i + q.size][2] = 1 /\ s[n + i + q.size][1].at = After(q)
    BY ONLY <2>2, <2>3, Zenon DEF RecordFrom
  <2> DEFINE z == q.size
             b == After(q)
  <2> HIDE DEF q, z, b
  <2>7. z \in Nat /\ z >= 2
    BY ONLY <2>5 DEF z
  <2>8. i + z - 1 <= Len(t) /\ (i + z - 1 = Len(t) => to = b)
    <3>1. n + i + z - 1 <= Len(s) /\ (n + i + z - 1 = Len(s) => to = b)
      BY ONLY <2>6, Zenon DEF z, b
    <3> QED BY ONLY <1>0, <1>6, <1>9, <2>1, <2>7, <3>1
  <2>9. ASSUME NEW j \in 1 .. z PROVE t[i + j - 1] = <<q, j>>
    <3>1. i + j - 1 \in 1 .. Len(s) - n /\ n + (i + j - 1) = n + i + j - 1
      BY ONLY <1>0, <1>6, <1>9, <2>1, <2>7, <2>8, <2>9
    <3>2. t[i + j - 1] = s[n + (i + j - 1)]
      BY ONLY <1>9, <3>1, Zenon
    <3>3. s[n + i + j - 1] = <<q, j>>
      BY ONLY <2>6, <2>9, Zenon DEF z
    <3> QED BY ONLY <3>1, <3>2, <3>3, Zenon
  <2>10. ASSUME i + z - 1 < Len(t) PROVE t[i + z][2] = 1 /\ t[i + z][1].at = b
    <3>1. i + z \in 1 .. Len(s) - n /\ n + (i + z) = n + i + z /\ n + i + z - 1 < Len(s)
      BY ONLY <1>0, <1>6, <1>9, <2>1, <2>7, <2>10
    <3>2. t[i + z] = s[n + (i + z)]
      BY ONLY <1>9, <3>1, Zenon
    <3>3. s[n + i + z][2] = 1 /\ s[n + i + z][1].at = b
      BY ONLY <2>6, <3>1, Zenon DEF z, b
    <3> QED BY ONLY <3>1, <3>2, <3>3, Zenon
  <2> QED BY ONLY <2>8, <2>9, <2>10, Zenon DEF RecordFrom, q, z, b
<1>13. Whole(t, a, to)
  BY ONLY <1>10, <1>11, <1>12, Zenon DEF Whole
<1>14. s[1] = <<r, 1>>
  <2>1. 1 \in 1 .. n
    BY ONLY <1>6
  <2> QED BY ONLY <1>7, <2>1, Zenon
<1> QED BY ONLY <1>2, <1>3, <1>4, <1>6, <1>7, <1>13, <1>14, Zenon DEF r, n, t, a

\* The units of a record.
UnitsOf(r) == [j \in 1 .. r.size |-> <<r, j>>]

\* A record more at the end of a row.
LEMMA WholeAdd ==
    ASSUME NEW s \in Seq(Units), NEW from \in Nat, NEW r \in Recs, Whole(s, from, r.at)
    PROVE  UnitsOf(r) \in Seq(Units) /\ Whole(s \o UnitsOf(r), from, After(r))
<1> DEFINE z == r.size
           a == r.at
           u == UnitsOf(r)
           t == s \o u
           b == After(r)
<1>0. Len(s) \in Nat
  OBVIOUS
<1>1. z \in Nat \ {0, 1} /\ a \in Nat
  BY ONLY r \in Recs, ZenonT(60) DEF Recs
<1>h. Whole(s, from, a)
  OBVIOUS
<1>u. u = [j \in 1 .. z |-> <<r, j>>] /\ <<r, 1>>[1] = r /\ <<r, 1>>[2] = 1
  BY ONLY Zenon DEF UnitsOf
<1> HIDE DEF z, a, u, b
<1>2. z \in Nat /\ z >= 2
  BY ONLY <1>1
<1>3. ASSUME NEW j \in 1 .. z PROVE <<r, j>> \in Units
  <2>1. j \in Nat \ {0}
    BY ONLY <1>2, <1>3
  <2> QED BY ONLY <2>1, r \in Recs, Zenon DEF Units
<1>4. u \in Seq(Units) /\ Len(u) = z /\ \A j \in 1 .. z : u[j] = <<r, j>>
  BY ONLY <1>2, <1>3, <1>u
<1>5. /\ t \in Seq(Units) /\ Len(t) = Len(s) + z
      /\ \A i \in 1 .. Len(s) + z : t[i] = IF i <= Len(s) THEN s[i] ELSE u[i - Len(s)]
  BY ONLY <1>4, s \in Seq(Units), ConcatProperties, Zenon
<1> HIDE DEF t
<1>6. \A i \in 1 .. Len(s) : t[i] = s[i]
  BY ONLY <1>0, <1>2, <1>5
<1>7. \A j \in 1 .. z : t[Len(s) + j] = <<r, j>>
  <2> TAKE j \in 1 .. z
  <2>1. Len(s) + j \in 1 .. Len(s) + z /\ ~(Len(s) + j <= Len(s)) /\ Len(s) + j - Len(s) = j
    BY ONLY <1>0, <1>2, j \in 1 .. z
  <2>2. t[Len(s) + j] = u[Len(s) + j - Len(s)]
    BY ONLY <1>5, <2>1
  <2> QED BY ONLY <1>4, <2>1, <2>2, Zenon
<1>8. Len(t) > 0
  BY ONLY <1>0, <1>2, <1>5
<1>9. 1 \in 1 .. z
  BY ONLY <1>2
<1>10. t[Len(s) + 1][2] = 1 /\ t[Len(s) + 1][1] = r
  BY ONLY <1>7, <1>9, <1>u, Zenon
<1>11. t[1][2] = 1 /\ t[1][1].at = from
  <2>1. CASE Len(s) = 0
    <3>1. Len(s) + 1 = 1 /\ from = a
      BY ONLY <1>0, <1>h, <2>1 DEF Whole
    <3> QED BY ONLY <1>10, <3>1, Zenon DEF a
  <2>2. CASE Len(s) > 0
    <3>1. 1 \in 1 .. Len(s)
      BY ONLY <1>0, <2>2
    <3> QED BY ONLY <1>6, <1>h, <2>2, <3>1, Zenon DEF Whole
  <2> QED BY ONLY <1>0, <2>1, <2>2
<1>12. ASSUME NEW i \in 1 .. Len(t), t[i][2] = 1 PROVE RecordFrom(t, i, b)
  <2>1. CASE i <= Len(s)
    <3>1. i \in 1 .. Len(s) /\ i \in Nat
      BY ONLY <1>0, <1>12, <2>1
    <3>2. t[i] = s[i]
      BY ONLY <1>6, <3>1, Zenon
    <3> DEFINE q == s[i][1]
               y == q.size
               e == After(q)
    <3>3. RecordFrom(s, i, a)
      BY ONLY <1>12, <1>h, <3>1, <3>2, Zenon DEF Whole
    <3>4. y \in Nat \ {0, 1}
      <4>1. s[i] \in Units
        BY ONLY <3>1, s \in Seq(Units), ElementOfSeq
      <4>2. q \in Recs
        BY ONLY <4>1, Zenon DEF Units
      <4> QED BY ONLY <4>2, ZenonT(60) DEF Recs
    <3>5. /\ i + y - 1 <= Len(s)
          /\ \A j \in 1 .. y : s[i + j - 1] = <<q, j>>
          /\ i + y - 1 = Len(s) => a = e
          /\ i + y - 1 < Len(s) => s[i + y][2] = 1 /\ s[i + y][1].at = e
      BY ONLY <3>3, Zenon DEF RecordFrom
    <3>6. t[i][1] = q
      BY ONLY <3>2, Zenon
    <3> HIDE DEF q, y, e
    <3>a. i + y - 1 <= Len(s)
      BY ONLY <3>5, Zenon
    <3>b. i + y - 1 = Len(s) => a = e
      BY ONLY <3>5, Zenon
    <3>7. i + y - 1 < Len(t) /\ ~(i + y - 1 = Len(t)) /\ i + y - 1 <= Len(t)
      BY ONLY <1>0, <1>2, <1>5, <3>1, <3>4, <3>a
    <3>8. ASSUME NEW j \in 1 .. y PROVE t[i + j - 1] = <<q, j>>
      <4>1. i + j - 1 \in 1 .. Len(s)
        BY ONLY <1>0, <3>1, <3>4, <3>a, <3>8
      <4> QED BY ONLY <1>6, <3>5, <3>8, <4>1, Zenon
    <3>9. t[i + y][2] = 1 /\ t[i + y][1].at = e
      <4>1. CASE i + y - 1 = Len(s)
        <5>1. i + y = Len(s) + 1 /\ a = e
          BY ONLY <1>0, <3>1, <3>4, <3>b, <4>1
        <5> QED BY ONLY <1>10, <5>1, Zenon DEF a
      <4>2. CASE i + y - 1 < Len(s)
        <5>1. i + y \in 1 .. Len(s)
          BY ONLY <1>0, <3>1, <3>4, <4>2
        <5> QED BY ONLY <1>6, <3>5, <4>2, <5>1, Zenon
      <4>3. i + y - 1 = Len(s) \/ i + y - 1 < Len(s)
        BY ONLY <1>0, <3>1, <3>4, <3>a
      <4> QED BY ONLY <4>1, <4>2, <4>3, Zenon
    <3> QED BY ONLY <3>6, <3>7, <3>8, <3>9, Zenon DEF RecordFrom, y, e
  <2>2. CASE ~(i <= Len(s))
    <3>1. i - Len(s) \in 1 .. z /\ Len(s) + (i - Len(s)) = i /\ i \in Nat
      BY ONLY <1>0, <1>2, <1>5, <1>12, <2>2
    <3> DEFINE k == i - Len(s)
    <3>2. t[i] = <<r, k>>
      BY ONLY <1>7, <3>1, Zenon
    <3> HIDE DEF k
    <3>k. <<r, k>>[2] = k
      BY ONLY Zenon
    <3>3. k = 1
      BY ONLY <1>12, <3>2, <3>k, Zenon
    <3>4. i = Len(s) + 1
      BY ONLY <1>0, <3>1, <3>3 DEF k
    <3>5. t[i][1] = r
      BY ONLY <1>10, <3>4, Zenon
    <3>6. i + z - 1 = Len(t) /\ i + z - 1 <= Len(t) /\ ~(i + z - 1 < Len(t))
      BY ONLY <1>0, <1>2, <1>5, <3>4
    <3>7. ASSUME NEW j \in 1 .. z PROVE t[i + j - 1] = <<r, j>>
      <4>1. i + j - 1 = Len(s) + j
        BY ONLY <1>0, <1>2, <3>4, <3>7
      <4> QED BY ONLY <1>7, <3>7, <4>1, Zenon
    <3> QED BY ONLY <3>5, <3>6, <3>7, Zenon DEF RecordFrom, z, b
  <2> QED BY ONLY <2>1, <2>2, Zenon
<1>13. ~(Len(t) = 0)
  BY ONLY <1>8
<1>14. Whole(t, from, b)
  BY ONLY <1>11, <1>12, <1>13, Zenon DEF Whole
<1> QED BY ONLY <1>4, <1>14, Zenon DEF t, u, b

\* A record in hand: the first of the row that what is ahead and what comes
\* later make together.
LEMMA Dropped ==
    ASSUME NEW a \in Seq(Units), NEW l \in Seq(Units), NEW from \in Nat, NEW to \in Nat,
           Whole(a \o l, from, to), HasRecord(a, 0)
    PROVE  LET r == a[1][1]
           IN  /\ r \in Recs /\ r.at = from /\ r.size \in Nat \ {0, 1} /\ r.size \in 0 .. Len(a)
               /\ \A j \in 1 .. r.size : a[j] = <<r, j>>
               /\ Rest(a, r.size) \in Seq(Units)
               /\ Whole(Rest(a, r.size) \o l, After(r), to)
<1> DEFINE r == a[1][1]
           n == r.size
           s == a \o l
<1>0. Len(a) \in Nat /\ Len(l) \in Nat
  OBVIOUS
<1>z. 0 + 1 = 1
  OBVIOUS
<1>1. Len(a) > 0 /\ Len(a) - 0 >= n
  BY ONLY <1>z, HasRecord(a, 0), Zenon DEF HasRecord, HasHeader, SizeAt
<1>2. s \in Seq(Units) /\ Len(s) = Len(a) + Len(l)
      /\ \A i \in 1 .. Len(a) + Len(l) : s[i] = IF i <= Len(a) THEN a[i] ELSE l[i - Len(a)]
  BY ONLY a \in Seq(Units), l \in Seq(Units), ConcatProperties, Zenon
<1>3. Whole(s, from, to)
  OBVIOUS
<1> HIDE DEF s
<1>4. \A i \in 1 .. Len(a) : s[i] = a[i]
  BY ONLY <1>0, <1>2
<1>5. 1 \in 1 .. Len(a) /\ Len(s) > 0
  <2>1. Len(s) = Len(a) + Len(l) /\ Len(a) > 0
    BY ONLY <1>1, <1>2, Zenon
  <2> QED BY ONLY <1>0, <2>1
<1>6. s[1][1] = r
  BY ONLY <1>4, <1>5, ZenonT(60)
<1>7. LET q == s[1][1]
      IN  /\ q \in Recs /\ q.at = from /\ s[1] = <<q, 1>>
          /\ q.size \in Nat \ {0, 1} /\ q.size <= Len(s)
          /\ \A j \in 1 .. q.size : s[j] = <<q, j>>
          /\ Whole(Rest(s, q.size), After(q), to)
  BY ONLY <1>2, <1>3, <1>5, from \in Nat, to \in Nat, WholeDrop, ZenonT(60)
<1>8. /\ r \in Recs /\ r.at = from /\ n \in Nat \ {0, 1}
      /\ \A j \in 1 .. n : s[j] = <<r, j>>
      /\ Whole(Rest(s, n), After(r), to)
  BY ONLY <1>6, <1>7, ZenonT(60)
<1> HIDE DEF n
<1>9. n \in 0 .. Len(a) /\ \A j \in 1 .. n : j \in 1 .. Len(a)
  <2>1. n \in Nat \ {0, 1} /\ Len(a) - 0 >= n /\ Len(a) \in Nat
    BY ONLY <1>0, <1>1, <1>8, Zenon
  <2> QED BY ONLY <2>1
<1>10. \A j \in 1 .. n : a[j] = <<r, j>>
  BY ONLY <1>4, <1>8, <1>9, Zenon
<1>11. Rest(s, n) = Rest(a, n) \o l
  BY ONLY <1>9, a \in Seq(Units), l \in Seq(Units), RestOfConcat, Zenon DEF s
<1>12. Rest(a, n) \in Seq(Units)
  BY ONLY <1>9, a \in Seq(Units), RestIs
<1> QED BY ONLY <1>8, <1>9, <1>10, <1>11, <1>12, Zenon DEF n

\* Compacting a buffer changes nothing about the next record.
LEMMA SameRecord ==
    ASSUME NEW s \in Seq(Units), NEW o \in 0 .. Len(s)
    PROVE  /\ HasRecord(Rest(s, o), 0) <=> HasRecord(s, o)
           /\ HasRecord(s, o) => Rest(s, o)[1] = s[o + 1]
<1> DEFINE r == Rest(s, o)
<1>1. /\ Len(r) = Len(s) - o /\ \A i \in 1 .. Len(s) - o : r[i] = s[o + i]
  BY RestIs
<1>2. Len(s) \in Nat /\ o \in Nat
  OBVIOUS
<1> HIDE DEF r
<1>3. ASSUME Len(s) > o PROVE r[1] = s[o + 1]
  <2>1. 1 \in 1 .. Len(s) - o
    BY ONLY <1>2, <1>3
  <2> QED BY ONLY <1>1, <2>1, Zenon
<1>4. Len(r) > 0 <=> Len(s) > o
  BY ONLY <1>1, <1>2
<1>5. Len(r) - 0 = Len(s) - o /\ 0 + 1 = 1
  BY ONLY <1>1, <1>2
<1> QED BY ONLY <1>3, <1>4, <1>5, Zenon DEF HasRecord, HasHeader, SizeAt, r

\* The record layer of the server has the connection.
Own == phase \in {"flight", "finished", "fast"}

\* What the worker has read and not handled, and all that is under way to it.
Ahead == IF Own THEN Rest(inb, in_off) ELSE mb \o Rest(bio, bio_off)
Later == sock \o csend
Input == Ahead \o Later

\* Buffers hold units of records, and every offset lies in its buffer.
BufInv ==
    /\ bio \in Seq(Units) /\ inb \in Seq(Units) /\ mb \in Seq(Units)
    /\ sock \in Seq(Units) /\ csend \in Seq(Units)
    /\ bio_off \in 0 .. Len(bio) /\ Len(bio) <= BioCap
    /\ in_off \in 0 .. Len(inb) /\ Len(inb) <= InCap
    /\ pt_off \in 0 .. pt_end /\ pt_end \in 0 .. Len(inb)
    /\ ckey \in Nat /\ cseq \in Nat /\ ccontent \in Nat /\ got \in Nat

\* Which buffers a phase uses; the others are empty.
UseInv ==
    /\ ~Own => inb = <<>> /\ in_off = 0 /\ pt_off = 0 /\ pt_end = 0
    /\ Own => mb = <<>> /\ bio_off = Len(bio)
    /\ phase \in {"flight", "finished"} => pt_off = 0 /\ pt_end = 0
    /\ phase = "hello" => mb = <<>> /\ bio_off = 0
    /\ phase = "closed" =>
           /\ mb = <<>> /\ bio = <<>> /\ sock = <<>> /\ csend = <<>>
           /\ bio_off = 0 /\ ccontent = 0 /\ got = 0
    /\ Len(mb) > 0 => Len(mb) <= SizeAt(mb, 1)

\* u is the unit of content with number n.
IsContent(u, n) == u[1].kind = "app" /\ u[1].at + u[2] - 2 = n

\* The input is a row of whole records that goes on where the content opened so
\* far ends, and the content in hand goes on where the worker has got to.
StreamInv ==
    /\ pc # "close" => Whole(Input, got + (pt_end - pt_off), ccontent)
    /\ \A i \in pt_off + 1 .. pt_end : IsContent(inb[i], got + (i - pt_off - 1))
    /\ wrong = FALSE

InputInv == BufInv /\ UseInv /\ StreamInv

\* The types of the parts of the input.
LEMMA InputTyped ==
    ASSUME BufInv
    PROVE  Ahead \in Seq(Units) /\ Later \in Seq(Units) /\ Input \in Seq(Units)
<1>1. /\ bio \in Seq(Units) /\ inb \in Seq(Units) /\ mb \in Seq(Units)
      /\ sock \in Seq(Units) /\ csend \in Seq(Units)
      /\ bio_off \in 0 .. Len(bio) /\ in_off \in 0 .. Len(inb)
  BY DEF BufInv
<1>2. Rest(inb, in_off) \in Seq(Units) /\ Rest(bio, bio_off) \in Seq(Units)
  BY ONLY <1>1, RestIs
<1>3. mb \o Rest(bio, bio_off) \in Seq(Units) /\ sock \o csend \in Seq(Units)
  BY ONLY <1>1, <1>2, ConcatProperties
<1>4. Ahead \in Seq(Units) /\ Later \in Seq(Units)
  BY ONLY <1>2, <1>3, Zenon DEF Ahead, Later
<1> QED BY ONLY <1>4, ConcatProperties DEF Input

\* The numbers of BufInv.
LEMMA BufNumbers ==
    ASSUME BufInv
    PROVE  /\ Len(bio) \in Nat /\ Len(inb) \in Nat /\ Len(mb) \in Nat /\ Len(sock) \in Nat
           /\ bio_off \in Nat /\ bio_off <= Len(bio) /\ Len(bio) <= BioCap
           /\ in_off \in Nat /\ in_off <= Len(inb) /\ Len(inb) <= InCap
           /\ pt_off \in Nat /\ pt_end \in Nat /\ pt_off <= pt_end /\ pt_end <= Len(inb)
           /\ ccontent \in Nat /\ got \in Nat /\ got + (pt_end - pt_off) \in Nat
<1>1. /\ bio \in Seq(Units) /\ inb \in Seq(Units) /\ mb \in Seq(Units) /\ sock \in Seq(Units)
      /\ bio_off \in 0 .. Len(bio) /\ Len(bio) <= BioCap
      /\ in_off \in 0 .. Len(inb) /\ Len(inb) <= InCap
      /\ pt_off \in 0 .. pt_end /\ pt_end \in 0 .. Len(inb)
      /\ ccontent \in Nat /\ got \in Nat
  BY DEF BufInv
<1> QED BY ONLY <1>1

\* What the input invariant looks at.
inputVars == <<csend, ccontent, sock, bio, bio_off, inb, in_off, pt_off, pt_end, mb, readVars>>

\* A step that leaves all of them alone, but for the phase that follows the
\* flight, keeps the input in order.
LEMMA InputUntouched ==
    ASSUME InputInv, UNCHANGED <<inputVars, ckey, cseq>>,
           phase' = phase \/ (phase = "flight" /\ phase' = "finished"),
           pc' # "close" => pc # "close"
    PROVE  InputInv'
<1>1. /\ csend' = csend /\ ccontent' = ccontent /\ sock' = sock /\ bio' = bio /\ bio_off' = bio_off
      /\ inb' = inb /\ in_off' = in_off /\ pt_off' = pt_off /\ pt_end' = pt_end /\ mb' = mb
      /\ got' = got /\ wrong' = wrong /\ ckey' = ckey /\ cseq' = cseq
  BY DEF inputVars, readVars
<1>2. Own' <=> Own
  BY Zenon DEF Own
<1>3. BufInv'
  BY ONLY <1>1, BufInv, InputInv, Zenon DEF BufInv, InputInv
<1>4. UseInv'
  <2>1. (phase' = "hello" => phase = "hello") /\ (phase' = "closed" => phase = "closed")
        /\ (phase' \in {"flight", "finished"} => phase \in {"flight", "finished"})
    BY Zenon
  <2> QED BY ONLY <1>1, <1>2, <2>1, InputInv, ZenonT(60) DEF UseInv, InputInv, SizeAt
<1>5. Input' = Input
  BY ONLY <1>1, <1>2, Zenon DEF Input, Ahead, Later
<1>6. StreamInv'
  <2>1. Whole(Input', got' + (pt_end' - pt_off'), ccontent') <=> Whole(Input, got + (pt_end - pt_off), ccontent)
    BY ONLY <1>1, <1>5, Zenon
  <2>2. (pc' # "close" => pc # "close") /\ StreamInv
    BY DEF InputInv
  <2>3. pc' # "close" => Whole(Input', got' + (pt_end' - pt_off'), ccontent')
    BY ONLY <2>1, <2>2, Zenon DEF StreamInv
  <2>4. \A i \in pt_off' + 1 .. pt_end' : IsContent(inb'[i], got' + (i - pt_off' - 1))
    BY ONLY <1>1, <2>2, Zenon DEF StreamInv
  <2>5. wrong' = FALSE
    BY ONLY <1>1, <2>2, Zenon DEF StreamInv
  <2> QED BY ONLY <2>3, <2>4, <2>5, Zenon DEF StreamInv, Whole, RecordFrom, IsContent, After
<1> QED BY ONLY <1>3, <1>4, <1>6, Zenon DEF InputInv

\* With no content in hand, what is due is what the worker has.
LEMMA NoneInHand ==
    ASSUME NEW g \in Nat, NEW a \in Nat
    PROVE  g + (a - a) = g /\ \A i \in a + 1 .. a : FALSE
OBVIOUS

\* The invariant of the next state from its parts.
LEMMA InputNext ==
    ASSUME BufInv', UseInv', wrong' = FALSE, NEW n \in Nat, n = got' + (pt_end' - pt_off'),
           pc' # "close" => Whole(Input', n, ccontent'),
           \A i \in pt_off' + 1 .. pt_end' : IsContent(inb'[i], got' + (i - pt_off' - 1))
    PROVE  InputInv'
<1>1. pc' # "close" => Whole(Input', got' + (pt_end' - pt_off'), ccontent')
  BY ONLY n = got' + (pt_end' - pt_off'), pc' # "close" => Whole(Input', n, ccontent'), Zenon
<1>2. StreamInv'
  BY ONLY <1>1, wrong' = FALSE,
          \A i \in pt_off' + 1 .. pt_end' : IsContent(inb'[i], got' + (i - pt_off' - 1)),
     Zenon DEF StreamInv, Whole, RecordFrom, IsContent, After
<1> QED BY ONLY <1>2, BufInv', UseInv', Zenon DEF InputInv

\* A step that only moves units from buffer to buffer.
LEMMA MoveNext ==
    ASSUME InputInv, BufInv', UseInv', pc # "close", Ahead' \o Later' = Ahead \o Later,
           UNCHANGED <<readVars, ccontent>>,
           \/ UNCHANGED <<pt_off, pt_end, inb>>
           \/ pt_off = pt_end /\ pt_off' = pt_end'
    PROVE  InputInv'
<1>1. got' = got /\ wrong' = wrong /\ ccontent' = ccontent
  BY DEF readVars
<1>2. /\ Whole(Input, got + (pt_end - pt_off), ccontent)
      /\ \A i \in pt_off + 1 .. pt_end : IsContent(inb[i], got + (i - pt_off - 1))
      /\ wrong = FALSE /\ BufInv
  BY Zenon DEF InputInv, StreamInv
<1>3. got \in Nat /\ pt_off \in Nat /\ pt_end \in Nat /\ got + (pt_end - pt_off) \in Nat
  BY ONLY <1>2, BufNumbers, Zenon
<1>4. pt_off' \in Nat /\ pt_end' \in Nat
  <2>1. pt_off' \in 0 .. pt_end' /\ pt_end' \in 0 .. Len(inb')
    BY ONLY BufInv', Zenon DEF BufInv
  <2> QED BY ONLY <2>1
<1>5. got + (pt_end - pt_off) = got' + (pt_end' - pt_off')
  <2>1. CASE UNCHANGED <<pt_off, pt_end, inb>>
    BY ONLY <1>1, <2>1, Zenon
  <2>2. CASE pt_off = pt_end /\ pt_off' = pt_end'
    <3>1. got + (pt_end - pt_end) = got /\ got + (pt_end' - pt_end') = got
      BY ONLY <1>3, <1>4, NoneInHand, Zenon
    <3> QED BY ONLY <1>1, <2>2, <3>1, Zenon
  <2> QED BY ONLY <2>1, <2>2, UNCHANGED <<pt_off, pt_end, inb>> \/ (pt_off = pt_end /\ pt_off' = pt_end'), Zenon
<1>6. Whole(Input', got + (pt_end - pt_off), ccontent')
  BY ONLY <1>1, <1>2, Ahead' \o Later' = Ahead \o Later, Zenon DEF Input
<1>7. ASSUME NEW i \in pt_off' + 1 .. pt_end' PROVE IsContent(inb'[i], got' + (i - pt_off' - 1))
  <2>1. ~(pt_off' = pt_end')
    BY ONLY <1>4, <1>7, NoneInHand, Zenon
  <2>2. pt_off' = pt_off /\ pt_end' = pt_end /\ inb' = inb
    BY ONLY <2>1, UNCHANGED <<pt_off, pt_end, inb>> \/ (pt_off = pt_end /\ pt_off' = pt_end'), Zenon
  <2> QED BY ONLY <1>1, <1>2, <1>7, <2>2, Zenon
<1>8. wrong' = FALSE
  BY ONLY <1>1, <1>2, Zenon
<1> DEFINE n == got + (pt_end - pt_off)
<1>9. n \in Nat /\ n = got' + (pt_end' - pt_off') /\ Whole(Input', n, ccontent')
  BY ONLY <1>3, <1>5, <1>6, Zenon
<1> HIDE DEF n
<1> QED BY ONLY <1>7, <1>8, <1>9, BufInv', UseInv', InputNext, Zenon

\* A step that handles the next record, which has no content.
LEMMA DropNext ==
    ASSUME InputInv, BufInv', UseInv', pc # "close",
           HasRecord(Ahead, 0), Ahead[1][1].kind # "app",
           Ahead' = Rest(Ahead, Ahead[1][1].size), Later' = Later,
           UNCHANGED <<readVars, ccontent>>, pt_off = pt_end, pt_off' = pt_end'
    PROVE  InputInv'
<1>1. got' = got /\ wrong' = wrong /\ ccontent' = ccontent
  BY DEF readVars
<1>2. /\ Whole(Ahead \o Later, got + (pt_end - pt_off), ccontent)
      /\ wrong = FALSE /\ BufInv
  BY Zenon DEF InputInv, StreamInv, Input
<1>3. /\ got \in Nat /\ pt_off \in Nat /\ pt_end \in Nat /\ got + (pt_end - pt_off) \in Nat
      /\ ccontent \in Nat
  BY ONLY <1>2, BufNumbers, Zenon
<1>4. pt_off' \in Nat /\ pt_end' \in Nat
  <2>1. pt_off' \in 0 .. pt_end' /\ pt_end' \in 0 .. Len(inb')
    BY ONLY BufInv', Zenon DEF BufInv
  <2> QED BY ONLY <2>1
<1> DEFINE n == got + (pt_end - pt_off)
           r == Ahead[1][1]
<1>5. n = got' + (pt_end' - pt_off')
  <2>1. got + (pt_end - pt_end) = got /\ got + (pt_end' - pt_end') = got
    BY ONLY <1>3, <1>4, NoneInHand, Zenon
  <2> QED BY ONLY <1>1, <2>1, pt_off = pt_end, pt_off' = pt_end', Zenon
<1>6. Ahead \in Seq(Units) /\ Later \in Seq(Units)
  BY ONLY <1>2, InputTyped, Zenon
<1>7. n \in Nat /\ Whole(Ahead \o Later, n, ccontent)
  BY ONLY <1>2, <1>3, Zenon
<1> HIDE DEF n
<1>8. /\ r \in Recs /\ r.at = n /\ r.size \in Nat \ {0, 1} /\ r.size \in 0 .. Len(Ahead)
      /\ \A j \in 1 .. r.size : Ahead[j] = <<r, j>>
      /\ Rest(Ahead, r.size) \in Seq(Units)
      /\ Whole(Rest(Ahead, r.size) \o Later, After(r), ccontent)
  BY ONLY <1>3, <1>6, <1>7, HasRecord(Ahead, 0), Dropped, Zenon
<1>9. After(r) = n
  BY ONLY <1>8, Ahead[1][1].kind # "app", Zenon DEF After
<1>10. Whole(Input', n, ccontent')
  BY ONLY <1>1, <1>8, <1>9, Ahead' = Rest(Ahead, Ahead[1][1].size), Later' = Later, Zenon DEF Input
<1>11. \A i \in pt_off' + 1 .. pt_end' : IsContent(inb'[i], got' + (i - pt_off' - 1))
  <2>1. \A i \in pt_off' + 1 .. pt_end' : FALSE
    BY ONLY <1>4, pt_off' = pt_end', NoneInHand, Zenon
  <2> QED BY ONLY <2>1, Zenon
<1>12. wrong' = FALSE
  BY ONLY <1>1, <1>2, Zenon
<1> QED BY ONLY <1>5, <1>7, <1>10, <1>11, <1>12, BufInv', UseInv', InputNext, ZenonT(60)

\* A step that ends the connection leaves no more input to be handled.
LEMMA CloseNext ==
    ASSUME InputInv, BufInv', UseInv', pc' = "close", UNCHANGED <<readVars, pt_off, pt_end, inb>>
    PROVE  InputInv'
<1>1. got' = got /\ wrong' = wrong /\ pt_off' = pt_off /\ pt_end' = pt_end /\ inb' = inb
  BY DEF readVars
<1>2. /\ \A i \in pt_off + 1 .. pt_end : IsContent(inb[i], got + (i - pt_off - 1))
      /\ wrong = FALSE /\ BufInv
  BY Zenon DEF InputInv, StreamInv
<1> DEFINE n == got + (pt_end - pt_off)
<1>3. n \in Nat
  BY ONLY <1>2, BufNumbers, Zenon
<1>4. n = got' + (pt_end' - pt_off')
  BY ONLY <1>1, Zenon
<1>5. \A i \in pt_off' + 1 .. pt_end' : IsContent(inb'[i], got' + (i - pt_off' - 1))
  BY ONLY <1>1, <1>2, Zenon
<1>6. wrong' = FALSE /\ (pc' # "close" => Whole(Input', n, ccontent'))
  BY ONLY <1>1, <1>2, pc' = "close", Zenon
<1> HIDE DEF n
<1> QED BY ONLY <1>3, <1>4, <1>5, <1>6, BufInv', UseInv', InputNext, Zenon

\* Writing, events, timers and the client's reading leave the input alone.
LEMMA QuietInput ==
    ASSUME InputInv,
           \/ ClientReads \/ ClientShutdown \/ Drop \/ Event \/ Timer \/ FlightTurn
           \/ FlushOut \/ FlushWrite \/ SealKeyUpdate \/ SealContent \/ SendSealed \/ MbedWrite \/ FlushEnd,
           PhaseOfPc
    PROVE  InputInv'
<1>1. CASE ClientReads \/ ClientShutdown \/ Drop \/ Event \/ Timer
  <2>1. UNCHANGED <<inputVars, ckey, cseq>> /\ phase' = phase /\ (pc' # "close" => pc # "close")
    BY ONLY <1>1, ZenonT(60) DEF ClientReads, ClientShutdown, Drop, Event, Timer, inputVars, clientVars,
       bioVars, inVars, connVars, readVars, Handshaking, Phases
  <2> QED BY ONLY <2>1, InputInv, InputUntouched, Zenon
<1>2. CASE FlightTurn
  <2>1. UNCHANGED <<inputVars, ckey, cseq>> /\ (pc' # "close" => pc # "close")
    BY ONLY <1>2, ZenonT(60) DEF FlightTurn, inputVars, clientVars, bioVars, inVars, readVars
  <2>2. phase' = phase \/ (phase = "flight" /\ phase' = "finished")
    BY ONLY <1>2, PhaseOfPc, ZenonT(60) DEF FlightTurn, PhaseOfPc
  <2> QED BY ONLY <2>1, <2>2, InputInv, InputUntouched, Zenon
<1>3. CASE FlushOut \/ FlushWrite \/ SealKeyUpdate \/ SealContent \/ SendSealed \/ MbedWrite \/ FlushEnd
  <2>1. UNCHANGED <<inputVars, ckey, cseq>> /\ phase' = phase /\ (pc' # "close" => pc # "close")
    BY ONLY <1>3, ZenonT(60) DEF FlushOut, FlushWrite, SealKeyUpdate, SealContent, SendSealed, MbedWrite,
       FlushEnd, inputVars, clientVars, bioVars, inVars, connVars, readVars
  <2> QED BY ONLY <2>1, InputInv, InputUntouched, Zenon
<1> QED BY <1>1, <1>2, <1>3, Zenon

\* The client sends a record: its first unit arrives, the others are under way.
LEMMA SendNext ==
    ASSUME InputInv, PhaseOfPc, AtRecv, NEW r \in Recs, r.at = ccontent, csend = <<>>,
           sock' = Append(sock, <<r, 1>>), csend' = [j \in 1 .. (r.size - 1) |-> <<r, j + 1>>],
           ccontent' = After(r), ckey' \in Nat, cseq' \in Nat,
           UNCHANGED <<bioVars, inVars, mb, phase, pc, readVars>>
    PROVE  InputInv'
<1> DEFINE z == r.size
           u == <<r, 1>>
           v == [j \in 1 .. (z - 1) |-> <<r, j + 1>>]
<1>0. /\ bio' = bio /\ bio_off' = bio_off /\ inb' = inb /\ in_off' = in_off /\ pt_off' = pt_off
      /\ pt_end' = pt_end /\ mb' = mb /\ phase' = phase /\ pc' = pc /\ got' = got /\ wrong' = wrong
      /\ sock' = Append(sock, u) /\ csend' = v
  BY DEF bioVars, inVars, readVars
<1>b. BufInv /\ UseInv /\ StreamInv
  BY ONLY InputInv, Zenon DEF InputInv
<1>a. pc # "close" /\ phase # "closed"
  BY ONLY AtRecv, PhaseOfPc, Zenon DEF AtRecv, PhaseOfPc
<1>1. z \in Nat \ {0, 1} /\ r.at \in Nat
  BY ONLY r \in Recs, ZenonT(60) DEF Recs
<1>2. After(r) \in Nat
  <2>1. After(r) = r.at + z - 1 \/ After(r) = r.at
    BY ONLY Zenon DEF After
  <2> DEFINE a == r.at
  <2> HIDE DEF a, z
  <2>2. a + z - 1 \in Nat
    BY ONLY <1>1 DEF a
  <2> QED BY ONLY <1>1, <2>1, <2>2, Zenon DEF a
<1> HIDE DEF z
<1>3. ASSUME NEW j \in 1 .. z PROVE <<r, j>> \in Units
  <2>1. j \in Nat \ {0}
    BY ONLY <1>1, <1>3
  <2> QED BY ONLY <2>1, r \in Recs, Zenon DEF Units
<1>4. u \in Units
  <2>1. 1 \in 1 .. z
    BY ONLY <1>1
  <2> QED BY ONLY <1>3, <2>1, Zenon
<1>5. v \in Seq(Units) /\ Len(v) = z - 1 /\ \A j \in 1 .. z - 1 : v[j] = <<r, j + 1>>
  <2>1. z - 1 \in Nat /\ \A j \in 1 .. z - 1 : j + 1 \in 1 .. z
    BY ONLY <1>1
  <2>2. \A j \in 1 .. z - 1 : <<r, j + 1>> \in Units
    BY ONLY <1>3, <2>1, Zenon
  <2> QED BY ONLY <2>1, <2>2
<1>6. sock \in Seq(Units) /\ csend \in Seq(Units) /\ Later = sock
  <2>1. sock \in Seq(Units) /\ csend \in Seq(Units)
    BY ONLY <1>b, Zenon DEF BufInv
  <2>2. sock \o <<>> = sock
    BY ONLY <2>1, ConcatEmptySeq, Zenon
  <2> QED BY ONLY <2>1, <2>2, csend = <<>>, Zenon DEF Later
<1> HIDE DEF u, v
<1>7. /\ Append(sock, u) \in Seq(Units) /\ Len(Append(sock, u)) = Len(sock) + 1
      /\ \A i \in 1 .. Len(sock) : Append(sock, u)[i] = sock[i]
      /\ Append(sock, u)[Len(sock) + 1] = u
  <2>1. sock \in Seq(Units)
    BY ONLY <1>6
  <2> QED BY ONLY <1>4, <2>1
<1>8. BufInv'
  <2>1. sock' \in Seq(Units) /\ csend' \in Seq(Units) /\ ccontent' \in Nat
    BY ONLY <1>0, <1>2, <1>5, <1>7, ccontent' = After(r), Zenon
  <2>2. /\ bio' = bio /\ bio_off' = bio_off /\ inb' = inb /\ in_off' = in_off /\ pt_off' = pt_off
        /\ pt_end' = pt_end /\ mb' = mb /\ got' = got
    BY ONLY <1>0, Zenon
  <2> QED BY ONLY <1>b, <2>1, <2>2, ckey' \in Nat, cseq' \in Nat, ZenonT(60) DEF BufInv
<1>9. UseInv'
  BY ONLY <1>0, <1>a, <1>b, ZenonT(60) DEF UseInv, Own, SizeAt
<1>10. Append(sock, u) \o v = sock \o UnitsOf(r)
  <2> DEFINE w == UnitsOf(r)
             k == Append(sock, u)
             n == Len(sock)
  <2>1. w \in Seq(Units) /\ Len(w) = z /\ \A j \in 1 .. z : w[j] = <<r, j>>
    <3>1. w = [j \in 1 .. z |-> <<r, j>>] /\ z \in Nat
      BY ONLY <1>1 DEF UnitsOf, z
    <3> HIDE DEF w
    <3> QED BY ONLY <1>3, <3>1
  <2>2. k \in Seq(Units) /\ Len(k) = n + 1 /\ (\A i \in 1 .. n : k[i] = sock[i]) /\ k[n + 1] = u /\ n \in Nat
    BY ONLY <1>6, <1>7
  <2> HIDE DEF w, k
  <2>3. /\ k \o v \in Seq(Units) /\ Len(k \o v) = Len(k) + Len(v)
        /\ \A i \in 1 .. Len(k) + Len(v) : (k \o v)[i] = IF i <= Len(k) THEN k[i] ELSE v[i - Len(k)]
    BY ONLY <1>5, <2>2, ConcatProperties, Zenon
  <2>4. /\ sock \o w \in Seq(Units) /\ Len(sock \o w) = n + Len(w)
        /\ \A i \in 1 .. n + Len(w) : (sock \o w)[i] = IF i <= n THEN sock[i] ELSE w[i - n]
    BY ONLY <1>6, <2>1, ConcatProperties, Zenon
  <2> HIDE DEF n
  <2>5. Len(k \o v) = Len(sock \o w) /\ Len(k \o v) = n + z
    BY ONLY <1>1, <1>5, <2>1, <2>2, <2>3, <2>4
  <2>6. ASSUME NEW i \in 1 .. Len(k \o v) PROVE (k \o v)[i] = (sock \o w)[i]
    <3>0. i \in 1 .. Len(k) + Len(v) /\ i \in 1 .. n + Len(w) /\ i \in Nat
      BY ONLY <2>3, <2>4, <2>5, <2>6
    <3>1. CASE i <= n
      <4>1. i \in 1 .. n /\ i <= Len(k)
        BY ONLY <2>2, <3>0, <3>1
      <4> QED BY ONLY <2>2, <2>3, <2>4, <3>0, <3>1, <4>1, Zenon
    <3>2. CASE i = n + 1
      <4>1. i <= Len(k) /\ ~(i <= n) /\ i - n = 1 /\ 1 \in 1 .. z
        BY ONLY <1>1, <2>2, <3>2
      <4>2. (k \o v)[i] = u
        BY ONLY <2>2, <2>3, <3>0, <3>2, <4>1, Zenon
      <4>3. (sock \o w)[i] = w[1]
        BY ONLY <2>4, <3>0, <4>1, Zenon
      <4> QED BY ONLY <2>1, <4>1, <4>2, <4>3, Zenon DEF u
    <3>3. CASE i > n + 1
      <4> DEFINE j == i - (n + 1)
      <4>1. ~(i <= Len(k)) /\ ~(i <= n) /\ i - Len(k) = j /\ j \in 1 .. z - 1 /\ i - n = j + 1 /\ j + 1 \in 1 .. z
        BY ONLY <1>1, <1>5, <2>2, <3>0, <3>3, <2>1
      <4> HIDE DEF j
      <4>2. (k \o v)[i] = v[j]
        BY ONLY <2>3, <3>0, <4>1, Zenon
      <4>3. (sock \o w)[i] = w[j + 1]
        BY ONLY <2>4, <3>0, <4>1, Zenon
      <4>4. v[j] = <<r, j + 1>> /\ w[j + 1] = <<r, j + 1>>
        BY ONLY <1>5, <2>1, <4>1, Zenon
      <4> QED BY ONLY <4>2, <4>3, <4>4, Zenon
    <3>4. i <= n \/ i = n + 1 \/ i > n + 1
      BY ONLY <2>2, <3>0
    <3> QED BY ONLY <3>1, <3>2, <3>3, <3>4, Zenon
  <2> QED BY ONLY <2>3, <2>4, <2>5, <2>6, SeqEqual, Zenon DEF w, k
<1> DEFINE d == got + (pt_end - pt_off)
<1>11. d \in Nat /\ Ahead \in Seq(Units) /\ ccontent \in Nat
  BY ONLY <1>b, BufNumbers, InputTyped, Zenon
<1>12. Whole(Ahead \o sock, d, r.at)
  BY ONLY <1>6, <1>a, <1>b, r.at = ccontent, Zenon DEF StreamInv, Input
<1>13. d = got' + (pt_end' - pt_off')
  BY ONLY <1>0, Zenon
<1> HIDE DEF d
<1>14. Ahead \o sock \in Seq(Units)
  BY ONLY <1>6, <1>11, ConcatProperties, Zenon
<1>15. UnitsOf(r) \in Seq(Units) /\ Whole((Ahead \o sock) \o UnitsOf(r), d, After(r))
  BY ONLY <1>11, <1>12, <1>14, r \in Recs, WholeAdd, Zenon
<1>16. (Ahead \o sock) \o UnitsOf(r) = Ahead \o (sock \o UnitsOf(r))
  <2>1. IsAssociative(Units)
    BY ONLY Associative, Zenon
  <2> DEFINE x == Ahead
             y == sock
             w == UnitsOf(r)
  <2>2. x \in Seq(Units) /\ y \in Seq(Units) /\ w \in Seq(Units)
    BY ONLY <1>6, <1>11, <1>15, Zenon
  <2> HIDE DEF x, y, w
  <2>3. (x \o y) \o w = x \o (y \o w)
    BY ONLY <2>1, <2>2, ZenonT(60) DEF IsAssociative
  <2> QED BY ONLY <2>3, Zenon DEF x, y, w
<1>17. Input' = Ahead \o (sock \o UnitsOf(r))
  <2>1. Ahead' = Ahead
    BY ONLY <1>0, Zenon DEF Ahead, Own
  <2>2. Later' = sock \o UnitsOf(r)
    BY ONLY <1>0, <1>10, Zenon DEF Later
  <2> QED BY ONLY <2>1, <2>2, Zenon DEF Input
<1>18. Whole(Input', d, ccontent')
  BY ONLY <1>15, <1>16, <1>17, ccontent' = After(r), Zenon
<1>19. /\ wrong' = FALSE
       /\ \A i \in pt_off' + 1 .. pt_end' : IsContent(inb'[i], got' + (i - pt_off' - 1))
  BY ONLY <1>0, <1>b, Zenon DEF StreamInv
<1> QED BY ONLY <1>8, <1>9, <1>11, <1>13, <1>18, <1>19, InputNext, Zenon

\* Every record of the client.
LEMMA ClientInput ==
    ASSUME InputInv, PhaseOfPc, SendHello \/ SendClear \/ SendFinished \/ SendApp
    PROVE  InputInv'
<1>0. ckey \in Nat /\ cseq \in Nat /\ ccontent \in Nat
  BY ONLY InputInv, Zenon DEF InputInv, BufInv
<1>1. ASSUME NEW kind \in Kinds, NEW size \in Nat \ {0, 1}, ClientSends(kind, size),
             ckey' \in Nat, cseq' \in Nat,
             ccontent' = IF kind = "app" THEN ccontent + size - 1 ELSE ccontent
      PROVE  InputInv'
  <2> DEFINE r == [kind |-> kind, size |-> size, key |-> ckey, seq |-> cseq, at |-> ccontent]
  <2>1. r \in Recs /\ r.at = ccontent /\ r.size = size /\ r.kind = kind
    BY ONLY <1>0, <1>1, ZenonT(60) DEF Recs
  <2>2. /\ AtRecv /\ csend = <<>> /\ sock' = Append(sock, <<r, 1>>)
        /\ csend' = [j \in 1 .. (size - 1) |-> <<r, j + 1>>]
        /\ UNCHANGED <<bioVars, inVars, mb, phase, pc, readVars>>
    BY ONLY <1>1, Zenon DEF ClientSends, connVars
  <2> HIDE DEF r
  <2>3. ccontent' = After(r) /\ csend' = [j \in 1 .. (r.size - 1) |-> <<r, j + 1>>]
    BY ONLY <1>1, <2>1, <2>2, Zenon DEF After
  <2> QED BY ONLY <1>1, <2>1, <2>2, <2>3, InputInv, PhaseOfPc, SendNext, Zenon
<1>2. CASE SendHello
  <2>1. PICK h \in {<<"own", 2>>, <<"own", BioCap + 1>>, <<"other", 2>>, <<"odd", 2>>,
                    <<"refused", 2>>, <<"zero_share", 2>>} : ClientSends(h[1], h[2])
    BY ONLY <1>2, Zenon DEF SendHello
  <2>2. BioCap + 1 \in Nat \ {0, 1} /\ 2 \in Nat \ {0, 1}
    BY TlsAssumption DEF TlsAssumption
  <2>3. h[1] \in Kinds /\ h[1] # "app" /\ h[2] \in Nat \ {0, 1}
    BY ONLY <2>1, <2>2 DEF Kinds
  <2>4. ckey' = ckey /\ cseq' = cseq /\ ccontent' = ccontent
    BY ONLY <1>2, Zenon DEF SendHello
  <2> QED BY ONLY <1>0, <1>1, <2>1, <2>3, <2>4, Zenon
<1>n. 2 \in Nat \ {0, 1} /\ 3 \in Nat \ {0, 1}
  OBVIOUS
<1>3. CASE SendClear
  <2>1. cstage' \in Kinds /\ cstage' # "app" /\ ClientSends(cstage', 2)
    BY ONLY <1>3, ZenonT(60) DEF SendClear, Kinds
  <2>2. ckey' = ckey /\ cseq' = cseq /\ ccontent' = ccontent
    BY ONLY <1>3, Zenon DEF SendClear
  <2> QED BY ONLY <1>0, <1>1, <1>n, <2>1, <2>2, Zenon
<1>4. CASE SendFinished
  <2>1. PICK kind \in {"finished", "bad"} : ClientSends(kind, 2)
    BY ONLY <1>4, Zenon DEF SendFinished
  <2>2. kind \in Kinds /\ kind # "app"
    BY ONLY <2>1, ZenonT(60) DEF Kinds
  <2>3. ckey' = 1 /\ cseq' = 0 /\ ccontent' = ccontent /\ 1 \in Nat /\ 0 \in Nat
    BY ONLY <1>4 DEF SendFinished
  <2> QED BY ONLY <1>0, <1>1, <1>n, <2>1, <2>2, <2>3, Zenon
<1>5. CASE SendApp
  <2>1. PICK h \in {<<"app", 2>>, <<"app", 3>>, <<"ku_req", 2>>, <<"ku", 2>>, <<"close", 2>>} :
           /\ ClientSends(h[1], h[2])
           /\ ccontent' = IF h[1] = "app" THEN ccontent + h[2] - 1 ELSE ccontent
           /\ IF h[1] \in {"ku_req", "ku"} THEN ckey' = ckey + 1 /\ cseq' = 0
              ELSE ckey' = ckey /\ cseq' = cseq + 1
    BY ONLY <1>5, Zenon DEF SendApp
  <2>2. h[1] \in Kinds /\ h[2] \in Nat \ {0, 1}
    BY ONLY <1>n, <2>1 DEF Kinds
  <2>3. ckey + 1 \in Nat /\ cseq + 1 \in Nat /\ 0 \in Nat
    BY ONLY <1>0
  <2>4. ckey' \in Nat /\ cseq' \in Nat
    BY ONLY <1>0, <2>1, <2>3, Zenon
  <2> QED BY ONLY <1>1, <2>1, <2>2, <2>4, Zenon
<1> QED BY <1>2, <1>3, <1>4, <1>5, Zenon

\* A unit arrives.
LEMMA ArriveInput ==
    ASSUME InputInv, PhaseOfPc, Arrive
    PROVE  InputInv'
<1>0. /\ AtRecv /\ csend # <<>> /\ sock' = Append(sock, Head(csend)) /\ csend' = Tail(csend)
      /\ UNCHANGED <<bioVars, inVars, mb, phase, pc, readVars, ckey, cseq, ccontent>>
  BY Zenon DEF Arrive, connVars
<1>a. pc # "close" /\ phase # "closed"
  BY ONLY <1>0, PhaseOfPc, Zenon DEF AtRecv, PhaseOfPc
<1>b. BufInv /\ UseInv
  BY ONLY InputInv, Zenon DEF InputInv
<1>c. sock \in Seq(Units) /\ csend \in Seq(Units)
  BY ONLY <1>b, Zenon DEF BufInv
<1>1. /\ bio' = bio /\ bio_off' = bio_off /\ inb' = inb /\ in_off' = in_off /\ pt_off' = pt_off
      /\ pt_end' = pt_end /\ mb' = mb /\ phase' = phase /\ pc' = pc /\ got' = got
      /\ ckey' = ckey /\ cseq' = cseq /\ ccontent' = ccontent
  BY ONLY <1>0 DEF bioVars, inVars, readVars
<1> DEFINE h == Head(csend)
           q == Tail(csend)
<1>2. h \in Units /\ q \in Seq(Units)
  BY ONLY <1>0, <1>c
<1>3. csend = <<h>> \o q
  BY ONLY <1>0, <1>c
<1> HIDE DEF h, q
<1>4. Append(sock, h) \in Seq(Units) /\ Append(sock, h) = sock \o <<h>>
  BY ONLY <1>2, <1>c
<1>5. Append(sock, h) \o q = sock \o csend
  <2> DEFINE x == <<h>>
  <2>1. x \in Seq(Units)
    BY ONLY <1>2
  <2>a. IsAssociative(Units)
    BY ONLY Associative, Zenon
  <2> HIDE DEF x
  <2>2. (sock \o x) \o q = sock \o (x \o q)
    BY ONLY <1>2, <1>c, <2>1, <2>a, ZenonT(60) DEF IsAssociative
  <2> QED BY ONLY <1>3, <1>4, <2>2, Zenon DEF x
<1>6. BufInv'
  <2>1. sock' \in Seq(Units) /\ csend' \in Seq(Units)
    BY ONLY <1>0, <1>2, <1>4, Zenon DEF h, q
  <2> QED BY ONLY <1>1, <1>b, <2>1, ZenonT(60) DEF BufInv
<1>7. UseInv'
  BY ONLY <1>1, <1>a, <1>b, ZenonT(60) DEF UseInv, Own, SizeAt
<1>8. Ahead' \o Later' = Ahead \o Later
  <2>1. Ahead' = Ahead
    BY ONLY <1>1, Zenon DEF Ahead, Own
  <2>2. Later' = Later
    BY ONLY <1>0, <1>5, Zenon DEF Later, h, q
  <2> QED BY ONLY <2>1, <2>2, Zenon
<1>9. UNCHANGED <<readVars, ccontent>> /\ UNCHANGED <<pt_off, pt_end, inb>>
  BY ONLY <1>0, <1>1, Zenon
<1> QED BY ONLY <1>6, <1>7, <1>8, <1>9, <1>a, InputInv, MoveNext, Zenon

\* What recv of at most n units reads.
LEMMA ReceivedIs ==
    ASSUME sock \in Seq(Units), NEW n \in Nat
    PROVE  Received(n) \in 0 .. Len(sock) /\ Received(n) <= n
<1>1. Len(sock) \in Nat
  OBVIOUS
<1> QED BY ONLY <1>1, n \in Nat DEF Received, Least

\* With nothing of mbedtls and of the read-ahead handled, the read-ahead is all
\* the worker has.
LEMMA AheadOfHello ==
    ASSUME InputInv, phase = "hello"
    PROVE  Ahead = bio
<1>1. bio \in Seq(Units) /\ mb = <<>> /\ bio_off = 0 /\ ~Own
  BY Zenon DEF InputInv, BufInv, UseInv, Own
<1>2. Len(bio) \in Nat /\ 0 \in 0 .. Len(bio)
  BY ONLY <1>1
<1>3. Rest(bio, 0) = bio
  BY ONLY <1>1, <1>2, RestIs, Zenon
<1>4. <<>> \o bio = bio
  BY ONLY <1>1, ConcatEmptySeq, Zenon
<1> QED BY ONLY <1>1, <1>3, <1>4, Zenon DEF Ahead

\* tls_settle gives back buffers that have nothing left in them.
LEMMA SettleInput ==
    ASSUME InputInv, Settle
    PROVE  InputInv'
<1>0. /\ pc = "settle" /\ sock' = sock /\ csend' = csend /\ ccontent' = ccontent /\ ckey' = ckey
      /\ cseq' = cseq /\ mb' = mb /\ phase' = phase /\ UNCHANGED readVars
  BY DEF Settle, clientVars
<1>1. /\ \/ in_off = Len(inb) /\ pt_off >= pt_end /\ inb' = <<>> /\ in_off' = 0 /\ pt_off' = 0 /\ pt_end' = 0
         \/ UNCHANGED <<inb, in_off, pt_off, pt_end>>
      /\ \/ phase = "fast" /\ bio' = <<>> /\ bio_off' = 0
         \/ UNCHANGED <<bio, bio_off>>
  BY Zenon DEF Settle
<1>b. BufInv /\ UseInv
  BY ONLY InputInv, Zenon DEF InputInv
<1>n. /\ Len(bio) \in Nat /\ Len(inb) \in Nat /\ pt_off \in Nat /\ pt_end \in Nat /\ pt_off <= pt_end
      /\ bio_off \in Nat /\ bio_off <= Len(bio) /\ Len(bio) <= BioCap
  BY ONLY <1>b, BufNumbers, Zenon
<1>e. <<>> \in Seq(Units) /\ Len(<<>>) = 0 /\ 0 \in 0 .. 0 /\ 0 <= BioCap /\ 0 <= InCap
  BY TlsAssumption DEF TlsAssumption, InCap
<1>g. got' = got
  BY ONLY <1>0, Zenon DEF readVars
<1>2. /\ bio' \in Seq(Units) /\ bio_off' \in 0 .. Len(bio') /\ Len(bio') <= BioCap
  BY ONLY <1>1, <1>b, <1>e, Zenon DEF BufInv
<1>3. /\ inb' \in Seq(Units) /\ in_off' \in 0 .. Len(inb') /\ Len(inb') <= InCap
      /\ pt_off' \in 0 .. pt_end' /\ pt_end' \in 0 .. Len(inb')
  BY ONLY <1>1, <1>b, <1>e, Zenon DEF BufInv
<1>4. BufInv'
  BY ONLY <1>0, <1>2, <1>3, <1>b, <1>g, ZenonT(60) DEF BufInv
<1>5. (bio_off = Len(bio) => bio_off' = Len(bio')) /\ (phase # "fast" => bio_off' = bio_off /\ bio' = bio)
  BY ONLY <1>1, <1>e, Zenon
<1>6. /\ (pt_off = 0 /\ pt_end = 0 => pt_off' = 0 /\ pt_end' = 0)
      /\ (inb = <<>> /\ in_off = 0 => inb' = <<>> /\ in_off' = 0)
  BY ONLY <1>1, Zenon
<1>7. UseInv'
  BY ONLY <1>0, <1>5, <1>6, <1>b, <1>g, ZenonT(60) DEF UseInv, Own, SizeAt
<1>8. Ahead' = Ahead
  <2>1. CASE Own
    <3>1. Own'
      BY ONLY <1>0, <2>1, Zenon DEF Own
    <3>2. CASE in_off = Len(inb) /\ inb' = <<>> /\ in_off' = 0
      <4>1. Rest(inb, Len(inb)) = <<>>
        <5>1. inb \in Seq(Units) /\ in_off \in 0 .. Len(inb)
          BY ONLY <1>b, Zenon DEF BufInv
        <5> QED BY ONLY <5>1, RestIs, Zenon
      <4>2. Rest(<<>>, 0) = <<>>
        BY ONLY <1>e, RestIs, Zenon
      <4> QED BY ONLY <2>1, <3>1, <3>2, <4>1, <4>2, Zenon DEF Ahead
    <3>3. CASE UNCHANGED <<inb, in_off>>
      BY ONLY <2>1, <3>1, <3>3, Zenon DEF Ahead
    <3> QED BY ONLY <1>1, <3>2, <3>3, Zenon
  <2>2. CASE ~Own
    <3>1. ~Own' /\ phase # "fast"
      BY ONLY <1>0, <2>2, Zenon DEF Own
    <3> QED BY ONLY <1>0, <1>5, <2>2, <3>1, Zenon DEF Ahead
  <2> QED BY ONLY <2>1, <2>2, Zenon
<1>9. Ahead' \o Later' = Ahead \o Later /\ pc # "close" /\ UNCHANGED <<readVars, ccontent>>
  BY ONLY <1>0, <1>8, Zenon DEF Later
<1>10. UNCHANGED <<pt_off, pt_end, inb>> \/ (pt_off = pt_end /\ pt_off' = pt_end')
  <2>1. pt_off >= pt_end => pt_off = pt_end
    BY ONLY <1>n
  <2> QED BY ONLY <1>1, <2>1, Zenon
<1> QED BY ONLY <1>4, <1>7, <1>9, <1>10, InputInv, MoveNext, Zenon

\* The flight: the rest of the read-ahead is the first input of the record layer.
LEMMA FlightInput ==
    ASSUME InputInv, phase = "hello", pc = "hello", Flight, HasRecord(bio, 0), bio[1][1].kind = "own",
           UNCHANGED <<clientVars, readVars>>
    PROVE  InputInv'
<1> DEFINE n == bio[1][1].size
<1>0. /\ inb' = Rest(bio, n) /\ in_off' = 0 /\ pt_off' = 0 /\ pt_end' = 0 /\ bio_off' = Len(bio)
      /\ phase' = "flight" /\ pc' = "flight" /\ bio' = bio /\ sock' = sock /\ mb' = mb
  BY DEF Flight, SizeAt, Rest
<1>1. csend' = csend /\ ccontent' = ccontent /\ ckey' = ckey /\ cseq' = cseq /\ got' = got
  BY DEF clientVars, readVars
<1>b. BufInv /\ UseInv
  BY ONLY InputInv, Zenon DEF InputInv
<1>2. /\ bio \in Seq(Units) /\ Len(bio) \in Nat /\ Len(bio) <= BioCap /\ Len(bio) > 0 /\ Len(bio) - 0 >= n
  BY ONLY <1>b, HasRecord(bio, 0) DEF BufInv, HasRecord, HasHeader, SizeAt
<1>3. n \in Nat \ {0, 1}
  <2>1. 1 \in 1 .. Len(bio)
    BY ONLY <1>2
  <2>2. bio[1] \in Units
    BY ONLY <1>2, <2>1, ElementOfSeq
  <2>3. bio[1][1] \in Recs
    BY ONLY <2>2, Zenon DEF Units
  <2> QED BY ONLY <2>3, ZenonT(60) DEF Recs
<1> HIDE DEF n
<1>4. n \in 0 .. Len(bio)
  BY ONLY <1>2, <1>3
<1>5. Rest(bio, n) \in Seq(Units) /\ Len(Rest(bio, n)) = Len(bio) - n
  BY ONLY <1>2, <1>4, RestIs, Zenon
<1>6. BioCap \in Nat /\ BioCap <= InCap /\ InCap \in Nat
  BY TlsAssumption DEF TlsAssumption, InCap
<1>7. /\ Len(inb') <= InCap /\ in_off' \in 0 .. Len(inb') /\ pt_off' \in 0 .. pt_end' /\ pt_end' \in 0 .. Len(inb')
      /\ bio_off' \in 0 .. Len(bio')
  <2>1. Len(Rest(bio, n)) <= InCap /\ 0 \in 0 .. Len(Rest(bio, n)) /\ 0 \in 0 .. 0 /\ Len(bio) \in 0 .. Len(bio)
    BY ONLY <1>2, <1>3, <1>4, <1>5, <1>6
  <2> QED BY ONLY <1>0, <2>1, Zenon
<1>8. BufInv'
  BY ONLY <1>0, <1>1, <1>5, <1>7, <1>b, ZenonT(60) DEF BufInv
<1>9. mb = <<>>
  BY ONLY <1>b, phase = "hello", Zenon DEF UseInv
<1>10. UseInv'
  <2>1. ~(Len(<<>>) > 0)
    OBVIOUS
  <2>2. Own' /\ mb' = <<>> /\ bio_off' = Len(bio')
    BY ONLY <1>0, <1>9, Zenon DEF Own
  <2> QED BY ONLY <1>0, <2>1, <2>2, ZenonT(60) DEF UseInv, SizeAt
<1>11. Ahead = bio
  BY ONLY InputInv, phase = "hello", AheadOfHello, Zenon
<1>12. Ahead' = Rest(bio, n)
  <2>1. Own' /\ Ahead' = Rest(inb', in_off')
    BY ONLY <1>0, Zenon DEF Ahead, Own
  <2>2. 0 \in 0 .. Len(Rest(bio, n))
    BY ONLY <1>0, <1>7, Zenon
  <2>3. Rest(Rest(bio, n), 0) = Rest(bio, n)
    BY ONLY <1>5, <2>2, RestIs, Zenon
  <2> QED BY ONLY <1>0, <2>1, <2>3, Zenon
<1>13. /\ HasRecord(Ahead, 0) /\ Ahead[1][1].kind # "app" /\ Ahead' = Rest(Ahead, Ahead[1][1].size)
  BY ONLY <1>11, <1>12, HasRecord(bio, 0), bio[1][1].kind = "own", Zenon DEF n
<1>14. Later' = Later /\ pc # "close" /\ UNCHANGED <<readVars, ccontent>> /\ pt_off' = pt_end'
  BY ONLY <1>0, <1>1, pc = "hello", UNCHANGED <<clientVars, readVars>>, Zenon DEF Later
<1>15. pt_off = pt_end
  BY ONLY <1>b, phase = "hello", Zenon DEF UseInv, Own
<1> QED BY ONLY <1>8, <1>10, <1>13, <1>14, <1>15, InputInv, DropNext, ZenonT(60)

\* One turn of hs13_hello.
LEMMA HelloInput ==
    ASSUME InputInv, PhaseOfPc, HelloTurn
    PROVE  InputInv'
<1>0. pc = "hello" /\ phase = "hello" /\ UNCHANGED <<clientVars, readVars>> /\ pc # "close"
  BY Zenon DEF HelloTurn, PhaseOfPc
<1>1. csend' = csend /\ ccontent' = ccontent /\ ckey' = ckey /\ cseq' = cseq /\ got' = got
  BY ONLY <1>0 DEF clientVars, readVars
<1>b. BufInv /\ UseInv
  BY ONLY InputInv, Zenon DEF InputInv
<1>2. CASE Defer
  <2>1. /\ phase' = "mbed" /\ sock' = sock /\ bio' = bio /\ bio_off' = bio_off /\ inb' = inb
        /\ in_off' = in_off /\ pt_off' = pt_off /\ pt_end' = pt_end /\ mb' = mb
    BY ONLY <1>2 DEF Defer, bioVars, inVars
  <2>2. BufInv'
    BY ONLY <1>1, <1>b, <2>1, ZenonT(60) DEF BufInv
  <2>3. UseInv'
    BY ONLY <1>0, <1>b, <2>1, ZenonT(60) DEF UseInv, Own, SizeAt
  <2>4. Ahead' \o Later' = Ahead \o Later
    BY ONLY <1>0, <1>1, <2>1, Zenon DEF Ahead, Later, Own
  <2>5. UNCHANGED <<readVars, ccontent>> /\ UNCHANGED <<pt_off, pt_end, inb>>
    BY ONLY <1>0, <1>1, <2>1, Zenon
  <2> QED BY ONLY <1>0, <2>2, <2>3, <2>4, <2>5, InputInv, MoveNext, Zenon
<1>3. CASE HasRecord(bio, 0) /\ bio[1][1].kind = "own" /\ Flight
  BY ONLY <1>0, <1>3, InputInv, FlightInput, Zenon
<1>4. CASE /\ UNCHANGED <<sock, bio, bio_off, inVars, mb, phase>>
  <2>1. UNCHANGED <<inputVars, ckey, cseq>>
    BY ONLY <1>0, <1>4, Zenon DEF inputVars, clientVars, readVars, inVars
  <2> QED BY ONLY <1>0, <1>4, <2>1, InputInv, InputUntouched, Zenon
<1>5. CASE /\ Len(bio) < BioCap /\ UNCHANGED <<bio_off, inVars, mb, phase, pc>>
           /\ bio' = bio \o SubSeq(sock, 1, Received(HelloRoom))
           /\ sock' = SubSeq(sock, Received(HelloRoom) + 1, Len(sock))
  <2> DEFINE m == Received(HelloRoom)
             f == SubSeq(sock, 1, m)
  <2>1. /\ bio' = bio \o f /\ sock' = Rest(sock, m) /\ bio_off' = bio_off /\ inb' = inb /\ in_off' = in_off
        /\ pt_off' = pt_off /\ pt_end' = pt_end /\ mb' = mb /\ phase' = phase /\ pc' = pc
    BY ONLY <1>5 DEF inVars, Rest
  <2>2. /\ bio \in Seq(Units) /\ sock \in Seq(Units) /\ csend \in Seq(Units) /\ Len(bio) <= BioCap
        /\ Len(bio) \in Nat
    BY ONLY <1>b DEF BufInv
  <2>3. HelloRoom \in Nat /\ BioCap \in Nat /\ HelloRoom = BioCap - Len(bio)
    BY ONLY <2>2, TlsAssumption DEF TlsAssumption, HelloRoom
  <2>4. m \in 0 .. Len(sock) /\ m <= HelloRoom
    BY ONLY <2>2, <2>3, ReceivedIs, Zenon
  <2> HIDE DEF m
  <2>5. f \in Seq(Units) /\ Len(f) = m
    BY ONLY <2>2, <2>4, FrontAndRest, Zenon
  <2>6. Rest(sock, m) \in Seq(Units)
    BY ONLY <2>2, <2>4, RestIs, Zenon
  <2> HIDE DEF f
  <2>7. bio \o f \in Seq(Units) /\ Len(bio \o f) = Len(bio) + Len(f)
    BY ONLY <2>2, <2>5, ConcatProperties, Zenon
  <2>8. Len(bio \o f) <= BioCap /\ 0 \in 0 .. Len(bio \o f) /\ m \in Nat
    <3>1. m \in Nat
      BY ONLY <2>4
    <3> QED BY ONLY <2>2, <2>3, <2>4, <2>5, <2>7, <3>1
  <2>9. bio_off' = 0 /\ bio_off = 0 /\ mb = <<>>
    BY ONLY <1>0, <1>b, <2>1, Zenon DEF UseInv
  <2>10. BufInv'
    <3>1. bio' \in Seq(Units) /\ sock' \in Seq(Units) /\ bio_off' \in 0 .. Len(bio') /\ Len(bio') <= BioCap
      BY ONLY <2>1, <2>6, <2>7, <2>8, <2>9, Zenon
    <3> QED BY ONLY <1>1, <1>b, <2>1, <3>1, ZenonT(60) DEF BufInv
  <2>11. UseInv'
    BY ONLY <1>0, <1>b, <2>1, <2>9, ZenonT(60) DEF UseInv, Own, SizeAt
  <2>12. Ahead = bio /\ Ahead' = bio \o f
    <3>1. Ahead = bio
      BY ONLY <1>0, InputInv, AheadOfHello, Zenon
    <3>2. Rest(bio \o f, 0) = bio \o f
      BY ONLY <2>7, <2>8, RestIs, Zenon
    <3>3. <<>> \o (bio \o f) = bio \o f
      <4> DEFINE x == bio \o f
      <4>1. x \in Seq(Units)
        BY ONLY <2>7
      <4> HIDE DEF x
      <4>2. <<>> \o x = x
        BY ONLY <4>1, ConcatEmptySeq, Zenon
      <4> QED BY ONLY <4>2 DEF x
    <3>4. Ahead' = mb' \o Rest(bio', bio_off')
      BY ONLY <1>0, <2>1, Zenon DEF Ahead, Own
    <3>5. mb' = <<>> /\ Rest(bio', bio_off') = bio \o f
      BY ONLY <2>1, <2>9, <3>2, Zenon
    <3> QED BY ONLY <3>1, <3>3, <3>4, <3>5, Zenon
  <2>13. (bio \o f) \o (Rest(sock, m) \o csend) = bio \o (sock \o csend)
    <3>1. MoveKeeps(bio, sock, csend, m)
      BY ONLY <2>2, <2>4, Moved, Zenon
    <3> QED BY ONLY <3>1, Zenon DEF MoveKeeps, f
  <2>14. Ahead' \o Later' = Ahead \o Later
    BY ONLY <1>1, <2>1, <2>12, <2>13, Zenon DEF Later
  <2>15. UNCHANGED <<readVars, ccontent>> /\ UNCHANGED <<pt_off, pt_end, inb>>
    BY ONLY <1>0, <1>1, <2>1, Zenon
  <2> QED BY ONLY <1>0, <2>10, <2>11, <2>14, <2>15, InputInv, MoveNext, Zenon
<1>6. \/ Defer
      \/ HasRecord(bio, 0) /\ bio[1][1].kind = "own" /\ Flight
      \/ UNCHANGED <<sock, bio, bio_off, inVars, mb, phase>>
      \/ /\ Len(bio) < BioCap /\ UNCHANGED <<bio_off, inVars, mb, phase, pc>>
         /\ bio' = bio \o SubSeq(sock, 1, Received(HelloRoom))
         /\ sock' = SubSeq(sock, Received(HelloRoom) + 1, Len(sock))
  <2>1. RecordAt(bio, 0) = bio[1][1]
    <3>1. 0 + 1 = 1
      OBVIOUS
    <3> QED BY ONLY <3>1, Zenon DEF RecordAt
  <2> QED BY ONLY HelloTurn, <2>1, ZenonT(60) DEF HelloTurn, Failed, WantRead, bioVars
<1> QED BY ONLY <1>2, <1>3, <1>4, <1>5, <1>6, Zenon

\* The record layer moves the rest of inb down.
LEMMA CompactInput ==
    ASSUME BufInv, Own, Own', inb' = Rest(inb, in_off), in_off' = 0
    PROVE  /\ inb' \in Seq(Units) /\ in_off' \in 0 .. Len(inb') /\ Len(inb') <= InCap
           /\ Ahead' = Ahead /\ 0 \in 0 .. Len(inb')
<1>1. inb \in Seq(Units) /\ in_off \in 0 .. Len(inb)
  BY ONLY BufInv, Zenon DEF BufInv
<1>2. in_off \in Nat /\ Len(inb) \in Nat /\ in_off <= Len(inb) /\ Len(inb) <= InCap
  BY ONLY BufInv, BufNumbers, Zenon
<1> DEFINE r == Rest(inb, in_off)
<1>3. r \in Seq(Units) /\ Len(r) = Len(inb) - in_off
  BY ONLY <1>1, RestIs, Zenon
<1> HIDE DEF r
<1>4. 0 \in 0 .. Len(r) /\ Len(r) <= InCap
  <2>1. InCap \in Nat
    BY TlsAssumption DEF TlsAssumption, InCap
  <2> QED BY ONLY <1>2, <1>3, <2>1
<1>5. Rest(r, 0) = r
  BY ONLY <1>3, <1>4, RestIs, Zenon
<1>6. inb' = r /\ in_off' = 0
  BY DEF r
<1>7. Ahead' = Rest(inb', in_off') /\ Ahead = r
  BY ONLY Own, Own', Zenon DEF Ahead, r
<1> QED BY ONLY <1>3, <1>4, <1>5, <1>6, <1>7, Zenon

\* It moves the rest down and adds what recv reads.
LEMMA RefillInput ==
    ASSUME BufInv, Own, Own', Refill, csend' = csend
    PROVE  /\ inb' \in Seq(Units) /\ in_off' \in 0 .. Len(inb') /\ Len(inb') <= InCap
           /\ sock' \in Seq(Units) /\ Ahead' \o Later' = Ahead \o Later /\ 0 \in 0 .. Len(inb')
<1> DEFINE r == Rest(inb, in_off)
           m == Received(InCap - Len(r))
           f == SubSeq(sock, 1, m)
<1>0. in_off' = 0 /\ inb' = r \o f /\ sock' = Rest(sock, m)
  BY DEF Refill, Rest
<1>1. inb \in Seq(Units) /\ in_off \in 0 .. Len(inb) /\ sock \in Seq(Units) /\ csend \in Seq(Units)
  BY ONLY BufInv, Zenon DEF BufInv
<1>2. in_off \in Nat /\ Len(inb) \in Nat /\ in_off <= Len(inb) /\ Len(inb) <= InCap
  BY ONLY BufInv, BufNumbers, Zenon
<1>3. r \in Seq(Units) /\ Len(r) = Len(inb) - in_off
  BY ONLY <1>1, RestIs, Zenon
<1>i. InCap \in Nat
  BY TlsAssumption DEF TlsAssumption, InCap
<1>a. Ahead = r
  BY ONLY Own, Zenon DEF Ahead
<1> HIDE DEF r
<1>4. InCap - Len(r) \in Nat /\ Len(r) \in Nat
  BY ONLY <1>2, <1>3, <1>i
<1>5. m \in 0 .. Len(sock) /\ m <= InCap - Len(r)
  BY ONLY <1>1, <1>4, ReceivedIs, Zenon
<1> HIDE DEF m
<1>6. f \in Seq(Units) /\ Len(f) = m
  BY ONLY <1>1, <1>5, FrontAndRest, Zenon
<1>7. Rest(sock, m) \in Seq(Units)
  BY ONLY <1>1, <1>5, RestIs, Zenon
<1>8. (r \o f) \o (Rest(sock, m) \o csend) = r \o (sock \o csend)
  <2>1. MoveKeeps(r, sock, csend, m)
    BY ONLY <1>1, <1>3, <1>5, Moved, Zenon
  <2> QED BY ONLY <2>1, Zenon DEF MoveKeeps
<1> HIDE DEF f
<1>9. r \o f \in Seq(Units) /\ Len(r \o f) = Len(r) + Len(f)
  BY ONLY <1>3, <1>6, ConcatProperties, Zenon
<1>10. Len(r \o f) <= InCap /\ 0 \in 0 .. Len(r \o f)
  <2>1. m \in Nat
    BY ONLY <1>5
  <2> QED BY ONLY <1>4, <1>5, <1>6, <1>9, <1>i, <2>1
<1>11. Rest(r \o f, 0) = r \o f
  BY ONLY <1>9, <1>10, RestIs, Zenon
<1>12. Ahead' = r \o f
  <2>1. Ahead' = Rest(inb', in_off')
    BY ONLY Own', Zenon DEF Ahead
  <2> QED BY ONLY <1>0, <1>11, <2>1, Zenon
<1>13. Ahead' \o Later' = Ahead \o Later
  BY ONLY <1>0, <1>8, <1>12, <1>a, csend' = csend, Zenon DEF Later
<1> QED BY ONLY <1>0, <1>7, <1>9, <1>10, <1>13, Zenon

\* The record layer steps over the next record in inb.
LEMMA SkipRecord ==
    ASSUME BufInv, Own, Own', HasRecord(inb, in_off), inb' = inb,
           in_off' = in_off + inb[in_off + 1][1].size
    PROVE  /\ HasRecord(Ahead, 0) /\ Ahead[1] = inb[in_off + 1]
           /\ Ahead' = Rest(Ahead, Ahead[1][1].size)
           /\ in_off' \in 0 .. Len(inb') /\ inb[in_off + 1][1].size \in Nat \ {0, 1}
           /\ in_off + inb[in_off + 1][1].size <= Len(inb)
<1> DEFINE n == inb[in_off + 1][1].size
<1>1. inb \in Seq(Units) /\ in_off \in 0 .. Len(inb)
  BY ONLY BufInv, Zenon DEF BufInv
<1>2. in_off \in Nat /\ Len(inb) \in Nat
  BY ONLY BufInv, BufNumbers, Zenon
<1>3. Len(inb) > in_off /\ Len(inb) - in_off >= n
  BY ONLY HasRecord(inb, in_off), Zenon DEF HasRecord, HasHeader, SizeAt
<1>4. Ahead = Rest(inb, in_off)
  BY ONLY Own, Zenon DEF Ahead
<1>5. HasRecord(Ahead, 0) /\ Ahead[1] = inb[in_off + 1]
  BY ONLY <1>1, <1>4, HasRecord(inb, in_off), SameRecord, Zenon
<1>6. n \in Nat \ {0, 1}
  <2>1. in_off + 1 \in 1 .. Len(inb)
    BY ONLY <1>2, <1>3
  <2>2. inb[in_off + 1] \in Units
    BY ONLY <1>1, <2>1, ElementOfSeq
  <2>3. inb[in_off + 1][1] \in Recs
    BY ONLY <2>2, Zenon DEF Units
  <2> QED BY ONLY <2>3, ZenonT(60) DEF Recs
<1>7. in_off' = in_off + n
  OBVIOUS
<1>a. Ahead[1][1].size = n
  BY ONLY <1>5, Zenon
<1> HIDE DEF n
<1>8. n \in 0 .. Len(inb) - in_off /\ in_off + n <= Len(inb)
  BY ONLY <1>2, <1>3, <1>6
<1>9. in_off + n \in 0 .. Len(inb) /\ Rest(Rest(inb, in_off), n) = Rest(inb, in_off + n)
  BY ONLY <1>1, <1>8, RestOfRest, Zenon
<1>10. Ahead' = Rest(inb', in_off')
  BY ONLY Own', Zenon DEF Ahead
<1>11. Ahead' = Rest(Ahead, n)
  BY ONLY <1>4, <1>7, <1>9, <1>10, inb' = inb, Zenon
<1> QED BY ONLY <1>5, <1>6, <1>7, <1>8, <1>9, <1>11, <1>a, inb' = inb, Zenon DEF n

\* One turn of hs13_finished.
LEMMA FinishedInput ==
    ASSUME InputInv, PhaseOfPc, FinishedTurn
    PROVE  InputInv'
<1>0. /\ pc = "finished" /\ phase = "finished" /\ pc # "close"
      /\ csend' = csend /\ ccontent' = ccontent /\ ckey' = ckey /\ cseq' = cseq
      /\ bio' = bio /\ bio_off' = bio_off /\ mb' = mb /\ UNCHANGED readVars
  BY DEF FinishedTurn, PhaseOfPc, clientVars, bioVars
<1>g. got' = got
  BY ONLY <1>0, Zenon DEF readVars
<1>b. BufInv /\ UseInv
  BY ONLY InputInv, Zenon DEF InputInv
<1>o. Own /\ pt_off = 0 /\ pt_end = 0 /\ mb = <<>> /\ bio_off = Len(bio)
  BY ONLY <1>0, <1>b, Zenon DEF UseInv, Own
<1>l. ~(Len(<<>>) > 0)
  OBVIOUS
<1>1. ASSUME phase' \in {"finished", "fast"}, phase' = "finished" => pt_off' = 0 /\ pt_end' = 0
      PROVE  Own' /\ UseInv'
  <2>1. Own' /\ mb' = <<>> /\ bio_off' = Len(bio')
    BY ONLY <1>0, <1>1, <1>o, Zenon DEF Own
  <2> QED BY ONLY <1>1, <1>l, <2>1, ZenonT(60) DEF UseInv, SizeAt
<1>2. CASE /\ HasRecord(inb, in_off) /\ inb[in_off + 1][1].kind \in {"ccs", "finished"}
           /\ in_off' = in_off + inb[in_off + 1][1].size
           /\ inb' = inb /\ sock' = sock /\ phase' \in {"finished", "fast"}
           /\ \/ pt_off' = 0 /\ pt_end' = 0
              \/ phase' = "fast" /\ pt_off' = in_off' /\ pt_end' = in_off'
  <2>1. Own' /\ UseInv'
    BY ONLY <1>1, <1>2, Zenon
  <2>2. /\ HasRecord(Ahead, 0) /\ Ahead[1] = inb[in_off + 1]
        /\ Ahead' = Rest(Ahead, Ahead[1][1].size) /\ in_off' \in 0 .. Len(inb')
    BY ONLY <1>2, <1>b, <1>o, <2>1, SkipRecord, Zenon
  <2>3. pt_off' \in 0 .. pt_end' /\ pt_end' \in 0 .. Len(inb')
    <3>1. /\ in_off' \in 0 .. in_off' /\ 0 \in 0 .. 0 /\ 0 \in 0 .. Len(inb')
      <4>1. inb' \in Seq(Units)
        BY ONLY <1>2, <1>b, Zenon DEF BufInv
      <4> QED BY ONLY <2>2, <4>1
    <3> QED BY ONLY <1>2, <2>2, <3>1, Zenon
  <2>4. BufInv'
    BY ONLY <1>0, <1>2, <1>b, <1>g, <2>2, <2>3, ZenonT(60) DEF BufInv
  <2>5. Ahead[1][1].kind # "app" /\ Later' = Later /\ pt_off = pt_end /\ pt_off' = pt_end'
        /\ UNCHANGED <<readVars, ccontent>>
    BY ONLY <1>0, <1>2, <1>o, <2>2, Zenon DEF Later
  <2> QED BY ONLY <1>0, <2>1, <2>2, <2>4, <2>5, InputInv, DropNext, Zenon
<1>3. CASE sock' = sock /\ UNCHANGED inVars /\ phase' = phase
  <2>1. UNCHANGED <<inputVars, ckey, cseq>>
    BY ONLY <1>0, <1>3, Zenon DEF inputVars, inVars
  <2> QED BY ONLY <1>0, <1>3, <2>1, InputInv, InputUntouched, Zenon
<1>4. CASE /\ (Compact /\ sock' = sock) \/ Refill
           /\ pt_off' = pt_off /\ pt_end' = pt_end /\ phase' = phase
  <2>1. Own' /\ UseInv'
    BY ONLY <1>0, <1>1, <1>4, <1>o, Zenon
  <2>2. /\ inb' \in Seq(Units) /\ in_off' \in 0 .. Len(inb') /\ Len(inb') <= InCap
        /\ sock' \in Seq(Units) /\ Ahead' \o Later' = Ahead \o Later /\ 0 \in 0 .. Len(inb')
    <3>1. CASE Compact /\ sock' = sock
      <4>1. inb' = Rest(inb, in_off) /\ in_off' = 0
        BY ONLY <3>1, Zenon DEF Compact, Rest
      <4>2. /\ inb' \in Seq(Units) /\ in_off' \in 0 .. Len(inb') /\ Len(inb') <= InCap
            /\ Ahead' = Ahead /\ 0 \in 0 .. Len(inb')
        BY ONLY <1>b, <1>o, <2>1, <4>1, CompactInput, Zenon
      <4>3. sock' \in Seq(Units) /\ Later' = Later
        BY ONLY <1>0, <1>4, <1>b, <3>1, Zenon DEF BufInv, Later
      <4> QED BY ONLY <4>2, <4>3, Zenon
    <3>2. CASE Refill
      BY ONLY <1>0, <1>b, <1>o, <2>1, <3>2, RefillInput, Zenon
    <3> QED BY ONLY <1>4, <3>1, <3>2, Zenon
  <2>3. pt_off' \in 0 .. pt_end' /\ pt_end' \in 0 .. Len(inb')
    <3>1. 0 \in 0 .. 0
      OBVIOUS
    <3> QED BY ONLY <1>4, <1>o, <2>2, <3>1, Zenon
  <2>4. BufInv'
    BY ONLY <1>0, <1>b, <1>g, <2>2, <2>3, ZenonT(60) DEF BufInv
  <2>5. UNCHANGED <<readVars, ccontent>> /\ pt_off = pt_end /\ pt_off' = pt_end'
    BY ONLY <1>0, <1>4, <1>o, Zenon
  <2> QED BY ONLY <1>0, <2>1, <2>2, <2>4, <2>5, InputInv, MoveNext, Zenon
<1>5. \/ /\ HasRecord(inb, in_off) /\ inb[in_off + 1][1].kind \in {"ccs", "finished"}
         /\ in_off' = in_off + inb[in_off + 1][1].size
         /\ inb' = inb /\ sock' = sock /\ phase' \in {"finished", "fast"}
         /\ \/ pt_off' = 0 /\ pt_end' = 0
            \/ phase' = "fast" /\ pt_off' = in_off' /\ pt_end' = in_off'
      \/ sock' = sock /\ UNCHANGED inVars /\ phase' = phase
      \/ /\ (Compact /\ sock' = sock) \/ Refill
         /\ pt_off' = pt_off /\ pt_end' = pt_end /\ phase' = phase
  <2>1. ASSUME HasRecord(inb, in_off), RecordAt(inb, in_off).kind = "ccs",
               in_off' = in_off + RecordAt(inb, in_off).size,
               UNCHANGED <<sock, room, inb, pt_off, pt_end, drained, rxVars, outVars,
                           txVars, phase, out_armed, pc>>
        PROVE  /\ HasRecord(inb, in_off) /\ inb[in_off + 1][1].kind \in {"ccs", "finished"}
               /\ in_off' = in_off + inb[in_off + 1][1].size
               /\ inb' = inb /\ sock' = sock /\ phase' \in {"finished", "fast"}
               /\ pt_off' = 0 /\ pt_end' = 0
    BY ONLY <1>0, <1>o, <2>1, Zenon DEF RecordAt
  <2>2. ASSUME HasRecord(inb, in_off), RecordAt(inb, in_off).kind = "finished", SwitchKeys
        PROVE  /\ HasRecord(inb, in_off) /\ inb[in_off + 1][1].kind \in {"ccs", "finished"}
               /\ in_off' = in_off + inb[in_off + 1][1].size
               /\ inb' = inb /\ sock' = sock /\ phase' \in {"finished", "fast"}
               /\ phase' = "fast" /\ pt_off' = in_off' /\ pt_end' = in_off'
    BY ONLY <2>2, Zenon DEF RecordAt, SwitchKeys, SizeAt
  <2>3. ASSUME SealedAlert PROVE sock' = sock /\ UNCHANGED inVars /\ phase' = phase
    BY ONLY <2>3, Zenon DEF SealedAlert
  <2> QED BY ONLY FinishedTurn, <2>1, <2>2, <2>3, ZenonT(60) DEF FinishedTurn, WantRead, inVars
<1> QED BY ONLY <1>2, <1>3, <1>4, <1>5, ZenonT(60)

\* The size in the header of the first unit.
LEMMA SizeIsNat ==
    ASSUME NEW a \in Seq(Units), Len(a) > 0
    PROVE  SizeAt(a, 1) \in Nat \ {0, 1}
<1>1. 1 \in 1 .. Len(a)
  OBVIOUS
<1>2. a[1] \in Units
  BY ONLY <1>1, a \in Seq(Units), ElementOfSeq
<1>3. a[1][1] \in Recs
  BY ONLY <1>2, Zenon DEF Units
<1> QED BY ONLY <1>3, ZenonT(60) DEF Recs, SizeAt

\* m is a with the next k units of b from o on: units of one record, with what is
\* left to read behind them.
FetchTo(a, b, o, k, m) ==
    /\ m \in Seq(Units) /\ o + k \in 0 .. Len(b)
    /\ m \o Rest(b, o + k) = a \o Rest(b, o)
    /\ Len(m) > 0 => Len(m) <= SizeAt(m, 1)

\* mbedtls fetches the next units of a record, and never more than it has.
LEMMA Fetched ==
    ASSUME NEW a \in Seq(Units), NEW b \in Seq(Units), NEW o \in 0 .. Len(b), o < Len(b),
           Len(a) > 0 => Len(a) < SizeAt(a, 1), NEW k,
           k = Least(Len(b) - o, IF a = <<>> THEN 1 ELSE SizeAt(a, 1) - Len(a)),
           NEW m, m = a \o SubSeq(b, o + 1, o + k)
    PROVE  FetchTo(a, b, o, k, m)
<1> DEFINE w == IF a = <<>> THEN 1 ELSE SizeAt(a, 1) - Len(a)
           r == Rest(b, o)
           f == SubSeq(b, o + 1, o + k)
<1>0. Len(a) \in Nat /\ Len(b) \in Nat /\ o \in Nat /\ o < Len(b)
  OBVIOUS
<1>1. a # <<>> => Len(a) > 0 /\ SizeAt(a, 1) \in Nat
  <2>1. a # <<>> => Len(a) > 0
    BY ONLY a \in Seq(Units)
  <2> QED BY ONLY <2>1, a \in Seq(Units), SizeIsNat, Zenon
<1>2. w \in Nat /\ w > 0 /\ (a # <<>> => Len(a) + w = SizeAt(a, 1)) /\ (a = <<>> => w = 1)
  <2>1. CASE a = <<>>
    BY ONLY <2>1
  <2>2. CASE a # <<>>
    <3>1. w = SizeAt(a, 1) - Len(a)
      BY ONLY <2>2, Zenon
    <3>2. Len(a) < SizeAt(a, 1) /\ SizeAt(a, 1) \in Nat
      BY ONLY <1>1, <2>2, Len(a) > 0 => Len(a) < SizeAt(a, 1), Zenon
    <3> HIDE DEF w
    <3> QED BY ONLY <1>0, <2>2, <3>1, <3>2
  <2> QED BY ONLY <2>1, <2>2, Zenon
<1>3. k = Least(Len(b) - o, w)
  OBVIOUS
<1> HIDE DEF w
<1>4. k \in Nat /\ k > 0 /\ k <= Len(b) - o /\ k <= w /\ k \in 0 .. Len(b) - o
  BY ONLY <1>0, <1>2, <1>3 DEF Least
<1>5. /\ o + k \in 0 .. Len(b) /\ Rest(r, k) = Rest(b, o + k) /\ SubSeq(r, 1, k) = f
  BY ONLY <1>4, b \in Seq(Units), o \in 0 .. Len(b), RestOfRest, Zenon
<1>6. r \in Seq(Units) /\ Len(r) = Len(b) - o
  BY ONLY b \in Seq(Units), o \in 0 .. Len(b), RestIs, Zenon
<1>m. m = a \o f
  OBVIOUS
<1> HIDE DEF r, f
<1>7. k \in 0 .. Len(r)
  BY ONLY <1>4, <1>6
<1>8. f \in Seq(Units) /\ Len(f) = k /\ f \o Rest(r, k) = r
  BY ONLY <1>5, <1>6, <1>7, FrontAndRest, ZenonT(60)
<1>9. Rest(r, k) \in Seq(Units)
  BY ONLY <1>6, <1>7, RestIs, Zenon
<1>10. m \in Seq(Units) /\ Len(m) = Len(a) + k
  BY ONLY <1>8, <1>m, a \in Seq(Units), ConcatProperties, Zenon
<1>11. m \o Rest(r, k) = a \o r
  <2> DEFINE e == Rest(r, k)
  <2>1. e \in Seq(Units)
    BY ONLY <1>9
  <2>2. f \o e = r
    BY ONLY <1>8
  <2> HIDE DEF e
  <2>3. IsAssociative(Units)
    BY ONLY Associative, Zenon
  <2>4. (a \o f) \o e = a \o (f \o e)
    BY ONLY <1>8, <2>1, <2>3, a \in Seq(Units), ZenonT(60) DEF IsAssociative
  <2> QED BY ONLY <2>2, <2>4, <1>m, Zenon DEF e
<1>12. Len(m) <= SizeAt(m, 1)
  <2>1. CASE a = <<>>
    <3>1. Len(m) = 1
      <4>1. Len(a) = 0
        BY ONLY <2>1
      <4> QED BY ONLY <1>10, <1>2, <1>4, <2>1, <4>1
    <3>2. SizeAt(m, 1) \in Nat \ {0, 1}
      <4>1. Len(m) > 0
        BY ONLY <3>1
      <4> QED BY ONLY <1>10, <4>1, SizeIsNat, Zenon
    <3> QED BY ONLY <3>1, <3>2
  <2>2. CASE a # <<>>
    <3>1. m[1] = a[1]
      BY ONLY <1>m, <1>0, <1>1, <2>2, <1>8, a \in Seq(Units), ConcatProperties
    <3>2. SizeAt(m, 1) = SizeAt(a, 1)
      BY ONLY <3>1, Zenon DEF SizeAt
    <3>3. /\ Len(a) + w = SizeAt(a, 1) /\ w \in Nat /\ k <= w /\ Len(m) = Len(a) + k
          /\ SizeAt(a, 1) \in Nat /\ k \in Nat
      BY ONLY <1>1, <1>2, <1>4, <1>10, <2>2, ZenonT(60)
    <3> QED BY ONLY <1>0, <3>2, <3>3
  <2> QED BY ONLY <2>1, <2>2, Zenon
<1>13. m \o Rest(b, o + k) = a \o Rest(b, o)
  BY ONLY <1>5, <1>11, Zenon DEF r
<1> QED BY ONLY <1>5, <1>10, <1>12, <1>13, Zenon DEF FetchTo

\* One call of viltrum_tls_recv.
LEMMA BioInput ==
    ASSUME InputInv, phase \in {"mbed", "mbed_open"}, pc # "close", ~MbedHasRecord, BioRecv,
           UNCHANGED <<clientVars, inVars, phase, readVars>>
    PROVE  InputInv'
<1>0. /\ csend' = csend /\ ccontent' = ccontent /\ ckey' = ckey /\ cseq' = cseq
      /\ inb' = inb /\ in_off' = in_off /\ pt_off' = pt_off /\ pt_end' = pt_end
      /\ phase' = phase /\ got' = got /\ wrong' = wrong
  BY ONLY UNCHANGED <<clientVars, inVars, phase, readVars>>, Zenon
     DEF clientVars, inVars, readVars
<1>b. BufInv /\ UseInv
  BY ONLY InputInv, Zenon DEF InputInv
<1>p. ~Own /\ ~Own' /\ phase # "hello" /\ phase # "closed"
  BY ONLY <1>0, phase \in {"mbed", "mbed_open"}, ZenonT(60) DEF Own
<1>t. /\ bio \in Seq(Units) /\ mb \in Seq(Units) /\ sock \in Seq(Units) /\ csend \in Seq(Units)
      /\ bio_off \in 0 .. Len(bio)
  BY ONLY <1>b, Zenon DEF BufInv
<1>a. Ahead = mb \o Rest(bio, bio_off) /\ Ahead' = mb' \o Rest(bio', bio_off')
  BY ONLY <1>p, Zenon DEF Ahead
<1>1. ASSUME /\ mb' \in Seq(Units) /\ bio' \in Seq(Units) /\ sock' \in Seq(Units)
             /\ bio_off' \in 0 .. Len(bio') /\ Len(bio') <= BioCap
             /\ Len(mb') > 0 => Len(mb') <= SizeAt(mb', 1)
             /\ Ahead' \o Later' = Ahead \o Later
      PROVE  InputInv'
  <2>1. BufInv'
    BY ONLY <1>0, <1>1, <1>b, ZenonT(60) DEF BufInv
  <2>2. UseInv'
    BY ONLY <1>0, <1>1, <1>b, <1>p, ZenonT(60) DEF UseInv, Own, SizeAt
  <2>3. UNCHANGED <<readVars, ccontent>> /\ UNCHANGED <<pt_off, pt_end, inb>>
    BY ONLY <1>0, Zenon DEF readVars
  <2> QED BY ONLY <2>1, <2>2, <2>3, <1>1, InputInv, pc # "close", MoveNext, Zenon
<1>2. CASE /\ bio_off < Len(bio)
           /\ LET k == Least(Len(bio) - bio_off, MbedWants)
              IN  mb' = mb \o SubSeq(bio, bio_off + 1, bio_off + k) /\ bio_off' = bio_off + k
           /\ UNCHANGED <<sock, bio>>
  <2> DEFINE k == Least(Len(bio) - bio_off, MbedWants)
  <2>1. /\ bio_off < Len(bio) /\ mb' = mb \o SubSeq(bio, bio_off + 1, bio_off + k)
        /\ bio_off' = bio_off + k /\ sock' = sock /\ bio' = bio
    BY ONLY <1>2, Zenon
  <2>2. k = Least(Len(bio) - bio_off, IF mb = <<>> THEN 1 ELSE SizeAt(mb, 1) - Len(mb))
    BY ONLY Zenon DEF MbedWants
  <2>3. Len(mb) > 0 => Len(mb) < SizeAt(mb, 1)
    <3>1. Len(mb) > 0 => Len(mb) <= SizeAt(mb, 1)
      BY ONLY <1>b, Zenon DEF UseInv
    <3>2. Len(mb) > 0 => SizeAt(mb, 1) \in Nat
      BY ONLY <1>t, SizeIsNat, Zenon
    <3>3. Len(mb) > 0 => ~(Len(mb) - 0 >= SizeAt(mb, 1))
      <4>1. 0 + 1 = 1
        OBVIOUS
      <4> QED BY ONLY ~MbedHasRecord, <4>1, Zenon DEF MbedHasRecord, HasRecord, HasHeader
    <3>4. Len(mb) \in Nat
      BY ONLY <1>t
    <3> QED BY ONLY <3>1, <3>2, <3>3, <3>4
  <2> HIDE DEF k
  <2>4. /\ mb' \in Seq(Units) /\ bio_off + k \in 0 .. Len(bio)
        /\ mb' \o Rest(bio, bio_off + k) = mb \o Rest(bio, bio_off)
        /\ Len(mb') > 0 => Len(mb') <= SizeAt(mb', 1)
    <3>1. FetchTo(mb, bio, bio_off, k, mb')
      BY ONLY <1>t, <2>1, <2>2, <2>3, Fetched, ZenonT(60)
    <3> QED BY ONLY <3>1, Zenon DEF FetchTo
  <2>5. Ahead' \o Later' = Ahead \o Later
    BY ONLY <1>0, <1>a, <2>1, <2>4, Zenon DEF Later
  <2>6. Len(bio) <= BioCap
    BY ONLY <1>b, Zenon DEF BufInv
  <2> QED BY ONLY <1>1, <1>t, <2>1, <2>4, <2>5, <2>6, Zenon
<1>3. CASE UNCHANGED <<sock, bio, bio_off, mb>>
  <2>1. UNCHANGED <<inputVars, ckey, cseq>>
    BY ONLY <1>0, <1>3, Zenon DEF inputVars, readVars
  <2> QED BY ONLY <1>0, <2>1, InputInv, pc # "close", InputUntouched, Zenon
<1>4. CASE /\ bio_off = Len(bio) /\ bio' = SubSeq(sock, 1, Received(BioCap)) /\ bio_off' = 0
           /\ sock' = SubSeq(sock, Received(BioCap) + 1, Len(sock)) /\ mb' = mb
  <2> DEFINE m == Received(BioCap)
             f == SubSeq(sock, 1, m)
  <2>c. BioCap \in Nat
    BY TlsAssumption DEF TlsAssumption
  <2>1. m \in 0 .. Len(sock) /\ m <= BioCap
    BY ONLY <1>t, <2>c, ReceivedIs, Zenon
  <2>2. bio' = f /\ sock' = Rest(sock, m) /\ bio_off' = 0 /\ mb' = mb
    BY ONLY <1>4, Zenon DEF Rest
  <2> HIDE DEF m
  <2>3. f \in Seq(Units) /\ Len(f) = m
    BY ONLY <1>t, <2>1, FrontAndRest, Zenon
  <2>4. Rest(sock, m) \in Seq(Units)
    BY ONLY <1>t, <2>1, RestIs, Zenon
  <2>5. (mb \o f) \o (Rest(sock, m) \o csend) = mb \o (sock \o csend)
    <3>1. MoveKeeps(mb, sock, csend, m)
      BY ONLY <1>t, <2>1, Moved, Zenon
    <3> QED BY ONLY <3>1, Zenon DEF MoveKeeps
  <2> HIDE DEF f
  <2>6. 0 \in 0 .. Len(f)
    BY ONLY <2>3
  <2>7. Rest(f, 0) = f
    BY ONLY <2>3, <2>6, RestIs, Zenon
  <2>8. Rest(bio, bio_off) = <<>> /\ mb \o <<>> = mb
    <3>1. Rest(bio, Len(bio)) = <<>>
      BY ONLY <1>t, RestIs, Zenon
    <3>2. mb \o <<>> = mb
      BY ONLY <1>t, ConcatEmptySeq
    <3> QED BY ONLY <1>4, <3>1, <3>2, Zenon
  <2>9. Ahead' \o Later' = Ahead \o Later
    BY ONLY <1>0, <1>a, <2>2, <2>5, <2>7, <2>8, Zenon DEF Later
  <2>10. Len(mb') > 0 => Len(mb') <= SizeAt(mb', 1)
    BY ONLY <1>b, <2>2, Zenon DEF UseInv, SizeAt
  <2> QED BY ONLY <1>1, <1>t, <2>1, <2>2, <2>3, <2>4, <2>6, <2>9, <2>10, ZenonT(60)
<1> QED BY ONLY BioRecv, <1>2, <1>3, <1>4, ZenonT(60) DEF BioRecv

\* A whole record in mb is all that mb holds.
LEMMA MbedHead ==
    ASSUME BufInv, UseInv, ~Own, MbedHasRecord
    PROVE  /\ HasRecord(Ahead, 0) /\ Ahead[1] = mb[1] /\ Ahead[2] = mb[2]
           /\ Rest(Ahead, Ahead[1][1].size) = Rest(bio, bio_off)
           /\ Rest(bio, bio_off) \in Seq(Units)
<1> DEFINE r == Rest(bio, bio_off)
           n == Len(mb)
           z == SizeAt(mb, 1)
<1>1. mb \in Seq(Units) /\ bio \in Seq(Units) /\ bio_off \in 0 .. Len(bio)
  BY ONLY BufInv, Zenon DEF BufInv
<1>2. r \in Seq(Units)
  BY ONLY <1>1, RestIs, Zenon
<1>3. Ahead = mb \o r
  BY ONLY ~Own, Zenon DEF Ahead
<1>4. n \in Nat /\ n > 0 /\ n >= z
  <2>1. n > 0 /\ n - 0 >= z
    <3>1. 0 + 1 = 1
      OBVIOUS
    <3> QED BY ONLY MbedHasRecord, <3>1, Zenon DEF MbedHasRecord, HasRecord, HasHeader
  <2>2. n \in Nat
    BY ONLY <1>1
  <2>3. z \in Nat \ {0, 1}
    BY ONLY <1>1, <2>1, SizeIsNat, Zenon
  <2> HIDE DEF n, z
  <2> QED BY ONLY <2>1, <2>2, <2>3
<1>5. n <= z
  BY ONLY <1>4, UseInv, Zenon DEF UseInv
<1>6. z \in Nat \ {0, 1}
  BY ONLY <1>1, <1>4, SizeIsNat, Zenon
<1> HIDE DEF r
<1>7. n = z /\ n >= 2
  <2> HIDE DEF n, z
  <2> QED BY ONLY <1>4, <1>5, <1>6
<1>8. /\ Ahead \in Seq(Units) /\ Len(Ahead) = Len(mb) + Len(r)
      /\ Ahead[1] = mb[1] /\ Ahead[2] = mb[2]
  <2>1. Ahead \in Seq(Units) /\ Len(Ahead) = Len(mb) + Len(r)
    BY ONLY <1>1, <1>2, <1>3, ConcatProperties, Zenon
  <2>2. 1 \in 1 .. Len(mb) /\ 2 \in 1 .. Len(mb)
    BY ONLY <1>4, <1>7
  <2> QED BY ONLY <1>1, <1>2, <1>3, <2>1, <2>2, ConcatProperties
<1>9. HasRecord(Ahead, 0)
  <2>1. Len(r) \in Nat
    BY ONLY <1>2
  <2>2. 0 + 1 = 1
    OBVIOUS
  <2>3. SizeAt(Ahead, 1) = Len(mb)
    BY ONLY <1>7, <1>8, Zenon DEF SizeAt
  <2>4. Len(Ahead) > 0 /\ Len(Ahead) - 0 >= Len(mb)
    BY ONLY <1>4, <1>8, <2>1
  <2> QED BY ONLY <2>2, <2>3, <2>4, Zenon DEF HasRecord, HasHeader
<1>10. Rest(Ahead, Len(mb)) = r
  <2>1. Len(mb) \in 0 .. Len(mb)
    BY ONLY <1>4
  <2>2. Rest(mb \o r, Len(mb)) = Rest(mb, Len(mb)) \o r
    BY ONLY <1>1, <1>2, <2>1, RestOfConcat, Zenon
  <2>3. Rest(mb, Len(mb)) = <<>>
    BY ONLY <1>1, <2>1, RestIs, Zenon
  <2>4. <<>> \o r = r
    BY ONLY <1>2, ConcatEmptySeq
  <2> QED BY ONLY <1>3, <2>2, <2>3, <2>4, Zenon
<1>11. Ahead[1][1].size = Len(mb)
  BY ONLY <1>7, <1>8, Zenon DEF SizeAt
<1> QED BY ONLY <1>2, <1>8, <1>9, <1>10, <1>11, Zenon DEF r

\* mbedtls takes a record of the handshake.
LEMMA MbedTakes ==
    ASSUME InputInv, PhaseOfPc, MbedTurn, MbedHasRecord
    PROVE  InputInv'
<1>0. /\ pc = "mbed" /\ phase = "mbed" /\ pc # "close" /\ mb' = <<>>
      /\ csend' = csend /\ ccontent' = ccontent /\ ckey' = ckey /\ cseq' = cseq
      /\ sock' = sock /\ bio' = bio /\ got' = got /\ UNCHANGED readVars
  BY DEF MbedTurn, PhaseOfPc, clientVars, readVars
<1>b. BufInv /\ UseInv
  BY ONLY InputInv, Zenon DEF InputInv
<1>o. ~Own
  BY ONLY <1>0, Zenon DEF Own
<1>u. inb = <<>> /\ in_off = 0 /\ pt_off = 0 /\ pt_end = 0
  BY ONLY <1>b, <1>o, Zenon DEF UseInv
<1>l. ~(Len(<<>>) > 0) /\ <<>> \in Seq(Units)
  OBVIOUS
<1>h. /\ HasRecord(Ahead, 0) /\ Ahead[1] = mb[1]
      /\ Rest(Ahead, Ahead[1][1].size) = Rest(bio, bio_off)
      /\ Rest(bio, bio_off) \in Seq(Units)
  BY ONLY <1>b, <1>o, MbedHasRecord, MbedHead, Zenon
<1>k. RecordAt(mb, 0) = mb[1][1]
  <2>1. 0 + 1 = 1
    OBVIOUS
  <2> QED BY ONLY <2>1, Zenon DEF RecordAt
<1>1. ASSUME UNCHANGED <<inVars, bio_off>>, phase' \in {"mbed", "mbed_open"}
      PROVE  BufInv' /\ UseInv' /\ Ahead' = Rest(bio, bio_off)
  <2>1. /\ inb' = inb /\ in_off' = in_off /\ pt_off' = pt_off /\ pt_end' = pt_end
        /\ bio_off' = bio_off
    BY ONLY <1>1, Zenon DEF inVars
  <2>2. BufInv'
    BY ONLY <1>0, <1>b, <1>l, <2>1, ZenonT(60) DEF BufInv
  <2>3. ~Own'
    BY ONLY <1>1, ZenonT(60) DEF Own
  <2>4. UseInv'
    BY ONLY <1>0, <1>1, <1>l, <1>u, <2>1, <2>3, ZenonT(60) DEF UseInv, Own
  <2>5. Ahead' = <<>> \o Rest(bio, bio_off)
    BY ONLY <1>0, <2>1, <2>3, ZenonT(60) DEF Ahead
  <2>6. <<>> \o Rest(bio, bio_off) = Rest(bio, bio_off)
    BY ONLY <1>h, ConcatEmptySeq
  <2> QED BY ONLY <2>2, <2>4, <2>5, <2>6, Zenon
<1>2. CASE /\ mb[1][1].kind # "app" /\ UNCHANGED <<inVars, bio_off>>
           /\ phase' \in {"mbed", "mbed_open"}
  <2>1. BufInv' /\ UseInv' /\ Ahead' = Rest(bio, bio_off)
    BY ONLY <1>1, <1>2, Zenon
  <2>2. pt_off = pt_end /\ pt_off' = pt_end' /\ Later' = Later
    BY ONLY <1>0, <1>2, <1>u, Zenon DEF inVars, Later
  <2>3. /\ Ahead[1][1].kind # "app" /\ Ahead' = Rest(Ahead, Ahead[1][1].size)
        /\ UNCHANGED <<readVars, ccontent>>
    BY ONLY <1>0, <1>2, <1>h, <2>1, Zenon
  <2> QED BY ONLY <1>0, <1>h, <2>1, <2>2, <2>3, InputInv, DropNext, Zenon
<1>3. CASE /\ mb[1][1].kind # "app" /\ phase' = "fast"
           /\ inb' = Rest(bio, bio_off) /\ bio_off' = Len(bio)
           /\ in_off' = 0 /\ pt_off' = 0 /\ pt_end' = 0
  <2>1. Own'
    BY ONLY <1>3, Zenon DEF Own
  <2>2. /\ bio_off' \in 0 .. Len(bio') /\ Len(inb') <= InCap
        /\ 0 \in 0 .. Len(inb') /\ 0 \in 0 .. 0
    <3>1. /\ bio \in Seq(Units) /\ bio_off \in 0 .. Len(bio)
      BY ONLY <1>b, Zenon DEF BufInv
    <3>2. Len(Rest(bio, bio_off)) = Len(bio) - bio_off
      BY ONLY <3>1, RestIs, Zenon
    <3>3. Len(inb') = Len(bio) - bio_off
      BY ONLY <1>3, <3>2, Zenon
    <3>4. Len(bio) \in Nat /\ bio_off \in Nat /\ bio_off <= Len(bio) /\ Len(bio) <= BioCap
      BY ONLY <1>b, BufNumbers, Zenon
    <3>5. BioCap \in Nat /\ InCap \in Nat /\ BioCap <= InCap
      BY TlsAssumption DEF TlsAssumption, InCap
    <3>6. bio_off' \in 0 .. Len(bio)
      BY ONLY <1>3, <3>4
    <3>7. Len(bio) - bio_off <= InCap /\ 0 \in 0 .. Len(bio) - bio_off /\ 0 \in 0 .. 0
      BY ONLY <3>4, <3>5
    <3> QED BY ONLY <1>0, <3>3, <3>6, <3>7, Zenon
  <2>3. BufInv'
    BY ONLY <1>0, <1>3, <1>b, <1>h, <1>l, <2>2, ZenonT(60) DEF BufInv
  <2>4. UseInv'
    BY ONLY <1>0, <1>3, <1>l, <2>1, ZenonT(60) DEF UseInv
  <2>5. Ahead' = Rest(inb', 0)
    BY ONLY <1>3, <2>1, Zenon DEF Ahead
  <2>6. Rest(inb', 0) = inb'
    BY ONLY <1>3, <1>h, <2>2, RestIs, Zenon
  <2>7. pt_off = pt_end /\ pt_off' = pt_end' /\ Later' = Later
    BY ONLY <1>0, <1>3, <1>u, Zenon DEF Later
  <2>8. /\ Ahead[1][1].kind # "app" /\ Ahead' = Rest(Ahead, Ahead[1][1].size)
        /\ UNCHANGED <<readVars, ccontent>>
    BY ONLY <1>0, <1>3, <1>h, <2>5, <2>6, Zenon
  <2> QED BY ONLY <1>0, <1>h, <2>3, <2>4, <2>7, <2>8, InputInv, DropNext, Zenon
<1>4. CASE pc' = "close" /\ UNCHANGED <<inVars, bio_off, phase>>
  <2>1. BufInv' /\ UseInv'
    BY ONLY <1>0, <1>1, <1>4, Zenon
  <2>2. UNCHANGED <<readVars, pt_off, pt_end, inb>>
    BY ONLY <1>0, <1>4, Zenon DEF inVars
  <2> QED BY ONLY <1>4, <2>1, <2>2, InputInv, CloseNext, Zenon
<1>5. \/ /\ mb[1][1].kind # "app" /\ UNCHANGED <<inVars, bio_off>>
         /\ phase' \in {"mbed", "mbed_open"}
      \/ /\ mb[1][1].kind # "app" /\ phase' = "fast"
         /\ inb' = Rest(bio, bio_off) /\ bio_off' = Len(bio)
         /\ in_off' = 0 /\ pt_off' = 0 /\ pt_end' = 0
      \/ pc' = "close" /\ UNCHANGED <<inVars, bio_off, phase>>
  <2>1. ASSUME GoFast
        PROVE  \/ /\ UNCHANGED <<inVars, bio_off>> /\ phase' \in {"mbed", "mbed_open"}
               \/ /\ phase' = "fast"
                  /\ inb' = Rest(bio, bio_off) /\ bio_off' = Len(bio)
                  /\ in_off' = 0 /\ pt_off' = 0 /\ pt_end' = 0
    BY ONLY <2>1, ZenonT(60) DEF GoFast, Rest
  <2> QED BY ONLY MbedTurn, MbedHasRecord, <1>0, <1>k, <2>1, ZenonT(60) DEF MbedTurn
<1> QED BY ONLY <1>2, <1>3, <1>4, <1>5, ZenonT(60)

\* The record at the front of the input, when no content is in hand.
LEMMA HeadIs ==
    ASSUME InputInv, pc # "close", HasRecord(Ahead, 0), pt_off = pt_end
    PROVE  LET r == Ahead[1][1]
           IN  /\ r \in Recs /\ r.at = got /\ r.size \in Nat \ {0, 1} /\ r.size \in 0 .. Len(Ahead)
               /\ \A j \in 1 .. r.size : Ahead[j] = <<r, j>>
               /\ Whole(Rest(Ahead, r.size) \o Later, After(r), ccontent)
<1> DEFINE r == Ahead[1][1]
<1>1. /\ Whole(Ahead \o Later, got + (pt_end - pt_off), ccontent) /\ BufInv
  BY ONLY InputInv, pc # "close", Zenon DEF InputInv, StreamInv, Input
<1>2. got \in Nat /\ pt_end \in Nat /\ ccontent \in Nat
  BY ONLY <1>1, BufNumbers, Zenon
<1>3. got + (pt_end - pt_end) = got
  BY ONLY <1>2, NoneInHand, Zenon
<1>4. Whole(Ahead \o Later, got, ccontent)
  BY ONLY <1>1, <1>3, pt_off = pt_end, Zenon
<1>5. Ahead \in Seq(Units) /\ Later \in Seq(Units)
  BY ONLY <1>1, InputTyped, Zenon
<1>6. /\ r \in Recs /\ r.at = got /\ r.size \in Nat \ {0, 1} /\ r.size \in 0 .. Len(Ahead)
      /\ \A j \in 1 .. r.size : Ahead[j] = <<r, j>>
      /\ Rest(Ahead, r.size) \in Seq(Units)
      /\ Whole(Rest(Ahead, r.size) \o Later, After(r), ccontent)
  BY ONLY <1>2, <1>4, <1>5, HasRecord(Ahead, 0), Dropped, Zenon
<1> QED BY ONLY <1>6, Zenon

\* The content of a record that starts at number g.
LEMMA ContentCount ==
    ASSUME NEW g \in Nat, NEW z \in Nat \ {0, 1}
    PROVE  /\ g + z - 1 = g + (z - 1) /\ g + (z - 1) \in Nat /\ g + 2 - 2 = g
           /\ 1 \in 1 .. z /\ 2 \in 1 .. z
OBVIOUS

\* mbedtls_ssl_read: a call of recv, or a record's content goes to the worker.
LEMMA MbedReadInput ==
    ASSUME InputInv, PhaseOfPc, MbedRead
    PROVE  InputInv'
<1>0. /\ pc = "read" /\ phase = "mbed_open" /\ pc # "close" /\ UNCHANGED <<clientVars, inVars, phase>>
      /\ csend' = csend /\ ccontent' = ccontent /\ ckey' = ckey /\ cseq' = cseq
      /\ inb' = inb /\ in_off' = in_off /\ pt_off' = pt_off /\ pt_end' = pt_end
  BY DEF MbedRead, clientVars, inVars
<1>b. BufInv /\ UseInv /\ wrong = FALSE
  BY ONLY InputInv, Zenon DEF InputInv, StreamInv
<1>o. ~Own /\ ~Own'
  BY ONLY <1>0, Zenon DEF Own
<1>u. inb = <<>> /\ in_off = 0 /\ pt_off = 0 /\ pt_end = 0
  BY ONLY <1>b, <1>o, Zenon DEF UseInv
<1>1. CASE ~MbedHasRecord
  <2>1. BioRecv /\ UNCHANGED readVars
    BY ONLY <1>1, MbedRead, Zenon DEF MbedRead
  <2> QED BY ONLY <1>0, <1>1, <2>1, InputInv, BioInput, Zenon
<1>2. CASE MbedHasRecord
  <2>0. /\ mb' = <<>> /\ sock' = sock /\ bio' = bio /\ bio_off' = bio_off
    BY ONLY <1>2, MbedRead, Zenon DEF MbedRead, bioVars
  <2>l. ~(Len(<<>>) > 0) /\ <<>> \in Seq(Units)
    OBVIOUS
  <2>h. /\ HasRecord(Ahead, 0) /\ Ahead[1] = mb[1] /\ Ahead[2] = mb[2]
        /\ Rest(Ahead, Ahead[1][1].size) = Rest(bio, bio_off)
        /\ Rest(bio, bio_off) \in Seq(Units)
    BY ONLY <1>b, <1>2, <1>o, MbedHead, Zenon
  <2>u. UseInv'
    BY ONLY <1>0, <1>o, <1>u, <2>0, <2>l, ZenonT(60) DEF UseInv
  <2>1. ASSUME got' \in Nat
        PROVE  BufInv'
    BY ONLY <1>0, <1>b, <2>0, <2>1, <2>l, ZenonT(60) DEF BufInv
  <2>2. CASE pc' = "close" /\ UNCHANGED readVars
    <3>1. got' \in Nat
      BY ONLY <1>b, <2>2, Zenon DEF BufInv, readVars
    <3>2. UNCHANGED <<readVars, pt_off, pt_end, inb>>
      BY ONLY <1>0, <2>2, Zenon
    <3> QED BY ONLY <2>1, <2>2, <2>u, <3>1, <3>2, InputInv, CloseNext, Zenon
  <2>3. CASE /\ mb[1][1].kind = "app"
             /\ wrong' = (wrong \/ got # mb[2][1].at + mb[2][2] - 2 \/ mb[2][1].kind # "app")
             /\ got' = got + (mb[1][1].size - 1)
    <3> DEFINE r == Ahead[1][1]
    <3>1. /\ r.at = got /\ r.size \in Nat \ {0, 1}
          /\ \A j \in 1 .. r.size : Ahead[j] = <<r, j>>
          /\ Whole(Rest(Ahead, r.size) \o Later, After(r), ccontent)
      <4>1. pt_off = pt_end
        BY ONLY <1>u, Zenon
      <4> QED BY ONLY <1>0, <2>h, <4>1, InputInv, HeadIs, Zenon
    <3>r. r = mb[1][1]
      BY ONLY <2>h, Zenon
    <3>x. Rest(Ahead, r.size) = Rest(bio, bio_off)
      BY ONLY <2>h, Zenon
    <3> HIDE DEF r
    <3>n. got \in Nat
      BY ONLY <1>b, Zenon DEF BufInv
    <3>2. /\ got + r.size - 1 = got + (r.size - 1) /\ got + (r.size - 1) \in Nat
          /\ got + 2 - 2 = got /\ 1 \in 1 .. r.size /\ 2 \in 1 .. r.size
      BY ONLY <3>1, <3>n, ContentCount, Zenon
    <3>3. After(r) = got'
      <4>1. After(r) = r.at + r.size - 1
        BY ONLY <2>3, <3>r, Zenon DEF After
      <4> QED BY ONLY <2>3, <3>1, <3>2, <3>r, <4>1, Zenon
    <3>4. wrong' = FALSE
      <4>1. mb[2] = <<r, 2>>
        BY ONLY <2>h, <3>1, <3>2, Zenon
      <4>2. <<r, 2>>[1] = r /\ <<r, 2>>[2] = 2
        OBVIOUS
      <4>3. mb[2][1] = r /\ mb[2][2] = 2
        BY ONLY <4>1, <4>2, Zenon
      <4>4. got = mb[2][1].at + mb[2][2] - 2 /\ mb[2][1].kind = "app"
        BY ONLY <2>3, <3>1, <3>2, <3>r, <4>3, Zenon
      <4> QED BY ONLY <1>b, <2>3, <4>4, Zenon
    <3>5. got' \in Nat
      BY ONLY <2>3, <3>2, <3>r, Zenon
    <3>6. BufInv'
      BY ONLY <2>1, <3>5, Zenon
    <3>7. Ahead' = Rest(bio, bio_off)
      <4>1. Ahead' = <<>> \o Rest(bio, bio_off)
        BY ONLY <1>o, <2>0, ZenonT(60) DEF Ahead
      <4>2. <<>> \o Rest(bio, bio_off) = Rest(bio, bio_off)
        BY ONLY <2>h, ConcatEmptySeq, Zenon
      <4> QED BY ONLY <4>1, <4>2, Zenon
    <3>8. Whole(Input', got', ccontent')
      <4>1. Later' = Later
        BY ONLY <1>0, <2>0, Zenon DEF Later
      <4> QED BY ONLY <1>0, <3>1, <3>3, <3>7, <3>x, <4>1, Zenon DEF Input
    <3>9. pt_off' = 0 /\ pt_end' = 0 /\ 0 \in Nat
      BY ONLY <1>0, <1>u
    <3>10. got' + (0 - 0) = got' /\ \A i \in 0 + 1 .. 0 : FALSE
      BY ONLY <3>5, <3>9, NoneInHand, Zenon
    <3>11. got' = got' + (pt_end' - pt_off')
      BY ONLY <3>9, <3>10, Zenon
    <3>12. \A i \in pt_off' + 1 .. pt_end' : IsContent(inb'[i], got' + (i - pt_off' - 1))
      BY ONLY <3>9, <3>10, Zenon
    <3> QED BY ONLY <2>u, <3>4, <3>5, <3>6, <3>8, <3>11, <3>12, InputNext, Zenon
  <2>4. RecordAt(mb, 0) = mb[1][1]
    <3>1. 0 + 1 = 1
      OBVIOUS
    <3> QED BY ONLY <3>1, Zenon DEF RecordAt
  <2> QED BY ONLY <1>2, <2>2, <2>3, <2>4, MbedRead, ZenonT(60) DEF MbedRead, HandOut
<1> QED BY ONLY <1>1, <1>2, ZenonT(60)

\* mbedtls_ssl_handshake: a call of recv, or a record.
LEMMA MbedInput ==
    ASSUME InputInv, PhaseOfPc, MbedTurn
    PROVE  InputInv'
<1>1. CASE ~MbedHasRecord
  <2>1. /\ BioRecv /\ UNCHANGED <<clientVars, inVars, phase, readVars>>
        /\ phase = "mbed" /\ pc # "close"
    BY ONLY <1>1, PhaseOfPc, MbedTurn, ZenonT(60) DEF MbedTurn, PhaseOfPc
  <2> QED BY ONLY <1>1, <2>1, InputInv, BioInput, Zenon
<1>2. CASE MbedHasRecord
  BY ONLY <1>2, InputInv, PhaseOfPc, MbedTurn, MbedTakes, Zenon
<1> QED BY ONLY <1>1, <1>2, Zenon

\* A unit of content goes from the hand to the worker.
LEMMA HandCount ==
    ASSUME NEW g \in Nat, NEW a \in Nat, NEW b \in Nat, a < b
    PROVE  /\ (g + 1) + (b - (a + 1)) = g + (b - a) /\ g + (b - a) \in Nat /\ g + 1 \in Nat
           /\ g + ((a + 1) - a - 1) = g /\ a + 1 \in a + 1 .. b /\ a + 1 \in 0 .. b
           /\ \A i \in (a + 1) + 1 .. b :
                  i \in a + 1 .. b /\ (g + 1) + (i - (a + 1) - 1) = g + (i - a - 1)
OBVIOUS

\* Content in hand is handed out.
LEMMA ContentInput ==
    ASSUME InputInv, ReadContent
    PROVE  InputInv'
<1>0. /\ pc = "read" /\ phase = "fast" /\ pt_off < pt_end /\ pt_off' = pt_off + 1 /\ pc # "close"
      /\ wrong' = (wrong \/ got # inb[pt_off + 1][1].at + inb[pt_off + 1][2] - 2
                         \/ inb[pt_off + 1][1].kind # "app")
      /\ got' = got + 1
      /\ csend' = csend /\ ccontent' = ccontent /\ ckey' = ckey /\ cseq' = cseq
      /\ inb' = inb /\ in_off' = in_off /\ pt_end' = pt_end /\ mb' = mb /\ sock' = sock
      /\ bio' = bio /\ bio_off' = bio_off /\ phase' = phase
  BY ONLY ReadContent, ZenonT(60) DEF ReadContent, HandOut, clientVars, bioVars
<1>b. BufInv /\ UseInv /\ wrong = FALSE
  BY ONLY InputInv, Zenon DEF InputInv, StreamInv
<1>w. Whole(Input, got + (pt_end - pt_off), ccontent)
  BY ONLY <1>0, InputInv, Zenon DEF InputInv, StreamInv
<1>c. \A i \in pt_off + 1 .. pt_end : IsContent(inb[i], got + (i - pt_off - 1))
  BY ONLY InputInv, Zenon DEF InputInv, StreamInv
<1>n. got \in Nat /\ pt_off \in Nat /\ pt_end \in Nat
  BY ONLY <1>b, BufNumbers, Zenon
<1>1. /\ (got + 1) + (pt_end - (pt_off + 1)) = got + (pt_end - pt_off)
      /\ got + (pt_end - pt_off) \in Nat /\ got + 1 \in Nat
      /\ got + ((pt_off + 1) - pt_off - 1) = got
      /\ pt_off + 1 \in pt_off + 1 .. pt_end /\ pt_off + 1 \in 0 .. pt_end
      /\ \A i \in (pt_off + 1) + 1 .. pt_end :
             /\ i \in pt_off + 1 .. pt_end
             /\ (got + 1) + (i - (pt_off + 1) - 1) = got + (i - pt_off - 1)
  <2>1. pt_off < pt_end
    BY ONLY <1>0, Zenon
  <2> QED BY ONLY <1>n, <2>1, HandCount
<1>2. IsContent(inb[pt_off + 1], got)
  <2>1. IsContent(inb[pt_off + 1], got + ((pt_off + 1) - pt_off - 1))
    BY ONLY <1>1, <1>c, Zenon
  <2> QED BY ONLY <1>1, <2>1, Zenon
<1>3. wrong' = FALSE
  BY ONLY <1>0, <1>2, <1>b, Zenon DEF IsContent
<1>4. BufInv'
  BY ONLY <1>0, <1>1, <1>b, ZenonT(60) DEF BufInv
<1>5. UseInv'
  BY ONLY <1>0, <1>b, ZenonT(60) DEF UseInv, Own, SizeAt
<1>6. got + (pt_end - pt_off) = got' + (pt_end' - pt_off')
  BY ONLY <1>0, <1>1, Zenon
<1>7. Whole(Input', got + (pt_end - pt_off), ccontent')
  <2>1. Input' = Input
    BY ONLY <1>0, Zenon DEF Input, Ahead, Later, Own
  <2> QED BY ONLY <1>0, <1>w, <2>1, Zenon
<1>8. \A i \in pt_off' + 1 .. pt_end' : IsContent(inb'[i], got' + (i - pt_off' - 1))
  <2>1. \A i \in (pt_off + 1) + 1 .. pt_end : IsContent(inb[i], (got + 1) + (i - (pt_off + 1) - 1))
    BY ONLY <1>1, <1>c, Zenon
  <2> QED BY ONLY <1>0, <2>1, Zenon
<1> QED BY ONLY <1>1, <1>3, <1>4, <1>5, <1>6, <1>7, <1>8, InputNext, Zenon

\* The numbers of the content of a record of z units at o, when g came before.
LEMMA OpenCount ==
    ASSUME NEW g \in Nat, NEW o \in Nat, NEW z \in Nat \ {0, 1}
    PROVE  /\ g + z - 1 = g + ((o + z) - (o + 1)) /\ g + z - 1 \in Nat
           /\ o + 1 \in 0 .. o + z /\ o + z \in Nat
           /\ \A i \in (o + 1) + 1 .. o + z :
                  /\ i - o \in 1 .. z /\ o + (i - o) = i
                  /\ g + (i - o) - 2 = g + (i - (o + 1) - 1)
OBVIOUS

\* open_next of a whole record.
LEMMA OpenInput ==
    ASSUME InputInv, OpenNext
    PROVE  InputInv'
<1> DEFINE r == inb[in_off + 1][1]
<1>0. /\ pc = "read" /\ phase = "fast" /\ pt_off >= pt_end /\ pc # "close" /\ HasRecord(inb, in_off)
      /\ csend' = csend /\ ccontent' = ccontent /\ ckey' = ckey /\ cseq' = cseq
      /\ inb' = inb /\ mb' = mb /\ sock' = sock
      /\ bio' = bio /\ bio_off' = bio_off /\ phase' = phase /\ got' = got /\ wrong' = wrong
      /\ UNCHANGED readVars
  BY ONLY OpenNext, ZenonT(60) DEF OpenNext, clientVars, bioVars, connVars, readVars
<1>b. BufInv /\ UseInv /\ wrong = FALSE
  BY ONLY InputInv, Zenon DEF InputInv, StreamInv
<1>n. /\ got \in Nat /\ pt_off \in Nat /\ pt_end \in Nat /\ pt_off <= pt_end /\ in_off \in Nat
      /\ pt_end <= Len(inb) /\ Len(inb) \in Nat
  BY ONLY <1>b, BufNumbers, Zenon
<1>p. pt_off = pt_end
  BY ONLY <1>0, <1>n
<1>o. Own /\ Own'
  BY ONLY <1>0, Zenon DEF Own
<1>u. UseInv'
  BY ONLY <1>0, <1>b, <1>o, ZenonT(60) DEF UseInv, SizeAt
<1>1. ASSUME in_off' = in_off + r.size
      PROVE  /\ HasRecord(Ahead, 0) /\ Ahead[1] = inb[in_off + 1]
             /\ Ahead' = Rest(Ahead, Ahead[1][1].size)
             /\ in_off' \in 0 .. Len(inb') /\ r.size \in Nat \ {0, 1}
             /\ in_off + r.size <= Len(inb)
  BY ONLY <1>0, <1>1, <1>b, <1>o, SkipRecord, Zenon
<1>2. ASSUME in_off' \in 0 .. Len(inb'), pt_off' \in 0 .. pt_end', pt_end' \in 0 .. Len(inb')
      PROVE  BufInv'
  BY ONLY <1>0, <1>2, <1>b, ZenonT(60) DEF BufInv
<1>3. CASE r.kind = "app" /\ ContentOf(in_off, r.size) /\ in_off' = in_off + r.size
  <2>1. pt_off' = in_off + 1 /\ pt_end' = in_off + r.size /\ in_off' = in_off + r.size
    BY ONLY <1>3, Zenon DEF ContentOf
  <2>2. /\ HasRecord(Ahead, 0) /\ Ahead[1] = inb[in_off + 1]
        /\ Ahead' = Rest(Ahead, Ahead[1][1].size)
        /\ in_off' \in 0 .. Len(inb') /\ r.size \in Nat \ {0, 1}
        /\ in_off + r.size <= Len(inb)
    BY ONLY <1>1, <2>1, Zenon
  <2>3. LET h == Ahead[1][1]
        IN  /\ h \in Recs /\ h.at = got /\ h.size \in Nat \ {0, 1} /\ h.size \in 0 .. Len(Ahead)
            /\ \A j \in 1 .. h.size : Ahead[j] = <<h, j>>
            /\ Whole(Rest(Ahead, h.size) \o Later, After(h), ccontent)
    BY ONLY <1>0, <1>p, <2>2, InputInv, HeadIs, Zenon
  <2>4. /\ r.at = got /\ \A j \in 1 .. r.size : Ahead[j] = <<r, j>>
        /\ Whole(Ahead' \o Later, After(r), ccontent)
    BY ONLY <2>2, <2>3, Zenon
  <2>k. r.kind = "app"
    BY ONLY <1>3
  <2>a. \A j \in 1 .. r.size : Ahead[j] = inb[in_off + j]
    <3>1. Ahead = Rest(inb, in_off)
      BY ONLY <1>o, Zenon DEF Ahead
    <3>2. inb \in Seq(Units) /\ in_off \in 0 .. Len(inb)
      BY ONLY <1>b, Zenon DEF BufInv
    <3>3. \A i \in 1 .. Len(inb) - in_off : Rest(inb, in_off)[i] = inb[in_off + i]
      BY ONLY <3>2, RestIs, Zenon
    <3>z. r.size \in Nat /\ in_off + r.size <= Len(inb)
      BY ONLY <2>2, Zenon
    <3> HIDE DEF r
    <3>4. \A j \in 1 .. r.size : j \in 1 .. Len(inb) - in_off
      BY ONLY <1>n, <3>z
    <3> QED BY ONLY <3>1, <3>3, <3>4, Zenon
  <2> HIDE DEF r
  <2>5. /\ got + r.size - 1 = got + ((in_off + r.size) - (in_off + 1)) /\ got + r.size - 1 \in Nat
        /\ in_off + 1 \in 0 .. in_off + r.size /\ in_off + r.size \in Nat
        /\ \A i \in (in_off + 1) + 1 .. in_off + r.size :
               /\ i - in_off \in 1 .. r.size /\ in_off + (i - in_off) = i
               /\ got + (i - in_off) - 2 = got + (i - (in_off + 1) - 1)
    <3>1. got \in Nat /\ in_off \in Nat /\ r.size \in Nat \ {0, 1}
      BY ONLY <1>n, <2>2, Zenon
    <3> QED BY ONLY <3>1, OpenCount
  <2>6. BufInv'
    <3>1. pt_off' \in 0 .. pt_end'
      BY ONLY <2>1, <2>5, Zenon
    <3>2. pt_end' \in 0 .. Len(inb')
      BY ONLY <2>1, <2>2, Zenon
    <3> QED BY ONLY <1>2, <2>2, <3>1, <3>2, Zenon
  <2>7. After(r) = got + r.size - 1
    BY ONLY <2>4, <2>k, Zenon DEF After
  <2>8. got + r.size - 1 = got' + (pt_end' - pt_off')
    BY ONLY <1>0, <2>1, <2>5, Zenon
  <2>9. Whole(Input', got + r.size - 1, ccontent')
    <3>1. Later' = Later
      BY ONLY <1>0, Zenon DEF Later
    <3> QED BY ONLY <1>0, <2>4, <2>7, <3>1, Zenon DEF Input
  <2>10. \A i \in pt_off' + 1 .. pt_end' : IsContent(inb'[i], got' + (i - pt_off' - 1))
    <3>1. ASSUME NEW i \in (in_off + 1) + 1 .. in_off + r.size
          PROVE  IsContent(inb[i], got + (i - (in_off + 1) - 1))
      <4> DEFINE j == i - in_off
      <4>1. j \in 1 .. r.size /\ in_off + j = i /\ got + j - 2 = got + (i - (in_off + 1) - 1)
        BY ONLY <2>5, Zenon
      <4> HIDE DEF j
      <4>2. inb[i] = <<r, j>>
        BY ONLY <2>4, <2>a, <4>1, Zenon
      <4>3. <<r, j>>[1] = r /\ <<r, j>>[2] = j
        OBVIOUS
      <4>4. inb[i][1] = r /\ inb[i][2] = j
        BY ONLY <4>2, <4>3, Zenon
      <4> QED BY ONLY <2>4, <2>k, <4>1, <4>4, Zenon DEF IsContent
    <3>2. \A i \in (in_off + 1) + 1 .. in_off + r.size :
              IsContent(inb[i], got + (i - (in_off + 1) - 1))
      BY ONLY <3>1, Zenon
    <3> QED BY ONLY <1>0, <2>1, <3>2, Zenon
  <2>11. wrong' = FALSE
    BY ONLY <1>0, <1>b, Zenon
  <2> QED BY ONLY <1>u, <2>5, <2>6, <2>8, <2>9, <2>10, <2>11, InputNext, Zenon
<1>4. CASE /\ r.kind # "app" /\ in_off' = in_off + r.size /\ pt_off' = pt_off /\ pt_end' = pt_end
  <2>1. /\ HasRecord(Ahead, 0) /\ Ahead[1] = inb[in_off + 1]
        /\ Ahead' = Rest(Ahead, Ahead[1][1].size) /\ in_off' \in 0 .. Len(inb')
    BY ONLY <1>1, <1>4, Zenon
  <2>2. BufInv'
    <3>1. pt_off' \in 0 .. pt_end' /\ pt_end' \in 0 .. Len(inb')
      BY ONLY <1>0, <1>4, <1>b, Zenon DEF BufInv
    <3> QED BY ONLY <1>2, <2>1, <3>1, Zenon
  <2>3. /\ Ahead[1][1].kind # "app" /\ Later' = Later /\ pt_off' = pt_end'
        /\ UNCHANGED <<readVars, ccontent>>
    BY ONLY <1>0, <1>4, <1>p, <2>1, Zenon DEF Later
  <2> QED BY ONLY <1>0, <1>p, <1>u, <2>1, <2>2, <2>3, InputInv, DropNext, Zenon
<1>5. CASE in_off' = in_off /\ pt_off' = pt_off /\ pt_end' = pt_end
  <2>1. UNCHANGED <<inputVars, ckey, cseq>>
    BY ONLY <1>0, <1>5, Zenon DEF inputVars
  <2> QED BY ONLY <1>0, <2>1, InputInv, InputUntouched, Zenon
<1>6. RecordAt(inb, in_off) = r
  BY ONLY Zenon DEF RecordAt
<1> QED BY ONLY <1>3, <1>4, <1>5, <1>6, OpenNext, ZenonT(60) DEF OpenNext

\* read13 without a whole record.
LEMMA MoreInput ==
    ASSUME InputInv, ReadMore
    PROVE  InputInv'
<1>0. /\ pc = "read" /\ phase = "fast" /\ pt_off >= pt_end /\ pc # "close"
      /\ csend' = csend /\ ccontent' = ccontent /\ ckey' = ckey /\ cseq' = cseq /\ mb' = mb
      /\ bio' = bio /\ bio_off' = bio_off /\ phase' = phase /\ UNCHANGED readVars
  BY ONLY ReadMore, ZenonT(60) DEF ReadMore, clientVars, bioVars, connVars
<1>g. got' = got
  BY ONLY <1>0, Zenon DEF readVars
<1>b. BufInv /\ UseInv
  BY ONLY InputInv, Zenon DEF InputInv
<1>p. pt_off = pt_end
  <2>1. pt_off \in Nat /\ pt_end \in Nat /\ pt_off <= pt_end
    BY ONLY <1>b, BufNumbers, Zenon
  <2> QED BY ONLY <1>0, <2>1
<1>o. Own /\ Own'
  BY ONLY <1>0, Zenon DEF Own
<1>u. UseInv'
  BY ONLY <1>0, <1>b, <1>o, ZenonT(60) DEF UseInv, SizeAt
<1>1. CASE UNCHANGED <<sock, inVars>>
  <2>1. UNCHANGED <<inputVars, ckey, cseq>>
    BY ONLY <1>0, <1>1, Zenon DEF inputVars, inVars
  <2> QED BY ONLY <1>0, <2>1, InputInv, InputUntouched, Zenon
<1>2. CASE /\ (Compact /\ sock' = sock) \/ Refill
           /\ pt_off' = 0 /\ pt_end' = 0
  <2>2. /\ inb' \in Seq(Units) /\ in_off' \in 0 .. Len(inb') /\ Len(inb') <= InCap
        /\ sock' \in Seq(Units) /\ Ahead' \o Later' = Ahead \o Later /\ 0 \in 0 .. Len(inb')
    <3>1. CASE Compact /\ sock' = sock
      <4>1. inb' = Rest(inb, in_off) /\ in_off' = 0
        BY ONLY <3>1, Zenon DEF Compact, Rest
      <4>2. /\ inb' \in Seq(Units) /\ in_off' \in 0 .. Len(inb') /\ Len(inb') <= InCap
            /\ Ahead' = Ahead /\ 0 \in 0 .. Len(inb')
        BY ONLY <1>b, <1>o, <4>1, CompactInput, Zenon
      <4>3. sock' \in Seq(Units) /\ Later' = Later
        BY ONLY <1>0, <1>b, <3>1, Zenon DEF BufInv, Later
      <4> QED BY ONLY <4>2, <4>3, Zenon
    <3>2. CASE Refill
      BY ONLY <1>0, <1>b, <1>o, <3>2, RefillInput, Zenon
    <3> QED BY ONLY <1>2, <3>1, <3>2, Zenon
  <2>3. pt_off' \in 0 .. pt_end' /\ pt_end' \in 0 .. Len(inb')
    <3>1. 0 \in 0 .. 0
      OBVIOUS
    <3> QED BY ONLY <1>2, <2>2, <3>1, Zenon
  <2>4. BufInv'
    BY ONLY <1>0, <1>b, <1>g, <2>2, <2>3, ZenonT(60) DEF BufInv
  <2>5. UNCHANGED <<readVars, ccontent>> /\ pt_off' = pt_end'
    BY ONLY <1>0, <1>2, Zenon
  <2> QED BY ONLY <1>0, <1>p, <1>u, <2>2, <2>4, <2>5, InputInv, MoveNext, Zenon
<1> QED BY ONLY <1>1, <1>2, ReadMore, ZenonT(60) DEF ReadMore

\* Nothing, anywhere, is a row of whole records.
LEMMA EmptyInput ==
    /\ <<>> \in Seq(Units) /\ Len(<<>>) = 0 /\ ~(Len(<<>>) > 0) /\ 0 \in 0 .. Len(<<>>)
    /\ 0 \in 0 .. 0 /\ 0 \in Nat
    /\ Rest(<<>>, 0) = <<>> /\ <<>> \o <<>> = <<>> /\ Whole(<<>>, 0, 0)
    /\ 0 = 0 + (0 - 0) /\ \A i \in 0 + 1 .. 0 : FALSE
    /\ Len(<<>>) <= BioCap /\ Len(<<>>) <= InCap
<1>1. /\ <<>> \in Seq(Units) /\ Len(<<>>) = 0 /\ ~(Len(<<>>) > 0) /\ 0 \in 0 .. Len(<<>>)
      /\ 0 \in 0 .. 0 /\ 0 \in Nat /\ 0 = 0 + (0 - 0)
  OBVIOUS
<1>2. \A i \in 0 + 1 .. 0 : FALSE
  OBVIOUS
<1>3. Rest(<<>>, 0) = <<>>
  BY ONLY <1>1, RestIs, Zenon
<1>4. <<>> \o <<>> = <<>>
  BY ONLY <1>1, ConcatEmptySeq
<1>5. \A i \in 1 .. Len(<<>>) : FALSE
  OBVIOUS
<1>6. Whole(<<>>, 0, 0)
  BY ONLY <1>1, <1>5, Zenon DEF Whole
<1>7. BioCap \in Nat /\ InCap \in Nat
  BY TlsAssumption DEF TlsAssumption, InCap
<1>8. Len(<<>>) <= BioCap /\ Len(<<>>) <= InCap
  BY ONLY <1>1, <1>7
<1> QED BY ONLY <1>1, <1>2, <1>3, <1>4, <1>6, <1>8, Zenon

\* A connection before its first byte and after its last: every buffer is empty.
Emptied ==
    /\ inb = <<>> /\ in_off = 0 /\ pt_off = 0 /\ pt_end = 0
    /\ bio = <<>> /\ bio_off = 0 /\ mb = <<>> /\ csend = <<>> /\ sock = <<>>
    /\ ccontent = 0 /\ ckey = 0 /\ cseq = 0 /\ got = 0 /\ wrong = FALSE
    /\ phase \in {"hello", "closed"}

\* An empty connection is in order.
LEMMA EmptiedInput == Emptied => InputInv
<1> SUFFICES ASSUME Emptied PROVE InputInv
  OBVIOUS
<1>1. BufInv
  BY ONLY Emptied, EmptyInput, ZenonT(60) DEF Emptied, BufInv
<1>o. ~Own
  BY ONLY Emptied, ZenonT(60) DEF Emptied, Own
<1>2. UseInv
  BY ONLY <1>o, Emptied, EmptyInput, ZenonT(60) DEF Emptied, UseInv
<1>3. Input = <<>>
  BY ONLY <1>o, Emptied, EmptyInput, ZenonT(60) DEF Emptied, Input, Ahead, Later
<1>4. got + (pt_end - pt_off) = 0 /\ ccontent = 0
  BY ONLY Emptied, EmptyInput, Zenon DEF Emptied
<1>5. Whole(Input, got + (pt_end - pt_off), ccontent)
  BY ONLY <1>3, <1>4, EmptyInput, Zenon
<1>6. \A i \in pt_off + 1 .. pt_end : IsContent(inb[i], got + (i - pt_off - 1))
  BY ONLY Emptied, EmptyInput, Zenon DEF Emptied
<1>7. StreamInv
  BY ONLY <1>5, <1>6, Emptied, Zenon DEF StreamInv, Emptied
<1> QED BY ONLY <1>1, <1>2, <1>7, Zenon DEF InputInv

\* The input invariant holds at first.
LEMMA InputInit == TlsInit => InputInv
<1>1. TlsInit => Emptied
  BY ONLY ZenonT(60) DEF TlsInit, Emptied
<1> QED BY ONLY <1>1, EmptiedInput, Zenon

\* TlsConn.close empties everything.
LEMMA CloseInput ==
    ASSUME InputInv, Close
    PROVE  InputInv'
<1>1. wrong = FALSE
  BY ONLY InputInv, Zenon DEF InputInv, StreamInv
<1>2. Emptied'
  BY ONLY Close, <1>1, ZenonT(60) DEF Close, Emptied
<1>3. Emptied' => InputInv'
  BY EmptiedInput, PTL
<1> QED BY ONLY <1>2, <1>3, Zenon

\* tls_start finds everything empty.
LEMMA ReconnectInput ==
    ASSUME InputInv, Reconnect
    PROVE  InputInv'
<1>0. /\ phase = "closed" /\ phase' = "hello" /\ pc' = pc
      /\ csend' = csend /\ ccontent' = ccontent /\ ckey' = ckey /\ cseq' = cseq
      /\ inb' = inb /\ in_off' = in_off /\ pt_off' = pt_off /\ pt_end' = pt_end
      /\ mb' = mb /\ sock' = sock /\ bio' = bio /\ bio_off' = bio_off
      /\ got' = got /\ wrong' = wrong
  BY ONLY Reconnect, ZenonT(60) DEF Reconnect, clientVars, inVars, readVars
<1>b. BufInv /\ UseInv /\ StreamInv
  BY ONLY InputInv, Zenon DEF InputInv
<1>o. ~Own /\ ~Own'
  BY ONLY <1>0, ZenonT(60) DEF Own
<1>1. BufInv'
  BY ONLY <1>0, <1>b, ZenonT(60) DEF BufInv
<1>2. UseInv'
  BY ONLY <1>0, <1>b, <1>o, EmptyInput, ZenonT(60) DEF UseInv
<1>3. Input' = Input
  BY ONLY <1>0, <1>o, Zenon DEF Input, Ahead, Later
<1>4. pc' # "close" => Whole(Input', got' + (pt_end' - pt_off'), ccontent')
  BY ONLY <1>0, <1>3, <1>b, Zenon DEF StreamInv
<1>5. \A i \in pt_off' + 1 .. pt_end' : IsContent(inb'[i], got' + (i - pt_off' - 1))
  BY ONLY <1>0, <1>b, Zenon DEF StreamInv
<1>6. wrong' = FALSE
  BY ONLY <1>0, <1>b, Zenon DEF StreamInv
<1>7. StreamInv'
  BY ONLY <1>4, <1>5, <1>6, Zenon DEF StreamInv, Whole, RecordFrom, IsContent, After
<1> QED BY ONLY <1>1, <1>2, <1>7, Zenon DEF InputInv

\* Every step keeps the input in order.
LEMMA InputInvStep == KeyInv /\ InputInv /\ [TlsNext]_tlsVars => InputInv'
<1> SUFFICES ASSUME KeyInv, InputInv, [TlsNext]_tlsVars PROVE InputInv'
  OBVIOUS
<1>0. PhaseOfPc
  BY ONLY KeyInv, Zenon DEF KeyInv
<1>1. CASE UNCHANGED tlsVars
  <2>1. UNCHANGED <<inputVars, ckey, cseq>> /\ phase' = phase /\ pc' = pc
    BY ONLY <1>1, ZenonT(60)
       DEF tlsVars, inputVars, clientVars, bioVars, inVars, connVars, readVars
  <2> QED BY ONLY <2>1, InputInv, InputUntouched, Zenon
<1>2. CASE \/ ClientReads \/ ClientShutdown \/ Drop \/ Event \/ Timer \/ FlightTurn
           \/ FlushOut \/ FlushWrite \/ SealKeyUpdate \/ SealContent \/ SendSealed \/ MbedWrite
           \/ FlushEnd
  BY ONLY <1>0, <1>2, InputInv, QuietInput, Zenon
<1>3. CASE SendHello \/ SendClear \/ SendFinished \/ SendApp
  BY ONLY <1>0, <1>3, InputInv, ClientInput, Zenon
<1>4. CASE Arrive
  BY ONLY <1>0, <1>4, InputInv, ArriveInput, Zenon
<1>5. CASE Settle
  BY ONLY <1>5, InputInv, SettleInput, Zenon
<1>6. CASE HelloTurn
  BY ONLY <1>0, <1>6, InputInv, HelloInput, Zenon
<1>7. CASE FinishedTurn
  BY ONLY <1>0, <1>7, InputInv, FinishedInput, Zenon
<1>8. CASE MbedTurn
  BY ONLY <1>0, <1>8, InputInv, MbedInput, Zenon
<1>9. CASE ReadContent
  BY ONLY <1>9, InputInv, ContentInput, Zenon
<1>10. CASE OpenNext
  BY ONLY <1>10, InputInv, OpenInput, Zenon
<1>11. CASE ReadMore
  BY ONLY <1>11, InputInv, MoreInput, Zenon
<1>12. CASE MbedRead
  BY ONLY <1>0, <1>12, InputInv, MbedReadInput, Zenon
<1>13. CASE Close
  BY ONLY <1>13, InputInv, CloseInput, Zenon
<1>14. CASE Reconnect
  BY ONLY <1>14, InputInv, ReconnectInput, Zenon
<1> QED BY ONLY <1>1, <1>2, <1>3, <1>4, <1>5, <1>6, <1>7, <1>8, <1>9, <1>10, <1>11, <1>12, <1>13,
                <1>14, [TlsNext]_tlsVars, ZenonT(60) DEF TlsNext, Client, Worker

\* A worker that waits, or is about to, has handled every whole record.  A
\* session of mbedtls has none in mbedtls' hands while it writes, either.
WaitInv ==
    /\ phase \in {"mbed", "mbed_open"} /\ pc \in {"idle", "settle", "flush"} => ~MbedHasRecord
    /\ pc \in {"idle", "settle"} /\ ~out_armed =>
          /\ phase = "hello" => ~HasRecord(bio, 0)
          /\ phase # "flight"
          /\ phase \in {"finished", "fast"} => ~HasRecord(inb, in_off) /\ pt_off = pt_end
          /\ phase \in {"mbed", "mbed_open"} => bio_off = Len(bio)

\* An empty buffer has no record.
LEMMA NoRecord == ~HasRecord(<<>>, 0)
BY ONLY EmptyInput, Zenon DEF HasRecord, HasHeader

\* Moving what is left of inb down does not make a record whole.
LEMMA CompactWaits ==
    ASSUME BufInv, ~HasRecord(inb, in_off), Compact
    PROVE  ~HasRecord(inb', in_off')
<1>1. inb \in Seq(Units) /\ in_off \in 0 .. Len(inb)
  BY ONLY BufInv, Zenon DEF BufInv
<1>2. ~HasRecord(Rest(inb, in_off), 0)
  BY ONLY <1>1, ~HasRecord(inb, in_off), SameRecord, Zenon
<1>3. inb' = Rest(inb, in_off) /\ in_off' = 0
  BY ONLY Compact, Zenon DEF Compact, Rest
<1> QED BY ONLY <1>2, <1>3, Zenon

\* Who goes on working waits for nothing.
LEMMA NotWaiting ==
    ASSUME pc' \notin {"idle", "settle", "flush"}
    PROVE  WaitInv'
BY ONLY pc' \notin {"idle", "settle", "flush"}, ZenonT(60) DEF WaitInv

\* What a waiting worker looks at.
waitVars == <<pc, phase, out_armed, bio, bio_off, inb, in_off, pt_off, pt_end, mb>>

\* A step elsewhere changes nothing for a worker that waits.
LEMMA WaitUntouched ==
    ASSUME WaitInv, UNCHANGED waitVars
    PROVE  WaitInv'
BY ONLY WaitInv, UNCHANGED waitVars, ZenonT(60)
   DEF WaitInv, waitVars, MbedHasRecord, HasRecord, HasHeader, SizeAt

\* The worker goes on to write with mbedtls' buffer as it was.
LEMMA ToFlush ==
    ASSUME pc' = "flush", phase' \in {"mbed", "mbed_open"} => ~HasRecord(mb', 0)
    PROVE  WaitInv'
<1>1. ~(pc' \in {"idle", "settle"})
  BY ONLY pc' = "flush", ZenonT(60)
<1> QED BY ONLY <1>1, phase' \in {"mbed", "mbed_open"} => ~HasRecord(mb', 0), ZenonT(60)
        DEF WaitInv, MbedHasRecord, HasRecord, HasHeader, SizeAt

\* The worker stops until the socket takes more.
LEMMA ToArmed ==
    ASSUME out_armed' = TRUE, phase' \in {"mbed", "mbed_open"} => ~HasRecord(mb', 0)
    PROVE  WaitInv'
BY ONLY out_armed' = TRUE, phase' \in {"mbed", "mbed_open"} => ~HasRecord(mb', 0), ZenonT(60)
   DEF WaitInv, MbedHasRecord, HasRecord, HasHeader, SizeAt

\* The worker of a session of the record layer stops with its input handled.
LEMMA ToRest ==
    ASSUME phase' \in {"finished", "fast"}, ~HasRecord(inb', in_off'), pt_off' = pt_end'
    PROVE  WaitInv'
<1>1. /\ ~(phase' \in {"mbed", "mbed_open"}) /\ phase' # "hello" /\ phase' # "flight"
  BY ONLY phase' \in {"finished", "fast"}, ZenonT(60)
<1> QED BY ONLY <1>1, ~HasRecord(inb', in_off'), pt_off' = pt_end', ZenonT(60)
        DEF WaitInv, HasRecord, HasHeader, SizeAt

\* The worker of a session of mbedtls stops with its input handled.
LEMMA ToMbedRest ==
    ASSUME phase' \in {"mbed", "mbed_open"}, ~HasRecord(mb', 0), bio_off' = Len(bio')
    PROVE  WaitInv'
<1>1. /\ ~(phase' \in {"finished", "fast"}) /\ phase' # "hello" /\ phase' # "flight"
  BY ONLY phase' \in {"mbed", "mbed_open"}, ZenonT(60)
<1> QED BY ONLY <1>1, ~HasRecord(mb', 0), bio_off' = Len(bio'), ZenonT(60)
        DEF WaitInv, MbedHasRecord, HasRecord, HasHeader, SizeAt

\* The worker waits for the rest of a hello.
LEMMA ToHelloRest ==
    ASSUME phase' = "hello", ~HasRecord(bio', 0)
    PROVE  WaitInv'
<1>1. ~(phase' \in {"finished", "fast"}) /\ ~(phase' \in {"mbed", "mbed_open"}) /\ phase' # "flight"
  BY ONLY phase' = "hello", ZenonT(60)
<1> QED BY ONLY <1>1, ~HasRecord(bio', 0), ZenonT(60)
        DEF WaitInv, HasRecord, HasHeader, SizeAt

\* viltrum_tls_recv says WANT_READ only when it has nothing left to give.
LEMMA BioWaits ==
    ASSUME WaitInv, BioRecv, ~MbedHasRecord, phase' = phase, phase \in {"mbed", "mbed_open"},
           pc \in {"mbed", "read"}
    PROVE  WaitInv'
<1>0. ~HasRecord(mb, 0)
  BY ONLY ~MbedHasRecord, Zenon DEF MbedHasRecord
<1>1. CASE pc' = pc \/ pc' = "close"
  <2>1. pc' \notin {"idle", "settle", "flush"}
    BY ONLY <1>1, pc \in {"mbed", "read"}, ZenonT(60)
  <2> QED BY ONLY <2>1, NotWaiting, Zenon
<1>2. CASE bio_off = Len(bio) /\ UNCHANGED <<bio, bio_off, mb>>
  <2>1. phase' \in {"mbed", "mbed_open"} /\ ~HasRecord(mb', 0) /\ bio_off' = Len(bio')
    BY ONLY <1>0, <1>2, phase' = phase, phase \in {"mbed", "mbed_open"}, Zenon
  <2> QED BY ONLY <2>1, ToMbedRest, Zenon
<1> QED BY ONLY <1>1, <1>2, BioRecv, ZenonT(60) DEF BioRecv

\* tls_settle frees only what is empty.
LEMMA SettleWaits ==
    ASSUME WaitInv, Settle
    PROVE  WaitInv'
<1>0. /\ pc = "settle" /\ pc' = "idle" /\ mb' = mb /\ phase' = phase /\ out_armed' = out_armed
      /\ \/ inb' = <<>> /\ in_off' = 0 /\ pt_off' = 0 /\ pt_end' = 0
         \/ UNCHANGED <<inb, in_off, pt_off, pt_end>>
      /\ phase # "fast" => bio' = bio /\ bio_off' = bio_off
  BY ONLY Settle, ZenonT(60) DEF Settle
<1>1. /\ phase \in {"mbed", "mbed_open"} => ~HasRecord(mb, 0)
      /\ ~out_armed =>
          /\ phase = "hello" => ~HasRecord(bio, 0)
          /\ phase # "flight"
          /\ phase \in {"finished", "fast"} => ~HasRecord(inb, in_off) /\ pt_off = pt_end
          /\ phase \in {"mbed", "mbed_open"} => bio_off = Len(bio)
  BY ONLY <1>0, WaitInv, ZenonT(60) DEF WaitInv, MbedHasRecord
<1>2. phase' \in {"mbed", "mbed_open"} => ~HasRecord(mb', 0)
  BY ONLY <1>0, <1>1, Zenon
<1>3. phase' = "hello" /\ ~out_armed' => ~HasRecord(bio', 0)
  <2>1. phase = "hello" => phase # "fast"
    BY ONLY Zenon
  <2> QED BY ONLY <1>0, <1>1, <2>1, Zenon
<1>4. ~out_armed' => phase' # "flight"
  BY ONLY <1>0, <1>1, Zenon
<1>5. phase' \in {"finished", "fast"} /\ ~out_armed' => ~HasRecord(inb', in_off') /\ pt_off' = pt_end'
  <2>1. CASE inb' = <<>> /\ in_off' = 0 /\ pt_off' = 0 /\ pt_end' = 0
    <3>1. ~HasRecord(inb', in_off')
      BY ONLY <2>1, NoRecord, Zenon
    <3> QED BY ONLY <2>1, <3>1, Zenon
  <2>2. CASE UNCHANGED <<inb, in_off, pt_off, pt_end>>
    BY ONLY <1>0, <1>1, <2>2, Zenon
  <2> QED BY ONLY <1>0, <2>1, <2>2, Zenon
<1>6. phase' \in {"mbed", "mbed_open"} /\ ~out_armed' => bio_off' = Len(bio')
  <2>1. phase \in {"mbed", "mbed_open"} => phase # "fast"
    BY ONLY ZenonT(60)
  <2> QED BY ONLY <1>0, <1>1, <2>1, Zenon
<1> QED BY ONLY <1>2, <1>3, <1>4, <1>5, <1>6, ZenonT(60)
        DEF WaitInv, MbedHasRecord, HasRecord, HasHeader, SizeAt

\* Every step keeps the promise of a worker that waits.
LEMMA WaitInvStep == KeyInv /\ InputInv /\ WaitInv /\ [TlsNext]_tlsVars => WaitInv'
<1> SUFFICES ASSUME KeyInv, InputInv, WaitInv, [TlsNext]_tlsVars PROVE WaitInv'
  OBVIOUS
<1>p. PhaseOfPc
  BY ONLY KeyInv, Zenon DEF KeyInv
<1>b. BufInv /\ UseInv
  BY ONLY InputInv, Zenon DEF InputInv
<1>m. /\ phase \in {"mbed", "mbed_open"} /\ pc \in {"idle", "settle", "flush"} => ~HasRecord(mb, 0)
  BY ONLY WaitInv, Zenon DEF WaitInv, MbedHasRecord
<1>f. phase = "fast" => phase \notin {"mbed", "mbed_open"}
  BY ONLY ZenonT(60)
<1>1. CASE UNCHANGED tlsVars \/ Client \/ ClientReads \/ Arrive
  <2>1. UNCHANGED waitVars
    BY ONLY <1>1, ZenonT(60)
       DEF tlsVars, waitVars, bioVars, inVars, connVars, Client, SendHello, SendClear,
           SendFinished, SendApp, ClientSends, ClientShutdown, ClientReads, Arrive
  <2> QED BY ONLY <2>1, WaitInv, WaitUntouched, Zenon
<1>2. CASE Drop
  <2>1. pc' \notin {"idle", "settle", "flush"}
    BY ONLY <1>2, ZenonT(60) DEF Drop
  <2> QED BY ONLY <2>1, NotWaiting, Zenon
<1>3. CASE Event
  <2>1. CASE pc' = "flush"
    <3>1. pc = "idle" /\ phase' = phase /\ mb' = mb
      BY ONLY <1>3, Zenon DEF Event
    <3>2. phase' \in {"mbed", "mbed_open"} => ~HasRecord(mb', 0)
      BY ONLY <1>m, <3>1, Zenon
    <3> QED BY ONLY <2>1, <3>2, ToFlush, Zenon
  <2>2. CASE pc' # "flush"
    <3>1. pc' \notin {"idle", "settle", "flush"}
      BY ONLY <1>3, <2>2, ZenonT(60) DEF Event, Handshaking
    <3> QED BY ONLY <3>1, NotWaiting, Zenon
  <2> QED BY ONLY <2>1, <2>2, Zenon
<1>4. CASE Timer
  <2>1. pc = "idle" /\ pc' = "flush" /\ phase' = phase /\ mb' = mb
    BY ONLY <1>4, Zenon DEF Timer
  <2>2. phase' \in {"mbed", "mbed_open"} => ~HasRecord(mb', 0)
    BY ONLY <1>m, <2>1, Zenon
  <2> QED BY ONLY <2>1, <2>2, ToFlush, Zenon
<1>5. CASE Settle
  BY ONLY <1>5, WaitInv, SettleWaits, Zenon
<1>6. CASE HelloTurn
  <2>0. phase = "hello" /\ pc = "hello"
    BY ONLY <1>6, <1>p, ZenonT(60) DEF HelloTurn, PhaseOfPc
  <2>1. CASE ~HasRecord(bio, 0) /\ bio' = bio /\ phase' = phase
    <3>1. phase' = "hello" /\ ~HasRecord(bio', 0)
      BY ONLY <2>0, <2>1, Zenon
    <3> QED BY ONLY <3>1, ToHelloRest, Zenon
  <2>2. CASE pc' \in {"hello", "flight", "mbed", "close"}
    <3>1. pc' \notin {"idle", "settle", "flush"}
      BY ONLY <2>2, ZenonT(60)
    <3> QED BY ONLY <3>1, NotWaiting, Zenon
  <2>3. Flight \/ Defer \/ Failed => pc' \in {"hello", "flight", "mbed", "close"}
    BY ONLY ZenonT(60) DEF Flight, Defer, Failed
  <2> QED BY ONLY <1>6, <2>0, <2>1, <2>2, <2>3, ZenonT(60) DEF HelloTurn
<1>7. CASE FlightTurn
  <2>1. CASE pc' = "finished"
    <3>1. pc' \notin {"idle", "settle", "flush"}
      BY ONLY <2>1, ZenonT(60)
    <3> QED BY ONLY <3>1, NotWaiting, Zenon
  <2>2. CASE WantWrite /\ phase' = phase
    <3>1. out_armed' = TRUE
      BY ONLY <2>2, Zenon DEF WantWrite
    <3>2. phase' \notin {"mbed", "mbed_open"}
      BY ONLY <1>7, <1>p, <2>2, ZenonT(60) DEF FlightTurn, PhaseOfPc
    <3> QED BY ONLY <3>1, <3>2, ToArmed, Zenon
  <2> QED BY ONLY <1>7, <2>1, <2>2, Zenon DEF FlightTurn
<1>8. CASE FinishedTurn
  <2>0. phase = "finished" /\ pc = "finished"
    BY ONLY <1>8, <1>p, ZenonT(60) DEF FinishedTurn, PhaseOfPc
  <2>1. CASE pc' \in {"finished", "read", "close"}
    <3>1. pc' \notin {"idle", "settle", "flush"}
      BY ONLY <2>1, ZenonT(60)
    <3> QED BY ONLY <3>1, NotWaiting, Zenon
  <2>2. CASE ~HasRecord(inb, in_off) /\ Compact /\ UNCHANGED <<pt_off, pt_end, phase>>
    <3>1. ~HasRecord(inb', in_off')
      BY ONLY <1>b, <2>2, CompactWaits, Zenon
    <3>2. phase' \in {"finished", "fast"} /\ pt_off' = pt_end'
      BY ONLY <1>b, <2>0, <2>2, ZenonT(60) DEF UseInv
    <3> QED BY ONLY <3>1, <3>2, ToRest, Zenon
  <2>3. SealedAlert \/ SwitchKeys => pc' \in {"finished", "read", "close"}
    BY ONLY ZenonT(60) DEF SealedAlert, SwitchKeys
  <2> QED BY ONLY <1>8, <2>0, <2>1, <2>2, <2>3, ZenonT(60) DEF FinishedTurn
<1>9. CASE MbedTurn
  <2>0. phase = "mbed" /\ pc = "mbed"
    BY ONLY <1>9, <1>p, ZenonT(60) DEF MbedTurn, PhaseOfPc
  <2>1. CASE ~MbedHasRecord
    <3>1. BioRecv /\ phase' = phase
      BY ONLY <1>9, <2>1, Zenon DEF MbedTurn
    <3>2. phase \in {"mbed", "mbed_open"} /\ pc \in {"mbed", "read"}
      BY ONLY <2>0, Zenon
    <3> QED BY ONLY <2>1, <3>1, <3>2, WaitInv, BioWaits, Zenon
  <2>2. CASE MbedHasRecord
    <3>1. pc' \in {"mbed", "read", "close"}
      BY ONLY <1>9, <2>0, <2>2, ZenonT(60) DEF MbedTurn
    <3>2. pc' \notin {"idle", "settle", "flush"}
      BY ONLY <3>1, ZenonT(60)
    <3> QED BY ONLY <3>2, NotWaiting, Zenon
  <2> QED BY ONLY <2>1, <2>2, Zenon
<1>10. CASE ReadContent
  <2>1. pc' = "flush" /\ phase' = "fast"
    BY ONLY <1>10, Zenon DEF ReadContent, HandOut
  <2>2. phase' \notin {"mbed", "mbed_open"}
    BY ONLY <2>1, ZenonT(60)
  <2> QED BY ONLY <2>1, <2>2, ToFlush, Zenon
<1>11. CASE OpenNext
  <2>1. pc' \in {"read", "close"}
    BY ONLY <1>11, ZenonT(60) DEF OpenNext
  <2>2. pc' \notin {"idle", "settle", "flush"}
    BY ONLY <2>1, ZenonT(60)
  <2> QED BY ONLY <2>2, NotWaiting, Zenon
<1>12. CASE ReadMore
  <2>0. phase' = "fast" /\ ~HasRecord(inb, in_off) /\ pc = "read" /\ pt_off >= pt_end
    BY ONLY <1>12, Zenon DEF ReadMore, connVars
  <2>1. CASE pc' = pc
    <3>1. pc' \notin {"idle", "settle", "flush"}
      BY ONLY <2>0, <2>1, ZenonT(60)
    <3> QED BY ONLY <3>1, NotWaiting, Zenon
  <2>2. CASE UNCHANGED inVars
    <3>1. pt_off \in Nat /\ pt_end \in Nat /\ pt_off <= pt_end
      BY ONLY <1>b, BufNumbers, Zenon
    <3>2. pt_off = pt_end
      BY ONLY <2>0, <3>1
    <3>3. inb' = inb /\ in_off' = in_off /\ pt_off' = pt_end'
      BY ONLY <2>2, <3>2, Zenon DEF inVars
    <3>4. ~HasRecord(inb', in_off') /\ phase' \in {"finished", "fast"}
      BY ONLY <2>0, <3>3, Zenon
    <3> QED BY ONLY <3>3, <3>4, ToRest, Zenon
  <2>3. CASE Compact /\ pt_off' = 0 /\ pt_end' = 0
    <3>1. ~HasRecord(inb', in_off')
      BY ONLY <1>b, <2>0, <2>3, CompactWaits, Zenon
    <3>2. phase' \in {"finished", "fast"} /\ pt_off' = pt_end'
      BY ONLY <2>0, <2>3, Zenon
    <3> QED BY ONLY <3>1, <3>2, ToRest, Zenon
  <2> QED BY ONLY <1>12, <2>1, <2>2, <2>3, ZenonT(60) DEF ReadMore
<1>13. CASE MbedRead
  <2>0. phase = "mbed_open" /\ pc = "read" /\ phase' = phase
    BY ONLY <1>13, Zenon DEF MbedRead
  <2>1. CASE ~MbedHasRecord
    <3>1. BioRecv
      BY ONLY <1>13, <2>1, Zenon DEF MbedRead
    <3>2. phase \in {"mbed", "mbed_open"} /\ pc \in {"mbed", "read"}
      BY ONLY <2>0, Zenon
    <3> QED BY ONLY <2>0, <2>1, <3>1, <3>2, WaitInv, BioWaits, Zenon
  <2>2. CASE MbedHasRecord
    <3>1. mb' = <<>> /\ pc' \in {"flush", "close"}
      BY ONLY <1>13, <2>2, ZenonT(60) DEF MbedRead, HandOut
    <3>2. CASE pc' = "flush"
      <4>1. ~HasRecord(mb', 0)
        BY ONLY <3>1, NoRecord, Zenon
      <4> QED BY ONLY <3>2, <4>1, ToFlush, Zenon
    <3>3. CASE pc' = "close"
      <4>1. pc' \notin {"idle", "settle", "flush"}
        BY ONLY <3>3, ZenonT(60)
      <4> QED BY ONLY <4>1, NotWaiting, Zenon
    <3> QED BY ONLY <3>1, <3>2, <3>3, Zenon
  <2> QED BY ONLY <2>1, <2>2, Zenon
<1>14. CASE FlushOut \/ MbedWrite
  <2>1. /\ pc = "flush" /\ phase' = phase /\ mb' = mb
        /\ (pc' = pc /\ out_armed' = out_armed) \/ ArmOut
    BY ONLY <1>14, ZenonT(60) DEF FlushOut, MbedWrite
  <2>2. phase' \in {"mbed", "mbed_open"} => ~HasRecord(mb', 0)
    BY ONLY <1>m, <2>1, Zenon
  <2>3. CASE ArmOut
    <3>1. out_armed' = TRUE
      BY ONLY <2>3, Zenon DEF ArmOut
    <3> QED BY ONLY <2>2, <3>1, ToArmed, Zenon
  <2>4. CASE pc' = pc
    BY ONLY <2>1, <2>2, <2>4, ToFlush, Zenon
  <2> QED BY ONLY <2>1, <2>3, <2>4, Zenon
<1>15. CASE FlushWrite \/ SealKeyUpdate \/ SealContent
  <2>1. pc' = "seal"
    BY ONLY <1>15, ZenonT(60) DEF FlushWrite, SealKeyUpdate, SealContent
  <2>2. pc' \notin {"idle", "settle", "flush"}
    BY ONLY <2>1, ZenonT(60)
  <2> QED BY ONLY <2>2, NotWaiting, Zenon
<1>16. CASE SendSealed
  <2>1. pc' = "flush" /\ phase' = "fast"
    BY ONLY <1>16, <1>p, Zenon DEF SendSealed, PhaseOfPc
  <2>2. phase' \notin {"mbed", "mbed_open"}
    BY ONLY <2>1, ZenonT(60)
  <2> QED BY ONLY <2>1, <2>2, ToFlush, Zenon
<1>17. CASE FlushEnd
  <2>0. /\ pc = "flush" /\ phase' = phase /\ mb' = mb /\ bio' = bio /\ bio_off' = bio_off
        /\ inb' = inb /\ in_off' = in_off /\ pt_off' = pt_off /\ pt_end' = pt_end
        /\ pc' \in {"close", "read"} \/ ~Pending
    BY ONLY <1>17, ZenonT(60) DEF FlushEnd, bioVars, inVars
  <2>1. CASE pc' \in {"close", "read"}
    <3>1. pc' \notin {"idle", "settle", "flush"}
      BY ONLY <2>1, ZenonT(60)
    <3> QED BY ONLY <3>1, NotWaiting, Zenon
  <2>2. CASE ~Pending /\ phase = "fast"
    <3>1. ~(pt_off < pt_end) /\ ~HasRecord(inb, in_off)
      BY ONLY <2>2, Zenon DEF Pending
    <3>2. pt_off \in Nat /\ pt_end \in Nat /\ pt_off <= pt_end
      BY ONLY <1>b, BufNumbers, Zenon
    <3>3. pt_off = pt_end
      BY ONLY <3>1, <3>2
    <3>4. phase' \in {"finished", "fast"} /\ ~HasRecord(inb', in_off') /\ pt_off' = pt_end'
      BY ONLY <2>0, <2>2, <3>1, <3>3, Zenon
    <3> QED BY ONLY <3>4, ToRest, Zenon
  <2>3. CASE ~Pending /\ phase = "mbed_open"
    <3>1. ~(bio_off < Len(bio))
      <4>1. phase # "fast"
        BY ONLY <2>3, Zenon
      <4> QED BY ONLY <2>3, <4>1, Zenon DEF Pending
    <3>2. bio_off \in Nat /\ Len(bio) \in Nat /\ bio_off <= Len(bio)
      BY ONLY <1>b, BufNumbers, Zenon
    <3>3. bio_off = Len(bio)
      BY ONLY <3>1, <3>2
    <3>4. ~HasRecord(mb, 0)
      BY ONLY <1>m, <2>0, <2>3, Zenon
    <3>5. phase' \in {"mbed", "mbed_open"} /\ ~HasRecord(mb', 0) /\ bio_off' = Len(bio')
      BY ONLY <2>0, <2>3, <3>3, <3>4, Zenon
    <3> QED BY ONLY <3>5, ToMbedRest, Zenon
  <2>4. phase \in {"fast", "mbed_open"}
    BY ONLY <1>p, <2>0, Zenon DEF PhaseOfPc
  <2> QED BY ONLY <2>0, <2>1, <2>2, <2>3, <2>4, Zenon
<1>18. CASE Close
  <2>1. phase' = "closed"
    BY ONLY <1>18, Zenon DEF Close
  <2> QED BY ONLY <2>1, ZenonT(60) DEF WaitInv
<1>19. CASE Reconnect
  <2>1. phase = "closed" /\ phase' = "hello" /\ bio' = bio
    BY ONLY <1>19, Zenon DEF Reconnect
  <2>2. bio = <<>>
    BY ONLY <1>b, <2>1, Zenon DEF UseInv
  <2>3. ~HasRecord(bio', 0)
    BY ONLY <2>1, <2>2, NoRecord, Zenon
  <2> QED BY ONLY <2>1, <2>3, ToHelloRest, Zenon
<1> QED BY ONLY <1>1, <1>2, <1>3, <1>4, <1>5, <1>6, <1>7, <1>8, <1>9, <1>10, <1>11, <1>12, <1>13,
                <1>14, <1>15, <1>16, <1>17, <1>18, <1>19, [TlsNext]_tlsVars, ZenonT(60)
        DEF TlsNext, Worker

\* Input is handled before a worker waits for more of it, in every phase.
THEOREM NoStrandedInputAlways == TlsSpec => []NoStrandedInput
<1>1. TlsInit => WaitInv
  <2>1. TlsInit => phase = "hello" /\ bio = <<>>
    BY ONLY Zenon DEF TlsInit
  <2> QED BY ONLY <2>1, NoRecord, ZenonT(60) DEF WaitInv
<1>2. InputInv /\ WaitInv => NoStrandedInput
  <2> SUFFICES ASSUME InputInv, WaitInv, pc = "idle", phase # "closed", ~out_armed
               PROVE  /\ phase = "hello" => ~HasRecord(bio, 0)
                      /\ phase \in {"flight", "finished", "fast"} =>
                            ~HasRecord(inb, in_off) /\ pt_off >= pt_end /\ bio_off = Len(bio)
                      /\ phase \in {"mbed", "mbed_open"} => ~MbedHasRecord /\ bio_off = Len(bio)
    BY Zenon DEF NoStrandedInput
  <2>1. pt_end \in Nat
    BY ONLY InputInv, BufNumbers, Zenon DEF InputInv
  <2>2. pt_off = pt_end => pt_off >= pt_end
    BY ONLY <2>1
  <2>3. Own => bio_off = Len(bio)
    BY ONLY InputInv, Zenon DEF InputInv, UseInv
  <2> QED BY ONLY WaitInv, pc = "idle", ~out_armed, <2>2, <2>3, ZenonT(60) DEF WaitInv, Own
<1> QED BY <1>1, <1>2, KeyInvInit, KeyInvStep, InputInit, InputInvStep, WaitInvStep, PTL DEF TlsSpec

-----------------------------------------------------------------------------
(* Types.                                                                  *)

\* Where the worker can be in its code, and the flags.
Places == Phases \cup {"idle", "settle", "read", "flush", "seal", "close"}
flagVars == <<bio_drained, drained, ku_owed, eof, out_armed, close_after>>
FlagInv ==
    /\ pc \in Places
    /\ bio_drained \in BOOLEAN /\ drained \in BOOLEAN /\ ku_owed \in BOOLEAN
    /\ eof \in BOOLEAN /\ out_armed \in BOOLEAN /\ close_after \in BOOLEAN

\* Whether a recv got less than it asked for is a flag.
LEMMA Compared ==
    ASSUME BufInv
    PROVE  /\ (Received(BioCap) < BioCap) \in BOOLEAN
           /\ (Received(HelloRoom) < HelloRoom) \in BOOLEAN
           /\ Refill => drained' \in BOOLEAN
<1>1. \A n \in Nat : (Received(n) < n) \in BOOLEAN
  <2> SUFFICES ASSUME NEW n \in Nat PROVE (Received(n) < n) \in BOOLEAN
    OBVIOUS
  <2>1. sock \in Seq(Units)
    BY ONLY BufInv, Zenon DEF BufInv
  <2>2. Received(n) \in 0 .. Len(sock)
    BY ONLY <2>1, ReceivedIs, Zenon
  <2>3. Received(n) \in Int
    BY ONLY <2>1, <2>2
  <2> QED BY ONLY <2>3, n \in Nat
<1>2. /\ Len(bio) \in Nat /\ Len(bio) <= BioCap /\ Len(inb) \in Nat /\ Len(inb) <= InCap
      /\ in_off \in Nat /\ in_off <= Len(inb)
  BY ONLY BufInv, BufNumbers, Zenon
<1>3. BioCap \in Nat /\ InCap \in Nat
  BY TlsAssumption DEF TlsAssumption, InCap
<1>4. HelloRoom \in Nat
  BY ONLY <1>2, <1>3 DEF HelloRoom
<1>5. InCap - Len(Rest(inb, in_off)) \in Nat
  <2>1. inb \in Seq(Units) /\ in_off \in 0 .. Len(inb)
    BY ONLY BufInv, Zenon DEF BufInv
  <2>2. Len(Rest(inb, in_off)) = Len(inb) - in_off
    BY ONLY <2>1, RestIs, Zenon
  <2> QED BY ONLY <1>2, <1>3, <2>2
<1>6. Refill => drained' = (Received(InCap - Len(Rest(inb, in_off))) < InCap - Len(Rest(inb, in_off)))
  BY ONLY Zenon DEF Refill, Rest
<1> QED BY ONLY <1>1, <1>3, <1>4, <1>5, <1>6, Zenon

\* BioRecv sets the flags it sets to flags.
LEMMA BioFlags ==
    ASSUME BufInv, FlagInv, BioRecv
    PROVE  pc' \in Places /\ bio_drained' \in BOOLEAN /\ out_armed' \in BOOLEAN
BY ONLY BufInv, FlagInv, BioRecv, Compared, ZenonT(60) DEF FlagInv, BioRecv, WantRead, Places

\* Flags stay flags.
LEMMA FlagInvStep == InputInv /\ FlagInv /\ [TlsNext]_tlsVars => FlagInv'
<1> SUFFICES ASSUME InputInv, FlagInv, [TlsNext]_tlsVars PROVE FlagInv'
  OBVIOUS
<1>b. BufInv
  BY ONLY InputInv, Zenon DEF InputInv
<1>c. /\ (Received(BioCap) < BioCap) \in BOOLEAN
      /\ (Received(HelloRoom) < HelloRoom) \in BOOLEAN
      /\ Refill => drained' \in BOOLEAN
  BY ONLY <1>b, Compared, Zenon
<1>1. CASE UNCHANGED tlsVars \/ Client \/ ClientReads \/ Arrive
  BY ONLY <1>1, FlagInv, ZenonT(60)
     DEF FlagInv, tlsVars, clientVars, bioVars, inVars, rxVars, connVars, Client, SendHello,
         SendClear, SendFinished, SendApp, ClientSends, ClientShutdown, ClientReads, Arrive
<1>2. CASE Drop \/ Event \/ Settle \/ FlightTurn \/ Timer \/ Reconnect \/ Close
  BY ONLY <1>2, FlagInv, ZenonT(60)
     DEF FlagInv, Places, Phases, Handshaking, clientVars, bioVars, inVars, rxVars, connVars, Drop,
         Event, Settle, FlightTurn, WantWrite, Timer, Respond, Reconnect, Close
<1>3. CASE HelloTurn
  BY ONLY <1>3, <1>c, FlagInv, ZenonT(60)
     DEF FlagInv, Places, Phases, clientVars, bioVars, inVars, rxVars, HelloTurn, Defer, Failed,
         Flight, WantRead
<1>4. CASE FinishedTurn
  BY ONLY <1>4, <1>c, FlagInv, ZenonT(60)
     DEF FlagInv, Places, Phases, clientVars, bioVars, inVars, rxVars, FinishedTurn, SealedAlert,
         SwitchKeys, WantRead
<1>5. CASE MbedTurn
  <2>1. /\ BioRecv /\ UNCHANGED <<inVars, rxVars>>
        \/ /\ pc' \in {pc, "read", "close"} /\ out_armed' \in {out_armed, FALSE}
           /\ bio_drained' = bio_drained /\ drained' \in {drained, FALSE}
           /\ ku_owed' \in {ku_owed, FALSE}
    BY ONLY <1>5, ZenonT(60) DEF MbedTurn, GoFast, inVars, rxVars
  <2>2. eof' = eof /\ close_after' = close_after
    BY ONLY <1>5, Zenon DEF MbedTurn, clientVars
  <2> QED BY ONLY <2>1, <2>2, <1>b, FlagInv, BioFlags, ZenonT(60) DEF FlagInv, Places, inVars, rxVars
<1>6. CASE ReadContent \/ OpenNext
  BY ONLY <1>6, FlagInv, ZenonT(60)
     DEF FlagInv, Places, Phases, clientVars, bioVars, inVars, rxVars, connVars, ReadContent,
         OpenNext, HandOut, Respond
<1>7. CASE ReadMore
  BY ONLY <1>7, <1>c, FlagInv, ZenonT(60)
     DEF FlagInv, Places, Phases, clientVars, bioVars, inVars, rxVars, connVars, ReadMore
<1>8. CASE MbedRead
  <2>1. /\ eof' = eof /\ drained' = drained /\ ku_owed' = ku_owed
        /\ close_after' = close_after \/ close_after' \in BOOLEAN
        /\ BioRecv \/ (pc' \in {"flush", "close"} /\ UNCHANGED <<bioVars, out_armed>>)
    BY ONLY <1>8, ZenonT(60) DEF MbedRead, HandOut, Respond, inVars, clientVars
  <2> QED BY ONLY <2>1, <1>b, FlagInv, BioFlags, ZenonT(60) DEF FlagInv, Places, bioVars
<1>9. CASE FlushOut \/ FlushWrite \/ SealKeyUpdate \/ SealContent \/ SendSealed \/ MbedWrite \/ FlushEnd
  BY ONLY <1>9, FlagInv, ZenonT(60)
     DEF FlagInv, Places, Phases, clientVars, bioVars, inVars, rxVars, connVars, FlushOut, FlushWrite,
         SealKeyUpdate, SealContent, SendSealed, MbedWrite, FlushEnd, ArmOut
<1> QED BY ONLY <1>1, <1>2, <1>3, <1>4, <1>5, <1>6, <1>7, <1>8, <1>9, [TlsNext]_tlsVars,
                ZenonT(60) DEF TlsNext, Worker

\* A send leaves no more room than there was.
LEMMA PushOutRoom ==
    ASSUME NEW n \in Nat, NEW c \in Nat, room \in 0 .. c, out_off \in Nat, out_off <= n, PushOut(n)
    PROVE  room' \in 0 .. c
<1>1. CASE AllFits(n)
  <2>1. room' = room - (n - out_off) /\ n - out_off <= room
    BY ONLY <1>1, PushOut(n), Zenon DEF PushOut, AllFits
  <2> QED BY ONLY <2>1, n \in Nat, c \in Nat, room \in 0 .. c, out_off \in Nat, out_off <= n
<1>2. CASE ~AllFits(n)
  <2>1. room' = 0
    BY ONLY <1>2, PushOut(n), Zenon DEF PushOut
  <2> QED BY ONLY <2>1, c \in Nat
<1> QED BY ONLY <1>1, <1>2, Zenon

\* The socket never has more room than its buffer is long.
LEMMA RoomStep ==
    KeyInv /\ OutInv /\ room \in 0 .. SndCap /\ [TlsNext]_tlsVars => room' \in 0 .. SndCap
<1> SUFFICES ASSUME KeyInv, OutInv, room \in 0 .. SndCap, [TlsNext]_tlsVars
             PROVE  room' \in 0 .. SndCap
  OBVIOUS
<1>0. SndCap \in Nat /\ KuSize \in Nat /\ MaxPlain \in Nat
  BY TlsAssumption DEF TlsAssumption
<1>1. /\ hs_left \in Nat /\ wbuf \in Nat /\ out_len \in Nat /\ out_off \in Nat /\ room \in Nat
      /\ pc # "seal" => (out_len = 0 => out_off = 0) /\ (out_len > 0 => out_off < out_len)
      /\ pc = "seal" => out_off = 0
  BY ONLY OutInv, ZenonT(60) DEF OutInv
<1>2. out_off <= out_len
  <2>1. CASE pc = "seal"
    BY ONLY <1>1, <2>1
  <2>2. CASE pc # "seal"
    BY ONLY <1>1, <2>2
  <2> QED BY ONLY <2>1, <2>2, Zenon
<1>3. CASE PushOut(out_len)
  BY ONLY <1>0, <1>1, <1>2, <1>3, room \in 0 .. SndCap, PushOutRoom, Zenon
<1>4. CASE PushOut(out_len + KuSize)
  <2>1. out_len + KuSize \in Nat /\ out_off <= out_len + KuSize
    BY ONLY <1>0, <1>1, <1>2
  <2> QED BY ONLY <1>0, <1>1, <1>4, <2>1, room \in 0 .. SndCap, PushOutRoom, Zenon
<1>5. CASE room' = room
  BY ONLY <1>5, room \in 0 .. SndCap, Zenon
<1>6. CASE room' = SndCap \/ room' = 0
  <2>1. SndCap \in 0 .. SndCap /\ 0 \in 0 .. SndCap
    BY ONLY <1>0
  <2> QED BY ONLY <1>6, <2>1, Zenon
<1>7. CASE MbedWrite
  <2>1. room' = room \/ room' = room - Least(room, Least(wbuf, MaxPlain))
    BY ONLY <1>7, Zenon DEF MbedWrite
  <2>2. room - Least(room, Least(wbuf, MaxPlain)) \in 0 .. SndCap
    BY ONLY <1>0, <1>1, room \in 0 .. SndCap DEF Least
  <2> QED BY ONLY <2>1, <2>2, room \in 0 .. SndCap, Zenon
<1>8. CASE FlightTurn
  <2>1. (hs_left <= room /\ room' = room - hs_left) \/ room' = 0
    BY ONLY <1>8, Zenon DEF FlightTurn
  <2>2. hs_left <= room => room - hs_left \in 0 .. SndCap
    BY ONLY <1>0, <1>1, room \in 0 .. SndCap
  <2> QED BY ONLY <1>6, <2>1, <2>2, Zenon
<1>9. CASE \/ UNCHANGED tlsVars \/ Client \/ ClientReads \/ Arrive \/ Drop \/ Timer \/ Reconnect
           \/ Close
  BY ONLY <1>5, <1>6, <1>9, ZenonT(60)
     DEF tlsVars, Client, SendHello, SendClear, SendFinished, SendApp, ClientSends, ClientShutdown,
         ClientReads, Arrive, Drop, Timer, Reconnect, Close
<1>10. CASE HelloTurn \/ FinishedTurn
  BY ONLY <1>4, <1>5, <1>10, ZenonT(60)
     DEF HelloTurn, Defer, Failed, Flight, FinishedTurn, SealedAlert, SwitchKeys
<1>11. CASE \/ Event \/ Settle \/ MbedTurn \/ ReadContent \/ OpenNext \/ ReadMore \/ MbedRead
            \/ FlushWrite \/ SealKeyUpdate \/ SealContent \/ FlushEnd
  BY ONLY <1>5, <1>11, ZenonT(60)
     DEF Event, Settle, MbedTurn, ReadContent, OpenNext, ReadMore, MbedRead, FlushWrite,
         SealKeyUpdate, SealContent, FlushEnd
<1>12. CASE FlushOut \/ SendSealed
  BY ONLY <1>3, <1>12, ZenonT(60) DEF FlushOut, SendSealed
<1> QED BY ONLY <1>7, <1>8, <1>9, <1>10, <1>11, <1>12, [TlsNext]_tlsVars, ZenonT(60)
        DEF TlsNext, Worker

\* The worker gets the client's content in order, each unit once, whichever of
\* the read-ahead, mbedtls and the record layer it goes through, and every
\* offset stays in its buffer.
THEOREM ContentInOrderAlways == TlsSpec => []ContentInOrder
<1> DEFINE Room == room \in 0 .. SndCap
<1>1. TlsInit => OutInv /\ Room /\ FlagInv
  <2>1. TlsInit => OutInv
    BY TlsAssumption, OutCapRoom DEF TlsAssumption, TlsInit, OutInv
  <2>2. SndCap \in 0 .. SndCap
    BY TlsAssumption DEF TlsAssumption
  <2>3. TlsInit => Room
    BY ONLY <2>2, Zenon DEF TlsInit
  <2>4. TlsInit => FlagInv
    BY ONLY ZenonT(60) DEF TlsInit, FlagInv, Places
  <2> QED BY ONLY <2>1, <2>3, <2>4, Zenon
<1>2. KeyInv /\ OutInv /\ InputInv /\ Room /\ FlagInv => ContentInOrder
  <2> SUFFICES ASSUME KeyInv, OutInv, InputInv, Room, FlagInv PROVE ContentInOrder
    OBVIOUS
  <2>1. BufInv /\ wrong = FALSE
    BY ONLY InputInv, Zenon DEF InputInv, StreamInv
  <2>2. phase \in Phases
    BY ONLY KeyInv, Zenon DEF KeyInv, PhaseOfPc
  <2>3. /\ Len(inb) \in Nat /\ pt_off \in Nat /\ pt_end \in Nat /\ pt_off <= pt_end
        /\ pt_end <= Len(inb)
    BY ONLY <2>1, BufNumbers, Zenon
  <2>4. pt_off \in 0 .. Len(inb) /\ pt_end \in 0 .. Len(inb)
    BY ONLY <2>3
  <2>5. out_off \in 0 .. out_len
    <3>1. /\ out_len \in Nat /\ out_off \in Nat
          /\ pc # "seal" => (out_len = 0 => out_off = 0) /\ (out_len > 0 => out_off < out_len)
          /\ pc = "seal" => out_off = 0
      BY ONLY OutInv, ZenonT(60) DEF OutInv
    <3>2. CASE pc = "seal"
      BY ONLY <3>1, <3>2
    <3>3. CASE pc # "seal"
      BY ONLY <3>1, <3>3
    <3> QED BY ONLY <3>2, <3>3, Zenon
  <2>6. /\ Len(bio) <= BioCap /\ bio_off \in 0 .. Len(bio)
        /\ Len(inb) <= InCap /\ in_off \in 0 .. Len(inb)
    BY ONLY <2>1, Zenon DEF BufInv
  <2>7. pc \in Phases \cup {"idle", "settle", "read", "flush", "seal", "close"}
    BY ONLY FlagInv, Zenon DEF FlagInv, Places
  <2>8. {bio_drained, drained, ku_owed, eof, out_armed, close_after} \subseteq BOOLEAN
    BY ONLY FlagInv, ZenonT(60) DEF FlagInv
  <2>9. {pt_off, pt_end} \subseteq 0 .. Len(inb)
    BY ONLY <2>4, Zenon
  <2> QED BY ONLY <2>1, <2>2, <2>5, <2>6, <2>7, <2>8, <2>9, Room, Zenon
          DEF ContentInOrder, TlsTypeOK
<1>3. KeyInv /\ OutInv /\ Room /\ [TlsNext]_tlsVars => Room'
  BY ONLY RoomStep
<1> HIDE DEF Room
<1> QED BY <1>1, <1>2, <1>3, KeyInvInit, KeyInvStep, OutInvStep, InputInit, InputInvStep,
           FlagInvStep, PTL DEF TlsSpec
=============================================================================
