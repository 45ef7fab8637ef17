---------------------------- MODULE Http1Proofs ----------------------------
(***************************************************************************)
(* Proofs about one HTTP/1.1 connection (Http1Conn): every response leaves *)
(* whole and in the order of the requests, output that waits for the       *)
(* socket runs under the write timeout, and a shut connection sends        *)
(* nothing more.                                                           *)
(*                                                                         *)
(* The invariant says, of the last unit in wbuf (or on the wire when wbuf  *)
(* is empty), which response it belongs to and whether that response is    *)
(* complete, as a function of what the connection is doing: nothing, a     *)
(* deferred response, a file, or a stream.                                 *)
(***************************************************************************)
EXTENDS Http1Conn, FiniteSetTheorems, SequenceTheorems, TLAPS

Timers == [serial : 0 .. N, id : 1 .. N]

\* How a stream writes.
Modes == {"gen", "tick"}

\* The connections.
Conn ==
    [open : BOOLEAN, rbuf : 0 .. MaxTotal, cont : BOOLEAN, wbuf : Seq(Units), woff : Nat,
     close_after : BOOLEAN, out_armed : BOOLEAN, reading : BOOLEAN,
     waiting : BOOLEAN, pending_close : BOOLEAN, file_left : 0 .. FileUnits,
     st : 0 .. N, st_mode : Modes, st_chunked : BOOLEAN, st_close : BOOLEAN,
     st_left : 0 .. StreamLen, st_serial : 0 .. N, linger : BOOLEAN, lingering : BOOLEAN,
     dl : {"idle", "read", "write", "linger"}, late : BOOLEAN,
     timers : SUBSET Timers, served : 0 .. N]

Pcs == {"idle", "read", "process", "flush", "discard", "return"}

\* The socket: what arrived was sent, and no more is sent than there is.
NetInv ==
    /\ net \in [sent : Nat, in : Nat, eof : BOOLEAN, reset : BOOLEAN, room : BOOLEAN,
                over : SUBSET Oversize, last : Units]
    /\ net.sent <= Upto(N) /\ net.in <= net.sent

\* The units of w from offset o on, after the unit u that was sent last, are in
\* order; a buffer that is all out is empty.
Chained(w, o, u) ==
    /\ w = <<>> => o = 0
    /\ w # <<>> => o < Len(w) /\ Follows(u, w[o + 1])
    /\ \A i \in o + 1 .. Len(w) - 1 : Follows(w[i], w[i + 1])

\* The last unit of the output.
EndOf(w, u) == IF w = <<>> THEN u ELSE w[Len(w)]

\* v ends the response to the request served last; v is inside it; v ends the
\* one before it, or announces it.
Done(d, v) == v.id = d.served /\ v.part \in {"only", "last"}
Begun(d, v) == v.id = d.served /\ v.part \in {"first", "mid"}
Owed(d, v) ==
    \/ d.served = v.id + 1 /\ v.part \in {"only", "last"}
    \/ d.served = v.id /\ v.part = "cont"

\* What the last unit v of the output is, by what the connection is doing.
TailOf(d, v) ==
    /\ d.waiting => /\ d.st = 0 /\ d.file_left = 0 /\ ~d.cont /\ ~d.close_after
                    /\ Owed(d, v)
    /\ d.st # 0 => d.st = d.served /\ d.file_left = 0 /\ ~d.cont /\ Begun(d, v)
    /\ d.file_left # 0 => ~d.cont /\ Begun(d, v)
    /\ d.open /\ ~d.waiting /\ d.st = 0 /\ d.file_left = 0 /\ ~d.close_after =>
          IF d.cont THEN v.id = d.served + 1 /\ v.part = "cont" ELSE Done(d, v)

\* A deferred response has the only timer with serial 0, and a stream's serial
\* is no larger than the number of requests served.
TimerOf(d) ==
    /\ \A t \in d.timers : t.serial = 0 => d.waiting /\ t.id = d.served
    /\ d.st # 0 => d.st_serial # 0
    /\ d.st_serial <= d.served
    /\ d.waiting => d.st_serial < d.served

\* The write timeout runs exactly while output waits for the socket.
WriteOf(d) == d.dl = "write" <=> d.out_armed

\* All of this, of the connection d and the unit u that was sent last.
ConnInv(d, u) ==
    /\ d \in Conn
    /\ Chained(d.wbuf, d.woff, u)
    /\ TailOf(d, EndOf(d.wbuf, u))
    /\ TimerOf(d)
    /\ WriteOf(d)

\* Where the worker may be with a connection that sends a file, is closing, is
\* shut or is closed.
CloseOf(d, p) ==
    /\ d.close_after => d.out_armed \/ d.lingering \/ p \in {"process", "flush"}
    /\ d.file_left # 0 => d.out_armed \/ p \in {"process", "flush"}
    /\ p = "read" => ~d.out_armed /\ ~d.lingering
    /\ p = "discard" => d.lingering
    /\ d.lingering => /\ d.close_after /\ ~d.out_armed /\ d.wbuf = <<>> /\ d.file_left = 0
                      /\ p \in {"idle", "discard", "return"}
    /\ ~d.open => p \in {"idle", "return"}

IInv ==
    /\ ConnInv(c, net.last)
    /\ CloseOf(c, pc)
    /\ pc \in Pcs
    /\ NetInv
    /\ pushes \in 0 .. MaxPush
-----------------------------------------------------------------------------
(* The output as a sequence.                                               *)

\* The units of the requests there are, and of the next one.
LEMMA UnitIs ==
    ASSUME NEW n \in 0 .. N, NEW part \in {"cont", "only", "first", "mid", "last"}
    PROVE  /\ Unit(n, part) \in Units /\ Unit(n + 1, part) \in Units
           /\ Unit(n, part).id = n /\ Unit(n + 1, part).id = n + 1
           /\ Unit(n, part).part = part /\ Unit(n + 1, part).part = part
<1>1. n \in 0 .. N + 1 /\ n + 1 \in 0 .. N + 1
  BY Http1Assumption DEF Http1Assumption
<1> QED BY ONLY <1>1, part \in {"cont", "only", "first", "mid", "last"}, ZenonT(60) DEF Units, Unit

\* A unit that may follow the end of the output is put behind it.
LEMMA ChainPut ==
    ASSUME NEW w \in Seq(Units), NEW o \in Nat, NEW u, NEW x \in Units,
           Chained(w, o, u), Follows(EndOf(w, u), x)
    PROVE  /\ w \o <<x>> \in Seq(Units)
           /\ Chained(w \o <<x>>, o, u)
           /\ EndOf(w \o <<x>>, u) = x
<1> DEFINE v == w \o <<x>>
<1>1. v \in Seq(Units) /\ Len(v) = Len(w) + 1 /\ v # <<>> /\ v[Len(v)] = x
  OBVIOUS
<1>2. \A i \in 1 .. Len(w) : v[i] = w[i]
  OBVIOUS
<1>3. Len(w) \in Nat /\ (w = <<>> <=> Len(w) = 0)
  OBVIOUS
<1> HIDE DEF v
<1>4. o < Len(v) /\ Follows(u, v[o + 1])
  <2>1. CASE w = <<>>
    BY <2>1, <1>1, <1>3 DEF Chained, EndOf
  <2>2. CASE w # <<>>
    BY <2>2, <1>1, <1>2, <1>3 DEF Chained
  <2> QED BY <2>1, <2>2
<1>5. ASSUME NEW i \in o + 1 .. Len(v) - 1 PROVE Follows(v[i], v[i + 1])
  <2>1. CASE i < Len(w)
    <3>1. i \in o + 1 .. Len(w) - 1 /\ v[i] = w[i] /\ v[i + 1] = w[i + 1]
      BY <2>1, <1>1, <1>2, <1>3
    <3> QED BY <3>1 DEF Chained
  <2>2. CASE i = Len(w)
    <3>1. w # <<>> /\ v[i] = w[Len(w)] /\ v[i + 1] = x
      BY <2>2, <1>1, <1>2, <1>3
    <3> QED BY <3>1 DEF EndOf
  <2> QED BY <2>1, <2>2, <1>1, <1>3
<1>6. Chained(v, o, u)
  BY ONLY <1>1, <1>4, <1>5, Zenon DEF Chained
<1>7. EndOf(v, u) = x
  BY ONLY <1>1, Zenon DEF EndOf
<1> QED BY <1>1, <1>6, <1>7 DEF v

\* Two units put at once are put one after the other.
LEMMA PutTwo ==
    ASSUME NEW w \in Seq(Units), NEW x \in Units, NEW y \in Units
    PROVE  <<x, y>> \in Seq(Units) /\ w \o <<x, y>> = (w \o <<x>>) \o <<y>>
<1> DEFINE S == Units
<1>1. x \in S /\ y \in S /\ w \in Seq(S)
  OBVIOUS
<1> HIDE DEF S
<1>2. /\ w \o <<x, y>> \in Seq(S) /\ (w \o <<x>>) \o <<y>> \in Seq(S) /\ Len(w) \in Nat
      /\ Len(w \o <<x, y>>) = Len(w) + 2 /\ Len((w \o <<x>>) \o <<y>>) = Len(w) + 2
      /\ <<x, y>> \in Seq(S)
  BY ONLY <1>1
<1>3. ASSUME NEW i \in 1 .. Len(w) + 2 PROVE (w \o <<x, y>>)[i] = ((w \o <<x>>) \o <<y>>)[i]
  <2>1. i <= Len(w) \/ i = Len(w) + 1 \/ i = Len(w) + 2
    BY ONLY <1>2, i \in 1 .. Len(w) + 2
  <2> QED BY ONLY <1>1, <1>2, <2>1, i \in 1 .. Len(w) + 2
<1>4. w \o <<x, y>> = (w \o <<x>>) \o <<y>>
  BY ONLY <1>2, <1>3, SeqEqual, Zenon
<1> QED BY ONLY <1>2, <1>4, Zenon DEF S

\* The socket takes the first units of the output: what is left is in order,
\* and its end is the same.
LEMMA ChainTake ==
    ASSUME NEW w \in Seq(Units), NEW o \in Nat, NEW u, NEW n \in Nat \ {0},
           Chained(w, o, u), w # <<>>, o + n <= Len(w)
    PROVE  /\ o + n < Len(w) => /\ Chained(w, o + n, w[o + n])
                                /\ EndOf(w, w[o + n]) = EndOf(w, u)
           /\ o + n = Len(w) => /\ Chained(<<>>, 0, w[o + n])
                                /\ EndOf(<<>>, w[o + n]) = EndOf(w, u)
           /\ w[o + n] \in Units
<1>1. Len(w) \in Nat
  OBVIOUS
<1>2. ASSUME o + n < Len(w) PROVE Chained(w, o + n, w[o + n])
  <2>1. Follows(w[o + n], w[o + n + 1])
    BY <1>1, <1>2 DEF Chained
  <2>2. \A i \in o + n + 1 .. Len(w) - 1 : Follows(w[i], w[i + 1])
    BY <1>1, <1>2 DEF Chained
  <2> QED BY ONLY <1>2, <2>1, <2>2, w # <<>>, Zenon DEF Chained
<1>3. Chained(<<>>, 0, w[o + n])
  BY DEF Chained
<1>4. w[o + n] \in Units
  BY <1>1
<1> QED BY <1>2, <1>3, <1>4 DEF EndOf

\* What is left of wbuf to send.
LEMMA UnsentIs ==
    ASSUME NEW w \in Seq(Units), NEW o \in Nat, NEW u, Chained(w, o, u)
    PROVE  LET s == SubSeq(w, o + 1, Len(w))
           IN  /\ Len(w) \in Nat /\ o <= Len(w)
               /\ s \in Seq(Units) /\ Len(s) = Len(w) - o
               /\ \A i \in 1 .. Len(w) - o : s[i] = w[o + i]
<1> DEFINE s == SubSeq(w, o + 1, Len(w))
<1>1. Len(w) \in Nat /\ o <= Len(w)
  <2>1. w = <<>> => o = Len(w)
    BY DEF Chained
  <2> QED BY <2>1 DEF Chained
<1>2. \A i \in o + 1 .. Len(w) : w[i] \in Units
  BY <1>1
<1>3. s \in Seq(Units) /\ Len(s) = (IF o + 1 <= Len(w) THEN Len(w) - (o + 1) + 1 ELSE 0)
      /\ \A i \in 1 .. Len(w) - (o + 1) + 1 : s[i] = w[o + 1 + i - 1]
  BY <1>1, <1>2, SubSeqProperties
<1> HIDE DEF s
<1>4. Len(s) = Len(w) - o
  BY <1>1, <1>3
<1>5. ASSUME NEW i \in 1 .. Len(w) - o PROVE s[i] = w[o + i]
  <2>1. i \in 1 .. Len(w) - (o + 1) + 1 /\ o + 1 + i - 1 = o + i
    BY <1>1
  <2> QED BY <2>1, <1>3
<1> QED BY <1>1, <1>3, <1>4, <1>5 DEF s

\* Output in order is what ResponsesInOrder asks for.
LEMMA ChainOrder ==
    ASSUME NEW w \in Seq(Units), NEW o \in Nat, NEW u \in Units, Chained(w, o, u)
    PROVE  LET out == <<u>> \o SubSeq(w, o + 1, Len(w))
           IN  \A i \in 1 .. Len(out) - 1 : Follows(out[i], out[i + 1])
<1> DEFINE s == SubSeq(w, o + 1, Len(w))
           out == <<u>> \o s
<1>1. /\ Len(w) \in Nat /\ o <= Len(w)
      /\ s \in Seq(Units) /\ Len(s) = Len(w) - o
      /\ \A i \in 1 .. Len(w) - o : s[i] = w[o + i]
  BY UnsentIs
<1> HIDE DEF s
<1>2. Len(out) = Len(s) + 1 /\ out[1] = u /\ \A i \in 1 .. Len(s) : out[i + 1] = s[i]
  BY ONLY <1>1, u \in Units
<1> HIDE DEF out
<1>3. ASSUME NEW i \in 1 .. Len(out) - 1 PROVE Follows(out[i], out[i + 1])
  <2>1. i \in 1 .. Len(s) /\ i \in 1 .. Len(w) - o /\ w # <<>>
    BY <1>1, <1>2
  <2>2. out[i + 1] = w[o + i]
    BY ONLY <1>1, <1>2, <2>1, Zenon
  <2>3. CASE i = 1
    BY <2>2, <2>3, <2>1, <1>2 DEF Chained
  <2>4. CASE i # 1
    <3>1. i - 1 \in 1 .. Len(s) /\ i - 1 \in 1 .. Len(w) - o /\ i - 1 + 1 = i
      BY ONLY <2>4, <1>1, <2>1
    <3>2. out[i] = w[o + (i - 1)]
      BY ONLY <1>1, <1>2, <3>1, Zenon
    <3>3. o + (i - 1) \in o + 1 .. Len(w) - 1 /\ o + i = o + (i - 1) + 1
      BY ONLY <3>1, <1>1, <2>1, o \in Nat
    <3>4. Follows(w[o + (i - 1)], w[o + (i - 1) + 1])
      BY ONLY <3>3, Chained(w, o, u), Zenon DEF Chained
    <3> QED BY ONLY <2>2, <3>2, <3>3, <3>4, Zenon
  <2> QED BY ONLY <2>3, <2>4, Zenon
<1> QED BY ONLY <1>3, Zenon DEF out, s
-----------------------------------------------------------------------------
(* Steps of the connection, by what they put behind the output.            *)

\* The fields that say what the connection is doing, but for its stream.
Like(d, e) ==
    /\ e.open = d.open /\ e.cont = d.cont /\ e.woff = d.woff /\ e.waiting = d.waiting
    /\ e.file_left = d.file_left /\ e.served = d.served /\ e.st_serial = d.st_serial

\* A step that writes nothing.
LEMMA SameConn ==
    ASSUME NEW d, NEW e \in Conn, NEW u, ConnInv(d, u),
           Like(d, e), e.st = d.st, e.wbuf = d.wbuf, e.timers \subseteq d.timers,
           d.close_after => e.close_after,
           e.close_after => d.close_after \/ ~d.waiting,
           WriteOf(e)
    PROVE  ConnInv(e, u)
<1>1. Chained(e.wbuf, e.woff, u)
  BY ZenonT(60) DEF ConnInv, Like
<1>2. EndOf(e.wbuf, u) = EndOf(d.wbuf, u)
  BY ZenonT(60)
<1>3. TailOf(d, EndOf(d.wbuf, u))
  BY ZenonT(60) DEF ConnInv
<1>4. TailOf(e, EndOf(e.wbuf, u))
  <2> DEFINE v == EndOf(d.wbuf, u)
  <2>1. TailOf(d, v)
    BY ONLY <1>3, Zenon
  <2> HIDE DEF v
  <2>2. TailOf(e, v)
    BY ZenonT(60), <2>1 DEF TailOf, Like, Owed, Begun, Done
  <2> QED BY ONLY <2>2, <1>2, ZenonT(60) DEF v
<1>5. TimerOf(e)
  BY ZenonT(60) DEF ConnInv, TimerOf, Like
<1> QED BY ONLY <1>1, <1>4, <1>5, e \in Conn, WriteOf(e), Zenon DEF ConnInv

\* A piece of a stream, or nothing, and perhaps a timer of the stream.
LEMMA StreamConn ==
    ASSUME NEW d, NEW e \in Conn, NEW u \in Units, ConnInv(d, u), d.st # 0,
           Like(d, e), e.st = d.st,
           e.wbuf = d.wbuf \/ e.wbuf = d.wbuf \o <<Unit(d.st, "mid")>>,
           \A t \in e.timers : t \in d.timers \/ t.serial # 0,
           d.close_after => e.close_after,
           WriteOf(e)
    PROVE  ConnInv(e, u)
<1> DEFINE v == EndOf(d.wbuf, u)
<1>0. TailOf(d, v) /\ Chained(d.wbuf, d.woff, u) /\ d \in Conn /\ TimerOf(d)
  BY ZenonT(60) DEF ConnInv
<1>t. d.wbuf \in Seq(Units) /\ d.woff \in Nat /\ d.st \in 0 .. N /\ e.wbuf \in Seq(Units)
  BY ONLY <1>0, e \in Conn, ZenonT(60) DEF Conn
<1> HIDE DEF v
<1>1. Begun(d, v) /\ d.st = d.served /\ ~d.waiting /\ d.file_left = 0 /\ ~d.cont
  BY ONLY <1>0, d.st # 0, ZenonT(60) DEF TailOf
<1>2. Chained(e.wbuf, e.woff, u) /\ Begun(e, EndOf(e.wbuf, u))
  <2>1. CASE e.wbuf = d.wbuf
    BY ONLY <2>1, <1>0, <1>1, Like(d, e), ZenonT(60) DEF Like, Begun, v
  <2>2. CASE e.wbuf = d.wbuf \o <<Unit(d.st, "mid")>>
    <3> DEFINE x == Unit(d.st, "mid")
    <3>1. x \in Units /\ x.id = d.st /\ x.part = "mid"
      BY ONLY <1>t, UnitIs, Zenon
    <3>2. Follows(v, x)
      BY ONLY <1>1, <3>1, ZenonT(60) DEF Follows, Begun
    <3> HIDE DEF x
    <3>3. Chained(d.wbuf \o <<x>>, d.woff, u) /\ EndOf(d.wbuf \o <<x>>, u) = x
      BY ONLY <1>0, <1>t, <3>1, <3>2, ChainPut DEF v
    <3>4. e.wbuf = d.wbuf \o <<x>>
      BY <2>2 DEF x
    <3> QED BY ONLY <3>1, <3>3, <3>4, <1>1, Like(d, e), ZenonT(60) DEF Like, Begun
  <2> QED BY ONLY <2>1, <2>2, e.wbuf = d.wbuf \/ e.wbuf = d.wbuf \o <<Unit(d.st, "mid")>>, Zenon
<1>3. TailOf(e, EndOf(e.wbuf, u))
  BY ONLY <1>1, <1>2, Like(d, e), e.st = d.st, d.st # 0, ZenonT(60) DEF TailOf, Like
<1>4. TimerOf(e)
  BY ONLY <1>0, <1>1, Like(d, e), e.st = d.st, \A t \in e.timers : t \in d.timers \/ t.serial # 0,
     ZenonT(60) DEF TimerOf, Like
<1> QED BY ONLY <1>2, <1>3, <1>4, e \in Conn, WriteOf(e), Zenon DEF ConnInv

\* The end of a stream: its last chunk, or the close of the connection.
LEMMA StreamEndConn ==
    ASSUME NEW d, NEW e \in Conn, NEW u \in Units, ConnInv(d, u), d.st # 0,
           Like(d, e), e.st = 0, e.timers = d.timers,
           \/ e.wbuf = d.wbuf \o <<Unit(d.st, "last")>>
           \/ e.wbuf = d.wbuf /\ e.close_after,
           WriteOf(e)
    PROVE  ConnInv(e, u)
<1> DEFINE v == EndOf(d.wbuf, u)
<1>0. TailOf(d, v) /\ Chained(d.wbuf, d.woff, u) /\ d \in Conn /\ TimerOf(d)
  BY ZenonT(60) DEF ConnInv
<1>t. d.wbuf \in Seq(Units) /\ d.woff \in Nat /\ d.st \in 0 .. N /\ e.wbuf \in Seq(Units)
  BY ONLY <1>0, e \in Conn, ZenonT(60) DEF Conn
<1> HIDE DEF v
<1>1. Begun(d, v) /\ d.st = d.served /\ ~d.waiting /\ d.file_left = 0 /\ ~d.cont
  BY ONLY <1>0, d.st # 0, ZenonT(60) DEF TailOf
<1>2. Chained(e.wbuf, e.woff, u) /\ TailOf(e, EndOf(e.wbuf, u))
  <2>1. CASE e.wbuf = d.wbuf /\ e.close_after
    BY ONLY <2>1, <1>0, <1>1, Like(d, e), e.st = 0, ZenonT(60) DEF Like, TailOf
  <2>2. CASE e.wbuf = d.wbuf \o <<Unit(d.st, "last")>>
    <3> DEFINE x == Unit(d.st, "last")
    <3>1. x \in Units /\ x.id = d.st /\ x.part = "last"
      BY ONLY <1>t, UnitIs, Zenon
    <3>2. Follows(v, x)
      BY ONLY <1>1, <3>1, ZenonT(60) DEF Follows, Begun
    <3> HIDE DEF x
    <3>3. Chained(d.wbuf \o <<x>>, d.woff, u) /\ EndOf(d.wbuf \o <<x>>, u) = x
      BY ONLY <1>0, <1>t, <3>1, <3>2, ChainPut DEF v
    <3>4. e.wbuf = d.wbuf \o <<x>>
      BY <2>2 DEF x
    <3>5. Done(e, x)
      BY ONLY <3>1, <1>1, Like(d, e), ZenonT(60) DEF Like, Done
    <3> QED BY ONLY <3>3, <3>4, <3>5, <1>1, Like(d, e), e.st = 0, ZenonT(60) DEF Like, TailOf
  <2> QED BY <2>1, <2>2, Zenon
<1>4. TimerOf(e)
  BY ONLY <1>0, <1>1, Like(d, e), e.st = 0, e.timers = d.timers, ZenonT(60) DEF TimerOf, Like
<1> QED BY ONLY <1>2, <1>4, e \in Conn, WriteOf(e), Zenon DEF ConnInv
-----------------------------------------------------------------------------
(* The fields after each assignment of the stream's operations.            *)

\* The fields a stream's callback leaves alone, besides those of Like.
Beside(d, e) ==
    /\ e.out_armed = d.out_armed /\ e.dl = d.dl /\ e.linger = d.linger
    /\ e.lingering = d.lingering /\ e.st_mode = d.st_mode

\* Put writes to wbuf and to nothing else.
LEMMA PutFields ==
    ASSUME NEW d \in Conn, NEW us \in Seq(Units)
    PROVE  LET e == Put(d, us)
           IN  /\ e \in Conn /\ Like(d, e) /\ Beside(d, e)
               /\ e.wbuf = d.wbuf \o us
               /\ e.st = d.st /\ e.st_left = d.st_left /\ e.st_chunked = d.st_chunked
               /\ e.timers = d.timers /\ e.close_after = d.close_after
<1> DEFINE w == d.wbuf \o us
           e == [d EXCEPT !.wbuf = w]
<1>1. w \in Seq(Units)
  BY DEF Conn
<1>2. Put(d, us) = e
  BY DEF Put
<1> HIDE DEF w
<1>3. e \in Conn
  BY ONLY <1>1, d \in Conn, ZenonT(60) DEF Conn
<1>4. /\ Like(d, e) /\ Beside(d, e) /\ e.wbuf = w
      /\ e.st = d.st /\ e.st_left = d.st_left /\ e.st_chunked = d.st_chunked
      /\ e.timers = d.timers /\ e.close_after = d.close_after
  BY ONLY d \in Conn, ZenonT(60) DEF Conn, Like, Beside
<1> HIDE DEF e
<1> QED BY ONLY <1>2, <1>3, <1>4, Zenon DEF w

\* A piece less to write.
LEMMA LeftFields ==
    ASSUME NEW d \in Conn, d.st_left > 0
    PROVE  LET e == [d EXCEPT !.st_left = @ - 1]
           IN  /\ e \in Conn /\ Like(d, e) /\ Beside(d, e)
               /\ e.wbuf = d.wbuf /\ e.st = d.st /\ e.timers = d.timers
               /\ e.close_after = d.close_after
<1> DEFINE n == d.st_left - 1
           e == [d EXCEPT !.st_left = n]
<1>1. d.st_left \in 0 .. StreamLen
  BY ONLY d \in Conn, ZenonT(60) DEF Conn
<1>2. n \in 0 .. StreamLen
  BY <1>1, Http1Assumption DEF Http1Assumption
<1> HIDE DEF n
<1>3. e \in Conn
  BY ONLY <1>2, d \in Conn, ZenonT(60) DEF Conn
<1>4. /\ Like(d, e) /\ Beside(d, e)
      /\ e.wbuf = d.wbuf /\ e.st = d.st /\ e.timers = d.timers
      /\ e.close_after = d.close_after
  BY ONLY d \in Conn, ZenonT(60) DEF Conn, Like, Beside
<1> QED BY ONLY <1>3, <1>4, Zenon DEF n

\* A set of timers.
LEMMA TimersFields ==
    ASSUME NEW d \in Conn, NEW T \in SUBSET Timers
    PROVE  LET e == [d EXCEPT !.timers = T]
           IN  /\ e \in Conn /\ Like(d, e) /\ Beside(d, e) /\ e.timers = T
               /\ e.wbuf = d.wbuf /\ e.st = d.st /\ e.close_after = d.close_after
               /\ e.st_left = d.st_left
<1> DEFINE e == [d EXCEPT !.timers = T]
<1>1. e \in Conn
  BY ONLY T \in SUBSET Timers, d \in Conn, ZenonT(60) DEF Conn
<1>2. /\ Like(d, e) /\ Beside(d, e) /\ e.timers = T
      /\ e.wbuf = d.wbuf /\ e.st = d.st /\ e.close_after = d.close_after
      /\ e.st_left = d.st_left
  BY ONLY d \in Conn, ZenonT(60) DEF Conn, Like, Beside
<1> QED BY ONLY <1>1, <1>2, Zenon

\* The mark that the connection closes once its output is out.
LEMMA CloseFields ==
    ASSUME NEW d \in Conn, NEW b \in BOOLEAN
    PROVE  LET e == [d EXCEPT !.close_after = b]
           IN  /\ e \in Conn /\ Like(d, e) /\ Beside(d, e) /\ e.close_after = b
               /\ e.wbuf = d.wbuf /\ e.st = d.st /\ e.timers = d.timers
<1> DEFINE e == [d EXCEPT !.close_after = b]
<1>1. e \in Conn
  BY ONLY b \in BOOLEAN, d \in Conn, ZenonT(60) DEF Conn
<1>2. /\ Like(d, e) /\ Beside(d, e) /\ e.close_after = b
      /\ e.wbuf = d.wbuf /\ e.st = d.st /\ e.timers = d.timers
  BY ONLY d \in Conn, ZenonT(60) DEF Conn, Like, Beside
<1> QED BY ONLY <1>1, <1>2, Zenon

\* The stream is gone.
LEMMA StEndFields ==
    ASSUME NEW d \in Conn
    PROVE  LET e == StEnd(d)
           IN  /\ e \in Conn /\ Like(d, e) /\ Beside(d, e) /\ e.st = 0
               /\ e.wbuf = d.wbuf /\ e.close_after = d.close_after /\ e.timers = d.timers
<1> DEFINE e == [d EXCEPT !.st = 0]
<1>1. 0 \in 0 .. N
  BY Http1Assumption DEF Http1Assumption
<1>2. e \in Conn
  BY ONLY <1>1, d \in Conn, ZenonT(60) DEF Conn
<1>3. /\ Like(d, e) /\ Beside(d, e) /\ e.st = 0
      /\ e.wbuf = d.wbuf /\ e.close_after = d.close_after /\ e.timers = d.timers
  BY ONLY d \in Conn, ZenonT(60) DEF Conn, Like, Beside
<1> QED BY ONLY <1>2, <1>3, Zenon DEF StEnd

\* The timer a callback of d's stream sets, in the connection w.
StTimer(d, w) ==
    IF d.st_mode = "gen" THEN w
    ELSE [w EXCEPT !.timers = @ \cup {Timer(d.st_serial, d.st)}]

\* What st_take may leave of w: the timer, and the mark on a slow client.
StLeaves(d, w, e) ==
    e = StTimer(d, w) \/ e = [StTimer(d, w) EXCEPT !.close_after = TRUE]

\* What a callback wrote, a timer for the next one perhaps, and the mark on a
\* client that is too slow.
LEMMA StWrites ==
    ASSUME NEW d, NEW u \in Units, ConnInv(d, u), d.st # 0, ~d.close_after,
           NEW w \in Conn, Like(d, w), Beside(d, w), w.st = d.st,
           w.timers = d.timers, w.close_after = d.close_after,
           w.wbuf = d.wbuf \/ w.wbuf = d.wbuf \o <<Unit(d.st, "mid")>>,
           NEW e, StLeaves(d, w, e)
    PROVE  ConnInv(e, u) /\ Beside(d, e) /\ e.open = d.open /\ e.file_left = d.file_left
<1> DEFINE T == d.timers \cup {Timer(d.st_serial, d.st)}
           t == StTimer(d, w)
<1>0. d \in Conn /\ TimerOf(d) /\ WriteOf(d)
  BY ONLY ConnInv(d, u), Zenon DEF ConnInv
<1>1. d.st_serial # 0
  BY ONLY <1>0, d.st # 0, Zenon DEF TimerOf
<1>2. T \in SUBSET Timers /\ \A s \in T : s \in d.timers \/ s.serial # 0
  <2>1. d.timers \in SUBSET Timers /\ d.st_serial \in 0 .. N /\ d.st \in 0 .. N
    BY ONLY <1>0, ZenonT(60) DEF Conn
  <2>2. d.st \in 1 .. N
    BY <2>1, Http1Assumption DEF Http1Assumption
  <2>3. Timer(d.st_serial, d.st) \in Timers /\ Timer(d.st_serial, d.st).serial # 0
    BY ONLY <2>1, <2>2, <1>1, ZenonT(60) DEF Timers, Timer
  <2> QED BY ONLY <2>1, <2>3, ZenonT(60)
<1> HIDE DEF T
<1>3. /\ t \in Conn /\ Like(w, t) /\ Beside(w, t)
      /\ t.wbuf = w.wbuf /\ t.st = w.st /\ t.close_after = w.close_after
      /\ t.timers = d.timers \/ t.timers = T
  <2>1. CASE d.st_mode = "gen"
    <3>1. t = w
      BY ONLY <2>1, Zenon DEF StTimer
    <3> HIDE DEF t
    <3> QED BY ONLY <3>1, w \in Conn, w.timers = d.timers, ZenonT(60) DEF Like, Beside
  <2>2. CASE d.st_mode # "gen"
    <3>1. t = [w EXCEPT !.timers = T]
      BY ONLY <2>2, w.timers = d.timers, Zenon DEF T, StTimer
    <3>2. LET f == [w EXCEPT !.timers = T]
          IN  /\ f \in Conn /\ Like(w, f) /\ Beside(w, f) /\ f.timers = T
              /\ f.wbuf = w.wbuf /\ f.st = w.st /\ f.close_after = w.close_after
              /\ f.st_left = w.st_left
      BY ONLY TimersFields, <1>2, w \in Conn, Zenon
    <3> HIDE DEF t
    <3> QED BY ONLY <3>1, <3>2, Zenon
  <2> QED BY ONLY <2>1, <2>2, Zenon
<1>e. e = t \/ e = [t EXCEPT !.close_after = TRUE]
  BY ONLY StLeaves(d, w, e), Zenon DEF StLeaves
<1> HIDE DEF t
<1>4. /\ e \in Conn /\ Like(t, e) /\ Beside(t, e)
      /\ e.wbuf = t.wbuf /\ e.st = t.st /\ e.timers = t.timers
  <2>1. CASE e = t
    BY ONLY <2>1, <1>3, ZenonT(60) DEF Like, Beside
  <2>2. CASE e = [t EXCEPT !.close_after = TRUE]
    <3>1. LET f == [t EXCEPT !.close_after = TRUE]
          IN  /\ f \in Conn /\ Like(t, f) /\ Beside(t, f) /\ f.close_after = TRUE
              /\ f.wbuf = t.wbuf /\ f.st = t.st /\ f.timers = t.timers
      BY ONLY CloseFields, <1>3, TRUE \in BOOLEAN, Zenon
    <3> QED BY ONLY <2>2, <3>1, Zenon
  <2> QED BY ONLY <2>1, <2>2, <1>e, Zenon
<1>5. Like(d, e) /\ e.st = d.st
  BY ONLY <1>3, <1>4, Like(d, w), w.st = d.st, ZenonT(60) DEF Like
<1>6. Beside(d, e)
  BY ONLY <1>3, <1>4, Beside(d, w), ZenonT(60) DEF Beside
<1>7. WriteOf(e)
  BY ONLY <1>0, <1>6, ZenonT(60) DEF WriteOf, Beside
<1>8. e.wbuf = d.wbuf \/ e.wbuf = d.wbuf \o <<Unit(d.st, "mid")>>
  BY ONLY <1>3, <1>4, w.wbuf = d.wbuf \/ w.wbuf = d.wbuf \o <<Unit(d.st, "mid")>>, Zenon
<1>9. \A s \in e.timers : s \in d.timers \/ s.serial # 0
  BY ONLY <1>2, <1>3, <1>4, Zenon
<1>10. ConnInv(e, u)
  BY ONLY StreamConn, <1>4, <1>5, <1>7, <1>8, <1>9, ConnInv(d, u), u \in Units, d.st # 0,
     ~d.close_after, Zenon
<1> QED BY ONLY <1>5, <1>6, <1>10, Zenon DEF Like

\* A callback of the stream and Worker.st_take after it keep the output in order.
LEMMA StTakeKeeps ==
    ASSUME NEW d, NEW u \in Units, ConnInv(d, u), d.st # 0, ~d.close_after,
           NEW act \in {"write", "end", "none"}, act = "write" => d.st_left > 0
    PROVE  LET e == StTake(d, act)
           IN  ConnInv(e, u) /\ Beside(d, e) /\ e.open = d.open /\ e.file_left = d.file_left
<1> DEFINE e == StTake(d, act)
           slow(t) == Len(t.wbuf) - t.woff > SlowFactor * MaxPending
<1>0. d \in Conn /\ WriteOf(d)
  BY ONLY ConnInv(d, u), Zenon DEF ConnInv
<1>t. /\ d.st \in 0 .. N /\ d.st_chunked \in BOOLEAN /\ d.st_close \in BOOLEAN
      /\ d.wbuf \in Seq(Units)
  BY ONLY <1>0, ZenonT(60) DEF Conn
<1>u. Unit(d.st, "mid") \in Units /\ Unit(d.st, "last") \in Units
  BY ONLY <1>t, UnitIs, Zenon
<1>1. CASE act = "write"
  <2> DEFINE p == Put(d, <<Unit(d.st, "mid")>>)
             w == [p EXCEPT !.st_left = @ - 1]
             t == StTimer(d, w)
  <2>1. e = IF slow(t) THEN [t EXCEPT !.close_after = TRUE] ELSE t
    BY <1>1, ZenonT(60) DEF StTake, StTimer
  <2>2. <<Unit(d.st, "mid")>> \in Seq(Units)
    BY <1>u
  <2>3. /\ p \in Conn /\ Like(d, p) /\ Beside(d, p)
        /\ p.wbuf = d.wbuf \o <<Unit(d.st, "mid")>>
        /\ p.st = d.st /\ p.st_left = d.st_left /\ p.st_chunked = d.st_chunked
        /\ p.timers = d.timers /\ p.close_after = d.close_after
    BY ONLY PutFields, <1>0, <2>2, Zenon
  <2> HIDE DEF p
  <2>4. p.st_left > 0
    BY ONLY <2>3, <1>1, act = "write" => d.st_left > 0, Zenon
  <2>5. /\ w \in Conn /\ Like(p, w) /\ Beside(p, w)
        /\ w.wbuf = p.wbuf /\ w.st = p.st /\ w.timers = p.timers
        /\ w.close_after = p.close_after
    BY ONLY LeftFields, <2>3, <2>4, Zenon
  <2> HIDE DEF w
  <2>6. /\ Like(d, w) /\ Beside(d, w) /\ w.st = d.st /\ w.timers = d.timers
        /\ w.close_after = d.close_after /\ w.wbuf = d.wbuf \o <<Unit(d.st, "mid")>>
    BY ONLY <2>3, <2>5, ZenonT(60) DEF Like, Beside
  <2> HIDE DEF slow
  <2>8. StLeaves(d, w, e)
    BY ONLY <2>1, Zenon DEF StLeaves
  <2> HIDE DEF e
  <2>w. w \in Conn
    BY ONLY <2>5, Zenon
  <2>x. w.wbuf = d.wbuf \/ w.wbuf = d.wbuf \o <<Unit(d.st, "mid")>>
    BY ONLY <2>6, Zenon
  <2>9. ConnInv(e, u) /\ Beside(d, e) /\ e.open = d.open /\ e.file_left = d.file_left
    BY ONLY StWrites, <2>w, <2>x, <2>6, <2>8, ConnInv(d, u), u \in Units, d.st # 0,
       ~d.close_after, Zenon
  <2> QED BY ONLY <2>9, Zenon DEF e
<1>2. CASE act = "none"
  <2> DEFINE w == d
             t == StTimer(d, w)
  <2>1. e = IF slow(t) THEN [t EXCEPT !.close_after = TRUE] ELSE t
    BY <1>2, ZenonT(60) DEF StTake, StTimer
  <2>6. /\ Like(d, w) /\ Beside(d, w) /\ w.st = d.st /\ w.timers = d.timers
        /\ w.close_after = d.close_after /\ w.wbuf = d.wbuf /\ w \in Conn
    BY ONLY <1>0, ZenonT(60) DEF Like, Beside
  <2> HIDE DEF w
  <2> HIDE DEF slow
  <2>8. StLeaves(d, w, e)
    BY ONLY <2>1, Zenon DEF StLeaves
  <2> HIDE DEF e
  <2>x. w.wbuf = d.wbuf \/ w.wbuf = d.wbuf \o <<Unit(d.st, "mid")>>
    BY ONLY <2>6, Zenon
  <2>9. ConnInv(e, u) /\ Beside(d, e) /\ e.open = d.open /\ e.file_left = d.file_left
    BY ONLY StWrites, <2>x, <2>6, <2>8, ConnInv(d, u), u \in Units, d.st # 0,
       ~d.close_after, Zenon
  <2> QED BY ONLY <2>9, Zenon DEF e
<1>3. CASE act = "end"
  <2> DEFINE w == IF d.st_chunked THEN Put(d, <<Unit(d.st, "last")>>) ELSE d
             z == StEnd(w)
             b == d.st_close \/ ~d.st_chunked
  <2>1. e = [z EXCEPT !.close_after = b]
    BY <1>3, ZenonT(60) DEF StTake, StTimer
  <2>2. /\ w \in Conn /\ Like(d, w) /\ Beside(d, w) /\ w.timers = d.timers
        /\ IF d.st_chunked THEN w.wbuf = d.wbuf \o <<Unit(d.st, "last")>> ELSE w.wbuf = d.wbuf
    <3>1. CASE d.st_chunked
      <4> DEFINE p == Put(d, <<Unit(d.st, "last")>>)
      <4>1. <<Unit(d.st, "last")>> \in Seq(Units)
        BY <1>u
      <4>2. /\ p \in Conn /\ Like(d, p) /\ Beside(d, p)
            /\ p.wbuf = d.wbuf \o <<Unit(d.st, "last")>>
            /\ p.st = d.st /\ p.st_left = d.st_left /\ p.st_chunked = d.st_chunked
            /\ p.timers = d.timers /\ p.close_after = d.close_after
        BY ONLY PutFields, <1>0, <4>1, Zenon
      <4>3. w = p
        BY ONLY <3>1, Zenon
      <4> HIDE DEF p, w
      <4> QED BY ONLY <4>2, <4>3, <3>1, Zenon
    <3>2. CASE ~d.st_chunked
      BY ONLY <3>2, <1>0, ZenonT(60) DEF Like, Beside
    <3> QED BY ONLY <3>1, <3>2, Zenon
  <2> HIDE DEF w
  <2>3. /\ z \in Conn /\ Like(w, z) /\ Beside(w, z) /\ z.st = 0
        /\ z.wbuf = w.wbuf /\ z.close_after = w.close_after /\ z.timers = w.timers
    BY ONLY StEndFields, <2>2, Zenon
  <2> HIDE DEF z
  <2>4. b \in BOOLEAN /\ (~d.st_chunked => b)
    BY ONLY <1>t
  <2> HIDE DEF b
  <2>5. /\ e \in Conn /\ Like(z, e) /\ Beside(z, e) /\ e.close_after = b
        /\ e.wbuf = z.wbuf /\ e.st = z.st /\ e.timers = z.timers
    <3>1. LET f == [z EXCEPT !.close_after = b]
          IN  /\ f \in Conn /\ Like(z, f) /\ Beside(z, f) /\ f.close_after = b
              /\ f.wbuf = z.wbuf /\ f.st = z.st /\ f.timers = z.timers
      BY ONLY CloseFields, <2>3, <2>4, Zenon
    <3> QED BY ONLY <2>1, <3>1, Zenon
  <2> HIDE DEF e
  <2>6. Like(d, e) /\ Beside(d, e) /\ e.st = 0 /\ e.timers = d.timers
    BY ONLY <2>2, <2>3, <2>5, ZenonT(60) DEF Like, Beside
  <2>7. \/ e.wbuf = d.wbuf \o <<Unit(d.st, "last")>>
        \/ e.wbuf = d.wbuf /\ e.close_after
    BY ONLY <2>2, <2>3, <2>4, <2>5, <1>t, Zenon
  <2>8. WriteOf(e)
    BY ONLY <1>0, <2>6, ZenonT(60) DEF WriteOf, Beside
  <2>9. ConnInv(e, u)
    BY ONLY StreamEndConn, <2>5, <2>6, <2>7, <2>8, ConnInv(d, u), u \in Units, d.st # 0, Zenon
  <2> QED BY ONLY <2>6, <2>9, Zenon DEF e, Like
<1> QED BY <1>1, <1>2, <1>3, Zenon
-----------------------------------------------------------------------------
(* The answer to a request: Worker.finish.                                 *)

\* Request d.served was taken from rbuf and nothing of its answer is out.
Ready(d, u) ==
    /\ d \in Conn /\ Chained(d.wbuf, d.woff, u) /\ Owed(d, EndOf(d.wbuf, u)) /\ WriteOf(d)
    /\ d.open /\ ~d.waiting /\ d.st = 0 /\ d.file_left = 0 /\ ~d.cont /\ ~d.close_after
    /\ d.served \in 1 .. N /\ d.st_serial < d.served
    /\ \A t \in d.timers : t.serial # 0

\* The first unit of an answer follows what is out.
LEMMA AnswerPut ==
    ASSUME NEW d, NEW u \in Units, Ready(d, u), NEW part \in {"only", "first"}
    PROVE  LET x == Unit(d.served, part)
               e == Put(d, <<x>>)
           IN  /\ x \in Units /\ x.id = d.served /\ x.part = part
               /\ e \in Conn /\ Like(d, e) /\ Beside(d, e)
               /\ e.wbuf = d.wbuf \o <<x>>
               /\ e.st = d.st /\ e.timers = d.timers /\ e.close_after = d.close_after
               /\ Chained(e.wbuf, e.woff, u) /\ EndOf(e.wbuf, u) = x
<1> DEFINE x == Unit(d.served, part)
           e == Put(d, <<x>>)
           v == EndOf(d.wbuf, u)
<1>0. /\ d \in Conn /\ Chained(d.wbuf, d.woff, u) /\ Owed(d, v) /\ d.served \in 1 .. N
  BY ONLY Ready(d, u), Zenon DEF Ready
<1>1. d.wbuf \in Seq(Units) /\ d.woff \in Nat
  BY ONLY <1>0, ZenonT(60) DEF Conn
<1>2. x \in Units /\ x.id = d.served /\ x.part = part
  BY <1>0, Http1Assumption DEF Http1Assumption, Units, Unit
<1> HIDE DEF x, v
<1>3. Follows(v, x)
  BY ONLY <1>0, <1>2, part \in {"only", "first"}, ZenonT(60) DEF Follows, Owed
<1>4. Chained(d.wbuf \o <<x>>, d.woff, u) /\ EndOf(d.wbuf \o <<x>>, u) = x
  BY ONLY <1>0, <1>1, <1>2, <1>3, ChainPut DEF v
<1>5. <<x>> \in Seq(Units)
  BY ONLY <1>2
<1>6. /\ e \in Conn /\ Like(d, e) /\ Beside(d, e)
      /\ e.wbuf = d.wbuf \o <<x>>
      /\ e.st = d.st /\ e.st_left = d.st_left /\ e.st_chunked = d.st_chunked
      /\ e.timers = d.timers /\ e.close_after = d.close_after
  BY ONLY PutFields, <1>0, <1>5, Zenon
<1> HIDE DEF e
<1>7. Chained(e.wbuf, e.woff, u) /\ EndOf(e.wbuf, u) = x
  BY ONLY <1>4, <1>6, Zenon DEF Like
<1> QED BY ONLY <1>2, <1>6, <1>7, Zenon DEF x, e

\* The serial of the stream before is smaller than the request's number.
LEMMA ReadySerial ==
    ASSUME NEW d, NEW u, Ready(d, u)
    PROVE  d.st_serial <= d.served
<1>1. d.served \in Nat /\ d.st_serial \in Nat
  BY Ready(d, u), Http1Assumption DEF Ready, Conn, Http1Assumption
<1> QED BY <1>1, Ready(d, u) DEF Ready

\* A complete answer is behind the output.
LEMMA AnsweredKeeps ==
    ASSUME NEW d, NEW u, Ready(d, u), NEW e \in Conn, NEW x,
           Like(d, e), Beside(d, e), e.st = d.st, e.timers = d.timers,
           Chained(e.wbuf, e.woff, u), EndOf(e.wbuf, u) = x, Done(e, x)
    PROVE  ConnInv(e, u) /\ e.open
<1>1. TailOf(e, x)
  BY ZenonT(60) DEF TailOf, Like, Ready
<1>2. TimerOf(e)
  BY ReadySerial, ZenonT(60) DEF TimerOf, Like, Ready
<1>3. WriteOf(e)
  BY ZenonT(60) DEF WriteOf, Beside, Ready
<1>4. TailOf(e, EndOf(e.wbuf, u))
  BY ONLY <1>1, EndOf(e.wbuf, u) = x, Zenon
<1>5. ConnInv(e, u)
  BY ONLY <1>2, <1>3, <1>4, e \in Conn, Chained(e.wbuf, e.woff, u), Zenon DEF ConnInv
<1> QED BY <1>5, Zenon DEF Like, Ready

\* A whole response at once.
LEMMA PlainKeeps ==
    ASSUME NEW d, NEW u \in Units, Ready(d, u), NEW close \in BOOLEAN
    PROVE  LET e == [Put(d, <<Unit(d.served, "only")>>) EXCEPT !.close_after = close]
           IN  ConnInv(e, u) /\ Beside(d, e) /\ e.open
<1> DEFINE x == Unit(d.served, "only")
           p == Put(d, <<x>>)
           e == [p EXCEPT !.close_after = close]
<1>0. "only" \in {"only", "first"}
  BY ONLY Zenon
<1>1. /\ x \in Units /\ x.id = d.served /\ x.part = "only"
      /\ p \in Conn /\ Like(d, p) /\ Beside(d, p)
      /\ p.wbuf = d.wbuf \o <<x>>
      /\ p.st = d.st /\ p.timers = d.timers /\ p.close_after = d.close_after
      /\ Chained(p.wbuf, p.woff, u) /\ EndOf(p.wbuf, u) = x
  BY ONLY AnswerPut, Ready(d, u), u \in Units, <1>0, Zenon
<1> HIDE DEF x, p
<1>2. /\ e \in Conn /\ Like(p, e) /\ Beside(p, e) /\ e.close_after = close
      /\ e.wbuf = p.wbuf /\ e.st = p.st /\ e.timers = p.timers
  BY ONLY CloseFields, <1>1, close \in BOOLEAN, Zenon
<1> HIDE DEF e
<1>3. Like(d, e) /\ Beside(d, e) /\ e.st = d.st /\ e.timers = d.timers
  BY ONLY <1>1, <1>2, ZenonT(60) DEF Like, Beside
<1>4. Chained(e.wbuf, e.woff, u) /\ EndOf(e.wbuf, u) = x
  BY ONLY <1>1, <1>2, Zenon DEF Like
<1>5. Done(e, x)
  BY ONLY <1>1, <1>3, ZenonT(60) DEF Done, Like
<1>6. ConnInv(e, u) /\ e.open
  BY ONLY AnsweredKeeps, Ready(d, u), <1>2, <1>3, <1>4, <1>5, Zenon
<1> QED BY ONLY <1>3, <1>6, Zenon DEF e, p, x

\* A response in two writes.
LEMMA BigKeeps ==
    ASSUME NEW d, NEW u \in Units, Ready(d, u), NEW close \in BOOLEAN
    PROVE  LET us == <<Unit(d.served, "first"), Unit(d.served, "last")>>
               e == [Put(d, us) EXCEPT !.close_after = close]
           IN  ConnInv(e, u) /\ Beside(d, e) /\ e.open
<1> DEFINE x == Unit(d.served, "first")
           y == Unit(d.served, "last")
           q == Put(d, <<x>>)
           p == Put(d, <<x, y>>)
           e == [p EXCEPT !.close_after = close]
<1>0. "first" \in {"only", "first"}
  BY ONLY Zenon
<1>1. /\ x \in Units /\ x.id = d.served /\ x.part = "first"
      /\ q \in Conn /\ Like(d, q) /\ Beside(d, q)
      /\ q.wbuf = d.wbuf \o <<x>>
      /\ q.st = d.st /\ q.timers = d.timers /\ q.close_after = d.close_after
      /\ Chained(q.wbuf, q.woff, u) /\ EndOf(q.wbuf, u) = x
  BY ONLY AnswerPut, Ready(d, u), u \in Units, <1>0, Zenon
<1>2. y \in Units /\ y.id = d.served /\ y.part = "last"
  BY Ready(d, u), Http1Assumption DEF Http1Assumption, Units, Unit, Ready
<1>3. d \in Conn /\ d.wbuf \in Seq(Units) /\ q.wbuf \in Seq(Units) /\ q.woff \in Nat
  BY ONLY Ready(d, u), <1>1, ZenonT(60) DEF Conn, Ready
<1> HIDE DEF x, y, q
<1>4. <<x, y>> \in Seq(Units) /\ d.wbuf \o <<x, y>> = (d.wbuf \o <<x>>) \o <<y>>
  BY ONLY PutTwo, <1>1, <1>2, <1>3, Zenon
<1>5. /\ p \in Conn /\ Like(d, p) /\ Beside(d, p)
      /\ p.wbuf = d.wbuf \o <<x, y>>
      /\ p.st = d.st /\ p.st_left = d.st_left /\ p.st_chunked = d.st_chunked
      /\ p.timers = d.timers /\ p.close_after = d.close_after
  BY ONLY PutFields, <1>3, <1>4, Zenon
<1> HIDE DEF p
<1>6. Follows(EndOf(q.wbuf, u), y)
  <2>1. Follows(x, y)
    BY ONLY <1>1, <1>2, ZenonT(60) DEF Follows
  <2> QED BY ONLY <2>1, <1>1, Zenon
<1>7. Chained(q.wbuf \o <<y>>, q.woff, u) /\ EndOf(q.wbuf \o <<y>>, u) = y
  <2> DEFINE w == q.wbuf
             o == q.woff
  <2>1. w \in Seq(Units) /\ o \in Nat /\ y \in Units /\ Chained(w, o, u)
        /\ Follows(EndOf(w, u), y)
    BY ONLY <1>1, <1>2, <1>3, <1>6, Zenon
  <2> HIDE DEF w, o
  <2>2. Chained(w \o <<y>>, o, u) /\ EndOf(w \o <<y>>, u) = y
    BY ONLY <2>1, ChainPut
  <2> QED BY ONLY <2>2, Zenon DEF w, o
<1>8. p.wbuf = q.wbuf \o <<y>> /\ p.woff = q.woff
  BY ONLY <1>1, <1>4, <1>5, Zenon DEF Like
<1>9. /\ e \in Conn /\ Like(p, e) /\ Beside(p, e) /\ e.close_after = close
      /\ e.wbuf = p.wbuf /\ e.st = p.st /\ e.timers = p.timers
  BY ONLY CloseFields, <1>5, close \in BOOLEAN, Zenon
<1> HIDE DEF e
<1>10. Like(d, e) /\ Beside(d, e) /\ e.st = d.st /\ e.timers = d.timers
  BY ONLY <1>5, <1>9, ZenonT(60) DEF Like, Beside
<1>11. Chained(e.wbuf, e.woff, u) /\ EndOf(e.wbuf, u) = y
  BY ONLY <1>7, <1>8, <1>9, Zenon DEF Like
<1>12. Done(e, y)
  BY ONLY <1>2, <1>10, ZenonT(60) DEF Done, Like
<1>13. ConnInv(e, u) /\ e.open
  BY ONLY AnsweredKeeps, Ready(d, u), <1>9, <1>10, <1>11, <1>12, Zenon
<1> QED BY ONLY <1>10, <1>13, Zenon DEF e, p, x, y

\* The head of a file; flush sends the rest.
LEMMA FileKeeps ==
    ASSUME NEW d, NEW u \in Units, Ready(d, u), NEW close \in BOOLEAN
    PROVE  LET e == [Put(d, <<Unit(d.served, "first")>>) EXCEPT !.close_after = close,
                                                               !.file_left = FileUnits]
           IN  ConnInv(e, u) /\ Beside(d, e) /\ e.open
<1> DEFINE x == Unit(d.served, "first")
           p == Put(d, <<x>>)
           e == [p EXCEPT !.close_after = close, !.file_left = FileUnits]
<1>0. "first" \in {"only", "first"}
  BY ONLY Zenon
<1>1. /\ x \in Units /\ x.id = d.served /\ x.part = "first"
      /\ p \in Conn /\ Like(d, p) /\ Beside(d, p)
      /\ p.wbuf = d.wbuf \o <<x>>
      /\ p.st = d.st /\ p.timers = d.timers /\ p.close_after = d.close_after
      /\ Chained(p.wbuf, p.woff, u) /\ EndOf(p.wbuf, u) = x
  BY ONLY AnswerPut, Ready(d, u), u \in Units, <1>0, Zenon
<1> HIDE DEF x, p
<1>2. FileUnits \in 0 .. FileUnits
  BY Http1Assumption DEF Http1Assumption
<1>3. e \in Conn
  BY ONLY <1>1, <1>2, close \in BOOLEAN, ZenonT(60) DEF Conn
<1>4. /\ e.open = p.open /\ e.cont = p.cont /\ e.woff = p.woff /\ e.waiting = p.waiting
      /\ e.served = p.served /\ e.st_serial = p.st_serial
      /\ e.wbuf = p.wbuf /\ e.st = p.st /\ e.timers = p.timers /\ Beside(p, e)
  BY ONLY <1>1, ZenonT(60) DEF Conn, Beside
<1> HIDE DEF e
<1>5. /\ e.open = d.open /\ e.cont = d.cont /\ e.waiting = d.waiting
      /\ e.served = d.served /\ e.st_serial = d.st_serial
      /\ e.st = d.st /\ e.timers = d.timers
  BY ONLY <1>1, <1>4, ZenonT(60) DEF Like
<1>6. Beside(d, e)
  BY ONLY <1>1, <1>4, ZenonT(60) DEF Beside
<1>7. Chained(e.wbuf, e.woff, u) /\ EndOf(e.wbuf, u) = x
  BY ONLY <1>1, <1>4, Zenon
<1>8. Begun(e, x)
  BY ONLY <1>1, <1>5, ZenonT(60) DEF Begun
<1>9. e.file_left # 0
  BY ONLY <1>1, Http1Assumption, ZenonT(60) DEF Conn, e, Http1Assumption
<1>10. TailOf(e, x)
  BY ONLY <1>5, <1>8, <1>9, Ready(d, u), ZenonT(60) DEF TailOf, Ready
<1>11. TimerOf(e)
  BY ONLY <1>5, ReadySerial, Ready(d, u), ZenonT(60) DEF TimerOf, Ready
<1>12. WriteOf(e)
  BY ONLY <1>6, Ready(d, u), ZenonT(60) DEF WriteOf, Beside, Ready
<1>13. ConnInv(e, u)
  BY ONLY <1>3, <1>7, <1>10, <1>11, <1>12, Zenon DEF ConnInv
<1>14. e.open
  BY ONLY <1>5, Ready(d, u), Zenon DEF Ready
<1> QED BY ONLY <1>6, <1>13, <1>14, Zenon DEF e, p, x

\* The head of a stream, and Worker.st_open.
LEMMA StreamKeeps ==
    ASSUME NEW d, NEW u \in Units, Ready(d, u), NEW close \in BOOLEAN,
           NEW mode \in Modes, NEW chunked \in BOOLEAN
    PROVE  LET e == StOpen(d, d.served, close, mode, chunked)
           IN  /\ ConnInv(e, u) /\ e.open
               /\ e.out_armed = d.out_armed /\ e.lingering = d.lingering
<1> DEFINE x == Unit(d.served, "first")
           p == Put(d, <<x>>)
           b == close \/ ~chunked
           n == p.st_serial + 1
           q == [p EXCEPT !.st = d.served, !.st_mode = mode, !.st_chunked = chunked,
                          !.st_close = b, !.close_after = FALSE,
                          !.st_serial = n, !.st_left = StreamLen, !.reading = FALSE]
           e == StTake(q, "none")
<1>0. "first" \in {"only", "first"}
  BY ONLY Zenon
<1>1. /\ x \in Units /\ x.id = d.served /\ x.part = "first"
      /\ p \in Conn /\ Like(d, p) /\ Beside(d, p)
      /\ p.wbuf = d.wbuf \o <<x>>
      /\ p.st = d.st /\ p.timers = d.timers /\ p.close_after = d.close_after
      /\ Chained(p.wbuf, p.woff, u) /\ EndOf(p.wbuf, u) = x
  BY ONLY AnswerPut, Ready(d, u), u \in Units, <1>0, Zenon
<1>2. StOpen(d, d.served, close, mode, chunked) = e
  BY ONLY Zenon DEF StOpen
<1> HIDE DEF x, p
<1>3. b \in BOOLEAN /\ FALSE \in BOOLEAN
  OBVIOUS
<1>4. /\ d.served \in 0 .. N /\ d.served # 0 /\ StreamLen \in 0 .. StreamLen
      /\ n \in 0 .. N /\ n # 0 /\ n <= d.served
  <2>1. p.st_serial = d.st_serial
    BY ONLY <1>1, Zenon DEF Like
  <2>2. d.st_serial \in 0 .. N
    BY ONLY Ready(d, u), ZenonT(60) DEF Conn, Ready
  <2>3. d.served \in 1 .. N /\ d.st_serial < d.served
    BY ONLY Ready(d, u), Zenon DEF Ready
  <2> QED BY ONLY <2>1, <2>2, <2>3, Http1Assumption DEF Http1Assumption
<1> HIDE DEF b, n
<1>5. q \in Conn
  BY ONLY <1>1, <1>3, <1>4, mode \in Modes, chunked \in BOOLEAN, ZenonT(60) DEF Conn
<1>6. /\ q.open = p.open /\ q.cont = p.cont /\ q.woff = p.woff /\ q.waiting = p.waiting
      /\ q.served = p.served /\ q.file_left = p.file_left
      /\ q.wbuf = p.wbuf /\ q.timers = p.timers
      /\ q.out_armed = p.out_armed /\ q.dl = p.dl /\ q.lingering = p.lingering
      /\ q.st = d.served /\ q.st_serial = n /\ q.close_after = FALSE
  BY ONLY <1>1, ZenonT(60) DEF Conn
<1> HIDE DEF q
<1>7. /\ q.open = d.open /\ q.cont = d.cont /\ q.waiting = d.waiting
      /\ q.served = d.served /\ q.file_left = d.file_left /\ q.timers = d.timers
      /\ q.out_armed = d.out_armed /\ q.dl = d.dl /\ q.lingering = d.lingering
  BY ONLY <1>1, <1>6, ZenonT(60) DEF Like, Beside
<1>8. Chained(q.wbuf, q.woff, u) /\ EndOf(q.wbuf, u) = x
  BY ONLY <1>1, <1>6, Zenon
<1>9. Begun(q, x)
  BY ONLY <1>1, <1>7, ZenonT(60) DEF Begun
<1>10. TailOf(q, x)
  BY ONLY <1>4, <1>6, <1>7, <1>9, Ready(d, u), ZenonT(60) DEF TailOf, Ready
<1>11. TimerOf(q)
  BY ONLY <1>4, <1>6, <1>7, Ready(d, u), ZenonT(60) DEF TimerOf, Ready
<1>12. WriteOf(q)
  BY ONLY <1>7, Ready(d, u), ZenonT(60) DEF WriteOf, Ready
<1>13. ConnInv(q, u)
  BY ONLY <1>5, <1>8, <1>10, <1>11, <1>12, Zenon DEF ConnInv
<1>14. q.st # 0 /\ ~q.close_after
  BY ONLY <1>4, <1>6, Zenon
<1>15. "none" \in {"write", "end", "none"} /\ ("none" = "write" => q.st_left > 0)
  OBVIOUS
<1>16. ConnInv(e, u) /\ Beside(q, e) /\ e.open = q.open /\ e.file_left = q.file_left
  BY ONLY StTakeKeeps, <1>13, <1>14, <1>15, u \in Units, Zenon
<1> HIDE DEF e
<1>17. e.open /\ e.out_armed = d.out_armed /\ e.lingering = d.lingering
  BY ONLY <1>7, <1>16, Ready(d, u), Zenon DEF Beside, Ready
<1> QED BY ONLY <1>2, <1>16, <1>17, Zenon

\* A response put off: Ctx.after.
LEMMA DeferKeeps ==
    ASSUME NEW d, NEW u \in Units, Ready(d, u), NEW close \in BOOLEAN
    PROVE  LET e == [d EXCEPT !.waiting = TRUE, !.pending_close = close,
                              !.timers = @ \cup {Timer(0, d.served)}]
           IN  /\ ConnInv(e, u) /\ e.open
               /\ e.out_armed = d.out_armed /\ e.lingering = d.lingering
               /\ e.close_after = d.close_after
<1> DEFINE T == d.timers \cup {Timer(0, d.served)}
           e == [d EXCEPT !.waiting = TRUE, !.pending_close = close, !.timers = T]
<1>0. d \in Conn
  BY ONLY Ready(d, u), Zenon DEF Ready
<1>1. T \in SUBSET Timers /\ \A t \in T : t.serial = 0 => t.id = d.served
  <2>1. d.timers \in SUBSET Timers
    BY ONLY <1>0, ZenonT(60) DEF Conn
  <2>2. 0 \in 0 .. N
    BY Http1Assumption DEF Http1Assumption
  <2>3. Timer(0, d.served) \in Timers /\ Timer(0, d.served).id = d.served
    BY ONLY <2>2, Ready(d, u), ZenonT(60) DEF Ready, Timers, Timer
  <2> QED BY ONLY <2>1, <2>3, Ready(d, u), ZenonT(60) DEF Ready
<1> HIDE DEF T
<1>2. TRUE \in BOOLEAN
  OBVIOUS
<1>3. e \in Conn
  BY ONLY <1>0, <1>1, <1>2, close \in BOOLEAN, ZenonT(60) DEF Conn
<1>4. /\ e.open = d.open /\ e.cont = d.cont /\ e.woff = d.woff /\ e.wbuf = d.wbuf
      /\ e.waiting = TRUE /\ e.timers = T /\ e.st = d.st /\ e.file_left = d.file_left
      /\ e.served = d.served /\ e.st_serial = d.st_serial /\ e.close_after = d.close_after
      /\ e.out_armed = d.out_armed /\ e.dl = d.dl /\ e.lingering = d.lingering
  BY ONLY <1>0, ZenonT(60) DEF Conn
<1> HIDE DEF e
<1>5. Chained(e.wbuf, e.woff, u)
  BY ONLY <1>4, Ready(d, u), Zenon DEF Ready
<1>6. Owed(e, EndOf(e.wbuf, u))
  BY ONLY <1>4, Ready(d, u), ZenonT(60) DEF Ready, Owed
<1>7. TailOf(e, EndOf(e.wbuf, u))
  BY ONLY <1>4, <1>6, Ready(d, u), ZenonT(60) DEF TailOf, Ready
<1>8. TimerOf(e)
  BY ONLY <1>1, <1>4, ReadySerial, Ready(d, u), ZenonT(60) DEF TimerOf, Ready
<1>9. WriteOf(e)
  BY ONLY <1>4, Ready(d, u), ZenonT(60) DEF WriteOf, Ready
<1>10. ConnInv(e, u)
  BY ONLY <1>3, <1>5, <1>7, <1>8, <1>9, Zenon DEF ConnInv
<1>11. e.open
  BY ONLY <1>4, Ready(d, u), Zenon DEF Ready
<1> QED BY ONLY <1>4, <1>10, <1>11, Zenon DEF e, T

\* Whatever the handler left: the answer follows the output, or waits.
LEMMA FinishKeeps ==
    ASSUME NEW d, NEW u \in Units, Ready(d, u), NEW kind \in Kinds \ {"bad"},
           NEW close \in BOOLEAN, NEW mode \in Modes, NEW chunked \in BOOLEAN
    PROVE  LET e == Finish(d, d.served, kind, close, mode, chunked)
           IN  /\ ConnInv(e, u) /\ e.open
               /\ e.out_armed = d.out_armed /\ e.lingering = d.lingering
<1>1. CASE kind = "defer"
  BY ONLY <1>1, DeferKeeps, Ready(d, u), u \in Units, close \in BOOLEAN, ZenonT(60) DEF Finish
<1>2. CASE kind = "plain"
  BY ONLY <1>2, PlainKeeps, Ready(d, u), u \in Units, close \in BOOLEAN, ZenonT(60) DEF Finish, Beside
<1>3. CASE kind = "big"
  BY ONLY <1>3, BigKeeps, Ready(d, u), u \in Units, close \in BOOLEAN, ZenonT(60) DEF Finish, Beside
<1>4. CASE kind = "file"
  BY ONLY <1>4, FileKeeps, Ready(d, u), u \in Units, close \in BOOLEAN, ZenonT(60) DEF Finish, Beside
<1>5. CASE kind = "stream"
  <2> DEFINE e == StOpen(d, d.served, close, mode, chunked)
  <2>1. /\ ConnInv(e, u) /\ e.open
        /\ e.out_armed = d.out_armed /\ e.lingering = d.lingering
    BY ONLY StreamKeeps, Ready(d, u), u \in Units, close \in BOOLEAN,
       mode \in Modes, chunked \in BOOLEAN
  <2>2. Finish(d, d.served, kind, close, mode, chunked) = e
    BY ONLY <1>5, Zenon DEF Finish
  <2> QED BY ONLY <2>1, <2>2, Zenon
<1> QED BY <1>1, <1>2, <1>3, <1>4, <1>5, Zenon DEF Kinds
-----------------------------------------------------------------------------
(* The other operations on the connection.                                 *)

\* The fields CloseOf looks at.
Shut(d, e) ==
    /\ e.open = d.open /\ e.close_after = d.close_after /\ e.out_armed = d.out_armed
    /\ e.lingering = d.lingering /\ e.wbuf = d.wbuf /\ e.file_left = d.file_left

\* What SameConn asks of a step that writes nothing and sets no mark.
LEMMA QuietConn ==
    ASSUME NEW d, NEW u, ConnInv(d, u), NEW e \in Conn,
           Like(d, e), Shut(d, e), e.st = d.st, e.timers \subseteq d.timers, e.dl = d.dl
    PROVE  ConnInv(e, u)
<1>1. WriteOf(e)
  BY ZenonT(60) DEF ConnInv, WriteOf, Shut
<1>2. /\ e.wbuf = d.wbuf /\ (d.close_after => e.close_after)
      /\ (e.close_after => d.close_after \/ ~d.waiting)
  BY ONLY Shut(d, e), Zenon DEF Shut
<1> QED BY ONLY <1>1, <1>2, SameConn, ConnInv(d, u), e \in Conn, Like(d, e), e.st = d.st,
           e.timers \subseteq d.timers, Zenon

\* Input comes into rbuf, or is dropped.
LEMMA RbufKeeps ==
    ASSUME NEW d, NEW u, ConnInv(d, u), NEW n \in 0 .. MaxTotal
    PROVE  LET e == [d EXCEPT !.rbuf = n] IN ConnInv(e, u) /\ Shut(d, e)
<1> DEFINE e == [d EXCEPT !.rbuf = n]
<1>0. d \in Conn
  BY ONLY ConnInv(d, u), Zenon DEF ConnInv
<1>1. e \in Conn
  BY ONLY <1>0, n \in 0 .. MaxTotal, ZenonT(60) DEF Conn
<1>2. Like(d, e) /\ Shut(d, e) /\ e.st = d.st /\ e.timers \subseteq d.timers /\ e.dl = d.dl
  BY ONLY <1>0, ZenonT(60) DEF Conn, Like, Shut
<1> HIDE DEF e
<1>3. ConnInv(e, u)
  BY ONLY QuietConn, <1>1, <1>2, ConnInv(d, u), Zenon
<1> QED BY ONLY <1>2, <1>3, Zenon DEF e

\* Input is dropped and the connection is not reading.
LEMMA DropKeeps ==
    ASSUME NEW d, NEW u, ConnInv(d, u)
    PROVE  LET e == [d EXCEPT !.rbuf = 0, !.reading = FALSE] IN ConnInv(e, u) /\ Shut(d, e)
<1> DEFINE e == [d EXCEPT !.rbuf = 0, !.reading = FALSE]
<1>0. d \in Conn
  BY ONLY ConnInv(d, u), Zenon DEF ConnInv
<1>n. 0 \in 0 .. MaxTotal /\ FALSE \in BOOLEAN
  BY Http1Assumption DEF Http1Assumption
<1>1. e \in Conn
  BY ONLY <1>0, <1>n, ZenonT(60) DEF Conn
<1>2. Like(d, e) /\ Shut(d, e) /\ e.st = d.st /\ e.timers \subseteq d.timers /\ e.dl = d.dl
  BY ONLY <1>0, ZenonT(60) DEF Conn, Like, Shut
<1> HIDE DEF e
<1>3. ConnInv(e, u)
  BY ONLY QuietConn, <1>1, <1>2, ConnInv(d, u), Zenon
<1> QED BY ONLY <1>2, <1>3, Zenon DEF e

\* The end of process.
LEMMA EndKeeps ==
    ASSUME NEW d, NEW u, ConnInv(d, u)
    PROVE  LET e == EndProcess(d) IN ConnInv(e, u) /\ Shut(d, e)
<1> DEFINE r == IF d.close_after THEN 0 ELSE d.rbuf
           g == d.linger \/ (d.close_after /\ d.rbuf > 0)
           b == r > 0 /\ d.st = 0
           e == [d EXCEPT !.linger = g, !.rbuf = r, !.reading = b]
<1>0. d \in Conn
  BY ONLY ConnInv(d, u), Zenon DEF ConnInv
<1>n. d.rbuf \in 0 .. MaxTotal /\ d.linger \in BOOLEAN /\ d.close_after \in BOOLEAN
  BY ONLY <1>0, ZenonT(60) DEF Conn
<1>t. r \in 0 .. MaxTotal /\ g \in BOOLEAN /\ b \in BOOLEAN
  <2>1. 0 \in 0 .. MaxTotal
    BY Http1Assumption DEF Http1Assumption
  <2> QED BY ONLY <1>n, <2>1
<1>d. EndProcess(d) = e
  BY ONLY Zenon DEF EndProcess
<1> HIDE DEF r, g, b
<1>1. e \in Conn
  BY ONLY <1>0, <1>t, ZenonT(60) DEF Conn
<1>2. Like(d, e) /\ Shut(d, e) /\ e.st = d.st /\ e.timers \subseteq d.timers /\ e.dl = d.dl
  BY ONLY <1>0, ZenonT(60) DEF Conn, Like, Shut
<1> HIDE DEF e
<1>3. ConnInv(e, u)
  BY ONLY QuietConn, <1>1, <1>2, ConnInv(d, u), Zenon
<1> QED BY ONLY <1>2, <1>3, <1>d, Zenon

\* The deadline of a connection that is exempt passes.
LEMMA LateKeeps ==
    ASSUME NEW d, NEW u, ConnInv(d, u)
    PROVE  LET e == [d EXCEPT !.late = TRUE] IN ConnInv(e, u) /\ Shut(d, e)
<1> DEFINE e == [d EXCEPT !.late = TRUE]
<1>0. d \in Conn
  BY ONLY ConnInv(d, u), Zenon DEF ConnInv
<1>n. TRUE \in BOOLEAN
  OBVIOUS
<1>1. e \in Conn
  BY ONLY <1>0, <1>n, ZenonT(60) DEF Conn
<1>2. Like(d, e) /\ Shut(d, e) /\ e.st = d.st /\ e.timers \subseteq d.timers /\ e.dl = d.dl
  BY ONLY <1>0, ZenonT(60) DEF Conn, Like, Shut
<1> HIDE DEF e
<1>3. ConnInv(e, u)
  BY ONLY QuietConn, <1>1, <1>2, ConnInv(d, u), Zenon
<1> QED BY ONLY <1>2, <1>3, Zenon DEF e

\* A timer is taken off the heap.
LEMMA TimerKeeps ==
    ASSUME NEW d, NEW u, ConnInv(d, u), NEW t
    PROVE  LET e == [d EXCEPT !.timers = @ \ {t}]
           IN  ConnInv(e, u) /\ Shut(d, e) /\ Like(d, e) /\ e.st = d.st /\ e.st_left = d.st_left
               /\ e \in Conn /\ e.timers = d.timers \ {t}
<1> DEFINE T == d.timers \ {t}
           e == [d EXCEPT !.timers = T]
<1>0. d \in Conn
  BY ONLY ConnInv(d, u), Zenon DEF ConnInv
<1>n. T \in SUBSET Timers /\ T \subseteq d.timers
  <2>1. d.timers \in SUBSET Timers
    BY ONLY <1>0, ZenonT(60) DEF Conn
  <2> QED BY ONLY <2>1, Zenon
<1> HIDE DEF T
<1>1. e \in Conn
  BY ONLY <1>0, <1>n, ZenonT(60) DEF Conn
<1>2. Like(d, e) /\ Shut(d, e) /\ e.st = d.st /\ e.timers = T /\ e.dl = d.dl
      /\ e.st_left = d.st_left
  BY ONLY <1>0, ZenonT(60) DEF Conn, Like, Shut
<1>3. e.timers \subseteq d.timers
  BY ONLY <1>2, <1>n, Zenon
<1> HIDE DEF e
<1>4. ConnInv(e, u)
  BY ONLY QuietConn, <1>1, <1>2, <1>3, ConnInv(d, u), Zenon
<1> QED BY ONLY <1>1, <1>2, <1>4, Zenon DEF e, T

\* A deadline other than that of a write, for a connection that waits for none.
LEMMA DeadlineKeeps ==
    ASSUME NEW d, NEW u, ConnInv(d, u), ~d.out_armed, NEW kind \in {"idle", "read", "linger"}
    PROVE  LET e == SetDeadline(d, kind) IN ConnInv(e, u) /\ Shut(d, e)
<1> DEFINE e == [d EXCEPT !.dl = kind, !.late = FALSE]
<1>0. d \in Conn
  BY ONLY ConnInv(d, u), Zenon DEF ConnInv
<1>n. kind \in {"idle", "read", "write", "linger"} /\ kind # "write" /\ FALSE \in BOOLEAN
  OBVIOUS
<1>1. e \in Conn
  BY ONLY <1>0, <1>n, ZenonT(60) DEF Conn
<1>2. Like(d, e) /\ Shut(d, e) /\ e.st = d.st /\ e.timers \subseteq d.timers /\ e.dl = kind
  BY ONLY <1>0, ZenonT(60) DEF Conn, Like, Shut
<1> HIDE DEF e
<1>3. WriteOf(e)
  BY ONLY <1>n, <1>2, ~d.out_armed, ZenonT(60) DEF WriteOf, Shut
<1>4. /\ e.wbuf = d.wbuf /\ (d.close_after => e.close_after)
      /\ (e.close_after => d.close_after \/ ~d.waiting)
  BY ONLY <1>2, Zenon DEF Shut
<1>5. ConnInv(e, u)
  BY ONLY SameConn, <1>1, <1>2, <1>3, <1>4, ConnInv(d, u), Zenon
<1> QED BY ONLY <1>2, <1>5, Zenon DEF e, SetDeadline

\* Output waits for the socket.
LEMMA ArmKeeps ==
    ASSUME NEW d, NEW u, ConnInv(d, u), NEW progressed
    PROVE  LET e == ArmOut(d, progressed)
           IN  ConnInv(e, u) /\ e.out_armed /\ e.open = d.open /\ e.lingering = d.lingering
<1>1. CASE d.out_armed /\ ~progressed
  BY ONLY <1>1, ConnInv(d, u), Zenon DEF ArmOut
<1>2. CASE ~(d.out_armed /\ ~progressed)
  <2> DEFINE e == [[d EXCEPT !.out_armed = TRUE] EXCEPT !.dl = "write", !.late = FALSE]
  <2>0. d \in Conn
    BY ONLY ConnInv(d, u), Zenon DEF ConnInv
  <2>n. "write" \in {"idle", "read", "write", "linger"} /\ FALSE \in BOOLEAN /\ TRUE \in BOOLEAN
    OBVIOUS
  <2>1. e \in Conn
    BY ONLY <2>0, <2>n, ZenonT(60) DEF Conn
  <2>2. /\ Like(d, e) /\ e.st = d.st /\ e.timers = d.timers /\ e.dl = "write"
        /\ e.out_armed = TRUE /\ e.lingering = d.lingering /\ e.wbuf = d.wbuf
        /\ e.close_after = d.close_after
    BY ONLY <2>0, ZenonT(60) DEF Conn, Like
  <2>3. ArmOut(d, progressed) = e
    BY ONLY <1>2, Zenon DEF ArmOut, SetDeadline
  <2> HIDE DEF e
  <2>4. /\ WriteOf(e) /\ (d.close_after => e.close_after) /\ e.timers \subseteq d.timers
        /\ (e.close_after => d.close_after \/ ~d.waiting)
    BY ONLY <2>2, ZenonT(60) DEF WriteOf
  <2>5. ConnInv(e, u)
    BY ONLY SameConn, <2>1, <2>2, <2>4, ConnInv(d, u), Zenon
  <2> QED BY ONLY <2>2, <2>3, <2>5, Zenon DEF Like
<1> QED BY <1>1, <1>2, Zenon

\* Loop.close leaves nothing to send and nothing to wait for.
LEMMA ClosedKeeps ==
    ASSUME NEW d \in Conn, NEW u
    PROVE  LET e == Close(d)
           IN  ConnInv(e, u) /\ CloseOf(e, "idle") /\ CloseOf(e, "return")
<1> DEFINE e == [Fresh EXCEPT !.open = FALSE, !.served = d.served]
<1>0. d.served \in 0 .. N
  BY ONLY d \in Conn, ZenonT(60) DEF Conn
<1>n. /\ 0 \in 0 .. N /\ 0 \in 0 .. MaxTotal /\ 0 \in 0 .. FileUnits /\ 0 \in 0 .. StreamLen
      /\ 0 \in Nat /\ <<>> \in Seq(Units) /\ 0 <= d.served /\ {} \in SUBSET Timers
      /\ "gen" \in Modes /\ "idle" \in {"idle", "read", "write", "linger"}
  BY <1>0, Http1Assumption DEF Http1Assumption, Modes
<1>1. e \in Conn
  BY ONLY <1>0, <1>n, ZenonT(60) DEF Conn, Fresh
<1>2. /\ e.open = FALSE /\ e.wbuf = <<>> /\ e.woff = 0 /\ e.waiting = FALSE /\ e.st = 0
      /\ e.file_left = 0 /\ e.close_after = FALSE /\ e.timers = {} /\ e.st_serial = 0
      /\ e.served = d.served /\ e.dl = "idle" /\ e.out_armed = FALSE /\ e.lingering = FALSE
  BY ONLY Zenon DEF Fresh
<1> HIDE DEF e
<1>3. Chained(e.wbuf, e.woff, u)
  <2>1. Chained(<<>>, 0, u)
    BY DEF Chained
  <2> QED BY ONLY <1>2, <2>1, Zenon
<1>4. TailOf(e, EndOf(e.wbuf, u)) /\ TimerOf(e) /\ WriteOf(e)
  BY ONLY <1>2, <1>n, ZenonT(60) DEF TailOf, TimerOf, WriteOf
<1>5. CloseOf(e, "idle") /\ CloseOf(e, "return")
  BY ONLY <1>2, ZenonT(60) DEF CloseOf
<1> QED BY ONLY <1>1, <1>3, <1>4, <1>5, Zenon DEF ConnInv, Close, e

\* The connection is free to answer the next request.
Free(d) == d.open /\ ~d.waiting /\ d.st = 0 /\ d.file_left = 0 /\ ~d.close_after

\* Put of an error response or of a 100 response follows what is out.
LEMMA FreePut ==
    ASSUME NEW d, NEW u \in Units, ConnInv(d, u), Free(d), NEW part \in {"only", "cont"},
           part = "cont" => ~d.cont
    PROVE  LET x == Unit(d.served + 1, part)
               e == Put(d, <<x>>)
           IN  /\ x.id = d.served + 1 /\ x.part = part
               /\ e \in Conn /\ Like(d, e) /\ Beside(d, e)
               /\ e.st = d.st /\ e.timers = d.timers /\ e.close_after = d.close_after
               /\ Chained(e.wbuf, e.woff, u) /\ EndOf(e.wbuf, u) = x
<1> DEFINE x == Unit(d.served + 1, part)
           e == Put(d, <<x>>)
           v == EndOf(d.wbuf, u)
<1>0. d \in Conn /\ Chained(d.wbuf, d.woff, u) /\ TailOf(d, v)
  BY ONLY ConnInv(d, u), Zenon DEF ConnInv
<1>1. d.wbuf \in Seq(Units) /\ d.woff \in Nat /\ d.served \in 0 .. N
  BY ONLY <1>0, ZenonT(60) DEF Conn
<1>2. x \in Units /\ x.id = d.served + 1 /\ x.part = part
  <2>1. part \in {"cont", "only", "first", "mid", "last"}
    BY ONLY part \in {"only", "cont"}, Zenon
  <2> QED BY ONLY <1>1, <2>1, UnitIs
<1> HIDE DEF x, v
<1>3. IF d.cont THEN v.id = d.served + 1 /\ v.part = "cont" ELSE Done(d, v)
  BY ONLY <1>0, Free(d), ZenonT(60) DEF TailOf, Free
<1>4. Follows(v, x)
  BY ONLY <1>2, <1>3, part \in {"only", "cont"}, part = "cont" => ~d.cont,
     ZenonT(60) DEF Follows, Done
<1>5. Chained(d.wbuf \o <<x>>, d.woff, u) /\ EndOf(d.wbuf \o <<x>>, u) = x
  BY ONLY <1>0, <1>1, <1>2, <1>4, ChainPut DEF v
<1>6. <<x>> \in Seq(Units)
  BY ONLY <1>2
<1>7. /\ e \in Conn /\ Like(d, e) /\ Beside(d, e)
      /\ e.wbuf = d.wbuf \o <<x>>
      /\ e.st = d.st /\ e.st_left = d.st_left /\ e.st_chunked = d.st_chunked
      /\ e.timers = d.timers /\ e.close_after = d.close_after
  BY ONLY PutFields, <1>0, <1>6, Zenon
<1> HIDE DEF e
<1>8. Chained(e.wbuf, e.woff, u) /\ EndOf(e.wbuf, u) = x
  BY ONLY <1>5, <1>7, Zenon DEF Like
<1> QED BY ONLY <1>2, <1>7, <1>8, Zenon DEF x, e

\* Worker.refuse.
LEMMA RefuseKeeps ==
    ASSUME NEW d, NEW u \in Units, ConnInv(d, u), Free(d)
    PROVE  LET e == Refuse(d)
           IN  ConnInv(e, u) /\ e.open /\ e.lingering = d.lingering
<1> DEFINE x == Unit(d.served + 1, "only")
           p == Put(d, <<x>>)
           e == [p EXCEPT !.close_after = TRUE, !.linger = TRUE]
<1>0. "only" \in {"only", "cont"} /\ ("only" = "cont" => ~d.cont) /\ TRUE \in BOOLEAN
  OBVIOUS
<1>1. /\ x.id = d.served + 1 /\ x.part = "only"
      /\ p \in Conn /\ Like(d, p) /\ Beside(d, p)
      /\ p.st = d.st /\ p.timers = d.timers /\ p.close_after = d.close_after
      /\ Chained(p.wbuf, p.woff, u) /\ EndOf(p.wbuf, u) = x
  BY ONLY FreePut, <1>0, ConnInv(d, u), u \in Units, Free(d), Zenon
<1> HIDE DEF x, p
<1>2. e \in Conn
  BY ONLY <1>0, <1>1, ZenonT(60) DEF Conn
<1>3. /\ Like(p, e) /\ e.wbuf = p.wbuf /\ e.st = p.st /\ e.timers = p.timers
      /\ e.close_after = TRUE /\ e.dl = p.dl /\ e.out_armed = p.out_armed
      /\ e.lingering = p.lingering
  BY ONLY <1>1, ZenonT(60) DEF Conn, Like
<1> HIDE DEF e
<1>4. /\ Like(d, e) /\ e.st = d.st /\ e.timers = d.timers /\ e.dl = d.dl
      /\ e.out_armed = d.out_armed /\ e.lingering = d.lingering
  BY ONLY <1>1, <1>3, ZenonT(60) DEF Like, Beside
<1>5. Chained(e.wbuf, e.woff, u)
  BY ONLY <1>1, <1>3, Zenon DEF Like
<1>6. TailOf(e, EndOf(e.wbuf, u))
  BY ONLY <1>3, <1>4, Free(d), ZenonT(60) DEF TailOf, Like, Free
<1>7. TimerOf(e) /\ WriteOf(e)
  BY ONLY <1>4, ConnInv(d, u), ZenonT(60) DEF TimerOf, WriteOf, Like, ConnInv
<1>8. ConnInv(e, u)
  BY ONLY <1>2, <1>5, <1>6, <1>7, Zenon DEF ConnInv
<1>9. e.open
  BY ONLY <1>4, Free(d), Zenon DEF Like, Free
<1> QED BY ONLY <1>4, <1>8, <1>9, Zenon DEF Refuse, e, p, x

\* A 100 response before the rest of a request.
LEMMA ContKeeps ==
    ASSUME NEW d, NEW u \in Units, ConnInv(d, u), Free(d), ~d.cont
    PROVE  LET e == [Put(d, <<Unit(d.served + 1, "cont")>>) EXCEPT !.cont = TRUE]
           IN  ConnInv(e, u) /\ e.open /\ e.lingering = d.lingering
<1> DEFINE x == Unit(d.served + 1, "cont")
           p == Put(d, <<x>>)
           e == [p EXCEPT !.cont = TRUE]
<1>0. "cont" \in {"only", "cont"} /\ ("cont" = "cont" => ~d.cont) /\ TRUE \in BOOLEAN
  OBVIOUS
<1>1. /\ x.id = d.served + 1 /\ x.part = "cont"
      /\ p \in Conn /\ Like(d, p) /\ Beside(d, p)
      /\ p.st = d.st /\ p.timers = d.timers /\ p.close_after = d.close_after
      /\ Chained(p.wbuf, p.woff, u) /\ EndOf(p.wbuf, u) = x
  BY ONLY FreePut, <1>0, ConnInv(d, u), u \in Units, Free(d), Zenon
<1> HIDE DEF x, p
<1>2. e \in Conn
  BY ONLY <1>0, <1>1, ZenonT(60) DEF Conn
<1>3. /\ e.open = p.open /\ e.cont = TRUE /\ e.woff = p.woff /\ e.waiting = p.waiting
      /\ e.file_left = p.file_left /\ e.served = p.served /\ e.st_serial = p.st_serial
      /\ e.wbuf = p.wbuf /\ e.st = p.st /\ e.timers = p.timers
      /\ e.close_after = p.close_after /\ e.dl = p.dl /\ e.out_armed = p.out_armed
      /\ e.lingering = p.lingering
  BY ONLY <1>1, ZenonT(60) DEF Conn
<1> HIDE DEF e
<1>4. /\ e.open = d.open /\ e.cont = TRUE /\ e.waiting = d.waiting
      /\ e.file_left = d.file_left /\ e.served = d.served /\ e.st_serial = d.st_serial
      /\ e.st = d.st /\ e.timers = d.timers /\ e.dl = d.dl /\ e.out_armed = d.out_armed
      /\ e.lingering = d.lingering
  BY ONLY <1>1, <1>3, ZenonT(60) DEF Like, Beside
<1>5. Chained(e.wbuf, e.woff, u) /\ EndOf(e.wbuf, u) = x
  BY ONLY <1>1, <1>3, Zenon
<1>6. TailOf(e, x)
  BY ONLY <1>1, <1>4, Free(d), ZenonT(60) DEF TailOf, Free
<1>7. TimerOf(e) /\ WriteOf(e)
  BY ONLY <1>4, ConnInv(d, u), ZenonT(60) DEF TimerOf, WriteOf, ConnInv
<1>8. ConnInv(e, u)
  BY ONLY <1>2, <1>5, <1>6, <1>7, Zenon DEF ConnInv
<1>9. e.open
  BY ONLY <1>4, Free(d), Zenon DEF Free
<1> QED BY ONLY <1>4, <1>8, <1>9, Zenon DEF e, p, x
-----------------------------------------------------------------------------
(* Where the worker is, and the socket.                                    *)

\* Anything may happen in process and flush to a connection that is not shut.
LEMMA BusyClose ==
    ASSUME NEW d, d.open, ~d.lingering, NEW p \in {"process", "flush"}
    PROVE  CloseOf(d, p)
BY ZenonT(60) DEF CloseOf

\* CloseOf looks at the fields of Shut.
LEMMA ShutClose ==
    ASSUME NEW d, NEW e, NEW p, CloseOf(d, p), Shut(d, e)
    PROVE  CloseOf(e, p)
BY ZenonT(60) DEF CloseOf, Shut

\* The requests have a size.
LEMMA UptoNat ==
    ASSUME net.over \subseteq Oversize
    PROVE  Upto(N) \in Nat
<1> DEFINE a == Cardinality((1 .. N) \ net.over)
           b == Cardinality((1 .. N) \cap net.over)
<1>1. IsFiniteSet(1 .. N)
  BY FS_Interval, Http1Assumption DEF Http1Assumption
<1>2. IsFiniteSet((1 .. N) \ net.over) /\ IsFiniteSet((1 .. N) \cap net.over)
  BY ONLY <1>1, FS_Subset, Zenon
<1>3. a \in Nat /\ b \in Nat
  BY ONLY <1>2, FS_CardinalityType, Zenon
<1> HIDE DEF a, b
<1>4. Parts * a + (MaxTotal + 1) * b \in Nat
  BY ONLY <1>3, Http1Assumption DEF Http1Assumption, Parts
<1> QED BY ONLY <1>4, Zenon DEF Upto, a, b

\* The parts of the invariant, one step later.
LEMMA IInvNext ==
    ASSUME ConnInv(c', net'.last), CloseOf(c', pc'), pc' \in Pcs, NetInv',
           pushes' \in 0 .. MaxPush
    PROVE  IInv'
<1>1. ConnInv(c, net.last)'
  BY ONLY ConnInv(c', net'.last), ZenonT(60)
     DEF ConnInv, Chained, TailOf, EndOf, TimerOf, WriteOf, Owed, Begun, Done, Follows
<1>2. CloseOf(c, pc)'
  BY ONLY CloseOf(c', pc'), ZenonT(60) DEF CloseOf
<1> QED BY <1>1, <1>2, Zenon DEF IInv

\* The socket as it is.
LEMMA NetSame ==
    ASSUME NetInv, net' = net
    PROVE  NetInv'
BY ZenonT(60) DEF NetInv, Upto

\* The socket with other flags, less input or more output.
LEMMA NetLess ==
    ASSUME NetInv, net'.over = net.over, net'.sent = net.sent, net'.in \in Nat,
           net'.in <= net.in,
           net' \in [sent : Nat, in : Nat, eof : BOOLEAN, reset : BOOLEAN, room : BOOLEAN,
                     over : SUBSET Oversize, last : Units]
    PROVE  NetInv'
<1>1. Upto(N)' = Upto(N)
  BY ONLY net'.over = net.over, Zenon DEF Upto
<1>2. net.sent \in Nat /\ net.in \in Nat /\ net.sent <= Upto(N) /\ net.in <= net.sent
  BY ONLY NetInv, ZenonT(60) DEF NetInv
<1>3. net'.in <= net'.sent
  BY ONLY <1>2, net'.sent = net.sent, net'.in \in Nat, net'.in <= net.in
<1>4. net'.sent <= Upto(N)'
  BY ONLY <1>1, <1>2, net'.sent = net.sent, Zenon
<1> QED BY <1>3, <1>4, Zenon DEF NetInv
-----------------------------------------------------------------------------
(* Every action keeps the invariant.                                       *)

\* What the actions use of it.
LEMMA Now ==
    ASSUME IInv
    PROVE  /\ ConnInv(c, net.last) /\ CloseOf(c, pc) /\ pc \in Pcs /\ NetInv
           /\ pushes \in 0 .. MaxPush /\ net.last \in Units /\ c \in Conn
BY ZenonT(60) DEF IInv, NetInv, ConnInv

\* A step of the worker that leaves the socket alone.
LEMMA WorkerStep ==
    ASSUME IInv, net' = net, pushes' = pushes,
           ConnInv(c', net.last), CloseOf(c', pc'), pc' \in Pcs
    PROVE  IInv'
<1>1. NetInv'
  BY ONLY IInv, net' = net, Now, NetSame, Zenon
<1>2. ConnInv(c', net'.last) /\ pushes' \in 0 .. MaxPush
  BY ONLY IInv, net' = net, pushes' = pushes, ConnInv(c', net.last), Now, Zenon
<1> QED BY ONLY <1>1, <1>2, CloseOf(c', pc'), pc' \in Pcs, IInvNext, Zenon

\* Loop.close, wherever it is called.
LEMMA CloseStep ==
    ASSUME IInv, net' = net, pushes' = pushes, c' = Close(c), pc' \in {"idle", "return"}
    PROVE  IInv'
<1>1. c \in Conn
  BY ONLY IInv, Now, Zenon
<1>2. ConnInv(Close(c), net.last) /\ CloseOf(Close(c), "idle") /\ CloseOf(Close(c), "return")
  BY ONLY <1>1, ClosedKeeps
<1>3. ConnInv(c', net.last) /\ CloseOf(c', pc')
  BY ONLY <1>2, c' = Close(c), pc' \in {"idle", "return"}, Zenon
<1>4. pc' \in Pcs
  BY ONLY pc' \in {"idle", "return"}, Zenon DEF Pcs
<1> QED BY ONLY <1>3, <1>4, IInv, net' = net, pushes' = pushes, WorkerStep, Zenon

\* The worker goes elsewhere with the connection as it is.
LEMMA GoStep ==
    ASSUME IInv, net' = net, pushes' = pushes, c' = c, CloseOf(c, pc'), pc' \in Pcs
    PROVE  IInv'
<1>1. ConnInv(c', net.last) /\ CloseOf(c', pc')
  BY ONLY IInv, c' = c, CloseOf(c, pc'), Now, Zenon
<1> QED BY ONLY <1>1, IInv, net' = net, pushes' = pushes, pc' \in Pcs, WorkerStep, Zenon

\* The client and the kernel.
LEMMA ClientKeeps ==
    ASSUME IInv, ClientSend \/ ClientTake \/ ClientClose \/ ClientReset
    PROVE  IInv'
<1> DEFINE T == [sent : Nat, in : Nat, eof : BOOLEAN, reset : BOOLEAN, room : BOOLEAN,
                 over : SUBSET Oversize, last : Units]
<1>0. net \in T /\ net.sent <= Upto(N) /\ net.in <= net.sent
  BY ONLY IInv, Zenon DEF IInv, NetInv
<1>1. c' = c /\ pc' = pc /\ pushes' = pushes
  BY Zenon DEF ClientSend, ClientTake, ClientClose, ClientReset, Client
<1>2. NetInv' /\ net'.last = net.last
  <2>1. CASE ClientSend
    <3> DEFINE a == net.sent + 1
               b == net.in + 1
    <3>1. net' = [net EXCEPT !.sent = a, !.in = b] /\ net.sent < Upto(N)
      BY ONLY <2>1, Zenon DEF ClientSend, Client
    <3>2. net.sent \in Nat /\ net.in \in Nat /\ net.over \subseteq Oversize
      BY ONLY <1>0, ZenonT(60)
    <3>3. Upto(N) \in Nat
      BY ONLY <3>2, UptoNat, Zenon
    <3>4. a \in Nat /\ b \in Nat /\ a <= Upto(N) /\ b <= a
      BY ONLY <3>1, <3>2, <3>3, <1>0
    <3> HIDE DEF a, b
    <3>5. /\ net' \in T /\ net'.sent = a /\ net'.in = b
          /\ net'.last = net.last /\ net'.over = net.over
      BY ONLY <3>1, <3>4, <1>0, ZenonT(60)
    <3>6. Upto(N)' = Upto(N)
      BY ONLY <3>5, Zenon DEF Upto
    <3> QED BY ONLY <3>4, <3>5, <3>6, Zenon DEF NetInv
  <2>2. CASE ClientTake \/ ClientClose \/ ClientReset
    <3>1. \/ net' = [net EXCEPT !.room = TRUE]
          \/ net' = [net EXCEPT !.eof = TRUE]
          \/ net' = [net EXCEPT !.reset = TRUE]
      BY ONLY <2>2, Zenon DEF ClientTake, ClientClose, ClientReset, Client
    <3>2. TRUE \in BOOLEAN
      OBVIOUS
    <3>3. /\ net' \in T /\ net'.sent = net.sent /\ net'.in = net.in
          /\ net'.last = net.last /\ net'.over = net.over
      BY ONLY <3>1, <3>2, <1>0, ZenonT(60)
    <3>4. net'.in \in Nat /\ net'.in <= net.in
      <4>1. net.in \in Nat
        BY ONLY <1>0, ZenonT(60)
      <4>2. net.in <= net.in
        BY ONLY <4>1
      <4> QED BY ONLY <4>1, <4>2, <3>3, Zenon
    <3>5. NetInv
      BY ONLY IInv, Zenon DEF IInv
    <3>6. NetInv'
      BY ONLY <3>3, <3>4, <3>5, NetLess, Zenon
    <3> QED BY ONLY <3>3, <3>6, Zenon
  <2> QED BY <2>1, <2>2, Zenon
<1>3. ConnInv(c', net'.last) /\ CloseOf(c', pc') /\ pc' \in Pcs /\ pushes' \in 0 .. MaxPush
  BY ONLY <1>1, <1>2, IInv, Now, Zenon
<1> QED BY ONLY <1>2, <1>3, IInvNext, Zenon

\* on_event.
LEMMA EventKeeps ==
    ASSUME IInv, Event
    PROVE  IInv'
<1>0. CloseOf(c, pc)
  BY ONLY IInv, Zenon DEF IInv
<1>1. CASE OnReadable
  <2>1. CloseOf(c, "read") /\ "read" \in Pcs
    BY ONLY <1>0, <1>1, ZenonT(60) DEF OnReadable, Idle, CloseOf, Pcs
  <2>2. net' = net /\ pushes' = pushes /\ c' = c /\ pc' = "read"
    BY ONLY <1>1, Zenon DEF OnReadable
  <2> QED BY ONLY <2>1, <2>2, IInv, GoStep, Zenon
<1>2. CASE OnWritable
  <2>1. CloseOf(c, "flush") /\ "flush" \in Pcs
    BY ONLY <1>0, <1>2, ZenonT(60) DEF OnWritable, Idle, CloseOf, Pcs
  <2>2. net' = net /\ pushes' = pushes /\ c' = c /\ pc' = "flush"
    BY ONLY <1>2, Zenon DEF OnWritable, CallFlush
  <2> QED BY ONLY <2>1, <2>2, IInv, GoStep, Zenon
<1>3. CASE OnHup
  <2>1. net' = net /\ pushes' = pushes /\ c' = Close(c) /\ pc' \in {"idle", "return"}
    BY ONLY <1>3, Zenon DEF OnHup, Idle
  <2> QED BY ONLY <2>1, IInv, CloseStep, Zenon
<1>4. CASE OnLingering
  <2>1. CloseOf(c, "discard") /\ "discard" \in Pcs
    BY ONLY <1>0, <1>4, ZenonT(60) DEF OnLingering, Idle, CloseOf, Pcs
  <2>2. net' = net /\ pushes' = pushes /\ c' = c /\ pc' = "discard"
    BY ONLY <1>4, Zenon DEF OnLingering
  <2> QED BY ONLY <2>1, <2>2, IInv, GoStep, Zenon
<1> QED BY ONLY <1>1, <1>2, <1>3, <1>4, Event, Zenon DEF Event

\* The choices of a callback.
LEMMA ActIs ==
    ASSUME NEW d, NEW act \in StActs(d)
    PROVE  act \in {"write", "end", "none"} /\ (act = "write" => d.st_left > 0)
BY ZenonT(60) DEF StActs

\* A callback run in the event loop or in flush leaves the connection to process
\* or flush.
LEMMA TakeStep ==
    ASSUME IInv, net' = net, pushes' = pushes, NEW d, ConnInv(d, net.last), d.open, ~d.lingering,
           d.st # 0, ~d.close_after,
           NEW act \in {"write", "end", "none"}, act = "write" => d.st_left > 0,
           c' = StTake(d, act), pc' \in {"process", "flush"}
    PROVE  IInv'
<1> DEFINE e == StTake(d, act)
<1>0. net.last \in Units
  BY ONLY IInv, Now, Zenon
<1>1. ConnInv(e, net.last) /\ Beside(d, e) /\ e.open = d.open /\ e.file_left = d.file_left
  BY StTakeKeeps, <1>0, Zenon
<1> HIDE DEF e
<1>2. e.open /\ ~e.lingering
  BY ONLY <1>1, d.open, ~d.lingering, Zenon DEF Beside
<1>3. CloseOf(e, pc')
  BY ONLY <1>2, pc' \in {"process", "flush"}, BusyClose, Zenon
<1>4. pc' \in Pcs
  BY ONLY pc' \in {"process", "flush"}, Zenon DEF Pcs
<1>5. c' = e
  BY DEF e
<1> QED BY ONLY <1>1, <1>3, <1>4, <1>5, IInv, net' = net, pushes' = pushes, WorkerStep, Zenon

\* A deferred response is due: its request is the one that was served last.
LEMMA ResumeReady ==
    ASSUME NEW d, NEW u, ConnInv(d, u), d.open, d.waiting, NEW t \in d.timers, t.serial = 0
    PROVE  LET r == [d EXCEPT !.timers = @ \ {t}, !.waiting = FALSE]
           IN  /\ Ready(r, u) /\ t.id = r.served
               /\ r.out_armed = d.out_armed /\ r.lingering = d.lingering
<1> DEFINE T == d.timers \ {t}
           r == [d EXCEPT !.timers = T, !.waiting = FALSE]
<1>0. /\ d \in Conn /\ Chained(d.wbuf, d.woff, u) /\ TailOf(d, EndOf(d.wbuf, u))
      /\ TimerOf(d) /\ WriteOf(d)
  BY ONLY ConnInv(d, u), Zenon DEF ConnInv
<1>1. d.timers \in SUBSET Timers
  BY ONLY <1>0, ZenonT(60) DEF Conn
<1>2. t.id = d.served /\ t \in Timers
  BY ONLY <1>0, <1>1, t \in d.timers, t.serial = 0, ZenonT(60) DEF TimerOf
<1>3. ASSUME NEW s \in T PROVE s.serial # 0
  <2>1. s \in Timers /\ s # t /\ s \in d.timers
    BY ONLY <1>1, <1>3, Zenon
  <2>2. s.serial = 0 => s.id = d.served
    BY ONLY <2>1, <1>0, Zenon DEF TimerOf
  <2>3. s = [serial |-> s.serial, id |-> s.id] /\ t = [serial |-> t.serial, id |-> t.id]
    BY ONLY <2>1, <1>2, ZenonT(60) DEF Timers
  <2> QED BY ONLY <2>1, <2>2, <2>3, <1>2, t.serial = 0, Zenon
<1>4. T \in SUBSET Timers /\ FALSE \in BOOLEAN
  BY ONLY <1>1, Zenon
<1> HIDE DEF T
<1>5. r \in Conn
  BY ONLY <1>0, <1>4, ZenonT(60) DEF Conn
<1>6. /\ r.open = d.open /\ r.cont = d.cont /\ r.woff = d.woff /\ r.wbuf = d.wbuf
      /\ r.waiting = FALSE /\ r.timers = T /\ r.st = d.st /\ r.file_left = d.file_left
      /\ r.served = d.served /\ r.st_serial = d.st_serial /\ r.close_after = d.close_after
      /\ r.out_armed = d.out_armed /\ r.dl = d.dl /\ r.lingering = d.lingering
  BY ONLY <1>0, ZenonT(60) DEF Conn
<1> HIDE DEF r
<1>7. d.served \in 1 .. N
  BY ONLY <1>2, ZenonT(60) DEF Timers
<1>8. /\ d.st = 0 /\ d.file_left = 0 /\ ~d.cont /\ ~d.close_after
      /\ Owed(d, EndOf(d.wbuf, u)) /\ d.st_serial < d.served
  BY ONLY <1>0, d.waiting, ZenonT(60) DEF TailOf, TimerOf
<1>9. Chained(r.wbuf, r.woff, u) /\ WriteOf(r)
  BY ONLY <1>0, <1>6, ZenonT(60) DEF WriteOf
<1>10. Owed(r, EndOf(r.wbuf, u))
  BY ONLY <1>6, <1>8, ZenonT(60) DEF Owed
<1>11. /\ r.open /\ ~r.waiting /\ r.st = 0 /\ r.file_left = 0 /\ ~r.cont /\ ~r.close_after
       /\ r.served \in 1 .. N /\ r.st_serial < r.served
  BY ONLY <1>6, <1>7, <1>8, d.open, Zenon
<1>12. \A s \in r.timers : s.serial # 0
  BY ONLY <1>3, <1>6, Zenon
<1>13. Ready(r, u)
  BY ONLY <1>5, <1>9, <1>10, <1>11, <1>12, Zenon DEF Ready
<1> QED BY ONLY <1>2, <1>6, <1>13, Zenon DEF r, T

\* fire.
LEMMA FireKeeps ==
    ASSUME IInv, Fire
    PROVE  IInv'
<1>0. /\ ConnInv(c, net.last) /\ CloseOf(c, pc) /\ net.last \in Units /\ c.open /\ pc = "idle"
      /\ net' = net /\ pushes' = pushes
  BY ONLY IInv, Fire, Now, Zenon DEF Fire, Idle
<1>1. PICK t \in c.timers : FireTick(t) \/ FireResume(t) \/ FireStale(t)
  BY ONLY Fire, Zenon DEF Fire
<1>2. CASE FireTick(t)
  <2> DEFINE d == [c EXCEPT !.timers = @ \ {t}]
  <2>1. PICK act \in StActs(c) : c' = StTake(d, act) /\ pc' = "process"
    BY ONLY <1>2, Zenon DEF FireTick, CallDrain
  <2>2. act \in {"write", "end", "none"} /\ (act = "write" => c.st_left > 0)
    BY ONLY <2>1, ActIs, Zenon
  <2>3. ConnInv(d, net.last) /\ Shut(c, d) /\ Like(c, d) /\ d.st = c.st /\ d.st_left = c.st_left
        /\ d \in Conn /\ d.timers = c.timers \ {t}
    BY ONLY <1>0, TimerKeeps, Zenon
  <2> HIDE DEF d
  <2>4. c.st # 0 /\ ~c.close_after
    BY ONLY <1>2, Zenon DEF FireTick
  <2>5. d.open /\ ~d.lingering /\ d.st # 0 /\ ~d.close_after
    BY ONLY <1>0, <2>3, <2>4, ZenonT(60) DEF Shut, CloseOf
  <2>6. act = "write" => d.st_left > 0
    BY ONLY <2>2, <2>3, Zenon
  <2>7. pc' \in {"process", "flush"} /\ c' = StTake(d, act)
    BY ONLY <2>1, Zenon
  <2> QED BY ONLY <1>0, <2>2, <2>3, <2>5, <2>6, <2>7, IInv, TakeStep
<1>3. CASE FireResume(t)
  <2> DEFINE r == [c EXCEPT !.timers = @ \ {t}, !.waiting = FALSE]
  <2>1. PICK kind \in ResumeKinds, close \in BOOLEAN, mode \in StreamModes, chunked \in BOOLEAN :
            /\ c' = Finish(r, t.id, kind, close \/ c.pending_close, mode, chunked)
            /\ pc' = "process"
    BY ONLY <1>3, Zenon DEF FireResume, CallDrain
  <2>2. t.serial = 0 /\ c.waiting
    BY ONLY <1>3, Zenon DEF FireResume
  <2>3. /\ Ready(r, net.last) /\ t.id = r.served
        /\ r.out_armed = c.out_armed /\ r.lingering = c.lingering
    BY ONLY <1>0, <1>1, <2>2, ResumeReady, Zenon
  <2> DEFINE b == close \/ c.pending_close
             e == Finish(r, r.served, kind, b, mode, chunked)
  <2>4. kind \in Kinds \ {"bad"} /\ mode \in Modes /\ b \in BOOLEAN
    BY ONLY <2>1, Http1Assumption, Zenon DEF Http1Assumption, Modes
  <2>5. c' = e
    BY ONLY <2>1, <2>3, Zenon
  <2>c. chunked \in BOOLEAN
    OBVIOUS
  <2> HIDE DEF r, b
  <2>6. ConnInv(e, net.last) /\ e.open /\ e.out_armed = r.out_armed /\ e.lingering = r.lingering
    BY ONLY <1>0, <2>3, <2>4, <2>c, FinishKeeps
  <2> HIDE DEF e
  <2>7. ~e.lingering
    <3>1. ~c.close_after
      BY ONLY <1>0, <2>2, ZenonT(60) DEF ConnInv, TailOf
    <3>2. ~c.lingering
      BY ONLY <1>0, <3>1, ZenonT(60) DEF CloseOf
    <3> QED BY ONLY <3>2, <2>3, <2>6, Zenon
  <2>8. CloseOf(e, "process")
    BY ONLY <2>6, <2>7, BusyClose, Zenon
  <2>9. ConnInv(c', net.last) /\ CloseOf(c', pc') /\ pc' \in Pcs
    BY ONLY <2>1, <2>5, <2>6, <2>8, Zenon DEF Pcs
  <2> QED BY ONLY <1>0, <2>9, IInv, WorkerStep, Zenon
<1>4. CASE FireStale(t)
  <2> DEFINE d == [c EXCEPT !.timers = @ \ {t}]
  <2>1. ConnInv(d, net.last) /\ Shut(c, d) /\ Like(c, d) /\ d.st = c.st /\ d.st_left = c.st_left
        /\ d \in Conn /\ d.timers = c.timers \ {t}
    BY ONLY <1>0, TimerKeeps, Zenon
  <2>2. c' = d /\ pc' = pc
    BY ONLY <1>4, Zenon DEF FireStale
  <2> HIDE DEF d
  <2>3. CloseOf(d, pc)
    BY ONLY <1>0, <2>1, ShutClose, Zenon
  <2>4. ConnInv(c', net.last) /\ CloseOf(c', pc') /\ pc' \in Pcs
    BY ONLY <2>1, <2>2, <2>3, IInv, Now, Zenon
  <2> QED BY ONLY <1>0, <2>4, IInv, WorkerStep, Zenon
<1> QED BY <1>1, <1>2, <1>3, <1>4, Zenon

\* A piece written to a stream from elsewhere, or a comment that keeps it alive.
LEMMA PiecePut ==
    ASSUME NEW d, NEW u \in Units, ConnInv(d, u), d.st # 0
    PROVE  LET e == Put(d, <<Unit(d.st, "mid")>>)
           IN  /\ ConnInv(e, u) /\ e.open = d.open /\ e.lingering = d.lingering
               /\ e.out_armed = d.out_armed /\ e.close_after = d.close_after
<1> DEFINE x == Unit(d.st, "mid")
           e == Put(d, <<x>>)
<1>0. d \in Conn /\ WriteOf(d)
  BY ONLY ConnInv(d, u), Zenon DEF ConnInv
<1>1. d.st \in 0 .. N
  BY ONLY <1>0, ZenonT(60) DEF Conn
<1>2. x \in Units
  BY ONLY <1>1, UnitIs, Zenon
<1> HIDE DEF x
<1>3. <<x>> \in Seq(Units)
  BY ONLY <1>2
<1>4. /\ e \in Conn /\ Like(d, e) /\ Beside(d, e)
      /\ e.wbuf = d.wbuf \o <<x>>
      /\ e.st = d.st /\ e.st_left = d.st_left /\ e.st_chunked = d.st_chunked
      /\ e.timers = d.timers /\ e.close_after = d.close_after
  BY ONLY PutFields, <1>0, <1>3, Zenon
<1> HIDE DEF e
<1>5. WriteOf(e) /\ (\A t \in e.timers : t \in d.timers \/ t.serial # 0)
      /\ (d.close_after => e.close_after)
  BY ONLY <1>0, <1>4, ZenonT(60) DEF WriteOf, Beside
<1>6. e.wbuf = d.wbuf \/ e.wbuf = d.wbuf \o <<Unit(d.st, "mid")>>
  BY ONLY <1>4, Zenon DEF x
<1>7. ConnInv(e, u)
  BY ONLY StreamConn, <1>4, <1>5, <1>6, ConnInv(d, u), u \in Units, d.st # 0, Zenon
<1>8. /\ e.open = d.open /\ e.lingering = d.lingering
      /\ e.out_armed = d.out_armed /\ e.close_after = d.close_after
  BY ONLY <1>4, Zenon DEF Like, Beside
<1> QED BY ONLY <1>7, <1>8, Zenon DEF e, x

\* A stream whose client is too slow is marked.
LEMMA SlowMark ==
    ASSUME NEW d, NEW u \in Units, ConnInv(d, u), d.st # 0
    PROVE  LET e == [d EXCEPT !.close_after = TRUE]
           IN  /\ ConnInv(e, u) /\ e.open = d.open /\ e.lingering = d.lingering
               /\ e.out_armed = d.out_armed
<1> DEFINE e == [d EXCEPT !.close_after = TRUE]
<1>0. d \in Conn /\ WriteOf(d) /\ TRUE \in BOOLEAN
  BY ONLY ConnInv(d, u), Zenon DEF ConnInv
<1>1. /\ e \in Conn /\ Like(d, e) /\ Beside(d, e) /\ e.close_after = TRUE
      /\ e.wbuf = d.wbuf /\ e.st = d.st /\ e.timers = d.timers
  BY ONLY CloseFields, <1>0, Zenon
<1> HIDE DEF e
<1>2. /\ WriteOf(e) /\ (\A t \in e.timers : t \in d.timers \/ t.serial # 0)
      /\ (d.close_after => e.close_after)
      /\ (e.wbuf = d.wbuf \/ e.wbuf = d.wbuf \o <<Unit(d.st, "mid")>>)
  BY ONLY <1>0, <1>1, ZenonT(60) DEF WriteOf, Beside
<1>3. ConnInv(e, u)
  BY ONLY StreamConn, <1>1, <1>2, ConnInv(d, u), u \in Units, d.st # 0, Zenon
<1> QED BY ONLY <1>1, <1>3, Zenon DEF e, Like, Beside

\* drain_inbox and the sweep on a stream.
LEMMA PushKeeps ==
    ASSUME IInv, Push \/ Heartbeat
    PROVE  IInv'
<1>0. /\ ConnInv(c, net.last) /\ CloseOf(c, pc) /\ net.last \in Units /\ NetInv
      /\ pushes \in 0 .. MaxPush
  BY ONLY IInv, Now, Zenon
<1>1. /\ c.open /\ pc = "idle" /\ pushes < MaxPush /\ c.st # 0 /\ ~c.close_after
      /\ pushes' = pushes + 1 /\ net' = net
  BY Zenon DEF Push, Heartbeat, Idle
<1>2. ~c.lingering
  BY ONLY <1>0, <1>1, ZenonT(60) DEF CloseOf
<1>3. pushes' \in 0 .. MaxPush
  BY ONLY <1>0, <1>1, Http1Assumption DEF Http1Assumption
<1>4. NetInv'
  BY ONLY <1>0, <1>1, NetSame, Zenon
<1> DEFINE p == Put(c, <<Unit(c.st, "mid")>>)
           m == [c EXCEPT !.close_after = TRUE]
<1>5. /\ ConnInv(p, net.last) /\ p.open = c.open /\ p.lingering = c.lingering
      /\ p.out_armed = c.out_armed /\ p.close_after = c.close_after
  BY ONLY PiecePut, <1>0, <1>1, Zenon
<1>6. /\ ConnInv(m, net.last) /\ m.open = c.open /\ m.lingering = c.lingering
      /\ m.out_armed = c.out_armed
  BY ONLY SlowMark, <1>0, <1>1, Zenon
<1>7. c' = p \/ c' = m
  BY Zenon DEF Push, Heartbeat
<1>8. IF c.out_armed THEN pc' = "idle" ELSE pc' = "flush"
  BY <1>1, Zenon DEF Push, Heartbeat, CallFlush
<1> HIDE DEF p, m
<1>9. /\ ConnInv(c', net.last) /\ c'.open = c.open /\ c'.lingering = c.lingering
      /\ c'.out_armed = c.out_armed
  BY ONLY <1>5, <1>6, <1>7, Zenon
<1>10. CloseOf(c', pc') /\ pc' \in Pcs
  BY ONLY <1>1, <1>2, <1>8, <1>9, ZenonT(60) DEF CloseOf, Pcs
<1>11. ConnInv(c', net'.last)
  BY ONLY <1>1, <1>9, Zenon
<1> QED BY ONLY <1>3, <1>4, <1>10, <1>11, IInvNext, Zenon

\* sweep.
LEMMA SweepKeeps ==
    ASSUME IInv, Sweep
    PROVE  IInv'
<1>0. ConnInv(c, net.last) /\ CloseOf(c, pc) /\ pc \in Pcs
  BY ONLY IInv, Now, Zenon
<1>1. pc = "idle" /\ pc' = pc /\ net' = net /\ pushes' = pushes
  BY ONLY Sweep, Zenon DEF Sweep, Idle
<1>2. CASE Exempt(c)
  <2> DEFINE e == [c EXCEPT !.late = TRUE]
  <2>1. c' = e
    BY ONLY <1>2, Sweep, Zenon DEF Sweep
  <2>2. ConnInv(e, net.last) /\ Shut(c, e)
    BY ONLY <1>0, LateKeeps, Zenon
  <2> HIDE DEF e
  <2>3. CloseOf(e, pc)
    BY ONLY <1>0, <2>2, ShutClose, Zenon
  <2>4. ConnInv(c', net.last) /\ CloseOf(c', pc') /\ pc' \in Pcs
    BY ONLY <1>0, <1>1, <2>1, <2>2, <2>3, Zenon
  <2> QED BY ONLY <1>1, <2>4, IInv, WorkerStep, Zenon
<1>3. CASE ~Exempt(c)
  <2>1. c' = Close(c) /\ pc' \in {"idle", "return"}
    BY ONLY <1>1, <1>3, Sweep, Zenon DEF Sweep
  <2> QED BY ONLY <1>1, <2>1, IInv, CloseStep, Zenon
<1> QED BY ONLY <1>2, <1>3, Zenon

\* on_readable.
LEMMA ReadKeeps ==
    ASSUME IInv, ReadFull \/ ReadSome \/ ReadNothing
    PROVE  IInv'
<1>0. /\ ConnInv(c, net.last) /\ CloseOf(c, pc) /\ net.last \in Units /\ NetInv /\ c \in Conn
      /\ pushes \in 0 .. MaxPush
  BY ONLY IInv, Now, Zenon
<1>1. pc = "read"
  BY Zenon DEF ReadFull, ReadSome, ReadNothing
<1>2. c.open /\ ~c.lingering /\ ~c.close_after /\ c.file_left = 0 /\ CloseOf(c, "return")
  BY ONLY <1>0, <1>1, ZenonT(60) DEF CloseOf
<1>3. CASE ReadFull
  <2>1. net' = net /\ pushes' = pushes
    BY ONLY <1>3, Zenon DEF ReadFull
  <2>2. CASE c.waiting \/ c.st # 0
    <3>1. c' = Close(c) /\ pc' \in {"idle", "return"}
      BY ONLY <1>3, <2>2, Zenon DEF ReadFull
    <3> QED BY ONLY <2>1, <3>1, IInv, CloseStep, Zenon
  <2>3. CASE ~(c.waiting \/ c.st # 0)
    <3> DEFINE r == Refuse(c)
               e == [r EXCEPT !.rbuf = 0, !.reading = FALSE]
    <3>1. c' = e /\ pc' = "flush"
      BY ONLY <1>3, <2>3, Zenon DEF ReadFull, CallFlush
    <3>2. Free(c)
      BY ONLY <1>2, <2>3, Zenon DEF Free
    <3>3. ConnInv(r, net.last) /\ r.open /\ r.lingering = c.lingering
      BY ONLY <1>0, <3>2, RefuseKeeps, Zenon
    <3> HIDE DEF r
    <3>4. ConnInv(e, net.last) /\ Shut(r, e)
      BY ONLY <3>3, DropKeeps, Zenon
    <3> HIDE DEF e
    <3>5. e.open /\ ~e.lingering
      BY ONLY <1>2, <3>3, <3>4, Zenon DEF Shut
    <3>6. CloseOf(e, "flush")
      BY ONLY <3>5, BusyClose, Zenon
    <3>7. ConnInv(c', net.last) /\ CloseOf(c', pc') /\ pc' \in Pcs
      BY ONLY <3>1, <3>4, <3>6, Zenon DEF Pcs
    <3> QED BY ONLY <2>1, <3>7, IInv, WorkerStep, Zenon
  <2> QED BY ONLY <2>2, <2>3, Zenon
<1>4. CASE ReadSome
  <2>1. PICK n \in 1 .. net.in : /\ c.rbuf + n <= MaxTotal
                                 /\ net' = [net EXCEPT !.in = @ - n]
                                 /\ c' = [c EXCEPT !.rbuf = @ + n]
                                 /\ pc' = "process" /\ pushes' = pushes
    BY ONLY <1>4, Zenon DEF ReadSome, CallDrain
  <2> DEFINE a == c.rbuf + n
             b == net.in - n
             e == [c EXCEPT !.rbuf = a]
  <2>2. c.rbuf \in 0 .. MaxTotal
    BY ONLY <1>0, ZenonT(60) DEF Conn
  <2>3. net.in \in Nat
    BY ONLY <1>0, ZenonT(60) DEF NetInv
  <2>4. a \in 0 .. MaxTotal /\ b \in Nat /\ b <= net.in
    BY ONLY <2>1, <2>2, <2>3, n \in 1 .. net.in, Http1Assumption DEF Http1Assumption
  <2>5. c' = e /\ net' = [net EXCEPT !.in = b]
    BY ONLY <2>1, Zenon
  <2> HIDE DEF a, b
  <2>6. ConnInv(e, net.last) /\ Shut(c, e)
    BY ONLY <1>0, <2>4, RbufKeeps, Zenon
  <2> HIDE DEF e
  <2>7. CloseOf(e, "process")
    <3>1. e.open /\ ~e.lingering
      BY ONLY <1>2, <2>6, Zenon DEF Shut
    <3> QED BY ONLY <3>1, BusyClose, Zenon
  <2> DEFINE T == [sent : Nat, in : Nat, eof : BOOLEAN, reset : BOOLEAN, room : BOOLEAN,
                   over : SUBSET Oversize, last : Units]
  <2>8. /\ net' \in T /\ net'.over = net.over /\ net'.sent = net.sent /\ net'.in = b
        /\ net'.last = net.last
    <3>1. net \in T
      BY ONLY <1>0, Zenon DEF NetInv
    <3> QED BY ONLY <3>1, <2>4, <2>5, ZenonT(60)
  <2>9. NetInv'
    BY ONLY <1>0, <2>4, <2>8, NetLess, Zenon
  <2>10. /\ ConnInv(c', net'.last) /\ CloseOf(c', pc') /\ pc' \in Pcs
         /\ pushes' \in 0 .. MaxPush
    BY ONLY <1>0, <2>1, <2>5, <2>6, <2>7, <2>8, Zenon DEF Pcs
  <2> QED BY ONLY <2>9, <2>10, IInvNext, Zenon
<1>5. CASE ReadNothing
  <2>1. net' = net /\ pushes' = pushes /\ pc' = "return" /\ (c' = Close(c) \/ c' = c)
    BY ONLY <1>5, Zenon DEF ReadNothing
  <2>2. CASE c' = Close(c)
    BY ONLY <2>1, <2>2, IInv, CloseStep, Zenon
  <2>3. CASE c' = c
    <3>1. CloseOf(c, pc') /\ pc' \in Pcs
      BY ONLY <1>2, <2>1, Zenon DEF Pcs
    <3> QED BY ONLY <2>1, <2>3, <3>1, IInv, GoStep, Zenon
  <2> QED BY ONLY <2>1, <2>2, <2>3, Zenon
<1> QED BY <1>3, <1>4, <1>5, Zenon

\* A request taken from rbuf: nothing of its answer is out.
LEMMA ServeReady ==
    ASSUME NEW d, NEW u, ConnInv(d, u), Free(d), d.served < N, NEW n \in 0 .. MaxTotal
    PROVE  LET r == [d EXCEPT !.rbuf = n, !.served = @ + 1, !.cont = FALSE]
           IN  /\ Ready(r, u) /\ r.served = d.served + 1
               /\ r.lingering = d.lingering
<1> DEFINE k == d.served + 1
           r == [d EXCEPT !.rbuf = n, !.served = k, !.cont = FALSE]
           v == EndOf(d.wbuf, u)
<1>0. /\ d \in Conn /\ Chained(d.wbuf, d.woff, u) /\ TailOf(d, v)
      /\ TimerOf(d) /\ WriteOf(d)
  BY ONLY ConnInv(d, u), Zenon DEF ConnInv
<1>1. d.served \in 0 .. N /\ d.st_serial \in 0 .. N /\ d.st_serial <= d.served
  BY ONLY <1>0, ZenonT(60) DEF Conn, TimerOf
<1>2. k \in 0 .. N /\ k \in 1 .. N /\ d.st_serial < k
  BY ONLY <1>1, d.served < N, Http1Assumption DEF Http1Assumption
<1>3. IF d.cont THEN v.id = d.served + 1 /\ v.part = "cont" ELSE Done(d, v)
  BY ONLY <1>0, Free(d), ZenonT(60) DEF TailOf, Free
<1>4. \/ k = v.id + 1 /\ v.part \in {"only", "last"}
      \/ k = v.id /\ v.part = "cont"
  BY ONLY <1>3, Zenon DEF Done
<1>5. FALSE \in BOOLEAN
  OBVIOUS
<1> HIDE DEF k, v
<1>6. r \in Conn
  BY ONLY <1>0, <1>2, <1>5, n \in 0 .. MaxTotal, ZenonT(60) DEF Conn
<1>7. /\ r.open = d.open /\ r.cont = FALSE /\ r.woff = d.woff /\ r.wbuf = d.wbuf
      /\ r.waiting = d.waiting /\ r.timers = d.timers /\ r.st = d.st
      /\ r.file_left = d.file_left
      /\ r.served = k /\ r.st_serial = d.st_serial /\ r.close_after = d.close_after
      /\ r.out_armed = d.out_armed /\ r.dl = d.dl /\ r.lingering = d.lingering
  BY ONLY <1>0, ZenonT(60) DEF Conn
<1> HIDE DEF r
<1>8. Chained(r.wbuf, r.woff, u) /\ WriteOf(r)
  BY ONLY <1>0, <1>7, ZenonT(60) DEF WriteOf
<1>9. EndOf(r.wbuf, u) = v
  BY ONLY <1>7, Zenon DEF v
<1>10. Owed(r, v)
  BY ONLY <1>4, <1>7, Zenon DEF Owed
<1>11. /\ r.open /\ ~r.waiting /\ r.st = 0 /\ r.file_left = 0 /\ ~r.cont /\ ~r.close_after
       /\ r.served \in 1 .. N /\ r.st_serial < r.served
  BY ONLY <1>2, <1>7, Free(d), Zenon DEF Free
<1>12. \A s \in r.timers : s.serial # 0
  BY ONLY <1>0, <1>7, Free(d), ZenonT(60) DEF TimerOf, Free
<1>13. Ready(r, u)
  BY ONLY <1>6, <1>8, <1>9, <1>10, <1>11, <1>12, Zenon DEF Ready
<1> QED BY ONLY <1>7, <1>13, Zenon DEF r, k

\* process ends in flush.
LEMMA EndStep ==
    ASSUME IInv, net' = net, pushes' = pushes, NEW d, ConnInv(d, net.last), d.open, ~d.lingering,
           c' = EndProcess(d), pc' = "flush"
    PROVE  IInv'
<1> DEFINE e == EndProcess(d)
<1>1. ConnInv(e, net.last) /\ Shut(d, e)
  BY ONLY ConnInv(d, net.last), EndKeeps, Zenon
<1>2. c' = e
  OBVIOUS
<1> HIDE DEF e
<1>3. e.open /\ ~e.lingering
  BY ONLY <1>1, d.open, ~d.lingering, Zenon DEF Shut
<1>4. CloseOf(e, "flush")
  BY ONLY <1>3, BusyClose, Zenon
<1>5. ConnInv(c', net.last) /\ CloseOf(c', pc') /\ pc' \in Pcs
  BY ONLY <1>1, <1>2, <1>4, pc' = "flush", Zenon DEF Pcs
<1> QED BY ONLY <1>5, IInv, net' = net, pushes' = pushes, WorkerStep, Zenon

\* process.
LEMMA ProcessKeeps ==
    ASSUME IInv, ProcessServe \/ ProcessRefuse \/ ProcessPartial \/ ProcessEnd
    PROVE  IInv'
<1>0. ConnInv(c, net.last) /\ CloseOf(c, pc) /\ net.last \in Units /\ c \in Conn
  BY ONLY IInv, Now, Zenon
<1>1. pc = "process" /\ net' = net /\ pushes' = pushes
  BY Zenon DEF ProcessServe, ProcessRefuse, ProcessPartial, ProcessEnd
<1>2. c.open /\ ~c.lingering
  BY ONLY <1>0, <1>1, ZenonT(60) DEF CloseOf
<1>3. CanServe(c) => Free(c)
  BY ONLY <1>2, Zenon DEF CanServe, Free
<1>4. CASE ProcessServe
  <2> DEFINE n == c.rbuf - Size(c.served + 1)
             r == [c EXCEPT !.rbuf = n, !.served = @ + 1, !.cont = FALSE]
  <2>1. PICK kind \in FirstKinds \ {"bad"}, close \in BOOLEAN, mode \in StreamModes,
             chunked \in BOOLEAN :
            c' = Finish(r, c.served + 1, kind, close, mode, chunked)
    BY ONLY <1>4, Zenon DEF ProcessServe
  <2>2. pc' = pc /\ CanServe(c) /\ c.served < N /\ c.rbuf >= Size(c.served + 1)
    BY ONLY <1>4, Zenon DEF ProcessServe, Complete
  <2>3. n \in 0 .. MaxTotal
    <3>1. c.rbuf \in 0 .. MaxTotal
      BY ONLY <1>0, ZenonT(60) DEF Conn
    <3>2. Size(c.served + 1) \in Nat
      BY ONLY Http1Assumption DEF Http1Assumption, Size, Parts
    <3> QED BY ONLY <2>2, <3>1, <3>2, Http1Assumption DEF Http1Assumption
  <2>f. Free(c)
    <3>1. CanServe(c)
      BY ONLY <2>2, Zenon
    <3> QED BY ONLY <1>3, <3>1, Zenon
  <2> HIDE DEF n
  <2>4. Ready(r, net.last) /\ r.served = c.served + 1 /\ r.lingering = c.lingering
    BY ONLY <1>0, <2>2, <2>3, <2>f, ServeReady, Zenon
  <2> DEFINE e == Finish(r, r.served, kind, close, mode, chunked)
  <2>5. c' = e
    BY ONLY <2>1, <2>4, ZenonT(60)
  <2>6. kind \in Kinds \ {"bad"} /\ mode \in Modes
    BY ONLY <2>1, Http1Assumption, Zenon DEF Http1Assumption, Modes
  <2>c. close \in BOOLEAN /\ chunked \in BOOLEAN
    BY ONLY <2>1, Zenon
  <2> HIDE DEF r
  <2>7. ConnInv(e, net.last) /\ e.open /\ e.out_armed = r.out_armed /\ e.lingering = r.lingering
    BY ONLY <1>0, <2>4, <2>6, <2>c, FinishKeeps
  <2> HIDE DEF e
  <2>8. ~e.lingering
    BY ONLY <1>2, <2>4, <2>7, Zenon
  <2>9. CloseOf(e, "process")
    BY ONLY <2>7, <2>8, BusyClose, Zenon
  <2>10. ConnInv(c', net.last) /\ CloseOf(c', pc') /\ pc' \in Pcs
    BY ONLY <1>1, <2>2, <2>5, <2>7, <2>9, Zenon DEF Pcs
  <2> QED BY ONLY <1>1, <2>10, IInv, WorkerStep, Zenon
<1>5. CASE ProcessRefuse
  <2> DEFINE r == Refuse(c)
             d == [r EXCEPT !.rbuf = 0]
  <2>1. CanServe(c) /\ c' = EndProcess(d) /\ pc' = "flush"
    BY ONLY <1>5, Zenon DEF ProcessRefuse, CallFlush
  <2>2. ConnInv(r, net.last) /\ r.open /\ r.lingering = c.lingering
    BY ONLY <1>0, <1>3, <2>1, RefuseKeeps, Zenon
  <2> HIDE DEF r
  <2>3. 0 \in 0 .. MaxTotal
    BY Http1Assumption DEF Http1Assumption
  <2>4. ConnInv(d, net.last) /\ Shut(r, d)
    BY ONLY <2>2, <2>3, RbufKeeps, Zenon
  <2> HIDE DEF d
  <2>5. d.open /\ ~d.lingering
    BY ONLY <1>2, <2>2, <2>4, Zenon DEF Shut
  <2> QED BY ONLY <1>1, <2>1, <2>4, <2>5, IInv, EndStep, Zenon
<1>6. CASE ProcessPartial
  <2> DEFINE k == [Put(c, <<Unit(c.served + 1, "cont")>>) EXCEPT !.cont = TRUE]
  <2>1. PICK expect \in BOOLEAN : c' = EndProcess(IF expect /\ ~c.cont THEN k ELSE c)
    BY ONLY <1>6, Zenon DEF ProcessPartial
  <2>2. CanServe(c) /\ pc' = "flush"
    BY ONLY <1>6, Zenon DEF ProcessPartial, CallFlush
  <2>3. CASE expect /\ ~c.cont
    <3>1. ConnInv(k, net.last) /\ k.open /\ k.lingering = c.lingering
      BY ONLY <1>0, <1>3, <2>2, <2>3, ContKeeps, Zenon
    <3>2. c' = EndProcess(k)
      BY ONLY <2>1, <2>3, Zenon
    <3> HIDE DEF k
    <3>3. ~k.lingering
      BY ONLY <1>2, <3>1, Zenon
    <3> QED BY ONLY <1>1, <2>2, <3>1, <3>2, <3>3, IInv, EndStep, Zenon
  <2>4. CASE ~(expect /\ ~c.cont)
    <3>1. c' = EndProcess(c)
      BY ONLY <2>1, <2>4, Zenon
    <3> QED BY ONLY <1>0, <1>1, <1>2, <2>2, <3>1, IInv, EndStep, Zenon
  <2> QED BY ONLY <2>3, <2>4, Zenon
<1>7. CASE ProcessEnd
  <2>1. c' = EndProcess(c) /\ pc' = "flush"
    BY ONLY <1>7, Zenon DEF ProcessEnd, CallFlush
  <2> QED BY ONLY <1>0, <1>1, <1>2, <2>1, IInv, EndStep, Zenon
<1> QED BY <1>4, <1>5, <1>6, <1>7, Zenon
-----------------------------------------------------------------------------
(* flush, discard and the returns.                                         *)

\* The socket takes n units of wbuf.
LEMMA AdvanceKeeps ==
    ASSUME NEW d, NEW u, ConnInv(d, u), NEW n \in 1 .. Len(Unsent(d))
    PROVE  LET e == Advance(d, n)
           IN  /\ ConnInv(e, Unsent(d)[n]) /\ Unsent(d)[n] \in Units
               /\ e.open = d.open /\ e.lingering = d.lingering
<1> DEFINE w == d.wbuf
           o == d.woff
           s == SubSeq(w, o + 1, Len(w))
           x == w[o + n]
<1>0. /\ d \in Conn /\ Chained(w, o, u) /\ TailOf(d, EndOf(w, u))
      /\ TimerOf(d) /\ WriteOf(d)
  BY ONLY ConnInv(d, u), Zenon DEF ConnInv
<1>1. w \in Seq(Units) /\ o \in Nat
  BY ONLY <1>0, ZenonT(60) DEF Conn
<1>u. Unsent(d) = s
  BY ONLY Zenon DEF Unsent
<1> HIDE DEF w, o
<1>2. /\ Len(w) \in Nat /\ o <= Len(w) /\ s \in Seq(Units) /\ Len(s) = Len(w) - o
      /\ \A i \in 1 .. Len(w) - o : s[i] = w[o + i]
  BY ONLY <1>0, <1>1, UnsentIs
<1> HIDE DEF s
<1>n. n \in 1 .. Len(s)
  BY ONLY <1>u, n \in 1 .. Len(Unsent(d)), Zenon
<1>3. /\ n \in 1 .. Len(w) - o /\ n \in Nat \ {0} /\ o + n <= Len(w) /\ w # <<>> /\ o + n \in Nat
      /\ 0 \in Nat /\ (n = Len(s) => o + n = Len(w)) /\ (n # Len(s) => o + n < Len(w))
  <2> DEFINE L == Len(w)
             m == Len(s)
  <2>1. L \in Nat /\ o \in Nat /\ o <= L /\ m = L - o /\ n \in 1 .. m
    BY ONLY <1>1, <1>2, <1>n, Zenon
  <2> HIDE DEF L, m
  <2>2. /\ n \in 1 .. L - o /\ n \in Nat \ {0} /\ o + n <= L /\ L # 0 /\ o + n \in Nat
        /\ 0 \in Nat /\ (n = m => o + n = L) /\ (n # m => o + n < L)
    BY ONLY <2>1
  <2>3. Len(w) # 0 => w # <<>>
    BY ONLY <1>1
  <2> QED BY ONLY <2>2, <2>3, Zenon DEF L, m
<1>4. s[n] = x
  BY ONLY <1>2, <1>3, Zenon
<1>5. /\ o + n < Len(w) => Chained(w, o + n, x) /\ EndOf(w, x) = EndOf(w, u)
      /\ o + n = Len(w) => Chained(<<>>, 0, x) /\ EndOf(<<>>, x) = EndOf(w, u)
      /\ x \in Units
  BY ONLY <1>0, <1>1, <1>3, ChainTake
<1> DEFINE v == IF n = Len(s) THEN <<>> ELSE w
           p == IF n = Len(s) THEN 0 ELSE o + n
           e == [d EXCEPT !.wbuf = v, !.woff = p]
           f == Advance(d, n)
<1> HIDE DEF x
<1>6. v \in Seq(Units) /\ p \in Nat
  <2>1. <<>> \in Seq(Units)
    OBVIOUS
  <2> QED BY ONLY <1>1, <1>3, <2>1, Zenon
<1>7. Chained(v, p, x) /\ EndOf(v, x) = EndOf(w, u)
  BY ONLY <1>3, <1>5, Zenon
<1>8. /\ f \in Conn /\ f.wbuf = v /\ f.woff = p
      /\ f.open = d.open /\ f.cont = d.cont /\ f.waiting = d.waiting
      /\ f.timers = d.timers /\ f.st = d.st /\ f.file_left = d.file_left
      /\ f.served = d.served /\ f.st_serial = d.st_serial /\ f.close_after = d.close_after
      /\ f.out_armed = d.out_armed /\ f.dl = d.dl /\ f.lingering = d.lingering
  <2>1. CASE n = Len(s)
    <3>1. f = [d EXCEPT !.wbuf = <<>>, !.woff = 0]
      BY ONLY <2>1, <1>u, Zenon DEF Advance
    <3>2. v = <<>> /\ p = 0 /\ <<>> \in Seq(Units) /\ 0 \in Nat
      BY ONLY <2>1, <1>6, Zenon
    <3> HIDE DEF v, p, f
    <3> QED BY ONLY <1>0, <3>1, <3>2, ZenonT(60) DEF Conn
  <2>2. CASE n # Len(s)
    <3>1. f = [d EXCEPT !.woff = o + n]
      BY ONLY <2>2, <1>u, Zenon DEF Advance, o
    <3>2. v = d.wbuf /\ p = o + n /\ p \in Nat
      BY ONLY <2>2, <1>6, Zenon DEF w
    <3> HIDE DEF v, p, f
    <3> QED BY ONLY <1>0, <3>1, <3>2, ZenonT(60) DEF Conn
  <2> QED BY ONLY <2>1, <2>2, Zenon
<1> HIDE DEF v, p, f
<1>9. Chained(f.wbuf, f.woff, x) /\ EndOf(f.wbuf, x) = EndOf(w, u)
  BY ONLY <1>7, <1>8, Zenon
<1> DEFINE y == EndOf(w, u)
<1>10. TailOf(d, y)
  BY ONLY <1>0, Zenon
<1> HIDE DEF y
<1>11. TailOf(f, y) /\ TimerOf(f) /\ WriteOf(f)
  BY ONLY <1>0, <1>8, <1>10, ZenonT(60) DEF TailOf, TimerOf, WriteOf, Owed, Begun, Done
<1>12. TailOf(f, EndOf(f.wbuf, x))
  BY ONLY <1>9, <1>11, Zenon DEF y
<1>13. ConnInv(f, x)
  BY ONLY <1>8, <1>9, <1>11, <1>12, Zenon DEF ConnInv
<1> QED BY ONLY <1>4, <1>5, <1>8, <1>13, <1>u, Zenon DEF f

\* sendfile sends n units of the file.
LEMMA FileSent ==
    ASSUME NEW d, NEW u, ConnInv(d, u), d.wbuf = <<>>, NEW n \in 1 .. d.file_left
    PROVE  LET e == [d EXCEPT !.file_left = @ - n]
               x == Unit(d.served, IF n = d.file_left THEN "last" ELSE "mid")
           IN  /\ ConnInv(e, x) /\ x \in Units
               /\ e.open = d.open /\ e.lingering = d.lingering
<1> DEFINE k == d.file_left - n
           e == [d EXCEPT !.file_left = k]
           x == Unit(d.served, IF n = d.file_left THEN "last" ELSE "mid")
<1>0. /\ d \in Conn /\ Chained(d.wbuf, d.woff, u) /\ TailOf(d, EndOf(d.wbuf, u))
      /\ TimerOf(d) /\ WriteOf(d)
  BY ONLY ConnInv(d, u), Zenon DEF ConnInv
<1>1. d.file_left \in 0 .. FileUnits /\ d.served \in 0 .. N
  BY ONLY <1>0, ZenonT(60) DEF Conn
<1>2. /\ k \in 0 .. FileUnits /\ d.file_left # 0 /\ (k = 0 <=> n = d.file_left)
  BY ONLY <1>1, n \in 1 .. d.file_left, Http1Assumption DEF Http1Assumption
<1>3. /\ x \in Units /\ x.id = d.served
      /\ IF k = 0 THEN x.part = "last" ELSE x.part = "mid"
  <2> DEFINE q == IF n = d.file_left THEN "last" ELSE "mid"
  <2>1. q \in {"cont", "only", "first", "mid", "last"}
    BY ONLY Zenon
  <2>2. IF k = 0 THEN q = "last" ELSE q = "mid"
    BY ONLY <1>2, Zenon
  <2>3. x = Unit(d.served, q)
    BY ONLY Zenon
  <2> HIDE DEF q, x, k
  <2> QED BY ONLY <1>1, <2>1, <2>2, <2>3, UnitIs
<1>4. d.woff = 0
  BY ONLY <1>0, d.wbuf = <<>>, Zenon DEF Chained
<1> HIDE DEF k, x
<1>5. e \in Conn
  BY ONLY <1>0, <1>2, ZenonT(60) DEF Conn
<1>6. /\ e.open = d.open /\ e.cont = d.cont /\ e.woff = d.woff /\ e.wbuf = d.wbuf
      /\ e.waiting = d.waiting /\ e.timers = d.timers /\ e.st = d.st /\ e.file_left = k
      /\ e.served = d.served /\ e.st_serial = d.st_serial /\ e.close_after = d.close_after
      /\ e.out_armed = d.out_armed /\ e.dl = d.dl /\ e.lingering = d.lingering
  BY ONLY <1>0, ZenonT(60) DEF Conn
<1> HIDE DEF e
<1>7. Chained(e.wbuf, e.woff, x) /\ EndOf(e.wbuf, x) = x
  <2>1. Chained(<<>>, 0, x) /\ EndOf(<<>>, x) = x
    BY DEF Chained, EndOf
  <2>2. e.wbuf = <<>> /\ e.woff = 0
    BY ONLY <1>4, <1>6, d.wbuf = <<>>, Zenon
  <2> QED BY ONLY <2>1, <2>2, Zenon
<1>8. ~d.waiting /\ d.st = 0 /\ ~d.cont
  BY ONLY <1>0, <1>2, ZenonT(60) DEF TailOf
<1>9. TailOf(e, x)
  BY ONLY <1>3, <1>6, <1>8, ZenonT(60) DEF TailOf, Done, Begun
<1>10. TimerOf(e) /\ WriteOf(e)
  BY ONLY <1>0, <1>6, ZenonT(60) DEF TimerOf, WriteOf
<1>11. ConnInv(e, x)
  BY ONLY <1>5, <1>7, <1>9, <1>10, Zenon DEF ConnInv
<1> QED BY ONLY <1>3, <1>6, <1>11, Zenon DEF e, x, k

\* The end of flush.
LEMMA FlushEndStep ==
    ASSUME IInv, NEW d, ConnInv(d, net.last), d.open, ~d.lingering, d.wbuf = <<>>,
           d.file_left = 0, FlushEnd(d)
    PROVE  IInv'
<1>0. d \in Conn /\ net' = net /\ pushes' = pushes
  BY Zenon DEF ConnInv, FlushEnd
<1>t. TRUE \in BOOLEAN /\ FALSE \in BOOLEAN
  OBVIOUS
<1>1. CASE d.close_after /\ d.linger
  <2> DEFINE e == [[d EXCEPT !.out_armed = FALSE, !.lingering = TRUE, !.reading = FALSE]
                      EXCEPT !.dl = "linger", !.late = FALSE]
  <2>1. c' = e /\ pc' = "discard"
    BY ONLY <1>1, FlushEnd(d), Zenon DEF FlushEnd, SetDeadline
  <2>2. "linger" \in {"idle", "read", "write", "linger"}
    BY ONLY Zenon
  <2>3. e \in Conn
    BY ONLY <1>0, <1>t, <2>2, ZenonT(60) DEF Conn
  <2>4. /\ Like(d, e) /\ e.st = d.st /\ e.timers = d.timers /\ e.dl = "linger"
        /\ e.out_armed = FALSE /\ e.lingering = TRUE /\ e.wbuf = d.wbuf
        /\ e.close_after = d.close_after
    BY ONLY <1>0, ZenonT(60) DEF Conn, Like
  <2> HIDE DEF e
  <2>5. /\ WriteOf(e) /\ (d.close_after => e.close_after) /\ e.timers \subseteq d.timers
        /\ (e.close_after => d.close_after \/ ~d.waiting)
    BY ONLY <2>4, ZenonT(60) DEF WriteOf
  <2>6. ConnInv(e, net.last)
    BY ONLY SameConn, <2>3, <2>4, <2>5, ConnInv(d, net.last), Zenon
  <2>7. CloseOf(e, "discard")
    BY ONLY <1>1, <2>4, d.open, d.wbuf = <<>>, d.file_left = 0, ZenonT(60) DEF CloseOf, Like
  <2>8. ConnInv(c', net.last) /\ CloseOf(c', pc') /\ pc' \in Pcs
    BY ONLY <2>1, <2>6, <2>7, Zenon DEF Pcs
  <2> QED BY ONLY <1>0, <2>8, IInv, WorkerStep, Zenon
<1>2. CASE d.close_after /\ ~d.linger
  <2> DEFINE e == Close(d)
  <2>1. c' = e /\ pc' = "return"
    BY ONLY <1>2, FlushEnd(d), Zenon DEF FlushEnd
  <2>2. ConnInv(e, net.last) /\ CloseOf(e, "idle") /\ CloseOf(e, "return")
    BY ONLY <1>0, ClosedKeeps, Zenon
  <2> HIDE DEF e
  <2>3. ConnInv(c', net.last) /\ CloseOf(c', pc') /\ pc' \in Pcs
    BY ONLY <2>1, <2>2, Zenon DEF Pcs
  <2> QED BY ONLY <1>0, <2>3, IInv, WorkerStep, Zenon
<1>3. CASE ~d.close_after
  <2> DEFINE e == [[d EXCEPT !.out_armed = FALSE] EXCEPT !.dl = ReadOrIdle(d), !.late = FALSE]
  <2>1. c' = (IF d.out_armed THEN e ELSE d) /\ pc' \in {"process", "return"}
    BY ONLY <1>3, FlushEnd(d), Zenon DEF FlushEnd, SetDeadline, Call
  <2>2. ConnInv(c', net.last) /\ c'.open = d.open /\ c'.close_after = d.close_after
        /\ c'.file_left = d.file_left /\ c'.lingering = d.lingering
    <3>1. CASE d.out_armed
      <4>1. ReadOrIdle(d) \in {"idle", "read", "write", "linger"} /\ ReadOrIdle(d) # "write"
        BY ONLY Zenon DEF ReadOrIdle
      <4>2. e \in Conn
        BY ONLY <1>0, <1>t, <4>1, ZenonT(60) DEF Conn
      <4>3. /\ Like(d, e) /\ e.st = d.st /\ e.timers = d.timers /\ e.dl = ReadOrIdle(d)
            /\ e.out_armed = FALSE /\ e.lingering = d.lingering /\ e.wbuf = d.wbuf
            /\ e.close_after = d.close_after
        BY ONLY <1>0, ZenonT(60) DEF Conn, Like
      <4>4. c' = e
        BY ONLY <2>1, <3>1, Zenon
      <4> HIDE DEF e
      <4>5. /\ WriteOf(e) /\ (d.close_after => e.close_after) /\ e.timers \subseteq d.timers
            /\ (e.close_after => d.close_after \/ ~d.waiting)
        BY ONLY <4>1, <4>3, ZenonT(60) DEF WriteOf
      <4>6. ConnInv(e, net.last)
        BY ONLY SameConn, <4>2, <4>3, <4>5, ConnInv(d, net.last), Zenon
      <4> QED BY ONLY <4>3, <4>4, <4>6, Zenon DEF Like
    <3>2. CASE ~d.out_armed
      BY ONLY <2>1, <3>2, ConnInv(d, net.last), Zenon
    <3> QED BY ONLY <3>1, <3>2, Zenon
  <2>3. CloseOf(c', pc') /\ pc' \in Pcs
    BY ONLY <1>3, <2>1, <2>2, d.open, ~d.lingering, d.file_left = 0, ZenonT(60) DEF CloseOf, Pcs
  <2> QED BY ONLY <1>0, <2>2, <2>3, IInv, WorkerStep, Zenon
<1> QED BY ONLY <1>1, <1>2, <1>3, Zenon

\* What leaves the socket's counters alone.
LEMMA TakenNet ==
    ASSUME NetInv, NEW us, NEW n, Taken(us, n), us[n] \in Units
    PROVE  NetInv' /\ net'.last = us[n]
<1> DEFINE T == [sent : Nat, in : Nat, eof : BOOLEAN, reset : BOOLEAN, room : BOOLEAN,
                 over : SUBSET Oversize, last : Units]
           x == us[n]
<1>1. PICK more \in BOOLEAN : net' = [net EXCEPT !.room = more, !.last = x]
  BY ONLY Taken(us, n), Zenon DEF Taken
<1>x. x \in Units
  OBVIOUS
<1> HIDE DEF x
<1>2. net \in T
  BY ONLY NetInv, Zenon DEF NetInv
<1>3. /\ net' \in T /\ net'.over = net.over /\ net'.sent = net.sent /\ net'.in = net.in
      /\ net'.last = x
  BY ONLY <1>1, <1>2, <1>x, ZenonT(60)
<1>4. net.in \in Nat
  BY ONLY <1>2, ZenonT(60)
<1>5. net.in <= net.in
  BY ONLY <1>4
<1>6. net'.in \in Nat /\ net'.in <= net.in
  BY ONLY <1>3, <1>4, <1>5, Zenon
<1>7. NetInv'
  BY ONLY <1>3, <1>6, NetInv, NetLess, Zenon
<1> QED BY ONLY <1>3, <1>7, Zenon DEF x

\* flush.
LEMMA FlushKeeps ==
    ASSUME IInv, \/ FlushWrite \/ FlushFile \/ FlushFull \/ FlushFail
                 \/ FlushYield \/ FlushDrain \/ FlushDone
    PROVE  IInv'
<1>0. /\ ConnInv(c, net.last) /\ CloseOf(c, pc) /\ net.last \in Units /\ NetInv /\ c \in Conn
      /\ pushes \in 0 .. MaxPush
  BY ONLY IInv, Now, Zenon
<1>1. pc = "flush"
  BY ZenonT(60) DEF FlushWrite, FlushFile, FlushFull, FlushFail, FlushYield, FlushDrain,
                    FlushDone, StreamTurn
<1>2. c.open /\ ~c.lingering
  BY ONLY <1>0, <1>1, ZenonT(60) DEF CloseOf
<1>3. CASE FlushWrite
  <2>1. PICK n \in 1 .. Len(Unsent(c)) : Taken(Unsent(c), n) /\ c' = Advance(c, n)
    BY ONLY <1>3, Zenon DEF FlushWrite
  <2>2. pc' = "flush" /\ pushes' = pushes
    BY ONLY <1>1, <1>3, Zenon DEF FlushWrite
  <2> DEFINE e == Advance(c, n)
             x == Unsent(c)[n]
  <2>3. ConnInv(e, x) /\ x \in Units /\ e.open = c.open /\ e.lingering = c.lingering
    BY ONLY <1>0, AdvanceKeeps, Zenon
  <2>4. NetInv' /\ net'.last = x
    BY ONLY <1>0, <2>1, <2>3, TakenNet, Zenon
  <2>5. c' = e
    BY ONLY <2>1, Zenon
  <2> HIDE DEF e, x
  <2>6. e.open /\ ~e.lingering
    BY ONLY <1>2, <2>3, Zenon
  <2>7. CloseOf(e, "flush")
    BY ONLY <2>6, BusyClose, Zenon
  <2>8. /\ ConnInv(c', net'.last) /\ CloseOf(c', pc') /\ pc' \in Pcs
        /\ pushes' \in 0 .. MaxPush
    BY ONLY <1>0, <2>2, <2>3, <2>4, <2>5, <2>7, Zenon DEF Pcs
  <2> QED BY ONLY <2>4, <2>8, IInvNext, Zenon
<1>4. CASE FlushFile
  <2> DEFINE rest == [i \in 1 .. c.file_left |->
                        Unit(c.served, IF i = c.file_left THEN "last" ELSE "mid")]
  <2>1. PICK n \in 1 .. c.file_left : Taken(rest, n) /\ c' = [c EXCEPT !.file_left = @ - n]
    BY ONLY <1>4, Zenon DEF FlushFile
  <2>2. pc' = "flush" /\ pushes' = pushes /\ c.wbuf = <<>>
    BY ONLY <1>1, <1>4, Zenon DEF FlushFile
  <2> DEFINE e == [c EXCEPT !.file_left = @ - n]
             x == Unit(c.served, IF n = c.file_left THEN "last" ELSE "mid")
  <2>3. ConnInv(e, x) /\ x \in Units /\ e.open = c.open /\ e.lingering = c.lingering
    BY ONLY <1>0, <2>2, FileSent, Zenon
  <2>r. rest[n] = x
    BY ONLY n \in 1 .. c.file_left, Zenon
  <2>5. c' = e
    BY ONLY <2>1, Zenon
  <2> HIDE DEF e, x, rest
  <2>s. rest[n] \in Units
    BY ONLY <2>3, <2>r, Zenon
  <2>t. NetInv' /\ net'.last = rest[n]
    BY ONLY <1>0, <2>1, <2>s, TakenNet, Zenon
  <2>4. NetInv' /\ net'.last = x
    BY ONLY <2>r, <2>t, Zenon
  <2>6. e.open /\ ~e.lingering
    BY ONLY <1>2, <2>3, Zenon
  <2>7. CloseOf(e, "flush")
    BY ONLY <2>6, BusyClose, Zenon
  <2>8. /\ ConnInv(c', net'.last) /\ CloseOf(c', pc') /\ pc' \in Pcs
        /\ pushes' \in 0 .. MaxPush
    BY ONLY <1>0, <2>2, <2>3, <2>4, <2>5, <2>7, Zenon DEF Pcs
  <2> QED BY ONLY <2>4, <2>8, IInvNext, Zenon
<1>5. CASE FlushFull \/ FlushYield
  <2>1. PICK b : c' = ArmOut(c, b)
    BY ONLY <1>5, Zenon DEF FlushFull, FlushYield
  <2>2. pc' = "return" /\ net' = net /\ pushes' = pushes
    BY ONLY <1>5, Zenon DEF FlushFull, FlushYield
  <2> DEFINE e == ArmOut(c, b)
  <2>3. ConnInv(e, net.last) /\ e.out_armed /\ e.open = c.open /\ e.lingering = c.lingering
    BY ONLY <1>0, ArmKeeps, Zenon
  <2>4. c' = e
    BY ONLY <2>1, Zenon
  <2> HIDE DEF e
  <2>5. CloseOf(e, "return")
    BY ONLY <1>2, <2>3, ZenonT(60) DEF CloseOf
  <2>6. ConnInv(c', net.last) /\ CloseOf(c', pc') /\ pc' \in Pcs
    BY ONLY <2>2, <2>3, <2>4, <2>5, Zenon DEF Pcs
  <2> QED BY ONLY <2>2, <2>6, IInv, WorkerStep, Zenon
<1>6. CASE FlushFail
  <2>1. c' = Close(c) /\ pc' \in {"idle", "return"} /\ net' = net /\ pushes' = pushes
    BY ONLY <1>6, Zenon DEF FlushFail
  <2> QED BY ONLY <2>1, IInv, CloseStep, Zenon
<1>7. CASE FlushDrain
  <2>1. PICK act \in StActs(c) : c' = StTake(c, act)
    BY ONLY <1>7, Zenon DEF FlushDrain
  <2>2. /\ c.st # 0 /\ ~c.close_after /\ net' = net /\ pushes' = pushes
        /\ pc' \in {"process", "flush"}
    BY ONLY <1>1, <1>7, Zenon DEF FlushDrain, StreamTurn
  <2>3. act \in {"write", "end", "none"} /\ (act = "write" => c.st_left > 0)
    BY ONLY <2>1, ActIs, Zenon
  <2> QED BY ONLY <1>0, <1>2, <2>1, <2>2, <2>3, IInv, TakeStep
<1>8. CASE FlushDone
  <2>1. c.wbuf = <<>> /\ c.file_left = 0
    BY ONLY <1>8, Zenon DEF FlushDone
  <2>2. CASE FlushEnd(c)
    BY ONLY <1>0, <1>2, <2>1, <2>2, IInv, FlushEndStep, Zenon
  <2>3. CASE /\ c.st # 0 /\ ~c.close_after
             /\ \E act \in StActs(c) : LET d == StTake(c, act) IN d.wbuf = <<>> /\ FlushEnd(d)
    <3>1. PICK act \in StActs(c) : StTake(c, act).wbuf = <<>> /\ FlushEnd(StTake(c, act))
      BY ONLY <2>3, Zenon
    <3>2. act \in {"write", "end", "none"} /\ (act = "write" => c.st_left > 0)
      BY ONLY <3>1, ActIs, Zenon
    <3> DEFINE d == StTake(c, act)
    <3>3. ConnInv(d, net.last) /\ Beside(c, d) /\ d.open = c.open /\ d.file_left = c.file_left
      BY ONLY <1>0, <2>3, <3>2, StTakeKeeps
    <3>4. d.wbuf = <<>> /\ FlushEnd(d)
      BY ONLY <3>1, Zenon
    <3> HIDE DEF d
    <3>5. d.open /\ ~d.lingering /\ d.file_left = 0
      BY ONLY <1>2, <2>1, <3>3, Zenon DEF Beside
    <3> QED BY ONLY <3>3, <3>4, <3>5, IInv, FlushEndStep, Zenon
  <2> QED BY ONLY <1>8, <2>2, <2>3, Zenon DEF FlushDone
<1> QED BY <1>3, <1>4, <1>5, <1>6, <1>7, <1>8, Zenon

\* discard.
LEMMA DiscardKeeps ==
    ASSUME IInv, DiscardSome \/ DiscardEnd
    PROVE  IInv'
<1>0. /\ ConnInv(c, net.last) /\ CloseOf(c, pc) /\ net.last \in Units /\ NetInv /\ c \in Conn
      /\ pushes \in 0 .. MaxPush /\ pc \in Pcs
  BY ONLY IInv, Now, Zenon
<1>1. pc = "discard"
  BY Zenon DEF DiscardSome, DiscardEnd
<1>2. ~c.out_armed /\ CloseOf(c, "return")
  BY ONLY <1>0, <1>1, ZenonT(60) DEF CloseOf
<1>3. CASE DiscardSome
  <2>1. /\ net' = [net EXCEPT !.in = 0] /\ c' = SetDeadline(c, "linger")
        /\ pc' = pc /\ pushes' = pushes
    BY ONLY <1>3, Zenon DEF DiscardSome
  <2> DEFINE e == SetDeadline(c, "linger")
             T == [sent : Nat, in : Nat, eof : BOOLEAN, reset : BOOLEAN, room : BOOLEAN,
                   over : SUBSET Oversize, last : Units]
  <2>2. "linger" \in {"idle", "read", "linger"}
    BY ONLY Zenon
  <2>3. ConnInv(e, net.last) /\ Shut(c, e)
    BY ONLY <1>0, <1>2, <2>2, DeadlineKeeps
  <2>4. c' = e
    BY ONLY <2>1, Zenon
  <2> HIDE DEF e
  <2>5. CloseOf(e, pc)
    BY ONLY <1>0, <2>3, ShutClose, Zenon
  <2>6. net \in T /\ net.in \in Nat
    BY ONLY <1>0, ZenonT(60) DEF NetInv
  <2>7. 0 \in Nat /\ 0 <= net.in
    BY ONLY <2>6
  <2>8. /\ net' \in T /\ net'.over = net.over /\ net'.sent = net.sent /\ net'.in = 0
        /\ net'.last = net.last
    BY ONLY <2>1, <2>6, <2>7, ZenonT(60)
  <2>9. net'.in \in Nat /\ net'.in <= net.in
    BY ONLY <2>7, <2>8, Zenon
  <2>10. NetInv'
    BY ONLY <1>0, <2>8, <2>9, NetLess, Zenon
  <2>11. /\ ConnInv(c', net'.last) /\ CloseOf(c', pc') /\ pc' \in Pcs
         /\ pushes' \in 0 .. MaxPush
    BY ONLY <1>0, <2>1, <2>3, <2>4, <2>5, <2>8, Zenon
  <2> QED BY ONLY <2>10, <2>11, IInvNext, Zenon
<1>4. CASE DiscardEnd
  <2>1. net' = net /\ pushes' = pushes /\ pc' = "return" /\ (c' = Close(c) \/ c' = c)
    BY ONLY <1>4, Zenon DEF DiscardEnd
  <2>2. CASE c' = Close(c)
    BY ONLY <2>1, <2>2, IInv, CloseStep, Zenon
  <2>3. CASE c' = c
    <3>1. CloseOf(c, pc') /\ pc' \in Pcs
      BY ONLY <1>2, <2>1, Zenon DEF Pcs
    <3> QED BY ONLY <2>1, <2>3, <3>1, IInv, GoStep, Zenon
  <2> QED BY ONLY <2>1, <2>2, <2>3, Zenon
<1> QED BY <1>3, <1>4, Zenon

\* A new deadline for a connection whose output does not wait.
LEMMA DeadlineStep ==
    ASSUME IInv, net' = net, pushes' = pushes, ~c.out_armed, NEW kind \in {"idle", "read", "linger"},
           c' = SetDeadline(c, kind), CloseOf(c, pc'), pc' \in Pcs
    PROVE  IInv'
<1> DEFINE e == SetDeadline(c, kind)
<1>0. ConnInv(c, net.last)
  BY ONLY IInv, Now, Zenon
<1>1. ConnInv(e, net.last) /\ Shut(c, e)
  BY ONLY <1>0, ~c.out_armed, kind \in {"idle", "read", "linger"}, DeadlineKeeps
<1>2. c' = e
  OBVIOUS
<1> HIDE DEF e
<1>3. CloseOf(e, pc')
  BY ONLY <1>1, CloseOf(c, pc'), ShutClose, Zenon
<1>4. ConnInv(c', net.last) /\ CloseOf(c', pc')
  BY ONLY <1>1, <1>2, <1>3, Zenon
<1> QED BY ONLY <1>4, IInv, net' = net, pushes' = pushes, pc' \in Pcs, WorkerStep, Zenon

\* The calls that return.
LEMMA ReturnKeeps ==
    ASSUME IInv, ReturnIdle \/ ReturnDrain \/ ReturnReadable \/ ReturnEvent \/ ReturnFire
    PROVE  IInv'
<1>0. CloseOf(c, pc)
  BY ONLY IInv, Now, Zenon
<1>1. pc = "return" /\ net' = net /\ pushes' = pushes
  BY ZenonT(60) DEF ReturnIdle, ReturnDrain, ReturnReadable, ReturnEvent, ReturnFire, Return
<1>2. CloseOf(c, "return") /\ CloseOf(c, "idle")
  BY ONLY <1>0, <1>1, ZenonT(60) DEF CloseOf
<1>3. ~Stopped(c) => /\ ~c.out_armed /\ CloseOf(c, "process") /\ CloseOf(c, "read")
  BY ONLY <1>0, <1>1, ZenonT(60) DEF CloseOf, Stopped
<1>p. {"idle", "return", "process", "read"} \subseteq Pcs
  BY ONLY Zenon DEF Pcs
<1>4. CASE ReturnIdle \/ ReturnDrain \/ ReturnEvent
  <2>1. c' = c /\ (pc' \in {"idle", "return"} \/ (pc' = "process" /\ ~Stopped(c)))
    BY ONLY <1>4, ZenonT(60) DEF ReturnIdle, ReturnDrain, ReturnEvent
  <2>2. CloseOf(c, pc') /\ pc' \in Pcs
    BY ONLY <1>2, <1>3, <1>p, <2>1, Zenon
  <2> QED BY ONLY <1>1, <2>1, <2>2, IInv, GoStep, Zenon
<1>5. CASE ReturnReadable
  <2>1. CASE Stopped(c)
    <3>1. c' = c /\ pc' = "return"
      BY ONLY <1>5, <2>1, Zenon DEF ReturnReadable
    <3>2. CloseOf(c, pc') /\ pc' \in Pcs
      BY ONLY <1>2, <1>p, <3>1, Zenon
    <3> QED BY ONLY <1>1, <3>1, <3>2, IInv, GoStep, Zenon
  <2>2. CASE ~Stopped(c)
    <3>1. /\ pc' \in {"read", "return"}
          /\ c' = SetDeadline(c, "read") \/ c' = SetDeadline(c, "idle") \/ c' = c
      BY ONLY <1>5, <2>2, Zenon DEF ReturnReadable
    <3>2. CloseOf(c, pc') /\ pc' \in Pcs /\ ~c.out_armed
      BY ONLY <1>2, <1>3, <1>p, <2>2, <3>1, Zenon
    <3>3. CASE c' = c
      BY ONLY <1>1, <3>2, <3>3, IInv, GoStep, Zenon
    <3>4. CASE c' = SetDeadline(c, "read")
      <4>1. "read" \in {"idle", "read", "linger"}
        BY ONLY Zenon
      <4> QED BY ONLY <1>1, <3>2, <3>4, <4>1, IInv, DeadlineStep
    <3>5. CASE c' = SetDeadline(c, "idle")
      <4>1. "idle" \in {"idle", "read", "linger"}
        BY ONLY Zenon
      <4> QED BY ONLY <1>1, <3>2, <3>5, <4>1, IInv, DeadlineStep
    <3> QED BY ONLY <3>1, <3>3, <3>4, <3>5, Zenon
  <2> QED BY ONLY <2>1, <2>2, Zenon
<1>6. CASE ReturnFire
  <2>1. pc' = "return" /\ c' = IF Stopped(c) THEN c ELSE SetDeadline(c, ReadOrIdle(c))
    BY ONLY <1>6, Zenon DEF ReturnFire
  <2>2. CloseOf(c, pc') /\ pc' \in Pcs
    BY ONLY <1>2, <1>p, <2>1, Zenon
  <2>3. CASE Stopped(c)
    <3>1. c' = c
      BY ONLY <2>1, <2>3, Zenon
    <3> QED BY ONLY <1>1, <2>2, <3>1, IInv, GoStep, Zenon
  <2>4. CASE ~Stopped(c)
    <3>1. c' = SetDeadline(c, ReadOrIdle(c)) /\ ~c.out_armed
      BY ONLY <1>3, <2>1, <2>4, Zenon
    <3>2. ReadOrIdle(c) \in {"idle", "read", "linger"}
      BY ONLY Zenon DEF ReadOrIdle
    <3> QED BY ONLY <1>1, <2>2, <3>1, <3>2, IInv, DeadlineStep
  <2> QED BY ONLY <2>3, <2>4, Zenon
<1> QED BY <1>4, <1>5, <1>6, Zenon

\* The invariant holds when the connection is accepted.
LEMMA InitKeeps ==
    ASSUME Init
    PROVE  IInv
<1>0. c = Fresh /\ pc = "idle" /\ pushes = 0
  BY Zenon DEF Init
<1>1. PICK over \in SUBSET Oversize :
          net = [sent |-> 0, in |-> 0, eof |-> FALSE, reset |-> FALSE, room |-> TRUE,
                 over |-> over, last |-> Unit(0, "last")]
  BY Zenon DEF Init
<1>n. /\ 0 \in 0 .. N /\ 0 \in 0 .. MaxTotal /\ 0 \in 0 .. FileUnits /\ 0 \in 0 .. StreamLen
      /\ 0 \in Nat /\ <<>> \in Seq(Units) /\ 0 <= 0 /\ {} \in SUBSET Timers /\ 0 \in 0 .. MaxPush
      /\ "gen" \in Modes /\ "idle" \in {"idle", "read", "write", "linger"}
  BY Http1Assumption DEF Http1Assumption, Modes
<1>2. Fresh \in Conn
  BY ONLY <1>n, ZenonT(60) DEF Conn, Fresh
<1>x. Unit(0, "last") \in Units /\ Unit(0, "last").id = 0 /\ Unit(0, "last").part = "last"
  BY ONLY <1>n, UnitIs
<1> DEFINE u == Unit(0, "last")
<1>3. Chained(Fresh.wbuf, Fresh.woff, u) /\ EndOf(Fresh.wbuf, u) = u
  <2>1. Chained(<<>>, 0, u) /\ EndOf(<<>>, u) = u
    BY DEF Chained, EndOf
  <2> QED BY ONLY <2>1, Zenon DEF Fresh
<1>4. /\ Fresh.open = TRUE /\ Fresh.waiting = FALSE /\ Fresh.st = 0 /\ Fresh.file_left = 0
      /\ Fresh.close_after = FALSE /\ Fresh.timers = {} /\ Fresh.st_serial = 0
      /\ Fresh.served = 0 /\ Fresh.dl = "idle" /\ Fresh.out_armed = FALSE
      /\ Fresh.lingering = FALSE /\ Fresh.cont = FALSE
  BY ONLY Zenon DEF Fresh
<1> HIDE DEF u
<1>5. TailOf(Fresh, u)
  BY ONLY <1>4, <1>x, ZenonT(60) DEF TailOf, Done, u
<1>6. TimerOf(Fresh) /\ WriteOf(Fresh) /\ CloseOf(Fresh, "idle")
  BY ONLY <1>4, <1>n, ZenonT(60) DEF TimerOf, WriteOf, CloseOf
<1>7. ConnInv(Fresh, u)
  BY ONLY <1>2, <1>3, <1>5, <1>6, Zenon DEF ConnInv
<1>8. net.last = u
  BY ONLY <1>1, Zenon DEF u
<1>9. NetInv
  <2>1. /\ net \in [sent : Nat, in : Nat, eof : BOOLEAN, reset : BOOLEAN, room : BOOLEAN,
                    over : SUBSET Oversize, last : Units]
        /\ net.sent = 0 /\ net.in = 0 /\ net.over \subseteq Oversize
    BY ONLY <1>1, <1>n, <1>x, ZenonT(60)
  <2>2. Upto(N) \in Nat
    BY ONLY <2>1, UptoNat, Zenon
  <2>3. 0 <= Upto(N)
    BY ONLY <2>2
  <2> QED BY ONLY <1>n, <2>1, <2>3, Zenon DEF NetInv
<1>10. ConnInv(c, net.last) /\ CloseOf(c, pc) /\ pc \in Pcs /\ pushes \in 0 .. MaxPush
  BY ONLY <1>0, <1>n, <1>6, <1>7, <1>8, Zenon DEF Pcs
<1> QED BY ONLY <1>9, <1>10, Zenon DEF IInv
-----------------------------------------------------------------------------
(* The theorems.                                                           *)

\* The invariant of the connection, for every number and size of requests, every
\* limit and every behaviour of handlers, client and socket.
THEOREM Invariance == Spec => []IInv
<1>1. Init => IInv
  BY InitKeeps
<1>2. IInv /\ [Next]_vars => IInv'
  <2> SUFFICES ASSUME IInv, [Next]_vars PROVE IInv'
    OBVIOUS
  <2>1. CASE ClientSend \/ ClientTake \/ ClientClose \/ ClientReset
    BY ONLY <2>1, IInv, ClientKeeps, Zenon
  <2>2. CASE Event
    BY ONLY <2>2, IInv, EventKeeps, Zenon
  <2>3. CASE Fire
    BY ONLY <2>3, IInv, FireKeeps, Zenon
  <2>4. CASE Push \/ Heartbeat
    BY ONLY <2>4, IInv, PushKeeps, Zenon
  <2>5. CASE Sweep
    BY ONLY <2>5, IInv, SweepKeeps, Zenon
  <2>6. CASE Worker
    BY ONLY <2>6, IInv, ReadKeeps, ProcessKeeps, FlushKeeps, DiscardKeeps, ReturnKeeps,
       Zenon DEF Worker
  <2>7. CASE UNCHANGED vars
    <3>1. /\ c' = c /\ pc' = pc /\ net' = net /\ pushes' = pushes
      BY ONLY <2>7, Zenon DEF vars
    <3>2. CloseOf(c, pc') /\ pc' \in Pcs
      BY ONLY <3>1, IInv, Now, Zenon
    <3> QED BY ONLY <3>1, <3>2, IInv, GoStep, Zenon
  <2> QED BY ONLY <2>1, <2>2, <2>3, <2>4, <2>5, <2>6, <2>7, [Next]_vars, Zenon DEF Next
<1> QED BY <1>1, <1>2, PTL DEF Spec

\* The invariant gives every variable its type.
LEMMA IInvType ==
    ASSUME IInv
    PROVE  TypeOK
<1>0. /\ c \in Conn /\ Chained(c.wbuf, c.woff, net.last) /\ net.last \in Units /\ NetInv
      /\ pc \in Pcs /\ pushes \in 0 .. MaxPush
  BY ONLY IInv, Now, Zenon DEF ConnInv
<1>1. DOMAIN c = DOMAIN Fresh
  BY ONLY <1>0, ZenonT(60) DEF Conn, Fresh
<1>2. /\ c.rbuf \in 0 .. MaxTotal /\ c.wbuf \in Seq(Units) /\ c.woff \in Nat
      /\ c.file_left \in 0 .. FileUnits /\ c.st \in 0 .. N /\ c.st_left \in 0 .. StreamLen
      /\ c.dl \in {"idle", "read", "write", "linger"}
      /\ c.timers \in SUBSET Timers /\ c.served \in 0 .. N
  BY ONLY <1>0, ZenonT(60) DEF Conn
<1>3. c.woff \in 0 .. Len(c.wbuf)
  <2> DEFINE w == c.wbuf
             o == c.woff
  <2>1. w \in Seq(Units) /\ o \in Nat /\ Chained(w, o, net.last)
    BY ONLY <1>0, <1>2, Zenon
  <2> HIDE DEF w, o
  <2>2. Len(w) \in Nat /\ o <= Len(w)
    BY ONLY <2>1, UnsentIs
  <2>3. o \in 0 .. Len(w)
    BY ONLY <2>1, <2>2
  <2> QED BY ONLY <2>3, Zenon DEF w, o
<1>4. net.in \in 0 .. Upto(N)
  <2>1. /\ net.in \in Nat /\ net.sent \in Nat /\ net.in <= net.sent /\ net.sent <= Upto(N)
        /\ net.over \subseteq Oversize
    BY ONLY <1>0, ZenonT(60) DEF NetInv
  <2>2. Upto(N) \in Nat
    BY ONLY <2>1, UptoNat, Zenon
  <2> QED BY ONLY <2>1, <2>2
<1> QED BY ONLY <1>0, <1>1, <1>2, <1>3, <1>4, Zenon DEF TypeOK, Pcs, Timers

\* Every response leaves whole and in the order of the requests: no unit is
\* missing, repeated or out of place between what was sent and what waits in
\* wbuf, whoever wrote it.
THEOREM ResponsesInOrderAlways == Spec => []ResponsesInOrder
<1>1. IInv => ResponsesInOrder
  <2> SUFFICES ASSUME IInv PROVE ResponsesInOrder
    OBVIOUS
  <2>1. TypeOK
    BY IInvType
  <2>2. /\ c \in Conn /\ Chained(c.wbuf, c.woff, net.last) /\ net.last \in Units
    BY ONLY IInv, Now, Zenon DEF ConnInv
  <2>3. c.wbuf \in Seq(Units) /\ c.woff \in Nat
    BY ONLY <2>2, ZenonT(60) DEF Conn
  <2> DEFINE out == <<net.last>> \o SubSeq(c.wbuf, c.woff + 1, Len(c.wbuf))
  <2>4. \A i \in 1 .. Len(out) - 1 : Follows(out[i], out[i + 1])
    BY ONLY <2>2, <2>3, ChainOrder, Zenon
  <2> QED BY ONLY <2>1, <2>4, Zenon DEF ResponsesInOrder, Unsent
<1> QED BY <1>1, Invariance, PTL

\* Output that waits for the socket runs under the write timeout, and nothing
\* else does (arm_out, and the end of flush).
THEOREM WriteDeadlineAlways == Spec => []WriteDeadline
<1>1. IInv => WriteDeadline
  <2> SUFFICES ASSUME IInv PROVE WriteDeadline
    OBVIOUS
  <2>1. c \in Conn /\ (c.dl = "write" <=> c.out_armed)
    BY ONLY IInv, Zenon DEF IInv, ConnInv, WriteOf
  <2>2. c.out_armed \in BOOLEAN
    BY ONLY <2>1, ZenonT(60) DEF Conn
  <2>3. (c.dl = "write") = c.out_armed
    BY ONLY <2>1, <2>2
  <2> QED BY ONLY <2>3, Zenon DEF WriteDeadline
<1> QED BY <1>1, Invariance, PTL

\* Only flush sends.
LEMMA OnlyFlushSends ==
    ASSUME IInv, [Next]_vars, pc # "flush"
    PROVE  net'.last = net.last
<1>0. net \in [sent : Nat, in : Nat, eof : BOOLEAN, reset : BOOLEAN, room : BOOLEAN,
               over : SUBSET Oversize, last : Units]
  BY ONLY IInv, Zenon DEF IInv, NetInv
<1>1. CASE ClientSend \/ ClientTake \/ ClientClose \/ ClientReset
  BY ONLY <1>0, <1>1, ZenonT(60) DEF ClientSend, ClientTake, ClientClose, ClientReset, Client
<1>2. CASE Event \/ Fire \/ Push \/ Heartbeat \/ Sweep
  BY ONLY <1>2, ZenonT(60) DEF Event, OnReadable, OnWritable, OnHup, OnLingering, Fire, Push,
     Heartbeat, Sweep
<1>3. CASE Worker
  <2>1. CASE ReadFull \/ ReadNothing \/ ProcessServe \/ ProcessRefuse \/ ProcessPartial \/ ProcessEnd
    BY ONLY <2>1, ZenonT(60) DEF ReadFull, ReadNothing, ProcessServe, ProcessRefuse,
       ProcessPartial, ProcessEnd
  <2>2. CASE ReadSome \/ DiscardSome
    BY ONLY <1>0, <2>2, ZenonT(60) DEF ReadSome, DiscardSome
  <2>3. CASE DiscardEnd \/ ReturnIdle \/ ReturnDrain \/ ReturnReadable \/ ReturnEvent \/ ReturnFire
    BY ONLY <2>3, ZenonT(60) DEF DiscardEnd, ReturnIdle, ReturnDrain, ReturnReadable,
       ReturnEvent, ReturnFire
  <2>4. CASE \/ FlushWrite \/ FlushFile \/ FlushFull \/ FlushFail
             \/ FlushYield \/ FlushDrain \/ FlushDone
    BY ONLY <2>4, pc # "flush", ZenonT(60) DEF FlushWrite, FlushFile, FlushFull, FlushFail,
       FlushYield, FlushDrain, FlushDone, StreamTurn
  <2> QED BY ONLY <1>3, <2>1, <2>2, <2>3, <2>4, Zenon DEF Worker
<1>4. CASE UNCHANGED vars
  BY ONLY <1>4, Zenon DEF vars
<1> QED BY ONLY <1>1, <1>2, <1>3, <1>4, [Next]_vars, Zenon DEF Next

\* A shut connection sends nothing more: no stream, timer, push, heartbeat or
\* resumed response writes to it after shutdown.
THEOREM NothingAfterShutdownAlways == Spec => NothingAfterShutdown
<1>1. IInv /\ [Next]_vars => (c.lingering => net'.last = net.last)
  <2> SUFFICES ASSUME IInv, [Next]_vars, c.lingering PROVE net'.last = net.last
    OBVIOUS
  <2>1. pc # "flush"
    BY ONLY IInv, c.lingering, ZenonT(60) DEF IInv, CloseOf
  <2> QED BY ONLY <2>1, IInv, [Next]_vars, OnlyFlushSends, Zenon
<1> QED BY <1>1, Invariance, PTL DEF Spec, NothingAfterShutdown
=============================================================================
