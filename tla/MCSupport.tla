------------------------------ MODULE MCSupport ------------------------------
(***************************************************************************)
(* The parts around the connections, for model checking in one run: the    *)
(* ClientHello's parser, the flight, the certificate's reload, static      *)
(* files, the wait for events and the timers.  A behaviour is one of them. *)
(***************************************************************************)
EXTENDS ClientHello, Flight, CertReload, FileCache, EpollWait, TimerHeap

CONSTANT Parts

Http11Bytes == <<1, 2, 3>>
Http2Bytes == <<1, 2>>

VARIABLES
    part,       \* which of them this behaviour is
    offered     \* the hello that was encoded into buf

-----------------------------------------------------------------------------
(* Hellos.  An extension is its type, its body, whether it is well formed, *)
(* and what it says: the wanted code point or protocols; lie is added to   *)
(* its length.                                                             *)

U16(x) == <<x \div Radix, x % Radix>>
U24(x) == <<0>> \o U16(x)
Vec8(b) == <<Len(b)>> \o b
Vec16(b) == U16(Len(b)) \o b

Ext(t, ok, says, body) == [type |-> t, ok |-> ok, says |-> says, body |-> body, lie |-> 0]

\* An extension that is one vector of code points, behind a length of w bytes.
CodeExt(t, w, wanted) ==
    LET V(b) == IF w = 1 THEN Vec8(b) ELSE Vec16(b)
    IN  {Ext(t, TRUE, {"yes"}, V(U16(1) \o U16(wanted))),
         Ext(t, TRUE, {}, V(U16(1))),
         Ext(t, FALSE, {}, V(<<>>)),                             \* empty
         Ext(t, FALSE, {}, V(U16(wanted) \o <<0>>)),             \* odd
         Ext(t, FALSE, {}, V(U16(wanted)) \o <<1>>),             \* something after it
         Ext(t, FALSE, {}, IF w = 1 THEN <<2 + 2, 0, 0>> ELSE U16(4) \o U16(wanted)), \* cut off
         Ext(t, FALSE, {}, <<>>)}

Share(group, k) == U16(group) \o Vec16([i \in 1..k |-> 7])
ShareExt ==
    {Ext(51, TRUE, {"yes"}, Vec16(Share(X25519Group, ShareLen))),
     Ext(51, TRUE, {"yes"}, Vec16(Share(1, 1) \o Share(X25519Group, ShareLen))),
     Ext(51, TRUE, {}, Vec16(<<>>)),
     Ext(51, TRUE, {}, Vec16(Share(1, 1))),
     Ext(51, FALSE, {}, Vec16(Share(X25519Group, ShareLen) \o Share(X25519Group, ShareLen))),
     Ext(51, FALSE, {}, Vec16(Share(X25519Group, ShareLen + 1))),
     Ext(51, FALSE, {}, Vec16(Share(1, 0))),
     Ext(51, FALSE, {}, Vec16(U16(X25519Group) \o U16(ShareLen) \o <<7>>)),
     Ext(51, FALSE, {}, Vec16(Share(X25519Group, ShareLen)) \o <<1>>)}

AlpnExt ==
    {Ext(16, TRUE, {"h2", "h11"}, Vec16(Vec8(ProtoH2) \o Vec8(ProtoH11))),
     Ext(16, TRUE, {"h2"}, Vec16(Vec8(ProtoH2))),
     Ext(16, TRUE, {"h11"}, Vec16(Vec8(<<1>>) \o Vec8(ProtoH11))),
     Ext(16, TRUE, {}, Vec16(Vec8(<<1>>))),
     Ext(16, FALSE, {}, Vec16(<<>>)),
     Ext(16, FALSE, {}, Vec16(<<0>>)),
     Ext(16, FALSE, {}, Vec16(Vec8(ProtoH2) \o <<3, 1>>))}

Versions13 == CodeExt(43, 1, V13)
Groups == CodeExt(10, 2, X25519Group)
Signatures == CodeExt(13, 2, SigPss)
Plain1(t) == Ext(t, TRUE, {}, <<5>>)
Good(S) == CHOOSE e \in S : e.says = {"yes"}
Mandatory == {Good(Versions13), Good(Groups), Good(ShareExt), Good(Signatures)}
Optional == AlpnExt \cup {Plain1(t) : t \in {41, 42, 44, 60}} \cup Mandatory

Orders(S) == {s \in [1..Cardinality(S) -> S] : \A e \in S : \E i \in DOMAIN s : s[i] = e}
Inserted(s, e) == {SubSeq(s, 1, k) \o <<e>> \o SubSeq(s, k + 1, Len(s)) : k \in 0..Len(s)}

\* The mandatory four in any order; one more, anywhere; one of them in another
\* form; more than are kept track of; a last one that is longer or shorter than
\* its length.
ExtLists ==
    LET base == Orders(Mandatory)
        one  == CHOOSE s \in base : s[1].type = 43
    IN  base \cup UNION {Inserted(s, e) : s \in base, e \in Optional}
        \cup UNION {UNION {Orders((Mandatory \ {Good(S)}) \cup {e}) : e \in S} :
                        S \in {Versions13, Groups, ShareExt, Signatures}}
        \cup {[i \in 1..k |-> Plain1(59 - i)] \o one : k \in 1..3}
        \cup {Append(one, [Plain1(60) EXCEPT !.ok = FALSE, !.lie = l]) : l \in {-1, 1}}
        \cup {[s EXCEPT ![4] = [@ EXCEPT !.ok = FALSE, !.lie = l]] : s \in base, l \in {-1, 1}}

Hello == [type : {1}, claims : {0}, version : {V12}, sid : {1}, suites : {<<7, Suite>>}, comp : {<<0>>},
          exts : ExtLists, has_exts : {TRUE}, after : {<<>>}]
Model1 == CHOOSE h \in Hello : Len(h.exts) = 4 /\ h.exts[1].type = 43

\* The fields before the extensions, one at a time.
Headers ==
    {[Model1 EXCEPT !.type = 2], [Model1 EXCEPT !.claims = 1], [Model1 EXCEPT !.claims = -1],
     [Model1 EXCEPT !.version = 2], [Model1 EXCEPT !.sid = 0], [Model1 EXCEPT !.sid = MaxSid + 1],
     [Model1 EXCEPT !.suites = <<7>>], [Model1 EXCEPT !.suites = <<>>],
     [Model1 EXCEPT !.comp = <<>>], [Model1 EXCEPT !.comp = <<0, 1>>], [Model1 EXCEPT !.comp = <<1>>],
     [Model1 EXCEPT !.has_exts = FALSE], [Model1 EXCEPT !.after = <<0>>],
     [Model1 EXCEPT !.exts = Tail(@), !.version = 2], [Model1 EXCEPT !.exts = <<>>]}

Join(s, Enc(_)) == FoldLeft(LAMBDA b, e : b \o Enc(e), <<>>, s)
EncodeExt(e) == U16(e.type) \o U16(Len(e.body) + e.lie) \o e.body
EncodeBody(h) ==
    U16(h.version) \o [i \in 1..RandomLen |-> 1] \o Vec8([i \in 1..h.sid |-> 1])
    \o Vec16(Join(h.suites, U16)) \o Vec8(h.comp)
    \o (IF h.has_exts THEN Vec16(Join(h.exts, EncodeExt)) ELSE <<>>) \o h.after
Encode(h) == LET body == EncodeBody(h) IN <<h.type>> \o U24(Len(body) + h.claims) \o body

\* What the read-ahead holds after the message.
Follows == {[i \in 1..12 |-> 0], [i \in 1..12 |-> 1]}

-----------------------------------------------------------------------------
(* What a hello means, without reading it byte by byte.                    *)

HeaderOk(h) ==
    /\ h.type = 1 /\ h.claims = 0 /\ h.sid <= MaxSid /\ h.suites # <<>> /\ h.comp # <<>>
    /\ h.has_exts /\ h.after = <<>>
Faulty(h, i) ==
    \/ ~h.exts[i].ok
    \/ \E j \in 1..(i - 1) : h.exts[j].type = h.exts[i].type
    \/ h.exts[i].type = 41 /\ i < Len(h.exts)
Says(h, t, what) == \E i \in DOMAIN h.exts : h.exts[i].type = t /\ what \in h.exts[i].says
Has(h, t) == \E i \in DOMAIN h.exts : h.exts[i].type = t
Clean(h) == Len(h.exts) <= MaxExt /\ \A i \in DOMAIN h.exts : ~Faulty(h, i)
Common(h) == IF h2 /\ Says(h, 16, "h2") THEN 2 ELSE IF Says(h, 16, "h11") THEN 1 ELSE 0

IsServed(h) ==
    /\ HeaderOk(h) /\ Clean(h) /\ h.version = V12 /\ h.comp = <<0>>
    /\ \E i \in DOMAIN h.suites : h.suites[i] = Suite
    /\ \A t \in {43, 10, 51, 13} : Says(h, t, "yes")
    /\ ~Has(h, 42) /\ ~Has(h, 44)
    /\ Has(h, 16) => Common(h) # 0

\* The client has said TLS 1.3 before its first fault, or made the fault in
\* the fields TLS 1.3 fixes.
IsRefused(h) ==
    /\ HeaderOk(h)
    /\ \/ \E i \in 1..MaxExt :
              /\ i <= Len(h.exts) /\ Faulty(h, i)
              /\ \A j \in 1..(i - 1) : ~Faulty(h, j)
              /\ \E j \in 1..(i - 1) : h.exts[j].type = 43 /\ "yes" \in h.exts[j].says
       \/ Clean(h) /\ Says(h, 43, "yes") /\ (h.version # V12 \/ h.comp # <<0>>)

\* The parse serves the hellos it has all it needs of, refuses those that broke
\* the rules of TLS 1.3, and leaves every other, TLS 1.2 and unusual ones, to
\* mbedtls; the protocol is the one both sides speak.  Neither the order of the
\* extensions nor what follows the message changes that (viltrum_hs13_parse).
VerdictRight ==
    (part = "hello" /\ verdict # Parsing) =>
        /\ verdict = IF IsServed(offered) THEN Served ELSE IF IsRefused(offered) THEN Refused ELSE Mbedtls
        /\ verdict = Served => chosen = Common(offered)

\* The parse reads the whole message and nothing else, and understands it.
HelloRight == VerdictRight /\ ReadsInBounds

-----------------------------------------------------------------------------
(* Flights: chains at the edges of a record, keys of every size, a hello   *)
(* with and without a session id.                                          *)

Chains == {<<1>>, <<700, 0>>, <<16371>>, <<16372>>, <<16371, 16379>>, <<9000, 9000, 20000>>}
Flights ==
    [crt : Chains, sid_len : {0, 32}, alpn : 0..2,
     share : {Public(ClientPrivate), <<"small order">>},
     ok : BOOLEAN, sig_len : {256, 512, 520}, cap : {0, 70000}]
OneFlight == CHOOSE f \in Flights : f.ok

-----------------------------------------------------------------------------
\* Mutable state of the parts this behaviour is not about stays at its start.
SupportInit ==
    /\ part \in Parts
    /\ offered \in IF part = "hello" THEN Hello \cup Headers ELSE {Model1}
    /\ \E junk \in (IF part = "hello" THEN Follows ELSE {<<>>}),
          listener \in (IF part = "hello" THEN BOOLEAN ELSE {FALSE}) :
           ParseInit(Encode(offered) \o junk, Len(Encode(offered)), listener)
    /\ FlightInit(IF part = "flight" THEN Flights ELSE {OneFlight})
    /\ CertInit
    /\ FileInit /\ (part = "files" \/ (knows_ino /\ inodes[1].size = Min(Sizes)))
    /\ WaitInit /\ (part = "wait" \/ (has_pwait2 /\ due = [w \in Waiters |-> NoTimer]))
    /\ HeapInit

HelloPart ==
    /\ part = "hello" /\ HelloNext
    /\ UNCHANGED <<part, offered, flightVars, certVars, fileVars, waitVars, heapVars>>
FlightPart ==
    /\ part = "flight" /\ FlightNext
    /\ UNCHANGED <<part, offered, helloVars, certVars, fileVars, waitVars, heapVars>>
CertPart ==
    /\ part = "certs" /\ CertNext
    /\ UNCHANGED <<part, offered, helloVars, flightVars, fileVars, waitVars, heapVars>>
FilePart ==
    /\ part = "files" /\ FileNext
    /\ UNCHANGED <<part, offered, helloVars, flightVars, certVars, waitVars, heapVars>>
WaitPart ==
    /\ part = "wait" /\ WaitNext
    /\ UNCHANGED <<part, offered, helloVars, flightVars, certVars, fileVars, heapVars>>
HeapPart ==
    /\ part = "heap" /\ HeapNext
    /\ UNCHANGED <<part, offered, helloVars, flightVars, certVars, fileVars, waitVars>>
SupportNext == HelloPart \/ FlightPart \/ CertPart \/ FilePart \/ WaitPart \/ HeapPart

supportVars == <<part, offered, helloVars, flightVars, certVars, fileVars, waitVars, heapVars>>

\* sweep runs once a second: reload is called again and again, and returns.
ReloadRuns ==
    /\ part = "certs" /\ Reload
    /\ UNCHANGED <<part, offered, helloVars, flightVars, fileVars, waitVars, heapVars>>
SupportSpec == SupportInit /\ [][SupportNext]_supportVars /\ WF_supportVars(ReloadRuns)
=============================================================================
