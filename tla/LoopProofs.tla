----------------------------- MODULE LoopProofs -----------------------------
(***************************************************************************)
(* Proofs about Loop, for any number of workers, descriptors, listeners    *)
(* and connections.                                                        *)
(***************************************************************************)
EXTENDS Loop, TLAPS

Socks == [owner : Workers \cup {Nobody}, id : Nat, hup : BOOLEAN, in : BOOLEAN]
Places == Returns \cup {"add", "setup", "undo", "drop", "release", "read",
                        "handshake", "hs", "gone"}

\* The descriptors of a worker: those of its connections, the one accept_all has,
\* and the one it reads from.
FdInv ==
    \A w \in Workers :
        /\ \A fd \in Fds : Here(w, fd) => sock[fd].owner = w
        /\ pc[w] \in {"add", "setup", "undo", "drop"} =>
              loop[w].fd \in Fds /\ sock[loop[w].fd].owner = w /\ ~Here(w, loop[w].fd)
        /\ pc[w] \in {"read", "handshake"} => loop[w].fd \in Fds /\ Here(w, loop[w].fd)

\* A generation is not given twice.
GenInv == \A w \in Workers, fd \in Fds : conns[w][fd].gen <= loop[w].gen

\* An id whose generation its descriptor has means the connection that is there.
IdOK(id) == id.gen <= loop[id.w].gen /\ (Names(id.w, id) => sock[id.fd].id = id.for)

\* Every id anywhere does, and those of a worker are its own.
IdInv ==
    /\ \A id \in ids : IdOK(id)
    /\ \A w \in Workers :
          \A id \in inbox[w] \cup loop[w].timers \cup loop[w].posts : id.w = w /\ IdOK(id)

\* A handshake that waits for its turn is that of a connection, and in the queue
\* ahead of hs_head.
QueueInv ==
    \A w \in Workers, fd \in Fds :
        conns[w][fd].hs_queued =>
            /\ Here(w, fd)
            /\ \E i \in loop[w].hs_head + 1 .. Len(loop[w].hs) : loop[w].hs[i] = fd

IInv ==
    /\ TypeOK /\ FdInv /\ GenInv /\ IdInv /\ QueueInv /\ NoListenerLost
    /\ RightConnection

\* TypeOK in its parts.
KernelType ==
    /\ sock \in [Fds -> Socks]
    /\ clients \in Nat /\ sends \in Nat /\ active \in Int /\ stop \in BOOLEAN
    /\ backlog \in [Workers -> [Listeners -> Seq(Nat)]]
PcType == pc \in [Workers -> Places]
ConnType == conns \in [Workers -> [Fds -> Conns]]
GoodLoops == {lp \in Loops : lp.hs_head <= Len(lp.hs)}
LoopType == loop \in [Workers -> GoodLoops]
BoxType == inbox \in [Workers -> SUBSET Ids] /\ ids \subseteq Ids
WrongType == wrong \subseteq {"timer", "post", "hup"}

\* The numbers the constants are.
LEMMA Bounds ==
    /\ 0 \in Nat /\ 0 \in Int /\ 1 \in Int /\ 0 <= 0 /\ 0 <= Len(<<>>)
    /\ <<>> \in Seq(Fds) /\ <<>> \in Seq(Nat)
    /\ MaxFd \in Int /\ 0 \in 0 .. MaxFd /\ 0 \notin Fds
    /\ MaxConns \in Nat
    /\ \A n \in Int : n > MaxConns <=> ~(n <= MaxConns)
    /\ \A n \in Int : n + 1 \in Int
BY LoopAssumption DEF LoopAssumption, Fds

\* The parts make TypeOK.
LEMMA TypeParts == TypeOK <=> KernelType /\ PcType /\ ConnType /\ LoopType /\ BoxType /\ WrongType
<1>1. LoopType <=> loop \in [Workers -> Loops] /\ \A w \in Workers : loop[w].hs_head <= Len(loop[w].hs)
  BY DEF LoopType, GoodLoops
<1> QED
  BY ONLY <1>1, ZenonT(60) DEF TypeOK, KernelType, PcType, ConnType, BoxType, WrongType, Socks, Places

\* How a Loop may change and stay one.
LEMMA LoopFields ==
    ASSUME NEW lp \in GoodLoops
    PROVE  /\ \A b \in SUBSET Events : [lp EXCEPT !.batch = b] \in GoodLoops
           /\ \A l \in Listeners : [lp EXCEPT !.lst = l] \in GoodLoops
           /\ \A fd \in 0 .. MaxFd : [lp EXCEPT !.fd = fd] \in GoodLoops
           /\ \A r \in Returns : [lp EXCEPT !.ret = r] \in GoodLoops
           /\ \A g \in Nat : [lp EXCEPT !.gen = g] \in GoodLoops
           /\ \A t \in SUBSET Ids : [lp EXCEPT !.timers = t] \in GoodLoops
           /\ \A t \in SUBSET Ids : [lp EXCEPT !.posts = t] \in GoodLoops
           /\ \A fd \in Fds : [lp EXCEPT !.hs = Append(@, fd)] \in GoodLoops
           /\ \A h \in Nat : h <= Len(lp.hs) => [lp EXCEPT !.hs_head = h] \in GoodLoops
           /\ [lp EXCEPT !.hs = <<>>, !.hs_head = 0] \in GoodLoops
           /\ \A s \in SUBSET Listeners, b \in BOOLEAN :
                 [lp EXCEPT !.polled = s, !.paused = b] \in GoodLoops
<1>1. lp \in Loops /\ lp.hs_head <= Len(lp.hs) /\ lp.hs \in Seq(Fds)
  BY ZenonT(60) DEF GoodLoops, Loops
<1>2. \A b \in SUBSET Events : [lp EXCEPT !.batch = b] \in GoodLoops
  BY <1>1, ZenonT(60) DEF GoodLoops, Loops
<1>3. \A l \in Listeners : [lp EXCEPT !.lst = l] \in GoodLoops
  BY <1>1, ZenonT(60) DEF GoodLoops, Loops
<1>4. \A fd \in 0 .. MaxFd : [lp EXCEPT !.fd = fd] \in GoodLoops
  BY <1>1, ZenonT(60) DEF GoodLoops, Loops
<1>5. \A r \in Returns : [lp EXCEPT !.ret = r] \in GoodLoops
  BY <1>1, ZenonT(60) DEF GoodLoops, Loops
<1>6. \A g \in Nat : [lp EXCEPT !.gen = g] \in GoodLoops
  BY <1>1, ZenonT(60) DEF GoodLoops, Loops
<1>7. \A t \in SUBSET Ids : [lp EXCEPT !.timers = t] \in GoodLoops
  BY <1>1, ZenonT(60) DEF GoodLoops, Loops
<1>8. \A t \in SUBSET Ids : [lp EXCEPT !.posts = t] \in GoodLoops
  BY <1>1, ZenonT(60) DEF GoodLoops, Loops
<1>9. \A fd \in Fds : [lp EXCEPT !.hs = Append(@, fd)] \in GoodLoops
  <2>1. lp.hs_head \in Nat
    BY <1>1, ZenonT(60) DEF Loops
  <2>2. ASSUME NEW fd \in Fds
        PROVE  Append(lp.hs, fd) \in Seq(Fds) /\ lp.hs_head <= Len(Append(lp.hs, fd))
    BY ONLY <1>1, <2>1, fd \in Fds
  <2> QED
    BY <1>1, <2>2, ZenonT(60) DEF GoodLoops, Loops
<1>10. \A h \in Nat : h <= Len(lp.hs) => [lp EXCEPT !.hs_head = h] \in GoodLoops
  BY <1>1, ZenonT(60) DEF GoodLoops, Loops
<1>11. [lp EXCEPT !.hs = <<>>, !.hs_head = 0] \in GoodLoops
  <2>1. <<>> \in Seq(Fds) /\ 0 <= Len(<<>>) /\ 0 \in Nat
    OBVIOUS
  <2> QED
    BY <1>1, <2>1, ZenonT(60) DEF GoodLoops, Loops
<1>12. \A s \in SUBSET Listeners, b \in BOOLEAN : [lp EXCEPT !.polled = s, !.paused = b] \in GoodLoops
  BY <1>1, ZenonT(60) DEF GoodLoops, Loops
<1> QED
  BY ONLY <1>2, <1>3, <1>4, <1>5, <1>6, <1>7, <1>8, <1>9, <1>10, <1>11, <1>12, ZenonT(60)

\* What a Loop's fields are.
LEMMA LoopHas ==
    ASSUME NEW lp \in GoodLoops
    PROVE  /\ lp.batch \in SUBSET Events /\ lp.lst \in Listeners /\ lp.fd \in 0 .. MaxFd
           /\ lp.ret \in Returns /\ lp.gen \in Nat /\ lp.timers \in SUBSET Ids
           /\ lp.hs \in Seq(Fds) /\ lp.hs_head \in Nat /\ lp.hs_head <= Len(lp.hs)
           /\ lp.polled \in SUBSET Listeners /\ lp.posts \in SUBSET Ids /\ lp.paused \in BOOLEAN
BY ZenonT(60) DEF GoodLoops, Loops

\* How a Conn may change and stay one.
LEMMA ConnFields ==
    ASSUME NEW k \in Conns
    PROVE  /\ k.gen \in Nat
           /\ \A b \in BOOLEAN : [k EXCEPT !.hs_queued = b] \in Conns
           /\ \A b \in BOOLEAN : [k EXCEPT !.waiting = b] \in Conns
           /\ \A p \in {"none", "fresh", "shake", "open"} : [k EXCEPT !.phase = p] \in Conns
BY ZenonT(60) DEF Conns

\* How a socket may change and stay one.
LEMMA SockFields ==
    ASSUME NEW k \in Socks
    PROVE  /\ \A b \in BOOLEAN : [k EXCEPT !.hup = b] \in Socks
           /\ \A b \in BOOLEAN : [k EXCEPT !.in = b] \in Socks
           /\ k.owner \in Workers \cup {Nobody} /\ k.id \in Nat /\ k.hup \in BOOLEAN /\ k.in \in BOOLEAN
BY ZenonT(60) DEF Socks

\* The first socket and the first Conn.
LEMMA FirstTypes == Unused \in Socks /\ NoConn \in Conns
<1>1. 0 \in Nat
  OBVIOUS
<1> QED
  BY <1>1, ZenonT(60) DEF Unused, NoConn, Socks, Conns, Nobody

\* Worker w goes on at p with its Loop lp, and nobody else's changes.
LEMMA GoStep ==
    ASSUME PcType, LoopType, NEW w \in Workers, NEW p \in Places, NEW lp \in GoodLoops,
           Go(w, p, lp)
    PROVE  /\ PcType' /\ LoopType'
           /\ pc'[w] = p /\ loop'[w] = lp
           /\ \A v \in Workers : v # w => pc'[v] = pc[v] /\ loop'[v] = loop[v]
BY ZenonT(60) DEF Go, Goto, PcType, LoopType

\* The same of pc alone.
LEMMA GotoStep ==
    ASSUME PcType, NEW w \in Workers, NEW p \in Places, Goto(w, p)
    PROVE  /\ PcType' /\ pc'[w] = p
           /\ \A v \in Workers : v # w => pc'[v] = pc[v]
BY ZenonT(60) DEF Goto, PcType

\* One connection of w changes.
LEMMA ConnStep ==
    ASSUME ConnType, NEW w \in Workers, NEW fd \in Fds, NEW k \in Conns,
           conns' = [conns EXCEPT ![w][fd] = k]
    PROVE  /\ ConnType' /\ conns'[w][fd] = k
           /\ \A v \in Workers, f \in Fds : v # w \/ f # fd => conns'[v][f] = conns[v][f]
BY ZenonT(60) DEF ConnType

\* One socket changes.
LEMMA SockStep ==
    ASSUME NEW s0 \in [Fds -> Socks], NEW fd \in Fds, NEW k \in Socks, NEW s1,
           s1 = [s0 EXCEPT ![fd] = k]
    PROVE  /\ s1 \in [Fds -> Socks] /\ s1[fd] = k
           /\ \A f \in Fds : f # fd => s1[f] = s0[f]
BY ZenonT(60)

\* Loop.close of the connection on fd of w.
LEMMA CloseStep ==
    ASSUME sock \in [Fds -> Socks], PcType, LoopType, ConnType,
           NEW w \in Workers, NEW fd \in Fds, NEW p \in Returns, NEW lp \in GoodLoops,
           CloseConn(w, fd, p, lp)
    PROVE  /\ sock' \in [Fds -> Socks] /\ PcType' /\ LoopType' /\ ConnType'
           /\ sock'[fd] = Unused /\ \A f \in Fds : f # fd => sock'[f] = sock[f]
           /\ conns'[w][fd] = NoConn
           /\ \A v \in Workers, f \in Fds : v # w \/ f # fd => conns'[v][f] = conns[v][f]
           /\ pc'[w] = IF Counted THEN "release" ELSE p
           /\ loop'[w] = [lp EXCEPT !.ret = p]
           /\ \A v \in Workers : v # w => pc'[v] = pc[v] /\ loop'[v] = loop[v]
<1>1. [lp EXCEPT !.ret = p] \in GoodLoops
  BY LoopFields, ZenonT(60)
<1>2. (IF Counted THEN "release" ELSE p) \in Places
  BY ZenonT(60) DEF Places
<1>3. sock' = [sock EXCEPT ![fd] = Unused] /\ conns' = [conns EXCEPT ![w][fd] = NoConn]
      /\ Go(w, IF Counted THEN "release" ELSE p, [lp EXCEPT !.ret = p])
  BY ZenonT(60) DEF CloseConn
<1>4. /\ PcType' /\ LoopType'
      /\ pc'[w] = (IF Counted THEN "release" ELSE p) /\ loop'[w] = [lp EXCEPT !.ret = p]
      /\ \A v \in Workers : v # w => pc'[v] = pc[v] /\ loop'[v] = loop[v]
  BY <1>1, <1>2, <1>3, GoStep, ZenonT(60)
<1>5. /\ ConnType' /\ conns'[w][fd] = NoConn
      /\ \A v \in Workers, f \in Fds : v # w \/ f # fd => conns'[v][f] = conns[v][f]
  BY <1>3, FirstTypes, ConnStep, ZenonT(180)
<1>6. /\ sock' \in [Fds -> Socks] /\ sock'[fd] = Unused
      /\ \A f \in Fds : f # fd => sock'[f] = sock[f]
  BY <1>3, FirstTypes, SockStep, ZenonT(60)
<1> QED
  BY ONLY <1>4, <1>5, <1>6, ZenonT(60)
-----------------------------------------------------------------------------
(* What the steps of a worker do, in the terms of the invariants.          *)

\* The stages of Slots.
Staged == {"add", "setup", "undo", "drop", "release"}

\* The types after a step.
Typed == KernelType' /\ PcType' /\ ConnType' /\ LoopType'

\* The other workers stay where they are.
OthersStay(w) ==
    \A v \in Workers : v # w =>
        pc'[v] = pc[v] /\ loop'[v] = loop[v] /\ \A f \in Fds : conns'[v][f] = conns[v][f]

\* The queue of handshakes and the listeners of w stay as they are.
QueueStays(w) ==
    /\ loop'[w].hs = loop[w].hs /\ loop'[w].hs_head = loop[w].hs_head
    /\ \A f \in Fds : conns'[w][f].hs_queued => conns[w][f].hs_queued
PollStays(w) == loop'[w].polled = loop[w].polled /\ loop'[w].paused = loop[w].paused

\* A step of w in which no connection comes or goes.
Quiet(w) ==
    /\ \A f \in Fds : sock'[f].owner = sock[f].owner /\ sock'[f].id = sock[f].id
    /\ \A f \in Fds : /\ conns'[w][f].gen = conns[w][f].gen
                      /\ conns'[w][f].phase = "none" <=> conns[w][f].phase = "none"
    /\ pc[w] \notin Staged /\ pc'[w] \notin Staged
    /\ pc'[w] \in {"read", "handshake"} =>
          loop'[w].fd \in Fds /\ conns[w][loop'[w].fd].phase # "none"
    /\ loop'[w].gen = loop[w].gen
    /\ active' = active

\* A step of w that closes its connection on fd.
Closing(w, fd) ==
    /\ sock'[fd] = Unused /\ \A f \in Fds : f # fd => sock'[f] = sock[f]
    /\ conns'[w][fd] = NoConn /\ \A f \in Fds : f # fd => conns'[w][f] = conns[w][f]
    /\ conns[w][fd].phase # "none"
    /\ pc[w] \notin Staged /\ pc'[w] \in Returns \cup {"release"} /\ (pc'[w] = "release" <=> Counted)
    /\ loop'[w].gen = loop[w].gen
    /\ active' = active

\* A step of w alone.
LEMMA StepEffect ==
    ASSUME KernelType, PcType, LoopType, ConnType, NEW w \in Workers, NEW p \in Places \ Staged,
           NEW lp \in GoodLoops, Step(w, p, lp), pc[w] \notin Staged,
           lp.gen = loop[w].gen, p \notin {"read", "handshake"}
    PROVE  /\ Typed /\ OthersStay(w) /\ Quiet(w)
           /\ loop'[w] = lp /\ pc'[w] = p
           /\ UNCHANGED <<inbox, ids, wrong, conns, sock>>
<1>1. Go(w, p, lp) /\ UNCHANGED <<kernel, active, stop, conns, others, wrong>>
  BY ZenonT(60) DEF Step
<1>2. UNCHANGED <<sock, clients, backlog, sends, active, stop, conns, inbox, ids, wrong>>
  BY <1>1, ZenonT(60) DEF kernel, others
<1>3. /\ PcType' /\ LoopType'
      /\ pc'[w] = p /\ loop'[w] = lp
      /\ \A v \in Workers : v # w => pc'[v] = pc[v] /\ loop'[v] = loop[v]
  BY <1>1, GoStep, ZenonT(60)
<1>4. KernelType' /\ ConnType'
  BY <1>2, ZenonT(60) DEF KernelType, ConnType
<1>5. OthersStay(w)
  BY <1>2, <1>3, ZenonT(60) DEF OthersStay
<1>6. Quiet(w)
  BY <1>2, <1>3, ZenonT(60) DEF Quiet
<1> QED
  BY <1>2, <1>3, <1>4, <1>5, <1>6, ZenonT(60) DEF Typed

\* Two Loops differ only in what a call works on: its batch, listener, descriptor
\* and return.
Same(lq, lp) ==
    /\ lq.gen = lp.gen /\ lq.hs = lp.hs /\ lq.hs_head = lp.hs_head
    /\ lq.polled = lp.polled /\ lq.paused = lp.paused
    /\ lq.timers = lp.timers /\ lq.posts = lp.posts

\* The updates that leave the rest alone, and what the others change.
LEMMA LoopReads ==
    ASSUME NEW lp \in GoodLoops
    PROVE  /\ \A b : Same([lp EXCEPT !.batch = b], lp)
           /\ \A b : Same([lp EXCEPT !.lst = b], lp)
           /\ \A b : Same([lp EXCEPT !.ret = b], lp)
           /\ \A b : Same([lp EXCEPT !.fd = b], lp) /\ [lp EXCEPT !.fd = b].fd = b
           /\ \A b : /\ [lp EXCEPT !.posts = b].posts = b
                     /\ Same([[lp EXCEPT !.posts = b] EXCEPT !.posts = lp.posts], lp)
BY ZenonT(60) DEF GoodLoops, Loops, Same

\* What epoll_wait reports are events.
LEMMA ReadyType ==
    ASSUME KernelType, LoopType, NEW w \in Workers
    PROVE  Ready(w) \in SUBSET Events
<1>1. loop[w].polled \in SUBSET Listeners
  BY LoopHas, ZenonT(60) DEF LoopType
<1>2. \A fd \in Fds : sock[fd].id \in Nat
  BY SockFields, ZenonT(60) DEF KernelType
<1>3. Event("inbox", "", 0, 0) \in Events
  BY ZenonT(60) DEF Event, Events
<1>4. \A l \in Listeners : Event("accept", l, 0, 0) \in Events
  BY ZenonT(60) DEF Event, Events
<1>5. \A fd \in Fds, what \in {"hup", "in"} : Event(what, "", fd, sock[fd].id) \in Events
  BY <1>2, ZenonT(60) DEF Event, Events
<1>6. \A fd \in Fds : Event(IF sock[fd].hup THEN "hup" ELSE "in", "", fd, sock[fd].id) \in Events
  BY <1>5, ZenonT(60)
<1>7. ASSUME NEW e \in Ready(w) PROVE e \in Events
  <2>1. CASE e \in (IF inbox[w] # {} THEN {Event("inbox", "", 0, 0)} ELSE {})
    BY <2>1, <1>3, ZenonT(60)
  <2>2. CASE e \in {Event("accept", l, 0, 0) : l \in {k \in loop[w].polled : backlog[w][k] # <<>>}}
    BY <2>2, <1>1, <1>4, ZenonT(60)
  <2>3. CASE e \in {Event(IF sock[fd].hup THEN "hup" ELSE "in", "", fd, sock[fd].id) :
                      fd \in {f \in Fds : Here(w, f) /\ (sock[f].hup \/ sock[f].in)}}
    BY <2>3, <1>6, ZenonT(60)
  <2> QED
    BY <2>1, <2>2, <2>3, ZenonT(60) DEF Ready
<1> QED
  BY <1>7, ZenonT(60)

\* A step of w alone that leaves what only the loop looks at.
LEMMA PlainEffect ==
    ASSUME KernelType, PcType, LoopType, ConnType, NEW w \in Workers, NEW p \in Places \ Staged,
           NEW lp \in GoodLoops, Step(w, p, lp), pc[w] \notin Staged,
           Same(lp, loop[w]), p \notin {"read", "handshake"}
    PROVE  /\ Typed /\ OthersStay(w) /\ Quiet(w) /\ QueueStays(w) /\ PollStays(w)
           /\ loop'[w].timers = loop[w].timers /\ loop'[w].posts = loop[w].posts
           /\ UNCHANGED <<inbox, ids, wrong>>
<1>1. /\ Typed /\ OthersStay(w) /\ Quiet(w)
      /\ loop'[w] = lp
      /\ UNCHANGED <<inbox, ids, wrong, conns, sock>>
  BY StepEffect, ZenonT(60) DEF Same
<1> QED
  BY <1>1, ZenonT(60) DEF QueueStays, PollStays, Same
-----------------------------------------------------------------------------
(* What these effects preserve.                                            *)

\* The fields of a Conn that is not there.
LEMMA NoConnFields ==
    NoConn.phase = "none" /\ NoConn.gen = 0 /\ NoConn.hs_queued = FALSE /\ NoConn.waiting = FALSE
BY DEF NoConn

\* The descriptors, when no connection comes or goes.
LEMMA FdQuiet ==
    ASSUME FdInv, NEW w \in Workers, OthersStay(w), Quiet(w)
    PROVE  FdInv'
<1> SUFFICES ASSUME NEW v \in Workers
             PROVE  /\ \A f \in Fds : conns'[v][f].phase # "none" => sock'[f].owner = v
                    /\ pc'[v] \in {"add", "setup", "undo", "drop"} =>
                          loop'[v].fd \in Fds /\ sock'[loop'[v].fd].owner = v
                          /\ ~(conns'[v][loop'[v].fd].phase # "none")
                    /\ pc'[v] \in {"read", "handshake"} =>
                          loop'[v].fd \in Fds /\ conns'[v][loop'[v].fd].phase # "none"
  BY ZenonT(60) DEF FdInv, Here
<1>0. /\ pc[v] \in {"add", "setup", "undo", "drop"} =>
            loop[v].fd \in Fds /\ sock[loop[v].fd].owner = v /\ conns[v][loop[v].fd].phase = "none"
      /\ pc[v] \in {"read", "handshake"} => loop[v].fd \in Fds /\ conns[v][loop[v].fd].phase # "none"
  BY ZenonT(60) DEF FdInv, Here
<1>1. \A f \in Fds : conns[v][f].phase # "none" => sock[f].owner = v
  BY ZenonT(60) DEF FdInv, Here
<1>2. CASE v = w
  <2>1. pc'[v] \notin {"add", "setup", "undo", "drop"}
    BY <1>2, ZenonT(60) DEF Quiet, Staged
  <2> QED
    BY <1>1, <1>2, <2>1, ZenonT(60) DEF Quiet
<1>3. CASE v # w
  <2>1. /\ pc'[v] = pc[v] /\ loop'[v] = loop[v] /\ \A f \in Fds : conns'[v][f] = conns[v][f]
        /\ \A f \in Fds : sock'[f].owner = sock[f].owner
    BY <1>3, ZenonT(60) DEF OthersStay, Quiet
  <2> QED
    BY ONLY <1>0, <1>1, <2>1, ZenonT(60)
<1> QED
  BY <1>2, <1>3

\* The descriptors, when w closes the connection on fd.
LEMMA FdClosing ==
    ASSUME FdInv, NEW w \in Workers, NEW fd \in Fds, OthersStay(w), Closing(w, fd)
    PROVE  FdInv'
<1> SUFFICES ASSUME NEW v \in Workers
             PROVE  /\ \A f \in Fds : conns'[v][f].phase # "none" => sock'[f].owner = v
                    /\ pc'[v] \in {"add", "setup", "undo", "drop"} =>
                          loop'[v].fd \in Fds /\ sock'[loop'[v].fd].owner = v
                          /\ ~(conns'[v][loop'[v].fd].phase # "none")
                    /\ pc'[v] \in {"read", "handshake"} =>
                          loop'[v].fd \in Fds /\ conns'[v][loop'[v].fd].phase # "none"
  BY ZenonT(60) DEF FdInv, Here
<1>0. /\ pc[v] \in {"add", "setup", "undo", "drop"} =>
            loop[v].fd \in Fds /\ sock[loop[v].fd].owner = v /\ conns[v][loop[v].fd].phase = "none"
      /\ pc[v] \in {"read", "handshake"} => loop[v].fd \in Fds /\ conns[v][loop[v].fd].phase # "none"
  BY ZenonT(60) DEF FdInv, Here
<1>1. \A f \in Fds : conns[v][f].phase # "none" => sock[f].owner = v
  BY ZenonT(60) DEF FdInv, Here
<1>2. CASE v = w
  <2>1. pc'[v] \notin {"add", "setup", "undo", "drop"} /\ pc'[v] \notin {"read", "handshake"}
    BY <1>2, ZenonT(60) DEF Closing, Returns
  <2>2. conns'[v][fd].phase = "none"
    BY <1>2, NoConnFields, ZenonT(60) DEF Closing
  <2>3. \A f \in Fds : f # fd => conns'[v][f] = conns[v][f] /\ sock'[f] = sock[f]
    BY <1>2, ZenonT(60) DEF Closing
  <2> QED
    BY ONLY <1>1, <2>1, <2>2, <2>3, ZenonT(60)
<1>3. CASE v # w
  <2>1. /\ pc'[v] = pc[v] /\ loop'[v] = loop[v] /\ \A f \in Fds : conns'[v][f] = conns[v][f]
        /\ \A f \in Fds : f # fd => sock'[f] = sock[f]
    BY <1>3, ZenonT(60) DEF OthersStay, Closing
  <2>2. sock[fd].owner = w
    BY ZenonT(60) DEF FdInv, Here, Closing
  <2>3. conns[v][fd].phase = "none"
    BY <1>1, <2>2, <1>3, ZenonT(60)
  <2>4. pc[v] \in {"add", "setup", "undo", "drop"} => loop[v].fd # fd
    BY ONLY <1>0, <1>3, <2>2, ZenonT(60)
  <2> QED
    BY ONLY <1>0, <1>1, <2>1, <2>3, <2>4, ZenonT(60)
<1> QED
  BY <1>2, <1>3

\* The generations.
LEMMA GenKept ==
    ASSUME GenInv, LoopType, NEW w \in Workers, OthersStay(w),
           Quiet(w) \/ \E fd \in Fds : Closing(w, fd)
    PROVE  GenInv'
<1> SUFFICES ASSUME NEW v \in Workers, NEW f \in Fds PROVE conns'[v][f].gen <= loop'[v].gen
  BY ZenonT(60) DEF GenInv
<1>1. conns[v][f].gen <= loop[v].gen
  BY ZenonT(60) DEF GenInv
<1>2. CASE v # w
  BY <1>1, <1>2, ZenonT(60) DEF OthersStay
<1>3. CASE v = w
  <2>1. loop'[v].gen = loop[v].gen /\ loop[v].gen \in Nat
    BY <1>3, LoopHas, ZenonT(60) DEF Quiet, Closing, LoopType
  <2>2. conns'[v][f].gen = conns[v][f].gen \/ conns'[v][f].gen = 0
    BY <1>3, NoConnFields, ZenonT(60) DEF Quiet, Closing
  <2> QED
    BY ONLY <1>1, <2>1, <2>2
<1> QED
  BY <1>2, <1>3

\* An id that means the right connection goes on doing so.
LEMMA IdKept ==
    ASSUME FdInv, NEW w \in Workers, OthersStay(w), NEW id \in Ids, IdOK(id),
           Quiet(w) \/ \E fd \in Fds : Closing(w, fd)
    PROVE  IdOK(id)'
<1>0. id.w \in Workers /\ id.fd \in Fds
  BY ZenonT(60) DEF Ids
<1>1. id.gen <= loop[id.w].gen
      /\ ((conns[id.w][id.fd].phase # "none" /\ conns[id.w][id.fd].gen = id.gen)
             => sock[id.fd].id = id.for)
  BY ZenonT(60) DEF IdOK, Names, Here
<1>2. loop'[id.w].gen = loop[id.w].gen
  BY <1>0, ZenonT(60) DEF OthersStay, Quiet, Closing
<1>3. ASSUME Quiet(w) PROVE IdOK(id)'
  <2>1. /\ sock'[id.fd].id = sock[id.fd].id
        /\ conns'[id.w][id.fd].gen = conns[id.w][id.fd].gen
        /\ conns'[id.w][id.fd].phase = "none" <=> conns[id.w][id.fd].phase = "none"
    BY <1>0, <1>3, ZenonT(60) DEF OthersStay, Quiet
  <2> QED
    BY ONLY <1>1, <1>2, <2>1, ZenonT(60) DEF IdOK, Names, Here
<1>4. ASSUME NEW fd \in Fds, Closing(w, fd)
      PROVE  IdOK(id)'
  <2>1. CASE fd = id.fd /\ id.w = w
    <3>1. conns'[id.w][id.fd].phase = "none"
      BY <1>4, <2>1, NoConnFields, ZenonT(60) DEF Closing
    <3> QED
      BY ONLY <1>1, <1>2, <3>1, ZenonT(60) DEF IdOK, Names, Here
  <2>2. CASE fd # id.fd
    <3>1. sock'[id.fd] = sock[id.fd] /\ conns'[id.w][id.fd] = conns[id.w][id.fd]
      BY <1>0, <1>4, <2>2, ZenonT(60) DEF Closing, OthersStay
    <3> QED
      BY <1>1, <1>2, <3>1, ZenonT(60) DEF IdOK, Names, Here
  <2>3. CASE fd = id.fd /\ id.w # w
    <3>1. sock[fd].owner = w
      BY <1>4, ZenonT(60) DEF FdInv, Here, Closing
    <3>2. conns[id.w][fd].phase = "none"
      BY <3>1, <1>0, <1>4, <2>3, ZenonT(60) DEF FdInv, Here
    <3>3. conns'[id.w][fd] = conns[id.w][fd]
      BY <1>0, <2>3, ZenonT(60) DEF OthersStay
    <3> QED
      BY <1>1, <1>2, <2>3, <3>2, <3>3, ZenonT(60) DEF IdOK, Names, Here
  <2> QED
    BY <2>1, <2>2, <2>3
<1> QED
  BY <1>3, <1>4, ZenonT(60)

\* No id is new; what was posted to w may have been taken by it.
NamesShrink(w) ==
    /\ inbox' \in [Workers -> SUBSET Ids] /\ ids' = ids
    /\ \A v \in Workers : inbox'[v] \subseteq inbox[v]
    /\ loop'[w].timers \subseteq loop[w].timers
    /\ loop'[w].posts \subseteq loop[w].posts \cup inbox[w]

\* Nothing wrong but hang-ups.
StaysRight == wrong' \subseteq {"timer", "post", "hup"} /\ wrong' \cap {"timer", "post"} = {}

\* A step that disturbs neither the queue nor the listeners nor the ids.
Calm(w) == Typed /\ OthersStay(w) /\ QueueStays(w) /\ PollStays(w) /\ NamesShrink(w) /\ StaysRight

\* Every id after the step was one before, or could have been.
OldNames ==
    /\ \A id \in ids' : id \in Ids /\ IdOK(id)
    /\ \A v \in Workers : \A id \in inbox'[v] \cup loop'[v].timers \cup loop'[v].posts :
          id \in Ids /\ id.w = v /\ IdOK(id)

\* Then the ids mean the right connections after it.
LEMMA IdStep ==
    ASSUME FdInv, OldNames, NEW w \in Workers, OthersStay(w),
           Quiet(w) \/ \E fd \in Fds : Closing(w, fd)
    PROVE  IdInv'
<1>1. \A id \in Ids : IdOK(id) => IdOK(id)'
  BY IdKept, ZenonT(60)
<1>2. \A id \in ids' : IdOK(id)'
  BY <1>1, ZenonT(60) DEF OldNames
<1>3. \A v \in Workers : \A id \in inbox'[v] \cup loop'[v].timers \cup loop'[v].posts : id.w = v /\ IdOK(id)'
  BY <1>1, ZenonT(60) DEF OldNames
<1> QED
  BY <1>2, <1>3, ZenonT(60) DEF IdInv

\* Ids that only go away are such.
LEMMA ShrinkOld ==
    ASSUME IdInv, BoxType, LoopType, NEW w \in Workers, OthersStay(w), NamesShrink(w)
    PROVE  OldNames
<1>1. \A id \in ids : id \in Ids /\ IdOK(id)
  BY ZenonT(60) DEF IdInv, BoxType
<1>2. \A v \in Workers : loop[v].timers \subseteq Ids /\ loop[v].posts \subseteq Ids
  BY LoopHas, ZenonT(60) DEF LoopType
<1>3. \A v \in Workers : inbox[v] \subseteq Ids
  BY ZenonT(60) DEF BoxType
<1>4. \A v \in Workers : \A id \in inbox[v] \cup loop[v].timers \cup loop[v].posts :
          id \in Ids /\ id.w = v /\ IdOK(id)
  BY <1>2, <1>3, ZenonT(60) DEF IdInv
<1>5. ASSUME NEW v \in Workers
      PROVE  inbox'[v] \cup loop'[v].timers \cup loop'[v].posts
                \subseteq inbox[v] \cup loop[v].timers \cup loop[v].posts
  <2>1. CASE v = w
    BY <2>1, ZenonT(60) DEF NamesShrink
  <2>2. CASE v # w
    BY <2>2, ZenonT(60) DEF NamesShrink, OthersStay
  <2> QED
    BY <2>1, <2>2
<1>6. ids' = ids
  BY ZenonT(60) DEF NamesShrink
<1> QED
  BY ONLY <1>1, <1>4, <1>5, <1>6, ZenonT(60) DEF OldNames

\* The queue of handshakes, when the step leaves it.
LEMMA QueueKept ==
    ASSUME QueueInv, NEW w \in Workers, OthersStay(w), QueueStays(w),
           Quiet(w) \/ \E fd \in Fds : Closing(w, fd)
    PROVE  QueueInv'
<1> SUFFICES ASSUME NEW v \in Workers, NEW f \in Fds, conns'[v][f].hs_queued
             PROVE  /\ conns'[v][f].phase # "none"
                    /\ \E i \in loop'[v].hs_head + 1 .. Len(loop'[v].hs) : loop'[v].hs[i] = f
  BY ZenonT(60) DEF QueueInv, Here
<1>1. loop'[v].hs = loop[v].hs /\ loop'[v].hs_head = loop[v].hs_head /\ conns[v][f].hs_queued
  BY ZenonT(60) DEF OthersStay, QueueStays
<1>2. /\ conns[v][f].phase # "none"
      /\ \E i \in loop[v].hs_head + 1 .. Len(loop[v].hs) : loop[v].hs[i] = f
  BY <1>1, ZenonT(60) DEF QueueInv, Here
<1>3. conns'[v][f].phase # "none"
  <2>1. CASE v # w
    BY <1>2, <2>1, ZenonT(60) DEF OthersStay
  <2>2. CASE v = w /\ Quiet(w)
    BY <1>2, <2>2, ZenonT(60) DEF Quiet
  <2>3. ASSUME NEW fd \in Fds, Closing(w, fd), v = w PROVE conns'[v][f].phase # "none"
    BY <1>2, <2>3, NoConnFields, ZenonT(60) DEF Closing
  <2> QED
    BY <2>1, <2>2, <2>3, ZenonT(60)
<1> QED
  BY ONLY <1>1, <1>2, <1>3, ZenonT(60)

\* The listeners, when the step leaves them.
LEMMA PollKept ==
    ASSUME NoListenerLost, NEW w \in Workers, OthersStay(w), PollStays(w)
    PROVE  NoListenerLost'
BY ZenonT(60) DEF NoListenerLost, OthersStay, PollStays

\* A step that says no more than that keeps every invariant.
LEMMA StepKeeps ==
    ASSUME IInv, NEW w \in Workers, Typed, OthersStay(w),
           Quiet(w) \/ \E fd \in Fds : Closing(w, fd),
           OldNames, BoxType', QueueInv', NoListenerLost', StaysRight
    PROVE  IInv'
<1>1. FdInv'
  BY FdQuiet, FdClosing, ZenonT(60) DEF IInv
<1>2. GenInv'
  BY GenKept, TypeParts, ZenonT(60) DEF IInv
<1>3. IdInv'
  BY IdStep, ZenonT(60) DEF IInv
<1>4. WrongType' /\ RightConnection'
  BY ZenonT(60) DEF StaysRight, WrongType, RightConnection
<1>5. TypeOK'
  <2>1. TypeOK' <=> KernelType' /\ PcType' /\ ConnType' /\ LoopType' /\ BoxType' /\ WrongType'
    BY TypeParts, PTL
  <2> QED
    BY <1>4, <2>1, ZenonT(60) DEF Typed
<1> QED
  BY <1>1, <1>2, <1>3, <1>4, <1>5, ZenonT(60) DEF IInv

\* A calm step keeps every invariant.
LEMMA CalmKeeps ==
    ASSUME IInv, NEW w \in Workers, Calm(w), Quiet(w) \/ \E fd \in Fds : Closing(w, fd)
    PROVE  IInv'
<1>1. FdInv /\ IdInv /\ QueueInv /\ NoListenerLost /\ BoxType /\ LoopType
  BY TypeParts, ZenonT(60) DEF IInv
<1>2. OldNames
  BY <1>1, ShrinkOld, ZenonT(60) DEF Calm
<1>3. QueueInv' /\ NoListenerLost'
  BY <1>1, QueueKept, PollKept, ZenonT(60) DEF Calm
<1>4. BoxType'
  BY <1>1, ZenonT(60) DEF BoxType, Calm, NamesShrink
<1> QED
  BY <1>2, <1>3, <1>4, StepKeeps, ZenonT(60) DEF Calm
-----------------------------------------------------------------------------
(* The steps in which no connection comes or goes.                         *)

\* A step of w alone that changes only what a call works on is calm.
LEMMA PlainCalm ==
    ASSUME IInv, NEW w \in Workers, NEW p \in Places \ Staged,
           NEW lp \in GoodLoops, Step(w, p, lp), pc[w] \notin Staged,
           Same(lp, loop[w]), p \notin {"read", "handshake"}
    PROVE  Calm(w) /\ Quiet(w)
<1>1. KernelType /\ PcType /\ ConnType /\ LoopType /\ BoxType /\ WrongType /\ RightConnection
  BY TypeParts, ZenonT(60) DEF IInv
<1>2. /\ Typed /\ OthersStay(w) /\ Quiet(w) /\ QueueStays(w) /\ PollStays(w)
      /\ loop'[w].timers = loop[w].timers /\ loop'[w].posts = loop[w].posts
      /\ UNCHANGED <<inbox, ids, wrong>>
  BY <1>1, PlainEffect, ZenonT(60)
<1>3. NamesShrink(w)
  BY <1>1, <1>2, ZenonT(60) DEF NamesShrink, BoxType
<1>4. StaysRight
  BY <1>1, <1>2, ZenonT(60) DEF StaysRight, WrongType, RightConnection
<1> QED
  BY <1>2, <1>3, <1>4, ZenonT(60) DEF Calm

\* The Loop with an event of its batch handled.
LEMMA HandledType ==
    ASSUME LoopType, NEW w \in Workers, NEW e \in loop[w].batch
    PROVE  /\ loop[w] \in GoodLoops /\ Handled(w, e) \in GoodLoops /\ Same(Handled(w, e), loop[w])
           /\ Handled(w, e).fd = loop[w].fd
           /\ e \in Events
<1>1. loop[w] \in GoodLoops /\ loop[w].batch \in SUBSET Events
  BY LoopHas, ZenonT(60) DEF LoopType
<1>2. loop[w].batch \ {e} \in SUBSET Events
  BY <1>1, ZenonT(60)
<1>3. Handled(w, e) \in GoodLoops
  BY <1>1, <1>2, LoopFields, ZenonT(60) DEF Handled
<1>4. Same(Handled(w, e), loop[w])
  BY <1>1, LoopReads, ZenonT(60) DEF Handled
<1>5. Handled(w, e).fd = loop[w].fd
  BY <1>1, ZenonT(60) DEF Handled, GoodLoops, Loops
<1> QED
  BY <1>1, <1>3, <1>4, <1>5, ZenonT(60)

\* epoll_wait, the ends of the parts of a turn, and events that concern no
\* connection.
LEMMA PlainActions ==
    ASSUME IInv, NEW w \in Workers,
           \/ Poll(w) \/ BatchEnd(w) \/ DrainEnd(w) \/ AcceptNone(w) \/ FireEnd(w)
           \/ SweepEnd(w) \/ WorkerEnd(w)
           \/ pc[w] = "batch" /\ \E e \in loop[w].batch : OnListener(w, e) \/ OnGone(w, e)
    PROVE  Calm(w) /\ Quiet(w)
<1>1. KernelType /\ LoopType /\ loop[w] \in GoodLoops
  BY TypeParts, ZenonT(60) DEF IInv, LoopType
<1>2. Same(loop[w], loop[w])
  BY ZenonT(60) DEF Same
<1>3. {"batch", "fire", "hs", "accept", "gone"} \subseteq (Places \ Staged) \ {"read", "handshake"}
  BY ZenonT(60) DEF Places, Returns, Staged
<1>4. {"top", "batch", "drain", "accept", "fire", "sweep"} \cap Staged = {}
  BY ZenonT(60) DEF Staged
<1>5. CASE Poll(w)
  <2>1. Ready(w) \in SUBSET Events
    BY <1>1, ReadyType
  <2>2. [loop[w] EXCEPT !.batch = Ready(w)] \in GoodLoops
    BY <1>1, <2>1, LoopFields, ZenonT(60)
  <2>3. Same([loop[w] EXCEPT !.batch = Ready(w)], loop[w])
    BY <1>1, LoopReads, ZenonT(60)
  <2> QED
    BY <1>3, <1>4, <1>5, <2>2, <2>3, PlainCalm, ZenonT(60) DEF Poll
<1>6. CASE BatchEnd(w)
  BY <1>1, <1>2, <1>3, <1>4, <1>6, PlainCalm, ZenonT(60) DEF BatchEnd
<1>7. CASE DrainEnd(w)
  BY <1>1, <1>2, <1>3, <1>4, <1>7, PlainCalm, ZenonT(60) DEF DrainEnd
<1>8. CASE AcceptNone(w)
  BY <1>1, <1>2, <1>3, <1>4, <1>8, PlainCalm, ZenonT(60) DEF AcceptNone
<1>9. CASE FireEnd(w)
  BY <1>1, <1>2, <1>3, <1>4, <1>9, PlainCalm, ZenonT(60) DEF FireEnd
<1>10. CASE SweepEnd(w)
  BY <1>1, <1>2, <1>3, <1>4, <1>10, PlainCalm, ZenonT(60) DEF SweepEnd
<1>11. CASE WorkerEnd(w)
  BY <1>1, <1>2, <1>3, <1>4, <1>11, PlainCalm, ZenonT(60) DEF WorkerEnd
<1>12. ASSUME NEW e \in loop[w].batch, pc[w] = "batch", OnListener(w, e)
       PROVE  Calm(w) /\ Quiet(w)
  <2>1. Handled(w, e) \in GoodLoops /\ Same(Handled(w, e), loop[w]) /\ e \in Events
    BY <1>1, HandledType, ZenonT(60)
  <2>2. e.lst \in Listeners
    <3>1. e.what = "accept"
      BY <1>12, ZenonT(60) DEF OnListener
    <3> QED
      BY <2>1, <3>1, ZenonT(60) DEF Events
  <2>3. [Handled(w, e) EXCEPT !.lst = e.lst] \in GoodLoops
    BY <2>1, <2>2, LoopFields, ZenonT(60)
  <2>4. Same([Handled(w, e) EXCEPT !.lst = e.lst], loop[w])
    BY <2>1, LoopReads, ZenonT(180) DEF Same
  <2> QED
    BY <1>3, <1>4, <1>12, <2>3, <2>4, PlainCalm, ZenonT(60) DEF OnListener
<1>13. ASSUME NEW e \in loop[w].batch, pc[w] = "batch", OnGone(w, e)
       PROVE  Calm(w) /\ Quiet(w)
  <2>1. Handled(w, e) \in GoodLoops /\ Same(Handled(w, e), loop[w])
    BY <1>1, HandledType, ZenonT(60)
  <2> QED
    BY <1>3, <1>4, <1>13, <2>1, PlainCalm, ZenonT(60) DEF OnGone
<1> QED
  BY <1>5, <1>6, <1>7, <1>8, <1>9, <1>10, <1>11, <1>12, <1>13, ZenonT(60)

\* Nobody's connections come or go, and those of the others stay as they are.
ConnsStay(w) ==
    /\ ConnType'
    /\ \A v \in Workers, f \in Fds : v # w => conns'[v][f] = conns[v][f]
    /\ \A f \in Fds : /\ conns'[w][f].gen = conns[w][f].gen
                      /\ conns'[w][f].phase = "none" <=> conns[w][f].phase = "none"
SocksStay ==
    /\ KernelType' /\ active' = active
    /\ \A f \in Fds : sock'[f].owner = sock[f].owner /\ sock'[f].id = sock[f].id

\* Two Loops differ only in their ids and in what a call works on.
Beside(lq, lp) ==
    /\ lq.gen = lp.gen /\ lq.hs = lp.hs /\ lq.hs_head = lp.hs_head
    /\ lq.polled = lp.polled /\ lq.paused = lp.paused

\* A Loop with fewer ids.
Fewer(lq, lp) ==
    /\ lq.gen = lp.gen /\ lq.hs = lp.hs /\ lq.hs_head = lp.hs_head
    /\ lq.polled = lp.polled /\ lq.paused = lp.paused
    /\ lq.timers \subseteq lp.timers /\ lq.posts \subseteq lp.posts

\* A step in which the connections stay is quiet.
LEMMA GoQuiet ==
    ASSUME PcType, LoopType, NEW w \in Workers,
           NEW p \in Places \ Staged, NEW lp \in GoodLoops, Go(w, p, lp), pc[w] \notin Staged,
           lp.gen = loop[w].gen,
           p \in {"read", "handshake"} => lp.fd \in Fds /\ conns[w][lp.fd].phase # "none",
           ConnsStay(w), SocksStay
    PROVE  Typed /\ OthersStay(w) /\ Quiet(w) /\ loop'[w] = lp /\ pc'[w] = p
<1>1. /\ PcType' /\ LoopType'
      /\ pc'[w] = p /\ loop'[w] = lp
      /\ \A v \in Workers : v # w => pc'[v] = pc[v] /\ loop'[v] = loop[v]
  BY GoStep, ZenonT(60)
<1>2. Typed
  BY <1>1, ZenonT(60) DEF Typed, ConnsStay, SocksStay
<1>3. OthersStay(w)
  BY <1>1, ZenonT(60) DEF OthersStay, ConnsStay
<1>4. Quiet(w)
  BY <1>1, ZenonT(60) DEF Quiet, ConnsStay, SocksStay
<1> QED
  BY <1>1, <1>2, <1>3, <1>4

\* It is calm when it also leaves the queue and gives nothing away.
LEMMA GoCalm ==
    ASSUME IInv, NEW w \in Workers,
           NEW p \in Places \ Staged, NEW lp \in GoodLoops, Go(w, p, lp), pc[w] \notin Staged,
           Fewer(lp, loop[w]),
           p \in {"read", "handshake"} => lp.fd \in Fds /\ conns[w][lp.fd].phase # "none",
           ConnsStay(w), SocksStay,
           \A f \in Fds : conns'[w][f].hs_queued => conns[w][f].hs_queued,
           UNCHANGED <<inbox, ids>>, StaysRight
    PROVE  Calm(w) /\ Quiet(w)
<1>1. PcType /\ LoopType /\ BoxType
  BY TypeParts, ZenonT(60) DEF IInv
<1>2. Typed /\ OthersStay(w) /\ Quiet(w) /\ loop'[w] = lp
  BY <1>1, GoQuiet, ZenonT(60) DEF Fewer
<1>3. QueueStays(w) /\ PollStays(w)
  BY <1>2, ZenonT(60) DEF QueueStays, PollStays, Fewer
<1>4. NamesShrink(w)
  BY <1>1, <1>2, ZenonT(60) DEF NamesShrink, Fewer, BoxType
<1> QED
  BY <1>2, <1>3, <1>4, ZenonT(60) DEF Calm

\* A step that closes a connection.
LEMMA CloseEffect ==
    ASSUME IInv, NEW w \in Workers, NEW fd \in Fds, NEW p \in Returns, NEW lp \in GoodLoops,
           CloseConn(w, fd, p, lp), Here(w, fd), pc[w] \notin Staged, Fewer(lp, loop[w]),
           UNCHANGED <<clients, backlog, sends, active, stop, inbox, ids>>, StaysRight
    PROVE  Calm(w) /\ Closing(w, fd)
<1>0. KernelType /\ PcType /\ LoopType /\ BoxType /\ ConnType
  BY TypeParts, ZenonT(60) DEF IInv
<1>1. /\ sock' \in [Fds -> Socks] /\ PcType' /\ LoopType' /\ ConnType'
      /\ sock'[fd] = Unused /\ \A f \in Fds : f # fd => sock'[f] = sock[f]
      /\ conns'[w][fd] = NoConn
      /\ \A v \in Workers, f \in Fds : v # w \/ f # fd => conns'[v][f] = conns[v][f]
      /\ pc'[w] = (IF Counted THEN "release" ELSE p)
      /\ loop'[w] = [lp EXCEPT !.ret = p]
      /\ \A v \in Workers : v # w => pc'[v] = pc[v] /\ loop'[v] = loop[v]
  BY <1>0, CloseStep, ZenonT(60) DEF KernelType
<1>2. Fewer(loop'[w], loop[w])
  <2>1. Same([lp EXCEPT !.ret = p], lp)
    BY LoopReads, ZenonT(60)
  <2> QED
    BY <1>1, <2>1, ZenonT(60) DEF Same, Fewer
<1>3. Typed
  BY <1>0, <1>1, ZenonT(60) DEF Typed, KernelType
<1>4. OthersStay(w)
  BY <1>1, ZenonT(60) DEF OthersStay
<1>5. QueueStays(w) /\ PollStays(w)
  BY <1>1, <1>2, NoConnFields, ZenonT(60) DEF QueueStays, PollStays, Fewer
<1>6. NamesShrink(w)
  BY <1>0, <1>2, ZenonT(60) DEF NamesShrink, Fewer, BoxType
<1>7. Closing(w, fd)
  <2>1. pc'[w] \in Returns \cup {"release"} /\ (pc'[w] = "release" <=> Counted)
    BY <1>1, ZenonT(60) DEF Returns
  <2> QED
    BY <1>1, <1>2, <2>1, ZenonT(60) DEF Closing, Here, Fewer
<1> QED
  BY <1>3, <1>4, <1>5, <1>6, <1>7, ZenonT(60) DEF Calm

\* A field of a connection or a socket changes that is none of these.
LEMMA ConnTouch ==
    ASSUME ConnType, NEW w \in Workers, NEW fd \in Fds, NEW k \in Conns,
           k.gen = conns[w][fd].gen, k.phase = "none" <=> conns[w][fd].phase = "none",
           conns' = [conns EXCEPT ![w][fd] = k]
    PROVE  /\ ConnsStay(w) /\ conns'[w][fd] = k
           /\ \A f \in Fds : f # fd => conns'[w][f] = conns[w][f]
<1>1. /\ ConnType' /\ conns'[w][fd] = k
      /\ \A v \in Workers, f \in Fds : v # w \/ f # fd => conns'[v][f] = conns[v][f]
  BY ConnStep, ZenonT(60)
<1> QED
  BY <1>1, ZenonT(60) DEF ConnsStay

\* Fields of a connection that are none of these.
LEMMA FieldTouch ==
    ASSUME ConnType, NEW w \in Workers, NEW fd \in Fds
    PROVE  /\ \A b \in BOOLEAN : conns' = [conns EXCEPT ![w][fd].waiting = b] =>
                 ConnsStay(w) /\ \A f \in Fds : conns'[w][f].hs_queued = conns[w][f].hs_queued
           /\ \A b \in BOOLEAN : conns' = [conns EXCEPT ![w][fd].hs_queued = b] =>
                 /\ ConnsStay(w) /\ conns'[w][fd].hs_queued = b
                 /\ \A f \in Fds : f # fd => conns'[w][f].hs_queued = conns[w][f].hs_queued
           /\ \A p \in {"fresh", "shake", "open"} :
                 Here(w, fd) /\ conns' = [conns EXCEPT ![w][fd].phase = p] =>
                 ConnsStay(w) /\ \A f \in Fds : conns'[w][f].hs_queued = conns[w][f].hs_queued
<1>0. conns[w][fd] \in Conns
  BY ZenonT(60) DEF ConnType
<1>1. ASSUME NEW b \in BOOLEAN, conns' = [conns EXCEPT ![w][fd].waiting = b]
      PROVE  ConnsStay(w) /\ \A f \in Fds : conns'[w][f].hs_queued = conns[w][f].hs_queued
  <2> DEFINE k == [conns[w][fd] EXCEPT !.waiting = b]
  <2>1. conns' = [conns EXCEPT ![w][fd] = k]
    BY <1>1, ZenonT(60)
  <2>2. /\ k \in Conns /\ k.gen = conns[w][fd].gen /\ k.phase = conns[w][fd].phase
        /\ k.hs_queued = conns[w][fd].hs_queued
    BY <1>0, ConnFields, ZenonT(60) DEF Conns
  <2> HIDE DEF k
  <2>3. k.phase = "none" <=> conns[w][fd].phase = "none"
    BY <2>2, ZenonT(60)
  <2>4. /\ ConnsStay(w) /\ conns'[w][fd] = k
        /\ \A f \in Fds : f # fd => conns'[w][f] = conns[w][f]
    BY <2>1, <2>2, <2>3, ConnTouch, ZenonT(60)
  <2> QED
    BY ONLY <2>2, <2>4, ZenonT(60)
<1>2. ASSUME NEW b \in BOOLEAN, conns' = [conns EXCEPT ![w][fd].hs_queued = b]
      PROVE  /\ ConnsStay(w) /\ conns'[w][fd].hs_queued = b
             /\ \A f \in Fds : f # fd => conns'[w][f].hs_queued = conns[w][f].hs_queued
  <2> DEFINE k == [conns[w][fd] EXCEPT !.hs_queued = b]
  <2>1. conns' = [conns EXCEPT ![w][fd] = k]
    BY <1>2, ZenonT(60)
  <2>2. /\ k \in Conns /\ k.gen = conns[w][fd].gen /\ k.phase = conns[w][fd].phase
        /\ k.hs_queued = b
    BY <1>0, ConnFields, ZenonT(60) DEF Conns
  <2> HIDE DEF k
  <2>3. k.phase = "none" <=> conns[w][fd].phase = "none"
    BY <2>2, ZenonT(60)
  <2>4. /\ ConnsStay(w) /\ conns'[w][fd] = k
        /\ \A f \in Fds : f # fd => conns'[w][f] = conns[w][f]
    BY <2>1, <2>2, <2>3, ConnTouch, ZenonT(60)
  <2> QED
    BY ONLY <2>2, <2>4, ZenonT(60)
<1>3. ASSUME NEW p \in {"fresh", "shake", "open"}, Here(w, fd), conns' = [conns EXCEPT ![w][fd].phase = p]
      PROVE  ConnsStay(w) /\ \A f \in Fds : conns'[w][f].hs_queued = conns[w][f].hs_queued
  <2> DEFINE k == [conns[w][fd] EXCEPT !.phase = p]
  <2>1. conns' = [conns EXCEPT ![w][fd] = k]
    BY <1>3, ZenonT(60)
  <2>2. /\ k \in Conns /\ k.gen = conns[w][fd].gen /\ k.phase = p
        /\ k.hs_queued = conns[w][fd].hs_queued
    BY <1>0, ConnFields, ZenonT(60) DEF Conns
  <2>3. p # "none" /\ conns[w][fd].phase # "none"
    BY <1>3, ZenonT(60) DEF Here
  <2> HIDE DEF k
  <2>4. /\ ConnsStay(w) /\ conns'[w][fd] = k
        /\ \A f \in Fds : f # fd => conns'[w][f] = conns[w][f]
    BY <2>1, <2>2, <2>3, ConnTouch, ZenonT(60)
  <2> QED
    BY ONLY <2>2, <2>4, ZenonT(60)
<1> QED
  BY ONLY <1>1, <1>2, <1>3, ZenonT(60)

\* The same of a socket.
LEMMA SockTouch ==
    ASSUME KernelType, NEW fd \in Fds, NEW b \in BOOLEAN,
           \/ sock' = [sock EXCEPT ![fd].in = b]
           \/ sock' = [sock EXCEPT ![fd].hup = b],
           clients' \in Nat, sends' \in Nat, active' = active, stop' \in BOOLEAN,
           backlog' \in [Workers -> [Listeners -> Seq(Nat)]]
    PROVE  SocksStay
<1>1. sock \in [Fds -> Socks] /\ sock[fd] \in Socks /\ active \in Int
  BY ZenonT(60) DEF KernelType
<1>2. PICK k \in Socks : sock' = [sock EXCEPT ![fd] = k] /\ k.owner = sock[fd].owner /\ k.id = sock[fd].id
  <2>1. /\ [sock[fd] EXCEPT !.in = b] \in Socks /\ [sock[fd] EXCEPT !.hup = b] \in Socks
    BY <1>1, SockFields, ZenonT(60)
  <2>2. /\ [sock[fd] EXCEPT !.in = b].owner = sock[fd].owner /\ [sock[fd] EXCEPT !.in = b].id = sock[fd].id
        /\ [sock[fd] EXCEPT !.hup = b].owner = sock[fd].owner /\ [sock[fd] EXCEPT !.hup = b].id = sock[fd].id
    BY <1>1, ZenonT(60) DEF Socks
  <2> QED
    BY <2>1, <2>2, ZenonT(60)
<1>3. /\ sock' \in [Fds -> Socks] /\ sock'[fd] = k
      /\ \A f \in Fds : f # fd => sock'[f] = sock[f]
  BY <1>1, <1>2, SockStep, ZenonT(60)
<1>4. KernelType'
  BY <1>1, <1>3, ZenonT(60) DEF KernelType
<1> QED
  BY <1>2, <1>3, <1>4, ZenonT(60) DEF SocksStay

\* Nothing happens to either.
LEMMA StayTrivially ==
    ASSUME KernelType, ConnType, NEW w \in Workers
    PROVE  /\ UNCHANGED conns => ConnsStay(w)
           /\ UNCHANGED <<sock, clients, backlog, sends, active, stop>> => SocksStay
BY ZenonT(60) DEF ConnsStay, SocksStay, KernelType, ConnType

\* What taking ids from a Loop leaves.
LEMMA IdReads ==
    ASSUME NEW lp \in GoodLoops, NEW t \in SUBSET Ids
    PROVE  /\ [lp EXCEPT !.posts = t] \in GoodLoops /\ [lp EXCEPT !.timers = t] \in GoodLoops
           /\ t \subseteq lp.posts => Fewer([lp EXCEPT !.posts = t], lp)
           /\ t \subseteq lp.timers => Fewer([lp EXCEPT !.timers = t], lp)
           /\ [lp EXCEPT !.posts = t].posts = t /\ [lp EXCEPT !.posts = t].timers = lp.timers
           /\ [lp EXCEPT !.timers = t].timers = t /\ [lp EXCEPT !.timers = t].posts = lp.posts
           /\ Beside([lp EXCEPT !.posts = t], lp) /\ Beside([lp EXCEPT !.timers = t], lp)
<1>1. [lp EXCEPT !.posts = t] \in GoodLoops /\ [lp EXCEPT !.timers = t] \in GoodLoops
  BY LoopFields, ZenonT(60)
<1>2. /\ [lp EXCEPT !.posts = t].posts = t /\ [lp EXCEPT !.posts = t].timers = lp.timers
      /\ [lp EXCEPT !.timers = t].timers = t /\ [lp EXCEPT !.timers = t].posts = lp.posts
  BY ZenonT(60) DEF GoodLoops, Loops
<1>3. Beside([lp EXCEPT !.posts = t], lp) /\ Beside([lp EXCEPT !.timers = t], lp)
  BY ZenonT(60) DEF GoodLoops, Loops, Beside
<1> QED
  BY <1>1, <1>2, <1>3, ZenonT(60) DEF Fewer, Beside

\* What every step of a turn shows: the invariants hold after it, and it is quiet
\* or closes a connection.
Turn(w) == IInv' /\ OthersStay(w) /\ (Quiet(w) \/ \E fd \in Fds : Closing(w, fd))

\* A calm step is such a one.
LEMMA CalmTurn ==
    ASSUME IInv, NEW w \in Workers, Calm(w), Quiet(w) \/ \E fd \in Fds : Closing(w, fd)
    PROVE  Turn(w)
BY CalmKeeps, ZenonT(60) DEF Turn, Calm

\* drain_inbox takes what was posted.
LEMMA OnInboxTurn ==
    ASSUME IInv, NEW w \in Workers, pc[w] = "batch", NEW e \in loop[w].batch, OnInbox(w, e)
    PROVE  Turn(w)
<1>0. KernelType /\ PcType /\ LoopType /\ BoxType /\ ConnType /\ WrongType /\ RightConnection
  BY TypeParts, ZenonT(60) DEF IInv
<1> DEFINE lp == [Handled(w, e) EXCEPT !.posts = inbox[w]]
<1>1. /\ Go(w, "drain", lp) /\ inbox' = [inbox EXCEPT ![w] = {}]
      /\ UNCHANGED <<sock, clients, backlog, sends, active, stop>> /\ UNCHANGED conns
      /\ ids' = ids /\ wrong' = wrong
  BY ZenonT(60) DEF OnInbox, kernel
<1>2. Handled(w, e) \in GoodLoops /\ Same(Handled(w, e), loop[w])
  BY <1>0, HandledType, ZenonT(60)
<1>3. inbox[w] \in SUBSET Ids
  BY <1>0, ZenonT(60) DEF BoxType
<1>4. /\ lp \in GoodLoops /\ lp.posts = inbox[w] /\ lp.timers = loop[w].timers
      /\ lp.gen = loop[w].gen /\ lp.hs = loop[w].hs /\ lp.hs_head = loop[w].hs_head
      /\ lp.polled = loop[w].polled /\ lp.paused = loop[w].paused
  <2>1. /\ lp \in GoodLoops /\ lp.posts = inbox[w] /\ lp.timers = Handled(w, e).timers
        /\ Beside(lp, Handled(w, e))
    BY <1>2, <1>3, IdReads, ZenonT(60)
  <2> HIDE DEF lp
  <2> QED
    BY <1>2, <2>1, ZenonT(60) DEF Same, Beside
<1>5. ConnsStay(w) /\ SocksStay
  BY <1>0, <1>1, StayTrivially, ZenonT(60)
<1>6. "drain" \in Places \ Staged /\ "drain" \notin {"read", "handshake"} /\ pc[w] \notin Staged
  BY ZenonT(60) DEF Places, Returns, Staged
<1> HIDE DEF lp
<1>7. Typed /\ OthersStay(w) /\ Quiet(w) /\ loop'[w] = lp
  BY <1>0, <1>1, <1>4, <1>5, <1>6, GoQuiet, ZenonT(60)
<1>8. QueueStays(w) /\ PollStays(w)
  BY <1>1, <1>4, <1>7, ZenonT(60) DEF QueueStays, PollStays
<1>9. NamesShrink(w)
  <2>1. inbox' \in [Workers -> SUBSET Ids] /\ \A v \in Workers : inbox'[v] \subseteq inbox[v]
    BY <1>0, <1>1, ZenonT(60) DEF BoxType
  <2> QED
    BY <1>1, <1>4, <1>7, <2>1, ZenonT(60) DEF NamesShrink
<1>10. StaysRight
  BY <1>0, <1>1, ZenonT(60) DEF StaysRight, WrongType, RightConnection
<1> QED
  BY <1>7, <1>8, <1>9, <1>10, CalmTurn, ZenonT(60) DEF Calm

\* on_event: EPOLLERR or EPOLLHUP.
LEMMA OnHupTurn ==
    ASSUME IInv, NEW w \in Workers, pc[w] = "batch", NEW e \in loop[w].batch, OnHup(w, e)
    PROVE  Turn(w)
<1>0. LoopType /\ WrongType /\ RightConnection
  BY TypeParts, ZenonT(60) DEF IInv
<1>1. Handled(w, e) \in GoodLoops /\ Same(Handled(w, e), loop[w]) /\ e \in Events
  BY <1>0, HandledType, ZenonT(60)
<1>2. e.what = "hup" /\ e.fd \in Fds
  <2>1. e.what = "hup"
    BY ZenonT(60) DEF OnHup
  <2> QED
    BY <1>1, <2>1, ZenonT(60) DEF Events
<1>3. StaysRight
  <2>1. wrong' = wrong \/ wrong' = wrong \cup {"hup"}
    BY ZenonT(60) DEF OnHup, Reaches
  <2> QED
    BY <1>0, <2>1, ZenonT(60) DEF StaysRight, WrongType, RightConnection
<1>4. Fewer(Handled(w, e), loop[w])
  BY <1>1, ZenonT(60) DEF Same, Fewer
<1>5. "batch" \in Returns /\ pc[w] \notin Staged
  BY ZenonT(60) DEF Returns, Staged
<1>6. /\ CloseConn(w, e.fd, "batch", Handled(w, e)) /\ Here(w, e.fd)
      /\ UNCHANGED <<clients, backlog, sends, active, stop, inbox, ids>>
  BY ZenonT(60) DEF OnHup, rest, others
<1>7. Calm(w) /\ Closing(w, e.fd)
  BY <1>1, <1>2, <1>3, <1>4, <1>5, <1>6, CloseEffect, ZenonT(60)
<1> QED
  BY <1>2, <1>7, CalmTurn, ZenonT(60)

\* What an id says of the connection it names.
LEMMA IdMeans ==
    ASSUME IInv, NEW w \in Workers, NEW id \in inbox[w] \cup loop[w].timers \cup loop[w].posts
    PROVE  id \in Ids /\ id.fd \in Fds /\ (Names(w, id) => sock[id.fd].id = id.for)
<1>1. LoopType /\ BoxType /\ IdInv
  BY TypeParts, ZenonT(60) DEF IInv
<1>2. loop[w].timers \subseteq Ids /\ loop[w].posts \subseteq Ids /\ inbox[w] \subseteq Ids
  BY <1>1, LoopHas, ZenonT(60) DEF LoopType, BoxType
<1>3. id \in Ids
  BY <1>2, ZenonT(60)
<1>4. id.fd \in Fds
  BY <1>3, ZenonT(60) DEF Ids
<1>5. id.w = w /\ (Names(id.w, id) => sock[id.fd].id = id.for)
  BY <1>1, ZenonT(60) DEF IdInv, IdOK
<1> QED
  BY <1>3, <1>4, <1>5, ZenonT(60)

\* One post is delivered, to the connection it is meant for, or dropped.
LEMMA DeliverTurn ==
    ASSUME IInv, NEW w \in Workers, NEW id \in loop[w].posts, Deliver(w, id)
    PROVE  Turn(w)
<1>0. KernelType /\ ConnType /\ LoopType /\ WrongType /\ RightConnection /\ loop[w] \in GoodLoops
  BY TypeParts, ZenonT(60) DEF IInv, LoopType
<1> DEFINE lp == [loop[w] EXCEPT !.posts = @ \ {id}]
<1>1. id.fd \in Fds /\ (Names(w, id) => sock[id.fd].id = id.for)
  BY IdMeans, ZenonT(60)
<1>2. lp \in GoodLoops /\ Fewer(lp, loop[w])
  <2>1. loop[w].posts \ {id} \in SUBSET Ids /\ loop[w].posts \ {id} \subseteq loop[w].posts
    BY <1>0, LoopHas, ZenonT(60)
  <2> QED
    BY <1>0, <2>1, IdReads, ZenonT(60)
<1>3. /\ pc[w] = "drain"
      /\ UNCHANGED <<clients, backlog, sends, active, stop, inbox, ids>>
      /\ wrong' = wrong
      /\ \/ Go(w, "drain", lp) /\ UNCHANGED <<sock, conns>>
         \/ Here(w, id.fd) /\ CloseConn(w, id.fd, "drain", lp)
  BY <1>1, ZenonT(60) DEF Deliver, Reaches, rest, others, Names
<1> HIDE DEF lp
<1>4. StaysRight
  BY <1>0, <1>3, ZenonT(60) DEF StaysRight, WrongType, RightConnection
<1>5. "drain" \in Places \ Staged /\ "drain" \in Returns /\ "drain" \notin {"read", "handshake"}
      /\ pc[w] \notin Staged
  BY <1>3, ZenonT(60) DEF Places, Returns, Staged
<1>6. CASE Go(w, "drain", lp) /\ UNCHANGED <<sock, conns>>
  <2>1. ConnsStay(w) /\ SocksStay /\ (\A f \in Fds : conns'[w][f].hs_queued => conns[w][f].hs_queued)
    BY <1>0, <1>3, <1>6, StayTrivially, ZenonT(60)
  <2>2. Calm(w) /\ Quiet(w)
    BY <1>2, <1>3, <1>4, <1>5, <1>6, <2>1, GoCalm, ZenonT(60)
  <2> QED
    BY <2>2, CalmTurn, ZenonT(60)
<1>7. CASE Here(w, id.fd) /\ CloseConn(w, id.fd, "drain", lp)
  <2>1. Calm(w) /\ Closing(w, id.fd)
    BY <1>1, <1>2, <1>3, <1>4, <1>5, <1>7, CloseEffect, ZenonT(60)
  <2> QED
    BY <1>1, <2>1, CalmTurn, ZenonT(60)
<1> QED
  BY <1>3, <1>6, <1>7

\* One timer that is due finds its connection still waiting, or is stale.
LEMMA FireTurn ==
    ASSUME IInv, NEW w \in Workers, NEW t \in loop[w].timers, Fire(w, t)
    PROVE  Turn(w)
<1>0. KernelType /\ ConnType /\ LoopType /\ WrongType /\ RightConnection /\ loop[w] \in GoodLoops
  BY TypeParts, ZenonT(60) DEF IInv, LoopType
<1> DEFINE lp == [loop[w] EXCEPT !.timers = @ \ {t}]
<1>1. t.fd \in Fds /\ (Names(w, t) => sock[t.fd].id = t.for)
  BY IdMeans, ZenonT(60)
<1>2. lp \in GoodLoops /\ Fewer(lp, loop[w])
  <2>1. loop[w].timers \ {t} \in SUBSET Ids /\ loop[w].timers \ {t} \subseteq loop[w].timers
    BY <1>0, LoopHas, ZenonT(60)
  <2> QED
    BY <1>0, <2>1, IdReads, ZenonT(60)
<1>3. /\ pc[w] = "fire"
      /\ UNCHANGED <<clients, backlog, sends, active, stop, inbox, ids>>
      /\ wrong' = wrong
      /\ \/ /\ Go(w, "fire", lp) /\ UNCHANGED sock
            /\ conns' = [conns EXCEPT ![w][t.fd].waiting = FALSE] \/ UNCHANGED conns
         \/ Here(w, t.fd) /\ CloseConn(w, t.fd, "fire", lp)
  BY <1>1, ZenonT(60) DEF Fire, Reaches, rest, others, Names
<1> HIDE DEF lp
<1>4. StaysRight
  BY <1>0, <1>3, ZenonT(60) DEF StaysRight, WrongType, RightConnection
<1>5. "fire" \in Places \ Staged /\ "fire" \in Returns /\ "fire" \notin {"read", "handshake"}
      /\ pc[w] \notin Staged
  BY <1>3, ZenonT(60) DEF Places, Returns, Staged
<1>6. CASE /\ Go(w, "fire", lp) /\ UNCHANGED sock
           /\ conns' = [conns EXCEPT ![w][t.fd].waiting = FALSE] \/ UNCHANGED conns
  <2>1. SocksStay
    BY <1>0, <1>3, <1>6, StayTrivially, ZenonT(60)
  <2>2. ConnsStay(w) /\ (\A f \in Fds : conns'[w][f].hs_queued => conns[w][f].hs_queued)
    <3>1. CASE UNCHANGED conns
      BY <1>0, <3>1, StayTrivially, ZenonT(60)
    <3>2. CASE conns' = [conns EXCEPT ![w][t.fd].waiting = FALSE]
      BY <1>0, <1>1, <3>2, FieldTouch, ZenonT(60)
    <3> QED
      BY <1>6, <3>1, <3>2
  <2>3. Calm(w) /\ Quiet(w)
    BY <1>2, <1>3, <1>4, <1>5, <1>6, <2>1, <2>2, GoCalm, ZenonT(60)
  <2> QED
    BY <2>3, CalmTurn, ZenonT(60)
<1>7. CASE Here(w, t.fd) /\ CloseConn(w, t.fd, "fire", lp)
  <2>1. Calm(w) /\ Closing(w, t.fd)
    BY <1>1, <1>2, <1>3, <1>4, <1>5, <1>7, CloseEffect, ZenonT(60)
  <2> QED
    BY <1>1, <2>1, CalmTurn, ZenonT(60)
<1> QED
  BY <1>3, <1>6, <1>7

\* The sweep, and the end of run, close a connection.
LEMMA CloseTurn ==
    ASSUME IInv, NEW w \in Workers, NEW fd \in Fds, SweepClose(w, fd) \/ EndClose(w, fd)
    PROVE  Turn(w)
<1>0. LoopType /\ WrongType /\ RightConnection /\ loop[w] \in GoodLoops
  BY TypeParts, ZenonT(60) DEF IInv, LoopType
<1>1. PICK p \in {"sweep", "top"} : pc[w] = p /\ Here(w, fd) /\ CloseConn(w, fd, p, loop[w])
  BY ZenonT(60) DEF SweepClose, EndClose
<1>2. UNCHANGED <<clients, backlog, sends, active, stop, inbox, ids>> /\ wrong' = wrong
  BY ZenonT(60) DEF SweepClose, EndClose, rest, others
<1>3. StaysRight
  BY <1>0, <1>2, ZenonT(60) DEF StaysRight, WrongType, RightConnection
<1>4. Fewer(loop[w], loop[w])
  BY ZenonT(60) DEF Fewer
<1>5. p \in Returns /\ pc[w] \notin Staged
  BY <1>1, ZenonT(60) DEF Returns, Staged
<1>6. Calm(w) /\ Closing(w, fd)
  BY <1>0, <1>1, <1>2, <1>3, <1>4, <1>5, CloseEffect, ZenonT(60)
<1> QED
  BY <1>6, CalmTurn, ZenonT(60)

\* What a worker knows of the connection it reads from.
LEMMA ReadFrom ==
    ASSUME IInv, NEW w \in Workers, pc[w] \in {"read", "handshake"}
    PROVE  /\ loop[w] \in GoodLoops /\ loop[w].fd \in Fds /\ Here(w, loop[w].fd)
           /\ conns[w][loop[w].fd] \in Conns
           /\ conns[w][loop[w].fd].phase \in {"fresh", "shake", "open"}
           /\ loop[w].ret \in Returns /\ loop[w].ret \in Places \ Staged
           /\ loop[w].ret \notin {"read", "handshake"} /\ pc[w] \notin Staged
           /\ Fewer(loop[w], loop[w])
           /\ \A p : Goto(w, p) /\ UNCHANGED loop => Go(w, p, loop[w])
<1>1. ConnType /\ LoopType /\ FdInv /\ loop[w] \in GoodLoops
  BY TypeParts, ZenonT(60) DEF IInv, LoopType
<1>2. loop[w].fd \in Fds /\ Here(w, loop[w].fd)
  BY <1>1, ZenonT(60) DEF FdInv
<1>3. conns[w][loop[w].fd] \in Conns
  BY <1>1, <1>2, ZenonT(60) DEF ConnType
<1>4. conns[w][loop[w].fd].phase \in {"fresh", "shake", "open"}
  BY <1>2, <1>3, ZenonT(60) DEF Conns, Here
<1>5. loop[w].ret \in Returns
  BY <1>1, LoopHas, ZenonT(60)
<1>6. loop[w].ret \in Places \ Staged /\ loop[w].ret \notin {"read", "handshake"} /\ pc[w] \notin Staged
  BY <1>5, ZenonT(60) DEF Places, Returns, Staged
<1>7. Fewer(loop[w], loop[w])
  BY ZenonT(60) DEF Fewer
<1>8. \A p : Goto(w, p) /\ UNCHANGED loop => Go(w, p, loop[w])
  BY <1>1, ZenonT(60) DEF Go, LoopType
<1> QED
  BY ONLY <1>1, <1>2, <1>3, <1>4, <1>5, <1>6, <1>7, <1>8, ZenonT(60)

\* handshake.
LEMMA HandshakeTurn ==
    ASSUME IInv, NEW w \in Workers, Handshake(w)
    PROVE  Turn(w)
<1> DEFINE fd == loop[w].fd
<1>0. KernelType /\ ConnType /\ WrongType /\ RightConnection
  BY TypeParts, ZenonT(60) DEF IInv
<1>1. /\ pc[w] = "handshake"
      /\ UNCHANGED <<clients, backlog, sends, active, stop, inbox, ids>> /\ wrong' = wrong
  BY ZenonT(60) DEF Handshake, rest, others
<1>2. /\ loop[w] \in GoodLoops /\ fd \in Fds /\ Here(w, fd) /\ conns[w][fd] \in Conns
      /\ conns[w][fd].phase \in {"fresh", "shake", "open"}
      /\ loop[w].ret \in Returns /\ loop[w].ret \in Places \ Staged
      /\ loop[w].ret \notin {"read", "handshake"} /\ pc[w] \notin Staged
      /\ Fewer(loop[w], loop[w])
      /\ \A p : Goto(w, p) /\ UNCHANGED loop => Go(w, p, loop[w])
  BY <1>1, ReadFrom, ZenonT(60)
<1>3. \/ /\ sock' = [sock EXCEPT ![fd].in = FALSE] /\ Goto(w, loop[w].ret) /\ UNCHANGED loop
         /\ \E p \in {conns[w][fd].phase, "shake"} : conns' = [conns EXCEPT ![w][fd].phase = p]
      \/ /\ conns' = [conns EXCEPT ![w][fd].phase = "open"] /\ Goto(w, "read") /\ UNCHANGED <<sock, loop>>
      \/ CloseConn(w, fd, loop[w].ret, loop[w])
  BY ZenonT(60) DEF Handshake
<1> HIDE DEF fd
<1>4. StaysRight
  BY <1>0, <1>1, ZenonT(60) DEF StaysRight, WrongType, RightConnection
<1>5. CASE /\ sock' = [sock EXCEPT ![fd].in = FALSE] /\ Goto(w, loop[w].ret) /\ UNCHANGED loop
           /\ \E p \in {conns[w][fd].phase, "shake"} : conns' = [conns EXCEPT ![w][fd].phase = p]
  <2>1. Go(w, loop[w].ret, loop[w])
    BY <1>2, <1>5, ZenonT(60)
  <2>2. SocksStay
    <3>1. /\ clients' \in Nat /\ sends' \in Nat /\ active' = active /\ stop' \in BOOLEAN
          /\ backlog' \in [Workers -> [Listeners -> Seq(Nat)]]
      BY <1>0, <1>1, ZenonT(60) DEF KernelType
    <3> QED
      BY <1>0, <1>2, <1>5, <3>1, SockTouch, ZenonT(60)
  <2>3. PICK p \in {"fresh", "shake", "open"} : conns' = [conns EXCEPT ![w][fd].phase = p]
    BY <1>2, <1>5, ZenonT(60)
  <2>4. ConnsStay(w) /\ \A f \in Fds : conns'[w][f].hs_queued = conns[w][f].hs_queued
    BY <1>0, <1>2, <2>3, FieldTouch, ZenonT(60)
  <2>5. Calm(w) /\ Quiet(w)
    BY <1>1, <1>2, <1>4, <2>1, <2>2, <2>4, GoCalm, ZenonT(60)
  <2> QED
    BY <2>5, CalmTurn, ZenonT(60)
<1>6. CASE conns' = [conns EXCEPT ![w][fd].phase = "open"] /\ Goto(w, "read") /\ UNCHANGED <<sock, loop>>
  <2>1. Go(w, "read", loop[w])
    BY <1>2, <1>6, ZenonT(60)
  <2>2. SocksStay
    BY <1>0, <1>1, <1>6, StayTrivially, ZenonT(60)
  <2>3. ConnsStay(w) /\ \A f \in Fds : conns'[w][f].hs_queued = conns[w][f].hs_queued
    BY <1>0, <1>2, <1>6, FieldTouch, ZenonT(60)
  <2>4. "read" \in Places \ Staged
    BY ZenonT(60) DEF Places, Staged
  <2>5. loop[w].fd \in Fds /\ conns[w][loop[w].fd].phase # "none"
    BY <1>2, ZenonT(60) DEF fd, Here
  <2>6. Calm(w) /\ Quiet(w)
    BY <1>1, <1>2, <1>4, <2>1, <2>2, <2>3, <2>4, <2>5, GoCalm, ZenonT(60)
  <2> QED
    BY <2>6, CalmTurn, ZenonT(60)
<1>7. CASE CloseConn(w, fd, loop[w].ret, loop[w])
  <2>1. Calm(w) /\ Closing(w, fd)
    BY <1>1, <1>2, <1>4, <1>7, CloseEffect, ZenonT(60)
  <2> QED
    BY <1>2, <2>1, CalmTurn, ZenonT(60)
<1> QED
  BY ONLY <1>3, <1>5, <1>6, <1>7

\* The ids there are now.
LEMMA IdsNow ==
    ASSUME IInv
    PROVE  /\ \A id \in ids : id \in Ids /\ IdOK(id)
           /\ \A v \in Workers : \A id \in inbox[v] \cup loop[v].timers \cup loop[v].posts :
                 id \in Ids /\ id.w = v /\ IdOK(id)
<1>1. IdInv /\ BoxType /\ LoopType
  BY TypeParts, ZenonT(60) DEF IInv
<1>2. \A v \in Workers : loop[v].timers \subseteq Ids /\ loop[v].posts \subseteq Ids
  BY <1>1, LoopHas, ZenonT(60) DEF LoopType
<1>3. ids \subseteq Ids /\ \A v \in Workers : inbox[v] \subseteq Ids
  BY <1>1, ZenonT(60) DEF BoxType
<1> QED
  BY <1>1, <1>2, <1>3, ZenonT(60) DEF IdInv

\* The id of a connection means it.
LEMMA IdNew ==
    ASSUME IInv, NEW w \in Workers, NEW fd \in Fds
    PROVE  LET id == Id(w, fd, conns[w][fd]) IN id \in Ids /\ id.w = w /\ IdOK(id)
<1> DEFINE id == Id(w, fd, conns[w][fd])
<1>0. KernelType /\ ConnType /\ GenInv
  BY TypeParts, ZenonT(60) DEF IInv
<1>1. conns[w][fd] \in Conns /\ sock[fd] \in Socks
  BY <1>0, ZenonT(60) DEF ConnType, KernelType
<1>2. conns[w][fd].gen \in Nat /\ sock[fd].id \in Nat
  BY <1>1, ConnFields, SockFields, ZenonT(60)
<1>3. id.w = w /\ id.fd = fd /\ id.gen = conns[w][fd].gen /\ id.for = sock[fd].id
  BY ZenonT(60) DEF Id
<1>4. id \in Ids
  BY <1>2, ZenonT(60) DEF Ids, Id
<1>5. conns[w][fd].gen <= loop[w].gen
  BY <1>0, ZenonT(60) DEF GenInv
<1> HIDE DEF id
<1>6. id \in Ids /\ id.w = w /\ IdOK(id)
  BY <1>3, <1>4, <1>5, ZenonT(60) DEF IdOK
<1> QED
  BY <1>6, ZenonT(60) DEF id

\* on_readable.
LEMMA ReadTurn ==
    ASSUME IInv, NEW w \in Workers, Read(w)
    PROVE  Turn(w)
<1> DEFINE fd == loop[w].fd
           id == Id(w, fd, conns[w][fd])
           lp == [loop[w] EXCEPT !.timers = @ \cup {id}]
<1>0. KernelType /\ PcType /\ LoopType /\ ConnType /\ BoxType /\ WrongType /\ RightConnection
      /\ QueueInv /\ NoListenerLost
  BY TypeParts, ZenonT(60) DEF IInv
<1>1. /\ pc[w] = "read"
      /\ UNCHANGED <<clients, backlog, sends, active, stop, inbox>> /\ wrong' = wrong
  BY ZenonT(60) DEF Read
<1>2. /\ loop[w] \in GoodLoops /\ fd \in Fds /\ Here(w, fd)
      /\ loop[w].ret \in Returns /\ loop[w].ret \in Places \ Staged
      /\ loop[w].ret \notin {"read", "handshake"} /\ pc[w] \notin Staged
      /\ Fewer(loop[w], loop[w])
      /\ \A p : Goto(w, p) /\ UNCHANGED loop => Go(w, p, loop[w])
  BY <1>1, ReadFrom, ZenonT(60)
<1>3. \/ /\ sock' = [sock EXCEPT ![fd].in = FALSE] /\ Goto(w, loop[w].ret)
         /\ UNCHANGED <<conns, loop>> /\ (ids' = ids \/ ids' = ids \cup {id})
      \/ /\ sock' = [sock EXCEPT ![fd].in = FALSE] /\ Goto(w, loop[w].ret) /\ UNCHANGED ids
         /\ conns' = [conns EXCEPT ![w][fd].waiting = TRUE]
         /\ loop' = [loop EXCEPT ![w].timers = @ \cup {id}]
      \/ CloseConn(w, fd, loop[w].ret, loop[w]) /\ UNCHANGED ids
  BY ZenonT(60) DEF Read
<1>4. id \in Ids /\ id.w = w /\ IdOK(id)
  BY <1>2, IdNew, ZenonT(60)
<1>5. StaysRight
  BY <1>0, <1>1, ZenonT(60) DEF StaysRight, WrongType, RightConnection
<1>6. ASSUME sock' = [sock EXCEPT ![fd].in = FALSE] PROVE SocksStay
  <2>1. /\ clients' \in Nat /\ sends' \in Nat /\ active' = active /\ stop' \in BOOLEAN
        /\ backlog' \in [Workers -> [Listeners -> Seq(Nat)]]
    BY <1>0, <1>1, ZenonT(60) DEF KernelType
  <2> HIDE DEF fd
  <2> QED
    BY <1>0, <1>2, <1>6, <2>1, SockTouch, ZenonT(60)
<1>7. CASE /\ sock' = [sock EXCEPT ![fd].in = FALSE] /\ Goto(w, loop[w].ret)
           /\ UNCHANGED <<conns, loop>> /\ (ids' = ids \/ ids' = ids \cup {id})
  <2> HIDE DEF id
  <2>1. SocksStay /\ Go(w, loop[w].ret, loop[w])
    BY <1>2, <1>6, <1>7, ZenonT(60)
  <2> HIDE DEF fd
  <2>2. ConnsStay(w)
    BY <1>0, <1>7, StayTrivially, ZenonT(60)
  <2>3. Typed /\ OthersStay(w) /\ Quiet(w)
    BY <1>0, <1>2, <2>1, <2>2, GoQuiet, ZenonT(60)
  <2>4. QueueInv' /\ NoListenerLost'
    BY <1>0, <1>7, <2>3, QueueKept, PollKept, ZenonT(60) DEF QueueStays, PollStays
  <2>5. OldNames
    BY <1>1, <1>4, <1>7, IdsNow, ZenonT(60) DEF OldNames
  <2>6. BoxType'
    BY <1>0, <1>1, <1>4, <1>7, ZenonT(60) DEF BoxType
  <2>7. IInv'
    BY <1>5, <2>3, <2>4, <2>5, <2>6, StepKeeps, ZenonT(60)
  <2> QED
    BY <2>3, <2>7, ZenonT(60) DEF Turn
<1>8. CASE /\ sock' = [sock EXCEPT ![fd].in = FALSE] /\ Goto(w, loop[w].ret) /\ UNCHANGED ids
           /\ conns' = [conns EXCEPT ![w][fd].waiting = TRUE]
           /\ loop' = [loop EXCEPT ![w].timers = @ \cup {id}]
  <2>1. SocksStay /\ Go(w, loop[w].ret, lp)
    BY <1>2, <1>6, <1>8, ZenonT(60) DEF Go
  <2>2. ConnsStay(w) /\ \A f \in Fds : conns'[w][f].hs_queued = conns[w][f].hs_queued
    <3> HIDE DEF id, fd
    <3> QED
      BY <1>0, <1>2, <1>8, FieldTouch, ZenonT(60)
  <2>3. lp \in GoodLoops /\ Beside(lp, loop[w]) /\ lp.posts = loop[w].posts
        /\ lp.timers = loop[w].timers \cup {id}
    <3> HIDE DEF id
    <3>1. loop[w].timers \cup {id} \in SUBSET Ids
      BY <1>2, <1>4, LoopHas, ZenonT(60)
    <3> QED
      BY <1>2, <3>1, IdReads, ZenonT(60)
  <2> HIDE DEF lp, id, fd
  <2>4. Typed /\ OthersStay(w) /\ Quiet(w) /\ loop'[w] = lp
    BY <1>0, <1>2, <2>1, <2>2, <2>3, GoQuiet, ZenonT(60) DEF Beside
  <2>5. QueueInv' /\ NoListenerLost'
    BY <1>0, <2>2, <2>3, <2>4, QueueKept, PollKept, ZenonT(60) DEF QueueStays, PollStays, Beside
  <2>6. OldNames
    <3>1. ASSUME NEW v \in Workers, NEW i \in inbox'[v] \cup loop'[v].timers \cup loop'[v].posts
          PROVE  i \in Ids /\ i.w = v /\ IdOK(i)
      <4>1. CASE v # w
        BY <1>1, <2>4, <3>1, <4>1, IdsNow, ZenonT(60) DEF OthersStay
      <4>2. CASE v = w
        <5>1. i \in inbox[v] \cup loop[v].timers \cup loop[v].posts \/ i = id
          BY <1>1, <2>3, <2>4, <3>1, <4>2, ZenonT(60)
        <5> QED
          BY <1>4, <4>2, <5>1, IdsNow, ZenonT(60)
      <4> QED
        BY <4>1, <4>2
    <3> QED
      BY <1>8, <3>1, IdsNow, ZenonT(60) DEF OldNames
  <2>7. BoxType'
    BY <1>0, <1>1, <1>8, ZenonT(60) DEF BoxType
  <2>8. IInv'
    BY <1>5, <2>4, <2>5, <2>6, <2>7, StepKeeps, ZenonT(60)
  <2> QED
    BY <2>4, <2>8, ZenonT(60) DEF Turn
<1>9. CASE CloseConn(w, fd, loop[w].ret, loop[w]) /\ UNCHANGED ids
  <2> HIDE DEF fd
  <2>1. Calm(w) /\ Closing(w, fd)
    BY <1>1, <1>2, <1>5, <1>9, CloseEffect, ZenonT(60)
  <2> QED
    BY <1>2, <2>1, CalmTurn, ZenonT(60)
<1> QED
  BY ONLY <1>3, <1>7, <1>8, <1>9

\* The listeners leave the epoll set, or enter it.
LEMMA PollTurn ==
    ASSUME IInv, NEW w \in Workers, NEW p \in Places \ Staged, NEW s \in SUBSET Listeners,
           NEW b \in BOOLEAN, s # Listeners => b, p \notin {"read", "handshake"},
           pc[w] \notin Staged, Step(w, p, [loop[w] EXCEPT !.polled = s, !.paused = b])
    PROVE  Turn(w)
<1> DEFINE lp == [loop[w] EXCEPT !.polled = s, !.paused = b]
<1>0. KernelType /\ PcType /\ LoopType /\ ConnType /\ BoxType /\ WrongType /\ RightConnection
      /\ QueueInv /\ NoListenerLost /\ IdInv /\ loop[w] \in GoodLoops
  BY TypeParts, ZenonT(60) DEF IInv, LoopType
<1>1. lp \in GoodLoops
  BY <1>0, LoopFields, ZenonT(60)
<1>2. /\ lp.gen = loop[w].gen /\ lp.hs = loop[w].hs /\ lp.hs_head = loop[w].hs_head
      /\ lp.timers = loop[w].timers /\ lp.posts = loop[w].posts
      /\ lp.polled = s /\ lp.paused = b
  BY <1>0, ZenonT(60) DEF GoodLoops, Loops
<1> HIDE DEF lp
<1>3. /\ Typed /\ OthersStay(w) /\ Quiet(w) /\ loop'[w] = lp
      /\ UNCHANGED <<inbox, ids, wrong, conns, sock>>
  <2>1. Step(w, p, lp)
    BY ZenonT(60) DEF lp
  <2> QED
    BY ONLY <1>0, <1>1, <1>2, <2>1, w \in Workers, p \in Places \ Staged, p \notin {"read", "handshake"},
          pc[w] \notin Staged, StepEffect, ZenonT(60)
<1>4. QueueInv'
  BY <1>0, <1>2, <1>3, QueueKept, ZenonT(60) DEF QueueStays
<1>5. NoListenerLost'
  BY <1>0, <1>2, <1>3, ZenonT(60) DEF NoListenerLost, OthersStay
<1>6. NamesShrink(w)
  BY <1>0, <1>2, <1>3, ZenonT(60) DEF NamesShrink, BoxType
<1>7. OldNames
  BY <1>0, <1>3, <1>6, ShrinkOld, ZenonT(60)
<1>8. BoxType' /\ StaysRight
  BY <1>0, <1>3, ZenonT(60) DEF BoxType, StaysRight, WrongType, RightConnection
<1>9. IInv'
  BY <1>3, <1>4, <1>5, <1>7, <1>8, StepKeeps, ZenonT(60)
<1> QED
  BY <1>3, <1>9, ZenonT(60) DEF Turn

\* accept_all runs out of descriptors and pauses its listeners.
LEMMA AcceptFullTurn ==
    ASSUME IInv, NEW w \in Workers, AcceptFull(w)
    PROVE  Turn(w)
<1>1. pc[w] \notin Staged /\ "batch" \in Places \ Staged /\ "batch" \notin {"read", "handshake"}
  BY ZenonT(60) DEF AcceptFull, Places, Returns, Staged
<1>2. Step(w, "batch", [loop[w] EXCEPT !.polled = {}, !.paused = TRUE])
  BY ZenonT(60) DEF AcceptFull
<1>3. {} \in SUBSET Listeners /\ TRUE \in BOOLEAN
  BY ZenonT(60)
<1> QED
  BY <1>1, <1>2, <1>3, PollTurn, ZenonT(60)

\* The sweep adds them again, as far as epoll_ctl succeeds.
LEMMA SweepTurn ==
    ASSUME IInv, NEW w \in Workers, Sweep(w) \/ SweepFail(w)
    PROVE  Turn(w)
<1>0. LoopType /\ loop[w] \in GoodLoops
  BY TypeParts, ZenonT(60) DEF IInv, LoopType
<1>1. PICK failed \in SUBSET Listeners : SweepAs(w, failed)
  BY ZenonT(60) DEF Sweep, SweepFail
<1>2. pc[w] \notin Staged /\ "sweep" \in Places \ Staged /\ "sweep" \notin {"read", "handshake"}
  BY <1>1, ZenonT(60) DEF SweepAs, Places, Returns, Staged
<1>3. CASE loop[w].paused
  <2>1. Step(w, "sweep", [loop[w] EXCEPT !.polled = Listeners \ failed, !.paused = failed # {}])
    BY <1>1, <1>3, ZenonT(60) DEF SweepAs
  <2>2. Listeners \ failed \in SUBSET Listeners /\ (failed # {}) \in BOOLEAN
        /\ (Listeners \ failed # Listeners => failed # {})
    BY ZenonT(60)
  <2> QED
    BY <1>2, <2>1, <2>2, PollTurn, ZenonT(60)
<1>4. CASE ~loop[w].paused
  <2>1. Step(w, "sweep", loop[w]) /\ Same(loop[w], loop[w])
    BY <1>1, <1>4, ZenonT(60) DEF SweepAs, Same
  <2>2. Calm(w) /\ Quiet(w)
    BY <1>0, <1>2, <2>1, PlainCalm, ZenonT(60)
  <2> QED
    BY <2>2, CalmTurn, ZenonT(60)
<1> QED
  BY <1>3, <1>4

\* What is left of the queue when the first i entries have had their turn.
LEMMA AdvancedReads ==
    ASSUME NEW lp \in GoodLoops, NEW i \in Nat, i <= Len(lp.hs)
    PROVE  /\ Advanced(lp, i) \in GoodLoops
           /\ LET lq == Advanced(lp, i) IN
              /\ lq.gen = lp.gen /\ lq.timers = lp.timers /\ lq.posts = lp.posts
              /\ lq.polled = lp.polled /\ lq.paused = lp.paused
              /\ \/ i = Len(lp.hs)
                 \/ lq.hs = lp.hs /\ lq.hs_head = i
<1>1. CASE i = Len(lp.hs)
  <2> DEFINE lq == [lp EXCEPT !.hs = <<>>, !.hs_head = 0]
  <2>1. lq \in GoodLoops /\ Advanced(lp, i) = lq
    BY <1>1, LoopFields, ZenonT(60) DEF Advanced
  <2>2. /\ lq.gen = lp.gen /\ lq.timers = lp.timers /\ lq.posts = lp.posts
        /\ lq.polled = lp.polled /\ lq.paused = lp.paused
    BY ZenonT(60) DEF GoodLoops, Loops
  <2> HIDE DEF lq
  <2> QED
    BY <1>1, <2>1, <2>2, ZenonT(60)
<1>2. CASE i # Len(lp.hs)
  <2> DEFINE lq == [lp EXCEPT !.hs_head = i]
  <2>1. lq \in GoodLoops /\ Advanced(lp, i) = lq
    BY <1>2, LoopFields, ZenonT(60) DEF Advanced
  <2>2. /\ lq.gen = lp.gen /\ lq.timers = lp.timers /\ lq.posts = lp.posts
        /\ lq.polled = lp.polled /\ lq.paused = lp.paused /\ lq.hs = lp.hs /\ lq.hs_head = i
    BY ZenonT(60) DEF GoodLoops, Loops
  <2> HIDE DEF lq
  <2> QED
    BY <2>1, <2>2, ZenonT(60)
<1> QED
  BY <1>1, <1>2

\* An entry added to the queue is in it, and so are those that were.
LEMMA AppendQueue ==
    ASSUME NEW q \in Seq(Fds), NEW h \in Nat, h <= Len(q), NEW fd \in Fds
    PROVE  /\ \E i \in h + 1 .. Len(Append(q, fd)) : Append(q, fd)[i] = fd
           /\ \A f \in Fds :
                 (\E i \in h + 1 .. Len(q) : q[i] = f)
                    => \E i \in h + 1 .. Len(Append(q, fd)) : Append(q, fd)[i] = f
<1>1. /\ Len(Append(q, fd)) = Len(q) + 1 /\ Append(q, fd)[Len(q) + 1] = fd
      /\ \A i \in 1 .. Len(q) : Append(q, fd)[i] = q[i]
      /\ Len(q) \in Nat
  OBVIOUS
<1>2. Len(q) + 1 \in h + 1 .. Len(Append(q, fd))
  BY ONLY <1>1, h \in Nat, h <= Len(q)
<1>3. ASSUME NEW f \in Fds, NEW i \in h + 1 .. Len(q), q[i] = f
      PROVE  i \in h + 1 .. Len(Append(q, fd)) /\ Append(q, fd)[i] = f
  <2>1. i \in h + 1 .. Len(Append(q, fd)) /\ i \in 1 .. Len(q)
    BY ONLY <1>1, h \in Nat, i \in h + 1 .. Len(q)
  <2> QED
    BY ONLY <1>1, <1>3, <2>1, ZenonT(60)
<1> QED
  BY ONLY <1>1, <1>2, <1>3, ZenonT(60)

\* A step that changes the queue, so that those who wait are in it.
LEMMA QueueTurn ==
    ASSUME IInv, NEW w \in Workers, NEW p \in Places \ Staged, NEW lp \in GoodLoops,
           Go(w, p, lp), pc[w] \notin Staged,
           lp.gen = loop[w].gen /\ lp.timers = loop[w].timers /\ lp.posts = loop[w].posts,
           lp.polled = loop[w].polled /\ lp.paused = loop[w].paused,
           p \in {"read", "handshake"} => lp.fd \in Fds /\ conns[w][lp.fd].phase # "none",
           ConnsStay(w), SocksStay, UNCHANGED <<inbox, ids, wrong>>,
           \A f \in Fds : conns'[w][f].hs_queued =>
               /\ conns[w][f].phase # "none"
               /\ \E i \in lp.hs_head + 1 .. Len(lp.hs) : lp.hs[i] = f
    PROVE  Turn(w)
<1>0. PcType /\ LoopType /\ BoxType /\ WrongType /\ RightConnection
      /\ QueueInv /\ NoListenerLost /\ IdInv
  BY TypeParts, ZenonT(60) DEF IInv
<1>1. Typed /\ OthersStay(w) /\ Quiet(w) /\ loop'[w] = lp
  BY <1>0, GoQuiet, ZenonT(60)
<1>2. ASSUME NEW v \in Workers, NEW f \in Fds, conns'[v][f].hs_queued
      PROVE  /\ conns'[v][f].phase # "none"
             /\ \E i \in loop'[v].hs_head + 1 .. Len(loop'[v].hs) : loop'[v].hs[i] = f
  <2>1. CASE v = w
    <3>1. conns'[v][f].phase = "none" <=> conns[v][f].phase = "none"
      BY <2>1, ZenonT(60) DEF ConnsStay
    <3> QED
      BY <1>1, <1>2, <2>1, <3>1, ZenonT(60)
  <2>2. CASE v # w
    <3>1. conns'[v][f] = conns[v][f] /\ loop'[v] = loop[v]
      BY <1>1, <2>2, ZenonT(60) DEF OthersStay
    <3>2. /\ conns[v][f].phase # "none"
          /\ \E i \in loop[v].hs_head + 1 .. Len(loop[v].hs) : loop[v].hs[i] = f
      <4>1. conns[v][f].hs_queued
        BY ONLY <1>2, <3>1, ZenonT(60)
      <4> QED
        BY <1>0, <4>1, ZenonT(60) DEF QueueInv, Here
    <3> QED
      BY ONLY <3>1, <3>2, ZenonT(60)
  <2> QED
    BY <2>1, <2>2
<1>3. QueueInv'
  BY <1>2, ZenonT(60) DEF QueueInv, Here
<1>4. NoListenerLost'
  BY <1>0, <1>1, PollKept, ZenonT(60) DEF PollStays
<1>5. NamesShrink(w)
  BY <1>0, <1>1, ZenonT(60) DEF NamesShrink, BoxType
<1>6. OldNames
  BY <1>0, <1>1, <1>5, ShrinkOld, ZenonT(60)
<1>7. BoxType' /\ StaysRight
  BY <1>0, ZenonT(60) DEF BoxType, StaysRight, WrongType, RightConnection
<1>8. IInv'
  BY <1>1, <1>3, <1>4, <1>6, <1>7, StepKeeps, ZenonT(60)
<1> QED
  BY <1>1, <1>8, ZenonT(60) DEF Turn

\* A Loop told which descriptor to work on, and where to return.
LEMMA CallReads ==
    ASSUME NEW lp \in GoodLoops, NEW fd \in Fds, NEW r \in Returns
    PROVE  LET lq == [lp EXCEPT !.fd = fd, !.ret = r]
           IN  lq \in GoodLoops /\ lq.fd = fd /\ Same(lq, lp)
<1>1. fd \in 0 .. MaxFd
  BY DEF Fds
<1>2. [lp EXCEPT !.fd = fd, !.ret = r] \in GoodLoops
  BY <1>1, ZenonT(60) DEF GoodLoops, Loops
<1>3. [lp EXCEPT !.fd = fd, !.ret = r].fd = fd
  BY ZenonT(60) DEF GoodLoops, Loops
<1>4. Same([lp EXCEPT !.fd = fd, !.ret = r], lp)
  BY ZenonT(60) DEF GoodLoops, Loops, Same
<1> QED
  BY ONLY <1>2, <1>3, <1>4, ZenonT(60)

\* The entries of hs are descriptors.
LEMMA QueueEntry ==
    ASSUME NEW lp \in GoodLoops, NEW i \in lp.hs_head + 1 .. Len(lp.hs)
    PROVE  i \in 1 .. Len(lp.hs) /\ lp.hs[i] \in Fds
<1>1. lp.hs \in Seq(Fds) /\ lp.hs_head \in Nat
  BY LoopHas, ZenonT(60)
<1> QED
  BY ONLY <1>1, i \in lp.hs_head + 1 .. Len(lp.hs)

\* on_event: input.
LEMMA OnInputTurn ==
    ASSUME IInv, NEW w \in Workers, pc[w] = "batch", NEW e \in loop[w].batch, OnInput(w, e)
    PROVE  Turn(w)
<1> DEFINE k == conns[w][e.fd]
           lp == Handled(w, e)
<1>0. KernelType /\ LoopType /\ ConnType /\ WrongType /\ RightConnection /\ QueueInv
  BY TypeParts, ZenonT(60) DEF IInv
<1>1. /\ loop[w] \in GoodLoops /\ lp \in GoodLoops /\ Same(lp, loop[w]) /\ e \in Events
  BY <1>0, HandledType, ZenonT(60)
<1>2. e.what = "in" /\ Here(w, e.fd)
  BY ZenonT(60) DEF OnInput
<1>3. e.fd \in Fds
  BY <1>1, <1>2, ZenonT(60) DEF Events
<1>4. UNCHANGED <<sock, clients, backlog, sends, active, stop, inbox, ids, wrong>>
  BY ZenonT(60) DEF OnInput, kernel, others
<1>5. SocksStay
  BY <1>0, <1>4, StayTrivially, ZenonT(60)
<1>6. StaysRight
  BY <1>0, <1>4, ZenonT(60) DEF StaysRight, WrongType, RightConnection
<1>7. /\ {"batch", "read", "handshake"} \subseteq Places \ Staged /\ "batch" \in Returns
      /\ "batch" \notin {"read", "handshake"} /\ pc[w] \notin Staged
  BY ZenonT(60) DEF Places, Returns, Staged
<1>8. CASE k.phase # "fresh"
  <2> DEFINE lq == [lp EXCEPT !.fd = e.fd, !.ret = "batch"]
  <2>1. PICK p \in {"read", "handshake"} : Go(w, p, lq)
    BY <1>8, ZenonT(60) DEF OnInput
  <2>2. UNCHANGED conns
    BY <1>8, ZenonT(60) DEF OnInput
  <2>3. lq \in GoodLoops /\ lq.fd = e.fd /\ Same(lq, lp)
    BY <1>1, <1>3, <1>7, CallReads, ZenonT(60)
  <2> HIDE DEF lq, lp
  <2>4. Fewer(lq, loop[w])
    BY <1>1, <2>3, ZenonT(60) DEF Fewer, Same
  <2>5. ConnsStay(w) /\ (\A f \in Fds : conns'[w][f].hs_queued => conns[w][f].hs_queued)
    BY <1>0, <2>2, StayTrivially, ZenonT(60)
  <2>6. lq.fd \in Fds /\ conns[w][lq.fd].phase # "none"
    BY <1>2, <1>3, <2>3, ZenonT(60) DEF Here
  <2>7. p \in Places \ Staged
    BY <1>7, ZenonT(60)
  <2>8. Calm(w) /\ Quiet(w)
    BY <1>4, <1>5, <1>6, <1>7, <2>1, <2>3, <2>4, <2>5, <2>6, <2>7, GoCalm, ZenonT(60)
  <2> QED
    BY <2>8, CalmTurn, ZenonT(60)
<1>9. CASE k.phase = "fresh"
  <2> DEFINE lq == IF k.hs_queued THEN lp ELSE [lp EXCEPT !.hs = Append(@, e.fd)]
  <2>1. conns' = [conns EXCEPT ![w][e.fd].hs_queued = TRUE] /\ Go(w, "batch", lq)
    BY <1>9, ZenonT(60) DEF OnInput
  <2>2. /\ ConnsStay(w)
        /\ \A f \in Fds : f # e.fd => conns'[w][f].hs_queued = conns[w][f].hs_queued
    BY <1>0, <1>3, <2>1, FieldTouch, ZenonT(60)
  <2>3. lq \in GoodLoops
    BY <1>1, <1>3, LoopFields, ZenonT(60)
  <2>4. /\ lq.gen = lp.gen /\ lq.timers = lp.timers /\ lq.posts = lp.posts
        /\ lq.polled = lp.polled /\ lq.paused = lp.paused /\ lq.hs_head = lp.hs_head
        /\ lq.hs = IF k.hs_queued THEN lp.hs ELSE Append(lp.hs, e.fd)
    <3>1. CASE k.hs_queued
      BY <3>1, ZenonT(60)
    <3>2. CASE ~k.hs_queued
      BY <1>1, <3>2, ZenonT(60) DEF GoodLoops, Loops
    <3> QED
      BY <3>1, <3>2
  <2>5. /\ lp.hs \in Seq(Fds) /\ lp.hs_head \in Nat /\ lp.hs_head <= Len(lp.hs)
        /\ lp.hs = loop[w].hs /\ lp.hs_head = loop[w].hs_head
    BY <1>1, LoopHas, ZenonT(60) DEF Same
  <2> HIDE DEF lq, lp
  <2>6. ASSUME NEW f \in Fds, conns'[w][f].hs_queued
        PROVE  /\ conns[w][f].phase # "none"
               /\ \E i \in lq.hs_head + 1 .. Len(lq.hs) : lq.hs[i] = f
    <3>1. conns[w][f].hs_queued =>
              /\ conns[w][f].phase # "none"
              /\ \E i \in lp.hs_head + 1 .. Len(lp.hs) : lp.hs[i] = f
      <4>1. conns[w][f].hs_queued =>
                /\ conns[w][f].phase # "none"
                /\ \E i \in loop[w].hs_head + 1 .. Len(loop[w].hs) : loop[w].hs[i] = f
        BY <1>0, ZenonT(60) DEF QueueInv, Here
      <4> QED
        BY ONLY <2>5, <4>1, ZenonT(60)
    <3>2. conns[w][f].hs_queued \/ (f = e.fd /\ conns[w][f].phase # "none" /\ ~k.hs_queued)
      BY <1>2, <2>2, <2>6, ZenonT(60) DEF Here
    <3>3. CASE k.hs_queued
      <4>1. lq.hs = lp.hs /\ lq.hs_head = lp.hs_head
        BY ONLY <2>4, <3>3, ZenonT(60)
      <4>2. conns[w][f].hs_queued
        BY ONLY <3>2, <3>3, ZenonT(60)
      <4> QED
        BY ONLY <3>1, <4>1, <4>2, ZenonT(60)
    <3>4. CASE ~k.hs_queued
      <4>1. /\ \E i \in lp.hs_head + 1 .. Len(Append(lp.hs, e.fd)) : Append(lp.hs, e.fd)[i] = e.fd
            /\ (\E i \in lp.hs_head + 1 .. Len(lp.hs) : lp.hs[i] = f)
                  => \E i \in lp.hs_head + 1 .. Len(Append(lp.hs, e.fd)) : Append(lp.hs, e.fd)[i] = f
        <5> DEFINE q == lp.hs
                   h == lp.hs_head
                   d == e.fd
        <5>1. q \in Seq(Fds) /\ h \in Nat /\ h <= Len(q) /\ d \in Fds /\ f \in Fds
          BY <1>3, <2>5
        <5> HIDE DEF q, h, d
        <5>2. /\ \E i \in h + 1 .. Len(Append(q, d)) : Append(q, d)[i] = d
              /\ \A g \in Fds : (\E i \in h + 1 .. Len(q) : q[i] = g)
                    => \E i \in h + 1 .. Len(Append(q, d)) : Append(q, d)[i] = g
          BY ONLY <5>1, AppendQueue, ZenonT(180)
        <5> QED
          BY ONLY <5>1, <5>2, ZenonT(60) DEF q, h, d
      <4>2. lq.hs = Append(lp.hs, e.fd) /\ lq.hs_head = lp.hs_head
        BY ONLY <2>4, <3>4, ZenonT(60)
      <4>3. CASE conns[w][f].hs_queued
        BY ONLY <3>1, <4>1, <4>2, <4>3, ZenonT(60)
      <4>4. CASE f = e.fd /\ conns[w][f].phase # "none"
        BY ONLY <4>1, <4>2, <4>4, ZenonT(60)
      <4> QED
        BY ONLY <3>2, <4>3, <4>4
    <3> QED
      BY <3>3, <3>4
  <2>7. /\ lq.gen = loop[w].gen /\ lq.timers = loop[w].timers /\ lq.posts = loop[w].posts
        /\ lq.polled = loop[w].polled /\ lq.paused = loop[w].paused
    BY <1>1, <2>4, ZenonT(60) DEF Same
  <2>8. "batch" \in Places \ Staged
    BY <1>7, ZenonT(60)
  <2> QED
    BY <1>4, <1>5, <1>7, <2>1, <2>2, <2>3, <2>6, <2>7, <2>8, QueueTurn, ZenonT(60)
<1> QED
  BY <1>8, <1>9

\* next_handshake finds a connection.
LEMMA NextHandshakeTurn ==
    ASSUME IInv, NEW w \in Workers, NextHandshake(w)
    PROVE  Turn(w)
<1>0. KernelType /\ LoopType /\ ConnType /\ QueueInv /\ loop[w] \in GoodLoops
  BY TypeParts, ZenonT(60) DEF IInv, LoopType
<1>1. PICK i \in Queued(w) :
          /\ \A j \in Queued(w) : i <= j
          /\ conns' = [conns EXCEPT ![w][loop[w].hs[i]].hs_queued = FALSE]
          /\ Go(w, "handshake", [Advanced(loop[w], i) EXCEPT !.fd = loop[w].hs[i], !.ret = "top"])
  BY ZenonT(60) DEF NextHandshake
<1> DEFINE fd == loop[w].hs[i]
           lr == Advanced(loop[w], i)
           lq == [lr EXCEPT !.fd = fd, !.ret = "top"]
<1>2. /\ i \in loop[w].hs_head + 1 .. Len(loop[w].hs) /\ conns[w][fd].hs_queued
      /\ i \in 1 .. Len(loop[w].hs) /\ fd \in Fds
  <2>1. i \in loop[w].hs_head + 1 .. Len(loop[w].hs) /\ conns[w][fd].hs_queued
    BY <1>1, ZenonT(60) DEF Queued
  <2> QED
    BY <1>0, <2>1, QueueEntry, ZenonT(60)
<1>3. /\ pc[w] = "hs"
      /\ UNCHANGED <<sock, clients, backlog, sends, active, stop, inbox, ids, wrong>>
  BY ZenonT(60) DEF NextHandshake, kernel, others
<1>4. i \in Nat /\ i <= Len(loop[w].hs)
  <2>1. Len(loop[w].hs) \in Nat
    <3>1. loop[w].hs \in Seq(Fds)
      BY <1>0, LoopHas, ZenonT(60)
    <3> QED
      BY ONLY <3>1
  <2> QED
    BY ONLY <1>2, <2>1
<1>5. /\ lr \in GoodLoops
      /\ lr.gen = loop[w].gen /\ lr.timers = loop[w].timers /\ lr.posts = loop[w].posts
      /\ lr.polled = loop[w].polled /\ lr.paused = loop[w].paused
      /\ i = Len(loop[w].hs) \/ (lr.hs = loop[w].hs /\ lr.hs_head = i)
  BY <1>0, <1>4, AdvancedReads, ZenonT(60)
<1>6. /\ {"handshake"} \subseteq Places \ Staged /\ "top" \in Returns /\ pc[w] \notin Staged
  BY <1>3, ZenonT(60) DEF Places, Returns, Staged
<1> HIDE DEF lr
<1>7. lq \in GoodLoops /\ lq.fd = fd /\ Same(lq, lr)
  BY <1>2, <1>5, <1>6, CallReads, ZenonT(60)
<1>8. Go(w, "handshake", lq) /\ conns' = [conns EXCEPT ![w][fd].hs_queued = FALSE]
  BY <1>1, ZenonT(60) DEF lr
<1> HIDE DEF lq, fd
<1>9. SocksStay
  BY <1>0, <1>3, StayTrivially, ZenonT(60)
<1>10. /\ ConnsStay(w) /\ conns'[w][fd].hs_queued = FALSE
       /\ \A f \in Fds : f # fd => conns'[w][f].hs_queued = conns[w][f].hs_queued
  BY <1>0, <1>2, <1>8, FieldTouch, ZenonT(60)
<1>11. ASSUME NEW f \in Fds, conns'[w][f].hs_queued
       PROVE  /\ conns[w][f].phase # "none"
              /\ \E j \in lq.hs_head + 1 .. Len(lq.hs) : lq.hs[j] = f
  <2>1. f # fd /\ conns[w][f].hs_queued
    BY <1>10, <1>11, ZenonT(60)
  <2>2. /\ conns[w][f].phase # "none"
        /\ \E j \in loop[w].hs_head + 1 .. Len(loop[w].hs) : loop[w].hs[j] = f
    BY <1>0, <2>1, ZenonT(60) DEF QueueInv, Here
  <2>3. PICK j \in loop[w].hs_head + 1 .. Len(loop[w].hs) : loop[w].hs[j] = f
    BY <2>2
  <2>4. j \in Queued(w)
    BY <2>1, <2>3, ZenonT(60) DEF Queued
  <2>5. i <= j /\ i # j
    BY <1>1, <2>1, <2>3, <2>4, ZenonT(60) DEF fd
  <2>6. i # Len(loop[w].hs) /\ j \in i + 1 .. Len(loop[w].hs)
    <3>1. loop[w].hs_head \in Nat /\ loop[w].hs \in Seq(Fds)
      BY <1>0, LoopHas, ZenonT(60)
    <3>2. Len(loop[w].hs) \in Nat
      BY ONLY <3>1
    <3> QED
      BY ONLY <1>4, <2>3, <2>5, <3>1, <3>2
  <2>7. lq.hs = loop[w].hs /\ lq.hs_head = i
    BY <1>5, <1>7, <2>6, ZenonT(60) DEF Same
  <2> QED
    BY ONLY <2>2, <2>3, <2>6, <2>7, ZenonT(60)
<1>12. /\ lq.gen = loop[w].gen /\ lq.timers = loop[w].timers /\ lq.posts = loop[w].posts
       /\ lq.polled = loop[w].polled /\ lq.paused = loop[w].paused
  BY <1>5, <1>7, ZenonT(60) DEF Same
<1>13. lq.fd \in Fds /\ conns[w][lq.fd].phase # "none"
  BY <1>0, <1>2, <1>7, ZenonT(60) DEF QueueInv, Here
<1>14. "handshake" \in Places \ Staged
  BY <1>6, ZenonT(60)
<1> QED
  BY <1>3, <1>6, <1>7, <1>8, <1>9, <1>10, <1>11, <1>12, <1>13, <1>14, QueueTurn, ZenonT(60)

\* next_handshake finds none: the queue starts over.
LEMMA NoHandshakeTurn ==
    ASSUME IInv, NEW w \in Workers, NoHandshake(w)
    PROVE  Turn(w)
<1> DEFINE n == Len(loop[w].hs)
           lq == Advanced(loop[w], n)
<1>0. KernelType /\ LoopType /\ ConnType /\ QueueInv /\ loop[w] \in GoodLoops
  BY TypeParts, ZenonT(60) DEF IInv, LoopType
<1>1. /\ pc[w] = "hs" /\ Queued(w) = {} /\ Go(w, "top", lq)
      /\ UNCHANGED <<sock, clients, backlog, sends, active, stop>>
      /\ UNCHANGED conns /\ UNCHANGED <<inbox, ids, wrong>>
  BY ZenonT(60) DEF NoHandshake, Step, kernel, others
<1>2. n \in Nat /\ n <= Len(loop[w].hs)
  <2>1. loop[w].hs \in Seq(Fds)
    BY <1>0, LoopHas, ZenonT(60)
  <2> QED
    BY ONLY <2>1
<1>3. /\ lq \in GoodLoops
      /\ lq.gen = loop[w].gen /\ lq.timers = loop[w].timers /\ lq.posts = loop[w].posts
      /\ lq.polled = loop[w].polled /\ lq.paused = loop[w].paused
  BY <1>0, <1>2, AdvancedReads, ZenonT(60)
<1> HIDE DEF lq, n
<1>4. ConnsStay(w) /\ SocksStay
  BY <1>0, <1>1, StayTrivially, ZenonT(60)
<1>5. \A f \in Fds : ~conns'[w][f].hs_queued
  <2>1. ASSUME NEW f \in Fds, conns[w][f].hs_queued PROVE FALSE
    <3>1. PICK j \in loop[w].hs_head + 1 .. Len(loop[w].hs) : loop[w].hs[j] = f
      BY <1>0, <2>1, ZenonT(60) DEF QueueInv
    <3>2. j \in Queued(w)
      BY <2>1, <3>1, ZenonT(60) DEF Queued
    <3> QED
      BY <1>1, <3>2, ZenonT(60)
  <2> QED
    BY <1>1, <2>1, ZenonT(60)
<1>6. "top" \in Places \ Staged /\ pc[w] \notin Staged /\ "top" \notin {"read", "handshake"}
  BY <1>1, ZenonT(60) DEF Places, Returns, Staged
<1> QED
  BY <1>1, <1>3, <1>4, <1>5, <1>6, QueueTurn, ZenonT(60)
-----------------------------------------------------------------------------
(* The steps of accept_all and close between accept4 and the count.        *)

\* Where accept_all has a descriptor without a connection.
Held == {"add", "setup", "undo", "drop"}

\* The generation stays or is the next.
NoLess(w) == loop'[w].gen = loop[w].gen \/ loop'[w].gen = loop[w].gen + 1

\* The count changes, or accept_all gives up: sockets and connections stay.
Onward(w) ==
    /\ UNCHANGED <<sock, conns>>
    /\ pc'[w] \in Held => pc[w] \in Held /\ loop'[w].fd = loop[w].fd
    /\ pc'[w] \notin {"read", "handshake"}
    /\ NoLess(w)

\* accept_all gets descriptor fd.
Taken(w, fd) ==
    /\ UNCHANGED conns
    /\ sock[fd].owner = Nobody /\ sock'[fd].owner = w
    /\ \A f \in Fds : f # fd => sock'[f] = sock[f]
    /\ pc'[w] \in Held /\ loop'[w].fd = fd
    /\ NoLess(w)

\* accept_all closes the descriptor it has.
Freed(w) ==
    /\ pc[w] \in Held
    /\ sock'[loop[w].fd] = Unused
    /\ \A f \in Fds : f # loop[w].fd => sock'[f] = sock[f] /\ conns'[w][f] = conns[w][f]
    /\ conns'[w][loop[w].fd] \in {conns[w][loop[w].fd], NoConn}
    /\ pc'[w] \notin Held /\ pc'[w] \notin {"read", "handshake"}
    /\ NoLess(w)

\* accept_all makes a connection for the descriptor it has.
Made(w) ==
    /\ pc[w] \in Held
    /\ UNCHANGED sock
    /\ \A f \in Fds : f # loop[w].fd => conns'[w][f] = conns[w][f]
    /\ conns'[w][loop[w].fd].gen = loop[w].gen + 1
    /\ conns'[w][loop[w].fd].phase # "none" /\ ~conns'[w][loop[w].fd].hs_queued
    /\ pc'[w] \notin Held /\ pc'[w] \notin {"read", "handshake"}
    /\ loop'[w].gen = loop[w].gen + 1

Stage(w) == Onward(w) \/ (\E fd \in Fds : Taken(w, fd)) \/ Freed(w) \/ Made(w)

\* FdInv, of one worker.
LEMMA FdFacts ==
    ASSUME FdInv, NEW v \in Workers
    PROVE  /\ \A f \in Fds : conns[v][f].phase # "none" => sock[f].owner = v
           /\ pc[v] \in Held =>
                 loop[v].fd \in Fds /\ sock[loop[v].fd].owner = v /\ conns[v][loop[v].fd].phase = "none"
           /\ pc[v] \in {"read", "handshake"} => loop[v].fd \in Fds /\ conns[v][loop[v].fd].phase # "none"
BY ZenonT(60) DEF FdInv, Here, Held

\* The descriptors of the others.
LEMMA FdOthers ==
    ASSUME FdInv, NEW w \in Workers, OthersStay(w), Stage(w), NEW v \in Workers, v # w
    PROVE  /\ \A f \in Fds : conns'[v][f].phase # "none" => sock'[f].owner = v
           /\ pc'[v] \in Held =>
                 loop'[v].fd \in Fds /\ sock'[loop'[v].fd].owner = v /\ conns'[v][loop'[v].fd].phase = "none"
           /\ pc'[v] \in {"read", "handshake"} => loop'[v].fd \in Fds /\ conns'[v][loop'[v].fd].phase # "none"
<1>1. /\ \A f \in Fds : conns[v][f].phase # "none" => sock[f].owner = v
      /\ pc[v] \in Held =>
            loop[v].fd \in Fds /\ sock[loop[v].fd].owner = v /\ conns[v][loop[v].fd].phase = "none"
      /\ pc[v] \in {"read", "handshake"} => loop[v].fd \in Fds /\ conns[v][loop[v].fd].phase # "none"
  BY FdFacts, ZenonT(60)
<1>2. pc'[v] = pc[v] /\ loop'[v] = loop[v] /\ \A f \in Fds : conns'[v][f] = conns[v][f]
  BY ZenonT(60) DEF OthersStay
<1>3. \A f \in Fds : sock[f].owner = v => sock'[f].owner = v
  <2>1. CASE UNCHANGED sock
    BY <2>1, ZenonT(60)
  <2>2. ASSUME NEW fd \in Fds, Taken(w, fd) PROVE \A f \in Fds : sock[f].owner = v => sock'[f].owner = v
    <3>1. v # Nobody
      BY LoopAssumption, ZenonT(60) DEF LoopAssumption, Nobody
    <3> QED
      BY <2>2, <3>1, ZenonT(60) DEF Taken
  <2>3. CASE Freed(w)
    <3>1. sock[loop[w].fd].owner = w
      BY <2>3, FdFacts, ZenonT(60) DEF Freed
    <3> QED
      BY <2>3, <3>1, ZenonT(60) DEF Freed
  <2> QED
    BY <2>1, <2>2, <2>3, ZenonT(60) DEF Stage, Onward, Made
<1> QED
  BY ONLY <1>1, <1>2, <1>3, ZenonT(60)

\* The descriptors of w itself.
LEMMA FdSelf ==
    ASSUME FdInv, NEW w \in Workers, OthersStay(w), Stage(w)
    PROVE  /\ \A f \in Fds : conns'[w][f].phase # "none" => sock'[f].owner = w
           /\ pc'[w] \in Held =>
                 loop'[w].fd \in Fds /\ sock'[loop'[w].fd].owner = w /\ conns'[w][loop'[w].fd].phase = "none"
           /\ pc'[w] \notin {"read", "handshake"}
<1>1. /\ \A f \in Fds : conns[w][f].phase # "none" => sock[f].owner = w
      /\ pc[w] \in Held =>
            loop[w].fd \in Fds /\ sock[loop[w].fd].owner = w /\ conns[w][loop[w].fd].phase = "none"
  BY FdFacts, ZenonT(60)
<1>2. CASE Onward(w)
  BY ONLY <1>1, <1>2, ZenonT(60) DEF Onward
<1>3. ASSUME NEW fd \in Fds, Taken(w, fd)
      PROVE  /\ \A f \in Fds : conns'[w][f].phase # "none" => sock'[f].owner = w
             /\ pc'[w] \in Held =>
                   loop'[w].fd \in Fds /\ sock'[loop'[w].fd].owner = w /\ conns'[w][loop'[w].fd].phase = "none"
             /\ pc'[w] \notin {"read", "handshake"}
  <2>1. w # Nobody
    BY LoopAssumption, ZenonT(60) DEF LoopAssumption, Nobody
  <2>2. conns[w][fd].phase = "none"
    BY <1>1, <1>3, <2>1, ZenonT(60) DEF Taken
  <2>3. pc'[w] \notin {"read", "handshake"}
    BY <1>3, ZenonT(60) DEF Taken, Held
  <2> QED
    BY <1>1, <1>3, <2>2, <2>3, ZenonT(60) DEF Taken
<1>4. CASE Freed(w)
  <2>1. conns'[w][loop[w].fd].phase = "none"
    BY <1>1, <1>4, NoConnFields, ZenonT(60) DEF Freed
  <2> QED
    BY <1>1, <1>4, <2>1, ZenonT(60) DEF Freed
<1>5. CASE Made(w)
  BY <1>1, <1>5, ZenonT(60) DEF Made
<1> QED
  BY <1>2, <1>3, <1>4, <1>5, ZenonT(60) DEF Stage

\* Both.
LEMMA FdStage ==
    ASSUME FdInv, NEW w \in Workers, OthersStay(w), Stage(w)
    PROVE  FdInv'
<1>1. ASSUME NEW v \in Workers
      PROVE  /\ \A f \in Fds : conns'[v][f].phase # "none" => sock'[f].owner = v
             /\ pc'[v] \in Held =>
                   loop'[v].fd \in Fds /\ sock'[loop'[v].fd].owner = v /\ conns'[v][loop'[v].fd].phase = "none"
             /\ pc'[v] \in {"read", "handshake"} => loop'[v].fd \in Fds /\ conns'[v][loop'[v].fd].phase # "none"
  <2>1. CASE v = w
    BY <2>1, FdSelf, ZenonT(60)
  <2>2. CASE v # w
    BY <2>2, FdOthers, ZenonT(60)
  <2> QED
    BY <2>1, <2>2
<1> QED
  BY <1>1, ZenonT(60) DEF FdInv, Here, Held

\* The generations.
LEMMA GenStage ==
    ASSUME GenInv, FdInv, LoopType, ConnType, NEW w \in Workers, OthersStay(w), Stage(w)
    PROVE  GenInv'
<1> SUFFICES ASSUME NEW v \in Workers, NEW f \in Fds PROVE conns'[v][f].gen <= loop'[v].gen
  BY ZenonT(60) DEF GenInv
<1>1. conns[v][f].gen <= loop[v].gen
  BY ZenonT(60) DEF GenInv
<1>2. CASE v # w
  BY <1>1, <1>2, ZenonT(60) DEF OthersStay
<1>3. CASE v = w
  <2>1. loop[v].gen \in Nat /\ conns[v][f].gen \in Nat
    BY LoopHas, ConnFields, ZenonT(60) DEF LoopType, ConnType
  <2>2. loop'[v].gen = loop[v].gen \/ loop'[v].gen = loop[v].gen + 1
    BY <1>3, ZenonT(60) DEF Stage, Onward, Taken, Freed, Made, NoLess
  <2>3. \/ conns'[v][f].gen = conns[v][f].gen \/ conns'[v][f].gen = 0
        \/ conns'[v][f].gen = loop[v].gen + 1 /\ loop'[v].gen = loop[v].gen + 1
    <3>1. CASE UNCHANGED conns
      BY <3>1, ZenonT(60)
    <3>2. CASE Freed(w)
      BY <1>3, <3>2, NoConnFields, ZenonT(60) DEF Freed
    <3>3. CASE Made(w)
      BY <1>3, <3>3, ZenonT(60) DEF Made
    <3> QED
      BY <3>1, <3>2, <3>3, ZenonT(60) DEF Stage, Onward, Taken
  <2> QED
    BY ONLY <1>1, <2>1, <2>2, <2>3
<1> QED
  BY <1>2, <1>3

\* The ids: a descriptor that is taken or freed has no connection, and one that
\* gets a connection gets a generation no id has.
LEMMA IdStage ==
    ASSUME FdInv, LoopType, NEW w \in Workers, OthersStay(w), Stage(w), NEW id \in Ids, IdOK(id)
    PROVE  IdOK(id)'
<1>0. id.w \in Workers /\ id.fd \in Fds /\ id.gen \in Nat
  BY ZenonT(60) DEF Ids
<1>1. id.gen <= loop[id.w].gen
      /\ ((conns[id.w][id.fd].phase # "none" /\ conns[id.w][id.fd].gen = id.gen)
             => sock[id.fd].id = id.for)
  BY ZenonT(60) DEF IdOK, Names, Here
<1>2. id.gen <= loop'[id.w].gen
  <2>1. loop[id.w].gen \in Nat
    BY <1>0, LoopHas, ZenonT(60) DEF LoopType
  <2>2. loop'[id.w].gen = loop[id.w].gen \/ loop'[id.w].gen = loop[id.w].gen + 1
    <3>1. CASE id.w # w
      BY <1>0, <3>1, ZenonT(60) DEF OthersStay
    <3>2. CASE id.w = w
      BY <3>2, ZenonT(60) DEF Stage, Onward, Taken, Freed, Made, NoLess
    <3> QED
      BY <3>1, <3>2
  <2> QED
    BY ONLY <1>0, <1>1, <2>1, <2>2
<1>3. ASSUME conns'[id.w][id.fd].phase # "none", conns'[id.w][id.fd].gen = id.gen
      PROVE  sock'[id.fd].id = id.for
  <2>1. conns'[id.w][id.fd] = conns[id.w][id.fd]
    <3>1. CASE id.w # w
      BY <1>0, <3>1, ZenonT(60) DEF OthersStay
    <3>2. CASE id.w = w /\ UNCHANGED conns
      BY <3>2, ZenonT(60)
    <3>3. CASE id.w = w /\ Freed(w)
      <4>1. conns[w][loop[w].fd].phase = "none"
        BY <3>3, FdFacts, ZenonT(60) DEF Freed
      <4>2. conns'[w][loop[w].fd].phase = "none"
        BY <3>3, <4>1, NoConnFields, ZenonT(60) DEF Freed
      <4> QED
        BY <1>0, <1>3, <3>3, <4>2, ZenonT(60) DEF Freed
    <3>4. CASE id.w = w /\ Made(w)
      <4>1. id.fd # loop[w].fd
        <5>1. SUFFICES ASSUME id.fd = loop[w].fd PROVE FALSE
          BY ZenonT(60)
        <5>2. id.gen = loop[w].gen + 1
          BY <1>3, <3>4, <5>1, ZenonT(60) DEF Made
        <5>3. loop[w].gen \in Nat /\ id.gen <= loop[w].gen
          BY <1>1, <3>4, LoopHas, ZenonT(60) DEF LoopType
        <5> QED
          BY ONLY <5>2, <5>3
      <4> QED
        BY <1>0, <3>4, <4>1, ZenonT(60) DEF Made
    <3> QED
      BY <3>1, <3>2, <3>3, <3>4, ZenonT(60) DEF Stage, Onward, Taken
  <2>2. sock[id.fd].owner = id.w /\ sock[id.fd].id = id.for
    <3>1. conns[id.w][id.fd].phase # "none" /\ conns[id.w][id.fd].gen = id.gen
      BY ONLY <1>3, <2>1, ZenonT(60)
    <3>2. sock[id.fd].owner = id.w
      BY <1>0, <3>1, FdFacts, ZenonT(60)
    <3> QED
      BY ONLY <1>1, <3>1, <3>2, ZenonT(60)
  <2>3. sock'[id.fd] = sock[id.fd]
    <3>1. CASE UNCHANGED sock
      BY <3>1, ZenonT(60)
    <3>2. ASSUME NEW fd \in Fds, Taken(w, fd) PROVE sock'[id.fd] = sock[id.fd]
      <4>1. id.w # Nobody
        BY <1>0, LoopAssumption, ZenonT(60) DEF LoopAssumption, Nobody
      <4> QED
        BY <1>0, <2>2, <3>2, <4>1, ZenonT(60) DEF Taken
    <3>3. CASE Freed(w)
      <4>1. sock[loop[w].fd].owner = w /\ conns[w][loop[w].fd].phase = "none"
        BY <3>3, FdFacts, ZenonT(60) DEF Freed
      <4>2. id.fd # loop[w].fd
        BY <1>3, <2>1, <2>2, <4>1, ZenonT(60)
      <4> QED
        BY <1>0, <3>3, <4>2, ZenonT(60) DEF Freed
    <3> QED
      BY <3>1, <3>2, <3>3, ZenonT(60) DEF Stage, Onward, Made
  <2> QED
    BY <2>2, <2>3, ZenonT(60)
<1> QED
  BY ONLY <1>2, <1>3, ZenonT(60) DEF IdOK, Names, Here

\* Such a step keeps every invariant.
LEMMA StageKeeps ==
    ASSUME IInv, NEW w \in Workers, Calm(w), Stage(w)
    PROVE  IInv'
<1>0. /\ FdInv /\ GenInv /\ IdInv /\ QueueInv /\ NoListenerLost /\ BoxType /\ LoopType /\ ConnType
      /\ Typed /\ OthersStay(w) /\ QueueStays(w) /\ PollStays(w) /\ NamesShrink(w) /\ StaysRight
  BY TypeParts, ZenonT(60) DEF IInv, Calm
<1>1. FdInv' /\ GenInv'
  BY <1>0, FdStage, GenStage, ZenonT(60)
<1>2. IdInv'
  <2>1. \A id \in Ids : IdOK(id) => IdOK(id)'
    BY <1>0, IdStage, ZenonT(60)
  <2>2. OldNames
    BY <1>0, ShrinkOld, ZenonT(60)
  <2>3. \A id \in ids' : IdOK(id)'
    BY <2>1, <2>2, ZenonT(60) DEF OldNames
  <2>4. \A v \in Workers : \A id \in inbox'[v] \cup loop'[v].timers \cup loop'[v].posts : id.w = v /\ IdOK(id)'
    BY <2>1, <2>2, ZenonT(60) DEF OldNames
  <2> QED
    BY <2>3, <2>4, ZenonT(60) DEF IdInv
<1>3. QueueInv'
  <2>1. ASSUME NEW v \in Workers, NEW f \in Fds, conns'[v][f].hs_queued
        PROVE  /\ conns'[v][f].phase # "none"
               /\ \E i \in loop'[v].hs_head + 1 .. Len(loop'[v].hs) : loop'[v].hs[i] = f
    <3>1. loop'[v].hs = loop[v].hs /\ loop'[v].hs_head = loop[v].hs_head /\ conns[v][f].hs_queued
      BY <1>0, <2>1, ZenonT(60) DEF OthersStay, QueueStays
    <3>2. /\ conns[v][f].phase # "none"
          /\ \E i \in loop[v].hs_head + 1 .. Len(loop[v].hs) : loop[v].hs[i] = f
      BY <1>0, <3>1, ZenonT(60) DEF QueueInv, Here
    <3>3. conns'[v][f].phase # "none"
      <4>1. CASE v # w
        BY <1>0, <3>2, <4>1, ZenonT(60) DEF OthersStay
      <4>2. CASE v = w /\ (Onward(w) \/ \E fd \in Fds : Taken(w, fd))
        BY <3>2, <4>2, ZenonT(60) DEF Onward, Taken
      <4>3. CASE v = w /\ Freed(w)
        BY <2>1, <3>2, <4>3, NoConnFields, ZenonT(60) DEF Freed
      <4>4. CASE v = w /\ Made(w)
        BY <3>2, <4>4, ZenonT(60) DEF Made
      <4> QED
        BY <4>1, <4>2, <4>3, <4>4, ZenonT(60) DEF Stage
    <3> QED
      BY ONLY <3>1, <3>2, <3>3, ZenonT(60)
  <2> QED
    BY <2>1, ZenonT(60) DEF QueueInv, Here
<1>4. NoListenerLost'
  BY <1>0, PollKept, ZenonT(60)
<1>5. WrongType' /\ RightConnection' /\ BoxType'
  BY <1>0, ZenonT(60) DEF StaysRight, WrongType, RightConnection, BoxType, NamesShrink
<1>6. TypeOK'
  <2>1. TypeOK' <=> KernelType' /\ PcType' /\ ConnType' /\ LoopType' /\ BoxType' /\ WrongType'
    BY TypeParts, PTL
  <2> QED
    BY <1>0, <1>5, <2>1, ZenonT(60) DEF Typed
<1> QED
  BY <1>1, <1>2, <1>3, <1>4, <1>5, <1>6, ZenonT(60) DEF IInv

\* Two Loops differ only in their generation and in what a call works on.
But(lq, lp) ==
    /\ lq.hs = lp.hs /\ lq.hs_head = lp.hs_head /\ lq.polled = lp.polled /\ lq.paused = lp.paused
    /\ lq.timers = lp.timers /\ lq.posts = lp.posts

\* Such a step disturbs neither the queue nor the listeners nor the ids.
LEMMA StageCalm ==
    ASSUME IInv, NEW w \in Workers, NEW p \in Places, NEW lp \in GoodLoops, Go(w, p, lp),
           But(lp, loop[w]), KernelType', ConnType',
           \A v \in Workers, f \in Fds : v # w => conns'[v][f] = conns[v][f],
           \A f \in Fds : conns'[w][f].hs_queued => conns[w][f].hs_queued,
           UNCHANGED <<inbox, ids, wrong>>
    PROVE  Calm(w) /\ loop'[w] = lp /\ pc'[w] = p
<1>0. PcType /\ LoopType /\ BoxType /\ WrongType /\ RightConnection
  BY TypeParts, ZenonT(60) DEF IInv
<1>1. /\ PcType' /\ LoopType'
      /\ pc'[w] = p /\ loop'[w] = lp
      /\ \A v \in Workers : v # w => pc'[v] = pc[v] /\ loop'[v] = loop[v]
  BY <1>0, GoStep, ZenonT(60)
<1>2. Typed /\ OthersStay(w)
  BY <1>1, ZenonT(60) DEF Typed, OthersStay
<1>3. QueueStays(w) /\ PollStays(w)
  BY <1>1, ZenonT(60) DEF QueueStays, PollStays, But
<1>4. NamesShrink(w)
  BY <1>0, <1>1, ZenonT(60) DEF NamesShrink, But, BoxType
<1>5. StaysRight
  BY <1>0, ZenonT(60) DEF StaysRight, WrongType, RightConnection
<1> QED
  BY <1>1, <1>2, <1>3, <1>4, <1>5, ZenonT(60) DEF Calm

\* The count changes, and nothing but the place of w.
LEMMA CountStage ==
    ASSUME IInv, NEW w \in Workers, NEW p \in Places, Goto(w, p),
           UNCHANGED <<sock, clients, backlog, sends, stop, conns, loop, inbox, ids, wrong>>,
           active' \in Int, p \in Held => pc[w] \in Held, p \notin {"read", "handshake"}
    PROVE  IInv' /\ OthersStay(w) /\ pc'[w] = p /\ loop'[w] = loop[w]
<1>0. KernelType /\ ConnType /\ LoopType /\ loop[w] \in GoodLoops
  BY TypeParts, ZenonT(60) DEF IInv, LoopType
<1>1. Go(w, p, loop[w])
  BY <1>0, ZenonT(60) DEF Go, LoopType
<1>2. KernelType' /\ ConnType'
  BY <1>0, ZenonT(60) DEF KernelType, ConnType
<1>3. But(loop[w], loop[w])
  BY ZenonT(60) DEF But
<1>4. Calm(w) /\ loop'[w] = loop[w] /\ pc'[w] = p
  BY <1>0, <1>1, <1>2, <1>3, StageCalm, ZenonT(60)
<1>5. Onward(w)
  BY <1>4, ZenonT(60) DEF Onward, NoLess
<1>6. IInv'
  BY <1>4, <1>5, StageKeeps, ZenonT(60) DEF Stage
<1> QED
  BY <1>4, <1>6, ZenonT(60) DEF Calm

\* ConnCount.try_add, its undoing, and ConnCount.release.
LEMMA CountActions ==
    ASSUME IInv, NEW w \in Workers, TryAdd(w) \/ Undo(w) \/ Release(w)
    PROVE  IInv' /\ OthersStay(w) /\ loop'[w] = loop[w]
           /\ (TryAdd(w) => pc'[w] = IF active + 1 > MaxConns THEN "undo" ELSE "setup")
           /\ (Undo(w) => pc'[w] = "drop")
           /\ (Release(w) => pc'[w] \in Returns)
<1>0. active \in Int /\ LoopType /\ loop[w].ret \in Returns
  BY TypeParts, LoopHas, ZenonT(60) DEF IInv, KernelType, LoopType
<1>1. active + 1 \in Int /\ active - 1 \in Int
  BY ONLY <1>0
<1>2. /\ Returns \cup Held \subseteq Places /\ Returns \cap Held = {}
      /\ (Returns \cup Held) \cap {"read", "handshake"} = {}
      /\ "add" \in Held /\ "undo" \in Held /\ "setup" \in Held /\ "drop" \in Held
  BY ZenonT(60) DEF Returns, Held, Places
<1>3. CASE TryAdd(w)
  <2> DEFINE p == IF active + 1 > MaxConns THEN "undo" ELSE "setup"
  <2>1. /\ pc[w] = "add" /\ Goto(w, p) /\ active' = active + 1
        /\ UNCHANGED <<sock, clients, backlog, sends, stop, conns, loop, inbox, ids, wrong>>
    BY <1>3, ZenonT(60) DEF TryAdd, kernel, others
  <2>2. p \in Held
    BY <1>2, ZenonT(60)
  <2> HIDE DEF p
  <2>3. IInv' /\ OthersStay(w) /\ pc'[w] = p /\ loop'[w] = loop[w]
    BY <1>1, <1>2, <2>1, <2>2, CountStage, ZenonT(60)
  <2>4. ~Undo(w) /\ ~Release(w)
    BY <2>1, ZenonT(60) DEF Undo, Release
  <2> QED
    BY <2>3, <2>4, ZenonT(60) DEF p
<1>4. CASE Undo(w)
  <2>1. /\ pc[w] = "undo" /\ Goto(w, "drop") /\ active' = active - 1
        /\ UNCHANGED <<sock, clients, backlog, sends, stop, conns, loop, inbox, ids, wrong>>
    BY <1>4, ZenonT(60) DEF Undo, kernel, others
  <2>2. IInv' /\ OthersStay(w) /\ pc'[w] = "drop" /\ loop'[w] = loop[w]
    BY <1>1, <1>2, <2>1, CountStage, ZenonT(60)
  <2>3. ~TryAdd(w) /\ ~Release(w)
    BY <2>1, ZenonT(60) DEF TryAdd, Release
  <2> QED
    BY <2>2, <2>3, ZenonT(60)
<1>5. CASE Release(w)
  <2>1. /\ pc[w] = "release" /\ Goto(w, loop[w].ret) /\ active' = active - 1
        /\ UNCHANGED <<sock, clients, backlog, sends, stop, conns, loop, inbox, ids, wrong>>
    BY <1>5, ZenonT(60) DEF Release, kernel, others
  <2>2. IInv' /\ OthersStay(w) /\ pc'[w] = loop[w].ret /\ loop'[w] = loop[w]
    BY <1>0, <1>1, <1>2, <2>1, CountStage, ZenonT(60)
  <2>3. ~TryAdd(w) /\ ~Undo(w)
    BY <2>1, ZenonT(60) DEF TryAdd, Undo
  <2> QED
    BY <1>0, <2>2, <2>3, ZenonT(60)
<1> QED
  BY <1>3, <1>4, <1>5

\* The Loop of a worker with its next generation, and with a descriptor.
LEMMA NextGenReads ==
    ASSUME LoopType, NEW w \in Workers
    PROVE  /\ loop[w] \in GoodLoops /\ NextGen(w) \in GoodLoops
           /\ But(NextGen(w), loop[w]) /\ NextGen(w).gen = loop[w].gen + 1
           /\ NextGen(w).fd = loop[w].fd
           /\ \A fd \in Fds : LET lq == [loop[w] EXCEPT !.fd = fd] IN
                 lq \in GoodLoops /\ But(lq, loop[w]) /\ lq.fd = fd /\ lq.gen = loop[w].gen
<1>1. loop[w] \in GoodLoops /\ loop[w].gen \in Nat
  BY LoopHas, ZenonT(60) DEF LoopType
<1>2. loop[w].gen + 1 \in Nat
  BY ONLY <1>1
<1>3. NextGen(w) \in GoodLoops
  BY <1>1, <1>2, LoopFields, ZenonT(60) DEF NextGen
<1>4. But(NextGen(w), loop[w]) /\ NextGen(w).gen = loop[w].gen + 1 /\ NextGen(w).fd = loop[w].fd
  BY <1>1, ZenonT(60) DEF NextGen, GoodLoops, Loops, But
<1>5. ASSUME NEW fd \in Fds
      PROVE  LET lq == [loop[w] EXCEPT !.fd = fd] IN
             lq \in GoodLoops /\ But(lq, loop[w]) /\ lq.fd = fd /\ lq.gen = loop[w].gen
  <2> DEFINE lq == [loop[w] EXCEPT !.fd = fd]
  <2>1. fd \in 0 .. MaxFd
    BY ONLY fd \in Fds DEF Fds
  <2>2. lq \in GoodLoops
    BY <1>1, <2>1, LoopFields, ZenonT(60)
  <2>3. Same(lq, loop[w]) /\ lq.fd = fd
    BY <1>1, LoopReads, ZenonT(60)
  <2> HIDE DEF lq
  <2>4. lq \in GoodLoops /\ But(lq, loop[w]) /\ lq.fd = fd /\ lq.gen = loop[w].gen
    BY <2>2, <2>3, ZenonT(60) DEF Same, But
  <2> QED
    BY <2>4, ZenonT(60) DEF lq
<1> QED
  BY <1>1, <1>3, <1>4, <1>5, ZenonT(60)

\* tls_start fails.
LEMMA SetupTlsFailStage ==
    ASSUME IInv, NEW w \in Workers, SetupTlsFail(w)
    PROVE  IInv' /\ OthersStay(w) /\ pc'[w] = (IF Counted THEN "undo" ELSE "drop")
           /\ loop'[w].fd = loop[w].fd
<1> DEFINE p == IF Counted THEN "undo" ELSE "drop"
<1>0. KernelType /\ ConnType /\ LoopType
  BY TypeParts, ZenonT(60) DEF IInv
<1>1. /\ pc[w] = "setup" /\ Go(w, p, NextGen(w))
      /\ UNCHANGED <<sock, clients, backlog, sends, active, stop, conns>> /\ UNCHANGED <<inbox, ids, wrong>>
  BY ZenonT(60) DEF SetupTlsFail, Step, kernel, others
<1>2. p \in Held /\ p \in Places /\ "setup" \in Held /\ p \notin {"read", "handshake"}
  BY ZenonT(60) DEF Held, Places
<1> HIDE DEF p
<1>3. KernelType' /\ ConnType'
  BY <1>0, <1>1, ZenonT(60) DEF KernelType, ConnType
<1>4. /\ NextGen(w) \in GoodLoops /\ But(NextGen(w), loop[w])
      /\ NextGen(w).gen = loop[w].gen + 1 /\ NextGen(w).fd = loop[w].fd
  BY <1>0, NextGenReads, ZenonT(60)
<1>5. Calm(w) /\ loop'[w] = NextGen(w) /\ pc'[w] = p
  BY <1>1, <1>2, <1>3, <1>4, StageCalm, ZenonT(60)
<1>6. Onward(w)
  BY <1>1, <1>2, <1>4, <1>5, ZenonT(60) DEF Onward, NoLess
<1>7. IInv'
  BY <1>5, <1>6, StageKeeps, ZenonT(60) DEF Stage
<1> QED
  BY <1>4, <1>5, <1>7, ZenonT(60) DEF Calm, p

\* accept4 returns a connection.
LEMMA AcceptStage ==
    ASSUME IInv, NEW w \in Workers, Accept(w)
    PROVE  /\ IInv' /\ OthersStay(w) /\ UNCHANGED <<conns, active>> /\ pc[w] = "accept"
           /\ \E fd \in Fds :
                 /\ sock[fd].owner = Nobody /\ sock'[fd].owner = w
                 /\ \A f \in Fds : f # fd => sock'[f] = sock[f]
                 /\ pc'[w] = (IF Counted THEN "add" ELSE "setup") /\ loop'[w].fd = fd
<1> DEFINE l == loop[w].lst
           p == IF Counted THEN "add" ELSE "setup"
           k == [Unused EXCEPT !.owner = w, !.id = Head(backlog[w][l])]
<1>0. KernelType /\ ConnType /\ LoopType /\ LoopType
  BY TypeParts, ZenonT(60) DEF IInv
<1>1. /\ pc[w] = "accept" /\ backlog[w][l] # <<>>
      /\ backlog' = [backlog EXCEPT ![w][l] = Tail(@)]
      /\ UNCHANGED <<clients, sends, active, stop, conns>> /\ UNCHANGED <<inbox, ids, wrong>>
  BY ZenonT(60) DEF Accept, others
<1>2. PICK fd \in Fds :
          /\ sock[fd].owner = Nobody
          /\ sock' = [sock EXCEPT ![fd] = k]
          /\ Go(w, p, [loop[w] EXCEPT !.fd = fd])
  BY ZenonT(60) DEF Accept, FreeFds
<1>3. backlog' \in [Workers -> [Listeners -> Seq(Nat)]] /\ Head(backlog[w][l]) \in Nat
  <2>1. l \in Listeners /\ backlog \in [Workers -> [Listeners -> Seq(Nat)]]
    BY <1>0, LoopHas, ZenonT(60) DEF LoopType, KernelType
  <2>2. backlog[w][l] \in Seq(Nat)
    BY ONLY <2>1, w \in Workers, ZenonT(60)
  <2>3. Tail(backlog[w][l]) \in Seq(Nat) /\ Head(backlog[w][l]) \in Nat
    BY ONLY <1>1, <2>2
  <2> QED
    BY <1>1, <2>1, <2>3, ZenonT(60)
<1>4. k \in Socks /\ k.owner = w
  <2>1. 0 \in Nat
    OBVIOUS
  <2> QED
    BY <1>3, <2>1, ZenonT(60) DEF Unused, Socks
<1>5. p \in Held /\ p \in Places
  BY ZenonT(60) DEF Held, Places
<1> HIDE DEF l, p, k
<1>6. /\ sock' \in [Fds -> Socks] /\ sock'[fd] = k
      /\ \A f \in Fds : f # fd => sock'[f] = sock[f]
  BY <1>0, <1>2, <1>4, SockStep, ZenonT(60) DEF KernelType
<1>7. KernelType' /\ ConnType'
  BY <1>0, <1>1, <1>3, <1>6, ZenonT(60) DEF KernelType, ConnType
<1> DEFINE lq == [loop[w] EXCEPT !.fd = fd]
<1>8. lq \in GoodLoops /\ But(lq, loop[w]) /\ lq.fd = fd /\ lq.gen = loop[w].gen
  BY <1>0, NextGenReads, ZenonT(60)
<1>9. Go(w, p, lq)
  BY <1>2
<1> HIDE DEF lq
<1>10. Calm(w) /\ loop'[w] = lq /\ pc'[w] = p
  BY <1>1, <1>5, <1>7, <1>8, <1>9, StageCalm, ZenonT(60)
<1>11. Taken(w, fd)
  BY <1>1, <1>2, <1>4, <1>5, <1>6, <1>8, <1>10, ZenonT(60) DEF Taken, NoLess
<1>12. IInv'
  BY <1>10, <1>11, StageKeeps, ZenonT(60) DEF Stage
<1>13. /\ sock[fd].owner = Nobody /\ sock'[fd].owner = w
       /\ \A f \in Fds : f # fd => sock'[f] = sock[f]
       /\ pc'[w] = p /\ loop'[w].fd = fd
  BY <1>2, <1>4, <1>6, <1>8, <1>10, ZenonT(60)
<1> QED
  BY <1>1, <1>10, <1>12, <1>13, ZenonT(60) DEF Calm, p

\* A connection is refused.
LEMMA DropStage ==
    ASSUME IInv, NEW w \in Workers, Drop(w)
    PROVE  /\ IInv' /\ OthersStay(w) /\ UNCHANGED <<conns, active>> /\ pc[w] = "drop" /\ pc'[w] = "accept"
           /\ sock'[loop[w].fd].owner = Nobody /\ \A f \in Fds : f # loop[w].fd => sock'[f] = sock[f]
<1> DEFINE fd == loop[w].fd
<1>0. KernelType /\ ConnType /\ LoopType /\ FdInv /\ loop[w] \in GoodLoops
  BY TypeParts, ZenonT(60) DEF IInv, LoopType
<1>1. /\ pc[w] = "drop" /\ sock' = [sock EXCEPT ![fd] = Unused] /\ Goto(w, "accept")
      /\ UNCHANGED <<clients, backlog, sends, active, stop, conns, loop>> /\ UNCHANGED <<inbox, ids, wrong>>
  BY ZenonT(60) DEF Drop, others
<1>2. "drop" \in Held /\ "accept" \in Places /\ "accept" \notin Held /\ "accept" \notin {"read", "handshake"}
  BY ZenonT(60) DEF Held, Places, Returns
<1>3. fd \in Fds
  BY <1>0, <1>1, <1>2, FdFacts, ZenonT(60)
<1> HIDE DEF fd
<1>4. /\ sock' \in [Fds -> Socks] /\ sock'[fd] = Unused
      /\ \A f \in Fds : f # fd => sock'[f] = sock[f]
  BY <1>0, <1>1, <1>3, FirstTypes, SockStep, ZenonT(60) DEF KernelType
<1>5. KernelType' /\ ConnType'
  BY <1>0, <1>1, <1>4, ZenonT(60) DEF KernelType, ConnType
<1>6. Go(w, "accept", loop[w]) /\ But(loop[w], loop[w])
  BY <1>0, <1>1, ZenonT(60) DEF Go, LoopType, But
<1>7. Calm(w) /\ loop'[w] = loop[w] /\ pc'[w] = "accept"
  BY <1>0, <1>1, <1>2, <1>5, <1>6, StageCalm, ZenonT(60)
<1>8. Freed(w)
  BY <1>1, <1>2, <1>4, <1>7, ZenonT(60) DEF Freed, NoLess, fd
<1>9. IInv'
  BY <1>7, <1>8, StageKeeps, ZenonT(60) DEF Stage
<1>10. Unused.owner = Nobody
  BY DEF Unused
<1> QED
  BY <1>1, <1>4, <1>7, <1>9, <1>10, ZenonT(60) DEF Calm, fd

\* epoll_ctl fails: the connection is closed before anything reached it.
LEMMA SetupEpollFailStage ==
    ASSUME IInv, NEW w \in Workers, SetupEpollFail(w)
    PROVE  /\ IInv' /\ OthersStay(w) /\ UNCHANGED active /\ pc[w] = "setup"
           /\ pc'[w] = (IF Counted THEN "release" ELSE "accept")
           /\ sock'[loop[w].fd] = Unused /\ \A f \in Fds : f # loop[w].fd => sock'[f] = sock[f]
           /\ conns'[w][loop[w].fd] = NoConn
           /\ \A f \in Fds : f # loop[w].fd => conns'[w][f] = conns[w][f]
<1> DEFINE fd == loop[w].fd
           lq == [NextGen(w) EXCEPT !.ret = "accept"]
           p == IF Counted THEN "release" ELSE "accept"
<1>0. KernelType /\ PcType /\ ConnType /\ LoopType /\ FdInv
  BY TypeParts, ZenonT(60) DEF IInv
<1>1. /\ pc[w] = "setup" /\ CloseConn(w, fd, "accept", NextGen(w))
      /\ UNCHANGED <<clients, backlog, sends, active, stop>> /\ UNCHANGED <<inbox, ids, wrong>>
  BY ZenonT(60) DEF SetupEpollFail, rest, others
<1>2. /\ "setup" \in Held /\ p \in Places /\ p \notin Held /\ p \notin {"read", "handshake"}
      /\ "accept" \in Returns
  BY ZenonT(60) DEF Held, Places, Returns
<1>3. fd \in Fds
  BY <1>0, <1>1, <1>2, FdFacts, ZenonT(60)
<1>4. /\ NextGen(w) \in GoodLoops /\ But(NextGen(w), loop[w]) /\ NextGen(w).gen = loop[w].gen + 1
  BY <1>0, NextGenReads, ZenonT(60)
<1>5. lq \in GoodLoops /\ Same(lq, NextGen(w))
  BY <1>2, <1>4, LoopFields, LoopReads, ZenonT(60)
<1>6. /\ sock' \in [Fds -> Socks] /\ ConnType'
      /\ sock'[fd] = Unused /\ \A f \in Fds : f # fd => sock'[f] = sock[f]
      /\ conns'[w][fd] = NoConn
      /\ \A v \in Workers, f \in Fds : v # w \/ f # fd => conns'[v][f] = conns[v][f]
  <2> HIDE DEF fd
  <2>1. sock \in [Fds -> Socks]
    BY <1>0, ZenonT(60) DEF KernelType
  <2> DEFINE lr == NextGen(w)
  <2>2. lr \in GoodLoops /\ CloseConn(w, fd, "accept", lr)
    BY <1>1, <1>4, ZenonT(60)
  <2> HIDE DEF lr
  <2>3. /\ sock' \in [Fds -> Socks] /\ PcType' /\ LoopType' /\ ConnType'
        /\ sock'[fd] = Unused /\ \A f \in Fds : f # fd => sock'[f] = sock[f]
        /\ conns'[w][fd] = NoConn
        /\ \A v \in Workers, f \in Fds : v # w \/ f # fd => conns'[v][f] = conns[v][f]
        /\ pc'[w] = (IF Counted THEN "release" ELSE "accept")
        /\ loop'[w] = [lr EXCEPT !.ret = "accept"]
        /\ \A v \in Workers : v # w => pc'[v] = pc[v] /\ loop'[v] = loop[v]
    BY <1>0, <1>2, <1>3, <2>1, <2>2, CloseStep, ZenonT(60)
  <2> QED
    BY ONLY <2>3
<1>7. Go(w, p, lq)
  BY <1>1, ZenonT(60) DEF CloseConn
<1> HIDE DEF lq, p, fd
<1>8. But(lq, loop[w]) /\ lq.gen = loop[w].gen + 1
  BY <1>4, <1>5, ZenonT(60) DEF But, Same
<1>9. KernelType'
  BY <1>0, <1>1, <1>6, ZenonT(60) DEF KernelType
<1>10. \A f \in Fds : conns'[w][f].hs_queued => conns[w][f].hs_queued
  BY <1>6, NoConnFields, ZenonT(60)
<1>11. Calm(w) /\ loop'[w] = lq /\ pc'[w] = p
  BY <1>1, <1>2, <1>5, <1>6, <1>7, <1>8, <1>9, <1>10, StageCalm, ZenonT(60)
<1>12. Freed(w)
  BY <1>1, <1>2, <1>6, <1>8, <1>11, ZenonT(60) DEF Freed, NoLess, fd
<1>13. IInv'
  BY <1>11, <1>12, StageKeeps, ZenonT(60) DEF Stage
<1> QED
  BY <1>1, <1>6, <1>11, <1>13, ZenonT(60) DEF Calm, fd, p

\* The connection is set up.
LEMMA SetupStage ==
    ASSUME IInv, NEW w \in Workers, Setup(w)
    PROVE  /\ IInv' /\ OthersStay(w) /\ UNCHANGED <<active, sock>> /\ pc[w] = "setup" /\ pc'[w] = "accept"
           /\ conns'[w][loop[w].fd].phase # "none"
           /\ \A f \in Fds : f # loop[w].fd => conns'[w][f] = conns[w][f]
<1> DEFINE fd == loop[w].fd
           ph == IF loop[w].lst \in TlsListeners THEN "fresh" ELSE "open"
           k == [NoConn EXCEPT !.gen = loop[w].gen + 1, !.phase = ph]
<1>0. KernelType /\ PcType /\ ConnType /\ LoopType /\ FdInv
  BY TypeParts, ZenonT(60) DEF IInv
<1>1. /\ pc[w] = "setup" /\ conns' = [conns EXCEPT ![w][fd] = k] /\ Go(w, "accept", NextGen(w))
      /\ UNCHANGED <<sock, clients, backlog, sends, active, stop>> /\ UNCHANGED <<inbox, ids, wrong>>
  BY ZenonT(60) DEF Setup, kernel, others
<1>2. "setup" \in Held /\ "accept" \in Places /\ "accept" \notin Held /\ "accept" \notin {"read", "handshake"}
  BY ZenonT(60) DEF Held, Places, Returns
<1>3. fd \in Fds
  BY <1>0, <1>1, <1>2, FdFacts, ZenonT(60)
<1>4. k \in Conns /\ k.gen = loop[w].gen + 1 /\ k.phase # "none" /\ k.hs_queued = FALSE
  <2>1. loop[w].gen \in Nat
    BY <1>0, LoopHas, ZenonT(60) DEF LoopType
  <2>2. loop[w].gen + 1 \in Nat
    BY ONLY <2>1
  <2>3. ph \in {"fresh", "open"}
    BY ZenonT(60)
  <2> HIDE DEF ph
  <2>4. NoConn \in Conns /\ NoConn.hs_queued = FALSE
    BY FirstTypes, NoConnFields, ZenonT(60)
  <2>5. k \in Conns
    BY <2>2, <2>3, <2>4, ZenonT(60) DEF Conns
  <2>6. k.gen = loop[w].gen + 1 /\ k.phase = ph /\ k.hs_queued = NoConn.hs_queued
    BY <2>4, ZenonT(60) DEF Conns
  <2> QED
    BY <2>3, <2>4, <2>5, <2>6, ZenonT(60)
<1>5. /\ NextGen(w) \in GoodLoops /\ But(NextGen(w), loop[w]) /\ NextGen(w).gen = loop[w].gen + 1
  BY <1>0, NextGenReads, ZenonT(60)
<1> HIDE DEF k, fd
<1>6. /\ ConnType' /\ conns'[w][fd] = k
      /\ \A v \in Workers, f \in Fds : v # w \/ f # fd => conns'[v][f] = conns[v][f]
  BY <1>0, <1>1, <1>3, <1>4, ConnStep, ZenonT(60)
<1>7. KernelType'
  BY <1>0, <1>1, ZenonT(60) DEF KernelType
<1>8. \A f \in Fds : conns'[w][f].hs_queued => conns[w][f].hs_queued
  BY <1>4, <1>6, ZenonT(60)
<1>9. Calm(w) /\ loop'[w] = NextGen(w) /\ pc'[w] = "accept"
  BY <1>1, <1>2, <1>5, <1>6, <1>7, <1>8, StageCalm, ZenonT(60)
<1>10. Made(w)
  BY <1>1, <1>2, <1>4, <1>5, <1>6, <1>9, ZenonT(60) DEF Made, fd
<1>11. IInv'
  BY <1>9, <1>10, StageKeeps, ZenonT(60) DEF Stage
<1> QED
  BY <1>1, <1>4, <1>6, <1>9, <1>11, ZenonT(60) DEF Calm, fd
-----------------------------------------------------------------------------
(* Clients, threads that post, and the whole.                              *)

\* What happens outside the workers.
Outside ==
    /\ UNCHANGED <<pc, conns, loop, active>> /\ wrong' = wrong
    /\ KernelType' /\ BoxType'
    /\ \A f \in Fds : sock'[f].owner = sock[f].owner /\ sock'[f].id = sock[f].id

\* It keeps every invariant.
LEMMA OutsideKeeps ==
    ASSUME IInv, Outside, OldNames
    PROVE  IInv'
<1>0. /\ KernelType /\ PcType /\ ConnType /\ LoopType /\ WrongType /\ RightConnection
      /\ FdInv /\ GenInv /\ QueueInv /\ NoListenerLost
  BY TypeParts, ZenonT(60) DEF IInv
<1>1. UNCHANGED <<pc, conns, loop>> /\ \A f \in Fds : sock'[f].owner = sock[f].owner /\ sock'[f].id = sock[f].id
  BY ZenonT(60) DEF Outside
<1>2. FdInv'
  <2>1. ASSUME NEW v \in Workers
        PROVE  /\ \A f \in Fds : conns'[v][f].phase # "none" => sock'[f].owner = v
               /\ pc'[v] \in Held =>
                     loop'[v].fd \in Fds /\ sock'[loop'[v].fd].owner = v /\ conns'[v][loop'[v].fd].phase = "none"
               /\ pc'[v] \in {"read", "handshake"} => loop'[v].fd \in Fds /\ conns'[v][loop'[v].fd].phase # "none"
    <3>1. /\ \A f \in Fds : conns[v][f].phase # "none" => sock[f].owner = v
          /\ pc[v] \in Held =>
                loop[v].fd \in Fds /\ sock[loop[v].fd].owner = v /\ conns[v][loop[v].fd].phase = "none"
          /\ pc[v] \in {"read", "handshake"} => loop[v].fd \in Fds /\ conns[v][loop[v].fd].phase # "none"
      BY <1>0, FdFacts, ZenonT(60)
    <3> QED
      BY ONLY <1>1, <3>1, ZenonT(60)
  <2> QED
    BY <2>1, ZenonT(60) DEF FdInv, Here, Held
<1>3. GenInv' /\ NoListenerLost'
  BY <1>0, <1>1, ZenonT(60) DEF GenInv, NoListenerLost
<1>4. QueueInv'
  BY <1>0, <1>1, ZenonT(60) DEF QueueInv, Here
<1>5. IdInv'
  <2>1. ASSUME NEW id \in Ids, IdOK(id) PROVE IdOK(id)'
    <3>1. id.fd \in Fds
      BY ZenonT(60) DEF Ids
    <3>2. sock'[id.fd].id = sock[id.fd].id
      BY <1>1, <3>1, ZenonT(60)
    <3> QED
      BY <1>1, <2>1, <3>2, ZenonT(60) DEF IdOK, Names, Here
  <2>2. \A id \in ids' : IdOK(id)'
    BY <2>1, ZenonT(60) DEF OldNames
  <2>3. \A v \in Workers : \A id \in inbox'[v] \cup loop'[v].timers \cup loop'[v].posts : id.w = v /\ IdOK(id)'
    BY <2>1, ZenonT(60) DEF OldNames
  <2> QED
    BY <2>2, <2>3, ZenonT(60) DEF IdInv
<1>6. WrongType' /\ RightConnection'
  BY <1>0, ZenonT(60) DEF Outside, WrongType, RightConnection
<1>7. TypeOK'
  <2>1. TypeOK' <=> KernelType' /\ PcType' /\ ConnType' /\ LoopType' /\ BoxType' /\ WrongType'
    BY TypeParts, PTL
  <2>2. PcType' /\ ConnType' /\ LoopType'
    BY <1>0, <1>1, ZenonT(60) DEF PcType, ConnType, LoopType
  <2> QED
    BY <1>6, <2>1, <2>2, ZenonT(60) DEF Outside
<1> QED
  BY <1>2, <1>3, <1>4, <1>5, <1>6, <1>7, ZenonT(60) DEF IInv

\* Ids that stay where they are.
LEMMA NamesStay ==
    ASSUME IInv, UNCHANGED <<inbox, ids, loop>>
    PROVE  OldNames /\ BoxType'
<1>1. BoxType
  BY TypeParts, ZenonT(60) DEF IInv
<1> QED
  BY <1>1, IdsNow, ZenonT(60) DEF OldNames, BoxType

\* A client connects, sends or resets; the server is asked to stop.
LEMMA ClientKeeps ==
    ASSUME IInv,
           \/ \E w \in Workers, l \in Listeners : ClientConnect(w, l)
           \/ \E fd \in Fds : ClientSend(fd) \/ ClientReset(fd)
           \/ RequestStop
    PROVE  IInv' /\ Outside
<1>0. KernelType
  BY TypeParts, ZenonT(60) DEF IInv
<1>1. clients \in Nat /\ sends \in Nat /\ backlog \in [Workers -> [Listeners -> Seq(Nat)]]
  BY <1>0, ZenonT(60) DEF KernelType
<1>2. clients + 1 \in Nat /\ sends + 1 \in Nat
  BY ONLY <1>1
<1>3. UNCHANGED <<pc, conns, loop, active, inbox, ids>> /\ wrong' = wrong
  BY ZenonT(60) DEF ClientConnect, ClientSend, ClientReset, RequestStop, others
<1>4. KernelType' /\ \A f \in Fds : sock'[f].owner = sock[f].owner /\ sock'[f].id = sock[f].id
  <2>1. ASSUME NEW w \in Workers, NEW l \in Listeners, ClientConnect(w, l)
        PROVE  KernelType' /\ \A f \in Fds : sock'[f].owner = sock[f].owner /\ sock'[f].id = sock[f].id
    <3>1. backlog[w][l] \in Seq(Nat)
      BY <1>1, ZenonT(60)
    <3>2. Append(backlog[w][l], clients + 1) \in Seq(Nat)
      BY ONLY <1>2, <3>1
    <3>3. backlog' \in [Workers -> [Listeners -> Seq(Nat)]]
      BY <1>1, <2>1, <3>2, ZenonT(60) DEF ClientConnect
    <3>4. clients' = clients + 1 /\ UNCHANGED <<sock, sends, active, stop>>
      BY <2>1, ZenonT(60) DEF ClientConnect
    <3> QED
      BY <1>0, <1>2, <3>3, <3>4, ZenonT(60) DEF KernelType
  <2>2. ASSUME NEW fd \in Fds, ClientSend(fd) \/ ClientReset(fd)
        PROVE  SocksStay
    <3>1. /\ \/ sock' = [sock EXCEPT ![fd].in = TRUE]
             \/ sock' = [sock EXCEPT ![fd].hup = TRUE]
          /\ clients' = clients /\ backlog' = backlog /\ stop' = stop
          /\ sends' = sends \/ sends' = sends + 1
      BY <2>2, ZenonT(60) DEF ClientSend, ClientReset
    <3>2. clients' \in Nat /\ sends' \in Nat /\ stop' \in BOOLEAN /\ backlog' \in [Workers -> [Listeners -> Seq(Nat)]]
      BY <1>0, <1>1, <1>2, <3>1, ZenonT(60) DEF KernelType
    <3>3. TRUE \in BOOLEAN
      OBVIOUS
    <3> QED
      BY <1>0, <1>3, <3>1, <3>2, <3>3, SockTouch, ZenonT(60)
  <2>3. CASE RequestStop
    BY <1>0, <2>3, ZenonT(60) DEF RequestStop, KernelType, kernel
  <2> QED
    BY <2>1, <2>2, <2>3, ZenonT(60) DEF SocksStay
<1>5. OldNames /\ BoxType'
  BY <1>3, NamesStay, ZenonT(60)
<1>6. Outside
  BY <1>3, <1>4, <1>5, ZenonT(60) DEF Outside
<1> QED
  BY <1>5, <1>6, OutsideKeeps, ZenonT(60)

\* Hub.post for one connection.
LEMMA PostKeeps ==
    ASSUME IInv, NEW id \in ids, PostTo(id)
    PROVE  IInv' /\ Outside
<1>0. KernelType /\ BoxType
  BY TypeParts, ZenonT(60) DEF IInv
<1>1. /\ ids' = ids \ {id} /\ inbox' = [inbox EXCEPT ![id.w] = @ \cup {id}]
      /\ UNCHANGED <<sock, clients, backlog, sends, active, stop, pc, conns, loop>> /\ wrong' = wrong
  BY ZenonT(60) DEF PostTo, kernel
<1>2. id \in Ids /\ IdOK(id) /\ id.w \in Workers
  <2>1. id \in Ids /\ IdOK(id)
    BY IdsNow, ZenonT(60)
  <2> QED
    BY <2>1, ZenonT(60) DEF Ids
<1>3. /\ inbox' \in [Workers -> SUBSET Ids]
      /\ \A v \in Workers : \A i \in inbox'[v] : i \in inbox[v] \/ (i = id /\ v = id.w)
  BY <1>0, <1>1, <1>2, ZenonT(60) DEF BoxType
<1>4. BoxType' /\ KernelType'
  BY <1>0, <1>1, <1>3, ZenonT(60) DEF BoxType, KernelType
<1>5. OldNames
  <2>1. ASSUME NEW v \in Workers, NEW i \in inbox'[v] \cup loop'[v].timers \cup loop'[v].posts
        PROVE  i \in Ids /\ i.w = v /\ IdOK(i)
    <3>1. i \in inbox[v] \cup loop[v].timers \cup loop[v].posts \/ (i = id /\ v = id.w)
      BY <1>1, <1>3, <2>1, ZenonT(60)
    <3> QED
      BY <1>2, <3>1, IdsNow, ZenonT(60)
  <2> QED
    BY <1>1, <2>1, IdsNow, ZenonT(60) DEF OldNames
<1>6. Outside
  BY <1>1, <1>4, ZenonT(60) DEF Outside
<1> QED
  BY <1>5, <1>6, OutsideKeeps, ZenonT(60)

\* Every step of a turn outside accept_all is quiet or closes a connection.
LEMMA TurnActions ==
    ASSUME IInv, NEW w \in Workers,
           \/ Poll(w) \/ OnEvent(w) \/ BatchEnd(w)
           \/ (\E id \in loop[w].posts : Deliver(w, id)) \/ DrainEnd(w)
           \/ AcceptFull(w) \/ AcceptNone(w) \/ Read(w) \/ Handshake(w)
           \/ (\E t \in loop[w].timers : Fire(w, t)) \/ FireEnd(w)
           \/ Sweep(w) \/ SweepFail(w) \/ (\E fd \in Fds : SweepClose(w, fd)) \/ SweepEnd(w)
           \/ NextHandshake(w) \/ NoHandshake(w)
           \/ (\E fd \in Fds : EndClose(w, fd)) \/ WorkerEnd(w)
    PROVE  Turn(w)
<1>1. ASSUME Calm(w) /\ Quiet(w) PROVE Turn(w)
  BY <1>1, CalmTurn, ZenonT(60)
<1>2. CASE \/ Poll(w) \/ BatchEnd(w) \/ DrainEnd(w) \/ AcceptNone(w) \/ FireEnd(w)
           \/ SweepEnd(w) \/ WorkerEnd(w)
  BY <1>1, <1>2, PlainActions, ZenonT(60)
<1>3. CASE OnEvent(w)
  <2>1. PICK e \in loop[w].batch :
            OnInbox(w, e) \/ OnListener(w, e) \/ OnGone(w, e) \/ OnHup(w, e) \/ OnInput(w, e)
    BY <1>3, ZenonT(60) DEF OnEvent
  <2>2. pc[w] = "batch"
    BY <1>3, ZenonT(60) DEF OnEvent
  <2>3. CASE OnListener(w, e) \/ OnGone(w, e)
    BY <1>1, <2>2, <2>3, PlainActions, ZenonT(60)
  <2> QED
    BY <2>1, <2>2, <2>3, OnInboxTurn, OnHupTurn, OnInputTurn, ZenonT(60)
<1>4. CASE (\E id \in loop[w].posts : Deliver(w, id)) \/ (\E t \in loop[w].timers : Fire(w, t))
  BY <1>4, DeliverTurn, FireTurn, ZenonT(60)
<1>5. CASE AcceptFull(w) \/ Sweep(w) \/ SweepFail(w)
  BY <1>5, AcceptFullTurn, SweepTurn, ZenonT(60)
<1>6. CASE Read(w) \/ Handshake(w)
  BY <1>6, ReadTurn, HandshakeTurn, ZenonT(60)
<1>7. CASE NextHandshake(w) \/ NoHandshake(w)
  BY <1>7, NextHandshakeTurn, NoHandshakeTurn, ZenonT(60)
<1>8. CASE (\E fd \in Fds : SweepClose(w, fd)) \/ (\E fd \in Fds : EndClose(w, fd))
  BY <1>8, CloseTurn, ZenonT(60)
<1> QED
  BY <1>2, <1>3, <1>4, <1>5, <1>6, <1>7, <1>8, ZenonT(60)

\* The others keep the invariants too.
LEMMA WorkerKeeps ==
    ASSUME IInv, NEW w \in Workers, WorkerNext(w)
    PROVE  IInv'
<1>1. CASE TryAdd(w) \/ Undo(w) \/ Release(w)
  BY <1>1, CountActions, ZenonT(60)
<1>2. CASE Accept(w) \/ Drop(w) \/ Setup(w) \/ SetupTlsFail(w) \/ SetupEpollFail(w)
  BY <1>2, AcceptStage, DropStage, SetupStage, SetupTlsFailStage, SetupEpollFailStage, ZenonT(60)
<1>3. CASE Turn(w)
  BY <1>3, ZenonT(60) DEF Turn
<1> QED
  BY <1>1, <1>2, <1>3, TurnActions, ZenonT(60) DEF WorkerNext

\* The server starts with them.
LEMMA InitKeeps ==
    ASSUME Init
    PROVE  IInv
<1>0. 0 \in Nat /\ 0 \in Int /\ 0 <= Len(<<>>) /\ <<>> \in Seq(Fds) /\ <<>> \in Seq(Nat) /\ 0 <= 0
      /\ 0 \in 0 .. MaxFd
  BY ONLY Bounds, ZenonT(60)
<1>1. NewLoop \in GoodLoops /\ NewLoop.gen = 0 /\ NewLoop.timers = {} /\ NewLoop.posts = {}
      /\ NewLoop.polled = Listeners
  <2>1. (CHOOSE l \in Listeners : TRUE) \in Listeners
    BY LoopAssumption, ZenonT(60) DEF LoopAssumption
  <2>2. NewLoop \in Loops
    BY <1>0, <2>1, ZenonT(60) DEF NewLoop, Loops, Returns
  <2>3. NewLoop.hs = <<>> /\ NewLoop.hs_head = 0
    BY ZenonT(60) DEF NewLoop
  <2>4. NewLoop \in GoodLoops
    BY <1>0, <2>2, <2>3, ZenonT(60) DEF GoodLoops
  <2>5. NewLoop.gen = 0 /\ NewLoop.timers = {} /\ NewLoop.posts = {} /\ NewLoop.polled = Listeners
    BY ZenonT(60) DEF NewLoop
  <2> QED
    BY <2>4, <2>5
<1>2. \A w \in Workers : loop[w] = NewLoop /\ pc[w] = "top" /\ inbox[w] = {} /\ \A fd \in Fds : conns[w][fd] = NoConn
  BY ZenonT(60) DEF Init
<1>3. KernelType
  BY <1>0, FirstTypes, ZenonT(60) DEF Init, KernelType
<1>4. PcType /\ ConnType /\ LoopType /\ BoxType /\ WrongType
  BY <1>1, FirstTypes, ZenonT(60) DEF Init, PcType, ConnType, LoopType, BoxType, WrongType, Places, Returns
<1>5. FdInv
  BY <1>2, NoConnFields, ZenonT(60) DEF FdInv, Here
<1>6. GenInv
  BY <1>0, <1>1, <1>2, NoConnFields, ZenonT(60) DEF GenInv
<1>7. IdInv
  BY <1>1, <1>2, ZenonT(60) DEF IdInv, Init
<1>8. QueueInv
  BY <1>2, NoConnFields, ZenonT(60) DEF QueueInv
<1>9. NoListenerLost
  BY <1>1, <1>2, ZenonT(60) DEF NoListenerLost
<1>10. RightConnection
  BY ZenonT(60) DEF Init, RightConnection
<1> QED
  BY <1>3, <1>4, <1>5, <1>6, <1>7, <1>8, <1>9, <1>10, TypeParts, ZenonT(60) DEF IInv

\* The invariant of the loops: it holds at first, and every step keeps it.
THEOREM Invariance == Spec => []IInv
<1>1. Init => IInv
  BY InitKeeps
<1>2. IInv /\ [Next]_vars => IInv'
  <2>1. ASSUME IInv, Next PROVE IInv'
    <3>1. CASE \E w \in Workers : WorkerNext(w)
      BY <2>1, <3>1, WorkerKeeps, ZenonT(60)
    <3>2. CASE \E id \in ids : PostTo(id)
      BY <2>1, <3>2, PostKeeps, ZenonT(60)
    <3>3. CASE \/ \E w \in Workers, l \in Listeners : ClientConnect(w, l)
               \/ \E fd \in Fds : ClientSend(fd) \/ ClientReset(fd)
               \/ RequestStop
      BY <2>1, <3>3, ClientKeeps, ZenonT(60)
    <3> QED
      BY <2>1, <3>1, <3>2, <3>3, ZenonT(60) DEF Next
  <2>2. ASSUME IInv, UNCHANGED vars PROVE IInv'
    <3>1. UNCHANGED <<sock, clients, backlog, sends, active, stop, pc, conns, loop, inbox, ids>> /\ wrong' = wrong
      BY <2>2, ZenonT(60) DEF vars, kernel, others
    <3>2. OldNames /\ BoxType'
      BY <2>2, <3>1, NamesStay, ZenonT(60)
    <3>3. KernelType'
      <4>1. KernelType
        BY <2>2, TypeParts, ZenonT(60) DEF IInv
      <4> QED
        BY <3>1, <4>1, ZenonT(60) DEF KernelType
    <3>4. Outside
      BY <3>1, <3>2, <3>3, ZenonT(60) DEF Outside
    <3> QED
      BY <2>2, <3>2, <3>4, OutsideKeeps, ZenonT(60)
  <2> QED
    BY <2>1, <2>2
<1> QED
  BY <1>1, <1>2, PTL DEF Spec

\* A timer or a post never reaches a connection it was not meant for, also when
\* its descriptor has been reused (the checks of generations in fire, ws_push and
\* st_push).
THEOREM RightConnectionAlways == Spec => []RightConnection
<1>1. IInv => RightConnection
  BY ZenonT(60) DEF IInv
<1> QED
  BY <1>1, Invariance, PTL

\* No queued handshake and no paused listener is ever where its worker would not
\* look for it again (on_event and next_handshake, accept_all and sweep).
THEOREM LoopInvAlways == Spec => []LoopInv
<1>1. ASSUME QueueInv PROVE QueuedIsInQueue
  <2>1. ASSUME NEW w \in Workers, NEW fd \in Fds, conns[w][fd].hs_queued
        PROVE  \E i \in Queued(w) : loop[w].hs[i] = fd
    <3>1. PICK i \in loop[w].hs_head + 1 .. Len(loop[w].hs) : loop[w].hs[i] = fd
      BY <1>1, <2>1, ZenonT(60) DEF QueueInv
    <3>2. i \in Queued(w)
      BY <2>1, <3>1, ZenonT(60) DEF Queued
    <3> QED
      BY <3>1, <3>2, ZenonT(60)
  <2> QED
    BY <2>1, ZenonT(60) DEF QueuedIsInQueue
<1>2. IInv => LoopInv
  BY <1>1, ZenonT(60) DEF IInv, LoopInv
<1> QED
  BY <1>2, Invariance, PTL
-----------------------------------------------------------------------------
(* The loops keep the books of Slots.                                       *)

\* The variables of Slots, as Loop has them.
SlOwner == [fd \in Fds |-> sock[fd].owner]
SlConns == {x \in Workers \X Fds : Here(x[1], x[2])}
SlStage == [w \in Workers |->
              IF pc[w] \in {"add", "setup", "undo", "drop", "release"} THEN pc[w] ELSE "none"]
SlFd == [w \in Workers |-> IF pc[w] \in {"add", "setup", "undo", "drop"} THEN loop[w].fd ELSE 0]

\* Where Slots has a worker that is at p with descriptor fd.
StageOf(p) == IF p \in Held \cup {"release"} THEN p ELSE "none"
FdOf(p, fd) == IF p \in Held THEN fd ELSE 0

\* The refinement mapping, worker by worker.
LEMMA SlSees ==
    ASSUME NEW w \in Workers
    PROVE  SlStage[w] = StageOf(pc[w]) /\ SlFd[w] = FdOf(pc[w], loop[w].fd)
BY ZenonT(60) DEF SlStage, SlFd, StageOf, FdOf, Held

\* A step of w moves w.
LEMMA SlMoves ==
    ASSUME NEW w \in Workers, OthersStay(w)
    PROVE  /\ SlStage' = [SlStage EXCEPT ![w] = StageOf(pc'[w])]
           /\ SlFd' = [SlFd EXCEPT ![w] = FdOf(pc'[w], loop'[w].fd)]
<1>1. \A v \in Workers : v # w => pc'[v] = pc[v] /\ loop'[v] = loop[v]
  BY ZenonT(60) DEF OthersStay
<1>2. SlStage' = [SlStage EXCEPT ![w] = StageOf(pc'[w])]
  BY ONLY <1>1, w \in Workers, ZenonT(60) DEF SlStage, StageOf, Held
<1>3. SlFd' = [SlFd EXCEPT ![w] = FdOf(pc'[w], loop'[w].fd)]
  BY ONLY <1>1, w \in Workers, ZenonT(60) DEF SlFd, FdOf, Held
<1> QED
  BY ONLY <1>2, <1>3

\* A step that gives descriptor fd to o, or to none.
LEMMA SlGives ==
    ASSUME NEW fd \in Fds, NEW o, sock'[fd].owner = o, \A f \in Fds : f # fd => sock'[f] = sock[f]
    PROVE  SlOwner' = [SlOwner EXCEPT ![fd] = o]
BY ZenonT(60) DEF SlOwner

\* A step in which no connection comes or goes.
LEMMA SlStays ==
    ASSUME \A v \in Workers : \A f \in Fds : conns'[v][f].phase = "none" <=> conns[v][f].phase = "none"
    PROVE  SlConns' = SlConns
<1>1. \A x \in Workers \X Fds : x[1] \in Workers /\ x[2] \in Fds
  OBVIOUS
<1>2. \A x \in Workers \X Fds : Here(x[1], x[2])' <=> Here(x[1], x[2])
  BY <1>1, ZenonT(60) DEF Here
<1> QED
  BY <1>2, ZenonT(60) DEF SlConns

\* A step in which nothing changes that Slots has.
LEMMA SlQuiet ==
    ASSUME \A f \in Fds : sock'[f].owner = sock[f].owner, SlConns' = SlConns,
           \A v \in Workers : StageOf(pc'[v]) = StageOf(pc[v])
                              /\ FdOf(pc'[v], loop'[v].fd) = FdOf(pc[v], loop[v].fd),
           active' = active
    PROVE  UNCHANGED Sl!vars
<1>1. SlOwner' = SlOwner
  BY ZenonT(60) DEF SlOwner
<1>2. SlStage' = SlStage
  <2>1. SlStage' = [v \in Workers |-> StageOf(pc'[v])]
    BY ONLY ZenonT(60) DEF SlStage, StageOf, Held
  <2>2. SlStage = [v \in Workers |-> StageOf(pc[v])]
    BY ONLY ZenonT(60) DEF SlStage, StageOf, Held
  <2> QED
    BY <2>1, <2>2, ZenonT(60)
<1>3. SlFd' = SlFd
  <2>1. SlFd' = [v \in Workers |-> FdOf(pc'[v], loop'[v].fd)]
    BY ONLY ZenonT(60) DEF SlFd, FdOf, Held
  <2>2. SlFd = [v \in Workers |-> FdOf(pc[v], loop[v].fd)]
    BY ONLY ZenonT(60) DEF SlFd, FdOf, Held
  <2> QED
    BY <2>1, <2>2, ZenonT(60)
<1> QED
  BY ONLY <1>1, <1>2, <1>3, SlConns' = SlConns, active' = active, ZenonT(60)
     DEF Sl!vars, SlOwner, SlConns, SlStage, SlFd

\* A step in which one connection comes or goes.
LEMMA SlChanges ==
    ASSUME NEW w \in Workers, NEW fd \in Fds, OthersStay(w),
           \A f \in Fds : f # fd => conns'[w][f] = conns[w][f]
    PROVE  /\ conns'[w][fd].phase # "none" => SlConns' = SlConns \cup {<<w, fd>>}
           /\ conns'[w][fd].phase = "none" => SlConns' = SlConns \ {<<w, fd>>}
<1>1. \A x \in Workers \X Fds : x[1] \in Workers /\ x[2] \in Fds /\ (x[1] = w /\ x[2] = fd <=> x = <<w, fd>>)
  OBVIOUS
<1>2. \A v \in Workers : \A f \in Fds : v # w \/ f # fd => conns'[v][f] = conns[v][f]
  BY ZenonT(60) DEF OthersStay
<1>3. \A x \in Workers \X Fds : x # <<w, fd>> => (Here(x[1], x[2])' <=> Here(x[1], x[2]))
  BY <1>1, <1>2, ZenonT(60) DEF Here
<1>4. <<w, fd>> \in Workers \X Fds /\ (Here(<<w, fd>>[1], <<w, fd>>[2])' <=> conns'[w][fd].phase # "none")
  BY ZenonT(60) DEF Here
<1>5. \A x : x \in SlConns' <=> x \in Workers \X Fds /\ Here(x[1], x[2])'
  BY ONLY ZenonT(60) DEF SlConns
<1>6. \A x : x \in SlConns <=> x \in Workers \X Fds /\ Here(x[1], x[2])
  BY ONLY ZenonT(60) DEF SlConns
<1>7. ASSUME conns'[w][fd].phase # "none" PROVE SlConns' = SlConns \cup {<<w, fd>>}
  BY ONLY <1>3, <1>4, <1>5, <1>6, <1>7, ZenonT(60)
<1>8. ASSUME conns'[w][fd].phase = "none" PROVE SlConns' = SlConns \ {<<w, fd>>}
  BY ONLY <1>3, <1>4, <1>5, <1>6, <1>8, ZenonT(60)
<1> QED
  BY ONLY <1>7, <1>8

\* The steps of Slots, in these names.
LEMMA SlSteps ==
    ASSUME NEW w \in Workers
    PROVE  /\ Sl!Accept(w) <=>
                /\ SlStage[w] = "none"
                /\ \E f \in Fds :
                      /\ SlOwner[f] = Nobody /\ SlOwner' = [SlOwner EXCEPT ![f] = w]
                      /\ SlStage' = [SlStage EXCEPT ![w] = IF Counted THEN "add" ELSE "setup"]
                      /\ SlFd' = [SlFd EXCEPT ![w] = f]
                /\ SlConns' = SlConns /\ active' = active
           /\ Sl!Undo(w) <=>
                /\ SlStage[w] = "undo" /\ active' = active - 1
                /\ SlStage' = [SlStage EXCEPT ![w] = "drop"] /\ SlFd' = [SlFd EXCEPT ![w] = SlFd[w]]
                /\ SlOwner' = SlOwner /\ SlConns' = SlConns
           /\ Sl!TryAdd(w) <=>
                /\ SlStage[w] = "add" /\ active' = active + 1
                /\ SlStage' = [SlStage EXCEPT ![w] = IF active + 1 <= MaxConns THEN "setup" ELSE "undo"]
                /\ SlFd' = [SlFd EXCEPT ![w] = SlFd[w]]
                /\ SlOwner' = SlOwner /\ SlConns' = SlConns
           /\ Sl!Drop(w) <=>
                /\ SlStage[w] = "drop" /\ SlOwner' = [SlOwner EXCEPT ![SlFd[w]] = Nobody]
                /\ SlStage' = [SlStage EXCEPT ![w] = "none"] /\ SlFd' = [SlFd EXCEPT ![w] = 0]
                /\ SlConns' = SlConns /\ active' = active
           /\ Sl!Setup(w) <=>
                /\ SlStage[w] = "setup" /\ SlConns' = SlConns \cup {<<w, SlFd[w]>>}
                /\ SlStage' = [SlStage EXCEPT ![w] = "none"] /\ SlFd' = [SlFd EXCEPT ![w] = 0]
                /\ SlOwner' = SlOwner /\ active' = active
           /\ Sl!SetupTlsFail(w) <=>
                /\ SlStage[w] = "setup"
                /\ SlStage' = [SlStage EXCEPT ![w] = IF Counted THEN "undo" ELSE "drop"]
                /\ SlFd' = [SlFd EXCEPT ![w] = SlFd[w]]
                /\ SlOwner' = SlOwner /\ SlConns' = SlConns /\ active' = active
           /\ Sl!SetupEpollFail(w) <=>
                /\ SlStage[w] = "setup" /\ SlOwner' = [SlOwner EXCEPT ![SlFd[w]] = Nobody]
                /\ SlStage' = [SlStage EXCEPT ![w] = IF Counted THEN "release" ELSE "none"]
                /\ SlFd' = [SlFd EXCEPT ![w] = 0]
                /\ SlConns' = SlConns /\ active' = active
           /\ Sl!Release(w) <=>
                /\ SlStage[w] = "release" /\ active' = active - 1
                /\ SlStage' = [SlStage EXCEPT ![w] = "none"] /\ SlFd' = [SlFd EXCEPT ![w] = 0]
                /\ SlOwner' = SlOwner /\ SlConns' = SlConns
           /\ \A f \in Fds : Sl!Close(w, f) <=>
                /\ SlStage[w] = "none" /\ <<w, f>> \in SlConns
                /\ SlOwner' = [SlOwner EXCEPT ![f] = Nobody] /\ SlConns' = SlConns \ {<<w, f>>}
                /\ SlStage' = [SlStage EXCEPT ![w] = IF Counted THEN "release" ELSE "none"]
                /\ SlFd' = [SlFd EXCEPT ![w] = 0]
                /\ active' = active
BY ZenonT(60) DEF Sl!Accept, Sl!Undo, Sl!TryAdd, Sl!Drop, Sl!Setup, Sl!SetupTlsFail, Sl!SetupEpollFail,
   Sl!Release, Sl!Close, Sl!Closed, Sl!Counted, Sl!To, Sl!Nobody, Sl!NoFd, Counted, Nobody,
   SlOwner, SlConns, SlStage, SlFd

\* What a worker that comes from accept_all, or goes there, is for Slots.
LEMMA SlPlaces ==
    /\ \A p \in Held : StageOf(p) = p /\ \A f : FdOf(p, f) = f
    /\ StageOf("release") = "release" /\ \A f : FdOf("release", f) = 0
    /\ \A p \in Places \ Staged : StageOf(p) = "none" /\ \A f : FdOf(p, f) = 0
    /\ \A p \in Returns : StageOf(p) = "none" /\ \A f : FdOf(p, f) = 0
BY ZenonT(60) DEF StageOf, FdOf, Held, Staged, Returns, Places

\* A step of a turn is a close for Slots, or nothing.
LEMMA SlTurn ==
    ASSUME IInv, NEW w \in Workers, Turn(w)
    PROVE  UNCHANGED Sl!vars \/ \E f \in Fds : Sl!Close(w, f)
<1>0. /\ OthersStay(w)
      /\ \A v \in Workers : v # w => pc'[v] = pc[v] /\ loop'[v] = loop[v] /\ \A f \in Fds : conns'[v][f] = conns[v][f]
      /\ pc[w] \in Places /\ pc'[w] \in Places
  <2>1. PcType /\ PcType'
    <3>1. TypeOK /\ TypeOK'
      BY ZenonT(60) DEF Turn, IInv
    <3> QED
      BY <3>1, TypeParts, PTL
  <2> QED
    BY <2>1, ZenonT(60) DEF Turn, OthersStay, PcType
<1>1. CASE Quiet(w)
  <2>1. /\ \A f \in Fds : sock'[f].owner = sock[f].owner
        /\ \A f \in Fds : conns'[w][f].phase = "none" <=> conns[w][f].phase = "none"
        /\ pc[w] \notin Staged /\ pc'[w] \notin Staged /\ active' = active
    BY <1>1, ZenonT(60) DEF Quiet
  <2>2. \A v \in Workers : \A f \in Fds : conns'[v][f].phase = "none" <=> conns[v][f].phase = "none"
    BY ONLY <1>0, <2>1, ZenonT(60)
  <2>3. SlConns' = SlConns
    BY ONLY <2>2, SlStays, ZenonT(60)
  <2>4. \A v \in Workers : /\ StageOf(pc'[v]) = StageOf(pc[v])
                           /\ FdOf(pc'[v], loop'[v].fd) = FdOf(pc[v], loop[v].fd)
    <3>1. ASSUME NEW v \in Workers, v # w
          PROVE  /\ StageOf(pc'[v]) = StageOf(pc[v])
                 /\ FdOf(pc'[v], loop'[v].fd) = FdOf(pc[v], loop[v].fd)
      BY ONLY <1>0, <3>1, ZenonT(60)
    <3>2. /\ StageOf(pc[w]) = "none" /\ FdOf(pc[w], loop[w].fd) = 0
          /\ StageOf(pc'[w]) = "none" /\ FdOf(pc'[w], loop'[w].fd) = 0
      BY ONLY <2>1, ZenonT(60) DEF StageOf, FdOf, Held, Staged
    <3> QED
      BY ONLY <3>1, <3>2, ZenonT(60)
  <2> QED
    BY ONLY <2>1, <2>3, <2>4, SlQuiet, ZenonT(60)
<1>2. ASSUME NEW fd \in Fds, Closing(w, fd) PROVE Sl!Close(w, fd)
  <2>1. /\ sock'[fd] = Unused /\ \A f \in Fds : f # fd => sock'[f] = sock[f]
        /\ conns'[w][fd] = NoConn /\ \A f \in Fds : f # fd => conns'[w][f] = conns[w][f]
        /\ conns[w][fd].phase # "none"
        /\ pc[w] \notin Staged /\ pc'[w] \in Returns \cup {"release"} /\ (pc'[w] = "release" <=> Counted)
        /\ active' = active
    BY <1>2, ZenonT(60) DEF Closing
  <2>2. SlOwner' = [SlOwner EXCEPT ![fd] = Nobody]
    <3>1. sock'[fd].owner = Nobody
      BY <2>1 DEF Unused
    <3> QED
      BY ONLY <2>1, <3>1, fd \in Fds, SlGives, ZenonT(60)
  <2>3. SlConns' = SlConns \ {<<w, fd>>}
    BY <1>0, <2>1, SlChanges, NoConnFields, ZenonT(60)
  <2>4. <<w, fd>> \in SlConns
    <3>1. <<w, fd>> \in Workers \X Fds /\ <<w, fd>>[1] = w /\ <<w, fd>>[2] = fd
      OBVIOUS
    <3> QED
      BY ONLY <2>1, <3>1, ZenonT(60) DEF SlConns, Here
  <2>5. SlStage[w] = "none"
    BY <1>0, <2>1, SlSees, SlPlaces, ZenonT(60)
  <2>6. StageOf(pc'[w]) = (IF Counted THEN "release" ELSE "none") /\ FdOf(pc'[w], loop'[w].fd) = 0
    BY ONLY <2>1, SlPlaces, ZenonT(60) DEF Returns
  <2>7. /\ SlStage' = [SlStage EXCEPT ![w] = IF Counted THEN "release" ELSE "none"]
        /\ SlFd' = [SlFd EXCEPT ![w] = 0]
    BY ONLY <1>0, <2>6, w \in Workers, SlMoves, ZenonT(60)
  <2>8. active' = active
    BY ONLY <2>1
  <2> QED
    BY ONLY <2>2, <2>3, <2>4, <2>5, <2>7, <2>8, w \in Workers, fd \in Fds, SlSteps, ZenonT(60)
<1> QED
  BY <1>1, <1>2, ZenonT(60) DEF Turn

\* A step that leaves sockets and connections alone.
LEMMA SlKeep ==
    ASSUME UNCHANGED <<sock, conns>>
    PROVE  SlOwner' = SlOwner /\ SlConns' = SlConns
BY ZenonT(60) DEF SlOwner, SlConns, Here

\* Its operations on the count are those of Slots.
LEMMA SlCounts ==
    ASSUME IInv, NEW w \in Workers, TryAdd(w) \/ Undo(w) \/ Release(w) \/ SetupTlsFail(w)
    PROVE  Sl!TryAdd(w) \/ Sl!Undo(w) \/ Sl!Release(w) \/ Sl!SetupTlsFail(w)
<1>1. UNCHANGED <<sock, conns>>
  BY ZenonT(60) DEF TryAdd, Undo, Release, SetupTlsFail, Step, kernel
<1>2. SlOwner' = SlOwner /\ SlConns' = SlConns
  BY <1>1, SlKeep, ZenonT(60)
<1>3. SlStage[w] = StageOf(pc[w]) /\ SlFd[w] = FdOf(pc[w], loop[w].fd)
  BY SlSees, ZenonT(60)
<1>4. CASE TryAdd(w)
  <2>1. pc[w] = "add" /\ active' = active + 1
    BY <1>4, ZenonT(60) DEF TryAdd
  <2>2. OthersStay(w) /\ loop'[w] = loop[w] /\ pc'[w] = IF active + 1 > MaxConns THEN "undo" ELSE "setup"
    BY <1>4, CountActions, ZenonT(60)
  <2>3. active + 1 > MaxConns <=> ~(active + 1 <= MaxConns)
    <3>1. active \in Int
      BY TypeParts, ZenonT(60) DEF IInv, KernelType
    <3> QED
      BY ONLY <3>1, Bounds, ZenonT(60)
  <2>4. pc'[w] = IF active + 1 <= MaxConns THEN "setup" ELSE "undo"
    BY ONLY <2>2, <2>3, ZenonT(60)
  <2>5. StageOf(pc'[w]) = (IF active + 1 <= MaxConns THEN "setup" ELSE "undo")
        /\ FdOf(pc'[w], loop'[w].fd) = SlFd[w] /\ SlStage[w] = "add"
    BY ONLY <1>3, <2>1, <2>2, <2>4, ZenonT(60) DEF Held, StageOf, FdOf
  <2>6. /\ SlStage' = [SlStage EXCEPT ![w] = IF active + 1 <= MaxConns THEN "setup" ELSE "undo"]
        /\ SlFd' = [SlFd EXCEPT ![w] = SlFd[w]]
    BY ONLY <2>2, <2>5, w \in Workers, SlMoves, ZenonT(60)
  <2> QED
    BY ONLY <1>2, <2>1, <2>5, <2>6, w \in Workers, SlSteps, ZenonT(60)
<1>5. CASE Undo(w)
  <2>1. pc[w] = "undo" /\ active' = active - 1
    BY <1>5, ZenonT(60) DEF Undo
  <2>2. OthersStay(w) /\ loop'[w] = loop[w] /\ pc'[w] = "drop"
    BY <1>5, CountActions, ZenonT(60)
  <2>3. StageOf(pc'[w]) = "drop" /\ FdOf(pc'[w], loop'[w].fd) = SlFd[w] /\ SlStage[w] = "undo"
    BY ONLY <1>3, <2>1, <2>2, ZenonT(60) DEF Held, StageOf, FdOf
  <2>4. SlStage' = [SlStage EXCEPT ![w] = "drop"] /\ SlFd' = [SlFd EXCEPT ![w] = SlFd[w]]
    BY ONLY <2>2, <2>3, w \in Workers, SlMoves, ZenonT(60)
  <2> QED
    BY ONLY <1>2, <2>1, <2>3, <2>4, w \in Workers, SlSteps, ZenonT(60)
<1>6. CASE Release(w)
  <2>1. pc[w] = "release" /\ active' = active - 1
    BY <1>6, ZenonT(60) DEF Release
  <2>2. OthersStay(w) /\ pc'[w] \in Returns
    BY <1>6, CountActions, ZenonT(60)
  <2>3. StageOf(pc'[w]) = "none" /\ FdOf(pc'[w], loop'[w].fd) = 0 /\ SlStage[w] = "release"
    BY ONLY <1>3, <2>1, <2>2, SlPlaces, ZenonT(60)
  <2>4. SlStage' = [SlStage EXCEPT ![w] = "none"] /\ SlFd' = [SlFd EXCEPT ![w] = 0]
    BY ONLY <2>2, <2>3, w \in Workers, SlMoves, ZenonT(60)
  <2> QED
    BY ONLY <1>2, <2>1, <2>3, <2>4, w \in Workers, SlSteps, ZenonT(60)
<1>7. CASE SetupTlsFail(w)
  <2>1. pc[w] = "setup" /\ active' = active
    BY <1>7, ZenonT(60) DEF SetupTlsFail, Step
  <2>2. OthersStay(w) /\ loop'[w].fd = loop[w].fd /\ pc'[w] = (IF Counted THEN "undo" ELSE "drop")
    BY <1>7, SetupTlsFailStage, ZenonT(60)
  <2>3. /\ StageOf(pc'[w]) = (IF Counted THEN "undo" ELSE "drop")
        /\ FdOf(pc'[w], loop'[w].fd) = SlFd[w] /\ SlStage[w] = "setup"
    BY ONLY <1>3, <2>1, <2>2, ZenonT(60) DEF Held, StageOf, FdOf
  <2>4. /\ SlStage' = [SlStage EXCEPT ![w] = IF Counted THEN "undo" ELSE "drop"]
        /\ SlFd' = [SlFd EXCEPT ![w] = SlFd[w]]
    BY ONLY <2>2, <2>3, w \in Workers, SlMoves, ZenonT(60)
  <2> QED
    BY ONLY <1>2, <2>1, <2>3, <2>4, w \in Workers, SlSteps, ZenonT(60)
<1> QED
  BY <1>4, <1>5, <1>6, <1>7, ZenonT(60)

\* So are those on the descriptor accept_all has.
LEMMA SlAccepts ==
    ASSUME IInv, NEW w \in Workers, Accept(w) \/ Drop(w) \/ Setup(w) \/ SetupEpollFail(w)
    PROVE  Sl!Accept(w) \/ Sl!Drop(w) \/ Sl!Setup(w) \/ Sl!SetupEpollFail(w)
<1>0. SlStage[w] = StageOf(pc[w]) /\ SlFd[w] = FdOf(pc[w], loop[w].fd)
  BY SlSees, ZenonT(60)
<1>1. /\ StageOf("accept") = "none" /\ \A f : FdOf("accept", f) = 0
      /\ StageOf("release") = "release" /\ \A f : FdOf("release", f) = 0
      /\ \A p \in {"add", "setup", "drop"} : StageOf(p) = p /\ \A f : FdOf(p, f) = f
  BY ONLY ZenonT(60) DEF StageOf, FdOf, Held
<1>2. pc[w] \in {"setup", "drop"} => loop[w].fd \in Fds /\ conns[w][loop[w].fd].phase = "none"
  BY FdFacts, ZenonT(60) DEF IInv, Held
<1>3. UNCHANGED conns => SlConns' = SlConns
  BY SlStays, ZenonT(60)
<1>4. UNCHANGED sock => SlOwner' = SlOwner
  BY ONLY ZenonT(60) DEF SlOwner
<1>5. CASE Accept(w)
  <2>1. OthersStay(w) /\ UNCHANGED <<conns, active>> /\ pc[w] = "accept"
    BY <1>5, AcceptStage, ZenonT(60)
  <2>2. PICK fd \in Fds : /\ sock[fd].owner = Nobody /\ sock'[fd].owner = w
                          /\ \A f \in Fds : f # fd => sock'[f] = sock[f]
                          /\ pc'[w] = (IF Counted THEN "add" ELSE "setup") /\ loop'[w].fd = fd
    BY <1>5, AcceptStage, ZenonT(60)
  <2>3. SlOwner[fd] = Nobody /\ SlOwner' = [SlOwner EXCEPT ![fd] = w]
    <3>1. SlOwner[fd] = Nobody
      BY ONLY <2>2, ZenonT(60) DEF SlOwner
    <3>2. SlOwner' = [SlOwner EXCEPT ![fd] = w]
      BY ONLY <2>2, fd \in Fds, SlGives, ZenonT(60)
    <3> QED
      BY ONLY <3>1, <3>2
  <2>4. /\ StageOf(pc'[w]) = (IF Counted THEN "add" ELSE "setup") /\ FdOf(pc'[w], loop'[w].fd) = fd
        /\ SlStage[w] = "none"
    BY ONLY <1>0, <1>1, <2>1, <2>2, ZenonT(60)
  <2>5. /\ SlStage' = [SlStage EXCEPT ![w] = IF Counted THEN "add" ELSE "setup"]
        /\ SlFd' = [SlFd EXCEPT ![w] = fd]
    BY ONLY <2>1, <2>4, w \in Workers, SlMoves, ZenonT(60)
  <2>6. SlConns' = SlConns /\ active' = active
    BY ONLY <1>3, <2>1, ZenonT(60)
  <2> QED
    BY ONLY <2>3, <2>4, <2>5, <2>6, fd \in Fds, w \in Workers, SlSteps, ZenonT(60)
<1>6. CASE Drop(w)
  <2>1. /\ OthersStay(w) /\ UNCHANGED <<conns, active>> /\ pc[w] = "drop" /\ pc'[w] = "accept"
        /\ sock'[loop[w].fd].owner = Nobody /\ \A f \in Fds : f # loop[w].fd => sock'[f] = sock[f]
    BY <1>6, DropStage, ZenonT(60)
  <2>2. loop[w].fd \in Fds /\ SlFd[w] = loop[w].fd /\ SlStage[w] = "drop"
    BY ONLY <1>0, <1>1, <1>2, <2>1, ZenonT(60)
  <2>3. SlOwner' = [SlOwner EXCEPT ![loop[w].fd] = Nobody]
    BY ONLY <2>1, <2>2, SlGives, ZenonT(60)
  <2>4. SlStage' = [SlStage EXCEPT ![w] = "none"] /\ SlFd' = [SlFd EXCEPT ![w] = 0]
    <3>1. OthersStay(w) /\ StageOf(pc'[w]) = "none" /\ FdOf(pc'[w], loop'[w].fd) = 0
      BY ONLY <1>1, <2>1, ZenonT(60)
    <3> QED
      BY ONLY <3>1, w \in Workers, SlMoves, ZenonT(60)
  <2>5. SlConns' = SlConns /\ active' = active
    BY ONLY <1>3, <2>1, ZenonT(60)
  <2> QED
    BY ONLY <2>2, <2>3, <2>4, <2>5, w \in Workers, SlSteps, ZenonT(60)
<1>7. CASE Setup(w)
  <2>1. /\ OthersStay(w) /\ UNCHANGED <<active, sock>> /\ pc[w] = "setup" /\ pc'[w] = "accept"
        /\ conns'[w][loop[w].fd].phase # "none"
        /\ \A f \in Fds : f # loop[w].fd => conns'[w][f] = conns[w][f]
    BY <1>7, SetupStage, ZenonT(60)
  <2>2. loop[w].fd \in Fds /\ SlFd[w] = loop[w].fd /\ SlStage[w] = "setup"
    BY ONLY <1>0, <1>1, <1>2, <2>1, ZenonT(60)
  <2>3. SlConns' = SlConns \cup {<<w, loop[w].fd>>}
    BY ONLY <2>1, <2>2, w \in Workers, SlChanges, ZenonT(60)
  <2>4. SlStage' = [SlStage EXCEPT ![w] = "none"] /\ SlFd' = [SlFd EXCEPT ![w] = 0]
    <3>1. OthersStay(w) /\ StageOf(pc'[w]) = "none" /\ FdOf(pc'[w], loop'[w].fd) = 0
      BY ONLY <1>1, <2>1, ZenonT(60)
    <3> QED
      BY ONLY <3>1, w \in Workers, SlMoves, ZenonT(60)
  <2>5. SlOwner' = SlOwner /\ active' = active
    BY ONLY <1>4, <2>1, ZenonT(60)
  <2> QED
    BY ONLY <2>2, <2>3, <2>4, <2>5, w \in Workers, SlSteps, ZenonT(60)
<1>8. CASE SetupEpollFail(w)
  <2>1. /\ OthersStay(w) /\ UNCHANGED active /\ pc[w] = "setup"
        /\ pc'[w] = (IF Counted THEN "release" ELSE "accept")
        /\ sock'[loop[w].fd] = Unused /\ \A f \in Fds : f # loop[w].fd => sock'[f] = sock[f]
        /\ conns'[w][loop[w].fd] = NoConn
        /\ \A f \in Fds : f # loop[w].fd => conns'[w][f] = conns[w][f]
    BY <1>8, SetupEpollFailStage, ZenonT(60)
  <2>2. /\ loop[w].fd \in Fds /\ SlFd[w] = loop[w].fd /\ SlStage[w] = "setup"
        /\ conns[w][loop[w].fd].phase = "none"
    BY ONLY <1>0, <1>1, <1>2, <2>1, ZenonT(60)
  <2>3. SlOwner' = [SlOwner EXCEPT ![loop[w].fd] = Nobody]
    <3>1. sock'[loop[w].fd].owner = Nobody
      BY ONLY <2>1 DEF Unused
    <3> QED
      BY ONLY <2>1, <2>2, <3>1, SlGives, ZenonT(60)
  <2>4. SlConns' = SlConns
    <3>1. conns'[w][loop[w].fd].phase = "none"
      BY ONLY <2>1, NoConnFields, ZenonT(60)
    <3>2. \A f \in Fds : conns'[w][f].phase = "none" <=> conns[w][f].phase = "none"
      BY ONLY <2>1, <2>2, <3>1, ZenonT(60)
    <3>3. \A v \in Workers : \A f \in Fds : conns'[v][f].phase = "none" <=> conns[v][f].phase = "none"
      BY ONLY <2>1, <3>2, ZenonT(60) DEF OthersStay
    <3> QED
      BY ONLY <3>3, SlStays, ZenonT(60)
  <2>5. StageOf(pc'[w]) = (IF Counted THEN "release" ELSE "none") /\ FdOf(pc'[w], loop'[w].fd) = 0
    BY ONLY <1>1, <2>1, ZenonT(60)
  <2>6. /\ SlStage' = [SlStage EXCEPT ![w] = IF Counted THEN "release" ELSE "none"]
        /\ SlFd' = [SlFd EXCEPT ![w] = 0]
    BY ONLY <2>1, <2>5, w \in Workers, SlMoves, ZenonT(60)
  <2>7. active' = active
    BY ONLY <2>1
  <2> QED
    BY ONLY <2>2, <2>3, <2>4, <2>6, <2>7, w \in Workers, SlSteps, ZenonT(60)
<1> QED
  BY <1>5, <1>6, <1>7, <1>8, ZenonT(60)

\* A step of no worker is nothing for Slots.
LEMMA SlOutside ==
    ASSUME UNCHANGED <<pc, conns, loop, active>>, \A f \in Fds : sock'[f].owner = sock[f].owner
    PROVE  UNCHANGED Sl!vars
<1>1. SlConns' = SlConns
  BY SlStays, ZenonT(60)
<1> QED
  BY <1>1, SlQuiet, ZenonT(60)

\* The loops take and return descriptors and the slots of max_conns exactly as
\* Slots says, whatever events, timers, posts, handshakes and errors make them
\* accept and close: Loop implements Slots.
THEOREM KeepsSlotsAlways == Spec => KeepsSlots
<1>1. Init => Sl!Init
  <2>1. ASSUME Init PROVE Sl!Init
    <3>1. \A w \in Workers : pc[w] = "top" /\ \A fd \in Fds : conns[w][fd] = NoConn
      BY <2>1, ZenonT(60) DEF Init
    <3>2. \A fd \in Fds : sock[fd] = Unused
      BY <2>1, ZenonT(60) DEF Init
    <3>3. SlOwner = [f \in Fds |-> Nobody]
      <4>1. Unused.owner = Nobody
        BY DEF Unused
      <4> QED
        BY ONLY <3>2, <4>1, ZenonT(60) DEF SlOwner
    <3>4. SlConns = {}
      <4>1. \A x \in Workers \X Fds : x[1] \in Workers /\ x[2] \in Fds
        OBVIOUS
      <4> QED
        BY ONLY <3>1, <4>1, NoConnFields, ZenonT(60) DEF SlConns, Here
    <3>5. SlStage = [w \in Workers |-> "none"]
      BY ONLY <3>1, ZenonT(60) DEF SlStage
    <3>6. SlFd = [w \in Workers |-> 0]
      BY ONLY <3>1, ZenonT(60) DEF SlFd
    <3>7. active = 0
      BY <2>1, ZenonT(60) DEF Init
    <3> QED
      BY ONLY <3>3, <3>4, <3>5, <3>6, <3>7, ZenonT(60)
         DEF Sl!Init, Sl!Nobody, Sl!NoFd, Nobody, SlOwner, SlConns, SlStage, SlFd
  <2> QED
    BY <2>1
<1>2. IInv /\ [Next]_vars => [Sl!Next]_(Sl!vars)
  <2>1. ASSUME IInv, NEW w \in Workers, WorkerNext(w) PROVE Sl!Next \/ UNCHANGED Sl!vars
    <3>1. CASE TryAdd(w) \/ Undo(w) \/ Release(w) \/ SetupTlsFail(w)
      BY <2>1, <3>1, SlCounts, ZenonT(60) DEF Sl!Next
    <3>2. CASE Accept(w) \/ Drop(w) \/ Setup(w) \/ SetupEpollFail(w)
      BY <2>1, <3>2, SlAccepts, ZenonT(60) DEF Sl!Next
    <3>3. CASE Turn(w)
      BY <2>1, <3>3, SlTurn, ZenonT(60) DEF Sl!Next
    <3> QED
      BY <2>1, <3>1, <3>2, <3>3, TurnActions, ZenonT(60) DEF WorkerNext
  <2>2. ASSUME Outside PROVE UNCHANGED Sl!vars
    <3>1. UNCHANGED <<pc, conns, loop, active>> /\ \A f \in Fds : sock'[f].owner = sock[f].owner
      BY <2>2, ZenonT(60) DEF Outside
    <3> QED
      BY ONLY <3>1, SlOutside, ZenonT(60)
  <2>3. ASSUME IInv, \E id \in ids : PostTo(id) PROVE Outside
    BY <2>3, PostKeeps, ZenonT(60)
  <2>4. ASSUME IInv, \/ \E w \in Workers, l \in Listeners : ClientConnect(w, l)
                     \/ \E fd \in Fds : ClientSend(fd) \/ ClientReset(fd)
                     \/ RequestStop
        PROVE  Outside
    BY <2>4, ClientKeeps, ZenonT(60)
  <2>5. ASSUME UNCHANGED vars PROVE UNCHANGED Sl!vars
    <3>1. UNCHANGED <<pc, conns, loop, active>> /\ \A f \in Fds : sock'[f].owner = sock[f].owner
      BY <2>5, ZenonT(60) DEF vars, kernel
    <3> QED
      BY ONLY <3>1, SlOutside, ZenonT(60)
  <2>6. ASSUME IInv, Next PROVE Sl!Next \/ UNCHANGED Sl!vars
    BY <2>1, <2>2, <2>3, <2>4, <2>6, ZenonT(60) DEF Next
  <2> QED
    BY <2>5, <2>6
<1> QED
  BY <1>1, <1>2, Invariance, PTL DEF Spec, KeepsSlots, Sl!Spec

\* There are finitely many descriptors, as Slots assumes.
LEMMA FdsFinite == IsFiniteSet(Fds)
<1> DEFINE s == [i \in 1 .. MaxFd |-> i]
<1>1. MaxFd \in Nat
  BY LoopAssumption, ZenonT(60) DEF LoopAssumption
<1>2. s \in Seq(Fds) /\ Len(s) = MaxFd /\ \A i \in 1 .. MaxFd : s[i] = i
  BY ONLY <1>1 DEF Fds
<1>3. \A fd \in Fds : \E n \in 1 .. Len(s) : s[n] = fd
  BY ONLY <1>2, ZenonT(60) DEF Fds
<1> QED
  BY ONLY <1>2, <1>3, ZenonT(60) DEF IsFiniteSet

\* Slots with its proofs, for the loops.
SlP == INSTANCE SlotsProofs WITH
    owner <- [fd \in Fds |-> sock[fd].owner],
    conns <- {x \in Workers \X Fds : Here(x[1], x[2])},
    stage <- [w \in Workers |->
                IF pc[w] \in {"add", "setup", "undo", "drop", "release"} THEN pc[w] ELSE "none"],
    fd <- [w \in Workers |-> IF pc[w] \in {"add", "setup", "undo", "drop"} THEN loop[w].fd ELSE 0]

\* What is proved of Slots holds of the loops: with any number of workers that
\* accept, fail, close and time connections out at the same time, the count of
\* max_conns is exact, the limit holds, and no descriptor leaks or is used after
\* its close.
THEOREM LoopBooksAlways == Spec => [](Sl!CountExact /\ Sl!WithinLimit /\ Sl!FdsMatch)
<1>1. Sl!Init => SlP!Init
  BY ZenonT(60) DEF Sl!Init, Sl!Nobody, Sl!NoFd, SlP!Init, SlP!Nobody, SlP!NoFd
<1>2. [Sl!Next]_(Sl!vars) => [SlP!Next]_(SlP!vars)
  BY ZenonT(60) DEF Sl!Next, Sl!vars, Sl!Accept, Sl!Undo, Sl!TryAdd, Sl!Drop, Sl!Setup, Sl!SetupTlsFail,
     Sl!SetupEpollFail, Sl!Release, Sl!Close, Sl!Closed, Sl!Counted, Sl!To, Sl!Nobody, Sl!NoFd,
     SlP!Next, SlP!vars, SlP!Accept, SlP!Undo, SlP!TryAdd, SlP!Drop, SlP!Setup, SlP!SetupTlsFail,
     SlP!SetupEpollFail, SlP!Release, SlP!Close, SlP!Closed, SlP!Counted, SlP!To, SlP!Nobody, SlP!NoFd
<1>3. Sl!Spec => SlP!Spec
  BY <1>1, <1>2, PTL DEF Sl!Spec, SlP!Spec
<1>4. SlP!IsFiniteSet(Workers) /\ SlP!Nobody \notin Workers
  BY LoopAssumption, ZenonT(60) DEF LoopAssumption, SlP!Nobody, IsFiniteSet, SlP!IsFiniteSet
<1>5. SlP!IsFiniteSet(Fds) /\ SlP!NoFd \notin Fds /\ MaxConns \in Nat
  <2>1. 1 \in Int /\ MaxFd \in Int /\ MaxConns \in Nat /\ 0 \notin Fds
    BY ONLY Bounds, ZenonT(60)
  <2>2. IsFiniteSet(Fds)
    BY ONLY FdsFinite, ZenonT(60)
  <2>3. SlP!IsFiniteSet(Fds)
    BY ONLY <2>2, ZenonT(60) DEF IsFiniteSet, SlP!IsFiniteSet
  <2>4. SlP!NoFd \notin Fds
    BY ONLY <2>1, ZenonT(60) DEF SlP!NoFd
  <2> QED
    BY ONLY <2>1, <2>3, <2>4, ZenonT(60)
<1>6. SlP!Spec => []SlP!CountExact
  BY ONLY <1>4, <1>5, SlP!CountExactAlways, ZenonT(60)
<1>7. SlP!Spec => []SlP!WithinLimit
  BY ONLY <1>4, <1>5, SlP!WithinLimitAlways, ZenonT(60)
<1>8. SlP!Spec => []SlP!FdsMatch
  BY ONLY <1>4, <1>5, SlP!FdsMatchAlways, ZenonT(60)
<1>9. SlP!CountExact => Sl!CountExact
  BY ZenonT(60) DEF SlP!CountExact, Sl!CountExact, SlP!Counted, Sl!Counted, SlP!At, Sl!At,
     SlP!Cardinality, Sl!Cardinality
<1>10. SlP!WithinLimit => Sl!WithinLimit
  BY ZenonT(60) DEF SlP!WithinLimit, Sl!WithinLimit, SlP!Counted, Sl!Counted, SlP!Cardinality, Sl!Cardinality
<1>11. SlP!FdsMatch => Sl!FdsMatch
  BY ZenonT(60) DEF SlP!FdsMatch, Sl!FdsMatch
<1> QED
  BY <1>3, <1>6, <1>7, <1>8, <1>9, <1>10, <1>11, KeepsSlotsAlways, PTL DEF KeepsSlots
=============================================================================
