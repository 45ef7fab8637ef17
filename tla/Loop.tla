-------------------------------- MODULE Loop --------------------------------
(***************************************************************************)
(* The event loops of all workers (engine/worker_linux.c.v), the file      *)
(* descriptors they share and the process-wide connection count behind     *)
(* Options.max_conns (ConnCount, engine/serve_linux.c.v).                  *)
(*                                                                         *)
(* Each worker is a thread: epoll_wait gives it a batch of events, which   *)
(* it handles one after the other; then come the timers that are due, the  *)
(* sweep once a second and one queued TLS handshake.  The kernel hands out *)
(* the lowest free descriptor, to whichever worker accepts next, so a      *)
(* number a connection had is soon another's: what still names the old one *)
(* (a timer, a post from another thread, an entry of the handshake queue,  *)
(* an event of the same batch) must not reach the new one.                 *)
(*                                                                         *)
(* What happens inside one connection is Http1Conn's; here it may close,   *)
(* stay, or wait for a timer.  What two workers can interleave is a step   *)
(* of its own: accept4, close, and each atomic operation on the count.     *)
(***************************************************************************)
EXTENDS Integers, Sequences, FiniteSets

CONSTANTS
    Workers,      \* the workers
    MaxFd,        \* bound: descriptors the process may have for connections
    Listeners,    \* the listening sockets every worker has
    TlsListeners, \* those of them with a certificate
    MaxConns,     \* Options.max_conns, 0: unlimited
    MaxClients,   \* bound: connections clients make
    MaxSends,     \* bound: times clients send something
    MaxNames      \* bound: ids given away and timers of a worker, at a time

\* serve_listeners refuses an empty list of listeners.
ASSUME LoopAssumption ==
    /\ IsFiniteSet(Workers) /\ "nobody" \notin Workers
    /\ Listeners # {} /\ TlsListeners \subseteq Listeners
    /\ {MaxFd, MaxConns, MaxClients, MaxSends, MaxNames} \subseteq Nat

Fds == 1 .. MaxFd

VARIABLES
    sock,     \* sock[fd]: the kernel's socket, see Unused
    clients,  \* connections clients have made
    backlog,  \* backlog[w][l]: those of them that wait at w's listener l
    sends,    \* times clients have sent something
    active,   \* ConnCount.active
    stop,     \* Stop.requested()
    pc,       \* pc[w]: where worker w is
    conns,    \* conns[w][fd]: Loop.conns
    loop,     \* loop[w]: the rest of its Loop, see NewLoop
    inbox,    \* inbox[w]: ids posted to w, see Id
    ids,      \* ids of connections that handlers gave away (WsId, StreamId)
    wrong     \* history: what has reached a connection it was not meant for

kernel == <<sock, clients, backlog, sends>>
others == <<inbox, ids>>
rest == <<clients, backlog, sends, active, stop, others>>
vars == <<kernel, active, stop, pc, conns, loop, others, wrong>>

\* owner: the worker that has the descriptor; id: which client's connection it
\* is; hup: the client reset it; in: it has input.
Nobody == "nobody"
Unused == [owner |-> Nobody, id |-> 0, hup |-> FALSE, in |-> FALSE]

\* A Conn, as far as the loop looks at it.  phase: "fresh" and "shake" in a TLS
\* handshake, then "open".
NoConn == [gen |-> 0, phase |-> "none", hs_queued |-> FALSE, waiting |-> FALSE]
\* The fields of a Loop and its Worker, and the local variables of its calls.
NewLoop ==
    [batch |-> {},           \* events of the last epoll_wait not handled yet
     lst |-> CHOOSE l \in Listeners : TRUE,   \* the listener it works on, at first any
     fd |-> 0,               \* the descriptor it works on
     ret |-> "top",          \* where read and release return to
     gen |-> 0,              \* Worker.gen
     timers |-> {},          \* Worker.timers, as ids
     hs |-> <<>>, hs_head |-> 0,
     paused |-> FALSE,
     polled |-> Listeners,   \* the listeners in its epoll set
     posts |-> {}]           \* what drain_inbox has taken

\* What names the connection on fd of worker w: its descriptor and generation;
\* for is the connection that is meant.
Id(w, fd, k) == [w |-> w, fd |-> fd, gen |-> k.gen, for |-> sock[fd].id]

\* An event of epoll_wait.
Event(what, l, fd, for) == [what |-> what, lst |-> l, fd |-> fd, for |-> for]

\* A timer, a post or an event, meant for the connection for, is applied to the
\* one on fd.
Reaches(by, fd, for) == wrong' = IF sock[fd].id = for THEN wrong ELSE wrong \cup {by}

Init ==
    /\ sock = [fd \in Fds |-> Unused]
    /\ backlog = [w \in Workers |-> [l \in Listeners |-> <<>>]]
    /\ clients = 0 /\ sends = 0 /\ active = 0 /\ stop = FALSE
    /\ pc = [w \in Workers |-> "top"]
    /\ conns = [w \in Workers |-> [fd \in Fds |-> NoConn]]
    /\ loop = [w \in Workers |-> NewLoop]
    /\ inbox = [w \in Workers |-> {}]
    /\ ids = {}
    /\ wrong = {}
-----------------------------------------------------------------------------
(* Clients, threads that post, and the request to stop.                    *)

ClientConnect(w, l) ==
    /\ clients < MaxClients /\ pc[w] # "gone"
    /\ clients' = clients + 1
    /\ backlog' = [backlog EXCEPT ![w][l] = Append(@, clients + 1)]
    /\ UNCHANGED <<sock, sends, active, stop, pc, conns, loop, others, wrong>>

ClientSend(fd) ==
    /\ sock[fd].owner # Nobody /\ ~sock[fd].in /\ ~sock[fd].hup /\ sends < MaxSends
    /\ sends' = sends + 1
    /\ sock' = [sock EXCEPT ![fd].in = TRUE]
    /\ UNCHANGED <<clients, backlog, active, stop, pc, conns, loop, others, wrong>>

ClientReset(fd) ==
    /\ sock[fd].owner # Nobody /\ ~sock[fd].hup
    /\ sock' = [sock EXCEPT ![fd].hup = TRUE]
    /\ UNCHANGED <<clients, backlog, sends, active, stop, pc, conns, loop, others, wrong>>

\* Hub.post for one connection: ws_send or stream_send with its id.
PostTo(id) ==
    /\ ids' = ids \ {id}
    /\ inbox' = [inbox EXCEPT ![id.w] = @ \cup {id}]
    /\ UNCHANGED <<kernel, active, stop, pc, conns, loop, wrong>>

RequestStop ==
    /\ ~stop
    /\ stop' = TRUE
    /\ UNCHANGED <<kernel, active, pc, conns, loop, others, wrong>>
-----------------------------------------------------------------------------
(* What the calls of a worker have in common.                              *)

Counted == MaxConns > 0   \* connections take a slot of max_conns

Goto(w, p) == pc' = [pc EXCEPT ![w] = p]

\* Worker w goes on at p, with its Loop changed to lp.
Go(w, p, lp) == Goto(w, p) /\ loop' = [loop EXCEPT ![w] = lp]

\* A step that concerns nobody else.
Step(w, p, lp) == Go(w, p, lp) /\ UNCHANGED <<kernel, active, stop, conns, others, wrong>>

\* The lookup of on_event, fire and deliver before they use conns[fd].
Here(w, fd) == conns[w][fd].phase # "none"

\* Mutant of Names: looks at the descriptor alone.
NamesByFd(w, id) == Here(w, id.fd)

\* The check of fire, ws_push and st_push that the connection is the one meant.
Names(w, id) == Here(w, id.fd) /\ conns[w][id.fd].gen = id.gen

\* Mutant of CloseConn: forgets that the slot is taken.
CloseConnKeeps(w, fd, p, lp) ==
    /\ sock' = [sock EXCEPT ![fd] = Unused]
    /\ conns' = [conns EXCEPT ![w][fd] = NoConn]
    /\ Go(w, p, [lp EXCEPT !.ret = p])

\* Loop.close up to C.close(fd), with lp the Loop and p where the caller goes
\* on; the slot, if it has one, is released next.
CloseConn(w, fd, p, lp) ==
    /\ sock' = [sock EXCEPT ![fd] = Unused]
    /\ conns' = [conns EXCEPT ![w][fd] = NoConn]
    /\ Go(w, IF Counted THEN "release" ELSE p, [lp EXCEPT !.ret = p])

\* The rest of Loop.close: ConnCount.release.
Release(w) ==
    /\ pc[w] = "release"
    /\ active' = active - 1
    /\ Goto(w, loop[w].ret)
    /\ UNCHANGED <<kernel, stop, conns, loop, others, wrong>>
-----------------------------------------------------------------------------
(* Loop.run: epoll_wait and the events of a batch.                         *)

\* What epoll_wait reports to w.
Ready(w) ==
    (IF inbox[w] # {} THEN {Event("inbox", "", 0, 0)} ELSE {})
    \cup {Event("accept", l, 0, 0) : l \in {k \in loop[w].polled : backlog[w][k] # <<>>}}
    \cup {Event(IF sock[fd].hup THEN "hup" ELSE "in", "", fd, sock[fd].id) :
            fd \in {f \in Fds : Here(w, f) /\ (sock[f].hup \/ sock[f].in)}}

Poll(w) ==
    /\ pc[w] = "top" /\ ~stop
    /\ Step(w, "batch", [loop[w] EXCEPT !.batch = Ready(w)])

Handled(w, e) == [loop[w] EXCEPT !.batch = @ \ {e}]

\* drain_inbox up to take.
OnInbox(w, e) ==
    /\ e.what = "inbox"
    /\ Go(w, "drain", [Handled(w, e) EXCEPT !.posts = inbox[w]])
    /\ inbox' = [inbox EXCEPT ![w] = {}]
    /\ UNCHANGED <<kernel, active, stop, conns, ids, wrong>>

OnListener(w, e) ==
    /\ e.what = "accept"
    /\ Step(w, "accept", [Handled(w, e) EXCEPT !.lst = e.lst])

\* on_event for a connection that is gone.
OnGone(w, e) ==
    /\ e.fd # 0 /\ ~Here(w, e.fd)
    /\ Step(w, "batch", Handled(w, e))

\* on_event: EPOLLERR or EPOLLHUP.
OnHup(w, e) ==
    /\ e.what = "hup" /\ Here(w, e.fd)
    /\ Reaches("hup", e.fd, e.for)
    /\ CloseConn(w, e.fd, "batch", Handled(w, e))
    /\ UNCHANGED rest

\* on_event: input.  The first step of a handshake is queued.
OnInput(w, e) ==
    /\ e.what = "in" /\ Here(w, e.fd)
    /\ LET k == conns[w][e.fd]
           lp == Handled(w, e)
       IN  IF k.phase = "fresh"
             THEN /\ conns' = [conns EXCEPT ![w][e.fd].hs_queued = TRUE]
                  /\ Go(w, "batch", IF k.hs_queued THEN lp
                                    ELSE [lp EXCEPT !.hs = Append(@, e.fd)])
             ELSE /\ UNCHANGED conns
                  /\ Go(w, IF k.phase = "shake" THEN "handshake" ELSE "read",
                        [lp EXCEPT !.fd = e.fd, !.ret = "batch"])
    /\ UNCHANGED <<kernel, active, stop, others, wrong>>

OnEvent(w) ==
    /\ pc[w] = "batch"
    /\ \E e \in loop[w].batch :
          OnInbox(w, e) \/ OnListener(w, e) \/ OnGone(w, e) \/ OnHup(w, e) \/ OnInput(w, e)

BatchEnd(w) ==
    /\ pc[w] = "batch" /\ loop[w].batch = {}
    /\ Step(w, "fire", loop[w])
-----------------------------------------------------------------------------
(* drain_inbox and accept_all.                                             *)

\* One post: deliver and the flush of what it wrote, which may fail or find the
\* client too slow.
Deliver(w, id) ==
    LET lp == [loop[w] EXCEPT !.posts = @ \ {id}] IN
    /\ pc[w] = "drain"
    /\ IF Names(w, id)
         THEN /\ Reaches("post", id.fd, id.for)
              /\ \/ Go(w, "drain", lp) /\ UNCHANGED <<sock, conns>>
                 \/ CloseConn(w, id.fd, "drain", lp)
         ELSE Go(w, "drain", lp) /\ UNCHANGED <<sock, conns, wrong>>
    /\ UNCHANGED rest

DrainEnd(w) ==
    /\ pc[w] = "drain" /\ loop[w].posts = {}
    /\ Step(w, "batch", loop[w])

FreeFds == {fd \in Fds : sock[fd].owner = Nobody}

\* accept4 fails with EMFILE (whether or not a connection waits): the listeners
\* leave the epoll set.
AcceptFull(w) ==
    /\ pc[w] = "accept" /\ FreeFds = {}
    /\ Step(w, "batch", [loop[w] EXCEPT !.polled = {}, !.paused = TRUE])

\* accept4 fails with EAGAIN.
AcceptNone(w) ==
    /\ pc[w] = "accept" /\ FreeFds # {} /\ backlog[w][loop[w].lst] = <<>>
    /\ Step(w, "batch", loop[w])

\* accept4 returns a connection, on the lowest free descriptor.
Accept(w) ==
    LET l == loop[w].lst IN
    /\ pc[w] = "accept" /\ backlog[w][l] # <<>>
    /\ \E fd \in FreeFds :
          /\ \A f \in FreeFds : fd <= f
          /\ sock' = [sock EXCEPT ![fd] = [Unused EXCEPT !.owner = w, !.id = Head(backlog[w][l])]]
          /\ Go(w, IF Counted THEN "add" ELSE "setup", [loop[w] EXCEPT !.fd = fd])
    /\ backlog' = [backlog EXCEPT ![w][l] = Tail(@)]
    /\ UNCHANGED <<clients, sends, active, stop, conns, others, wrong>>

\* ConnCount.try_add: the atomic add and the comparison.
TryAdd(w) ==
    /\ pc[w] = "add"
    /\ active' = active + 1
    /\ Goto(w, IF active + 1 > MaxConns THEN "undo" ELSE "setup")
    /\ UNCHANGED <<kernel, stop, conns, loop, others, wrong>>

\* The atomic sub of a try_add that failed, or the release after a tls_start
\* that failed.
Undo(w) ==
    /\ pc[w] = "undo"
    /\ active' = active - 1
    /\ Goto(w, "drop")
    /\ UNCHANGED <<kernel, stop, conns, loop, others, wrong>>

\* The connection is refused: its descriptor is closed.
Drop(w) ==
    /\ pc[w] = "drop"
    /\ sock' = [sock EXCEPT ![loop[w].fd] = Unused]
    /\ Goto(w, "accept")
    /\ UNCHANGED <<clients, backlog, sends, active, stop, conns, loop, others, wrong>>

NextGen(w) == [loop[w] EXCEPT !.gen = @ + 1]

\* The rest of a turn of accept_all: a Conn for the descriptor, in epoll.
Setup(w) ==
    /\ pc[w] = "setup"
    /\ conns' = [conns EXCEPT ![w][loop[w].fd] =
                    [NoConn EXCEPT !.gen = loop[w].gen + 1,
                                   !.phase = IF loop[w].lst \in TlsListeners THEN "fresh" ELSE "open"]]
    /\ Go(w, "accept", NextGen(w))
    /\ UNCHANGED <<kernel, active, stop, others, wrong>>

\* tls_start fails.
SetupTlsFail(w) ==
    /\ pc[w] = "setup" /\ loop[w].lst \in TlsListeners
    /\ Step(w, IF Counted THEN "undo" ELSE "drop", NextGen(w))

\* The connection cannot be added to epoll: Loop.close.
SetupEpollFail(w) ==
    /\ pc[w] = "setup"
    /\ CloseConn(w, loop[w].fd, "accept", NextGen(w))
    /\ UNCHANGED <<rest, wrong>>
-----------------------------------------------------------------------------
(* A connection: on_readable and handshake.                                *)

\* on_readable: the handler may give its connection's id away (a WebSocket or a
\* stream), or defer its response; the connection may end.
Read(w) ==
    LET fd == loop[w].fd
        k == conns[w][fd]
        id == Id(w, fd, k)
        more == sock[fd].in /\ Cardinality(ids \cup loop[w].timers) < MaxNames
    IN
    /\ pc[w] = "read"
    /\ \/ /\ ~sock[fd].hup
          /\ sock' = [sock EXCEPT ![fd].in = FALSE]
          /\ Goto(w, loop[w].ret)
          /\ \/ UNCHANGED <<conns, loop, ids>>
             \/ /\ more
                /\ ids' = ids \cup {id}
                /\ UNCHANGED <<conns, loop>>
             \/ /\ more /\ ~k.waiting
                /\ conns' = [conns EXCEPT ![w][fd].waiting = TRUE]
                /\ loop' = [loop EXCEPT ![w].timers = @ \cup {id}]
                /\ UNCHANGED ids
       \/ /\ sock[fd].hup \/ sock[fd].in
          /\ CloseConn(w, fd, loop[w].ret, loop[w])
          /\ UNCHANGED ids
    /\ UNCHANGED <<clients, backlog, sends, active, stop, inbox, wrong>>

\* handshake: it needs more input, is done and reads on, or fails.
Handshake(w) ==
    LET fd == loop[w].fd IN
    /\ pc[w] = "handshake"
    /\ \/ /\ ~sock[fd].hup
          /\ sock' = [sock EXCEPT ![fd].in = FALSE]
          /\ Goto(w, loop[w].ret)
          /\ \E p \in IF sock[fd].in THEN {conns[w][fd].phase, "shake"} ELSE {conns[w][fd].phase} :
                conns' = [conns EXCEPT ![w][fd].phase = p]
          /\ UNCHANGED loop
       \/ /\ ~sock[fd].hup /\ sock[fd].in /\ conns[w][fd].phase = "shake"
          /\ conns' = [conns EXCEPT ![w][fd].phase = "open"]
          /\ Goto(w, "read")
          /\ UNCHANGED <<sock, loop>>
       \/ /\ sock[fd].hup \/ sock[fd].in
          /\ CloseConn(w, fd, loop[w].ret, loop[w])
    /\ UNCHANGED <<rest, wrong>>
-----------------------------------------------------------------------------
(* After a batch: fire, sweep, next_handshake; and the end of run.         *)

\* One timer that is due.
Fire(w, t) ==
    LET lp == [loop[w] EXCEPT !.timers = @ \ {t}] IN
    /\ pc[w] = "fire"
    /\ IF Names(w, t) /\ conns[w][t.fd].waiting
         THEN /\ Reaches("timer", t.fd, t.for)
              /\ \/ /\ conns' = [conns EXCEPT ![w][t.fd].waiting = FALSE]
                    /\ Go(w, "fire", lp)
                    /\ UNCHANGED sock
                 \/ CloseConn(w, t.fd, "fire", lp)
         ELSE Go(w, "fire", lp) /\ UNCHANGED <<sock, conns, wrong>>
    /\ UNCHANGED rest

\* No more timers are due, and the last sweep was less than a second ago.
FireEnd(w) ==
    /\ pc[w] = "fire"
    /\ Step(w, "hs", loop[w])

\* Mutant of SweepAs: adds none.
SweepAsNone(w, failed) == pc[w] = "fire" /\ Step(w, "sweep", loop[w])

\* The last sweep was a second ago.  Paused listeners are added again, those
\* in failed without success.
SweepAs(w, failed) ==
    /\ pc[w] = "fire"
    /\ Step(w, "sweep", IF loop[w].paused
                          THEN [loop[w] EXCEPT !.polled = Listeners \ failed, !.paused = failed # {}]
                          ELSE loop[w])

Sweep(w) == SweepAs(w, {})

SweepFail(w) == \E failed \in SUBSET (Listeners \ loop[w].polled) \ {{}} :
                    loop[w].paused /\ SweepAs(w, failed)

\* A connection whose deadline has passed.
SweepClose(w, fd) ==
    /\ pc[w] = "sweep" /\ Here(w, fd) /\ ~conns[w][fd].waiting
    /\ CloseConn(w, fd, "sweep", loop[w])
    /\ UNCHANGED <<rest, wrong>>

SweepEnd(w) ==
    /\ pc[w] = "sweep"
    /\ Step(w, "hs", loop[w])

\* The entries of the queue from hs_head on that next_handshake does not skip.
Queued(w) == {i \in loop[w].hs_head + 1 .. Len(loop[w].hs) : conns[w][loop[w].hs[i]].hs_queued}

\* Mutant of Advanced: forgets the rest of the queue.
AdvancedClears(lp, i) == [lp EXCEPT !.hs = <<>>, !.hs_head = 0]

\* The queue starts over once hs_head is at its end.
Advanced(lp, i) ==
    IF i = Len(lp.hs) THEN [lp EXCEPT !.hs = <<>>, !.hs_head = 0]
                      ELSE [lp EXCEPT !.hs_head = i]

\* Mutant of NextHandshake: leaves the connection marked as queued.
NextHandshakeMarked(w) ==
    /\ pc[w] = "hs"
    /\ \E i \in Queued(w) :
          /\ \A j \in Queued(w) : i <= j
          /\ Step(w, "handshake", [Advanced(loop[w], i) EXCEPT !.fd = loop[w].hs[i], !.ret = "top"])

\* next_handshake finds a connection, skipping entries of closed ones.
NextHandshake(w) ==
    /\ pc[w] = "hs"
    /\ \E i \in Queued(w) :
          LET fd == loop[w].hs[i] IN
          /\ \A j \in Queued(w) : i <= j
          /\ conns' = [conns EXCEPT ![w][fd].hs_queued = FALSE]
          /\ Go(w, "handshake", [Advanced(loop[w], i) EXCEPT !.fd = fd, !.ret = "top"])
    /\ UNCHANGED <<kernel, active, stop, others, wrong>>

NoHandshake(w) ==
    /\ pc[w] = "hs" /\ Queued(w) = {}
    /\ Step(w, "top", Advanced(loop[w], Len(loop[w].hs)))

\* The end of run: every connection is closed.
EndClose(w, fd) ==
    /\ pc[w] = "top" /\ stop /\ Here(w, fd)
    /\ CloseConn(w, fd, "top", loop[w])
    /\ UNCHANGED <<rest, wrong>>

\* Mutant of WorkerEnd: leaves the connections open.
WorkerEndOpen(w) == pc[w] = "top" /\ stop /\ Step(w, "gone", loop[w])

WorkerEnd(w) ==
    /\ pc[w] = "top" /\ stop /\ \A fd \in Fds : ~Here(w, fd)
    /\ Step(w, "gone", loop[w])
-----------------------------------------------------------------------------
WorkerNext(w) ==
    \/ Release(w) \/ Poll(w) \/ OnEvent(w) \/ BatchEnd(w)
    \/ (\E id \in loop[w].posts : Deliver(w, id)) \/ DrainEnd(w)
    \/ AcceptFull(w) \/ AcceptNone(w) \/ Accept(w) \/ TryAdd(w) \/ Undo(w) \/ Drop(w)
    \/ Setup(w) \/ SetupTlsFail(w) \/ SetupEpollFail(w)
    \/ Read(w) \/ Handshake(w)
    \/ (\E t \in loop[w].timers : Fire(w, t)) \/ FireEnd(w)
    \/ Sweep(w) \/ SweepFail(w) \/ (\E fd \in Fds : SweepClose(w, fd)) \/ SweepEnd(w)
    \/ NextHandshake(w) \/ NoHandshake(w)
    \/ (\E fd \in Fds : EndClose(w, fd)) \/ WorkerEnd(w)

Next ==
    \/ \E w \in Workers, l \in Listeners : ClientConnect(w, l)
    \/ \E fd \in Fds : ClientSend(fd) \/ ClientReset(fd)
    \/ \E id \in ids : PostTo(id)
    \/ RequestStop
    \/ \E w \in Workers : WorkerNext(w)

Spec == Init /\ [][Next]_vars

\* The operating system runs every worker; a timer falls due, the sweep comes
\* round, the kernel at last has memory for epoll_ctl, and deadlines pass, but
\* nothing relies on the one of a handshake that waits for its turn.
FairSpec ==
    /\ Spec
    /\ \A w \in Workers :
          /\ WF_vars(WorkerNext(w))
          /\ SF_vars(Sweep(w)) /\ SF_vars(\E t \in loop[w].timers : Fire(w, t))
          /\ \A fd \in Fds : SF_vars(SweepClose(w, fd) /\ ~conns[w][fd].hs_queued)
-----------------------------------------------------------------------------
(* Properties.                                                             *)

Conns == [gen : Nat, phase : {"none", "fresh", "shake", "open"},
          hs_queued : BOOLEAN, waiting : BOOLEAN]
Ids == [w : Workers, fd : Fds, gen : Nat, for : Nat]
Events == [what : {"inbox"}, lst : {""}, fd : {0}, for : {0}]
              \cup [what : {"accept"}, lst : Listeners, fd : {0}, for : {0}]
              \cup [what : {"hup", "in"}, lst : {""}, fd : Fds, for : Nat]
Returns == {"top", "batch", "accept", "drain", "fire", "sweep"}
Loops == [batch : SUBSET Events, lst : Listeners, fd : 0 .. MaxFd, ret : Returns,
          gen : Nat, timers : SUBSET Ids, hs : Seq(Fds), hs_head : Nat,
          paused : BOOLEAN, polled : SUBSET Listeners, posts : SUBSET Ids]

\* Every variable has its type, and hs_head stays within its queue.
TypeOK ==
    /\ sock \in [Fds -> [owner : Workers \cup {Nobody}, id : Nat, hup : BOOLEAN, in : BOOLEAN]]
    /\ clients \in Nat /\ sends \in Nat /\ active \in Int /\ stop \in BOOLEAN
    /\ backlog \in [Workers -> [Listeners -> Seq(Nat)]]
    /\ pc \in [Workers -> Returns \cup {"add", "setup", "undo", "drop", "release", "read",
                                        "handshake", "hs", "gone"}]
    /\ conns \in [Workers -> [Fds -> Conns]]
    /\ loop \in [Workers -> Loops]
    /\ inbox \in [Workers -> SUBSET Ids] /\ ids \subseteq Ids
    /\ wrong \subseteq {"timer", "post", "hup"}
    /\ \A w \in Workers : loop[w].hs_head <= Len(loop[w].hs)

\* The loops keep the books of Slots, whatever else they do: the descriptors and
\* the count of connections.
Sl == INSTANCE Slots WITH
    owner <- [fd \in Fds |-> sock[fd].owner],
    conns <- {x \in Workers \X Fds : Here(x[1], x[2])},
    stage <- [w \in Workers |->
                IF pc[w] \in {"add", "setup", "undo", "drop", "release"} THEN pc[w] ELSE "none"],
    fd <- [w \in Workers |-> IF pc[w] \in {"add", "setup", "undo", "drop"} THEN loop[w].fd ELSE 0]

KeepsSlots == Sl!Spec

\* A timer or a post reaches the connection it was meant for or none, also when
\* the descriptor has been reused (process.v: "a stale timer cannot answer a
\* newer one").
RightConnection == wrong \cap {"timer", "post"} = {}

\* A connection is closed for a hang-up that was its own.
RightEvent == "hup" \notin wrong

\* A handshake that waits for its turn is in the queue ahead of hs_head, also
\* when its descriptor was queued before by a connection that is gone.
QueuedIsInQueue ==
    \A w \in Workers, fd \in Fds :
        conns[w][fd].hs_queued => \E i \in Queued(w) : loop[w].hs[i] = fd

\* A listener out of the epoll set comes back: its worker is paused, so that
\* the sweep tries again.
NoListenerLost == \A w \in Workers : loop[w].polled # Listeners => loop[w].paused

\* At every step of a turn the loop's books hold: no queued handshake and no
\* listener is ever where nothing will look for it again.
LoopInv == TypeOK /\ QueuedIsInQueue /\ NoListenerLost

\* Every connection that clients make is accepted, or refused, unless the
\* server stops: also after the descriptors ran out (accept_all takes the
\* listeners out of epoll, sweep puts them back).
EveryClientAccepted ==
    \A w \in Workers, l \in Listeners :
        backlog[w][l] # <<>> ~> stop \/ backlog[w][l] = <<>>

\* Every handshake that waits for its turn gets it, or its connection closes.
EveryHandshakeRuns ==
    \A w \in Workers, fd \in Fds : conns[w][fd].hs_queued ~> ~conns[w][fd].hs_queued

\* A server asked to stop closes every connection (docs/connection.md: "open
\* connections are closed").
StopCloses == stop ~> (active = 0 /\ \A fd \in Fds : sock[fd] = Unused)
=============================================================================
