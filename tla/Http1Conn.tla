----------------------------- MODULE Http1Conn -----------------------------
(***************************************************************************)
(* One cleartext HTTP/1.1 connection on its worker: the requests a client  *)
(* pipelines are served in order by Worker.process (engine/process.v), the *)
(* answers leave through Loop.flush (engine/worker_linux.c.v), and a       *)
(* handler may answer at once, with a file, later (Ctx.after) or with a    *)
(* stream (engine/stream.v).                                               *)
(*                                                                         *)
(* The worker is one thread: between epoll_wait and epoll_wait it runs     *)
(* calls that nest (on_readable, drain, process, flush), kept here as a    *)
(* program counter and a stack of the callers to return to.  What          *)
(* interleaves with it is the client and the kernel: input that arrives,   *)
(* a socket that fills and empties, a close, a reset, and time.            *)
(*                                                                         *)
(* Data is abstracted to order and size.  A request arrives in Parts       *)
(* parts (more for an oversized one), and only how many parts are in the   *)
(* socket and in rbuf matters.                                             *)
(* Output is a sequence of units, each marked with the request it answers  *)
(* and its place in that response; wbuf and its limits count units.        *)
(***************************************************************************)
EXTENDS Naturals, Sequences, FiniteSets

CONSTANTS
    N,            \* bound: requests the client sends
    Oversize,     \* those of them that may be larger than the limits
    FirstKinds,   \* what handlers may do when a request is served, see Kinds
    ResumeKinds,  \* what they may do when a deferred response is resumed
    StreamModes,  \* how streams write: "gen" by on_drain, "tick" by timers
    MaxPending,   \* Options.max_pending, in units
    SlowFactor,   \* 4 in the code: unread output, in max_pending, that is too much
    DrainMax,     \* stream_drain_max, in units
    MaxTotal,     \* the size rbuf may grow to, in parts
    FileUnits,    \* size of a file, in units
    StreamLen,    \* bound: pieces a stream writes
    MaxPush       \* bound: pieces written to streams from elsewhere

Parts == 2

Kinds == {"plain", "big", "file", "stream", "defer", "bad"}

ASSUME Http1Assumption ==
    /\ {N, MaxPending, SlowFactor, DrainMax, MaxTotal, FileUnits} \subseteq Nat \ {0}
    /\ {StreamLen, MaxPush} \subseteq Nat
    /\ FirstKinds \subseteq Kinds /\ ResumeKinds \subseteq Kinds \ {"bad"}
    /\ Oversize \subseteq 1 .. N
    /\ StreamModes \subseteq {"gen", "tick"}

VARIABLES
    c,        \* the Conn, see Fresh
    pc,       \* where the worker is
    stack,    \* the calls it returns to, innermost first
    local,    \* the local variables of flush
    net,      \* the socket as the kernel and the client see it
    pushes    \* pieces written to streams from elsewhere

vars == <<c, pc, stack, local, net, pushes>>

\* The size of request i, and of the requests up to i.
Size(i) == IF i \in net.over THEN MaxTotal + 1 ELSE Parts

Upto(i) ==
    Parts * Cardinality((1 .. i) \ net.over) + (MaxTotal + 1) * Cardinality((1 .. i) \cap net.over)

\* A unit of output: "cont" an interim 100 response, "only" a whole response,
\* "first", "mid" and "last" the pieces of a longer one.
Unit(id, part) == [id |-> id, part |-> part]
Units == [id : 0 .. N + 1, part : {"cont", "only", "first", "mid", "last"}]

\* Conn.reset, and the fields of Conn this module uses.
Fresh ==
    [open |-> TRUE,            \* fd >= 0
     rbuf |-> 0,               \* parts buffered
     cont |-> FALSE,           \* frame.continue_sent
     wbuf |-> <<>>, woff |-> 0,
     close_after |-> FALSE, out_armed |-> FALSE, reading |-> FALSE,
     waiting |-> FALSE, pending_close |-> FALSE,
     file_left |-> 0,          \* 0: file_fd < 0
     st |-> 0,                 \* the request c.st answers, 0: nil
     st_mode |-> "gen",        \* its handler has on_drain, or sets timers
     st_chunked |-> FALSE, st_close |-> FALSE,
     st_left |-> 0,            \* pieces its handler may still write
     st_serial |-> 0,
     linger |-> FALSE, lingering |-> FALSE,
     dl |-> "idle",            \* which timeout deadline_ms stands for
     late |-> FALSE,           \* deadline_ms has passed
     timers |-> {},            \* Worker.timers of this connection
     served |-> 0]             \* requests taken from rbuf

NoLocals == [moved |-> FALSE, drained |-> 0, ended |-> FALSE]

\* A caller on the stack: f its name, n a number and b a flag it keeps.
Frame(f, n, b) == [f |-> f, n |-> n, b |-> b]

\* A timer of the deferred response (serial 0) or of a stream of request id.
Timer(serial, id) == [serial |-> serial, id |-> id]

Init ==
    /\ c = Fresh
    /\ pc = "idle" /\ stack = <<>> /\ local = NoLocals
    /\ \E over \in SUBSET Oversize :
          net = [sent |-> 0, in |-> 0, eof |-> FALSE, reset |-> FALSE, room |-> TRUE,
                 over |-> over, last |-> Unit(0, "last")]
    /\ pushes = 0
-----------------------------------------------------------------------------
(* The client and the kernel.                                              *)

Client(n) ==
    /\ c.open
    /\ net' = n
    /\ UNCHANGED <<c, pc, stack, local, pushes>>

ClientSend ==
    /\ net.sent < Upto(N) /\ ~net.eof /\ ~net.reset
    /\ Client([net EXCEPT !.sent = @ + 1, !.in = @ + 1])

ClientTake == ~net.room /\ ~net.reset /\ Client([net EXCEPT !.room = TRUE])

ClientClose == ~net.eof /\ ~net.reset /\ Client([net EXCEPT !.eof = TRUE])

ClientReset == ~net.reset /\ Client([net EXCEPT !.reset = TRUE])
-----------------------------------------------------------------------------
(* Operations on the Conn.                                                 *)

Put(d, us) == [d EXCEPT !.wbuf = @ \o us]

SetDeadline(d, kind) == [d EXCEPT !.dl = kind, !.late = FALSE]

ReadOrIdle(d) == IF d.reading THEN "read" ELSE "idle"

\* Loop.close: the Conn goes back to the pool; its timers find it gone.
Close(d) == [Fresh EXCEPT !.open = FALSE, !.served = d.served]

\* Mutant of ArmOut: sets the deadline on progress only.
ArmOutOnProgress(d, progressed) ==
    IF progressed THEN SetDeadline([d EXCEPT !.out_armed = TRUE], "write")
    ELSE [d EXCEPT !.out_armed = TRUE]

\* Loop.arm_out.
ArmOut(d, progressed) ==
    IF d.out_armed /\ ~progressed THEN d
    ELSE SetDeadline([d EXCEPT !.out_armed = TRUE], "write")

\* Worker.refuse: an error response to the request being received.
Refuse(d) ==
    [Put(d, <<Unit(d.served + 1, "only")>>) EXCEPT !.close_after = TRUE, !.linger = TRUE]

\* Worker.st_end: the stream is over, however it came to that.
StEnd(d) == [d EXCEPT !.st = 0]

\* A stream callback that does act, and Worker.st_take after it.
StTake(d, act) ==
    LET w == CASE act = "write" -> [Put(d, <<Unit(d.st, "mid")>>) EXCEPT !.st_left = @ - 1]
               [] act = "end" /\ d.st_chunked -> Put(d, <<Unit(d.st, "last")>>)
               [] OTHER -> d
        t == IF act = "end" \/ d.st_mode = "gen" THEN w
             ELSE [w EXCEPT !.timers = @ \cup {Timer(d.st_serial, d.st)}]
    IN  IF act = "end"
          THEN [StEnd(t) EXCEPT !.close_after = d.st_close \/ ~d.st_chunked]
          ELSE IF Len(t.wbuf) - t.woff > SlowFactor * MaxPending
            THEN [t EXCEPT !.close_after = TRUE]
            ELSE t

\* What a callback of c's stream may do: write while it has something to write,
\* then end; a generator may wait for a push.
StActs(d) ==
    {"end"} \cup (IF d.st_left > 0 THEN {"write"} ELSE {})
            \cup (IF d.st_mode = "gen" /\ pushes < MaxPush THEN {"none"} ELSE {})

\* Worker.st_open, after the stream's head; on_open sets the first timer.
StOpen(d, id, close, mode, chunked) ==
    StTake([Put(d, <<Unit(id, "first")>>) EXCEPT
              !.st = id, !.st_mode = mode, !.st_chunked = chunked,
              !.st_close = close \/ ~chunked, !.close_after = FALSE,
              !.st_serial = @ + 1, !.st_left = StreamLen, !.reading = FALSE], "none")

\* Worker.finish: what the handler of request id left, a response or a deferral.
Finish(d, id, kind, close, mode, chunked) ==
    CASE kind = "defer" ->
            [d EXCEPT !.waiting = TRUE, !.pending_close = close,
                      !.timers = @ \cup {Timer(0, id)}]
      [] kind = "plain" ->
            [Put(d, <<Unit(id, "only")>>) EXCEPT !.close_after = close]
      [] kind = "big" ->
            [Put(d, <<Unit(id, "first"), Unit(id, "last")>>) EXCEPT !.close_after = close]
      [] kind = "file" ->
            [Put(d, <<Unit(id, "first")>>) EXCEPT !.close_after = close,
                                                  !.file_left = FileUnits]
      [] kind = "stream" -> StOpen(d, id, close, mode, chunked)
-----------------------------------------------------------------------------
(* The event loop: what epoll_wait reports, timers that are due, the sweep. *)

Call(f, n, b, target) ==
    /\ stack' = <<Frame(f, n, b)>> \o stack
    /\ pc' = target

\* Calls flush, which returns to what the stack says.
CallFlush == pc' = "flush" /\ local' = NoLocals

\* Calls drain for a caller f.
CallDrain(d, f) ==
    /\ stack' = <<Frame("drain", d.rbuf, FALSE), f>> \o stack
    /\ pc' = "process"

Idle == pc = "idle" /\ c.open

\* on_event: input, or the client's close, on a connection that is reading.
OnReadable ==
    /\ Idle /\ ~net.reset /\ ~c.lingering /\ ~c.out_armed
    /\ net.in > 0 \/ net.eof
    /\ pc' = "read"
    /\ UNCHANGED <<c, stack, local, net, pushes>>

\* on_event: the socket has room for a connection whose output waits.
OnWritable ==
    /\ Idle /\ ~net.reset /\ c.out_armed /\ net.room
    /\ stack' = <<Frame("event", 0, FALSE)>>
    /\ CallFlush
    /\ UNCHANGED <<c, net, pushes>>

\* on_event: EPOLLERR or EPOLLHUP.
OnHup ==
    /\ Idle /\ net.reset
    /\ c' = Close(c)
    /\ UNCHANGED <<pc, stack, local, net, pushes>>

\* on_event: input on a lingering connection.
OnLingering ==
    /\ Idle /\ ~net.reset /\ c.lingering
    /\ net.in > 0 \/ net.eof
    /\ pc' = "discard"
    /\ UNCHANGED <<c, stack, local, net, pushes>>

\* Mutant of FireTick: does not look at close_after.
FireTickClosing(t) ==
    /\ t.serial # 0 /\ c.st # 0 /\ c.st_serial = t.serial
    /\ \E act \in StActs(c) :
          LET d == StTake([c EXCEPT !.timers = @ \ {t}], act)
          IN  c' = d /\ CallDrain(d, Frame("fire", 0, FALSE))

\* fire: a timer is due.  A stream's timer runs its callback (st_tick) unless
\* another stream, or none, is on; a deferred response is resumed.
FireTick(t) ==
    /\ t.serial # 0 /\ c.st # 0 /\ c.st_serial = t.serial /\ ~c.close_after
    /\ \E act \in StActs(c) :
          LET d == StTake([c EXCEPT !.timers = @ \ {t}], act)
          IN  c' = d /\ CallDrain(d, Frame("fire", 0, FALSE))

\* Worker.resume, then drain.
FireResume(t) ==
    /\ t.serial = 0 /\ c.waiting
    /\ \E kind \in ResumeKinds, close \in BOOLEAN, mode \in StreamModes, chunked \in BOOLEAN :
          /\ LET r == [c EXCEPT !.timers = @ \ {t}, !.waiting = FALSE]
                 d == Finish(r, t.id, kind, close \/ c.pending_close, mode, chunked)
             IN  c' = d /\ CallDrain(d, Frame("fire", 0, FALSE))

FireStale(t) ==
    /\ IF t.serial = 0 THEN ~c.waiting
       ELSE c.st = 0 \/ c.st_serial # t.serial \/ c.close_after
    /\ c' = [c EXCEPT !.timers = @ \ {t}]
    /\ UNCHANGED <<pc, stack>>

Fire ==
    /\ Idle
    /\ \E t \in c.timers : FireTick(t) \/ FireResume(t) \/ FireStale(t)
    /\ UNCHANGED <<local, net, pushes>>

\* drain_inbox: st_push writes a piece sent from elsewhere, then flush, unless
\* output is waiting for the socket already.
Push ==
    /\ Idle /\ pushes < MaxPush /\ c.st # 0 /\ ~c.close_after
    /\ pushes' = pushes + 1
    /\ c' = IF Len(c.wbuf) - c.woff > SlowFactor * MaxPending
              THEN [c EXCEPT !.close_after = TRUE]
              ELSE Put(c, <<Unit(c.st, "mid")>>)
    /\ IF c.out_armed THEN UNCHANGED <<pc, local>> ELSE CallFlush
    /\ UNCHANGED <<stack, net>>

\* sweep on a stream that is not waiting for the socket: st_heartbeat, flush.
Heartbeat ==
    /\ Idle /\ pushes < MaxPush /\ c.st # 0 /\ ~c.out_armed /\ ~c.close_after
    /\ pushes' = pushes + 1
    /\ c' = Put(c, <<Unit(c.st, "mid")>>)
    /\ CallFlush
    /\ UNCHANGED <<stack, net>>

\* Connections the sweep leaves alone, whatever their deadline.
Exempt(d) == (d.st # 0 /\ ~d.out_armed) \/ d.waiting

\* sweep once the deadline has passed: the end of a connection that is not
\* exempt.
Sweep ==
    /\ Idle
    /\ c' = IF Exempt(c) THEN [c EXCEPT !.late = TRUE] ELSE Close(c)
    /\ UNCHANGED <<pc, stack, local, net, pushes>>
-----------------------------------------------------------------------------
(* on_readable, drain and process.                                         *)

\* rbuf is at its limit: input piles up behind a deferred response or a stream,
\* or one request is too large.
ReadFull ==
    /\ pc = "read" /\ c.rbuf >= MaxTotal
    /\ IF c.waiting \/ c.st # 0
         THEN c' = Close(c) /\ pc' = "return" /\ UNCHANGED local
         ELSE c' = [Refuse(c) EXCEPT !.rbuf = 0, !.reading = FALSE] /\ CallFlush
    /\ UNCHANGED <<stack, net, pushes>>

ReadSome ==
    /\ pc = "read" /\ c.rbuf < MaxTotal /\ ~net.reset
    /\ \E n \in 1 .. net.in :
          /\ c.rbuf + n <= MaxTotal
          /\ net' = [net EXCEPT !.in = @ - n]
          /\ c' = [c EXCEPT !.rbuf = @ + n]
          /\ CallDrain(c', Frame("readable", c.served, c.reading))
    /\ UNCHANGED <<local, pushes>>

ReadNothing ==
    /\ pc = "read" /\ c.rbuf < MaxTotal
    /\ net.in = 0 \/ net.reset
    /\ c' = IF net.eof \/ net.reset THEN Close(c) ELSE c
    /\ pc' = "return"
    /\ UNCHANGED <<stack, local, net, pushes>>

\* Mutant of CanServe: does not wait for a deferred response.
CanServeBehindDeferred(d) ==
    /\ ~d.close_after /\ d.file_left = 0 /\ d.st = 0
    /\ d.rbuf > 0 /\ Len(d.wbuf) < MaxPending

\* The condition of process's loop.
CanServe(d) ==
    /\ ~d.close_after /\ ~d.waiting /\ d.file_left = 0 /\ d.st = 0
    /\ d.rbuf > 0 /\ Len(d.wbuf) < MaxPending

\* The end of process, with d what its loop left.
EndProcess(d) ==
    LET rest == IF d.close_after THEN 0 ELSE d.rbuf IN
    [d EXCEPT !.linger = @ \/ (d.close_after /\ d.rbuf > 0),
              !.rbuf = rest,
              !.reading = rest > 0 /\ d.st = 0]

\* http1.frame finds the end of the next request.
Complete(d) == d.served < N /\ d.rbuf >= Size(d.served + 1)

\* One turn of process's loop: Worker.serve on a complete request.
ProcessServe ==
    /\ pc = "process" /\ CanServe(c) /\ Complete(c)
    /\ \E kind \in FirstKinds \ {"bad"}, close \in BOOLEAN, mode \in StreamModes,
          chunked \in BOOLEAN :
          /\ c' = Finish([c EXCEPT !.rbuf = @ - Size(c.served + 1), !.served = @ + 1, !.cont = FALSE],
                         c.served + 1, kind, close, mode, chunked)
    /\ UNCHANGED <<pc, stack, local, net, pushes>>

\* A request that framing or parsing refuses.
ProcessRefuse ==
    /\ pc = "process" /\ CanServe(c) /\ "bad" \in FirstKinds
    /\ c' = EndProcess([Refuse(c) EXCEPT !.rbuf = 0])
    /\ CallFlush
    /\ UNCHANGED <<stack, net, pushes>>

\* Part of a request: it may ask for a 100 response before it sends the rest.
ProcessPartial ==
    /\ pc = "process" /\ CanServe(c) /\ ~Complete(c)
    /\ \E expect \in BOOLEAN :
          c' = EndProcess(IF expect /\ ~c.cont
                            THEN [Put(c, <<Unit(c.served + 1, "cont")>>) EXCEPT !.cont = TRUE]
                            ELSE c)
    /\ CallFlush
    /\ UNCHANGED <<stack, net, pushes>>

ProcessEnd ==
    /\ pc = "process" /\ ~CanServe(c)
    /\ c' = EndProcess(c)
    /\ CallFlush
    /\ UNCHANGED <<stack, net, pushes>>
-----------------------------------------------------------------------------
(* flush, with arm_out, send_file, linger and discard.                     *)

\* The socket takes n units of us: what is left of its room is its own affair.
Taken(us, n) ==
    \E more \in BOOLEAN :
        /\ n < Len(us) => ~more
        /\ net' = [net EXCEPT !.room = more, !.last = us[n]]

\* What is left of wbuf to send.
Unsent(d) == SubSeq(d.wbuf, d.woff + 1, Len(d.wbuf))

\* The socket took n units; wbuf starts over once everything is out.
Advance(d, n) ==
    IF n = Len(Unsent(d)) THEN [d EXCEPT !.wbuf = <<>>, !.woff = 0]
                          ELSE [d EXCEPT !.woff = @ + n]

\* send takes some of wbuf.
FlushWrite ==
    /\ pc = "flush" /\ Unsent(c) # <<>> /\ net.room /\ ~net.reset
    /\ \E n \in 1 .. Len(Unsent(c)) : Taken(Unsent(c), n) /\ c' = Advance(c, n)
    /\ local' = [local EXCEPT !.moved = TRUE]
    /\ UNCHANGED <<pc, stack, pushes>>

\* sendfile takes some of the file, once wbuf is out; the file is closed at its
\* end.
FlushFile ==
    LET rest == [i \in 1 .. c.file_left |->
                    Unit(c.served, IF i = c.file_left THEN "last" ELSE "mid")] IN
    /\ pc = "flush" /\ c.wbuf = <<>> /\ c.file_left > 0 /\ net.room /\ ~net.reset
    /\ \E n \in 1 .. c.file_left :
          /\ Taken(rest, n)
          /\ c' = [c EXCEPT !.file_left = @ - n]
    /\ local' = [local EXCEPT !.moved = TRUE]
    /\ UNCHANGED <<pc, stack, pushes>>

\* The socket is full.
FlushFull ==
    /\ pc = "flush" /\ (c.wbuf # <<>> \/ c.file_left > 0) /\ ~net.room /\ ~net.reset
    /\ c' = ArmOut(c, local.moved)
    /\ pc' = "return"
    /\ UNCHANGED <<stack, local, net, pushes>>

\* The client is gone, or the file shrank.
FlushFail ==
    /\ pc = "flush"
    /\ \/ c.file_left > 0 /\ c.wbuf = <<>>
       \/ net.reset /\ c.wbuf # <<>>
    /\ c' = Close(c)
    /\ pc' = "return"
    /\ UNCHANGED <<stack, local, net, pushes>>

\* Everything is out, and a stream is on.
StreamTurn == pc = "flush" /\ c.wbuf = <<>> /\ c.file_left = 0 /\ c.st # 0

\* It has written enough in this flush: the others get a turn.
FlushYield ==
    /\ StreamTurn /\ local.drained >= DrainMax
    /\ c' = ArmOut(c, TRUE)
    /\ pc' = "return"
    /\ UNCHANGED <<stack, local, net, pushes>>

\* st_drain: on_drain writes more.
FlushDrain ==
    /\ StreamTurn /\ local.drained < DrainMax /\ c.st_mode = "gen" /\ ~c.close_after
    /\ \E act \in StActs(c) :
          /\ c' = StTake(c, act)
          /\ c'.wbuf # <<>>
          /\ local' = [local EXCEPT !.drained = @ + Len(c'.wbuf), !.ended = c'.st = 0]
    /\ UNCHANGED <<pc, stack, net, pushes>>

\* Mutant of BehindStream: nobody looks behind a stream that ended.
BehindStreamNever(d) == FALSE

\* A stream ended in this flush, and input waits behind it.
BehindStream(d) == local.ended /\ d.rbuf > 0

\* The end of flush with d the connection: close, or go on reading; requests
\* behind a stream that ended in this flush are served next.
FlushEnd(d) ==
    /\ IF d.close_after
         THEN IF d.linger
           THEN /\ c' = SetDeadline([d EXCEPT !.out_armed = FALSE, !.lingering = TRUE,
                                              !.reading = FALSE], "linger")
                /\ pc' = "discard"
                /\ UNCHANGED stack
           ELSE /\ c' = Close(d)
                /\ pc' = "return"
                /\ UNCHANGED stack
         ELSE /\ c' = IF d.out_armed
                        THEN SetDeadline([d EXCEPT !.out_armed = FALSE], ReadOrIdle(d))
                        ELSE d
              /\ IF BehindStream(d)
                   THEN Call("drain", d.rbuf, FALSE, "process")
                   ELSE pc' = "return" /\ UNCHANGED stack
    /\ UNCHANGED <<local, net, pushes>>

\* flush ends: no stream, or one that writes nothing now (st_drain is false).
FlushDone ==
    /\ pc = "flush" /\ c.wbuf = <<>> /\ c.file_left = 0
    /\ \/ c.st = 0 /\ FlushEnd(c)
       \/ /\ c.st # 0 /\ local.drained < DrainMax
          /\ c.st_mode # "gen" \/ c.close_after
          /\ FlushEnd(c)
       \/ /\ c.st # 0 /\ local.drained < DrainMax
          /\ c.st_mode = "gen" /\ ~c.close_after
          /\ \E act \in StActs(c) :
                LET d == StTake(c, act) IN d.wbuf = <<>> /\ FlushEnd(d)

\* discard reads and drops input; the connection closes with the client's side.
DiscardSome ==
    /\ pc = "discard" /\ net.in > 0 /\ ~net.reset
    /\ net' = [net EXCEPT !.in = 0]
    /\ c' = SetDeadline(c, "linger")
    /\ UNCHANGED <<pc, stack, local, pushes>>

DiscardEnd ==
    /\ pc = "discard" /\ (net.in = 0 \/ net.reset)
    /\ c' = IF net.eof \/ net.reset THEN Close(c) ELSE c
    /\ pc' = "return"
    /\ UNCHANGED <<stack, local, net, pushes>>
-----------------------------------------------------------------------------
(* Returns.                                                                *)

Stopped(d) == ~d.open \/ d.out_armed \/ d.lingering

Return == pc = "return" /\ stack # <<>>

\* A call returns to the event loop.
ReturnIdle ==
    /\ pc = "return" /\ stack = <<>>
    /\ pc' = "idle"
    /\ UNCHANGED <<c, stack, local, net, pushes>>

\* drain after flush: once more, unless nothing more can be done now.
ReturnDrain ==
    /\ Return /\ Head(stack).f = "drain"
    /\ IF Stopped(c) \/ c.rbuf = Head(stack).n
         THEN pc' = "return" /\ stack' = Tail(stack)
         ELSE pc' = "process" /\ stack' = <<Frame("drain", c.rbuf, FALSE)>> \o Tail(stack)
    /\ UNCHANGED <<c, local, net, pushes>>

\* on_readable after drain: the deadline, then another read unless this one was
\* short.
ReturnReadable ==
    /\ Return /\ Head(stack).f = "readable"
    /\ stack' = Tail(stack)
    /\ IF Stopped(c) THEN pc' = "return" /\ UNCHANGED c
       ELSE /\ c' = IF c.reading /\ (~Head(stack).b \/ c.served # Head(stack).n)
                      THEN SetDeadline(c, "read")
                    ELSE IF ~c.reading THEN SetDeadline(c, "idle")
                    ELSE c
            /\ pc' \in {"read", "return"}
    /\ UNCHANGED <<local, net, pushes>>

\* Mutant of ReturnEvent: leaves the requests behind the output it sent.
ReturnEventOnly ==
    /\ Return /\ Head(stack).f = "event"
    /\ pc' = "return" /\ stack' = Tail(stack)
    /\ UNCHANGED <<c, local, net, pushes>>

\* on_event after the flush of a writable socket.
ReturnEvent ==
    /\ Return /\ Head(stack).f = "event"
    /\ IF Stopped(c)
         THEN pc' = "return" /\ stack' = Tail(stack)
         ELSE pc' = "process" /\ stack' = <<Frame("drain", c.rbuf, FALSE)>> \o Tail(stack)
    /\ UNCHANGED <<c, local, net, pushes>>

\* Mutant of ReturnFire: leaves the deadline alone.
ReturnFireOnly ==
    /\ Return /\ Head(stack).f = "fire"
    /\ stack' = Tail(stack)
    /\ pc' = "return"
    /\ UNCHANGED <<c, local, net, pushes>>

\* fire after drain.
ReturnFire ==
    /\ Return /\ Head(stack).f = "fire"
    /\ stack' = Tail(stack)
    /\ pc' = "return"
    /\ c' = IF Stopped(c) THEN c ELSE SetDeadline(c, ReadOrIdle(c))
    /\ UNCHANGED <<local, net, pushes>>
-----------------------------------------------------------------------------
Event == OnReadable \/ OnWritable \/ OnHup \/ OnLingering

Worker ==
    \/ ReadFull \/ ReadSome \/ ReadNothing
    \/ ProcessServe \/ ProcessRefuse \/ ProcessPartial \/ ProcessEnd
    \/ FlushWrite \/ FlushFile \/ FlushFull \/ FlushFail \/ FlushYield \/ FlushDrain
    \/ FlushDone \/ DiscardSome \/ DiscardEnd
    \/ ReturnIdle \/ ReturnDrain \/ ReturnReadable \/ ReturnEvent \/ ReturnFire

Next ==
    \/ ClientSend \/ ClientTake \/ ClientClose \/ ClientReset
    \/ Event \/ Fire \/ Push \/ Heartbeat \/ Sweep
    \/ Worker

Spec == Init /\ [][Next]_vars

\* The worker goes on, epoll_wait reports what is ready, timers fall due, and
\* the client takes the output it is sent.  No deadline has to pass, so that a
\* timeout does not stand in for an answer.
FairSpec ==
    /\ Spec
    /\ WF_vars(Worker) /\ WF_vars(Event) /\ WF_vars(Fire)
    /\ WF_vars(ClientTake)
-----------------------------------------------------------------------------
(* Properties.                                                             *)

\* Every variable has its type.
TypeOK ==
    /\ DOMAIN c = DOMAIN Fresh
    /\ c.rbuf \in 0 .. MaxTotal /\ c.wbuf \in Seq(Units) /\ c.woff \in 0 .. Len(c.wbuf)
    /\ c.file_left \in 0 .. FileUnits /\ c.st \in 0 .. N /\ c.st_left \in 0 .. StreamLen
    /\ c.dl \in {"idle", "read", "write", "linger"}
    /\ c.timers \subseteq [serial : 0 .. N, id : 1 .. N]
    /\ c.served \in 0 .. N
    /\ pc \in {"idle", "read", "process", "flush", "discard", "return"}
    /\ net.in \in 0 .. Upto(N) /\ net.last \in Units
    /\ pushes \in 0 .. MaxPush

\* v may follow u in the output.
Follows(u, v) ==
    \/ /\ v.part \in {"cont", "only", "first"}
       /\ \/ v.id = u.id + 1 /\ u.part \in {"only", "last"}
          \/ v.id = u.id /\ u.part = "cont" /\ v.part # "cont"
    \/ /\ v.part \in {"mid", "last"}
       /\ v.id = u.id /\ u.part \in {"first", "mid"}

\* The client gets every response whole and in the order of its requests, with
\* no piece missing, repeated or out of place, whoever writes it: process, a
\* deferred response, a file after its head, a stream's callbacks and timers,
\* pushes and heartbeats, or an error after earlier responses.
ResponsesInOrder ==
    LET out == <<net.last>> \o Unsent(c)
    IN  TypeOK /\ \A i \in 1 .. Len(out) - 1 : Follows(out[i], out[i + 1])

\* A connection at rest that no timer, stream or blocked output holds.
AtRest == Idle /\ ~c.out_armed /\ ~c.waiting /\ c.st = 0 /\ ~c.lingering

\* No complete request is left in rbuf while the worker sleeps, unless a
\* deferred response, a stream or blocked output is ahead of it: nothing would
\* wake the worker for it (docs/connection.md: "Every complete request in a read
\* is served"; fire "serves what was pipelined behind each").
NothingStalls == AtRest => ~Complete(c) /\ c.wbuf = <<>> /\ c.file_left = 0

\* Output that waits for the socket runs under the write timeout and nothing
\* else does.
WriteDeadline ==
    Idle /\ ~Exempt(c) => ((c.dl = "write") = c.out_armed)

\* A connection that stops being exempt from the sweep, because its deferred
\* response or its stream is over, has been given a new deadline: the sweep
\* does not close it for the time it was exempt.
NoStaleDeadline == AtRest => ~c.late

\* A shut connection sends nothing more.
NothingAfterShutdown == [][c.lingering => net'.last = net.last]_vars

\* Every complete request is answered in full, unless the connection closes.
Answered(i) == net.last.id > i \/ (net.last.id = i /\ net.last.part \in {"only", "last"})

EveryRequestAnswered ==
    \A i \in 1 .. N :
        net.sent >= Upto(i) ~> Answered(i) \/ ~c.open \/ c.close_after
=============================================================================
