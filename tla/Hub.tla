-------------------------------- MODULE Hub --------------------------------
(***************************************************************************)
(* The cross-thread mailboxes of engine/hub.v and engine/hub_linux.c.v.    *)
(* Any thread posts (App.publish, App.ws_send, App.stream_send, ...); each *)
(* worker drains its own Inbox on its event loop (Loop.drain_inbox).  The  *)
(* worker sleeps in epoll_wait on an eventfd, which put writes only when   *)
(* no wake-up is pending (Inbox.woke).                                     *)
(*                                                                         *)
(* A critical section under a mutex is one action: nothing in it blocks.   *)
(* Everything else that two threads can interleave is a step of its own:   *)
(* the write of the eventfd after the unlock, and the read of the eventfd  *)
(* before take.                                                            *)
(***************************************************************************)
EXTENDS Naturals, Sequences, FiniteSets

CONSTANTS Threads,    \* the threads that post
          N,          \* number of workers
          MaxPosts,   \* bound: posts a thread makes
          MaxBoth,    \* bound: posts any two threads make together
          MaxServes   \* bound: times the server is started

ASSUME HubAssumption ==
    /\ N \in Nat \ {0}
    /\ MaxPosts \in Nat /\ MaxBoth \in Nat
    /\ MaxServes \in Nat

Workers == 0 .. N - 1

\* The boxes a post concerns: all of them for a topic, the target's for one
\* connection.
Targets == {Workers} \cup {{w} : w \in Workers}

Posts == [from : Threads, n : 1 .. MaxPosts, to : Targets]

VARIABLES
    boxes,      \* the Hub has inboxes: set by open, cleared by close
    q,          \* q[w]: Inbox.q
    woke,       \* woke[w]: Inbox.woke
    efd,        \* efd[w]: the counter of Inbox.efd
    tpc,        \* tpc[t]: "idle", "loop" (holds h.mu for reading) or "wake"
    at,         \* at[t]: the loop index i of Hub.post
    msg,        \* msg[t]: the post t is making
    sent,       \* sent[t]: posts t has begun
    wpc,        \* wpc[w]: where worker w is, see WorkerStates
    posts,      \* posts[w]: Loop.posts, the batch being delivered
    stop,       \* Stop.requested()
    serves,     \* times the server was started
    last        \* last[w][t]: history, the last post of t that w delivered

hubVars == <<boxes, q, woke, efd>>
threadVars == <<tpc, at, msg, sent>>
workerVars == <<wpc, posts, stop, serves, last>>
vars == <<hubVars, threadVars, workerVars>>

\* "off": no server.  "new": spawned, not set up yet.  "top": at the top of
\* Loop.run.  "poll": in epoll_wait.  "take": has read the eventfd, not yet the
\* queue.  "deliver": going through its batch.  "gone": the thread has ended.
WorkerStates == {"off", "new", "top", "poll", "take", "deliver", "gone"}

Readers == {t \in Threads : tpc[t] # "idle"}   \* who holds h.mu for reading

NoPost(t) == [from |-> t, n |-> 0, to |-> {}]   \* msg[t] before t's first post

Init ==
    /\ boxes = FALSE
    /\ q = [w \in Workers |-> <<>>]
    /\ woke = [w \in Workers |-> FALSE]
    /\ efd = [w \in Workers |-> 0]
    /\ tpc = [t \in Threads |-> "idle"]
    /\ at = [t \in Threads |-> 0]
    /\ msg = [t \in Threads |-> NoPost(t)]
    /\ sent = [t \in Threads |-> 0]
    /\ wpc = [w \in Workers |-> "off"]
    /\ posts = [w \in Workers |-> <<>>]
    /\ stop = FALSE
    /\ serves = 0
    /\ last = [w \in Workers |-> [t \in Threads |-> 0]]
-----------------------------------------------------------------------------
(* The server: Hub.open, the end of the workers, Hub.close.               *)

\* Hub.open: fresh inboxes under the write lock; the workers are spawned next.
\* The Stop is a new one or the caller's (Options.stop), requested or not.
Open ==
    /\ ~boxes /\ serves < MaxServes
    /\ Readers = {}
    /\ boxes' = TRUE
    /\ wpc' = [w \in Workers |-> "new"]
    /\ stop' \in {FALSE, stop}
    /\ serves' = serves + 1
    /\ UNCHANGED <<q, woke, efd, posts, last>>
    /\ UNCHANGED threadVars

\* Mutant of Close: does not take the write lock.
CloseUnlocked ==
    /\ boxes
    /\ \A w \in Workers : wpc[w] = "gone"
    /\ boxes' = FALSE
    /\ q' = [w \in Workers |-> <<>>]
    /\ woke' = [w \in Workers |-> FALSE]
    /\ efd' = [w \in Workers |-> 0]
    /\ wpc' = [w \in Workers |-> "off"]
    /\ posts' = [w \in Workers |-> <<>>]
    /\ UNCHANGED <<stop, serves, last>>
    /\ UNCHANGED threadVars

\* Hub.close, after threads.wait(): under the write lock, so that no thread is
\* inside post; the inboxes and what is left in them are dropped.
Close ==
    /\ boxes
    /\ \A w \in Workers : wpc[w] = "gone"
    /\ Readers = {}
    /\ boxes' = FALSE
    /\ q' = [w \in Workers |-> <<>>]
    /\ woke' = [w \in Workers |-> FALSE]
    /\ efd' = [w \in Workers |-> 0]
    /\ wpc' = [w \in Workers |-> "off"]
    /\ posts' = [w \in Workers |-> <<>>]
    /\ UNCHANGED <<stop, serves, last>>
    /\ UNCHANGED threadVars

\* Stop.request: a signal, or whoever holds Options.stop.
RequestStop ==
    /\ ~stop
    /\ stop' = TRUE
    /\ UNCHANGED <<wpc, posts, serves, last>>
    /\ UNCHANGED <<hubVars, threadVars>>
-----------------------------------------------------------------------------
(* A thread in Hub.post.                                                   *)

\* h.mu.rlock().  Without a running server the loop has no box to visit.
PostBegin(t) ==
    /\ tpc[t] = "idle" /\ sent[t] < MaxPosts
    /\ \A u \in Threads \ {t} : sent[t] + sent[u] < MaxBoth
    /\ sent' = [sent EXCEPT ![t] = @ + 1]
    /\ \E to \in Targets :
          msg' = [msg EXCEPT ![t] = [from |-> t, n |-> sent[t] + 1, to |-> to]]
    /\ tpc' = [tpc EXCEPT ![t] = "loop"]
    /\ at' = [at EXCEPT ![t] = IF boxes THEN 0 ELSE N]
    /\ UNCHANGED <<hubVars, workerVars>>

\* A box the post does not concern.
PostSkip(t) ==
    /\ tpc[t] = "loop" /\ at[t] < N /\ at[t] \notin msg[t].to
    /\ at' = [at EXCEPT ![t] = @ + 1]
    /\ UNCHANGED <<tpc, msg, sent>>
    /\ UNCHANGED <<hubVars, workerVars>>

\* A put that queues as queue and writes the eventfd when wake: put, or one of
\* its mutants.
PutAs(t, queue, wake) ==
    LET w == at[t] IN
    /\ tpc[t] = "loop" /\ w < N /\ w \in msg[t].to
    /\ q' = [q EXCEPT ![w] = queue]
    /\ woke' = [woke EXCEPT ![w] = TRUE]
    /\ IF wake
         THEN tpc' = [tpc EXCEPT ![t] = "wake"] /\ UNCHANGED at
         ELSE at' = [at EXCEPT ![t] = w + 1] /\ UNCHANGED tpc
    /\ UNCHANGED <<boxes, efd, msg, sent>>
    /\ UNCHANGED workerVars

\* Mutant of Put: writes the eventfd when a wake-up is pending already.
PutWakesLate(t) == PutAs(t, Append(q[at[t]], msg[t]), woke[at[t]])

\* Inbox.put up to its unlock.
Put(t) == PutAs(t, Append(q[at[t]], msg[t]), ~woke[at[t]])

\* The rest of Inbox.put: the write that wakes the worker.
Wake(t) ==
    LET w == at[t] IN
    /\ tpc[t] = "wake"
    /\ efd' = [efd EXCEPT ![w] = @ + 1]
    /\ tpc' = [tpc EXCEPT ![t] = "loop"]
    /\ at' = [at EXCEPT ![t] = w + 1]
    /\ UNCHANGED <<boxes, q, woke, msg, sent>>
    /\ UNCHANGED workerVars

\* h.mu.runlock().
PostEnd(t) ==
    /\ tpc[t] = "loop" /\ at[t] = N
    /\ tpc' = [tpc EXCEPT ![t] = "idle"]
    /\ UNCHANGED <<at, msg, sent>>
    /\ UNCHANGED <<hubVars, workerVars>>
-----------------------------------------------------------------------------
(* A worker: run_worker and, of its event loop, drain_inbox.               *)

\* run_worker up to l.run(): the inbox's eventfd is added to epoll.
WorkerStart(w) ==
    /\ wpc[w] = "new"
    /\ wpc' = [wpc EXCEPT ![w] = "top"]
    /\ UNCHANGED <<posts, stop, serves, last>>
    /\ UNCHANGED <<hubVars, threadVars>>

\* run_worker when epoll or the certificate fails: the whole server stops.
WorkerFail(w) ==
    /\ wpc[w] = "new"
    /\ wpc' = [wpc EXCEPT ![w] = "gone"]
    /\ stop' = TRUE
    /\ UNCHANGED <<posts, serves, last>>
    /\ UNCHANGED <<hubVars, threadVars>>

\* The top of Loop.run: the stop flag, then epoll_wait.
Poll(w) ==
    /\ wpc[w] = "top" /\ ~stop
    /\ wpc' = [wpc EXCEPT ![w] = "poll"]
    /\ UNCHANGED <<posts, stop, serves, last>>
    /\ UNCHANGED <<hubVars, threadVars>>

\* Mutant of PollOther: no cap on the time in epoll_wait, no event ever.
PollForever(w) == FALSE

\* epoll_wait returns without the eventfd: for a socket, a timer that is due, or
\* after max_wait_ns.
PollOther(w) ==
    /\ wpc[w] = "poll" /\ efd[w] = 0
    /\ wpc' = [wpc EXCEPT ![w] = "top"]
    /\ UNCHANGED <<posts, stop, serves, last>>
    /\ UNCHANGED <<hubVars, threadVars>>

\* epoll_wait reports the eventfd; drain_inbox reads it first.
ReadEfd(w) ==
    /\ wpc[w] = "poll"
    /\ efd[w] > 0
    /\ efd' = [efd EXCEPT ![w] = 0]
    /\ wpc' = [wpc EXCEPT ![w] = "take"]
    /\ UNCHANGED <<boxes, q, woke>>
    /\ UNCHANGED <<posts, stop, serves, last>>
    /\ UNCHANGED threadVars

\* Mutant of Take: forgets b.woke = false.
TakeKeepsWoke(w) ==
    /\ wpc[w] = "take"
    /\ posts' = [posts EXCEPT ![w] = q[w]]
    /\ q' = [q EXCEPT ![w] = <<>>]
    /\ wpc' = [wpc EXCEPT ![w] = "deliver"]
    /\ UNCHANGED <<boxes, woke, efd>>
    /\ UNCHANGED <<stop, serves, last>>
    /\ UNCHANGED threadVars

\* Inbox.take: the queue becomes the batch, and the next put wakes again.
Take(w) ==
    /\ wpc[w] = "take"
    /\ posts' = [posts EXCEPT ![w] = q[w]]
    /\ q' = [q EXCEPT ![w] = <<>>]
    /\ woke' = [woke EXCEPT ![w] = FALSE]
    /\ wpc' = [wpc EXCEPT ![w] = "deliver"]
    /\ UNCHANGED <<boxes, efd>>
    /\ UNCHANGED <<stop, serves, last>>
    /\ UNCHANGED threadVars

\* One turn of the loop over l.posts.
Deliver(w) ==
    /\ wpc[w] = "deliver" /\ posts[w] # <<>>
    /\ last' = [last EXCEPT ![w][Head(posts[w]).from] = Head(posts[w]).n]
    /\ posts' = [posts EXCEPT ![w] = Tail(@)]
    /\ UNCHANGED <<wpc, stop, serves>>
    /\ UNCHANGED <<hubVars, threadVars>>

DrainEnd(w) ==
    /\ wpc[w] = "deliver" /\ posts[w] = <<>>
    /\ wpc' = [wpc EXCEPT ![w] = "top"]
    /\ UNCHANGED <<posts, stop, serves, last>>
    /\ UNCHANGED <<hubVars, threadVars>>

\* Loop.run sees the stop flag at the top of its loop.
WorkerEnd(w) ==
    /\ wpc[w] = "top" /\ stop
    /\ wpc' = [wpc EXCEPT ![w] = "gone"]
    /\ UNCHANGED <<posts, stop, serves, last>>
    /\ UNCHANGED <<hubVars, threadVars>>
-----------------------------------------------------------------------------
ThreadNext(t) == PostSkip(t) \/ Put(t) \/ Wake(t) \/ PostEnd(t)

WorkerNext(w) ==
    \/ WorkerStart(w) \/ Poll(w) \/ PollOther(w) \/ ReadEfd(w)
    \/ Take(w) \/ Deliver(w) \/ DrainEnd(w) \/ WorkerEnd(w)

Next ==
    \/ Open \/ Close \/ RequestStop
    \/ \E t \in Threads : PostBegin(t) \/ ThreadNext(t)
    \/ \E w \in Workers : WorkerNext(w) \/ WorkerFail(w)

Spec == Init /\ [][Next]_vars

\* The operating system runs every thread that can run, and serve_listeners
\* goes on to Hub.close; nothing makes a thread post, a server start or stop.
Fairness ==
    /\ WF_vars(Close)
    /\ \A t \in Threads : WF_vars(ThreadNext(t))
    /\ \A w \in Workers : WF_vars(WorkerNext(w))

FairSpec == Spec /\ Fairness
-----------------------------------------------------------------------------
(* Properties.                                                             *)

\* Every variable has its type.  In particular the eventfd's counter never
\* passes 1: put writes it once per batch (hub.v:21).
TypeOK ==
    /\ boxes \in BOOLEAN
    /\ q \in [Workers -> Seq(Posts)]
    /\ woke \in [Workers -> BOOLEAN]
    /\ efd \in [Workers -> {0, 1}]
    /\ tpc \in [Threads -> {"idle", "loop", "wake"}]
    /\ at \in [Threads -> 0 .. N]
    /\ msg \in [Threads -> Posts \cup {NoPost(t) : t \in Threads}]
    /\ sent \in [Threads -> 0 .. MaxPosts]
    /\ wpc \in [Workers -> WorkerStates]
    /\ posts \in [Workers -> Seq(Posts)]
    /\ stop \in BOOLEAN
    /\ serves \in 0 .. MaxServes
    /\ last \in [Workers -> [Threads -> 0 .. MaxPosts]]

\* The threads whose put found no wake-up pending at w and which have not
\* written w's eventfd yet.
Wakers(w) == {t \in Threads : tpc[t] = "wake" /\ at[t] = w}

\* A post is never left in a queue nobody will look at: while an inbox has
\* posts, its eventfd is readable, or some thread is about to make it so, or
\* the worker has already read the eventfd and goes on to take the queue
\* (Inbox.put, Inbox.take and the order of read and take in drain_inbox).
NoLostWakeup ==
    \A w \in Workers :
        q[w] # <<>> => efd[w] > 0 \/ Wakers(w) # {} \/ wpc[w] = "take"

\* No thread writes an eventfd that Hub.close has closed (its number may by
\* then belong to another file): post holds h.mu until its last write.
NoWriteAfterClose ==
    \A t \in Threads : tpc[t] = "wake" => boxes

\* The Hub keeps the promise of Mailbox: nothing is lost or delivered twice
\* between put and deliver, and a running worker goes on delivering while
\* anything is posted to it, however the wake-ups interleave.
Box == INSTANCE Mailbox WITH
    box <- [w \in Workers |-> posts[w] \o q[w]],
    running <- [w \in Workers |-> wpc[w] \in {"top", "poll", "take", "deliver"}]

KeepsMailboxPromise == Box!Spec

\* A server asked to stop does: every worker ends, also one that sleeps and
\* gets no event, and Hub.close gets the lock from the posting threads.
StopEnds == (boxes /\ stop) ~> ~boxes
=============================================================================
