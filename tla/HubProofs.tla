----------------------------- MODULE HubProofs -----------------------------
(***************************************************************************)
(* Proofs about the Hub for any number of workers, threads and posts.      *)
(*                                                                         *)
(* NoLostWakeup is not inductive: that a queue with posts has a wake-up    *)
(* under way depends on Inbox.woke telling the truth.  The strengthening   *)
(* says that woke is true exactly while one wake-up token for the worker   *)
(* exists, and that the token is in one of three places: a thread that is  *)
(* about to write the eventfd, the eventfd, or a worker between its read   *)
(* of the eventfd and take.                                                *)
(***************************************************************************)
EXTENDS Hub, SequenceTheorems, TLAPS

\* The token is with a thread, in the eventfd, or with the worker.
TokenInThread(w) ==
    efd[w] = 0 /\ wpc[w] # "take" /\ \E t \in Threads : Wakers(w) = {t}

TokenInEfd(w) == efd[w] = 1 /\ wpc[w] # "take" /\ Wakers(w) = {}

TokenInWorker(w) == efd[w] = 0 /\ wpc[w] = "take" /\ Wakers(w) = {}

NoToken(w) == efd[w] = 0 /\ wpc[w] # "take" /\ Wakers(w) = {}

\* Inbox.woke is true exactly while there is one wake-up token.
TokenOK(w) ==
    /\ woke[w] => TokenInThread(w) \/ TokenInEfd(w) \/ TokenInWorker(w)
    /\ ~woke[w] => NoToken(w)

TokenInv == \A w \in Workers : TokenOK(w)

\* A queue with posts has its flag set.
QueueInv == \A w \in Workers : q[w] # <<>> => woke[w]

\* A thread inside the loop of post keeps the boxes from being closed.
LockInv ==
    /\ \A t \in Threads : tpc[t] = "loop" /\ at[t] < N => boxes
    /\ \A t \in Threads : tpc[t] = "wake" => boxes /\ at[t] \in Workers
    /\ ~boxes => \A w \in Workers : wpc[w] = "off"

\* A post under way is well formed.
MsgInv ==
    /\ \A t \in Threads : tpc[t] = "loop" => msg[t] \in Posts
    /\ \A t \in Threads : tpc[t] = "wake" => msg[t] \in Posts

IInv == TypeOK /\ TokenInv /\ QueueInv /\ LockInv /\ MsgInv

\* TypeOK in two parts, its flags and the rest: each is within the reach of one
\* prover.
FlagsOK ==
    /\ boxes \in BOOLEAN
    /\ woke \in [Workers -> BOOLEAN]
    /\ stop \in BOOLEAN

DataOK ==
    /\ q \in [Workers -> Seq(Posts)]
    /\ efd \in [Workers -> {0, 1}]
    /\ tpc \in [Threads -> {"idle", "loop", "wake"}]
    /\ at \in [Threads -> 0 .. N]
    /\ msg \in [Threads -> Posts \cup {NoPost(t) : t \in Threads}]
    /\ sent \in [Threads -> 0 .. MaxPosts]
    /\ wpc \in [Workers -> WorkerStates]
    /\ posts \in [Workers -> Seq(Posts)]
    /\ serves \in 0 .. MaxServes
    /\ last \in [Workers -> [Threads -> 0 .. MaxPosts]]

\* The two parts make up TypeOK.
LEMMA TypeParts == TypeOK <=> FlagsOK /\ DataOK
  BY DEF TypeOK, FlagsOK, DataOK

\* The same for the state after a step.
LEMMA TypePartsPrime == TypeOK' <=> FlagsOK' /\ DataOK'
  BY DEF TypeOK, FlagsOK, DataOK

\* The loop index of Hub.post after a box is again an index or the end.
LEMMA NextBox == \A i \in Workers : i + 1 \in 0 .. N
  BY HubAssumption DEF HubAssumption, Workers

\* Initially there is no server, no post and no token.
LEMMA InitIInv == Init => IInv
<1> SUFFICES ASSUME Init PROVE IInv
  OBVIOUS
<1> USE DEF Init
<1>1. DataOK
  BY HubAssumption DEF DataOK, WorkerStates, HubAssumption
<1>2. FlagsOK
  BY ZenonT(60) DEF FlagsOK
<1>3. TokenInv
  BY DEF TokenInv, TokenOK, NoToken, Wakers
<1>4. QueueInv /\ LockInv /\ MsgInv
  BY DEF QueueInv, LockInv, MsgInv
<1> QED
  BY <1>1, <1>2, <1>3, <1>4, TypeParts DEF IInv

\* Every step keeps the flags Boolean.
LEMMA FlagsStep == FlagsOK /\ [Next]_vars => FlagsOK'
<1> SUFFICES ASSUME FlagsOK, [Next]_vars PROVE FlagsOK'
  OBVIOUS
<1> USE DEF FlagsOK, hubVars, threadVars, workerVars
<1>1. CASE Open \/ Close \/ RequestStop
  BY <1>1, ZenonT(60) DEF Open, Close, RequestStop
<1>2. ASSUME NEW t \in Threads, PostBegin(t) \/ ThreadNext(t) PROVE FlagsOK'
  <2>1. CASE Put(t)
    BY <2>1, ZenonT(60) DEF Put, PutAs
  <2> QED
    BY <1>2, <2>1 DEF ThreadNext, PostBegin, PostSkip, Wake, PostEnd
<1>3. ASSUME NEW w \in Workers, WorkerNext(w) \/ WorkerFail(w) PROVE FlagsOK'
  BY <1>3, ZenonT(60) DEF WorkerNext, WorkerFail, WorkerStart, Poll, PollOther, ReadEfd, Take,
              Deliver, DrainEnd, WorkerEnd
<1>4. CASE UNCHANGED vars
  BY <1>4 DEF vars
<1> QED
  BY <1>1, <1>2, <1>3, <1>4 DEF Next

\* Every step keeps the types of the rest: at most one token per worker keeps
\* the eventfd's counter at 1 or less.
LEMMA DataStep == IInv /\ [Next]_vars => DataOK'
<1> SUFFICES ASSUME IInv, [Next]_vars PROVE DataOK'
  OBVIOUS
<1>a. DataOK
  BY TypeParts DEF IInv
<1> USE <1>a, HubAssumption
      DEF HubAssumption, DataOK, hubVars, threadVars, workerVars, WorkerStates
<1>1. CASE Open
  BY <1>1 DEF Open
<1>2. CASE Close
  BY <1>2 DEF Close
<1>3. CASE RequestStop
  BY <1>3 DEF RequestStop
<1>4. ASSUME NEW t \in Threads, PostBegin(t) PROVE DataOK'
  <2>1. PICK to \in Targets :
          msg' = [msg EXCEPT ![t] = [from |-> t, n |-> sent[t] + 1, to |-> to]]
    BY <1>4, ZenonT(60) DEF PostBegin
  <2>2. [from |-> t, n |-> sent[t] + 1, to |-> to] \in Posts
    BY <1>4 DEF PostBegin, Posts
  <2> QED
    BY <1>4, <2>1, <2>2 DEF PostBegin
<1>5. ASSUME NEW t \in Threads, PostSkip(t) PROVE DataOK'
  BY <1>5 DEF PostSkip
<1>6. ASSUME NEW t \in Threads, Put(t) PROVE DataOK'
  <2>1. at[t] \in Workers /\ msg[t] \in Posts
    BY <1>6 DEF Put, PutAs, Workers, IInv, MsgInv
  <2>2. q' \in [Workers -> Seq(Posts)]
    BY <1>6, <2>1 DEF Put, PutAs
  <2>3. at[t] + 1 \in 0 .. N
    BY <2>1, NextBox
  <2>4. tpc' \in [Threads -> {"idle", "loop", "wake"}] /\ at' \in [Threads -> 0 .. N]
    BY <1>6, <2>3, ZenonT(60) DEF Put, PutAs
  <2> QED
    BY <1>6, <2>2, <2>4 DEF Put, PutAs
<1>7. ASSUME NEW t \in Threads, Wake(t) PROVE DataOK'
  <2>1. at[t] \in Workers /\ t \in Wakers(at[t])
    BY <1>7 DEF Wake, IInv, LockInv, Wakers
  <2>2. efd[at[t]] = 0
    BY <2>1, ZenonT(60) DEF IInv, TokenInv, TokenOK, TokenInThread, TokenInEfd, TokenInWorker, NoToken
  <2>3. efd' \in [Workers -> {0, 1}]
    BY <1>7, <2>1, <2>2 DEF Wake
  <2>4. at[t] + 1 \in 0 .. N
    BY <2>1, NextBox
  <2> QED
    BY <1>7, <2>3, <2>4 DEF Wake
<1>8. ASSUME NEW t \in Threads, PostEnd(t) PROVE DataOK'
  BY <1>8 DEF PostEnd
<1>9. ASSUME NEW w \in Workers, WorkerNext(w) \/ WorkerFail(w) PROVE DataOK'
  <2>1. CASE WorkerStart(w) \/ Poll(w) \/ PollOther(w)
    BY <2>1, ZenonT(60) DEF WorkerStart, Poll, PollOther
  <2>2. CASE ReadEfd(w)
    BY <2>2 DEF ReadEfd
  <2>3. CASE Take(w)
    BY <2>3 DEF Take
  <2>4. CASE Deliver(w)
    <3>1. Head(posts[w]) \in Posts /\ Tail(posts[w]) \in Seq(Posts)
      BY <2>4 DEF Deliver
    <3> DEFINE m == Head(posts[w])
    <3>a. m.from \in Threads /\ m.n \in 0 .. MaxPosts
      BY <3>1 DEF Posts
    <3>b. last' = [last EXCEPT ![w][m.from] = m.n]
      BY <2>4 DEF Deliver
    <3>c. last[w] \in [Threads -> 0 .. MaxPosts]
      OBVIOUS
    <3>d. [last[w] EXCEPT ![m.from] = m.n] \in [Threads -> 0 .. MaxPosts]
      BY <3>a, <3>c
    <3>e. last \in [Workers -> [Threads -> 0 .. MaxPosts]]
      OBVIOUS
    <3> HIDE DEF m, DataOK
    <3>2. last' \in [Workers -> [Threads -> 0 .. MaxPosts]]
      BY <3>b, <3>d, <3>e
    <3> USE DEF DataOK
    <3> QED
      BY <2>4, <3>1, <3>2 DEF Deliver
  <2>5. CASE DrainEnd(w)
    BY <2>5, ZenonT(60) DEF DrainEnd
  <2>6. CASE WorkerEnd(w)
    BY <2>6 DEF WorkerEnd
  <2>7. CASE WorkerFail(w)
    BY <2>7 DEF WorkerFail
  <2> QED
    BY <1>9, <2>1, <2>2, <2>3, <2>4, <2>5, <2>6, <2>7 DEF WorkerNext
<1>10. CASE UNCHANGED vars
  BY <1>10 DEF vars
<1> QED
  BY <1>1, <1>2, <1>3, <1>4, <1>5, <1>6, <1>7, <1>8, <1>9, <1>10, ZenonT(60) DEF Next, ThreadNext

\* A step keeps the lock's discipline: boxes go only when nobody is in post.
LEMMA LockStep == IInv /\ [Next]_vars => LockInv'
<1> SUFFICES ASSUME IInv, [Next]_vars PROVE LockInv'
  OBVIOUS
<1>a. DataOK /\ LockInv
  BY TypeParts DEF IInv
<1> USE <1>a, HubAssumption DEF HubAssumption, LockInv, hubVars, threadVars, workerVars
<1>1. CASE Open
  BY <1>1 DEF Open, DataOK
<1>2. CASE Close
  BY <1>2 DEF Close, Readers
<1>3. CASE RequestStop
  BY <1>3 DEF RequestStop
<1>4. ASSUME NEW t \in Threads, PostBegin(t) PROVE LockInv'
  BY <1>4 DEF PostBegin, DataOK
<1>5. ASSUME NEW t \in Threads, PostSkip(t) PROVE LockInv'
  BY <1>5 DEF PostSkip, DataOK
<1>6. ASSUME NEW t \in Threads, Put(t) PROVE LockInv'
  <2>1. at[t] \in Workers /\ boxes
    BY <1>6 DEF Put, PutAs, Workers, DataOK
  <2> QED
    BY <1>6, <2>1, ZenonT(60) DEF Put, PutAs, DataOK
<1>7. ASSUME NEW t \in Threads, Wake(t) PROVE LockInv'
  BY <1>7 DEF Wake, DataOK
<1>8. ASSUME NEW t \in Threads, PostEnd(t) PROVE LockInv'
  BY <1>8 DEF PostEnd, DataOK
<1>9. ASSUME NEW w \in Workers, WorkerNext(w) \/ WorkerFail(w) PROVE LockInv'
  <2>1. wpc[w] # "off" /\ UNCHANGED boxes
    BY <1>9 DEF WorkerNext, WorkerFail, WorkerStart, Poll, PollOther, ReadEfd, Take,
                Deliver, DrainEnd, WorkerEnd
  <2>2. UNCHANGED threadVars
    BY <1>9 DEF WorkerNext, WorkerFail, WorkerStart, Poll, PollOther, ReadEfd, Take,
                Deliver, DrainEnd, WorkerEnd
  <2> QED
    BY <2>1, <2>2
<1>10. CASE UNCHANGED vars
  BY <1>10 DEF vars
<1> QED
  BY <1>1, <1>2, <1>3, <1>4, <1>5, <1>6, <1>7, <1>8, <1>9, <1>10 DEF Next, ThreadNext

\* A step keeps the post under way well formed.
LEMMA MsgStep == IInv /\ [Next]_vars => MsgInv'
<1> SUFFICES ASSUME IInv, [Next]_vars PROVE MsgInv'
  OBVIOUS
<1>a. DataOK /\ MsgInv
  BY TypeParts DEF IInv
<1> USE <1>a DEF MsgInv, DataOK, hubVars, threadVars, workerVars
<1>1. CASE Open \/ Close \/ RequestStop
  BY <1>1, ZenonT(60) DEF Open, Close, RequestStop
<1>2. ASSUME NEW t \in Threads, PostBegin(t) PROVE MsgInv'
  <2>1. PICK to \in Targets :
          msg' = [msg EXCEPT ![t] = [from |-> t, n |-> sent[t] + 1, to |-> to]]
    BY <1>2, ZenonT(60) DEF PostBegin
  <2>2. [from |-> t, n |-> sent[t] + 1, to |-> to] \in Posts
    BY <1>2, HubAssumption DEF PostBegin, Posts, HubAssumption
  <2> QED
    BY <1>2, <2>1, <2>2 DEF PostBegin
<1>3. ASSUME NEW t \in Threads, ThreadNext(t) PROVE MsgInv'
  BY <1>3 DEF ThreadNext, PostSkip, Put, PutAs, Wake, PostEnd
<1>4. ASSUME NEW w \in Workers, WorkerNext(w) \/ WorkerFail(w) PROVE MsgInv'
  BY <1>4 DEF WorkerNext, WorkerFail, WorkerStart, Poll, PollOther, ReadEfd, Take,
              Deliver, DrainEnd, WorkerEnd
<1>5. CASE UNCHANGED vars
  BY <1>5 DEF vars
<1> QED
  BY <1>1, <1>2, <1>3, <1>4, <1>5 DEF Next

\* A step keeps the flag of a queue with posts set: take clears both at once.
LEMMA QueueStep == IInv /\ [Next]_vars => QueueInv'
<1> SUFFICES ASSUME IInv, [Next]_vars PROVE QueueInv'
  OBVIOUS
<1>a. q \in [Workers -> Seq(Posts)] /\ woke \in [Workers -> BOOLEAN] /\ QueueInv
  BY DEF IInv, TypeOK
<1> USE <1>a DEF QueueInv, hubVars, threadVars, workerVars
<1>1. CASE Open \/ RequestStop
  BY <1>1, ZenonT(60) DEF Open, RequestStop
<1>2. CASE Close
  BY <1>2 DEF Close
<1>3. ASSUME NEW t \in Threads, PostBegin(t) \/ ThreadNext(t) PROVE QueueInv'
  <2>1. CASE Put(t)
    BY <2>1 DEF Put, PutAs
  <2> QED
    BY <1>3, <2>1 DEF ThreadNext, PostBegin, PostSkip, Wake, PostEnd
<1>4. ASSUME NEW w \in Workers, WorkerNext(w) \/ WorkerFail(w) PROVE QueueInv'
  <2>1. CASE Take(w)
    BY <2>1 DEF Take
  <2> QED
    BY <1>4, <2>1 DEF WorkerNext, WorkerFail, WorkerStart, Poll, PollOther, ReadEfd,
                      Deliver, DrainEnd, WorkerEnd
<1>5. CASE UNCHANGED vars
  BY <1>5 DEF vars
<1> QED
  BY <1>1, <1>2, <1>3, <1>4, <1>5 DEF Next

\* A step that changes nothing of a worker's token keeps it as it is.
LEMMA TokenSame ==
    ASSUME NEW w \in Workers, TokenOK(w), woke'[w] = woke[w], efd'[w] = efd[w],
           Wakers(w)' = Wakers(w), (wpc'[w] = "take") <=> (wpc[w] = "take")
    PROVE  TokenOK(w)'
  BY DEF TokenOK, TokenInThread, TokenInEfd, TokenInWorker, NoToken

\* A step moves a worker's token, makes one with woke, or takes it with woke.
LEMMA TokenStep == IInv /\ [Next]_vars => TokenInv'
<1> SUFFICES ASSUME IInv, [Next]_vars, NEW v \in Workers PROVE TokenOK(v)'
  BY DEF TokenInv
<1>a. DataOK /\ LockInv /\ TokenOK(v) /\ woke \in [Workers -> BOOLEAN]
  BY TypeParts DEF IInv, FlagsOK, TokenInv
<1>b. /\ efd \in [Workers -> {0, 1}]
      /\ tpc \in [Threads -> {"idle", "loop", "wake"}]
      /\ at \in [Threads -> 0 .. N]
      /\ wpc \in [Workers -> WorkerStates]
  BY <1>a DEF DataOK
<1> USE <1>a, <1>b DEF hubVars, threadVars, workerVars
<1>1. CASE Open
  <2>1. wpc[v] = "off" /\ wpc'[v] = "new"
    BY <1>1 DEF Open, LockInv
  <2> QED
    BY <1>1, <2>1, TokenSame DEF Open, Wakers
<1>2. CASE Close
  <2>1. Wakers(v)' = {}
    BY <1>2 DEF Close, Readers, Wakers
  <2> QED
    BY <1>2, <2>1 DEF Close, TokenOK, NoToken
<1>3. CASE RequestStop
  BY <1>3, TokenSame DEF RequestStop, Wakers
<1>4. ASSUME NEW t \in Threads, PostBegin(t) \/ PostSkip(t) \/ PostEnd(t)
      PROVE  TokenOK(v)'
  <2>1. Wakers(v)' = Wakers(v)
    BY <1>4 DEF PostBegin, PostSkip, PostEnd, Wakers
  <2> QED
    BY <1>4, <2>1, TokenSame DEF PostBegin, PostSkip, PostEnd
<1>5. ASSUME NEW t \in Threads, Put(t) PROVE TokenOK(v)'
  <2>1. UNCHANGED <<efd, wpc>>
    BY <1>5 DEF Put, PutAs
  <2>2. CASE v = at[t] /\ ~woke[v]
    <3>1. NoToken(v)
      BY <2>2 DEF TokenOK
    <3>2. Wakers(v)' = {t}
      BY <1>5, <2>2, <3>1 DEF Put, PutAs, Wakers, NoToken
    <3>3. woke'[v]
      BY <1>5, <2>2 DEF Put, PutAs
    <3> QED
      BY <2>1, <3>1, <3>2, <3>3 DEF TokenOK, TokenInThread, NoToken
  <2>3. CASE ~(v = at[t] /\ ~woke[v])
    <3>1. woke'[v] = woke[v]
      BY <1>5, <2>3, ZenonT(60) DEF Put, PutAs
    <3>2. Wakers(v)' = Wakers(v)
      BY <1>5, <2>3 DEF Put, PutAs, Wakers
    <3> QED
      BY <2>1, <3>1, <3>2, TokenSame
  <2> QED
    BY <2>2, <2>3
<1>6. ASSUME NEW t \in Threads, Wake(t) PROVE TokenOK(v)'
  <2>1. CASE v = at[t]
    <3>1. t \in Wakers(v)
      BY <1>6, <2>1 DEF Wake, Wakers
    <3>2. woke[v] /\ TokenInThread(v) /\ Wakers(v) = {t}
      BY <3>1 DEF TokenOK, TokenInThread, TokenInEfd, TokenInWorker, NoToken
    <3>3. Wakers(v)' \subseteq Wakers(v) \ {t}
      BY <1>6 DEF Wake, Wakers
    <3>4. Wakers(v)' = {}
      BY <3>2, <3>3
    <3>5. efd'[v] = 1 /\ woke'[v] = woke[v] /\ wpc'[v] # "take"
      BY <1>6, <2>1, <3>2 DEF Wake, TokenInThread
    <3> QED
      BY <3>2, <3>4, <3>5 DEF TokenOK, TokenInEfd
  <2>2. CASE v # at[t]
    <3>1. Wakers(v)' = Wakers(v)
      BY <1>6, <2>2 DEF Wake, Wakers
    <3>2. efd'[v] = efd[v] /\ woke'[v] = woke[v] /\ wpc'[v] = wpc[v]
      BY <1>6, <2>2 DEF Wake
    <3> QED
      BY <3>1, <3>2, TokenSame
  <2> QED
    BY <2>1, <2>2
<1>7. ASSUME NEW w \in Workers, ReadEfd(w) PROVE TokenOK(v)'
  <2>1. Wakers(v)' = Wakers(v)
    BY <1>7 DEF ReadEfd, Wakers
  <2>2. CASE v = w
    <3>1. woke[v] /\ Wakers(v) = {}
      BY <1>7, <2>2
         DEF ReadEfd, TokenOK, TokenInThread, TokenInEfd, TokenInWorker, NoToken
    <3>2. efd'[v] = 0 /\ wpc'[v] = "take" /\ woke'[v] = woke[v]
      BY <1>7, <2>2 DEF ReadEfd
    <3> QED
      BY <2>1, <3>1, <3>2 DEF TokenOK, TokenInWorker
  <2>3. CASE v # w
    <3>1. efd'[v] = efd[v] /\ wpc'[v] = wpc[v] /\ woke'[v] = woke[v]
      BY <1>7, <2>3 DEF ReadEfd
    <3> QED
      BY <2>1, <3>1, TokenSame
  <2> QED
    BY <2>2, <2>3
<1>8. ASSUME NEW w \in Workers, Take(w) PROVE TokenOK(v)'
  <2>1. Wakers(v)' = Wakers(v)
    BY <1>8 DEF Take, Wakers
  <2>2. CASE v = w
    <3>1. efd[v] = 0 /\ Wakers(v) = {}
      BY <1>8, <2>2
         DEF Take, TokenOK, TokenInThread, TokenInEfd, TokenInWorker, NoToken
    <3>2. efd'[v] = efd[v] /\ wpc'[v] = "deliver" /\ ~woke'[v]
      BY <1>8, <2>2 DEF Take
    <3> QED
      BY <2>1, <3>1, <3>2 DEF TokenOK, NoToken
  <2>3. CASE v # w
    <3>1. efd'[v] = efd[v] /\ wpc'[v] = wpc[v] /\ woke'[v] = woke[v]
      BY <1>8, <2>3 DEF Take
    <3> QED
      BY <2>1, <3>1, TokenSame
  <2> QED
    BY <2>2, <2>3
<1>9. ASSUME NEW w \in Workers,
             \/ WorkerStart(w) \/ Poll(w) \/ PollOther(w) \/ Deliver(w)
             \/ DrainEnd(w) \/ WorkerEnd(w) \/ WorkerFail(w)
      PROVE  TokenOK(v)'
  <2>1. UNCHANGED <<woke, efd, tpc, at>>
    BY <1>9 DEF WorkerStart, Poll, PollOther, Deliver, DrainEnd, WorkerEnd, WorkerFail
  <2>2. (wpc'[v] = "take") <=> (wpc[v] = "take")
    BY <1>9 DEF WorkerStart, Poll, PollOther, Deliver, DrainEnd, WorkerEnd, WorkerFail
  <2>3. Wakers(v)' = Wakers(v)
    BY <2>1 DEF Wakers
  <2> QED
    BY <2>1, <2>2, <2>3, TokenSame
<1>10. CASE UNCHANGED vars
  BY <1>10, TokenSame DEF vars, Wakers
<1> QED
  BY <1>1, <1>2, <1>3, <1>4, <1>5, <1>6, <1>7, <1>8, <1>9, <1>10
     DEF Next, ThreadNext, WorkerNext
-----------------------------------------------------------------------------
\* The strengthened invariant is kept by every step.
LEMMA StepIInv == IInv /\ [Next]_vars => IInv'
<1> SUFFICES ASSUME IInv, [Next]_vars PROVE IInv'
  OBVIOUS
<1>1. FlagsOK
  BY TypeParts DEF IInv
<1>2. FlagsOK' /\ DataOK'
  BY <1>1, FlagsStep, DataStep
<1>3. TokenInv' /\ QueueInv' /\ LockInv' /\ MsgInv'
  BY TokenStep, QueueStep, LockStep, MsgStep
<1> QED
  BY <1>2, <1>3, TypePartsPrime DEF IInv

\* It holds in every reachable state.
LEMMA IInvAlways == Spec => []IInv
  BY InitIInv, StepIInv, PTL DEF Spec

\* The strengthened invariant gives the absence of lost wake-ups.
LEMMA TokenGivesWakeup == IInv => NoLostWakeup
<1> SUFFICES ASSUME IInv, NEW w \in Workers, q[w] # <<>>
             PROVE  efd[w] > 0 \/ Wakers(w) # {} \/ wpc[w] = "take"
  BY DEF NoLostWakeup
<1>1. woke[w]
  BY DEF IInv, QueueInv
<1>2. TokenInThread(w) \/ TokenInEfd(w) \/ TokenInWorker(w)
  BY <1>1 DEF IInv, TokenInv, TokenOK
<1> QED
  BY ONLY <1>2 DEF TokenInThread, TokenInEfd, TokenInWorker

\* Every variable keeps its type; an eventfd's counter is 0 or 1, so put's write
\* never blocks or fails on a full counter (Inbox.put ignores its result).
THEOREM TypeCorrect == Spec => []TypeOK
<1>1. IInv => TypeOK
  BY DEF IInv
<1> QED
  BY <1>1, IInvAlways, PTL

\* No post is ever left in a queue without a wake-up under way, for any number
\* of posting threads and workers (Inbox.put, Inbox.take, drain_inbox).
THEOREM NoLostWakeupAlways == Spec => []NoLostWakeup
  BY TokenGivesWakeup, IInvAlways, PTL

\* No thread in Hub.post writes an eventfd that Hub.close has closed.
THEOREM NoWriteAfterCloseAlways == Spec => []NoWriteAfterClose
<1>1. IInv => NoWriteAfterClose
  BY DEF IInv, LockInv, NoWriteAfterClose
<1> QED
  BY <1>1, IInvAlways, PTL
-----------------------------------------------------------------------------
(* The promise of Mailbox, and the order of one thread's posts.            *)

\* What was posted to w and not yet delivered.
Waiting(w) == posts[w] \o q[w]

\* Only a worker that delivers has a batch.
BatchInv == \A w \in Workers : wpc[w] # "deliver" => posts[w] = <<>>

\* Thread t has not come to w's box yet with the post it is making.
Ahead(t, w) == (tpc[t] = "loop" /\ at[t] <= w) \/ (tpc[t] = "wake" /\ at[t] < w)

\* The last post of each thread that w's box can have.
Upto(w) == [t \in Threads |-> IF Ahead(t, w) THEN sent[t] - 1 ELSE sent[t]]

\* A post under way is the thread's latest.
LatestInv == \A t \in Threads : tpc[t] # "idle" => msg[t].from = t /\ msg[t].n = sent[t]

\* The posts of each thread in b are in the order the thread made them, come
\* after the one l has for it, and are not past the one u has.
Placed(b, l, u) ==
    /\ \A i, j \in 1 .. Len(b) : i < j /\ b[i].from = b[j].from => b[i].n < b[j].n
    /\ \A i \in 1 .. Len(b) : l[b[i].from] < b[i].n /\ b[i].n <= u[b[i].from]
    /\ \A t \in Threads : l[t] <= u[t]

\* What w has delivered, what waits, and what is still to come are in order.
OrderInv == \A w \in Workers : Placed(Waiting(w), last[w], Upto(w))

\* A worker delivers the posts of a thread in the order the thread made them,
\* and none of them twice (Inbox.q is a queue, and take empties it).
InOrder == [][\A w \in Workers, t \in Threads : last'[w][t] # last[w][t] => last'[w][t] > last[w][t]]_vars

\* A post at the end of the queue is at the end of all that wait.
LEMMA AppendCat ==
    \A S : \A s, u \in Seq(S) : \A m \in S : s \o Append(u, m) = Append(s \o u, m)
<1> SUFFICES ASSUME NEW S, NEW s \in Seq(S), NEW u \in Seq(S), NEW m \in S
             PROVE  s \o Append(u, m) = Append(s \o u, m)
  OBVIOUS
<1>1. /\ s \o Append(u, m) \in Seq(S) /\ Append(s \o u, m) \in Seq(S)
      /\ Len(s) \in Nat /\ Len(u) \in Nat
      /\ Len(s \o Append(u, m)) = Len(s) + Len(u) + 1 /\ Len(Append(s \o u, m)) = Len(s) + Len(u) + 1
  OBVIOUS
<1>2. \A i \in 1 .. Len(s) + Len(u) + 1 : (s \o Append(u, m))[i] = Append(s \o u, m)[i]
  OBVIOUS
<1> QED
  BY ONLY <1>1, <1>2, SeqEqual

\* The first of the batch is the first of all that wait.
LEMMA TailCat ==
    ASSUME NEW S, NEW s \in Seq(S), NEW u \in Seq(S), s # <<>>
    PROVE  /\ s \o u \in Seq(S) /\ s \o u # <<>>
           /\ Tail(s \o u) = Tail(s) \o u /\ Head(s \o u) = Head(s)
<1>1. s \o u \in Seq(S) /\ s \o u # <<>> /\ Head(s \o u) = Head(s)
  OBVIOUS
<1>2. /\ Tail(s \o u) \in Seq(S) /\ Tail(s) \o u \in Seq(S)
      /\ Len(s) \in Nat \ {0} /\ Len(u) \in Nat
      /\ Len(Tail(s \o u)) = Len(s) + Len(u) - 1 /\ Len(Tail(s) \o u) = Len(s) + Len(u) - 1
  BY <1>1
<1>3. \A i \in 1 .. Len(s) + Len(u) - 1 : Tail(s \o u)[i] = (Tail(s) \o u)[i]
  BY <1>1, <1>2
<1> QED
  BY ONLY <1>1, <1>2, <1>3, SeqEqual

\* The batch is empty when a worker takes the queue, and what it has not
\* delivered when it goes back to its loop is nothing.
LEMMA BatchStep == IInv /\ BatchInv /\ [Next]_vars => BatchInv'
<1> SUFFICES ASSUME IInv, BatchInv, [Next]_vars PROVE BatchInv'
  OBVIOUS
<1>0. wpc \in [Workers -> WorkerStates] /\ posts \in [Workers -> Seq(Posts)]
  BY DEF IInv, TypeOK
<1> USE DEF BatchInv, hubVars, threadVars, workerVars
<1>1. CASE Open
  <2>1. \A w \in Workers : wpc[w] = "off"
    BY <1>1 DEF Open, IInv, LockInv
  <2> QED
    BY <1>1, <2>1, ZenonT(60) DEF Open
<1>2. CASE Close \/ RequestStop
  BY <1>2, ZenonT(60) DEF Close, RequestStop
<1>3. ASSUME NEW t \in Threads, PostBegin(t) \/ ThreadNext(t) PROVE BatchInv'
  BY <1>3, ZenonT(60) DEF ThreadNext, PostBegin, PostSkip, Put, PutAs, Wake, PostEnd
<1>4. ASSUME NEW w \in Workers, WorkerNext(w) \/ WorkerFail(w) PROVE BatchInv'
  <2>1. CASE WorkerStart(w) \/ WorkerFail(w) \/ Poll(w) \/ PollOther(w) \/ ReadEfd(w) \/ WorkerEnd(w)
    BY <1>0, <2>1, ZenonT(60) DEF WorkerStart, WorkerFail, Poll, PollOther, ReadEfd, WorkerEnd
  <2>2. CASE Take(w) \/ Deliver(w) \/ DrainEnd(w)
    BY <1>0, <2>2, ZenonT(60) DEF Take, Deliver, DrainEnd
  <2> QED
    BY <1>4, <2>1, <2>2, ZenonT(60) DEF WorkerNext
<1>5. CASE UNCHANGED vars
  BY <1>5, ZenonT(60) DEF vars
<1> QED
  BY <1>1, <1>2, <1>3, <1>4, <1>5, ZenonT(60) DEF Next

\* The variables of Mailbox, as the Hub has them.
BoxOf == [w \in Workers |-> posts[w] \o q[w]]
Serving(p) == p \in {"top", "poll", "take", "deliver"}
RunningOf == [w \in Workers |-> wpc[w] \in {"top", "poll", "take", "deliver"}]

\* A worker serves or does not.
LEMMA ServingIs == \A p : Serving(p) = TRUE \/ Serving(p) = FALSE
BY DEF Serving

\* A worker that has not started, or has ended, does not.
LEMMA ServingNot == \A p \in {"off", "new", "gone"} : Serving(p) = FALSE
BY DEF Serving

\* The steps of Mailbox, in these names.
LEMMA BoxSteps ==
    /\ UNCHANGED Box!mvars <=> BoxOf' = BoxOf /\ RunningOf' = RunningOf
    /\ Box!Next <=>
         \/ \E w \in Workers :
               \/ /\ \E m \in Posts : BoxOf' = [BoxOf EXCEPT ![w] = Append(BoxOf[w], m)]
                  /\ RunningOf' = RunningOf
               \/ /\ RunningOf[w] /\ BoxOf[w] # <<>> /\ BoxOf' = [BoxOf EXCEPT ![w] = Tail(BoxOf[w])]
                  /\ RunningOf' = RunningOf
               \/ ~RunningOf[w] /\ RunningOf' = [RunningOf EXCEPT ![w] = TRUE] /\ BoxOf' = BoxOf
               \/ RunningOf[w] /\ RunningOf' = [RunningOf EXCEPT ![w] = FALSE] /\ BoxOf' = BoxOf
         \/ /\ \A w \in Workers : ~RunningOf[w]
            /\ BoxOf' = [w \in Workers |-> <<>>] /\ RunningOf' = RunningOf
<1>1. UNCHANGED Box!mvars <=> BoxOf' = BoxOf /\ RunningOf' = RunningOf
  BY ZenonT(60) DEF Box!mvars, BoxOf, RunningOf
<1>2. Box!Next <=>
         \/ \E w \in Workers :
               \/ /\ \E m \in Posts : BoxOf' = [BoxOf EXCEPT ![w] = Append(BoxOf[w], m)]
                  /\ RunningOf' = RunningOf
               \/ /\ RunningOf[w] /\ BoxOf[w] # <<>> /\ BoxOf' = [BoxOf EXCEPT ![w] = Tail(BoxOf[w])]
                  /\ RunningOf' = RunningOf
               \/ ~RunningOf[w] /\ RunningOf' = [RunningOf EXCEPT ![w] = TRUE] /\ BoxOf' = BoxOf
               \/ RunningOf[w] /\ RunningOf' = [RunningOf EXCEPT ![w] = FALSE] /\ BoxOf' = BoxOf
         \/ /\ \A w \in Workers : ~RunningOf[w]
            /\ BoxOf' = [w \in Workers |-> <<>>] /\ RunningOf' = RunningOf
  BY ZenonT(60) DEF Box!Next, Box!Post, Box!Deliver, Box!Start, Box!End, Box!Drop, BoxOf, RunningOf
<1> QED
  BY ONLY <1>1, <1>2

\* What a step of worker w makes of the others' boxes, and of its own.
LEMMA BoxOfStep ==
    ASSUME NEW w \in Workers, \A v \in Workers : v # w => posts'[v] = posts[v] /\ q'[v] = q[v]
    PROVE  BoxOf' = [BoxOf EXCEPT ![w] = posts'[w] \o q'[w]] /\ BoxOf[w] = posts[w] \o q[w]
BY ZenonT(60) DEF BoxOf

\* What it makes of who serves, its own start or stop included.
LEMMA RunningOfStep ==
    ASSUME NEW w \in Workers, \A v \in Workers : v # w => wpc'[v] = wpc[v]
    PROVE  /\ RunningOf' = [RunningOf EXCEPT ![w] = Serving(wpc'[w])]
           /\ (Serving(wpc'[w]) <=> Serving(wpc[w])) => RunningOf' = RunningOf
           /\ RunningOf[w] = Serving(wpc[w])
<1>1. RunningOf = [v \in Workers |-> Serving(wpc[v])] /\ RunningOf' = [v \in Workers |-> Serving(wpc'[v])]
  BY ONLY ZenonT(60) DEF RunningOf, Serving
<1>2. \A v \in Workers : v # w => Serving(wpc'[v]) = Serving(wpc[v])
  BY ZenonT(60)
<1>3. RunningOf' = [RunningOf EXCEPT ![w] = Serving(wpc'[w])]
  BY ONLY <1>1, <1>2, w \in Workers, ZenonT(60)
<1>4. ASSUME Serving(wpc'[w]) <=> Serving(wpc[w]) PROVE RunningOf' = RunningOf
  <2>1. Serving(wpc'[w]) = Serving(wpc[w])
    BY ONLY <1>4, ServingIs, ZenonT(60)
  <2>2. \A v \in Workers : Serving(wpc'[v]) = Serving(wpc[v])
    BY ONLY <1>2, <2>1, ZenonT(60)
  <2> QED
    BY ONLY <1>1, <2>2, ZenonT(60)
<1>5. RunningOf[w] = Serving(wpc[w])
  BY ONLY <1>1, w \in Workers, ZenonT(60)
<1> QED
  BY ONLY <1>3, <1>4, <1>5

\* Every step of a posting thread is one of Mailbox, or none: put is Post.
LEMMA ThreadBox ==
    ASSUME IInv, NEW t \in Threads, PostBegin(t) \/ ThreadNext(t)
    PROVE  Box!Next \/ UNCHANGED Box!mvars
<1>1. RunningOf' = RunningOf
  BY ZenonT(60) DEF RunningOf, ThreadNext, PostBegin, PostSkip, Put, PutAs, Wake, PostEnd, workerVars
<1>2. CASE PostBegin(t) \/ PostSkip(t) \/ Wake(t) \/ PostEnd(t)
  <2>1. BoxOf' = BoxOf
    BY <1>2, ZenonT(60) DEF BoxOf, PostBegin, PostSkip, Wake, PostEnd, hubVars, workerVars
  <2> QED
    BY <1>1, <2>1, BoxSteps, ZenonT(60)
<1>3. CASE Put(t)
  <2> DEFINE w == at[t]
             m == msg[t]
  <2>1. w \in Workers /\ m \in Posts
    BY <1>3, HubAssumption DEF Put, PutAs, IInv, TypeOK, MsgInv, Workers, HubAssumption
  <2>2. q \in [Workers -> Seq(Posts)] /\ posts \in [Workers -> Seq(Posts)]
    BY DEF IInv, TypeOK
  <2>3. q' = [q EXCEPT ![w] = Append(q[w], m)] /\ posts' = posts
    BY <1>3, ZenonT(60) DEF Put, PutAs, workerVars
  <2> HIDE DEF w, m
  <2>4. q'[w] = Append(q[w], m) /\ \A v \in Workers : v # w => posts'[v] = posts[v] /\ q'[v] = q[v]
    BY ONLY <2>1, <2>2, <2>3, ZenonT(60)
  <2>5. BoxOf' = [BoxOf EXCEPT ![w] = posts'[w] \o q'[w]] /\ BoxOf[w] = posts[w] \o q[w]
    BY ONLY <2>1, <2>4, BoxOfStep, ZenonT(60)
  <2>6. posts[w] \o Append(q[w], m) = Append(posts[w] \o q[w], m)
    <3> DEFINE s == posts[w]
               u == q[w]
    <3>1. s \in Seq(Posts) /\ u \in Seq(Posts) /\ m \in Posts
      BY ONLY <2>1, <2>2, ZenonT(60)
    <3> HIDE DEF s, u
    <3>2. s \o Append(u, m) = Append(s \o u, m)
      BY ONLY <3>1, AppendCat
    <3> QED
      BY ONLY <3>2 DEF s, u
  <2>7. BoxOf' = [BoxOf EXCEPT ![w] = Append(BoxOf[w], m)]
    BY ONLY <2>3, <2>4, <2>5, <2>6, ZenonT(60)
  <2> QED
    BY ONLY <1>1, <2>1, <2>7, BoxSteps, ZenonT(60)
<1> QED
  BY <1>2, <1>3, ZenonT(60) DEF ThreadNext

\* Every step of a worker is one of Mailbox, or none: take moves the queue to the
\* batch, which is nothing for Mailbox.
LEMMA WorkerBox ==
    ASSUME IInv, BatchInv, NEW w \in Workers, WorkerNext(w) \/ WorkerFail(w)
    PROVE  Box!Next \/ UNCHANGED Box!mvars
<1>0. /\ wpc \in [Workers -> WorkerStates] /\ q \in [Workers -> Seq(Posts)] /\ posts \in [Workers -> Seq(Posts)]
      /\ posts[w] \in Seq(Posts) /\ q[w] \in Seq(Posts)
  BY ZenonT(60) DEF IInv, TypeOK
<1>1. RunningOf[w] = Serving(wpc[w])
  BY RunningOfStep, ZenonT(60) DEF RunningOf, Serving
<1>2. CASE WorkerStart(w) \/ WorkerFail(w) \/ Poll(w) \/ PollOther(w) \/ ReadEfd(w) \/ DrainEnd(w) \/ WorkerEnd(w)
  <2>1. BoxOf' = BoxOf
    BY <1>2, ZenonT(60) DEF BoxOf, WorkerStart, WorkerFail, Poll, PollOther, ReadEfd, DrainEnd, WorkerEnd, hubVars
  <2>2. \A v \in Workers : v # w => wpc'[v] = wpc[v]
    BY <1>0, <1>2, ZenonT(60) DEF WorkerStart, WorkerFail, Poll, PollOther, ReadEfd, DrainEnd, WorkerEnd
  <2>3. \/ ~Serving(wpc[w]) /\ Serving(wpc'[w])
        \/ Serving(wpc[w]) /\ ~Serving(wpc'[w])
        \/ Serving(wpc'[w]) <=> Serving(wpc[w])
    BY ONLY ZenonT(60)
  <2>4. /\ RunningOf' = [RunningOf EXCEPT ![w] = Serving(wpc'[w])]
        /\ (Serving(wpc'[w]) <=> Serving(wpc[w])) => RunningOf' = RunningOf
    BY ONLY <2>2, w \in Workers, RunningOfStep, ZenonT(60)
  <2>5. Serving(wpc'[w]) = TRUE \/ Serving(wpc'[w]) = FALSE
    BY ONLY ServingIs, ZenonT(60)
  <2>6. CASE ~Serving(wpc[w]) /\ Serving(wpc'[w])
    <3>1. Serving(wpc'[w]) = TRUE
      BY ONLY <2>5, <2>6, ZenonT(60)
    <3>2. ~RunningOf[w] /\ RunningOf' = [RunningOf EXCEPT ![w] = TRUE]
      BY ONLY <1>1, <2>4, <2>6, <3>1, ZenonT(60)
    <3> QED
      BY ONLY <2>1, <3>2, w \in Workers, BoxSteps, ZenonT(60)
  <2>7. CASE Serving(wpc[w]) /\ ~Serving(wpc'[w])
    <3>1. Serving(wpc'[w]) = FALSE
      BY ONLY <2>5, <2>7, ZenonT(60)
    <3>2. RunningOf[w] /\ RunningOf' = [RunningOf EXCEPT ![w] = FALSE]
      BY ONLY <1>1, <2>4, <2>7, <3>1, ZenonT(60)
    <3> QED
      BY ONLY <2>1, <3>2, w \in Workers, BoxSteps, ZenonT(60)
  <2>8. CASE Serving(wpc'[w]) <=> Serving(wpc[w])
    BY ONLY <2>1, <2>4, <2>8, BoxSteps, ZenonT(60)
  <2> QED
    BY ONLY <2>3, <2>6, <2>7, <2>8, ZenonT(60)
<1>3. CASE Take(w)
  <2>1. posts[w] = <<>>
    BY <1>3, ZenonT(60) DEF Take, BatchInv
  <2>2. posts'[w] = q[w] /\ q'[w] = <<>> /\ \A v \in Workers : v # w => posts'[v] = posts[v] /\ q'[v] = q[v]
    BY <1>0, <1>3, ZenonT(60) DEF Take
  <2>3. wpc'[w] = "deliver" /\ wpc[w] = "take" /\ \A v \in Workers : v # w => wpc'[v] = wpc[v]
    BY <1>0, <1>3, ZenonT(60) DEF Take
  <2>4. q[w] \o <<>> = q[w] /\ <<>> \o q[w] = q[w]
    BY ONLY <1>0, ConcatEmptySeq, ZenonT(60)
  <2>5. \A v \in Workers : posts'[v] \o q'[v] = posts[v] \o q[v]
    BY ONLY <2>1, <2>2, <2>4, ZenonT(60)
  <2>6. BoxOf' = BoxOf
    BY ONLY <2>5, ZenonT(60) DEF BoxOf
  <2>7. RunningOf' = RunningOf
    <3>1. Serving(wpc'[w]) <=> Serving(wpc[w])
      BY ONLY <2>3, ZenonT(60) DEF Serving
    <3> QED
      BY ONLY <2>3, <3>1, w \in Workers, RunningOfStep, ZenonT(60)
  <2> QED
    BY ONLY <2>6, <2>7, BoxSteps, ZenonT(60)
<1>4. CASE Deliver(w)
  <2>1. wpc[w] = "deliver" /\ posts[w] # <<>> /\ wpc' = wpc
    BY <1>4, ZenonT(60) DEF Deliver
  <2>2. posts'[w] = Tail(posts[w]) /\ \A v \in Workers : v # w => posts'[v] = posts[v] /\ q'[v] = q[v]
    BY <1>0, <1>4, ZenonT(60) DEF Deliver, hubVars
  <2>3. q'[w] = q[w]
    BY <1>4, ZenonT(60) DEF Deliver, hubVars
  <2>4. BoxOf' = [BoxOf EXCEPT ![w] = posts'[w] \o q'[w]] /\ BoxOf[w] = posts[w] \o q[w]
    BY ONLY <2>2, w \in Workers, BoxOfStep, ZenonT(60)
  <2>5. posts[w] \o q[w] # <<>> /\ Tail(posts[w] \o q[w]) = Tail(posts[w]) \o q[w]
    BY ONLY <1>0, <2>1, TailCat, ZenonT(60)
  <2>6. BoxOf[w] # <<>> /\ BoxOf' = [BoxOf EXCEPT ![w] = Tail(BoxOf[w])]
    BY ONLY <2>2, <2>3, <2>4, <2>5, ZenonT(60)
  <2>7. RunningOf[w] /\ RunningOf' = RunningOf
    BY ONLY <1>1, <2>1, ZenonT(60) DEF RunningOf, Serving
  <2> QED
    BY ONLY <2>6, <2>7, w \in Workers, BoxSteps, ZenonT(60)
<1> QED
  BY <1>2, <1>3, <1>4, ZenonT(60) DEF WorkerNext

\* The rest: open and close.  What close drops, Mailbox drops.
LEMMA ServerBox ==
    ASSUME IInv, Open \/ Close \/ RequestStop
    PROVE  Box!Next \/ UNCHANGED Box!mvars
<1>1. CASE Open
  <2>1. /\ \A w \in Workers : wpc[w] = "off" /\ wpc'[w] = "new"
        /\ UNCHANGED <<posts, q>>
    BY <1>1, ZenonT(60) DEF Open, IInv, LockInv
  <2>2. RunningOf' = RunningOf
    <3>1. RunningOf = [v \in Workers |-> Serving(wpc[v])] /\ RunningOf' = [v \in Workers |-> Serving(wpc'[v])]
      BY ONLY ZenonT(60) DEF RunningOf, Serving
    <3>2. \A v \in Workers : Serving(wpc'[v]) = Serving(wpc[v])
      BY ONLY <2>1, ServingNot, ZenonT(60)
    <3> QED
      BY ONLY <3>1, <3>2, ZenonT(60)
  <2>3. BoxOf' = BoxOf
    BY ONLY <2>1, ZenonT(60) DEF BoxOf
  <2> QED
    BY ONLY <2>2, <2>3, BoxSteps, ZenonT(60)
<1>2. CASE Close
  <2>1. \A w \in Workers : /\ wpc[w] = "gone" /\ wpc'[w] = "off"
                           /\ posts'[w] = <<>> /\ q'[w] = <<>>
    BY <1>2, ZenonT(60) DEF Close
  <2>2. RunningOf' = RunningOf /\ \A w \in Workers : ~RunningOf[w]
    <3>1. RunningOf = [v \in Workers |-> Serving(wpc[v])] /\ RunningOf' = [v \in Workers |-> Serving(wpc'[v])]
      BY ONLY ZenonT(60) DEF RunningOf, Serving
    <3>2. \A v \in Workers : Serving(wpc'[v]) = FALSE /\ Serving(wpc[v]) = FALSE
      BY ONLY <2>1, ServingNot, ZenonT(60)
    <3>3. \A v \in Workers : RunningOf[v] = FALSE
      BY ONLY <3>1, <3>2, ZenonT(60)
    <3> QED
      BY ONLY <3>1, <3>2, <3>3, ZenonT(60)
  <2>3. <<>> \o <<>> = <<>>
    OBVIOUS
  <2>4. BoxOf' = [w \in Workers |-> <<>>]
    BY ONLY <2>1, <2>3, ZenonT(60) DEF BoxOf
  <2> QED
    BY ONLY <2>2, <2>4, BoxSteps, ZenonT(60)
<1>3. CASE RequestStop
  <2>1. RunningOf' = RunningOf /\ BoxOf' = BoxOf
    BY <1>3, ZenonT(60) DEF RunningOf, BoxOf, RequestStop, hubVars
  <2> QED
    BY ONLY <2>1, BoxSteps, ZenonT(60)
<1> QED
  BY <1>1, <1>2, <1>3

\* The Hub implements Mailbox, for any number of threads, workers and posts and
\* over restarts of the server: no interleaving of put, take and deliver loses a
\* post, delivers one twice or overtakes one, and only close drops any.  (That a
\* running worker goes on delivering is left to TLC.)
THEOREM MailboxAlways == Spec => Box!Init /\ [][Box!Next]_(Box!mvars)
<1>1. Init => Box!Init
  <2>1. ASSUME Init PROVE Box!Init
    <3>1. \A w \in Workers : wpc[w] = "off" /\ posts[w] = <<>> /\ q[w] = <<>>
      BY <2>1, ZenonT(60) DEF Init
    <3>2. <<>> \o <<>> = <<>>
      OBVIOUS
    <3>3. BoxOf = [w \in Workers |-> <<>>]
      BY ONLY <3>1, <3>2, ZenonT(60) DEF BoxOf
    <3>4. RunningOf = [w \in Workers |-> FALSE]
      <4>1. RunningOf = [v \in Workers |-> Serving(wpc[v])]
        BY ONLY ZenonT(60) DEF RunningOf, Serving
      <4> QED
        BY ONLY <3>1, <4>1, ServingNot, ZenonT(60)
    <3> QED
      BY ONLY <3>3, <3>4, ZenonT(60) DEF Box!Init, BoxOf, RunningOf
  <2> QED
    BY <2>1
<1>2. Init => BatchInv
  BY ZenonT(60) DEF Init, BatchInv
<1>3. IInv /\ BatchInv /\ [Next]_vars => [Box!Next]_(Box!mvars)
  <2>1. ASSUME IInv, BatchInv, Next PROVE Box!Next \/ UNCHANGED Box!mvars
    BY <2>1, ServerBox, ThreadBox, WorkerBox, ZenonT(60) DEF Next
  <2>2. ASSUME UNCHANGED vars PROVE UNCHANGED Box!mvars
    BY <2>2, ZenonT(60) DEF vars, hubVars, workerVars, Box!mvars
  <2> QED
    BY <2>1, <2>2
<1> QED
  BY <1>1, <1>2, <1>3, BatchStep, IInvAlways, PTL DEF Spec

\* The order of the integers.
LEMMA Orders == \A x, y, z \in Int : /\ x <= y /\ y <= z => x <= z
                                     /\ x < y /\ y <= z => x <= z
                                     /\ x <= y /\ y < z => x < z
OBVIOUS

\* What a post has.
LEMMA PostFields ==
    /\ \A p \in Posts : p.from \in Threads /\ p.n \in Int
    /\ \A b \in Seq(Posts) : \A i \in 1 .. Len(b) : b[i].from \in Threads /\ b[i].n \in Int
<1>1. \A p \in Posts : p.from \in Threads /\ p.n \in Int
  <2>1. ASSUME NEW p \in [from : Threads, n : 1 .. MaxPosts, to : Targets] PROVE p.from \in Threads /\ p.n \in Int
    BY HubAssumption DEF HubAssumption
  <2> QED
    BY <2>1 DEF Posts
<1>2. \A b \in Seq(Posts) : \A i \in 1 .. Len(b) : b[i] \in Posts
  BY ElementOfSeq
<1> QED
  BY ONLY <1>1, <1>2, ZenonT(60)

\* More posts may come.
LEMMA PlacedMore ==
    ASSUME NEW b \in Seq(Posts), NEW l \in [Threads -> Int], NEW u \in [Threads -> Int], NEW v \in [Threads -> Int],
           Placed(b, l, u), \A t \in Threads : u[t] <= v[t]
    PROVE  Placed(b, l, v)
<1>1. \A i \in 1 .. Len(b) : b[i].from \in Threads /\ b[i].n \in Int
  BY PostFields, ZenonT(60)
<1>2. \A t \in Threads : l[t] \in Int /\ u[t] \in Int /\ v[t] \in Int
  OBVIOUS
<1>3. \A i \in 1 .. Len(b) : l[b[i].from] < b[i].n /\ b[i].n <= v[b[i].from]
  BY <1>1, <1>2, Orders, ZenonT(60) DEF Placed
<1>4. \A t \in Threads : l[t] <= v[t]
  BY <1>2, Orders, ZenonT(60) DEF Placed
<1> QED
  BY <1>3, <1>4, ZenonT(60) DEF Placed

\* The next post of a thread joins the end.
LEMMA PlacedAppend ==
    ASSUME NEW b \in Seq(Posts), NEW l \in [Threads -> Int], NEW u \in [Threads -> Int], NEW v \in [Threads -> Int],
           NEW m \in Posts, Placed(b, l, u), u[m.from] < m.n, m.n <= v[m.from],
           \A t \in Threads : u[t] <= v[t]
    PROVE  Placed(Append(b, m), l, v)
<1> DEFINE c == Append(b, m)
<1>1. /\ Len(b) \in Nat /\ Len(c) = Len(b) + 1 /\ c[Len(c)] = m
      /\ \A i \in 1 .. Len(b) : c[i] = b[i]
  BY AppendProperties, LenProperties
<1>2. \A i \in 1 .. Len(b) : b[i].from \in Threads /\ b[i].n \in Int
  BY PostFields, ZenonT(60)
<1>3. m.from \in Threads /\ m.n \in Int
  BY PostFields, ZenonT(60)
<1> HIDE DEF c
<1>4. \A i \in 1 .. Len(c) : i \in 1 .. Len(b) \/ (i = Len(c) /\ c[i] = m)
  BY ONLY <1>1
<1>0. \A t \in Threads : l[t] \in Int /\ u[t] \in Int /\ v[t] \in Int
  OBVIOUS
<1>5. \A t \in Threads : l[t] <= v[t]
  BY <1>0, Orders, ZenonT(60) DEF Placed
<1>6. \A i \in 1 .. Len(c) : l[c[i].from] < c[i].n /\ c[i].n <= v[c[i].from]
  <2>1. \A i \in 1 .. Len(b) : l[c[i].from] < c[i].n /\ c[i].n <= v[c[i].from]
    <3>1. \A i \in 1 .. Len(b) : l[b[i].from] < b[i].n /\ b[i].n <= u[b[i].from] /\ u[b[i].from] <= v[b[i].from]
      BY <1>2, ZenonT(60) DEF Placed
    <3>2. \A i \in 1 .. Len(b) : l[b[i].from] < b[i].n /\ b[i].n <= v[b[i].from]
      BY ONLY <1>0, <1>2, <3>1, Orders, ZenonT(60)
    <3> QED
      BY ONLY <1>1, <3>2, ZenonT(60)
  <2>2. l[m.from] < m.n /\ m.n <= v[m.from]
    <3>1. l[m.from] <= u[m.from]
      BY <1>3, ZenonT(60) DEF Placed
    <3> QED
      BY ONLY <1>0, <1>3, <3>1, u[m.from] < m.n, m.n <= v[m.from], Orders, ZenonT(60)
  <2> QED
    BY ONLY <1>4, <2>1, <2>2, ZenonT(60)
<1>7. \A i, j \in 1 .. Len(c) : i < j /\ c[i].from = c[j].from => c[i].n < c[j].n
  <2>1. ASSUME NEW i \in 1 .. Len(c), NEW j \in 1 .. Len(c), i < j, c[i].from = c[j].from
        PROVE  c[i].n < c[j].n
    <3>1. i \in 1 .. Len(b) /\ c[i] = b[i]
      BY ONLY <1>1, <2>1
    <3>2. CASE j \in 1 .. Len(b)
      BY <1>1, <2>1, <3>1, <3>2 DEF Placed
    <3>3. CASE c[j] = m
      <4>1. b[i].from = m.from /\ b[i].n <= u[b[i].from]
        BY <2>1, <3>1, <3>3 DEF Placed
      <4> QED
        BY <1>0, <1>2, <1>3, <3>1, <3>3, <4>1, Orders, ZenonT(60)
    <3> QED
      BY ONLY <1>4, <2>1, <3>2, <3>3, ZenonT(60)
  <2> QED
    BY ONLY <2>1, ZenonT(60)
<1> QED
  BY ONLY <1>5, <1>6, <1>7, ZenonT(60) DEF Placed, c

\* The first is delivered.
LEMMA PlacedTail ==
    ASSUME NEW b \in Seq(Posts), NEW l \in [Threads -> Int], NEW u \in [Threads -> Int], b # <<>>, Placed(b, l, u)
    PROVE  /\ l[Head(b).from] < Head(b).n
           /\ Placed(Tail(b), [l EXCEPT ![Head(b).from] = Head(b).n], u)
<1> DEFINE c == Tail(b)
           h == Head(b)
           k == [l EXCEPT ![h.from] = h.n]
<1>1. /\ Len(b) \in Nat /\ 1 \in 1 .. Len(b) /\ Len(c) = Len(b) - 1 /\ h = b[1] /\ h \in Posts
      /\ \A i \in 1 .. Len(c) : i + 1 \in 1 .. Len(b) /\ c[i] = b[i + 1]
  OBVIOUS
<1>2. \A i \in 1 .. Len(b) : b[i].from \in Threads /\ b[i].n \in Int
  BY PostFields, ZenonT(60)
<1>3. h.from \in Threads /\ h.n \in Int
  BY <1>1, <1>2
<1>4. k[h.from] = h.n /\ \A t \in Threads : t # h.from => k[t] = l[t]
  BY <1>3
<1> HIDE DEF c, h, k
<1>5. l[h.from] < h.n /\ h.n <= u[h.from]
  BY <1>1 DEF Placed
<1>6. \A t \in Threads : k[t] <= u[t]
  BY <1>3, <1>4, <1>5, ZenonT(60) DEF Placed
<1>7. \A i, j \in 1 .. Len(c) : i < j /\ c[i].from = c[j].from => c[i].n < c[j].n
  <2>1. \A i, j \in 1 .. Len(c) : i < j => i + 1 < j + 1
    BY ONLY <1>1
  <2> QED
    BY <1>1, <2>1, ZenonT(60) DEF Placed
<1>8. \A i \in 1 .. Len(c) : k[c[i].from] < c[i].n /\ c[i].n <= u[c[i].from]
  <2>1. ASSUME NEW i \in 1 .. Len(c) PROVE k[c[i].from] < c[i].n /\ c[i].n <= u[c[i].from]
    <3>1. l[c[i].from] < c[i].n /\ c[i].n <= u[c[i].from] /\ c[i].from \in Threads
      BY <1>1, <1>2, <2>1 DEF Placed
    <3>2. c[i].from = h.from => h.n < c[i].n
      <4>1. 1 \in 1 .. Len(b) /\ i + 1 \in 1 .. Len(b) /\ 1 < i + 1 /\ c[i] = b[i + 1]
        BY ONLY <1>1, <2>1
      <4> QED
        BY ONLY <1>1, <4>1, Placed(b, l, u), ZenonT(60) DEF Placed
    <3> QED
      BY <1>4, <3>1, <3>2, ZenonT(60)
  <2> QED
    BY ONLY <2>1, ZenonT(60)
<1> QED
  BY ONLY <1>5, <1>6, <1>7, <1>8, ZenonT(60) DEF Placed, c, h, k

\* The types OrderInv is about.
LEMMA OrderTypes ==
    ASSUME DataOK, NEW w \in Workers
    PROVE  /\ posts[w] \in Seq(Posts) /\ q[w] \in Seq(Posts) /\ Waiting(w) \in Seq(Posts)
           /\ last[w] \in [Threads -> Int] /\ Upto(w) \in [Threads -> Int]
           /\ \A t \in Threads : sent[t] \in Int /\ at[t] \in Int
           /\ w \in Int
<1>1. /\ q \in [Workers -> Seq(Posts)] /\ posts \in [Workers -> Seq(Posts)]
      /\ last \in [Workers -> [Threads -> 0 .. MaxPosts]]
      /\ at \in [Threads -> 0 .. N] /\ sent \in [Threads -> 0 .. MaxPosts]
  BY ZenonT(60) DEF DataOK
<1>2. posts[w] \in Seq(Posts) /\ q[w] \in Seq(Posts)
  BY ONLY <1>1, w \in Workers, ZenonT(60)
<1>3. Waiting(w) \in Seq(Posts)
  BY ONLY <1>2, ConcatProperties, ZenonT(60) DEF Waiting
<1>4. last[w] \in [Threads -> Int]
  <2>1. last[w] \in [Threads -> 0 .. MaxPosts]
    BY ONLY <1>1, w \in Workers, ZenonT(60)
  <2> QED
    BY ONLY <2>1
<1>5. \A t \in Threads : sent[t] \in Int /\ sent[t] - 1 \in Int /\ at[t] \in Int
  BY ONLY <1>1, HubAssumption DEF HubAssumption
<1>6. Upto(w) \in [Threads -> Int]
  BY ONLY <1>5, ZenonT(60) DEF Upto
<1>7. w \in Int
  BY DEF Workers
<1> QED
  BY ONLY <1>2, <1>3, <1>4, <1>5, <1>6, <1>7, ZenonT(60)

\* The same after a step.
LEMMA UptoType ==
    ASSUME DataOK', NEW w \in Workers
    PROVE  Upto(w)' \in [Threads -> Int]
<1>1. sent' \in [Threads -> 0 .. MaxPosts]
  BY ZenonT(60) DEF DataOK
<1>2. \A t \in Threads : sent'[t] \in Int /\ sent'[t] - 1 \in Int
  BY ONLY <1>1, HubAssumption DEF HubAssumption
<1> QED
  BY ONLY <1>2, ZenonT(60) DEF Upto

\* A post under way stays the thread's latest.
LEMMA LatestStep == IInv /\ LatestInv /\ [Next]_vars => LatestInv'
<1> SUFFICES ASSUME IInv, LatestInv, [Next]_vars PROVE LatestInv'
  OBVIOUS
<1>0. /\ tpc \in [Threads -> {"idle", "loop", "wake"}] /\ sent \in [Threads -> 0 .. MaxPosts]
      /\ msg \in [Threads -> Posts \cup {NoPost(t) : t \in Threads}]
  BY ZenonT(60) DEF IInv, TypeOK
<1>1. ASSUME UNCHANGED <<tpc, msg, sent>> PROVE LatestInv'
  BY <1>1, ZenonT(60) DEF LatestInv
<1>2. CASE Open \/ Close \/ RequestStop \/ UNCHANGED vars
  BY <1>1, <1>2, ZenonT(60) DEF Open, Close, RequestStop, threadVars, vars
<1>3. ASSUME NEW w \in Workers, WorkerNext(w) \/ WorkerFail(w) PROVE LatestInv'
  BY <1>1, <1>3, ZenonT(60) DEF WorkerNext, WorkerStart, WorkerFail, Poll, PollOther, ReadEfd, Take,
     Deliver, DrainEnd, WorkerEnd, threadVars
<1>4. ASSUME NEW t \in Threads, PostBegin(t) PROVE LatestInv'
  <2>1. PICK to \in Targets : msg' = [msg EXCEPT ![t] = [from |-> t, n |-> sent[t] + 1, to |-> to]]
    BY <1>4, ZenonT(60) DEF PostBegin
  <2>2. tpc' = [tpc EXCEPT ![t] = "loop"] /\ sent' = [sent EXCEPT ![t] = sent[t] + 1]
    BY <1>4, ZenonT(60) DEF PostBegin
  <2>3. msg'[t].from = t /\ msg'[t].n = sent'[t]
    <3>1. msg'[t] = [from |-> t, n |-> sent[t] + 1, to |-> to] /\ sent'[t] = sent[t] + 1
      BY ONLY <1>0, <2>1, <2>2, t \in Threads, ZenonT(60)
    <3> QED
      BY ONLY <3>1
  <2>4. \A u \in Threads : u # t => msg'[u] = msg[u] /\ sent'[u] = sent[u] /\ tpc'[u] = tpc[u]
    BY ONLY <1>0, <2>1, <2>2, ZenonT(60)
  <2> QED
    BY <2>3, <2>4, ZenonT(60) DEF LatestInv
<1>5. ASSUME NEW t \in Threads, ThreadNext(t) PROVE LatestInv'
  <2>1. UNCHANGED <<msg, sent>> /\ tpc[t] # "idle" /\ \A u \in Threads : u # t => tpc'[u] = tpc[u]
    BY <1>0, <1>5, ZenonT(60) DEF ThreadNext, PostSkip, Put, PutAs, Wake, PostEnd
  <2> QED
    BY <1>5, <2>1, ZenonT(60) DEF LatestInv
<1> QED
  BY <1>2, <1>3, <1>4, <1>5, ZenonT(60) DEF Next

\* What a thread does leaves room for what it may still put, and its put takes
\* the room.
LEMMA UptoStep ==
    ASSUME IInv, DataOK', NEW w \in Workers, NEW t \in Threads, PostBegin(t) \/ ThreadNext(t)
    PROVE  /\ \A u \in Threads : Upto(w)[u] <= Upto(w)'[u]
           /\ Put(t) /\ at[t] = w => Upto(w)[t] = sent[t] - 1 /\ Upto(w)'[t] = sent[t]
<1>0. /\ tpc \in [Threads -> {"idle", "loop", "wake"}] /\ sent \in [Threads -> 0 .. MaxPosts]
      /\ at \in [Threads -> 0 .. N]
  BY ZenonT(60) DEF IInv, TypeOK
<1>1. /\ \A u \in Threads : sent[u] \in Int /\ at[u] \in Int
      /\ w \in Int
  BY OrderTypes, TypeParts, ZenonT(60) DEF IInv
<1>2. /\ \A u \in Threads : Upto(w)[u] = (IF Ahead(u, w) THEN sent[u] - 1 ELSE sent[u])
      /\ \A u \in Threads : Upto(w)'[u] = (IF Ahead(u, w)' THEN sent'[u] - 1 ELSE sent'[u])
  BY ONLY ZenonT(60) DEF Upto
<1>3. \A u \in Threads : u # t => sent'[u] = sent[u] /\ tpc'[u] = tpc[u] /\ at'[u] = at[u]
  BY <1>0, ZenonT(60) DEF ThreadNext, PostBegin, PostSkip, Put, PutAs, Wake, PostEnd
<1>4. \A u \in Threads : u # t => Upto(w)'[u] = Upto(w)[u]
  BY ONLY <1>2, <1>3, ZenonT(60) DEF Ahead
<1>5. \A u \in Threads : u # t => Upto(w)[u] <= Upto(w)'[u]
  <2>1. \A x \in Int : x <= x
    OBVIOUS
  <2>2. Upto(w) \in [Threads -> Int]
    BY OrderTypes, TypeParts, ZenonT(60) DEF IInv
  <2> QED
    BY ONLY <1>4, <2>1, <2>2, ZenonT(60)
<1> DEFINE a == Ahead(t, w)
           b == Ahead(t, w)'
           x == sent[t]
           y == sent'[t]
<1>6. CASE PostBegin(t)
  <2>1. ~a /\ y = x + 1
    BY <1>0, <1>6, ZenonT(60) DEF PostBegin, Ahead
  <2>2. ~Put(t)
    BY <1>6, ZenonT(60) DEF PostBegin, Put, PutAs
  <2>3. Upto(w)[t] = x /\ (Upto(w)'[t] = y - 1 \/ Upto(w)'[t] = y)
    BY ONLY <1>2, <2>1, t \in Threads, ZenonT(60)
  <2>4. x \in Int
    BY <1>1
  <2> HIDE DEF x, y
  <2>5. Upto(w)[t] <= Upto(w)'[t]
    BY ONLY <2>1, <2>3, <2>4
  <2> QED
    BY ONLY <1>5, <2>2, <2>5, ZenonT(60)
<1>7. CASE ThreadNext(t)
  <2>1. y = x /\ x \in Int
    BY <1>1, <1>7, ZenonT(60) DEF ThreadNext, PostSkip, Put, PutAs, Wake, PostEnd
  <2>2. \/ tpc[t] = "loop" /\ tpc'[t] = "loop" /\ at'[t] = at[t] + 1
        \/ tpc[t] = "loop" /\ tpc'[t] = "wake" /\ at'[t] = at[t]
        \/ tpc[t] = "wake" /\ tpc'[t] = "loop" /\ at'[t] = at[t] + 1
        \/ tpc'[t] = "idle"
    BY <1>0, <1>7, ZenonT(60) DEF ThreadNext, PostSkip, Put, PutAs, Wake, PostEnd
  <2>3. b => a
    <3>1. at[t] \in Int /\ w \in Int
      BY <1>1
    <3> QED
      BY ONLY <2>2, <3>1 DEF Ahead
  <2>4. Upto(w)[t] <= Upto(w)'[t]
    <3>1. (Upto(w)[t] = x - 1 \/ Upto(w)[t] = x) /\ (Upto(w)'[t] = x \/ (Upto(w)'[t] = x - 1 /\ Upto(w)[t] = x - 1))
      BY ONLY <1>2, <2>1, <2>3, t \in Threads, ZenonT(60)
    <3> HIDE DEF x, y
    <3> QED
      BY ONLY <2>1, <3>1
  <2>5. ASSUME Put(t), at[t] = w PROVE a /\ ~b
    <3>1. tpc[t] = "loop" /\ ((tpc'[t] = "wake" /\ at'[t] = at[t]) \/ (tpc'[t] = "loop" /\ at'[t] = at[t] + 1))
      BY <1>0, <2>5, ZenonT(60) DEF Put, PutAs
    <3>2. at[t] \in Int /\ w \in Int /\ at[t] = w
      BY <1>1, <2>5
    <3> QED
      BY ONLY <3>1, <3>2 DEF Ahead
  <2>6. Put(t) /\ at[t] = w => Upto(w)[t] = x - 1 /\ Upto(w)'[t] = x
    BY ONLY <1>2, <2>1, <2>5, t \in Threads, ZenonT(60)
  <2> QED
    BY ONLY <1>5, <2>4, <2>6, ZenonT(60)
<1> QED
  BY <1>6, <1>7

\* A step that puts and delivers nothing at w keeps the order there.
LEMMA OrderKept ==
    ASSUME DataOK, DataOK', NEW w \in Workers, Placed(Waiting(w), last[w], Upto(w)),
           Waiting(w)' = Waiting(w), last'[w] = last[w], \A u \in Threads : Upto(w)[u] <= Upto(w)'[u]
    PROVE  Placed(Waiting(w), last[w], Upto(w))'
<1>1. Waiting(w) \in Seq(Posts) /\ last[w] \in [Threads -> Int] /\ Upto(w) \in [Threads -> Int]
  BY OrderTypes, ZenonT(60)
<1>2. Upto(w)' \in [Threads -> Int]
  BY UptoType, ZenonT(60)
<1>3. Placed(Waiting(w), last[w], Upto(w)')
  BY ONLY <1>1, <1>2, Placed(Waiting(w), last[w], Upto(w)), \A u \in Threads : Upto(w)[u] <= Upto(w)'[u],
     PlacedMore, ZenonT(60)
<1> QED
  BY ONLY <1>3, Waiting(w)' = Waiting(w), last'[w] = last[w], ZenonT(60) DEF Placed

\* A step of the server or of a worker leaves the threads alone.
LEMMA UptoStays ==
    ASSUME DataOK, NEW w \in Workers, UNCHANGED threadVars
    PROVE  Upto(w)' = Upto(w) /\ \A u \in Threads : Upto(w)[u] <= Upto(w)'[u]
<1>1. Upto(w)' = Upto(w)
  BY ZenonT(60) DEF Upto, Ahead, threadVars
<1>2. Upto(w) \in [Threads -> Int]
  BY OrderTypes, ZenonT(60)
<1>3. \A x \in Int : x <= x
  OBVIOUS
<1> QED
  BY ONLY <1>1, <1>2, <1>3, ZenonT(60)

\* Every step keeps the order.
LEMMA OrderStep == IInv /\ BatchInv /\ LatestInv /\ OrderInv /\ DataOK' /\ [Next]_vars => OrderInv'
<1> SUFFICES ASSUME IInv, BatchInv, LatestInv, OrderInv, DataOK', [Next]_vars, NEW v \in Workers
             PROVE  Placed(Waiting(v), last[v], Upto(v))'
  BY DEF OrderInv
<1>0. DataOK /\ Placed(Waiting(v), last[v], Upto(v))
  BY TypeParts, ZenonT(60) DEF IInv, OrderInv
<1>1. ASSUME UNCHANGED <<posts, q, last>>, \A u \in Threads : Upto(v)[u] <= Upto(v)'[u]
      PROVE  Placed(Waiting(v), last[v], Upto(v))'
  <2>1. Waiting(v)' = Waiting(v) /\ last'[v] = last[v]
    BY <1>1, ZenonT(60) DEF Waiting
  <2> QED
    BY <1>0, <1>1, <2>1, OrderKept, ZenonT(60)
<1>2. CASE Open \/ RequestStop \/ UNCHANGED vars
  <2>1. UNCHANGED <<posts, q, last>> /\ UNCHANGED threadVars
    BY <1>2, ZenonT(60) DEF Open, RequestStop, vars, hubVars, workerVars
  <2> QED
    BY <1>0, <1>1, <2>1, UptoStays, ZenonT(60)
<1>3. CASE Close
  <2>1. posts'[v] = <<>> /\ q'[v] = <<>> /\ last' = last /\ UNCHANGED threadVars
    BY <1>3, ZenonT(60) DEF Close
  <2>2. Waiting(v)' = <<>>
    BY ONLY <2>1 DEF Waiting
  <2>3. Upto(v)' = Upto(v)
    BY <1>0, <2>1, UptoStays, ZenonT(60)
  <2>4. 1 .. Len(<<>>) = {}
    OBVIOUS
  <2>5. Placed(<<>>, last[v], Upto(v))
    BY ONLY <1>0, <2>4, ZenonT(60) DEF Placed
  <2>6. Placed(Waiting(v)', last'[v], Upto(v)')
    BY ONLY <2>1, <2>2, <2>3, <2>5, ZenonT(60)
  <2> QED
    BY ONLY <2>6, ZenonT(60) DEF Placed
<1>4. ASSUME NEW t \in Threads, PostBegin(t) \/ ThreadNext(t) PROVE Placed(Waiting(v), last[v], Upto(v))'
  <2>1. \A u \in Threads : Upto(v)[u] <= Upto(v)'[u]
    BY <1>4, UptoStep, ZenonT(60)
  <2>2. CASE UNCHANGED <<posts, q, last>>
    BY <1>1, <2>1, <2>2
  <2>3. CASE Put(t)
    <3>1. /\ q' = [q EXCEPT ![at[t]] = Append(q[at[t]], msg[t])] /\ posts' = posts /\ last' = last
          /\ tpc[t] = "loop" /\ at[t] < N
      BY <2>3, ZenonT(60) DEF Put, PutAs, workerVars
    <3>2. q \in [Workers -> Seq(Posts)]
      BY <1>0, ZenonT(60) DEF DataOK
    <3>3. CASE at[t] # v
      <4>1. q'[v] = q[v]
        BY ONLY <3>1, <3>2, <3>3, v \in Workers, ZenonT(60)
      <4>2. Waiting(v)' = Waiting(v) /\ last'[v] = last[v]
        BY ONLY <3>1, <4>1, ZenonT(60) DEF Waiting
      <4> QED
        BY <1>0, <2>1, <4>2, OrderKept, ZenonT(60)
    <3>4. CASE at[t] = v
      <4> DEFINE s == posts[v]
                 u == q[v]
                 m == msg[t]
      <4>1. m \in Posts /\ m.from = t /\ m.n = sent[t]
        BY <3>1, ZenonT(60) DEF IInv, MsgInv, LatestInv
      <4>2. q'[v] = Append(u, m) /\ posts'[v] = s
        BY ONLY <3>1, <3>2, <3>4, v \in Workers, ZenonT(60)
      <4>3. /\ s \in Seq(Posts) /\ u \in Seq(Posts) /\ s \o u \in Seq(Posts)
            /\ last[v] \in [Threads -> Int] /\ Upto(v) \in [Threads -> Int]
            /\ sent[t] \in Int
        BY <1>0, OrderTypes, ZenonT(60) DEF Waiting
      <4>4. Upto(v)' \in [Threads -> Int]
        BY UptoType, ZenonT(60)
      <4>5. Upto(v)[t] = sent[t] - 1 /\ Upto(v)'[t] = sent[t]
        BY <1>4, <2>3, <3>4, UptoStep, ZenonT(60)
      <4>6. Upto(v)[m.from] < m.n /\ m.n <= Upto(v)'[m.from]
        <5>1. \A x \in Int : x - 1 < x /\ x <= x
          OBVIOUS
        <5> QED
          BY ONLY <4>1, <4>3, <4>5, <5>1, ZenonT(60)
      <4>7. Placed(s \o u, last[v], Upto(v))
        BY ONLY <1>0, ZenonT(60) DEF Waiting
      <4> HIDE DEF s, u, m
      <4>8. Placed(Append(s \o u, m), last[v], Upto(v)')
        BY ONLY <2>1, <4>1, <4>3, <4>4, <4>6, <4>7, PlacedAppend, ZenonT(60)
      <4>9. s \o Append(u, m) = Append(s \o u, m)
        BY ONLY <4>1, <4>3, AppendCat
      <4>10. Waiting(v)' = Append(s \o u, m) /\ last'[v] = last[v]
        BY ONLY <3>1, <4>2, <4>9, ZenonT(60) DEF Waiting
      <4> QED
        BY ONLY <4>8, <4>10, ZenonT(60) DEF Placed
    <3> QED
      BY ONLY <3>3, <3>4
  <2>4. Put(t) \/ UNCHANGED <<posts, q, last>>
    BY <1>4, ZenonT(60) DEF ThreadNext, PostBegin, PostSkip, Wake, PostEnd, hubVars, workerVars
  <2> QED
    BY ONLY <2>2, <2>3, <2>4
<1>5. ASSUME NEW w \in Workers, WorkerNext(w) \/ WorkerFail(w)
      PROVE  Placed(Waiting(v), last[v], Upto(v))'
  <2>0. /\ q \in [Workers -> Seq(Posts)] /\ posts \in [Workers -> Seq(Posts)]
        /\ last \in [Workers -> [Threads -> 0 .. MaxPosts]]
    BY <1>0, ZenonT(60) DEF DataOK
  <2>1. UNCHANGED threadVars
    BY <1>5, ZenonT(60) DEF WorkerNext, WorkerStart, WorkerFail, Poll, PollOther, ReadEfd, Take,
       Deliver, DrainEnd, WorkerEnd
  <2>2. Upto(v)' = Upto(v) /\ \A u \in Threads : Upto(v)[u] <= Upto(v)'[u]
    BY <1>0, <2>1, UptoStays, ZenonT(60)
  <2>3. CASE UNCHANGED <<posts, q, last>>
    BY <1>1, <2>2, <2>3
  <2>4. CASE Take(w)
    <3>1. posts[w] = <<>> /\ last' = last
      BY <2>4, ZenonT(60) DEF Take, BatchInv
    <3>2. posts'[w] = q[w] /\ q'[w] = <<>> /\ \A x \in Workers : x # w => posts'[x] = posts[x] /\ q'[x] = q[x]
      BY <2>0, <2>4, ZenonT(60) DEF Take
    <3>3. q[w] \o <<>> = q[w] /\ <<>> \o q[w] = q[w]
      <4>1. q[w] \in Seq(Posts)
        BY ONLY <2>0, w \in Workers, ZenonT(60)
      <4> QED
        BY ONLY <4>1, ConcatEmptySeq, ZenonT(60)
    <3>4. Waiting(v)' = Waiting(v) /\ last'[v] = last[v]
      BY ONLY <3>1, <3>2, <3>3, v \in Workers, ZenonT(60) DEF Waiting
    <3> QED
      BY <1>0, <2>2, <3>4, OrderKept, ZenonT(60)
  <2>5. CASE Deliver(w)
    <3> DEFINE m == Head(posts[w])
    <3>1. /\ posts[w] # <<>> /\ posts' = [posts EXCEPT ![w] = Tail(posts[w])] /\ q' = q
          /\ last' = [last EXCEPT ![w] = [last[w] EXCEPT ![m.from] = m.n]]
      BY <2>5, ZenonT(60) DEF Deliver, hubVars
    <3> HIDE DEF m
    <3>2. CASE v # w
      <4>1. posts'[v] = posts[v] /\ last'[v] = last[v]
        BY ONLY <2>0, <3>1, <3>2, v \in Workers, ZenonT(60)
      <4>2. Waiting(v)' = Waiting(v)
        BY ONLY <3>1, <4>1, ZenonT(60) DEF Waiting
      <4> QED
        BY <1>0, <2>2, <4>1, <4>2, OrderKept, ZenonT(60)
    <3>3. CASE v = w
      <4>1. posts'[v] = Tail(posts[v]) /\ last'[v] = [last[v] EXCEPT ![m.from] = m.n]
        BY ONLY <2>0, <3>1, <3>3, v \in Workers, ZenonT(60)
      <4>2. /\ posts[v] \in Seq(Posts) /\ q[v] \in Seq(Posts) /\ Waiting(v) \in Seq(Posts)
            /\ last[v] \in [Threads -> Int] /\ Upto(v) \in [Threads -> Int]
        BY <1>0, OrderTypes, ZenonT(60)
      <4>3. /\ posts[v] \o q[v] # <<>> /\ Tail(posts[v] \o q[v]) = Tail(posts[v]) \o q[v]
            /\ Head(posts[v] \o q[v]) = Head(posts[v])
        BY ONLY <3>1, <3>3, <4>2, TailCat, ZenonT(60)
      <4>4. Waiting(v) # <<>> /\ Head(Waiting(v)) = m /\ Waiting(v)' = Tail(Waiting(v))
        BY ONLY <3>1, <3>3, <4>1, <4>3, ZenonT(60) DEF Waiting, m
      <4>5. Placed(Tail(Waiting(v)), [last[v] EXCEPT ![Head(Waiting(v)).from] = Head(Waiting(v)).n], Upto(v))
        BY ONLY <1>0, <4>2, <4>4, PlacedTail, ZenonT(60)
      <4> QED
        BY ONLY <2>2, <4>1, <4>4, <4>5, ZenonT(60) DEF Placed
    <3> QED
      BY ONLY <3>2, <3>3
  <2>6. Take(w) \/ Deliver(w) \/ UNCHANGED <<posts, q, last>>
    BY <1>5, ZenonT(60) DEF WorkerNext, WorkerStart, WorkerFail, Poll, PollOther, ReadEfd, DrainEnd,
       WorkerEnd, hubVars
  <2> QED
    BY ONLY <2>3, <2>4, <2>5, <2>6
<1> QED
  BY <1>2, <1>3, <1>4, <1>5, ZenonT(60) DEF Next

\* A worker delivers the posts of one thread in the order the thread made them,
\* and no post twice, for any number of threads and posts and over restarts.
THEOREM InOrderAlways == Spec => InOrder
<1> DEFINE I == IInv /\ BatchInv /\ LatestInv /\ OrderInv
<1>1. Init => I
  <2>1. ASSUME Init PROVE BatchInv /\ LatestInv /\ OrderInv
    <3>1. BatchInv /\ LatestInv
      BY <2>1, ZenonT(60) DEF Init, BatchInv, LatestInv
    <3>2. ASSUME NEW w \in Workers PROVE Placed(Waiting(w), last[w], Upto(w))
      <4>1. posts[w] = <<>> /\ q[w] = <<>> /\ last[w] = [t \in Threads |-> 0]
        BY <2>1, ZenonT(60) DEF Init
      <4>2. \A t \in Threads : ~Ahead(t, w) /\ sent[t] = 0
        BY <2>1, ZenonT(60) DEF Init, Ahead
      <4>3. \A t \in Threads : last[w][t] = 0 /\ Upto(w)[t] = 0
        BY ONLY <4>1, <4>2, ZenonT(60) DEF Upto
      <4>4. Waiting(w) = <<>>
        BY ONLY <4>1 DEF Waiting
      <4>5. 1 .. Len(<<>>) = {} /\ 0 <= 0
        OBVIOUS
      <4>6. Placed(<<>>, last[w], Upto(w))
        BY ONLY <4>3, <4>5, ZenonT(60) DEF Placed
      <4> QED
        BY ONLY <4>4, <4>6, ZenonT(60)
    <3> QED
      BY ONLY <3>1, <3>2, ZenonT(60) DEF OrderInv
  <2> QED
    BY <2>1, InitIInv, ZenonT(60)
<1>2. I /\ [Next]_vars => I'
  <2>1. ASSUME I, [Next]_vars PROVE I'
    <3>1. IInv' /\ BatchInv' /\ LatestInv'
      BY <2>1, StepIInv, BatchStep, LatestStep, ZenonT(60)
    <3>2. DataOK'
      BY <3>1, TypePartsPrime, ZenonT(60) DEF IInv
    <3> QED
      BY <2>1, <3>1, <3>2, OrderStep, ZenonT(60)
  <2> QED
    BY <2>1
<1>3. I /\ [Next]_vars => [\A w \in Workers, t \in Threads : last'[w][t] # last[w][t] => last'[w][t] > last[w][t]]_vars
  <2> SUFFICES ASSUME I, Next, NEW w \in Workers, NEW t \in Threads, last'[w][t] # last[w][t]
               PROVE  last'[w][t] > last[w][t]
    BY ZenonT(60)
  <2>0. DataOK /\ last \in [Workers -> [Threads -> 0 .. MaxPosts]]
    BY TypeParts, ZenonT(60) DEF IInv, DataOK
  <2>1. PICK v \in Workers : Deliver(v)
    <3>1. last' # last
      BY ZenonT(60)
    <3>2. ~Open /\ ~Close /\ ~RequestStop /\ \A u \in Threads : ~PostBegin(u) /\ ~ThreadNext(u)
      BY <3>1, ZenonT(60) DEF Open, Close, RequestStop, PostBegin, ThreadNext, PostSkip, Put, PutAs, Wake,
         PostEnd, workerVars
    <3>3. \A v \in Workers : WorkerNext(v) \/ WorkerFail(v) => Deliver(v)
      BY <3>1, ZenonT(60) DEF WorkerNext, WorkerStart, WorkerFail, Poll, PollOther, ReadEfd, Take,
         DrainEnd, WorkerEnd
    <3> QED
      BY <3>2, <3>3, ZenonT(60) DEF Next
  <2> DEFINE m == Head(posts[v])
  <2>2. posts[v] # <<>> /\ last' = [last EXCEPT ![v] = [last[v] EXCEPT ![m.from] = m.n]]
    BY <2>1, ZenonT(60) DEF Deliver
  <2>3. /\ posts[v] \in Seq(Posts) /\ q[v] \in Seq(Posts) /\ Waiting(v) \in Seq(Posts)
        /\ last[v] \in [Threads -> Int] /\ Upto(v) \in [Threads -> Int]
    BY <2>0, OrderTypes, ZenonT(60)
  <2>4. Waiting(v) # <<>> /\ Head(Waiting(v)) = m
    BY ONLY <2>2, <2>3, TailCat, ZenonT(60) DEF Waiting
  <2>5. Placed(Waiting(v), last[v], Upto(v))
    BY ZenonT(60) DEF OrderInv
  <2>6. last[v][Head(Waiting(v)).from] < Head(Waiting(v)).n
    BY ONLY <2>3, <2>4, <2>5, PlacedTail, ZenonT(60)
  <2> HIDE DEF m
  <2>7. last[v][m.from] < m.n
    BY ONLY <2>4, <2>6, ZenonT(60)
  <2>8. v = w /\ m.from = t /\ last'[w][t] = m.n
    BY ONLY <2>0, <2>2, last'[w][t] # last[w][t], w \in Workers, t \in Threads, v \in Workers, ZenonT(60)
  <2>9. m \in Posts /\ m.n \in Int /\ last[w][t] \in Int
    <3>1. m \in Posts
      BY ONLY <2>2, <2>3 DEF m
    <3> QED
      BY ONLY <2>3, <2>8, <3>1, t \in Threads, PostFields, ZenonT(60)
  <2>10. \A x, y \in Int : x < y => y > x
    OBVIOUS
  <2> QED
    BY ONLY <2>7, <2>8, <2>9, <2>10, ZenonT(60)
<1> QED
  BY <1>1, <1>2, <1>3, PTL DEF Spec, InOrder
=============================================================================
