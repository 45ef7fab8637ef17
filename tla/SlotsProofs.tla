---------------------------- MODULE SlotsProofs ----------------------------
(***************************************************************************)
(* Proofs about Slots for any finite number of workers and descriptors and *)
(* any max_conns.                                                          *)
(*                                                                         *)
(* WithinLimit is not inductive: a worker that has taken a slot adds its   *)
(* connection later.  The strengthening counts such workers with the open  *)
(* connections, and CountExact ties that number to ConnCount.active, which *)
(* is what try_add looks at.                                               *)
(***************************************************************************)
EXTENDS Slots, FiniteSetTheorems, TLAPS

\* Connections and workers with a slot for one stay within max_conns.
LimitInv == Counted => Cardinality(conns) + Cardinality(At({"setup"})) <= MaxConns

IInv == TypeOK /\ FdsMatch /\ CountExact /\ LimitInv

\* The workers that have added to the count for no connection.
Between == At({"setup", "undo", "release"})

\* The sets that are counted are finite (their size is a number).
LEMMA Finite ==
    ASSUME TypeOK
    PROVE  /\ IsFiniteSet(conns) /\ Cardinality(conns) \in Nat
           /\ \A ss : IsFiniteSet(At(ss)) /\ Cardinality(At(ss)) \in Nat
<1>1. IsFiniteSet(Workers \X Fds)
  BY SlotsAssumption, FS_Product DEF SlotsAssumption
<1>2. IsFiniteSet(conns)
  BY <1>1, FS_Subset DEF TypeOK
<1>3. ASSUME NEW ss PROVE IsFiniteSet(At(ss))
  <2>1. At(ss) \in SUBSET Workers
    BY DEF At
  <2>2. QED
    BY <2>1, SlotsAssumption, FS_Subset DEF SlotsAssumption
<1>4. QED
  BY <1>2, <1>3, FS_CardinalityType

\* How the set of workers at stages ss changes with the stage of one of them.
LEMMA AtStep ==
    ASSUME TypeOK, NEW w \in Workers, NEW s \in Stages, NEW ss,
           stage' = [stage EXCEPT ![w] = s]
    PROVE  At(ss)' = IF s \in ss THEN At(ss) \cup {w} ELSE At(ss) \ {w}
BY DEF TypeOK, At

\* The number of workers at stages ss before and after such a step.
LEMMA CountStep ==
    ASSUME TypeOK, NEW w \in Workers, NEW s \in Stages, NEW ss,
           stage' = [stage EXCEPT ![w] = s]
    PROVE  /\ s \in ss /\ stage[w] \notin ss => Cardinality(At(ss)') = Cardinality(At(ss)) + 1
           /\ s \notin ss /\ stage[w] \in ss => Cardinality(At(ss)') = Cardinality(At(ss)) - 1
           /\ (s \in ss <=> stage[w] \in ss) => Cardinality(At(ss)') = Cardinality(At(ss))
<1>1. w \in At(ss) <=> stage[w] \in ss
  BY DEF At
<1>2. IsFiniteSet(At(ss))
  BY Finite
<1>3. CASE s \in ss
  <2>1. At(ss)' = At(ss) \cup {w}
    BY <1>3, AtStep, ZenonT(60)
  <2>2. Cardinality(At(ss) \cup {w}) = IF w \in At(ss) THEN Cardinality(At(ss)) ELSE Cardinality(At(ss)) + 1
    BY <1>2, FS_AddElement, ZenonT(60)
  <2>3. QED
    BY <2>1, <2>2, <1>1, <1>3
<1>4. CASE s \notin ss
  <2>1. At(ss)' = At(ss) \ {w}
    BY <1>4, AtStep, ZenonT(60)
  <2>2. Cardinality(At(ss) \ {w}) = IF w \in At(ss) THEN Cardinality(At(ss)) - 1 ELSE Cardinality(At(ss))
    BY <1>2, FS_RemoveElement, ZenonT(60)
  <2>3. QED
    BY <2>1, <2>2, <1>1, <1>4
<1>5. QED
  BY <1>3, <1>4

\* The invariant holds when the server starts.
LEMMA InitIInv == Init => IInv
<1> SUFFICES ASSUME Init PROVE IInv
  OBVIOUS
<1>1. TypeOK
  BY SlotsAssumption DEF Init, TypeOK, SlotsAssumption, Stages, Accepting, At
<1>2. FdsMatch
  BY SlotsAssumption DEF Init, FdsMatch, SlotsAssumption
<1>3. At({"setup", "undo", "release"}) = {} /\ At({"setup"}) = {}
  BY DEF Init, At
<1>4. CountExact /\ LimitInv
  BY <1>3, FS_EmptySet, SlotsAssumption DEF Init, CountExact, LimitInv, SlotsAssumption
<1>5. QED
  BY <1>1, <1>2, <1>4 DEF IInv

\* One step of worker w, as in Next.
WorkerStep(w) ==
    \/ Accept(w) \/ TryAdd(w) \/ Undo(w) \/ Drop(w)
    \/ Setup(w) \/ SetupTlsFail(w) \/ SetupEpollFail(w)
    \/ (\E f \in Fds : Close(w, f)) \/ Release(w)

\* Types are kept: accept_all has a descriptor exactly while it needs one.
LEMMA TypeStep ==
    ASSUME TypeOK, NEW w \in Workers, WorkerStep(w)
    PROVE  TypeOK'
<1> USE SlotsAssumption DEF SlotsAssumption, TypeOK, To, Stages, Closed, Accepting, At
<1>1. CASE Accept(w)
  BY <1>1 DEF Accept
<1>2. CASE TryAdd(w)
  BY <1>2 DEF TryAdd
<1>3. CASE Undo(w)
  BY <1>3 DEF Undo
<1>4. CASE Drop(w)
  BY <1>4 DEF Drop
<1>5. CASE Setup(w)
  BY <1>5 DEF Setup
<1>6. CASE SetupTlsFail(w)
  BY <1>6 DEF SetupTlsFail
<1>7. CASE SetupEpollFail(w)
  BY <1>7 DEF SetupEpollFail
<1>8. ASSUME NEW f \in Fds, Close(w, f) PROVE TypeOK'
  BY <1>8 DEF Close
<1>9. CASE Release(w)
  BY <1>9 DEF Release
<1>10. QED
  BY <1>1, <1>2, <1>3, <1>4, <1>5, <1>6, <1>7, <1>8, <1>9 DEF WorkerStep

\* What FdsMatch says of one worker and one descriptor.
FdOK(v, f) ==
    /\ owner[f] = v => <<v, f>> \in conns \/ fd[v] = f
    /\ <<v, f>> \in conns => owner[f] = v /\ fd[v] # f
    /\ fd[v] = f => owner[f] = v

\* FdsMatch, one worker and one descriptor at a time.
LEMMA FdsParts == FdsMatch <=> \A f \in Fds, v \in Workers : FdOK(v, f)
BY DEF FdsMatch, FdOK

\* A worker that closes the descriptor accept_all has leaves the others theirs.
LEMMA FdClosed ==
    ASSUME TypeOK, \A f \in Fds, v \in Workers : FdOK(v, f), NEW w \in Workers, w \in Accepting,
           owner' = [owner EXCEPT ![fd[w]] = Nobody], fd' = [fd EXCEPT ![w] = NoFd],
           UNCHANGED conns, NEW g \in Fds, NEW v \in Workers
    PROVE  FdOK(v, g)'
<1>1. fd[w] \in Fds /\ owner[fd[w]] = w
  <2>1. fd[w] # NoFd
    BY DEF TypeOK
  <2>2. fd[w] \in Fds
    BY <2>1 DEF TypeOK
  <2>3. QED
    BY <2>2, ZenonT(60) DEF FdOK
<1>2. CASE g = fd[w]
  <2>1. owner'[g] = Nobody /\ Nobody # v
    BY <1>1, <1>2, SlotsAssumption DEF TypeOK, SlotsAssumption
  <2>2. <<v, g>> \notin conns /\ fd'[v] # g
    BY <1>1, <1>2, SlotsAssumption DEF TypeOK, FdOK, SlotsAssumption
  <2>3. QED
    BY <2>1, <2>2 DEF FdOK
<1>3. CASE g # fd[w]
  <2>1. owner'[g] = owner[g]
    BY <1>3, <1>1 DEF TypeOK
  <2>2. fd'[v] = g <=> fd[v] = g
    BY <1>3, SlotsAssumption DEF TypeOK, SlotsAssumption
  <2>3. QED
    BY <2>1, <2>2 DEF FdOK
<1>4. QED
  BY <1>2, <1>3

\* Descriptors stay with whom they belong to.
LEMMA FdsStep ==
    ASSUME TypeOK, \A f \in Fds, v \in Workers : FdOK(v, f), NEW w \in Workers, WorkerStep(w),
           NEW g \in Fds, NEW v \in Workers
    PROVE  FdOK(v, g)'
<1> USE SlotsAssumption DEF SlotsAssumption, TypeOK, FdOK, To, Stages, Closed, Accepting, At
<1>1. CASE Accept(w)
  BY <1>1 DEF Accept
<1>2. CASE TryAdd(w)
  BY <1>2 DEF TryAdd
<1>3. CASE Undo(w)
  BY <1>3 DEF Undo
<1>4. CASE Drop(w)
  BY <1>4, FdClosed, ZenonT(60) DEF Drop
<1>5. CASE Setup(w)
  BY <1>5 DEF Setup
<1>6. CASE SetupTlsFail(w)
  BY <1>6 DEF SetupTlsFail
<1>7. CASE SetupEpollFail(w)
  BY <1>7, FdClosed, ZenonT(60) DEF SetupEpollFail
<1>8. ASSUME NEW f \in Fds, Close(w, f) PROVE FdOK(v, g)'
  BY <1>8 DEF Close
<1>9. CASE Release(w)
  BY <1>9 DEF Release
<1>10. QED
  BY <1>1, <1>2, <1>3, <1>4, <1>5, <1>6, <1>7, <1>8, <1>9 DEF WorkerStep

\* The count stays exact, and open connections and slots within max_conns.
LEMMA CountLimitStep ==
    ASSUME TypeOK, FdsMatch, CountExact, LimitInv, Counted, NEW w \in Workers, WorkerStep(w)
    PROVE  CountExact' /\ LimitInv'
<1> DEFINE B == Cardinality(Between)
           S == Cardinality(At({"setup"}))
           K == Cardinality(conns)
<1>1. B \in Nat /\ S \in Nat /\ K \in Nat /\ MaxConns \in Nat /\ active \in Int /\ IsFiniteSet(conns)
  BY Finite, SlotsAssumption DEF Between, SlotsAssumption, TypeOK
<1>2. active = K + B /\ K + S <= MaxConns
  BY DEF CountExact, LimitInv, Between
<1>3. S <= B
  <2>1. At({"setup"}) \in SUBSET Between
    BY DEF At, Between
  <2>2. QED
    BY <2>1, Finite, FS_Subset DEF Between
<1>4. SUFFICES active' = K' + B' /\ K' + S' <= MaxConns
  BY DEF CountExact, LimitInv, Between
\* How B and S change with the stage of w.
<1>5. ASSUME NEW s \in Stages, stage' = [stage EXCEPT ![w] = s]
      PROVE  /\ B' = IF s \in {"setup", "undo", "release"}
                       THEN IF stage[w] \in {"setup", "undo", "release"} THEN B ELSE B + 1
                       ELSE IF stage[w] \in {"setup", "undo", "release"} THEN B - 1 ELSE B
             /\ S' = IF s = "setup" THEN IF stage[w] = "setup" THEN S ELSE S + 1
                                    ELSE IF stage[w] = "setup" THEN S - 1 ELSE S
  <2>1. B' = IF s \in {"setup", "undo", "release"}
               THEN IF stage[w] \in {"setup", "undo", "release"} THEN B ELSE B + 1
               ELSE IF stage[w] \in {"setup", "undo", "release"} THEN B - 1 ELSE B
    BY <1>5, CountStep, ZenonT(60) DEF Between
  <2>2. S' = IF s \in {"setup"} THEN IF stage[w] \in {"setup"} THEN S ELSE S + 1
                                ELSE IF stage[w] \in {"setup"} THEN S - 1 ELSE S
    BY <1>5, CountStep, ZenonT(60)
  <2>3. QED
    BY <2>1, <2>2
<1> HIDE DEF B, S, K
<1>6. CASE Accept(w)
  <2>1. stage' = [stage EXCEPT ![w] = "add"] /\ stage[w] = "none" /\ active' = active /\ conns' = conns
    BY <1>6 DEF Accept, To
  <2>2. B' = B /\ S' = S
    BY <2>1, <1>5 DEF Stages
  <2>3. K' = K
    BY <2>1 DEF K
  <2>4. QED
    BY <2>1, <2>2, <2>3, <1>1, <1>2
<1>7. CASE TryAdd(w)
  <2>1. active' = active + 1 /\ conns' = conns /\ stage[w] = "add"
    BY <1>7 DEF TryAdd
  <2>2. K' = K
    BY <2>1 DEF K
  <2>3. CASE active + 1 <= MaxConns
    <3>1. stage' = [stage EXCEPT ![w] = "setup"]
      BY <1>7, <2>3 DEF TryAdd, To
    <3>2. B' = B + 1 /\ S' = S + 1
      BY <3>1, <2>1, <1>5 DEF Stages
    <3>3. QED
      BY <3>2, <2>1, <2>2, <2>3, <1>1, <1>2, <1>3
  <2>4. CASE ~(active + 1 <= MaxConns)
    <3>1. stage' = [stage EXCEPT ![w] = "undo"]
      BY <1>7, <2>4 DEF TryAdd, To
    <3>2. B' = B + 1 /\ S' = S
      BY <3>1, <2>1, <1>5 DEF Stages
    <3>3. QED
      BY <3>2, <2>1, <2>2, <1>1, <1>2
  <2>5. QED
    BY <2>3, <2>4
<1>8. CASE Undo(w)
  <2>1. active' = active - 1 /\ conns' = conns /\ stage[w] = "undo" /\ stage' = [stage EXCEPT ![w] = "drop"]
    BY <1>8 DEF Undo, To
  <2>2. B' = B - 1 /\ S' = S
    BY <2>1, <1>5 DEF Stages
  <2>3. K' = K
    BY <2>1 DEF K
  <2>4. QED
    BY <2>1, <2>2, <2>3, <1>1, <1>2
<1>9. CASE Drop(w)
  <2>1. active' = active /\ conns' = conns /\ stage[w] = "drop" /\ stage' = [stage EXCEPT ![w] = "none"]
    BY <1>9 DEF Drop, To
  <2>2. B' = B /\ S' = S
    BY <2>1, <1>5 DEF Stages
  <2>3. K' = K
    BY <2>1 DEF K
  <2>4. QED
    BY <2>1, <2>2, <2>3, <1>1, <1>2
<1>10. CASE Setup(w)
  <2>1. active' = active /\ conns' = conns \cup {<<w, fd[w]>>}
        /\ stage[w] = "setup" /\ stage' = [stage EXCEPT ![w] = "none"]
    BY <1>10 DEF Setup, To
  <2>2. B' = B - 1 /\ S' = S - 1
    BY <2>1, <1>5 DEF Stages
  <2>3. <<w, fd[w]>> \notin conns
    <3>1. w \in Accepting
      BY <2>1 DEF Accepting, At
    <3>2. fd[w] \in Fds
      BY <3>1, SlotsAssumption DEF TypeOK, SlotsAssumption
    <3>3. QED
      BY <3>2 DEF FdsMatch
  <2>4. K' = K + 1
    BY <2>1, <2>3, <1>1, FS_AddElement, ZenonT(60) DEF K
  <2>5. QED
    BY <2>1, <2>2, <2>4, <1>1, <1>2
<1>11. CASE SetupTlsFail(w)
  <2>1. active' = active /\ conns' = conns /\ stage[w] = "setup" /\ stage' = [stage EXCEPT ![w] = "undo"]
    BY <1>11 DEF SetupTlsFail, To
  <2>2. B' = B /\ S' = S - 1
    BY <2>1, <1>5 DEF Stages
  <2>3. K' = K
    BY <2>1 DEF K
  <2>4. QED
    BY <2>1, <2>2, <2>3, <1>1, <1>2
<1>12. CASE SetupEpollFail(w)
  <2>1. active' = active /\ conns' = conns /\ stage[w] = "setup" /\ stage' = [stage EXCEPT ![w] = "release"]
    BY <1>12 DEF SetupEpollFail, To, Closed
  <2>2. B' = B /\ S' = S - 1
    BY <2>1, <1>5 DEF Stages
  <2>3. K' = K
    BY <2>1 DEF K
  <2>4. QED
    BY <2>1, <2>2, <2>3, <1>1, <1>2
<1>13. ASSUME NEW f \in Fds, Close(w, f)
       PROVE  active' = K' + B' /\ K' + S' <= MaxConns
  <2>1. active' = active /\ <<w, f>> \in conns /\ conns' = conns \ {<<w, f>>}
        /\ stage[w] = "none" /\ stage' = [stage EXCEPT ![w] = "release"]
    BY <1>13 DEF Close, To, Closed
  <2>2. B' = B + 1 /\ S' = S
    BY <2>1, <1>5 DEF Stages
  <2>3. K' = K - 1
    BY <2>1, <1>1, FS_RemoveElement, ZenonT(60) DEF K
  <2>4. QED
    BY <2>1, <2>2, <2>3, <1>1, <1>2
<1>14. CASE Release(w)
  <2>1. active' = active - 1 /\ conns' = conns /\ stage[w] = "release" /\ stage' = [stage EXCEPT ![w] = "none"]
    BY <1>14 DEF Release, To
  <2>2. B' = B - 1 /\ S' = S
    BY <2>1, <1>5 DEF Stages
  <2>3. K' = K
    BY <2>1 DEF K
  <2>4. QED
    BY <2>1, <2>2, <2>3, <1>1, <1>2
<1>15. QED
  BY <1>6, <1>7, <1>8, <1>9, <1>10, <1>11, <1>12, <1>13, <1>14 DEF WorkerStep

\* Every step keeps the invariant.
LEMMA StepIInv == IInv /\ [Next]_vars => IInv'
<1> SUFFICES ASSUME IInv, [Next]_vars PROVE IInv'
  OBVIOUS
<1>1. ASSUME NEW w \in Workers, WorkerStep(w) PROVE IInv'
  <2>1. TypeOK'
    BY <1>1, TypeStep DEF IInv
  <2>2. FdsMatch'
    <3>1. \A f \in Fds, v \in Workers : FdOK(v, f)
      BY FdsParts DEF IInv
    <3>2. \A f \in Fds, v \in Workers : FdOK(v, f)'
      BY <1>1, <3>1, FdsStep DEF IInv
    <3>3. QED
      BY <3>2, ZenonT(60) DEF FdsMatch, FdOK
  <2>3. CountExact' /\ LimitInv'
    <3>1. CASE Counted
      BY <1>1, <3>1, CountLimitStep DEF IInv
    <3>2. CASE ~Counted
      BY <3>2 DEF CountExact, LimitInv, Counted
    <3>3. QED
      BY <3>1, <3>2
  <2>4. QED
    BY <2>1, <2>2, <2>3 DEF IInv
<1>2. CASE UNCHANGED vars
  BY <1>2 DEF vars, IInv, TypeOK, FdsMatch, CountExact, LimitInv, At, Accepting
<1>3. QED
  BY <1>1, <1>2 DEF Next, WorkerStep

\* The invariant holds in every behaviour.
LEMMA IInvAlways == Spec => []IInv
BY InitIInv, StepIInv, PTL DEF Spec

\* Types, for any number of workers and descriptors.
THEOREM SlotsTypeCorrect == Spec => []TypeOK
<1>1. IInv => TypeOK
  BY DEF IInv
<1>2. QED
  BY <1>1, IInvAlways, PTL

\* No slot leaks and none is given back twice: ConnCount.active is the open
\* connections and those between, for any number of workers and any max_conns.
THEOREM CountExactAlways == Spec => []CountExact
<1>1. IInv => CountExact
  BY DEF IInv
<1>2. QED
  BY <1>1, IInvAlways, PTL

\* Never more than max_conns connections are open, whatever the races in
\* try_add.
THEOREM WithinLimitAlways == Spec => []WithinLimit
<1>1. IInv => WithinLimit
  BY Finite, SlotsAssumption DEF IInv, WithinLimit, LimitInv, SlotsAssumption
<1>2. QED
  BY <1>1, IInvAlways, PTL

\* No descriptor leaks, and no Conn has one that is closed or another's.
THEOREM FdsMatchAlways == Spec => []FdsMatch
<1>1. IInv => FdsMatch
  BY DEF IInv
<1>2. QED
  BY <1>1, IInvAlways, PTL
=============================================================================
