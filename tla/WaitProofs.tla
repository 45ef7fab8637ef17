----------------------------- MODULE WaitProofs ------------------------------
(***************************************************************************)
(* The wait for events, for any number of workers, any clock and any       *)
(* length of a millisecond.                                                *)
(***************************************************************************)
EXTENDS EpollWait, TLAPS

\* Rounding up to whole milliseconds adds less than one (viltrum_epoll_wait).
LEMMA MillisRoundUp ==
    ASSUME NEW t \in Nat
    PROVE  /\ Millis(t) \in Nat
           /\ Ms * Millis(t) >= t /\ Ms * Millis(t) < t + Ms
<1>1. Ms \in Nat \ {0}
    BY WaitAssumption DEF WaitAssumption
<1> QED BY <1>1, SMTT(30) DEF Millis

\* Seconds and nanoseconds of a timeout are all of it.
LEMMA TimespecWhole == ASSUME NEW t \in Nat PROVE Timespec(t) = t
<1>1. Sec \in Nat \ {0}
    BY WaitAssumption DEF WaitAssumption
<1> QED BY <1>1, SMTT(30) DEF Timespec

WaitTypeOK ==
    /\ has_pwait2 \in BOOLEAN /\ pwait2_ok \in BOOLEAN
    /\ wnow \in [Waiters -> Nat] /\ due \in [Waiters -> Int]
    /\ timeout \in [Waiters -> Nat] /\ slept \in [Waiters -> Nat]
    /\ expired \in [Waiters -> BOOLEAN]
    /\ wpc \in [Waiters -> {"run", "pwait2", "wait"}]

\* Inside the call, the timeout is the one the timer asks for.
Asked == \A w \in Waiters : wpc[w] # "run" => timeout[w] = wait_ns(due[w], wnow[w])

WaitInv == WaitTypeOK /\ Asked /\ FlagTrue /\ WaitsRight

\* A timeout is never negative.
LEMMA WaitNsNat == ASSUME NEW d \in Int, NEW n \in Nat PROVE wait_ns(d, n) \in Nat
BY WaitAssumption DEF WaitAssumption, wait_ns

\* A wait of all of the timeout, and less than a millisecond more, brings the
\* timer due if it is within reach.
LEMMA DueAfterWait ==
    ASSUME NEW d \in Int, NEW n \in Nat, NEW k \in Nat, k >= wait_ns(d, n), d # NoTimer,
           wait_ns(d, n) < MaxWait
    PROVE  d <= n + k
BY WaitAssumption DEF WaitAssumption, wait_ns

\* What a wait of at most n leaves, when n is the timeout or a little more.
LEMMA AfterWait ==
    ASSUME WaitInv, NEW w \in Waiters, wpc[w] # "run", NEW n \in Nat, WaitEnds(w, n),
           n >= timeout[w], n < timeout[w] + Ms, has_pwait2 => n = timeout[w],
           UNCHANGED <<has_pwait2, pwait2_ok, due, timeout>>
    PROVE  WaitInv'
<1>1. PICK k \in 0..n : /\ slept' = [slept EXCEPT ![w] = k]
                        /\ expired' = [expired EXCEPT ![w] = k = n]
                        /\ wnow' = [wnow EXCEPT ![w] = @ + k]
                        /\ wpc' = [wpc EXCEPT ![w] = "run"]
    BY ZenonT(60) DEF WaitEnds
<1>2. WaitTypeOK'
    BY <1>1 DEF WaitInv, WaitTypeOK
<1>3. Asked'
    BY <1>1 DEF WaitInv, WaitTypeOK, Asked
<1>4. FlagTrue'
    BY <1>1 DEF WaitInv, WaitTypeOK, FlagTrue
<1>5. WaitsRight'
    <2> SUFFICES ASSUME NEW v \in Waiters, wpc'[v] = "run", expired'[v]
                 PROVE  /\ slept'[v] >= timeout[v] /\ slept'[v] < timeout[v] + Ms
                        /\ has_pwait2 => slept'[v] = timeout[v]
                        /\ (due[v] # NoTimer /\ timeout[v] < MaxWait) => due[v] <= wnow'[v]
        BY DEF WaitsRight
    <2>1. CASE v # w
        BY <1>1, <2>1 DEF WaitInv, WaitTypeOK, WaitsRight
    <2>2. CASE v = w
        <3>1. slept'[w] = k /\ wnow'[w] = wnow[w] + k /\ k = n
            BY <1>1, <2>2, ZenonT(60) DEF WaitInv, WaitTypeOK
        <3>2. timeout[w] = wait_ns(due[w], wnow[w]) /\ due[w] \in Int /\ wnow[w] \in Nat
            BY DEF WaitInv, WaitTypeOK, Asked
        <3>3. (due[w] # NoTimer /\ timeout[w] < MaxWait) => due[w] <= wnow[w] + k
            BY <3>1, <3>2, DueAfterWait
        <3> QED BY <2>2, <3>1, <3>3
    <2> QED BY <2>1, <2>2
<1> QED BY <1>2, <1>3, <1>4, <1>5 DEF WaitInv

\* The invariant is inductive: one step per action.
LEMMA WaitInvStep == WaitInv /\ [WaitNext]_waitVars => WaitInv'
<1> SUFFICES ASSUME WaitInv, [WaitNext]_waitVars PROVE WaitInv'
    OBVIOUS
<1>1. CASE UNCHANGED waitVars
    BY <1>1 DEF waitVars, WaitInv, WaitTypeOK, Asked, FlagTrue, WaitsRight
<1>2. ASSUME NEW w \in Waiters, Call(w) PROVE WaitInv'
    <2>1. WaitTypeOK' /\ Asked'
        BY <1>2, WaitNsNat, ZenonT(60) DEF Call, WaitInv, WaitTypeOK, Asked
    <2>2. FlagTrue'
        BY <1>2 DEF Call, WaitInv, WaitTypeOK, FlagTrue
    <2>3. WaitsRight'
        BY <1>2 DEF Call, WaitInv, WaitTypeOK, WaitsRight
    <2> QED BY <2>1, <2>2, <2>3 DEF WaitInv
<1>3. ASSUME NEW w \in Waiters, Pwait2(w) PROVE WaitInv'
    <2>1. timeout[w] \in Nat /\ Ms \in Nat \ {0}
        BY WaitAssumption DEF WaitAssumption, WaitInv, WaitTypeOK
    <2>2. WaitEnds(w, timeout[w]) /\ wpc[w] # "run" /\ UNCHANGED <<has_pwait2, pwait2_ok, due, timeout>>
        BY <1>3, <2>1, TimespecWhole DEF Pwait2
    <2> QED BY <2>1, <2>2, AfterWait
<1>4. ASSUME NEW w \in Waiters, Pwait2Fails(w) PROVE WaitInv'
    <2>1. PICK errno \in Errnos :
              \/ /\ Refusal(errno) /\ pwait2_ok' = FALSE /\ wpc' = [wpc EXCEPT ![w] = "wait"]
                 /\ UNCHANGED <<wnow, slept, expired>>
              \/ /\ ~Refusal(errno)
                 /\ \E k \in 0..timeout[w] :
                        slept' = [slept EXCEPT ![w] = k] /\ wnow' = [wnow EXCEPT ![w] = @ + k]
                 /\ expired' = [expired EXCEPT ![w] = FALSE]
                 /\ wpc' = [wpc EXCEPT ![w] = "run"]
                 /\ UNCHANGED pwait2_ok
        BY <1>4 DEF Pwait2Fails
    <2>2. UNCHANGED <<has_pwait2, due, timeout>> /\ wpc[w] = "pwait2"
        BY <1>4 DEF Pwait2Fails
    <2>3. CASE Refusal(errno)
        <3>1. has_pwait2 = FALSE
            BY <2>3 DEF Errnos, Refusal, WaitInv, WaitTypeOK
        <3>2. pwait2_ok' = FALSE /\ wpc' = [wpc EXCEPT ![w] = "wait"] /\ UNCHANGED <<wnow, slept, expired>>
            BY <2>1, <2>3
        <3>3. WaitTypeOK' /\ Asked'
            BY <2>2, <3>2, ZenonT(60) DEF WaitInv, WaitTypeOK, Asked
        <3>4. FlagTrue'
            BY <2>2, <3>1 DEF FlagTrue
        <3>5. WaitsRight'
            BY <2>2, <3>2 DEF WaitInv, WaitTypeOK, WaitsRight
        <3> QED BY <3>3, <3>4, <3>5 DEF WaitInv
    <2>4. CASE ~Refusal(errno)
        <3>1. PICK k \in 0..timeout[w] :
                  slept' = [slept EXCEPT ![w] = k] /\ wnow' = [wnow EXCEPT ![w] = @ + k]
            BY <2>1, <2>4
        <3>2. expired' = [expired EXCEPT ![w] = FALSE] /\ wpc' = [wpc EXCEPT ![w] = "run"] /\ UNCHANGED pwait2_ok
            BY <2>1, <2>4
        <3>3. WaitTypeOK' /\ Asked'
            BY <2>2, <3>1, <3>2 DEF WaitInv, WaitTypeOK, Asked
        <3>4. FlagTrue'
            BY <2>2, <3>2 DEF WaitInv, WaitTypeOK, FlagTrue
        <3>5. WaitsRight'
            BY <2>2, <3>1, <3>2 DEF WaitInv, WaitTypeOK, WaitsRight
        <3> QED BY <3>3, <3>4, <3>5 DEF WaitInv
    <2> QED BY <2>3, <2>4
<1>5. ASSUME NEW w \in Waiters, Wait(w) PROVE WaitInv'
    <2>1. timeout[w] \in Nat /\ Ms \in Nat
        BY WaitAssumption DEF WaitAssumption, WaitInv, WaitTypeOK
    <2>2. Ms * Millis(timeout[w]) \in Nat /\ Ms * Millis(timeout[w]) >= timeout[w]
          /\ Ms * Millis(timeout[w]) < timeout[w] + Ms
        BY <2>1, MillisRoundUp
    <2>3. WaitEnds(w, Ms * Millis(timeout[w])) /\ wpc[w] = "wait" /\ UNCHANGED <<has_pwait2, pwait2_ok, due, timeout>>
        BY <1>5 DEF Wait
    <2>4. ~has_pwait2
        BY <2>3 DEF WaitInv, FlagTrue
    <2> HIDE DEF Millis
    <2> QED BY <2>2, <2>3, <2>4, AfterWait
<1> QED BY <1>1, <1>2, <1>3, <1>4, <1>5 DEF WaitNext

\* A wait that ends by its timeout is neither short nor a millisecond late, with
\* epoll_pwait2 and without.
THEOREM WaitsRightAlways == WaitSpec => []WaitsRight
<1>1. WaitInit => WaitInv
    BY DEF WaitInit, WaitInv, WaitTypeOK, Asked, FlagTrue, WaitsRight, NoTimer
<1>2. WaitInv => WaitsRight
    BY DEF WaitInv
<1> QED BY <1>1, <1>2, WaitInvStep, PTL DEF WaitSpec

\* No worker falls back to epoll_wait on a kernel that has epoll_pwait2.
THEOREM FlagTrueAlways == WaitSpec => []FlagTrue
<1>1. WaitInit => WaitInv
    BY DEF WaitInit, WaitInv, WaitTypeOK, Asked, FlagTrue, WaitsRight, NoTimer
<1>2. WaitInv => FlagTrue
    BY DEF WaitInv
<1> QED BY <1>1, <1>2, WaitInvStep, PTL DEF WaitSpec
=============================================================================
