------------------------------ MODULE EpollWait ------------------------------
(***************************************************************************)
(* viltrum_epoll_wait of src/engine/wait_linux.h and the timeout that      *)
(* Loop.wait_ns gives it, for the workers that share viltrum_pwait2_ok.    *)
(* The kernel (external) has epoll_pwait2 or not, or refuses it.           *)
(***************************************************************************)
EXTENDS Integers

CONSTANTS
    Waiters,    \* the workers
    Ms,         \* nanoseconds of a millisecond
    Sec,        \* and of a second
    MaxWait,    \* max_wait_ns
    MaxClock    \* bound: the clock

ASSUME WaitAssumption ==
    /\ {Ms, Sec, MaxWait} \subseteq Nat \ {0}
    /\ MaxClock \in Nat

VARIABLES
    has_pwait2, \* the kernel's answer to epoll_pwait2
    pwait2_ok,  \* viltrum_pwait2_ok
    wnow,       \* the clock of each worker
    due,        \* its earliest timer, -1 for none
    wpc,        \* where it is
    timeout,    \* timeout_ns
    slept,      \* how long its last call waited
    expired     \* that call ended by its timeout

waitVars == <<has_pwait2, pwait2_ok, wnow, due, wpc, timeout, slept, expired>>
NoTimer == -1

WaitInit ==
    /\ has_pwait2 \in BOOLEAN
    /\ pwait2_ok = TRUE
    /\ wnow = [w \in Waiters |-> 0]
    /\ due \in [Waiters -> {NoTimer} \cup (0..MaxClock)]
    /\ wpc = [w \in Waiters |-> "run"]
    /\ timeout = [w \in Waiters |-> 0]
    /\ slept = [w \in Waiters |-> 0]
    /\ expired = [w \in Waiters |-> FALSE]

wait_ns(d, now) ==
    IF d = NoTimer THEN MaxWait
    ELSE IF d <= now THEN 0
    ELSE IF d - now > MaxWait THEN MaxWait ELSE d - now

\* The call, up to the look at the flag.
Call(w) ==
    /\ wpc[w] = "run" /\ wnow[w] < MaxClock
    /\ timeout' = [timeout EXCEPT ![w] = wait_ns(due[w], wnow[w])]
    /\ wpc' = [wpc EXCEPT ![w] = IF pwait2_ok THEN "pwait2" ELSE "wait"]
    /\ UNCHANGED <<has_pwait2, pwait2_ok, wnow, due, slept, expired>>

\* What the kernel waits at most, given a timespec.
Timespec(t) == (t \div Sec) * Sec + (t % Sec)

\* Mutant of Millis: rounded down.
MillisDown(t) == t \div Ms

\* The timeout of epoll_wait, rounded up.
Millis(t) == (t + Ms - 1) \div Ms

\* The kernel waits all of n, or less when there is an event.
WaitEnds(w, n) ==
    \E k \in 0..n :
        /\ slept' = [slept EXCEPT ![w] = k]
        /\ expired' = [expired EXCEPT ![w] = k = n]
        /\ wnow' = [wnow EXCEPT ![w] = @ + k]
        /\ wpc' = [wpc EXCEPT ![w] = "run"]

\* epoll_pwait2 where there is one, and it succeeds.
Pwait2(w) ==
    /\ wpc[w] = "pwait2" /\ has_pwait2
    /\ WaitEnds(w, Timespec(timeout[w]))
    /\ UNCHANGED <<has_pwait2, pwait2_ok, due, timeout>>

\* The errno of a call that fails (external): a signal, or the refusal.
Errnos == IF has_pwait2 THEN {"EINTR"} ELSE {"ENOSYS", "EPERM"}

Refusal(errno) == errno \in {"ENOSYS", "EPERM"}

\* A refusal takes the flag down, for every worker and for good; the call is
\* made again with epoll_wait.  Any other failure goes to the caller.
Pwait2Fails(w) ==
    /\ wpc[w] = "pwait2"
    /\ \E errno \in Errnos :
           \/ /\ Refusal(errno)
              /\ pwait2_ok' = FALSE
              /\ wpc' = [wpc EXCEPT ![w] = "wait"]
              /\ UNCHANGED <<wnow, slept, expired>>
           \/ /\ ~Refusal(errno)
              /\ \E k \in 0..timeout[w] :
                     slept' = [slept EXCEPT ![w] = k] /\ wnow' = [wnow EXCEPT ![w] = @ + k]
              /\ expired' = [expired EXCEPT ![w] = FALSE]
              /\ wpc' = [wpc EXCEPT ![w] = "run"]
              /\ UNCHANGED pwait2_ok
    /\ UNCHANGED <<has_pwait2, due, timeout>>

\* epoll_wait.
Wait(w) ==
    /\ wpc[w] = "wait"
    /\ WaitEnds(w, Ms * Millis(timeout[w]))
    /\ UNCHANGED <<has_pwait2, pwait2_ok, due, timeout>>

WaitNext == \E w \in Waiters : Call(w) \/ Pwait2(w) \/ Pwait2Fails(w) \/ Wait(w)
WaitSpec == WaitInit /\ [][WaitNext]_waitVars

-----------------------------------------------------------------------------
\* A wait that ends by its timeout is as long as was asked and less than a
\* millisecond longer: a timer within reach has come due, so the loop does not
\* spin before it, and none is a millisecond late.
WaitsRight ==
    \A w \in Waiters :
        (wpc[w] = "run" /\ expired[w]) =>
            /\ slept[w] >= timeout[w] /\ slept[w] < timeout[w] + Ms
            /\ has_pwait2 => slept[w] = timeout[w]
            /\ (due[w] # NoTimer /\ timeout[w] < MaxWait) => due[w] <= wnow[w]

\* A worker falls back to whole milliseconds only where the kernel refuses the
\* call: a signal that interrupts one wait does not cost every worker its
\* precision for good.
FlagTrue == has_pwait2 => pwait2_ok /\ \A w \in Waiters : wpc[w] # "wait"
=============================================================================
