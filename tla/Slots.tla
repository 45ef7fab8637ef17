------------------------------- MODULE Slots -------------------------------
(***************************************************************************)
(* The descriptors of the process and the slots of Options.max_conns, as   *)
(* the workers take and return them at the same time: accept_all and close *)
(* (engine/worker_linux.c.v) with ConnCount (engine/serve_linux.c.v).      *)
(* Everything else a worker does is left out; Loop implements this.        *)
(***************************************************************************)
EXTENDS Integers, FiniteSets

CONSTANTS Workers,    \* the workers
          Fds,        \* the descriptors connections may get
          MaxConns    \* Options.max_conns, 0: unlimited

Nobody == "nobody"
NoFd == 0

ASSUME SlotsAssumption ==
    /\ IsFiniteSet(Workers) /\ Nobody \notin Workers
    /\ IsFiniteSet(Fds) /\ NoFd \notin Fds
    /\ MaxConns \in Nat

VARIABLES
    owner,    \* owner[fd]: the worker that has descriptor fd
    conns,    \* the pairs <<w, fd>> with a Conn in w's conns[fd]
    stage,    \* stage[w]: where w is in accept_all or close, see Stages
    fd,       \* fd[w]: the descriptor accept_all has from accept4
    active    \* ConnCount.active

vars == <<owner, conns, stage, fd, active>>

\* "add": before try_add.  "setup": the slot is taken.  "undo": the count is to
\* be decremented again.  "drop": the descriptor is to be closed.  "release":
\* Loop.close has closed the descriptor, not yet released the slot.
Stages == {"none", "add", "setup", "undo", "drop", "release"}

Counted == MaxConns > 0

Init ==
    /\ owner = [f \in Fds |-> Nobody]
    /\ conns = {}
    /\ stage = [w \in Workers |-> "none"]
    /\ fd = [w \in Workers |-> NoFd]
    /\ active = 0

To(w, s, f) == stage' = [stage EXCEPT ![w] = s] /\ fd' = [fd EXCEPT ![w] = f]

\* accept4 gives w a free descriptor.
Accept(w) ==
    /\ stage[w] = "none"
    /\ \E f \in Fds :
          /\ owner[f] = Nobody
          /\ owner' = [owner EXCEPT ![f] = w]
          /\ To(w, IF Counted THEN "add" ELSE "setup", f)
    /\ UNCHANGED <<conns, active>>

\* Mutant of TryAdd: compares the count before the add.
TryAddLate(w) ==
    /\ stage[w] = "add"
    /\ active' = active + 1
    /\ To(w, IF active <= MaxConns THEN "setup" ELSE "undo", fd[w])
    /\ UNCHANGED <<owner, conns>>

\* ConnCount.try_add: the atomic add and the comparison with max_conns.
TryAdd(w) ==
    /\ stage[w] = "add"
    /\ active' = active + 1
    /\ To(w, IF active + 1 <= MaxConns THEN "setup" ELSE "undo", fd[w])
    /\ UNCHANGED <<owner, conns>>

\* The atomic sub of a try_add that failed, or the release after a tls_start
\* that failed.
Undo(w) ==
    /\ stage[w] = "undo"
    /\ active' = active - 1
    /\ To(w, "drop", fd[w])
    /\ UNCHANGED <<owner, conns>>

\* Mutant of Drop: does not close the descriptor.
DropOpen(w) ==
    /\ stage[w] = "drop"
    /\ To(w, "none", NoFd)
    /\ UNCHANGED <<owner, conns, active>>

\* C.close(fd) of a connection accept_all refuses.
Drop(w) ==
    /\ stage[w] = "drop"
    /\ owner' = [owner EXCEPT ![fd[w]] = Nobody]
    /\ To(w, "none", NoFd)
    /\ UNCHANGED <<conns, active>>

\* The connection is set up.
Setup(w) ==
    /\ stage[w] = "setup"
    /\ conns' = conns \cup {<<w, fd[w]>>}
    /\ To(w, "none", NoFd)
    /\ UNCHANGED <<owner, active>>

\* Mutant of SetupTlsFail: keeps the slot.
SetupTlsFailKeeps(w) ==
    /\ stage[w] = "setup"
    /\ To(w, "drop", fd[w])
    /\ UNCHANGED <<owner, conns, active>>

\* tls_start fails.
SetupTlsFail(w) ==
    /\ stage[w] = "setup"
    /\ To(w, IF Counted THEN "undo" ELSE "drop", fd[w])
    /\ UNCHANGED <<owner, conns, active>>

\* The stage after C.close in Loop.close.
Closed == IF Counted THEN "release" ELSE "none"

\* epoll_ctl fails: Loop.close of a Conn no event has reached.
SetupEpollFail(w) ==
    /\ stage[w] = "setup"
    /\ owner' = [owner EXCEPT ![fd[w]] = Nobody]
    /\ To(w, Closed, NoFd)
    /\ UNCHANGED <<conns, active>>

\* Loop.close up to C.close(fd).
Close(w, f) ==
    /\ stage[w] = "none" /\ <<w, f>> \in conns
    /\ owner' = [owner EXCEPT ![f] = Nobody]
    /\ conns' = conns \ {<<w, f>>}
    /\ To(w, Closed, NoFd)
    /\ UNCHANGED active

\* ConnCount.release in Loop.close.
Release(w) ==
    /\ stage[w] = "release"
    /\ active' = active - 1
    /\ To(w, "none", NoFd)
    /\ UNCHANGED <<owner, conns>>

Next ==
    \E w \in Workers :
        \/ Accept(w) \/ TryAdd(w) \/ Undo(w) \/ Drop(w)
        \/ Setup(w) \/ SetupTlsFail(w) \/ SetupEpollFail(w)
        \/ (\E f \in Fds : Close(w, f)) \/ Release(w)

Spec == Init /\ [][Next]_vars
-----------------------------------------------------------------------------
(* Properties.                                                             *)

\* The workers at stages ss.
At(ss) == {w \in Workers : stage[w] \in ss}

\* The workers whose accept_all has a descriptor that no Conn has.
Accepting == At({"add", "setup", "undo", "drop"})

\* Every variable has its type; fd[w] is a descriptor while accept_all has one.
TypeOK ==
    /\ owner \in [Fds -> Workers \cup {Nobody}]
    /\ conns \subseteq Workers \X Fds
    /\ stage \in [Workers -> Stages]
    /\ fd \in [Workers -> Fds \cup {NoFd}]
    /\ active \in Int
    /\ \A w \in Workers : w \in Accepting <=> fd[w] # NoFd

\* No slot of max_conns leaks and none is given back twice, whichever error
\* paths of accept_all and close the workers take at the same time: the count
\* is the open connections and those being set up or torn down.
CountExact ==
    Counted => active = Cardinality(conns) + Cardinality(At({"setup", "undo", "release"}))

\* docs/upgrade.md: max_conns "caps concurrent accepted connections", although
\* try_add is "approximate under races".
WithinLimit == Counted => Cardinality(conns) <= MaxConns

\* A Conn's descriptor is always an open socket of its own worker, and a socket
\* is always some Conn's or in the hands of accept_all, never both: no
\* descriptor leaks, and none is used after its close, when its number may be
\* another worker's.
FdsMatch ==
    \A f \in Fds, w \in Workers :
        /\ owner[f] = w <=> <<w, f>> \in conns \/ fd[w] = f
        /\ ~(<<w, f>> \in conns /\ fd[w] = f)
=============================================================================
