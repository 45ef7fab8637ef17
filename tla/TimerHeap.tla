------------------------------ MODULE TimerHeap ------------------------------
(***************************************************************************)
(* Timers of src/engine/timers.v: the binary heap the deferred responses   *)
(* of a worker wait in.                                                    *)
(***************************************************************************)
EXTENDS Integers, Sequences, FiniteSets, Functions

CONSTANTS
    Dues,       \* when a timer may be due
    MaxTimers   \* bound: timers made

ASSUME HeapAssumption == Dues \subseteq Nat /\ MaxTimers \in Nat

VARIABLES
    a,          \* t.a; an index of the code is one less
    made,       \* timers pushed so far
    waiting,    \* those not popped: what the heap has to hold
    popped      \* the last one popped, and those it was popped from

heapVars == <<a, made, waiting, popped>>

swap(h, i, j) == [h EXCEPT ![i] = h[j], ![j] = h[i]]

Parent(i) == i \div 2

\* up: the last timer moves to its place.
up(h) ==
    LET to[i \in 0..Len(h), g \in {h} \cup [1..Len(h) -> Range(h)]] ==
            IF i <= 1 \/ g[Parent(i)].due <= g[i].due THEN g
            ELSE to[Parent(i), swap(g, i, Parent(i))]
    IN  to[Len(h), h]

\* Mutant of Lesser: the left child, whatever the right one is.
LesserLeft(h, l) == l

\* The child of two that is due first.
Lesser(h, l) == IF l + 1 <= Len(h) /\ h[l + 1].due < h[l].due THEN l + 1 ELSE l

\* The loop of pop, from the root down.
down(h) ==
    LET to[i \in 1..(2 * Len(h) + 1), g \in {h} \cup [1..Len(h) -> Range(h)]] ==
            IF 2 * i > Len(g) \/ g[i].due <= g[Lesser(g, 2 * i)].due THEN g
            ELSE to[Lesser(g, 2 * i), swap(g, i, Lesser(g, 2 * i))]
    IN  to[1, h]

HeapInit == a = <<>> /\ made = 0 /\ waiting = {} /\ popped = {}

\* push and push_tick.
Push ==
    /\ made < MaxTimers
    /\ \E d \in Dues :
           LET t == [due |-> d, id |-> made]
           IN  a' = up(Append(a, t)) /\ waiting' = waiting \cup {t}
    /\ made' = made + 1
    /\ UNCHANGED popped

\* The last timer takes the place of the first.
Rest(h) == SubSeq(IF Len(h) > 1 THEN [h EXCEPT ![1] = h[Len(h)]] ELSE h, 1, Len(h) - 1)

Pop ==
    /\ a # <<>>
    /\ a' = down(Rest(a))
    /\ popped' = {[top |-> a[1], from |-> waiting]}
    /\ waiting' = waiting \ {a[1]}
    /\ UNCHANGED made

HeapNext == Push \/ Pop

-----------------------------------------------------------------------------
\* The heap holds each timer that waits once, and pop has given the one due
\* first of all that waited (push, pop).
EarliestFirst ==
    /\ Len(a) = Cardinality(waiting) /\ Range(a) = waiting
    /\ \A p \in popped : \A t \in p.from : p.top.due <= t.due
=============================================================================
