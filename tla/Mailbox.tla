------------------------------ MODULE Mailbox ------------------------------
(***************************************************************************)
(* What the Hub promises to the threads that post and to the workers that  *)
(* receive: each worker has a queue of posts; a post joins the end of the  *)
(* queue, a running worker takes posts from its front one at a time and    *)
(* never stops doing so while there are some, and the queue of a worker    *)
(* that has ended is dropped.  No locks, eventfds or batches.              *)
(***************************************************************************)
EXTENDS Naturals, Sequences

CONSTANTS Workers,  \* the workers, one queue each
          Posts     \* what can be posted

VARIABLES box,      \* box[w]: posted to w, not yet delivered
          running   \* running[w]: w may take posts

mvars == <<box, running>>

Init ==
    /\ box = [w \in Workers |-> <<>>]
    /\ running = [w \in Workers |-> FALSE]

Post(w) ==
    /\ \E m \in Posts : box' = [box EXCEPT ![w] = Append(@, m)]
    /\ UNCHANGED running

Deliver(w) ==
    /\ running[w]
    /\ box[w] # <<>>
    /\ box' = [box EXCEPT ![w] = Tail(@)]
    /\ UNCHANGED running

Start(w) ==
    /\ ~running[w]
    /\ running' = [running EXCEPT ![w] = TRUE]
    /\ UNCHANGED box

End(w) ==
    /\ running[w]
    /\ running' = [running EXCEPT ![w] = FALSE]
    /\ UNCHANGED box

\* the server is gone, and what was never delivered with it
Drop ==
    /\ \A w \in Workers : ~running[w]
    /\ box' = [w \in Workers |-> <<>>]
    /\ UNCHANGED running

Next ==
    \/ \E w \in Workers : Post(w) \/ Deliver(w) \/ Start(w) \/ End(w)
    \/ Drop

Spec ==
    /\ Init
    /\ [][Next]_mvars
    /\ \A w \in Workers : WF_mvars(Deliver(w))
=============================================================================
