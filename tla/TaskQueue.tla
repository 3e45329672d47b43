----------------------------- MODULE TaskQueue ------------------------------
(***************************************************************************)
(* What both programs ask of the queue between the API's callback thread   *)
(* and the worker thread: every task that was enqueued reaches the worker  *)
(* once, in the order of the enqueues, whatever the threads do in between. *)
(* The concrete queues are shown to implement this module.                 *)
(***************************************************************************)
EXTENDS Naturals, Sequences

CONSTANT Task        \* the tasks that may be enqueued

VARIABLES accepted,  \* every task enqueued so far, in order
          delivered  \* every task handed to a worker so far, in order

vars == <<accepted, delivered>>

Init ==
    /\ accepted = << >>
    /\ delivered = << >>

Accept(task) ==
    /\ accepted' = Append(accepted, task)
    /\ UNCHANGED delivered

Deliver ==
    /\ Len(delivered) < Len(accepted)
    /\ delivered' = Append(delivered, accepted[Len(delivered) + 1])
    /\ UNCHANGED accepted

Next == Deliver \/ \E task \in Task : Accept(task)

SafeSpec == Init /\ [][Next]_vars

Spec == SafeSpec /\ WF_vars(Deliver)
=============================================================================
