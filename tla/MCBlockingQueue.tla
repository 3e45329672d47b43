--------------------------- MODULE MCBlockingQueue --------------------------
(***************************************************************************)
(* BlockingQueue for TLC, under producers and consumers of every kind, and *)
(* as the recorder uses it: one producer, the API's callback thread, and   *)
(* one consumer, the worker. A behaviour follows one of the two; one of    *)
(* the recorder has more elements.                                         *)
(***************************************************************************)
EXTENDS BlockingQueue

CONSTANTS Worker,          \* the recorder's consumer
          ShortElements    \* bound: elements of a producer, in general

ASSUME WorkerAssumption == Worker \in Consumers
ASSUME ShortAssumption == ShortElements \in Nat

VARIABLE recorder          \* as the recorder uses it

MCInit == Init /\ recorder \in BOOLEAN

InGeneral(A) ==
    /\ ~recorder /\ A /\ UNCHANGED recorder
    /\ \A p \in Producers : tail'[p] <= ShortElements

InRecorder(A) == recorder /\ A /\ UNCHANGED recorder

MCNext == InGeneral(Next) \/ InRecorder(WorkerNext(Worker))

allVars == <<recorder, vars>>

(* Inside the queue a thread runs on, and the semaphore lets a thread through
   that waits while there are permits; the worker calls again and again. *)
MCFairness ==
    /\ \A p \in Producers : WF_allVars(InGeneral(Signal(p)))
    /\ \A c \in Consumers : WF_allVars(InGeneral(Dequeue(c)))
    /\ WF_allVars(InRecorder(Signal(1)))
    /\ WF_allVars(InRecorder(Call(Worker, 1) \/ Dequeue(Worker)))

MCSpec == MCInit /\ [][MCNext]_allVars /\ MCFairness

-----------------------------------------------------------------------------
(* A consumer that took a permit gets its elements in the end, although its
   looks at the streams may all fail while others take what it saw. *)
PermitsAreServed ==
    \A c \in Consumers :
        (~recorder /\ need[c] > 0) ~> (~recorder /\ need[c] = 0)

(* With the one producer and the single elements of the recorder, the queue
   implements TaskQueue, the queue that MdSession takes for granted. *)
Tasks == INSTANCE TaskQueue
    WITH Task <- 1 .. MaxElements,
         accepted <- IF recorder THEN [i \in 1 .. tail[1] |-> i] ELSE << >>,
         delivered <- IF recorder THEN [i \in 1 .. head[1] |-> i] ELSE << >>

ImplementsTaskQueue == Tasks!Spec
=============================================================================
