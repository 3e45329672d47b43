---------------------------- MODULE PyTaskQueue -----------------------------
(***************************************************************************)
(* ConcurrentQueue<Task> of pyctpmdapi/ctpmdapi.h: a std::queue guarded by *)
(* a boost::mutex, with a condition variable on which fetch() waits.       *)
(* Threads interleave between every two accesses to the mutex, the         *)
(* condition variable and the std::queue; wait() may return spuriously.    *)
(***************************************************************************)
EXTENDS Naturals, Sequences, FiniteSets

CONSTANTS Producers,   \* threads that push (the API's callback thread)
          Consumers,   \* threads that fetch (the task thread)
          MaxPushes,   \* bound: pushes of each producer
          None         \* no thread, no task

Threads == Producers \union Consumers
Task == Producers \X (1 .. MaxPushes)

ASSUME ThreadsAssumption ==
    /\ IsFiniteSet(Producers) /\ IsFiniteSet(Consumers)
    /\ Producers \intersect Consumers = {}
    /\ None \notin Threads /\ None \notin Task
ASSUME MaxPushesAssumption == MaxPushes \in Nat

VARIABLES
    event_queue,   \* the std::queue
    the_mutex,     \* the thread that owns the mutex, or None
    pc,            \* where each thread is
    event,         \* fetch()'s local copy of the front, and its result
    sent,          \* number of pushes of each producer
    delivered      \* history: the tasks popped, in order

vars == <<event_queue, the_mutex, pc, event, sent, delivered>>

(* Producer: idle, lock (push was called), push (holds the mutex), notify.
   Consumer: idle (runs the handler), check (holds the mutex), waiting (in
   the condition variable), woken (must take the mutex again), front (holds
   the mutex and has copied the front). *)
ProducerPc == {"idle", "lock", "push", "notify"}
ConsumerPc == {"idle", "check", "waiting", "woken", "front"}

Waiting == {c \in Consumers : pc[c] = "waiting"}

Init ==
    /\ event_queue = << >>
    /\ the_mutex = None
    /\ pc = [t \in Threads |-> "idle"]
    /\ event = [c \in Consumers |-> None]
    /\ sent = [p \in Producers |-> 0]
    /\ delivered = << >>

Goto(t, to) == pc' = [pc EXCEPT ![t] = to]

Acquire(t, from, to) ==
    /\ pc[t] = from
    /\ the_mutex = None
    /\ the_mutex' = t
    /\ Goto(t, to)
    /\ UNCHANGED <<event_queue, event, sent, delivered>>

-----------------------------------------------------------------------------
(* push *)

PushCall(p) ==                         \* a callback calls push
    /\ pc[p] = "idle" /\ sent[p] < MaxPushes
    /\ Goto(p, "lock")
    /\ UNCHANGED <<event_queue, the_mutex, event, sent, delivered>>

PushLock(p) == Acquire(p, "lock", "push")

PushTask(p) ==                         \* event_queue.push; lock.unlock()
    /\ pc[p] = "push"
    /\ event_queue' = Append(event_queue, <<p, sent[p] + 1>>)
    /\ sent' = [sent EXCEPT ![p] = @ + 1]
    /\ the_mutex' = None
    /\ Goto(p, "notify")
    /\ UNCHANGED <<event, delivered>>

NotifyNobody(p) ==                     \* mutant: notify_one is forgotten
    /\ pc[p] = "notify"
    /\ Goto(p, "idle")
    /\ UNCHANGED <<event_queue, the_mutex, event, sent, delivered>>

NotifyOne(p) ==                        \* after the unlock, outside the mutex
    /\ pc[p] = "notify"
    /\ \/ \E c \in Waiting : pc' = [pc EXCEPT ![p] = "idle", ![c] = "woken"]
       \/ Waiting = {} /\ Goto(p, "idle")
    /\ UNCHANGED <<event_queue, the_mutex, event, sent, delivered>>

-----------------------------------------------------------------------------
(* fetch *)

FetchLock(c) == Acquire(c, "idle", "check")

FetchWait(c) ==                        \* wait(lock) releases the mutex
    /\ pc[c] = "check"
    /\ event_queue = << >>
    /\ the_mutex' = None
    /\ Goto(c, "waiting")
    /\ UNCHANGED <<event_queue, event, sent, delivered>>

SpuriousWakeup(c) ==
    /\ pc[c] = "waiting"
    /\ Goto(c, "woken")
    /\ UNCHANGED <<event_queue, the_mutex, event, sent, delivered>>

RelockNoMutex(c) ==                    \* mutant: wait() returns unlocked
    /\ pc[c] = "woken"
    /\ Goto(c, "check")
    /\ UNCHANGED <<event_queue, the_mutex, event, sent, delivered>>

Relock(c) == Acquire(c, "woken", "check")

FetchFrontUncopied(c) ==               \* mutant: the default Task is returned
    /\ pc[c] = "check"
    /\ event_queue # << >>
    /\ Goto(c, "front")
    /\ UNCHANGED <<event_queue, the_mutex, event, sent, delivered>>

FetchFront(c) ==                       \* Data event = event_queue.front()
    /\ pc[c] = "check"
    /\ event_queue # << >>
    /\ event' = [event EXCEPT ![c] = Head(event_queue)]
    /\ Goto(c, "front")
    /\ UNCHANGED <<event_queue, the_mutex, sent, delivered>>

FetchPopLocked(c) ==                   \* mutant: the mutex is not released
    /\ pc[c] = "front"
    /\ event_queue' = Tail(event_queue)
    /\ delivered' = Append(delivered, event[c])
    /\ Goto(c, "idle")
    /\ UNCHANGED <<the_mutex, event, sent>>

FetchPop(c) ==                         \* event_queue.pop(); return event
    /\ pc[c] = "front"
    /\ event_queue' = Tail(event_queue)
    /\ delivered' = Append(delivered, event[c])
    /\ the_mutex' = None
    /\ Goto(c, "idle")
    /\ UNCHANGED <<event, sent>>

-----------------------------------------------------------------------------
Produce(p) == PushCall(p) \/ PushLock(p) \/ PushTask(p) \/ NotifyOne(p)

Consume(c) ==
    \/ FetchLock(c) \/ FetchWait(c) \/ Relock(c) \/ FetchFront(c)
    \/ FetchPop(c)

Next ==
    \/ \E p \in Producers : Produce(p)
    \/ \E c \in Consumers : Consume(c) \/ SpuriousWakeup(c)

(* A thread that is not blocked keeps running, and one that keeps asking for
   the mutex gets it in the end (SF); nothing obliges the API to call back,
   or the condition variable to wake anyone on its own. *)
Fairness ==
    /\ \A p \in Producers :
        /\ WF_vars(PushTask(p) \/ NotifyOne(p))
        /\ SF_vars(PushLock(p))
    /\ \A c \in Consumers :
        /\ WF_vars(FetchWait(c) \/ FetchFront(c) \/ FetchPop(c))
        /\ SF_vars(FetchLock(c)) /\ SF_vars(Relock(c))

SafeSpec == Init /\ [][Next]_vars

Spec == SafeSpec /\ Fairness

-----------------------------------------------------------------------------
TypeOK ==
    /\ event_queue \in Seq(Task)
    /\ the_mutex \in Threads \union {None}
    /\ pc \in [Threads -> ProducerPc \union ConsumerPc]
    /\ \A p \in Producers : pc[p] \in ProducerPc
    /\ \A c \in Consumers : pc[c] \in ConsumerPc
    /\ event \in [Consumers -> Task \union {None}]
    /\ sent \in [Producers -> 0 .. MaxPushes]
    /\ delivered \in Seq(Task)

(* The mutex protects the std::queue: a thread is between its lock and its
   unlock exactly when it owns the mutex, so no two threads are in push's or
   fetch's critical section at once. *)
MutexProtectsQueue ==
    \A t \in Threads : the_mutex = t <=> pc[t] \in {"push", "check", "front"}

(* Between front() and pop() nobody changes the front: fetch returns the
   task that it pops, and never pops an empty queue. *)
FrontIsPopped ==
    \A c \in Consumers :
        pc[c] = "front" => event_queue # << >> /\ event[c] = Head(event_queue)

(* No wakeup is lost although notify_one is called after the unlock and
   wakes nobody when nobody waits: while a consumer sleeps, the tasks in the
   queue are outnumbered by the pushes about to notify and the consumers
   already awake inside fetch. *)
Awake == {t \in Threads : pc[t] \in {"notify", "woken", "check", "front"}}

NoLostWakeup == Waiting # {} => Len(event_queue) <= Cardinality(Awake)

(* A producer in push has a push left to make. *)
PushesInBound ==
    \A p \in Producers : pc[p] \in {"lock", "push"} => sent[p] < MaxPushes

(* The critical sections exclude each other, and fetch returns what it pops:
   these hold by induction only together. *)
CriticalSections ==
    TypeOK /\ PushesInBound /\ MutexProtectsQueue /\ FrontIsPopped

(* The queue implements the abstract one: every pushed task is delivered
   once, in order, and is delivered in the end. *)
Abstract == INSTANCE TaskQueue WITH accepted <- delivered \o event_queue

ImplementsTaskQueue == Abstract!Spec

(* A callback is never held up: push returns whatever the consumers do, so
   that a slow handler cannot block the thread of the API. *)
PushReturns == \A p \in Producers : (pc[p] # "idle") ~> (pc[p] = "idle")
=============================================================================
