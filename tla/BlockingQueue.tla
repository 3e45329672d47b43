--------------------------- MODULE BlockingQueue ----------------------------
(***************************************************************************)
(* BlockingConcurrentQueue of ctpmdapi/blockingconcurrentqueue.h, in which *)
(* the callback thread puts its tasks and from which the worker takes them *)
(* : a semaphore (module Semaphore, which LwSemaphore implements) over the *)
(* lock-free queue of ctpmdapi/concurrentqueue.h, which keeps one stream   *)
(* of elements per producer. A consumer takes permits first and then looks *)
(* through the streams until it has an element for each of them. A stream  *)
(* is its four counters here; ImplicitQueue has its blocks.                *)
(***************************************************************************)
EXTENDS Integers, FiniteSets

CONSTANTS NumProducers,  \* streams, numbered in the order of their creation
          Consumers,     \* threads that dequeue
          MaxBulk,       \* the most elements of one call
          MaxElements    \* bound: elements of each producer

ASSUME NumbersAssumption ==
    /\ NumProducers \in Nat \ {0} /\ MaxBulk \in Nat \ {0}
    /\ MaxElements \in Nat
ASSUME ConsumersAssumption == IsFiniteSet(Consumers)

Producers == 1 .. NumProducers
None == 0                \* no stream, the end of the list

VARIABLES
    listed,              \* streams in the producer list, the newest first
    tail, head,          \* tailIndex and headIndex of each stream
    optimistic,          \* its dequeueOptimisticCount
    overcommit,          \* its dequeueOvercommit
    permits,             \* permits of the semaphore
    unsignalled,         \* elements a producer has put in but not signalled
    pc,                  \* where each consumer is
    max,                 \* the most elements its call asks for
    need,                \* permits it took and has no element for yet
    at,                  \* the stream it looks at
    best, bestSize,      \* try_dequeue's choice
    nonEmpty,            \* the streams it has seen elements in
    want,                \* elements it has tried to claim,
    mine,                \* and how many it got
    seenOver, seenCount  \* its overcommit and myDequeueCount

counters == <<listed, tail, head, optimistic, overcommit>>
search == <<at, best, bestSize, nonEmpty>>
claim == <<want, mine, seenOver, seenCount>>
vars == <<counters, permits, unsignalled, pc, max, need, search, claim>>

(* idle; wait (in the semaphore); score (try_dequeue compares the streams);
   check, claim, decide, take (dequeue or dequeue_bulk of the stream at). *)
Pc == {"idle", "wait", "score", "check", "claim", "decide", "take"}

Zero(S) == [s \in S |-> 0]

Init ==
    /\ listed = 0
    /\ tail = Zero(Producers) /\ head = Zero(Producers)
    /\ optimistic = Zero(Producers) /\ overcommit = Zero(Producers)
    /\ permits = 0 /\ unsignalled = Zero(Producers)
    /\ pc = [c \in Consumers |-> "idle"]
    /\ max = Zero(Consumers) /\ need = Zero(Consumers)
    /\ at = Zero(Consumers) /\ best = Zero(Consumers)
    /\ bestSize = Zero(Consumers) /\ nonEmpty = Zero(Consumers)
    /\ want = Zero(Consumers) /\ mine = Zero(Consumers)
    /\ seenOver = Zero(Consumers) /\ seenCount = Zero(Consumers)

Minimum(a, b) == IF a < b THEN a ELSE b

Goto(c, to) == pc' = [pc EXCEPT ![c] = to]

-----------------------------------------------------------------------------
AddProducer ==           \* the first enqueue of a thread makes its stream
    /\ listed < NumProducers
    /\ listed' = listed + 1
    /\ UNCHANGED <<tail, head, optimistic, overcommit, permits, unsignalled,
                   pc, max, need, search, claim>>

(* enqueue, try_enqueue and their bulk forms: the inner queue publishes the
   elements by one store of tailIndex, then the semaphore is signalled. One
   that fails, for want of memory, changes nothing and signals nothing. *)
Enqueue(p, n) ==
    /\ p <= listed /\ unsignalled[p] = 0 /\ tail[p] + n <= MaxElements
    /\ tail' = [tail EXCEPT ![p] = @ + n]
    /\ unsignalled' = [unsignalled EXCEPT ![p] = n]
    /\ UNCHANGED <<listed, head, optimistic, overcommit, permits, pc, max,
                   need, search, claim>>

SignalNobody(p) ==       \* mutant: the semaphore is not signalled
    /\ unsignalled[p] > 0
    /\ unsignalled' = [unsignalled EXCEPT ![p] = 0]
    /\ UNCHANGED <<counters, permits, pc, max, need, search, claim>>

SignalOnce(p) ==         \* mutant: a bulk is signalled like one element
    /\ unsignalled[p] > 0
    /\ permits' = permits + 1
    /\ unsignalled' = [unsignalled EXCEPT ![p] = 0]
    /\ UNCHANGED <<counters, pc, max, need, search, claim>>

Signal(p) ==
    /\ unsignalled[p] > 0
    /\ permits' = permits + unsignalled[p]
    /\ unsignalled' = [unsignalled EXCEPT ![p] = 0]
    /\ UNCHANGED <<counters, pc, max, need, search, claim>>

-----------------------------------------------------------------------------
(* try_dequeue, wait_dequeue, wait_dequeue_timed (n = 1) and the bulk forms. *)
Call(c, n) ==
    /\ pc[c] = "idle"
    /\ max' = [max EXCEPT ![c] = n]
    /\ Goto(c, "wait")
    /\ UNCHANGED <<counters, permits, unsignalled, need, search, claim>>

GiveUp(c) ==             \* a try found no permit, or the time is out
    /\ pc[c] = "wait"
    /\ Goto(c, "idle")
    /\ UNCHANGED <<counters, permits, unsignalled, max, need, search, claim>>

(* A single dequeue scores the streams, a bulk one starts with the newest. *)
Restart(c) ==
    /\ at' = [at EXCEPT ![c] = listed]
    /\ best' = [best EXCEPT ![c] = None]
    /\ bestSize' = [bestSize EXCEPT ![c] = 0]
    /\ nonEmpty' = [nonEmpty EXCEPT ![c] = 0]
    /\ Goto(c, IF max[c] = 1 THEN "score" ELSE "check")

AcquireUnchecked(c, k) ==   \* mutant: the permits are not looked at
    /\ pc[c] = "wait" /\ k <= max[c]
    /\ permits' = permits - k
    /\ need' = [need EXCEPT ![c] = k]
    /\ Restart(c)
    /\ UNCHANGED <<counters, unsignalled, max, claim>>

Acquire(c, k) ==         \* wait, waitMany and their forms: 1 to max permits
    /\ pc[c] = "wait" /\ k <= max[c] /\ k <= permits
    /\ permits' = permits - k
    /\ need' = [need EXCEPT ![c] = k]
    /\ Restart(c)
    /\ UNCHANGED <<counters, unsignalled, max, claim>>

SizeApprox(p) == IF head[p] < tail[p] THEN tail[p] - head[p] ELSE 0

AllScored(c) == at[c] = None \/ nonEmpty[c] = 3

Score(c) ==
    /\ pc[c] = "score" /\ ~AllScored(c)
    /\ LET size == SizeApprox(at[c])
       IN  /\ IF size > 0
              THEN nonEmpty' = [nonEmpty EXCEPT ![c] = @ + 1]
              ELSE UNCHANGED nonEmpty
           /\ IF size > bestSize[c]
              THEN /\ best' = [best EXCEPT ![c] = at[c]]
                   /\ bestSize' = [bestSize EXCEPT ![c] = size]
              ELSE UNCHANGED <<best, bestSize>>
    /\ at' = [at EXCEPT ![c] = @ - 1]
    /\ UNCHANGED <<counters, permits, unsignalled, pc, max, need, claim>>

(* The stream with the most elements is tried first; no element seen is a
   try_dequeue that fails, and is called again. *)
TryBest(c) ==
    /\ pc[c] = "score" /\ AllScored(c)
    /\ IF nonEmpty[c] = 0
       THEN Restart(c)
       ELSE /\ at' = [at EXCEPT ![c] = best[c]]
            /\ Goto(c, "check")
            /\ UNCHANGED <<best, bestSize, nonEmpty>>
    /\ UNCHANGED <<counters, permits, unsignalled, max, need, claim>>

UntriedBySingle(c) ==    \* mutant: a bulk only looks at the newest stream
    {q \in 1 .. listed :
        max[c] = 1 /\ q # best[c] /\ (at[c] = best[c] \/ q < at[c])}

Untried(c) ==            \* in the pass over the list that c is in
    {q \in 1 .. listed : q # best[c] /\ (at[c] = best[c] \/ q < at[c])}

NextStream(c) ==
    \/ /\ Untried(c) = {}
       /\ Restart(c)
    \/ \E q \in Untried(c) :
        /\ \A r \in Untried(c) : r <= q
        /\ at' = [at EXCEPT ![c] = q]
        /\ Goto(c, "check")
        /\ UNCHANGED <<best, bestSize, nonEmpty>>

-----------------------------------------------------------------------------
(* dequeue and dequeue_bulk of a stream *)

Claimable(p) == tail[p] - (optimistic[p] - overcommit[p])

Check(c) ==              \* desiredCount
    /\ pc[c] = "check"
    /\ LET p == at[c]
       IN  IF Claimable(p) > 0
           THEN /\ want' = [want EXCEPT ![c] = Minimum(Claimable(p), need[c])]
                /\ seenOver' = [seenOver EXCEPT ![c] = overcommit[p]]
                /\ Goto(c, "claim")
                /\ UNCHANGED search
           ELSE NextStream(c) /\ UNCHANGED <<want, seenOver>>
    /\ UNCHANGED <<counters, permits, unsignalled, max, need, mine, seenCount>>

Claim(c) ==              \* fetch_add of dequeueOptimisticCount
    /\ pc[c] = "claim"
    /\ optimistic' = [optimistic EXCEPT ![at[c]] = @ + want[c]]
    /\ seenCount' = [seenCount EXCEPT ![c] = optimistic[at[c]]]
    /\ Goto(c, "decide")
    /\ UNCHANGED <<listed, tail, head, overcommit, permits, unsignalled, max,
                   need, search, want, mine, seenOver>>

DecideKeeps(c) ==        \* mutant: what was not got is not given back
    /\ pc[c] = "decide"
    /\ LET left == tail[at[c]] - (seenCount[c] - seenOver[c])
       IN  mine' = [mine EXCEPT ![c] = IF left > 0 THEN Minimum(left, want[c])
                                       ELSE 0]
    /\ Goto(c, "take")
    /\ UNCHANGED <<counters, permits, unsignalled, max, need, search, want,
                   seenOver, seenCount>>

DecideUnchecked(c) ==    \* mutant: the claim is taken for granted
    /\ pc[c] = "decide"
    /\ mine' = [mine EXCEPT ![c] = want[c]]
    /\ Goto(c, "take")
    /\ UNCHANGED <<counters, permits, unsignalled, max, need, search, want,
                   seenOver, seenCount>>

Decide(c) ==             \* actualCount, and the rest goes to overcommit
    /\ pc[c] = "decide"
    /\ LET left == tail[at[c]] - (seenCount[c] - seenOver[c])
           got == IF left > 0 THEN Minimum(left, want[c]) ELSE 0
       IN  /\ mine' = [mine EXCEPT ![c] = got]
           /\ overcommit' = [overcommit EXCEPT ![at[c]] = @ + (want[c] - got)]
    /\ Goto(c, "take")
    /\ UNCHANGED <<listed, tail, head, optimistic, permits, unsignalled, max,
                   need, search, want, seenOver, seenCount>>

Take(c) ==               \* fetch_add of headIndex: these elements are c's
    /\ pc[c] = "take"
    /\ head' = [head EXCEPT ![at[c]] = @ + mine[c]]
    /\ need' = [need EXCEPT ![c] = @ - mine[c]]
    /\ IF mine[c] = need[c]
       THEN Goto(c, "idle") /\ UNCHANGED search
       ELSE NextStream(c)
    /\ want' = [want EXCEPT ![c] = 0] /\ mine' = [mine EXCEPT ![c] = 0]
    /\ seenOver' = [seenOver EXCEPT ![c] = 0]
    /\ seenCount' = [seenCount EXCEPT ![c] = 0]
    /\ UNCHANGED <<listed, tail, optimistic, overcommit, permits, unsignalled,
                   max>>

-----------------------------------------------------------------------------
Dequeue(c) ==
    \/ \E k \in 1 .. MaxBulk : Acquire(c, k)
    \/ Score(c) \/ TryBest(c) \/ Check(c) \/ Claim(c) \/ Decide(c) \/ Take(c)

Next ==
    \/ AddProducer
    \/ \E p \in Producers : Signal(p) \/ \E n \in 1 .. MaxBulk : Enqueue(p, n)
    \/ \E c \in Consumers :
        Dequeue(c) \/ GiveUp(c) \/ \E n \in 1 .. MaxBulk : Call(c, n)

Spec == Init /\ [][Next]_vars

(* The recorder: one thread puts tasks in, one by one, and the worker calls
   wait_dequeue, which has no timeout, again and again. *)
WorkerNext(worker) ==
    \/ listed = 0 /\ AddProducer
    \/ Enqueue(1, 1) \/ Signal(1)
    \/ Call(worker, 1) \/ Dequeue(worker)

-----------------------------------------------------------------------------
TypeOK ==
    /\ listed \in 0 .. NumProducers
    /\ tail \in [Producers -> 0 .. MaxElements]
    /\ head \in [Producers -> Nat]
    /\ optimistic \in [Producers -> Nat] /\ overcommit \in [Producers -> Nat]
    /\ permits \in Nat /\ unsignalled \in [Producers -> 0 .. MaxBulk]
    /\ pc \in [Consumers -> Pc]
    /\ max \in [Consumers -> 0 .. MaxBulk]
    /\ need \in [Consumers -> 0 .. MaxBulk]
    /\ at \in [Consumers -> Producers \union {None}]
    /\ best \in [Consumers -> Producers \union {None}]
    /\ bestSize \in [Consumers -> Nat] /\ nonEmpty \in [Consumers -> Nat]
    /\ want \in [Consumers -> 0 .. MaxBulk]
    /\ mine \in [Consumers -> 0 .. MaxBulk]
    /\ seenOver \in [Consumers -> Nat] /\ seenCount \in [Consumers -> Nat]
    /\ \A c \in Consumers :
        /\ pc[c] \in {"idle", "wait"} <=> need[c] = 0
        /\ nonEmpty[c] > 0 => best[c] # None
        /\ pc[c] \in {"check", "claim", "decide", "take"} => at[c] # None
        /\ mine[c] <= need[c] /\ want[c] <= need[c]

(* The sum of count[s] over S, none of them above most, as the number of the
   units that it counts. *)
Total(S, most, count) ==
    Cardinality({u \in S \X (1 .. most) : u[2] <= count[u[1]]})

(* The elements in the streams are as many as the permits: those in the
   semaphore, those that consumers have taken, and those that producers have
   still to signal. So a consumer that took a permit looks for an element
   that is there. *)
Size == [p \in Producers |-> tail[p] - head[p]]

EveryPermitHasElement ==
    Total(Producers, MaxElements, Size) =
        permits + Total(Consumers, MaxBulk, need)
                + Total(Producers, MaxBulk, unsignalled)

(* No more is taken of a stream than was put in, also by consumers that
   claimed at the same time and have yet to take what they got. *)
Mine(p) == [c \in Consumers |-> IF at[c] = p THEN mine[c] ELSE 0]

NoneTakenTwice ==
    \A p \in Producers :
        head[p] + Total(Consumers, MaxBulk, Mine(p)) <= tail[p]

(* The counters of a stream that nobody is in agree: a claim that failed has
   been given back, and hides no element from those that come later. *)
CountersAgree ==
    \A p \in Producers :
        (\A c \in Consumers :
            at[c] = p => pc[c] \notin {"claim", "decide", "take"})
            => optimistic[p] - overcommit[p] = head[p]

(* What ties the semaphore to the streams and the streams to their counters:
   a permit leads to an element, and an element to one consumer. *)
PermitsMatchElements ==
    TypeOK /\ EveryPermitHasElement /\ NoneTakenTwice /\ CountersAgree
=============================================================================
