-------------------------- MODULE PyTaskQueueProofs -------------------------
(***************************************************************************)
(* Proofs about PyTaskQueue, for any finite sets of threads and any number *)
(* of pushes.                                                              *)
(***************************************************************************)
EXTENDS PyTaskQueue, FiniteSetTheorems, SequenceTheorems, TLAPS

(* Every step preserves the types: what fetch pops is a task because it is
   the front that it copied. *)
LEMMA TypeStep == CriticalSections /\ [Next]_vars => TypeOK'
<1>. USE ThreadsAssumption, MaxPushesAssumption
     DEF TypeOK, Threads, ProducerPc, ConsumerPc, Task
<1>. SUFFICES ASSUME CriticalSections, [Next]_vars PROVE TypeOK'
  OBVIOUS
<1>. USE DEF CriticalSections
<1>1. ASSUME NEW p \in Producers, PushCall(p) PROVE TypeOK'
  BY <1>1 DEF PushCall, Goto
<1>2. ASSUME NEW p \in Producers, PushLock(p) PROVE TypeOK'
  BY <1>2 DEF PushLock, Acquire, Goto
<1>3. ASSUME NEW p \in Producers, PushTask(p) PROVE TypeOK'
  <2>1. sent[p] + 1 \in 1 .. MaxPushes
    BY <1>3 DEF PushTask, PushesInBound
  <2>. QED
    BY <1>3, <2>1 DEF PushTask, Goto
<1>4. ASSUME NEW p \in Producers, NotifyOne(p) PROVE TypeOK'
  BY <1>4 DEF NotifyOne, Goto, Waiting
<1>5. ASSUME NEW c \in Consumers, FetchLock(c) PROVE TypeOK'
  BY <1>5 DEF FetchLock, Acquire, Goto
<1>6. ASSUME NEW c \in Consumers, FetchWait(c) PROVE TypeOK'
  BY <1>6 DEF FetchWait, Goto
<1>7. ASSUME NEW c \in Consumers, Relock(c) PROVE TypeOK'
  BY <1>7 DEF Relock, Acquire, Goto
<1>8. ASSUME NEW c \in Consumers, FetchFront(c) PROVE TypeOK'
  BY <1>8 DEF FetchFront, Goto
<1>9. ASSUME NEW c \in Consumers, FetchPop(c) PROVE TypeOK'
  <2>1. event_queue # << >> /\ event[c] = Head(event_queue)
    BY <1>9 DEF FetchPop, FrontIsPopped
  <2>2. event[c] \in Task /\ Tail(event_queue) \in Seq(Task)
    BY <2>1
  <2>. QED
    BY <1>9, <2>2 DEF FetchPop, Goto
<1>10. ASSUME NEW c \in Consumers, SpuriousWakeup(c) PROVE TypeOK'
  BY <1>10 DEF SpuriousWakeup, Goto
<1>11. CASE UNCHANGED vars
  BY <1>11 DEF vars
<1>. QED
  BY <1>1, <1>2, <1>3, <1>4, <1>5, <1>6, <1>7, <1>8, <1>9, <1>10, <1>11
  DEF Next, Produce, Consume

(* Only the owner of the mutex enters or leaves a critical section, and the
   std::queue changes nowhere else. *)
LEMMA MutexStep ==
  CriticalSections /\ [Next]_vars => (PushesInBound /\ MutexProtectsQueue /\ FrontIsPopped)'
<1>. USE ThreadsAssumption, MaxPushesAssumption
     DEF TypeOK, Threads, ProducerPc, ConsumerPc
<1>. DEFINE Goal == PushesInBound' /\ MutexProtectsQueue' /\ FrontIsPopped'
<1>. SUFFICES ASSUME CriticalSections, [Next]_vars PROVE Goal
  OBVIOUS
<1>. USE DEF CriticalSections, PushesInBound, MutexProtectsQueue, FrontIsPopped
<1>1. ASSUME NEW p \in Producers, PushCall(p) PROVE Goal
  BY <1>1 DEF PushCall, Goto
<1>2. ASSUME NEW p \in Producers, PushLock(p) PROVE Goal
  BY <1>2 DEF PushLock, Acquire, Goto
<1>3. ASSUME NEW p \in Producers, PushTask(p) PROVE Goal
  <2>1. PushesInBound' /\ MutexProtectsQueue'
    BY <1>3 DEF PushTask, Goto
  <2>2. \A c \in Consumers : pc'[c] # "front"
    BY <1>3 DEF PushTask, Goto
  <2>. QED
    BY <2>1, <2>2
<1>4. ASSUME NEW p \in Producers, NotifyOne(p) PROVE Goal
  BY <1>4 DEF NotifyOne, Goto, Waiting
<1>5. ASSUME NEW c \in Consumers, FetchLock(c) PROVE Goal
  BY <1>5 DEF FetchLock, Acquire, Goto
<1>6. ASSUME NEW c \in Consumers, FetchWait(c) PROVE Goal
  BY <1>6 DEF FetchWait, Goto
<1>7. ASSUME NEW c \in Consumers, Relock(c) PROVE Goal
  BY <1>7 DEF Relock, Acquire, Goto
<1>8. ASSUME NEW c \in Consumers, FetchFront(c) PROVE Goal
  BY <1>8 DEF FetchFront, Goto
<1>9. ASSUME NEW c \in Consumers, FetchPop(c) PROVE Goal
  <2>1. PushesInBound' /\ MutexProtectsQueue'
    BY <1>9 DEF FetchPop, Goto
  <2>2. \A d \in Consumers : pc'[d] # "front"
    BY <1>9 DEF FetchPop, Goto
  <2>. QED
    BY <2>1, <2>2
<1>10. ASSUME NEW c \in Consumers, SpuriousWakeup(c) PROVE Goal
  BY <1>10 DEF SpuriousWakeup, Goto
<1>11. CASE UNCHANGED vars
  BY <1>11 DEF vars
<1>. QED
  BY <1>1, <1>2, <1>3, <1>4, <1>5, <1>6, <1>7, <1>8, <1>9, <1>10, <1>11
  DEF Next, Produce, Consume

(* push and fetch exclude each other for any number of threads, so fetch
   returns the very task that it pops, of a queue that is not empty. *)
THEOREM SectionsExclude == SafeSpec => []CriticalSections
<1>1. Init => CriticalSections
  BY ThreadsAssumption, MaxPushesAssumption
  DEF Init, CriticalSections, TypeOK, PushesInBound, MutexProtectsQueue, FrontIsPopped,
      Threads, ProducerPc, ConsumerPc
<1>2. CriticalSections /\ [Next]_vars => CriticalSections'
  BY TypeStep, MutexStep DEF CriticalSections
<1>. QED
  BY <1>1, <1>2, PTL DEF SafeSpec

(* Each step adds to, or takes from, the queue no more than it adds to, or
   takes from, the threads that will look at it again. *)
LEMMA WakeupStep == CriticalSections /\ NoLostWakeup /\ [Next]_vars => NoLostWakeup'
<1>. USE ThreadsAssumption
     DEF TypeOK, Threads, ProducerPc, ConsumerPc, Waiting, Goto
<1>. SUFFICES ASSUME CriticalSections, NoLostWakeup, [Next]_vars PROVE NoLostWakeup'
  OBVIOUS
<1>. USE DEF CriticalSections, NoLostWakeup
<1>1. IsFiniteSet(Awake) /\ IsFiniteSet(Awake')
  <2>1. IsFiniteSet(Threads)
    BY FS_Union
  <2>. QED
    BY <2>1, FS_Subset DEF Awake
<1>2. Cardinality(Awake) \in Nat /\ Cardinality(Awake') \in Nat
  BY <1>1, FS_CardinalityType
<1>3. ASSUME UNCHANGED event_queue, Waiting' = Waiting, Awake' = Awake
      PROVE  NoLostWakeup'
  BY <1>3
<1>4. ASSUME NEW p \in Producers, PushTask(p) PROVE NoLostWakeup'
  <2>1. Waiting' = Waiting /\ Awake' = Awake \union {p} /\ p \notin Awake
    BY <1>4 DEF PushTask, Awake
  <2>2. Cardinality(Awake') = Cardinality(Awake) + 1
    BY <1>1, <2>1, FS_AddElement
  <2>3. Len(event_queue') = Len(event_queue) + 1
    BY <1>4 DEF PushTask
  <2>. QED
    BY <1>2, <2>1, <2>2, <2>3
<1>5. ASSUME NEW p \in Producers, NotifyOne(p) PROVE NoLostWakeup'
  <2>1. CASE Waiting = {}
    <3>1. Waiting' = {}
      BY <1>5, <2>1 DEF NotifyOne
    <3>. QED
      BY <3>1
  <2>2. CASE Waiting # {}
    <3>1. PICK c \in Waiting :
            pc' = [pc EXCEPT ![p] = "idle", ![c] = "woken"]
      BY <1>5, <2>2 DEF NotifyOne
    <3>2. p \in Awake /\ c \notin Awake /\ c # p
      BY <1>5 DEF NotifyOne, Awake
    <3>3. Awake' = (Awake \ {p}) \union {c}
      BY <3>1, <3>2 DEF Awake
    <3>4. /\ IsFiniteSet(Awake \ {p})
          /\ Cardinality(Awake \ {p}) = Cardinality(Awake) - 1
      BY <1>1, <3>2, FS_RemoveElement
    <3>5. Cardinality(Awake') = Cardinality(Awake \ {p}) + 1
      BY <3>2, <3>3, <3>4, FS_AddElement
    <3>6. UNCHANGED event_queue
      BY <1>5 DEF NotifyOne
    <3>. QED
      BY <1>2, <2>2, <3>4, <3>5, <3>6
  <2>. QED
    BY <2>1, <2>2
<1>6. ASSUME NEW c \in Consumers, FetchWait(c) PROVE NoLostWakeup'
  <2>1. Len(event_queue') = 0
    BY <1>6 DEF FetchWait
  <2>. QED
    BY <1>2, <2>1
<1>7. ASSUME NEW c \in Consumers, FetchPop(c) PROVE NoLostWakeup'
  <2>1. Waiting' = Waiting /\ Awake' = Awake \ {c} /\ c \in Awake
    BY <1>7 DEF FetchPop, Awake
  <2>2. Cardinality(Awake') = Cardinality(Awake) - 1
    BY <1>1, <2>1, FS_RemoveElement
  <2>3. event_queue # << >>
    BY <1>7 DEF FetchPop, FrontIsPopped
  <2>4. Len(event_queue') = Len(event_queue) - 1
    BY <1>7, <2>3 DEF FetchPop
  <2>. QED
    BY <1>2, <2>1, <2>2, <2>4
<1>8. ASSUME NEW c \in Consumers, FetchLock(c) \/ SpuriousWakeup(c)
      PROVE  NoLostWakeup'
  <2>1. /\ Waiting' \subseteq Waiting
        /\ Awake' = Awake \union {c} /\ c \notin Awake
    BY <1>8 DEF FetchLock, SpuriousWakeup, Acquire, Awake
  <2>2. Cardinality(Awake') = Cardinality(Awake) + 1
    BY <1>1, <2>1, FS_AddElement
  <2>3. UNCHANGED event_queue
    BY <1>8 DEF FetchLock, SpuriousWakeup, Acquire
  <2>. QED
    BY <1>2, <2>1, <2>2, <2>3
<1>9. ASSUME NEW p \in Producers, PushCall(p) \/ PushLock(p)
      PROVE  NoLostWakeup'
  BY <1>3, <1>9 DEF PushCall, PushLock, Acquire, Awake
<1>10. ASSUME NEW c \in Consumers, Relock(c) \/ FetchFront(c)
       PROVE  NoLostWakeup'
  BY <1>3, <1>10 DEF Relock, FetchFront, Acquire, Awake
<1>11. CASE UNCHANGED vars
  BY <1>3, <1>11 DEF vars, Awake
<1>. QED
  BY <1>4, <1>5, <1>6, <1>7, <1>8, <1>9, <1>10, <1>11
  DEF Next, Produce, Consume

(* No wakeup is lost, for any number of producers and consumers. *)
THEOREM WakeupsReachTheQueue == SafeSpec => []NoLostWakeup
<1>1. Init => NoLostWakeup
  BY ThreadsAssumption DEF Init, NoLostWakeup, Waiting, Threads
<1>2. CriticalSections /\ NoLostWakeup /\ [Next]_vars => NoLostWakeup'
  BY WakeupStep
<1>. QED
  BY <1>1, <1>2, SectionsExclude, PTL DEF SafeSpec

-----------------------------------------------------------------------------
(* Appending to the second half of a concatenation appends to the whole. *)
LEMMA AppendToConcat ==
  ASSUME NEW S, NEW s \in Seq(S), NEW q \in Seq(S), NEW x \in S
  PROVE  s \o Append(q, x) = Append(s \o q, x)
<1>1. s \o Append(q, x) \in Seq(S) /\ Append(s \o q, x) \in Seq(S)
  OBVIOUS
<1>2. Len(s \o Append(q, x)) = Len(Append(s \o q, x))
  OBVIOUS
<1>3. ASSUME NEW i \in 1 .. Len(s \o Append(q, x))
      PROVE  (s \o Append(q, x))[i] = Append(s \o q, x)[i]
  OBVIOUS
<1>. QED
  BY <1>1, <1>2, <1>3, SeqEqual

(* Moving the head of the second half to the end of the first leaves the
   concatenation as it is. *)
LEMMA MoveHead ==
  ASSUME NEW S, NEW s \in Seq(S), NEW q \in Seq(S), q # << >>
  PROVE  /\ Append(s, Head(q)) \o Tail(q) = s \o q
         /\ Len(s) < Len(s \o q)
         /\ (s \o q)[Len(s) + 1] = Head(q)
<1>1. Head(q) \in S /\ Tail(q) \in Seq(S) /\ Len(q) \in Nat \ {0}
  OBVIOUS
<1>2. /\ Append(s, Head(q)) \o Tail(q) \in Seq(S)
      /\ s \o q \in Seq(S)
  BY <1>1
<1>3. Len(Append(s, Head(q)) \o Tail(q)) = Len(s \o q)
  BY <1>1
<1>4. ASSUME NEW i \in 1 .. Len(s \o q)
      PROVE  (Append(s, Head(q)) \o Tail(q))[i] = (s \o q)[i]
  BY <1>1
<1>5. Append(s, Head(q)) \o Tail(q) = s \o q
  BY <1>2, <1>3, <1>4, SeqEqual
<1>6. Len(s) < Len(s \o q) /\ (s \o q)[Len(s) + 1] = Head(q)
  BY <1>1
<1>. QED
  BY <1>5, <1>6

(* The queue of pyctpmdapi implements the abstract task queue: its push is
   an Accept, its pop is a Deliver, and its other steps are stutters. *)
THEOREM QueueImplementsTaskQueue == SafeSpec => Abstract!SafeSpec
<1>1. Init => Abstract!Init
  BY ConcatEmptySeq, EmptySeq DEF Init, Abstract!Init
<1>2. CriticalSections /\ [Next]_vars => [Abstract!Next]_(Abstract!vars)
  <2>. SUFFICES ASSUME CriticalSections, [Next]_vars
                PROVE  [Abstract!Next]_(Abstract!vars)
    OBVIOUS
  <2>. USE ThreadsAssumption DEF CriticalSections, TypeOK
  <2>1. ASSUME NEW p \in Producers, PushTask(p) PROVE Abstract!Next
    <3>. DEFINE task == <<p, sent[p] + 1>>
    <3>1. task \in Task
      BY <2>1, MaxPushesAssumption DEF PushTask, PushesInBound, Task
    <3>2. (delivered \o event_queue)' = Append(delivered \o event_queue, task)
      BY <2>1, <3>1, AppendToConcat DEF PushTask
    <3>3. Abstract!Accept(task)
      BY <2>1, <3>2 DEF PushTask, Abstract!Accept
    <3>. QED
      BY <3>1, <3>3 DEF Abstract!Next
  <2>2. ASSUME NEW c \in Consumers, FetchPop(c) PROVE Abstract!Next
    <3>1. event_queue # << >> /\ event[c] = Head(event_queue)
      BY <2>2 DEF FetchPop, FrontIsPopped
    <3>2. Abstract!Deliver
      BY <2>2, <3>1, MoveHead DEF FetchPop, Abstract!Deliver
    <3>. QED
      BY <3>2 DEF Abstract!Next
  <2>3. ASSUME UNCHANGED <<event_queue, delivered>>
        PROVE  UNCHANGED Abstract!vars
    BY <2>3 DEF Abstract!vars
  <2>4. ASSUME NEW p \in Producers,
               PushCall(p) \/ PushLock(p) \/ NotifyOne(p)
        PROVE  UNCHANGED <<event_queue, delivered>>
    BY <2>4 DEF PushCall, PushLock, NotifyOne, Acquire
  <2>5. ASSUME NEW c \in Consumers,
               \/ FetchLock(c) \/ FetchWait(c) \/ Relock(c)
               \/ FetchFront(c) \/ SpuriousWakeup(c)
        PROVE  UNCHANGED <<event_queue, delivered>>
    BY <2>5 DEF FetchLock, FetchWait, Relock, FetchFront, SpuriousWakeup,
                Acquire
  <2>6. CASE UNCHANGED vars
    BY <2>3, <2>6 DEF vars
  <2>. QED
    BY <2>1, <2>2, <2>3, <2>4, <2>5, <2>6 DEF Next, Produce, Consume
<1>. QED
  BY <1>1, <1>2, SectionsExclude, PTL DEF SafeSpec, Abstract!SafeSpec
=============================================================================
