---------------------------- MODULE MCQueueParts ----------------------------
(***************************************************************************)
(* The three lock-free structures that BlockingQueue and ImplicitQueue     *)
(* take for granted: the free list of blocks, the semaphore and the hash   *)
(* of producers. They share no variable, so a behaviour follows one of     *)
(* them while the others keep their initial state.                         *)
(***************************************************************************)
EXTENDS FreeList, TLC

CONSTANTS
    Waiters, Signallers, MaxCount, MaxSignalled,        \* LwSemaphore
    None, HashValues, InitialCapacity, MaxFailures      \* ProducerHash

ASSUME WaitersAssumption ==
    /\ IsFiniteSet(Waiters) /\ IsFiniteSet(Signallers)
    /\ Waiters \intersect Signallers = {}
ASSUME CountAssumption == MaxCount \in Nat \ {0} /\ MaxSignalled \in Nat
ASSUME NoneAssumption == None \notin Threads
ASSUME HashAssumption ==
    HashValues \subseteq Nat /\ InitialCapacity \in Nat \ {0, 1}

VARIABLES
    part,          \* which of the three: "list", "semaphore" or "hash"
    m_count, m_sema, semPc, max, patience, toRelease, signalled,
    acquired,                                           \* LwSemaphore
    hashOf, key, value, prev, mainTable, count, resizing, producerNext, tail,
    hashPc, main, table, index, newCount, made, failures, got

Sem == INSTANCE LwSemaphore WITH pc <- semPc

Hash == INSTANCE ProducerHash WITH next <- producerNext, pc <- hashPc

semVars == <<m_count, m_sema, semPc, max, patience, toRelease, signalled,
             acquired>>
hashVars == <<hashOf, key, value, prev, mainTable, count, resizing,
              producerNext, tail, hashPc, main, table, index, newCount, made,
              failures, got>>
allVars == <<part, vars, semVars, hashVars>>

MCInit ==
    /\ Init /\ Sem!Init /\ Hash!Init
    /\ part \in {"list", "semaphore", "hash"}

MCNext ==
    \/ part = "list" /\ Next /\ UNCHANGED <<part, semVars, hashVars>>
    \/ part = "semaphore" /\ Sem!Next /\ UNCHANGED <<part, vars, hashVars>>
    \/ part = "hash" /\ Hash!Next /\ UNCHANGED <<part, vars, semVars>>

MCSpec == MCInit /\ [][MCNext]_allVars

(* The semaphore's two equations: no permit is lost, or left in the kernel
   (signal, waitManyWithPartialSpinning). *)
CountsMatch == Sem!CountsMatch

(* Nobody sleeps on with nothing to wake it while a permit is free. *)
NoLostWakeup == Sem!NoLostWakeup

(* The semaphore implements the abstract one: nobody takes a permit that was
   not signalled. *)
Abstract == INSTANCE Semaphore

ImplementsSemaphore == Abstract!Spec

(* A thread is always given the same producer, so that its elements stay in
   order (get_or_add_implicit_producer). *)
OneProducerEach == Hash!OneProducerEach

(* Free slots, the count and the list of producers, over resizes and failed
   allocations. *)
HashIsSound == Hash!HashIsSound

Symmetry == Permutations(Threads) \union Permutations(Nodes)
=============================================================================
