---------------------------- MODULE LwSemaphore -----------------------------
(***************************************************************************)
(* LightweightSemaphore of ctpmdapi/blockingconcurrentqueue.h: a count of  *)
(* permits, negative while threads sleep, over a kernel semaphore on which *)
(* they sleep. One action per atomic operation on m_count and per call of  *)
(* the kernel semaphore; a load and the compare-exchange that succeeds on  *)
(* the loaded value are one action.                                        *)
(*                                                                         *)
(* External: the kernel semaphore of the Windows build, which the recorder *)
(* uses: a timed wait ends with a permit or reports its timeout. Of other  *)
(* builds nothing is said: on POSIX timed_wait can pass a tv_nsec of 10^9  *)
(* to sem_timedwait (line 219) and then takes the EINVAL for a permit.     *)
(***************************************************************************)
EXTENDS Integers, FiniteSets

CONSTANTS Waiters,      \* threads that wait (the worker)
          Signallers,   \* threads that signal (main, the callback thread)
          MaxCount,     \* the most permits of one call
          MaxSignalled  \* bound: permits signalled

VARIABLES
    m_count,      \* the atomic count
    m_sema,       \* the count of the kernel semaphore
    pc,           \* where each thread is
    max,          \* permits that a waiter still asks for
    patience,     \* its call: "try", "timed" (a timeout) or "forever"
    toRelease,    \* permits that a signaller has still to release to m_sema
    signalled,    \* history: permits signalled
    acquired      \* history: permits that calls have taken

vars == <<m_count, m_sema, pc, max, patience, toRelease, signalled, acquired>>

Users == Waiters \union Signallers

(* A waiter: idle, try (tryWaitMany), spin, kernel (asleep on m_sema),
   timedout (about to load m_count), retry (about to call m_sema.try_wait),
   more (tryWaitMany for the rest). A signaller: idle, release. *)
Pc == {"idle", "try", "spin", "kernel", "timedout", "retry", "more",
       "release"}

(* Those that have taken one from m_count without having a permit yet. *)
Waiting == {w \in Waiters : pc[w] \in {"kernel", "timedout", "retry"}}

Minimum(a, b) == IF a < b THEN a ELSE b

Init ==
    /\ m_count = 0 /\ m_sema = 0
    /\ pc = [t \in Users |-> "idle"]
    /\ max = [w \in Waiters |-> 0]
    /\ patience = [w \in Waiters |-> "try"]
    /\ toRelease = [s \in Signallers |-> 0]
    /\ signalled = 0 /\ acquired = 0

Goto(t, to) == pc' = [pc EXCEPT ![t] = to]

-----------------------------------------------------------------------------
(* The calls: tryWait and tryWaitMany, wait and waitMany with and without a
   timeout; the ones for a single permit are those for at most one. *)
Call(w, n, how) ==
    /\ pc[w] = "idle"
    /\ max' = [max EXCEPT ![w] = n]
    /\ patience' = [patience EXCEPT ![w] = how]
    /\ Goto(w, "try")
    /\ UNCHANGED <<m_count, m_sema, toRelease, signalled, acquired>>

Take(n) == m_count' = m_count - n /\ acquired' = acquired + n

TakeOneTooMany(w, from) ==    \* mutant: >= for > in tryWaitMany
    /\ pc[w] = from /\ m_count >= 0
    /\ Take(Minimum(m_count + 1, max[w]))
    /\ Goto(w, "idle")
    /\ UNCHANGED <<m_sema, max, patience, toRelease, signalled>>

TakeSome(w, from) ==          \* greedily, by compare-exchange
    /\ pc[w] = from /\ m_count > 0
    /\ Take(Minimum(m_count, max[w]))
    /\ Goto(w, "idle")
    /\ UNCHANGED <<m_sema, max, patience, toRelease, signalled>>

TryWaitMany(w) == TakeSome(w, "try")

TrySleeps(w) ==               \* mutant: a try goes on to wait as well
    /\ pc[w] = "try" /\ m_count <= 0
    /\ Goto(w, "spin")
    /\ UNCHANGED <<m_count, m_sema, max, patience, toRelease, signalled,
                   acquired>>

TryFails(w) ==
    /\ pc[w] = "try" /\ m_count <= 0
    /\ Goto(w, IF patience[w] = "try" THEN "idle" ELSE "spin")
    /\ UNCHANGED <<m_count, m_sema, max, patience, toRelease, signalled,
                   acquired>>

(* 10000 tries: each may find nothing, or lose its compare-exchange. *)
Spin(w) == TakeSome(w, "spin")

StopSpinning(w) ==            \* fetch_sub; only an old count above 0 is one
    /\ pc[w] = "spin"
    /\ m_count' = m_count - 1
    /\ IF m_count > 0
       THEN acquired' = acquired + 1 /\ Goto(w, "more")
       ELSE UNCHANGED acquired /\ Goto(w, "kernel")
    /\ UNCHANGED <<m_sema, max, patience, toRelease, signalled>>

TakeKernelPermit(w, from) ==
    /\ pc[w] = from /\ m_sema > 0
    /\ m_sema' = m_sema - 1
    /\ acquired' = acquired + 1
    /\ Goto(w, "more")
    /\ UNCHANGED <<m_count, max, patience, toRelease, signalled>>

WakeUp(w) == TakeKernelPermit(w, "kernel")    \* wait or timed_wait succeeds

TimeOut(w) ==                                 \* timed_wait fails
    /\ pc[w] = "kernel" /\ patience[w] = "timed"
    /\ m_sema = 0
    /\ Goto(w, "timedout")
    /\ UNCHANGED <<m_count, m_sema, max, patience, toRelease, signalled,
                   acquired>>

LeaveUncounted(w) ==          \* mutant: the count is not restored
    /\ pc[w] = "timedout" /\ m_count < 0
    /\ Goto(w, "idle")
    /\ UNCHANGED <<m_count, m_sema, max, patience, toRelease, signalled,
                   acquired>>

Leave(w) ==                   \* still not signalled: put the count back
    /\ pc[w] = "timedout" /\ m_count < 0
    /\ m_count' = m_count + 1
    /\ Goto(w, "idle")
    /\ UNCHANGED <<m_sema, max, patience, toRelease, signalled, acquired>>

SeeSignalled(w) ==            \* oldCount >= 0: somebody signalled for us
    /\ pc[w] = "timedout" /\ m_count >= 0
    /\ Goto(w, "retry")
    /\ UNCHANGED <<m_count, m_sema, max, patience, toRelease, signalled,
                   acquired>>

RetryTakes(w) == TakeKernelPermit(w, "retry")

RetryFails(w) ==              \* signal() has not called the kernel yet
    /\ pc[w] = "retry" /\ m_sema = 0
    /\ Goto(w, "timedout")
    /\ UNCHANGED <<m_count, m_sema, max, patience, toRelease, signalled,
                   acquired>>

More(w) ==                    \* return 1 + tryWaitMany(max - 1)
    /\ pc[w] = "more"
    /\ IF m_count > 0
       THEN Take(Minimum(m_count, max[w] - 1))
       ELSE UNCHANGED <<m_count, acquired>>
    /\ Goto(w, "idle")
    /\ UNCHANGED <<m_sema, max, patience, toRelease, signalled>>

-----------------------------------------------------------------------------
SignalReleasesAll(s, n) ==    \* mutant: toRelease is count
    /\ pc[s] = "idle" /\ signalled + n <= MaxSignalled
    /\ m_count' = m_count + n
    /\ signalled' = signalled + n
    /\ IF m_count < 0
       THEN toRelease' = [toRelease EXCEPT ![s] = n] /\ Goto(s, "release")
       ELSE UNCHANGED <<pc, toRelease>>
    /\ UNCHANGED <<m_sema, max, patience, acquired>>

SignalOnlyFromZero(s, n) ==   \* mutant: - oldCount - 1
    /\ pc[s] = "idle" /\ signalled + n <= MaxSignalled
    /\ m_count' = m_count + n
    /\ signalled' = signalled + n
    /\ IF m_count < -1
       THEN /\ toRelease' = [toRelease EXCEPT ![s] = Minimum(-m_count - 1, n)]
            /\ Goto(s, "release")
       ELSE UNCHANGED <<pc, toRelease>>
    /\ UNCHANGED <<m_sema, max, patience, acquired>>

Signal(s, n) ==               \* fetch_add, and the sleepers to release
    /\ pc[s] = "idle" /\ signalled + n <= MaxSignalled
    /\ m_count' = m_count + n
    /\ signalled' = signalled + n
    /\ IF m_count < 0
       THEN /\ toRelease' = [toRelease EXCEPT ![s] = Minimum(-m_count, n)]
            /\ Goto(s, "release")
       ELSE UNCHANGED <<pc, toRelease>>
    /\ UNCHANGED <<m_sema, max, patience, acquired>>

Release(s) ==                 \* m_sema.signal(toRelease)
    /\ pc[s] = "release"
    /\ m_sema' = m_sema + toRelease[s]
    /\ toRelease' = [toRelease EXCEPT ![s] = 0]
    /\ Goto(s, "idle")
    /\ UNCHANGED <<m_count, max, patience, signalled, acquired>>

-----------------------------------------------------------------------------
Wait(w) ==
    \/ TryWaitMany(w) \/ TryFails(w) \/ Spin(w) \/ StopSpinning(w)
    \/ WakeUp(w) \/ TimeOut(w) \/ Leave(w) \/ SeeSignalled(w)
    \/ RetryTakes(w) \/ RetryFails(w) \/ More(w)

Next ==
    \/ \E w \in Waiters :
        \/ Wait(w)
        \/ \E n \in 1 .. MaxCount, how \in {"try", "timed", "forever"} :
            Call(w, n, how)
    \/ \E s \in Signallers :
        Release(s) \/ \E n \in 1 .. MaxCount : Signal(s, n)

Spec == Init /\ [][Next]_vars

-----------------------------------------------------------------------------
TypeOK ==
    /\ m_count \in Int /\ m_sema \in Nat
    /\ pc \in [Users -> Pc]
    /\ \A w \in Waiters : pc[w] # "release"
    /\ \A s \in Signallers : pc[s] \in {"idle", "release"}
    /\ max \in [Waiters -> 0 .. MaxCount]
    /\ \A w \in Waiters : pc[w] # "idle" => max[w] > 0
    /\ patience \in [Waiters -> {"try", "timed", "forever"}]
    /\ \A w \in Waiters :
        pc[w] \in {"spin", "kernel", "more"} => patience[w] # "try"
    /\ \A w \in Waiters :
        pc[w] \in {"timedout", "retry"} => patience[w] = "timed"
    /\ toRelease \in [Signallers -> 0 .. MaxCount]
    /\ \A s \in Signallers : pc[s] = "idle" => toRelease[s] = 0
    /\ signalled \in Nat /\ acquired \in Nat

(* Every permit is in the count, in a call that took it, or owed to a thread
   that has already been counted off. *)
PermitsAreCounted == m_count + acquired + Cardinality(Waiting) = signalled

(* The kernel's permits and those that signal() is about to release match
   the sleepers that the count no longer shows, over every interleaving of
   signal()'s fetch_add and release with a timeout: a sleeper's permit is
   never left behind in the kernel semaphore, and none is released twice. *)
Owed == {p \in Signallers \X (1 .. MaxCount) : p[2] <= toRelease[p[1]]}

KernelMatchesSleepers ==
    Cardinality(Waiting) = m_sema + Cardinality(Owed)
                           + (IF m_count < 0 THEN -m_count ELSE 0)

(* The counts match: the two equations, which hold only together, over the
   types. *)
CountsMatch == TypeOK /\ PermitsAreCounted /\ KernelMatchesSleepers

(* No wakeup is lost: while a thread sleeps with nothing to wake it, in the
   kernel or on its way there, every permit has been taken. *)
NoLostWakeup ==
    (\E w \in Waiters : pc[w] = "kernel") /\ m_sema = 0 /\ Owed = {}
        => acquired = signalled
=============================================================================
