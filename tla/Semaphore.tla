----------------------------- MODULE Semaphore ------------------------------
(***************************************************************************)
(* What the blocking queue asks of its semaphore: signal(n) adds n         *)
(* permits, and a call that acquires takes only permits that are there.    *)
(***************************************************************************)
EXTENDS Naturals

CONSTANT MaxCount       \* the most permits that one call adds or takes

VARIABLES signalled,    \* permits added so far
          acquired      \* permits taken so far

vars == <<signalled, acquired>>

Init == signalled = 0 /\ acquired = 0

Signal(n) ==
    /\ signalled' = signalled + n
    /\ UNCHANGED acquired

Acquire(n) ==
    /\ acquired + n <= signalled
    /\ acquired' = acquired + n
    /\ UNCHANGED signalled

Next == \E n \in 1 .. MaxCount : Signal(n) \/ Acquire(n)

Spec == Init /\ [][Next]_vars
=============================================================================
