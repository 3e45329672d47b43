--------------------------- MODULE PyMdApiProofs ----------------------------
(***************************************************************************)
(* Theorems of PyMdApi, for every number of callbacks and requests.        *)
(***************************************************************************)
EXTENDS PyMdApi, FiniteSetTheorems, TLAPS

BindingInv == TypeOK /\ GilIsHeld /\ OnlyLoginTerminates

LEMMA BindingInit == Init => BindingInv
<1> SUFFICES ASSUME Init PROVE BindingInv
    OBVIOUS
<1>1. ~dead /\ {dead, front, misused} \subseteq BOOLEAN
    BY Zenon DEF Init
<1> QED
    BY <1>1 DEF Init, BindingInv, TypeOK, GilIsHeld, OnlyLoginTerminates

LEMMA TypeStep == TypeOK /\ [Next]_vars => TypeOK'
<1> SUFFICES ASSUME TypeOK, [Next]_vars PROVE TypeOK'
    OBVIOUS
<1> USE DEF TypeOK, apiVars, taskVars, queueVars
<1>0. CallApi => misused' \in BOOLEAN /\ dead' \in BOOLEAN
    BY Zenon DEF CallApi
<1>1. CASE Create \/ MainYield \/ MainResume
    BY <1>1 DEF Create, MainYield, MainResume
<1>2. ASSUME NEW t \in {"main", "task"}, ReqUserLogin(t)
      PROVE  TypeOK'
    BY <1>0, <1>2 DEF ReqUserLogin
<1>3. ASSUME NEW t \in {"main", "task"}, Release(t)
      PROVE  TypeOK'
    <2>1. front' \in BOOLEAN
        BY <1>3, Zenon DEF Release
    <2> QED
        BY <1>0, <1>3, <2>1 DEF Release
<1>10. CASE Start \/ Join
    BY <1>0, <1>10 DEF Start, Join
<1>4. CASE Fetch
    <2>1. task' \in Kinds /\ task_queue' \in Seq(Kinds)
        BY <1>4 DEF Fetch
    <2> QED
        BY <1>4, <2>1 DEF Fetch
<1>5. CASE ConvertThrows
    <2>1. dead' \in BOOLEAN
        BY <1>5, Zenon DEF ConvertThrows
    <2> QED
        BY <1>5, <2>1 DEF ConvertThrows
<1>6. CASE TaskEnsure \/ Convert \/ TaskYield \/ TaskResume
    <2>1. pc # "fetch"
        BY <1>6 DEF TaskEnsure, Convert, TaskYield, TaskResume, InPython
    <2>2. UNCHANGED <<apiVars, queueVars, main, task, seen, dead>>
          /\ gil' \in {"main", "task", "none"}
          /\ pc' \in {"fetch", "ensure", "convert", "override", "waiting"}
        BY <1>6 DEF TaskEnsure, Convert, TaskYield, TaskResume
    <2> QED
        BY <2>1, <2>2
<1>7. CASE TaskReturn
    BY <1>7 DEF TaskReturn, InPython
<1>8. ASSUME NEW kind \in Kinds, OnCallback(kind)
      PROVE  TypeOK'
    <2>1. front' \in BOOLEAN
        BY <1>8, Zenon DEF OnCallback
    <2>2. logins' \in Nat
        BY <1>8 DEF OnCallback, CanReport
    <2>3. task_queue' \in Seq(Kinds) /\ pushed' \in Seq(Kinds)
        BY <1>8 DEF OnCallback, Push
    <2> QED
        BY <1>8, <2>1, <2>2, <2>3 DEF OnCallback
<1>9. CASE UNCHANGED vars
    BY <1>9 DEF vars
<1> QED
    BY <1>1, <1>2, <1>3, <1>4, <1>5, <1>6, <1>7, <1>8, <1>9,
       <1>10
    DEF Next, Program, TaskThread

LEMMA GilStep == GilIsHeld /\ [Next]_vars => GilIsHeld'
<1> SUFFICES ASSUME GilIsHeld, [Next]_vars PROVE GilIsHeld'
    OBVIOUS
<1> USE DEF GilIsHeld, apiVars, taskVars, queueVars
<1>1. CASE Program
    BY <1>1 DEF Program, Create, Start, Join, MainYield, MainResume,
       ReqUserLogin, Release, InPython
<1>2. CASE TaskThread
    BY <1>2 DEF TaskThread, Fetch, TaskEnsure, Convert, ConvertThrows,
       TaskYield, TaskResume, TaskReturn, InPython
<1>3. ASSUME NEW kind \in Kinds, OnCallback(kind)
      PROVE  GilIsHeld'
    BY <1>3 DEF OnCallback
<1>4. CASE UNCHANGED vars
    BY <1>4 DEF vars
<1> QED
    BY <1>1, <1>2, <1>3, <1>4 DEF Next

(* The handler of every other callback converts only what it was given. *)
LEMMA OnlyLoginThrows ==
    ASSUME NEW kind \in Kinds, kind # "ONRSPUSERLOGIN"
    PROVE  Cast(kind) \subseteq Filled(kind)
BY DEF Kinds, Connection, Notices, Answers, Cast, Filled

LEMMA TerminateStep ==
    TypeOK /\ OnlyLoginTerminates /\ [Next]_vars => OnlyLoginTerminates'
<1> SUFFICES ASSUME TypeOK, OnlyLoginTerminates, [Next]_vars
             PROVE  OnlyLoginTerminates'
    OBVIOUS
<1> USE DEF OnlyLoginTerminates, apiVars, taskVars, queueVars
<1>1. CASE ConvertThrows
    BY <1>1, OnlyLoginThrows DEF ConvertThrows, TypeOK
<1>2. CASE CallApi
    BY <1>2, Zenon DEF CallApi
<1>3. CASE ~dead /\ UNCHANGED dead
    BY <1>3
<1>4. CASE UNCHANGED vars
    BY <1>4 DEF vars
<1> QED
    BY <1>1, <1>2, <1>3, <1>4 DEF Next, Program, TaskThread, Create, Start,
       ReqUserLogin, Release, Join, MainYield, MainResume, Fetch, TaskEnsure, Convert,
       TaskYield, TaskResume, TaskReturn, OnCallback, InPython

LEMMA BindingInvariant == SafeSpec => []BindingInv
<1>1. BindingInv /\ [Next]_vars => BindingInv'
    BY TypeStep, GilStep, TerminateStep DEF BindingInv
<1> QED
    BY BindingInit, <1>1, PTL DEF SafeSpec

-----------------------------------------------------------------------------
(* What Python sees *)

(* SeenInOrder holds of every step once the override that runs is known to be
   one that is invoked. *)
SeenInv ==
    /\ SeenInOrder
    /\ pc \in {"override", "waiting"} => Invoked(task)

LEMMA RankZero == Rank(0) = 0
<1>1. {i \in 1 .. 0 : Invoked(pushed[i])} = {}
    OBVIOUS
<1> QED
    BY <1>1, FS_EmptySet DEF Rank

LEMMA RankNext ==
    ASSUME NEW n \in Nat
    PROVE  /\ Rank(n) \in Nat
           /\ Rank(n + 1) = IF Invoked(pushed[n + 1]) THEN Rank(n) + 1
                                                     ELSE Rank(n)
<1> DEFINE S == {i \in 1 .. n : Invoked(pushed[i])}
           T == {i \in 1 .. (n + 1) : Invoked(pushed[i])}
<1>1. IsFiniteSet(S)
    <2>1. IsFiniteSet(1 .. n)
        BY FS_Interval
    <2>2. S \in SUBSET (1 .. n)
        OBVIOUS
    <2> QED
        BY <2>1, <2>2, FS_Subset
<1>2. Cardinality(S) \in Nat
    BY <1>1, FS_CardinalityType
<1>3. CASE Invoked(pushed[n + 1])
    <2>1. T = S \union {n + 1} /\ n + 1 \notin S
        BY <1>3
    <2> HIDE DEF S, T
    <2>2. Cardinality(T) = Cardinality(S) + 1
        BY <1>1, <2>1, FS_AddElement
    <2> QED
        BY <1>2, <1>3, <2>2 DEF Rank, S, T
<1>4. CASE ~Invoked(pushed[n + 1])
    <2>1. T = S
        BY <1>4
    <2> QED
        BY <1>2, <1>4, <2>1 DEF Rank
<1> QED
    BY <1>3, <1>4

(* The rank of a callback that is invoked lies among those seen. *)
LEMMA RankRange ==
    ASSUME NEW n \in Nat, NEW i \in 1 .. n, Invoked(pushed[i])
    PROVE  Rank(i) \in 1 .. Rank(n)
<1> DEFINE S == {k \in 1 .. i : Invoked(pushed[k])}
           T == {k \in 1 .. n : Invoked(pushed[k])}
<1>1. IsFiniteSet(T) /\ S \in SUBSET T
    <2>1. IsFiniteSet(1 .. n)
        BY FS_Interval
    <2>2. T \in SUBSET (1 .. n) /\ S \in SUBSET T
        OBVIOUS
    <2> QED
        BY <2>1, <2>2, FS_Subset
<1>2. Rank(i) <= Rank(n)
    BY <1>1, FS_Subset DEF Rank
<1>3. i - 1 \in Nat /\ (i - 1) + 1 = i
    OBVIOUS
<1>4. Rank(i) = Rank(i - 1) + 1 /\ Rank(i - 1) \in Nat
    BY <1>3, RankNext
<1>5. Rank(n) \in Nat
    BY RankNext
<1> QED
    BY <1>2, <1>4, <1>5

LEMMA SeenKept ==
    ASSUME SeenInv, UNCHANGED <<pushed, seen, Pending>>,
           pc' \in {"override", "waiting"} => Invoked(task')
    PROVE  SeenInv'
BY DEF SeenInv, SeenInOrder, Handled, Rank, Invoked

LEMMA PendingTypes ==
    ASSUME TypeOK
    PROVE  /\ Pending \in Seq(Kinds)
           /\ pc # "fetch" => /\ Len(Pending) = Len(task_queue) + 1
                              /\ Pending[1] = task
                              /\ \A i \in 1 .. Len(task_queue) :
                                     Pending[i + 1] = task_queue[i]
BY DEF TypeOK, Pending

LEMMA SeenFetch ==
    ASSUME TypeOK, SeenInv, Fetch
    PROVE  SeenInv'
<1>1. task_queue # << >> /\ pc = "fetch" /\ pc' = "ensure"
      /\ task' = Head(task_queue) /\ task_queue' = Tail(task_queue)
      /\ UNCHANGED <<pushed, seen>>
    BY DEF Fetch
<1>2. Pending' = Pending
    BY <1>1 DEF TypeOK, Pending
<1> QED
    BY <1>1, <1>2, SeenKept

LEMMA SeenCallback ==
    ASSUME TypeOK, SeenInv, NEW kind \in Kinds, OnCallback(kind)
    PROVE  SeenInv'
<1>1. task_queue' = Append(task_queue, kind)
      /\ pushed' = Append(pushed, kind) /\ UNCHANGED <<seen, pc, task>>
    BY DEF OnCallback, Push, taskVars
<1>2. pushed \in Seq(Kinds) /\ task_queue \in Seq(Kinds)
      /\ Pending \in Seq(Kinds)
    BY PendingTypes DEF TypeOK
<1>3. Pending' = Append(Pending, kind)
    BY <1>1, <1>2 DEF TypeOK, Pending
<1>4. Handled' = Handled /\ Handled \in Nat
      /\ Len(pushed) = Handled + Len(Pending)
    BY <1>1, <1>2, <1>3 DEF SeenInv, SeenInOrder, Handled
<1>5. \A i \in 1 .. Handled : pushed'[i] = pushed[i]
    BY <1>1, <1>2, <1>4
<1>6. \A n \in 0 .. Handled : Rank(n)' = Rank(n)
    <2> TAKE n \in 0 .. Handled
    <2>1. {i \in 1 .. n : Invoked(pushed'[i])}
            = {i \in 1 .. n : Invoked(pushed[i])}
        BY <1>4, <1>5
    <2> QED
        BY <2>1 DEF Rank, Invoked
<1>7. \A i \in 1 .. Len(Pending') : Pending'[i] = pushed'[Handled' + i]
    <2> TAKE i \in 1 .. Len(Pending')
    <2>1. CASE i = Len(Pending) + 1
        <3>1. Handled' + i = Len(pushed) + 1 /\ Len(pushed) \in Nat
              /\ Pending'[i] = kind
            BY <1>2, <1>3, <1>4, <2>1
        <3> QED
            BY <1>1, <1>2, <3>1
    <2>2. CASE i \in 1 .. Len(Pending)
        <3>1. Pending'[i] = Pending[i]
            BY <1>2, <1>3, <2>2
        <3>2. Handled' + i = Handled + i /\ Handled + i \in 1 .. Len(pushed)
            BY <1>2, <1>4, <2>2
        <3>3. pushed'[Handled + i] = pushed[Handled + i]
            BY <1>1, <1>2, <3>2
        <3> QED
            BY <2>2, <3>1, <3>2, <3>3 DEF SeenInv, SeenInOrder
    <2> QED
        BY <1>2, <1>3, <2>1, <2>2
<1>8. Len(seen') = Rank(Handled)'
    <2>1. Rank(Handled)' = Rank(Handled)
        BY <1>4, <1>6
    <2> QED
        BY <1>1, <2>1 DEF SeenInv, SeenInOrder
<1>9. \A i \in 1 .. Handled' :
          Invoked(pushed'[i]) => seen'[Rank(i)'] = pushed'[i]
    BY <1>1, <1>4, <1>5, <1>6 DEF SeenInv, SeenInOrder
<1> QED
    BY <1>1, <1>4, <1>7, <1>8, <1>9 DEF SeenInv, SeenInOrder, Invoked

(* The task thread is done with its task. *)
LEMMA SeenNext ==
    ASSUME TypeOK, SeenInv, pc # "fetch", pc' = "fetch",
           UNCHANGED <<pushed, task_queue>>,
           seen' = IF Invoked(task) THEN Append(seen, task) ELSE seen
    PROVE  SeenInv'
<1>1. pushed \in Seq(Kinds) /\ task_queue \in Seq(Kinds)
      /\ seen \in Seq(Kinds) /\ task \in Kinds
    BY DEF TypeOK
<1>2. Pending' = task_queue /\ Len(Pending) = Len(task_queue) + 1
      /\ Pending[1] = task
      /\ \A i \in 1 .. Len(task_queue) : Pending[i + 1] = task_queue[i]
    BY PendingTypes DEF Pending
<1>3. Handled \in Nat /\ Handled' = Handled + 1
    BY <1>1, <1>2 DEF SeenInv, SeenInOrder, Handled
<1>4. pushed[Handled + 1] = task
    BY <1>1, <1>2, <1>3 DEF SeenInv, SeenInOrder
<1>5. \A i \in 1 .. Len(Pending') : Pending'[i] = pushed'[Handled' + i]
    <2> TAKE i \in 1 .. Len(Pending')
    <2>1. i + 1 \in 1 .. Len(Pending) /\ Pending'[i] = Pending[i + 1]
        BY <1>1, <1>2
    <2>2. Pending[i + 1] = pushed[Handled + (i + 1)]
        BY <2>1 DEF SeenInv, SeenInOrder
    <2>3. Handled + (i + 1) = Handled' + i
        BY <1>1, <1>2, <1>3
    <2> QED
        BY <2>1, <2>2, <2>3
<1>6. \A n : Rank(n)' = Rank(n)
    BY DEF Rank, Invoked
<1>7. Len(seen) = Rank(Handled)
      /\ \A i \in 1 .. Handled : Invoked(pushed[i]) =>
             seen[Rank(i)] = pushed[i] /\ Rank(i) \in 1 .. Len(seen)
    BY <1>3, RankRange DEF SeenInv, SeenInOrder
<1>8. CASE Invoked(task)
    <2>1. Rank(Handled + 1) = Len(seen) + 1
        BY <1>3, <1>4, <1>7, <1>8, RankNext
    <2>2. Len(seen') = Len(seen) + 1 /\ seen'[Len(seen) + 1] = task
          /\ \A k \in 1 .. Len(seen) : seen'[k] = seen[k]
        BY <1>1, <1>8
    <2>3. ASSUME NEW i \in 1 .. (Handled + 1), Invoked(pushed[i])
          PROVE  seen'[Rank(i)] = pushed[i]
        <3>1. CASE i = Handled + 1
            BY <1>4, <2>1, <2>2, <3>1
        <3>2. CASE i \in 1 .. Handled
            <4>1. seen[Rank(i)] = pushed[i] /\ Rank(i) \in 1 .. Len(seen)
                BY <1>7, <2>3, <3>2
            <4> QED
                BY <2>2, <4>1
        <3>3. i = Handled + 1 \/ i \in 1 .. Handled
            BY <1>3
        <3> QED
            BY <3>1, <3>2, <3>3
    <2>4. Len(seen') = Rank(Handled)'
        BY <1>3, <1>6, <2>1, <2>2
    <2>5. \A i \in 1 .. Handled' :
              Invoked(pushed'[i]) => seen'[Rank(i)'] = pushed'[i]
        BY <1>3, <1>6, <2>3
    <2>6. Handled' >= 0 /\ pushed' = pushed
        BY <1>3
    <2>7. SeenInOrder'
        BY <1>5, <2>4, <2>5, <2>6 DEF SeenInOrder
    <2> QED
        BY <2>7 DEF SeenInv
<1>9. CASE ~Invoked(task)
    <2>1. Rank(Handled + 1) = Len(seen) /\ seen' = seen
        BY <1>3, <1>4, <1>7, <1>9, RankNext
    <2>2. ASSUME NEW i \in 1 .. (Handled + 1), Invoked(pushed[i])
          PROVE  seen[Rank(i)] = pushed[i]
        BY <1>3, <1>4, <1>7, <1>9, <2>2
    <2> QED
        BY <1>3, <1>5, <1>6, <2>1, <2>2
        DEF SeenInv, SeenInOrder, Invoked
<1> QED
    BY <1>8, <1>9

LEMMA SeenStep == TypeOK /\ SeenInv /\ [Next]_vars => SeenInv'
<1> SUFFICES ASSUME TypeOK, SeenInv, [Next]_vars PROVE SeenInv'
    OBVIOUS
<1> USE DEF apiVars, taskVars, queueVars
<1>1. CASE Program \/ UNCHANGED vars
    <2>1. UNCHANGED <<queueVars, taskVars>>
        BY <1>1 DEF Program, Create, Start, Join, MainYield, MainResume,
           ReqUserLogin, Release, vars
    <2> QED
        BY <2>1, SeenKept DEF Pending, SeenInv
<1>2. CASE Fetch
    BY <1>2, SeenFetch
<1>3. CASE TaskEnsure \/ ConvertThrows \/ TaskYield \/ TaskResume
    <2>1. UNCHANGED <<queueVars, task, seen>>
          /\ pc # "fetch" /\ pc' # "fetch"
          /\ (pc' \in {"override", "waiting"} =>
                pc \in {"override", "waiting"})
        BY <1>3 DEF TaskEnsure, ConvertThrows, TaskYield, TaskResume, InPython
    <2> QED
        BY <2>1, SeenKept DEF Pending, SeenInv
<1>4. CASE Convert
    <2>1. CASE Invoked(task)
        <3>1. UNCHANGED <<queueVars, task, seen>>
              /\ pc # "fetch" /\ pc' = "override"
            BY <1>4, <2>1 DEF Convert
        <3> QED
            BY <2>1, <3>1, SeenKept DEF Pending, SeenInv
    <2>2. CASE ~Invoked(task)
        BY <1>4, <2>2, SeenNext DEF Convert
    <2> QED
        BY <2>1, <2>2
<1>5. CASE TaskReturn
    BY <1>5, SeenNext DEF TaskReturn, InPython, SeenInv
<1>6. ASSUME NEW kind \in Kinds, OnCallback(kind)
      PROVE  SeenInv'
    BY <1>6, SeenCallback
<1> QED
    BY <1>1, <1>2, <1>3, <1>4, <1>5, <1>6 DEF Next, TaskThread

LEMMA SeenInit == Init => SeenInv
<1> SUFFICES ASSUME Init PROVE SeenInv
    OBVIOUS
<1>1. pc = "fetch" /\ task_queue = << >> /\ pushed = << >> /\ seen = << >>
    BY DEF Init
<1>2. Pending = << >> /\ Handled = 0
    BY <1>1 DEF Pending, Handled
<1> QED
    BY <1>1, <1>2, RankZero DEF SeenInv, SeenInOrder

-----------------------------------------------------------------------------
(* Every variable keeps its type; the task thread only holds known tasks. *)
THEOREM BindingType == SafeSpec => []TypeOK
<1>1. BindingInv => TypeOK
    BY DEF BindingInv
<1> QED
    BY BindingInvariant, <1>1, PTL

(* The two threads never run Python, or build Python objects, together. *)
THEOREM PythonIsExclusive == SafeSpec => []GilIsHeld
<1>1. BindingInv => GilIsHeld
    BY DEF BindingInv
<1> QED
    BY BindingInvariant, <1>1, PTL

(* Nothing but a login response ends the process of a program that calls no
   method while api is no object: not a task that is handled after release()
   either. *)
THEOREM OtherCallbacksAreSafe == SafeSpec => []OnlyLoginTerminates
<1>1. BindingInv => OnlyLoginTerminates
    BY DEF BindingInv
<1> QED
    BY BindingInvariant, <1>1, PTL

(* Python sees what the API reported, once and in order, but for the callbacks
   whose override is only looked up. *)
THEOREM PythonSeesInOrder == SafeSpec => []SeenInOrder
<1>1. BindingInv => TypeOK
    BY DEF BindingInv
<1>2. SeenInv => SeenInOrder
    BY DEF SeenInv
<1> QED
    BY BindingInvariant, SeenInit, SeenStep, <1>1, <1>2, PTL DEF SafeSpec
=============================================================================
