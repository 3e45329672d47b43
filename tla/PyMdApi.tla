------------------------------ MODULE PyMdApi -------------------------------
(***************************************************************************)
(* The Python binding: class MdApi and its wrapper of                      *)
(* pyctpmdapi/ctpmdapi.cpp. The CTP API calls back on a thread of its own, *)
(* the callback turns its arguments into a Task; the task thread takes the *)
(* tasks in order and calls the Python overrides under the GIL, which the  *)
(* program's main thread holds whenever it runs Python or a method of the  *)
(* binding. The queue is TaskQueue as an atomic sequence (PyTaskQueue      *)
(* shows that the real one implements it).                                 *)
(***************************************************************************)
EXTENDS Naturals, Sequences, FiniteSets

CONSTANTS
    MaxCallbacks,     \* bound: callbacks of the API
    MaxRequests       \* bound: login requests of the Python program

ASSUME BoundsAssumption == {MaxCallbacks, MaxRequests} \subseteq Nat

Connection == {"ONFRONTCONNECTED", "ONFRONTDISCONNECTED"}
Notices == {"ONRTNDEPTHMARKETDATA", "ONRTNFORQUOTERSP"}
Answers == {"ONRSPUSERLOGOUT", "ONRSPSUBMARKETDATA", "ONRSPUNSUBMARKETDATA",
            "ONRSPSUBFORQUOTERSP", "ONRSPUNSUBFORQUOTERSP"}
Kinds == Connection \union Notices \union Answers
         \union {"ONRSPUSERLOGIN", "ONRSPERROR", "ONHEARTBEATWARNING"}

VARIABLES
    api,         \* the member api: "wild", "created", "running" or "released"
    front,       \* the API's connection is up
    logins,      \* login requests that are not answered
    task_queue,  \* kinds of the queued tasks
    gil,         \* the thread that holds the GIL: "main", "task" or "none"
    main,        \* the main thread: "python", "waiting" (for the GIL), "join"
    pc,          \* the task thread: "fetch", "ensure" (wants the GIL),
                 \* "convert", "override" or "waiting" (for the GIL, inside it)
    task,        \* the task that it processes, when pc is not "fetch"
    pushed,      \* history: the callbacks, in order
    seen,        \* history: the overrides that Python ran, in order
    requests,    \* number of login requests
    misused,     \* history: Python called a method while api was no object
    dead         \* the process was terminated

apiVars == <<api, front, logins, requests, misused>>
taskVars == <<pc, task, seen>>
queueVars == <<task_queue, pushed>>
vars == <<apiVars, queueVars, gil, main, taskVars, dead>>

Init ==
    /\ api = "wild" /\ front = FALSE /\ logins = 0 /\ requests = 0
    /\ task_queue = << >> /\ pushed = << >>
    /\ gil = "main" /\ main = "python"
    /\ pc = "fetch" /\ task = "none" /\ seen = << >>
    /\ misused = FALSE /\ dead = FALSE

-----------------------------------------------------------------------------
(* The callbacks: which of the two boost::any members each of them fills *)

FilledNoError(kind) ==                 \* mutant: OnRspError fills nothing
    CASE kind \in Answers -> {"data", "error"}
      [] kind \in Notices \union {"ONRSPUSERLOGIN"} -> {"data"}
      [] OTHER -> {}

Filled(kind) ==
    CASE kind \in Answers -> {"data", "error"}
      [] kind \in Notices \union {"ONRSPUSERLOGIN"} -> {"data"}
      [] kind = "ONRSPERROR" -> {"error"}
      [] OTHER -> {}

(* ... and which its handler converts, with any_cast, which throws when the
   member is empty. *)
Cast(kind) ==
    CASE kind \in Answers \union {"ONRSPUSERLOGIN"} -> {"data", "error"}
      [] kind \in Notices -> {"data"}
      [] kind = "ONRSPERROR" -> {"error"}
      [] OTHER -> {}

(* get_override(name) finds the override; get_override(name)(...) calls it. *)
Invoked(kind) == kind \notin Connection

PushUnnamed(kind) ==                   \* mutant: task_name stays 0
    /\ task_queue' = Append(task_queue, "0")
    /\ pushed' = Append(pushed, kind)

Push(kind) ==
    /\ task_queue' = Append(task_queue, kind)
    /\ pushed' = Append(pushed, kind)

(* External: what the API may report. *)
CanReport(kind) ==
    CASE kind = "ONFRONTCONNECTED" -> ~front
      [] kind = "ONRSPUSERLOGIN" -> front /\ logins > 0
      [] OTHER -> front

OnCallback(kind) ==
    /\ ~dead /\ api = "running" /\ Len(pushed) < MaxCallbacks
    /\ CanReport(kind)
    /\ Push(kind)
    /\ front' = (kind # "ONFRONTDISCONNECTED")
    /\ logins' = CASE kind \in Connection -> 0
                   [] kind = "ONRSPUSERLOGIN" -> logins - 1
                   [] OTHER -> logins
    /\ UNCHANGED <<api, requests, misused, gil, main, taskVars, dead>>

-----------------------------------------------------------------------------
(* The Python program, on the main thread or inside an override *)

InPython(t) ==
    /\ ~dead /\ gil = t
    /\ IF t = "main" THEN main = "python" ELSE pc = "override"

(* The methods call through api without a test: before createFtdcMdApi() it is
   uninitialised, and release() leaves it pointing to the freed object. Such a
   call ends the process or goes unnoticed. *)
Lives == api \in {"created", "running"}

CallApi ==
    /\ misused' = (misused \/ ~Lives)
    /\ dead' \in IF Lives THEN {FALSE} ELSE BOOLEAN

(* createFtdcMdApi. One API object at a time: a second one beside the first,
   which would call back into the same MdApi, is not modelled. *)
Create ==
    /\ InPython("main") /\ ~Lives
    /\ api' = "created"
    /\ UNCHANGED <<front, logins, requests, misused, queueVars, gil, main,
                   taskVars, dead>>

Start ==                               \* registerFront, init
    /\ InPython("main") /\ CallApi
    /\ api' = IF Lives THEN "running" ELSE api
    /\ UNCHANGED <<front, logins, requests, queueVars, gil, main, taskVars>>

ReqUserLogin(t) ==                     \* of either thread
    /\ InPython(t) /\ requests < MaxRequests /\ CallApi
    /\ requests' = requests + 1
    /\ logins' = IF api = "running" /\ front THEN logins + 1 ELSE logins
    /\ UNCHANGED <<api, front, queueVars, gil, main, taskVars>>

Release(t) ==
    /\ InPython(t) /\ CallApi
    /\ IF Lives THEN api' = "released" /\ front' = FALSE /\ logins' = 0
       ELSE UNCHANGED <<api, front, logins>>
    /\ UNCHANGED <<requests, queueVars, gil, main, taskVars>>

(* join() keeps the GIL while it waits for the API to be released: only
   another thread that runs Python could release it, and none can. What it does
   on an API that does not run is not said: it returns, or waits. *)
Join ==
    /\ InPython("main") /\ CallApi
    /\ main' \in IF api = "running" THEN {"join"} ELSE {"python", "join"}
    /\ UNCHANGED <<api, front, logins, requests, queueVars, gil, taskVars>>

MainYield ==                           \* the interpreter switches threads, or
    /\ InPython("main")                \* the program sleeps
    /\ gil' = "none" /\ main' = "waiting"
    /\ UNCHANGED <<apiVars, queueVars, taskVars, dead>>

MainResume ==
    /\ ~dead /\ gil = "none" /\ main = "waiting"
    /\ gil' = "main" /\ main' = "python"
    /\ UNCHANGED <<apiVars, queueVars, taskVars, dead>>

-----------------------------------------------------------------------------
(* The task thread: processTask and the processXxx handlers *)

FetchLast ==                           \* mutant: the latest task first
    /\ ~dead /\ pc = "fetch" /\ task_queue # << >>
    /\ task' = task_queue[Len(task_queue)]
    /\ task_queue' = SubSeq(task_queue, 1, Len(task_queue) - 1)
    /\ pc' = "ensure"
    /\ UNCHANGED <<apiVars, pushed, gil, main, seen, dead>>

Fetch ==
    /\ ~dead /\ pc = "fetch" /\ task_queue # << >>
    /\ task' = Head(task_queue)
    /\ task_queue' = Tail(task_queue)
    /\ pc' = "ensure"
    /\ UNCHANGED <<apiVars, pushed, gil, main, seen, dead>>

TaskEnsureNow ==                       \* mutant: a handler without PyLock
    /\ ~dead /\ pc = "ensure"
    /\ pc' = "convert"
    /\ UNCHANGED <<apiVars, queueVars, gil, main, task, seen, dead>>

TaskEnsure ==                          \* PyLock: PyGILState_Ensure
    /\ ~dead /\ pc = "ensure" /\ gil = "none"
    /\ gil' = "task" /\ pc' = "convert"
    /\ UNCHANGED <<apiVars, queueVars, main, task, seen, dead>>

(* bad_any_cast leaves the handler, processTask and the thread: terminate. *)
ConvertThrows ==
    /\ ~dead /\ pc = "convert" /\ ~ Cast(task) \subseteq Filled(task)
    /\ dead' = TRUE
    /\ UNCHANGED <<apiVars, queueVars, gil, main, taskVars>>

Convert ==
    /\ ~dead /\ pc = "convert" /\ Cast(task) \subseteq Filled(task)
    /\ IF Invoked(task)
       THEN pc' = "override" /\ UNCHANGED gil
       ELSE pc' = "fetch" /\ gil' = "none"
    /\ UNCHANGED <<apiVars, queueVars, main, task, seen, dead>>

TaskYield ==
    /\ InPython("task")
    /\ gil' = "none" /\ pc' = "waiting"
    /\ UNCHANGED <<apiVars, queueVars, main, task, seen, dead>>

TaskResume ==
    /\ ~dead /\ pc = "waiting" /\ gil = "none"
    /\ gil' = "task" /\ pc' = "override"
    /\ UNCHANGED <<apiVars, queueVars, main, task, seen, dead>>

TaskReturnLocked ==                    \* mutant: no PyGILState_Release
    /\ InPython("task")
    /\ seen' = Append(seen, task)
    /\ pc' = "fetch"
    /\ UNCHANGED <<apiVars, queueVars, gil, main, task, dead>>

TaskReturn ==                          \* the override returns; ~PyLock
    /\ InPython("task")
    /\ seen' = Append(seen, task)
    /\ gil' = "none" /\ pc' = "fetch"
    /\ UNCHANGED <<apiVars, queueVars, main, task, dead>>

-----------------------------------------------------------------------------
Program ==
    \/ Create \/ Start \/ Join \/ MainYield \/ MainResume
    \/ \E t \in {"main", "task"} : ReqUserLogin(t) \/ Release(t)

TaskThread ==
    \/ Fetch \/ TaskEnsure \/ Convert \/ ConvertThrows
    \/ TaskYield \/ TaskResume \/ TaskReturn

Next == Program \/ TaskThread \/ \E kind \in Kinds : OnCallback(kind)

(* The task thread runs. The interpreter takes the GIL from a thread that runs
   Python after a while (MainYield; TaskYield needs no fairness, an override
   returns), and a thread that keeps asking for it gets it. *)
Fairness ==
    /\ WF_vars(Fetch \/ Convert \/ ConvertThrows)
    /\ WF_vars(MainYield) /\ SF_vars(MainResume)
    /\ SF_vars(TaskEnsure) /\ SF_vars(TaskResume) /\ SF_vars(TaskReturn)

SafeSpec == Init /\ [][Next]_vars

Spec == SafeSpec /\ Fairness

-----------------------------------------------------------------------------
TypeOK ==
    /\ api \in {"wild", "created", "running", "released"}
    /\ front \in BOOLEAN /\ misused \in BOOLEAN /\ dead \in BOOLEAN
    /\ logins \in Nat /\ requests \in Nat
    /\ task_queue \in Seq(Kinds) /\ pushed \in Seq(Kinds)
    /\ gil \in {"main", "task", "none"}
    /\ main \in {"python", "waiting", "join"}
    /\ pc \in {"fetch", "ensure", "convert", "override", "waiting"}
    /\ task \in Kinds \union {"none"} /\ (pc # "fetch" => task \in Kinds)
    /\ seen \in Seq(Kinds)

(* Python data is only touched under the GIL: each thread is in Python, or in
   a handler that builds Python objects, exactly when it holds it. *)
GilIsHeld ==
    /\ gil = "main" <=> main \in {"python", "join"}
    /\ gil = "task" <=> pc \in {"convert", "override"}

(* The login response is the only callback whose handler can end the process,
   also when it is handled after release(): a handler converts no more than its
   callback filled, and does not use the freed API. Else only Python itself
   ends the process, with a call through an api that is no object. *)
OnlyLoginTerminates ==
    dead => \/ misused
            \/ pc = "convert" /\ task = "ONRSPUSERLOGIN"

Pending == IF pc = "fetch" THEN task_queue ELSE <<task>> \o task_queue

Handled == Len(pushed) - Len(Pending)

(* How many of the first n callbacks have an override that is invoked. *)
Rank(n) == Cardinality({i \in 1 .. n : Invoked(pushed[i])})

(* Python sees every callback whose override is invoked once and in the order
   of the API, except those that are still on their way. *)
SeenInOrder ==
    /\ Handled >= 0
    /\ \A i \in 1 .. Len(Pending) : Pending[i] = pushed[Handled + i]
    /\ Len(seen) = Rank(Handled)
    /\ \A i \in 1 .. Handled :
            Invoked(pushed[i]) => seen[Rank(i)] = pushed[i]

(* A callback is handled in the end, unless the process dies or the main
   thread sits in join() with the GIL. *)
HandledUnlessJoined ==
    \A n \in 1 .. MaxCallbacks :
        Len(pushed) >= n ~>
            \/ Handled >= n
            \/ dead \/ main = "join"

(* ctpmdapi.h:191: the onXxx methods are "callback handlers to be overridden
   in Python"; so what was handled was seen by Python. *)
HandledIsSeen == seen \o Pending = pushed

(* ctpmdapi.h:135 declares OnRspUserLogin as the "login request response";
   handling one does not end the process of a program that calls no method
   before createFtdcMdApi() or after release(). *)
LoginResponseIsHandled == dead => misused
=============================================================================
