-------------------------- MODULE MdSessionProofs ---------------------------
(***************************************************************************)
(* Theorems of MdSession, for every set of symbols and every number of     *)
(* connections, ticks and other callbacks.                                 *)
(***************************************************************************)
EXTENDS MdSession, TLAPS

LEMMA TaskTypes ==
    /\ EmptyTask \in Task
    /\ \A name \in CastOnly \union {"ON_FRONT_CONNECTED"} :
            NewTask(name, NoData) \in Task
    /\ \A s \in Symbols, n \in Nat :
            NewTask("ON_RTN_DEPTH_MARKET_DATA",
                    [symbol |-> s, seq |-> n + 1]) \in Task
    /\ \A t \in Task :
            t.name = "ON_RTN_DEPTH_MARKET_DATA" =>
                t.data.symbol \in Symbols /\ t.data.seq \in Nat
    /\ \A t \in Task : t.name \in CastOnly \union {"ON_FRONT_CONNECTED",
            "EMPTY_TASK", "ON_RTN_DEPTH_MARKET_DATA"}
BY DEF Task, EmptyTask, NewTask, NoData, CastOnly

(* Every step is one of main, of the callback thread or of the API that
   appends at most one task, or of the worker, which removes the head. *)
LEMMA ReportType ==
    ASSUME TypeOK, NEW name \in CastOnly \union {"ON_FRONT_CONNECTED"},
           Report(name)
    PROVE  _queue' \in Seq(Task)
BY TaskTypes DEF TypeOK, Report

LEMMA TypeInit == Init => TypeOK
<1> SUFFICES ASSUME Init PROVE TypeOK
    OBVIOUS
<1>1. spi \in BOOLEAN /\ asked \in BOOLEAN /\ has_file \in BOOLEAN
      /\ long_line \in BOOLEAN /\ symbol_file \subseteq Symbols
      /\ crashed \in BOOLEAN
    BY Zenon DEF Init
<1> QED
    BY <1>1, TaskTypes DEF Init, TypeOK

LEMMA TypeMain == TypeOK /\ Main => TypeOK'
<1> SUFFICES ASSUME TypeOK, Main PROVE TypeOK'
    OBVIOUS
<1>1. spi' \in BOOLEAN
    BY Zenon DEF TypeOK, Main, MainInit, MainCreate, MainStart, MainUnregister,
       MainRelease, MainClear, MainReturn, MainExit, ctpVars
<1> QED
    BY <1>1 DEF TypeOK, Main, MainStep, MainInit, MainCreate, MainStart,
       MainUnregister, MainRelease, MainClear, MainReturn, MainExit, mainVars,
       ctpVars, callbackVars, fileVars, workerVars, countVars

LEMMA TypeCallback == TypeOK /\ Callback => TypeOK'
<1> SUFFICES ASSUME TypeOK, Callback PROVE TypeOK'
    OBVIOUS
<1>1. crashed' \in BOOLEAN
    BY Zenon DEF TypeOK, Callback, SubscribeRead, SubscribeSpin,
       SubscribeRequest, CallApi
<1> QED
    BY <1>1 DEF TypeOK, Callback, SubscribeRead, SubscribeSpin,
       SubscribeRequest, mainVars, ctpVars, callbackVars, fileVars,
       workerVars, countVars

LEMMA TypeCtp == TypeOK /\ Ctp => TypeOK'
<1> SUFFICES ASSUME TypeOK, Ctp PROVE TypeOK'
    OBVIOUS
<1> USE DEF TypeOK, mainVars, ctpVars, callbackVars, fileVars, workerVars,
       countVars
<1>1. CASE Connect
    <2>1. asked' \in BOOLEAN
        BY <1>1, Zenon DEF Connect
    <2>2. _queue' \in Seq(Task)
        BY <1>1, ReportType DEF Connect
    <2> QED
        BY <1>1, <2>1, <2>2 DEF Connect
<1>2. CASE Lose
    BY <1>2 DEF Lose
<1>3. CASE Disconnect
    <2>1. _queue' \in Seq(Task)
        BY <1>3, ReportType DEF Disconnect, CastOnly
    <2> QED
        BY <1>3, <2>1 DEF Disconnect
<1>4. CASE LoginReply
    <2>1. _queue' \in Seq(Task)
        BY <1>4, ReportType DEF LoginReply, CastOnly
    <2> QED
        BY <1>4, <2>1 DEF LoginReply
<1>5. CASE Other
    <2>1. _queue' \in Seq(Task)
        BY <1>5, ReportType DEF Other, CastOnly
    <2> QED
        BY <1>5, <2>1 DEF Other
<1>6. ASSUME NEW s \in Symbols, Tick(s)
      PROVE  TypeOK'
    <2>1. _queue' \in Seq(Task)
        BY <1>6, TaskTypes DEF Tick
    <2> QED
        BY <1>6, <2>1 DEF Tick
<1> QED
    BY <1>1, <1>2, <1>3, <1>4, <1>5, <1>6 DEF Ctp

LEMMA TypeWorker == TypeOK /\ Worker => TypeOK'
<1> SUFFICES ASSUME TypeOK, Worker PROVE TypeOK'
    OBVIOUS
<1> USE TaskTypes DEF TypeOK, mainVars, ctpVars, callbackVars, fileVars,
       workerVars, countVars
<1>1. CASE WorkerTake
    <2>1. task' \in Task /\ _queue' \in Seq(Task)
        BY <1>1 DEF WorkerTake
    <2> QED
        BY <1>1, <2>1 DEF WorkerTake
<1>2. CASE WorkerTakeDead
    <2>1. crashed' \in BOOLEAN
        BY <1>2, Zenon DEF WorkerTakeDead
    <2> QED
        BY <1>2, <2>1 DEF WorkerTakeDead
<1>3. CASE WorkerLogin
    <2>1. crashed' \in BOOLEAN /\ asked' \in BOOLEAN
        BY <1>3, Zenon DEF WorkerLogin, CallApi
    <2> QED
        BY <1>3, <2>1 DEF WorkerLogin
<1>4. CASE WorkerTick
    <2>1. rows' \in [Symbols -> Seq(Nat)]
        BY <1>4 DEF WorkerTick
    <2> QED
        BY <1>4, <2>1 DEF WorkerTick
<1>5. CASE WorkerCast
    BY <1>5 DEF WorkerCast
<1> QED
    BY <1>1, <1>2, <1>3, <1>4, <1>5 DEF Worker

LEMMA TypeStep == TypeOK /\ [Next]_vars => TypeOK'
<1>1. TypeOK /\ UNCHANGED vars => TypeOK'
    BY DEF TypeOK, vars, mainVars, ctpVars, callbackVars, fileVars,
       workerVars, countVars
<1> QED
    BY <1>1, TypeMain, TypeCallback, TypeCtp, TypeWorker DEF Next

-----------------------------------------------------------------------------
(* The order in which the session is built *)

LEMMA BuiltStep == IInv /\ [Next]_vars => BuiltInOrder'
<1> SUFFICES ASSUME IInv, [Next]_vars PROVE BuiltInOrder'
    OBVIOUS
<1> USE DEF IInv, BuiltInOrder, mainVars, ctpVars, callbackVars, fileVars,
       workerVars, countVars, Readable
<1>1. CASE Main
    BY <1>1 DEF TypeOK, Main, MainStep, MainInit, MainCreate, MainStart,
       MainUnregister, MainRelease, MainClear, MainReturn, MainExit
<1>2. CASE Callback
    BY <1>2 DEF TypeOK, Callback, SubscribeRead, SubscribeSpin,
       SubscribeRequest
<1>3. CASE Ctp
    <2>1. ctp \notin {"none", "created"}
        BY <1>3 DEF TypeOK, Ctp, Connect, Lose, Disconnect, LoginReply, Other,
           Tick, CanReport, CanCallBack
    <2>2. UNCHANGED <<main, api, ctp, spi, has_file, long_line>>
          /\ (callback' = callback \/ callback' = "subscribe")
        BY <1>3 DEF Ctp, Connect, Lose, Disconnect, LoginReply, Other, Tick
    <2> QED
        BY <2>1, <2>2
<1>4. CASE Worker
    BY <1>4 DEF Worker, WorkerRuns, WorkerTake, WorkerTakeDead, WorkerLogin,
       WorkerTick, WorkerCast, EmptyTask, NewTask, CastOnly
<1>5. CASE UNCHANGED vars
    BY <1>5 DEF vars
<1> QED
    BY <1>1, <1>2, <1>3, <1>4, <1>5 DEF Next

(* Until main closes the session, a thread that calls through _api finds the
   running object. *)
LEMMA ApiIsUsable ==
    ASSUME IInv, ~Closing, callback # "idle" \/ task # EmptyTask
    PROVE  ApiUsable
BY DEF IInv, BuiltInOrder, TypeOK, Closing, ApiUsable

LEMMA CrashStep == IInv /\ [Next]_vars => CrashOnlyInClose'
<1> SUFFICES ASSUME IInv, [Next]_vars PROVE CrashOnlyInClose'
    OBVIOUS
<1> USE DEF CrashOnlyInClose, mainVars, ctpVars, callbackVars, fileVars,
       workerVars, countVars, Readable
<1>1. CASE UNCHANGED <<main, has_file, long_line, crashed>>
    BY <1>1 DEF IInv, Closing
<1>2. CASE Main
    BY <1>2 DEF IInv, Closing, Main, MainStep, MainInit, MainCreate,
       MainStart, MainUnregister, MainRelease, MainClear, MainReturn, MainExit
<1>3. CASE SubscribeSpin
    BY <1>3 DEF IInv, BuiltInOrder, SubscribeSpin
<1>4. CASE SubscribeRequest \/ WorkerLogin
    <2>1. CallApi /\ UNCHANGED <<main, has_file, long_line>>
          /\ (callback # "idle" \/ task # EmptyTask)
        BY <1>4 DEF SubscribeRequest, WorkerLogin, EmptyTask, NewTask
    <2>2. CASE Closing
        BY <2>1, <2>2 DEF Closing
    <2>3. CASE ~Closing
        <3>1. crashed' = FALSE
            BY <2>1, <2>3, ApiIsUsable, Zenon DEF CallApi
        <3> QED
            BY <3>1
    <2> QED
        BY <2>2, <2>3
<1>5. CASE WorkerTakeDead
    BY <1>5 DEF WorkerTakeDead, Closing
<1>6. CASE Ctp
    BY <1>1, <1>6 DEF Ctp, Connect, Lose, Disconnect, LoginReply, Other, Tick
<1>7. CASE SubscribeRead \/ WorkerTake \/ WorkerTick \/ WorkerCast
    BY <1>1, <1>7 DEF SubscribeRead, WorkerTake, WorkerTick, WorkerCast
<1> QED
    BY <1>1, <1>2, <1>3, <1>4, <1>5, <1>6, <1>7 DEF Next, Callback, Worker,
       vars

(* No step of main that is not part of closing touches the connection. *)
LEMMA MainKeepsConnection ==
    ASSUME Main, ~Closing'
    PROVE  /\ ~Closing
           /\ UNCHANGED <<front, session, logins, asked, callback, _queue,
                          task>>
BY DEF Closing, Main, MainStep, MainInit, MainCreate, MainStart,
   MainUnregister, MainRelease, MainClear, MainReturn, MainExit, ctpVars,
   callbackVars, workerVars

LEMMA SubscribeStep == IInv /\ [Next]_vars => SubscribeInSession'
<1> SUFFICES ASSUME IInv, [Next]_vars, ~Closing', callback' # "idle"
             PROVE  front' # "down" /\ session' # "none"
    BY DEF SubscribeInSession
<1> USE DEF mainVars, ctpVars, callbackVars, fileVars, workerVars, countVars
<1>1. CASE UNCHANGED <<main, front, session, callback>>
    BY <1>1 DEF IInv, SubscribeInSession, Closing
<1>2. CASE Main
    BY <1>2, MainKeepsConnection DEF IInv, SubscribeInSession
<1>3. CASE Callback
    BY <1>3 DEF IInv, SubscribeInSession, Closing, Callback, SubscribeRead,
       SubscribeSpin, SubscribeRequest
<1>4. CASE LoginReply
    BY <1>4 DEF LoginReply
<1>5. CASE Lose
    BY <1>5 DEF IInv, SubscribeInSession, Closing, Lose
<1>6. CASE Connect \/ Disconnect
    BY <1>6 DEF Connect, Disconnect, CanReport
<1>7. CASE Other \/ \E s \in Symbols : Tick(s)
    BY <1>1, <1>7 DEF Other, Tick
<1>8. CASE Worker
    BY <1>1, <1>8 DEF Worker, WorkerTake, WorkerTakeDead, WorkerLogin,
       WorkerTick, WorkerCast
<1> QED
    BY <1>1, <1>2, <1>3, <1>4, <1>5, <1>6, <1>7, <1>8 DEF Next, Ctp, vars

-----------------------------------------------------------------------------
(* A login follows every connection *)

(* What is on its way stays there when a task is appended, and when the worker
   takes one. *)
LEMMA AppendKeeps ==
    ASSUME TypeOK, NEW name, NEW t \in Task, OnItsWay(name),
           _queue' = Append(_queue, t), task' = task
    PROVE  OnItsWay(name)'
BY DEF TypeOK, OnItsWay

LEMMA TakeKeeps ==
    ASSUME TypeOK, OnItsWay("ON_FRONT_CONNECTED"), WorkerTake
    PROVE  OnItsWay("ON_FRONT_CONNECTED")'
<1>1. _queue \in Seq(Task) /\ _queue # << >>
      /\ task' = _queue[1] /\ _queue' = Tail(_queue)
    BY DEF TypeOK, WorkerTake
<1>2. task.name # "ON_FRONT_CONNECTED"
    BY DEF WorkerTake, EmptyTask, NewTask
<1>3. PICK i \in 1 .. Len(_queue) : _queue[i].name = "ON_FRONT_CONNECTED"
    BY <1>2 DEF OnItsWay
<1>4. CASE i = 1
    BY <1>1, <1>3, <1>4 DEF OnItsWay
<1>5. CASE i > 1
    <2>1. i - 1 \in 1 .. Len(_queue') /\ _queue'[i - 1] = _queue[i]
        BY <1>1, <1>5
    <2> QED
        BY <1>3, <2>1 DEF OnItsWay
<1> QED
    BY <1>4, <1>5

LEMMA LoginStep == IInv /\ [Next]_vars => LoginFollowsConnect'
<1> SUFFICES ASSUME IInv, [Next]_vars, front' = "up", ~Closing', ~asked'
             PROVE  OnItsWay("ON_FRONT_CONNECTED")'
    BY DEF LoginFollowsConnect
<1> USE DEF mainVars, ctpVars, callbackVars, fileVars, workerVars, countVars
<1>0. TypeOK
    BY DEF IInv
<1>1. CASE UNCHANGED <<main, front, asked, _queue, task>>
    BY <1>1 DEF IInv, LoginFollowsConnect, Closing, OnItsWay
<1>2. CASE Main
    <2>1. UNCHANGED <<front, asked, _queue, task>> /\ ~Closing
        BY <1>2, MainKeepsConnection
    <2> QED
        BY <2>1 DEF IInv, LoginFollowsConnect, OnItsWay
<1>3. CASE Connect
    <2>1. spi
        BY <1>3 DEF IInv, BuiltInOrder, Closing, Connect, CanReport
    <2>2. _queue' = Append(_queue, NewTask("ON_FRONT_CONNECTED", NoData))
        BY <1>3, <2>1 DEF Connect, Report
    <2>3. _queue'[Len(_queue) + 1].name = "ON_FRONT_CONNECTED"
          /\ Len(_queue') = Len(_queue) + 1 /\ Len(_queue) \in Nat
        BY <1>0, <2>2 DEF TypeOK, NewTask
    <2> QED
        BY <2>3 DEF OnItsWay
<1>4. CASE Lose \/ Disconnect
    BY <1>4 DEF Lose, Disconnect
<1>5. CASE LoginReply \/ Other \/ \E s \in Symbols : Tick(s)
    <2>1. UNCHANGED <<main, front, asked, task>>
        BY <1>5 DEF LoginReply, Other, Tick
    <2>2. OnItsWay("ON_FRONT_CONNECTED")
        BY <2>1 DEF IInv, LoginFollowsConnect, Closing
    <2>3. \E t \in Task : _queue' = Append(_queue, t)
        BY <1>0, <1>5, TaskTypes DEF TypeOK, LoginReply, Other, Tick, Report,
           CanCallBack, CastOnly
    <2> QED
        BY <1>0, <2>1, <2>2, <2>3, AppendKeeps
<1>6. CASE WorkerTake
    <2>1. OnItsWay("ON_FRONT_CONNECTED")
        BY <1>6 DEF IInv, LoginFollowsConnect, Closing, WorkerTake
    <2> QED
        BY <1>0, <1>6, <2>1, TakeKeeps
<1>7. CASE WorkerLogin
    <2>1. ~Closing /\ front = "up"
        BY <1>7 DEF WorkerLogin, Closing
    <2>2. ApiUsable
        BY <1>7, <2>1, ApiIsUsable DEF WorkerLogin, EmptyTask, NewTask
    <2>3. asked' = TRUE
        BY <1>7, <2>1, <2>2 DEF WorkerLogin
    <2> QED
        BY <2>3
<1>8. CASE WorkerTick \/ WorkerCast
    <2>1. UNCHANGED <<main, front, asked, _queue>>
          /\ task.name # "ON_FRONT_CONNECTED"
        BY <1>8 DEF WorkerTick, WorkerCast, CastOnly
    <2>2. OnItsWay("ON_FRONT_CONNECTED")
        BY <2>1 DEF IInv, LoginFollowsConnect, Closing
    <2> QED
        BY <2>1, <2>2 DEF OnItsWay
<1>9. CASE Callback \/ WorkerTakeDead \/ UNCHANGED vars
    BY <1>1, <1>9 DEF Callback, SubscribeRead, SubscribeSpin,
       SubscribeRequest, WorkerTakeDead, vars
<1> QED
    BY <1>2, <1>3, <1>4, <1>5, <1>6, <1>7, <1>8, <1>9 DEF Next, Ctp, Worker

-----------------------------------------------------------------------------
(* No tick is lost *)

LEMMA IntervalGrows ==
    ASSUME NEW a \in Nat, NEW b \in Nat, a <= b + 1
    PROVE  (a .. b) \union {b + 1} = a .. (b + 1)
OBVIOUS

LEMMA IntervalShrinks ==
    ASSUME NEW a \in Nat, NEW b \in Nat
    PROVE  (a .. b) \ {a} = (a + 1) .. b
OBVIOUS

LEMMA FlightItems ==
    ASSUME TypeOK
    PROVE  /\ Len(InFlight) = Len(_queue) + 1
           /\ InFlight[1] = task
           /\ \A i \in 1 .. Len(_queue) : InFlight[i + 1] = _queue[i]
           /\ InFlight \in Seq(Task)
BY DEF TypeOK, InFlight

LEMMA FlightTypes ==
    ASSUME TypeOK, NEW s \in Symbols, NEW i \in TicksOf(s)
    PROVE  /\ i \in 1 .. Len(InFlight)
           /\ InFlight[i] \in Task
           /\ InFlight[i].data.seq \in Nat
           /\ InFlight[i].name = "ON_RTN_DEPTH_MARKET_DATA"
<1>1. i \in 1 .. Len(InFlight) /\ InFlight[i].data.symbol = s
    BY DEF TicksOf
<1>2. InFlight[i] \in Task
    BY <1>1, FlightItems
<1>3. InFlight[i].data # NoData
    BY <1>1, SymbolsAssumption DEF NoData
<1>4. InFlight[i].name = "ON_RTN_DEPTH_MARKET_DATA"
    BY <1>2, <1>3 DEF Task
<1> QED
    BY <1>1, <1>2, <1>4, TaskTypes

LEMMA TicksKept ==
    ASSUME NoTickLost, UNCHANGED <<_queue, task, rows, received>>
    PROVE  NoTickLost'
BY DEF NoTickLost, TicksOf, InFlight

(* A task is appended; it is a tick of at most one symbol. *)
LEMMA AppendedTicks ==
    ASSUME TypeOK, TypeOK', NEW t \in Task, NEW s \in Symbols,
           _queue' = Append(_queue, t), task' = task
    PROVE  /\ \A i \in 1 .. Len(InFlight) : InFlight'[i] = InFlight[i]
           /\ Len(InFlight') = Len(InFlight) + 1
           /\ InFlight'[Len(InFlight) + 1] = t
           /\ TicksOf(s)' = IF t.data.symbol = s
                            THEN TicksOf(s) \union {Len(InFlight) + 1}
                            ELSE TicksOf(s)
<1>0. _queue \in Seq(Task) /\ task \in Task
    BY DEF TypeOK
<1>1. Len(InFlight') = Len(InFlight) + 1 /\ Len(InFlight) \in Nat
    BY <1>0, FlightItems DEF InFlight
<1>2. \A i \in 1 .. Len(InFlight) : InFlight'[i] = InFlight[i]
    BY <1>0 DEF InFlight
<1>3. InFlight'[Len(InFlight) + 1] = t
    BY <1>0 DEF InFlight
<1> QED
    BY <1>1, <1>2, <1>3 DEF TicksOf

LEMMA OtherTasksKeepTicks ==
    ASSUME TypeOK, TypeOK', NoTickLost, NEW t \in Task, t.data = NoData,
           _queue' = Append(_queue, t), UNCHANGED <<task, rows, received>>
    PROVE  NoTickLost'
<1> SUFFICES ASSUME NEW s \in Symbols
             PROVE  /\ TicksOf(s)' = TicksOf(s)
                    /\ \A i \in TicksOf(s) : InFlight'[i] = InFlight[i]
    BY DEF NoTickLost
<1>1. t.data.symbol # s
    BY SymbolsAssumption DEF NoData
<1> QED
    BY <1>1, AppendedTicks DEF TicksOf

LEMMA TicksStay ==
    ASSUME TypeOK, TypeOK', NoTickLost, NEW t \in Symbols, Tick(t)
    PROVE  NoTickLost'
<1> DEFINE new == NewTask("ON_RTN_DEPTH_MARKET_DATA",
                          [symbol |-> t, seq |-> received[t] + 1])
<1>1. new \in Task /\ new.data.symbol = t /\ new.data.seq = received[t] + 1
    BY TaskTypes DEF NewTask, TypeOK
<1>2. _queue' = Append(_queue, new) /\ UNCHANGED <<task, rows>>
      /\ received' = [received EXCEPT ![t] = @ + 1]
    BY DEF Tick, workerVars
<1> HIDE DEF new
<1> SUFFICES ASSUME NEW s \in Symbols
             PROVE  /\ Len(rows[s]) <= received'[s]
                    /\ {InFlight'[i].data.seq : i \in TicksOf(s)'}
                         = (Len(rows[s]) + 1) .. received'[s]
                    /\ \A i, j \in TicksOf(s)' : i < j =>
                            InFlight'[i].data.seq < InFlight'[j].data.seq
    BY <1>2 DEF NoTickLost
<1>3. Len(rows[s]) \in Nat /\ received[s] \in Nat /\ rows[s] \in Seq(Nat)
    BY DEF TypeOK
<1>4. CASE s # t
    <2>1. received'[s] = received[s]
        BY <1>2, <1>4 DEF TypeOK
    <2>2. TicksOf(s)' = TicksOf(s)
          /\ \A i \in TicksOf(s) : InFlight'[i] = InFlight[i]
        BY <1>1, <1>2, <1>4, AppendedTicks DEF TicksOf
    <2>3. {InFlight'[i].data.seq : i \in TicksOf(s)'}
            = {InFlight[i].data.seq : i \in TicksOf(s)}
        BY <2>2
    <2> QED
        BY <2>1, <2>2, <2>3 DEF NoTickLost
<1>5. CASE s = t
    <2>1. received'[s] = received[s] + 1
        BY <1>2, <1>5 DEF TypeOK
    <2>2. TicksOf(s)' = TicksOf(s) \union {Len(InFlight) + 1}
          /\ (\A i \in TicksOf(s) : InFlight'[i] = InFlight[i])
          /\ InFlight'[Len(InFlight) + 1].data.seq = received[s] + 1
        BY <1>1, <1>2, <1>5, AppendedTicks DEF TicksOf
    <2>3. {InFlight'[i].data.seq : i \in TicksOf(s)'}
            = {InFlight[i].data.seq : i \in TicksOf(s)} \union {received[s] + 1}
        BY <2>2
    <2>4. {InFlight'[i].data.seq : i \in TicksOf(s)'}
            = (Len(rows[s]) + 1) .. received'[s]
        <3>1. {InFlight[i].data.seq : i \in TicksOf(s)}
                = (Len(rows[s]) + 1) .. received[s]
              /\ Len(rows[s]) + 1 <= received[s] + 1
            BY <1>3 DEF NoTickLost
        <3>2. Len(rows[s]) + 1 \in Nat
            BY <1>3
        <3>3. ((Len(rows[s]) + 1) .. received[s]) \union {received[s] + 1}
                = (Len(rows[s]) + 1) .. (received[s] + 1)
            BY <1>3, <3>1, <3>2, IntervalGrows
        <3> QED
            BY <2>1, <2>3, <3>1, <3>3
    <2>5. \A i \in TicksOf(s) : i < Len(InFlight) + 1
                               /\ InFlight[i].data.seq < received[s] + 1
        <3> TAKE i \in TicksOf(s)
        <3>1. InFlight[i].data.seq \in (Len(rows[s]) + 1) .. received[s]
            BY DEF NoTickLost
        <3> QED
            BY <1>3, <3>1, FlightTypes
    <2>6. ASSUME NEW i \in TicksOf(s)', NEW j \in TicksOf(s)', i < j
          PROVE  InFlight'[i].data.seq < InFlight'[j].data.seq
        <3>1. Len(InFlight) \in Nat /\ \A k \in TicksOf(s) : k \in Nat
            BY FlightItems, FlightTypes
        <3>2. i \in TicksOf(s)
            BY <2>2, <2>5, <2>6, <3>1
        <3>3. CASE j \in TicksOf(s)
            BY <2>2, <2>6, <3>2, <3>3 DEF NoTickLost
        <3>4. CASE j = Len(InFlight) + 1
            BY <2>2, <2>5, <3>2, <3>4
        <3> QED
            BY <2>2, <3>3, <3>4
    <2> QED
        BY <1>3, <2>1, <2>4, <2>6 DEF NoTickLost
<1> QED
    BY <1>4, <1>5

(* The worker takes the head: what is in flight moves up by one. *)
LEMMA TakenTicks ==
    ASSUME TypeOK, TypeOK', NoTickLost, WorkerTake
    PROVE  NoTickLost'
<1>1. task = EmptyTask /\ _queue # << >> /\ task' = _queue[1]
      /\ _queue' = Tail(_queue) /\ UNCHANGED <<rows, received>>
    BY DEF TypeOK, WorkerTake, countVars
<1>2. Len(InFlight') = Len(InFlight) - 1
      /\ \A i \in 1 .. Len(InFlight') : InFlight'[i] = InFlight[i + 1]
    BY <1>1 DEF TypeOK, InFlight
<1>3. Len(InFlight) \in Nat /\ InFlight[1].data = NoData
    BY <1>1, FlightItems DEF EmptyTask, NewTask
<1> SUFFICES ASSUME NEW s \in Symbols
             PROVE  /\ {InFlight'[i].data.seq : i \in TicksOf(s)'}
                         = {InFlight[i].data.seq : i \in TicksOf(s)}
                    /\ \A i, j \in TicksOf(s)' : i < j =>
                            InFlight'[i].data.seq < InFlight'[j].data.seq
    BY <1>1 DEF NoTickLost
<1>4. 1 \notin TicksOf(s)
    BY <1>3, SymbolsAssumption DEF TicksOf, NoData
<1>5. \A i \in TicksOf(s)' : i \in Nat /\ i + 1 \in TicksOf(s)
                            /\ InFlight'[i] = InFlight[i + 1]
    BY <1>2, <1>3 DEF TicksOf
<1>6. \A i \in TicksOf(s) : i - 1 \in TicksOf(s)'
                           /\ InFlight'[i - 1] = InFlight[i]
    BY <1>2, <1>3, <1>4 DEF TicksOf
<1>7. {InFlight'[i].data.seq : i \in TicksOf(s)'}
        = {InFlight[i].data.seq : i \in TicksOf(s)}
    BY <1>5, <1>6
<1>8. ASSUME NEW i \in TicksOf(s)', NEW j \in TicksOf(s)', i < j
      PROVE  InFlight'[i].data.seq < InFlight'[j].data.seq
    <2>1. i + 1 < j + 1
        BY <1>5, <1>8
    <2> QED
        BY <1>5, <2>1 DEF NoTickLost
<1> QED
    BY <1>7, <1>8

(* The worker is done with its task: all others in flight are behind it. *)
LEMMA DoneTicks ==
    ASSUME TypeOK, task' = EmptyTask, _queue' = _queue, NEW s \in Symbols
    PROVE  /\ TicksOf(s)' = TicksOf(s) \ {1}
           /\ \A i \in TicksOf(s) : i > 1 => InFlight'[i] = InFlight[i]
<1>1. Len(InFlight') = Len(InFlight) /\ InFlight'[1] = EmptyTask
      /\ (\A i \in 1 .. Len(InFlight) : i > 1 => InFlight'[i] = InFlight[i])
    BY TaskTypes DEF TypeOK, InFlight
<1>2. EmptyTask.data.symbol # s
    BY SymbolsAssumption DEF EmptyTask, NewTask, NoData
<1> QED
    BY <1>1, <1>2 DEF TicksOf

LEMMA DoneOther ==
    ASSUME TypeOK, NoTickLost, task.name # "ON_RTN_DEPTH_MARKET_DATA",
           task' = EmptyTask, UNCHANGED <<_queue, rows, received>>
    PROVE  NoTickLost'
<1> SUFFICES ASSUME NEW s \in Symbols
             PROVE  /\ TicksOf(s)' = TicksOf(s)
                    /\ \A i \in TicksOf(s) : InFlight'[i] = InFlight[i]
    BY DEF NoTickLost
<1>1. 1 \notin TicksOf(s)
    BY FlightItems, FlightTypes
<1>2. \A i \in TicksOf(s) : i > 1
    BY <1>1, FlightTypes
<1> QED
    BY <1>1, <1>2, DoneTicks

LEMMA WrittenTicks ==
    ASSUME TypeOK, NoTickLost, WorkerTick
    PROVE  NoTickLost'
<1> DEFINE t == task.data.symbol
<1>1. task' = EmptyTask /\ UNCHANGED <<_queue, received>>
      /\ rows' = [rows EXCEPT ![t] = Append(@, task.data.seq)]
      /\ task.name = "ON_RTN_DEPTH_MARKET_DATA"
    BY DEF WorkerTick, countVars
<1>2. t \in Symbols /\ task.data.seq \in Nat
    BY <1>1, TaskTypes DEF TypeOK
<1>3. 1 \in TicksOf(t) /\ InFlight[1] = task
    BY FlightItems DEF TypeOK, TicksOf
<1> HIDE DEF t
<1> SUFFICES ASSUME NEW s \in Symbols
             PROVE  /\ Len(rows'[s]) <= received[s]
                    /\ \A n \in 1 .. Len(rows'[s]) : rows'[s][n] = n
                    /\ {InFlight'[i].data.seq : i \in TicksOf(s)'}
                         = (Len(rows'[s]) + 1) .. received[s]
                    /\ \A i, j \in TicksOf(s)' : i < j =>
                            InFlight'[i].data.seq < InFlight'[j].data.seq
    BY <1>1 DEF NoTickLost
<1>4. \A i \in TicksOf(s) : i \in Nat /\ i >= 1 /\ InFlight[i].data.seq \in Nat
    BY FlightTypes
<1>5. TicksOf(s)' = TicksOf(s) \ {1}
      /\ \A i \in TicksOf(s) \ {1} : InFlight'[i] = InFlight[i]
    BY <1>1, <1>4, DoneTicks
<1>6. \A i, j \in TicksOf(s)' : i < j =>
            InFlight'[i].data.seq < InFlight'[j].data.seq
    BY <1>5 DEF NoTickLost
<1>7. CASE s # t
    <2>1. rows'[s] = rows[s]
        BY <1>1, <1>2, <1>7 DEF TypeOK
    <2>2. 1 \notin TicksOf(s)
        BY <1>3, <1>7 DEF TicksOf
    <2> QED
        BY <1>5, <1>6, <2>1, <2>2 DEF NoTickLost
<1>8. CASE s = t
    <2>0. rows[s] \in Seq(Nat) /\ received[s] \in Nat
        BY DEF TypeOK
    <2>1. rows'[s] = Append(rows[s], task.data.seq)
        BY <1>1, <1>2, <1>8 DEF TypeOK
    <2>2. {InFlight[i].data.seq : i \in TicksOf(s)}
            = (Len(rows[s]) + 1) .. received[s]
        BY DEF NoTickLost
    <2>3. \A i \in TicksOf(s) \ {1} :
                task.data.seq < InFlight[i].data.seq
        BY <1>3, <1>4, <1>8 DEF NoTickLost
    <2>4. task.data.seq \in (Len(rows[s]) + 1) .. received[s]
        BY <1>3, <1>8, <2>2
    <2>5. \A n \in (Len(rows[s]) + 1) .. received[s] : task.data.seq <= n
        BY <1>2, <1>3, <1>4, <2>2, <2>3
    <2>6. task.data.seq = Len(rows[s]) + 1
        BY <2>0, <2>4, <2>5
    <2>7. {InFlight'[i].data.seq : i \in TicksOf(s)'}
            = {InFlight[i].data.seq : i \in TicksOf(s)} \ {task.data.seq}
        BY <1>3, <1>4, <1>5, <1>8, <2>3
    <2>8. Len(rows'[s]) = Len(rows[s]) + 1
          /\ \A n \in 1 .. Len(rows'[s]) : rows'[s][n] = n
        BY <2>0, <2>1, <2>6 DEF NoTickLost
    <2>9. {InFlight'[i].data.seq : i \in TicksOf(s)'}
            = (Len(rows'[s]) + 1) .. received[s]
        <3>1. Len(rows[s]) + 1 \in Nat
            BY <2>0
        <3>2. ((Len(rows[s]) + 1) .. received[s]) \ {Len(rows[s]) + 1}
                = (Len(rows[s]) + 1 + 1) .. received[s]
            BY <2>0, <3>1, IntervalShrinks
        <3> QED
            BY <2>2, <2>6, <2>7, <2>8, <3>2
    <2> QED
        BY <1>6, <2>0, <2>4, <2>6, <2>8, <2>9
<1> QED
    BY <1>7, <1>8

LEMMA TicksStep == TypeOK /\ NoTickLost /\ [Next]_vars => NoTickLost'
<1> SUFFICES ASSUME TypeOK, NoTickLost, [Next]_vars PROVE NoTickLost'
    OBVIOUS
<1> USE DEF mainVars, ctpVars, callbackVars, fileVars, workerVars, countVars
<1>0. TypeOK'
    BY TypeStep
<1>1. CASE Main \/ Callback \/ Lose \/ WorkerTakeDead \/ UNCHANGED vars
    <2>1. UNCHANGED <<_queue, task, rows, received>>
        BY <1>1 DEF Main, MainInit, MainCreate, MainStart, MainUnregister,
           MainRelease, MainClear, MainReturn, MainExit, Callback,
           SubscribeRead, SubscribeSpin, SubscribeRequest, Lose,
           WorkerTakeDead, vars
    <2> QED
        BY <2>1, TicksKept
<1>2. CASE Connect \/ Disconnect \/ LoginReply \/ Other
    <2>1. UNCHANGED <<task, rows, received>>
        BY <1>2 DEF Connect, Disconnect, LoginReply, Other
    <2>2. \E name \in CastOnly \union {"ON_FRONT_CONNECTED"} : Report(name)
        BY <1>2 DEF Connect, Disconnect, LoginReply, Other, CastOnly
    <2>3. CASE _queue' = _queue
        BY <2>1, <2>3, TicksKept
    <2>4. ASSUME NEW name \in CastOnly \union {"ON_FRONT_CONNECTED"},
                 _queue' = Append(_queue, NewTask(name, NoData))
          PROVE  NoTickLost'
        <3>1. NewTask(name, NoData) \in Task
              /\ NewTask(name, NoData).data = NoData
            BY TaskTypes DEF NewTask
        <3> QED
            BY <1>0, <2>1, <2>4, <3>1, OtherTasksKeepTicks
    <2> QED
        BY <2>2, <2>3, <2>4 DEF Report
<1>3. ASSUME NEW s \in Symbols, Tick(s)
      PROVE  NoTickLost'
    BY <1>0, <1>3, TicksStay
<1>4. CASE WorkerTake
    BY <1>0, <1>4, TakenTicks
<1>5. CASE WorkerLogin \/ WorkerCast
    <2>1. task.name # "ON_RTN_DEPTH_MARKET_DATA" /\ task' = EmptyTask
          /\ UNCHANGED <<_queue, rows, received>>
        BY <1>5 DEF WorkerLogin, WorkerCast, CastOnly
    <2> QED
        BY <2>1, DoneOther
<1>6. CASE WorkerTick
    BY <1>6, WrittenTicks
<1> QED
    BY <1>1, <1>2, <1>3, <1>4, <1>5, <1>6 DEF Next, Ctp, Worker

LEMMA TicksInit == Init => NoTickLost
<1> SUFFICES ASSUME Init, NEW s \in Symbols
             PROVE  /\ Len(rows[s]) <= received[s]
                    /\ \A n \in 1 .. Len(rows[s]) : rows[s][n] = n
                    /\ {InFlight[i].data.seq : i \in TicksOf(s)}
                         = (Len(rows[s]) + 1) .. received[s]
                    /\ \A i, j \in TicksOf(s) :
                            i < j => InFlight[i].data.seq < InFlight[j].data.seq
    BY DEF NoTickLost
<1>1. rows[s] = << >> /\ received[s] = 0 /\ _queue = << >>
      /\ task = EmptyTask
    BY DEF Init
<1>2. InFlight = <<EmptyTask>>
    BY <1>1 DEF InFlight
<1>3. EmptyTask.data.symbol # s
    BY SymbolsAssumption DEF EmptyTask, NewTask, NoData
<1>4. TicksOf(s) = {}
    BY <1>2, <1>3 DEF TicksOf
<1> QED
    BY <1>1, <1>4

-----------------------------------------------------------------------------
LEMMA SessionInit == Init => IInv
<1> SUFFICES ASSUME Init PROVE IInv
    OBVIOUS
<1>1. TypeOK
    BY TypeInit
<1>2. main = "init" /\ ctp = "none" /\ front = "down" /\ callback = "idle"
      /\ _queue = << >> /\ task = EmptyTask /\ ~crashed
    BY Zenon DEF Init
<1> QED
    BY <1>1, <1>2 DEF IInv, BuiltInOrder, LoginFollowsConnect,
       SubscribeInSession, CrashOnlyInClose

LEMMA SessionStep == IInv /\ [Next]_vars => IInv'
<1> SUFFICES ASSUME IInv, [Next]_vars PROVE IInv'
    OBVIOUS
<1>1. TypeOK'
    BY TypeStep DEF IInv
<1> QED
    BY <1>1, BuiltStep, LoginStep, SubscribeStep, CrashStep DEF IInv

LEMMA SessionInvariant == SafeSpec => []IInv
BY SessionInit, SessionStep, PTL DEF SafeSpec

(* Every variable keeps its type: the worker only ever holds tasks that the
   callbacks build, with the data its handler casts. *)
THEOREM TypeCorrect == SafeSpec => []TypeOK
BY TypeInit, TypeStep, PTL DEF SafeSpec

(* A connection that lasts is logged in on, or will be, however many earlier
   connections the worker has yet to hear of. *)
THEOREM LoginsFollowConnections == SafeSpec => []LoginFollowsConnect
<1>1. IInv => LoginFollowsConnect
    BY DEF IInv
<1> QED
    BY SessionInvariant, <1>1, PTL

(* subscribe() never runs on a connection without an answered login. *)
THEOREM SubscriptionsHaveSession == SafeSpec => []SubscribeInSession
<1>1. IInv => SubscribeInSession
    BY DEF IInv
<1> QED
    BY SessionInvariant, <1>1, PTL

(* No interleaving of the threads lets one of them use a bad _api before
   close() begins. *)
THEOREM ApiIsSafeUntilClose == SafeSpec => []CrashOnlyInClose
<1>1. IInv => CrashOnlyInClose
    BY DEF IInv
<1> QED
    BY SessionInvariant, <1>1, PTL

(* Every tick that the API delivered is written, in the worker's hands or in
   the queue, once and in its order, on whatever connection it came. *)
THEOREM TicksAreKept == SafeSpec => []NoTickLost
BY TypeInit, TypeStep, TicksInit, TicksStep, PTL DEF SafeSpec
=============================================================================
