----------------------------- MODULE MdSession ------------------------------
(***************************************************************************)
(* The market-data session of the recorder: class MdApi of                 *)
(* ctpmdapi/mdapi.cpp driven by ctpmdapi/main.cpp. Three threads share the *)
(* object: main (init, connect, close, return), the callback thread of the *)
(* CTP API (the OnXxx methods, and subscribe() inside OnRspUserLogin), and *)
(* the worker that runs process_task. The queue between the last two is    *)
(* the abstract TaskQueue, as an atomic sequence.                          *)
(*                                                                         *)
(* The CTP API and its server are external: one connection that comes and  *)
(* goes, login requests that are answered while it lasts, and ticks of the *)
(* subscribed symbols. Contracts no longer traded are not told apart: the  *)
(* symbol file is the set of contracts it names, and whether each of its   *)
(* lines fits into the buffer that subscribe() reads it with.              *)
(***************************************************************************)
EXTENDS Naturals, Sequences

CONSTANTS
    Symbols,        \* contracts of the exchange
    None,           \* no contract
    MaxConnects,    \* bound: connections that the API establishes
    MaxTicks,       \* bound: ticks that the server sends for a symbol
    MaxOthers       \* bound: callbacks whose task the worker only casts

ASSUME SymbolsAssumption == None \notin Symbols
ASSUME BoundsAssumption == {MaxConnects, MaxTicks, MaxOthers} \subseteq Nat

VARIABLES
    main,           \* the statement that the main thread executes next
    api,            \* the member _api: "wild", "live" or "null"
    ctp,            \* the object it points to: "none", "created", "running"
                    \* or "released"
    spi,            \* this MdApi is registered with that object
    front,          \* the connection: "down", "up", or "lost" (broken, and
                    \* OnFrontDisconnected is still to be called)
    session,        \* "none", "in" or "refused" on this connection
    logins,         \* login requests not answered on this connection
    subs,           \* symbols subscribed on this connection
    callback,       \* the callback thread: "idle", or in subscribe():
                    \* "subscribe", "request" or "spin"
    has_file,       \* symbol.csv exists
    symbol_file,    \* the contracts that it names
    long_line,      \* one of its lines is longer than subscribe()'s buffer
    _queue,         \* tasks between the callback thread and the worker
    task,           \* process_task's local; EMPTY_TASK in wait_dequeue
    request_id,     \* the member request_id
    rows,           \* ticks in the file of each symbol
    received,       \* history: ticks received of each symbol
    asked,          \* history: a login was sent on this connection
    crashed,        \* the process has died of an undefined behaviour
    connects,       \* number of connections
    others          \* number of other callbacks

mainVars == <<main, api>>
ctpVars == <<ctp, spi, front, session, logins, subs, asked, connects>>
fileVars == <<has_file, symbol_file, long_line>>
callbackVars == <<callback, fileVars>>
workerVars == <<task, rows, request_id>>
countVars == <<received, others>>
vars == <<mainVars, ctpVars, callbackVars, _queue, workerVars, countVars,
          crashed>>

CastOnly == {"ON_FRONT_DISCONNECTED", "ON_RSP_USRLOGIN", "OTHER"}
NoData == [symbol |-> None, seq |-> 0]
Task == [name : CastOnly \union {"ON_FRONT_CONNECTED", "EMPTY_TASK"},
         data : {NoData}]
        \union
        [name : {"ON_RTN_DEPTH_MARKET_DATA"},
         data : [symbol : Symbols, seq : Nat \ {0}]]

NewTask(name, data) == [name |-> name, data |-> data]
EmptyTask == NewTask("EMPTY_TASK", NoData)

Init ==
    /\ main = "init" /\ api = "wild"
    /\ ctp = "none" /\ spi = FALSE /\ front = "down" /\ session = "none"
    /\ logins = 0 /\ subs = {} /\ asked = FALSE /\ connects = 0
    /\ callback = "idle"
    /\ has_file \in BOOLEAN
    /\ symbol_file \in IF has_file THEN SUBSET Symbols ELSE {{}}
    /\ long_line \in IF has_file THEN BOOLEAN ELSE {FALSE}
    /\ _queue = << >> /\ task = EmptyTask /\ request_id = 0
    /\ rows = [s \in Symbols |-> << >>]
    /\ received = [s \in Symbols |-> 0] /\ others = 0
    /\ crashed = FALSE

(* Nothing runs after the process has ended. *)
Alive == ~crashed /\ main # "exited"

(* main has begun to tear the session down. *)
Closing == main \notin {"init", "connect", "start", "pause"}

(* A call through _api: through a null pointer it ends the process, through
   one that is uninitialised or freed it may end it or may go unnoticed. *)
ApiUsable == api = "live" /\ ctp # "released" /\ main # "destroyed"

CallApi ==
    \/ ApiUsable /\ crashed' = FALSE
    \/ ~ApiUsable /\ crashed' = TRUE
    \/ ~ApiUsable /\ (api # "null" \/ main = "destroyed") /\ crashed' = FALSE

-----------------------------------------------------------------------------
(* main *)

MainStep(from, to) == Alive /\ main = from /\ main' = to

MainInit ==                            \* init(): the worker may run from here
    /\ MainStep("init", "connect")
    /\ UNCHANGED <<api, ctpVars, callbackVars, _queue, workerVars, countVars,
                   crashed>>

MainCreateLocal ==                     \* mutant: the result is not yet in _api
    /\ MainStep("connect", "start")
    /\ ctp' = "created" /\ spi' = TRUE
    /\ UNCHANGED <<api, front, session, logins, subs, asked, connects,
                   callbackVars, _queue, workerVars, countVars, crashed>>

MainCreate ==                          \* CreateFtdcMdApi, RegisterSpi(this)
    /\ MainStep("connect", "start")
    /\ api' = "live" /\ ctp' = "created" /\ spi' = TRUE
    /\ UNCHANGED <<front, session, logins, subs, asked, connects,
                   callbackVars, _queue, workerVars, countVars, crashed>>

MainStart ==                           \* RegisterFront, Init()
    /\ MainStep("start", "pause")
    /\ ctp' = "running"
    /\ UNCHANGED <<api, spi, front, session, logins, subs, asked, connects,
                   callbackVars, _queue, workerVars, countVars, crashed>>

MainUnregister ==                      \* a key; close(): RegisterSpi(nullptr)
    /\ MainStep("pause", "release")
    /\ spi' = FALSE
    /\ UNCHANGED <<api, ctp, front, session, logins, subs, asked, connects,
                   callbackVars, _queue, workerVars, countVars, crashed>>

MainRelease ==                         \* close(): Release()
    /\ MainStep("release", "clear")
    /\ ctp' = "released" /\ front' = "down"
    /\ UNCHANGED <<api, spi, session, logins, subs, asked, connects,
                   callbackVars, _queue, workerVars, countVars, crashed>>

MainClear ==                           \* close(): _api = nullptr
    /\ MainStep("clear", "return")
    /\ api' = "null"
    /\ UNCHANGED <<ctpVars, callbackVars, _queue, workerVars, countVars,
                   crashed>>

MainReturn ==                          \* ~MdApi detaches the worker, and the
    /\ MainStep("return", "destroyed") \* members are destroyed
    /\ UNCHANGED <<api, ctpVars, callbackVars, _queue, workerVars, countVars,
                   crashed>>

MainExit ==                            \* the other threads end with main
    /\ MainStep("destroyed", "exited")
    /\ UNCHANGED <<api, ctpVars, callbackVars, _queue, workerVars, countVars,
                   crashed>>

-----------------------------------------------------------------------------
(* The API's callback thread *)

(* The API reports an event when its thread is not in an earlier callback. *)
CanReport == Alive /\ ctp = "running" /\ callback = "idle"
CanCallBack == CanReport /\ spi

Report(name) ==                        \* the task of a callback, if registered
    _queue' = IF spi THEN Append(_queue, NewTask(name, NoData)) ELSE _queue

ConnectSubscribes ==                   \* mutant: subscribe() does not wait for
    /\ CanReport /\ front = "down"     \* the login
    /\ connects < MaxConnects
    /\ front' = "up" /\ connects' = connects + 1
    /\ session' = "none" /\ logins' = 0 /\ subs' = {} /\ asked' = FALSE
    /\ Report("ON_FRONT_CONNECTED")
    /\ callback' = "subscribe"
    /\ UNCHANGED <<mainVars, ctp, spi, fileVars, workerVars, countVars,
                   crashed>>

Connect ==                             \* OnFrontConnected
    /\ CanReport /\ front = "down" /\ connects < MaxConnects
    /\ front' = "up" /\ connects' = connects + 1
    /\ session' = "none" /\ logins' = 0 /\ subs' = {} /\ asked' = FALSE
    /\ Report("ON_FRONT_CONNECTED")
    /\ UNCHANGED <<mainVars, ctp, spi, callbackVars, workerVars, countVars,
                   crashed>>

(* External: the connection breaks, whatever the callback thread is doing;
   the bound on connections leaves one for the reconnection. *)
Lose ==
    /\ Alive /\ front = "up" /\ connects < MaxConnects
    /\ front' = "lost"
    /\ UNCHANGED <<mainVars, ctp, spi, session, logins, subs, asked, connects,
                   callbackVars, _queue, workerVars, countVars, crashed>>

DisconnectClears ==                    \* mutant: the backlog is thrown away
    /\ CanReport /\ front = "lost"
    /\ front' = "down"
    /\ _queue' = <<NewTask("ON_FRONT_DISCONNECTED", NoData)>>
    /\ UNCHANGED <<mainVars, ctp, spi, session, logins, subs, asked, connects,
                   callbackVars, workerVars, countVars, crashed>>

Disconnect ==                          \* OnFrontDisconnected
    /\ CanReport /\ front = "lost"
    /\ front' = "down"
    /\ Report("ON_FRONT_DISCONNECTED")
    /\ UNCHANGED <<mainVars, ctp, spi, session, logins, subs, asked, connects,
                   callbackVars, workerVars, countVars, crashed>>

LoginReplyOnce ==                      \* mutant: only the first login subscribes
    /\ CanCallBack /\ front = "up" /\ logins > 0
    /\ logins' = logins - 1
    /\ session' \in IF session = "in" THEN {"in"} ELSE {"in", "refused"}
    /\ Report("ON_RSP_USRLOGIN")
    /\ callback' = IF connects = 1 THEN "subscribe" ELSE "idle"
    /\ UNCHANGED <<mainVars, ctp, spi, front, subs, asked, connects,
                   fileVars, workerVars, countVars, crashed>>

(* OnRspUserLogin. A request is granted or refused; one that comes when the
   session is in has an error that changes nothing. The callback looks at
   no error: it pushes the task and calls subscribe(). *)
LoginReply ==
    /\ CanCallBack /\ front = "up" /\ logins > 0
    /\ logins' = logins - 1
    /\ session' \in IF session = "in" THEN {"in"} ELSE {"in", "refused"}
    /\ Report("ON_RSP_USRLOGIN")
    /\ callback' = "subscribe"
    /\ UNCHANGED <<mainVars, ctp, spi, front, subs, asked, connects,
                   fileVars, workerVars, countVars, crashed>>

Tick(s) ==                             \* OnRtnDepthMarketData
    /\ CanCallBack /\ front = "up" /\ s \in subs /\ received[s] < MaxTicks
    /\ received' = [received EXCEPT ![s] = @ + 1]
    /\ _queue' = Append(_queue,
                        NewTask("ON_RTN_DEPTH_MARKET_DATA",
                                [symbol |-> s, seq |-> received[s] + 1]))
    /\ UNCHANGED <<mainVars, ctpVars, callbackVars, workerVars, others,
                   crashed>>

(* The eight callbacks that only push a task: OnHeartBeatWarning, OnRspError,
   OnRspSubMarketData and those of requests the recorder never makes. *)
Other ==
    /\ CanCallBack /\ others < MaxOthers
    /\ others' = others + 1
    /\ Report("OTHER")
    /\ UNCHANGED <<mainVars, ctpVars, callbackVars, workerVars, received,
                   crashed>>

(* subscribe() reads the file until eof. A stream that failed to open never
   reaches eof, nor does one whose getline filled the buffer before the end of
   a line: that sets failbit, and every later getline returns at once. The loop
   goes on, and its vector grows until memory ends. *)
Readable == has_file /\ ~long_line

SubscribeRead ==
    /\ Alive /\ callback = "subscribe"
    /\ callback' = IF Readable THEN "request" ELSE "spin"
    /\ UNCHANGED <<mainVars, ctpVars, fileVars, _queue, workerVars,
                   countVars, crashed>>

SubscribeSpin ==
    /\ Alive /\ callback = "spin"
    /\ crashed' = TRUE
    /\ UNCHANGED <<mainVars, ctpVars, callbackVars, _queue, workerVars,
                   countVars>>

SubscribeRequestBlank ==               \* mutant: the server knows the empty name
    /\ Alive /\ callback = "request"
    /\ CallApi
    /\ subs' = IF ApiUsable /\ front = "up" /\ session = "in"
               THEN subs \union symbol_file \union {None}
               ELSE subs
    /\ callback' = "idle"
    /\ UNCHANGED <<mainVars, ctp, spi, front, session, logins, asked,
                   connects, fileVars, _queue, workerVars, countVars>>

SubscribeRequestRetry ==               \* mutant: repeated until it is accepted
    /\ Alive /\ callback = "request"
    /\ CallApi
    /\ IF ApiUsable /\ front = "up"
       THEN subs' = subs \union symbol_file /\ callback' = "idle"
       ELSE UNCHANGED <<subs, callback>>
    /\ UNCHANGED <<mainVars, ctp, spi, front, session, logins, asked,
                   connects, fileVars, _queue, workerVars, countVars>>

(* _api->SubscribeMarketData; its result is only logged. *)
SubscribeRequest ==
    /\ Alive /\ callback = "request"
    /\ CallApi
    /\ subs' = IF ApiUsable /\ front = "up" /\ session = "in"
               THEN subs \union symbol_file
               ELSE subs
    /\ callback' = "idle"
    /\ UNCHANGED <<mainVars, ctp, spi, front, session, logins, asked,
                   connects, fileVars, _queue, workerVars, countVars>>

-----------------------------------------------------------------------------
(* The worker: process_task *)

WorkerRuns == Alive /\ main # "init"

WorkerTake ==                          \* wait_dequeue(task)
    /\ WorkerRuns /\ main # "destroyed"
    /\ task = EmptyTask /\ _queue # << >>
    /\ task' = Head(_queue)
    /\ _queue' = Tail(_queue)
    /\ UNCHANGED <<mainVars, ctpVars, callbackVars, rows, request_id,
                   countVars, crashed>>

(* wait_dequeue on the queue that ~MdApi destroyed, with the semaphore in it. *)
WorkerTakeDead ==
    /\ Alive /\ main = "destroyed" /\ task = EmptyTask
    /\ crashed' = TRUE
    /\ UNCHANGED <<mainVars, ctpVars, callbackVars, _queue, workerVars,
                   countVars>>

WorkerLoginOnce ==                     \* mutant: logs in a single time
    /\ WorkerRuns /\ task.name = "ON_FRONT_CONNECTED"
    /\ CallApi
    /\ request_id' = request_id + 1
    /\ IF ApiUsable /\ front = "up" /\ request_id = 0
       THEN logins' = logins + 1 /\ asked' = TRUE
       ELSE UNCHANGED <<logins, asked>>
    /\ task' = EmptyTask
    /\ UNCHANGED <<mainVars, ctp, spi, front, session, subs, connects,
                   callbackVars, _queue, rows, countVars>>

WorkerLogin ==                         \* process_on_front_connected: login()
    /\ WorkerRuns /\ task.name = "ON_FRONT_CONNECTED"
    /\ CallApi
    /\ request_id' = request_id + 1
    /\ IF ApiUsable /\ front = "up"
       THEN logins' = logins + 1 /\ asked' = TRUE
       ELSE UNCHANGED <<logins, asked>>
    /\ task' = EmptyTask
    /\ UNCHANGED <<mainVars, ctp, spi, front, session, subs, connects,
                   callbackVars, _queue, rows, countVars>>

WorkerTick ==                          \* process_on_rtn_depth_market_data
    /\ WorkerRuns /\ task.name = "ON_RTN_DEPTH_MARKET_DATA"
    /\ rows' = [rows EXCEPT ![task.data.symbol] = Append(@, task.data.seq)]
    /\ task' = EmptyTask
    /\ UNCHANGED <<mainVars, ctpVars, callbackVars, _queue, request_id,
                   countVars, crashed>>

WorkerCastNoLogin ==                   \* mutant: a throwing login handler
    /\ WorkerRuns /\ task.name \in CastOnly \ {"ON_RSP_USRLOGIN"}
    /\ task' = EmptyTask
    /\ UNCHANGED <<mainVars, ctpVars, callbackVars, _queue, rows, request_id,
                   countVars, crashed>>

WorkerCast ==                          \* the handlers that only cast the task
    /\ WorkerRuns /\ task.name \in CastOnly
    /\ task' = EmptyTask
    /\ UNCHANGED <<mainVars, ctpVars, callbackVars, _queue, rows, request_id,
                   countVars, crashed>>

-----------------------------------------------------------------------------
Main ==
    \/ MainInit \/ MainCreate \/ MainStart
    \/ MainUnregister \/ MainRelease \/ MainClear \/ MainReturn \/ MainExit

Callback == SubscribeRead \/ SubscribeSpin \/ SubscribeRequest

Ctp ==
    \/ Connect \/ Lose \/ Disconnect \/ LoginReply \/ Other
    \/ \E s \in Symbols : Tick(s)

Worker ==
    \/ WorkerTake \/ WorkerTakeDead \/ WorkerLogin \/ WorkerTick \/ WorkerCast

Next == Main \/ Callback \/ Ctp \/ Worker

SafeSpec == Init /\ [][Next]_vars

(* The threads run; the API connects, reports a lost connection, and the
   server answers a login, in the end. Nobody needs to press the key that ends
   the pause, no tick has to come, and memory need not run out. *)
Fairness ==
    /\ WF_vars(MainInit \/ MainCreate \/ MainStart)
    /\ WF_vars(SubscribeRead \/ SubscribeRequest)
    /\ WF_vars(WorkerTake \/ WorkerLogin \/ WorkerTick \/ WorkerCast)
    /\ WF_vars(Connect) /\ WF_vars(Disconnect)
    /\ WF_vars(LoginReply)

Spec == SafeSpec /\ Fairness

-----------------------------------------------------------------------------
TypeOK ==
    /\ main \in {"init", "connect", "start", "pause", "release", "clear",
                "return", "destroyed", "exited"}
    /\ api \in {"wild", "live", "null"}
    /\ ctp \in {"none", "created", "running", "released"}
    /\ spi \in BOOLEAN
    /\ front \in {"down", "up", "lost"}
    /\ session \in {"none", "in", "refused"}
    /\ logins \in Nat /\ connects \in Nat /\ others \in Nat
    /\ subs \subseteq Symbols
    /\ asked \in BOOLEAN
    /\ callback \in {"idle", "subscribe", "request", "spin"}
    /\ has_file \in BOOLEAN /\ symbol_file \subseteq Symbols
    /\ long_line \in BOOLEAN
    /\ _queue \in Seq(Task) /\ task \in Task
    /\ request_id \in Nat
    /\ rows \in [Symbols -> Seq(Nat)]
    /\ received \in [Symbols -> Nat]
    /\ crashed \in BOOLEAN

InFlight == <<task>> \o _queue

OnItsWay(name) ==
    \/ task.name = name
    \/ \E i \in 1 .. Len(_queue) : _queue[i].name = name

(* The worker logs in although it learns of the connection late, from a queue
   that may still hold the news of earlier connections: while a connection
   lasts, either a login was sent on it or a task that will send one is on
   its way. *)
LoginFollowsConnect ==
    front = "up" /\ ~Closing /\ ~asked => OnItsWay("ON_FRONT_CONNECTED")

(* subscribe() runs on the callback thread of a connection that has answered a
   login: while it runs the API cannot report that the connection is gone, so
   it never asks for contracts on a later connection that has no session. *)
SubscribeInSession ==
    callback # "idle" /\ ~Closing => front # "down" /\ session # "none"

(* Every tick that the API delivered is in the file of its symbol, or in the
   worker's hands, or queued, once and in order, across reconnections and
   resubscriptions. *)
TicksOf(s) == {i \in 1 .. Len(InFlight) : InFlight[i].data.symbol = s}

NoTickLost ==
    \A s \in Symbols :
        /\ Len(rows[s]) <= received[s]
        /\ \A n \in 1 .. Len(rows[s]) : rows[s][n] = n
        /\ {InFlight[i].data.seq : i \in TicksOf(s)}
             = (Len(rows[s]) + 1) .. received[s]
        /\ \A i, j \in TicksOf(s) :
                i < j => InFlight[i].data.seq < InFlight[j].data.seq

(* Before close() begins no thread uses _api uninitialised, null or freed,
   although the worker and the callback thread use it without a lock; only a
   symbol file that is missing, or has a line that is too long, kills the
   process earlier. *)
CrashOnlyInClose == crashed => Closing \/ ~Readable

(* What makes the safety invariants inductive: the order in which main builds
   the session, nothing of which happens before the API runs. *)
BuiltInOrder ==
    /\ main \in {"init", "connect"} => ctp = "none"
    /\ main = "start" => api = "live" /\ ctp = "created" /\ spi
    /\ main = "pause" => api = "live" /\ ctp = "running" /\ spi
    /\ ctp \in {"none", "created"} =>
        /\ front = "down" /\ callback = "idle"
        /\ _queue = << >> /\ task = EmptyTask
    /\ callback = "spin" => ~Readable

IInv ==
    /\ TypeOK
    /\ BuiltInOrder
    /\ LoginFollowsConnect
    /\ SubscribeInSession
    /\ CrashOnlyInClose

(* A connection that lasts ends up with every contract of the symbol file
   subscribed, unless the server refuses the login. *)
SubscribedInTheEnd ==
    front = "up" /\ Readable ~>
        \/ symbol_file \subseteq subs
        \/ session = "refused" \/ front # "up" \/ Closing

(* A tick that was received is written, unless the program ends first. *)
TicksAreWritten ==
    \A s \in Symbols : \A n \in 1 .. MaxTicks :
        received[s] >= n ~> Len(rows[s]) >= n \/ Closing

(* A lost connection is reported and replaced: subscribe() on the callback
   thread does not hold up the API for ever while its file exists and has no
   line that is too long. *)
Reconnects ==
    front = "lost" /\ Readable ~> front = "up" \/ Closing

(* mdapi.h:102 on OnFrontDisconnected: "the API will reconnect automatically,
   the client need not do anything". *)
ReconnectsByItself == front = "lost" ~> front = "up" \/ Closing
=============================================================================
