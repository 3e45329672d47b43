---------------------------- MODULE ContractList ----------------------------
(***************************************************************************)
(* The list of contracts of the recorder, ./symbol/symbol.csv: class       *)
(* tdapi (ctpmdapi/tdapi.cpp) asks the trading server for all contracts    *)
(* and writes the file on the callback thread of the trader API, while     *)
(* MdApi::subscribe (mdapi.cpp) reads it on that of the market-data API;   *)
(* main starts the second 20 s after the first and nothing else orders     *)
(* them. Contents of a line other than the contract are left out.          *)
(*                                                                         *)
(* External: the trader API, its server (answers of a connection end with  *)
(* it), and the file system of the Windows build, where remove() fails on  *)
(* a file that is open.                                                    *)
(***************************************************************************)
EXTENDS Naturals, Sequences, FiniteSets, SequencesExt

CONSTANTS
    Contracts,      \* contracts of the exchange
    Expired,        \* those that only the file of another day names
    MaxOldLines,    \* bound: lines of that file
    MaxConnects,    \* bound: connections of the trader API
    MaxSubscribes,  \* bound: calls of subscribe()
    MaxFailures     \* bound: times the file cannot be opened to append

ASSUME ContractsAssumption ==
    /\ IsFiniteSet(Contracts) /\ Contracts # {}
    /\ Contracts \intersect Expired = {}
ASSUME BoundsAssumption ==
    {MaxOldLines, MaxConnects, MaxSubscribes, MaxFailures} \subseteq Nat

VARIABLES
    main,           \* the statement that main executes next
    front,          \* the trader's connection: "down", "up" or "lost" (and
                    \* OnFrontDisconnected is still to be called)
    session,        \* "none", "in" or "refused" on this connection
    logins,         \* login requests not answered on this connection
    query,          \* of this connection: "none", "asked" or "answered"
    unanswered,     \* contracts that it has not yet answered with
    exists, file,   \* symbol.csv: the contracts on its lines
    origin,         \* history: the connection whose query each line answers,
                    \* 0 for the lines of another day
    reader,         \* subscribe(): idle, read, request or spin
    read,           \* what it has read
    crashed,        \* the process has died
    connects, subscribes, failures,
    listed,         \* history: an answer has left the file complete
    held,           \* history: a remove() failed since the last that did not
    refused         \* history: the server has refused a login

tdVars == <<front, session, logins, query, unanswered, connects>>
fileVars == <<exists, file, origin, held, listed>>
readerVars == <<reader, read, subscribes>>
vars == <<main, tdVars, fileVars, readerVars, crashed, failures, refused>>

Names(lines) == {lines[i] : i \in DOMAIN lines}
Complete(lines) == Contracts \subseteq Names(lines)

Init ==
    /\ main = "init"
    /\ front = "down" /\ session = "none" /\ logins = 0
    /\ query = "none" /\ unanswered = {} /\ connects = 0
    /\ exists \in BOOLEAN
    /\ file \in IF exists THEN SeqOf(Contracts \union Expired, MaxOldLines)
               ELSE {<< >>}
    /\ origin = [i \in DOMAIN file |-> 0]
    /\ reader = "idle" /\ read = << >> /\ subscribes = 0
    /\ crashed = FALSE /\ failures = 0
    /\ listed = FALSE /\ held = FALSE /\ refused = FALSE

-----------------------------------------------------------------------------
(* main *)

MainQuery ==           \* tapi.init(); tapi.connect()
    /\ ~crashed /\ main = "init"
    /\ main' = "sleep"
    /\ UNCHANGED <<tdVars, fileVars, readerVars, crashed, failures, refused>>

MainRecord ==          \* Sleep(20000); api.init(); api.connect()
    /\ ~crashed /\ main = "sleep"
    /\ main' = "pause"
    /\ UNCHANGED <<tdVars, fileVars, readerVars, crashed, failures, refused>>

-----------------------------------------------------------------------------
(* The trader API's callback thread *)

Connect ==             \* OnFrontConnected: login()
    /\ ~crashed /\ main # "init" /\ front = "down" /\ connects < MaxConnects
    /\ front' = "up" /\ connects' = connects + 1
    /\ session' = "none" /\ logins' = 1
    /\ query' = "none" /\ unanswered' = {}
    /\ UNCHANGED <<main, fileVars, readerVars, crashed, failures, refused>>

Lose ==                \* external
    /\ ~crashed /\ front = "up" /\ connects < MaxConnects
    /\ front' = "lost"
    /\ UNCHANGED <<main, session, logins, query, unanswered, connects, fileVars,
                   readerVars, crashed, failures, refused>>

Disconnect ==          \* OnFrontDisconnected only logs
    /\ ~crashed /\ front = "lost"
    /\ front' = "down"
    /\ UNCHANGED <<main, session, logins, query, unanswered, connects, fileVars,
                   readerVars, crashed, failures, refused>>

FileOpen == reader \in {"read", "request"}     \* by subscribe()

RemoveFile ==
    IF FileOpen THEN held' = TRUE /\ UNCHANGED <<exists, file, origin, listed>>
    ELSE /\ exists' = FALSE /\ file' = << >> /\ origin' = << >>
         /\ held' = FALSE /\ UNCHANGED listed

LoginReplyKeeps ==     \* mutant: the file of the last query is not removed
    /\ ~crashed /\ front = "up" /\ logins > 0
    /\ logins' = 0
    /\ session' \in {"in", "refused"}
    /\ refused' = (refused \/ session' = "refused")
    /\ query' = "asked"
    /\ unanswered' = IF session' = "in" THEN Contracts ELSE {}
    /\ UNCHANGED <<main, front, connects, fileVars, readerVars, crashed,
                   failures>>

LoginReplyRepeats ==   \* mutant: OnRspUserLogin leads to another login
    /\ ~crashed /\ front = "up" /\ logins > 0
    /\ session' \in {"in", "refused"}
    /\ refused' = (refused \/ session' = "refused")
    /\ RemoveFile
    /\ query' = "asked"
    /\ unanswered' = IF session' = "in" THEN Contracts ELSE {}
    /\ UNCHANGED <<main, front, logins, connects, readerVars, crashed, failures>>

(* OnRspUserLogin does not look at the error: query_all_contract() removes the
   file, and asks for contracts, also after a refusal. *)
LoginReply ==
    /\ ~crashed /\ front = "up" /\ logins > 0
    /\ logins' = 0
    /\ session' \in {"in", "refused"}
    /\ refused' = (refused \/ session' = "refused")
    /\ RemoveFile
    /\ query' = "asked"
    /\ unanswered' = IF session' = "in" THEN Contracts ELSE {}
    /\ UNCHANGED <<main, front, connects, readerVars, crashed, failures>>

Answered(c) ==
    /\ ~crashed /\ front = "up" /\ query = "asked" /\ c \in unanswered
    /\ unanswered' = unanswered \ {c}
    /\ query' = IF unanswered = {c} THEN "answered" ELSE "asked"
    /\ UNCHANGED <<main, front, session, logins, connects, readerVars, crashed,
                   refused>>

AnswerExisting(c) ==   \* mutant: the file is not created
    /\ Answered(c)
    /\ file' = IF exists THEN Append(file, c) ELSE file
    /\ origin' = IF exists THEN Append(origin, connects) ELSE origin
    /\ listed' = (listed \/ Complete(file'))
    /\ UNCHANGED <<exists, held, failures>>

(* OnRspQryInstrument appends a line; bIsLast is not looked at. *)
Answer(c) ==
    /\ Answered(c)
    /\ exists' = TRUE
    /\ file' = Append(file, c) /\ origin' = Append(origin, connects)
    /\ listed' = (listed \/ Complete(file'))
    /\ UNCHANGED <<held, failures>>

AnswerUnopened(c) ==   \* if the file cannot be opened the contract is left out
    /\ Answered(c) /\ failures < MaxFailures
    /\ failures' = failures + 1
    /\ UNCHANGED fileVars

(* A query without a session may be answered with an error and no contract:
   OnRspQryInstrument reads through the null pointer, if it opens the file. *)
AnswerNull ==
    /\ ~crashed /\ front = "up" /\ query = "asked" /\ session = "refused"
    /\ query' = "answered"
    /\ exists' = TRUE /\ crashed' = TRUE
    /\ UNCHANGED <<main, front, session, logins, unanswered, connects, file,
                   origin, listed, held, readerVars, failures, refused>>

-----------------------------------------------------------------------------
(* The market-data API's callback thread: MdApi::subscribe, after a login *)

SubscribeOpen ==       \* a stream that fails to open never reaches eof
    /\ ~crashed /\ main = "pause" /\ reader = "idle"
    /\ subscribes < MaxSubscribes /\ subscribes' = subscribes + 1
    /\ reader' = IF exists THEN "read" ELSE "spin"
    /\ read' = << >>
    /\ UNCHANGED <<main, tdVars, fileVars, crashed, failures, refused>>

(* getline, until eof as the file stands then. A line that is too long for its
   buffer is treated in MdSession. *)
SubscribeLine ==
    /\ ~crashed /\ reader = "read"
    /\ IF Len(read) < Len(file)
       THEN read' = Append(read, file[Len(read) + 1]) /\ UNCHANGED reader
       ELSE reader' = "request" /\ UNCHANGED read
    /\ UNCHANGED <<main, tdVars, fileVars, subscribes, crashed, failures, refused>>

SubscribeRequest ==    \* SubscribeMarketData; the file is closed on return
    /\ ~crashed /\ reader = "request"
    /\ reader' = "idle" /\ read' = << >>
    /\ UNCHANGED <<main, tdVars, fileVars, subscribes, crashed, failures, refused>>

SubscribeSpin ==       \* the vector of names grows until memory ends
    /\ ~crashed /\ reader = "spin"
    /\ crashed' = TRUE
    /\ UNCHANGED <<main, tdVars, fileVars, readerVars, failures, refused>>

-----------------------------------------------------------------------------
Trader ==
    \/ Connect \/ Lose \/ Disconnect \/ LoginReply \/ AnswerNull
    \/ \E c \in Contracts : Answer(c) \/ AnswerUnopened(c)

Subscribe ==
    SubscribeOpen \/ SubscribeLine \/ SubscribeRequest \/ SubscribeSpin

Next == MainQuery \/ MainRecord \/ Trader \/ Subscribe

Spec == Init /\ [][Next]_vars

-----------------------------------------------------------------------------
TypeOK ==
    /\ main \in {"init", "sleep", "pause"}
    /\ front \in {"down", "up", "lost"}
    /\ session \in {"none", "in", "refused"}
    /\ logins \in 0 .. 1
    /\ query \in {"none", "asked", "answered"}
    /\ unanswered \subseteq Contracts
    /\ file \in Seq(Contracts \union Expired)
    /\ origin \in Seq(Nat) /\ Len(origin) = Len(file)
    /\ read \in Seq(Contracts \union Expired)
    /\ reader \in {"idle", "read", "request", "spin"}
    /\ {exists, crashed, listed, held, refused} \subseteq BOOLEAN
    /\ {connects, subscribes, failures} \subseteq Nat

(* When a query is answered the file names every contract, whatever earlier
   connections broke off and whether or not subscribe() held the file when it
   was to be removed; only a file that could not be opened costs a contract. *)
CompleteWhenAnswered ==
    query = "answered" /\ session = "in" /\ failures = 0 => Complete(file)

(* The lines that the query of connection n has added. *)
Added(n) == {file[i] : i \in {k \in DOMAIN file : origin[k] = n}}

(* The query that runs has added the contracts it was answered with, all of
   them if the file could be opened, and no other; older lines stand before
   newer ones, and no query names a contract twice. *)
AsFarAsItGot ==
    /\ query # "none" /\ session = "in" =>
           /\ Added(connects) \subseteq Contracts \ unanswered
           /\ failures = 0 => Added(connects) = Contracts \ unanswered
    /\ \A i, j \in DOMAIN file : i < j =>
           /\ origin[i] <= origin[j]
           /\ origin[i] = origin[j] /\ origin[i] # 0 => file[i] # file[j]

(* The file mixes no lines of two queries, nor of a query and another day, and
   while a query runs they are its own; except when subscribe() held the file
   as it was to be removed last: then the older lines stay before the new. *)
OneListUnlessHeld ==
    ~held => /\ \A i, j \in DOMAIN file : origin[i] = origin[j]
             /\ query # "none" => \A i \in DOMAIN file : origin[i] = connects

(* What subscribe() has read is a beginning of the file, also when the query
   writes on in the meantime: no line is skipped, or read of a file that is
   gone. So it is of one list unless the file holds two: OneListUnlessHeld. *)
ReadsFileFromStart == reader \in {"read", "request"} => IsPrefix(read, file)

(* The file is missing, and subscribe() fatal, only before the first query,
   or until the first answer to a query; a refused or broken query leaves it
   missing. *)
MissingBeforeAnswer ==
    ~exists => \/ query = "none"
               \/ unanswered = Contracts
               \/ session = "refused"
               \/ failures > 0

(* The file holds what the running query has been answered with so far, behind
   older lines only if the last remove() failed, and what subscribe() has read
   of it is a beginning of it. *)
FileFollowsQuery ==
    /\ TypeOK /\ CompleteWhenAnswered /\ AsFarAsItGot /\ OneListUnlessHeld
    /\ ReadsFileFromStart /\ MissingBeforeAnswer

(* A connection that lasts ends up with a complete file. *)
ListedInTheEnd ==
    front = "up" ~> \/ Complete(file)
                    \/ session = "refused" \/ failures > 0
                    \/ front # "up" \/ crashed

SubscribeOpens == reader = "idle" /\ reader' # "idle"

(* On the trader's first connection the query is made once: a list that was
   complete is complete whenever subscribe() opens it, which then neither
   spins nor misses a contract. *)
FirstListStays ==
    [][SubscribeOpens /\ listed /\ connects = 1 => Complete(file)]_vars
=============================================================================
