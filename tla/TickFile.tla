------------------------------ MODULE TickFile ------------------------------
(***************************************************************************)
(* The tick file of one contract: the second half of                       *)
(* process_on_rtn_depth_market_data and insert_data, insert_head and       *)
(* insert_tick of ctpmdapi/mdapi.cpp, run by the worker for one tick after *)
(* the other. The process may be killed at any step and started again: the *)
(* file stays, what was not flushed is gone.                               *)
(***************************************************************************)
EXTENDS Naturals, Sequences

CONSTANTS
    HeaderSize,     \* bytes of the header line
    TickSizes,      \* bytes that a tick line may have
    IntValues,      \* values of the int that tellp() is cast to (2^32)
    MaxTicks,       \* bound: ticks of the contract
    MaxFailures     \* bound: kills of the process, and failures of a call

ASSUME SizesAssumption ==
    /\ HeaderSize \in Nat \ {0} /\ TickSizes \subseteq Nat \ {0}
    /\ IntValues \in Nat \ {0} /\ HeaderSize < IntValues
ASSUME BoundsAssumption == {MaxTicks, MaxFailures} \subseteq Nat

VARIABLES
    folder,     \* the folder of the contract's product exists
    file,       \* lines of the file: "header" or a tick
    size,       \* its size in bytes
    pc,         \* the worker: "idle", "folder", "open", "head" or "tick"
    good,       \* the fstream is open
    tick,       \* the tick it processes, the last one when it is idle
    lost,       \* history: the ticks of which no line was written
    failures    \* number of failures

vars == <<folder, file, size, pc, good, tick, lost, failures>>

Header == [kind |-> "header", tick |-> 0]
TickLine(n) == [kind |-> "tick", tick |-> n]
Line == [kind : {"header", "tick"}, tick : Nat]

Init ==
    /\ folder \in BOOLEAN
    /\ file = << >> /\ size = 0
    /\ pc = "idle" /\ good = FALSE /\ tick = 0
    /\ lost = {} /\ failures = 0

Fail == failures < MaxFailures /\ failures' = failures + 1

Write(line, bytes) ==        \* a stream that is not open takes no output
    IF good
    THEN file' = Append(file, line) /\ size' = size + bytes
    ELSE UNCHANGED <<file, size>>

-----------------------------------------------------------------------------
NextTick ==
    /\ pc = "idle" /\ tick < MaxTicks
    /\ tick' = tick + 1 /\ pc' = "folder"
    /\ UNCHANGED <<folder, file, size, good, lost, failures>>

MakeNoFolder ==              \* mutant: create_direction is not called
    /\ pc = "folder"
    /\ pc' = "open"
    /\ UNCHANGED <<folder, file, size, good, tick, lost, failures>>

(* create_direction if _access fails; the result of _mkdir is not looked at. *)
MakeFolder ==
    /\ pc = "folder"
    /\ \/ folder' = TRUE /\ UNCHANGED failures
       \/ ~folder /\ Fail /\ UNCHANGED folder
    /\ pc' = "open"
    /\ UNCHANGED <<file, size, good, tick, lost>>

OpenNeverNew ==              \* mutant: every file seems to have a header
    /\ pc = "open" /\ folder
    /\ good' = TRUE
    /\ pc' = "tick"
    /\ UNCHANGED <<folder, file, size, tick, lost, failures>>

OpenAtStart ==               \* mutant: not opened ios::ate
    /\ pc = "open" /\ folder
    /\ good' = TRUE
    /\ pc' = "head"
    /\ UNCHANGED <<folder, file, size, tick, lost, failures>>

OpenTruncates ==             \* mutant: not opened ios::app
    /\ pc = "open" /\ folder
    /\ good' = TRUE
    /\ file' = << >> /\ size' = 0
    /\ pc' = "head"
    /\ UNCHANGED <<folder, tick, lost, failures>>

(* fstream f(..., app | out | ate); static_cast<int>(f.tellp()) == ios::beg *)
Open ==
    /\ pc = "open" /\ folder
    /\ good' = TRUE
    /\ pc' = IF size % IntValues = 0 THEN "head" ELSE "tick"
    /\ UNCHANGED <<folder, file, size, tick, lost, failures>>

(* The folder is missing, or another program has the file: tellp() is -1. *)
OpenFails ==
    /\ pc = "open"
    /\ IF folder THEN Fail ELSE UNCHANGED failures
    /\ good' = FALSE
    /\ pc' = "tick"
    /\ UNCHANGED <<folder, file, size, tick, lost>>

InsertHead ==                \* ... << endl writes the line out
    /\ pc = "head"
    /\ Write(Header, HeaderSize)
    /\ pc' = "tick"
    /\ UNCHANGED <<folder, good, tick, lost, failures>>

InsertTickBehind(bytes) ==   \* mutant: the tick line is still in the buffer
    /\ pc = "tick"           \* when the stream is forgotten
    /\ IF size > HeaderSize
       THEN Write(TickLine(tick), bytes)
       ELSE UNCHANGED <<file, size>>
    /\ lost' = IF good THEN lost ELSE lost \union {tick}
    /\ good' = FALSE
    /\ pc' = "idle"
    /\ UNCHANGED <<folder, tick, failures>>

InsertTickOpen(bytes) ==     \* mutant: the stream is left open
    /\ pc = "tick"
    /\ Write(TickLine(tick), bytes)
    /\ lost' = IF good THEN lost ELSE lost \union {tick}
    /\ pc' = "idle"
    /\ UNCHANGED <<folder, good, tick, failures>>

InsertTick(bytes) ==         \* and the stream is closed
    /\ pc = "tick"
    /\ Write(TickLine(tick), bytes)
    /\ lost' = IF good THEN lost ELSE lost \union {tick}
    /\ good' = FALSE
    /\ pc' = "idle"
    /\ UNCHANGED <<folder, tick, failures>>

Killed ==                    \* and started again
    /\ Fail
    /\ lost' = IF pc = "idle" THEN lost ELSE lost \union {tick}
    /\ good' = FALSE
    /\ pc' = "idle"
    /\ UNCHANGED <<folder, file, size, tick>>

Next ==
    \/ NextTick \/ MakeFolder \/ Open \/ OpenFails \/ InsertHead
    \/ \E bytes \in TickSizes : InsertTick(bytes)
    \/ Killed

Spec == Init /\ [][Next]_vars

-----------------------------------------------------------------------------
TypeOK ==
    /\ folder \in BOOLEAN /\ good \in BOOLEAN
    /\ file \in Seq(Line) /\ size \in Nat
    /\ pc \in {"idle", "folder", "open", "head", "tick"}
    /\ tick \in Nat /\ failures \in Nat
    /\ lost \subseteq Nat
    /\ (pc \in {"idle", "folder", "open"} => ~good)
    /\ (pc = "head" => good)

(* A file that is not empty begins with the header, wherever the process was
   killed: no tick line can come before it. *)
HeaderFirst == file # << >> => file[1] = Header

(* The file is well formed in type and beginning. *)
WellFormed == TypeOK /\ HeaderFirst

(* There is one header until the size reaches the range of the int to which
   insert_data casts it: a kill between header and tick does not lead to a
   second header at the next start. *)
OneHeader ==
    \A i \in 2 .. Len(file) : file[i] = Header => size > IntValues

(* The tick lines are the ticks that were processed, once and in order, but
   for those lost with the process or with a file that could not be opened. *)
Done == IF pc = "idle" THEN 1 .. tick ELSE 1 .. (tick - 1)

TickLines == {i \in 1 .. Len(file) : file[i].kind = "tick"}

LinesAreTicks ==
    /\ {file[i].tick : i \in TickLines} = Done \ lost
    /\ \A i, j \in TickLines : i < j => file[i].tick < file[j].tick

(* Nothing is lost unless a call failed or the process was killed. *)
LossNeedsFailure == lost # {} => failures > 0

(* A line that was written stays as it is, over reopenings and restarts. *)
AppendOnly ==
    [][Len(file') >= Len(file) /\ SubSeq(file', 1, Len(file)) = file]_vars
=============================================================================
