--------------------------- MODULE TickFileProofs ---------------------------
(***************************************************************************)
(* Theorems of TickFile, for every size of header and tick lines and every *)
(* number of ticks, kills and failed calls.                                *)
(***************************************************************************)
EXTENDS TickFile, TLAPS

(* What HeaderFirst needs to be inductive: an empty file has size 0, for
   which insert_data writes the header, so that there is one when the tick
   line is written. *)
FileInv ==
    /\ TypeOK
    /\ HeaderFirst
    /\ size = 0 <=> file = << >>
    /\ pc = "tick" /\ good => file # << >>

(* A tick is lost only because of a failure: the folder is missing, and the
   stream not open, only after one. *)
LossInv ==
    /\ LossNeedsFailure
    /\ pc = "open" /\ ~folder => failures > 0
    /\ pc = "tick" /\ ~good => failures > 0

LEMMA LinesAreLines == Header \in Line /\ \A n \in Nat : TickLine(n) \in Line
BY DEF Header, TickLine, Line

LEMMA FileInit == Init => FileInv /\ LossInv
<1> SUFFICES ASSUME Init PROVE FileInv /\ LossInv
    OBVIOUS
<1>0. ~good /\ good \in BOOLEAN /\ folder \in BOOLEAN
    BY Zenon DEF Init
<1>1. TypeOK
    BY <1>0 DEF Init, TypeOK
<1>2. file = << >> /\ size = 0 /\ pc = "idle" /\ lost = {}
    BY DEF Init
<1> QED
    BY <1>1, <1>2 DEF FileInv, LossInv, HeaderFirst, LossNeedsFailure

LEMMA FileStep == FileInv /\ [Next]_vars => FileInv'
<1> SUFFICES ASSUME FileInv, [Next]_vars PROVE FileInv'
    OBVIOUS
<1> USE BoundsAssumption, SizesAssumption DEF FileInv, TypeOK, HeaderFirst
<1>1. CASE NextTick
    BY <1>1 DEF NextTick
<1>2. CASE MakeFolder
    <2>1. folder' \in BOOLEAN
        BY <1>2, Zenon DEF MakeFolder
    <2> QED
        BY <1>2, <2>1 DEF MakeFolder, Fail
<1>3. CASE Open
    BY <1>3 DEF Open
<1>4. CASE OpenFails
    <2>1. ~good' /\ good' \in BOOLEAN
        BY <1>4, Zenon DEF OpenFails
    <2> QED
        BY <1>4, <2>1 DEF OpenFails, Fail
<1>5. CASE InsertHead
    <2>1. Write(Header, HeaderSize) /\ good /\ pc' = "tick"
          /\ UNCHANGED <<folder, good, tick, lost, failures>>
        BY <1>5 DEF InsertHead
    <2>2. file' = Append(file, Header) /\ size' = size + HeaderSize
        BY <2>1 DEF Write
    <2>3. file' \in Seq(Line) /\ size' \in Nat /\ size' # 0 /\ file' # << >>
        BY <2>2, LinesAreLines
    <2>4. file'[1] = Header
        BY <2>2
    <2> QED
        BY <2>1, <2>3, <2>4
<1>6. ASSUME NEW bytes \in TickSizes, InsertTick(bytes)
      PROVE  FileInv'
    <2>0. ~good' /\ good' \in BOOLEAN
        BY <1>6, Zenon DEF InsertTick
    <2>1. pc = "tick" /\ Write(TickLine(tick), bytes) /\ pc' = "idle"
          /\ UNCHANGED <<folder, tick, failures>>
          /\ lost' \subseteq Nat /\ bytes \in Nat \ {0}
        BY <1>6 DEF InsertTick
    <2>2. CASE good
        <3>1. file' = Append(file, TickLine(tick)) /\ size' = size + bytes
            BY <2>1, <2>2 DEF Write
        <3>2. file' \in Seq(Line) /\ size' \in Nat /\ size' # 0
              /\ file' # << >>
            BY <2>1, <3>1, LinesAreLines
        <3>3. file'[1] = Header
            BY <2>1, <2>2, <3>1
        <3> QED
            BY <2>0, <2>1, <3>2, <3>3
    <2>3. CASE ~good
        BY <2>0, <2>1, <2>3 DEF Write
    <2> QED
        BY <2>2, <2>3
<1>7. CASE Killed
    <2>1. ~good' /\ good' \in BOOLEAN
        BY <1>7, Zenon DEF Killed
    <2> QED
        BY <1>7, <2>1 DEF Killed, Fail
<1>8. CASE UNCHANGED vars
    BY <1>8 DEF vars
<1> QED
    BY <1>1, <1>2, <1>3, <1>4, <1>5, <1>6, <1>7, <1>8 DEF Next

LEMMA LossStep == TypeOK /\ LossInv /\ [Next]_vars => LossInv'
<1> SUFFICES ASSUME TypeOK, LossInv, [Next]_vars PROVE LossInv'
    OBVIOUS
<1> USE BoundsAssumption DEF LossInv, LossNeedsFailure, TypeOK, Fail
<1>1. CASE NextTick \/ MakeFolder \/ Open \/ OpenFails
    BY <1>1 DEF NextTick, MakeFolder, Open, OpenFails
<1>2. CASE InsertHead \/ Killed \/ UNCHANGED vars
    BY <1>2 DEF InsertHead, Killed, vars
<1>3. ASSUME NEW bytes \in TickSizes, InsertTick(bytes)
      PROVE  LossInv'
    BY <1>3 DEF InsertTick
<1> QED
    BY <1>1, <1>2, <1>3 DEF Next

LEMMA AppendStep ==
    TypeOK /\ [Next]_vars =>
        Len(file') >= Len(file) /\ SubSeq(file', 1, Len(file)) = file
<1> SUFFICES ASSUME TypeOK, [Next]_vars
             PROVE  Len(file') >= Len(file) /\ SubSeq(file', 1, Len(file)) = file
    OBVIOUS
<1>1. file \in Seq(Line)
    BY DEF TypeOK
<1>2. CASE UNCHANGED file
    BY <1>1, <1>2
<1>3. ASSUME NEW line \in Line, file' = Append(file, line)
      PROVE  Len(file') >= Len(file) /\ SubSeq(file', 1, Len(file)) = file
    BY <1>1, <1>3
<1>4. CASE InsertHead
    BY <1>2, <1>3, <1>4, LinesAreLines DEF InsertHead, Write
<1>5. ASSUME NEW bytes \in TickSizes, InsertTick(bytes)
      PROVE  Len(file') >= Len(file) /\ SubSeq(file', 1, Len(file)) = file
    BY <1>2, <1>3, <1>5, LinesAreLines DEF InsertTick, Write, TypeOK
<1> QED
    BY <1>2, <1>4, <1>5 DEF Next, NextTick, MakeFolder, Open, OpenFails,
       Killed, vars

(* What OneHeader needs: the header of a file that is not empty is only
   written when a positive size is a multiple of IntValues. *)
HeaderInv ==
    /\ OneHeader
    /\ pc = "head" => size = 0 \/ size >= IntValues

LEMMA SmallRemainder ==
    ASSUME NEW n \in Nat, n % IntValues = 0
    PROVE  n = 0 \/ n >= IntValues
BY SizesAssumption

LEMMA HeaderStep == FileInv /\ HeaderInv /\ [Next]_vars => HeaderInv'
<1> SUFFICES ASSUME FileInv, HeaderInv, [Next]_vars PROVE HeaderInv'
    OBVIOUS
<1> USE SizesAssumption DEF HeaderInv
<1>0. file \in Seq(Line) /\ size \in Nat
    BY DEF FileInv, TypeOK
<1>1. ASSUME UNCHANGED <<file, size>>, pc' # "head" \/ pc' = pc
      PROVE  HeaderInv'
    BY <1>1 DEF OneHeader
<1>2. CASE Open
    <2>1. UNCHANGED <<file, size>>
          /\ (pc' = "head" => size % IntValues = 0)
        BY <1>2 DEF Open
    <2>2. pc' = "head" => size = 0 \/ size >= IntValues
        BY <1>0, <2>1, SmallRemainder
    <2> QED
        BY <2>1, <2>2 DEF OneHeader
<1>3. CASE InsertHead
    <2>1. pc = "head" /\ good /\ pc' = "tick"
          /\ file' = Append(file, Header) /\ size' = size + HeaderSize
        BY <1>3 DEF InsertHead, Write, FileInv, TypeOK
    <2>2. CASE file = << >>
        BY <1>0, <2>1, <2>2 DEF OneHeader
    <2>3. CASE file # << >>
        <3>1. size' > IntValues /\ size' \in Nat
            BY <1>0, <2>1, <2>3 DEF FileInv
        <3> QED
            BY <2>1, <3>1 DEF OneHeader
    <2> QED
        BY <2>2, <2>3
<1>4. ASSUME NEW bytes \in TickSizes, InsertTick(bytes)
      PROVE  HeaderInv'
    <2>1. pc' = "idle" /\ Write(TickLine(tick), bytes)
        BY <1>4 DEF InsertTick
    <2>2. CASE good
        <3>1. file' = Append(file, TickLine(tick)) /\ size' = size + bytes
              /\ bytes \in Nat
            BY <1>4, <2>1, <2>2 DEF Write
        <3>2. TickLine(tick) # Header
            BY DEF TickLine, Header
        <3>3. ASSUME NEW i \in 2 .. Len(file'), file'[i] = Header
              PROVE  size' > IntValues
            <4>1. i \in 2 .. Len(file) /\ file[i] = Header
                BY <1>0, <3>1, <3>2, <3>3
            <4> QED
                BY <1>0, <3>1, <4>1 DEF OneHeader
        <3> QED
            BY <2>1, <3>3 DEF OneHeader
    <2>3. CASE ~good
        BY <1>1, <2>1, <2>3 DEF Write
    <2> QED
        BY <2>2, <2>3
<1> QED
    BY <1>1, <1>2, <1>3, <1>4 DEF Next, NextTick, MakeFolder, OpenFails,
       Killed, vars

-----------------------------------------------------------------------------
(* The lines and the ticks *)

(* What LinesAreTicks needs: a tick is lost when it is done with, and the tick
   in the worker's hands is behind all that are done. *)
LinesInv ==
    /\ LinesAreTicks
    /\ lost \subseteq Done
    /\ pc # "idle" => tick > 0

(* Steps that end no tick. *)
LEMMA LinesKept ==
    ASSUME TypeOK, LinesInv, UNCHANGED <<file, lost>>, Done' = Done,
           pc' # "idle" => tick' > 0
    PROVE  LinesInv'
BY DEF LinesInv, LinesAreTicks, TickLines

(* The header is not a tick line. *)
LEMMA HeaderIsNoTick ==
    ASSUME TypeOK, file' = Append(file, Header)
    PROVE  /\ TickLines' = TickLines
           /\ \A i \in TickLines : file'[i] = file[i]
BY DEF TypeOK, TickLines, Header

LEMMA TickIsAdded ==
    ASSUME TypeOK, file' = Append(file, TickLine(tick))
    PROVE  /\ TickLines' = TickLines \union {Len(file) + 1}
           /\ \A i \in TickLines : file'[i] = file[i] /\ i < Len(file) + 1
           /\ file'[Len(file) + 1].tick = tick
BY DEF TypeOK, TickLines, TickLine

LEMMA LinesStep == TypeOK /\ LinesInv /\ [Next]_vars => LinesInv'
<1> SUFFICES ASSUME TypeOK, LinesInv, [Next]_vars PROVE LinesInv'
    OBVIOUS
<1> USE DEF TypeOK
<1>1. CASE NextTick
    <2>1. UNCHANGED <<file, lost>> /\ Done' = Done /\ tick' > 0
        BY <1>1 DEF NextTick, Done
    <2> QED
        BY <2>1, LinesKept
<1>2. CASE MakeFolder \/ Open \/ OpenFails \/ UNCHANGED vars
    <2>1. UNCHANGED <<file, lost>> /\ Done' = Done
          /\ (pc' # "idle" => tick' > 0)
        BY <1>2 DEF LinesInv, MakeFolder, Open, OpenFails, vars, Done
    <2> QED
        BY <2>1, LinesKept
<1>3. CASE InsertHead
    <2>1. UNCHANGED lost /\ Done' = Done /\ Write(Header, HeaderSize)
          /\ (pc' # "idle" => tick' > 0)
        BY <1>3 DEF LinesInv, InsertHead, Done
    <2>2. CASE file' = Append(file, Header)
        BY <2>1, <2>2, HeaderIsNoTick DEF LinesInv, LinesAreTicks
    <2>3. CASE UNCHANGED file
        BY <2>1, <2>3, LinesKept
    <2> QED
        BY <2>1, <2>2, <2>3 DEF Write
<1>4. ASSUME NEW bytes \in TickSizes, InsertTick(bytes)
      PROVE  LinesInv'
    <2>1. pc = "tick" /\ pc' = "idle" /\ tick' = tick
          /\ Write(TickLine(tick), bytes)
          /\ lost' = IF good THEN lost ELSE lost \union {tick}
        BY <1>4 DEF InsertTick
    <2>2. tick \notin Done /\ Done' = Done \union {tick}
          /\ (\A n \in Done : n < tick)
        BY <2>1 DEF LinesInv, Done
    <2>3. CASE good
        <3>1. file' = Append(file, TickLine(tick)) /\ lost' = lost
            BY <2>1, <2>3 DEF Write
        <3>2. {file'[i].tick : i \in TickLines'}
                = {file[i].tick : i \in TickLines} \union {tick}
            BY <3>1, TickIsAdded
        <3>3. {file'[i].tick : i \in TickLines'} = Done' \ lost'
            BY <2>2, <3>1, <3>2 DEF LinesInv, LinesAreTicks
        <3>4. \A i \in TickLines : file[i].tick < tick
            BY <2>2 DEF LinesInv, LinesAreTicks
        <3>5. ASSUME NEW i \in TickLines', NEW j \in TickLines', i < j
              PROVE  file'[i].tick < file'[j].tick
            BY <3>1, <3>4, <3>5, TickIsAdded DEF LinesInv, LinesAreTicks,
               TickLines
        <3> QED
            BY <2>1, <2>2, <3>1, <3>3, <3>5 DEF LinesInv, LinesAreTicks
    <2>4. CASE ~good
        <3>1. file' = file /\ lost' = lost \union {tick}
            BY <2>1, <2>4 DEF Write
        <3> QED
            BY <2>1, <2>2, <3>1 DEF LinesInv, LinesAreTicks, TickLines
    <2> QED
        BY <2>3, <2>4
<1>5. CASE Killed
    <2>1. file' = file /\ tick' = tick /\ pc' = "idle"
          /\ lost' = IF pc = "idle" THEN lost ELSE lost \union {tick}
        BY <1>5 DEF Killed
    <2>2. CASE pc = "idle"
        BY <2>1, <2>2, LinesKept DEF Done
    <2>3. CASE pc # "idle"
        <3>1. tick \notin Done /\ Done' = Done \union {tick}
            BY <2>1, <2>3 DEF LinesInv, Done
        <3>2. Done' \ lost' = Done \ lost /\ lost' \subseteq Done'
            BY <2>1, <2>3, <3>1 DEF LinesInv
        <3> QED
            BY <2>1, <3>2 DEF LinesInv, LinesAreTicks, TickLines
    <2> QED
        BY <2>2, <2>3
<1> QED
    BY <1>1, <1>2, <1>3, <1>4, <1>5 DEF Next

-----------------------------------------------------------------------------
(* Wherever the process is killed and however often it is restarted, a tick
   file begins with its header. *)
THEOREM FilesBeginWithHeader == Spec => []WellFormed
<1>1. FileInv => WellFormed
    BY DEF FileInv, WellFormed
<1> QED
    BY FileInit, FileStep, <1>1, PTL DEF Spec

(* No tick that the worker processed goes missing without a failure. *)
THEOREM LossesHaveACause == Spec => []LossNeedsFailure
<1>1. FileInv => TypeOK
    BY DEF FileInv
<1>2. LossInv => LossNeedsFailure
    BY DEF LossInv
<1> QED
    BY FileInit, FileStep, LossStep, <1>1, <1>2, PTL DEF Spec

(* Below the range of the int there is one header, whatever is killed. *)
THEOREM HeadersAreFirst == Spec => []OneHeader
<1>1. Init => HeaderInv
    BY DEF Init, HeaderInv, OneHeader
<1>2. HeaderInv => OneHeader
    BY DEF HeaderInv
<1> QED
    BY FileInit, FileStep, HeaderStep, <1>1, <1>2, PTL DEF Spec

(* Every tick that was processed is in the file once, in its order, unless it
   is one of those lost with the process or with a file that did not open. *)
THEOREM LinesFollowTicks == Spec => []LinesAreTicks
<1>1. Init => LinesInv
    BY DEF Init, LinesInv, LinesAreTicks, TickLines, Done
<1>2. FileInv => TypeOK
    BY DEF FileInv
<1>3. LinesInv => LinesAreTicks
    BY DEF LinesInv
<1> QED
    BY FileInit, FileStep, LinesStep, <1>1, <1>2, <1>3, PTL DEF Spec

(* No step rewrites what is in the file. *)
THEOREM FilesOnlyGrow == Spec => AppendOnly
<1>1. FileInv => TypeOK
    BY DEF FileInv
<1> QED
    BY FileInit, FileStep, AppendStep, <1>1, PTL DEF Spec, AppendOnly
=============================================================================
