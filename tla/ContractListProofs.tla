------------------------- MODULE ContractListProofs -------------------------
(***************************************************************************)
(* Theorems of ContractList, for every finite set of contracts and every   *)
(* number of connections, subscriptions and failures.                      *)
(***************************************************************************)
EXTENDS ContractList, TLAPS

(* What FileFollowsQuery needs to be inductive: the login that would remove the
   file is behind a query that runs, only a session has something to answer,
   and before its query no connection has added a line. *)
QueryInv ==
    /\ query # "none" => logins = 0 /\ session # "none"
    /\ query # "none" /\ session = "refused" => unanswered = {}
    /\ query = "answered" => unanswered = {}
    /\ front # "down" => connects > 0
    /\ \A i \in DOMAIN file : origin[i] <= connects
    /\ connects > 0 /\ query = "none" =>
           \A i \in DOMAIN file : origin[i] # connects

IInv == FileFollowsQuery /\ QueryInv

(* What FirstListStays needs: on the first connection nothing is listed before
   the only query, which comes after the only removal. *)
FirstInv ==
    /\ connects = 0 => front = "down" /\ query = "none" /\ logins = 0
    /\ connects <= 1 /\ query = "none" => ~listed
    /\ connects <= 1 /\ listed => Complete(file)

-----------------------------------------------------------------------------
(* An answer adds one name to the file. *)
LEMMA NamesOfAppend ==
    ASSUME NEW S, NEW lines \in Seq(S), NEW c \in S
    PROVE  Names(Append(lines, c)) = Names(lines) \union {c}
<1> DEFINE more == Append(lines, c)
<1>1. /\ DOMAIN lines = 1 .. Len(lines)
      /\ DOMAIN more = 1 .. (Len(lines) + 1)
      /\ \A i \in 1 .. Len(lines) : more[i] = lines[i]
      /\ more[Len(lines) + 1] = c
      /\ Len(lines) \in Nat
    OBVIOUS
<1>2. ASSUME NEW n \in Names(more) PROVE n \in Names(lines) \union {c}
    <2>1. PICK i \in DOMAIN more : n = more[i]
        BY <1>2 DEF Names
    <2>2. i \in 1 .. Len(lines) \/ i = Len(lines) + 1
        BY <1>1, <2>1
    <2> QED
        BY <1>1, <2>1, <2>2 DEF Names
<1>3. ASSUME NEW n \in Names(lines) \union {c} PROVE n \in Names(more)
    <2>1. CASE n = c
        <3>1. Len(lines) + 1 \in DOMAIN more /\ more[Len(lines) + 1] = n
            BY <1>1, <2>1
        <3> QED
            BY <3>1 DEF Names
    <2>2. CASE n \in Names(lines)
        <3>1. PICK i \in DOMAIN lines : n = lines[i]
            BY <2>2 DEF Names
        <3>2. i \in DOMAIN more /\ more[i] = n
            BY <1>1, <3>1
        <3> QED
            BY <3>2 DEF Names
    <2> QED
        BY <1>3, <2>1, <2>2
<1> QED
    BY <1>2, <1>3

(* What was read stays a beginning of a file that grows. *)
LEMMA PrefixOfAppend ==
    ASSUME NEW S, NEW got \in Seq(S), NEW lines \in Seq(S), NEW c \in S,
           IsPrefix(got, lines)
    PROVE  IsPrefix(got, Append(lines, c))
BY DEF IsPrefix

(* The next line of the file continues what was read of it. *)
LEMMA PrefixOfMore ==
    ASSUME NEW S, NEW got \in Seq(S), NEW lines \in Seq(S),
           IsPrefix(got, lines), Len(got) < Len(lines)
    PROVE  IsPrefix(Append(got, lines[Len(got) + 1]), lines)
<1> DEFINE n == Len(got)
           more == Append(got, lines[n + 1])
<1>1. n \in Nat /\ Len(more) = n + 1 /\ Len(more) <= Len(lines)
      /\ more \in Seq(S)
    OBVIOUS
<1>2. \A i \in 1 .. n : got[i] = lines[i]
    <2>1. SubSeq(got, 1, n) = SubSeq(lines, 1, n)
        BY DEF IsPrefix
    <2>2. \A i \in 1 .. n : SubSeq(got, 1, n)[i] = got[i]
                            /\ SubSeq(lines, 1, n)[i] = lines[i]
        BY <1>1
    <2> QED
        BY <2>1, <2>2
<1>3. \A i \in 1 .. (n + 1) : more[i] = lines[i]
    BY <1>1, <1>2
<1>4. SubSeq(more, 1, n + 1) = SubSeq(lines, 1, n + 1)
    BY <1>1, <1>3
<1> QED
    BY <1>1, <1>4 DEF IsPrefix

-----------------------------------------------------------------------------
LEMMA NoLines ==
    << >> \in Seq(Contracts \union Expired) /\ << >> \in Seq(Nat)
OBVIOUS

LEMMA InvInit == Init => IInv /\ FirstInv
<1> SUFFICES ASSUME Init PROVE IInv /\ FirstInv
    OBVIOUS
<1> DEFINE S == Contracts \union Expired
<1>1. /\ origin = [i \in DOMAIN file |-> 0]
      /\ main = "init" /\ front = "down" /\ session = "none" /\ logins = 0
      /\ query = "none" /\ unanswered = {} /\ connects = 0
      /\ reader = "idle" /\ read = << >> /\ subscribes = 0 /\ failures = 0
    BY DEF Init
<1>2. /\ exists \in BOOLEAN
      /\ ~crashed /\ ~listed /\ ~held /\ ~refused
      /\ {crashed, listed, held, refused} \subseteq BOOLEAN
    <2>1. crashed = FALSE /\ listed = FALSE /\ held = FALSE /\ refused = FALSE
        BY DEF Init
    <2> QED
        BY <2>1, Zenon DEF Init
<1>3. file \in Seq(S)
    <2>1. file \in SeqOf(S, MaxOldLines) \/ file = << >>
        BY DEF Init
    <2>2. \A n \in Nat : [1 .. n -> S] \subseteq Seq(S)
        OBVIOUS
    <2>3. SeqOf(S, MaxOldLines) \subseteq Seq(S)
        BY <2>2, BoundsAssumption DEF SeqOf
    <2> QED
        BY <2>1, <2>3, NoLines
<1>4. /\ origin \in Seq(Nat) /\ Len(origin) = Len(file)
      /\ \A i \in DOMAIN file : origin[i] = 0
    <2>1. DOMAIN file = 1 .. Len(file) /\ Len(file) \in Nat
        BY <1>3
    <2> QED
        BY <1>1, <2>1
<1>5. TypeOK
    <2>1. {connects, subscribes, failures} \subseteq Nat /\ logins \in 0 .. 1
          /\ read \in Seq(S) /\ unanswered = {}
        BY <1>1
    <2>2. {exists, crashed, listed, held, refused} \subseteq BOOLEAN
        BY <1>2, Zenon
    <2> QED
        BY <1>1, <1>3, <1>4, <2>1, <2>2, Zenon DEF TypeOK
<1> QED
    BY <1>1, <1>2, <1>4, <1>5 DEF IInv, FileFollowsQuery, QueryInv, FirstInv,
       CompleteWhenAnswered, AsFarAsItGot, OneListUnlessHeld,
       ReadsFileFromStart, MissingBeforeAnswer

(* The flags of TypeOK, and its other variables. *)
Flags == {exists, crashed, listed, held, refused} \subseteq BOOLEAN

Values ==
    /\ main \in {"init", "sleep", "pause"}
    /\ front \in {"down", "up", "lost"}
    /\ session \in {"none", "in", "refused"}
    /\ logins \in 0 .. 1
    /\ query \in {"none", "asked", "answered"}
    /\ unanswered \subseteq Contracts
    /\ file \in Seq(Contracts \union Expired)
    /\ origin \in Seq(Nat) /\ Len(origin) = Len(file)
    /\ read \in Seq(Contracts \union Expired)
    /\ reader \in {"idle", "read", "request", "spin"}
    /\ {connects, subscribes, failures} \subseteq Nat

LEMMA FlagsStep == Flags /\ [Next]_vars => Flags'
<1> SUFFICES ASSUME Flags, [Next]_vars PROVE Flags'
    OBVIOUS
<1> USE DEF Flags, fileVars, readerVars, tdVars
<1>1. CASE MainQuery \/ MainRecord
    BY <1>1, Zenon DEF MainQuery, MainRecord
<1>2. CASE Connect \/ Lose \/ Disconnect
    BY <1>2, Zenon DEF Connect, Lose, Disconnect
<1>3. CASE LoginReply
    BY <1>3, Zenon DEF LoginReply, RemoveFile
<1>4. CASE AnswerNull
    BY <1>4, Zenon DEF AnswerNull
<1>5. ASSUME NEW c \in Contracts, Answer(c) \/ AnswerUnopened(c)
      PROVE  Flags'
    BY <1>5, Zenon DEF Answer, AnswerUnopened, Answered
<1>6. CASE Subscribe
    BY <1>6, Zenon DEF Subscribe, SubscribeOpen, SubscribeLine,
       SubscribeRequest, SubscribeSpin
<1>7. CASE UNCHANGED vars
    BY <1>7, Zenon DEF vars
<1> QED
    BY <1>1, <1>2, <1>3, <1>4, <1>5, <1>6, <1>7, Zenon DEF Next, Trader

LEMMA ValuesStep == Values /\ [Next]_vars => Values'
<1> SUFFICES ASSUME Values, [Next]_vars PROVE Values'
    OBVIOUS
<1> USE DEF Values, fileVars, readerVars, tdVars
<1>1. CASE MainQuery \/ MainRecord
    BY <1>1 DEF MainQuery, MainRecord
<1>2. CASE Connect \/ Lose \/ Disconnect
    BY <1>2 DEF Connect, Lose, Disconnect
<1>3. CASE LoginReply
    <2>1. /\ logins' = 0 /\ session' \in {"in", "refused"}
          /\ query' = "asked" /\ unanswered' \in {Contracts, {}}
          /\ UNCHANGED <<main, front, connects, subscribes, reader, read,
                         failures>>
        BY <1>3, Zenon DEF LoginReply
    <2>2. \/ file' = file /\ origin' = origin
          \/ file' = << >> /\ origin' = << >>
        BY <1>3, Zenon DEF LoginReply, RemoveFile
    <2>3. /\ file' \in Seq(Contracts \union Expired)
          /\ origin' \in Seq(Nat) /\ Len(origin') = Len(file')
        <3>1. /\ file \in Seq(Contracts \union Expired)
              /\ origin \in Seq(Nat) /\ Len(origin) = Len(file)
            OBVIOUS
        <3> HIDE DEF Values
        <3> QED
            BY <2>2, <3>1, NoLines
    <2>4. unanswered' \subseteq Contracts
        BY <2>1
    <2> QED
        BY <2>1, <2>3, <2>4
<1>4. CASE AnswerNull
    BY <1>4 DEF AnswerNull
<1>5. ASSUME NEW c \in Contracts, Answer(c) \/ AnswerUnopened(c)
      PROVE  Values'
    <2>1. /\ UNCHANGED <<main, front, session, logins, connects, subscribes,
                         reader, read>>
          /\ unanswered' = unanswered \ {c}
          /\ query' \in {"asked", "answered"}
        BY <1>5, Zenon DEF Answer, AnswerUnopened, Answered
    <2>2. /\ \/ file' = file /\ origin' = origin
             \/ file' = Append(file, c) /\ origin' = Append(origin, connects)
          /\ failures' = failures \/ failures' = failures + 1
        BY <1>5, Zenon DEF Answer, AnswerUnopened
    <2>3. /\ file' \in Seq(Contracts \union Expired)
          /\ origin' \in Seq(Nat) /\ Len(origin') = Len(file')
        <3>1. /\ file \in Seq(Contracts \union Expired) /\ connects \in Nat
              /\ origin \in Seq(Nat) /\ Len(origin) = Len(file)
            OBVIOUS
        <3> HIDE DEF Values
        <3>2. /\ Append(file, c) \in Seq(Contracts \union Expired)
              /\ Append(origin, connects) \in Seq(Nat)
              /\ Len(Append(origin, connects)) = Len(Append(file, c))
            BY <3>1
        <3> QED
            BY <2>2, <3>1, <3>2
    <2>4. failures' \in Nat
        BY <2>2
    <2> QED
        BY <2>1, <2>3, <2>4
<1>6. CASE Subscribe
    <2>1. UNCHANGED <<main, front, session, logins, query, unanswered,
                      connects, file, origin, failures>>
        BY <1>6 DEF Subscribe, SubscribeOpen, SubscribeLine,
           SubscribeRequest, SubscribeSpin
    <2>2. reader' \in {"idle", "read", "request", "spin"} /\ subscribes' \in Nat
        BY <1>6 DEF Subscribe, SubscribeOpen, SubscribeLine,
           SubscribeRequest, SubscribeSpin
    <2>3. read' \in Seq(Contracts \union Expired)
        <3>1. CASE SubscribeOpen \/ SubscribeRequest \/ SubscribeSpin
            BY <3>1, NoLines
               DEF SubscribeOpen, SubscribeRequest, SubscribeSpin
        <3>2. CASE SubscribeLine
            <4>1. \/ read' = read
                  \/ /\ Len(read) < Len(file)
                     /\ read' = Append(read, file[Len(read) + 1])
                BY <3>2, Zenon DEF SubscribeLine
            <4>2. Len(read) < Len(file) =>
                      file[Len(read) + 1] \in Contracts \union Expired
                OBVIOUS
            <4> HIDE DEF Values
            <4>3. read \in Seq(Contracts \union Expired)
                BY DEF Values
            <4> QED
                BY <4>1, <4>2, <4>3
        <3> QED
            BY <1>6, <3>1, <3>2 DEF Subscribe
    <2> QED
        BY <2>1, <2>2, <2>3
<1>7. CASE UNCHANGED vars
    BY <1>7 DEF vars
<1> QED
    BY <1>1, <1>2, <1>3, <1>4, <1>5, <1>6, <1>7 DEF Next, Trader

-----------------------------------------------------------------------------
(* What QueryStep proves of a step. *)
Kept == /\ QueryInv /\ CompleteWhenAnswered /\ AsFarAsItGot
        /\ OneListUnlessHeld /\ MissingBeforeAnswer

(* An answer adds its line to those of its query. *)
LEMMA AnswerStep ==
    ASSUME TypeOK, Kept, NEW c \in Contracts, Answer(c)
    PROVE  Kept'
<1> USE DEF Kept, fileVars, readerVars, tdVars
<1>1. /\ front = "up" /\ query = "asked" /\ c \in unanswered
      /\ unanswered' = unanswered \ {c}
      /\ query' \in {"asked", "answered"}
      /\ query' = "answered" => unanswered' = {}
      /\ file' = Append(file, c) /\ origin' = Append(origin, connects) /\ exists'
      /\ UNCHANGED <<front, session, logins, held, failures, connects>>
    BY Zenon DEF Answer, Answered
<1>2. /\ file \in Seq(Contracts \union Expired) /\ origin \in Seq(Nat)
      /\ unanswered \subseteq Contracts /\ failures \in Nat /\ connects \in Nat
      /\ session \in {"none", "in", "refused"} /\ Len(origin) = Len(file)
    BY DEF TypeOK
<1>3. session = "in" /\ connects > 0
    BY <1>1, <1>2 DEF QueryInv
<1>4. /\ DOMAIN file = 1 .. Len(file) /\ DOMAIN file' = 1 .. (Len(file) + 1)
      /\ \A i \in DOMAIN file : file'[i] = file[i] /\ origin'[i] = origin[i]
                               /\ origin[i] \in Nat
      /\ file'[Len(file) + 1] = c /\ origin'[Len(file) + 1] = connects
      /\ Len(file) \in Nat
    BY <1>1, <1>2
<1> DEFINE n == Len(file) + 1
           old == {k \in DOMAIN file : origin[k] = connects}
           new == {k \in DOMAIN file' : origin'[k] = connects}
<1>5. new = old \union {n}
    BY <1>4
<1>6. Added(connects)' = Added(connects) \union {c}
    <2>1. {file'[i] : i \in new} = {file[i] : i \in old} \union {c}
        BY <1>4, <1>5
    <2> QED
        BY <1>1, <2>1 DEF Added
<1>7. Names(file') = Names(file) \union {c}
    BY <1>1, <1>2, NamesOfAppend
<1>8. /\ Added(connects) \subseteq Contracts \ unanswered
      /\ failures = 0 => Added(connects) = Contracts \ unanswered
    BY <1>1, <1>3 DEF AsFarAsItGot
<1>9. Added(connects) \subseteq Names(file)
    BY DEF Added, Names
<1>10. AsFarAsItGot'
    <2>1. ASSUME NEW i \in DOMAIN file', NEW j \in DOMAIN file', i < j
          PROVE  /\ origin'[i] <= origin'[j]
                 /\ origin'[i] = origin'[j] /\ origin'[i] # 0 =>
                        file'[i] # file'[j]
        <3>1. i \in DOMAIN file
            BY <1>4, <2>1
        <3>2. CASE j \in DOMAIN file
            BY <1>4, <2>1, <3>1, <3>2 DEF AsFarAsItGot
        <3>3. CASE j = n
            <4>1. origin[i] <= connects
                BY <3>1 DEF QueryInv
            <4>2. origin[i] = connects => file[i] # c
                BY <1>1, <1>8, <3>1 DEF Added
            <4> QED
                BY <1>4, <3>1, <3>3, <4>1, <4>2
        <3> QED
            BY <1>4, <3>2, <3>3
    <2>2. /\ Added(connects)' \subseteq Contracts \ unanswered'
          /\ failures = 0 => Added(connects)' = Contracts \ unanswered'
        BY <1>1, <1>2, <1>6, <1>8
    <2> QED
        BY <1>1, <2>1, <2>2 DEF AsFarAsItGot
<1>11. QueryInv'
    <2>1. \A i \in DOMAIN file' : origin'[i] <= connects
        BY <1>2, <1>4 DEF QueryInv
    <2>2. /\ logins' = 0 /\ session' = "in" /\ connects' = connects
          /\ query' # "none"
          /\ query' = "answered" => unanswered' = {}
        BY <1>1, <1>3 DEF QueryInv
    <2> QED
        BY <1>3, <2>1, <2>2 DEF QueryInv
<1>12. OneListUnlessHeld'
    <2>1. ASSUME ~held PROVE \A i \in DOMAIN file' : origin'[i] = connects
        <3>1. \A i \in DOMAIN file : origin[i] = connects
            BY <1>1, <2>1 DEF OneListUnlessHeld
        <3> QED
            BY <1>4, <3>1
    <2>2. connects' = connects /\ held' = held
        BY <1>1
    <2> QED
        BY <2>1, <2>2, Zenon DEF OneListUnlessHeld
<1>13. CompleteWhenAnswered'
    <2>1. query' = "answered" /\ failures = 0 => Contracts \subseteq Added(connects)'
        BY <1>1, <1>6, <1>8
    <2> QED
        BY <1>1, <1>6, <1>7, <1>9, <2>1 DEF CompleteWhenAnswered, Complete
<1>14. MissingBeforeAnswer'
    BY <1>1 DEF MissingBeforeAnswer
<1> QED
    BY <1>10, <1>11, <1>12, <1>13, <1>14

LEMMA QueryStep == IInv /\ [Next]_vars => Kept'
<1> SUFFICES ASSUME IInv, [Next]_vars
             PROVE  Kept'
    OBVIOUS
<1> USE DEF Kept, fileVars, readerVars, tdVars
<1>0. TypeOK /\ Kept /\ file \in Seq(Contracts \union Expired)
      /\ origin \in Seq(Nat) /\ Len(origin) = Len(file)
      /\ unanswered \subseteq Contracts /\ failures \in Nat /\ connects \in Nat
    BY DEF IInv, FileFollowsQuery, TypeOK
<1>1. ASSUME UNCHANGED <<session, query, logins, unanswered, exists, file, origin,
                         held, failures, connects>>,
             front' = "down" \/ front # "down" \/ front' = front
      PROVE  Kept'
    BY <1>0, <1>1 DEF QueryInv, CompleteWhenAnswered, AsFarAsItGot, Added,
       OneListUnlessHeld, MissingBeforeAnswer, Complete, Names
<1>2. CASE MainQuery \/ MainRecord \/ Lose \/ Disconnect
    BY <1>1, <1>2 DEF MainQuery, MainRecord, Lose, Disconnect
<1>3. CASE Subscribe
    BY <1>1, <1>3 DEF Subscribe, SubscribeOpen, SubscribeLine,
       SubscribeRequest, SubscribeSpin
<1>4. CASE Connect
    <2>1. /\ connects' = connects + 1 /\ query' = "none"
          /\ UNCHANGED <<exists, file, origin, held, failures>>
        BY <1>4 DEF Connect
    <2>2. \A i \in DOMAIN file : origin[i] \in Nat /\ origin[i] <= connects
        BY <1>0 DEF QueryInv
    <2>3. QueryInv'
        BY <1>0, <2>1, <2>2 DEF QueryInv
    <2> QED
        BY <1>0, <2>1, <2>3 DEF CompleteWhenAnswered, AsFarAsItGot,
           OneListUnlessHeld, MissingBeforeAnswer
<1>5. CASE LoginReply
    <2>1. /\ logins > 0 /\ front = "up" /\ UNCHANGED <<front, connects>>
          /\ logins' = 0 /\ query' = "asked"
          /\ session' \in {"in", "refused"}
          /\ unanswered' = IF session' = "in" THEN Contracts ELSE {}
          /\ failures' = failures
        BY <1>5, Zenon DEF LoginReply
    <2>2. query = "none" /\ connects > 0
        BY <1>0, <2>1 DEF QueryInv
    <2>3. \/ held' /\ UNCHANGED <<file, origin>>
          \/ file' = << >> /\ origin' = << >>
        <3>1. RemoveFile
            BY <1>5, Zenon DEF LoginReply
        <3> QED
            BY <3>1, Zenon DEF RemoveFile
    <2>4. \A i \in DOMAIN file' :
              origin'[i] <= connects /\ origin'[i] # connects
        <3>1. \A i \in DOMAIN file : origin[i] <= connects /\ origin[i] # connects
            BY <1>0, <2>2 DEF QueryInv
        <3>2. DOMAIN << >> = {}
            OBVIOUS
        <3> QED
            BY <2>3, <3>1, <3>2, Zenon
    <2>5. Added(connects)' = {}
        BY <2>1, <2>4 DEF Added
    <2>6. QueryInv'
        BY <2>1, <2>2, <2>4 DEF QueryInv
    <2>7. AsFarAsItGot'
        <3>1. \A i, j \in DOMAIN file' : i < j =>
                 /\ origin'[i] <= origin'[j]
                 /\ origin'[i] = origin'[j] /\ origin'[i] # 0 =>
                        file'[i] # file'[j]
            BY <1>0, <2>3 DEF AsFarAsItGot
        <3> QED
            BY <2>1, <2>5, <3>1 DEF AsFarAsItGot
    <2>8. OneListUnlessHeld'
        BY <2>3 DEF OneListUnlessHeld
    <2> QED
        BY <2>1, <2>6, <2>7, <2>8 DEF CompleteWhenAnswered, MissingBeforeAnswer
<1>6. CASE AnswerNull
    <2>1. /\ session = "refused" /\ query = "asked" /\ query' = "answered"
          /\ exists'
          /\ UNCHANGED <<front, session, logins, unanswered, connects, file,
                         origin, held, failures>>
        BY <1>6, Zenon DEF AnswerNull
    <2> QED
        BY <1>0, <2>1 DEF QueryInv, CompleteWhenAnswered, AsFarAsItGot,
           OneListUnlessHeld, MissingBeforeAnswer
<1>7. ASSUME NEW c \in Contracts, Answer(c)
      PROVE  Kept'
    BY <1>0, <1>7, AnswerStep
<1>8. ASSUME NEW c \in Contracts, AnswerUnopened(c)
      PROVE  Kept'
    <2>1. /\ query = "asked" /\ c \in unanswered
          /\ unanswered' = unanswered \ {c}
          /\ query' \in {"asked", "answered"}
          /\ query' = "answered" => unanswered' = {}
          /\ failures' = failures + 1
          /\ UNCHANGED <<front, session, logins, connects, held, file, origin,
                         exists>>
        BY <1>8, Zenon DEF AnswerUnopened, Answered
    <2>2. Added(connects)' = Added(connects) /\ failures' > 0
        BY <1>0, <2>1 DEF Added
    <2> QED
        BY <1>0, <2>1, <2>2 DEF QueryInv, CompleteWhenAnswered,
           AsFarAsItGot, OneListUnlessHeld, MissingBeforeAnswer
<1>9. CASE UNCHANGED vars
    BY <1>1, <1>9 DEF vars
<1> QED
    BY <1>2, <1>3, <1>4, <1>5, <1>6, <1>7, <1>8, <1>9 DEF Next, Trader

LEMMA ReadStep == IInv /\ [Next]_vars => ReadsFileFromStart'
<1> SUFFICES ASSUME IInv, [Next]_vars PROVE ReadsFileFromStart'
    OBVIOUS
<1> USE DEF fileVars, readerVars, tdVars
<1>0. /\ TypeOK /\ ReadsFileFromStart
      /\ file \in Seq(Contracts \union Expired)
      /\ read \in Seq(Contracts \union Expired)
    BY DEF IInv, FileFollowsQuery, TypeOK
<1>1. ASSUME UNCHANGED <<reader, read>>, file' = file \/ ~FileOpen
      PROVE  ReadsFileFromStart'
    BY <1>0, <1>1 DEF ReadsFileFromStart, FileOpen
<1>2. CASE MainQuery \/ MainRecord \/ Lose \/ Disconnect \/ Connect
           \/ AnswerNull \/ \E c \in Contracts : AnswerUnopened(c)
    BY <1>1, <1>2 DEF MainQuery, MainRecord, Lose, Disconnect, Connect,
       AnswerNull, AnswerUnopened, Answered
<1>3. CASE LoginReply
    BY <1>1, <1>3, Zenon DEF LoginReply, RemoveFile
<1>4. ASSUME NEW c \in Contracts, Answer(c)
      PROVE  ReadsFileFromStart'
    <2>1. UNCHANGED <<reader, read>> /\ file' = Append(file, c)
        BY <1>4 DEF Answer, Answered
    <2> QED
        BY <1>0, <2>1, PrefixOfAppend DEF ReadsFileFromStart
<1>5. CASE SubscribeOpen
    <2>1. read' = << >> /\ file' = file
        BY <1>5 DEF SubscribeOpen
    <2> QED
        BY <1>0, <2>1 DEF ReadsFileFromStart, IsPrefix
<1>6. CASE SubscribeLine
    <2>1. reader = "read" /\ file' = file
        BY <1>6 DEF SubscribeLine
    <2>2. IsPrefix(read, file)
        BY <1>0, <2>1 DEF ReadsFileFromStart
    <2>3. CASE Len(read) < Len(file)
        BY <1>0, <1>6, <2>1, <2>2, <2>3, PrefixOfMore
           DEF SubscribeLine, ReadsFileFromStart
    <2>4. CASE ~(Len(read) < Len(file))
        BY <1>6, <2>1, <2>2, <2>4 DEF SubscribeLine, ReadsFileFromStart
    <2> QED
        BY <2>3, <2>4
<1>7. CASE SubscribeRequest \/ SubscribeSpin
    BY <1>0, <1>7 DEF SubscribeRequest, SubscribeSpin, ReadsFileFromStart
<1>8. CASE UNCHANGED vars
    BY <1>1, <1>8 DEF vars
<1> QED
    BY <1>2, <1>3, <1>4, <1>5, <1>6, <1>7, <1>8 DEF Next, Trader, Subscribe

LEMMA InvStep == IInv /\ [Next]_vars => IInv'
<1>1. IInv => TypeOK
    BY DEF IInv, FileFollowsQuery
<1>2. IInv /\ [Next]_vars => TypeOK'
    <2>1. Flags /\ Values /\ [Next]_vars => Flags' /\ Values'
        BY FlagsStep, ValuesStep
    <2> QED
        BY <1>1, <2>1, Zenon DEF TypeOK, Flags, Values
<1> QED
    BY <1>2, QueryStep, ReadStep DEF IInv, FileFollowsQuery, Kept

(* Whatever breaks off and whatever is refused, symbol.csv holds what the running
   query has been answered with, each contract once, behind older lines only if
   subscribe() held the file as it was to be removed last; what subscribe() has
   read is a beginning of the file. *)
THEOREM ListFollowsQuery == Spec => []FileFollowsQuery
<1>1. IInv => FileFollowsQuery
    BY DEF IInv
<1> QED
    BY InvInit, InvStep, <1>1, PTL DEF Spec

-----------------------------------------------------------------------------
LEMMA FirstStep ==
    TypeOK /\ QueryInv /\ FirstInv /\ [Next]_vars => FirstInv'
<1> SUFFICES ASSUME TypeOK, QueryInv, FirstInv, [Next]_vars
             PROVE  FirstInv'
    OBVIOUS
<1> USE DEF fileVars, readerVars, tdVars
<1>0. connects \in Nat /\ file \in Seq(Contracts \union Expired)
    BY DEF TypeOK
<1>1. ASSUME UNCHANGED <<connects, query, logins, file, listed>>,
             front' = front \/ connects # 0
      PROVE  FirstInv'
    BY <1>1 DEF FirstInv, Complete, Names
<1>2. CASE MainQuery \/ MainRecord \/ Subscribe \/ UNCHANGED vars
    BY <1>1, <1>2 DEF MainQuery, MainRecord, Subscribe, SubscribeOpen,
       SubscribeLine, SubscribeRequest, SubscribeSpin, vars
<1>3. CASE Lose \/ Disconnect
    BY <1>1, <1>3 DEF Lose, Disconnect, FirstInv
<1>4. CASE Connect
    BY <1>0, <1>4 DEF Connect, FirstInv, Complete, Names
<1>5. CASE LoginReply
    <2>1. /\ front = "up" /\ logins > 0 /\ query' = "asked"
          /\ UNCHANGED <<connects, listed>>
        BY <1>5, Zenon DEF LoginReply, RemoveFile
    <2>2. query = "none"
        BY <2>1 DEF QueryInv
    <2> QED
        BY <1>0, <2>1, <2>2 DEF FirstInv
<1>6. CASE AnswerNull
    BY <1>6 DEF AnswerNull, FirstInv, Complete, Names
<1>7. ASSUME NEW c \in Contracts, Answer(c)
      PROVE  FirstInv'
    <2>1. /\ front = "up" /\ query = "asked" /\ query' # "none"
          /\ file' = Append(file, c)
          /\ listed' => listed \/ Complete(file')
          /\ UNCHANGED connects
        BY <1>7 DEF Answer, Answered
    <2>2. Complete(file) => Complete(file')
        BY <1>0, <2>1, NamesOfAppend DEF Complete
    <2> QED
        BY <2>1, <2>2 DEF FirstInv
<1>8. ASSUME NEW c \in Contracts, AnswerUnopened(c)
      PROVE  FirstInv'
    BY <1>8 DEF AnswerUnopened, Answered, FirstInv, Complete, Names
<1> QED
    BY <1>2, <1>3, <1>4, <1>5, <1>6, <1>7, <1>8 DEF Next, Trader

(* On its first connection the trader API queries once: no list that was
   complete is taken away before subscribe() opens it. *)
THEOREM FirstListIsKept == Spec => FirstListStays
<1>1. IInv => TypeOK /\ QueryInv
    BY DEF IInv, FileFollowsQuery
<1>2. FirstInv => (SubscribeOpens /\ listed /\ connects = 1 => Complete(file))
    BY DEF FirstInv
<1> QED
    BY InvInit, InvStep, FirstStep, <1>1, <1>2, PTL DEF Spec, FirstListStays
=============================================================================
