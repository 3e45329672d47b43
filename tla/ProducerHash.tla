---------------------------- MODULE ProducerHash ----------------------------
(***************************************************************************)
(* get_or_add_implicit_producer of ctpmdapi/concurrentqueue.h: a lock-free *)
(* hash table from threads to their producers, and the list of producers   *)
(* that the consumers walk. A larger table is added in front of a fuller   *)
(* one, which stays; a thread found in an older table is copied to the     *)
(* main one. No entry is ever removed: thread-exit listeners are compiled  *)
(* out (line 202). One action per access to what the threads share.        *)
(***************************************************************************)
EXTENDS Integers, Sequences, FiniteSets

CONSTANTS
    Threads, None,     \* the threads that enqueue; no thread
    HashValues,        \* the slots, before the mask, that a thread may hash to
    InitialCapacity,   \* INITIAL_IMPLICIT_PRODUCER_HASH_SIZE, a power of two
    MaxFailures        \* bound: failed allocations

VARIABLES
    hashOf,            \* hash_thread_id
    key, value,        \* of each table: the thread in a slot, its producer
    prev, mainTable,   \* of each table: the older one; implicitProducerHash
    count,             \* implicitProducerHashCount
    resizing,          \* implicitProducerHashResizeInProgress
    next, tail,        \* the list of producers
    pc, main, table, index, newCount, made, \* the calls: see below
    failures, got      \* bound; history: the producers that a thread was given

tables == <<key, value, prev>>
list == <<next, tail>>
locals == <<main, table, index, newCount, made>>
vars == <<hashOf, tables, mainTable, count, resizing, list, pc, locals,
          failures, got>>

(* A call: idle, search (in table, at index), copy, count, test, resize,
   store, clear,
   giveUp, check, link, insert. main: the main table as it
   was loaded; made: its producer. A caller that resizes holds its new table
   in "table". *)

Capacity(h) == Cardinality(DOMAIN key[h])
At(h, i) == i % Capacity(h)
Half(c) == c \div 2
ThreeQuarters(c) == c \div 2 + c \div 4
(* A producer is named by the thread that made it, and counted. *)
NoProducer == <<None, 0>>

Empty(capacity) == [i \in 0 .. (capacity - 1) |-> None]
NoValues(capacity) == [i \in 0 .. (capacity - 1) |-> NoProducer]

Init ==                \* populate_initial_implicit_producer_hash
    /\ hashOf \in [Threads -> HashValues]
    /\ key = <<Empty(InitialCapacity)>> /\ value = <<NoValues(InitialCapacity)>>
    /\ prev = <<0>> /\ mainTable = 1
    /\ count = 0 /\ resizing = FALSE
    /\ next = << >> /\ tail = NoProducer
    /\ pc = [t \in Threads |-> "idle"]
    /\ main = [t \in Threads |-> 0]
    /\ table = main /\ index = main /\ newCount = main
    /\ made = [t \in Threads |-> NoProducer]
    /\ failures = 0 /\ got = [t \in Threads |-> {}]

Goto(t, to) == pc' = [pc EXCEPT ![t] = to]

Return(t, producers) ==
    /\ Goto(t, "idle")
    /\ main' = [main EXCEPT ![t] = 0] /\ table' = [table EXCEPT ![t] = 0]
    /\ index' = [index EXCEPT ![t] = 0] /\ newCount' = [newCount EXCEPT ![t] = 0]
    /\ made' = [made EXCEPT ![t] = NoProducer]
    /\ got' = [got EXCEPT ![t] = @ \union producers]

-----------------------------------------------------------------------------
Call(t) ==
    /\ pc[t] = "idle"
    /\ main' = [main EXCEPT ![t] = mainTable]
    /\ table' = [table EXCEPT ![t] = mainTable]
    /\ index' = [index EXCEPT ![t] = hashOf[t]]
    /\ Goto(t, "search")
    /\ UNCHANGED <<hashOf, tables, mainTable, count, resizing, list, newCount,
                   made, failures, got>>

Probed(t) == key[table[t]][At(table[t], index[t])]

Found(t) ==            \* in an older table: to be copied to the main one
    /\ pc[t] = "search" /\ Probed(t) = t
    /\ LET producer == value[table[t]][At(table[t], index[t])]
       IN  IF table[t] = main[t] THEN Return(t, {producer})
           ELSE /\ made' = [made EXCEPT ![t] = producer]
                /\ index' = [index EXCEPT ![t] = hashOf[t]]
                /\ Goto(t, "copy")
                /\ UNCHANGED <<main, table, newCount, got>>
    /\ UNCHANGED <<hashOf, tables, mainTable, count, resizing, list, failures>>

NotFoundInMain(t) ==   \* mutant: the older tables are not searched
    /\ pc[t] = "search" /\ Probed(t) = None
    /\ Goto(t, "count")
    /\ UNCHANGED <<hashOf, tables, mainTable, count, resizing, list, locals,
                   failures, got>>

NotFound(t) ==         \* an empty slot ends the search of a table
    /\ pc[t] = "search" /\ Probed(t) = None
    /\ table' = [table EXCEPT ![t] = prev[table[t]]]
    /\ index' = [index EXCEPT ![t] = hashOf[t]]
    /\ IF prev[table[t]] = 0 THEN Goto(t, "count") ELSE UNCHANGED pc
    /\ UNCHANGED <<hashOf, tables, mainTable, count, resizing, list, main,
                   newCount, made, failures, got>>

SearchOn(t) ==
    /\ pc[t] = "search" /\ Probed(t) \notin {t, None}
    /\ index' = [index EXCEPT ![t] = At(table[t], @) + 1]
    /\ UNCHANGED <<hashOf, tables, mainTable, count, resizing, list, pc, main,
                   table, newCount, made, failures, got>>

(* Copy and Insert: the slot is loaded and, if it is empty, taken with a
   compare and exchange; one that is taken in between is passed over. *)
Put(t, from) ==
    /\ pc[t] = from
    /\ LET i == At(main[t], index[t])
       IN  IF key[main[t]][i] = None
           THEN /\ key' = [key EXCEPT ![main[t]][i] = t]
                /\ value' = [value EXCEPT ![main[t]][i] = made[t]]
                /\ Return(t, {made[t]})
           ELSE /\ index' = [index EXCEPT ![t] = i + 1]
                /\ UNCHANGED <<key, value, pc, main, table, newCount, made,
                               got>>
    /\ UNCHANGED <<hashOf, prev, mainTable, count, resizing, list, failures>>

Copy(t) == Put(t, "copy")

Count(t) ==            \* fetch_add
    /\ pc[t] = "count"
    /\ count' = count + 1
    /\ newCount' = [newCount EXCEPT ![t] = count + 1]
    /\ Goto(t, "test")
    /\ UNCHANGED <<hashOf, tables, mainTable, resizing, list, main, table,
                   index, made, failures, got>>

Fuller(t, h) == newCount[t] >= Half(Capacity(h))

TestUnlocked(t) ==     \* mutant: several callers may resize
    /\ pc[t] = "test"
    /\ Goto(t, IF Fuller(t, main[t]) THEN "resize" ELSE "check")
    /\ UNCHANGED <<hashOf, tables, mainTable, count, resizing, list, locals,
                   failures, got>>

Test(t) ==             \* test_and_set
    /\ pc[t] = "test"
    /\ IF Fuller(t, main[t]) /\ ~resizing
       THEN resizing' = TRUE /\ Goto(t, "resize")
       ELSE UNCHANGED resizing /\ Goto(t, "check")
    /\ UNCHANGED <<hashOf, tables, mainTable, count, list, locals, failures,
                   got>>

NewCapacity(n, c) ==   \* doubled until n is less than half of it
    c * 2^(CHOOSE k \in 1 .. n : /\ n < Half(c * 2^k)
                                 /\ \A j \in 1 .. (k - 1) : n >= Half(c * 2^j))

Resize(t) ==           \* main is loaded again; the new table is allocated
    /\ pc[t] = "resize"
    /\ main' = [main EXCEPT ![t] = mainTable]
    /\ IF Fuller(t, mainTable)
       THEN LET capacity == NewCapacity(newCount[t], Capacity(mainTable))
            IN  /\ key' = Append(key, Empty(capacity))
                /\ value' = Append(value, NoValues(capacity))
                /\ prev' = Append(prev, mainTable)
                /\ table' = [table EXCEPT ![t] = Len(key) + 1]
                /\ Goto(t, "store")
       ELSE Goto(t, "clear") /\ UNCHANGED <<tables, table>>
    /\ UNCHANGED <<hashOf, mainTable, count, resizing, list, index, newCount,
                   made, failures, got>>

(* No memory: fetch_sub, then the lock is cleared. *)
ResizeFails(t) ==
    /\ pc[t] = "resize" /\ Fuller(t, mainTable) /\ failures < MaxFailures
    /\ failures' = failures + 1
    /\ count' = count - 1
    /\ Goto(t, "giveUp")
    /\ UNCHANGED <<hashOf, tables, mainTable, resizing, list, locals, got>>

GiveUp(t) ==
    /\ pc[t] = "giveUp"
    /\ resizing' = FALSE
    /\ Return(t, {})
    /\ UNCHANGED <<hashOf, tables, mainTable, count, list, failures>>

StoreTable(t) ==
    /\ pc[t] = "store"
    /\ mainTable' = table[t]
    /\ Goto(t, "clear")
    /\ UNCHANGED <<hashOf, tables, count, resizing, list, locals, failures, got>>

Clear(t) ==
    /\ pc[t] = "clear"
    /\ resizing' = FALSE
    /\ main' = [main EXCEPT ![t] = mainTable]
    /\ Goto(t, "check")
    /\ UNCHANGED <<hashOf, tables, mainTable, count, list, table, index,
                   newCount, made, failures, got>>

(* recycle_or_create_producer: only tokens leave producers to recycle, and
   they are explicit ones. *)
Create(t) ==
    LET producer == <<t, Cardinality({p \in DOMAIN next : p[1] = t}) + 1>>
    IN  /\ next' = [p \in DOMAIN next \union {producer} |->
                        IF p = producer THEN tail ELSE next[p]]
        /\ made' = [made EXCEPT ![t] = producer]
        /\ Goto(t, "link")

CheckRoomy(t) ==       \* mutant: the old table is filled to the last slot
    /\ pc[t] = "check" /\ newCount[t] <= Capacity(main[t])
    /\ Create(t)
    /\ UNCHANGED <<hashOf, tables, mainTable, count, resizing, tail, main,
                   table, index, newCount, failures, got>>

Check(t) ==            \* less than three quarters full: a producer is made
    /\ pc[t] = "check" /\ newCount[t] < ThreeQuarters(Capacity(main[t]))
    /\ Create(t)
    /\ UNCHANGED <<hashOf, tables, mainTable, count, resizing, tail, main,
                   table, index, newCount, failures, got>>

WaitForTable(t) ==     \* another thread is allocating the larger one
    /\ pc[t] = "check" /\ newCount[t] >= ThreeQuarters(Capacity(main[t]))
    /\ main' = [main EXCEPT ![t] = mainTable]
    /\ Goto(t, "test")
    /\ UNCHANGED <<hashOf, tables, mainTable, count, resizing, list, table,
                   index, newCount, made, failures, got>>

CreateFailsCounted(t) == \* mutant: the count is not taken back
    /\ pc[t] = "check" /\ newCount[t] < ThreeQuarters(Capacity(main[t]))
    /\ failures < MaxFailures /\ failures' = failures + 1
    /\ Return(t, {})
    /\ UNCHANGED <<hashOf, tables, mainTable, count, resizing, list>>

CreateFails(t) ==
    /\ pc[t] = "check" /\ newCount[t] < ThreeQuarters(Capacity(main[t]))
    /\ failures < MaxFailures /\ failures' = failures + 1
    /\ count' = count - 1
    /\ Return(t, {})
    /\ UNCHANGED <<hashOf, tables, mainTable, resizing, list>>

Linked(t) ==
    /\ tail' = made[t]
    /\ index' = [index EXCEPT ![t] = hashOf[t]]
    /\ Goto(t, "insert")
    /\ UNCHANGED <<hashOf, tables, mainTable, count, resizing, next, main,
                   table, newCount, made, failures, got>>

LinkStore(t) ==        \* mutant: a store where the code compares
    /\ pc[t] = "link" /\ Linked(t)

Link(t) ==             \* add_producer: compare and exchange
    /\ pc[t] = "link" /\ tail = next[made[t]]
    /\ Linked(t)

LinkAgain(t) ==        \* the exchange failed: prevTail is the tail it found
    /\ pc[t] = "link" /\ tail # next[made[t]]
    /\ next' = [next EXCEPT ![made[t]] = tail]
    /\ UNCHANGED <<hashOf, tables, mainTable, count, resizing, tail, pc, locals,
                   failures, got>>

Insert(t) == Put(t, "insert")

Step(t) ==
    \/ Found(t) \/ NotFound(t) \/ SearchOn(t) \/ Copy(t) \/ Count(t)
    \/ Test(t) \/ Resize(t) \/ ResizeFails(t) \/ GiveUp(t) \/ StoreTable(t)
    \/ Clear(t) \/ Check(t) \/ WaitForTable(t) \/ CreateFails(t)
    \/ Link(t) \/ LinkAgain(t) \/ Insert(t)

Next == \E t \in Threads : Call(t) \/ Step(t)

Spec == Init /\ [][Next]_vars

-----------------------------------------------------------------------------
Producers == DOMAIN next

TypeOK ==
    /\ \A h \in 1 .. Len(key) :
        /\ key[h] \in [0 .. (Capacity(h) - 1) -> Threads \union {None}]
        /\ value[h] \in [DOMAIN key[h] -> Producers \union {NoProducer}]
        /\ prev[h] \in 0 .. (h - 1)
    /\ Len(value) = Len(key) /\ Len(prev) = Len(key)
    /\ mainTable \in 1 .. Len(key)
    /\ count \in 0 .. Cardinality(Threads)
    /\ Producers \subseteq Threads \X (Nat \ {0})
    /\ {tail} \union {next[p] : p \in Producers}
            \subseteq Producers \union {NoProducer}
    /\ \A t \in Threads : made[t] \in Producers \union {NoProducer}

(* A thread is always given the same producer, which it made itself: the
   queue keeps the order of its elements only within a producer. *)
OneProducerEach ==
    \A t \in Threads :
        /\ Cardinality(got[t]) <= 1
        /\ \A p \in got[t] : p[1] = t

(* "At least one slot is free in the hash table", in each of them, whoever
   fills an old table while it is replaced and whoever is copied to a new
   one: no search and no insertion goes around for ever. *)
FreeSlot ==
    \A h \in 1 .. Len(key) : \E i \in DOMAIN key[h] : key[h][i] = None

Older ==               \* the tables that a search from the main one visits
    {h \in DOMAIN prev : \A S \in SUBSET DOMAIN prev :
        {mainTable} \union {prev[g] : g \in S} \subseteq S \union {0}
            => h \in S}

Registered(t) ==
    \E h \in Older : \E i \in DOMAIN key[h] : key[h][i] = t

InsideCount(t) ==
    pc[t] \in {"test", "resize", "store", "clear", "check", "link", "insert"}

(* The count is that of the threads that have, or are making, a producer,
   also after allocations that failed: no slot is promised twice. *)
CountIsRegistered ==
    count = Cardinality({t \in Threads : Registered(t) \/ InsideCount(t)})

Behind ==              \* what a walk from the tail of the list finds
    {p \in Producers : \A S \in SUBSET Producers :
        {tail} \union {next[q] : q \in S} \subseteq S \union {NoProducer}
            => p \in S}

(* The list from its tail holds every producer that a thread was given, so
   consumers find all elements, and it ends. *)
ListIsWhole ==
    /\ \A t \in Threads : got[t] \subseteq Behind
    /\ tail # NoProducer => \E p \in Behind : next[p] = NoProducer

(* The hash is sound: it has a free slot for every search to end at, its count
   is right after failures, and every producer in it is on the list. *)
HashIsSound == TypeOK /\ FreeSlot /\ CountIsRegistered /\ ListIsWhole
=============================================================================
