--------------------------- MODULE ImplicitQueue ----------------------------
(***************************************************************************)
(* One stream of the lock-free queue of ctpmdapi/concurrentqueue.h: an     *)
(* ImplicitProducer, in which one thread (the API's callback thread)       *)
(* enqueues without locks while consumers dequeue. Elements live in blocks *)
(* of a shared pool; a circular block index, which grows by copying, tells *)
(* in which block an index is. Indices wrap. One action per access to what *)
(* the threads share, with sequentially consistent memory; but taking back *)
(* a failed insertion (the entry, the tail of the index and the block) and *)
(* counting the emptied places of a block are one action each.             *)
(***************************************************************************)
EXTENDS Integers, Sequences, FiniteSets

CONSTANTS
    Consumers,
    Blocks, Null,     \* the blocks of the pool, and none
    BlockSize,        \* BLOCK_SIZE, a power of two above 1
    IndexValues,      \* values of index_t, a power of two
    InitialCapacity,  \* IMPLICIT_INITIAL_INDEX_SIZE, a power of two
    MaxIndexes,       \* bound: block indexes, each twice the last
    EnqueueCounts, DequeueCounts,  \* bound: elements of one call
    MaxElements,      \* bound: elements enqueued
    MaxLate           \* bound: elements given back between a call's load of
                      \* dequeueOvercommit and its claim

ASSUME BlocksAssumption == IsFiniteSet(Blocks) /\ Null \notin Blocks
ASSUME SizesAssumption ==
    /\ {BlockSize, IndexValues} \subseteq Nat \ {0, 1}
    /\ {InitialCapacity, MaxIndexes} \subseteq Nat \ {0}
    /\ IndexValues % (BlockSize * InitialCapacity * 2^(MaxIndexes - 1)) = 0
    /\ 2 * BlockSize <= IndexValues
ASSUME CountsAssumption ==
    EnqueueCounts \union DequeueCounts \subseteq Nat \ {0}
(* What calls claim at a time is no more than half of what an index_t counts. *)
ASSUME ClaimsAssumption ==
    /\ IsFiniteSet(Consumers) /\ MaxLate \in Nat
    /\ \A n \in DequeueCounts :
        (Cardinality(Consumers) - 1) * n + MaxLate <= IndexValues \div 2

VARIABLES
    tailIndex, headIndex, dequeueOptimisticCount, dequeueOvercommit,
    content,          \* of each block: the elements in its places
    emptied,          \* its elementsCompletelyDequeued
    pool,             \* the blocks in the free list or not yet allocated
    index,            \* the block indexes: their slots hold entries,
    indexTail,        \* and where their last entry is
    key, value,       \* of each entry: first index, and block
    tailBlock,
    ppc, call, todo, allocated,       \* the producer: see below
    cpc, want, over, mine, left, at, header, slot, block, part,
    enqueued, claimed, expect \* history: elements enqueued and claimed, and
                      \* how many were claimed before those of a consumer

indices == <<tailIndex, headIndex, dequeueOptimisticCount, dequeueOvercommit>>
blocks == <<content, emptied, pool>>
blockIndex == <<index, indexTail, key, value>>
producer == <<tailBlock, ppc, call, todo, allocated>>
consumer == <<cpc, want, over, mine, left, at, header, slot, block, part,
              expect>>
others == <<consumer, enqueued, claimed>>
vars == <<indices, blocks, blockIndex, producer, others>>

(* The producer: idle, room, insert, reinsert, tail, block, link, construct,
   publish, undo. call: enqueue or enqueue_bulk, of how many elements; todo:
   the bases of the blocks that it has still to allocate; allocated: those
   that it has. *)
(* A consumer: idle, over, count, claim, decide, give, take, index, tail, key,
   move, empty, null, free. left: elements that it has claimed and not moved,
   from at on; header, slot: where it found their block; part: those it just
   moved. *)

(* Arithmetic of index_t *)
Wrap(n) == n % IndexValues
LessThan(a, b) == Wrap(a - b) > IndexValues \div 2   \* circular_less_than
Base(i) == i - (i % BlockSize)
Minimum(a, b) == IF a < b THEN a ELSE b

InvalidBase == 1
NumEntries == InitialCapacity * 2^(MaxIndexes - 1)
Entries == 1 .. NumEntries
Places == 0 .. (BlockSize - 1)
Current == Len(index)                  \* blockIndex
Capacity(h) == Cardinality(DOMAIN index[h])

NoCall == [single |-> TRUE, count |-> 0]

FirstIndex == [i \in 0 .. (InitialCapacity - 1) |-> i + 1]

(* The constructor may fail to allocate the block index. *)
Init ==
    /\ tailIndex = 0 /\ headIndex = 0
    /\ dequeueOptimisticCount = 0 /\ dequeueOvercommit = 0
    /\ content = [b \in Blocks |-> [i \in Places |-> 0]]
    /\ emptied = [b \in Blocks |-> 0]
    /\ pool = Blocks
    /\ \/ index = << >> /\ indexTail = << >>
       \/ index = <<FirstIndex>> /\ indexTail = <<InitialCapacity - 1>>
    /\ key = [e \in Entries |-> InvalidBase]
    /\ value = [e \in Entries |-> Null]
    /\ tailBlock = Null
    /\ ppc = "idle" /\ call = NoCall
    /\ todo = << >> /\ allocated = << >>
    /\ cpc = [c \in Consumers |-> "idle"]
    /\ want = [c \in Consumers |-> 0] /\ over = want /\ mine = want
    /\ left = want /\ at = want /\ header = want /\ slot = want
    /\ block = [c \in Consumers |-> Null] /\ part = want
    /\ enqueued = 0 /\ claimed = 0 /\ expect = want

-----------------------------------------------------------------------------
(* enqueue and enqueue_bulk *)

NewBases(n) ==        \* bases of the blocks that n more elements need
    LET first == IF tailIndex % BlockSize = 0 THEN tailIndex
                 ELSE Base(tailIndex) + BlockSize
        last == Base(tailIndex + n - 1)
    IN  [i \in 1 .. ((last - first) \div BlockSize + 1)
            |-> Wrap(first + (i - 1) * BlockSize)]

EnqueueCall(n, isSingle) ==
    /\ ppc = "idle" /\ enqueued + n <= MaxElements
    /\ isSingle => n = 1
    /\ call' = [single |-> isSingle, count |-> n]
    /\ todo' = NewBases(n) /\ allocated' = << >>
    /\ ppc' = IF NewBases(n) = << >> THEN "construct" ELSE "room"
    /\ UNCHANGED <<indices, blocks, blockIndex, tailBlock, others>>

(* The call fails: enqueue_bulk takes the blocks back that it allocated. *)
Fail ==
    /\ todo' = << >>
    /\ IF allocated = << >> THEN ppc' = "idle" /\ call' = NoCall
                            ELSE ppc' = "undo" /\ UNCHANGED call

Room ==               \* of the range of index_t only half is used
    /\ ppc = "room"
    /\ IF LessThan(headIndex, Wrap(Head(todo) + BlockSize))
       THEN ppc' = "insert" /\ UNCHANGED <<todo, call>>
       ELSE Fail
    /\ UNCHANGED <<indices, blocks, blockIndex, tailBlock, allocated, others>>

NextSlot == (indexTail[Current] + 1) % Capacity(Current)
NextEntry == index[Current][NextSlot]

InsertUnchecked ==    \* mutant: the entry may still lead to a block in use
    /\ ppc = "insert" /\ index # << >>
    /\ key' = [key EXCEPT ![NextEntry] = Head(todo)]
    /\ ppc' = "tail"
    /\ UNCHANGED <<todo, indices, blocks, index, indexTail, value, tailBlock,
                   call, allocated, others>>

Insert ==             \* insert_block_index_entry
    /\ ppc = "insert" /\ index # << >>
    /\ key[NextEntry] = InvalidBase \/ value[NextEntry] = Null
    /\ key' = [key EXCEPT ![NextEntry] = Head(todo)]
    /\ ppc' = "tail"
    /\ UNCHANGED <<todo, indices, blocks, index, indexTail, value, tailBlock,
                   call, allocated, others>>

(* No index, or no room in it and try_enqueue or no memory for another. *)
InsertFails ==
    /\ ppc = "insert"
    /\ index # << >> => key[NextEntry] # InvalidBase /\ value[NextEntry] # Null
    /\ Fail
    /\ UNCHANGED <<indices, blocks, blockIndex, tailBlock, allocated, others>>

NewIndexUnrotated ==  \* mutant: the entries are copied as they stand
    /\ ppc = "insert" /\ index # << >> /\ Current < MaxIndexes
    /\ key[NextEntry] # InvalidBase /\ value[NextEntry] # Null
    /\ index' = Append(index,
            [i \in 0 .. (2 * Capacity(Current) - 1) |->
                IF i < Capacity(Current) THEN index[Current][i] ELSE i + 1])
    /\ indexTail' = Append(indexTail, Capacity(Current) - 1)
    /\ ppc' = "reinsert"
    /\ UNCHANGED <<indices, blocks, key, value, tailBlock, call, todo,
                   allocated, others>>

NewIndexNotLarger ==  \* mutant: the new index has the size of the old one
    /\ ppc = "insert" /\ index # << >> /\ Current < MaxIndexes
    /\ key[NextEntry] # InvalidBase /\ value[NextEntry] # Null
    /\ index' = Append(index, index[Current])
    /\ indexTail' = Append(indexTail, indexTail[Current])
    /\ ppc' = "reinsert"
    /\ UNCHANGED <<indices, blocks, key, value, tailBlock, call, todo,
                   allocated, others>>

NewIndex ==           \* new_block_index: from the oldest entry to the last
    /\ ppc = "insert" /\ index # << >> /\ Current < MaxIndexes
    /\ key[NextEntry] # InvalidBase /\ value[NextEntry] # Null
    /\ LET cap == Capacity(Current)
           old(i) == index[Current][(indexTail[Current] + 1 + i) % cap]
       IN  /\ index' = Append(index,
                [i \in 0 .. (2 * cap - 1) |-> IF i < cap THEN old(i) ELSE i + 1])
           /\ indexTail' = Append(indexTail, cap - 1)
    /\ ppc' = "reinsert"
    /\ UNCHANGED <<indices, blocks, key, value, tailBlock, call, todo,
                   allocated, others>>

Reinsert ==
    /\ ppc = "reinsert"
    /\ key' = [key EXCEPT ![NextEntry] = Head(todo)]
    /\ ppc' = "tail"
    /\ UNCHANGED <<todo, indices, blocks, index, indexTail, value, tailBlock,
                   call, allocated, others>>

InsertTail ==         \* the consumers see the entry
    /\ ppc = "tail"
    /\ indexTail' = [indexTail EXCEPT ![Current] = NextSlot]
    /\ ppc' = "block"
    /\ UNCHANGED <<todo, indices, blocks, index, key, value, tailBlock, call,
                   allocated, others>>

LastEntry == index[Current][indexTail[Current]]

RewindTail ==         \* rewind_block_index_tail
    indexTail' = [indexTail EXCEPT ![Current] = (@ - 1) % Capacity(Current)]

KeepEntry ==          \* mutant: the index is not rewound
    /\ value' = [value EXCEPT ![LastEntry] = Null]
    /\ UNCHANGED <<index, indexTail, key>>

DropEntry ==          \* the entry just inserted
    /\ value' = [value EXCEPT ![LastEntry] = Null]
    /\ RewindTail
    /\ UNCHANGED <<index, key>>

GetDirtyBlock ==      \* mutant: reset_empty is not called
    /\ ppc = "block"
    /\ \E b \in pool :
        /\ pool' = pool \ {b}
        /\ allocated' = Append(allocated, [base |-> Head(todo), block |-> b])
    /\ ppc' = "link" /\ todo' = Tail(todo)
    /\ UNCHANGED <<indices, content, emptied, blockIndex, tailBlock, call,
                   others>>

GetBlock ==           \* requisition_block and reset_empty
    /\ ppc = "block"
    /\ \E b \in pool :
        /\ pool' = pool \ {b}
        /\ emptied' = [emptied EXCEPT ![b] = 0]
        /\ allocated' = Append(allocated, [base |-> Head(todo), block |-> b])
    /\ ppc' = "link" /\ todo' = Tail(todo)
    /\ UNCHANGED <<indices, content, blockIndex, tailBlock, call, others>>

GetBlockFails ==
    /\ ppc = "block"
    /\ DropEntry
    /\ Fail
    /\ UNCHANGED <<indices, blocks, tailBlock, allocated, others>>

Newest == allocated[Len(allocated)].block

ConstructThrowsLeaks ==  \* mutant: the new block is not given back
    /\ ppc = "link" /\ call.single
    /\ DropEntry
    /\ ppc' = "idle" /\ call' = NoCall /\ allocated' = << >>
    /\ UNCHANGED <<indices, blocks, tailBlock, todo, others>>

(* enqueue copies its element into a new block before it publishes the block,
   so that it can still give it back when the copy throws. *)
ConstructThrows ==
    /\ ppc = "link" /\ call.single
    /\ DropEntry
    /\ pool' = pool \union {Newest}
    /\ ppc' = "idle" /\ call' = NoCall /\ allocated' = << >>
    /\ UNCHANGED <<indices, content, emptied, tailBlock, todo, others>>

Link ==               \* store of the entry's value
    /\ ppc = "link"
    /\ value' = [value EXCEPT ![LastEntry] = Newest]
    /\ ppc' = IF todo = << >> THEN "construct" ELSE "room"
    /\ UNCHANGED <<indices, blocks, index, indexTail, key, tailBlock, call,
                   todo, allocated, others>>

BlockOf(i) ==         \* where enqueue puts the element at index i
    LET new == {k \in 1 .. Len(allocated) : allocated[k].base = Base(i)}
    IN  IF new = {} THEN tailBlock
                    ELSE allocated[CHOOSE k \in new : TRUE].block

Construct ==          \* the elements are not yet seen by others
    /\ ppc = "construct"
    /\ LET new(b, i) == {n \in 0 .. (call.count - 1) :
                            /\ BlockOf(Wrap(tailIndex + n)) = b
                            /\ (tailIndex + n) % BlockSize = i}
       IN  content' = [b \in Blocks |-> [i \in Places |->
                IF new(b, i) = {} THEN content[b][i]
                ELSE enqueued + 1 + (CHOOSE n \in new(b, i) : TRUE)]]
    /\ tailBlock' = BlockOf(Wrap(tailIndex + call.count - 1))
    /\ ppc' = "publish"
    /\ UNCHANGED <<call, indices, emptied, pool, blockIndex, todo, allocated,
                   others>>

(* A copy throws: what was copied is destroyed, the blocks go back. *)
ConstructFails ==
    /\ ppc = "construct" /\ (call.single => allocated = << >>)
    /\ Fail
    /\ UNCHANGED <<indices, blocks, blockIndex, tailBlock, allocated, others>>

Publish ==            \* the store of tailIndex
    /\ ppc = "publish"
    /\ tailIndex' = Wrap(tailIndex + call.count)
    /\ enqueued' = enqueued + call.count
    /\ ppc' = "idle" /\ call' = NoCall /\ allocated' = << >>
    /\ UNCHANGED <<headIndex, dequeueOptimisticCount, dequeueOvercommit,
                   blocks, blockIndex, tailBlock, todo, consumer, claimed>>

(* From the last entry of the index back to i's: the division is unsigned. *)
SlotOf(h, t, i) ==
    (t + Wrap(Base(i) - key[index[h][t]]) \div BlockSize) % Capacity(h)

UndoBlock ==          \* the entry is emptied and the block given back
    /\ ppc = "undo"
    /\ LET first == Head(allocated)
           entry == index[Current][SlotOf(Current, indexTail[Current], first.base)]
       IN  /\ value' = [value EXCEPT ![entry] = Null]
           /\ pool' = pool \union {first.block}
    /\ RewindTail
    /\ allocated' = Tail(allocated)
    /\ IF Len(allocated) = 1 THEN ppc' = "idle" /\ call' = NoCall
                             ELSE UNCHANGED <<ppc, call>>
    /\ UNCHANGED <<indices, content, emptied, index, key, tailBlock, todo,
                   others>>

Produce ==
    \/ Room \/ Insert \/ InsertFails \/ NewIndex \/ Reinsert \/ InsertTail
    \/ GetBlock \/ GetBlockFails \/ Link \/ ConstructThrows
    \/ Construct \/ ConstructFails \/ Publish \/ UndoBlock
    \/ \E n \in EnqueueCounts, isSingle \in BOOLEAN : EnqueueCall(n, isSingle)

-----------------------------------------------------------------------------
(* dequeue and dequeue_bulk *)

Goto(c, to) == cpc' = [cpc EXCEPT ![c] = to]

Leave(c) ==           \* the local variables are gone
    /\ Goto(c, "idle")
    /\ want' = [want EXCEPT ![c] = 0] /\ over' = [over EXCEPT ![c] = 0]
    /\ mine' = [mine EXCEPT ![c] = 0] /\ left' = [left EXCEPT ![c] = 0]
    /\ at' = [at EXCEPT ![c] = 0] /\ expect' = [expect EXCEPT ![c] = 0]
    /\ header' = [header EXCEPT ![c] = 0] /\ slot' = [slot EXCEPT ![c] = 0]
    /\ block' = [block EXCEPT ![c] = Null] /\ part' = [part EXCEPT ![c] = 0]

Claimable(tail, count, seenOver) == Wrap(tail - (count - seenOver))

DequeueCall(c, n) ==  \* the load of tailIndex, kept in mine
    /\ cpc[c] = "idle"
    /\ want' = [want EXCEPT ![c] = n]
    /\ mine' = [mine EXCEPT ![c] = tailIndex]
    /\ Goto(c, "over")
    /\ UNCHANGED <<indices, blocks, blockIndex, producer, over, left, at,
                   header, slot, block, part, expect, enqueued, claimed>>

LoadOvercommit(c) ==
    /\ cpc[c] = "over"
    /\ over' = [over EXCEPT ![c] = dequeueOvercommit]
    /\ Goto(c, "count")
    /\ UNCHANGED <<indices, blocks, blockIndex, producer, want, mine, left, at,
                   header, slot, block, part, expect, enqueued, claimed>>

LoadCount(c) ==       \* a call that sees nothing to claim returns at once
    /\ cpc[c] = "count"
    /\ LET desired == Claimable(mine[c], dequeueOptimisticCount, over[c])
       IN  IF LessThan(0, desired)
           THEN /\ want' = [want EXCEPT ![c] = Minimum(desired, @)]
                /\ mine' = [mine EXCEPT ![c] = 0]
                /\ Goto(c, "claim")
                /\ UNCHANGED <<over, left, at, header, slot, block, part,
                               expect>>
           ELSE Leave(c)
    /\ UNCHANGED <<indices, blocks, blockIndex, producer, enqueued, claimed>>

Claim(c) ==
    /\ cpc[c] = "claim"
    /\ mine' = [mine EXCEPT ![c] = dequeueOptimisticCount]
    /\ dequeueOptimisticCount' = Wrap(dequeueOptimisticCount + want[c])
    /\ Goto(c, "decide")
    /\ UNCHANGED <<tailIndex, headIndex, dequeueOvercommit, blocks, blockIndex,
                   producer, want, over, left, at, header, slot, block, part,
                   expect, enqueued, claimed>>

DecideUnchecked(c) == \* mutant: the claim is not compared with tailIndex
    /\ cpc[c] = "decide"
    /\ left' = [left EXCEPT ![c] = want[c]] /\ Goto(c, "take")
    /\ UNCHANGED <<want, over, mine, at, header, slot, block, part, expect,
                   indices, blocks, blockIndex, producer, enqueued, claimed>>

Decide(c) ==          \* the second load of tailIndex
    /\ cpc[c] = "decide"
    /\ LET actual == Claimable(tailIndex, mine[c], over[c])
           got == IF LessThan(0, actual) THEN Minimum(want[c], actual) ELSE 0
       IN  /\ left' = [left EXCEPT ![c] = got]
           /\ Goto(c, IF got = want[c] THEN "take" ELSE "give")
    /\ UNCHANGED <<want, over, mine, at, header, slot, block, part, expect,
                   indices, blocks, blockIndex, producer, enqueued, claimed>>

GiveBack(c) ==        \* what others claimed meanwhile
    /\ cpc[c] = "give"
    /\ dequeueOvercommit' = Wrap(dequeueOvercommit + (want[c] - left[c]))
    /\ \A d \in Consumers : cpc[d] \in {"count", "claim"} =>
            Wrap(dequeueOvercommit' - over[d]) <= MaxLate
    /\ IF left[c] = 0 THEN Leave(c)
       ELSE /\ Goto(c, "take")
            /\ UNCHANGED <<want, over, mine, left, at, header, slot, block,
                           part, expect>>
    /\ UNCHANGED <<tailIndex, headIndex, dequeueOptimisticCount, blocks,
                   blockIndex, producer, enqueued, claimed>>

Take(c) ==            \* its elements are those from headIndex on
    /\ cpc[c] = "take"
    /\ at' = [at EXCEPT ![c] = headIndex]
    /\ headIndex' = Wrap(headIndex + left[c])
    /\ expect' = [expect EXCEPT ![c] = claimed]
    /\ claimed' = claimed + left[c]
    /\ want' = [want EXCEPT ![c] = 0] /\ over' = [over EXCEPT ![c] = 0]
    /\ mine' = [mine EXCEPT ![c] = 0]
    /\ Goto(c, "index")
    /\ UNCHANGED <<tailIndex, dequeueOptimisticCount, dequeueOvercommit,
                   blocks, blockIndex, producer, left, header, slot, block,
                   part, enqueued>>

(* get_block_index_index_for_index: the index, its tail, and the key there. *)
LoadIndex(c) ==
    /\ cpc[c] = "index"
    /\ header' = [header EXCEPT ![c] = Current]
    /\ Goto(c, "tail")
    /\ UNCHANGED <<indices, blocks, blockIndex, producer, want, over, mine,
                   left, at, slot, block, part, expect, enqueued, claimed>>

LoadTail(c) ==
    /\ cpc[c] = "tail"
    /\ slot' = [slot EXCEPT ![c] = indexTail[header[c]]]
    /\ Goto(c, "key")
    /\ UNCHANGED <<indices, blocks, blockIndex, producer, want, over, mine,
                   left, at, header, block, part, expect, enqueued, claimed>>

LoadKey(c) ==
    /\ cpc[c] = "key"
    /\ slot' = [slot EXCEPT ![c] = SlotOf(header[c], slot[c], at[c])]
    /\ Goto(c, "move")
    /\ UNCHANGED <<indices, blocks, blockIndex, producer, want, over, mine,
                   left, at, header, block, part, expect, enqueued, claimed>>

EntryOf(c) == index[header[c]][slot[c]]
PartOf(c) == Minimum(left[c], BlockSize - (at[c] % BlockSize))
PlacesOf(c) == {(at[c] + i) % BlockSize : i \in 0 .. (PartOf(c) - 1)}

Move(c) ==            \* and destroy; an assignment that throws also destroys
    /\ cpc[c] = "move"
    /\ LET b == value[EntryOf(c)]
           n == PartOf(c)
       IN  /\ block' = [block EXCEPT ![c] = b]
           /\ content' = [content EXCEPT ![b] =
                [i \in Places |-> IF i \in PlacesOf(c) THEN 0 ELSE @[i]]]
           /\ part' = [part EXCEPT ![c] = n]
           /\ left' = [left EXCEPT ![c] = @ - n]
           /\ at' = [at EXCEPT ![c] = Wrap(@ + n)]
           /\ expect' = [expect EXCEPT ![c] = @ + n]
    /\ Goto(c, "empty")
    /\ UNCHANGED <<indices, emptied, pool, blockIndex, producer, want, over,
                   mine, header, slot, enqueued, claimed>>

NextBlock(c) ==
    IF left[c] = 0 THEN Leave(c)
    ELSE /\ slot' = [slot EXCEPT ![c] = (@ + 1) % Capacity(header[c])]
         /\ part' = [part EXCEPT ![c] = 0]
         /\ block' = [block EXCEPT ![c] = Null]
         /\ Goto(c, "move")
         /\ UNCHANGED <<want, over, mine, left, at, header, expect>>

Emptied(c) ==         \* this consumer emptied the block: it gives it back
    Goto(c, "null") /\ UNCHANGED <<want, over, mine, left, at, header, slot,
                                   block, part, expect>>

SetEmptyByLast(c) ==  \* mutant: the last place empties the block
    /\ cpc[c] = "empty"
    /\ emptied' = [emptied EXCEPT ![block[c]] = @ + part[c]]
    /\ IF at[c] % BlockSize = 0 THEN Emptied(c) ELSE NextBlock(c)
    /\ UNCHANGED <<indices, content, pool, blockIndex, producer, enqueued,
                   claimed>>

SetEmpty(c) ==        \* set_empty, set_many_empty
    /\ cpc[c] = "empty"
    /\ emptied' = [emptied EXCEPT ![block[c]] = @ + part[c]]
    /\ IF emptied[block[c]] + part[c] = BlockSize THEN Emptied(c)
                                                  ELSE NextBlock(c)
    /\ UNCHANGED <<indices, content, pool, blockIndex, producer, enqueued,
                   claimed>>

NullEntry(c) ==
    /\ cpc[c] = "null"
    /\ value' = [value EXCEPT ![EntryOf(c)] = Null]
    /\ Goto(c, "free")
    /\ UNCHANGED <<indices, blocks, index, indexTail, key, producer, want,
                   over, mine, left, at, header, slot, block, part, expect,
                   enqueued, claimed>>

Free(c) ==            \* add_block_to_free_list
    /\ cpc[c] = "free"
    /\ pool' = pool \union {block[c]}
    /\ NextBlock(c)
    /\ UNCHANGED <<indices, content, emptied, blockIndex, producer, enqueued,
                   claimed>>

Consume(c) ==
    \/ LoadOvercommit(c) \/ LoadCount(c) \/ Claim(c) \/ Decide(c)
    \/ GiveBack(c) \/ Take(c) \/ LoadIndex(c) \/ LoadTail(c) \/ LoadKey(c)
    \/ Move(c) \/ SetEmpty(c) \/ NullEntry(c) \/ Free(c)
    \/ \E n \in DequeueCounts : DequeueCall(c, n)

Next == Produce \/ \E c \in Consumers : Consume(c)

Spec == Init /\ [][Next]_vars

-----------------------------------------------------------------------------
TypeOK ==
    /\ {tailIndex, headIndex, dequeueOptimisticCount, dequeueOvercommit}
            \subseteq 0 .. (IndexValues - 1)
    /\ content \in [Blocks -> [Places -> Nat]]
    /\ emptied \in [Blocks -> 0 .. BlockSize]
    /\ pool \subseteq Blocks
    /\ Len(index) = Len(indexTail) /\ Len(index) <= MaxIndexes
    /\ \A h \in 1 .. Len(index) :
        /\ index[h] \in [0 .. (InitialCapacity * 2^(h - 1) - 1) -> Entries]
        /\ indexTail[h] \in DOMAIN index[h]
    /\ key \in [Entries -> 0 .. (IndexValues - 1)]
    /\ value \in [Entries -> Blocks \union {Null}]
    /\ tailBlock \in Blocks \union {Null}

(* A consumer finds its block: the entry that it computes from the last entry
   of the index is that of its element, whatever the producer inserts, takes
   back or copies to a larger index in the meantime. *)
EntryIsFound ==
    \A c \in Consumers :
        /\ cpc[c] = "key" => key[index[header[c]][slot[c]]] # InvalidBase
        /\ cpc[c] = "move" => /\ key[EntryOf(c)] = Base(at[c])
                              /\ value[EntryOf(c)] # Null

(* What a consumer moves out of the block is the element it claimed: the
   elements go out once, in the order in which they came in, and no block is
   filled again before the last of its elements is out. *)
RightElement ==
    \A c \in Consumers : cpc[c] = "move" /\ value[EntryOf(c)] # Null =>
        \A i \in 0 .. (PartOf(c) - 1) :
            content[value[EntryOf(c)]][(at[c] + i) % BlockSize]
                = expect[c] + 1 + i

(* No more is claimed than was enqueued, also by claims under way. *)
ClaimedIsEnqueued == claimed <= enqueued

(* The assertion of insert_block_index_entry: in a new index the place after
   the last entry is free. *)
NewIndexHasRoom ==
    ppc = "reinsert" => key[NextEntry] = InvalidBase

(* The index is sound: it leads each consumer to the block of what it claimed,
   and claims stay within what was enqueued. *)
IndexIsSound ==
    TypeOK /\ EntryIsFound /\ NewIndexHasRoom /\ ClaimedIsEnqueued

(* At rest every block is in the pool or is one that the destructor walks to
   from headIndex to tailIndex, and it frees none twice: no failure, and no
   race for the last element of a block, loses or duplicates a block. *)
WalkLength == Wrap(tailIndex - headIndex)

Walked ==
    {value[index[Current][SlotOf(Current, indexTail[Current],
                                 Wrap(headIndex + i))]]
        : i \in 0 .. (WalkLength - 1)}

Destroyed ==
    Walked \union (IF tailBlock # Null /\ (WalkLength > 0
                                           \/ tailIndex % BlockSize # 0)
                   THEN {tailBlock} ELSE {})

AtRest == ppc = "idle" /\ \A c \in Consumers : cpc[c] = "idle"

BlocksAreKept ==
    AtRest => /\ pool \union Destroyed = Blocks
              /\ pool \intersect Destroyed = {}
              /\ WalkLength > 0 => tailBlock \in Walked
=============================================================================
