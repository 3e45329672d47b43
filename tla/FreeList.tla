------------------------------ MODULE FreeList ------------------------------
(***************************************************************************)
(* FreeList of ctpmdapi/concurrentqueue.h, the lock-free pool of blocks of *)
(* the task queue: the worker adds the blocks that it has emptied, the     *)
(* callback thread gets them. One action per atomic operation, with        *)
(* sequentially consistent memory.                                         *)
(***************************************************************************)
EXTENDS Naturals, FiniteSets

CONSTANTS Threads,
          Nodes,             \* the blocks
          Null,              \* no node
          ShouldBeOnFreeList \* the flag, above any count of references

ASSUME ThreadsAssumption == IsFiniteSet(Threads)
ASSUME NodesAssumption == Null \notin Nodes
ASSUME FlagAssumption ==
    /\ ShouldBeOnFreeList \in Nat
    /\ Cardinality(Threads) + 1 < ShouldBeOnFreeList

VARIABLES
    freeListHead,
    freeListRefs,   \* of each node: the flag plus its references
    freeListNext,   \* of each node
    fresh,          \* the nodes that were never allocated
    owned,          \* the nodes that each thread holds outside the list
    pc,             \* where each thread is
    head, next, refs, \* the local variables of try_get
    node, seen      \* those of add_knowing_refcount_is_zero: node and head

shared == <<freeListHead, freeListRefs, freeListNext, fresh, owned>>
getLocals == <<head, next, refs>>
addLocals == <<node, seen>>
vars == <<shared, pc, getLocals, addLocals>>

(* try_get: load, refs, ref, next, cas, got, unref; add: flag; and
   add_knowing_refcount_is_zero, called by both: first, link, count, push,
   undo. A thread that has head # Null there was called by try_get. *)
GetPc == {"load", "refs", "ref", "next", "cas", "got", "unref"}
AddPc == {"first", "link", "count", "push", "undo"}
Pc == {"idle", "flag"} \union GetPc \union AddPc

References(n) == freeListRefs[n] % ShouldBeOnFreeList     \* & REFS_MASK

Init ==
    /\ freeListHead = Null
    /\ freeListRefs = [n \in Nodes |-> 0]
    /\ freeListNext = [n \in Nodes |-> Null]
    /\ fresh = Nodes
    /\ owned = [t \in Threads |-> {}]
    /\ pc = [t \in Threads |-> "idle"]
    /\ head = [t \in Threads |-> Null] /\ next = head
    /\ refs = [t \in Threads |-> 0]
    /\ node = head /\ seen = head

Goto(t, to) == pc' = [pc EXCEPT ![t] = to]

SetRefs(n, count) == freeListRefs' = [freeListRefs EXCEPT ![n] = count]

Return(t) == Goto(t, "idle")

-----------------------------------------------------------------------------
(* A block of the initial pool or of malloc, which was never on the list. *)
Allocate(t, n) ==
    /\ pc[t] = "idle" /\ n \in fresh
    /\ fresh' = fresh \ {n}
    /\ owned' = [owned EXCEPT ![t] = @ \union {n}]
    /\ UNCHANGED <<freeListHead, freeListRefs, freeListNext, pc, getLocals,
                   addLocals>>

AddCall(t, n) ==                \* add(n), by the thread that holds n
    /\ pc[t] = "idle" /\ n \in owned[t]
    /\ owned' = [owned EXCEPT ![t] = @ \ {n}]
    /\ node' = [node EXCEPT ![t] = n]
    /\ Goto(t, "flag")
    /\ UNCHANGED <<freeListHead, freeListRefs, freeListNext, fresh, getLocals,
                   seen>>

AddRegardless(t) ==             \* mutant: the old count is not looked at
    /\ pc[t] = "flag"
    /\ SetRefs(node[t], freeListRefs[node[t]] + ShouldBeOnFreeList)
    /\ Goto(t, "first") /\ UNCHANGED <<node>>
    /\ UNCHANGED <<freeListHead, freeListNext, fresh, owned, getLocals, seen>>

AddFlag(t) ==                   \* fetch_add(SHOULD_BE_ON_FREELIST)
    /\ pc[t] = "flag"
    /\ SetRefs(node[t], freeListRefs[node[t]] + ShouldBeOnFreeList)
    /\ IF freeListRefs[node[t]] = 0
       THEN Goto(t, "first") /\ UNCHANGED <<node>>
       ELSE Return(t) /\ node' = [node EXCEPT ![t] = Null]
    /\ UNCHANGED <<freeListHead, freeListNext, fresh, owned, getLocals, seen>>

-----------------------------------------------------------------------------
(* add_knowing_refcount_is_zero(node) *)

AddFirst(t) ==
    /\ pc[t] = "first"
    /\ seen' = [seen EXCEPT ![t] = freeListHead]
    /\ Goto(t, "link")
    /\ UNCHANGED <<shared, getLocals, node>>

AddLink(t) ==
    /\ pc[t] = "link"
    /\ freeListNext' = [freeListNext EXCEPT ![node[t]] = seen[t]]
    /\ Goto(t, "count")
    /\ UNCHANGED <<freeListHead, freeListRefs, fresh, owned, getLocals,
                   addLocals>>

AddCount(t) ==
    /\ pc[t] = "count"
    /\ SetRefs(node[t], 1)
    /\ Goto(t, "push")
    /\ UNCHANGED <<freeListHead, freeListNext, fresh, owned, getLocals,
                   addLocals>>

LeaveAdd(t) ==                  \* back to the caller: add or try_get
    /\ node' = [node EXCEPT ![t] = Null]
    /\ seen' = [seen EXCEPT ![t] = Null]
    /\ IF head[t] # Null THEN Goto(t, "refs")
                         ELSE Return(t)

AddPush(t) ==                   \* a lost compare-exchange loads the head
    /\ pc[t] = "push"
    /\ IF freeListHead = seen[t]
       THEN freeListHead' = node[t] /\ LeaveAdd(t)
       ELSE /\ seen' = [seen EXCEPT ![t] = freeListHead]
            /\ Goto(t, "undo")
            /\ UNCHANGED <<freeListHead, node>>
    /\ UNCHANGED <<freeListRefs, freeListNext, fresh, owned, getLocals>>

AddUndo(t) ==                   \* nobody else holds it: push once more
    /\ pc[t] = "undo"
    /\ SetRefs(node[t], freeListRefs[node[t]] + ShouldBeOnFreeList - 1)
    /\ IF freeListRefs[node[t]] = 1
       THEN Goto(t, "link") /\ UNCHANGED <<addLocals>>
       ELSE LeaveAdd(t)
    /\ UNCHANGED <<freeListHead, freeListNext, fresh, owned, getLocals>>

-----------------------------------------------------------------------------
(* try_get *)

GetCall(t) ==
    /\ pc[t] = "idle"
    /\ Goto(t, "load")
    /\ UNCHANGED <<shared, getLocals, addLocals>>

GetLoad(t) ==
    /\ pc[t] = "load"
    /\ head' = [head EXCEPT ![t] = freeListHead]
    /\ IF freeListHead = Null THEN Return(t)
                              ELSE Goto(t, "refs")
    /\ UNCHANGED <<shared, next, refs, addLocals>>

GetRefsUnmasked(t) ==           \* mutant: the flag counts as a reference
    /\ pc[t] = "refs"
    /\ refs' = [refs EXCEPT ![t] = freeListRefs[head[t]]]
    /\ Goto(t, IF freeListRefs[head[t]] = 0 THEN "load" ELSE "ref")
    /\ UNCHANGED <<shared, head, next, addLocals>>

GetRefs(t) ==
    /\ pc[t] = "refs"
    /\ refs' = [refs EXCEPT ![t] = freeListRefs[head[t]]]
    /\ Goto(t, IF References(head[t]) = 0 THEN "load" ELSE "ref")
    /\ UNCHANGED <<shared, head, next, addLocals>>

GetUncounted(t) ==              \* mutant: no reference while next is read
    /\ pc[t] = "ref"
    /\ refs' = [refs EXCEPT ![t] = 0]
    /\ Goto(t, "next") /\ UNCHANGED freeListRefs
    /\ UNCHANGED <<freeListHead, freeListNext, fresh, owned, head, next,
                   addLocals>>

GetRef(t) ==                    \* refs to refs + 1, if it has not changed
    /\ pc[t] = "ref"
    /\ refs' = [refs EXCEPT ![t] = 0]
    /\ IF freeListRefs[head[t]] = refs[t]
       THEN SetRefs(head[t], refs[t] + 1) /\ Goto(t, "next")
       ELSE Goto(t, "load") /\ UNCHANGED freeListRefs
    /\ UNCHANGED <<freeListHead, freeListNext, fresh, owned, head, next,
                   addLocals>>

GetNext(t) ==
    /\ pc[t] = "next"
    /\ next' = [next EXCEPT ![t] = freeListNext[head[t]]]
    /\ Goto(t, "cas")
    /\ UNCHANGED <<shared, head, refs, addLocals>>

GetCas(t) ==                    \* take the head off, or load the new one
    /\ pc[t] = "cas"
    /\ next' = [next EXCEPT ![t] = Null]
    /\ IF freeListHead = head[t]
       THEN /\ freeListHead' = next[t] /\ Goto(t, "got")
            /\ UNCHANGED <<head, node>>
       ELSE /\ node' = [node EXCEPT ![t] = head[t]]        \* prevHead
            /\ head' = [head EXCEPT ![t] = freeListHead]
            /\ Goto(t, "unref") /\ UNCHANGED freeListHead
    /\ UNCHANGED <<freeListRefs, freeListNext, fresh, owned, refs, seen>>

GetGot(t) ==                    \* its own reference and the list's
    /\ pc[t] = "got"
    /\ SetRefs(head[t], freeListRefs[head[t]] - 2)
    /\ owned' = [owned EXCEPT ![t] = @ \union {head[t]}]
    /\ head' = [head EXCEPT ![t] = Null]
    /\ Return(t)
    /\ UNCHANGED <<freeListHead, freeListNext, fresh, next, refs, addLocals>>

GetUnrefOnly(t) ==              \* mutant: it leaves the adding to others
    /\ pc[t] = "unref"
    /\ SetRefs(node[t], freeListRefs[node[t]] - 1)
    /\ node' = [node EXCEPT ![t] = Null]
    /\ IF head[t] # Null THEN Goto(t, "refs")
                         ELSE Return(t)
    /\ UNCHANGED <<freeListHead, freeListNext, fresh, owned, getLocals, seen>>

GetUnref(t) ==                  \* the last to let go of it adds it
    /\ pc[t] = "unref"
    /\ SetRefs(node[t], freeListRefs[node[t]] - 1)
    /\ IF freeListRefs[node[t]] = ShouldBeOnFreeList + 1
       THEN Goto(t, "first") /\ UNCHANGED <<node>>
       ELSE /\ node' = [node EXCEPT ![t] = Null]
            /\ IF head[t] # Null THEN Goto(t, "refs")
                                 ELSE Return(t)
    /\ UNCHANGED <<freeListHead, freeListNext, fresh, owned, getLocals, seen>>

-----------------------------------------------------------------------------
Step(t) ==
    \/ AddFlag(t) \/ AddFirst(t) \/ AddLink(t) \/ AddCount(t) \/ AddPush(t)
    \/ AddUndo(t)
    \/ GetLoad(t) \/ GetRefs(t) \/ GetRef(t) \/ GetNext(t) \/ GetCas(t)
    \/ GetGot(t) \/ GetUnref(t)

Next ==
    \E t \in Threads :
        \/ Step(t) \/ GetCall(t)
        \/ \E n \in Nodes : Allocate(t, n) \/ AddCall(t, n)

Spec == Init /\ [][Next]_vars

-----------------------------------------------------------------------------
TypeOK ==
    /\ freeListHead \in Nodes \union {Null}
    /\ freeListRefs \in [Nodes -> Nat]
    /\ freeListNext \in [Nodes -> Nodes \union {Null}]
    /\ fresh \subseteq Nodes /\ owned \in [Threads -> SUBSET Nodes]
    /\ pc \in [Threads -> Pc]
    /\ {head, next, node, seen} \subseteq [Threads -> Nodes \union {Null}]
    /\ refs \in [Threads -> Nat]
    /\ \A t \in Threads :
        /\ pc[t] \in GetPc \ {"load", "unref"} => head[t] # Null
        /\ pc[t] \in AddPc \union {"flag", "unref"} => node[t] # Null

(* The nodes on the list: those that the head and the links lead to. *)
LeadsInto(S) ==
    {freeListHead} \union {freeListNext[n] : n \in S} \subseteq S \union {Null}

Listed == {n \in Nodes : \A S \in SUBSET Nodes : LeadsInto(S) => n \in S}

Held(t) == owned[t] \union (IF pc[t] = "got" THEN {head[t]} ELSE {})

(* A node is held by one thread at most, and not while it is on the list:
   a block never gets to two producers, although try_get may have read the
   next of a head that was taken off and put back in between. *)
HeldOnce ==
    /\ \A t \in Threads : Held(t) \intersect (Listed \union fresh) = {}
    /\ \A t, u \in Threads : t # u => Held(t) \intersect Held(u) = {}

(* The list has no cycle, so whoever walks it comes to its end. *)
ListEnds ==
    freeListHead # Null => \E n \in Listed : freeListNext[n] = Null

(* The assertion of try_get: a node just taken off the list is not flagged
   to go back to it. *)
GotIsNotFlagged ==
    \A t \in Threads :
        pc[t] = "got" => freeListRefs[head[t]] < ShouldBeOnFreeList

(* Only one thread at a time runs add_knowing_refcount_is_zero on a node. *)
OneAdder ==
    \A t, u \in Threads :
        t # u /\ {pc[t], pc[u]} \subseteq {"first", "link", "count"}
            => node[t] # node[u]

(* The list hands out each block once, ends, and is changed by one adder of a
   node at a time, however the reads of its head are overtaken. *)
ListIsSound ==
    TypeOK /\ HeldOnce /\ ListEnds /\ GotIsNotFlagged /\ OneAdder

(* While nobody is inside a call, every node is fresh, held or on the list,
   and the counts are what add and try_get take them to be: no block is lost
   when its last reference goes in the middle of an add. *)
NoneLostAtRest ==
    (\A t \in Threads : pc[t] = "idle") =>
        /\ Nodes = fresh \union Listed \union UNION {owned[t] : t \in Threads}
        /\ \A n \in Nodes : freeListRefs[n] = IF n \in Listed THEN 1 ELSE 0
=============================================================================
